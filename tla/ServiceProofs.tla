---------------------------- MODULE ServiceProofs ----------------------------
(***************************************************************************)
(* HidReports implements ConcurrentService, for every number of adapters,  *)
(* ports, pending reads, callers and requests: each step of the driver is  *)
(* one of the service or changes nothing that the class driver can see.    *)
(***************************************************************************)
EXTENDS HidReportsProofs

\* The service's variables that are not the driver's own.
Taken == [d \in Device |-> HeldBy(d)]
Known == [q \in Request |-> IF q \in Held THEN seen[HolderOf(q)] ELSE {}]
Labels == [q \in Request |-> IF q \in Held THEN label[HolderOf(q)] ELSE 0]

ServiceInv == RequestInv /\ ControlInv

\* Functions that give a held request what its holder has for it, and others nothing.
IsView(known, labels, hands, values, labelled) ==
    /\ known = [q \in Request |-> known[q]]
    /\ labels = [q \in Request |-> labels[q]]
    /\ \A r \in Reader : hands[r] # NoRequest =>
          known[hands[r]] = values[r] /\ labels[hands[r]] = labelled[r]
    /\ \A q \in Request : (\A r \in Reader : hands[r] # q) =>
          known[q] = {} /\ labels[q] = 0

\* A request in somebody's hands is in those of nobody else.
LEMMA SoleHolder ==
    ASSUME RequestInv, NEW r \in Reader, hand[r] # NoRequest
    PROVE  hand[r] \in Request /\ hand[r] \in Held /\ HolderOf(hand[r]) = r
<1>1. hand[r] \in Request /\ hand[r] \in Held
  BY DEF RequestInv, TypeOK, Held
<1>2. \A s \in Reader : hand[s] = hand[r] => s = r
  BY DEF RequestInv, RequestsConserved
<1>3. (CHOOSE s \in Reader : hand[s] = hand[r]) = r
  BY <1>2
<1> QED
  BY <1>1, <1>3 DEF HolderOf

\* So is it after a step.
LEMMA SoleHolderNext ==
    ASSUME RequestInv', NEW r \in Reader, hand'[r] # NoRequest
    PROVE  hand'[r] \in Request /\ hand'[r] \in Held' /\ (HolderOf(hand[r]))' = r
<1>1. hand'[r] \in Request /\ hand'[r] \in Held'
  BY DEF RequestInv, TypeOK, Held
<1>2. \A s \in Reader : hand'[s] = hand'[r] => s = r
  BY DEF RequestInv, RequestsConserved
<1>3. (CHOOSE s \in Reader : hand'[s] = hand'[r]) = r
  BY <1>2
<1> QED
  BY <1>1, <1>3 DEF HolderOf

\* Known and Labels are such functions, now ..
LEMMA ViewNow == RequestInv => IsView(Known, Labels, hand, seen, label)
<1> SUFFICES ASSUME RequestInv PROVE IsView(Known, Labels, hand, seen, label)
  OBVIOUS
<1>1. ASSUME NEW r \in Reader, hand[r] # NoRequest
      PROVE  Known[hand[r]] = seen[r] /\ Labels[hand[r]] = label[r]
  BY <1>1, SoleHolder DEF Known, Labels
<1>2. ASSUME NEW q \in Request, \A r \in Reader : hand[r] # q
      PROVE  Known[q] = {} /\ Labels[q] = 0
  BY <1>2 DEF Known, Labels, Held
<1>3. /\ Known = [q \in Request |-> Known[q]]
      /\ Labels = [q \in Request |-> Labels[q]]
  BY DEF Known, Labels
<1> QED
  BY <1>1, <1>2, <1>3 DEF IsView

\* .. and after a step.
LEMMA ViewNext == RequestInv' => IsView(Known', Labels', hand', seen', label')
<1> SUFFICES ASSUME RequestInv' PROVE IsView(Known', Labels', hand', seen', label')
  OBVIOUS
<1>1. ASSUME NEW r \in Reader, hand'[r] # NoRequest
      PROVE  Known'[hand'[r]] = seen'[r] /\ Labels'[hand'[r]] = label'[r]
  BY <1>1, SoleHolderNext DEF Known, Labels
<1>2. ASSUME NEW q \in Request, \A r \in Reader : hand'[r] # q
      PROVE  Known'[q] = {} /\ Labels'[q] = 0
  BY <1>2 DEF Known, Labels, Held
<1>3. /\ Known' = [q \in Request |-> Known'[q]]
      /\ Labels' = [q \in Request |-> Labels'[q]]
  BY DEF Known, Labels
<1> QED
  BY <1>1, <1>2, <1>3 DEF IsView

\* There is one such pair of functions.
LEMMA ViewUnique ==
    ASSUME NEW k1, NEW l1, NEW k2, NEW l2, NEW h, NEW v, NEW b,
           IsView(k1, l1, h, v, b), IsView(k2, l2, h, v, b),
           \A r \in Reader : h[r] \in Request \cup {NoRequest}
    PROVE  k1 = k2 /\ l1 = l2
<1> SUFFICES ASSUME NEW q \in Request PROVE k1[q] = k2[q] /\ l1[q] = l2[q]
  BY DEF IsView
<1>1. ASSUME NEW r \in Reader, h[r] = q PROVE k1[q] = k2[q] /\ l1[q] = l2[q]
  <2>1. h[r] # NoRequest
    BY <1>1, RequestAssumption
  <2> QED
    BY <1>1, <2>1 DEF IsView
<1>2. CASE \A r \in Reader : h[r] # q
  BY <1>2 DEF IsView
<1> QED
  BY <1>1, <1>2

\* Who has which request, with what, is not changed by a step that leaves hands alone and
\* what readers with a request have for it.
LEMMA ViewKept ==
    ASSUME RequestInv, RequestInv', hand' = hand,
           \A r \in Reader : hand[r] # NoRequest => seen'[r] = seen[r] /\ label'[r] = label[r]
    PROVE  Taken' = Taken /\ Known' = Known /\ Labels' = Labels
<1>1. IsView(Known, Labels, hand, seen, label)
  BY ViewNow
<1>2. IsView(Known', Labels', hand, seen, label)
  <2>1. IsView(Known', Labels', hand', seen', label')
    BY ViewNext
  <2> QED
    BY <2>1 DEF IsView
<1>3. Known' = Known /\ Labels' = Labels
  BY <1>1, <1>2, ViewUnique DEF RequestInv, TypeOK
<1>4. Taken' = Taken
  BY DEF Taken, HeldBy
<1> QED
  BY <1>3, <1>4

\* A step that changes nothing of this, nor queues, counter and reports, is not seen.
LEMMA Unseen ==
    ASSUME RequestInv, RequestInv', UNCHANGED <<interruptMsgQueue, hand, id, sent>>,
           \A r \in Reader : hand[r] # NoRequest => seen'[r] = seen[r] /\ label'[r] = label[r]
    PROVE  UNCHANGED Concurrent!vars
<1>1. Taken' = Taken /\ Known' = Known /\ Labels' = Labels
  BY ViewKept
<1> QED
  BY <1>1 DEF Concurrent!vars, Taken, Known, Labels

\* What a handler in possession of a request has for it, before and after a step.
LEMMA InHand ==
    ASSUME ServiceInv, RequestInv', NEW r \in Reader, NEW q, hand[r] = q, q # NoRequest,
           hand' = hand
    PROVE  /\ q \in Request /\ q \in Taken[DevOf[r]] /\ DevOf[r] \in Device
           /\ Known[q] = seen[r] /\ Labels[q] = label[r]
           /\ Known'[q] = seen'[r] /\ Labels'[q] = label'[r]
           /\ \A s \in Reader : s # r => hand[s] # q
           /\ Taken' = Taken
<1>1. /\ IsView(Known, Labels, hand, seen, label)
      /\ IsView(Known', Labels', hand', seen', label')
  BY ViewNow, ViewNext DEF ServiceInv
<1>2. q \in Request
  BY DEF ServiceInv, RequestInv, TypeOK
<1>3. DevOf[r] \in Device
  BY ThreadAssumption DEF Thread
<1>4. q \in Taken[DevOf[r]]
  BY <1>3 DEF Taken, HeldBy, Readers
<1>5. \A s \in Reader : s # r => hand[s] # q
  BY DEF ServiceInv, RequestInv, RequestsConserved
<1>6. Taken' = Taken
  BY DEF Taken, HeldBy
<1> QED
  BY <1>1, <1>2, <1>3, <1>4, <1>5, <1>6 DEF IsView

\* Entering prepare_report is the look at the counter.
LEMMA ServiceLook ==
    ASSUME ServiceInv, RequestInv', NEW r \in Reader, NEW q, hand[r] = q,
           EnterPrepareReport(r)
    PROVE  Concurrent!Next
<1> USE ThreadAssumption DEF Thread
<1>0. TypeOK /\ ControlState(r) /\ pc[r] = "enter" /\ q # NoRequest
  BY DEF EnterPrepareReport, ServiceInv, ControlInv, RequestInv, HandlerHoldsRequest, Handling
<1>1. /\ UNCHANGED <<interruptMsgQueue, hand, label, id, sent>>
      /\ seen' = [seen EXCEPT ![r] = {id}]
  BY DEF EnterPrepareReport, requestVars
<1>2. seen[r] = {} /\ label[r] = 0
  BY <1>0 DEF ControlState, InPrepare
<1>3. /\ q \in Request /\ q \in Taken[DevOf[r]] /\ DevOf[r] \in Device
      /\ Known[q] = seen[r] /\ Labels[q] = label[r] /\ Taken' = Taken
      /\ Known'[q] = seen'[r] /\ Labels'[q] = label'[r]
      /\ \A s \in Reader : s # r => hand[s] # q
  BY <1>0, <1>1, InHand
<1>4. /\ IsView(Known, Labels, hand, seen, label)
      /\ IsView(Known', Labels', hand, seen', label)
  <2>1. IsView(Known', Labels', hand', seen', label')
    BY ViewNext
  <2> QED
    BY <1>1, <2>1, ViewNow DEF ServiceInv, IsView
<1>5. ASSUME NEW o \in Request, o # q PROVE Known'[o] = Known[o] /\ Labels'[o] = Labels[o]
  <2>1. ASSUME NEW s \in Reader, hand[s] = o PROVE Known'[o] = Known[o] /\ Labels'[o] = Labels[o]
    <3>1. s # r /\ o # NoRequest /\ seen'[s] = seen[s]
      BY <1>0, <1>1, <1>5, <2>1, RequestAssumption DEF TypeOK
    <3> QED
      BY <1>4, <2>1, <3>1 DEF IsView
  <2>2. CASE \A s \in Reader : hand[s] # o
    BY <1>4, <2>2 DEF IsView
  <2> QED
    BY <2>1, <2>2
<1>6. Known' = [Known EXCEPT ![q] = {id}] /\ Labels' = Labels
  <2>1. Known'[q] = {id} /\ Labels'[q] = Labels[q]
    BY <1>0, <1>1, <1>3 DEF TypeOK
  <2> QED
    BY <1>4, <1>5, <2>1 DEF IsView
<1>7. Concurrent!Look(q)
  BY <1>1, <1>2, <1>3, <1>6 DEF Concurrent!Look, Concurrent!Fresh, Taken, Known, Labels
<1> QED
  BY <1>3, <1>7 DEF Concurrent!Next, Taken

\* Labelling the report and advancing the counter.
LEMMA ServiceCount ==
    ASSUME ServiceInv, RequestInv', NEW r \in Reader, NEW q, hand[r] = q, AdvanceId(r)
    PROVE  Concurrent!Next
<1> USE ThreadAssumption DEF Thread
<1>0. TypeOK /\ pc[r] = "advance" /\ q # NoRequest
  BY DEF AdvanceId, ServiceInv, ControlInv, RequestInv, HandlerHoldsRequest, Handling,
         InPrepare
<1>1. /\ UNCHANGED <<interruptMsgQueue, hand, sent>>
      /\ \A s \in Reader :
            seen'[s] = IF s = r \/ seen[s] = {} THEN {} ELSE seen[s] \cup {id'}
  BY DEF AdvanceId, requestVars
<1>2. PICK i \in seen[r], j \in seen[r] :
         label' = [label EXCEPT ![r] = i] /\ id' = (j % N) + 1
  BY DEF AdvanceId, Advance
<1>3. /\ q \in Request /\ q \in Taken[DevOf[r]] /\ DevOf[r] \in Device
      /\ Known[q] = seen[r] /\ Labels[q] = label[r] /\ Taken' = Taken
      /\ Known'[q] = seen'[r] /\ Labels'[q] = label'[r]
      /\ \A s \in Reader : s # r => hand[s] # q
  BY <1>0, <1>1, InHand
<1>4. /\ IsView(Known, Labels, hand, seen, label)
      /\ IsView(Known', Labels', hand, seen', label')
  <2>1. IsView(Known', Labels', hand', seen', label')
    BY ViewNext
  <2> QED
    BY <1>1, <2>1, ViewNow DEF ServiceInv, IsView
<1>5. ASSUME NEW o \in Request, o # q
      PROVE  /\ Known'[o] = IF Known[o] = {} THEN {} ELSE Known[o] \cup {id'}
             /\ Labels'[o] = Labels[o]
  <2>1. ASSUME NEW s \in Reader, hand[s] = o
        PROVE  /\ Known'[o] = IF Known[o] = {} THEN {} ELSE Known[o] \cup {id'}
               /\ Labels'[o] = Labels[o]
    <3>1. s # r /\ o # NoRequest /\ label'[s] = label[s]
      BY <1>0, <1>2, <1>5, <2>1, RequestAssumption DEF TypeOK
    <3> QED
      BY <1>1, <1>4, <2>1, <3>1 DEF IsView
  <2>2. CASE \A s \in Reader : hand[s] # o
    BY <1>4, <2>2 DEF IsView
  <2> QED
    BY <2>1, <2>2
<1>6. Known' = [o \in Request |->
                   IF o = q \/ Known[o] = {} THEN {} ELSE Known[o] \cup {id'}]
  <2>1. Known'[q] = {}
    BY <1>1, <1>3
  <2> QED
    BY <1>4, <1>5, <2>1 DEF IsView
<1>7. Labels' = [Labels EXCEPT ![q] = i]
  <2>1. Labels'[q] = i
    BY <1>0, <1>2, <1>3 DEF TypeOK
  <2> QED
    BY <1>4, <1>5, <2>1 DEF IsView
<1>8. Concurrent!Count(q)
  <2>1. i \in Known[q] /\ j \in Known[q]
    BY <1>3
  <2> QED
    BY <1>1, <1>2, <1>3, <1>6, <1>7, <2>1 DEF Concurrent!Count, Taken, Known, Labels
<1> QED
  BY <1>3, <1>8 DEF Concurrent!Next, Taken

\* The oldest request goes from the queue into a handler's hands, who has nothing for it yet.
LEMMA ServiceTake ==
    ASSUME ServiceInv, RequestInv', NEW r \in Reader, RetrieveNextRequest(r)
    PROVE  Concurrent!Take(DevOf[r])
<1> USE ThreadAssumption DEF Thread
<1> DEFINE d == DevOf[r]
           q == Head(interruptMsgQueue[d])
<1>0. /\ TypeOK /\ ControlState(r) /\ pc[r] = "retrieve" /\ d \in Device
      /\ interruptMsgQueue[d] # <<>>
      /\ interruptMsgQueue' = [interruptMsgQueue EXCEPT ![d] = Tail(interruptMsgQueue[d])]
      /\ hand' = [hand EXCEPT ![r] = q]
      /\ UNCHANGED <<seen, label, id, sent>>
  BY DEF RetrieveNextRequest, ServiceInv, ControlInv, TypeOK, localVars, reportVars
<1>1. q \in ToSet(interruptMsgQueue[d])
  BY <1>0, TailDistinct DEF ServiceInv, RequestInv, RequestsConserved, TypeOK
<1>2. q \in Request /\ q # NoRequest
  <2>1. interruptMsgQueue[d] \in Seq(Request)
    BY <1>0 DEF TypeOK
  <2> QED
    BY <1>0, <2>1, RequestAssumption
<1> HIDE DEF q
<1>3. /\ hand[r] = NoRequest /\ \A s \in Reader : hand[s] # q
      /\ seen[r] = {} /\ label[r] = 0
  <2>1. hand[r] = NoRequest /\ seen[r] = {} /\ label[r] = 0
    BY <1>0 DEF ServiceInv, RequestInv, HandlerHoldsRequest, Handling, InPrepare, ControlState
  <2>2. q \in Queued
    BY <1>0, <1>1 DEF Queued
  <2>3. q \notin Held
    BY <2>2 DEF ServiceInv, RequestInv, RequestsConserved
  <2> QED
    BY <1>2, <2>1, <2>3 DEF Held
<1>4. \A s \in Reader : hand'[s] = IF s = r THEN q ELSE hand[s]
  BY <1>0 DEF TypeOK
<1>5. /\ IsView(Known, Labels, hand, seen, label)
      /\ IsView(Known', Labels', hand', seen, label)
  <2>1. IsView(Known', Labels', hand', seen', label')
    BY ViewNext
  <2> QED
    BY <1>0, <2>1, ViewNow DEF ServiceInv, IsView
<1>6. IsView(Known, Labels, hand', seen, label)
  <2>1. ASSUME NEW s \in Reader, hand'[s] # NoRequest
        PROVE  Known[hand'[s]] = seen[s] /\ Labels[hand'[s]] = label[s]
    <3>1. CASE s = r
      <4>1. hand'[s] = q
        BY <1>4, <3>1
      <4>2. Known[q] = {} /\ Labels[q] = 0
        BY <1>2, <1>3, <1>5 DEF IsView
      <4> QED
        BY <1>3, <3>1, <4>1, <4>2
    <3>2. CASE s # r
      BY <1>4, <1>5, <2>1, <3>2 DEF IsView
    <3> QED
      BY <3>1, <3>2
  <2>2. ASSUME NEW o \in Request, \A s \in Reader : hand'[s] # o
        PROVE  Known[o] = {} /\ Labels[o] = 0
    <3>1. \A s \in Reader : hand[s] # o
      BY <1>3, <1>4, <2>2, RequestAssumption
    <3> QED
      BY <1>5, <3>1 DEF IsView
  <2>3. Known = [o \in Request |-> Known[o]] /\ Labels = [o \in Request |-> Labels[o]]
    BY <1>5 DEF IsView
  <2> QED
    BY <2>1, <2>2, <2>3 DEF IsView
<1>7. Known' = Known /\ Labels' = Labels
  <2>1. \A s \in Reader : hand'[s] \in Request \cup {NoRequest}
    BY <1>0, <1>2, <1>4 DEF TypeOK
  <2> QED
    BY <1>5, <1>6, <2>1, ViewUnique
<1>8. Taken' = [Taken EXCEPT ![d] = Taken[d] \cup {q}]
  <2>1. HeldBy(d)' = HeldBy(d) \cup {q}
    BY <1>2, <1>3, <1>4 DEF HeldBy, Readers
  <2>2. \A e \in Device : e # d => HeldBy(e)' = HeldBy(e)
    BY <1>4 DEF HeldBy, Readers
  <2> QED
    BY <1>0, <2>1, <2>2 DEF Taken
<1>9. Concurrent!Take(d)
  BY <1>0, <1>7, <1>8 DEF Concurrent!Take, Taken, Known, Labels, q
<1> QED
  BY <1>9

\* The request leaves the hands of the handler, by an answer or an error.
LEMMA ServiceRelease ==
    ASSUME ServiceInv, RequestInv', NEW r \in Reader, NEW q, hand[r] = q,
           CompleteReport(r) \/ CompleteWithError(r)
    PROVE  Concurrent!Next
<1> USE ThreadAssumption DEF Thread
<1> DEFINE d == DevOf[r]
<1>0. /\ TypeOK /\ ControlState(r) /\ d \in Device
      /\ pc[r] \in {"complete", "enter"} /\ q # NoRequest /\ q \in Request
  BY DEF CompleteReport, CompleteWithError, ServiceInv, ControlInv, RequestInv,
         HandlerHoldsRequest, Handling, TypeOK
<1>1. seen[r] = {} /\ (pc[r] = "complete" <=> label[r] # 0)
  BY <1>0 DEF ControlState, InPrepare
<1>2. /\ UNCHANGED <<interruptMsgQueue, seen, id>>
      /\ \A s \in Reader : hand'[s] = IF s = r THEN NoRequest ELSE hand[s]
      /\ \A s \in Reader : s # r => label'[s] = label[s]
      /\ \A s \in Reader : s # r => hand[s] # q
  BY <1>0 DEF CompleteReport, CompleteWithError, Complete, ServiceInv, RequestInv,
              RequestsConserved, localVars, reportVars, TypeOK
<1>3. /\ IsView(Known, Labels, hand, seen, label)
      /\ IsView(Known', Labels', hand', seen, label')
  <2>1. IsView(Known', Labels', hand', seen', label')
    BY ViewNext
  <2> QED
    BY <1>2, <2>1, ViewNow DEF ServiceInv, IsView
<1>4. Known[q] = {} /\ Labels[q] = label[r]
  BY <1>0, <1>1, <1>3 DEF IsView
<1>5. Known'[q] = {} /\ Labels'[q] = 0
  <2>1. \A s \in Reader : hand'[s] # q
    BY <1>0, <1>2
  <2> QED
    BY <1>0, <1>3, <2>1 DEF IsView
<1>6. ASSUME NEW o \in Request, o # q PROVE Known'[o] = Known[o] /\ Labels'[o] = Labels[o]
  <2>1. ASSUME NEW s \in Reader, hand[s] = o
        PROVE  Known'[o] = Known[o] /\ Labels'[o] = Labels[o]
    <3>1. s # r /\ o # NoRequest /\ hand'[s] = o /\ label'[s] = label[s]
      BY <1>2, <1>6, <2>1, RequestAssumption
    <3> QED
      BY <1>3, <2>1, <3>1 DEF IsView
  <2>2. CASE \A s \in Reader : hand[s] # o
    <3>1. \A s \in Reader : hand'[s] # o
      BY <1>2, <2>2, RequestAssumption
    <3> QED
      BY <1>3, <2>2, <3>1 DEF IsView
  <2> QED
    BY <2>1, <2>2
<1>7. Known' = Known /\ Labels' = [Labels EXCEPT ![q] = 0]
  <2>1. /\ Known = [o \in Request |-> Known[o]]
        /\ Labels = [o \in Request |-> Labels[o]]
        /\ Known' = [o \in Request |-> Known'[o]]
        /\ Labels' = [o \in Request |-> Labels'[o]]
    BY <1>3 DEF IsView
  <2>2. \A o \in Request :
            /\ Known'[o] = Known[o]
            /\ Labels'[o] = IF o = q THEN 0 ELSE Labels[o]
    BY <1>4, <1>5, <1>6
  <2>3. Known' = Known
    BY <2>1, <2>2
  <2>4. Labels' = [Labels EXCEPT ![q] = 0]
    BY <2>1, <2>2
  <2> QED
    BY <2>3, <2>4
<1>8. Taken' = [Taken EXCEPT ![d] = Taken[d] \ {q}] /\ q \in Taken[d]
  <2>1. HeldBy(d)' = HeldBy(d) \ {q} /\ q \in HeldBy(d)
    BY <1>0, <1>2 DEF HeldBy, Readers
  <2>2. \A e \in Device : e # d => HeldBy(e)' = HeldBy(e)
    BY <1>2 DEF HeldBy, Readers
  <2> QED
    BY <1>0, <2>1, <2>2 DEF Taken
<1>9. CASE CompleteReport(r)
  <2>1. sent' = [sent EXCEPT ![d] = [to |-> q, id |-> Labels[q]]] /\ Labels[q] # 0
    BY <1>1, <1>4, <1>9 DEF CompleteReport
  <2>2. Concurrent!Answer(d, q)
    BY <1>2, <1>7, <1>8, <2>1 DEF Concurrent!Answer, Taken, Known, Labels
  <2> QED
    BY <1>0, <1>8, <2>2 DEF Concurrent!Next, Taken
<1>10. CASE CompleteWithError(r)
  <2>1. UNCHANGED <<sent, label>> /\ label[r] = 0
    BY <1>1, <1>10 DEF CompleteWithError, localVars, reportVars
  <2>2. Labels' = Labels
    BY <1>3, <1>4, <1>7, <2>1 DEF IsView
  <2>3. Concurrent!Reject(d, q)
    BY <1>2, <1>4, <1>7, <1>8, <2>1, <2>2
    DEF Concurrent!Reject, Concurrent!Fresh, Taken, Known, Labels
  <2> QED
    BY <1>0, <1>8, <2>3 DEF Concurrent!Next, Taken
<1> QED
  BY <1>9, <1>10

\* A step of a device, its PnP and power events and its class driver.
LEMMA ServiceDevice ==
    ASSUME ServiceInv, RequestInv', NEW d \in Device, PnpPower(d) \/ HidClass(d)
    PROVE  [Concurrent!Next]_(Concurrent!vars)
<1>0. RequestInv /\ TypeOK
  BY DEF ServiceInv, RequestInv
<1>1. UNCHANGED <<hand, seen, label, id, sent>> /\ RequestInv
  BY <1>0 DEF PnpPower, DeviceAdd, PrepareHardware, D0Entry, D0Exit, Purge, HidClass,
         HidReadReport, CancelParked, requestVars, localVars, reportVars
<1>2. Taken' = Taken /\ Known' = Known /\ Labels' = Labels
  BY <1>1, ViewKept
<1>3. CASE DeviceAdd(d) \/ PrepareHardware(d) \/ D0Entry(d) \/ D0Exit(d)
  <2>1. UNCHANGED interruptMsgQueue
    BY <1>3 DEF DeviceAdd, PrepareHardware, D0Entry, D0Exit, requestVars
  <2> QED
    BY <1>1, <2>1, Unseen
<1>4. ASSUME Purge(d) PROVE Concurrent!Next
  <2>1. /\ interruptMsgQueue' = [interruptMsgQueue EXCEPT ![d] = <<>>]
        /\ \A r \in Reader : DevOf[r] = d => pc[r] = "idle"
    BY <1>4 DEF Purge, Quiet, Thread
  <2>2. \A r \in Reader : DevOf[r] = d => hand[r] = NoRequest
    BY <1>0, <2>1 DEF RequestInv, HandlerHoldsRequest, Handling, InPrepare
  <2>3. Taken[d] = {}
    BY <2>2 DEF Taken, HeldBy, Readers
  <2>4. Concurrent!Sweep(d)
    BY <1>1, <1>2, <2>1, <2>3 DEF Concurrent!Sweep, Taken, Known, Labels
  <2> QED
    BY <2>4 DEF Concurrent!Next
<1>5. ASSUME NEW q \in Request, HidReadReport(d, q) PROVE Concurrent!Next
  <2>1. /\ interruptMsgQueue' =
              [interruptMsgQueue EXCEPT ![d] = Append(interruptMsgQueue[d], q)]
        /\ q \notin Queued /\ q \notin Held
    BY <1>0, <1>5 DEF HidReadReport, RequestInv, RequestsConserved
  <2>2. ASSUME NEW e \in Device PROVE q \notin ToSet(interruptMsgQueue[e]) \cup Taken[e]
    BY <2>1 DEF Queued, Held, Taken, HeldBy, Readers
  <2>3. ~Concurrent!Busy(q)
    BY <2>2 DEF Concurrent!Busy, Concurrent!ToSet, ToSet, Taken
  <2>4. Concurrent!Park(d, q)
    BY <1>1, <1>2, <2>1, <2>3 DEF Concurrent!Park, Taken, Known, Labels
  <2> QED
    BY <2>4 DEF Concurrent!Next
<1>6. ASSUME NEW k \in DOMAIN interruptMsgQueue[d], CancelParked(d, k)
      PROVE  Concurrent!Next
  <2>1. interruptMsgQueue' =
              [interruptMsgQueue EXCEPT ![d] = RemoveAt(interruptMsgQueue[d], k)]
    BY <1>6 DEF CancelParked
  <2>2. Concurrent!Withdraw(d, k)
    BY <1>1, <1>2, <2>1
    DEF Concurrent!Withdraw, Concurrent!RemoveAt, RemoveAt, Taken, Known, Labels
  <2> QED
    BY <2>2 DEF Concurrent!Next
<1> QED
  BY <1>3, <1>4, <1>5, <1>6 DEF PnpPower, HidClass

\* A step of a handler or of what calls it.
LEMMA ServiceHandler ==
    ASSUME ServiceInv, RequestInv', NEW r \in Reader,
           CallHandler(r) \/ ReadReportHandler(r)
    PROVE  [Concurrent!Next]_(Concurrent!vars)
<1>1. CASE CallHandler(r) \/ RetrieveNothing(r)
  <2>1. UNCHANGED <<interruptMsgQueue, hand, seen, label, id, sent>>
    BY <1>1 DEF CallHandler, ReadComplete, ReadersFailed, SelfManagedIoFlush,
                RetrieveNothing, requestVars, localVars, reportVars
  <2> QED
    BY <2>1, Unseen DEF ServiceInv
<1>2. CASE \/ FindUnplugged(r) \/ FindPlugged(r) \/ AlreadyCleared(r) \/ StillSet(r)
           \/ ClearLastControllerState(r) \/ AlreadyCalibrated(r) \/ CalibrateSnapshot(r)
           \/ CalibrateStore(r) \/ SetLastControllerState(r)
  <2>1. UNCHANGED <<interruptMsgQueue, hand, seen, label, id, sent>>
    BY <1>2 DEF FindUnplugged, FindPlugged, AlreadyCleared, StillSet, Branch,
                ClearLastControllerState, AlreadyCalibrated, CalibrateSnapshot,
                CalibrateStore, SetLastControllerState, requestVars, localVars, reportVars
  <2> QED
    BY <2>1, Unseen DEF ServiceInv
<1>3. CASE RetrieveNextRequest(r)
  <2>1. DevOf[r] \in Device
    BY ThreadAssumption DEF Thread
  <2> QED
    BY <1>3, <2>1, ServiceTake DEF Concurrent!Next
<1>4. ASSUME NEW q, q = hand[r], EnterPrepareReport(r) \/ AdvanceId(r)
      PROVE  Concurrent!Next
  BY <1>4, ServiceLook, ServiceCount
<1>5. ASSUME NEW q, q = hand[r], CompleteReport(r) \/ CompleteWithError(r)
      PROVE  Concurrent!Next
  BY <1>5, ServiceRelease
<1> QED
  BY <1>1, <1>2, <1>3, <1>4, <1>5 DEF ReadReportHandler

\* Whatever the adapters, the pending reads and their interleaving, what hidclass sees of
\* the driver is the concurrent service: requests are retrieved oldest first, each answered
\* at most once, with a value that the counter had since then, and the counter is only ever
\* set to the successor of such a value.
THEOREM ImplementsConcurrentService == Spec => ServesConcurrently
<1>1. Init => Concurrent!Init
  <2> SUFFICES ASSUME Init PROVE Concurrent!Init
    OBVIOUS
  <2>1. \A r \in Reader : hand[r] = NoRequest
    BY DEF Init
  <2>2. Held = {} /\ \A d \in Device : HeldBy(d) = {}
    BY <2>1 DEF Held, HeldBy, Readers
  <2>3. /\ Taken = [d \in Device |-> {}]
        /\ Known = [q \in Request |-> {}]
        /\ Labels = [q \in Request |-> 0]
    BY <2>2 DEF Taken, Known, Labels
  <2> QED
    BY <2>3 DEF Init, Concurrent!Init, Taken, Known, Labels
<1>2. ServiceInv /\ [Next]_vars => [Concurrent!Next]_(Concurrent!vars)
  <2> SUFFICES ASSUME ServiceInv, [Next]_vars PROVE [Concurrent!Next]_(Concurrent!vars)
    OBVIOUS
  <2>1. RequestInv' /\ RequestInv
    BY RequestStep DEF ServiceInv
  <2>2. CASE (\E c \in Caller : CalibrateIoctl(c)) \/ UNCHANGED vars
    <3>1. UNCHANGED <<interruptMsgQueue, hand, seen, label, id, sent>>
      BY <2>2 DEF CalibrateIoctl, AdapterCalibrate, CallerSnapshot, CallerStore, vars,
                  requestVars, localVars, reportVars
    <3> QED
      BY <2>1, <3>1, Unseen
  <2> QED
    BY <2>1, <2>2, ServiceDevice, ServiceHandler DEF Next
<1>3. Init => ServiceInv
  BY RequestInit, ControlInit DEF ServiceInv
<1>4. ServiceInv /\ [Next]_vars => ServiceInv'
  BY RequestStep, ControlStep DEF ServiceInv
<1> QED
  BY <1>1, <1>2, <1>3, <1>4, PTL DEF Spec, ServesConcurrently, Concurrent!Spec
=============================================================================
