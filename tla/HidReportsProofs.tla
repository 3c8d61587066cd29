-------------------------- MODULE HidReportsProofs --------------------------
(***************************************************************************)
(* Theorems about HidReports, for every number of ports, devices, readers, *)
(* callers and requests.                                                   *)
(***************************************************************************)
EXTENDS HidReports, QueueLemmas, FiniteSetTheorems, TLAPS

-----------------------------------------------------------------------------
(* Lemmas about the operators the handlers are built from.                 *)

\* Advance is a cyclic successor on the ports.
LEMMA AdvancePort ==
    ASSUME NEW i \in Port
    PROVE  /\ Advance(i) \in Port
           /\ Advance(i) = IF i = N THEN 1 ELSE i + 1
BY NAssumption DEF Advance, Port

-----------------------------------------------------------------------------
(* Typing.                                                                 *)

\* The return to the handler's caller keeps power and pc well typed.
LEMMA HandlerReturnsType ==
    ASSUME TypeOK, NEW r \in Reader, NEW success \in BOOLEAN,
           HandlerReturns(r, success)
    PROVE  power' \in [Device -> PowerState] /\ pc' \in [Thread -> Control]
BY ThreadAssumption DEF TypeOK, HandlerReturns, PowerState, Control, Thread

\* Initially every variable has its type.
LEMMA InitType == Init => TypeOK
<1> SUFFICES ASSUME Init PROVE TypeOK
  OBVIOUS
<1>1. 1 \in Port /\ N \in Port /\ \A p \in Port : N - p \in Nat
  BY NAssumption DEF Port
<1>2. [p \in Port |-> N - p] \in [Port -> Nat]
  BY <1>1
<1>3. turn \in [Device -> [Port -> Nat]]
  BY <1>2 DEF Init
<1>4. sent \in [Device -> [to : Request \cup {NoRequest}, id : Port \cup {0}]]
  BY <1>1 DEF Init
<1>5. /\ pc \in [Thread -> Control] /\ power \in [Device -> PowerState]
      /\ interruptMsgQueue \in [Device -> Seq(Request)]
  BY DEF Init, Control, PowerState
<1> QED
  BY <1>1, <1>3, <1>4, <1>5 DEF Init, TypeOK

\* Every action preserves the types.
LEMMA TypeStep == TypeOK /\ [Next]_vars => TypeOK'
<1> SUFFICES ASSUME TypeOK, [Next]_vars PROVE TypeOK'
  OBVIOUS
<1> USE ThreadAssumption, RequestAssumption, NAssumption
    DEF requestVars, packetVars, calVars, localVars, reportVars, Thread
<1>1. ASSUME NEW d \in Device, DeviceAdd(d) PROVE TypeOK'
  BY <1>1 DEF TypeOK, DeviceAdd, PowerState
<1>1p. ASSUME NEW d \in Device, PrepareHardware(d) PROVE TypeOK'
  BY <1>1p DEF TypeOK, PrepareHardware
<1>2. ASSUME NEW d \in Device, D0Entry(d) PROVE TypeOK'
  BY <1>2 DEF TypeOK, D0Entry, PowerState
<1>3. ASSUME NEW d \in Device, D0Exit(d) PROVE TypeOK'
  BY <1>3 DEF TypeOK, D0Exit, PowerState
<1>4. ASSUME NEW d \in Device, Purge(d) PROVE TypeOK'
  BY <1>4 DEF TypeOK, Purge, PowerState
<1>5. ASSUME NEW d \in Device, NEW q \in Request, HidReadReport(d, q) PROVE TypeOK'
  BY <1>5 DEF TypeOK, HidReadReport
<1>6. ASSUME NEW d \in Device, NEW k \in DOMAIN interruptMsgQueue[d], CancelParked(d, k)
      PROVE  TypeOK'
  <2>1. RemoveAt(interruptMsgQueue[d], k) \in Seq(Request)
    BY RemoveAtSeq DEF TypeOK
  <2> QED
    BY <1>6, <2>1 DEF TypeOK, CancelParked
<1>7. ASSUME NEW r \in Reader, NEW S \in Packets, ReadComplete(r, S) PROVE TypeOK'
  BY <1>7, PacketsAssumption DEF TypeOK, ReadComplete, Control
<1>8. ASSUME NEW r \in Reader, ReadersFailed(r) PROVE TypeOK'
  BY <1>8 DEF TypeOK, ReadersFailed, PowerState, Control
<1>9. ASSUME NEW r \in Reader, SelfManagedIoFlush(r) PROVE TypeOK'
  BY <1>9 DEF TypeOK, SelfManagedIoFlush, PowerState, Control
<1>10. ASSUME NEW r \in Reader, RetrieveNothing(r) PROVE TypeOK'
  BY <1>10, HandlerReturnsType DEF TypeOK, RetrieveNothing
<1>11. ASSUME NEW r \in Reader, RetrieveNextRequest(r) PROVE TypeOK'
  BY <1>11 DEF TypeOK, RetrieveNextRequest, Control
<1>12. ASSUME NEW r \in Reader, CompleteWithError(r) PROVE TypeOK'
  <2>1. HandlerReturns(r, FALSE)
    BY <1>12 DEF CompleteWithError
  <2>2. power' \in [Device -> PowerState] /\ pc' \in [Thread -> Control]
    BY <2>1, HandlerReturnsType
  <2> QED
    BY <1>12, <2>2 DEF TypeOK, CompleteWithError, Complete
<1>13. ASSUME NEW r \in Reader, EnterPrepareReport(r) PROVE TypeOK'
  <2>1. [d \in Device |-> [p \in Port |-> 0]] \in [Device -> [Port -> Nat]]
    OBVIOUS
  <2> QED
    BY <1>13, <2>1 DEF TypeOK, EnterPrepareReport, Control
<1>14. ASSUME NEW r \in Reader, NEW c \in Control, Branch(r, c) PROVE TypeOK'
  BY <1>14 DEF TypeOK, Branch
<1>14a. ASSUME NEW r \in Reader,
               FindUnplugged(r) \/ FindPlugged(r) \/ AlreadyCleared(r) \/ StillSet(r)
        PROVE  TypeOK'
  BY <1>14, <1>14a DEF FindUnplugged, FindPlugged, AlreadyCleared, StillSet, Control
<1>14b. ASSUME NEW r \in Reader, ClearLastControllerState(r) PROVE TypeOK'
  BY <1>14b DEF TypeOK, ClearLastControllerState, Control
<1>15. ASSUME NEW r \in Reader, AlreadyCalibrated(r) PROVE TypeOK'
  BY <1>15 DEF TypeOK, AlreadyCalibrated, ProcessInput, Control
<1>16. ASSUME NEW r \in Reader, CalibrateSnapshot(r) PROVE TypeOK'
  BY <1>16 DEF TypeOK, CalibrateSnapshot, ProcessInput, Control
<1>17. ASSUME NEW r \in Reader, CalibrateStore(r) PROVE TypeOK'
  BY <1>17 DEF TypeOK, CalibrateStore, StoreCentres, Control
<1>18. ASSUME NEW r \in Reader, SetLastControllerState(r) PROVE TypeOK'
  BY <1>18 DEF TypeOK, SetLastControllerState, Control
<1>18a. ASSUME NEW r \in Reader, AdvanceId(r) PROVE TypeOK'
  <2>1. PICK i \in seen[r], j \in seen[r] :
          /\ label' = [label EXCEPT ![r] = i]
          /\ id' = Advance(j)
          /\ calSince' = [calSince EXCEPT ![DevOf[r]] =
                             IF from[r] = {} THEN @ \ {i} ELSE @]
    BY <1>18a DEF AdvanceId
  <2>2. i \in Port /\ id' \in Port
    BY <2>1, AdvancePort DEF TypeOK
  <2>3. /\ seen' \in [Reader -> SUBSET Port]
        /\ pc' \in [Thread -> Control]
    BY <1>18a, <2>2 DEF TypeOK, AdvanceId, Control
  <2>4. label' \in [Reader -> Port \cup {0}] /\ calSince' \in [Device -> SUBSET Port]
    BY <2>1, <2>2 DEF TypeOK
  <2> QED
    BY <1>18a, <2>2, <2>3, <2>4 DEF TypeOK, AdvanceId
<1>19. ASSUME NEW r \in Reader, CompleteReport(r) PROVE TypeOK'
  <2>1. pc[r] = "complete" /\ label[r] \in Port \cup {0}
    BY <1>19 DEF CompleteReport, TypeOK
  <2>2. turn' \in [Device -> [Port -> Nat]]
    BY <1>19 DEF TypeOK, CompleteReport
  <2>3. power' \in [Device -> PowerState] /\ pc' \in [Thread -> Control]
    BY <1>19, HandlerReturnsType DEF CompleteReport
  <2>4. sent' \in [Device -> [to : Request \cup {NoRequest}, id : Port \cup {0}]]
    BY <1>19 DEF TypeOK, CompleteReport
  <2> QED
    BY <1>19, <2>2, <2>3, <2>4 DEF TypeOK, CompleteReport, Complete
<1>20. ASSUME NEW c \in Caller, NEW mask \in SUBSET Port, AdapterCalibrate(c, mask)
       PROVE  TypeOK'
  BY <1>20 DEF TypeOK, AdapterCalibrate, Control
<1>21. ASSUME NEW c \in Caller, CallerSnapshot(c) PROVE TypeOK'
  BY <1>21 DEF TypeOK, CallerSnapshot, Control
<1>22. ASSUME NEW c \in Caller, CallerStore(c) PROVE TypeOK'
  BY <1>22 DEF TypeOK, CallerStore, StoreCentres, Control
<1>23. CASE UNCHANGED vars
  BY <1>23 DEF TypeOK, vars
<1> QED
  BY <1>1, <1>1p, <1>2, <1>3, <1>4, <1>5, <1>6, <1>7, <1>8, <1>9, <1>10, <1>11, <1>12,
     <1>13, <1>14a, <1>14b, <1>15, <1>16, <1>17, <1>18, <1>18a, <1>19, <1>20, <1>21,
     <1>22, <1>23
     DEF Next, PnpPower, HidClass, CallHandler, ReadReportHandler, CalibrateIoctl

\* In every reachable state each variable has its type; in particular id stays a port
\* number, so prepare_report never indexes outside its arrays, whatever the threads do.
THEOREM TypeCorrect == Spec => []TypeOK
BY InitType, TypeStep, PTL DEF Spec

-----------------------------------------------------------------------------
(* Conservation of requests.  Alone it is not inductive: a handler that    *)
(* retrieves a request must not already hold one, which is so because only *)
(* the control points between retrieval and completion hold a request.     *)

InPrepare == {"checkPort", "checkUnplugged", "clearLast", "checkLast", "calibrate",
              "setLast", "advance"}
Handling == {"enter", "complete"} \cup InPrepare

HandlerHoldsRequest == \A r \in Reader : hand[r] # NoRequest <=> pc[r] \in Handling

RequestInv == TypeOK /\ HandlerHoldsRequest /\ RequestsConserved

\* The steps of prepare_report.
Prepares(r) ==
    \/ EnterPrepareReport(r) \/ FindUnplugged(r) \/ FindPlugged(r) \/ AlreadyCleared(r)
    \/ StillSet(r) \/ ClearLastControllerState(r) \/ AlreadyCalibrated(r)
    \/ CalibrateSnapshot(r) \/ CalibrateStore(r) \/ SetLastControllerState(r)
    \/ AdvanceId(r)

\* They move the handler from one control point that holds a request to another, and leave
\* queues, hands and power alone.
LEMMA PreparesStep ==
    ASSUME NEW r \in Reader, Prepares(r)
    PROVE  /\ pc[r] \in Handling \ {"complete"}
           /\ \E c \in Handling \ {"enter"} : pc' = [pc EXCEPT ![r] = c]
           /\ UNCHANGED <<requestVars, power>>
<1>1. CASE EnterPrepareReport(r)
  BY <1>1 DEF EnterPrepareReport, Handling, InPrepare
<1>2. CASE FindUnplugged(r) \/ FindPlugged(r)
  BY <1>2 DEF FindUnplugged, FindPlugged, Branch, Handling, InPrepare
<1>3. CASE AlreadyCleared(r) \/ StillSet(r)
  BY <1>3 DEF AlreadyCleared, StillSet, Branch, Handling, InPrepare
<1>4. CASE ClearLastControllerState(r) \/ SetLastControllerState(r)
  BY <1>4 DEF ClearLastControllerState, SetLastControllerState, Handling, InPrepare
<1>5. CASE AlreadyCalibrated(r) \/ CalibrateSnapshot(r) \/ CalibrateStore(r)
  BY <1>5 DEF AlreadyCalibrated, CalibrateSnapshot, CalibrateStore, Handling, InPrepare
<1>6. CASE AdvanceId(r)
  BY <1>6 DEF AdvanceId, Handling, InPrepare
<1> QED
  BY <1>1, <1>2, <1>3, <1>4, <1>5, <1>6 DEF Prepares

\* A queue that loses the request q, and only it, keeps the queues apart.
LEMMA QueueLoses ==
    ASSUME TypeOK, RequestsConserved,
           NEW d \in Device, NEW s \in Seq(Request), NEW q \in ToSet(interruptMsgQueue[d]),
           ToSet(s) = ToSet(interruptMsgQueue[d]) \ {q}, IsInjective(s),
           interruptMsgQueue' = [interruptMsgQueue EXCEPT ![d] = s]
    PROVE  /\ Queued' = Queued \ {q}
           /\ q \in Queued /\ q \notin Held /\ q \in outstanding /\ q \in Request
           /\ \A e \in Device : IsInjective(interruptMsgQueue'[e])
           /\ \A e, f \in Device : e # f =>
                 ToSet(interruptMsgQueue'[e]) \cap ToSet(interruptMsgQueue'[f]) = {}
<1>1. \A e \in Device : interruptMsgQueue'[e] = IF e = d THEN s ELSE interruptMsgQueue[e]
  BY DEF TypeOK
<1>2. \A e \in Device : e # d => q \notin ToSet(interruptMsgQueue[e])
  BY DEF RequestsConserved
<1>3. q \in Queued /\ q \notin Held /\ q \in outstanding /\ q \in Request
  BY DEF RequestsConserved, Queued, TypeOK
<1>4. Queued' = Queued \ {q}
  BY <1>1, <1>2 DEF Queued
<1>5. \A e \in Device : IsInjective(interruptMsgQueue'[e])
  BY <1>1 DEF RequestsConserved
<1>6. \A e, f \in Device : e # f =>
         ToSet(interruptMsgQueue'[e]) \cap ToSet(interruptMsgQueue'[f]) = {}
  BY <1>1 DEF RequestsConserved
<1> QED
  BY <1>3, <1>4, <1>5, <1>6

\* Whatever leaves every queue, hand and outstanding alone keeps RequestsConserved.
LEMMA RequestsUnchanged ==
    RequestsConserved /\ UNCHANGED requestVars => RequestsConserved'
BY DEF RequestsConserved, requestVars, Queued, Held

\* Steps that leave every queue and hand alone and do not carry a reader into or out of
\* the control points that hold a request.
LEMMA OtherSteps ==
    ASSUME RequestInv, UNCHANGED requestVars,
           \A r \in Reader : pc'[r] \in Handling <=> pc[r] \in Handling
    PROVE  HandlerHoldsRequest' /\ RequestsConserved'
BY RequestsUnchanged DEF RequestInv, HandlerHoldsRequest, requestVars

\* Every action preserves RequestInv.
LEMMA RequestStep == RequestInv /\ [Next]_vars => RequestInv'
<1> SUFFICES ASSUME RequestInv, [Next]_vars PROVE RequestInv'
  OBVIOUS
<1>0. TypeOK' /\ TypeOK
  BY TypeStep DEF RequestInv
<1> SUFFICES HandlerHoldsRequest' /\ RequestsConserved'
  BY <1>0 DEF RequestInv
<1> USE ThreadAssumption, RequestAssumption DEF Thread
<1>r. \A r \in Reader : /\ DevOf[r] \in Device
                        /\ interruptMsgQueue[DevOf[r]] \in Seq(Request)
                        /\ IsInjective(interruptMsgQueue[DevOf[r]])
  BY <1>0 DEF TypeOK, RequestInv, RequestsConserved
<1>1. ASSUME NEW d \in Device,
             DeviceAdd(d) \/ PrepareHardware(d) \/ D0Entry(d) \/ D0Exit(d)
      PROVE  HandlerHoldsRequest' /\ RequestsConserved'
  BY <1>1, OtherSteps DEF DeviceAdd, PrepareHardware, D0Entry, D0Exit, requestVars
<1>2. ASSUME NEW d \in Device, Purge(d) PROVE HandlerHoldsRequest' /\ RequestsConserved'
  <2>1. HandlerHoldsRequest'
    BY <1>2 DEF Purge, RequestInv, HandlerHoldsRequest
  <2>2. \A e \in Device :
          interruptMsgQueue'[e] = IF e = d THEN <<>> ELSE interruptMsgQueue[e]
    BY <1>2, <1>0 DEF Purge, TypeOK
  <2>3. ToSet(<<>>) = {} /\ IsInjective(<<>>)
    BY DEF ToSet, IsInjective
  <2>4. Queued' = Queued \ ToSet(interruptMsgQueue[d])
    BY <2>2, <2>3 DEF Queued, RequestInv, RequestsConserved
  <2>5. ToSet(interruptMsgQueue[d]) \cap Held = {} /\ Held' = Held
    BY <1>2 DEF Purge, RequestInv, RequestsConserved, Queued, Held
  <2>6. outstanding' = Queued' \cup Held' /\ Queued' \cap Held' = {}
    BY <1>2, <2>4, <2>5 DEF Purge, RequestInv, RequestsConserved
  <2>7. /\ \A e \in Device : IsInjective(interruptMsgQueue'[e])
        /\ \A e, f \in Device : e # f =>
              ToSet(interruptMsgQueue'[e]) \cap ToSet(interruptMsgQueue'[f]) = {}
    BY <2>2, <2>3 DEF RequestInv, RequestsConserved
  <2>8. \A r, t \in Reader : r # t /\ hand'[r] = hand'[t] => hand'[r] = NoRequest
    BY <1>2 DEF Purge, RequestInv, RequestsConserved
  <2> QED
    BY <2>1, <2>6, <2>7, <2>8 DEF RequestsConserved
<1>3. ASSUME NEW d \in Device, NEW q \in Request, HidReadReport(d, q)
      PROVE  HandlerHoldsRequest' /\ RequestsConserved'
  <2>1. HandlerHoldsRequest'
    BY <1>3 DEF HidReadReport, RequestInv, HandlerHoldsRequest
  <2>2. q \notin Queued /\ q \notin Held
    BY <1>3 DEF HidReadReport, RequestInv, RequestsConserved
  <2>3. \A e \in Device : q \notin ToSet(interruptMsgQueue[e])
    BY <2>2 DEF Queued
  <2>4. interruptMsgQueue[d] \in Seq(Request) /\ IsInjective(interruptMsgQueue[d])
    BY <1>0 DEF TypeOK, RequestInv, RequestsConserved
  <2>5. \A e \in Device :
          interruptMsgQueue'[e] = IF e = d THEN Append(interruptMsgQueue[e], q)
                                           ELSE interruptMsgQueue[e]
    BY <1>3, <1>0 DEF HidReadReport, TypeOK
  <2>6. /\ ToSet(interruptMsgQueue'[d]) = ToSet(interruptMsgQueue[d]) \cup {q}
        /\ IsInjective(interruptMsgQueue'[d])
    BY <2>3, <2>4, <2>5, AppendDistinct
  <2>7. Queued' = Queued \cup {q} /\ Held' = Held
    BY <1>3, <2>5, <2>6 DEF Queued, Held, HidReadReport
  <2>8. outstanding' = Queued' \cup Held' /\ Queued' \cap Held' = {}
    BY <1>3, <2>2, <2>7 DEF HidReadReport, RequestInv, RequestsConserved
  <2>9. /\ \A e \in Device : IsInjective(interruptMsgQueue'[e])
        /\ \A e, f \in Device : e # f =>
              ToSet(interruptMsgQueue'[e]) \cap ToSet(interruptMsgQueue'[f]) = {}
    <3>1. \A e \in Device : e # d => interruptMsgQueue'[e] = interruptMsgQueue[e]
      BY <2>5
    <3> QED
      BY <3>1, <2>3, <2>6 DEF RequestInv, RequestsConserved
  <2>10. \A r, t \in Reader : r # t /\ hand'[r] = hand'[t] => hand'[r] = NoRequest
    BY <1>3 DEF HidReadReport, RequestInv, RequestsConserved
  <2> QED
    BY <2>1, <2>8, <2>9, <2>10 DEF RequestsConserved
<1>4. ASSUME NEW d \in Device, NEW k \in DOMAIN interruptMsgQueue[d], CancelParked(d, k)
      PROVE  HandlerHoldsRequest' /\ RequestsConserved'
  <2> DEFINE q == interruptMsgQueue[d][k]
             s == RemoveAt(interruptMsgQueue[d], k)
  <2>1. interruptMsgQueue[d] \in Seq(Request) /\ IsInjective(interruptMsgQueue[d])
    BY <1>0 DEF TypeOK, RequestInv, RequestsConserved
  <2>2. /\ s \in Seq(Request) /\ IsInjective(s)
        /\ ToSet(s) = ToSet(interruptMsgQueue[d]) \ {q}
        /\ q \in ToSet(interruptMsgQueue[d])
    BY <2>1, RemoveAtSeq, RemoveAtDistinct DEF ToSet
  <2>3. interruptMsgQueue' = [interruptMsgQueue EXCEPT ![d] = s]
    BY <1>4 DEF CancelParked
  <2>4. outstanding' = outstanding \ {q} /\ UNCHANGED <<hand, pc>>
    BY <1>4 DEF CancelParked
  <2> HIDE DEF q, s
  <2>5. /\ Queued' = Queued \ {q} /\ q \notin Held
        /\ \A e \in Device : IsInjective(interruptMsgQueue'[e])
        /\ \A e, f \in Device : e # f =>
              ToSet(interruptMsgQueue'[e]) \cap ToSet(interruptMsgQueue'[f]) = {}
    BY <2>2, <2>3, QueueLoses DEF RequestInv
  <2> QED
    BY <2>4, <2>5 DEF RequestInv, HandlerHoldsRequest, RequestsConserved, Held
<1>5. ASSUME NEW r \in Reader, NEW S \in Packets, ReadComplete(r, S)
      PROVE  HandlerHoldsRequest' /\ RequestsConserved'
  BY <1>0, <1>5, OtherSteps DEF ReadComplete, requestVars, Handling, InPrepare, TypeOK
<1>6. ASSUME NEW r \in Reader, ReadersFailed(r) \/ SelfManagedIoFlush(r)
      PROVE  HandlerHoldsRequest' /\ RequestsConserved'
  <2>1. pc[r] = "idle" /\ pc' = [pc EXCEPT ![r] = "retrieve"] /\ UNCHANGED requestVars
    BY <1>6 DEF ReadersFailed, SelfManagedIoFlush, ReadersIdle, Readers
  <2> QED
    BY <1>0, <2>1, OtherSteps DEF Handling, InPrepare, TypeOK
<1>7. ASSUME NEW r \in Reader, RetrieveNothing(r)
      PROVE  HandlerHoldsRequest' /\ RequestsConserved'
  <2>1. \A t \in Reader : pc'[t] \in Handling <=> pc[t] \in Handling
    BY <1>0, <1>7 DEF RetrieveNothing, HandlerReturns, Handling, InPrepare, TypeOK
  <2> QED
    BY <1>7, <2>1, OtherSteps DEF RetrieveNothing
<1>8. ASSUME NEW r \in Reader, RetrieveNextRequest(r)
      PROVE  HandlerHoldsRequest' /\ RequestsConserved'
  <2> DEFINE d == DevOf[r]
             q == Head(interruptMsgQueue[d])
             s == Tail(interruptMsgQueue[d])
  <2>1. interruptMsgQueue[d] # <<>> /\ d \in Device
    BY <1>8, <1>r DEF RetrieveNextRequest
  <2>2. /\ s \in Seq(Request) /\ IsInjective(s)
        /\ ToSet(s) = ToSet(interruptMsgQueue[d]) \ {q}
        /\ q \in ToSet(interruptMsgQueue[d])
    BY <1>r, <2>1, TailDistinct
  <2>3. interruptMsgQueue' = [interruptMsgQueue EXCEPT ![d] = s]
    BY <1>8 DEF RetrieveNextRequest
  <2>4. /\ outstanding' = outstanding
        /\ hand' = [hand EXCEPT ![r] = q]
        /\ pc' = [pc EXCEPT ![r] = "enter"]
        /\ pc[r] = "retrieve"
    BY <1>8 DEF RetrieveNextRequest
  <2> HIDE DEF d, q, s
  <2>5. /\ Queued' = Queued \ {q} /\ q \in Queued /\ q \notin Held /\ q \in Request
        /\ \A e \in Device : IsInjective(interruptMsgQueue'[e])
        /\ \A e, f \in Device : e # f =>
              ToSet(interruptMsgQueue'[e]) \cap ToSet(interruptMsgQueue'[f]) = {}
    BY <2>1, <2>2, <2>3, QueueLoses DEF RequestInv
  <2>6. \A t \in Reader : hand'[t] = IF t = r THEN q ELSE hand[t]
    BY <1>0, <2>4 DEF TypeOK
  <2>7. \A t \in Reader : pc'[t] = IF t = r THEN "enter" ELSE pc[t]
    BY <1>0, <2>4 DEF TypeOK
  <2>8. hand[r] = NoRequest /\ q # NoRequest
    BY <2>4, <2>5 DEF RequestInv, HandlerHoldsRequest, Handling, InPrepare
  <2>9. HandlerHoldsRequest'
    BY <2>6, <2>7, <2>8 DEF RequestInv, HandlerHoldsRequest, Handling, InPrepare
  <2>10. Held' = Held \cup {q}
    BY <2>6, <2>8 DEF Held
  <2>11. \A t, u \in Reader : t # u /\ hand'[t] = hand'[u] => hand'[t] = NoRequest
    BY <2>5, <2>6 DEF Held, RequestInv, RequestsConserved
  <2> QED
    BY <2>4, <2>5, <2>9, <2>10, <2>11 DEF RequestInv, RequestsConserved
<1>10. ASSUME NEW r \in Reader, Prepares(r)
       PROVE  HandlerHoldsRequest' /\ RequestsConserved'
  <2>1. /\ pc[r] \in Handling
        /\ \E c \in Handling : pc' = [pc EXCEPT ![r] = c]
        /\ UNCHANGED requestVars
    BY <1>10, PreparesStep
  <2> QED
    BY <1>0, <2>1, OtherSteps DEF TypeOK
<1>11. ASSUME NEW r \in Reader, CompleteReport(r) \/ CompleteWithError(r)
       PROVE  HandlerHoldsRequest' /\ RequestsConserved'
  <2>1. /\ pc[r] \in {"enter", "complete"}
        /\ outstanding' = outstanding \ {hand[r]}
        /\ hand' = [hand EXCEPT ![r] = NoRequest]
        /\ UNCHANGED interruptMsgQueue
    BY <1>11 DEF CompleteReport, CompleteWithError, Complete
  <2>2. \A t \in Reader : /\ t # r => pc'[t] = pc[t]
                          /\ pc'[r] \in {"retrieve", "idle"}
    BY <1>0, <1>11 DEF CompleteReport, CompleteWithError, HandlerReturns, TypeOK
  <2>3. \A t \in Reader : hand'[t] = IF t = r THEN NoRequest ELSE hand[t]
    BY <1>0, <2>1 DEF TypeOK
  <2>4. HandlerHoldsRequest'
    BY <2>1, <2>2, <2>3 DEF RequestInv, HandlerHoldsRequest, Handling, InPrepare
  <2>5. hand[r] # NoRequest
    BY <2>1 DEF RequestInv, HandlerHoldsRequest, Handling, InPrepare
  <2>6. Held' = Held \ {hand[r]} /\ hand[r] \in Held
    BY <2>3, <2>5 DEF Held, RequestInv, RequestsConserved
  <2>7. Queued' = Queued
    BY <2>1 DEF Queued
  <2> QED
    BY <2>1, <2>3, <2>4, <2>6, <2>7 DEF RequestInv, RequestsConserved
<1>12. ASSUME NEW c \in Caller, NEW mask \in SUBSET Port,
              AdapterCalibrate(c, mask) \/ CallerSnapshot(c) \/ CallerStore(c)
       PROVE  HandlerHoldsRequest' /\ RequestsConserved'
  <2>1. \A r \in Reader : pc'[r] = pc[r]
    BY <1>0, <1>12 DEF AdapterCalibrate, CallerSnapshot, CallerStore, TypeOK
  <2> QED
    BY <1>12, <2>1, OtherSteps DEF AdapterCalibrate, CallerSnapshot, CallerStore
<1>13. CASE UNCHANGED vars
  BY <1>13, OtherSteps DEF vars
<1> QED
  BY <1>1, <1>2, <1>3, <1>4, <1>5, <1>6, <1>7, <1>8, <1>10, <1>11, <1>12, <1>13
     DEF Next, PnpPower, HidClass, CallHandler, ReadReportHandler, Prepares, CalibrateIoctl

\* RequestInv holds initially: there is no request anywhere.
LEMMA RequestInit == Init => RequestInv
<1> SUFFICES ASSUME Init PROVE RequestInv
  OBVIOUS
<1>1. TypeOK
  BY InitType
<1>2. \A d \in Device : ToSet(interruptMsgQueue[d]) = {} /\ IsInjective(interruptMsgQueue[d])
  BY DEF Init, ToSet, IsInjective
<1>3. Queued = {} /\ Held = {}
  BY <1>2 DEF Init, Queued, Held
<1>4. HandlerHoldsRequest
  BY ThreadAssumption DEF Init, HandlerHoldsRequest, Handling, InPrepare, Thread
<1> QED
  BY <1>1, <1>2, <1>3, <1>4 DEF Init, RequestInv, RequestsConserved

\* Every request that hidclass waits for is in exactly one place, and no request is
\* completed twice: for any number of readers, adapters and requests.
THEOREM Conservation == Spec => []RequestsConserved
<1>1. RequestInv => RequestsConserved
  BY DEF RequestInv
<1> QED
  BY <1>1, RequestInit, RequestStep, PTL DEF Spec

-----------------------------------------------------------------------------
(* The flush.                                                              *)

\* If no buffer is short, every action preserves FlushAnswersAll: only the handler that
\* found nothing ends the flush, and a flushed device takes no more requests.
LEMMA FlushStep ==
    ASSUME ShortBuffer = {}
    PROVE  TypeOK /\ FlushAnswersAll /\ [Next]_vars => FlushAnswersAll'
<1> SUFFICES ASSUME TypeOK, FlushAnswersAll, [Next]_vars, NEW d \in Device,
                    power'[d] = "flushed"
             PROVE  interruptMsgQueue'[d] = <<>>
  BY DEF FlushAnswersAll
<1> USE ThreadAssumption DEF Thread
<1>1. ASSUME NEW e \in Device, PnpPower(e) PROVE interruptMsgQueue'[d] = <<>>
  BY <1>1 DEF PnpPower, DeviceAdd, PrepareHardware, D0Entry, D0Exit, Purge, requestVars,
              TypeOK, FlushAnswersAll
<1>2. ASSUME NEW e \in Device, HidClass(e) PROVE interruptMsgQueue'[d] = <<>>
  <2>1. power[d] = "flushed" /\ interruptMsgQueue[d] = <<>>
    BY <1>2 DEF HidClass, HidReadReport, CancelParked, FlushAnswersAll
  <2>2. e # d
    <3>1. DOMAIN interruptMsgQueue[d] = {}
      BY <2>1
    <3> QED
      BY <1>2, <2>1, <3>1 DEF HidClass, HidReadReport, CancelParked, Started, InService
  <2> QED
    BY <1>2, <2>1, <2>2 DEF HidClass, HidReadReport, CancelParked, TypeOK
<1>3. ASSUME NEW r \in Reader, CallHandler(r) PROVE interruptMsgQueue'[d] = <<>>
  BY <1>3 DEF CallHandler, ReadComplete, ReadersFailed, SelfManagedIoFlush, requestVars,
              TypeOK, FlushAnswersAll
<1>4. ASSUME NEW r \in Reader, RetrieveNothing(r) PROVE interruptMsgQueue'[d] = <<>>
  BY <1>4 DEF RetrieveNothing, HandlerReturns, requestVars, TypeOK, FlushAnswersAll
<1>5. ASSUME NEW r \in Reader, RetrieveNextRequest(r) PROVE interruptMsgQueue'[d] = <<>>
  BY <1>5 DEF RetrieveNextRequest, TypeOK, FlushAnswersAll
<1>6. ASSUME NEW r \in Reader, CompleteWithError(r) PROVE interruptMsgQueue'[d] = <<>>
  BY <1>6 DEF CompleteWithError
<1>7. ASSUME NEW r \in Reader, Prepares(r) PROVE interruptMsgQueue'[d] = <<>>
  <2>1. UNCHANGED <<power, requestVars>>
    BY <1>7, PreparesStep
  <2> QED
    BY <2>1 DEF requestVars, FlushAnswersAll
<1>8. ASSUME NEW r \in Reader, CompleteReport(r) PROVE interruptMsgQueue'[d] = <<>>
  <2>1. HandlerReturns(r, TRUE) /\ interruptMsgQueue' = interruptMsgQueue
    BY <1>8 DEF CompleteReport, Complete
  <2>2. power[d] = "flushed"
    BY <2>1 DEF HandlerReturns, TypeOK
  <2> QED
    BY <2>1, <2>2 DEF FlushAnswersAll
<1>9. ASSUME NEW c \in Caller, CalibrateIoctl(c) PROVE interruptMsgQueue'[d] = <<>>
  BY <1>9 DEF CalibrateIoctl, AdapterCalibrate, CallerSnapshot, CallerStore, requestVars,
              FlushAnswersAll
<1>10. CASE UNCHANGED vars
  BY <1>10 DEF vars, requestVars, FlushAnswersAll
<1> QED
  BY <1>1, <1>2, <1>3, <1>4, <1>5, <1>6, <1>7, <1>8, <1>9, <1>10
  DEF Next, ReadReportHandler, Prepares

\* If no buffer is too small, a removed device's flush leaves no request in the queue, for
\* any number of readers and requests, and none comes after it.
THEOREM FlushComplete ==
    ASSUME ShortBuffer = {}
    PROVE  Spec => []FlushAnswersAll
<1>1. Init => FlushAnswersAll
  BY DEF Init, FlushAnswersAll
<1> QED
  BY <1>1, InitType, TypeStep, FlushStep, PTL DEF Spec

-----------------------------------------------------------------------------
(* Control.  Which local variables are in use at a control point, for any  *)
(* interleaving.                                                           *)

\* seen is in use in prepare_report, label after it, from since the input was copied.
ControlState(r) ==
    /\ pc[r] \in InPrepare => id \in seen[r]
    /\ pc[r] \notin InPrepare => seen[r] = {}
    /\ pc[r] = "complete" <=> label[r] # 0
    /\ pc[r] \in {"calibrate", "setLast"} => from[r] # {}
    /\ from[r] # {} => pc[r] \in {"calibrate", "setLast", "advance", "complete"}

ControlInv == TypeOK /\ \A r \in Reader : ControlState(r)

\* What reader s has for itself.
Own(s) == <<pc[s], from[s], label[s], todo[s]>>

\* A step of reader r leaves what the other readers have for themselves alone.
LEMMA OthersKept ==
    ASSUME TypeOK, NEW r \in Reader, NEW s \in Reader, r # s,
           CallHandler(r) \/ ReadReportHandler(r)
    PROVE  Own(s)' = Own(s)
<1> USE ThreadAssumption DEF Thread
<1>1. CASE CallHandler(r)
  BY <1>1 DEF CallHandler, ReadComplete, ReadersFailed, SelfManagedIoFlush, localVars,
              Own, TypeOK
<1>2. CASE RetrieveNothing(r) \/ RetrieveNextRequest(r) \/ CompleteWithError(r)
  BY <1>2 DEF RetrieveNothing, RetrieveNextRequest, CompleteWithError, HandlerReturns,
              localVars, Own, TypeOK
<1>3. CASE EnterPrepareReport(r) \/ ClearLastControllerState(r) \/ SetLastControllerState(r)
  BY <1>3 DEF EnterPrepareReport, ClearLastControllerState, SetLastControllerState,
              localVars, Own, TypeOK
<1>4. CASE FindUnplugged(r) \/ FindPlugged(r) \/ AlreadyCleared(r) \/ StillSet(r)
  BY <1>4 DEF FindUnplugged, FindPlugged, AlreadyCleared, StillSet, Branch, localVars,
              Own, TypeOK
<1>5. CASE AlreadyCalibrated(r) \/ CalibrateSnapshot(r)
  BY <1>5 DEF AlreadyCalibrated, CalibrateSnapshot, ProcessInput, Own, TypeOK
<1>6. CASE CalibrateStore(r)
  BY <1>6 DEF CalibrateStore, StoreCentres, Own, TypeOK
<1>7. CASE AdvanceId(r)
  BY <1>7 DEF AdvanceId, Own, TypeOK
<1>8. CASE CompleteReport(r)
  BY <1>8 DEF CompleteReport, HandlerReturns, Own, TypeOK
<1> QED
  BY <1>1, <1>2, <1>3, <1>4, <1>5, <1>6, <1>7, <1>8 DEF ReadReportHandler

\* So do PnP, the class driver and the calibrate IOCTLs; they touch neither the counter
\* nor the record of reports.
LEMMA EnvironmentKept ==
    ASSUME TypeOK,
           \/ \E d \in Device : PnpPower(d) \/ HidClass(d)
           \/ \E c \in Caller : CalibrateIoctl(c)
           \/ UNCHANGED vars
    PROVE  /\ \A r \in Reader : Own(r)' = Own(r)
           /\ UNCHANGED <<seen, reportVars>>
<1> USE ThreadAssumption DEF Thread
<1>1. ASSUME NEW d \in Device, PnpPower(d) \/ HidClass(d)
      PROVE  UNCHANGED <<pc, from, label, todo, seen, reportVars>>
  BY <1>1 DEF PnpPower, DeviceAdd, PrepareHardware, D0Entry, D0Exit, Purge, HidClass,
              HidReadReport, CancelParked, localVars
<1>2. ASSUME NEW c \in Caller, CalibrateIoctl(c)
      PROVE  /\ \A r \in Reader : Own(r)' = Own(r)
             /\ UNCHANGED <<seen, reportVars>>
  <2>1. UNCHANGED <<seen, from, label, reportVars>>
    BY <1>2 DEF CalibrateIoctl, AdapterCalibrate, CallerSnapshot, CallerStore
  <2>2. \A r \in Reader : pc'[r] = pc[r] /\ todo'[r] = todo[r]
    BY <1>2 DEF CalibrateIoctl, AdapterCalibrate, CallerSnapshot, CallerStore,
                StoreCentres, TypeOK
  <2> QED
    BY <2>1, <2>2 DEF Own
<1>3. CASE UNCHANGED vars
  BY <1>3 DEF vars, localVars, Own
<1> QED
  BY <1>1, <1>2, <1>3 DEF Own

\* Only entering prepare_report and advancing id change the counter, what readers have seen
\* of it, and overlapped.
LEMMA CounterKept ==
    ASSUME NEW r \in Reader, CallHandler(r) \/ ReadReportHandler(r),
           ~EnterPrepareReport(r), ~AdvanceId(r)
    PROVE  UNCHANGED <<seen, id, overlapped>>
<1>1. CASE CallHandler(r)
  BY <1>1 DEF CallHandler, ReadComplete, ReadersFailed, SelfManagedIoFlush, localVars,
              reportVars
<1>2. CASE RetrieveNothing(r) \/ RetrieveNextRequest(r) \/ CompleteWithError(r)
  BY <1>2 DEF RetrieveNothing, RetrieveNextRequest, CompleteWithError, localVars, reportVars
<1>3. CASE FindUnplugged(r) \/ FindPlugged(r) \/ AlreadyCleared(r) \/ StillSet(r)
  BY <1>3 DEF FindUnplugged, FindPlugged, AlreadyCleared, StillSet, Branch, localVars,
              reportVars
<1>4. CASE ClearLastControllerState(r) \/ SetLastControllerState(r)
  BY <1>4 DEF ClearLastControllerState, SetLastControllerState, localVars, reportVars
<1>5. CASE AlreadyCalibrated(r) \/ CalibrateSnapshot(r) \/ CalibrateStore(r)
  BY <1>5 DEF AlreadyCalibrated, CalibrateSnapshot, CalibrateStore, reportVars
<1>6. CASE CompleteReport(r)
  BY <1>6 DEF CompleteReport
<1> QED
  BY <1>1, <1>2, <1>3, <1>4, <1>5, <1>6 DEF ReadReportHandler

\* Every action preserves ControlInv.
LEMMA ControlStep == ControlInv /\ [Next]_vars => ControlInv'
<1> SUFFICES ASSUME ControlInv, [Next]_vars, NEW s \in Reader PROVE ControlState(s)'
  BY TypeStep DEF ControlInv
<1>0. TypeOK /\ ControlState(s)
  BY DEF ControlInv
<1> USE ThreadAssumption DEF Thread
<1>1. CASE \/ \E d \in Device : PnpPower(d) \/ HidClass(d)
           \/ \E c \in Caller : CalibrateIoctl(c)
           \/ UNCHANGED vars
  BY <1>0, <1>1, EnvironmentKept DEF ControlState, Own, reportVars
<1>2. ASSUME NEW r \in Reader, r # s, CallHandler(r) \/ ReadReportHandler(r)
      PROVE  ControlState(s)'
  <2>1. Own(s)' = Own(s)
    BY <1>0, <1>2, OthersKept
  <2>2. CASE EnterPrepareReport(r)
    BY <1>0, <1>2, <2>1, <2>2 DEF EnterPrepareReport, ControlState, Own, TypeOK
  <2>3. CASE AdvanceId(r)
    BY <1>0, <1>2, <2>1, <2>3 DEF AdvanceId, ControlState, Own
  <2>4. CASE ~EnterPrepareReport(r) /\ ~AdvanceId(r)
    BY <1>0, <1>2, <2>1, <2>4, CounterKept DEF ControlState, Own
  <2> QED
    BY <2>2, <2>3, <2>4
<1>3. CASE CallHandler(s)
  BY <1>0, <1>3 DEF CallHandler, ReadComplete, ReadersFailed, SelfManagedIoFlush,
              ReadersIdle, Readers, localVars, ControlState, InPrepare, TypeOK
<1>4. CASE RetrieveNothing(s) \/ RetrieveNextRequest(s) \/ CompleteWithError(s)
  BY <1>0, <1>4 DEF RetrieveNothing, RetrieveNextRequest, CompleteWithError, HandlerReturns,
              localVars, ControlState, InPrepare, TypeOK
<1>5. CASE EnterPrepareReport(s)
  BY <1>0, <1>5 DEF EnterPrepareReport, ControlState, InPrepare, TypeOK
<1>6. CASE FindUnplugged(s) \/ FindPlugged(s) \/ AlreadyCleared(s) \/ StillSet(s)
  BY <1>0, <1>6 DEF FindUnplugged, FindPlugged, AlreadyCleared, StillSet, Branch,
              localVars, reportVars, ControlState, InPrepare, TypeOK
<1>7. CASE ClearLastControllerState(s) \/ SetLastControllerState(s)
  BY <1>0, <1>7 DEF ClearLastControllerState, SetLastControllerState, localVars,
              reportVars, ControlState, InPrepare, TypeOK
<1>8. CASE AlreadyCalibrated(s) \/ CalibrateSnapshot(s)
  <2>1. \E i, j \in seen[s] : from' = [from EXCEPT ![s] = {i, j}]
    BY <1>8 DEF AlreadyCalibrated, CalibrateSnapshot, ProcessInput
  <2>2. from'[s] # {}
    BY <1>0, <2>1 DEF TypeOK
  <2> QED
    BY <1>0, <1>8, <2>2 DEF AlreadyCalibrated, CalibrateSnapshot, reportVars, ControlState,
              InPrepare, TypeOK
<1>9. CASE CalibrateStore(s)
  BY <1>0, <1>9 DEF CalibrateStore, reportVars, ControlState, InPrepare, TypeOK
<1>10. CASE AdvanceId(s)
  <2>1. PICK i \in seen[s] : label' = [label EXCEPT ![s] = i]
    BY <1>10 DEF AdvanceId
  <2>2. i # 0
    BY <1>0, <2>1 DEF TypeOK, Port
  <2> QED
    BY <1>0, <1>10, <2>1, <2>2 DEF AdvanceId, ControlState, InPrepare, TypeOK
<1>11. CASE CompleteReport(s)
  BY <1>0, <1>11 DEF CompleteReport, HandlerReturns, ControlState, InPrepare, TypeOK
<1> QED
  BY <1>1, <1>2, <1>3, <1>4, <1>5, <1>6, <1>7, <1>8, <1>9, <1>10, <1>11
     DEF Next, ReadReportHandler

\* ControlInv holds initially.
LEMMA ControlInit == Init => ControlInv
BY InitType, ThreadAssumption DEF Init, ControlInv, ControlState, InPrepare, Thread

-----------------------------------------------------------------------------
(* Power.  No handler runs while the device is out of service, and the PnP *)
(* thread that flushes is alone with it.                                   *)

Resting == {"gone", "Dx", "flushed"}

RestingIdle == \A r \in Reader : power[DevOf[r]] \in Resting => pc[r] = "idle"

FlushAlone ==
    \A r, s \in Reader :
        r # s /\ DevOf[r] = DevOf[s] /\ power[DevOf[r]] = "flushing"
            => pc[r] = "idle" \/ pc[s] = "idle"

PowerInv == TypeOK /\ RestingIdle /\ FlushAlone

\* A device comes to rest or to its flush only when its readers are idle.
LEMMA PowerOfReaders ==
    ASSUME TypeOK, NEW d \in Device, PnpPower(d) \/ HidClass(d), NEW r \in Reader
    PROVE  /\ power'[DevOf[r]] = "flushing" => power[DevOf[r]] = "flushing"
           /\ power'[DevOf[r]] \in Resting =>
                 power[DevOf[r]] \in Resting \/ pc[r] = "idle"
<1> USE ThreadAssumption DEF Thread
<1>1. CASE DeviceAdd(d) \/ D0Entry(d) \/ Purge(d)
  BY <1>1 DEF DeviceAdd, D0Entry, Purge, TypeOK, Resting
<1>2. CASE D0Exit(d)
  BY <1>2 DEF D0Exit, ReadersIdle, Readers, TypeOK, Resting
<1>3. CASE PrepareHardware(d) \/ HidClass(d)
  BY <1>3 DEF PrepareHardware, HidClass, HidReadReport, CancelParked
<1> QED
  BY <1>1, <1>2, <1>3 DEF PnpPower

\* Every action preserves PowerInv.
LEMMA PowerStep == PowerInv /\ [Next]_vars => PowerInv'
<1> SUFFICES ASSUME PowerInv, [Next]_vars PROVE RestingIdle' /\ FlushAlone'
  BY TypeStep DEF PowerInv
<1>0. TypeOK
  BY DEF PowerInv
<1> USE ThreadAssumption DEF Thread
<1>1. ASSUME NEW d \in Device, PnpPower(d) \/ HidClass(d) PROVE RestingIdle' /\ FlushAlone'
  <2>1. \A r \in Reader : pc'[r] = pc[r]
    BY <1>0, <1>1, EnvironmentKept DEF Own
  <2>2. \A r \in Reader :
           /\ power'[DevOf[r]] = "flushing" => power[DevOf[r]] = "flushing"
           /\ power'[DevOf[r]] \in Resting =>
                 power[DevOf[r]] \in Resting \/ pc[r] = "idle"
    BY <1>0, <1>1, PowerOfReaders
  <2> QED
    BY <2>1, <2>2 DEF PowerInv, RestingIdle, FlushAlone
<1>2. CASE (\E c \in Caller : CalibrateIoctl(c)) \/ UNCHANGED vars
  <2>1. \A r \in Reader : pc'[r] = pc[r]
    BY <1>0, <1>2, EnvironmentKept DEF Own
  <2>2. power' = power
    BY <1>2 DEF CalibrateIoctl, AdapterCalibrate, CallerSnapshot, CallerStore, vars
  <2> QED
    BY <2>1, <2>2 DEF PowerInv, RestingIdle, FlushAlone
<1>3. ASSUME NEW r \in Reader, CallHandler(r) PROVE RestingIdle' /\ FlushAlone'
  <2>1. \A s \in Reader : s # r => pc'[s] = pc[s]
    BY <1>0, <1>3, OthersKept DEF Own
  <2>2. CASE \E S \in Packets : ReadComplete(r, S)
    <3>1. power' = power /\ power[DevOf[r]] = "D0"
      BY <2>2 DEF ReadComplete
    <3> QED
      BY <2>1, <3>1 DEF PowerInv, RestingIdle, FlushAlone, Resting
  <2>3. CASE ReadersFailed(r) \/ SelfManagedIoFlush(r)
    <3>1. /\ \A s \in Reader : DevOf[s] = DevOf[r] => pc[s] = "idle"
          /\ power'[DevOf[r]] \in {"restarting", "flushing"}
          /\ \A s \in Reader : DevOf[s] # DevOf[r] => power'[DevOf[s]] = power[DevOf[s]]
      BY <1>0, <2>3 DEF ReadersFailed, SelfManagedIoFlush, ReadersIdle, Readers, TypeOK
    <3> QED
      BY <2>1, <3>1 DEF PowerInv, RestingIdle, FlushAlone, Resting
  <2> QED
    BY <1>3, <2>2, <2>3 DEF CallHandler
<1>4. ASSUME NEW r \in Reader, Prepares(r) PROVE RestingIdle' /\ FlushAlone'
  <2>1. power' = power /\ pc[r] # "idle"
    BY <1>4, PreparesStep DEF Handling, InPrepare
  <2>2. \A s \in Reader : s # r => pc'[s] = pc[s]
    BY <1>0, <1>4, OthersKept DEF Own, ReadReportHandler, Prepares
  <2> QED
    BY <2>1, <2>2 DEF PowerInv, RestingIdle, FlushAlone
<1>5. ASSUME NEW r \in Reader, RetrieveNextRequest(r) PROVE RestingIdle' /\ FlushAlone'
  <2>1. power' = power /\ pc[r] # "idle"
    BY <1>5 DEF RetrieveNextRequest
  <2>2. \A s \in Reader : s # r => pc'[s] = pc[s]
    BY <1>0, <1>5, OthersKept DEF Own, ReadReportHandler
  <2> QED
    BY <2>1, <2>2 DEF PowerInv, RestingIdle, FlushAlone
<1>6. ASSUME NEW r \in Reader,
             RetrieveNothing(r) \/ CompleteWithError(r) \/ CompleteReport(r)
      PROVE  RestingIdle' /\ FlushAlone'
  <2>1. pc[r] # "idle" /\ \E success \in BOOLEAN : HandlerReturns(r, success)
    BY <1>6 DEF RetrieveNothing, CompleteWithError, CompleteReport
  <2>2. \A s \in Reader : s # r => pc'[s] = pc[s]
    BY <1>0, <1>6, OthersKept DEF Own, ReadReportHandler
  <2>3. /\ \A s \in Reader : DevOf[s] # DevOf[r] => power'[DevOf[s]] = power[DevOf[s]]
        /\ power'[DevOf[r]] = "flushing" => power[DevOf[r]] = "flushing"
        /\ power'[DevOf[r]] \in Resting =>
              /\ power[DevOf[r]] \in Resting \cup {"flushing"}
              /\ power[DevOf[r]] = "flushing" => pc'[r] = "idle"
    BY <1>0, <2>1 DEF HandlerReturns, TypeOK, Resting
  <2> QED
    BY <2>1, <2>2, <2>3 DEF PowerInv, RestingIdle, FlushAlone
<1> QED
  BY <1>1, <1>2, <1>3, <1>4, <1>5, <1>6 DEF Next, ReadReportHandler, Prepares

\* PowerInv holds initially.
LEMMA PowerInit == Init => PowerInv
BY InitType, ThreadAssumption DEF Init, PowerInv, RestingIdle, FlushAlone, Thread

-----------------------------------------------------------------------------
(* Labels and calibration.  prepare_report reads the static id several     *)
(* times, so a report is consistent while no two handlers are in it        *)
(* together, and only then.  Readers may otherwise take turns as they      *)
(* like: what a reader knows of id is lost only when another one advances  *)
(* it, which it cannot meanwhile.                                          *)

OneAtATime ==
    \A r, s \in Reader : r # s => ~(pc[r] \in InPrepare /\ pc[s] \in InPrepare)

\* What a reader's local state says when handlers have not overlapped.
LocalState(r) ==
    /\ pc[r] \in InPrepare => seen[r] = {id} /\ from[r] \subseteq {id}
    /\ pc[r] = "calibrate" => todo[r] = {id}
    /\ pc[r] = "setLast" => id \in calSince[DevOf[r]]
    /\ pc[r] = "advance" /\ from[r] = {} => id \notin lastControllerState[DevOf[r]]
    /\ pc[r] = "complete" => from[r] \subseteq {label[r]}

Serial ==
    /\ OneAtATime
    /\ \A r \in Reader : LocalState(r)
    /\ CalibratedSinceUnplug

SerialInv == ControlInv /\ PowerInv /\ (~overlapped => Serial)

\* A reader's local state survives a step that leaves alone what it has for itself and, if
\* it is in prepare_report, the counter, and that takes no calibration away.
LEMMA LocalKept ==
    ASSUME NEW r \in Reader, LocalState(r), Own(r)' = Own(r),
           pc[r] \in InPrepare =>
               /\ id' = id /\ seen'[r] = seen[r]
               /\ calSince[DevOf[r]] \subseteq calSince'[DevOf[r]]
               /\ lastControllerState'[DevOf[r]] \subseteq lastControllerState[DevOf[r]]
    PROVE  LocalState(r)'
BY DEF LocalState, Own, InPrepare

\* Steps of PnP, the class driver and the calibrate IOCTLs preserve Serial.
LEMMA SerialEnvironment ==
    ASSUME ControlInv, PowerInv, Serial, TypeOK',
           \/ \E d \in Device : PnpPower(d) \/ HidClass(d)
           \/ \E c \in Caller : CalibrateIoctl(c)
           \/ UNCHANGED vars
    PROVE  Serial'
<1> USE ThreadAssumption DEF Thread
<1>0. TypeOK /\ \A r \in Reader : DevOf[r] \in Device
  BY DEF ControlInv
<1>1. /\ \A r \in Reader : Own(r)' = Own(r)
      /\ UNCHANGED <<seen, reportVars>>
  BY <1>0, EnvironmentKept
<1>2. OneAtATime'
  BY <1>1 DEF Serial, OneAtATime, Own
<1>3. ASSUME NEW d \in Device, DeviceAdd(d)
      PROVE  CalibratedSinceUnplug' /\ \A r \in Reader : LocalState(r)'
  <2>1. /\ lastControllerState' = [lastControllerState EXCEPT ![d] = {}]
        /\ calSince' = [calSince EXCEPT ![d] = {}]
    BY <1>3 DEF DeviceAdd
  <2>2. \A r \in Reader : pc[r] \in InPrepare => DevOf[r] # d
    BY <1>3 DEF DeviceAdd, PowerInv, RestingIdle, Resting, InPrepare
  <2>3. \A r \in Reader : LocalState(r)'
    BY <1>0, <1>1, <2>1, <2>2, LocalKept DEF Serial, reportVars, TypeOK
  <2> QED
    BY <1>0, <2>1, <2>3 DEF Serial, CalibratedSinceUnplug, TypeOK
<1>4. ASSUME UNCHANGED lastControllerState, \A d \in Device : calSince[d] \subseteq calSince'[d]
      PROVE  CalibratedSinceUnplug' /\ \A r \in Reader : LocalState(r)'
  <2>1. \A r \in Reader : LocalState(r)'
    BY <1>0, <1>1, <1>4, LocalKept DEF Serial, reportVars
  <2> QED
    BY <1>4, <2>1 DEF Serial, CalibratedSinceUnplug
<1>5. ASSUME NEW d \in Device, PnpPower(d) \/ HidClass(d), ~DeviceAdd(d)
      PROVE  UNCHANGED <<lastControllerState, calSince>>
  BY <1>5 DEF PnpPower, PrepareHardware, D0Entry, D0Exit, Purge, HidClass,
              HidReadReport, CancelParked, calVars
<1>6. ASSUME NEW c \in Caller, CalibrateIoctl(c)
      PROVE  /\ UNCHANGED lastControllerState
             /\ \A d \in Device : calSince[d] \subseteq calSince'[d]
  <2>1. CASE CallerStore(c)
    <3>1. PICK P : StoreCentres(c, P)
      BY <2>1 DEF CallerStore
    <3> QED
      BY <1>0, <2>1, <3>1 DEF CallerStore, StoreCentres, TypeOK
  <2>2. CASE ~CallerStore(c)
    BY <1>6, <2>2 DEF CalibrateIoctl, AdapterCalibrate, CallerSnapshot, calVars
  <2> QED
    BY <2>1, <2>2
<1>7. CASE UNCHANGED vars
  BY <1>4, <1>7, <1>2 DEF Serial, vars, calVars
<1> QED
  BY <1>2, <1>3, <1>4, <1>5, <1>6, <1>7 DEF Serial

\* A handler's step preserves Serial if the new state of its own reader is right, it took
\* nothing that others in prepare_report know, and it is one of them or they are as before.
LEMMA SerialReader ==
    ASSUME ControlInv, Serial, NEW r \in Reader, CallHandler(r) \/ ReadReportHandler(r),
           LocalState(r)', CalibratedSinceUnplug',
           pc'[r] \in InPrepare =>
               pc[r] \in InPrepare \/ \A s \in Reader : pc[s] \notin InPrepare,
           \/ pc[r] \in InPrepare
           \/ /\ UNCHANGED <<id, calSince, lastControllerState>>
              /\ \A s \in Reader \ {r} : seen'[s] = seen[s]
    PROVE  Serial'
<1>1. \A s \in Reader : s # r => Own(s)' = Own(s)
  BY OthersKept DEF ControlInv
<1>2. OneAtATime'
  BY <1>1 DEF Serial, OneAtATime, Own
<1>3. ASSUME NEW s \in Reader, s # r PROVE LocalState(s)'
  <2>1. LocalState(s)
    BY DEF Serial
  <2>2. CASE pc[s] \in InPrepare
    <3>1. pc[r] \notin InPrepare
      BY <1>3, <2>2 DEF Serial, OneAtATime
    <3> QED
      BY <1>1, <1>3, <2>1, <3>1, LocalKept
  <2>3. CASE pc[s] \notin InPrepare
    BY <1>1, <1>3, <2>1, <2>3, LocalKept
  <2> QED
    BY <2>2, <2>3
<1> QED
  BY <1>2, <1>3 DEF Serial

\* The handler's steps outside prepare_report preserve Serial.
LEMMA SerialOutside ==
    ASSUME ControlInv, Serial, NEW r \in Reader,
           \/ CallHandler(r) \/ RetrieveNothing(r) \/ RetrieveNextRequest(r)
           \/ CompleteWithError(r) \/ CompleteReport(r)
    PROVE  Serial'
<1> USE ThreadAssumption DEF Thread
<1>0. TypeOK /\ ControlState(r)
  BY DEF ControlInv
<1>1. /\ UNCHANGED <<seen, id, calSince, lastControllerState>>
      /\ pc'[r] \in {"idle", "retrieve", "enter"}
  <2>1. CASE CallHandler(r)
    BY <1>0, <2>1 DEF CallHandler, ReadComplete, ReadersFailed, SelfManagedIoFlush,
                      localVars, reportVars, calVars, TypeOK
  <2>2. CASE RetrieveNothing(r) \/ RetrieveNextRequest(r) \/ CompleteWithError(r)
    BY <1>0, <2>2 DEF RetrieveNothing, RetrieveNextRequest, CompleteWithError,
                      HandlerReturns, localVars, reportVars, calVars, TypeOK
  <2>3. CASE CompleteReport(r)
    BY <1>0, <2>3 DEF CompleteReport, HandlerReturns, calVars, TypeOK
  <2> QED
    BY <2>1, <2>2, <2>3
<1>2. LocalState(r)'
  BY <1>1 DEF LocalState, InPrepare
<1>3. CalibratedSinceUnplug'
  BY <1>1 DEF Serial, CalibratedSinceUnplug
<1>4. CallHandler(r) \/ ReadReportHandler(r)
  BY DEF ReadReportHandler
<1> QED
  BY <1>1, <1>2, <1>3, <1>4, SerialReader DEF InPrepare

\* Entering prepare_report while nobody is in it preserves Serial.
LEMMA SerialEnter ==
    ASSUME ControlInv, Serial, NEW r \in Reader, EnterPrepareReport(r), ~overlapped'
    PROVE  Serial'
<1> USE ThreadAssumption DEF Thread
<1>0. TypeOK /\ \A s \in Reader : ControlState(s)
  BY DEF ControlInv
<1>1. \A s \in Reader : pc[s] \notin InPrepare
  BY <1>0 DEF EnterPrepareReport, Preparing, ControlState
<1>2. /\ pc'[r] = "checkPort" /\ seen'[r] = {id} /\ from'[r] = from[r] /\ id' = id
      /\ UNCHANGED <<calSince, lastControllerState>>
      /\ \A s \in Reader \ {r} : seen'[s] = seen[s]
      /\ pc[r] = "enter"
  BY <1>0 DEF EnterPrepareReport, calVars, TypeOK
<1>3. LocalState(r)'
  BY <1>0, <1>2 DEF LocalState, ControlState
<1>4. CalibratedSinceUnplug'
  BY <1>2 DEF Serial, CalibratedSinceUnplug
<1> QED
  BY <1>1, <1>2, <1>3, <1>4, SerialReader DEF ReadReportHandler

\* The steps within prepare_report preserve Serial.
LEMMA SerialInside ==
    ASSUME ControlInv, Serial, NEW r \in Reader, Prepares(r), ~EnterPrepareReport(r)
    PROVE  Serial'
<1> USE ThreadAssumption DEF Thread
<1>0. TypeOK /\ ControlState(r) /\ LocalState(r) /\ DevOf[r] \in Device
  BY DEF ControlInv, Serial
<1>1. pc[r] \in InPrepare
  BY PreparesStep DEF Prepares, Handling, InPrepare, FindUnplugged, FindPlugged,
     AlreadyCleared, StillSet, ClearLastControllerState, AlreadyCalibrated,
     CalibrateSnapshot, CalibrateStore, SetLastControllerState, AdvanceId
<1>2. seen[r] = {id} /\ from[r] \subseteq {id} /\ id \in Port
  BY <1>0, <1>1 DEF LocalState, TypeOK
<1>3. ReadReportHandler(r)
  BY DEF Prepares, ReadReportHandler, EnterPrepareReport
<1> SUFFICES LocalState(r)' /\ CalibratedSinceUnplug'
  BY <1>1, <1>3, SerialReader
<1>4. CASE FindUnplugged(r) \/ FindPlugged(r) \/ StillSet(r)
  BY <1>0, <1>2, <1>4 DEF FindUnplugged, FindPlugged, StillSet, Branch, calVars,
     localVars, reportVars, Serial, LocalState, CalibratedSinceUnplug, InPrepare, TypeOK
<1>5. CASE AlreadyCleared(r)
  <2>1. /\ id \notin lastControllerState[DevOf[r]]
        /\ UNCHANGED <<calVars, localVars, reportVars>> /\ pc'[r] = "advance"
    BY <1>0, <1>2, <1>5 DEF AlreadyCleared, Branch, TypeOK
  <2> QED
    BY <1>2, <2>1 DEF calVars, localVars, reportVars, Serial, LocalState,
       CalibratedSinceUnplug
<1>6. CASE ClearLastControllerState(r)
  <2>1. /\ lastControllerState' = [lastControllerState EXCEPT ![DevOf[r]] = @ \ {id}]
        /\ UNCHANGED <<calSince, localVars, reportVars>> /\ pc'[r] = "advance"
    BY <1>0, <1>2, <1>6 DEF ClearLastControllerState, TypeOK
  <2> QED
    BY <1>0, <1>2, <2>1 DEF localVars, reportVars, Serial, LocalState,
       CalibratedSinceUnplug, TypeOK
<1>7. CASE AlreadyCalibrated(r) \/ CalibrateSnapshot(r)
  <2>1. from' = [from EXCEPT ![r] = {id, id}]
    BY <1>2, <1>7 DEF AlreadyCalibrated, CalibrateSnapshot, ProcessInput
  <2>2. CASE AlreadyCalibrated(r)
    BY <1>0, <1>2, <2>1, <2>2 DEF AlreadyCalibrated, calVars, reportVars, Serial,
       LocalState, CalibratedSinceUnplug, TypeOK
  <2>3. CASE CalibrateSnapshot(r)
    <3>1. todo' = [todo EXCEPT ![r] = {id}]
      BY <1>2, <2>3 DEF CalibrateSnapshot
    <3> QED
      BY <1>0, <1>2, <2>1, <2>3, <3>1 DEF CalibrateSnapshot, calVars, reportVars, Serial,
         LocalState, CalibratedSinceUnplug, TypeOK
  <2> QED
    BY <1>7, <2>2, <2>3
<1>8. CASE CalibrateStore(r)
  <2>1. /\ calSince' = [calSince EXCEPT ![DevOf[r]] = @ \cup {id}]
        /\ pc'[r] = "setLast"
        /\ UNCHANGED <<lastControllerState, seen, from, reportVars>>
    BY <1>0, <1>8 DEF CalibrateStore, StoreCentres, LocalState, TypeOK
  <2> QED
    BY <1>0, <1>2, <2>1 DEF reportVars, Serial, LocalState, CalibratedSinceUnplug, TypeOK
<1>9. CASE SetLastControllerState(r)
  <2>1. /\ lastControllerState' = [lastControllerState EXCEPT ![DevOf[r]] = @ \cup {id}]
        /\ UNCHANGED <<calSince, localVars, reportVars>> /\ pc'[r] = "advance"
        /\ from[r] # {} /\ id \in calSince[DevOf[r]]
    BY <1>0, <1>2, <1>9 DEF SetLastControllerState, ControlState, LocalState, TypeOK
  <2> QED
    BY <1>0, <1>2, <2>1 DEF localVars, reportVars, Serial, LocalState,
       CalibratedSinceUnplug, TypeOK
<1>10. CASE AdvanceId(r)
  <2>1. /\ label' = [label EXCEPT ![r] = id]
        /\ calSince' = [calSince EXCEPT ![DevOf[r]] = IF from[r] = {} THEN @ \ {id} ELSE @]
        /\ pc'[r] = "complete" /\ pc[r] = "advance"
        /\ UNCHANGED <<lastControllerState, from>>
    BY <1>0, <1>2, <1>10 DEF AdvanceId, TypeOK
  <2>2. LocalState(r)'
    BY <1>0, <1>2, <2>1 DEF LocalState, InPrepare, TypeOK
  <2> QED
    BY <1>0, <2>1, <2>2 DEF Serial, LocalState, CalibratedSinceUnplug, TypeOK
<1> QED
  BY <1>4, <1>5, <1>6, <1>7, <1>8, <1>9, <1>10 DEF Prepares

\* An overlap is never forgotten.
LEMMA OverlapStays ==
    ASSUME TypeOK, [Next]_vars, ~overlapped'
    PROVE  ~overlapped
<1>1. CASE \/ \E d \in Device : PnpPower(d) \/ HidClass(d)
           \/ \E c \in Caller : CalibrateIoctl(c)
           \/ UNCHANGED vars
  BY <1>1, EnvironmentKept DEF reportVars
<1>2. ASSUME NEW r \in Reader, CallHandler(r) \/ ReadReportHandler(r) PROVE ~overlapped
  BY <1>2, CounterKept DEF EnterPrepareReport, AdvanceId
<1> QED
  BY <1>1, <1>2 DEF Next

\* Every action preserves SerialInv.
LEMMA SerialStep == SerialInv /\ [Next]_vars => SerialInv'
<1> SUFFICES ASSUME SerialInv, [Next]_vars PROVE SerialInv'
  OBVIOUS
<1>0. ControlInv /\ PowerInv /\ ControlInv' /\ PowerInv' /\ TypeOK /\ TypeOK'
  BY ControlStep, PowerStep, TypeStep DEF SerialInv, ControlInv
<1> SUFFICES ASSUME ~overlapped' PROVE Serial'
  BY <1>0 DEF SerialInv
<1>1. ~overlapped
  BY <1>0, OverlapStays
<1>2. CASE \/ \E d \in Device : PnpPower(d) \/ HidClass(d)
           \/ \E c \in Caller : CalibrateIoctl(c)
           \/ UNCHANGED vars
  BY <1>0, <1>2, <1>1, SerialEnvironment DEF SerialInv
<1>3. ASSUME NEW r \in Reader, CallHandler(r) \/ ReadReportHandler(r) PROVE Serial'
  <2>1. ~overlapped /\ Serial
    BY <1>1 DEF SerialInv
  <2>2. CASE EnterPrepareReport(r)
    BY <1>0, <2>1, <2>2, SerialEnter
  <2>3. CASE Prepares(r) /\ ~EnterPrepareReport(r)
    BY <1>0, <2>1, <2>3, SerialInside
  <2>4. CASE ~Prepares(r)
    BY <1>0, <1>3, <2>1, <2>4, SerialOutside DEF ReadReportHandler, Prepares
  <2> QED
    BY <2>2, <2>3, <2>4
<1> QED
  BY <1>2, <1>3 DEF Next

\* SerialInv holds initially.
LEMMA SerialInit == Init => SerialInv
<1> SUFFICES ASSUME Init PROVE Serial
  BY ControlInit, PowerInit DEF SerialInv
<1>1. \A r \in Reader : pc[r] = "idle"
  BY ThreadAssumption DEF Init, Thread
<1> QED
  BY <1>1 DEF Init, Serial, OneAtATime, LocalState, InPrepare, CalibratedSinceUnplug

\* Until two handlers have been in prepare_report together, every report carries the number
\* of the port its input and its centre came from: for any number of adapters and readers.
THEOREM SerialLabels == Spec => [](~overlapped => ReportNamesItsPort)
<1>1. SerialInv => (~overlapped => ReportNamesItsPort)
  BY DEF SerialInv, Serial, LocalState, ReportNamesItsPort
<1> QED
  BY <1>1, SerialInit, SerialStep, PTL DEF Spec

\* Until two handlers have been in prepare_report together, a port that counts as calibrated
\* was calibrated after it was last reported unplugged, whatever the calibrate IOCTLs do
\* meanwhile: for any number of adapters, readers and callers.
THEOREM SerialCalibration == Spec => [](~overlapped => CalibratedSinceUnplug)
<1>1. SerialInv => (~overlapped => CalibratedSinceUnplug)
  BY DEF SerialInv, Serial
<1> QED
  BY <1>1, SerialInit, SerialStep, PTL DEF Spec

-----------------------------------------------------------------------------
(* The rotation.  Labels are given out in the counter's order, but reports *)
(* may be completed in another.  What bounds the wait for one of port p is *)
(* how many readers hold one: for each of them N - 1 labels of other ports *)
(* may have been given out, and R - 1 reports of other ports were prepared *)
(* before all that.                                                        *)

OneAdapter == \A r, s \in Reader : DevOf[r] = DevOf[s]

Labelled(p) == {r \in Reader : label[r] = p}
LabelledOther(p) == {r \in Reader : label[r] \notin {0, p}}

\* The labels given out since the last one of port p.
Since(p) == IF p < id THEN (id - 1) - p ELSE (id - 1) + (N - p)

WaitBound(d, p) ==
    /\ turn[d][p] + Cardinality(LabelledOther(p)) + 1
          <= Cardinality(Reader) + Cardinality(Labelled(p)) * (N - 1) + Since(p)
    /\ Since(p) # 0 => Cardinality(Labelled(p)) + 1 <= Cardinality(Reader)

Rotation(d) == \A p \in Port : WaitBound(d, p)

RotationInv(d) == SerialInv /\ (~overlapped => Rotation(d))

\* Counting the readers in a set that gains or loses one.
LEMMA Counting ==
    ASSUME NEW A \in SUBSET Reader, NEW r \in Reader
    PROVE  /\ Cardinality(A) \in Nat /\ Cardinality(A) <= Cardinality(Reader)
           /\ r \notin A => Cardinality(A \cup {r}) = Cardinality(A) + 1
           /\ r \in A => Cardinality(A \ {r}) = Cardinality(A) - 1
           /\ r \notin A => Cardinality(A) + 1 <= Cardinality(Reader)
           /\ Cardinality(Reader) \in Nat
<1>1. IsFiniteSet(A) /\ Cardinality(A) <= Cardinality(Reader)
  BY ReaderAssumption, FS_Subset
<1>2. Cardinality(A) \in Nat /\ Cardinality(Reader) \in Nat
  BY <1>1, ReaderAssumption, FS_CardinalityType
<1>3. r \notin A => Cardinality(A \cup {r}) = Cardinality(A) + 1
  BY <1>1, FS_AddElement
<1>4. r \in A => Cardinality(A \ {r}) = Cardinality(A) - 1
  BY <1>1, FS_RemoveElement
<1>5. r \notin A => Cardinality(A \cup {r}) <= Cardinality(Reader)
  BY ReaderAssumption, FS_Subset
<1> QED
  BY <1>1, <1>2, <1>3, <1>4, <1>5

\* One reader more adds N - 1 labels.
LEMMA OneMore ==
    ASSUME NEW k \in Nat
    PROVE  /\ k * (N - 1) \in Nat
           /\ (k + 1) * (N - 1) = k * (N - 1) + (N - 1)
<1>1. PICK m \in Nat : m = N - 1
  BY NAssumption
<1>2. k * m \in Nat /\ (k + 1) * m = k * m + m
  OBVIOUS
<1> QED
  BY <1>1, <1>2

\* What an advance of the counter does to the labels given out since a port's.
LEMMA SinceAdvance ==
    ASSUME id \in Port, id' = Advance(id), NEW p \in Port
    PROVE  /\ Since(p) \in 0 .. N - 1
           /\ p = id => Since(p) = N - 1 /\ Since(p)' = 0
           /\ p # id => Since(p)' = Since(p) + 1
<1>1. id' = IF id = N THEN 1 ELSE id + 1
  BY NAssumption DEF Advance, Port
<1> QED
  BY <1>1, NAssumption DEF Since, Port

\* The counter advances: the label is one of the counter's port.
LEMMA RotationAdvance ==
    ASSUME SerialInv, ~overlapped, NEW r \in Reader, AdvanceId(r), NEW d \in Device,
           NEW p \in Port, WaitBound(d, p), turn[d][p] \in Nat
    PROVE  WaitBound(d, p)'
<1> USE ThreadAssumption DEF Thread
<1>0. TypeOK /\ ControlState(r) /\ LocalState(r) /\ id \in Port
  BY DEF SerialInv, ControlInv, Serial, TypeOK
<1>1. /\ label[r] = 0 /\ label' = [label EXCEPT ![r] = id] /\ id' = Advance(id)
      /\ turn' = turn
  <2>1. seen[r] = {id} /\ label[r] = 0 /\ turn' = turn
    BY <1>0 DEF AdvanceId, LocalState, ControlState, InPrepare
  <2> QED
    BY <2>1 DEF AdvanceId
<1>2. /\ Since(p) \in 0 .. N - 1
      /\ p = id => Since(p) = N - 1 /\ Since(p)' = 0
      /\ p # id => Since(p)' = Since(p) + 1
  BY <1>0, <1>1, SinceAdvance
<1>3. r \notin Labelled(p) /\ r \notin LabelledOther(p) /\ 0 \notin Port
  BY <1>1 DEF Labelled, LabelledOther, Port
<1>4. /\ Cardinality(Labelled(p)) \in Nat /\ Cardinality(LabelledOther(p)) \in Nat
      /\ Cardinality(Reader) \in Nat
      /\ Cardinality(Labelled(p)) + 1 <= Cardinality(Reader)
      /\ Cardinality(Labelled(p) \cup {r}) = Cardinality(Labelled(p)) + 1
      /\ Cardinality(LabelledOther(p) \cup {r}) = Cardinality(LabelledOther(p)) + 1
  BY <1>3, Counting DEF Labelled, LabelledOther
<1>5. CASE p = id
  <2>1. Labelled(p)' = Labelled(p) \cup {r} /\ LabelledOther(p)' = LabelledOther(p)
    BY <1>0, <1>1, <1>3, <1>5 DEF Labelled, LabelledOther, TypeOK
  <2>2. (Cardinality(Labelled(p)) + 1) * (N - 1)
            = Cardinality(Labelled(p)) * (N - 1) + (N - 1)
    BY <1>4, OneMore
  <2>3. Cardinality(Labelled(p)) * (N - 1) \in Nat
    BY <1>4, OneMore
  <2>4. turn[d][p] + Cardinality(LabelledOther(p)) + 1
           <= Cardinality(Reader) + (Cardinality(Labelled(p)) + 1) * (N - 1) + 0
    BY <1>2, <1>4, <1>5, <2>2, <2>3, NAssumption DEF WaitBound
  <2> QED
    BY <1>1, <1>2, <1>4, <1>5, <2>1, <2>4 DEF WaitBound
<1>6. CASE p # id
  <2>1. Labelled(p)' = Labelled(p) /\ LabelledOther(p)' = LabelledOther(p) \cup {r}
    BY <1>0, <1>1, <1>3, <1>6 DEF Labelled, LabelledOther, TypeOK
  <2>2. Cardinality(Labelled(p)) * (N - 1) \in Nat
    BY <1>4, OneMore
  <2>3. turn[d][p] + (Cardinality(LabelledOther(p)) + 1) + 1
           <= Cardinality(Reader) + Cardinality(Labelled(p)) * (N - 1) + (Since(p) + 1)
    BY <1>2, <1>4, <2>2 DEF WaitBound
  <2> QED
    BY <1>1, <1>2, <1>4, <1>6, <2>1, <2>3 DEF WaitBound
<1> QED
  BY <1>5, <1>6

\* A report is completed, in whatever order.
LEMMA RotationComplete ==
    ASSUME SerialInv, ~overlapped, NEW r \in Reader, CompleteReport(r),
           NEW p \in Port, WaitBound(DevOf[r], p)
    PROVE  WaitBound(DevOf[r], p)'
<1> USE ThreadAssumption DEF Thread
<1>0. TypeOK /\ ControlState(r) /\ id \in Port /\ DevOf[r] \in Device
  BY DEF SerialInv, ControlInv, TypeOK
<1>1. /\ label[r] # 0 /\ label' = [label EXCEPT ![r] = 0] /\ id' = id
      /\ p = label[r] => turn'[DevOf[r]][p] = 0
      /\ p # label[r] => \/ turn'[DevOf[r]][p] = turn[DevOf[r]][p]
                         \/ turn'[DevOf[r]][p] = turn[DevOf[r]][p] + 1
      /\ turn[DevOf[r]][p] \in Nat
  BY <1>0 DEF CompleteReport, ControlState, TypeOK
<1>2. Since(p)' = Since(p) /\ Since(p) \in Nat
  BY <1>0, <1>1, NAssumption DEF Since, Port
<1>3. /\ Cardinality(Labelled(p)) \in Nat /\ Cardinality(LabelledOther(p)) \in Nat
      /\ Cardinality(Reader) \in Nat
      /\ Cardinality(Labelled(p)) <= Cardinality(Reader)
      /\ r \in Labelled(p) => Cardinality(Labelled(p) \ {r}) = Cardinality(Labelled(p)) - 1
      /\ r \in LabelledOther(p) =>
            Cardinality(LabelledOther(p) \ {r}) = Cardinality(LabelledOther(p)) - 1
      /\ r \notin LabelledOther(p) =>
            Cardinality(LabelledOther(p)) + 1 <= Cardinality(Reader)
  BY Counting DEF Labelled, LabelledOther
<1>4. CASE p = label[r]
  <2>1. /\ Labelled(p)' = Labelled(p) \ {r} /\ LabelledOther(p)' = LabelledOther(p)
        /\ r \in Labelled(p) /\ r \notin LabelledOther(p)
    BY <1>0, <1>1, <1>4 DEF Labelled, LabelledOther, TypeOK
  <2>2. Cardinality(Labelled(p)') = Cardinality(Labelled(p)) - 1
    BY <1>3, <2>1
  <2>3. Cardinality(Labelled(p)') \in Nat
    BY <2>1, Counting DEF Labelled
  <2>4. Cardinality(Labelled(p)') * (N - 1) \in Nat
    BY <2>3, OneMore
  <2>5. /\ 0 + Cardinality(LabelledOther(p)) + 1
              <= Cardinality(Reader) + Cardinality(Labelled(p)') * (N - 1) + Since(p)
        /\ Cardinality(Labelled(p)') + 1 <= Cardinality(Reader)
    BY <1>2, <1>3, <2>1, <2>2, <2>4
  <2> QED
    BY <1>1, <1>2, <1>4, <2>1, <2>5 DEF WaitBound
<1>5. CASE p # label[r]
  <2>1. /\ Labelled(p)' = Labelled(p) /\ LabelledOther(p)' = LabelledOther(p) \ {r}
        /\ r \in LabelledOther(p)
    BY <1>0, <1>1, <1>5 DEF Labelled, LabelledOther, TypeOK, Port
  <2>2. Cardinality(LabelledOther(p)') = Cardinality(LabelledOther(p)) - 1
    BY <1>3, <2>1
  <2>3. Cardinality(Labelled(p)) * (N - 1) \in Nat
    BY <1>3, OneMore
  <2>4. turn'[DevOf[r]][p] + Cardinality(LabelledOther(p)') + 1
           <= Cardinality(Reader) + Cardinality(Labelled(p)) * (N - 1) + Since(p)
    BY <1>1, <1>2, <1>3, <1>5, <2>2, <2>3 DEF WaitBound
  <2> QED
    BY <1>2, <2>1, <2>4 DEF WaitBound
<1> QED
  BY <1>4, <1>5

\* Nothing else changes what the bound is made of, until handlers overlap.
LEMMA RotationKept ==
    ASSUME TypeOK, [Next]_vars, ~overlapped',
           \A r \in Reader : ~AdvanceId(r) /\ ~CompleteReport(r)
    PROVE  UNCHANGED <<label, id, turn>>
<1>1. CASE \/ \E d \in Device : PnpPower(d) \/ HidClass(d)
           \/ \E c \in Caller : CalibrateIoctl(c)
           \/ UNCHANGED vars
  <2>1. UNCHANGED <<label, reportVars>>
    <3>1. ASSUME NEW d \in Device, PnpPower(d) \/ HidClass(d)
          PROVE  UNCHANGED <<label, reportVars>>
      BY <3>1 DEF PnpPower, DeviceAdd, PrepareHardware, D0Entry, D0Exit, Purge, HidClass,
                  HidReadReport, CancelParked, localVars
    <3>2. CASE \/ \E c \in Caller : CalibrateIoctl(c)
               \/ UNCHANGED vars
      BY <3>2 DEF CalibrateIoctl, AdapterCalibrate, CallerSnapshot, CallerStore, vars,
                  localVars
    <3> QED
      BY <1>1, <3>1, <3>2
  <2> QED
    BY <2>1 DEF reportVars
<1>2. ASSUME NEW r \in Reader, CallHandler(r) \/ ReadReportHandler(r)
      PROVE  UNCHANGED <<label, id, turn>>
  <2>1. CASE CallHandler(r)
    BY <2>1 DEF CallHandler, ReadComplete, ReadersFailed, SelfManagedIoFlush, localVars,
                reportVars
  <2>2. CASE RetrieveNothing(r) \/ RetrieveNextRequest(r) \/ CompleteWithError(r)
    BY <2>2 DEF RetrieveNothing, RetrieveNextRequest, CompleteWithError, localVars,
                reportVars
  <2>3. CASE EnterPrepareReport(r)
    BY <2>3 DEF EnterPrepareReport
  <2>4. CASE FindUnplugged(r) \/ FindPlugged(r) \/ AlreadyCleared(r) \/ StillSet(r)
    BY <2>4 DEF FindUnplugged, FindPlugged, AlreadyCleared, StillSet, Branch, localVars,
                reportVars
  <2>5. CASE ClearLastControllerState(r) \/ SetLastControllerState(r)
    BY <2>5 DEF ClearLastControllerState, SetLastControllerState, localVars, reportVars
  <2>6. CASE AlreadyCalibrated(r) \/ CalibrateSnapshot(r) \/ CalibrateStore(r)
    BY <2>6 DEF AlreadyCalibrated, CalibrateSnapshot, CalibrateStore, reportVars
  <2> QED
    BY <1>2, <2>1, <2>2, <2>3, <2>4, <2>5, <2>6 DEF ReadReportHandler
<1> QED
  BY <1>1, <1>2 DEF Next

\* Every action preserves the rotation of the only adapter.
LEMMA RotationStep ==
    ASSUME OneAdapter, NEW r0 \in Reader
    PROVE  RotationInv(DevOf[r0]) /\ [Next]_vars => RotationInv(DevOf[r0])'
<1> SUFFICES ASSUME RotationInv(DevOf[r0]), [Next]_vars, ~overlapped', NEW p \in Port
             PROVE  WaitBound(DevOf[r0], p)'
  BY SerialStep DEF RotationInv, Rotation
<1>0. SerialInv /\ TypeOK /\ DevOf[r0] \in Device
  BY ThreadAssumption DEF RotationInv, SerialInv, ControlInv, Thread
<1>1. ~overlapped
  BY <1>0, OverlapStays
<1>2. WaitBound(DevOf[r0], p) /\ turn[DevOf[r0]][p] \in Nat
  BY <1>0, <1>1 DEF RotationInv, Rotation, TypeOK
<1>3. ASSUME NEW r \in Reader, AdvanceId(r) PROVE WaitBound(DevOf[r0], p)'
  BY <1>0, <1>1, <1>2, <1>3, RotationAdvance
<1>4. ASSUME NEW r \in Reader, CompleteReport(r) PROVE WaitBound(DevOf[r0], p)'
  <2>1. DevOf[r0] = DevOf[r]
    BY DEF OneAdapter
  <2> QED
    BY <1>0, <1>1, <1>2, <1>4, <2>1, RotationComplete
<1>5. CASE \A r \in Reader : ~AdvanceId(r) /\ ~CompleteReport(r)
  <2>1. UNCHANGED <<label, id, turn>>
    BY <1>0, <1>5, RotationKept
  <2> QED
    BY <1>2, <2>1 DEF WaitBound, Labelled, LabelledOther, Since
<1> QED
  BY <1>3, <1>4, <1>5

\* It holds initially.
LEMMA RotationInit ==
    ASSUME NEW r0 \in Reader
    PROVE  Init => RotationInv(DevOf[r0])
<1> SUFFICES ASSUME Init, NEW p \in Port PROVE WaitBound(DevOf[r0], p)
  BY SerialInit DEF RotationInv, Rotation
<1>1. turn[DevOf[r0]][p] = N - p /\ id = 1 /\ \A r \in Reader : label[r] = 0
  BY ThreadAssumption DEF Init, Thread
<1>2. Labelled(p) = {} /\ LabelledOther(p) = {} /\ Since(p) = N - p
  BY <1>1, NAssumption DEF Labelled, LabelledOther, Since, Port
<1>3. Cardinality({}) = 0 /\ Cardinality(Reader) \in Nat /\ 0 + 1 <= Cardinality(Reader)
  <2>1. Cardinality({}) = 0
    BY FS_EmptySet
  <2> QED
    BY <2>1, Counting
<1>4. 0 * (N - 1) = 0
  BY NAssumption
<1> QED
  BY <1>1, <1>2, <1>3, <1>4, NAssumption DEF WaitBound, Port

\* The bound that the invariant implies.
LEMMA RotationBound ==
    ASSUME OneAdapter, NEW r0 \in Reader, RotationInv(DevOf[r0])
    PROVE  ~overlapped => BoundedWait
<1> SUFFICES ASSUME ~overlapped, NEW r \in Reader, NEW p \in Port
             PROVE  turn[DevOf[r]][p] < LongestWait(DevOf[r])
  BY DEF BoundedWait
<1> DEFINE k == Cardinality(Labelled(p))
           o == Cardinality(LabelledOther(p))
           R == Cardinality(Reader)
<1>1. DevOf[r] = DevOf[r0] /\ DevOf[r] \in Device /\ Readers(DevOf[r]) = Reader
  BY ThreadAssumption DEF OneAdapter, Readers, Thread
<1>2. TypeOK /\ WaitBound(DevOf[r], p)
  BY <1>1 DEF RotationInv, Rotation, SerialInv, ControlInv
<1>3. turn[DevOf[r]][p] \in Nat
  BY <1>1, <1>2 DEF TypeOK
<1>4. k \in Nat /\ o \in Nat /\ R \in Nat /\ k <= R
  BY Counting DEF Labelled, LabelledOther
<1>5. Since(p) \in 0 .. N - 1
  BY <1>2, NAssumption DEF Since, Port, TypeOK
<1>6. /\ turn[DevOf[r]][p] + o + 1 <= R + k * (N - 1) + Since(p)
      /\ Since(p) # 0 => k + 1 <= R
  BY <1>2 DEF WaitBound
<1> HIDE DEF k, o, R
<1>7. k * (N - 1) \in Nat /\ R * N \in Nat /\ R * (N - 1) = R * N - R
  BY <1>4, NAssumption
<1>8. k * (N - 1) <= R * (N - 1)
  BY <1>4, NAssumption
<1>9. Since(p) # 0 => k * (N - 1) + (N - 1) <= R * (N - 1)
  <2>1. k + 1 <= R => (k + 1) * (N - 1) <= R * (N - 1)
    BY <1>4, NAssumption
  <2> QED
    BY <1>4, <1>6, <2>1, OneMore
<1>10. turn[DevOf[r]][p] < R * N
  BY <1>3, <1>4, <1>5, <1>6, <1>7, <1>8, <1>9, NAssumption
<1>11. R * N = N * R
  BY <1>4, NAssumption
<1> QED
  BY <1>1, <1>10, <1>11 DEF LongestWait, R

\* With one adapter, of any number of ports and readers, no controller's report comes later
\* than N reports for each reader after its last one, until two handlers have been in
\* prepare_report together: neither an unplugged or newly plugged port, an error, a
\* cancellation, a power cycle nor a handler that is overtaken spoils the rotation.
THEOREM SerialRotation ==
    ASSUME OneAdapter
    PROVE  Spec => [](~overlapped => BoundedWait)
<1>1. CASE Reader = {}
  <2>1. ~overlapped => BoundedWait
    BY <1>1 DEF BoundedWait
  <2> QED
    BY <2>1, PTL
<1>2. ASSUME NEW r0 \in Reader PROVE Spec => [](~overlapped => BoundedWait)
  <2>1. Init => RotationInv(DevOf[r0])
    BY RotationInit
  <2>2. RotationInv(DevOf[r0]) /\ [Next]_vars => RotationInv(DevOf[r0])'
    BY RotationStep
  <2>3. RotationInv(DevOf[r0]) => (~overlapped => BoundedWait)
    BY RotationBound
  <2> QED
    BY <2>1, <2>2, <2>3, PTL DEF Spec
<1> QED
  BY <1>1, <1>2

\* With one adapter, of any number of ports and readers, overlapping handlers are the only
\* thing that spoils rotation, labels and calibration.
THEOREM OnlyOverlapsHarm ==
    ASSUME OneAdapter
    PROVE  Spec => []SoundUntilOverlap
<1>1. Spec => [](~overlapped => BoundedWait)
  BY SerialRotation
<1>2. /\ ~overlapped => BoundedWait
      /\ ~overlapped => ReportNamesItsPort
      /\ ~overlapped => CalibratedSinceUnplug
      => SoundUntilOverlap
  BY DEF SoundUntilOverlap
<1> QED
  BY <1>1, <1>2, SerialLabels, SerialCalibration, PTL
=============================================================================
