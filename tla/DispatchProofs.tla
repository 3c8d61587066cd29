--------------------------- MODULE DispatchProofs ---------------------------
(***************************************************************************)
(* Theorems about Dispatch, for any set of requests.                       *)
(***************************************************************************)
EXTENDS Dispatch, QueueLemmas, TLAPS

-----------------------------------------------------------------------------
(* The invariant.  A completion is a second one exactly when the request   *)
(* is free already, so every action that completes must know that its      *)
(* request is not free: one in a queue is queued (Places), and one whose   *)
(* helper returned an error is still in the handler (OpenError).           *)

Waiting(k) == ToSet(queue[k])

Types ==
    /\ power \in {"D0", "Dx"}
    /\ queue \in [Queue -> Seq(Request)]
    /\ at \in [Request -> Dispatching \cup {"free", "queued", "usb", "lower"}]
    /\ code \in [Request -> Code]
    /\ returned \in [Request -> {"none", "success", "error"}]
    /\ twice \subseteq Code

Places ==
    /\ \A k \in Queue : IsInjective(queue[k])
    /\ \A k, j \in Queue : k # j => Waiting(k) \cap Waiting(j) = {}
    /\ \A q \in Request : at[q] = "queued" <=> \E k \in Queue : q \in Waiting(k)

OpenError ==
    \A q \in Request : returned[q] # "none" =>
        \/ /\ returned[q] = "error"
           /\ at[q] = "other"
        \/ /\ returned[q] = "success"
           /\ at[q] = "free"

DispatchInv == Types /\ Places /\ OpenError /\ AnsweredOnce

-----------------------------------------------------------------------------
\* A request that was in no queue and is appended to one.
LEMMA Enters ==
    ASSUME Types, Places, NEW q \in Request, NEW k \in Queue, at[q] # "queued",
           Enqueue(q, k)
    PROVE  Places' /\ queue' \in [Queue -> Seq(Request)]
<1>1. \A j \in Queue : q \notin Waiting(j)
  BY DEF Places
<1>2. \A j \in Queue : queue'[j] = IF j = k THEN Append(queue[k], q) ELSE queue[j]
  BY DEF Enqueue, Types
<1>3. ToSet(Append(queue[k], q)) = Waiting(k) \cup {q} /\ IsInjective(Append(queue[k], q))
  BY <1>1, AppendDistinct DEF Places, Types, Waiting
<1>4. \A j \in Queue : Waiting(j)' = IF j = k THEN Waiting(k) \cup {q} ELSE Waiting(j)
  BY <1>2, <1>3 DEF Waiting
<1>5. \A p \in Request : at'[p] = IF p = q THEN "queued" ELSE at[p]
  BY DEF Enqueue, Move, Types
<1>6. \A j \in Queue : IsInjective(queue'[j])
  BY <1>2, <1>3 DEF Places
<1>7. \A j, i \in Queue : j # i => Waiting(j)' \cap Waiting(i)' = {}
  BY <1>1, <1>4 DEF Places
<1>8. \A p \in Request : at'[p] = "queued" <=> \E j \in Queue : p \in Waiting(j)'
  BY <1>4, <1>5 DEF Places
<1>9. queue' \in [Queue -> Seq(Request)]
  BY DEF Enqueue, Types
<1> QED
  BY <1>6, <1>7, <1>8, <1>9 DEF Places

\* A request that leaves its queue, which keeps the others in s.
LEMMA Leaves ==
    ASSUME Types, Places, NEW k \in Queue, NEW s \in Seq(Request), NEW q \in Waiting(k),
           ToSet(s) = Waiting(k) \ {q}, IsInjective(s),
           queue' = [queue EXCEPT ![k] = s],
           NEW place \in Dispatching \cup {"free"}, at' = [at EXCEPT ![q] = place]
    PROVE  Places' /\ queue' \in [Queue -> Seq(Request)] /\ q \in Request /\ at[q] = "queued"
<1>1. q \in Request /\ at[q] = "queued"
  BY DEF Places, Types, Waiting, ToSet
<1>2. \A j \in Queue : queue'[j] = IF j = k THEN s ELSE queue[j]
  BY DEF Types
<1>3. \A j \in Queue : Waiting(j)' = IF j = k THEN Waiting(k) \ {q} ELSE Waiting(j)
  <2>1. queue'[k] = s
    BY <1>2
  <2>2. Waiting(k)' = Waiting(k) \ {q}
    BY <2>1 DEF Waiting
  <2>3. ASSUME NEW j \in Queue, j # k PROVE Waiting(j)' = Waiting(j)
    BY <1>2, <2>3 DEF Waiting
  <2> QED
    BY <2>2, <2>3
<1>4. \A p \in Request : at'[p] = IF p = q THEN place ELSE at[p]
  BY <1>1 DEF Types
<1>5. place # "queued"
  BY DEF Dispatching
<1>6. \A j \in Queue : IsInjective(queue'[j])
  BY <1>2 DEF Places
<1>7. \A j, i \in Queue : j # i => Waiting(j)' \cap Waiting(i)' = {}
  BY <1>3 DEF Places
<1>8. \A j \in Queue : j # k => q \notin Waiting(j)
  BY DEF Places
<1>9. \A p \in Request : at'[p] = "queued" <=> \E j \in Queue : p \in Waiting(j)'
  BY <1>3, <1>4, <1>5, <1>8 DEF Places
<1>10. queue' \in [Queue -> Seq(Request)]
  BY DEF Types
<1> QED
  BY <1>1, <1>6, <1>7, <1>9, <1>10 DEF Places

\* Steps that leave the queues alone and move no request into or out of one.
LEMMA Stays ==
    ASSUME Types, Places, UNCHANGED queue,
           \A q \in Request : at'[q] = "queued" <=> at[q] = "queued"
    PROVE  Places'
BY DEF Types, Places, Waiting

\* Initially nothing is queued, returned or completed.
LEMMA DispatchInit == Init => DispatchInv
<1> SUFFICES ASSUME Init PROVE DispatchInv
  OBVIOUS
<1>1. \A k \in Queue : queue[k] = <<>> /\ Waiting(k) = {}
  BY DEF Init, Waiting, ToSet
<1>2. \A k \in Queue : IsInjective(queue[k])
  BY <1>1 DEF IsInjective
<1>3. Types
  BY <1>1 DEF Init, Types, Code, Private
<1>4. Places
  BY <1>1, <1>2 DEF Init, Places
<1> QED
  BY <1>3, <1>4 DEF Init, DispatchInv, OpenError, AnsweredOnce

-----------------------------------------------------------------------------
\* Completing a request that is not free is no second completion.
LEMMA FirstCompletion ==
    ASSUME Types, NEW q \in Request, at[q] # "free", Complete(q)
    PROVE  twice' = twice /\ at' = [at EXCEPT ![q] = "free"]
BY DEF Complete

\* A step that moves one request q, whose helper has not returned, and nothing else
\* keeps the other facts of the invariant.
LEMMA Moves ==
    ASSUME DispatchInv, NEW q \in Request, NEW place, returned[q] = "none",
           place \in Dispatching \cup {"free", "queued", "usb", "lower"},
           at' = [at EXCEPT ![q] = place],
           UNCHANGED <<power, code, returned, twice>>,
           queue' \in [Queue -> Seq(Request)], Places'
    PROVE  DispatchInv'
<1>1. Types'
  BY DEF DispatchInv, Types
<1>2. OpenError'
  BY DEF DispatchInv, OpenError, Types
<1>3. AnsweredOnce'
  BY DEF DispatchInv, AnsweredOnce
<1> QED
  BY <1>1, <1>2, <1>3 DEF DispatchInv

\* A request in a queue, or in a handler other than the IOCTL handler, or at the USB
\* stack, belongs to no helper.
LEMMA NoHelper ==
    ASSUME DispatchInv, NEW q \in Request, at[q] \notin {"free", "other"}
    PROVE  returned[q] = "none"
BY DEF DispatchInv, OpenError, Types

\* A handler completes the request it holds.
LEMMA CompletesHeld ==
    ASSUME DispatchInv, NEW q \in Request, at[q] \notin {"free", "queued"},
           returned[q] = "none", Complete(q), UNCHANGED <<power, queue, code, returned>>
    PROVE  DispatchInv'
<1>1. twice' = twice /\ at' = [at EXCEPT ![q] = "free"]
  BY FirstCompletion DEF DispatchInv
<1>2. \A p \in Request : at'[p] = "queued" <=> at[p] = "queued"
  BY <1>1 DEF DispatchInv, Types
<1>3. Places'
  BY <1>2, Stays DEF DispatchInv
<1> QED
  BY <1>1, <1>3, Moves DEF DispatchInv, Types

\* A handler passes the request it holds on to the USB stack.
LEMMA HandsDown ==
    ASSUME DispatchInv, NEW q \in Request, at[q] \notin {"free", "queued"},
           returned[q] = "none", NEW place \in {"usb", "lower"}, Move(q, place),
           UNCHANGED <<power, queue, code, returned>>
    PROVE  DispatchInv'
<1>1. twice' = twice /\ at' = [at EXCEPT ![q] = place]
  BY DEF Move
<1>2. \A p \in Request : at'[p] = "queued" <=> at[p] = "queued"
  BY <1>1 DEF DispatchInv, Types
<1>3. Places'
  BY <1>2, Stays DEF DispatchInv
<1> QED
  BY <1>1, <1>3, Moves DEF DispatchInv, Types

\* Every action preserves the invariant.
LEMMA DispatchStep == DispatchInv /\ [Next]_vars => DispatchInv'
<1> SUFFICES ASSUME DispatchInv, [Next]_vars PROVE DispatchInv'
  OBVIOUS
<1>1. Types /\ Places /\ OpenError
  BY DEF DispatchInv
<1>2. ASSUME NEW q \in Request, NEW c \in Code, NEW k \in Queue, Issue(q, c, k)
      PROVE  DispatchInv'
  <2>1. Places' /\ queue' \in [Queue -> Seq(Request)]
    BY <1>1, <1>2, Enters DEF Issue
  <2>2. Types'
    BY <1>1, <1>2, <2>1 DEF Types, Issue, Enqueue, Move
  <2>3. OpenError'
    BY <1>1, <1>2 DEF OpenError, Types, Issue, Enqueue, Move
  <2>4. AnsweredOnce'
    BY <1>2 DEF DispatchInv, AnsweredOnce, Issue, Enqueue, Move
  <2> QED
    BY <2>1, <2>2, <2>3, <2>4 DEF DispatchInv
<1>3. ASSUME NEW q \in Request, PdoForward(q) \/ ParkReport(q) PROVE DispatchInv'
  <2>1. PICK k \in {"other", "interruptMsg"} :
           Enqueue(q, k) /\ UNCHANGED <<power, code, returned>>
    BY <1>3 DEF PdoForward, ParkReport
  <2>2. k \in Queue /\ at[q] # "queued" /\ returned[q] = "none"
    BY <1>3, <2>1, NoHelper DEF PdoForward, ParkReport, Handling, Queue, Dispatching
  <2>3. Places' /\ queue' \in [Queue -> Seq(Request)]
    BY <1>1, <2>1, <2>2, Enters
  <2> QED
    BY <2>1, <2>2, <2>3, Moves DEF Enqueue, Move
<1>4. ASSUME NEW q \in Request,
             \/ PdoComplete(q) \/ CompleteAtEnd(q) \/ ForwardFails(q) \/ IoRead(q)
             \/ IoWriteFails(q) \/ WriteCompletion(q) \/ LowerCompletes(q)
      PROVE  DispatchInv'
  <2>1. Complete(q) /\ UNCHANGED <<power, queue, code, returned>>
    BY <1>4 DEF PdoComplete, CompleteAtEnd, ForwardFails, IoRead, IoWriteFails,
                WriteCompletion, LowerCompletes
  <2>2. at[q] \notin {"free", "queued"} /\ returned[q] = "none"
    BY <1>4, NoHelper DEF PdoComplete, CompleteAtEnd, ForwardFails, IoRead, IoWriteFails,
                          WriteCompletion, LowerCompletes, Handling
  <2> QED
    BY <2>1, <2>2, CompletesHeld
<1>5. ASSUME NEW q \in Request, SendIdleNotification(q) \/ IoWriteSend(q)
      PROVE  DispatchInv'
  <2>1. PICK place \in {"usb", "lower"} :
           Move(q, place) /\ UNCHANGED <<power, queue, code, returned>>
    BY <1>5 DEF SendIdleNotification, IoWriteSend
  <2>2. at[q] \notin {"free", "queued"} /\ returned[q] = "none"
    BY <1>5, NoHelper DEF SendIdleNotification, IoWriteSend, Handling
  <2> QED
    BY <2>1, <2>2, HandsDown
<1>6. ASSUME NEW q \in Request, HelperRejects(q) PROVE DispatchInv'
  <2>1. Types'
    BY <1>1, <1>6 DEF Types, HelperRejects
  <2>2. Places'
    BY <1>1, <1>6, Stays DEF HelperRejects
  <2>3. OpenError' /\ AnsweredOnce'
    BY <1>1, <1>6 DEF DispatchInv, OpenError, AnsweredOnce, Types, HelperRejects,
                      Handling
  <2> QED
    BY <2>1, <2>2, <2>3 DEF DispatchInv
<1>7. ASSUME NEW q \in Request, HelperCompletes(q) PROVE DispatchInv'
  <2>1. at[q] = "other" /\ Complete(q) /\ UNCHANGED <<power, queue, code>>
    BY <1>7 DEF HelperCompletes, Handling
  <2>2. twice' = twice /\ at' = [at EXCEPT ![q] = "free"]
    BY <1>1, <2>1, FirstCompletion
  <2>3. returned' = [returned EXCEPT ![q] = "success"]
    BY <1>7 DEF HelperCompletes
  <2>4. Types'
    BY <1>1, <2>1, <2>2, <2>3 DEF Types
  <2>5. Places'
    BY <1>1, <2>1, <2>2, Stays DEF Types
  <2>6. OpenError' /\ AnsweredOnce'
    BY <1>1, <2>1, <2>2, <2>3 DEF DispatchInv, OpenError, AnsweredOnce, Types
  <2> QED
    BY <2>4, <2>5, <2>6 DEF DispatchInv
<1>8. ASSUME NEW q \in Request, CallerReturns(q) PROVE DispatchInv'
  <2>1. /\ at' \in {at, [at EXCEPT ![q] = "free"]}
        /\ twice' \subseteq twice \cup {code[q]}
        /\ twice' # twice => at[q] = "free" /\ returned[q] = "error"
    BY <1>8 DEF CallerReturns, Complete
  <2>2. at[q] \in {"free", "other"} /\ at[q] # "queued"
    BY <1>1, <1>8 DEF OpenError, CallerReturns
  <2>3. Types'
    BY <1>1, <1>8, <2>1 DEF Types, CallerReturns
  <2>4. Places'
    BY <1>1, <1>8, <2>1, <2>2, Stays DEF Types, CallerReturns
  <2>5. twice' = twice
    BY <1>1, <2>1 DEF OpenError
  <2>6. AnsweredOnce'
    BY <2>1, <2>5 DEF DispatchInv, AnsweredOnce
  <2>7. OpenError'
    BY <1>1, <1>8, <2>1 DEF OpenError, Types, CallerReturns
  <2> QED
    BY <2>3, <2>4, <2>6, <2>7 DEF DispatchInv
<1>9. ASSUME NEW k \in Queue, NEW s \in Seq(Request), NEW q \in Waiting(k),
             ToSet(s) = Waiting(k) \ {q}, IsInjective(s),
             queue' = [queue EXCEPT ![k] = s],
             NEW place \in Dispatching \cup {"free"},
             (Complete(q) /\ place = "free") \/ Move(q, place),
             UNCHANGED <<power, code, returned>>
      PROVE  DispatchInv'
  <2>1. q \in Request /\ at[q] = "queued"
    BY <1>1 DEF Places, Types, Waiting, ToSet
  <2>2. twice' = twice /\ at' = [at EXCEPT ![q] = place]
    BY <1>9, <2>1 DEF Complete, Move
  <2>3. Places' /\ queue' \in [Queue -> Seq(Request)]
    BY <1>1, <1>9, <2>2, Leaves
  <2>4. returned[q] = "none"
    BY <2>1, NoHelper
  <2> QED
    BY <1>9, <2>1, <2>2, <2>3, <2>4, Moves
<1>10. ASSUME NEW k \in Dispatching, Deliver(k) PROVE DispatchInv'
  <2>1. k \in Queue /\ queue[k] \in Seq(Request) /\ IsInjective(queue[k])
    BY <1>1 DEF Queue, Types, Places
  <2>2. /\ queue[k] # <<>> /\ Move(Head(queue[k]), k)
        /\ queue' = [queue EXCEPT ![k] = Tail(queue[k])]
        /\ UNCHANGED <<power, code, returned>>
    BY <1>10 DEF Deliver
  <2>3. /\ Head(queue[k]) \in Waiting(k) /\ Tail(queue[k]) \in Seq(Request)
        /\ ToSet(Tail(queue[k])) = Waiting(k) \ {Head(queue[k])}
        /\ IsInjective(Tail(queue[k]))
    BY <2>1, <2>2, TailDistinct DEF Waiting
  <2> QED
    BY <1>9, <2>1, <2>2, <2>3
<1>11. ASSUME ServeParked PROVE DispatchInv'
  <2> DEFINE k == "interruptMsg"
  <2>1. k \in Queue /\ queue[k] \in Seq(Request) /\ IsInjective(queue[k])
    BY <1>1 DEF Queue, Types, Places
  <2>2. /\ queue[k] # <<>> /\ Complete(Head(queue[k]))
        /\ queue' = [queue EXCEPT ![k] = Tail(queue[k])]
        /\ UNCHANGED <<power, code, returned>>
    BY <1>11 DEF ServeParked
  <2>3. /\ Head(queue[k]) \in Waiting(k) /\ Tail(queue[k]) \in Seq(Request)
        /\ ToSet(Tail(queue[k])) = Waiting(k) \ {Head(queue[k])}
        /\ IsInjective(Tail(queue[k]))
    BY <2>1, <2>2, TailDistinct DEF Waiting
  <2> QED
    BY <1>9, <2>1, <2>2, <2>3
<1>12. ASSUME NEW k \in Queue, NEW i \in DOMAIN queue[k], Cancel(k, i) PROVE DispatchInv'
  <2>1. queue[k] \in Seq(Request) /\ IsInjective(queue[k])
    BY <1>1 DEF Types, Places
  <2>2. /\ Complete(queue[k][i])
        /\ queue' = [queue EXCEPT ![k] = RemoveAt(queue[k], i)]
        /\ UNCHANGED <<power, code, returned>>
    BY <1>12 DEF Cancel
  <2>3. /\ queue[k][i] \in Waiting(k) /\ RemoveAt(queue[k], i) \in Seq(Request)
        /\ ToSet(RemoveAt(queue[k], i)) = Waiting(k) \ {queue[k][i]}
        /\ IsInjective(RemoveAt(queue[k], i))
    BY <2>1, RemoveAtSeq, RemoveAtDistinct DEF Waiting, ToSet
  <2> QED
    BY <1>9, <2>2, <2>3
<1>13. ASSUME D0Entry \/ D0Exit \/ UNCHANGED vars PROVE DispatchInv'
  <2>1. /\ power' \in {"D0", "Dx"}
        /\ UNCHANGED <<queue, at, code, returned, twice>>
    BY <1>1, <1>13 DEF D0Entry, D0Exit, vars, Types
  <2>2. Places'
    BY <1>1, <2>1, Stays
  <2>3. Types' /\ OpenError' /\ AnsweredOnce'
    BY <1>1, <2>1 DEF DispatchInv, Types, OpenError, AnsweredOnce
  <2> QED
    BY <2>2, <2>3 DEF DispatchInv
<1> QED
  BY <1>2, <1>3, <1>4, <1>5, <1>6, <1>7, <1>8, <1>10, <1>11, <1>12, <1>13
     DEF Next, Handler, Framework

\* In every reachable state the requests in the queues are exactly the queued ones.
THEOREM DispatchTypes == Spec => []TypeOK
<1>1. DispatchInv => TypeOK
  BY DEF DispatchInv, Types, Places, TypeOK, Waiting, ToSet
<1> QED
  BY <1>1, DispatchInit, DispatchStep, PTL DEF Spec

\* However many requests come in whatever order, are cancelled, fail or are parked, none
\* is ever completed a second time.
THEOREM CompletedOnce == Spec => []AnsweredOnce
BY DispatchInit, DispatchStep, PTL DEF Spec, DispatchInv
=============================================================================
