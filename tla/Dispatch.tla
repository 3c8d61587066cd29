------------------------------ MODULE Dispatch ------------------------------
(***************************************************************************)
(* The way of a request through the driver's queues and handlers: from the *)
(* raw PDO that user mode opens or from the HID class driver, through the  *)
(* sequential and parallel queues, into a handler that completes it, parks *)
(* it, or sends it to the USB stack.  What the handlers do to the device   *)
(* is in HidReports and Rumble; this module is about who completes a       *)
(* request, and how often.                                                 *)
(*                                                                         *)
(* An element of Request is a framework request object.  It is reused for  *)
(* the next request once it has been completed and its handler returned.   *)
(***************************************************************************)
EXTENDS Naturals, SequencesExt

CONSTANTS Request

\* "control" stands for the IOCTLs CALIBRATE, SET_DEADZONE, GET_DEADZONE and SET_RUMBLE,
\* "descriptor" for the three that ask for descriptors and attributes, "unsupported" for
\* all the rest.
Private == {"control"}
Code == Private \cup {"descriptor", "read_report", "idle", "unsupported", "read", "write"}

\* The queues; "pdo" is the raw PDO's.  All but "interruptMsg" call a handler.
Dispatching == {"pdo", "other", "read", "write"}
Sequential == {"pdo", "read", "write"}
Queue == Dispatching \cup {"interruptMsg"}

VARIABLES
    power,    \* whether the device is in D0
    queue,    \* requests waiting, oldest first
    at,       \* where a request is: "free", "queued", in the handler of one of the
              \* dispatching queues, a write at the USB stack ("usb"), or handed down
              \* for good ("lower")
    code,     \* what it asks for
    returned, \* what a private IOCTL's helper returned to the IOCTL handler
    twice     \* codes of the requests that were completed once too often

vars == <<power, queue, at, code, returned, twice>>

Init ==
    /\ power = "Dx"
    /\ queue = [k \in Queue |-> <<>>]
    /\ at = [q \in Request |-> "free"]
    /\ code = [q \in Request |-> "unsupported"]
    /\ returned = [q \in Request |-> "none"]
    /\ twice = {}

\* WdfRequestComplete.
Complete(q) ==
    /\ at' = [at EXCEPT ![q] = "free"]
    /\ twice' = IF at[q] = "free" THEN twice \cup {code[q]} ELSE twice

Move(q, place) == at' = [at EXCEPT ![q] = place] /\ UNCHANGED twice

Enqueue(q, k) ==
    /\ queue' = [queue EXCEPT ![k] = Append(@, q)]
    /\ Move(q, "queued")

-----------------------------------------------------------------------------
(* The queues.                                                             *)

\* User mode sends IOCTLs to the raw PDO; all else comes down the device's own stack,
\* whose device control handler takes the private IOCTLs too.
Entrance(c) ==
    CASE c \in Private \cup {"unsupported"} -> {"pdo", "other"}
      [] c \in {"read", "write"} -> {c}
      [] OTHER -> {"other"}

Issue(q, c, k) ==
    /\ at[q] = "free"
    /\ returned[q] = "none"
    /\ k \in Entrance(c)
    /\ code' = [code EXCEPT ![q] = c]
    /\ Enqueue(q, k)
    /\ UNCHANGED <<power, returned>>

\* A request the driver got from queue k and has neither completed nor passed on.
InHands(k) ==
    \E q \in Request : at[q] = k \/ (k = "write" /\ at[q] = "usb")

\* The framework calls the handler of queue k, in D0 or not: a filter's queues are not
\* power managed (Driver.c:66).
Deliver(k) ==
    /\ queue[k] # <<>>
    /\ k \in Sequential => ~InHands(k)
    /\ Move(Head(queue[k]), k)
    /\ queue' = [queue EXCEPT ![k] = Tail(@)]
    /\ UNCHANGED <<power, code, returned>>

\* The framework completes a waiting request that its owner cancels.
Cancel(k, i) ==
    /\ i \in DOMAIN queue[k]
    /\ Complete(queue[k][i])
    /\ queue' = [queue EXCEPT ![k] = RemoveAt(@, i)]
    /\ UNCHANGED <<power, code, returned>>

D0Entry ==
    /\ power = "Dx"
    /\ power' = "D0"
    /\ UNCHANGED <<queue, at, code, returned, twice>>

\* Nothing waits for the handlers: only the reader is stopped.
D0Exit ==
    /\ power = "D0"
    /\ power' = "Dx"
    /\ UNCHANGED <<queue, at, code, returned, twice>>

-----------------------------------------------------------------------------
(* EvtIoDeviceControlForRawPdo.                                            *)

PdoForward(q) ==
    /\ at[q] = "pdo"
    /\ code[q] \in Private
    /\ Enqueue(q, "other")
    /\ UNCHANGED <<power, code, returned>>

\* Another code, or the forward failed.
PdoComplete(q) ==
    /\ at[q] = "pdo"
    /\ Complete(q)
    /\ UNCHANGED <<power, queue, code, returned>>

-----------------------------------------------------------------------------
(* EvtInternalDeviceControl.                                               *)

Handling(q, C) == at[q] = "other" /\ code[q] \in C /\ returned[q] = "none"

\* Out of the switch: completed with whatever status.
CompleteAtEnd(q) ==
    /\ Handling(q, {"descriptor", "unsupported"})
    /\ Complete(q)
    /\ UNCHANGED <<power, queue, code, returned>>

\* Variant: the request is dropped from the handler's sight and never queued.
ForgetReport(q) ==
    /\ Handling(q, {"read_report"})
    /\ Move(q, "queued")
    /\ UNCHANGED <<power, queue, code, returned>>

ParkReport(q) ==
    /\ Handling(q, {"read_report"})
    /\ Enqueue(q, "interruptMsg")
    /\ UNCHANGED <<power, code, returned>>

SendIdleNotification(q) ==
    /\ Handling(q, {"idle"})
    /\ Move(q, "lower")
    /\ UNCHANGED <<power, queue, code, returned>>

ForwardFails(q) ==
    /\ Handling(q, {"read_report", "idle"})
    /\ Complete(q)
    /\ UNCHANGED <<power, queue, code, returned>>

\* Variant: an invalid buffer is answered here, although the caller will do it too.
HelperCompletesAndRejects(q) ==
    /\ Handling(q, Private)
    /\ Complete(q)
    /\ returned' = [returned EXCEPT ![q] = "error"]
    /\ UNCHANGED <<power, queue, code>>

\* The buffer is too small or missing, or the operation failed.
HelperRejects(q) ==
    /\ Handling(q, Private)
    /\ returned' = [returned EXCEPT ![q] = "error"]
    /\ UNCHANGED <<power, queue, at, code, twice>>

\* The helper completes the request and then returns success.
HelperCompletes(q) ==
    /\ Handling(q, Private)
    /\ Complete(q)
    /\ returned' = [returned EXCEPT ![q] = "success"]
    /\ UNCHANGED <<power, queue, code>>

\* The caller completes what the helper's status says it did not.
CallerReturns(q) ==
    /\ returned[q] # "none"
    /\ IF returned[q] = "error" THEN Complete(q) ELSE UNCHANGED <<at, twice>>
    /\ returned' = [returned EXCEPT ![q] = "none"]
    /\ UNCHANGED <<power, queue, code>>

-----------------------------------------------------------------------------
(* EvtIoRead, EvtIoWrite, and what happens outside the handlers.           *)

\* Whether its length and buffer are right or wrong.
IoRead(q) ==
    /\ at[q] = "read"
    /\ Complete(q)
    /\ UNCHANGED <<power, queue, code, returned>>

IoWriteSend(q) ==
    /\ at[q] = "write"
    /\ Move(q, "usb")
    /\ UNCHANGED <<power, queue, code, returned>>

\* Wrong length, no buffer, or the request cannot be formatted or sent.
IoWriteFails(q) ==
    /\ at[q] = "write"
    /\ Complete(q)
    /\ UNCHANGED <<power, queue, code, returned>>

WriteCompletion(q) ==
    /\ at[q] = "usb"
    /\ Complete(q)
    /\ UNCHANGED <<power, queue, code, returned>>

\* The read report handler answers the oldest parked request on the next packet.
ServeParked ==
    /\ power = "D0"
    /\ queue["interruptMsg"] # <<>>
    /\ Complete(Head(queue["interruptMsg"]))
    /\ queue' = [queue EXCEPT !["interruptMsg"] = Tail(@)]
    /\ UNCHANGED <<power, code, returned>>

\* The USB stack finds the device idle, or the class driver cancels the notification.
LowerCompletes(q) ==
    /\ at[q] = "lower"
    /\ Complete(q)
    /\ UNCHANGED <<power, queue, code, returned>>

-----------------------------------------------------------------------------
Handler(q) ==
    \/ PdoForward(q)
    \/ PdoComplete(q)
    \/ CompleteAtEnd(q)
    \/ ParkReport(q)
    \/ SendIdleNotification(q)
    \/ ForwardFails(q)
    \/ HelperRejects(q)
    \/ HelperCompletes(q)
    \/ CallerReturns(q)
    \/ IoRead(q)
    \/ IoWriteSend(q)
    \/ IoWriteFails(q)
    \/ WriteCompletion(q)

Framework ==
    \/ D0Entry
    \/ D0Exit
    \/ \E k \in Dispatching : Deliver(k)
    \/ \E k \in Queue : \E i \in DOMAIN queue[k] : Cancel(k, i)

\* Completing a request twice stops the system.
Next ==
    /\ twice = {}
    /\ \/ \E q \in Request, c \in Code, k \in Queue : Issue(q, c, k)
       \/ \E q \in Request : Handler(q) \/ LowerCompletes(q)
       \/ ServeParked
       \/ Framework

Spec == Init /\ [][Next]_vars

\* Handlers run to their end, the USB stack finishes the writes, the adapter sends
\* packets in D0, and the framework delivers what the queues' types allow.
Fairness ==
    /\ \A q \in Request : WF_vars(twice = {} /\ Handler(q))
    /\ \A k \in Dispatching : WF_vars(twice = {} /\ Deliver(k))
    /\ WF_vars(twice = {} /\ ServeParked)

FairSpec == Spec /\ Fairness

-----------------------------------------------------------------------------
\* Every variable has its type, and the requests in the queues are the queued ones.
TypeOK ==
    /\ power \in {"D0", "Dx"}
    /\ queue \in [Queue -> Seq(Request)]
    /\ at \in [Request -> Dispatching \cup {"free", "queued", "usb", "lower"}]
    /\ code \in [Request -> Code]
    /\ returned \in [Request -> {"none", "success", "error"}]
    /\ twice \subseteq Code
    /\ UNION {ToSet(queue[k]) : k \in Queue} = {q \in Request : at[q] = "queued"}

\* "The request is fullfilled one way or another" (Ioctl.h:95) - and no more than once: a
\* request that a queue, a helper, its caller, a completion routine, a cancellation or the
\* lower driver has completed is never completed again.
AnsweredOnce == twice = {}

\* Every request the driver got is completed or handed to the USB stack for good: a
\* READ_REPORT, which a packet answers, if the device stays in D0 from some time on, and
\* any other even while the device sleeps.
Fulfilled ==
    \A q \in Request :
        /\ <>[](power = "D0") => (at[q] # "free" ~> at[q] \in {"free", "lower"})
        /\ at[q] # "free" /\ code[q] # "read_report" ~> at[q] \in {"free", "lower"}
=============================================================================
