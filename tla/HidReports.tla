----------------------------- MODULE HidReports -----------------------------
(***************************************************************************)
(* The path of a controller's data from the USB interrupt endpoint to the  *)
(* HID class driver: the queue of parked READ_REPORT requests, the handler *)
(* that answers one of them per interrupt packet, the rotation over the    *)
(* ports, and the calibration that a newly plugged controller gets on its  *)
(* first report or on request of a user-mode caller.                       *)
(*                                                                         *)
(* Threads.  A Reader is one pending read of the continuous reader; its    *)
(* completion runs the handler, and so do, while no read completes, the    *)
(* framework's recovery work item (ReadersFailed) and the PnP thread that  *)
(* flushes the queue of a removed device.  Those two borrow a reader's     *)
(* program counter here.  A Caller is a thread in IOCTL_GCN_ADAPTER_       *)
(* CALIBRATE, dispatched by the parallel default queue.  A thread's step   *)
(* is one access to a shared variable: others may run between the check of *)
(* a port, the check and the change of lastControllerState, the two halves *)
(* of a calibration, the advance of id and the completion.                 *)
(*                                                                         *)
(* The static id is loaded anew for every one of these.  With two threads  *)
(* in prepare_report that is a data race: a load may yield any value that  *)
(* id has had since the thread entered, present or kept in a register, and *)
(* two loads may differ.  A load whose value stays local is taken together *)
(* with the thread's next shared access: the values it may yield can only  *)
(* have become more by then.                                               *)
(*                                                                         *)
(* Data.  A packet is the set of ports whose `type` field is nonzero.  Of  *)
(* the stored sticks' centres only this is kept: whether they were sampled *)
(* from the controller now in the port (freshness).                        *)
(***************************************************************************)
EXTENDS Naturals, SequencesExt

CONSTANTS N,            \* ports of an adapter; the code has 4
          Device,       \* adapters the driver serves
          Reader,       \* pending reads of the continuous readers
          Caller,       \* threads that issue the calibrate IOCTL
          DevOf,        \* the adapter a reader or a caller's handle belongs to
          Request,      \* READ_REPORT requests of the HID class driver
          ShortBuffer,  \* requests whose output buffer is too small
          NoRequest,
          Packets,      \* what packets may say: sets of ports with a controller
          Exchanges     \* what may be exchanged while nobody reads: sets of ports

Thread == Reader \cup Caller

ASSUME NAssumption == N \in Nat \ {0}
ASSUME ThreadAssumption ==
    /\ Reader \cap Caller = {}
    /\ DevOf \in [Thread -> Device]
ASSUME ReaderAssumption == IsFiniteSet(Reader)
ASSUME RequestAssumption == NoRequest \notin Request /\ ShortBuffer \subseteq Request

Port == 1 .. N

ASSUME PacketsAssumption == Packets \subseteq SUBSET Port
ASSUME ExchangesAssumption == Exchanges \subseteq SUBSET Port

VARIABLES
    power,               \* PnP and power state of each device
    interruptMsgQueue,   \* manual queue of parked requests
    hand,                \* the request a handler has retrieved
    adapterData,         \* ports plugged in, in the latest packet
    current,             \* those of them whose controller was not exchanged since
    calibrationData,     \* ports whose stored centre is the plugged controller's
    lastControllerState, \* ports the driver considers calibrated
    id,                  \* static BYTE id of prepare_report: one for all devices
    pc,                  \* control point of each thread
    seen,                \* values id has had since the thread entered prepare_report
    snap,                \* local copy of the packet in GCN_Controller_Calibrate: its
                         \* ports whose controller was not exchanged since
    todo,                \* ports a thread's calibration is still to be stored for
    from,                \* ports whose input and centre made the report; none: neutral
    label,               \* id in the report that a handler is about to hand over, or 0
    outstanding,         \* requests issued by hidclass and not completed
    overlapped,          \* whether two handlers have been in prepare_report together
    sent,                \* last report of each device: to whom, label
    turn,                \* reports of the device since the port's last one; not counted
                         \* any more once two handlers have overlapped
    calSince             \* ports calibrated since they were last seen unplugged

packetVars == <<adapterData, current>>
requestVars == <<interruptMsgQueue, hand, outstanding>>
calVars == <<calibrationData, lastControllerState, calSince>>
localVars == <<seen, snap, todo, from, label>>
reportVars == <<id, overlapped, sent, turn>>
vars == <<power, requestVars, packetVars, calVars, pc, localVars, reportVars>>

PowerState == {"gone", "Dx", "D0", "restarting", "flushing", "flushed"}
Control == {"idle", "retrieve", "enter", "checkPort", "checkUnplugged", "clearLast",
            "checkLast", "calibrate", "setLast", "advance", "complete", "snapshot", "write"}

\* In D0, the framework's recovery of a failed reader included.
InService(d) == power[d] \in {"D0", "restarting"}

\* Whether requests may come: in D0 or not.
Started(d) == power[d] = "Dx" \/ InService(d)

Readers(d) == {r \in Reader : DevOf[r] = d}
ReadersIdle(d) == \A r \in Readers(d) : pc[r] = "idle"
Quiet(d) == \A t \in Thread : DevOf[t] = d => pc[t] = "idle"

-----------------------------------------------------------------------------
(* Initially the driver is loaded, no adapter is present and id is 1.      *)

Init ==
    /\ power = [d \in Device |-> "gone"]
    /\ interruptMsgQueue = [d \in Device |-> <<>>]
    /\ hand = [r \in Reader |-> NoRequest]
    /\ adapterData = [d \in Device |-> {}]
    /\ current = [d \in Device |-> {}]
    /\ calibrationData = [d \in Device |-> {}]
    /\ lastControllerState = [d \in Device |-> {}]
    /\ id = 1
    /\ pc = [t \in Thread |-> "idle"]
    /\ seen = [r \in Reader |-> {}]
    /\ snap = [t \in Thread |-> {}]
    /\ todo = [t \in Thread |-> {}]
    /\ from = [r \in Reader |-> {}]
    /\ label = [r \in Reader |-> 0]
    /\ outstanding = {}
    /\ overlapped = FALSE
    /\ sent = [d \in Device |-> [to |-> NoRequest, id |-> N]]
    /\ turn = [d \in Device |-> [p \in Port |-> N - p]]
    /\ calSince = [d \in Device |-> {}]

-----------------------------------------------------------------------------
(* PnP and power.  D0Exit stops the reader.  No queue is power managed, the*)
(* default queue because the driver is a filter (Driver.c:66): requests are*)
(* parked and calibrations go on while the device sleeps.  The framework   *)
(* deletes a device when all handlers have returned.                       *)

\* A fresh, zeroed context.
DeviceAdd(d) ==
    /\ power[d] = "gone"
    /\ power' = [power EXCEPT ![d] = "Dx"]
    /\ adapterData' = [adapterData EXCEPT ![d] = {}]
    /\ current' = [current EXCEPT ![d] = {}]
    /\ calibrationData' = [calibrationData EXCEPT ![d] = {}]
    /\ lastControllerState' = [lastControllerState EXCEPT ![d] = {}]
    /\ calSince' = [calSince EXCEPT ![d] = {}]
    /\ UNCHANGED <<requestVars, pc, localVars, reportVars>>

\* Hardware is prepared before every start, and again in a rebalance: Calibrate(-1) copies
\* the zeroed packet of a fresh context or the last one of the run before.  (calSince does
\* not count this calibration, about which CalibratedSinceUnplug is not.)
PrepareHardware(d) ==
    /\ power[d] = "Dx"
    /\ calibrationData' = [calibrationData EXCEPT ![d] = current[d]]
    /\ UNCHANGED <<power, requestVars, packetVars, lastControllerState, calSince, pc,
                   localVars, reportVars>>

\* While the reader was stopped nobody saw which controllers were exchanged: the centres
\* of their ports, stored or being stored, are not those of the plugged controllers, nor is
\* the input of the last packet.
D0Entry(d) ==
    /\ power[d] = "Dx"
    /\ power' = [power EXCEPT ![d] = "D0"]
    /\ \E exchanged \in Exchanges :
          /\ current' = [current EXCEPT ![d] = @ \ exchanged]
          /\ calibrationData' = [calibrationData EXCEPT ![d] = @ \ exchanged]
          /\ snap' = [t \in Thread |->
                         IF DevOf[t] = d THEN snap[t] \ exchanged ELSE snap[t]]
    /\ UNCHANGED <<requestVars, adapterData, lastControllerState, calSince, pc, seen,
                   todo, from, label, reportVars>>

D0Exit(d) ==
    /\ power[d] = "D0"
    /\ ReadersIdle(d)
    /\ power' = [power EXCEPT ![d] = "Dx"]
    /\ UNCHANGED <<requestVars, packetVars, calVars, pc, localVars, reportVars>>

\* The device was removed: the PnP thread enters the loop over the handler.
SelfManagedIoFlush(r) ==
    LET d == DevOf[r] IN
    /\ power[d] = "Dx"
    /\ ReadersIdle(d)
    /\ power' = [power EXCEPT ![d] = "flushing"]
    /\ pc' = [pc EXCEPT ![r] = "retrieve"]
    /\ UNCHANGED <<requestVars, packetVars, calVars, localVars, reportVars>>

\* The framework destroys the queue and cancels what the flush left in it.
Purge(d) ==
    /\ power[d] = "flushed"
    /\ Quiet(d)
    /\ power' = [power EXCEPT ![d] = "gone"]
    /\ interruptMsgQueue' = [interruptMsgQueue EXCEPT ![d] = <<>>]
    /\ outstanding' = outstanding \ ToSet(interruptMsgQueue[d])
    /\ UNCHANGED <<hand, packetVars, calVars, pc, localVars, reportVars>>

-----------------------------------------------------------------------------
(* Requests of the HID class driver.                                       *)

\* A failed forward completes the request at once and changes nothing here.
HidReadReport(d, q) ==
    /\ Started(d)
    /\ q \notin outstanding
    /\ outstanding' = outstanding \cup {q}
    /\ interruptMsgQueue' = [interruptMsgQueue EXCEPT ![d] = Append(@, q)]
    /\ UNCHANGED <<power, hand, packetVars, calVars, pc, localVars, reportVars>>

\* The framework completes a parked request that its owner cancels.
CancelParked(d, k) ==
    /\ k \in DOMAIN interruptMsgQueue[d]
    /\ outstanding' = outstanding \ {interruptMsgQueue[d][k]}
    /\ interruptMsgQueue' = [interruptMsgQueue EXCEPT ![d] = RemoveAt(@, k)]
    /\ UNCHANGED <<power, hand, packetVars, calVars, pc, localVars, reportVars>>

-----------------------------------------------------------------------------
(* The handler's callers.                                                  *)

\* A packet with the ports in S plugged.  A centre sampled from a controller that
\* the packet no longer shows is not that of whatever is plugged in next.  (A
\* zero-length read returns without doing anything; turning rumble off when the
\* adapter is unpowered belongs to module Rumble.)
ReadComplete(r, S) ==
    LET d == DevOf[r] IN
    /\ power[d] = "D0"
    /\ pc[r] = "idle"
    /\ adapterData' = [adapterData EXCEPT ![d] = S]
    /\ current' = [current EXCEPT ![d] = S]
    /\ calibrationData' = [calibrationData EXCEPT ![d] = @ \cap S]
    /\ snap' = [t \in Thread |-> IF DevOf[t] = d THEN snap[t] \cap S ELSE snap[t]]
    /\ pc' = [pc EXCEPT ![r] = "retrieve"]
    /\ UNCHANGED <<power, requestVars, lastControllerState, calSince, seen, todo,
                   from, label, reportVars>>

\* All reads have failed and ended; returning TRUE then restarts the reader.
ReadersFailed(r) ==
    LET d == DevOf[r] IN
    /\ power[d] = "D0"
    /\ ReadersIdle(d)
    /\ power' = [power EXCEPT ![d] = "restarting"]
    /\ pc' = [pc EXCEPT ![r] = "retrieve"]
    /\ UNCHANGED <<requestVars, packetVars, calVars, localVars, reportVars>>

\* Variant: the flush calls the handler once.
HandlerReturnsOnce(r, success) ==
    LET d == DevOf[r] IN
    /\ pc' = [pc EXCEPT ![r] = "idle"]
    /\ power' = [power EXCEPT ![d] =
                IF @ = "flushing" THEN "flushed"
                ELSE IF @ = "restarting" THEN "D0" ELSE @]

\* Return to the caller: the flush loops as long as the handler succeeds.
HandlerReturns(r, success) ==
    LET d == DevOf[r] IN
    /\ pc' = [pc EXCEPT ![r] =
                IF power[d] = "flushing" /\ success THEN "retrieve" ELSE "idle"]
    /\ power' = [power EXCEPT ![d] =
                IF @ = "flushing" /\ ~success THEN "flushed"
                ELSE IF @ = "restarting" THEN "D0" ELSE @]

-----------------------------------------------------------------------------
(* GCN_AdapterIoctlHIDReadReportHandler.                                   *)

RetrieveNothing(r) ==
    /\ pc[r] = "retrieve"
    /\ interruptMsgQueue[DevOf[r]] = <<>>
    /\ HandlerReturns(r, FALSE)
    /\ UNCHANGED <<requestVars, packetVars, calVars, localVars, reportVars>>

\* Variants: the request is found but stays in the queue; the newest one is taken.
FindRequest(r) ==
    /\ pc[r] = "retrieve"
    /\ interruptMsgQueue[DevOf[r]] # <<>>
    /\ hand' = [hand EXCEPT ![r] = Head(interruptMsgQueue[DevOf[r]])]
    /\ pc' = [pc EXCEPT ![r] = "enter"]
    /\ UNCHANGED <<power, interruptMsgQueue, outstanding, packetVars, calVars,
                   localVars, reportVars>>

RetrieveNewest(r) ==
    LET queue == interruptMsgQueue[DevOf[r]] IN
    /\ pc[r] = "retrieve"
    /\ queue # <<>>
    /\ hand' = [hand EXCEPT ![r] = Last(queue)]
    /\ interruptMsgQueue' = [interruptMsgQueue EXCEPT ![DevOf[r]] = Front(queue)]
    /\ pc' = [pc EXCEPT ![r] = "enter"]
    /\ UNCHANGED <<power, outstanding, packetVars, calVars, localVars, reportVars>>

RetrieveNextRequest(r) ==
    LET queue == interruptMsgQueue[DevOf[r]] IN
    /\ pc[r] = "retrieve"
    /\ queue # <<>>
    /\ hand' = [hand EXCEPT ![r] = Head(queue)]
    /\ interruptMsgQueue' = [interruptMsgQueue EXCEPT ![DevOf[r]] = Tail(queue)]
    /\ pc' = [pc EXCEPT ![r] = "enter"]
    /\ UNCHANGED <<power, outstanding, packetVars, calVars, localVars, reportVars>>

\* WdfRequestCompleteWithInformation: the request leaves the driver.
Complete(r) ==
    /\ outstanding' = outstanding \ {hand[r]}
    /\ hand' = [hand EXCEPT ![r] = NoRequest]
    /\ UNCHANGED interruptMsgQueue

\* The output buffer cannot hold a report: the request is completed with the error.
CompleteWithError(r) ==
    /\ pc[r] = "enter"
    /\ hand[r] \in ShortBuffer
    /\ Complete(r)
    /\ HandlerReturns(r, FALSE)
    /\ UNCHANGED <<packetVars, calVars, localVars, reportVars>>

-----------------------------------------------------------------------------
(* prepare_report.                                                         *)

\* Variants for the mutation runs: the counter does not wrap; it leaves out port N.
AdvanceNoWrap(i) == i + 1
AdvanceTooShort(i) == (i % (N - 1)) + 1

Advance(i) == (i % N) + 1

\* The handler is between its first access to id and its last.
Preparing(r) == seen[r] # {}

\* The first load of id selects the settings to copy.
EnterPrepareReport(r) ==
    /\ pc[r] = "enter"
    /\ hand[r] \notin ShortBuffer
    /\ seen' = [seen EXCEPT ![r] = {id}]
    /\ pc' = [pc EXCEPT ![r] = "checkPort"]
    /\ overlapped' = (overlapped \/ \E s \in Reader : Preparing(s))
    /\ turn' = IF overlapped' THEN [d \in Device |-> [p \in Port |-> 0]] ELSE turn
    /\ UNCHANGED <<power, requestVars, packetVars, calVars, snap, todo, from, label, id,
                   sent>>

\* A step from one check to another that only chooses the way.
Branch(r, control) ==
    /\ pc' = [pc EXCEPT ![r] = control]
    /\ UNCHANGED <<power, requestVars, packetVars, calVars, localVars, reportVars>>

FindUnplugged(r) ==
    /\ pc[r] = "checkPort"
    /\ \E i \in seen[r] : i \notin adapterData[DevOf[r]]
    /\ Branch(r, "checkUnplugged")

FindPlugged(r) ==
    /\ pc[r] = "checkPort"
    /\ \E i \in seen[r] : i \in adapterData[DevOf[r]]
    /\ Branch(r, "checkLast")

\* The port is unplugged: the report is neutral, and lastControllerState is cleared.
AlreadyCleared(r) ==
    /\ pc[r] = "checkUnplugged"
    /\ \E i \in seen[r] : i \notin lastControllerState[DevOf[r]]
    /\ Branch(r, "advance")

StillSet(r) ==
    /\ pc[r] = "checkUnplugged"
    /\ \E i \in seen[r] : i \in lastControllerState[DevOf[r]]
    /\ Branch(r, "clearLast")

\* Variant: an unplugged port keeps its lastControllerState.
ClearNothing(r) ==
    /\ pc[r] = "clearLast"
    /\ Branch(r, "advance")

ClearLastControllerState(r) ==
    /\ pc[r] = "clearLast"
    /\ \E i \in seen[r] :
          lastControllerState' = [lastControllerState EXCEPT ![DevOf[r]] = @ \ {i}]
    /\ pc' = [pc EXCEPT ![r] = "advance"]
    /\ UNCHANGED <<power, requestVars, packetVars, calibrationData, calSince, localVars,
                   reportVars>>

\* Variant: port[id] is read instead of port[id - 1].
ProcessNextInput(r) ==
    \E i, j \in seen[r] : from' = [from EXCEPT ![r] = {Advance(i), j}]

\* The input is copied from the port of one load of id, and processed with the centre of
\* the port of another.
ProcessInput(r) ==
    \E i, j \in seen[r] : from' = [from EXCEPT ![r] = {i, j}]

AlreadyCalibrated(r) ==
    /\ pc[r] = "checkLast"
    /\ ProcessInput(r)
    /\ \E i \in seen[r] : i \in lastControllerState[DevOf[r]]
    /\ pc' = [pc EXCEPT ![r] = "advance"]
    /\ UNCHANGED <<power, requestVars, packetVars, calVars, seen, snap, todo, label,
                   reportVars>>

\* GCN_Controller_Calibrate, for the port of one more load, copies adapterData under
\* dataLock ..
CalibrateSnapshot(r) ==
    LET d == DevOf[r] IN
    /\ pc[r] = "checkLast"
    /\ ProcessInput(r)
    /\ \E i \in seen[r] : i \notin lastControllerState[d]
    /\ \E i \in seen[r] : todo' = [todo EXCEPT ![r] = {i}]
    /\ snap' = [snap EXCEPT ![r] = current[d]]
    /\ pc' = [pc EXCEPT ![r] = "calibrate"]
    /\ UNCHANGED <<power, requestVars, packetVars, calVars, seen, label, reportVars>>

\* Overwrite the stored centres of the ports in P with those of thread t's copy.
StoreCentres(t, P) ==
    LET d == DevOf[t] IN
    /\ calibrationData' =
          [calibrationData EXCEPT ![d] = (@ \ P) \cup (snap[t] \cap P)]
    /\ calSince' = [calSince EXCEPT ![d] = @ \cup P]
    /\ snap' = [snap EXCEPT ![t] = {}]
    /\ todo' = [todo EXCEPT ![t] = @ \ P]

\* .. and writes calibrationData outside the lock.
CalibrateStore(r) ==
    /\ pc[r] = "calibrate"
    /\ StoreCentres(r, todo[r])
    /\ pc' = [pc EXCEPT ![r] = "setLast"]
    /\ UNCHANGED <<power, requestVars, packetVars, lastControllerState, seen, from,
                   label, reportVars>>

SetLastControllerState(r) ==
    /\ pc[r] = "setLast"
    /\ \E i \in seen[r] :
          lastControllerState' = [lastControllerState EXCEPT ![DevOf[r]] = @ \cup {i}]
    /\ pc' = [pc EXCEPT ![r] = "advance"]
    /\ UNCHANGED <<power, requestVars, packetVars, calibrationData, calSince, localVars,
                   reportVars>>

\* One load of id labels the report, another is advanced and stored.  Whoever is in
\* prepare_report may see the new value.
AdvanceId(r) ==
    LET d == DevOf[r] IN
    /\ pc[r] = "advance"
    /\ \E i, j \in seen[r] :
        /\ label' = [label EXCEPT ![r] = i]
        /\ id' = Advance(j)
        /\ calSince' = [calSince EXCEPT ![d] = IF from[r] = {} THEN @ \ {i} ELSE @]
    /\ seen' = [s \in Reader |-> IF s = r \/ seen[s] = {} THEN {} ELSE seen[s] \cup {id'}]
    /\ pc' = [pc EXCEPT ![r] = "complete"]
    /\ UNCHANGED <<power, requestVars, packetVars, calibrationData, lastControllerState,
                   snap, todo, from, overlapped, sent, turn>>

\* As many reports as an adapter may have sent since one of a port's that is to come.
LongestWait(d) == N * Cardinality(Readers(d))

\* The handler hands the report over, perhaps after one that was prepared later.
CompleteReport(r) ==
    LET d == DevOf[r] IN
    /\ pc[r] = "complete"
    /\ sent' = [sent EXCEPT ![d] = [to |-> hand[r], id |-> label[r]]]
    /\ turn' = IF overlapped THEN turn ELSE [turn EXCEPT ![d] =
          [p \in Port |-> IF p = label[r] THEN 0
                          ELSE IF @[p] < LongestWait(d) THEN @[p] + 1 ELSE @[p]]]
    /\ Complete(r)
    /\ from' = [from EXCEPT ![r] = {}]
    /\ label' = [label EXCEPT ![r] = 0]
    /\ HandlerReturns(r, TRUE)
    /\ UNCHANGED <<packetVars, calVars, seen, snap, todo, id, overlapped>>

-----------------------------------------------------------------------------
(* IOCTL_GCN_ADAPTER_CALIBRATE: mask 0x0f is one Calibrate(-1); any other  *)
(* mask is one GCN_Controller_Calibrate per port, in ascending order.      *)

AdapterCalibrate(c, mask) ==
    /\ Started(DevOf[c])
    /\ pc[c] = "idle"
    /\ mask # {}
    /\ todo' = [todo EXCEPT ![c] = mask]
    /\ pc' = [pc EXCEPT ![c] = "snapshot"]
    /\ UNCHANGED <<power, requestVars, packetVars, calVars, seen, snap, from,
                   label, reportVars>>

CallerSnapshot(c) ==
    /\ pc[c] = "snapshot"
    /\ snap' = [snap EXCEPT ![c] = current[DevOf[c]]]
    /\ pc' = [pc EXCEPT ![c] = "write"]
    /\ UNCHANGED <<power, requestVars, packetVars, calVars, seen, todo, from,
                   label, reportVars>>

CallerStore(c) ==
    /\ pc[c] = "write"
    /\ LET P == IF todo[c] = Port THEN Port
                ELSE {p \in todo[c] : \A o \in todo[c] : p <= o}
       IN /\ StoreCentres(c, P)
          /\ todo' = [todo EXCEPT ![c] = @ \ P]
          /\ pc' = [pc EXCEPT ![c] = IF todo[c] = P THEN "idle" ELSE "snapshot"]
    /\ UNCHANGED <<power, requestVars, packetVars, lastControllerState, seen, from,
                   label, reportVars>>

-----------------------------------------------------------------------------
PnpPower(d) ==
    \/ DeviceAdd(d)
    \/ PrepareHardware(d)
    \/ D0Entry(d)
    \/ D0Exit(d)
    \/ Purge(d)

HidClass(d) ==
    \/ \E q \in Request : HidReadReport(d, q)
    \/ \E k \in DOMAIN interruptMsgQueue[d] : CancelParked(d, k)

ReadReportHandler(r) ==
    \/ RetrieveNothing(r)
    \/ RetrieveNextRequest(r)
    \/ CompleteWithError(r)
    \/ EnterPrepareReport(r)
    \/ FindUnplugged(r)
    \/ FindPlugged(r)
    \/ AlreadyCleared(r)
    \/ StillSet(r)
    \/ ClearLastControllerState(r)
    \/ AlreadyCalibrated(r)
    \/ CalibrateSnapshot(r)
    \/ CalibrateStore(r)
    \/ SetLastControllerState(r)
    \/ AdvanceId(r)
    \/ CompleteReport(r)

CallHandler(r) ==
    \/ \E S \in Packets : ReadComplete(r, S)
    \/ ReadersFailed(r)
    \/ SelfManagedIoFlush(r)

CalibrateIoctl(c) ==
    \/ \E mask \in SUBSET Port : AdapterCalibrate(c, mask)
    \/ CallerSnapshot(c)
    \/ CallerStore(c)

Next ==
    \/ \E d \in Device : PnpPower(d) \/ HidClass(d)
    \/ \E r \in Reader : CallHandler(r) \/ ReadReportHandler(r)
    \/ \E c \in Caller : CalibrateIoctl(c)

Spec == Init /\ [][Next]_vars

\* A handler that has started runs to its end, and while the device is in D0 the adapter
\* keeps sending packets (it answers every poll of its interrupt endpoint).
Fairness ==
    \A r \in Reader :
        WF_vars(ReadReportHandler(r) \/ \E S \in Packets : ReadComplete(r, S))

FairSpec == Spec /\ Fairness
-----------------------------------------------------------------------------
(* Properties.                                                             *)

\* Every variable has its type.
TypeOK ==
    /\ power \in [Device -> PowerState]
    /\ interruptMsgQueue \in [Device -> Seq(Request)]
    /\ hand \in [Reader -> Request \cup {NoRequest}]
    /\ adapterData \in [Device -> SUBSET Port]
    /\ current \in [Device -> SUBSET Port]
    /\ calibrationData \in [Device -> SUBSET Port]
    /\ lastControllerState \in [Device -> SUBSET Port]
    /\ id \in Port
    /\ pc \in [Thread -> Control]
    /\ seen \in [Reader -> SUBSET Port]
    /\ snap \in [Thread -> SUBSET Port]
    /\ todo \in [Thread -> SUBSET Port]
    /\ from \in [Reader -> SUBSET Port]
    /\ label \in [Reader -> Port \cup {0}]
    /\ outstanding \subseteq Request
    /\ overlapped \in BOOLEAN
    /\ sent \in [Device -> [to : Request \cup {NoRequest}, id : Port \cup {0}]]
    /\ turn \in [Device -> [Port -> Nat]]
    /\ calSince \in [Device -> SUBSET Port]

Queued == UNION {ToSet(interruptMsgQueue[d]) : d \in Device}
Held == {hand[r] : r \in Reader} \ {NoRequest}

\* A request that hidclass waits for is in exactly one place - at one position of one
\* queue, or in the hands of one handler - and a completed one is in none: the handlers,
\* the cancellation and the flush together answer every request exactly once.
RequestsConserved ==
    /\ outstanding = Queued \cup Held
    /\ Queued \cap Held = {}
    /\ \A d \in Device : IsInjective(interruptMsgQueue[d])
    /\ \A d, e \in Device : d # e =>
          ToSet(interruptMsgQueue[d]) \cap ToSet(interruptMsgQueue[e]) = {}
    /\ \A r, s \in Reader : r # s /\ hand[r] = hand[s] => hand[r] = NoRequest

\* "The driver should cycle through all plugged in controllers on its own"
\* (GCN_Controller.h:226): a handler that has prepared its report may be overtaken on the
\* way to its completion, but no controller waits longer than N reports for each of its
\* adapter's pending reads.
BoundedWait ==
    \A r \in Reader : \A p \in Port : turn[DevOf[r]][p] < LongestWait(DevOf[r])

\* A report that carries a controller's input carries that controller's number, and the
\* input was centred with that controller's calibration.
ReportNamesItsPort ==
    \A r \in Reader : pc[r] = "complete" => from[r] \subseteq {label[r]}

\* A port counts as calibrated only if its centre was stored since a neutral report was
\* last labelled with it, whatever packets, power cycles and calibrate IOCTLs came between.
CalibratedSinceUnplug ==
    \A d \in Device : lastControllerState[d] \subseteq calSince[d]

\* Two pending reads of one adapter spoil labels, calibration and the bound on the rotation
\* in one way only: by being in prepare_report together.  Until they are, the three hold,
\* although handlers overtake each other before and after it, the flush and the recovery of
\* the reader included.
SoundUntilOverlap ==
    ~overlapped => BoundedWait /\ ReportNamesItsPort /\ CalibratedSinceUnplug

\* "One can disconnect and reconnect the controller to re-calibrate" (README.txt:57-58):
\* when a report of a plugged controller goes out, the stored centre is that controller's.
ReconnectRecalibrates ==
    \A r \in Reader :
        pc[r] = "complete" => from[r] \cap current[DevOf[r]] \subseteq calibrationData[DevOf[r]]

\* "Flush the queue by responding to each currently queued message" (Device.c:390).
FlushAnswersAll ==
    \A d \in Device : power[d] = "flushed" => interruptMsgQueue[d] = <<>>

\* What hidclass sees of the only adapter (id is shared) is ReportService while handlers do
\* not overlap: the request in a handler's hands is still the oldest one parked, and the
\* label it has been given is the next one.
SoleDevice == DevOf[CHOOSE r \in Reader : TRUE]
Busy(r) == hand[r] # NoRequest
BusyReader == CHOOSE r \in Reader : Busy(r)

Parked ==
    LET queue == interruptMsgQueue[SoleDevice]
    IN IF \E r \in Reader : Busy(r) THEN <<hand[BusyReader]>> \o queue ELSE queue

NextLabel ==
    IF (\E r \in Reader : Busy(r)) /\ label[BusyReader] # 0 THEN label[BusyReader] ELSE id

Service == INSTANCE ReportService WITH
    Nobody <- NoRequest,
    parked <- Parked,
    next <- NextLabel,
    sent <- sent[SoleDevice]

\* Requests are answered oldest first, each at most once, and the labels run 1, 2, .., N
\* with no gap, through errors, cancellations, power cycles and removal.
ServesInOrder == Service!Spec

\* What hidclass sees of all adapters, however many handlers run, is ConcurrentService.
HeldBy(d) == {hand[r] : r \in Readers(d)} \ {NoRequest}
HolderOf(q) == CHOOSE r \in Reader : hand[r] = q

Concurrent == INSTANCE ConcurrentService WITH
    Nobody <- NoRequest,
    parked <- interruptMsgQueue,
    taken <- [d \in Device |-> HeldBy(d)],
    known <- [q \in Request |-> IF q \in Held THEN seen[HolderOf(q)] ELSE {}],
    label <- [q \in Request |-> IF q \in Held THEN label[HolderOf(q)] ELSE 0],
    next <- id,
    sent <- sent

\* Whatever handlers overlap, an adapter's requests are retrieved oldest first, each is
\* answered at most once and by who retrieved it, with a value that the counter had after
\* that, and the counter is only ever set to the successor of such a value.
ServesConcurrently == Concurrent!Spec

\* Service READ_REPORT "when continuous reader reads new data from the device"
\* (Ioctl.c:84): while the device stays powered, every parked request is completed,
\* whether or not a controller is plugged in, whichever of the concurrent completions
\* takes it, however often the reader fails and is restarted.
ParkedIsAnswered ==
    \A d \in {DevOf[r] : r \in Reader} : \A q \in Request :
        <>[]InService(d) =>
            (q \in ToSet(interruptMsgQueue[d]) ~> q \notin outstanding)
=============================================================================
