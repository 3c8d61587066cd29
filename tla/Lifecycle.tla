------------------------------ MODULE Lifecycle ------------------------------
(***************************************************************************)
(* How a device comes, starts, sleeps, is rebalanced and goes: the         *)
(* callbacks of the framework's plug-and-play and power machinery and the  *)
(* context that they build for all other callbacks.                        *)
(*                                                                         *)
(* The framework calls one of these callbacks at a time for a device, but  *)
(* devices start in parallel and share GCN_Adapter_deviceCount.  A step    *)
(* that fails ends the callback; the framework then removes the device.    *)
(* A rebalance stops the device and prepares it again with the context that*)
(* it has: selecting the configuration again deletes the pipes, and with   *)
(* the pipe to read from its reader.  The queues are not power managed,    *)
(* because the driver is a filter (Driver.c:66): requests come from when   *)
(* the device was started until it goes, also while it sleeps; it is       *)
(* assumed that the system holds them back during a rebalance.             *)
(***************************************************************************)
EXTENDS Naturals

CONSTANTS Device,
          Endpoint,    \* [device -> the pipes among Pipe that it has]
          MaxCount     \* bound: no device is prepared once deviceCount is this large

Pipe == {"interruptReadPipe", "interruptWritePipe"}

\* What GCN_AdapterCreateDevice creates, in its order.
Created == <<"otherQueue", "readQueue", "writeQueue", "interruptMsgQueue", "dataLock",
             "rumbleRequest", "rumbleMemory">>
CreatedSet == {Created[i] : i \in 1 .. 7}
Object == CreatedSet \cup Pipe \cup {"usbDevice", "usbDeviceDescriptor", "reader"}

ASSUME EndpointAssumption == Endpoint \in [Device -> SUBSET Pipe]
ASSUME MaxCountAssumption == MaxCount \in Nat

VARIABLES
    phase,       \* where a device is in its life, or in PrepareHardware
    context,     \* its DEVICE_CONTEXT: the handles that are set, and whether the
                 \* continuous reader is configured
    stale,       \* those of them whose object was deleted
    deviceCount, \* GCN_Adapter_deviceCount
    instance,    \* the number that a device has read from it
    pdos,        \* instance numbers of a device's raw PDOs
    raced        \* whether two devices ever were between reading and storing it

vars == <<phase, context, stale, deviceCount, instance, pdos, raced>>

Preparing == {"usb", "select", "descriptor", "protocol", "write", "reader",
              "number", "pdo"}
Phase == {"absent", "added", "prepared", "d0", "off", "failed"} \cup Preparing

Init ==
    /\ phase = [d \in Device |-> "absent"]
    /\ context = [d \in Device |-> {}]
    /\ stale = [d \in Device |-> {}]
    /\ deviceCount = 0
    /\ instance = [d \in Device |-> 0]
    /\ pdos = [d \in Device |-> {}]
    /\ raced = FALSE

-----------------------------------------------------------------------------
Goes(d, from, to) == phase[d] = from /\ phase' = [phase EXCEPT ![d] = to]
Gets(d, objects) == context' = [context EXCEPT ![d] = @ \cup objects]

\* GCN_AdapterCreateDevice creates the objects up to the n-th; after a failure the
\* framework deletes the device with all that was created for it.
CreateDevice(d, n) ==
    /\ Goes(d, "absent", IF n = 7 THEN "added" ELSE "failed")
    /\ Gets(d, {Created[i] : i \in 1 .. n})
    /\ UNCHANGED <<stale, deviceCount, instance, pdos, raced>>

\* The framework calls PrepareHardware for a new device and again in a rebalance.
PrepareHardware(d) ==
    /\ deviceCount < MaxCount
    /\ \/ Goes(d, "added", "usb")
       \/ Goes(d, "off", "usb")
    /\ UNCHANGED <<context, stale, deviceCount, instance, pdos, raced>>

\* A call in PrepareHardware fails, and so does PrepareHardware.
Fails(d) ==
    /\ phase[d] \in {"usb", "descriptor", "protocol", "write"}
    /\ phase[d] = "usb" => "usbDevice" \notin context[d]
    /\ phase' = [phase EXCEPT ![d] = "failed"]
    /\ UNCHANGED <<context, stale, deviceCount, instance, pdos, raced>>

\* The handle from an earlier PrepareHardware is used again.
CreateUsbDevice(d) ==
    /\ Goes(d, "usb", "select")
    /\ Gets(d, {"usbDevice"})
    /\ UNCHANGED <<stale, deviceCount, instance, pdos, raced>>

\* The pipes that the new configuration has are stored; the check that both are there
\* looks at the context, where a pipe of an earlier configuration would pass.
SelectInterfaces(d, configured) ==
    LET found == IF configured THEN Endpoint[d] ELSE {}
        accepted == configured /\ Pipe \subseteq context[d] \cup found IN
    /\ Goes(d, "select", IF accepted THEN "descriptor" ELSE "failed")
    /\ Gets(d, found)
    /\ stale' = [stale EXCEPT ![d] =
                    (@ \cup (context[d] \cap (Pipe \cup {"reader"}))) \ found]
    /\ UNCHANGED <<deviceCount, instance, pdos, raced>>

CreateDescriptor(d) ==
    /\ Goes(d, "descriptor", "protocol")
    /\ Gets(d, {"usbDeviceDescriptor"})
    /\ UNCHANGED <<stale, deviceCount, instance, pdos, raced>>

\* SET_PROTOCOL, and the command that makes the adapter send packets.
SetProtocol(d) ==
    /\ Goes(d, "protocol", "write")
    /\ UNCHANGED <<context, stale, deviceCount, instance, pdos, raced>>
WriteInit(d) ==
    /\ Goes(d, "write", "reader")
    /\ UNCHANGED <<context, stale, deviceCount, instance, pdos, raced>>

\* PrepareHardware goes on if this fails, and returns the failure in the end.
ConfigureReader(d, ok) ==
    /\ Goes(d, "reader", "number")
    /\ Gets(d, IF ok THEN {"reader"} ELSE {})
    /\ stale' = IF ok THEN [stale EXCEPT ![d] = @ \ {"reader"}] ELSE stale
    /\ UNCHANGED <<deviceCount, instance, pdos, raced>>

\* GCN_Adapter_deviceCount++ : it is read ..
ReadCount(d) ==
    /\ Goes(d, "number", "pdo")
    /\ instance' = [instance EXCEPT ![d] = deviceCount]
    /\ raced' = (raced \/ \E other \in Device : phase[other] = "pdo")
    /\ UNCHANGED <<context, stale, deviceCount, pdos>>

\* The reader that this PrepareHardware configured.
ReaderReady(d) == "reader" \in context[d] \ stale[d]

\* Variant: the result of PrepareHardware is that of its last call.
CreateRawPdoSucceeds(d, created) ==
    /\ Goes(d, "pdo", IF created THEN "prepared" ELSE "failed")
    /\ deviceCount' = instance[d] + 1
    /\ pdos' = IF created THEN [pdos EXCEPT ![d] = @ \cup {instance[d]}] ELSE pdos
    /\ UNCHANGED <<context, stale, instance, raced>>

\* .. and stored, and a raw PDO is created with the number that was read, next to those
\* of earlier calls.  Its failure is ignored: PrepareHardware returns the reader's status.
CreateRawPdo(d, created) ==
    /\ Goes(d, "pdo", IF ReaderReady(d) THEN "prepared" ELSE "failed")
    /\ deviceCount' = instance[d] + 1
    /\ pdos' = IF created THEN [pdos EXCEPT ![d] = @ \cup {instance[d]}] ELSE pdos
    /\ UNCHANGED <<context, stale, instance, raced>>

\* D0Entry starts the pipe's target, and with it the reader.
D0Entry(d, started) ==
    /\ \/ Goes(d, "prepared", IF started THEN "d0" ELSE "failed")
       \/ Goes(d, "off", IF started THEN "d0" ELSE "failed")
    /\ UNCHANGED <<context, stale, deviceCount, instance, pdos, raced>>

D0Exit(d) ==
    /\ Goes(d, "d0", "off")
    /\ UNCHANGED <<context, stale, deviceCount, instance, pdos, raced>>

\* Variant: the count is that of the devices which are there.
RemoveUncounts(d) ==
    /\ phase[d] \in {"added", "off", "failed"}
    /\ phase' = [phase EXCEPT ![d] = "absent"]
    /\ context' = [context EXCEPT ![d] = {}]
    /\ stale' = [stale EXCEPT ![d] = {}]
    /\ pdos' = [pdos EXCEPT ![d] = {}]
    /\ deviceCount' = IF "reader" \in context[d] THEN deviceCount - 1 ELSE deviceCount
    /\ UNCHANGED <<instance, raced>>

\* The framework deletes a device that failed or was unplugged, and its raw PDOs.
Remove(d) ==
    /\ phase[d] \in {"added", "off", "failed"}
    /\ phase' = [phase EXCEPT ![d] = "absent"]
    /\ context' = [context EXCEPT ![d] = {}]
    /\ stale' = [stale EXCEPT ![d] = {}]
    /\ pdos' = [pdos EXCEPT ![d] = {}]
    /\ UNCHANGED <<deviceCount, instance, raced>>

-----------------------------------------------------------------------------
Prepare(d) ==
    \/ PrepareHardware(d)
    \/ Fails(d)
    \/ CreateUsbDevice(d)
    \/ \E configured \in BOOLEAN : SelectInterfaces(d, configured)
    \/ CreateDescriptor(d)
    \/ SetProtocol(d)
    \/ WriteInit(d)
    \/ \E ok \in BOOLEAN : ConfigureReader(d, ok)
    \/ ReadCount(d)
    \/ \E created \in BOOLEAN : CreateRawPdo(d, created)

Live(d) ==
    \/ \E n \in 0 .. 7 : CreateDevice(d, n)
    \/ Prepare(d)
    \/ \E started \in BOOLEAN : D0Entry(d, started)
    \/ D0Exit(d)
    \/ Remove(d)

Next == \E d \in Device : Live(d)

Spec == Init /\ [][Next]_vars

-----------------------------------------------------------------------------
\* Every variable has its type, and only a handle that is set can be stale.
TypeOK ==
    /\ phase \in [Device -> Phase]
    /\ context \in [Device -> SUBSET Object]
    /\ stale \in [Device -> SUBSET Object]
    /\ \A d \in Device : stale[d] \subseteq context[d]
    /\ deviceCount \in Nat
    /\ instance \in [Device -> Nat]
    /\ pdos \in [Device -> SUBSET Nat]
    /\ raced \in BOOLEAN

Callback == {"EvtIo", "ReaderComplete", "D0Entry", "D0Exit", "SelfManagedIoFlush"}

\* The callbacks that the framework may call in each phase.
MayRun(d) ==
    CASE phase[d] = "d0" -> {"EvtIo", "ReaderComplete", "D0Exit"}
      [] phase[d] = "off" -> {"EvtIo", "D0Entry", "SelfManagedIoFlush"}
      [] phase[d] = "prepared" -> {"EvtIo", "D0Entry"}
      [] OTHER -> {}

\* The handles that each uses, in some path, without a test.
Uses(callback) ==
    CASE callback = "EvtIo" -> CreatedSet \cup Pipe \cup {"usbDeviceDescriptor"}
      [] callback = "ReaderComplete" -> {"dataLock", "interruptMsgQueue", "reader"}
      [] callback \in {"D0Entry", "D0Exit"} -> {"interruptReadPipe", "reader"}
      [] callback = "SelfManagedIoFlush" -> {"dataLock", "interruptMsgQueue"}

\* No callback finds a handle in the context missing or stale, whichever steps of creating
\* and preparing the device failed before and however often it was rebalanced: none of the
\* handlers tests them.
CallbacksFindContext ==
    \A d \in Device : \A callback \in MayRun(d) :
        Uses(callback) \subseteq context[d] \ stale[d]

\* No raw PDO gets the instance number of another one that is still there - the system
\* stops if two children of one parent have the same (GCN_Interface.c:143) - also after a
\* rebalance, which leaves a device with several, and after devices went, unless the
\* starts of two devices have raced for the count.
PdosDistinct ==
    ~raced => \A d, e \in Device : phase[d] = "pdo" => instance[d] \notin pdos[e]
=============================================================================
