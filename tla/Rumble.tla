------------------------------- MODULE Rumble -------------------------------
(***************************************************************************)
(* Rumble commands of one adapter: GCN_Adapter_Rumble, called by the       *)
(* SET_RUMBLE IOCTL (parallel default queue) and by the interrupt reader   *)
(* when a packet says that the gray power plug is out.  All calls share    *)
(* one request, rumbleRequest, and one buffer, rumbleMemory; the IOCTL is  *)
(* completed when the request has been sent, not when it has completed.    *)
(*                                                                         *)
(* A mask is the set of ports whose motor should run.                      *)
(***************************************************************************)
EXTENDS Naturals

CONSTANTS Port,     \* ports, and the bytes of the buffer that command them
          Reader,   \* pending reads of the continuous reader
          Caller    \* threads in IOCTL_GCN_ADAPTER_SET_RUMBLE

Thread == Reader \cup Caller

ASSUME RumbleAssumption == Reader \cap Caller = {} /\ Port # {}

VARIABLES
    powered,        \* adapterData.port[0].status.powered, of the latest packet
    rumbleMemory,   \* bytes 1 .. 4 of the buffer of the USB write
    rumbleRequest,  \* "idle", "sent" to the USB stack, or "transferred"
    motor,          \* last command that reached the adapter
    rumble,         \* controllerStatus[].rumble
    pc, arg, toCopy,\* control point of a thread, its mask, bytes not copied yet
    accepted,       \* mask of the last call that sent the request
    contended       \* whether a call ever found buffer or request in use by another

vars == <<powered, rumbleMemory, rumbleRequest, motor, rumble, pc, arg, toCopy, accepted,
          contended>>
threadVars == <<pc, arg, toCopy>>

Idle == rumbleRequest = "idle" /\ \A t \in Thread : pc[t] = "idle"

Init ==
    /\ powered = FALSE
    /\ rumbleMemory = {}
    /\ rumbleRequest = "idle"
    /\ motor = {}
    /\ rumble = {}
    /\ pc = [t \in Thread |-> "idle"]
    /\ arg = [t \in Thread |-> {}]
    /\ toCopy = [t \in Thread |-> {}]
    /\ accepted = {}
    /\ contended = FALSE

-----------------------------------------------------------------------------
\* A packet; without power the reader goes on to clear the rumble of every port.
ReadComplete(r, hasPower) ==
    /\ pc[r] = "idle"
    /\ powered' = hasPower
    /\ pc' = [pc EXCEPT ![r] = IF hasPower THEN "idle" ELSE "check"]
    /\ arg' = [arg EXCEPT ![r] = {}]
    /\ UNCHANGED <<rumbleMemory, rumbleRequest, motor, rumble, toCopy, accepted,
                   contended>>

SetRumble(c, mask) ==
    /\ pc[c] = "idle"
    /\ pc' = [pc EXCEPT ![c] = "check"]
    /\ arg' = [arg EXCEPT ![c] = mask]
    /\ UNCHANGED <<powered, rumbleMemory, rumbleRequest, motor, rumble, toCopy, accepted,
                   contended>>

-----------------------------------------------------------------------------
(* GCN_Adapter_Rumble.                                                     *)

\* The mask of a call is forgotten with it.
Return(t) ==
    /\ pc' = [pc EXCEPT ![t] = "idle"]
    /\ arg' = [arg EXCEPT ![t] = {}]

\* Unpowered: nothing is done, and the result is STATUS_SUCCESS.
Unpowered(t) ==
    /\ pc[t] = "check"
    /\ ~powered
    /\ Return(t)
    /\ UNCHANGED <<powered, rumbleMemory, rumbleRequest, motor, rumble, toCopy, accepted,
                   contended>>

\* A call that got past the power check goes on to the buffer and the request, whoever
\* else is at them or has the request in flight.
InCall(t) == pc[t] \in {"copy", "send"}

Begin(t, control) ==
    /\ pc' = [pc EXCEPT ![t] = control]
    /\ contended' = (contended \/ rumbleRequest # "idle" \/ \E s \in Thread : InCall(s))

\* Variants: the request is sent with the bytes of the previous command; memcpy starts
\* at byte 0, the command code.
PoweredSendsOldBuffer(t) ==
    /\ pc[t] = "check"
    /\ powered
    /\ Begin(t, "send")
    /\ UNCHANGED <<powered, rumbleMemory, rumbleRequest, motor, rumble, arg, toCopy,
                   accepted>>

PoweredCopiesToStart(t) ==
    /\ pc[t] = "check"
    /\ powered
    /\ Begin(t, "copy")
    /\ toCopy' = [toCopy EXCEPT ![t] = {p - 1 : p \in Port}]
    /\ UNCHANGED <<powered, rumbleMemory, rumbleRequest, motor, rumble, arg, accepted>>

Powered(t) ==
    /\ pc[t] = "check"
    /\ powered
    /\ Begin(t, "copy")
    /\ toCopy' = [toCopy EXCEPT ![t] = Port]
    /\ UNCHANGED <<powered, rumbleMemory, rumbleRequest, motor, rumble, arg, accepted>>

\* memcpy, byte by byte in any order, under no lock.
CopyByte(t, p) ==
    /\ pc[t] = "copy"
    /\ p \in toCopy[t]
    /\ rumbleMemory' = (rumbleMemory \ {p}) \cup (arg[t] \cap {p})
    /\ toCopy' = [toCopy EXCEPT ![t] = @ \ {p}]
    /\ pc' = [pc EXCEPT ![t] = IF toCopy[t] = {p} THEN "send" ELSE "copy"]
    /\ UNCHANGED <<powered, rumbleRequest, motor, rumble, arg, accepted, contended>>

\* Reuse, format and send.  A request that the USB stack still owns is refused.
Send(t) ==
    /\ pc[t] = "send"
    /\ rumbleRequest = "idle"
    /\ rumbleRequest' = "sent"
    /\ accepted' = arg[t]
    /\ Return(t)
    /\ UNCHANGED <<powered, rumbleMemory, motor, rumble, toCopy, contended>>

\* The status of WdfRequestReuse is ignored; format or send fail, and so does the call.
SendFails(t) ==
    /\ pc[t] = "send"
    /\ Return(t)
    /\ UNCHANGED <<powered, rumbleMemory, rumbleRequest, motor, rumble, toCopy, accepted,
                   contended>>

-----------------------------------------------------------------------------
(* The USB stack reads the buffer when it transfers it, and calls the      *)
(* completion routine later; the routine reads the buffer again.           *)

Transfer ==
    /\ rumbleRequest = "sent"
    /\ rumbleRequest' = "transferred"
    /\ motor' = rumbleMemory
    /\ UNCHANGED <<powered, rumbleMemory, rumble, threadVars, accepted, contended>>

\* Variant: the status is not looked at.
TransferFailsUnseen ==
    /\ rumbleRequest = "sent"
    /\ rumbleRequest' = "idle"
    /\ accepted' = motor
    /\ rumble' = rumbleMemory
    /\ UNCHANGED <<powered, rumbleMemory, motor, threadVars, contended>>

TransferFails ==
    /\ rumbleRequest = "sent"
    /\ rumbleRequest' = "idle"
    /\ accepted' = motor
    /\ UNCHANGED <<powered, rumbleMemory, motor, rumble, threadVars, contended>>

Rumble_Completion ==
    /\ rumbleRequest = "transferred"
    /\ rumbleRequest' = "idle"
    /\ rumble' = rumbleMemory
    /\ UNCHANGED <<powered, rumbleMemory, motor, threadVars, accepted, contended>>

-----------------------------------------------------------------------------
Adapter_Rumble(t) ==
    \/ Unpowered(t)
    \/ Powered(t)
    \/ \E p \in Port : CopyByte(t, p)
    \/ Send(t)
    \/ SendFails(t)

Next ==
    \/ \E r \in Reader, hasPower \in BOOLEAN : ReadComplete(r, hasPower)
    \/ \E c \in Caller, mask \in SUBSET Port : SetRumble(c, mask)
    \/ \E t \in Thread : Adapter_Rumble(t)
    \/ Transfer
    \/ TransferFails
    \/ Rumble_Completion

Spec == Init /\ [][Next]_vars

-----------------------------------------------------------------------------
\* Every variable has its type, and a thread has bytes left exactly while it copies.
TypeOK ==
    /\ powered \in BOOLEAN
    /\ rumbleMemory \in SUBSET Port
    /\ rumbleRequest \in {"idle", "sent", "transferred"}
    /\ motor \in SUBSET Port
    /\ rumble \in SUBSET Port
    /\ pc \in [Thread -> {"idle", "check", "copy", "send"}]
    /\ arg \in [Thread -> SUBSET Port]
    /\ toCopy \in [Thread -> SUBSET Port]
    /\ accepted \in SUBSET Port
    /\ contended \in BOOLEAN
    /\ \A t \in Thread : (toCopy[t] # {}) = (pc[t] = "copy")

\* GCN_Adapter_Rumble takes "the current status of each of the controllers' rumble and
\* updates them accordingly" (GCN_Controller.h:159-160): at rest the motors do what the last
\* call that sent a command said; a refused or failed call leaves them alone.
LastCommandApplied == Idle => motor = accepted

\* At rest controllerStatus[].rumble is what the motors do: "Latest controller state"
\* (Device.h:35), which GCN_Controller_Rumble starts from to change one port only.
StatusIsLatest == Idle => rumble = motor

\* Calls of the reader and the IOCTL have one buffer and one request between them, under no
\* lock.  What makes the motors do something else than the last command that was sent, or
\* the stored status tell something else than the motors do, is only a call that got at
\* them while another call or the USB stack was: until then no refused, failed or
\* unpowered call and no packet in between does.
ObeyedUntilContended == ~contended => LastCommandApplied

StatusUntilContended == ~contended => StatusIsLatest

\* "Turn rumble off if it is enabled and power is removed" (Interrupt.c:91).
PowerLossStopsRumble == Idle /\ ~powered => motor = {}
=============================================================================
