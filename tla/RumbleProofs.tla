---------------------------- MODULE RumbleProofs -----------------------------
(* What Rumble's run checks, for any number of ports, pending reads and       *)
(* callers, none of whom waits for anybody.                                   *)
EXTENDS Rumble, TLAPS

\* Only one call is past the power check, and then the request is idle.
CallInv ==
    /\ \A s, t \in Thread : InCall(s) /\ InCall(t) => s = t
    /\ \A t \in Thread : InCall(t) => rumbleRequest = "idle"

\* The bytes that a call has dealt with are those of its mask.
BufferInv ==
    \A t \in Thread :
        /\ pc[t] = "copy" => \A p \in Port \ toCopy[t] : p \in rumbleMemory <=> p \in arg[t]
        /\ pc[t] = "send" => rumbleMemory = arg[t]

\* What the adapter, the stored status and the last sent command say of each other.
CommandInv ==
    /\ rumbleRequest = "idle" => motor = accepted /\ rumble = motor
    /\ rumbleRequest = "sent" => rumbleMemory = accepted /\ rumble = motor
    /\ rumbleRequest = "transferred" => motor = accepted /\ rumbleMemory = motor

Orderly == CallInv /\ BufferInv /\ CommandInv

RumbleInv == TypeOK /\ (~contended => Orderly)

-----------------------------------------------------------------------------
\* Initially every variable has its type.
LEMMA TypeInit ==
    ASSUME Init
    PROVE  TypeOK
<1>1. powered \in BOOLEAN
  BY DEF Init
<1>2. rumbleRequest \in {"idle", "sent", "transferred"}
  BY DEF Init
<1>3. pc \in [Thread -> {"idle", "check", "copy", "send"}]
  BY DEF Init
<1>4. /\ {rumbleMemory, motor, rumble, accepted} \subseteq SUBSET Port
      /\ arg \in [Thread -> SUBSET Port] /\ toCopy \in [Thread -> SUBSET Port]
  BY DEF Init
<1>5. \A t \in Thread : (toCopy[t] # {}) = (pc[t] = "copy")
  BY DEF Init
<1>6. contended \in BOOLEAN
  BY DEF Init
<1> QED
  BY <1>1, <1>2, <1>3, <1>4, <1>5, <1>6 DEF TypeOK

\* Every action preserves the types.
LEMMA TypeStep ==
    ASSUME TypeOK, [Next]_vars
    PROVE  TypeOK'
<1>0. TypeOK /\ Port # {}
  BY RumbleAssumption DEF RumbleAssumption
<1>1. ASSUME NEW r \in Reader, NEW hasPower \in BOOLEAN, ReadComplete(r, hasPower)
      PROVE  TypeOK'
  <2>1. powered' \in BOOLEAN
    BY <1>1 DEF ReadComplete
  <2>2. r \in Thread
    BY DEF Thread
  <2>3. /\ pc' \in [Thread -> {"idle", "check", "copy", "send"}]
        /\ arg' \in [Thread -> SUBSET Port]
        /\ \A t \in Thread : (toCopy'[t] # {}) = (pc'[t] = "copy")
        /\ UNCHANGED <<rumbleMemory, rumbleRequest, motor, rumble, toCopy, accepted,
                       contended>>
    BY <1>0, <1>1, <2>2 DEF TypeOK, ReadComplete
  <2> QED
    BY <1>0, <2>1, <2>3 DEF TypeOK
<1>2. ASSUME NEW c \in Caller, NEW mask \in SUBSET Port, SetRumble(c, mask) PROVE TypeOK'
  <2>1. c \in Thread
    BY DEF Thread
  <2> QED
    BY <1>0, <1>2, <2>1 DEF TypeOK, SetRumble
<1>3. ASSUME NEW t \in Thread, Adapter_Rumble(t) PROVE TypeOK'
  <2>1. CASE Unpowered(t)
    BY <1>0, <2>1 DEF TypeOK, Unpowered, Return
  <2>2. CASE Powered(t)
    <3>1. contended' \in BOOLEAN
      BY <2>2 DEF Powered, Begin
    <3>2. /\ pc' = [pc EXCEPT ![t] = "copy"] /\ toCopy' = [toCopy EXCEPT ![t] = Port]
          /\ UNCHANGED <<powered, rumbleMemory, rumbleRequest, motor, rumble, arg, accepted>>
      BY <2>2 DEF Powered, Begin
    <3> QED
      BY <1>0, <3>1, <3>2 DEF TypeOK
  <2>3. ASSUME NEW p \in Port, CopyByte(t, p) PROVE TypeOK'
    <3>1. toCopy[t] # {p} <=> toCopy[t] \ {p} # {}
      BY <2>3 DEF CopyByte
    <3>2. /\ toCopy' \in [Thread -> SUBSET Port]
          /\ pc' \in [Thread -> {"idle", "check", "copy", "send"}]
          /\ \A s \in Thread : (toCopy'[s] # {}) = (pc'[s] = "copy")
      BY <1>0, <2>3, <3>1 DEF TypeOK, CopyByte
    <3>3. rumbleMemory' \in SUBSET Port
      BY <1>0, <2>3 DEF TypeOK, CopyByte
    <3> QED
      BY <1>0, <2>3, <3>2, <3>3 DEF TypeOK, CopyByte
  <2>4. CASE Send(t) \/ SendFails(t)
    BY <1>0, <2>4 DEF TypeOK, Send, SendFails, Return
  <2> QED
    BY <1>3, <2>1, <2>2, <2>3, <2>4 DEF Adapter_Rumble
<1>4. CASE Transfer \/ TransferFails \/ Rumble_Completion
  BY <1>0, <1>4 DEF TypeOK, Transfer, TransferFails, Rumble_Completion, threadVars
<1>5. CASE UNCHANGED vars
  BY <1>0, <1>5 DEF TypeOK, vars
<1> QED
  BY <1>1, <1>2, <1>3, <1>4, <1>5 DEF Next

\* Every variable keeps its type and a thread has bytes left exactly while it copies, for
\* any readers and callers.
THEOREM RumbleTypes == Spec => []TypeOK
<1>1. Init => TypeOK
  BY TypeInit
<1>2. TypeOK /\ [Next]_vars => TypeOK'
  BY TypeStep
<1> QED
  BY <1>1, <1>2, PTL DEF Spec

-----------------------------------------------------------------------------
\* A thread that begins a call changes nothing that the calls of others depend on.
LEMMA BeginStep ==
    ASSUME TypeOK, Orderly, NEW t \in Thread,
           \/ \E hasPower \in BOOLEAN : ReadComplete(t, hasPower)
           \/ \E mask \in SUBSET Port : SetRumble(t, mask)
    PROVE  Orderly'
<1>1. /\ UNCHANGED <<rumbleMemory, rumbleRequest, motor, rumble, toCopy, accepted>>
      /\ pc'[t] \in {"idle", "check"}
      /\ \A s \in Thread : s # t => pc'[s] = pc[s] /\ arg'[s] = arg[s]
  BY DEF ReadComplete, SetRumble, TypeOK
<1>2. CallInv' /\ BufferInv' /\ CommandInv'
  BY <1>1 DEF Orderly, CallInv, BufferInv, CommandInv, InCall
<1> QED
  BY <1>2 DEF Orderly

\* A step inside GCN_Adapter_Rumble, which its caller has to itself.
LEMMA CallStep ==
    ASSUME TypeOK, Orderly, NEW t \in Thread, Adapter_Rumble(t), ~contended'
    PROVE  Orderly'
<1>0. TypeOK /\ Orderly
  OBVIOUS
<1>1. /\ \A s \in Thread \ {t} : pc'[s] = pc[s] /\ toCopy'[s] = toCopy[s] /\ arg'[s] = arg[s]
      /\ UNCHANGED <<motor, rumble>>
  BY <1>0 DEF TypeOK, Adapter_Rumble, Unpowered, Powered, Begin, CopyByte, Send, SendFails,
              Return
<1>2. CASE Unpowered(t)
  <2>1. pc'[t] = "idle" /\ UNCHANGED <<rumbleMemory, rumbleRequest, accepted>>
    BY <1>0, <1>2 DEF Unpowered, Return, TypeOK
  <2> QED
    BY <1>0, <1>1, <2>1 DEF Orderly, CallInv, BufferInv, CommandInv, InCall
<1>3. CASE Powered(t)
  <2>1. /\ pc'[t] = "copy" /\ toCopy'[t] = Port
        /\ rumbleRequest = "idle" /\ \A s \in Thread : ~InCall(s)
        /\ UNCHANGED <<rumbleMemory, rumbleRequest, accepted>>
    BY <1>0, <1>3 DEF Powered, Begin, TypeOK
  <2> QED
    BY <1>0, <1>1, <2>1 DEF Orderly, CallInv, BufferInv, CommandInv, InCall
<1>4. ASSUME InCall(t) /\ ~Powered(t) /\ ~Unpowered(t) PROVE Orderly'
  <2>1. rumbleRequest = "idle" /\ \A s \in Thread \ {t} : ~InCall(s) /\ ~InCall(s)'
    BY <1>0, <1>1, <1>4 DEF Orderly, CallInv, InCall
  <2>2. motor = accepted /\ rumble = motor
    BY <1>0, <2>1 DEF Orderly, CommandInv
  <2>3. CASE SendFails(t)
    <3>1. pc'[t] = "idle" /\ UNCHANGED <<rumbleMemory, rumbleRequest, accepted>>
      BY <1>0, <2>3 DEF SendFails, Return, TypeOK
    <3> QED
      BY <1>1, <2>1, <2>2, <3>1 DEF Orderly, CallInv, BufferInv, CommandInv, InCall
  <2>4. ASSUME NEW p \in Port, CopyByte(t, p) PROVE Orderly'
    <3>1. /\ pc[t] = "copy" /\ toCopy'[t] = toCopy[t] \ {p} /\ arg' = arg
          /\ pc'[t] = (IF toCopy[t] = {p} THEN "send" ELSE "copy")
          /\ rumbleMemory' = (rumbleMemory \ {p}) \cup (arg[t] \cap {p})
          /\ UNCHANGED <<rumbleRequest, accepted>>
      BY <1>0, <2>4 DEF CopyByte, TypeOK
    <3>2. \A q \in Port \ (toCopy[t] \ {p}) : q \in rumbleMemory' <=> q \in arg[t]
      BY <1>0, <3>1 DEF Orderly, BufferInv
    <3>3. rumbleMemory' \subseteq Port /\ arg[t] \subseteq Port
      BY <1>0, <3>1 DEF TypeOK
    <3>4. toCopy[t] = {p} => rumbleMemory' = arg[t]
      BY <3>2, <3>3
    <3>5. BufferInv'
      BY <1>1, <2>1, <3>1, <3>2, <3>4 DEF BufferInv, InCall
    <3>6. CallInv' /\ CommandInv'
      BY <1>1, <2>1, <2>2, <3>1 DEF CallInv, CommandInv, InCall
    <3> QED
      BY <3>5, <3>6 DEF Orderly
  <2>5. CASE Send(t)
    <3>1. /\ pc[t] = "send" /\ pc'[t] = "idle"
          /\ rumbleRequest' = "sent" /\ accepted' = arg[t] /\ UNCHANGED rumbleMemory
      BY <1>0, <2>5 DEF Send, Return, TypeOK
    <3>2. rumbleMemory = arg[t]
      BY <1>0, <3>1 DEF Orderly, BufferInv
    <3> QED
      BY <1>1, <2>1, <2>2, <3>1, <3>2 DEF Orderly, CallInv, BufferInv, CommandInv, InCall
  <2> QED
    BY <1>4, <2>3, <2>4, <2>5 DEF Adapter_Rumble
<1> QED
  BY <1>2, <1>3, <1>4 DEF Adapter_Rumble, CopyByte, Send, SendFails, InCall

\* The USB stack's steps: nobody is past the power check while it has the request.
LEMMA StackStep ==
    ASSUME TypeOK, Orderly, Transfer \/ TransferFails \/ Rumble_Completion
    PROVE  Orderly'
<1>1. rumbleRequest # "idle" /\ UNCHANGED <<rumbleMemory, pc, arg, toCopy>>
  BY DEF Transfer, TransferFails, Rumble_Completion, threadVars
<1>2. \A t \in Thread : ~InCall(t)
  BY <1>1 DEF Orderly, CallInv
<1>3. CallInv' /\ BufferInv'
  BY <1>1, <1>2 DEF CallInv, BufferInv, InCall
<1>4. CommandInv'
  BY DEF Orderly, CommandInv, Transfer, TransferFails, Rumble_Completion
<1> QED
  BY <1>3, <1>4 DEF Orderly

\* Every action preserves the invariant: contention is never forgotten.
LEMMA RumbleStep ==
    ASSUME RumbleInv, [Next]_vars
    PROVE  RumbleInv'
<1>1. TypeOK /\ TypeOK'
  BY TypeStep DEF RumbleInv
<1> SUFFICES ASSUME ~contended' PROVE Orderly'
  BY <1>1 DEF RumbleInv
<1>2. ~contended
  BY DEF Next, ReadComplete, SetRumble, Adapter_Rumble, Unpowered, Powered, Begin, CopyByte,
         Send, SendFails, Transfer, TransferFails, Rumble_Completion, vars
<1>3. Orderly
  BY <1>2 DEF RumbleInv
<1>4. CASE UNCHANGED vars
  BY <1>3, <1>4 DEF vars, Orderly, CallInv, BufferInv, CommandInv, InCall
<1>5. ASSUME NEW r \in Reader, NEW hasPower \in BOOLEAN, ReadComplete(r, hasPower)
      PROVE  Orderly'
  BY <1>1, <1>3, <1>5, BeginStep DEF Thread
<1>6. ASSUME NEW c \in Caller, NEW mask \in SUBSET Port, SetRumble(c, mask)
      PROVE  Orderly'
  BY <1>1, <1>3, <1>6, BeginStep DEF Thread
<1> QED
  BY <1>1, <1>3, <1>4, <1>5, <1>6, CallStep, StackStep DEF Next

\* Until a call finds the buffer or the request in use, at rest the motors do what the last
\* command that was sent said and the stored status tells what they do, whatever fails, for
\* any ports, pending reads and callers.
THEOREM OnlyContentionHarms == Spec => [](ObeyedUntilContended /\ StatusUntilContended)
<1>1. Init => RumbleInv
  <2> SUFFICES ASSUME Init PROVE RumbleInv
    OBVIOUS
  <2>1. TypeOK
    BY TypeInit
  <2>2. CallInv /\ BufferInv
    BY DEF Init, CallInv, BufferInv, InCall
  <2>3. CommandInv
    BY DEF Init, CommandInv
  <2> QED
    BY <2>1, <2>2, <2>3 DEF RumbleInv, Orderly
<1>2. RumbleInv /\ [Next]_vars => RumbleInv'
  BY RumbleStep
<1>3. RumbleInv => ObeyedUntilContended /\ StatusUntilContended
  BY DEF RumbleInv, Orderly, CommandInv, ObeyedUntilContended, StatusUntilContended,
         LastCommandApplied, StatusIsLatest, Idle
<1> QED
  BY <1>1, <1>2, <1>3, PTL DEF Spec
=============================================================================
