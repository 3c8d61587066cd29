------------------------------ MODULE Settings -------------------------------
(***************************************************************************)
(* The deadzone settings of one port and the clients that edit them: the   *)
(* console client reads them with GET_DEADZONE, lets its user choose, and  *)
(* writes them back with SET_DEADZONE, which also chooses the handler of   *)
(* each knob (a stick or a shoulder button).  Nothing locks the settings,  *)
(* and two clients' IOCTLs are in the driver at once, because the raw PDO's*)
(* queue forwards them to a parallel one: so a structure is copied knob by *)
(* knob, in any order (a compiler moves at least a knob's two bytes at a   *)
(* time).  How reports use the settings is in Deadzone.                    *)
(***************************************************************************)
EXTENDS Naturals

CONSTANTS Client,           \* threads of console clients, in user mode or in an IOCTL
          Knob,             \* axis[0], axis[1], shoulder[0], shoulder[1]
          Entered,          \* deadzones that users enter
          DefaultDeadzone

\* A mode is a byte; "other" stands for all but NONE and LINEAR.
Mode == {"none", "linear", "other"}
Setting == [mode : Mode, deadzone : Entered \cup {DefaultDeadzone}]
Default == [k \in Knob |-> [mode |-> "linear", deadzone |-> DefaultDeadzone]]

VARIABLES
    settings,  \* controllerStatus.deadzone
    function,  \* controllerStatus.function_axis and function_shoulder
    pc,        \* control point of a client
    pData,     \* the settings in its buffer
    todo,      \* knobs that its IOCTL has not yet dealt with
    overlapped \* whether the latest SET_DEADZONE began during another

clientVars == <<pc, pData, todo>>
vars == <<settings, function, clientVars, overlapped>>

Init ==
    /\ settings = Default
    /\ function = [k \in Knob |-> "linear"]
    /\ pc = [c \in Client |-> "idle"]
    /\ pData = [c \in Client |-> Default]
    /\ todo = [c \in Client |-> {}]
    /\ overlapped = FALSE

-----------------------------------------------------------------------------
\* Client c enters a loop over all knobs.
Start(c, loop) ==
    /\ pc' = [pc EXCEPT ![c] = loop]
    /\ todo' = [todo EXCEPT ![c] = Knob]

\* Client c is done with knob k of its loop, and after the last one goes on to `next`.
Done(c, k, next) ==
    /\ pc' = [pc EXCEPT ![c] = IF todo[c] = {k} THEN next ELSE @]
    /\ todo' = [todo EXCEPT ![c] = IF @ = {k} /\ next = "link" THEN Knob ELSE @ \ {k}]

GetDeadzone(c) ==
    /\ pc[c] = "idle"
    /\ Start(c, "get")
    /\ UNCHANGED <<settings, function, pData, overlapped>>

\* pData->data = controllerStatus[pData->controller].deadzone.
GetField(c, k) ==
    /\ pc[c] = "get"
    /\ k \in todo[c]
    /\ pData' = [pData EXCEPT ![c][k] = settings[k]]
    /\ Done(c, k, "edit")
    /\ UNCHANGED <<settings, function, overlapped>>

InUpdate(c) == pc[c] \in {"store", "link"}

\* Variant: the deadzone that the user enters is stored for one knob only.
SetDeadzoneOfOne(c, mode, deadzone) ==
    LET one == CHOOSE k \in Knob : TRUE IN
    /\ pc[c] = "edit"
    /\ pData' = [pData EXCEPT ![c] =
          [k \in Knob |-> [mode |-> mode,
                           deadzone |-> IF mode = "linear" /\ k = one THEN deadzone
                                        ELSE pData[c][k].deadzone]]]
    /\ Start(c, "store")
    /\ overlapped' = \E other \in Client \ {c} : InUpdate(other)
    /\ UNCHANGED <<settings, function>>

\* The user chooses a mode for all knobs, and for LINEAR a deadzone for all knobs; with
\* another mode the deadzones stay those that were read.  SET_DEADZONE begins.
SetDeadzone(c, mode, deadzone) ==
    /\ pc[c] = "edit"
    /\ pData' = [pData EXCEPT ![c] =
          [k \in Knob |-> [mode |-> mode,
                           deadzone |-> IF mode = "linear" THEN deadzone
                                        ELSE pData[c][k].deadzone]]]
    /\ Start(c, "store")
    /\ overlapped' = \E other \in Client \ {c} : InUpdate(other)
    /\ UNCHANGED <<settings, function>>

\* GCN_Controller_Status_Update_Deadzone stores the new settings ..
StoreField(c, k) ==
    /\ pc[c] = "store"
    /\ k \in todo[c]
    /\ settings' = [settings EXCEPT ![k] = pData[c][k]]
    /\ Done(c, k, "link")
    /\ UNCHANGED <<function, pData, overlapped>>

\* Variants: LINEAR does not bring the linear handler back; handlers come from a table
\* that has no entry for an unknown mode.
LinkHandlerUnlessSet(c, k) ==
    /\ pc[c] = "link"
    /\ k \in todo[c]
    /\ function' = IF settings[k].mode = "none" THEN [function EXCEPT ![k] = "null"]
                   ELSE function
    /\ pData' = IF todo[c] = {k} THEN [pData EXCEPT ![c] = Default] ELSE pData
    /\ Done(c, k, "idle")
    /\ UNCHANGED <<settings, overlapped>>

LinkHandlerFromTable(c, k) ==
    /\ pc[c] = "link"
    /\ k \in todo[c]
    /\ function' = [function EXCEPT ![k] = IF settings[k].mode = "none" THEN "null"
                                          ELSE settings[k].mode]
    /\ pData' = IF todo[c] = {k} THEN [pData EXCEPT ![c] = Default] ELSE pData
    /\ Done(c, k, "idle")
    /\ UNCHANGED <<settings, overlapped>>

\* .. and then chooses each knob's handler by the mode it finds stored; an unknown mode
\* leaves the handler as it is.  After the last knob the IOCTL is completed.
LinkHandler(c, k) ==
    /\ pc[c] = "link"
    /\ k \in todo[c]
    /\ function' = CASE settings[k].mode = "none" -> [function EXCEPT ![k] = "null"]
                     [] settings[k].mode = "linear" -> [function EXCEPT ![k] = "linear"]
                     [] OTHER -> function
    /\ pData' = IF todo[c] = {k} THEN [pData EXCEPT ![c] = Default] ELSE pData
    /\ Done(c, k, "idle")
    /\ UNCHANGED <<settings, overlapped>>

-----------------------------------------------------------------------------
Edit(c) ==
    \/ GetDeadzone(c)
    \/ \E k \in Knob : GetField(c, k)
    \/ \E mode \in Mode, deadzone \in Entered : SetDeadzone(c, mode, deadzone)
    \/ \E k \in Knob : StoreField(c, k)
    \/ \E k \in Knob : LinkHandler(c, k)

Next == \E c \in Client : Edit(c)

Spec == Init /\ [][Next]_vars

-----------------------------------------------------------------------------
\* Every variable has its type, and only a client in a loop has knobs left.
TypeOK ==
    /\ settings \in [Knob -> Setting]
    /\ function \in [Knob -> {"null", "linear"}]
    /\ pc \in [Client -> {"idle", "get", "edit", "store", "link"}]
    /\ pData \in [Client -> [Knob -> Setting]]
    /\ todo \in [Client -> SUBSET Knob]
    /\ overlapped \in BOOLEAN
    /\ \A c \in Client : pc[c] \in {"idle", "edit"} => todo[c] = {}

\* No SET_DEADZONE is in progress, and the latest one had the settings for itself, as the
\* comment at GCN_Interface.c:32 expects of all of them.
Settled == (\A c \in Client : ~InUpdate(c)) /\ ~overlapped

\* When the settings are settled every knob is processed by the handler of the mode that
\* GET_DEADZONE tells, even after updates that did overlap.
HandlersFollowModes ==
    Settled => \A k \in Knob :
        settings[k].mode # "other" =>
            function[k] = IF settings[k].mode = "none" THEN "null" ELSE "linear"

\* When the settings are settled all knobs have the mode, and in LINEAR mode the deadzone,
\* that some user chose for all of them, although a client may have read a mixture of two
\* updates and written back what it read.
KnobsAgree ==
    Settled => \A j, k \in Knob :
        /\ settings[j].mode = settings[k].mode
        /\ settings[k].mode = "linear" => settings[j].deadzone = settings[k].deadzone
=============================================================================
