------------------------------ MODULE Deadzone ------------------------------
(***************************************************************************)
(* What becomes of one port's sticks and shoulder buttons on their way     *)
(* into a report: the calibration that the port's reports are centred      *)
(* with, sampled from the controller by the port's own reports and by the  *)
(* calibrate IOCTL, and the handlers that apply the deadzone.  The         *)
(* arithmetic is in Sticks, the settings' life in Settings, queues and     *)
(* rotation in HidReports.                                                 *)
(*                                                                         *)
(* The reader builds one report of this port after another; a Caller is a  *)
(* thread in IOCTL_GCN_ADAPTER_CALIBRATE.  prepare_report copies the port's*)
(* settings and handlers while SET_DEADZONE may be changing them, so here  *)
(* its copy is any mixture of handlers and deadzones.  The handlers of a   *)
(* report's knobs share nothing but the centre: the model looks at one knob*)
(* of each report, any one of them.                                        *)
(***************************************************************************)
EXTENDS Sticks

CONSTANTS Stick,         \* axis[0] and axis[1] in the code
          Shoulder,      \* shoulder[0] and shoulder[1]
          Inverted,      \* the sticks whose Y the report complements: axis[0]
          RestInput,     \* controllers: what each sends while nobody touches it
          Pushed,        \* [knob -> values a touched knob may send]
          Entered,       \* deadzones that may have been set
          Caller,
          NoController

Knob == Stick \cup Shoulder

ASSUME KnobAssumption == Stick \cap Shoulder = {} /\ Inverted \subseteq Stick
ASSUME EnteredAssumption == Entered \subseteq Byte

Zero == [k \in Knob |-> IF k \in Stick THEN <<0, 0>> ELSE <<0>>]
Neutral == [k \in Knob |-> IF k \in Stick THEN NeutralAxis ELSE NeutralShoulder]
\* What a controller at rest in all but at most one knob sends.
InputOf(rest) == {rest} \cup
    {[rest EXCEPT ![kp[1]] = kp[2]] : kp \in UNION {{k} \X Pushed[k] : k \in Knob}}
Input == UNION {InputOf(rest) : rest \in RestInput}

\* A value of knob k.
Value(k) == IF k \in Stick THEN Byte \X Byte ELSE {<<b>> : b \in Byte}

ASSUME InputAssumption ==
    /\ \A rest \in RestInput : DOMAIN rest = Knob /\ \A k \in Knob : rest[k] \in Value(k)
    /\ DOMAIN Pushed = Knob /\ \A k \in Knob : Pushed[k] \subseteq Value(k)
ASSUME NoControllerAssumption == NoController \notin Input \cup {Zero}

VARIABLES
    adapterData,         \* the latest packet: what the port's controller sent, or none
    calibrationData,     \* the input that reports are centred with
    lastControllerState, \* whether the port was plugged when last reported
    reader,              \* control point of the reader, in prepare_report
    report,              \* one knob of the report it has built, and what from
    snap,                \* a caller's local copy of adapterData
    plugged,             \* the controller in the port
    session,             \* of that controller: whether it had a report, whether it was
                         \* touched, whether its centre was overwritten by an older one
    early                \* callers whose copy is older than the session

portVars == <<adapterData, calibrationData, lastControllerState>>
readerVars == <<reader, report>>
historyVars == <<plugged, session, early>>
vars == <<portVars, readerVars, snap, historyVars>>

Session == [reported : BOOLEAN, touched : BOOLEAN, overwritten : BOOLEAN]
NewSession == [reported |-> FALSE, touched |-> FALSE, overwritten |-> FALSE]

\* adapterData as calibration copies it: an empty port sends zeros.
Sample == IF adapterData = NoController THEN Zero ELSE adapterData

\* Between reports, and in a neutral report, no knob is of interest.
NoReport == [knob |-> NoController, value |-> <<>>, center |-> <<>>, out |-> <<>>,
             function |-> "null", deadzone |-> 0]

Init ==
    /\ adapterData = NoController
    /\ calibrationData = Zero
    /\ lastControllerState = FALSE
    /\ reader = "idle"
    /\ report = NoReport
    /\ snap = [c \in Caller |-> NoController]
    /\ plugged = NoController
    /\ session = NewSession
    /\ early = {}

-----------------------------------------------------------------------------
(* The reader.                                                             *)

\* A packet, and the handler's turn for this port.  Exchanges of controllers that the
\* port's reports do not see are in HidReports; here some report shows the empty port.
ReadComplete(now, data) ==
    /\ reader = "idle"
    /\ now = plugged \/ now = NoController \/ plugged = NoController
    /\ data \in IF now = NoController THEN {NoController} ELSE InputOf(now)
    /\ adapterData' = data
    /\ plugged' = now
    /\ LET current == IF now = plugged THEN session ELSE NewSession
       IN session' = [current EXCEPT !.touched = @ \/ data # now]
    /\ early' = IF now = plugged THEN early
                ELSE {c \in Caller : snap[c] # NoController}
    /\ reader' = "build"
    /\ UNCHANGED <<calibrationData, lastControllerState, report, snap>>

\* Variant: an empty port leaves lastControllerState set.
BuildNeutralKeepsState ==
    /\ reader = "build"
    /\ adapterData = NoController
    /\ report' = NoReport
    /\ reader' = "complete"
    /\ UNCHANGED <<portVars, snap, historyVars>>

BuildNeutral ==
    /\ reader = "build"
    /\ adapterData = NoController
    /\ report' = NoReport
    /\ lastControllerState' = FALSE
    /\ reader' = "complete"
    /\ UNCHANGED <<adapterData, calibrationData, snap, historyVars>>

\* The knob's value in the report before its handler: axis[0].Y is complemented.
Raw(k) == IF k \in Inverted THEN <<adapterData[k][1], 255 - adapterData[k][2]>>
                            ELSE adapterData[k]

\* The knob's part of handle_null_zones, under the copied handler and deadzone; nothing is
\* done if the floating point state cannot be saved (which is as if it were "null").  The
\* centre is the calibration as it was sampled: its Y is not complemented.
Handled(k, function, deadzone) ==
    CASE function = "null" -> {Raw(k)}
      [] function # "null" /\ k \in Stick -> LinearAxis(Raw(k), calibrationData[k], deadzone)
      [] OTHER -> LinearShoulder(Raw(k), calibrationData[k], deadzone)

\* The report is centred before the port is calibrated.
BuildInput(k, function, deadzone) ==
    /\ reader = "build"
    /\ adapterData # NoController
    /\ \E out \in Handled(k, function, deadzone) :
          report' = [knob |-> k, value |-> Raw(k), center |-> calibrationData[k],
                     out |-> out, function |-> function, deadzone |-> deadzone]
    /\ calibrationData' = IF lastControllerState THEN calibrationData ELSE adapterData
    /\ lastControllerState' = TRUE
    /\ reader' = "complete"
    /\ UNCHANGED <<adapterData, snap, historyVars>>

CompleteReport ==
    /\ reader = "complete"
    /\ reader' = "idle"
    /\ report' = NoReport
    /\ session' = [session EXCEPT !.reported = plugged # NoController]
    /\ UNCHANGED <<portVars, snap, plugged, early>>

-----------------------------------------------------------------------------
(* GCN_Controller_Calibrate for a caller: the copy is made under dataLock  *)
(* and stored after the lock is released.                                  *)

CalibrateSnapshot(c) ==
    /\ snap[c] = NoController
    /\ snap' = [snap EXCEPT ![c] = Sample]
    /\ UNCHANGED <<portVars, readerVars, historyVars>>

CalibrateStore(c) ==
    /\ snap[c] # NoController
    /\ calibrationData' = snap[c]
    /\ snap' = [snap EXCEPT ![c] = NoController]
    /\ session' = [session EXCEPT !.overwritten = @ \/ c \in early]
    /\ early' = early \ {c}
    /\ UNCHANGED <<adapterData, lastControllerState, readerVars, plugged>>

-----------------------------------------------------------------------------
Reports ==
    \/ \E now \in RestInput \cup {NoController}, data \in Input \cup {NoController} :
          ReadComplete(now, data)
    \/ BuildNeutral
    \/ \E k \in Knob, function \in {"null", "linear"}, deadzone \in Entered :
          BuildInput(k, function, deadzone)
    \/ CompleteReport

Next == Reports \/ \E c \in Caller : CalibrateSnapshot(c) \/ CalibrateStore(c)

Spec == Init /\ [][Next]_vars

-----------------------------------------------------------------------------
(* Properties.                                                             *)

\* Every variable has its type; in particular whatever the arithmetic yields is a byte.
TypeOK ==
    /\ adapterData \in Input \cup {NoController}
    /\ calibrationData \in Input \cup {Zero}
    /\ lastControllerState \in BOOLEAN
    /\ reader \in {"idle", "build", "complete"}
    /\ \/ report = NoReport
       \/ /\ report.knob \in Knob
          /\ {report.value, report.center, report.out} \subseteq Value(report.knob)
          /\ report.function \in {"null", "linear"}
          /\ report.deadzone \in Entered
    /\ snap \in [Caller -> Input \cup {Zero, NoController}]
    /\ plugged \in RestInput \cup {NoController}
    /\ session \in Session
    /\ early \subseteq Caller

\* The linear handler made this report, of a stick or of a shoulder button.
Processed(K) == report.knob \in K /\ report.function = "linear"

Magnitude(n) == IF n < 0 THEN -n ELSE n

\* How far from its centre a controller at rest is seen: only the complement moves it.
RestError ==
    IF report.knob \in Inverted THEN Magnitude(255 - 2 * report.center[2]) ELSE 0

\* This is the second or a later report of a controller that nobody has touched.
Untouched == session.reported /\ ~session.touched

\* From its second report on a controller that nobody touches is reported neutral,
\* whatever it replaced, whenever it was calibrated and however its settings change -
\* if the deadzone is larger than the error that the complemented Y makes, and unless a
\* calibrate IOCTL that had begun before the controller came has stored its old copy.
UntouchedIsNeutral ==
    Processed(Knob) /\ Untouched /\ ~session.overwritten /\ RestError < report.deadzone
        => report.out = Neutral[report.knob]

\* "The driver calibrates the controller when it is plugged in" (README.txt:55): from its
\* second report on a controller that nobody touches is reported neutral.
RestIsNeutral == Processed(Knob) /\ Untouched => report.out = Neutral[report.knob]

\* From a centre this near to the middle no direction leaves the byte's range, if the
\* deadzone is not smaller than the default.
CenteredStick ==
    /\ Processed(Stick)
    /\ report.deadzone >= DefaultDeadzone
    /\ \A i \in {1, 2} : report.center[i] \in 121 .. 132

\* A stick is reported to point where it points, and no further out than it is, but for
\* the rounding of the two coordinates, and a sixteenth of it: Sticks knows the distance
\* up to 1/Scale, for each coordinate on its own.
DeflectionIsRadial ==
    CenteredStick =>
        LET o == [i \in {1, 2} |-> report.value[i] - report.center[i]]
            r == [i \in {1, 2} |-> report.out[i] - NeutralAxis[i]]
        IN /\ 16 * Magnitude(r[1] * o[2] - r[2] * o[1])
                <= 17 * (Magnitude(o[1]) + Magnitude(o[2]))
           /\ \A i \in {1, 2} : /\ r[i] * o[i] >= -Magnitude(o[i])
                                /\ Magnitude(r[i]) <= Magnitude(o[i]) + 1

\* A shoulder button is never reported as pressed further than it is, whatever its centre
\* and its deadzone: one released below its centre does not wrap to the other end.
PressNotExaggerated ==
    Processed(Shoulder) =>
        report.out[1] = 0 \/ report.out[1] <= report.value[1] - report.center[1]
=============================================================================
