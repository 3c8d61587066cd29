--------------------------- MODULE ReportService ---------------------------
(***************************************************************************)
(* What one adapter owes the HID class driver, with no threads, no locks   *)
(* and no USB in it.  The class driver hands in read requests; they wait   *)
(* in the order they came; the one waiting longest gets the next report;   *)
(* the reports are labelled 1, 2, .., N, 1, 2, .. for ever.  A request may *)
(* also be withdrawn by its owner, rejected, or swept away with the        *)
(* device, and none of the three advances the label.                       *)
(*                                                                         *)
(* HidReports shows that the driver's handlers implement this.             *)
(***************************************************************************)
EXTENDS Naturals, SequencesExt

CONSTANTS N,        \* controller ports of an adapter
          Request,  \* IOCTL_HID_READ_REPORT requests
          Nobody    \* not a request: no report was sent yet

VARIABLES parked,   \* requests waiting, oldest first
          next,     \* label the next report will carry
          sent      \* label of the last report and who got it

vars == <<parked, next, sent>>

Init ==
    /\ parked = <<>>
    /\ next = 1
    /\ sent = [to |-> Nobody, id |-> N]

Park(q) ==
    /\ q \notin ToSet(parked)
    /\ parked' = Append(parked, q)
    /\ UNCHANGED <<next, sent>>

Answer ==
    /\ parked # <<>>
    /\ sent' = [to |-> Head(parked), id |-> next]
    /\ next' = (next % N) + 1
    /\ parked' = Tail(parked)

Withdraw(k) ==
    /\ parked' = RemoveAt(parked, k)
    /\ UNCHANGED <<next, sent>>

Reject ==
    /\ parked # <<>>
    /\ parked' = Tail(parked)
    /\ UNCHANGED <<next, sent>>

Sweep ==
    /\ parked' = <<>>
    /\ UNCHANGED <<next, sent>>

Next ==
    \/ \E q \in Request : Park(q)
    \/ Answer
    \/ \E k \in DOMAIN parked : Withdraw(k)
    \/ Reject
    \/ Sweep

Spec == Init /\ [][Next]_vars
=============================================================================
