------------------------- MODULE ConcurrentService -------------------------
(***************************************************************************)
(* What the adapters owe the HID class driver however many handlers answer *)
(* at once.  Each adapter's requests wait in the order they came and are   *)
(* taken in that order.  Whoever has taken one looks up the counter that   *)
(* all adapters share, and may from then on know every value it takes;     *)
(* he labels his report with one of these and sets the counter to the      *)
(* successor of one, perhaps of another, and answers later.  So answers    *)
(* may come in another order than the labels, labels may repeat and the    *)
(* counter may fall back, but no label is older than the look.             *)
(***************************************************************************)
EXTENDS Naturals, SequencesExt

CONSTANTS N,        \* controller ports of an adapter
          Device,   \* adapters
          Request,  \* IOCTL_HID_READ_REPORT requests
          Nobody    \* not a request: no report was sent yet

VARIABLES parked,   \* requests waiting at each adapter, oldest first
          taken,    \* requests taken at each adapter and not yet answered
          known,    \* values of the counter since the request's taker has looked it up
          label,    \* label of the request's report, 0: none yet
          next,     \* the counter
          sent      \* label of each adapter's last report and who got it

vars == <<parked, taken, known, label, next, sent>>

Init ==
    /\ parked = [d \in Device |-> <<>>]
    /\ taken = [d \in Device |-> {}]
    /\ known = [q \in Request |-> {}]
    /\ label = [q \in Request |-> 0]
    /\ next = 1
    /\ sent = [d \in Device |-> [to |-> Nobody, id |-> N]]

\* A request waits or is taken, at one adapter.
Busy(q) == \E d \in Device : q \in ToSet(parked[d]) \cup taken[d]

Park(d, q) ==
    /\ ~Busy(q)
    /\ parked' = [parked EXCEPT ![d] = Append(@, q)]
    /\ UNCHANGED <<taken, known, label, next, sent>>

Take(d) ==
    /\ parked[d] # <<>>
    /\ taken' = [taken EXCEPT ![d] = @ \cup {Head(parked[d])}]
    /\ parked' = [parked EXCEPT ![d] = Tail(@)]
    /\ UNCHANGED <<known, label, next, sent>>

\* The request was taken and nothing more was done for it.
Fresh(q) == known[q] = {} /\ label[q] = 0

Look(q) ==
    /\ Fresh(q)
    /\ known' = [known EXCEPT ![q] = {next}]
    /\ UNCHANGED <<parked, taken, label, next, sent>>

Count(q) ==
    /\ \E i, j \in known[q] :
        /\ label' = [label EXCEPT ![q] = i]
        /\ next' = (j % N) + 1
    /\ known' = [o \in Request |->
                    IF o = q \/ known[o] = {} THEN {} ELSE known[o] \cup {next'}]
    /\ UNCHANGED <<parked, taken, sent>>

Answer(d, q) ==
    /\ label[q] # 0
    /\ sent' = [sent EXCEPT ![d] = [to |-> q, id |-> label[q]]]
    /\ label' = [label EXCEPT ![q] = 0]
    /\ taken' = [taken EXCEPT ![d] = @ \ {q}]
    /\ UNCHANGED <<parked, known, next>>

Reject(d, q) ==
    /\ Fresh(q)
    /\ taken' = [taken EXCEPT ![d] = @ \ {q}]
    /\ UNCHANGED <<parked, known, label, next, sent>>

Withdraw(d, k) ==
    /\ parked' = [parked EXCEPT ![d] = RemoveAt(@, k)]
    /\ UNCHANGED <<taken, known, label, next, sent>>

\* Nothing is swept away while a handler still has a request.
Sweep(d) ==
    /\ taken[d] = {}
    /\ parked' = [parked EXCEPT ![d] = <<>>]
    /\ UNCHANGED <<taken, known, label, next, sent>>

Next ==
    \E d \in Device :
        \/ \E q \in Request : Park(d, q)
        \/ Take(d)
        \/ \E q \in taken[d] : Look(q) \/ Count(q) \/ Answer(d, q) \/ Reject(d, q)
        \/ \E k \in DOMAIN parked[d] : Withdraw(d, k)
        \/ Sweep(d)

Spec == Init /\ [][Next]_vars
=============================================================================
