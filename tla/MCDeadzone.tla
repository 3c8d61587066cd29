----------------------------- MODULE MCDeadzone ------------------------------
(* Small instances of Deadzone: the controllers, and what touched knobs     *)
(* send.                                                                    *)
EXTENDS Deadzone

\* A controller with small errors, and a worn one whose sticks rest low.
Good == [k \in Knob |-> IF k \in Stick THEN <<129, 124>> ELSE <<30>>]
Worn == [k \in Knob |-> IF k \in Stick THEN <<122, 100>> ELSE <<200>>]
Controllers == {Good, Worn}

\* The corners, the edges of the default deadzone and a few places in between.
Touched == [k \in Knob |->
    IF k \in Stick
    THEN {<<0, 0>>, <<255, 127>>, <<129, 88>>, <<164, 124>>, <<104, 152>>, <<60, 200>>}
    ELSE {<<0>>, <<64>>, <<65>>, <<255>>}]
=============================================================================
