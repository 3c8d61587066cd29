------------------------------- MODULE Sticks --------------------------------
(***************************************************************************)
(* The arithmetic that turns a raw stick or shoulder button into what the  *)
(* report says: GCN_Controller.c's two pairs of handlers, for one stick    *)
(* <<X, Y>> or one shoulder button <<V>> of bytes.                         *)
(*                                                                         *)
(* The code computes in doubles and converts the result to a byte.  The    *)
(* conversion drops the fraction and keeps the low byte of the integer, and*)
(* it yields 0 for infinities and for 0/0, whose integer is 80000000h.     *)
(* Here the arithmetic is exact but for the distance, which is known up to *)
(* 1/Scale, and a rounding error of the doubles may push a value over the  *)
(* next integer; so a handler is the SET of bytes it can return, which     *)
(* holds the one it does return (and mostly nothing else).                 *)
(***************************************************************************)
EXTENDS Integers

Byte == 0 .. 255

\* GCN_AdapterControllerZero: what a controller at rest, or none, is reported as.
NeutralAxis == <<127, 127>>
NeutralShoulder == <<0>>
DefaultDeadzone == 35

Scale == 32

\* The integer square root of n < 2^28: two digits to the base 128.
Digit(n, r, place) ==
    CHOOSE d \in 0 .. 127 :
        /\ (r + place * d) * (r + place * d) <= n
        /\ n < (r + place * (d + 1)) * (r + place * (d + 1))
Root(n) ==
    LET high == 128 * Digit(n, 0, 128)
    IN high + Digit(n, high, 1)

Toward0(n, d) == IF n >= 0 THEN n \div d ELSE -((-n) \div d)

\* (BYTE) of every integer from the least to the greatest of S.
LowBytes(S) == {v % 256 : v \in UNION {a .. b : a \in S, b \in S}}

Dist2(axis, center) ==
    (axis[1] - center[1]) * (axis[1] - center[1])
    + (axis[2] - center[2]) * (axis[2] - center[2])

\* Variant: the result is kept in an integer instead of a byte.
ScaledAxisWide(offset, dist2, deadzone) ==
    LET root == Root(Scale * Scale * dist2)
        Num == 127 * root * (255 - deadzone) + 255 * offset * (root - Scale * deadzone)
    IN {Toward0(Num, root * (255 - deadzone))}

\* Variant: the deadzone is subtracted from each coordinate instead of from the distance.
ScaledAxisSquare(offset, dist2, deadzone) ==
    LET size == IF offset < 0 THEN -offset ELSE offset
        beyond == IF size < deadzone THEN 0 ELSE size - deadzone
        sign == IF offset < 0 THEN -1 ELSE 1
    IN LowBytes({127 + Toward0(255 * sign * beyond, 255 - deadzone)})

\* 127 + 255 * (d/255 - s) / (1 - s) * offset / d, where d is the distance from the
\* centre and s is deadzone/255: the distance beyond the deadzone, stretched to the
\* whole range, in the stick's direction.
ScaledAxis(offset, dist2, deadzone) ==
    LET root == Root(Scale * Scale * dist2)
        roots == IF root * root = Scale * Scale * dist2 THEN {root} ELSE {root, root + 1}
        Num(r) == 127 * r * (255 - deadzone) + 255 * offset * (r - Scale * deadzone)
        Den(r) == r * (255 - deadzone)
    IN IF offset = 0 THEN {127}
       ELSE LowBytes({Toward0(Num(r) + e, Den(r)) : r \in roots, e \in {-1, 1}})

\* linear_handle_axis.  `abs` takes an int: the distance loses its fraction first.
LinearAxis(axis, center, deadzone) ==
    LET dist2 == Dist2(axis, center)
        Coordinate(i) == ScaledAxis(axis[i] - center[i], dist2, deadzone)
    IN IF dist2 < deadzone * deadzone THEN {NeutralAxis}
       ELSE IF dist2 = 0 \/ deadzone = 255 THEN {<<0, 0>>}
       ELSE Coordinate(1) \X Coordinate(2)

\* Variant: a button below its centre is not neutral.
LinearShoulderBelowCenter(shoulder, center, deadzone) ==
    LET distance == shoulder[1] - center[1]
    IN IF distance \in 0 .. deadzone - 1 THEN {NeutralShoulder}
       ELSE IF distance = 0 \/ deadzone = 255 THEN {<<0>>}
       ELSE {<<Toward0(255 * (distance - deadzone), 255 - deadzone) % 256>>}

\* linear_handle_shoulder: a button above its centre has a deadzone, below it is neutral.
LinearShoulder(shoulder, center, deadzone) ==
    LET distance == shoulder[1] - center[1]
    IN IF distance < deadzone THEN {NeutralShoulder}
       ELSE IF distance = 0 \/ deadzone = 255 THEN {<<0>>}
       ELSE {<<Toward0(255 * (distance - deadzone) - e, 255 - deadzone) % 256>> :
                e \in IF distance = deadzone THEN {0} ELSE {0, 1}}
=============================================================================
