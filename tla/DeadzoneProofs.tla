--------------------------- MODULE DeadzoneProofs ----------------------------
(* The properties that Deadzone's run checks for two controllers and a few   *)
(* inputs, for any controllers, inputs, deadzones and callers: the types, that*)
(* an untouched controller is reported neutral, that no press is exaggerated *)
(* and that a stick is reported to point where it points.                    *)
EXTENDS Deadzone, WellFoundedInduction, TLAPS

Data == Input \cup {Zero}

\* The knob of the report as `Raw` makes it from a given input.
RawOf(input, k) == IF k \in Inverted THEN <<input[k][1], 255 - input[k][2]>> ELSE input[k]

-----------------------------------------------------------------------------
(* The arithmetic.                                                         *)

\* A shorter distance has a smaller square.
LEMMA SquareMonotone ==
    ASSUME NEW a \in Int, NEW b \in Nat, Magnitude(a) < b
    PROVE  a * a < b * b
<1> DEFINE m == Magnitude(a)
<1>1. m \in Nat /\ m * m = a * a
  BY DEF Magnitude
<1>2. ASSUME NEW n \in Nat, n < b PROVE n * n < b * b
  <2>1. b = n + (b - n) /\ b - n \in Nat /\ b - n > 0
    BY <1>2
  <2>2. \A e \in Nat : e > 0 => n * n < (n + e) * (n + e)
    OBVIOUS
  <2> QED
    BY <2>1, <2>2
<1> QED
  BY <1>1, <1>2

\* Two bytes are at most 255 apart.
LEMMA ByteDifference ==
    ASSUME NEW x \in Byte, NEW y \in Byte
    PROVE  x - y \in Int /\ x - y <= 255 /\ (x = y => x - y = 0)
BY DEF Byte

\* What \div returns, by the inequalities that determine it.
LEMMA Quotient ==
    ASSUME NEW n \in Nat, NEW m \in Nat, m > 0
    PROVE  n \div m \in Int /\ (n \div m) * m <= n /\ n < ((n \div m) + 1) * m
OBVIOUS

\* A stick inside its deadzone is neutral.
LEMMA InsideDeadzone ==
    ASSUME NEW axis \in Byte \X Byte, NEW center \in Byte \X Byte, NEW deadzone \in Byte,
           axis[1] = center[1], Magnitude(axis[2] - center[2]) < deadzone
    PROVE  LinearAxis(axis, center, deadzone) = {NeutralAxis}
<1> DEFINE a == axis[2] - center[2]
<1>0. axis[1] \in Byte /\ center[1] \in Byte /\ axis[2] \in Byte /\ center[2] \in Byte
  OBVIOUS
<1>1. a \in Int /\ axis[1] - center[1] = 0
  BY <1>0, ByteDifference
<1>2. Dist2(axis, center) = a * a
  BY <1>1 DEF Dist2
<1>3. a * a < deadzone * deadzone
  BY <1>1, SquareMonotone DEF Byte
<1> QED
  BY <1>2, <1>3 DEF LinearAxis

Bit == {0, 1}

\* The distance beyond the deadzone, stretched, is no more than the distance.
LEMMA StretchBound ==
    ASSUME NEW d \in Byte, NEW z \in Byte, z < 255, z <= d, NEW e \in Bit,
           d = z => e = 0
    PROVE  /\ Toward0(255 * (d - z) - e, 255 - z) \in Int
           /\ 0 <= Toward0(255 * (d - z) - e, 255 - z)
           /\ Toward0(255 * (d - z) - e, 255 - z) <= d
<1> DEFINE n == 255 * (d - z) - e
           m == 255 - z
           q == n \div m
<1>0. d \in 0 .. 255 /\ z \in 0 .. 254 /\ e \in {0, 1}
  BY DEF Byte, Bit
<1>1. n \in Nat /\ m \in Nat /\ m > 0
  BY <1>0
<1>2. q \in Int /\ q * m <= n /\ n < (q + 1) * m
  <2> HIDE DEF n, m
  <2> QED
    BY <1>1, Quotient
<1>3. n <= d * m
  <2>1. d * m = 255 * d - d * z /\ 255 * (d - z) = 255 * d - 255 * z
    BY <1>0
  <2>2. d * z <= 255 * z
    BY <1>0
  <2> QED
    BY <1>0, <2>1, <2>2
<1>4. 0 <= q
  <2> SUFFICES ASSUME q < 0 PROVE FALSE
    BY <1>0, <1>2
  <2>1. (q + 1) * m <= 0
    BY <1>0, <1>1, <1>2
  <2> QED
    BY <1>0, <1>1, <1>2, <2>1
<1>5. q <= d
  <2> SUFFICES ASSUME q >= d + 1 PROVE FALSE
    BY <1>0, <1>2
  <2>1. q * m >= (d + 1) * m
    BY <1>0, <1>1, <1>2
  <2>2. (d + 1) * m = d * m + m
    BY <1>0, <1>1
  <2> QED
    BY <1>0, <1>1, <1>2, <1>3, <2>1, <2>2
<1> QED
  BY <1>0, <1>1, <1>2, <1>4, <1>5 DEF Toward0

\* What the linear handler reports of a shoulder button is no more than the distance from
\* its centre.
LEMMA ShoulderBound ==
    ASSUME NEW shoulder, NEW center, shoulder[1] \in Byte, center[1] \in Byte,
           NEW deadzone \in Byte, NEW out \in LinearShoulder(shoulder, center, deadzone)
    PROVE  out[1] = 0 \/ out[1] <= shoulder[1] - center[1]
<1> DEFINE d == shoulder[1] - center[1]
<1>1. d \in Int /\ d <= 255
  BY ByteDifference
<1>2. CASE d < deadzone \/ d = 0 \/ deadzone = 255
  BY <1>2 DEF LinearShoulder, NeutralShoulder
<1>3. CASE ~(d < deadzone \/ d = 0 \/ deadzone = 255)
  <2>1. d \in 0 .. 255 /\ deadzone < 255 /\ deadzone <= d
    <3> HIDE DEF d
    <3> QED
      BY <1>1, <1>3 DEF Byte
  <2>2. PICK e \in IF d = deadzone THEN {0} ELSE {0, 1} :
            out = <<Toward0(255 * (d - deadzone) - e, 255 - deadzone) % 256>>
    BY <1>3 DEF LinearShoulder
  <2> DEFINE v == Toward0(255 * (d - deadzone) - e, 255 - deadzone)
  <2>3. e \in {0, 1} /\ (d = deadzone => e = 0)
    BY <2>2
  <2>4. v \in Int /\ 0 <= v /\ v <= d
    <3> HIDE DEF d
    <3>1. d \in Byte /\ deadzone < 255 /\ deadzone <= d /\ e \in Bit
      BY <2>1, <2>3 DEF Byte, Bit
    <3> QED
      BY <2>3, <3>1, StretchBound
  <2> HIDE DEF v
  <2>5. v % 256 = v
    BY <2>1, <2>4
  <2>6. out[1] = v
    BY <2>2, <2>5 DEF v
  <2> QED
    BY <2>4, <2>6
<1> QED
  BY <1>2, <1>3

-----------------------------------------------------------------------------
(* The square root.                                                       *)

\* A set of numbers has a least one.
LEMMA Least ==
    ASSUME NEW S \in SUBSET Nat, NEW n \in S
    PROVE  \E m \in S : \A k \in S : m <= k
<1>1. PICK m \in S : \A k \in S : <<k, m>> \notin OpToRel(<, Nat)
  BY NatLessThanWellFounded, WFMin, Zenon
<1>2. \A k \in S : ~(k < m)
  BY <1>1 DEF OpToRel
<1> QED
  BY <1>2

\* If the number whose square root is sought is in the range of a digit, there is a digit.
LEMMA DigitExists ==
    ASSUME NEW n \in Nat, NEW r \in Nat, NEW place \in Nat,
           r * r <= n, n < (r + 128 * place) * (r + 128 * place)
    PROVE  LET d == Digit(n, r, place)
           IN /\ d \in 0 .. 127
              /\ (r + place * d) * (r + place * d) <= n
              /\ n < (r + place * (d + 1)) * (r + place * (d + 1))
<1> DEFINE S == {d \in Nat : n < (r + place * (d + 1)) * (r + place * (d + 1))}
<1>1. 127 \in S
  <2>1. r + place * (127 + 1) = r + 128 * place
    OBVIOUS
  <2> QED
    BY <2>1
<1>2. PICK d \in S : \A k \in S : d <= k
  BY <1>1, Least
<1>3. d \in 0 .. 127 /\ n < (r + place * (d + 1)) * (r + place * (d + 1))
  BY <1>1, <1>2
<1>4. (r + place * d) * (r + place * d) <= n
  <2>1. CASE d = 0
    <3>1. r + place * d = r
      BY <2>1
    <3> QED
      BY <3>1
  <2>2. CASE d # 0
    <3>1. d - 1 \in Nat /\ d - 1 \notin S /\ (d - 1) + 1 = d
      BY <1>2, <1>3, <2>2
    <3>2. ~(n < (r + place * d) * (r + place * d))
      BY <3>1
    <3>3. (r + place * d) * (r + place * d) \in Nat
      BY <1>3
    <3> QED
      BY <3>2, <3>3
  <2> QED
    BY <2>1, <2>2
<1> QED
  BY <1>3, <1>4 DEF Digit

\* Root is the integer square root.
LEMMA RootIsRoot ==
    ASSUME NEW n \in Nat, n < 268435456
    PROVE  Root(n) \in Nat /\ Root(n) * Root(n) <= n /\ n < (Root(n) + 1) * (Root(n) + 1)
<1> DEFINE d == Digit(n, 0, 128)
           high == 128 * d
           e == Digit(n, high, 1)
<1>1. /\ d \in 0 .. 127
      /\ (0 + 128 * d) * (0 + 128 * d) <= n
      /\ n < (0 + 128 * (d + 1)) * (0 + 128 * (d + 1))
  <2>1. 0 * 0 <= n /\ n < (0 + 128 * 128) * (0 + 128 * 128)
    OBVIOUS
  <2> HIDE DEF d
  <2> QED
    BY <2>1, DigitExists DEF d
<1>2. high \in Nat /\ high * high <= n /\ n < (high + 128 * 1) * (high + 128 * 1)
  <2> HIDE DEF d
  <2>1. 0 + 128 * d = high /\ 0 + 128 * (d + 1) = high + 128 * 1 /\ high \in Nat
    BY <1>1
  <2> QED
    BY <1>1, <2>1
<1>3. /\ e \in 0 .. 127
      /\ (high + 1 * e) * (high + 1 * e) <= n
      /\ n < (high + 1 * (e + 1)) * (high + 1 * (e + 1))
  <2> HIDE DEF high
  <2> QED
    BY <1>2, DigitExists
<1>4. Root(n) = high + e
  BY DEF Root
<1> HIDE DEF high, e
<1>5. high + 1 * e = high + e /\ high + 1 * (e + 1) = (high + e) + 1 /\ high + e \in Nat
  BY <1>2, <1>3
<1> QED
  BY <1>3, <1>4, <1>5

-----------------------------------------------------------------------------
(* The deflection of a stick: centred near the middle, outside its deadzone. *)

\* A larger factor makes a product of a natural number no smaller.
LEMMA ProductMonotone ==
    ASSUME NEW a \in Int, NEW b \in Int, NEW k \in Nat, a <= b
    PROVE  a * k <= b * k
<1>1. b - a \in Nat /\ (b - a) * k = b * k - a * k
  OBVIOUS
<1>2. \A c \in Nat : c * k >= 0
  OBVIOUS
<1> QED
  BY <1>1, <1>2

\* And the other way round.
LEMMA ProductBelow ==
    ASSUME NEW a \in Int, NEW b \in Int, NEW k \in Nat, a * k < b * k
    PROVE  a < b
<1> SUFFICES ASSUME b <= a PROVE FALSE
  OBVIOUS
<1> QED
  BY ProductMonotone

\* How far a centred stick is from its centre, and what a rounding error is modelled by.
Offset == -134 .. 134
Nudge == {-1, 1}

\* A number between 0 and 254 divided by den stays a byte, whichever way the last bit falls,
\* and is truncated by less than one.
LEMMA Truncated ==
    ASSUME NEW den \in Nat, den >= 2, NEW num \in Nat, num <= 254 * den, NEW e \in Nudge
    PROVE  /\ Toward0(num + e, den) \in 0 .. 255
           /\ Toward0(num + e, den) * den <= num + den
           /\ num - den <= Toward0(num + e, den) * den
<1>0. e \in {-1, 1}
  BY DEF Nudge
<1>1. CASE num + e >= 0
  <2> DEFINE q == (num + e) \div den
  <2>1. q \in Int /\ q * den <= num + e /\ num + e < (q + 1) * den
    BY <1>0, <1>1, Quotient
  <2>2. Toward0(num + e, den) = q
    BY <1>1 DEF Toward0
  <2> HIDE DEF q
  <2>3. (q + 1) * den = q * den + den
    BY <2>1
  <2>4. 0 * den < (q + 1) * den /\ q * den < 256 * den
    BY <1>0, <1>1, <2>1
  <2>5. 0 < q + 1 /\ q < 256
    BY <2>1, <2>4, ProductBelow
  <2>6. num + e \in Int /\ num - 1 <= num + e /\ num + e <= num + 1
    BY <1>0
  <2> QED
    BY <2>1, <2>2, <2>3, <2>5, <2>6
<1>2. CASE num + e < 0
  <2>1. num = 0 /\ e = -1
    BY <1>0, <1>2
  <2>2. 1 \div den = 0
    OBVIOUS
  <2>3. Toward0(num + e, den) = 0
    BY <2>1, <2>2 DEF Toward0
  <2> QED
    BY <2>1, <2>3
<1> QED
  BY <1>0, <1>1, <1>2

\* The deadzones and the distances (in 1/Scale) of centred sticks outside their deadzone.
FarZone == DefaultDeadzone .. 254
FarRoot(z) == {r \in Nat : Scale * z <= r /\ r <= 6065}

Gain(r, z) == 255 * (r - Scale * z)

\* A deflection of no more than 134 is not stretched beyond the range of a byte, nor any to
\* more than it is.
LEMMA GainBound ==
    ASSUME NEW z \in FarZone, NEW r \in FarRoot(z)
    PROVE  /\ r \in Nat /\ r * (255 - z) \in Nat /\ r * (255 - z) >= 2
           /\ Gain(r, z) \in Nat
           /\ Gain(r, z) <= r * (255 - z)
           /\ 134 * Gain(r, z) <= 127 * (r * (255 - z))
<1>1. /\ z \in 35 .. 254 /\ r \in Nat /\ 32 * z <= r /\ r <= 6065
  BY DEF FarZone, FarRoot, DefaultDeadzone, Scale
<1>2. Gain(r, z) = 255 * r - 8160 * z /\ Gain(r, z) \in Nat
  BY <1>1 DEF Gain, Scale
<1>3. r * z \in Nat /\ r * z <= 6065 * z /\ r * (255 - z) = 255 * r - r * z
  BY <1>1, ProductMonotone
<1>4. r * 1 <= r * (255 - z)
  BY <1>1
<1>5. Gain(r, z) <= r * (255 - z)
  BY <1>1, <1>2, <1>3
<1>6. 134 * Gain(r, z) <= 127 * (r * (255 - z))
  BY <1>1, <1>2, <1>3
<1> QED
  BY <1>1, <1>2, <1>3, <1>4, <1>5, <1>6

\* One coordinate, for one of the two distances.
Stretched(r, z, o, e) ==
    Toward0(127 * r * (255 - z) + 255 * o * (r - Scale * z) + e, r * (255 - z))

LEMMA StretchedBounds ==
    ASSUME NEW z \in FarZone, NEW r \in FarRoot(z), NEW o \in Offset, NEW e \in Nudge
    PROVE  /\ Stretched(r, z, o, e) \in 0 .. 255
           /\ (Stretched(r, z, o, e) - 127) * (r * (255 - z))
                <= o * Gain(r, z) + r * (255 - z)
           /\ o * Gain(r, z) - r * (255 - z)
                <= (Stretched(r, z, o, e) - 127) * (r * (255 - z))
<1> DEFINE den == r * (255 - z)
           g == Gain(r, z)
           num == 127 * den + o * g
<1>0. o \in -134 .. 134
  BY DEF Offset
<1>1. /\ r \in Nat /\ z \in Int /\ den \in Nat /\ den >= 2 /\ g \in Nat
      /\ 134 * g <= 127 * den
  BY GainBound DEF FarZone, DefaultDeadzone
<1>2. 127 * r * (255 - z) + 255 * o * (r - Scale * z) = num
  <2>1. 127 * r * (255 - z) = 127 * den
    BY <1>1
  <2>2. r - Scale * z \in Int
    BY <1>1 DEF Scale
  <2>3. 255 * o * (r - Scale * z) = o * g
    BY <1>0, <2>2 DEF Gain
  <2> QED
    BY <2>1, <2>3
<1>3. Stretched(r, z, o, e) = Toward0(num + e, den)
  BY <1>2 DEF Stretched
<1> HIDE DEF den, g
<1>4. -134 * g <= o * g /\ o * g <= 134 * g /\ o * g \in Int
  BY <1>0, <1>1, ProductMonotone
<1>5. num \in Nat /\ num <= 254 * den
  BY <1>0, <1>1, <1>4
<1>6. /\ Toward0(num + e, den) \in 0 .. 255
      /\ Toward0(num + e, den) * den <= num + den
      /\ num - den <= Toward0(num + e, den) * den
  <2> HIDE DEF num
  <2> QED
    BY <1>1, <1>5, Truncated
<1>7. ASSUME NEW v \in 0 .. 255 PROVE (v - 127) * den = v * den - 127 * den /\ v * den \in Int
  BY <1>1
<1> QED
  BY <1>0, <1>1, <1>3, <1>4, <1>6, <1>7 DEF den, g

\* Deflection q is o times a number from lo/unit to hi/unit, but for the rounding.
Rounded(q, o, unit, lo, hi) ==
    /\ o >= 0 => o * lo - unit <= q * unit /\ q * unit <= o * hi + unit
    /\ o < 0  => o * hi - unit <= q * unit /\ q * unit <= o * lo + unit

\* The two distances' gains over a common denominator.
Unit(r, z) == r * ((r + 1) * (255 - z))
LowGain(r, z) == Gain(r, z) * (r + 1)
HighGain(r, z) == Gain(r + 1, z) * r

\* The gains are at most 1 and differ by little.
LEMMA UnitBounds ==
    ASSUME NEW z \in FarZone, NEW r \in FarRoot(z), r + 1 \in FarRoot(z)
    PROVE  /\ Unit(r, z) \in Nat /\ Unit(r, z) > 0
           /\ LowGain(r, z) \in Nat /\ HighGain(r, z) \in Nat
           /\ HighGain(r, z) = LowGain(r, z) + 8160 * z
           /\ LowGain(r, z) <= Unit(r, z)
           /\ HighGain(r, z) <= Unit(r, z)
<1> DEFINE a == Gain(r, z)
           b == Gain(r + 1, z)
           k == 255 - z
<1>1. /\ r \in Nat /\ r * k \in Nat /\ r * k >= 2 /\ a \in Nat /\ a <= r * k
  BY GainBound
<1>2. (r + 1) * k \in Nat /\ b \in Nat /\ b <= (r + 1) * k
  BY GainBound
<1>3. z \in Nat /\ k \in Nat /\ k > 0 /\ r > 0
  BY <1>1 DEF FarZone, FarRoot, DefaultDeadzone, Scale
<1>4. Unit(r, z) = (r * k) * (r + 1) /\ Unit(r, z) = ((r + 1) * k) * r
  BY <1>1, <1>3 DEF Unit
<1>5. a = 255 * r - 8160 * z /\ b = 255 * r + 255 - 8160 * z
  BY <1>1, <1>3 DEF Gain, Scale
<1>6. a * (r + 1) = a * r + a /\ b = a + 255 /\ b * r = a * r + 255 * r
  <2>1. b = a + 255
    BY <1>1, <1>3, <1>5
  <2> HIDE DEF a, b
  <2> QED
    BY <1>1, <2>1
<1>7. b * r = a * (r + 1) + 8160 * z
  BY <1>1, <1>3, <1>5, <1>6
<1> HIDE DEF a, b, k
<1>8. a * (r + 1) <= (r * k) * (r + 1) /\ b * r <= ((r + 1) * k) * r
  BY <1>1, <1>2, <1>3, ProductMonotone
<1>9. (r * k) * (r + 1) \in Nat /\ a * (r + 1) \in Nat /\ b * r \in Nat
  BY <1>1, <1>2
<1>10. (r * k) * 1 <= (r * k) * (r + 1)
  BY <1>1
<1> QED
  BY <1>1, <1>3, <1>4, <1>7, <1>8, <1>9, <1>10 DEF LowGain, HighGain, a, b

\* Either distance gives a byte within the bounds of both.
LEMMA StretchedRounded ==
    ASSUME NEW z \in FarZone, NEW root \in FarRoot(z), root + 1 \in FarRoot(z),
           NEW o \in Offset, NEW r \in {root, root + 1}, NEW e \in Nudge
    PROVE  /\ Stretched(r, z, o, e) \in 0 .. 255
           /\ Rounded(Stretched(r, z, o, e) - 127, o,
                      Unit(root, z), LowGain(root, z), HighGain(root, z))
<1> DEFINE v == Stretched(r, z, o, e)
           q == v - 127
           s == root + root + 1 - r
           den == r * (255 - z)
           g == Gain(r, z)
           lo == LowGain(root, z)
           hi == HighGain(root, z)
           unit == Unit(root, z)
<1>0. r \in FarRoot(z) /\ o \in -134 .. 134
  BY DEF Offset
<1>1. v \in 0 .. 255 /\ q * den <= o * g + den /\ o * g - den <= q * den
  BY <1>0, StretchedBounds
<1>2. r \in Nat /\ s \in Nat /\ den \in Nat /\ g \in Nat /\ root \in Nat /\ 255 - z \in Nat
  <2>1. den \in Nat /\ g \in Nat
    BY <1>0, GainBound
  <2>2. r \in Nat /\ root \in Nat /\ 255 - z \in Nat
    BY <1>0 DEF FarRoot, FarZone, DefaultDeadzone
  <2>3. s \in Nat
    BY <2>2
  <2> QED
    BY <2>1, <2>2, <2>3
<1>3. den * s = unit
  <2>1. CASE r = root
    BY <1>2, <2>1 DEF Unit
  <2>2. CASE r = root + 1
    BY <1>2, <2>2 DEF Unit
  <2> QED
    BY <2>1, <2>2
<1>4. lo \in Nat /\ hi \in Nat /\ lo <= hi /\ unit \in Nat
  <2>1. /\ Unit(root, z) \in Nat /\ LowGain(root, z) \in Nat /\ HighGain(root, z) \in Nat
        /\ HighGain(root, z) = LowGain(root, z) + 8160 * z
    BY UnitBounds
  <2>2. z \in Nat
    BY DEF FarZone, DefaultDeadzone
  <2> QED
    BY <2>1, <2>2
<1>5. g * s = lo \/ g * s = hi
  <2>1. CASE r = root
    BY <1>2, <2>1 DEF LowGain
  <2>2. CASE r = root + 1
    BY <1>2, <2>2 DEF HighGain
  <2> QED
    BY <2>1, <2>2
<1> HIDE DEF den, g, s, lo, hi, unit, v
<1>6. q \in Int /\ q * den \in Int /\ o * g \in Int
  BY <1>0, <1>1, <1>2
<1>7. /\ (q * den) * s <= (o * g + den) * s /\ (o * g - den) * s <= (q * den) * s
  BY <1>1, <1>2, <1>6, ProductMonotone
<1>8. /\ (q * den) * s = q * (den * s)
      /\ (o * g + den) * s = o * (g * s) + den * s
      /\ (o * g - den) * s = o * (g * s) - den * s
  BY <1>0, <1>2, <1>6
<1>9. q * unit <= o * (g * s) + unit /\ o * (g * s) - unit <= q * unit
  BY <1>3, <1>7, <1>8
<1>10. /\ o >= 0 => o * lo <= o * (g * s) /\ o * (g * s) <= o * hi
       /\ o < 0  => o * hi <= o * (g * s) /\ o * (g * s) <= o * lo
  <2>1. \A a \in Nat, b \in Nat, c \in Int : a <= b => /\ (c >= 0 => c * a <= c * b)
                                                      /\ (c < 0 => c * b <= c * a)
    <3> TAKE a \in Nat, b \in Nat, c \in Int
    <3> HAVE a <= b
    <3>1. CASE c >= 0
      <4>1. a * c <= b * c
        BY <3>1, ProductMonotone
      <4> QED
        BY <3>1, <4>1
    <3>2. CASE c < 0
      <4>1. a * (-c) <= b * (-c)
        BY <3>2, ProductMonotone
      <4>2. a * (-c) = -(c * a) /\ b * (-c) = -(c * b) /\ c * a \in Int /\ c * b \in Int
        OBVIOUS
      <4> QED
        BY <3>2, <4>1, <4>2
    <3> QED
      BY <3>1, <3>2
  <2>2. g * s \in Nat /\ lo <= g * s /\ g * s <= hi
    BY <1>4, <1>5
  <2> QED
    BY <1>0, <1>4, <2>1, <2>2
<1>11. o * (g * s) \in Int /\ o * lo \in Int /\ o * hi \in Int /\ q * unit \in Int
  BY <1>0, <1>2, <1>4, <1>6
<1>12. Rounded(q, o, unit, lo, hi)
  BY <1>4, <1>9, <1>10, <1>11 DEF Rounded
<1> QED
  BY <1>1, <1>12 DEF v, unit, lo, hi

\* So does the low byte of everything in between.
LEMMA LowBytesRounded ==
    ASSUME NEW z \in FarZone, NEW root \in FarRoot(z), root + 1 \in FarRoot(z),
           NEW o \in Offset, NEW S,
           \A t \in S : \E r \in {root, root + 1}, e \in Nudge : t = Stretched(r, z, o, e),
           NEW v \in LowBytes(S)
    PROVE  /\ v \in 0 .. 255
           /\ Rounded(v - 127, o, Unit(root, z), LowGain(root, z), HighGain(root, z))
<1> DEFINE lo == LowGain(root, z)
           hi == HighGain(root, z)
           unit == Unit(root, z)
<1>1. PICK a \in S, b \in S, w \in Int : a <= w /\ w <= b /\ v = w % 256
  <2> DEFINE Intervals == {a .. b : a \in S, b \in S}
  <2>1. PICK w \in UNION Intervals : v = w % 256
    BY DEF LowBytes
  <2>2. PICK I \in Intervals : w \in I
    <3> HIDE DEF Intervals
    <3> QED
      BY <2>1
  <2>3. PICK a \in S, b \in S : I = a .. b
    BY <2>2
  <2> QED
    BY <2>1, <2>2, <2>3
<1>2. ASSUME NEW t \in S PROVE t \in 0 .. 255 /\ Rounded(t - 127, o, unit, lo, hi)
  <2>1. PICK r \in {root, root + 1}, e \in Nudge : t = Stretched(r, z, o, e)
    OBVIOUS
  <2> QED
    BY <2>1, StretchedRounded
<1>3. w \in 0 .. 255 /\ a \in 0 .. 255 /\ b \in 0 .. 255 /\ a <= w /\ w <= b
  BY <1>1, <1>2
<1>4. v = w
  BY <1>1, <1>3
<1>5. unit \in Nat /\ lo \in Nat /\ hi \in Nat
  BY UnitBounds
<1> HIDE DEF unit, lo, hi
<1>6. (a - 127) * unit <= (w - 127) * unit /\ (w - 127) * unit <= (b - 127) * unit
  BY <1>3, <1>5, ProductMonotone
<1>7. /\ (a - 127) * unit \in Int /\ (w - 127) * unit \in Int /\ (b - 127) * unit \in Int
      /\ o * lo \in Int /\ o * hi \in Int
  BY <1>3, <1>5 DEF Offset
<1>8. Rounded(w - 127, o, unit, lo, hi)
  BY <1>2, <1>5, <1>6, <1>7 DEF Rounded, Offset
<1> QED
  BY <1>3, <1>4, <1>8 DEF unit, lo, hi

\* The smaller of two numbers, if its square is the smaller.
LEMMA RootMonotone ==
    ASSUME NEW a \in Nat, NEW b \in Nat, a * a < b * b
    PROVE  a < b
<1> SUFFICES ASSUME b <= a PROVE FALSE
  OBVIOUS
<1>1. b * b <= a * b /\ b * a <= a * a /\ a * b = b * a
  BY ProductMonotone
<1> QED
  BY <1>1

\* A rounded deflection has the direction of what it rounds and exceeds it by at most one,
\* and either gain gives it but for the rounding and half of what the gains differ by.
LEMMA RoundedDeflection ==
    ASSUME NEW q \in Int, NEW o \in Int, NEW unit \in Nat, NEW lo \in Nat, NEW hi \in Nat,
           unit > 0, lo <= hi, hi <= unit, Rounded(q, o, unit, lo, hi)
    PROVE  /\ q * o >= -Magnitude(o)
           /\ Magnitude(q) <= Magnitude(o) + 1
           /\ Magnitude(2 * (q * unit) - o * (lo + hi))
                <= Magnitude(o) * (hi - lo) + 2 * unit
<1>1. CASE o >= 0
  <2>1. o * lo - unit <= q * unit /\ q * unit <= o * hi + unit
    BY <1>1 DEF Rounded
  <2>2. 0 <= o * lo /\ o * hi <= o * unit /\ o * lo \in Int /\ o * hi \in Int
    BY <1>1, ProductMonotone
  <2>3. (-1) * unit <= q * unit /\ q * unit <= (o + 1) * unit
    BY <1>1, <2>1, <2>2
  <2>4. -1 <= q /\ q <= o + 1
    <3>1. ~(q * unit < (-1) * unit) /\ ~((o + 1) * unit < q * unit)
      BY <2>3
    <3>2. \A a \in Int, b \in Int : a < b => a * unit < b * unit
      <4> SUFFICES ASSUME NEW a \in Int, NEW b \in Int, a < b PROVE a * unit < b * unit
        OBVIOUS
      <4>1. (a + 1) * unit <= b * unit /\ (a + 1) * unit = a * unit + unit
        BY ProductMonotone
      <4> QED
        BY <4>1
    <3> QED
      BY <3>1, <3>2
  <2>5. q * o >= -o
    BY <1>1, <2>4
  <2>6. /\ 2 * (q * unit) - o * (lo + hi) <= o * (hi - lo) + 2 * unit
        /\ -(2 * (q * unit) - o * (lo + hi)) <= o * (hi - lo) + 2 * unit
    <3>1. o * (lo + hi) = o * lo + o * hi /\ o * (hi - lo) = o * hi - o * lo
      OBVIOUS
    <3> QED
      BY <2>1, <2>2, <3>1
  <2> QED
    BY <1>1, <2>4, <2>5, <2>6 DEF Magnitude
<1>2. CASE o < 0
  <2>1. o * hi - unit <= q * unit /\ q * unit <= o * lo + unit
    BY <1>2 DEF Rounded
  <2>2. o * lo <= 0 /\ o * unit <= o * hi /\ o * lo \in Int /\ o * hi \in Int
    <3>1. (-o) * hi <= (-o) * unit /\ 0 <= (-o) * lo
      BY <1>2, ProductMonotone
    <3>2. (-o) * hi = -(o * hi) /\ (-o) * unit = -(o * unit) /\ (-o) * lo = -(o * lo)
      OBVIOUS
    <3> QED
      BY <3>1, <3>2
  <2>3. (o - 1) * unit <= q * unit /\ q * unit <= 1 * unit
    BY <1>2, <2>1, <2>2
  <2>4. o - 1 <= q /\ q <= 1
    <3>1. ~(q * unit < (o - 1) * unit) /\ ~(1 * unit < q * unit)
      BY <2>3
    <3>2. \A a \in Int, b \in Int : a < b => a * unit < b * unit
      <4> SUFFICES ASSUME NEW a \in Int, NEW b \in Int, a < b PROVE a * unit < b * unit
        OBVIOUS
      <4>1. (a + 1) * unit <= b * unit /\ (a + 1) * unit = a * unit + unit
        BY ProductMonotone
      <4> QED
        BY <4>1
    <3> QED
      BY <3>1, <3>2
  <2>5. q * o >= o
    <3>1. q * (-o) <= 1 * (-o) /\ q * (-o) = -(q * o)
      BY <1>2, <2>4, ProductMonotone
    <3> QED
      BY <3>1
  <2>6. /\ 2 * (q * unit) - o * (lo + hi) <= (-o) * (hi - lo) + 2 * unit
        /\ -(2 * (q * unit) - o * (lo + hi)) <= (-o) * (hi - lo) + 2 * unit
    <3>1. o * (lo + hi) = o * lo + o * hi /\ (-o) * (hi - lo) = o * lo - o * hi
      OBVIOUS
    <3> QED
      BY <2>1, <2>2, <3>1
  <2> QED
    BY <1>2, <2>4, <2>5, <2>6 DEF Magnitude
<1> QED
  BY <1>1, <1>2

\* Two coordinates rounded from the same gains keep their ratio, but for the rounding and
\* what the gains differ by.
LEMMA RoundedRatio ==
    ASSUME NEW q1 \in Int, NEW q2 \in Int, NEW o1 \in Int, NEW o2 \in Int,
           NEW unit \in Nat, NEW sum \in Nat, NEW diff \in Nat, unit > 0,
           Magnitude(2 * (q1 * unit) - o1 * sum) <= Magnitude(o1) * diff + 2 * unit,
           Magnitude(2 * (q2 * unit) - o2 * sum) <= Magnitude(o2) * diff + 2 * unit,
           16 * ((Magnitude(o1) * Magnitude(o2)) * diff)
             <= (Magnitude(o1) + Magnitude(o2)) * unit
    PROVE  16 * Magnitude(q1 * o2 - q2 * o1) <= 17 * (Magnitude(o1) + Magnitude(o2))
<1> DEFINE e1 == 2 * (q1 * unit) - o1 * sum
           e2 == 2 * (q2 * unit) - o2 * sum
           a1 == Magnitude(o1)
           a2 == Magnitude(o2)
           b1 == a1 * diff + 2 * unit
           b2 == a2 * diff + 2 * unit
           x == q1 * o2 - q2 * o1
<1>1. e1 \in Int /\ e2 \in Int /\ x \in Int
  OBVIOUS
<1>2. a1 \in Nat /\ a2 \in Nat
  BY DEF Magnitude
<1>3. /\ -b1 <= e1 /\ e1 <= b1 /\ -b2 <= e2 /\ e2 <= b2 /\ b1 \in Nat /\ b2 \in Nat
  <2>1. b1 \in Nat /\ b2 \in Nat
    BY <1>2
  <2> HIDE DEF e1, e2, a1, a2
  <2>2. Magnitude(e1) <= b1 /\ Magnitude(e2) <= b2
    BY DEF e1, e2, a1, a2
  <2> HIDE DEF b1, b2
  <2> QED
    BY <1>1, <2>1, <2>2 DEF Magnitude
<1>4. e1 * o2 - e2 * o1 = 2 * (x * unit)
  <2>1. e1 * o2 = 2 * ((q1 * o2) * unit) - (o1 * o2) * sum
    OBVIOUS
  <2>2. e2 * o1 = 2 * ((q2 * o1) * unit) - (o1 * o2) * sum
    OBVIOUS
  <2>3. x * unit = (q1 * o2) * unit - (q2 * o1) * unit
    OBVIOUS
  <2>4. (q1 * o2) * unit \in Int /\ (q2 * o1) * unit \in Int /\ (o1 * o2) * sum \in Int
    OBVIOUS
  <2> HIDE DEF e1, e2, x
  <2> QED
    BY <2>1, <2>2, <2>3, <2>4
\* A product of numbers of bounded magnitude.
<1>5. ASSUME NEW e \in Int, NEW o \in Int, NEW b \in Nat, -b <= e, e <= b
      PROVE  -(b * Magnitude(o)) <= e * o /\ e * o <= b * Magnitude(o)
  <2>1. CASE o >= 0
    <3>1. e * o <= b * o /\ (-b) * o <= e * o /\ (-b) * o = -(b * o)
      BY <1>5, <2>1, ProductMonotone
    <3> QED
      BY <2>1, <3>1 DEF Magnitude
  <2>2. CASE o < 0
    <3>1. e * (-o) <= b * (-o) /\ (-b) * (-o) <= e * (-o)
      BY <1>5, <2>2, ProductMonotone
    <3>2. e * (-o) = -(e * o) /\ (-b) * (-o) = -(b * (-o)) /\ e * o \in Int
          /\ b * (-o) \in Int
      OBVIOUS
    <3> QED
      BY <2>2, <3>1, <3>2 DEF Magnitude
  <2> QED
    BY <2>1, <2>2
<1>6. -(b1 * a2) <= e1 * o2 /\ e1 * o2 <= b1 * a2 /\ -(b2 * a1) <= e2 * o1 /\ e2 * o1 <= b2 * a1
  <2> HIDE DEF e1, e2, b1, b2
  <2> QED
    BY <1>1, <1>3, <1>5
<1>7. b1 * a2 + b2 * a1 = 2 * ((a1 * a2) * diff) + 2 * ((a1 + a2) * unit)
  <2> HIDE DEF a1, a2
  <2>1. b1 * a2 = (a1 * a2) * diff + 2 * (a2 * unit)
    BY <1>2
  <2>2. b2 * a1 = (a1 * a2) * diff + 2 * (a1 * unit)
    BY <1>2
  <2>3. (a1 + a2) * unit = a1 * unit + a2 * unit
    BY <1>2
  <2>4. (a1 * a2) * diff \in Nat /\ a1 * unit \in Nat /\ a2 * unit \in Nat
    BY <1>2
  <2> HIDE DEF b1, b2
  <2> QED
    BY <2>1, <2>2, <2>3, <2>4
<1> HIDE DEF e1, e2, b1, b2, x, a1, a2
<1>8. /\ x * unit <= (a1 * a2) * diff + (a1 + a2) * unit
      /\ -(x * unit) <= (a1 * a2) * diff + (a1 + a2) * unit
  <2>1. x * unit \in Int /\ (a1 * a2) * diff \in Int /\ (a1 + a2) * unit \in Int
    BY <1>1, <1>2
  <2>2. e1 * o2 \in Int /\ e2 * o1 \in Int /\ b1 * a2 \in Int /\ b2 * a1 \in Int
    BY <1>1, <1>2, <1>3
  <2> QED
    BY <1>4, <1>6, <1>7, <2>1, <2>2
<1>9. (16 * x) * unit <= (17 * (a1 + a2)) * unit /\ (-(16 * x)) * unit <= (17 * (a1 + a2)) * unit
  <2>1. 16 * ((a1 * a2) * diff) <= (a1 + a2) * unit
    BY DEF a1, a2
  <2>2. x * unit \in Int /\ (a1 * a2) * diff \in Int /\ (a1 + a2) * unit \in Int
    BY <1>1, <1>2
  <2>3. (16 * x) * unit = 16 * (x * unit) /\ (-(16 * x)) * unit = -(16 * (x * unit))
        /\ (17 * (a1 + a2)) * unit = 17 * ((a1 + a2) * unit)
    BY <1>1, <1>2
  <2> QED
    BY <1>8, <2>1, <2>2, <2>3
<1>10. 16 * x <= 17 * (a1 + a2) /\ -(16 * x) <= 17 * (a1 + a2)
  <2>1. \A a \in Int, b \in Int : a * unit <= b * unit => a <= b
    <3> SUFFICES ASSUME NEW a \in Int, NEW b \in Int, b < a PROVE b * unit < a * unit
      OBVIOUS
    <3>1. (b + 1) * unit <= a * unit /\ (b + 1) * unit = b * unit + unit
      BY ProductMonotone
    <3> QED
      BY <3>1
  <2> QED
    BY <1>1, <1>2, <1>9, <2>1
<1>11. 16 * Magnitude(x) <= 17 * (a1 + a2)
  BY <1>1, <1>10 DEF Magnitude
<1> QED
  BY <1>11 DEF x, a1, a2

\* The gains differ by little enough.
LEMMA GainsClose ==
    ASSUME NEW a \in Nat, NEW b \in Nat, NEW z \in FarZone, NEW root \in FarRoot(z),
           root + 1 \in FarRoot(z), z * z <= a * a + b * b,
           root * root <= 1024 * (a * a + b * b),
           1024 * (a * a + b * b) < (root + 1) * (root + 1)
    PROVE  16 * ((a * b) * (8160 * z)) <= (a + b) * Unit(root, z)
<1> DEFINE d == a * a + b * b
           m == a + b
           k == 255 - z
           s == root * (root + 1)
<1>1. /\ z \in 35 .. 254 /\ root \in Nat /\ 32 * z <= root /\ root <= 6064
      /\ d \in Nat /\ m \in Nat
  BY DEF FarZone, FarRoot, DefaultDeadzone, Scale
<1>2. a * b \in Nat /\ 2 * (a * b) <= d
  <2>1. (a - b) * (a - b) >= 0 /\ (a - b) * (a - b) = d - 2 * (a * b)
    OBVIOUS
  <2> QED
    BY <2>1
<1>3. z <= m
  <2>1. m * m = d + 2 * (a * b)
    OBVIOUS
  <2>2. z * z <= m * m
    BY <1>1, <1>2, <2>1
  <2>3. m < z => m * m < z * z
    BY <1>1, SquareMonotone DEF Magnitude
  <2> HIDE DEF m
  <2> QED
    BY <1>1, <2>2, <2>3
<1> HIDE DEF d, m
<1>4. s \in Nat /\ 1023 * d <= s
  <2>1. 1120 * root <= root * root /\ root * root <= 1024 * d
    BY <1>1, ProductMonotone DEF d
  <2>2. 1024 * d < (root + 1) * (root + 1)
    BY DEF d
  <2>3. (root + 1) * (root + 1) = root * root + 2 * root + 1 /\ s = root * root + root
    BY <1>1
  <2>4. root * root \in Nat
    BY <1>1
  <2> QED
    BY <1>1, <2>1, <2>2, <2>3, <2>4
<1>5. k \in Nat /\ k >= 66
  BY <1>1
<1> HIDE DEF s, k
<1>6. 65280 * d <= s * k
  <2>1. (1023 * d) * k <= s * k
    BY <1>1, <1>4, <1>5, ProductMonotone
  <2>2. 66 * (1023 * d) <= k * (1023 * d) /\ k * (1023 * d) = (1023 * d) * k
    BY <1>1, <1>5, ProductMonotone
  <2> QED
    BY <1>1, <1>4, <1>5, <2>1, <2>2
<1>7. (s * k) * z <= (s * k) * m
  BY <1>1, <1>3, <1>4, <1>5, ProductMonotone
<1>8. (65280 * d) * z <= (s * k) * z
  BY <1>1, <1>4, <1>5, <1>6, ProductMonotone
<1>9. (2 * (a * b)) * z <= d * z
  BY <1>1, <1>2, ProductMonotone
<1>10. Unit(root, z) = s * k
  BY <1>1 DEF Unit, s, k
<1>11. 16 * ((a * b) * (8160 * z)) = 65280 * ((2 * (a * b)) * z)
       /\ (65280 * d) * z = 65280 * (d * z) /\ (s * k) * m = m * (s * k)
  BY <1>1, <1>2, <1>4, <1>5
<1>12. (2 * (a * b)) * z \in Nat /\ d * z \in Nat /\ (s * k) * z \in Nat /\ m * (s * k) \in Nat
  BY <1>1, <1>2, <1>4, <1>5
<1>13. 16 * ((a * b) * (8160 * z)) <= m * (s * k)
  BY <1>7, <1>8, <1>9, <1>11, <1>12
<1> QED
  BY <1>10, <1>13 DEF m

\* What the linear handler reports of a stick's coordinate that lies o from its centre.
LEMMA AxisRounded ==
    ASSUME NEW z \in FarZone, NEW dist2 \in Nat, NEW o \in Offset,
           Root(1024 * dist2) \in FarRoot(z), Root(1024 * dist2) + 1 \in FarRoot(z),
           NEW v \in ScaledAxis(o, dist2, z)
    PROVE  /\ v \in 0 .. 255
           /\ Rounded(v - 127, o, Unit(Root(1024 * dist2), z),
                      LowGain(Root(1024 * dist2), z), HighGain(Root(1024 * dist2), z))
<1> DEFINE n == 1024 * dist2
           root == Root(n)
           roots == IF root * root = n THEN {root} ELSE {root, root + 1}
           T == {Toward0(127 * r * (255 - z) + 255 * o * (r - Scale * z) + e,
                         r * (255 - z)) : r \in roots, e \in {-1, 1}}
<1>1. CASE o = 0
  <2>1. v = 127
    BY <1>1 DEF ScaledAxis
  <2>2. /\ Unit(root, z) \in Nat /\ LowGain(root, z) \in Nat /\ HighGain(root, z) \in Nat
    BY UnitBounds
  <2> HIDE DEF root
  <2>3. Rounded(0, 0, Unit(root, z), LowGain(root, z), HighGain(root, z))
    BY <2>2 DEF Rounded
  <2> QED
    BY <1>1, <2>1, <2>3 DEF root
<1>2. CASE o # 0
  <2>1. Scale * Scale * dist2 = n
    BY DEF Scale
  <2>2. v \in LowBytes(T)
    BY <1>2, <2>1 DEF ScaledAxis
  <2>3. ASSUME NEW t \in T
        PROVE  \E r \in {root, root + 1}, e \in Nudge : t = Stretched(r, z, o, e)
    <3>1. PICK r \in roots, e \in {-1, 1} :
              t = Toward0(127 * r * (255 - z) + 255 * o * (r - Scale * z) + e, r * (255 - z))
      OBVIOUS
    <3>2. r \in {root, root + 1} /\ e \in Nudge
      <4> HIDE DEF root, n
      <4> QED
        BY DEF Nudge
    <3> QED
      BY <3>1, <3>2 DEF Stretched
  <2> HIDE DEF T, n
  <2>4. root \in FarRoot(z) /\ root + 1 \in FarRoot(z)
    BY DEF n
  <2> HIDE DEF root
  <2>5. /\ v \in 0 .. 255
        /\ Rounded(v - 127, o, Unit(root, z), LowGain(root, z), HighGain(root, z))
    BY <2>2, <2>3, <2>4, LowBytesRounded
  <2> QED
    BY <2>5 DEF root, n
<1> QED
  BY <1>1, <1>2

\* The distance of a centred stick outside its deadzone.
LEMMA FarDistance ==
    ASSUME NEW z \in 35 .. 255, NEW o1 \in Offset, NEW o2 \in Offset,
           ~(o1 * o1 + o2 * o2 < z * z)
    PROVE  LET n == 1024 * (o1 * o1 + o2 * o2)
           IN /\ z \in FarZone /\ Root(n) \in FarRoot(z) /\ Root(n) + 1 \in FarRoot(z)
              /\ Root(n) * Root(n) <= n /\ n < (Root(n) + 1) * (Root(n) + 1)
<1> DEFINE d == o1 * o1 + o2 * o2
           n == 1024 * d
           root == Root(n)
<1>1. /\ o1 * o1 \in Nat /\ o1 * o1 <= 17956 /\ o2 * o2 \in Nat /\ o2 * o2 <= 17956
  <2>1. \A o \in -134 .. 134 : o * o \in Nat /\ o * o < 135 * 135 /\ o * o <= 17956
    <3> SUFFICES ASSUME NEW o \in -134 .. 134 PROVE o * o \in Nat /\ o * o <= 17956
      OBVIOUS
    <3>1. CASE o >= 0
      <4>1. o * o <= 134 * o
        BY <3>1, ProductMonotone
      <4> QED
        BY <3>1, <4>1
    <3>2. CASE o < 0
      <4>1. (-o) * (-o) <= 134 * (-o) /\ (-o) * (-o) = o * o
        BY <3>2, ProductMonotone
      <4> QED
        BY <3>2, <4>1
    <3> QED
      BY <3>1, <3>2
  <2> QED
    BY <2>1 DEF Offset
<1>2. d \in Nat /\ d <= 35912 /\ n \in Nat /\ n <= 36773888 /\ z * z <= d
  <2>1. z * z \in Int
    OBVIOUS
  <2> QED
    BY <1>1, <2>1
<1> HIDE DEF d
<1>3. root \in Nat /\ root * root <= n /\ n < (root + 1) * (root + 1)
  <2> HIDE DEF n
  <2> QED
    BY <1>2, RootIsRoot
<1> HIDE DEF root
<1>4. root <= 6064
  <2>1. root * root < 6065 * 6065
    BY <1>2, <1>3
  <2> QED
    BY <1>3, <2>1, RootMonotone
<1>5. 32 * z <= root
  <2>1. (32 * z) * (32 * z) = 1024 * (z * z) /\ z * z \in Int
    OBVIOUS
  <2>2. (32 * z) * (32 * z) < (root + 1) * (root + 1)
    <3>1. (root + 1) * (root + 1) \in Int
      BY <1>3
    <3> QED
      BY <1>2, <1>3, <2>1, <3>1
  <2>3. 32 * z < root + 1
    BY <1>3, <2>2, RootMonotone
  <2> QED
    BY <1>3, <2>3
<1>6. z \in FarZone
  BY <1>4, <1>5, <1>3 DEF FarZone, DefaultDeadzone
<1>7. root \in FarRoot(z) /\ root + 1 \in FarRoot(z)
  BY <1>3, <1>4, <1>5 DEF FarRoot, Scale
<1> QED
  BY <1>3, <1>6, <1>7 DEF root, d

\* The deflection of a stick that is centred near the middle.
LEMMA CentredAxis ==
    ASSUME NEW axis \in Byte \X Byte, NEW center \in Byte \X Byte, NEW z \in 35 .. 255,
           \A i \in {1, 2} : center[i] \in 121 .. 132,
           NEW out \in LinearAxis(axis, center, z)
    PROVE  LET o == [i \in {1, 2} |-> axis[i] - center[i]]
               r == [i \in {1, 2} |-> out[i] - NeutralAxis[i]]
           IN /\ 16 * Magnitude(r[1] * o[2] - r[2] * o[1])
                   <= 17 * (Magnitude(o[1]) + Magnitude(o[2]))
              /\ \A i \in {1, 2} : /\ r[i] * o[i] >= -Magnitude(o[i])
                                   /\ Magnitude(r[i]) <= Magnitude(o[i]) + 1
<1> DEFINE o1 == axis[1] - center[1]
           o2 == axis[2] - center[2]
           q1 == out[1] - 127
           q2 == out[2] - 127
           d == o1 * o1 + o2 * o2
           n == 1024 * d
           root == Root(n)
<1> SUFFICES /\ 16 * Magnitude(q1 * o2 - q2 * o1) <= 17 * (Magnitude(o1) + Magnitude(o2))
             /\ q1 * o1 >= -Magnitude(o1) /\ Magnitude(q1) <= Magnitude(o1) + 1
             /\ q2 * o2 >= -Magnitude(o2) /\ Magnitude(q2) <= Magnitude(o2) + 1
  BY DEF NeutralAxis
<1>1. o1 \in Offset /\ o2 \in Offset
  <2>1. /\ axis[1] \in 0 .. 255 /\ axis[2] \in 0 .. 255
        /\ center[1] \in 121 .. 132 /\ center[2] \in 121 .. 132
    BY DEF Byte
  <2> QED
    BY <2>1 DEF Offset
<1>2. Dist2(axis, center) = d
  BY DEF Dist2
<1> HIDE DEF o1, o2
<1>3. CASE d < z * z
  <2>1. out = <<127, 127>>
    BY <1>2, <1>3 DEF LinearAxis, NeutralAxis
  <2>2. q1 = 0 /\ q2 = 0
    BY <2>1
  <2>3. q1 * o2 - q2 * o1 = 0 /\ q1 * o1 = 0 /\ q2 * o2 = 0
    BY <1>1, <2>2 DEF Offset
  <2>4. Magnitude(0) = 0 /\ Magnitude(o1) >= 0 /\ Magnitude(o1) \in Int
        /\ Magnitude(o2) >= 0 /\ Magnitude(o2) \in Int
    BY <1>1 DEF Magnitude, Offset
  <2> HIDE DEF q1, q2
  <2> QED
    BY <2>2, <2>3, <2>4
<1>4. CASE ~(d < z * z)
  <2>1. /\ z \in FarZone /\ root \in FarRoot(z) /\ root + 1 \in FarRoot(z)
        /\ root * root <= n /\ n < (root + 1) * (root + 1)
    BY <1>1, <1>4, FarDistance
  <2>2. d \in Nat /\ d # 0 /\ z # 255 /\ z * z <= d
    <3>1. o1 * o1 \in Nat /\ o2 * o2 \in Nat /\ z * z \in Nat /\ z * z > 0
      BY <1>1 DEF Offset
    <3> QED
      BY <1>4, <2>1, <3>1 DEF FarZone
  <2>3. out[1] \in ScaledAxis(o1, d, z) /\ out[2] \in ScaledAxis(o2, d, z)
    BY <1>2, <1>4, <2>2 DEF LinearAxis, o1, o2
  <2> DEFINE unit == Unit(root, z)
             lo == LowGain(root, z)
             hi == HighGain(root, z)
  <2>4. /\ out[1] \in 0 .. 255 /\ Rounded(q1, o1, unit, lo, hi)
        /\ out[2] \in 0 .. 255 /\ Rounded(q2, o2, unit, lo, hi)
    <3> HIDE DEF d
    <3> QED
      BY <1>1, <2>1, <2>2, <2>3, AxisRounded
  <2>5. /\ unit \in Nat /\ unit > 0 /\ lo \in Nat /\ hi \in Nat /\ hi = lo + 8160 * z
        /\ lo <= unit /\ hi <= unit
    <3> HIDE DEF root
    <3> QED
      BY <2>1, UnitBounds
  <2>6. q1 \in Int /\ q2 \in Int /\ o1 \in Int /\ o2 \in Int
    BY <1>1, <2>4 DEF Offset
  <2>7. hi - lo = 8160 * z /\ lo <= hi /\ 8160 * z \in Nat /\ lo + hi \in Nat
    <3> HIDE DEF lo, hi
    <3> QED
      BY <2>5
  <2>8. 16 * ((Magnitude(o1) * Magnitude(o2)) * (8160 * z))
          <= (Magnitude(o1) + Magnitude(o2)) * unit
    <3> DEFINE a == Magnitude(o1)
               b == Magnitude(o2)
    <3>1. \A o \in Int : Magnitude(o) \in Nat /\ Magnitude(o) * Magnitude(o) = o * o
      BY DEF Magnitude
    <3>2. a \in Nat /\ b \in Nat /\ a * a + b * b = d
      BY <2>6, <3>1
    <3> HIDE DEF a, b, d
    <3>3. /\ z * z <= a * a + b * b
          /\ root * root <= 1024 * (a * a + b * b)
          /\ 1024 * (a * a + b * b) < (root + 1) * (root + 1)
      BY <2>1, <2>2, <3>2
    <3> HIDE DEF root
    <3>4. 16 * ((a * b) * (8160 * z)) <= (a + b) * Unit(root, z)
      BY <2>1, <3>2, <3>3, GainsClose
    <3> QED
      BY <3>4 DEF a, b, root
  <2> HIDE DEF q1, q2, unit, lo, hi, d
  <2>9. /\ q1 * o1 >= -Magnitude(o1) /\ Magnitude(q1) <= Magnitude(o1) + 1
        /\ Magnitude(2 * (q1 * unit) - o1 * (lo + hi)) <= Magnitude(o1) * (8160 * z) + 2 * unit
    BY <2>4, <2>5, <2>6, <2>7, RoundedDeflection
  <2>10. /\ q2 * o2 >= -Magnitude(o2) /\ Magnitude(q2) <= Magnitude(o2) + 1
         /\ Magnitude(2 * (q2 * unit) - o2 * (lo + hi)) <= Magnitude(o2) * (8160 * z) + 2 * unit
    BY <2>4, <2>5, <2>6, <2>7, RoundedDeflection
  <2>11. 16 * Magnitude(q1 * o2 - q2 * o1) <= 17 * (Magnitude(o1) + Magnitude(o2))
    <3> DEFINE sum == lo + hi
               diff == 8160 * z
    <3>1. /\ Magnitude(2 * (q1 * unit) - o1 * sum) <= Magnitude(o1) * diff + 2 * unit
          /\ Magnitude(2 * (q2 * unit) - o2 * sum) <= Magnitude(o2) * diff + 2 * unit
          /\ 16 * ((Magnitude(o1) * Magnitude(o2)) * diff)
                <= (Magnitude(o1) + Magnitude(o2)) * unit
          /\ sum \in Nat /\ diff \in Nat /\ unit \in Nat /\ unit > 0
      BY <2>5, <2>7, <2>8, <2>9, <2>10
    <3> HIDE DEF sum, diff
    <3> QED
      BY <2>6, <3>1, RoundedRatio
  <2> QED
    BY <2>9, <2>10, <2>11
<1> QED
  BY <1>3, <1>4

-----------------------------------------------------------------------------
(* Types, as far as the proofs need them.                                  *)

\* What a controller or an empty port sends has a value of the right kind for each knob.
LEMMA InputTyped ==
    ASSUME NEW input \in Data, NEW k \in Knob
    PROVE  input[k] \in Value(k) /\ input # NoController
<1>0. input # NoController
  BY NoControllerAssumption DEF NoControllerAssumption, Data
<1>1. ASSUME input = Zero PROVE input[k] \in Value(k)
  <2>1. input[k] = IF k \in Stick THEN <<0, 0>> ELSE <<0>>
    BY <1>1 DEF Zero
  <2>2. 0 \in Byte
    BY DEF Byte
  <2>3. CASE k \in Stick
    BY <2>1, <2>2, <2>3 DEF Value
  <2>4. CASE k \notin Stick
    BY <2>1, <2>2, <2>4 DEF Value
  <2> QED
    BY <2>3, <2>4
<1>2. ASSUME NEW rest \in RestInput, input \in InputOf(rest) PROVE input[k] \in Value(k)
  <2>1. DOMAIN rest = Knob /\ \A j \in Knob : rest[j] \in Value(j)
    BY InputAssumption DEF InputAssumption
  <2>2. CASE input = rest
    BY <2>1, <2>2
  <2>3. ASSUME NEW j \in Knob, NEW p \in Pushed[j], input = [rest EXCEPT ![j] = p]
        PROVE  input[k] \in Value(k)
    <3>1. p \in Value(j)
      BY InputAssumption DEF InputAssumption
    <3> QED
      BY <2>1, <2>3, <3>1
  <2>4. input = rest \/ \E j \in Knob : \E p \in Pushed[j] : input = [rest EXCEPT ![j] = p]
    BY <1>2 DEF InputOf
  <2> QED
    BY <2>2, <2>3, <2>4
<1> QED
  BY <1>0, <1>1, <1>2 DEF Data, Input

\* A controller at rest sends an input.
LEMMA RestIsInput == RestInput \subseteq Input
BY DEF Input, InputOf

DataInv ==
    /\ plugged \in RestInput \cup {NoController}
    /\ adapterData \in Input \cup {NoController}
    /\ adapterData = NoController <=> plugged = NoController
    /\ calibrationData \in Data
    /\ snap \in [Caller -> Data \cup {NoController}]
    /\ lastControllerState \in BOOLEAN
    /\ session \in Session
    /\ reader \in {"idle", "build", "complete"}

\* What a knob that the linear handler processed became.
ReportInv ==
    report.function = "linear" =>
        /\ reader = "complete"
        /\ report.knob \in Knob
        /\ report.value \in Value(report.knob)
        /\ report.center \in Value(report.knob)
        /\ report.deadzone \in Byte
        /\ report.out \in IF report.knob \in Stick
                          THEN LinearAxis(report.value, report.center, report.deadzone)
                          ELSE LinearShoulder(report.value, report.center, report.deadzone)

Untouched0 == plugged # NoController /\ ~session.touched

\* An empty port is reported before another controller comes, so that its first report
\* calibrates it; from then on the centre is its own, also in the copies of the callers
\* that began after it came.
CenterInv ==
    /\ plugged = NoController /\ reader # "build" => ~lastControllerState
    /\ plugged # NoController /\ reader = "build" /\ ~session.reported => ~lastControllerState
    /\ plugged # NoController /\ reader = "idle" => session.reported
    /\ session.reported => plugged # NoController
    /\ Untouched0 => adapterData = plugged
    /\ Untouched0 => \A c \in Caller \ early : snap[c] \in {NoController, plugged}
    /\ Untouched0 /\ (session.reported \/ reader = "complete") /\ ~session.overwritten =>
           calibrationData = plugged
    /\ Untouched0 /\ session.reported /\ ~session.overwritten
         /\ report.function = "linear" =>
           /\ report.center = plugged[report.knob]
           /\ report.value = RawOf(plugged, report.knob)

DeadzoneInv == DataInv /\ ReportInv /\ CenterInv

-----------------------------------------------------------------------------
\* The invariant holds initially.
LEMMA InitInv ==
    ASSUME Init
    PROVE  DeadzoneInv
<1>1. DataInv
  <2>1. session \in Session
    BY DEF Init, NewSession, Session
  <2>2. lastControllerState \in BOOLEAN
    BY DEF Init
  <2> QED
    BY <2>1, <2>2 DEF Init, DataInv, Data
<1>2. ReportInv
  BY DEF Init, ReportInv, NoReport
<1>3. CenterInv
  BY DEF Init, CenterInv, Untouched0, NewSession, NoReport
<1> QED
  BY <1>1, <1>2, <1>3 DEF DeadzoneInv

\* A packet preserves the invariant: an exchange of controllers begins a new session.
LEMMA ReadStep ==
    ASSUME DeadzoneInv, NEW now \in RestInput \cup {NoController},
           NEW data \in Input \cup {NoController}, ReadComplete(now, data)
    PROVE  DeadzoneInv'
<1> DEFINE current == IF now = plugged THEN session ELSE NewSession
<1>1. /\ reader = "idle" /\ reader' = "build"
      /\ now = plugged \/ now = NoController \/ plugged = NoController
      /\ data \in IF now = NoController THEN {NoController} ELSE InputOf(now)
      /\ adapterData' = data /\ plugged' = now
      /\ session' = [current EXCEPT !.touched = @ \/ data # now]
      /\ early' = IF now = plugged THEN early ELSE {c \in Caller : snap[c] # NoController}
      /\ UNCHANGED <<calibrationData, lastControllerState, report, snap>>
  BY DEF ReadComplete
<1>2. current \in Session
  BY DEF DeadzoneInv, DataInv, NewSession, Session
<1>3. /\ session' \in Session
      /\ session'.reported = current.reported
      /\ session'.overwritten = current.overwritten
      /\ session'.touched = (current.touched \/ data # now)
  BY <1>1, <1>2 DEF Session
<1>4. now # NoController => data # NoController
  BY <1>1, NoControllerAssumption DEF NoControllerAssumption, Input
<1>5. report.function # "linear"
  BY <1>1 DEF DeadzoneInv, ReportInv
<1>6. DataInv'
  BY <1>1, <1>3, <1>4 DEF DeadzoneInv, DataInv
<1>7. ReportInv'
  BY <1>1, <1>5 DEF ReportInv
<1>8. CASE now = plugged
  <2>1. current = session /\ early' = early
    BY <1>1, <1>8
  <2>2. ~session'.touched => data = now /\ ~session.touched
    BY <1>3, <2>1
  <2> QED
    BY <1>1, <1>3, <1>5, <1>6, <1>7, <1>8, <2>1, <2>2
    DEF DeadzoneInv, CenterInv, Untouched0
<1>9. CASE now # plugged
  <2>1. ~session'.reported /\ (~session'.touched => data = now)
    BY <1>3, <1>9 DEF NewSession
  <2>2. now # NoController => ~lastControllerState
    BY <1>1, <1>9 DEF DeadzoneInv, CenterInv
  <2>3. \A c \in Caller \ early' : snap'[c] = NoController
    BY <1>1, <1>9
  <2> QED
    BY <1>1, <1>5, <1>6, <1>7, <2>1, <2>2, <2>3 DEF DeadzoneInv, CenterInv, Untouched0
<1> QED
  BY <1>8, <1>9

\* The report of an empty port preserves the invariant.
LEMMA NeutralStep ==
    ASSUME DeadzoneInv, BuildNeutral
    PROVE  DeadzoneInv'
<1>1. /\ adapterData = NoController /\ report' = NoReport /\ lastControllerState' = FALSE
      /\ reader' = "complete"
      /\ UNCHANGED <<adapterData, calibrationData, snap, plugged, session, early>>
  BY DEF BuildNeutral, historyVars
<1>2. plugged = NoController
  BY <1>1 DEF DeadzoneInv, DataInv
<1>3. lastControllerState' \in BOOLEAN
  BY <1>1
<1>4. DataInv' /\ ReportInv'
  BY <1>1, <1>3 DEF DeadzoneInv, DataInv, ReportInv, NoReport
<1>5. CenterInv'
  BY <1>1, <1>2 DEF DeadzoneInv, CenterInv, Untouched0
<1> QED
  BY <1>4, <1>5 DEF DeadzoneInv

\* The report of a plugged port preserves the invariant: it is made from the centre that was
\* stored before, and the first one stores the plugged controller's.
LEMMA InputStep ==
    ASSUME DeadzoneInv, NEW k \in Knob, NEW function \in {"null", "linear"},
           NEW deadzone \in Entered, BuildInput(k, function, deadzone)
    PROVE  DeadzoneInv'
<1>0. DataInv /\ CenterInv
  BY DEF DeadzoneInv
<1>1. /\ reader = "build" /\ adapterData # NoController
      /\ calibrationData' = (IF lastControllerState THEN calibrationData ELSE adapterData)
      /\ lastControllerState' = TRUE /\ reader' = "complete"
      /\ UNCHANGED <<adapterData, snap, plugged, session, early>>
  BY DEF BuildInput, historyVars
<1>2. PICK out \in Handled(k, function, deadzone) :
          report' = [knob |-> k, value |-> Raw(k), center |-> calibrationData[k],
                     out |-> out, function |-> function, deadzone |-> deadzone]
  BY DEF BuildInput
<1>3. /\ adapterData \in Data /\ adapterData[k] \in Value(k)
      /\ calibrationData[k] \in Value(k)
  BY <1>0, <1>1, InputTyped DEF DataInv, Data
<1>4. Raw(k) \in Value(k)
  BY <1>3, KnobAssumption DEF KnobAssumption, Raw, Value, Byte
<1>5. deadzone \in Byte
  BY EnteredAssumption DEF EnteredAssumption
<1>6. lastControllerState' \in BOOLEAN
  BY <1>1
<1>7. DataInv'
  BY <1>0, <1>1, <1>3, <1>6 DEF DataInv
<1>8. ReportInv'
  <2> SUFFICES ASSUME report'.function = "linear" PROVE ReportInv'
    BY DEF ReportInv
  <2>1. function = "linear"
    BY <1>2
  <2>2. out \in IF k \in Stick THEN LinearAxis(Raw(k), calibrationData[k], deadzone)
                               ELSE LinearShoulder(Raw(k), calibrationData[k], deadzone)
    BY <1>2, <2>1 DEF Handled
  <2> QED
    BY <1>1, <1>2, <1>3, <1>4, <1>5, <2>2 DEF ReportInv
<1>9. plugged # NoController
  BY <1>0, <1>1 DEF DataInv
<1>10. Untouched0 /\ ~session.overwritten => calibrationData' = plugged
  BY <1>0, <1>1, <1>9 DEF CenterInv, Untouched0
<1>11. Untouched0 /\ session.reported /\ ~session.overwritten =>
           report'.center = plugged[k] /\ report'.value = RawOf(plugged, k)
  BY <1>0, <1>1, <1>2 DEF CenterInv, Untouched0, Raw, RawOf
<1>12. report'.knob = k
  BY <1>2
<1>13. CenterInv'
  BY <1>0, <1>1, <1>9, <1>10, <1>11, <1>12 DEF CenterInv, Untouched0
<1> QED
  BY <1>7, <1>8, <1>13 DEF DeadzoneInv

\* Completing a report preserves the invariant: the session has had a report, and its centre
\* was stored with it.
LEMMA CompleteStep ==
    ASSUME DeadzoneInv, CompleteReport
    PROVE  DeadzoneInv'
<1>1. /\ reader = "complete" /\ reader' = "idle" /\ report' = NoReport
      /\ session' = [session EXCEPT !.reported = plugged # NoController]
      /\ UNCHANGED <<adapterData, calibrationData, lastControllerState, snap, plugged, early>>
  BY DEF CompleteReport, portVars
<1>2. /\ session' \in Session
      /\ session'.reported = (plugged # NoController)
      /\ session'.touched = session.touched
      /\ session'.overwritten = session.overwritten
  BY <1>1 DEF DeadzoneInv, DataInv, Session
<1>3. DataInv' /\ ReportInv'
  BY <1>1, <1>2 DEF DeadzoneInv, DataInv, ReportInv, NoReport
<1>4. CenterInv'
  BY <1>1, <1>2 DEF DeadzoneInv, CenterInv, Untouched0, NoReport
<1> QED
  BY <1>3, <1>4 DEF DeadzoneInv

\* A caller's copy preserves the invariant: the copy is not older than the session.
LEMMA SnapshotStep ==
    ASSUME DeadzoneInv, NEW c \in Caller, CalibrateSnapshot(c)
    PROVE  DeadzoneInv'
<1>1. /\ snap' = [snap EXCEPT ![c] = Sample]
      /\ UNCHANGED <<adapterData, calibrationData, lastControllerState, reader, report,
                     plugged, session, early>>
  BY DEF CalibrateSnapshot, portVars, readerVars, historyVars
<1>2. Sample \in Data
  BY DEF DeadzoneInv, DataInv, Sample, Data
<1>3. Untouched0 => Sample = plugged
  BY DEF DeadzoneInv, CenterInv, Untouched0, Sample
<1>4. DataInv' /\ ReportInv'
  BY <1>1, <1>2 DEF DeadzoneInv, DataInv, ReportInv
<1>5. Untouched0' => \A e \in Caller \ early' : snap'[e] \in {NoController, plugged'}
  BY <1>1, <1>3 DEF DeadzoneInv, DataInv, CenterInv, Untouched0
<1>6. CenterInv'
  BY <1>1, <1>5 DEF DeadzoneInv, CenterInv, Untouched0
<1> QED
  BY <1>4, <1>6 DEF DeadzoneInv

\* A caller's store preserves the invariant: an older copy is noted in the session.
LEMMA StoreStep ==
    ASSUME DeadzoneInv, NEW c \in Caller, CalibrateStore(c)
    PROVE  DeadzoneInv'
<1>1. /\ snap[c] # NoController /\ calibrationData' = snap[c]
      /\ snap' = [snap EXCEPT ![c] = NoController]
      /\ session' = [session EXCEPT !.overwritten = @ \/ c \in early]
      /\ early' = early \ {c}
      /\ UNCHANGED <<adapterData, lastControllerState, reader, report, plugged>>
  BY DEF CalibrateStore, readerVars
<1>2. /\ session' \in Session
      /\ session'.reported = session.reported
      /\ session'.touched = session.touched
      /\ session'.overwritten = (session.overwritten \/ c \in early)
  BY <1>1 DEF DeadzoneInv, DataInv, Session
<1>3. DataInv' /\ ReportInv'
  BY <1>1, <1>2 DEF DeadzoneInv, DataInv, ReportInv
<1>4. Untouched0' => \A e \in Caller \ early' : snap'[e] \in {NoController, plugged'}
  BY <1>1, <1>2 DEF DeadzoneInv, DataInv, CenterInv, Untouched0
<1>5. Untouched0' /\ ~session'.overwritten => calibrationData' = plugged
  BY <1>1, <1>2 DEF DeadzoneInv, CenterInv, Untouched0
<1>6. CenterInv'
  BY <1>1, <1>2, <1>4, <1>5 DEF DeadzoneInv, CenterInv, Untouched0
<1> QED
  BY <1>3, <1>6 DEF DeadzoneInv

\* Every action preserves the invariant.
LEMMA InvStep ==
    ASSUME DeadzoneInv, [Next]_vars
    PROVE  DeadzoneInv'
<1>1. CASE UNCHANGED vars
  BY <1>1 DEF vars, portVars, readerVars, historyVars, DeadzoneInv, DataInv, ReportInv,
              CenterInv, Untouched0
<1> QED
  BY <1>1, ReadStep, NeutralStep, InputStep, CompleteStep, SnapshotStep, StoreStep
  DEF Next, Reports

\* The invariant and the arithmetic give both properties.
LEMMA InvSuffices ==
    ASSUME DeadzoneInv
    PROVE  UntouchedIsNeutral /\ PressNotExaggerated
<1>1. UntouchedIsNeutral
  <2> SUFFICES ASSUME Processed(Knob), Untouched, ~session.overwritten,
                      RestError < report.deadzone
               PROVE  report.out = Neutral[report.knob]
    BY DEF UntouchedIsNeutral
  <2> DEFINE k == report.knob
             center == report.center
             value == report.value
  <2>1. /\ k \in Knob /\ value \in Value(k) /\ center \in Value(k)
        /\ report.deadzone \in Byte
        /\ report.out \in IF k \in Stick THEN LinearAxis(value, center, report.deadzone)
                          ELSE LinearShoulder(value, center, report.deadzone)
    BY DEF DeadzoneInv, ReportInv, Processed
  <2>2. center = plugged[k] /\ value = RawOf(plugged, k)
    BY DEF DeadzoneInv, CenterInv, Untouched0, Untouched, Processed
  <2>3. CASE k \in Stick
    <3>1. value \in Byte \X Byte /\ center \in Byte \X Byte
      BY <2>1, <2>3 DEF Value
    <3>2. value[1] = center[1]
      BY <2>2 DEF RawOf
    <3>3. Magnitude(value[2] - center[2]) < report.deadzone
      <4>1. CASE k \in Inverted
        <5>1. value[2] = 255 - center[2] /\ center[2] \in Int
          BY <2>2, <3>1, <4>1 DEF RawOf, Byte
        <5>2. value[2] - center[2] = 255 - 2 * center[2]
          BY <5>1
        <5> QED
          BY <4>1, <5>2 DEF RestError
      <4>2. CASE k \notin Inverted
        <5>1. value = center /\ center[2] \in Int
          BY <2>2, <3>1, <4>2 DEF RawOf, Byte
        <5>2. RestError = 0
          BY <4>2 DEF RestError
        <5> QED
          BY <5>1, <5>2 DEF Magnitude
      <4> QED
        BY <4>1, <4>2
    <3>4. LinearAxis(value, center, report.deadzone) = {NeutralAxis}
      BY <2>1, <3>1, <3>2, <3>3, InsideDeadzone
    <3> QED
      BY <2>1, <2>3, <3>4 DEF Neutral
  <2>4. CASE k \notin Stick
    <3>1. k \notin Inverted
      BY <2>4, KnobAssumption DEF KnobAssumption
    <3>2. value = center /\ RestError = 0
      BY <2>2, <3>1 DEF RawOf, RestError
    <3>3. value[1] \in Int /\ value[1] - center[1] = 0 /\ report.deadzone > 0
      BY <2>1, <2>4, <3>2 DEF Value, Byte
    <3>4. LinearShoulder(value, center, report.deadzone) = {NeutralShoulder}
      BY <3>3 DEF LinearShoulder
    <3> QED
      BY <2>1, <2>4, <3>4 DEF Neutral
  <2> QED
    BY <2>3, <2>4
<1>2. PressNotExaggerated
  <2> SUFFICES ASSUME Processed(Shoulder)
               PROVE  report.out[1] = 0 \/ report.out[1] <= report.value[1] - report.center[1]
    BY DEF PressNotExaggerated
  <2>1. report.knob \in Shoulder /\ report.knob \notin Stick
    BY KnobAssumption DEF KnobAssumption, Processed
  <2>2. /\ report.value[1] \in Byte /\ report.center[1] \in Byte
        /\ report.deadzone \in Byte
        /\ report.out \in LinearShoulder(report.value, report.center, report.deadzone)
    BY <2>1 DEF DeadzoneInv, ReportInv, Processed, Value
  <2> QED
    BY <2>2, ShoulderBound
<1> QED
  BY <1>1, <1>2

\* From its second report on an untouched controller is reported neutral if the deadzone
\* exceeds the error of the complemented Y, and no shoulder button is reported as pressed
\* further than it is: whatever controllers there are and whatever they send, however
\* controllers are exchanged, calibrated and set.
THEOREM RestAndPress == Spec => [](UntouchedIsNeutral /\ PressNotExaggerated)
<1>1. Init => DeadzoneInv
  BY InitInv
<1>2. DeadzoneInv /\ [Next]_vars => DeadzoneInv'
  BY InvStep
<1>3. DeadzoneInv => UntouchedIsNeutral /\ PressNotExaggerated
  BY InvSuffices
<1> QED
  BY <1>1, <1>2, <1>3, PTL DEF Spec
-----------------------------------------------------------------------------
(* Types.                                                                  *)

\* Whatever the arithmetic yields, a stick's coordinate is a byte.
LEMMA ScaledAxisTyped ==
    ASSUME NEW o \in Int, NEW dist2, NEW z \in Byte
    PROVE  ScaledAxis(o, dist2, z) \subseteq Byte
<1>1. ASSUME NEW S PROVE LowBytes(S) \subseteq Byte
  <2> DEFINE Intervals == {a .. b : a \in S, b \in S}
  <2>1. ASSUME NEW v \in UNION Intervals PROVE v \in Int
    <3>1. PICK I \in Intervals : v \in I
      <4> HIDE DEF Intervals
      <4> QED
        OBVIOUS
    <3>2. PICK a \in S, b \in S : I = a .. b
      BY <3>1
    <3> QED
      BY <3>1, <3>2
  <2>2. \A v \in Int : v % 256 \in Byte
    BY DEF Byte
  <2>3. LowBytes(S) = {v % 256 : v \in UNION Intervals}
    BY DEF LowBytes
  <2> HIDE DEF Intervals
  <2> QED
    BY <2>1, <2>2, <2>3
<1>2. 127 \in Byte
  BY DEF Byte
<1> QED
  BY <1>1, <1>2 DEF ScaledAxis

\* What a handler makes of a knob is a value of the knob.
LEMMA HandledTyped ==
    ASSUME NEW k \in Knob, NEW function \in {"null", "linear"}, NEW deadzone \in Byte,
           Raw(k) \in Value(k), calibrationData[k] \in Value(k)
    PROVE  Handled(k, function, deadzone) \subseteq Value(k)
<1> DEFINE raw == Raw(k)
           center == calibrationData[k]
<1>0. 127 \in Byte /\ 0 \in Byte
  BY DEF Byte
<1>1. CASE function = "null"
  BY <1>1 DEF Handled
<1>2. CASE function # "null" /\ k \in Stick
  <2>1. raw \in Byte \X Byte /\ center \in Byte \X Byte
    BY <1>2 DEF Value
  <2> HIDE DEF raw, center
  <2>2. raw[1] - center[1] \in Int /\ raw[2] - center[2] \in Int
    <3>1. raw[1] \in Byte /\ center[1] \in Byte /\ raw[2] \in Byte /\ center[2] \in Byte
      BY <2>1
    <3> QED
      BY <3>1, ByteDifference
  <2>3. LinearAxis(raw, center, deadzone) \subseteq Byte \X Byte
    BY <1>0, <2>2, ScaledAxisTyped DEF LinearAxis, NeutralAxis
  <2> QED
    BY <1>2, <2>3 DEF Handled, Value, raw, center
<1>3. CASE function # "null" /\ k \notin Stick
  <2>1. raw[1] \in Byte /\ center[1] \in Byte
    BY <1>3 DEF Value
  <2> HIDE DEF raw, center
  <2>2. LinearShoulder(raw, center, deadzone) \subseteq {<<b>> : b \in Byte}
    <3> DEFINE d == raw[1] - center[1]
    <3>1. d \in Int
      BY <2>1, ByteDifference
    <3>2. CASE d < deadzone \/ d = 0 \/ deadzone = 255
      BY <1>0, <3>2 DEF LinearShoulder, NeutralShoulder
    <3>3. CASE ~(d < deadzone \/ d = 0 \/ deadzone = 255)
      <4>1. ASSUME NEW e \in {0, 1}
            PROVE  Toward0(255 * (d - deadzone) - e, 255 - deadzone) % 256 \in Byte
        <5> DEFINE n == 255 * (d - deadzone) - e
                   m == 255 - deadzone
        <5>1. n \in Int /\ m \in Nat /\ m > 0
          BY <3>1, <3>3 DEF Byte
        <5> HIDE DEF n, m
        <5>2. Toward0(n, m) \in Int
          BY <5>1 DEF Toward0
        <5> QED
          BY <5>2 DEF Byte, n, m
      <4>2. LinearShoulder(raw, center, deadzone) =
                {<<Toward0(255 * (d - deadzone) - e, 255 - deadzone) % 256>> :
                    e \in IF d = deadzone THEN {0} ELSE {0, 1}}
        BY <3>3 DEF LinearShoulder
      <4> HIDE DEF d
      <4> QED
        BY <4>1, <4>2
    <3> QED
      BY <3>2, <3>3
  <2> QED
    BY <1>3, <2>2 DEF Handled, Value, raw, center
<1> QED
  BY <1>1, <1>2, <1>3

\* A report has values of its knob, and it was made with a deadzone that was entered.
ReportTyped ==
    \/ report = NoReport
    \/ /\ report.knob \in Knob
       /\ {report.value, report.center, report.out} \subseteq Value(report.knob)
       /\ report.function \in {"null", "linear"}
       /\ report.deadzone \in Entered

\* What DataInv leaves out of TypeOK.
RestTyped == ReportTyped /\ early \subseteq Caller

\* Building a report of a plugged port gives it values of its knob.
LEMMA InputTypes ==
    ASSUME DeadzoneInv, NEW k \in Knob, NEW function \in {"null", "linear"},
           NEW deadzone \in Entered, BuildInput(k, function, deadzone)
    PROVE  ReportTyped'
<1>1. PICK out \in Handled(k, function, deadzone) :
          report' = [knob |-> k, value |-> Raw(k), center |-> calibrationData[k],
                     out |-> out, function |-> function, deadzone |-> deadzone]
  BY DEF BuildInput
<1>2. adapterData \in Data /\ adapterData[k] \in Value(k) /\ calibrationData[k] \in Value(k)
  BY InputTyped DEF BuildInput, DeadzoneInv, DataInv, Data
<1>3. Raw(k) \in Value(k)
  BY <1>2, KnobAssumption DEF KnobAssumption, Raw, Value, Byte
<1>4. out \in Value(k)
  BY <1>1, <1>2, <1>3, EnteredAssumption, HandledTyped DEF EnteredAssumption
<1> QED
  BY <1>1, <1>2, <1>3, <1>4 DEF ReportTyped

\* Every action keeps the types that DataInv leaves out.
LEMMA RestTypesStep ==
    ASSUME DeadzoneInv, RestTyped, [Next]_vars
    PROVE  RestTyped'
<1>1. CASE UNCHANGED vars
  BY <1>1 DEF vars, readerVars, historyVars, RestTyped, ReportTyped
<1>2. ASSUME NEW now, NEW data, ReadComplete(now, data) PROVE RestTyped'
  BY <1>2 DEF ReadComplete, RestTyped, ReportTyped
<1>3. CASE BuildNeutral
  BY <1>3 DEF BuildNeutral, historyVars, RestTyped, ReportTyped
<1>4. ASSUME NEW k \in Knob, NEW function \in {"null", "linear"}, NEW deadzone \in Entered,
             BuildInput(k, function, deadzone)
      PROVE  RestTyped'
  BY <1>4, InputTypes DEF BuildInput, historyVars, RestTyped
<1>5. CASE CompleteReport
  BY <1>5 DEF CompleteReport, RestTyped, ReportTyped
<1>6. ASSUME NEW c \in Caller, CalibrateSnapshot(c) \/ CalibrateStore(c) PROVE RestTyped'
  BY <1>6 DEF CalibrateSnapshot, CalibrateStore, readerVars, historyVars, RestTyped, ReportTyped
<1> QED
  BY <1>1, <1>2, <1>3, <1>4, <1>5, <1>6 DEF Next, Reports

\* Every variable keeps its type, and every report is made of bytes: whatever controllers
\* there are and whatever they send, for every centre and deadzone.
THEOREM DeadzoneTypes == Spec => []TypeOK
<1>1. Init => DeadzoneInv /\ RestTyped
  BY InitInv DEF Init, RestTyped, ReportTyped
<1>2. DeadzoneInv /\ RestTyped /\ [Next]_vars => DeadzoneInv' /\ RestTyped'
  BY InvStep, RestTypesStep
<1>3. DeadzoneInv /\ RestTyped => TypeOK
  <2> SUFFICES ASSUME DeadzoneInv, RestTyped PROVE TypeOK
    OBVIOUS
  <2>1. snap \in [Caller -> Input \cup {Zero, NoController}]
    <3>1. Data \cup {NoController} = Input \cup {Zero, NoController}
      BY DEF Data
    <3> QED
      BY <3>1 DEF DeadzoneInv, DataInv
  <2> QED
    BY <2>1 DEF DeadzoneInv, DataInv, RestTyped, ReportTyped, Data, TypeOK
<1> QED
  BY <1>1, <1>2, <1>3, PTL DEF Spec

\* A stick centred near the middle is reported to point where it points, and no further out
\* than it is, but for the rounding: for every centre from 121 to 132, every deadzone from
\* the default on, and whatever the stick sends.
THEOREM RadialDeflection == Spec => []DeflectionIsRadial
<1>1. Init => DeadzoneInv
  BY InitInv
<1>2. DeadzoneInv /\ [Next]_vars => DeadzoneInv'
  BY InvStep
<1>3. DeadzoneInv => DeflectionIsRadial
  <2> SUFFICES ASSUME DeadzoneInv, CenteredStick PROVE DeflectionIsRadial
    BY DEF DeflectionIsRadial
  <2>1. /\ report.knob \in Stick
        /\ report.value \in Byte \X Byte /\ report.center \in Byte \X Byte
        /\ report.out \in LinearAxis(report.value, report.center, report.deadzone)
    BY DEF CenteredStick, Processed, DeadzoneInv, ReportInv, Value
  <2>2. report.deadzone \in 35 .. 255 /\ \A i \in {1, 2} : report.center[i] \in 121 .. 132
    BY DEF CenteredStick, Processed, DeadzoneInv, ReportInv, Byte, DefaultDeadzone
  <2> QED
    BY <2>1, <2>2, CentredAxis DEF DeflectionIsRadial
<1> QED
  BY <1>1, <1>2, <1>3, PTL DEF Spec
=============================================================================
