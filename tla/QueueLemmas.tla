----------------------------- MODULE QueueLemmas -----------------------------
(***************************************************************************)
(* Request queues as sequences of distinct requests: what parking, taking  *)
(* the oldest and cancelling do to the set of requests in the queue.       *)
(***************************************************************************)
EXTENDS Naturals, SequencesExt, TLAPS

\* RemoveAt drops the element at k and moves the later ones up by one.
LEMMA RemoveAtSeq ==
    ASSUME NEW S, NEW s \in Seq(S), NEW k \in DOMAIN s
    PROVE  /\ RemoveAt(s, k) \in Seq(S)
           /\ Len(RemoveAt(s, k)) = Len(s) - 1
           /\ \A i \in 1 .. Len(s) - 1 :
                 RemoveAt(s, k)[i] = IF i < k THEN s[i] ELSE s[i + 1]
<1> DEFINE a == SubSeq(s, 1, k - 1)
           b == SubSeq(s, k + 1, Len(s))
<1>1. k \in 1 .. Len(s) /\ Len(s) \in Nat
  OBVIOUS
<1>2. /\ a \in Seq(S) /\ Len(a) = k - 1
      /\ \A i \in 1 .. k - 1 : a[i] = s[i]
  BY <1>1
<1>3. /\ b \in Seq(S) /\ Len(b) = Len(s) - k
      /\ \A i \in 1 .. Len(s) - k : b[i] = s[k + i]
  BY <1>1
<1>4. RemoveAt(s, k) = a \o b
  BY DEF RemoveAt
<1> HIDE DEF a, b
<1>5. a \o b \in Seq(S) /\ Len(a \o b) = Len(s) - 1
  BY <1>1, <1>2, <1>3
<1>6. ASSUME NEW i \in 1 .. Len(s) - 1
      PROVE  (a \o b)[i] = IF i < k THEN s[i] ELSE s[i + 1]
  <2>1. CASE i < k
    <3>1. i \in 1 .. Len(a)
      BY <1>1, <1>2, <2>1
    <3>2. (a \o b)[i] = a[i]
      BY <3>1, <1>2, <1>3
    <3> QED
      BY <3>1, <3>2, <1>2, <2>1
  <2>2. CASE ~(i < k)
    <3>1. i \in Len(a) + 1 .. Len(a) + Len(b)
      BY <1>1, <1>2, <1>3, <2>2
    <3>2. (a \o b)[i] = b[i - Len(a)]
      BY <3>1, <1>2, <1>3
    <3>3. Len(a) = k - 1 /\ i \in Nat
      BY <1>2
    <3>4. i - Len(a) = i + 1 - k
      BY <3>3, <1>1
    <3>5. i + 1 - k \in 1 .. Len(s) - k /\ k + (i + 1 - k) = i + 1
      BY <1>1, <2>2
    <3> QED
      BY <3>2, <3>4, <3>5, <1>3, <2>2
  <2> QED
    BY <2>1, <2>2
<1> QED
  BY <1>4, <1>5, <1>6

\* Parking a request that the queue does not hold adds it to the queue's set of requests
\* and keeps the requests of the queue distinct.
LEMMA AppendDistinct ==
    ASSUME NEW S, NEW s \in Seq(S), NEW q \in S, IsInjective(s), q \notin ToSet(s)
    PROVE  ToSet(Append(s, q)) = ToSet(s) \cup {q} /\ IsInjective(Append(s, q))
<1>1. /\ Append(s, q) \in Seq(S)
      /\ DOMAIN Append(s, q) = 1 .. Len(s) + 1
      /\ \A i \in 1 .. Len(s) : Append(s, q)[i] = s[i]
      /\ Append(s, q)[Len(s) + 1] = q
      /\ DOMAIN s = 1 .. Len(s)
      /\ Len(s) \in Nat
  OBVIOUS
<1>2. ToSet(Append(s, q)) = ToSet(s) \cup {q}
  BY <1>1 DEF ToSet
<1>3. IsInjective(Append(s, q))
  BY <1>1 DEF IsInjective, ToSet
<1> QED
  BY <1>2, <1>3

\* Taking the oldest request out of a queue of distinct requests takes exactly that request
\* out of its set.
LEMMA TailDistinct ==
    ASSUME NEW S, NEW s \in Seq(S), s # <<>>, IsInjective(s)
    PROVE  /\ Head(s) \in ToSet(s)
           /\ ToSet(Tail(s)) = ToSet(s) \ {Head(s)}
           /\ IsInjective(Tail(s))
<1>1. /\ Tail(s) \in Seq(S)
      /\ DOMAIN Tail(s) = 1 .. Len(s) - 1
      /\ \A i \in 1 .. Len(s) - 1 : Tail(s)[i] = s[i + 1]
      /\ Head(s) = s[1]
      /\ DOMAIN s = 1 .. Len(s)
      /\ Len(s) \in Nat \ {0}
  OBVIOUS
<1>2. Head(s) \in ToSet(s)
  BY <1>1 DEF ToSet
<1>3. ToSet(Tail(s)) \subseteq ToSet(s) \ {Head(s)}
  BY <1>1 DEF ToSet, IsInjective
<1>4. ASSUME NEW x \in ToSet(s) \ {Head(s)} PROVE x \in ToSet(Tail(s))
  <2>1. PICK i \in 1 .. Len(s) : x = s[i] /\ i # 1
    BY <1>1 DEF ToSet
  <2>2. i - 1 \in 1 .. Len(s) - 1 /\ (i - 1) + 1 = i
    BY <1>1, <2>1
  <2> QED
    BY <1>1, <2>1, <2>2 DEF ToSet
<1>5. IsInjective(Tail(s))
  BY <1>1 DEF IsInjective
<1> QED
  BY <1>2, <1>3, <1>4, <1>5

\* Cancelling the k-th request of a queue of distinct requests takes exactly that request
\* out of its set.
LEMMA RemoveAtDistinct ==
    ASSUME NEW S, NEW s \in Seq(S), NEW k \in DOMAIN s, IsInjective(s)
    PROVE  /\ ToSet(RemoveAt(s, k)) = ToSet(s) \ {s[k]}
           /\ IsInjective(RemoveAt(s, k))
<1> DEFINE t == RemoveAt(s, k)
<1>1. /\ t \in Seq(S)
      /\ DOMAIN t = 1 .. Len(s) - 1
      /\ \A i \in 1 .. Len(s) - 1 : t[i] = IF i < k THEN s[i] ELSE s[i + 1]
      /\ DOMAIN s = 1 .. Len(s)
      /\ Len(s) \in Nat
      /\ k \in 1 .. Len(s)
  BY RemoveAtSeq
<1> HIDE DEF t
<1>2. ToSet(t) \subseteq ToSet(s) \ {s[k]}
  BY <1>1 DEF ToSet, IsInjective
<1>3. ASSUME NEW x \in ToSet(s) \ {s[k]} PROVE x \in ToSet(t)
  <2>1. PICK i \in 1 .. Len(s) : x = s[i] /\ i # k
    BY <1>1 DEF ToSet
  <2>2. CASE i < k
    <3>1. i \in 1 .. Len(s) - 1 /\ t[i] = x
      BY <1>1, <2>1, <2>2
    <3> QED
      BY <3>1, <1>1 DEF ToSet
  <2>3. CASE k < i
    <3>1. i - 1 \in 1 .. Len(s) - 1 /\ ~(i - 1 < k) /\ (i - 1) + 1 = i
      BY <1>1, <2>1, <2>3
    <3>2. t[i - 1] = x
      BY <3>1, <1>1, <2>1
    <3> QED
      BY <3>1, <3>2, <1>1 DEF ToSet
  <2> QED
    BY <1>1, <2>1, <2>2, <2>3
<1>4. IsInjective(t)
  BY <1>1 DEF IsInjective
<1> QED
  BY <1>2, <1>3, <1>4 DEF t
=============================================================================
