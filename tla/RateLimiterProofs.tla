-------------------------- MODULE RateLimiterProofs --------------------------
(***************************************************************************)
(* No key is let through more often than its limit in any 60 seconds, with *)
(* either backend, whatever happens in between.                            *)
(*                                                                         *)
(* In memory the deque is the history itself, the oldest first, but for a  *)
(* stale prefix.  In Redis every check let through is among those counted, *)
(* so that the n-th last member is no older than the n-th last check let   *)
(* through.                                                                *)
(***************************************************************************)
EXTENDS RateLimiter, FunctionTheorems, FiniteSetTheorems, SequenceTheorems,
        WellFoundedInduction, TLAPS

Age == 0 .. Window + 1
History == [1 .. Limit + 1 -> Age]

Ordered(g) == \A m, n \in 1 .. Limit + 1 : m <= n => g[m] <= g[n]

DequeIsHistory(b, g) ==
    /\ \A i \in 1 .. Len(b) : b[i] = g[Len(b) + 1 - i]
    /\ \A n \in Len(b) + 1 .. Limit + 1 : g[n] > Window

Members == [1 .. Limit + 1 -> 0 .. Window]

Recorded(z, g) == \A n \in 1 .. Limit + 1 : z[n] <= g[n]

(* What holds for a key, under either backend.                              *)
KeyTyped(b, z, g, v) ==
    /\ b \in Seq(Age) /\ Len(b) <= Limit
    /\ z \in Members /\ Ordered(z) /\ g \in History /\ Ordered(g) /\ v \in Verdict

InMemory(b, g, v) == DequeIsHistory(b, g) /\ (v = "refused" => g[Limit] <= Window)
InRedis(b, z, g) == b = <<>> /\ Recorded(z, g) /\ g[Limit + 1] >= Window

KeyOK(r, b, z, g, v) ==
    KeyTyped(b, z, g, v) /\ IF r THEN InRedis(b, z, g) ELSE InMemory(b, g, v)

IInv ==
    /\ redis \in BOOLEAN
    /\ bucket \in [Key -> Seq(Age)] /\ zset \in [Key -> Members]
    /\ granted \in [Key -> History] /\ verdict \in [Key -> Verdict]
    /\ \A k \in Key : KeyOK(redis, bucket[k], zset[k], granted[k], verdict[k])

------------------------------------------------------------------------------
(* The least of a set of numbers, from the theorem that finite sets are     *)
(* well founded: the least initial segment is that of the least number.     *)
LEMMA LeastNumber ==
  ASSUME NEW T \in SUBSET Nat, T # {}
  PROVE  \E m \in T : \A n \in T : m <= n
<1> DEFINE Upto == {0 .. m : m \in T}
<1>1. IsWellFoundedOn(StrictSubsetOrdering(Nat), FiniteSubsetsOf(Nat))
  BY FS_StrictSubsetOrderingWellFounded
<1>2. Upto \subseteq FiniteSubsetsOf(Nat)
  <2>1. \A m \in T : 0 .. m \in SUBSET Nat /\ IsFiniteSet(0 .. m)
    BY FS_Interval
  <2>. QED
    BY <2>1 DEF FiniteSubsetsOf
<1>3. Upto # {}
  OBVIOUS
<1>4. PICK s \in Upto : \A t \in Upto : ~(<<t, s>> \in StrictSubsetOrdering(Nat))
  <2> HIDE DEF Upto
  <2>. QED
    BY <1>1, <1>2, <1>3, WFMin
<1>5. PICK m \in T : s = 0 .. m
  BY <1>4
<1>6. ASSUME NEW n \in T, n < m PROVE FALSE
  <2>1. 0 .. n \subseteq 0 .. m /\ 0 .. n # 0 .. m
    BY <1>6
  <2>2. 0 .. n \in SUBSET Nat /\ 0 .. m \in SUBSET Nat
    OBVIOUS
  <2>3. <<0 .. n, 0 .. m>> \in StrictSubsetOrdering(Nat)
    BY <2>1, <2>2, Zenon DEF StrictSubsetOrdering
  <2>4. 0 .. n \in Upto
    OBVIOUS
  <2>. QED
    BY <1>4, <1>5, <2>3, <2>4, Zenon
<1>. QED
  BY <1>6

(* A set of positions that goes with every position all before it.          *)
LEMMA PrefixIsInterval ==
  ASSUME NEW n \in Nat, NEW S \in SUBSET (1 .. n), \A i \in S : \A j \in 1 .. i : j \in S
  PROVE  S = 1 .. Cardinality(S) /\ Cardinality(S) \in 0 .. n
<1> DEFINE Out == {i \in 1 .. n + 1 : i \notin S}
<1>1. PICK m \in Out : \A i \in Out : m <= i
  <2>1. Out \in SUBSET Nat /\ n + 1 \in Out
    OBVIOUS
  <2>. QED
    BY <2>1, LeastNumber
<1>2. S = 1 .. m - 1
  <2>1. ASSUME NEW i \in S PROVE i \in 1 .. m - 1
    <3>1. i \in 1 .. n
      OBVIOUS
    <3>2. m \in 1 .. n + 1 /\ m \notin S
      BY <1>1
    <3>3. ~(m <= i)
      <4>1. m <= i => m \in 1 .. i
        BY <3>1, <3>2
      <4>. QED
        BY <3>2, <4>1
    <3>. QED
      BY <3>1, <3>2, <3>3
  <2>2. ASSUME NEW i \in 1 .. m - 1 PROVE i \in S
    BY <1>1
  <2>. QED
    BY <2>1, <2>2
<1>3. Cardinality(1 .. m - 1) = m - 1
  <2>1. m - 1 \in Int /\ m - 1 >= 0
    OBVIOUS
  <2>. QED
    BY <2>1, FS_Interval
<1>. QED
  BY <1>2, <1>3

(* What is left of a deque when it has been pruned.                         *)
LEMMA PrunedKeepsTheRest ==
  ASSUME NEW b \in Seq(Age)
  PROVE  /\ Pruned(b) \in Seq(Age) /\ Len(Pruned(b)) <= Len(b) /\ Len(Pruned(b)) \in Nat
         /\ \A i \in 1 .. Len(Pruned(b)) : Pruned(b)[i] = b[Len(b) - Len(Pruned(b)) + i]
         /\ \A i \in 1 .. Len(b) - Len(Pruned(b)) : b[i] > Window
         /\ Len(Pruned(b)) > 0 => Pruned(b)[1] <= Window
<1> DEFINE dropped == {i \in DOMAIN b : \A j \in 1 .. i : Stale(b[j])}
           d == Cardinality(dropped)
           p == SubSeq(b, d + 1, Len(b))
<1>1. Len(b) \in Nat /\ DOMAIN b = 1 .. Len(b) /\ \A i \in 1 .. Len(b) : b[i] \in Age
  BY LenProperties, ElementOfSeq
<1>2. dropped = 1 .. d /\ d \in 0 .. Len(b)
  <2>1. dropped \in SUBSET (1 .. Len(b)) /\ \A i \in dropped : \A j \in 1 .. i : j \in dropped
    BY <1>1
  <2> HIDE DEF dropped
  <2>. QED
    BY <1>1, <2>1, PrefixIsInterval
<1>3. Pruned(b) = p
  BY DEF Pruned
<1>4. \A i \in 1 .. d : b[i] > Window
  BY <1>1, <1>2 DEF Stale
<1>d. \A i \in 1 .. Len(b) : (\A j \in 1 .. i : Stale(b[j])) => i \in dropped
  BY <1>1
<1> HIDE DEF dropped, d
<1>5. d < Len(b) => b[d + 1] <= Window
  <2> SUFFICES ASSUME d < Len(b), ~(b[d + 1] <= Window) PROVE FALSE
    OBVIOUS
  <2>0. d \in Nat /\ d + 1 \in 1 .. Len(b)
    BY <1>1, <1>2
  <2>1. b[d + 1] > Window
    BY <1>1, <2>0, LimitAssumption DEF Age
  <2>2. \A j \in 1 .. d + 1 : Stale(b[j])
    BY <1>4, <2>0, <2>1 DEF Stale
  <2>3. d + 1 \in 1 .. d
    BY <1>2, <1>d, <2>0, <2>2
  <2>. QED
    BY <2>0, <2>3
<1>6. /\ p \in Seq(Age) /\ Len(p) = Len(b) - d
      /\ \A i \in 1 .. Len(b) - d : p[i] = b[d + i]
  <2>1. \A i \in d + 1 .. Len(b) : b[i] \in Age
    BY <1>1, <1>2
  <2>2. d + 1 \in Int /\ Len(b) \in Int
    BY <1>1, <1>2
  <2>3. /\ p \in Seq(Age) /\ Len(p) = IF d + 1 <= Len(b) THEN Len(b) - (d + 1) + 1 ELSE 0
        /\ \A i \in 1 .. Len(b) - (d + 1) + 1 : p[i] = b[(d + 1) + i - 1]
    BY <2>1, <2>2, SubSeqProperties
  <2>4. d \in Nat /\ d <= Len(b)
    BY <1>1, <1>2
  <2> HIDE DEF p
  <2>5. Len(p) = Len(b) - d
    <3>1. CASE d < Len(b)
      <4>1. d + 1 <= Len(b) /\ Len(b) - (d + 1) + 1 = Len(b) - d
        BY <1>1, <2>4, <3>1
      <4>. QED
        BY <2>3, <4>1, Zenon
    <3>2. CASE d = Len(b)
      <4>1. ~(d + 1 <= Len(b)) /\ Len(b) - d = 0
        BY <1>1, <2>4, <3>2
      <4>. QED
        BY <2>3, <4>1, Zenon
    <3>3. Len(b) \in Nat
      BY <1>1
    <3>4. d < Len(b) \/ d = Len(b)
      BY <2>4, <3>3
    <3>. QED
      BY <3>1, <3>2, <3>4, Zenon
  <2>6. ASSUME NEW i \in 1 .. Len(b) - d PROVE p[i] = b[d + i]
    <3>1. i \in 1 .. Len(b) - (d + 1) + 1 /\ (d + 1) + i - 1 = d + i
      BY <1>1, <2>4
    <3>. QED
      BY <2>3, <3>1
  <2>. QED
    BY <2>3, <2>5, <2>6
<1> HIDE DEF p
<1>. QED
  BY <1>1, <1>2, <1>3, <1>4, <1>5, <1>6

------------------------------------------------------------------------------
(* The steps of a single key.                                               *)
Shifted(g) == [n \in 1 .. Limit + 1 |-> IF n = 1 THEN 0 ELSE g[n - 1]]

LEMMA ShiftedIsHistory ==
  ASSUME NEW g \in History, Ordered(g)
  PROVE  Shifted(g) \in History /\ Ordered(Shifted(g))
<1> DEFINE h == Shifted(g)
<1>1. h \in History
  BY LimitAssumption DEF Shifted, History, Age
<1>2. h[1] = 0 /\ \A n \in 2 .. Limit + 1 : h[n] = g[n - 1]
  BY LimitAssumption DEF Shifted
<1> HIDE DEF h
<1>3. ASSUME NEW m \in 1 .. Limit + 1, NEW n \in 1 .. Limit + 1, m <= n PROVE h[m] <= h[n]
  <2>1. CASE m = 1
    BY <1>1, <1>2, <2>1, LimitAssumption DEF History, Age
  <2>2. CASE m > 1
    <3>1. m \in 2 .. Limit + 1 /\ n \in 2 .. Limit + 1
          /\ m - 1 \in 1 .. Limit + 1 /\ n - 1 \in 1 .. Limit + 1 /\ m - 1 <= n - 1
      BY <1>3, <2>2, LimitAssumption
    <3>. QED
      BY <1>2, <3>1 DEF Ordered
  <2>. QED
    BY <2>1, <2>2
<1>. QED
  BY <1>1, <1>3 DEF Ordered, h

(* Pruning drops no part of the history that counts.                        *)
LEMMA PrunedIsHistory ==
  ASSUME NEW b \in Seq(Age), NEW g \in History, DequeIsHistory(b, g), Len(b) <= Limit
  PROVE  DequeIsHistory(Pruned(b), g)
<1> DEFINE p == Pruned(b)
<1>1. /\ Len(b) \in Nat /\ Len(p) \in Nat /\ Len(p) <= Len(b)
      /\ \A i \in 1 .. Len(p) : p[i] = b[Len(b) - Len(p) + i]
      /\ \A i \in 1 .. Len(b) - Len(p) : b[i] > Window
  BY PrunedKeepsTheRest, LenProperties
<1> HIDE DEF p
<1>2. ASSUME NEW i \in 1 .. Len(p) PROVE p[i] = g[Len(p) + 1 - i]
  <2> DEFINE j == Len(b) - Len(p) + i
  <2>1. j \in 1 .. Len(b) /\ p[i] = b[j] /\ Len(b) + 1 - j = Len(p) + 1 - i
    BY <1>1
  <2>. QED
    BY <2>1 DEF DequeIsHistory
<1>3. ASSUME NEW n \in Len(p) + 1 .. Limit + 1 PROVE g[n] > Window
  <2>1. CASE n > Len(b)
    BY <1>1, <2>1, LimitAssumption DEF DequeIsHistory
  <2>2. CASE n <= Len(b)
    <3> DEFINE j == Len(b) + 1 - n
    <3>1. j \in 1 .. Len(b) - Len(p) /\ j \in 1 .. Len(b) /\ Len(b) + 1 - j = n
      BY <1>1, <2>2, LimitAssumption
    <3>. QED
      BY <1>1, <3>1 DEF DequeIsHistory
  <2>. QED
    BY <1>1, <2>1, <2>2, LimitAssumption
<1>. QED
  BY <1>2, <1>3 DEF DequeIsHistory, p

LEMMA AdmittedInMemory ==
  ASSUME NEW b \in Seq(Age), NEW z, NEW g, NEW v, KeyTyped(b, z, g, v), InMemory(b, g, v),
         ~Full(Pruned(b))
  PROVE  /\ Append(Pruned(b), 0) \in Seq(Age)
         /\ KeyOK(FALSE, Append(Pruned(b), 0), z, Shifted(g), "admitted")
<1> DEFINE p == Pruned(b)
           a == Append(p, 0)
           h == Shifted(g)
<1>1. g \in History /\ h \in History /\ Ordered(h) /\ z \in Members
  BY ShiftedIsHistory DEF KeyTyped
<1>2. p \in Seq(Age) /\ Len(p) \in Nat /\ DequeIsHistory(p, g) /\ Len(p) < Limit
  BY <1>1, PrunedKeepsTheRest, PrunedIsHistory, LimitAssumption DEF Full, KeyTyped, InMemory
<1>3. /\ a \in Seq(Age) /\ Len(a) = Len(p) + 1
      /\ \A i \in 1 .. Len(p) : a[i] = p[i]
      /\ a[Len(p) + 1] = 0
  <2>1. 0 \in Age
    BY LimitAssumption DEF Age
  <2>. QED
    BY <1>2, <2>1, AppendProperties
<1>4. h[1] = 0 /\ \A n \in 2 .. Limit + 1 : h[n] = g[n - 1]
  BY LimitAssumption DEF Shifted
<1> HIDE DEF p, a, h
<1>5. DequeIsHistory(a, h)
  <2>1. ASSUME NEW i \in 1 .. Len(a) PROVE a[i] = h[Len(a) + 1 - i]
    <3>1. CASE i = Len(p) + 1
      BY <1>2, <1>3, <1>4, <3>1
    <3>2. CASE i \in 1 .. Len(p)
      <4>1. a[i] = g[Len(p) + 1 - i]
        BY <1>2, <1>3, <3>2 DEF DequeIsHistory
      <4>2. Len(a) + 1 - i \in 2 .. Limit + 1 /\ (Len(a) + 1 - i) - 1 = Len(p) + 1 - i
        BY <1>2, <1>3, <3>2, LimitAssumption
      <4>. QED
        BY <1>4, <4>1, <4>2
    <3>. QED
      BY <1>2, <1>3, <3>1, <3>2
  <2>2. ASSUME NEW n \in Len(a) + 1 .. Limit + 1 PROVE h[n] > Window
    <3>1. n \in 2 .. Limit + 1 /\ n - 1 \in Len(p) + 1 .. Limit + 1
      BY <1>2, <1>3, LimitAssumption
    <3>. QED
      BY <1>2, <1>4, <3>1 DEF DequeIsHistory
  <2>. QED
    BY <2>1, <2>2 DEF DequeIsHistory
<1>6. KeyTyped(a, z, h, "admitted")
  BY <1>1, <1>2, <1>3, LimitAssumption DEF KeyTyped, Verdict
<1>. QED
  BY <1>3, <1>5, <1>6 DEF KeyOK, InMemory, a, h, p

LEMMA RefusedInMemory ==
  ASSUME NEW b \in Seq(Age), NEW z, NEW g, NEW v, KeyTyped(b, z, g, v), InMemory(b, g, v),
         Full(Pruned(b))
  PROVE  Pruned(b) \in Seq(Age) /\ KeyOK(FALSE, Pruned(b), z, g, "refused")
<1> DEFINE p == Pruned(b)
<1>1. g \in History /\ Len(b) <= Limit /\ Len(b) \in Nat
  BY LenProperties DEF KeyTyped
<1>2. p \in Seq(Age) /\ DequeIsHistory(p, g) /\ Len(p) = Limit
  BY <1>1, PrunedKeepsTheRest, PrunedIsHistory, LimitAssumption DEF Full, InMemory
<1>3. p[1] <= Window
  BY <1>2, PrunedKeepsTheRest, LimitAssumption
<1> HIDE DEF p
<1>4. p[1] = g[Limit]
  <2>1. 1 \in 1 .. Len(p) /\ Len(p) + 1 - 1 = Limit
    BY <1>2, LimitAssumption
  <2>. QED
    BY <1>2, <2>1 DEF DequeIsHistory
<1>5. KeyTyped(p, z, g, "refused")
  BY <1>2, LimitAssumption DEF KeyTyped, Verdict
<1>. QED
  BY <1>2, <1>3, <1>4, <1>5 DEF KeyOK, InMemory, p

(* In Redis a check becomes the latest member.                              *)
LEMMA WithThisCheckTyped ==
  ASSUME NEW z \in Members, Ordered(z)
  PROVE  /\ WithThisCheck(z) \in Members /\ Ordered(WithThisCheck(z))
         /\ WithThisCheck(z)[1] = 0
         /\ \A n \in 2 .. Limit + 1 : WithThisCheck(z)[n] = z[n - 1]
<1> DEFINE y == WithThisCheck(z)
<1>1. \A n \in 1 .. Limit + 1 : z[n] \in 0 .. Window
  BY DEF Members
<1>2. \A n \in 2 .. Limit + 1 : n - 1 \in 1 .. Limit + 1
  BY LimitAssumption
<1>3. y[1] = 0 /\ \A n \in 2 .. Limit + 1 : y[n] = z[n - 1]
  BY <1>2, LimitAssumption DEF WithThisCheck
<1>4. \A n \in 1 .. Limit + 1 : n = 1 \/ n \in 2 .. Limit + 1
  BY LimitAssumption
<1>5. \A n \in 1 .. Limit + 1 : y[n] \in 0 .. Window
  BY <1>1, <1>2, <1>3, <1>4, LimitAssumption
<1>6. y \in Members
  <2>1. y = [n \in 1 .. Limit + 1 |-> IF n = 1 THEN 0 ELSE z[n - 1]]
    BY DEF WithThisCheck
  <2>2. \A n \in 1 .. Limit + 1 : (IF n = 1 THEN 0 ELSE z[n - 1]) \in 0 .. Window
    BY <1>1, <1>2, <1>4, LimitAssumption
  <2>. QED
    BY <2>1, <2>2 DEF Members
<1> HIDE DEF y
<1>7. ASSUME NEW m \in 1 .. Limit + 1, NEW n \in 1 .. Limit + 1, m <= n PROVE y[m] <= y[n]
  <2>1. CASE m = 1
    BY <1>3, <1>5, <2>1
  <2>2. CASE m # 1
    <3>1. /\ m \in 2 .. Limit + 1 /\ n \in 2 .. Limit + 1 /\ m - 1 <= n - 1
          /\ m - 1 \in 1 .. Limit + 1 /\ n - 1 \in 1 .. Limit + 1
      BY <1>2, <1>4, <1>7, <2>2, LimitAssumption
    <3>. QED
      BY <1>3, <3>1 DEF Ordered
  <2>. QED
    BY <2>1, <2>2
<1>. QED
  BY <1>3, <1>6, <1>7 DEF Ordered, y

LEMMA StillRecorded ==
  ASSUME NEW b, NEW z, NEW g, NEW v, KeyTyped(b, z, g, v), InRedis(b, z, g), NEW w \in Verdict
  PROVE  KeyOK(TRUE, b, WithThisCheck(z), g, w)
<1> DEFINE y == WithThisCheck(z)
<1>1. /\ y \in Members /\ Ordered(y) /\ y[1] = 0 /\ z \in Members /\ Ordered(z)
      /\ \A n \in 2 .. Limit + 1 : y[n] = z[n - 1]
  BY WithThisCheckTyped DEF KeyTyped
<1> HIDE DEF y
<1>2. ASSUME NEW n \in 1 .. Limit + 1 PROVE y[n] <= g[n]
  <2>1. g[n] \in Nat /\ z[n] \in Nat /\ z[n] <= g[n]
    BY <1>1, LimitAssumption DEF KeyTyped, History, Age, Members, InRedis, Recorded
  <2>2. CASE n = 1
    BY <1>1, <2>1, <2>2
  <2>3. CASE n # 1
    <3>1. n \in 2 .. Limit + 1 /\ n - 1 \in 1 .. Limit + 1 /\ n - 1 <= n
      BY <2>3, LimitAssumption
    <3>2. y[n] = z[n - 1] /\ z[n - 1] <= z[n] /\ z[n - 1] \in Nat
      BY <1>1, <3>1, LimitAssumption DEF Ordered, Members
    <3>. QED
      BY <2>1, <3>2
  <2>. QED
    BY <2>2, <2>3
<1>. QED
  BY <1>1, <1>2 DEF KeyOK, KeyTyped, InRedis, Recorded, y

(* A check that is let through is the latest of both.                       *)
LEMMA AdmittedInRedis ==
  ASSUME NEW b, NEW z, NEW g, NEW v, KeyTyped(b, z, g, v), InRedis(b, z, g),
         ~Over(WithThisCheck(z))
  PROVE  KeyOK(TRUE, b, WithThisCheck(z), Shifted(g), "admitted")
<1> DEFINE y == WithThisCheck(z)
           h == Shifted(g)
<1>1. /\ h \in History /\ Ordered(h) /\ y \in Members /\ Ordered(y) /\ y[1] = 0
      /\ \A n \in 2 .. Limit + 1 : y[n] = z[n - 1]
  BY ShiftedIsHistory, WithThisCheckTyped DEF KeyTyped
<1>2. h[1] = 0 /\ \A n \in 2 .. Limit + 1 : h[n] = g[n - 1]
  BY LimitAssumption DEF Shifted
<1>3. ~(y[Limit + 1] < Window)
  BY DEF Over
<1> HIDE DEF y, h
<1>4. ASSUME NEW n \in 1 .. Limit + 1 PROVE y[n] <= h[n]
  <2>1. CASE n = 1
    BY <1>1, <1>2, <2>1
  <2>2. CASE n # 1
    <3>1. n \in 2 .. Limit + 1 /\ n - 1 \in 1 .. Limit + 1
      BY <2>2, LimitAssumption
    <3>. QED
      BY <1>1, <1>2, <3>1 DEF InRedis, Recorded
  <2>. QED
    BY <2>1, <2>2
<1>5. h[Limit + 1] >= Window
  <2>1. Limit + 1 \in 1 .. Limit + 1
    BY LimitAssumption
  <2>2. y[Limit + 1] \in Nat /\ h[Limit + 1] \in Nat /\ y[Limit + 1] <= h[Limit + 1]
    BY <1>1, <1>4, <2>1, LimitAssumption DEF Members, History, Age
  <2>. QED
    BY <1>3, <2>2, LimitAssumption
<1>6. KeyTyped(b, y, h, "admitted")
  BY <1>1 DEF KeyTyped, Verdict
<1>. QED
  BY <1>4, <1>5, <1>6 DEF KeyOK, InRedis, Recorded, y, h

(* A tick later.                                                            *)
LEMMA OlderIsLater ==
  ASSUME NEW most \in Nat, NEW a \in 0 .. most
  PROVE  Older(a, most) \in 0 .. most /\ Older(a, most) >= a /\ Older(a, most) <= a + 1
         /\ (Older(a, most) < most => Older(a, most) = a + 1)
  BY DEF Older

LEMMA SameInterval == ASSUME NEW m \in Nat, NEW n \in Nat, 1 .. m = 1 .. n PROVE m = n
<1>1. m > 0 => m \in 1 .. n
  OBVIOUS
<1>2. n > 0 => n \in 1 .. m
  OBVIOUS
<1>. QED
  BY <1>1, <1>2

LEMMA OneTickLater ==
  ASSUME NEW r \in BOOLEAN, NEW b \in Seq(Age), NEW z, NEW g, NEW v, KeyOK(r, b, z, g, v)
  PROVE  LET c == [i \in DOMAIN b |-> Older(b[i], Window + 1)]
             y == [n \in 1 .. Limit + 1 |-> Older(z[n], Window)]
             h == [n \in 1 .. Limit + 1 |-> Older(g[n], Window + 1)]
         IN  /\ c \in Seq(Age) /\ y \in Members /\ h \in History
             /\ KeyOK(r, c, y, h, "none")
<1> DEFINE c == [i \in DOMAIN b |-> Older(b[i], Window + 1)]
           y == [n \in 1 .. Limit + 1 |-> Older(z[n], Window)]
           h == [n \in 1 .. Limit + 1 |-> Older(g[n], Window + 1)]
<1>0. KeyTyped(b, z, g, v) /\ IF r THEN InRedis(b, z, g) ELSE InMemory(b, g, v)
  BY DEF KeyOK
<1>1. /\ Len(b) \in Nat /\ DOMAIN b = 1 .. Len(b) /\ Len(b) <= Limit
      /\ \A i \in 1 .. Len(b) : b[i] \in Age
      /\ \A n \in 1 .. Limit + 1 : g[n] \in Age
  BY <1>0, LenProperties, ElementOfSeq DEF KeyTyped, History
<1>2. \A a \in Age : Older(a, Window + 1) \in Age /\ Older(a, Window + 1) >= a
  <2>1. Window + 1 \in Nat
    BY LimitAssumption
  <2>. QED
    BY <2>1, OlderIsLater DEF Age
<1>3. c \in Seq(Age) /\ Len(c) = Len(b)
  <2>1. c \in [1 .. Len(b) -> Age]
    BY <1>1, <1>2
  <2> HIDE DEF c
  <2>2. c \in Seq(Age)
    BY <1>1, <2>1, SeqDef
  <2>3. DOMAIN c = 1 .. Len(c) /\ DOMAIN c = 1 .. Len(b) /\ Len(c) \in Nat
    BY <2>1, <2>2, LenProperties
  <2>. QED
    BY <1>1, <2>2, <2>3, SameInterval
<1>4. y \in Members
  <2>1. z \in Members /\ \A a \in 0 .. Window : Older(a, Window) \in 0 .. Window
    BY <1>0, LimitAssumption, OlderIsLater DEF KeyTyped
  <2>. QED
    BY <2>1 DEF Members
<1>y. Ordered(y)
  <2>1. \A a1, a2 \in 0 .. Window : a1 <= a2 => Older(a1, Window) <= Older(a2, Window)
    BY LimitAssumption DEF Older
  <2>2. Ordered(z) /\ \A n \in 1 .. Limit + 1 : z[n] \in 0 .. Window
    BY <1>0 DEF KeyTyped, Members
  <2>. QED
    BY <2>1, <2>2 DEF Ordered
<1>5. h \in History
  BY <1>1, <1>2 DEF History
<1>6. Ordered(h)
  <2>1. \A a1, a2 \in Age : a1 <= a2 => Older(a1, Window + 1) <= Older(a2, Window + 1)
    BY LimitAssumption DEF Older, Age
  <2>. QED
    BY <1>0, <1>1, <2>1 DEF Ordered, KeyTyped
<1>7. \A i \in 1 .. Len(b) : c[i] = Older(b[i], Window + 1)
  BY <1>1
<1>8. \A n \in 1 .. Limit + 1 : h[n] = Older(g[n], Window + 1)
  OBVIOUS
<1>9. KeyTyped(c, y, h, "none")
  <2> HIDE DEF c, y, h
  <2>. QED
    BY <1>0, <1>1, <1>3, <1>4, <1>5, <1>6, <1>y DEF KeyTyped, Verdict
<1>10. CASE r = FALSE
  <2>0. DequeIsHistory(b, g)
    BY <1>0, <1>10 DEF InMemory
  <2> HIDE DEF c, h
  <2>1. ASSUME NEW i \in 1 .. Len(c) PROVE c[i] = h[Len(c) + 1 - i]
    <3>1. i \in 1 .. Len(b) /\ Len(b) + 1 - i \in 1 .. Limit + 1 /\ Len(c) + 1 - i = Len(b) + 1 - i
      BY <1>1, <1>3, LimitAssumption
    <3>2. b[i] = g[Len(b) + 1 - i]
      BY <2>0, <3>1 DEF DequeIsHistory
    <3>. QED
      BY <1>7, <1>8, <3>1, <3>2, Zenon
  <2>2. ASSUME NEW n \in Len(c) + 1 .. Limit + 1 PROVE h[n] > Window
    <3>1. n \in 1 .. Limit + 1 /\ n \in Len(b) + 1 .. Limit + 1
      BY <1>1, <1>3
    <3>2. g[n] > Window /\ g[n] \in Age /\ Older(g[n], Window + 1) >= g[n]
          /\ Older(g[n], Window + 1) \in Age
      BY <1>1, <1>2, <2>0, <3>1 DEF DequeIsHistory
    <3>. QED
      BY <1>8, <3>1, <3>2, LimitAssumption DEF Age
  <2>3. DequeIsHistory(c, h)
    BY <2>1, <2>2 DEF DequeIsHistory
  <2>. QED
    BY <1>3, <1>4, <1>5, <1>9, <1>10, <2>3 DEF KeyOK, InMemory, c, h
<1>11. CASE r = TRUE
  <2>0. b = <<>> /\ Recorded(z, g) /\ g[Limit + 1] >= Window /\ z \in Members
    BY <1>0, <1>11 DEF InRedis, KeyTyped
  <2>1. c = <<>>
    BY <1>3, <2>0, EmptySeq
  <2>2. h[Limit + 1] >= Window
    <3>1. Limit + 1 \in 1 .. Limit + 1 /\ g[Limit + 1] \in Age
      BY <1>1, LimitAssumption
    <3>. QED
      BY <1>2, <1>8, <2>0, <3>1, LimitAssumption DEF Age
  <2>3. ASSUME NEW n \in 1 .. Limit + 1 PROVE y[n] <= h[n]
    <3>1. z[n] \in 0 .. Window /\ g[n] \in 0 .. Window + 1 /\ z[n] <= g[n]
      BY <1>1, <2>0 DEF Recorded, Members, Age
    <3>2. y[n] = Older(z[n], Window) /\ h[n] = Older(g[n], Window + 1)
      OBVIOUS
    <3> HIDE DEF y, h
    <3>. QED
      BY <3>1, <3>2, LimitAssumption DEF Older
  <2>4. Recorded(y, h)
    BY <2>3 DEF Recorded
  <2>. QED
    BY <1>3, <1>4, <1>5, <1>9, <1>11, <2>1, <2>2, <2>4 DEF KeyOK, InRedis, c, y, h
<1>. QED
  BY <1>3, <1>4, <1>5, <1>10, <1>11

(* Without a history.                                                       *)
LEMMA FreshKey ==
  ASSUME NEW r \in BOOLEAN, NEW z \in Members, Ordered(z)
  PROVE  /\ [n \in 1 .. Limit + 1 |-> Window + 1] \in History
         /\ KeyOK(r, <<>>, z, [n \in 1 .. Limit + 1 |-> Window + 1], "none")
<1> DEFINE g == [n \in 1 .. Limit + 1 |-> Window + 1]
<1>1. g \in History /\ \A n \in 1 .. Limit + 1 : g[n] = Window + 1
  BY LimitAssumption DEF History, Age
<1>2. <<>> \in Seq(Age) /\ Len(<<>>) = 0
  BY EmptySeq
<1> HIDE DEF g
<1>3. Ordered(g) /\ Recorded(z, g) /\ g[Limit + 1] >= Window /\ \A n \in 1 .. Limit + 1 : g[n] > Window
  BY <1>1, LimitAssumption DEF Ordered, Recorded, Members
<1>4. KeyTyped(<<>>, z, g, "none")
  BY <1>1, <1>2, <1>3, LimitAssumption DEF KeyTyped, Verdict
<1>5. DequeIsHistory(<<>>, g)
  BY <1>2, <1>3 DEF DequeIsHistory
<1>6. KeyOK(r, <<>>, z, g, "none")
  BY <1>3, <1>4, <1>5 DEF KeyOK, InMemory, InRedis
<1>. QED
  BY <1>1, <1>6 DEF g

------------------------------------------------------------------------------
LEMMA InitIInv == Init => IInv
<1> SUFFICES ASSUME Init PROVE IInv
  OBVIOUS
<1> DEFINE none == [n \in 1 .. Limit + 1 |-> Window + 1]
           empty == [n \in 1 .. Limit + 1 |-> Window]
<1>1. <<>> \in Seq(Age) /\ empty \in Members /\ Ordered(empty) /\ "none" \in Verdict
  BY EmptySeq, LimitAssumption DEF Verdict, Members, Ordered
<1> HIDE DEF empty
<1>2. none \in History /\ \A r \in BOOLEAN : KeyOK(r, <<>>, empty, none, "none")
  BY <1>1, FreshKey
<1> HIDE DEF none
<1>3. /\ redis \in BOOLEAN /\ bucket = [k \in Key |-> <<>>] /\ zset = [k \in Key |-> empty]
      /\ granted = [k \in Key |-> none] /\ verdict = [k \in Key |-> "none"]
  BY DEF Init, NoneGranted, none, empty
<1>. QED
  BY <1>1, <1>2, <1>3 DEF IInv

(* A check of a key leaves the others alone.                                *)
LEMMA KeyStep ==
  ASSUME IInv, NEW k \in Key, redis' = redis,
         NEW b \in Seq(Age), bucket' = [bucket EXCEPT ![k] = b],
         NEW z \in Members, zset' = [zset EXCEPT ![k] = z],
         NEW g \in History, granted' = [granted EXCEPT ![k] = g],
         NEW v \in Verdict, verdict' = [verdict EXCEPT ![k] = v],
         KeyOK(redis, b, z, g, v)
  PROVE  IInv'
<1>1. /\ redis' \in BOOLEAN
      /\ bucket' \in [Key -> Seq(Age)] /\ zset' \in [Key -> Members]
      /\ granted' \in [Key -> History] /\ verdict' \in [Key -> Verdict]
  BY DEF IInv
<1>2. ASSUME NEW j \in Key
      PROVE  KeyOK(redis', bucket'[j], zset'[j], granted'[j], verdict'[j])
  <2>1. CASE j = k
    <3>1. bucket'[j] = b /\ zset'[j] = z /\ granted'[j] = g /\ verdict'[j] = v
      BY <2>1 DEF IInv
    <3>. QED
      BY <3>1
  <2>2. CASE j # k
    <3>1. /\ bucket'[j] = bucket[j] /\ zset'[j] = zset[j]
          /\ granted'[j] = granted[j] /\ verdict'[j] = verdict[j]
      BY <2>2 DEF IInv
    <3>. QED
      BY <3>1 DEF IInv
  <2>. QED
    BY <2>1, <2>2
<1>. QED
  BY <1>1, <1>2 DEF IInv

LEMMA CheckKeepsIInv == ASSUME IInv, NEW k \in Key, Check(k) PROVE IInv'
<1> DEFINE b == bucket[k]
           z == zset[k]
           g == granted[k]
           v == verdict[k]
<1>0. /\ redis \in BOOLEAN /\ b \in Seq(Age) /\ z \in Members /\ g \in History
      /\ KeyOK(redis, b, z, g, v)
      /\ bucket = [bucket EXCEPT ![k] = b] /\ zset = [zset EXCEPT ![k] = z]
      /\ granted = [granted EXCEPT ![k] = g]
  BY DEF IInv
<1>t. KeyTyped(b, z, g, v) /\ IF redis THEN InRedis(b, z, g) ELSE InMemory(b, g, v)
  BY <1>0 DEF KeyOK
<1>v. {"admitted", "refused", "error"} \subseteq Verdict
  BY DEF Verdict
<1>1. CASE MemoryAdmits(k)
  <2> DEFINE b1 == Append(Pruned(b), 0)
             g1 == Shifted(g)
  <2>1. /\ redis = FALSE /\ redis' = redis /\ ~Full(Pruned(b)) /\ bucket' = [bucket EXCEPT ![k] = b1]
        /\ zset' = zset /\ granted' = [granted EXCEPT ![k] = g1]
        /\ verdict' = [verdict EXCEPT ![k] = "admitted"]
    BY <1>0, <1>1 DEF MemoryAdmits, Grant, Say, Shifted
  <2>2. b1 \in Seq(Age) /\ KeyOK(FALSE, b1, z, g1, "admitted")
    BY <1>0, <1>t, <2>1, AdmittedInMemory
  <2>3. g1 \in History
    BY <1>0, <1>t, ShiftedIsHistory DEF KeyTyped
  <2> HIDE DEF b, z, g, v, b1, g1
  <2>. QED
    BY <1>0, <1>v, <2>1, <2>2, <2>3, KeyStep
<1>2. CASE MemoryRefuses(k)
  <2> DEFINE b1 == Pruned(b)
  <2>1. /\ redis = FALSE /\ redis' = redis /\ Full(Pruned(b)) /\ bucket' = [bucket EXCEPT ![k] = b1]
        /\ zset' = zset /\ granted' = granted /\ verdict' = [verdict EXCEPT ![k] = "refused"]
    BY <1>0, <1>2 DEF MemoryRefuses, Refusing, Say
  <2>2. b1 \in Seq(Age) /\ KeyOK(FALSE, b1, z, g, "refused")
    BY <1>0, <1>t, <2>1, RefusedInMemory
  <2> HIDE DEF b, z, g, v, b1
  <2>. QED
    BY <1>0, <1>v, <2>1, <2>2, KeyStep
<1>3. CASE RedisChecks(k)
  <2> DEFINE z1 == WithThisCheck(z)
             g1 == Shifted(g)
  <2>1. /\ redis = TRUE /\ redis' = redis /\ bucket' = bucket
        /\ zset' = [zset EXCEPT ![k] = z1]
        /\ \/ Over(z1) /\ granted' = granted /\ verdict' = [verdict EXCEPT ![k] = "refused"]
           \/ ~Over(z1) /\ granted' = [granted EXCEPT ![k] = g1]
              /\ verdict' = [verdict EXCEPT ![k] = "admitted"]
    BY <1>0, <1>3 DEF RedisChecks, Grant, Say, Shifted
  <2>2. z1 \in Members
    BY <1>t, WithThisCheckTyped DEF KeyTyped
  <2>3. KeyOK(TRUE, b, z1, g, "refused")
    BY <1>t, <1>v, <2>1, StillRecorded
  <2>4. g1 \in History
    BY <1>0, <1>t, ShiftedIsHistory DEF KeyTyped
  <2>5. ~Over(z1) => KeyOK(TRUE, b, z1, g1, "admitted")
    BY <1>t, <2>1, AdmittedInRedis
  <2> HIDE DEF b, z, g, v, z1, g1
  <2>6. CASE Over(z1)
    BY <1>0, <1>v, <2>1, <2>2, <2>3, <2>6, KeyStep
  <2>7. CASE ~Over(z1)
    BY <1>0, <1>v, <2>1, <2>2, <2>4, <2>5, <2>7, KeyStep
  <2>. QED
    BY <2>6, <2>7
<1>4. CASE RedisFails(k)
  <2>1. PICK z1 \in {z, WithThisCheck(z)} : zset' = [zset EXCEPT ![k] = z1]
    BY <1>4 DEF RedisFails
  <2>2. /\ redis = TRUE /\ redis' = redis /\ bucket' = bucket /\ granted' = granted
        /\ verdict' = [verdict EXCEPT ![k] = "error"]
    BY <1>0, <1>4 DEF RedisFails, Say
  <2>3. WithThisCheck(z) \in Members
    BY <1>t, WithThisCheckTyped DEF KeyTyped
  <2>4. KeyOK(TRUE, b, WithThisCheck(z), g, "error")
    BY <1>t, <1>v, <2>2, StillRecorded
  <2>5. KeyOK(TRUE, b, z, g, "error")
    BY <1>t, <1>v, <2>2 DEF KeyOK, KeyTyped
  <2> HIDE DEF b, z, g, v
  <2>6. z1 \in Members /\ KeyOK(TRUE, b, z1, g, "error")
    BY <1>0, <2>1, <2>3, <2>4, <2>5
  <2>. QED
    BY <1>0, <1>v, <2>1, <2>2, <2>6, KeyStep
<1>. QED
  BY <1>1, <1>2, <1>3, <1>4 DEF Check

LEMMA TickKeepsIInv == ASSUME IInv, Tick PROVE IInv'
<1>1. ASSUME NEW k \in Key
      PROVE  /\ bucket'[k] \in Seq(Age) /\ zset'[k] \in Members
             /\ granted'[k] \in History /\ verdict'[k] = "none"
             /\ KeyOK(redis', bucket'[k], zset'[k], granted'[k], "none")
  <2>1. /\ redis \in BOOLEAN /\ bucket[k] \in Seq(Age)
        /\ KeyOK(redis, bucket[k], zset[k], granted[k], verdict[k])
    BY DEF IInv
  <2>2. /\ redis' = redis /\ verdict'[k] = "none"
        /\ bucket'[k] = [i \in DOMAIN bucket[k] |-> Older(bucket[k][i], Window + 1)]
        /\ zset'[k] = [n \in 1 .. Limit + 1 |-> Older(zset[k][n], Window)]
        /\ granted'[k] = [n \in 1 .. Limit + 1 |-> Older(granted[k][n], Window + 1)]
    BY DEF Tick
  <2> DEFINE b == bucket[k]
             z == zset[k]
             g == granted[k]
             v == verdict[k]
             c == [i \in DOMAIN b |-> Older(b[i], Window + 1)]
             y == [n \in 1 .. Limit + 1 |-> Older(z[n], Window)]
             h == [n \in 1 .. Limit + 1 |-> Older(g[n], Window + 1)]
  <2> HIDE DEF b, z, g, v
  <2>3. /\ c \in Seq(Age) /\ y \in Members /\ h \in History
        /\ KeyOK(redis, c, y, h, "none")
    BY <2>1, OneTickLater, Zenon DEF b, z, g, v
  <2>4. bucket'[k] = c /\ zset'[k] = y /\ granted'[k] = h
    BY <2>2 DEF b, z, g
  <2> HIDE DEF c, y, h
  <2>. QED
    BY <2>2, <2>3, <2>4
<1>2. /\ redis' \in BOOLEAN
      /\ bucket' \in [Key -> Seq(Age)] /\ zset' \in [Key -> Members]
      /\ granted' \in [Key -> History] /\ verdict' \in [Key -> Verdict]
  BY <1>1 DEF Tick, IInv, Verdict
<1>. QED
  BY <1>1, <1>2 DEF IInv

LEMMA RestartKeepsIInv == ASSUME IInv, Restart PROVE IInv'
<1> DEFINE none == [n \in 1 .. Limit + 1 |-> Window + 1]
<1>1. <<>> \in Seq(Age) /\ Len(<<>>) = 0 /\ "none" \in Verdict
  BY EmptySeq DEF Verdict
<1>2. /\ none \in History
      /\ \A r \in BOOLEAN, z \in Members : Ordered(z) => KeyOK(r, <<>>, z, none, "none")
  <2>1. none \in History
    BY LimitAssumption DEF History, Age
  <2>. QED
    BY <2>1, FreshKey
<1>3. NoneGranted = [k \in Key |-> none]
  BY DEF NoneGranted
<1> HIDE DEF none
<1>4. /\ redis' \in BOOLEAN /\ bucket' = [k \in Key |-> <<>>] /\ zset' = zset
      /\ verdict' = [k \in Key |-> "none"]
      /\ zset' \in [Key -> Members]
  BY DEF Restart, IInv
<1>5. /\ bucket' \in [Key -> Seq(Age)] /\ verdict' \in [Key -> Verdict]
      /\ \A k \in Key : /\ bucket'[k] = <<>> /\ verdict'[k] = "none"
                         /\ zset'[k] \in Members /\ Ordered(zset'[k])
  BY <1>1, <1>4 DEF IInv, KeyOK, KeyTyped
<1>6. CASE redis /\ redis'
  <2>1. granted' = granted /\ redis = TRUE /\ redis' = TRUE
    BY <1>4, <1>6 DEF Restart, IInv
  <2>2. ASSUME NEW k \in Key PROVE KeyOK(TRUE, <<>>, zset[k], granted[k], "none")
    <3>1. KeyOK(TRUE, bucket[k], zset[k], granted[k], verdict[k])
      BY <2>1 DEF IInv
    <3>. QED
      BY <1>1, <3>1 DEF KeyOK, KeyTyped, InRedis
  <2>. QED
    BY <1>4, <1>5, <2>1, <2>2 DEF IInv
<1>7. CASE ~(redis /\ redis')
  <2>1. granted' = [k \in Key |-> none]
    BY <1>3, <1>7 DEF Restart
  <2>2. none \in History
    BY <1>2
  <2>3. granted' \in [Key -> History] /\ \A k \in Key : granted'[k] = none
    BY <2>1, <2>2
  <2>4. \A k \in Key : KeyOK(redis', <<>>, zset'[k], none, "none")
    BY <1>2, <1>4, <1>5
  <2>. QED
    BY <1>4, <1>5, <2>3, <2>4 DEF IInv
<1>. QED
  BY <1>6, <1>7

LEMMA StepKeepsIInv == IInv /\ [Next]_vars => IInv'
<1> SUFFICES ASSUME IInv, [Next]_vars PROVE IInv'
  OBVIOUS
<1>1. CASE UNCHANGED vars
  BY <1>1 DEF vars, IInv
<1>. QED
  BY <1>1, CheckKeepsIInv, TickKeepsIInv, RestartKeepsIInv DEF Next

LEMMA IInvShows == IInv => TypeOK /\ AtMostLimit /\ RefusedOnlyWhenFull
<1> SUFFICES ASSUME IInv PROVE TypeOK /\ AtMostLimit /\ RefusedOnlyWhenFull
  OBVIOUS
<1>1. TypeOK
  BY DEF IInv, KeyOK, KeyTyped, TypeOK, Age, History, Members
<1>2. ASSUME NEW k \in Key PROVE granted[k][Limit + 1] > IF redis THEN Window - 1 ELSE Window
  <2>1. /\ KeyOK(redis, bucket[k], zset[k], granted[k], verdict[k])
        /\ Len(bucket[k]) \in Nat /\ Len(bucket[k]) <= Limit
        /\ granted[k][Limit + 1] \in Age /\ redis \in BOOLEAN
    BY LimitAssumption, LenProperties DEF IInv, KeyOK, KeyTyped, History
  <2>2. CASE redis
    BY <2>1, <2>2, LimitAssumption DEF KeyOK, InRedis, Age
  <2>3. CASE ~redis
    BY <2>1, <2>3, LimitAssumption DEF KeyOK, InMemory, DequeIsHistory
  <2>. QED
    BY <2>2, <2>3
<1>3. RefusedOnlyWhenFull
  BY DEF IInv, KeyOK, InMemory, RefusedOnlyWhenFull
<1>. QED
  BY <1>1, <1>2, <1>3 DEF AtMostLimit

LEMMA IInvHolds == Spec => []IInv
  BY InitIInv, StepKeepsIInv, PTL DEF Spec

(* The deques, the sets and the history are what they are taken for; in     *)
(* particular no deque outgrows the limit (TypeOK).                         *)
THEOREM TypeCorrect == Spec => []TypeOK
  BY IInvHolds, IInvShows, PTL

(* No key gets through more often than its limit in any 60 seconds, for any *)
(* limit and with either backend, through failures of Redis and restarts    *)
(* (rate_limiter.py:33-57).                                                 *)
THEOREM NobodyExceedsTheLimit == Spec => []AtMostLimit
  BY IInvHolds, IInvShows, PTL

(* In memory a check is refused only after the limit has been let through   *)
(* in the last 60 seconds (rate_limiter.py:51-57).                          *)
THEOREM RefusalsAreDue == Spec => []RefusedOnlyWhenFull
  BY IInvHolds, IInvShows, PTL
==============================================================================
