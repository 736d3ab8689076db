----------------------------- MODULE LedgerProofs -----------------------------
(***************************************************************************)
(* Ledger, for every budget and every cost bound: if at no moment more     *)
(* than K requests are at work, however many there are in all, the budgets *)
(* are overshot by less than what K requests can cost.                     *)
(***************************************************************************)
EXTENDS Ledger, FiniteSetTheorems, TLAPS

Working == {r \in Request : phase[r] # "out"}
AtMost(K) == IsFiniteSet(Working) /\ Cardinality(Working) <= K

WithinBudgets(K) ==
    /\ full < DailyBudget + K * MaxCost
    /\ onExceeded = "reject" => full + older < MonthlyBudget + K * MaxCost

(* Requests at work whose cost is still to come on top of the spend the     *)
(* decision about them was made on: for the daily budget from the moment    *)
(* the daily spend was read, for the monthly one from the decision.         *)
Pending == {r \in Request : phase[r] \in {"under", "admitted"}}
Admitted == {r \in Request : phase[r] = "admitted"}

(* The inductive strengthenings: the spend, plus the most those requests    *)
(* can still add, stays below the bound.                                    *)
DailyInv(K) == full + MaxCost * Cardinality(Pending) < DailyBudget + K * MaxCost

MonthlyInv(K) ==
    onExceeded = "reject" =>
        full + older + MaxCost * Cardinality(Admitted) < MonthlyBudget + K * MaxCost

------------------------------------------------------------------------------
(* More requests can cost more.                                             *)
LEMMA Monotone ==
    ASSUME NEW c \in Nat, NEW m \in Nat, NEW n \in Nat, m <= n
    PROVE  c * m \in Nat /\ c * n \in Nat /\ c * m <= c * n
<1>1. PICK d \in Nat : n = m + d
  BY SMT
<1>2. c * (m + d) = c * m + c * d /\ c * d \in Nat /\ c * m \in Nat
  BY SMT
<1>3. QED
  BY <1>1, <1>2, SMT

LEMMA OneLess ==
    ASSUME NEW c \in Nat, NEW m \in Nat, NEW n \in Nat, n = m + 1
    PROVE  c * n = c * m + c /\ c * m \in Nat
BY SMT

(* If the requests in S can at most add up to what is left below the        *)
(* bound, so can those of a subset after the spend has gone down or stayed. *)
LEMMA Shrinks ==
    ASSUME NEW S, IsFiniteSet(S), NEW T \in SUBSET S,
           NEW s \in Nat, NEW t \in Nat, NEW bound \in Int, t <= s,
           s + MaxCost * Cardinality(S) < bound
    PROVE  t + MaxCost * Cardinality(T) < bound
<1>1. /\ Cardinality(S) \in Nat /\ Cardinality(T) \in Nat
      /\ Cardinality(T) <= Cardinality(S)
  BY FS_Subset, FS_CardinalityType
<1>2. /\ MaxCost * Cardinality(T) \in Nat /\ MaxCost * Cardinality(S) \in Nat
      /\ MaxCost * Cardinality(T) <= MaxCost * Cardinality(S)
  BY <1>1, Monotone, MaxCostAssumption
<1>3. QED
  BY <1>2, SMT

(* The cost of one of them moves from what may come to what was spent.      *)
LEMMA Spends ==
    ASSUME NEW S, IsFiniteSet(S), NEW r \in S, NEW s \in Nat, NEW c \in 0 .. MaxCost,
           NEW bound \in Int, s + MaxCost * Cardinality(S) < bound
    PROVE  s + c + MaxCost * Cardinality(S \ {r}) < bound
<1>1. /\ Cardinality(S) \in Nat /\ Cardinality(S \ {r}) \in Nat
      /\ Cardinality(S) = Cardinality(S \ {r}) + 1
  <2>1. Cardinality(S) \in Nat
    BY FS_CardinalityType
  <2>2. IsFiniteSet(S \ {r}) /\ Cardinality(S \ {r}) = Cardinality(S) - 1
    BY FS_RemoveElement
  <2>3. Cardinality(S \ {r}) \in Nat
    BY <2>2, FS_CardinalityType
  <2>4. QED
    BY <2>1, <2>2, <2>3
<1>2. /\ MaxCost * Cardinality(S) = MaxCost * Cardinality(S \ {r}) + MaxCost
      /\ MaxCost * Cardinality(S \ {r}) \in Nat
  BY <1>1, OneLess, MaxCostAssumption
<1>3. QED
  BY <1>2, MaxCostAssumption, SMT

(* Whoever of the K is pending, a spend below the budget is far enough      *)
(* below.                                                                   *)
LEMMA Fits ==
    ASSUME NEW K \in Nat, AtMost(K), NEW S \in SUBSET Working,
           NEW s \in Nat, NEW b \in Nat, s < b
    PROVE  s + MaxCost * Cardinality(S) < b + K * MaxCost
<1>1. Cardinality(S) \in Nat /\ Cardinality(S) <= K
  <2>1. /\ IsFiniteSet(S) /\ Cardinality(S) <= Cardinality(Working)
        /\ Cardinality(Working) \in Nat /\ Cardinality(Working) <= K
    BY FS_Subset, FS_CardinalityType DEF AtMost
  <2>2. Cardinality(S) \in Nat
    BY <2>1, FS_CardinalityType
  <2>3. QED
    BY <2>1, <2>2
<1>2. /\ MaxCost * Cardinality(S) \in Nat /\ MaxCost * K \in Nat
      /\ MaxCost * Cardinality(S) <= MaxCost * K
  BY <1>1, Monotone, MaxCostAssumption
<1>3. MaxCost * K = K * MaxCost
  BY MaxCostAssumption, SMT
<1>4. QED
  BY <1>2, <1>3, SMT

LEMMA BoundType ==
    ASSUME NEW K \in Nat
    PROVE  DailyBudget + K * MaxCost \in Int /\ MonthlyBudget + K * MaxCost \in Int
<1>1. K * MaxCost \in Nat
  BY MaxCostAssumption, SMT
<1>2. QED
  BY <1>1, BudgetAssumption

(* The setting is never changed.                                            *)
LEMMA ModeStays == [Next]_vars => onExceeded' = onExceeded
BY DEF Next, vars, ReadDaily, ReadMonthly, Charge, Abandon, AgeDay, AgeMonth, Restart

------------------------------------------------------------------------------
LEMMA TypeInvariant == Spec => []TypeOK
<1>1. Init => TypeOK
  BY DEF Init, TypeOK, Phase
<1>2. TypeOK /\ [Next]_vars => TypeOK'
  <2> SUFFICES ASSUME TypeOK, [Next]_vars PROVE TypeOK'
    OBVIOUS
  <2> USE DEF TypeOK, Phase
  <2>1. ASSUME NEW r \in Request, ReadDaily(r) PROVE TypeOK'
    BY <2>1 DEF ReadDaily
  <2>2. ASSUME NEW r \in Request, ReadMonthly(r) PROVE TypeOK'
    BY <2>2 DEF ReadMonthly, Exceeded
  <2>3. ASSUME NEW r \in Request, NEW c \in 0 .. MaxCost, Charge(r, c) PROVE TypeOK'
    BY <2>3, MaxCostAssumption DEF Charge
  <2>4. ASSUME NEW r \in Request, Abandon(r) PROVE TypeOK'
    BY <2>4 DEF Abandon
  <2>5. ASSUME NEW f \in 0 .. full, NEW c \in 0 .. cheap, AgeDay(f, c) PROVE TypeOK'
    BY <2>5 DEF AgeDay
  <2>6. ASSUME NEW c \in 0 .. older, AgeMonth(c) PROVE TypeOK'
    BY <2>6 DEF AgeMonth
  <2>7. CASE Restart
    BY <2>7 DEF Restart
  <2>8. CASE UNCHANGED vars
    BY <2>8 DEF vars
  <2>9. QED
    BY <2>1, <2>2, <2>3, <2>4, <2>5, <2>6, <2>7, <2>8 DEF Next
<1>3. QED
  BY <1>1, <1>2, PTL DEF Spec

(* The state of the ledger is well-typed, whatever the requests do, and in  *)
(* "reject" mode no request is downgraded (router.py: check_budget,         *)
(* decide_route).                                                           *)
THEOREM TypeCorrect == Spec => []TypeOK
BY TypeInvariant

------------------------------------------------------------------------------
LEMMA DailyInit == ASSUME NEW K \in Nat, AtMost(K), Init PROVE DailyInv(K)
<1>1. Pending \in SUBSET Working /\ full = 0
  BY DEF Init, Pending, Working
<1>2. full < DailyBudget
  BY <1>1, BudgetAssumption
<1>3. QED
  BY <1>1, <1>2, Fits, BudgetAssumption DEF DailyInv

LEMMA FitsNext ==
    ASSUME NEW K \in Nat, AtMost(K)', NEW S, S \in SUBSET Working',
           NEW s \in Nat, NEW b \in Nat, s < b
    PROVE  s + MaxCost * Cardinality(S) < b + K * MaxCost
<1>1. Cardinality(S) \in Nat /\ Cardinality(S) <= K
  <2>1. IsFiniteSet(Working') /\ Cardinality(Working') <= K
    BY DEF AtMost
  <2>2. /\ IsFiniteSet(S) /\ Cardinality(S) <= Cardinality(Working')
        /\ Cardinality(Working') \in Nat
    BY <2>1, FS_Subset, FS_CardinalityType
  <2>3. Cardinality(S) \in Nat
    BY <2>2, FS_CardinalityType
  <2>4. QED
    BY <2>1, <2>2, <2>3
<1>2. /\ MaxCost * Cardinality(S) \in Nat /\ MaxCost * K \in Nat
      /\ MaxCost * Cardinality(S) <= MaxCost * K
  BY <1>1, Monotone, MaxCostAssumption
<1>3. MaxCost * K = K * MaxCost
  BY MaxCostAssumption, SMT
<1>4. QED
  BY <1>2, <1>3, SMT

LEMMA DailyStep ==
  ASSUME NEW K \in Nat, TypeOK, AtMost(K), AtMost(K)', DailyInv(K), [Next]_vars
  PROVE  DailyInv(K)'
<1>0. /\ full \in Nat /\ cheap \in Nat /\ IsFiniteSet(Pending)
      /\ DailyBudget + K * MaxCost \in Int
  <2>1. Pending \in SUBSET Working /\ IsFiniteSet(Working)
    BY DEF Pending, Working, AtMost
  <2>2. QED
    BY <2>1, BoundType, FS_Subset DEF TypeOK
<1>a. ASSUME NEW T \in SUBSET Pending, Pending' = T, full' \in Nat, full' <= full
      PROVE  DailyInv(K)'
  BY <1>a, <1>0, Shrinks DEF DailyInv
<1>b. ASSUME full' = full, full < DailyBudget PROVE DailyInv(K)'
  <2>1. Pending' \in SUBSET Working'
    BY DEF Pending, Working
  <2>2. full' + MaxCost * Cardinality(Pending') < DailyBudget + K * MaxCost
    BY <1>0, <1>b, <2>1, FitsNext, BudgetAssumption
  <2>3. QED
    BY <2>2 DEF DailyInv
<1>1. ASSUME NEW r \in Request, ReadDaily(r) PROVE DailyInv(K)'
  <2>1. CASE WithinDay
    <3>1. full' = full /\ full < DailyBudget
      BY <1>1, <2>1, <1>0, BudgetAssumption DEF ReadDaily, WithinDay
    <3>2. QED
      BY <3>1, <1>b
  <2>2. CASE ~WithinDay
    <3>1. Pending' = Pending /\ full' = full
      BY <1>1, <2>2 DEF ReadDaily, TypeOK, Pending
    <3>2. QED
      BY <3>1, <1>a, <1>0
  <2>3. QED BY <2>1, <2>2
<1>2. ASSUME NEW r \in Request, ReadMonthly(r) PROVE DailyInv(K)'
  <2>1. Pending' \in SUBSET Pending /\ full' = full
    BY <1>2 DEF ReadMonthly, Exceeded, TypeOK, Pending
  <2>2. QED
    BY <2>1, <1>a, <1>0
<1>3. ASSUME NEW r \in Request, NEW c \in 0 .. MaxCost, Charge(r, c) PROVE DailyInv(K)'
  <2>1. CASE phase[r] = "admitted"
    <3>1. Pending' = Pending \ {r} /\ full' = full + c /\ r \in Pending
      BY <1>3, <2>1 DEF Charge, TypeOK, Pending
    <3>2. QED
      BY <3>1, <1>0, Spends DEF DailyInv
  <2>2. CASE phase[r] # "admitted"
    <3>1. Pending' \in SUBSET Pending /\ full' = full
      BY <1>3, <2>2 DEF Charge, TypeOK, Pending
    <3>2. QED
      BY <3>1, <1>a, <1>0
  <2>3. QED BY <2>1, <2>2
<1>4. ASSUME NEW r \in Request, Abandon(r) PROVE DailyInv(K)'
  <2>1. Pending' \in SUBSET Pending /\ full' = full
    BY <1>4 DEF Abandon, TypeOK, Pending
  <2>2. QED
    BY <2>1, <1>a, <1>0
<1>5. ASSUME NEW f \in 0 .. full, NEW c \in 0 .. cheap, AgeDay(f, c) PROVE DailyInv(K)'
  <2>1. Pending' = Pending /\ full' = full - f
    BY <1>5 DEF AgeDay, Pending
  <2>2. full' \in Nat /\ full' <= full
    BY <2>1, <1>0
  <2>3. QED
    BY <2>1, <2>2, <1>a
<1>6. ASSUME NEW c \in 0 .. older, AgeMonth(c) PROVE DailyInv(K)'
  <2>1. Pending' = Pending /\ full' = full
    BY <1>6 DEF AgeMonth, Pending
  <2>2. QED
    BY <2>1, <1>a, <1>0
<1>7. CASE Restart
  <2>1. Pending' \in SUBSET Pending /\ full' = full
    BY <1>7 DEF Restart, TypeOK, Pending
  <2>2. QED
    BY <2>1, <1>a, <1>0
<1>8. CASE UNCHANGED vars
  <2>1. Pending' = Pending /\ full' = full
    BY <1>8 DEF vars, Pending
  <2>2. QED
    BY <2>1, <1>a, <1>0
<1>9. QED
  BY <1>1, <1>2, <1>3, <1>4, <1>5, <1>6, <1>7, <1>8 DEF Next

------------------------------------------------------------------------------
LEMMA MonthlyInit == ASSUME NEW K \in Nat, AtMost(K), Init PROVE MonthlyInv(K)
<1>1. /\ Admitted \in SUBSET Working
      /\ full + older \in Nat /\ full + older < MonthlyBudget
  BY BudgetAssumption DEF Init, Admitted, Working
<1>2. full + older + MaxCost * Cardinality(Admitted) < MonthlyBudget + K * MaxCost
  BY <1>1, Fits, BudgetAssumption
<1>3. QED
  BY <1>2 DEF MonthlyInv

(* Nothing is ever charged as downgraded in "reject" mode.                  *)
CheapInv == onExceeded = "reject" => cheap = 0

LEMMA CheapStep == TypeOK /\ CheapInv /\ [Next]_vars => CheapInv'
<1> SUFFICES ASSUME TypeOK, CheapInv, [Next]_vars, onExceeded = "reject" PROVE cheap' = 0
  BY ModeStays DEF CheapInv
<1>0. cheap = 0 /\ full \in Nat /\ \A r \in Request : phase[r] # "downgraded"
  BY DEF CheapInv, TypeOK
<1>1. ASSUME NEW r \in Request, NEW c \in 0 .. MaxCost, Charge(r, c) PROVE cheap' = 0
  BY <1>0, <1>1 DEF Charge
<1>2. ASSUME NEW f \in 0 .. full, NEW c \in 0 .. cheap, AgeDay(f, c) PROVE cheap' = 0
  <2>1. c = 0
    BY <1>0
  <2>2. QED
    BY <1>0, <1>2, <2>1 DEF AgeDay
<1>3. QED
  BY <1>0, <1>1, <1>2
     DEF Next, vars, ReadDaily, ReadMonthly, Abandon, AgeMonth, Restart

LEMMA NothingCheap == Spec => []CheapInv
<1>1. Init => CheapInv
  BY DEF Init, CheapInv
<1>2. QED
  BY <1>1, TypeInvariant, CheapStep, PTL DEF Spec

LEMMA MonthlyStep ==
  ASSUME NEW K \in Nat, TypeOK, CheapInv, AtMost(K), AtMost(K)', MonthlyInv(K),
         [Next]_vars
  PROVE  MonthlyInv(K)'
<1> SUFFICES ASSUME onExceeded = "reject" PROVE MonthlyInv(K)'
  BY ModeStays DEF MonthlyInv
<1>0. /\ full \in Nat /\ older \in Nat /\ cheap = 0 /\ full + older \in Nat
      /\ \A r \in Request : phase[r] # "downgraded"
      /\ IsFiniteSet(Admitted)
      /\ MonthlyBudget + K * MaxCost \in Int
      /\ full + older + MaxCost * Cardinality(Admitted) < MonthlyBudget + K * MaxCost
  <2>1. Admitted \in SUBSET Working /\ IsFiniteSet(Working)
    BY DEF Admitted, Working, AtMost
  <2>2. QED
    BY <2>1, BoundType, FS_Subset DEF TypeOK, CheapInv, MonthlyInv
<1>a. ASSUME NEW T \in SUBSET Admitted, Admitted' = T,
             full' + older' \in Nat, full' + older' <= full + older
      PROVE  MonthlyInv(K)'
  <2>1. full' + older' + MaxCost * Cardinality(T) < MonthlyBudget + K * MaxCost
    BY <1>a, <1>0, Shrinks
  <2>2. QED
    BY <2>1, <1>a DEF MonthlyInv
<1>1. ASSUME NEW r \in Request, ReadDaily(r) PROVE MonthlyInv(K)'
  <2>1. Admitted' \in SUBSET Admitted /\ full' + older' = full + older
    BY <1>1, <1>0 DEF ReadDaily, TypeOK, Admitted
  <2>2. QED
    BY <2>1, <1>a, <1>0
<1>2. ASSUME NEW r \in Request, ReadMonthly(r) PROVE MonthlyInv(K)'
  <2>1. full' + older' = full + older
    BY <1>2, <1>0 DEF ReadMonthly
  <2>2. CASE WithinMonth
    <3>1. full + older < MonthlyBudget
      BY <2>2, <1>0, BudgetAssumption DEF WithinMonth
    <3>2. Admitted' \in SUBSET Working'
      BY DEF Admitted, Working
    <3>3. full + older + MaxCost * Cardinality(Admitted') < MonthlyBudget + K * MaxCost
      BY <1>0, <3>1, <3>2, FitsNext, BudgetAssumption
    <3>4. QED
      BY <2>1, <3>3 DEF MonthlyInv
  <2>3. CASE ~WithinMonth
    <3>1. Admitted' \in SUBSET Admitted
      BY <1>2, <2>3 DEF ReadMonthly, Exceeded, TypeOK, Admitted
    <3>2. QED
      BY <2>1, <3>1, <1>a, <1>0
  <2>4. QED BY <2>2, <2>3
<1>3. ASSUME NEW r \in Request, NEW c \in 0 .. MaxCost, Charge(r, c) PROVE MonthlyInv(K)'
  <2>1. /\ Admitted' = Admitted \ {r} /\ r \in Admitted
        /\ full' = full + c /\ older' = older
    BY <1>3, <1>0 DEF Charge, TypeOK, Admitted
  <2>2. full' + older' = full + older + c
    BY <2>1, <1>0, MaxCostAssumption
  <2>3. full + older + c + MaxCost * Cardinality(Admitted \ {r})
        < MonthlyBudget + K * MaxCost
    BY <2>1, <1>0, Spends
  <2>4. QED
    BY <2>1, <2>2, <2>3 DEF MonthlyInv
<1>4. ASSUME NEW r \in Request, Abandon(r) PROVE MonthlyInv(K)'
  <2>1. Admitted' \in SUBSET Admitted /\ full' + older' = full + older
    BY <1>4, <1>0 DEF Abandon, TypeOK, Admitted
  <2>2. QED
    BY <2>1, <1>a, <1>0
<1>5. ASSUME NEW f \in 0 .. full, NEW c \in 0 .. cheap, AgeDay(f, c) PROVE MonthlyInv(K)'
  <2>1. Admitted' = Admitted /\ c = 0
    BY <1>5, <1>0 DEF AgeDay, Admitted
  <2>2. full' + older' = full + older
    BY <1>5, <1>0, <2>1 DEF AgeDay
  <2>3. QED
    BY <2>1, <2>2, <1>a, <1>0
<1>6. ASSUME NEW c \in 0 .. older, AgeMonth(c) PROVE MonthlyInv(K)'
  <2>1. Admitted' = Admitted
    BY <1>6 DEF AgeMonth, Admitted
  <2>2. full' + older' \in Nat /\ full' + older' <= full + older
    BY <1>6, <1>0 DEF AgeMonth
  <2>3. QED
    BY <2>1, <2>2, <1>a, <1>0
<1>7. CASE Restart
  <2>1. Admitted' \in SUBSET Admitted /\ full' + older' = full + older
    BY <1>7, <1>0 DEF Restart, TypeOK, Admitted
  <2>2. QED
    BY <2>1, <1>a, <1>0
<1>8. CASE UNCHANGED vars
  <2>1. Admitted' = Admitted /\ full' + older' = full + older
    BY <1>8, <1>0 DEF vars, Admitted
  <2>2. QED
    BY <2>1, <1>a, <1>0
<1>9. QED
  BY <1>1, <1>2, <1>3, <1>4, <1>5, <1>6, <1>7, <1>8 DEF Next

------------------------------------------------------------------------------
LEMMA Below ==
    ASSUME NEW S, IsFiniteSet(S), NEW s \in Nat, NEW bound \in Int,
           s + MaxCost * Cardinality(S) < bound
    PROVE  s < bound
<1>1. {} \in SUBSET S /\ Cardinality({}) = 0
  BY FS_EmptySet
<1>2. s + MaxCost * Cardinality({}) < bound
  BY <1>1, Shrinks
<1>3. MaxCost * 0 = 0
  BY MaxCostAssumption, SMT
<1>4. QED
  BY <1>1, <1>2, <1>3

LEMMA Implied ==
  ASSUME NEW K \in Nat, TypeOK, AtMost(K), DailyInv(K), MonthlyInv(K)
  PROVE  WithinBudgets(K)
<1>1. /\ Pending \in SUBSET Working /\ Admitted \in SUBSET Working
      /\ IsFiniteSet(Working)
  BY DEF Pending, Admitted, Working, AtMost
<1>2. IsFiniteSet(Pending) /\ IsFiniteSet(Admitted)
  BY <1>1, FS_Subset
<1>3. full \in Nat /\ full + older \in Nat
  BY DEF TypeOK
<1>4. full < DailyBudget + K * MaxCost
  BY <1>2, <1>3, BoundType, Below DEF DailyInv
<1>5. onExceeded = "reject" => full + older < MonthlyBudget + K * MaxCost
  BY <1>2, <1>3, BoundType, Below DEF MonthlyInv
<1>6. QED
  BY <1>4, <1>5 DEF WithinBudgets

(* As long as at no moment more than K requests are at work, of any number  *)
(* that ever come, requests let through within budget overshoot the daily   *)
(* budget by less than what K requests can cost, and in "reject" mode the   *)
(* spend of thirty days the monthly one (router.py: check_budget).          *)
THEOREM OvershootIsThatOfTheWorking ==
  ASSUME NEW K \in Nat
  PROVE  Spec /\ []AtMost(K) => []WithinBudgets(K)
<1>1. AtMost(K) /\ Init => DailyInv(K) /\ MonthlyInv(K)
  BY DailyInit, MonthlyInit
<1>2. /\ TypeOK /\ CheapInv /\ AtMost(K) /\ AtMost(K)' /\ [Next]_vars
      /\ DailyInv(K) /\ MonthlyInv(K)
      => DailyInv(K)' /\ MonthlyInv(K)'
  BY DailyStep, MonthlyStep
<1>3. TypeOK /\ AtMost(K) /\ DailyInv(K) /\ MonthlyInv(K) => WithinBudgets(K)
  BY Implied
<1>4. QED
  BY <1>1, <1>2, <1>3, TypeInvariant, NothingCheap, PTL DEF Spec

(* Where all the requests are N, no more than N are at work.                *)
LEMMA AllAtWork ==
  ASSUME IsFiniteSet(Request) PROVE N \in Nat /\ AtMost(N) /\ AtMost(N)'
<1>1. Working \in SUBSET Request /\ Working' \in SUBSET Request
  BY DEF Working
<1>2. QED
  BY <1>1, FS_Subset, FS_CardinalityType DEF N, AtMost

LEMMA AllWithinBudgets ==
  ASSUME IsFiniteSet(Request) PROVE Spec => []WithinBudgets(N)
<1>1. N \in Nat /\ AtMost(N) /\ AtMost(N)'
  BY AllAtWork
<1>2. Init => DailyInv(N) /\ MonthlyInv(N)
  BY <1>1, DailyInit, MonthlyInit
<1>3. TypeOK /\ CheapInv /\ [Next]_vars /\ DailyInv(N) /\ MonthlyInv(N)
      => DailyInv(N)' /\ MonthlyInv(N)'
  BY <1>1, DailyStep, MonthlyStep
<1>4. TypeOK /\ DailyInv(N) /\ MonthlyInv(N) => WithinBudgets(N)
  BY <1>1, Implied
<1>5. QED
  BY <1>2, <1>3, <1>4, TypeInvariant, NothingCheap, PTL DEF Spec

(* The daily spend of requests let through within budget stays below the    *)
(* daily budget plus what all requests can cost together, in both modes.    *)
THEOREM DailyBudgetBounds ==
  ASSUME IsFiniteSet(Request)
  PROVE  Spec => []DailyOvershootBounded
<1>1. WithinBudgets(N) => DailyOvershootBounded
  BY DEF WithinBudgets, DailyOvershootBounded
<1>2. QED
  BY <1>1, AllWithinBudgets, PTL

(* In "reject" mode the thirty days' spend is bounded as well, because      *)
(* nobody is downgraded and so no cost escapes the two comparisons.         *)
THEOREM RejectModeBounds ==
  ASSUME IsFiniteSet(Request)
  PROVE  Spec => []RejectBounds
<1>1. WithinBudgets(N) /\ CheapInv => RejectBounds
  BY DEF WithinBudgets, CheapInv, RejectBounds
<1>2. QED
  BY <1>1, AllWithinBudgets, NothingCheap, PTL
==============================================================================
