------------------------- MODULE BudgetLedger_proofs -------------------------
(***************************************************************************)
(* Proofs about BudgetLedger for every set of wakes and roles, any number  *)
(* of days, and all amounts and limits; where tokens are summed up, for    *)
(* finitely many wakes.                                                    *)
(***************************************************************************)
EXTENDS BudgetLedger, FiniteSetTheorems, TLAPS

-----------------------------------------------------------------------------
(* Sums over finite sets.  A property of all subsets of a finite set is    *)
(* proved by looking at a smallest subset that lacks it.                   *)

\* A family of subsets of a finite set has a member without a smaller one in the family.
LEMMA Smallest ==
    ASSUME NEW S, IsFiniteSet(S), NEW F, F \subseteq SUBSET S, F # {}
    PROVE  \E T \in F : \A U \in F : U \subseteq T => U = T
<1>1. IsWellFoundedOn(StrictSubsetOrdering(S), SUBSET S)
  BY FS_FiniteSubsetsOfFinite, FS_StrictSubsetOrderingWellFounded
<1>2. PICK T \in F : \A U \in F : <<U, T>> \notin StrictSubsetOrdering(S)
  BY <1>1, WFMin
<1>3. QED
  BY <1>2 DEF StrictSubsetOrdering

\* The element that a sum takes next, and the table of partial sums that defines it.
Pick(S) == CHOOSE x \in S : TRUE

Sums(f, S, g) ==
    g = [T \in SUBSET S |-> IF T = {} THEN 0 ELSE f[Pick(T)] + g[T \ {Pick(T)}]]

LEMMA SumIsEntry ==
    ASSUME NEW f, NEW S
    PROVE  SumFunctionOnSet(f, S) = (CHOOSE g : Sums(f, S, g))[S]
BY Zenon DEF SumFunctionOnSet, FoldFunctionOnSet, MapThenFoldSet, Sums, Pick

LEMMA Picked == ASSUME NEW T, T # {} PROVE Pick(T) \in T
BY DEF Pick

LEMMA SumsEntry ==
    ASSUME NEW f, NEW S, NEW g, Sums(f, S, g), NEW T \in SUBSET S
    PROVE  g[T] = IF T = {} THEN 0 ELSE f[Pick(T)] + g[T \ {Pick(T)}]
BY Zenon DEF Sums

LEMMA SumsUnique ==
    ASSUME NEW f, NEW S, IsFiniteSet(S), NEW g, Sums(f, S, g), NEW h, Sums(f, S, h)
    PROVE  g = h
<1> DEFINE F == {T \in SUBSET S : g[T] # h[T]}
<1>1. F = {}
  <2> SUFFICES ASSUME F # {} PROVE FALSE
    OBVIOUS
  <2>0. F \subseteq SUBSET S
    OBVIOUS
  <2>1. PICK T \in F : \A U \in F : U \subseteq T => U = T
    <3> HIDE DEF F
    <3> QED  BY <2>0, Smallest
  <2>2. T # {} /\ g[T \ {Pick(T)}] # h[T \ {Pick(T)}]
    BY <2>1, SumsEntry
  <2>3. QED
    BY <2>1, <2>2, Picked
<1>2. \A T \in SUBSET S : g[T] = h[T]
  BY <1>1
<1>3. g = [T \in SUBSET S |-> g[T]] /\ h = [T \in SUBSET S |-> h[T]]
  BY DEF Sums
<1>4. QED
  BY <1>2, <1>3

LEMMA SumsRestricted ==
    ASSUME NEW f, NEW S, NEW g, Sums(f, S, g), NEW T \in SUBSET S
    PROVE  Sums(f, T, [U \in SUBSET T |-> g[U]])
<1> DEFINE h == [U \in SUBSET T |-> g[U]]
<1>1. ASSUME NEW U \in SUBSET T
      PROVE  h[U] = IF U = {} THEN 0 ELSE f[Pick(U)] + h[U \ {Pick(U)}]
  BY SumsEntry
<1>2. h = [U \in SUBSET T |-> IF U = {} THEN 0 ELSE f[Pick(U)] + h[U \ {Pick(U)}]]
  BY <1>1
<1>3. QED
  BY <1>2 DEF Sums

\* Where there is a table, its entries are the sums.
LEMMA SumsAreSums ==
    ASSUME NEW f, NEW S, IsFiniteSet(S), NEW g, Sums(f, S, g), NEW T \in SUBSET S
    PROVE  g[T] = SumFunctionOnSet(f, T)
<1> DEFINE h == [U \in SUBSET T |-> g[U]]
<1>1. Sums(f, T, h)
  BY SumsRestricted
<1> HIDE DEF h
<1>2. Sums(f, T, CHOOSE k : Sums(f, T, k))
  BY <1>1, Zenon
<1>3. IsFiniteSet(T)
  BY FS_Subset
<1>4. (CHOOSE k : Sums(f, T, k)) = h
  BY <1>1, <1>2, <1>3, SumsUnique
<1>5. h[T] = g[T]
  BY DEF h
<1>6. QED
  BY <1>4, <1>5, SumIsEntry

LEMMA SumsExist ==
    ASSUME NEW f, NEW S, IsFiniteSet(S)
    PROVE  \E g : Sums(f, S, g)
<1> DEFINE F == {T \in SUBSET S : ~ \E g : Sums(f, T, g)}
<1> SUFFICES ASSUME F # {} PROVE FALSE
  OBVIOUS
<1>0. F \subseteq SUBSET S
  OBVIOUS
<1>1. PICK X \in F : \A U \in F : U \subseteq X => U = X
  <2> HIDE DEF F
  <2> QED  BY <1>0, Smallest
<1>2. X \in SUBSET S /\ IsFiniteSet(X) /\ ~ \E g : Sums(f, X, g)
  BY <1>1, FS_Subset
<1>3. ASSUME NEW T \in SUBSET X, T # X
      PROVE  \E g : Sums(f, T, g)
  BY <1>1, <1>2, <1>3
<1> HIDE DEF F
<1> DEFINE v(T) == IF T = {} THEN 0
                   ELSE f[Pick(T)] + SumFunctionOnSet(f, T \ {Pick(T)})
           h == [T \in SUBSET X |-> v(T)]
<1>4. ASSUME NEW T \in SUBSET X, T # X
      PROVE  SumFunctionOnSet(f, T) = v(T)
  <2>1. PICK g : Sums(f, T, g)
    BY <1>3, <1>4
  <2>2. IsFiniteSet(T)
    BY <1>2, FS_Subset
  <2>3. \A U \in SUBSET T : g[U] = SumFunctionOnSet(f, U)
    BY <2>1, <2>2, SumsAreSums
  <2>4. g[T] = IF T = {} THEN 0 ELSE f[Pick(T)] + g[T \ {Pick(T)}]
    BY <2>1, SumsEntry
  <2>5. T \ {Pick(T)} \in SUBSET T /\ T \in SUBSET T
    OBVIOUS
  <2>6. QED
    BY <2>3, <2>4, <2>5
<1>5. ASSUME NEW T \in SUBSET X, T # {}
      PROVE  h[T \ {Pick(T)}] = SumFunctionOnSet(f, T \ {Pick(T)})
  BY <1>4, <1>5, Picked
<1>6. \A T \in SUBSET X : v(T) = IF T = {} THEN 0 ELSE f[Pick(T)] + h[T \ {Pick(T)}]
  BY <1>5
<1>7. h = [T \in SUBSET X |-> IF T = {} THEN 0 ELSE f[Pick(T)] + h[T \ {Pick(T)}]]
  BY <1>6
<1>8. Sums(f, X, h)
  BY <1>7 DEF Sums
<1>9. QED
  BY <1>2, <1>8

\* What a sum is.
LEMMA SumDef ==
    ASSUME NEW f, NEW S, IsFiniteSet(S)
    PROVE  SumFunctionOnSet(f, S) =
             IF S = {} THEN 0 ELSE f[Pick(S)] + SumFunctionOnSet(f, S \ {Pick(S)})
<1>1. PICK g : Sums(f, S, g)
  BY SumsExist
<1>2. \A T \in SUBSET S : g[T] = SumFunctionOnSet(f, T)
  BY <1>1, SumsAreSums
<1>3. S \in SUBSET S /\ S \ {Pick(S)} \in SUBSET S
  OBVIOUS
<1>4. g[S] = IF S = {} THEN 0 ELSE f[Pick(S)] + g[S \ {Pick(S)}]
  BY <1>1, <1>3, SumsEntry
<1>5. QED
  BY <1>2, <1>3, <1>4

LEMMA SumType ==
    ASSUME NEW S, IsFiniteSet(S), NEW f, \A x \in S : f[x] \in Nat
    PROVE  SumFunctionOnSet(f, S) \in Nat
<1> DEFINE F == {T \in SUBSET S : SumFunctionOnSet(f, T) \notin Nat}
<1> SUFFICES ASSUME F # {} PROVE FALSE
  OBVIOUS
<1>0. F \subseteq SUBSET S
  OBVIOUS
<1>1. PICK T \in F : \A U \in F : U \subseteq T => U = T
  <2> HIDE DEF F
  <2> QED  BY <1>0, Smallest
<1>2. IsFiniteSet(T)
  BY FS_Subset
<1>3. SumFunctionOnSet(f, T) = IF T = {} THEN 0
                               ELSE f[Pick(T)] + SumFunctionOnSet(f, T \ {Pick(T)})
  BY <1>2, SumDef
<1>4. T # {} => SumFunctionOnSet(f, T \ {Pick(T)}) \in Nat
  BY <1>1, Picked
<1>5. QED
  BY <1>3, <1>4, Picked

\* Any element may be taken first.
LEMMA SumRemove ==
    ASSUME NEW S, IsFiniteSet(S), NEW f, \A x \in S : f[x] \in Nat, NEW y \in S
    PROVE  SumFunctionOnSet(f, S) = f[y] + SumFunctionOnSet(f, S \ {y})
<1> DEFINE Good(T) == \A x \in T : SumFunctionOnSet(f, T) = f[x] + SumFunctionOnSet(f, T \ {x})
           F == {T \in SUBSET S : ~ Good(T)}
<1> SUFFICES ASSUME F # {} PROVE FALSE
  OBVIOUS
<1>0. F \subseteq SUBSET S
  OBVIOUS
<1>1. PICK T \in F : \A U \in F : U \subseteq T => U = T
  <2> HIDE DEF F
  <2> QED  BY <1>0, Smallest
<1>2. \A U \in SUBSET T : U # T => Good(U)
  BY <1>1
<1>3. PICK x \in T : SumFunctionOnSet(f, T) # f[x] + SumFunctionOnSet(f, T \ {x})
  BY <1>1
<1> DEFINE c == Pick(T)
<1>4. c \in T
  BY <1>3, Picked
<1>5. SumFunctionOnSet(f, T) = f[c] + SumFunctionOnSet(f, T \ {c})
  BY <1>3, SumDef, FS_Subset
<1>6. x # c
  BY <1>3, <1>5
<1> HIDE DEF c
<1>7. SumFunctionOnSet(f, T \ {c}) = f[x] + SumFunctionOnSet(f, (T \ {c}) \ {x})
  BY <1>2, <1>3, <1>4, <1>6
<1>8. SumFunctionOnSet(f, T \ {x}) = f[c] + SumFunctionOnSet(f, (T \ {x}) \ {c})
  BY <1>2, <1>3, <1>4, <1>6
<1>9. (T \ {x}) \ {c} = (T \ {c}) \ {x}
  OBVIOUS
<1>10. SumFunctionOnSet(f, (T \ {c}) \ {x}) \in Nat /\ f[x] \in Nat /\ f[c] \in Nat
  <2>1. IsFiniteSet((T \ {c}) \ {x})
    BY FS_Subset
  <2>2. QED
    BY <1>3, <1>4, <2>1, SumType
<1>11. QED
  BY <1>3, <1>5, <1>7, <1>8, <1>9, <1>10

\* A sum depends on what is summed.
LEMMA SumAgree ==
    ASSUME NEW S, IsFiniteSet(S), NEW f, NEW g, \A x \in S : f[x] = g[x]
    PROVE  SumFunctionOnSet(f, S) = SumFunctionOnSet(g, S)
<1> DEFINE F == {T \in SUBSET S : SumFunctionOnSet(f, T) # SumFunctionOnSet(g, T)}
<1> SUFFICES ASSUME F # {} PROVE FALSE
  OBVIOUS
<1>0. F \subseteq SUBSET S
  OBVIOUS
<1>1. PICK T \in F : \A U \in F : U \subseteq T => U = T
  <2> HIDE DEF F
  <2> QED  BY <1>0, Smallest
<1>2. IsFiniteSet(T)
  BY FS_Subset
<1>3. /\ SumFunctionOnSet(f, T) = IF T = {} THEN 0
                                  ELSE f[Pick(T)] + SumFunctionOnSet(f, T \ {Pick(T)})
      /\ SumFunctionOnSet(g, T) = IF T = {} THEN 0
                                  ELSE g[Pick(T)] + SumFunctionOnSet(g, T \ {Pick(T)})
  BY <1>2, SumDef
<1>4. T # {} => SumFunctionOnSet(f, T \ {Pick(T)}) = SumFunctionOnSet(g, T \ {Pick(T)})
  BY <1>1, Picked
<1>5. QED
  BY <1>1, <1>3, <1>4, Picked
-----------------------------------------------------------------------------
(* Type correctness.                                                       *)

USE RoleOfAssumption, OrgAssumption, LastDayAssumption, AmountsAssumption,
    MaxUsageAssumption, LimitsAssumption

\* The recorded overage that excuses bucket b.
Excused(b) ==
    \E w \in Wakes : /\ rstate[w] = "uncertain" /\ b \in Charged(w)
                     /\ usage[w] # Unknown /\ usage[w] > amount[w]

\* Amounts moved into and out of buckets keep them natural.
LEMMA BucketArithmetic ==
    ASSUME NEW f \in [Buckets -> Nat], NEW B \in SUBSET Buckets, NEW n \in Nat
    PROVE  /\ AddTo(f, B, n) \in [Buckets -> Nat]
           /\ (\A b \in B : f[b] >= n) => TakeFrom(f, B, n) \in [Buckets -> Nat]
BY DEF AddTo, TakeFrom

\* The two buckets of a wake are buckets.
LEMMA WakeBuckets ==
    ASSUME TypeOK, NEW w \in Wakes
    PROVE  BucketsOn(w, day) \subseteq Buckets /\ Charged(w) \subseteq Buckets
BY DEF TypeOK, BucketsOn, Charged, Buckets, Subjects

LEMMA InitTypes == Init => TypeOK
BY DEF Init, TypeOK, Days, Unknown

LEMMA NextTypes == TypeOK /\ [Next]_vars => TypeOK'
<1> SUFFICES ASSUME TypeOK, [Next]_vars
             PROVE  TypeOK'
  OBVIOUS
<1>1. CASE UNCHANGED vars
  BY <1>1 DEF TypeOK, vars, ledger, reservations
<1>2. ASSUME NEW w \in Wakes, NEW n \in Amounts, ReserveBudget(w, n)
      PROVE  TypeOK'
  <2>1. reserved' \in [Buckets -> Nat]
    BY <1>2, WakeBuckets, BucketArithmetic DEF ReserveBudget, TypeOK
  <2>2. limit' \in [Buckets -> Nat]
    <3>1. ASSUME NEW b \in Buckets
          PROVE  LimitOf(b) \in Nat
      BY DEF LimitOf, TypeOK, Buckets
    <3>2. QED
      BY <1>2, <3>1 DEF ReserveBudget, TypeOK
  <2>3. /\ rstate' \in [Wakes -> {"none", "active", "settled", "released", "uncertain"}]
        /\ amount' \in [Wakes -> Nat] /\ epoch' \in [Wakes -> Days]
    BY <1>2 DEF ReserveBudget, TypeOK
  <2>4. QED
    BY <1>2, <2>1, <2>2, <2>3 DEF ReserveBudget, TypeOK
<1>3. ASSUME NEW w \in Wakes, NEW n \in 0 .. MaxUsage, SettleBudget(w, n)
      PROVE  TypeOK'
  <2>1. amount[w] \in Nat
    BY DEF TypeOK
  <2>2. reserved' \in [Buckets -> Nat]
    <3>1. \A b \in Charged(w) : reserved[b] >= amount[w]
      BY <1>3 DEF SettleBudget, Covered
    <3>2. TakeFrom(reserved, Charged(w), amount[w]) \in [Buckets -> Nat]
      BY <2>1, <3>1, WakeBuckets, BucketArithmetic DEF TypeOK
    <3>3. QED
      BY <1>3, <3>2 DEF SettleBudget
  <2>3. consumed' \in [Buckets -> Nat]
    <3>1. n \in Nat
      OBVIOUS
    <3>2. AddTo(consumed, Charged(w), n) \in [Buckets -> Nat]
      BY <3>1, WakeBuckets, BucketArithmetic DEF TypeOK
    <3>3. QED
      BY <1>3, <3>2 DEF SettleBudget, Charge
  <2>4. SettledState(w, n) \in {"settled", "uncertain"}
    BY DEF SettledState
  <2>5. /\ rstate' \in [Wakes -> {"none", "active", "settled", "released", "uncertain"}]
        /\ usage' \in [Wakes -> Nat]
    BY <1>3, <2>4 DEF SettleBudget, TypeOK
  <2>6. QED
    BY <1>3, <2>2, <2>3, <2>5 DEF SettleBudget, TypeOK
<1>4. ASSUME NEW w \in Wakes, MarkBudgetUncertain(w)
      PROVE  TypeOK'
  BY <1>4 DEF MarkBudgetUncertain, TypeOK, ledger
<1>5. ASSUME NEW w \in Wakes, ReleaseBudget(w)
      PROVE  TypeOK'
  <2>1. reserved' \in [Buckets -> Nat]
    BY <1>5, WakeBuckets, BucketArithmetic DEF ReleaseBudget, TypeOK, Covered
  <2>2. QED
    BY <1>5, <2>1 DEF ReleaseBudget, TypeOK
<1>6. CASE NextDay
  BY <1>6 DEF NextDay, TypeOK, Days, ledger, reservations
<1>7. ASSUME NEW x \in Subjects, NEW n \in Limits, ChangePolicy(x, n)
      PROVE  TypeOK'
  BY <1>7 DEF ChangePolicy, TypeOK, ledger, reservations
<1>8. QED
  BY <1>1, <1>2, <1>3, <1>4, <1>5, <1>6, <1>7 DEF Next

\* The ledger is type correct: no settlement or release takes more out of a bucket
\* than is reserved in it.
THEOREM TypeCorrectness == Spec => []TypeOK
BY InitTypes, NextTypes, PTL DEF Spec

-----------------------------------------------------------------------------
(* Limits.                                                                 *)

\* A recorded overage stays on record.
LEMMA OverageKept ==
    ASSUME TypeOK, Next, NEW b \in Buckets, Excused(b)
    PROVE  Excused(b)'
<1>1. PICK v \in Wakes : /\ rstate[v] = "uncertain" /\ b \in Charged(v)
                         /\ usage[v] # Unknown /\ usage[v] > amount[v]
  BY DEF Excused
<1>2. /\ rstate'[v] = rstate[v] /\ amount'[v] = amount[v]
      /\ epoch'[v] = epoch[v] /\ usage'[v] = usage[v]
  BY <1>1 DEF Next, ReserveBudget, SettleBudget, MarkBudgetUncertain, ReleaseBudget, NextDay,
     ChangePolicy, TypeOK, ledger, reservations
<1>3. Charged(v)' = Charged(v)
  BY <1>2 DEF Charged, BucketsOn
<1>4. QED
  BY <1>1, <1>2, <1>3 DEF Excused, Unknown

\* Every operation keeps the limits or records the overage.
LEMMA NextLimits ==
    ASSUME TypeOK, LimitOrOverage, Next
    PROVE  LimitOrOverage'
<1> SUFFICES ASSUME NEW b \in Buckets, ~ Excused(b)'
             PROVE  consumed'[b] + reserved'[b] <= limit'[b]
  BY DEF LimitOrOverage, Excused
<1>1. consumed[b] + reserved[b] <= limit[b]
  BY OverageKept DEF LimitOrOverage, Excused
<1>2. consumed[b] \in Nat /\ reserved[b] \in Nat /\ limit[b] \in Nat
  BY DEF TypeOK
<1>3. ASSUME NEW w \in Wakes, NEW n \in Amounts, ReserveBudget(w, n)
      PROVE  consumed'[b] + reserved'[b] <= limit'[b]
  <2>1. CASE b \in BucketsOn(w, day)
    <3>1. /\ consumed[b] + reserved[b] + n <= LimitOf(b)
          /\ limit'[b] = LimitOf(b) /\ reserved'[b] = reserved[b] + n
          /\ consumed'[b] = consumed[b]
      BY <1>3, <2>1 DEF ReserveBudget, HasRoom, AddTo
    <3>2. n \in Nat
      OBVIOUS
    <3>3. QED
      BY <1>2, <3>1, <3>2
  <2>2. CASE b \notin BucketsOn(w, day)
    BY <1>1, <1>3, <2>2 DEF ReserveBudget, AddTo
  <2>3. QED
    BY <2>1, <2>2
<1>4. ASSUME NEW w \in Wakes, NEW n \in 0 .. MaxUsage, SettleBudget(w, n)
      PROVE  consumed'[b] + reserved'[b] <= limit'[b]
  <2>1. CASE b \in Charged(w)
    <3>1. /\ reserved[b] >= amount[w] /\ reserved'[b] = reserved[b] - amount[w]
          /\ consumed'[b] = consumed[b] + n /\ limit'[b] = limit[b]
      BY <1>4, <2>1 DEF SettleBudget, Covered, TakeFrom, AddTo, Charge
    <3>2. n <= amount[w]
      <4> SUFFICES ASSUME ~ (n <= amount[w])
                   PROVE  Excused(b)'
        OBVIOUS
      <4>1. amount[w] \in Nat /\ n > amount[w] /\ n # Unknown
        BY DEF TypeOK, Unknown
      <4>2. rstate'[w] = "uncertain" /\ usage'[w] = n /\ amount'[w] = amount[w]
        BY <1>4, <4>1 DEF SettleBudget, SettledState, Overage, TypeOK
      <4>3. Charged(w)' = Charged(w)
        BY <1>4 DEF SettleBudget, Charged, BucketsOn
      <4>4. QED
        BY <2>1, <4>1, <4>2, <4>3 DEF Excused, Unknown
    <3>3. amount[w] \in Nat /\ n \in Nat
      BY DEF TypeOK
    <3>4. QED
      BY <1>1, <1>2, <3>1, <3>2, <3>3
  <2>2. CASE b \notin Charged(w)
    BY <1>1, <1>4, <2>2 DEF SettleBudget, TakeFrom, AddTo
  <2>3. QED
    BY <2>1, <2>2
<1>5. ASSUME NEW w \in Wakes, MarkBudgetUncertain(w)
      PROVE  consumed'[b] + reserved'[b] <= limit'[b]
  BY <1>1, <1>5 DEF MarkBudgetUncertain, ledger
<1>6. ASSUME NEW w \in Wakes, ReleaseBudget(w)
      PROVE  consumed'[b] + reserved'[b] <= limit'[b]
  <2>1. CASE b \in Charged(w)
    <3>1. /\ reserved[b] >= amount[w] /\ reserved'[b] = reserved[b] - amount[w]
          /\ consumed'[b] = consumed[b] /\ limit'[b] = limit[b]
      BY <1>6, <2>1 DEF ReleaseBudget, Covered, TakeFrom
    <3>2. amount[w] \in Nat
      BY DEF TypeOK
    <3>3. QED
      BY <1>1, <1>2, <3>1, <3>2
  <2>2. CASE b \notin Charged(w)
    BY <1>1, <1>6, <2>2 DEF ReleaseBudget, TakeFrom
  <2>3. QED
    BY <2>1, <2>2
<1>7. CASE NextDay \/ \E x \in Subjects, n \in Limits : ChangePolicy(x, n)
  BY <1>1, <1>7 DEF NextDay, ChangePolicy, ledger
<1>8. QED
  BY <1>3, <1>4, <1>5, <1>6, <1>7 DEF Next

\* A bucket is never committed beyond its daily limit except by a wake that used
\* more than it had reserved, which is then on record for review.
THEOREM LimitsHold == Spec => []LimitOrOverage
<1>1. Init => LimitOrOverage
  BY DEF Init, LimitOrOverage
<1>2. TypeOK /\ LimitOrOverage /\ UNCHANGED vars => LimitOrOverage'
  BY DEF LimitOrOverage, Charged, BucketsOn, Unknown, vars, ledger, reservations
<1>3. TypeOK /\ LimitOrOverage /\ [Next]_vars => LimitOrOverage'
  BY <1>2, NextLimits
<1>4. QED
  BY <1>1, <1>3, TypeCorrectness, PTL DEF Spec

-----------------------------------------------------------------------------
(* The buckets are the sums of their reservations.                         *)

\* Usage is unknown until settle_budget is told of it.
Unsettled == \A w \in Wakes : rstate[w] \in {"none", "active"} => usage[w] = Unknown

SumInv == TypeOK /\ Unsettled /\ ReservedIsHeld /\ ConsumedIsUsed

\* A wake joins those whose numbers a bucket sums up,
LEMMA SumJoined ==
    ASSUME IsFiniteSet(Wakes), NEW f \in [Wakes -> Nat], NEW g \in [Wakes -> Nat],
           NEW S \in SUBSET Wakes, NEW w \in Wakes, w \notin S,
           \A v \in S : g[v] = f[v]
    PROVE  SumFunctionOnSet(g, S \cup {w}) = SumFunctionOnSet(f, S) + g[w]
<1>1. IsFiniteSet(S) /\ IsFiniteSet(S \cup {w})
  BY FS_Subset
<1>2. SumFunctionOnSet(g, S \cup {w}) = g[w] + SumFunctionOnSet(g, (S \cup {w}) \ {w})
  BY <1>1, SumRemove
<1>3. (S \cup {w}) \ {w} = S
  OBVIOUS
<1>4. SumFunctionOnSet(g, S) = SumFunctionOnSet(f, S)
  BY <1>1, SumAgree
<1>5. SumFunctionOnSet(f, S) \in Nat /\ g[w] \in Nat
  BY <1>1, SumType
<1>6. QED
  BY <1>2, <1>3, <1>4, <1>5

\* leaves them,
LEMMA SumLeft ==
    ASSUME IsFiniteSet(Wakes), NEW f \in [Wakes -> Nat], NEW S \in SUBSET Wakes, NEW w \in S
    PROVE  SumFunctionOnSet(f, S \ {w}) = SumFunctionOnSet(f, S) - f[w]
<1>1. IsFiniteSet(S) /\ IsFiniteSet(S \ {w})
  BY FS_Subset
<1>2. SumFunctionOnSet(f, S) = f[w] + SumFunctionOnSet(f, S \ {w})
  BY <1>1, SumRemove
<1>3. SumFunctionOnSet(f, S \ {w}) \in Nat /\ f[w] \in Nat
  BY <1>1, SumType
<1>4. QED
  BY <1>2, <1>3

\* or is none of them.
LEMMA SumSame ==
    ASSUME IsFiniteSet(Wakes), NEW f, NEW g, NEW S \in SUBSET Wakes, \A v \in S : g[v] = f[v]
    PROVE  SumFunctionOnSet(g, S) = SumFunctionOnSet(f, S)
BY FS_Subset, SumAgree

LEMMA NextUnsettled ==
    ASSUME TypeOK, Unsettled, Next
    PROVE  Unsettled'
BY DEF Next, ReserveBudget, SettleBudget, SettledState, MarkBudgetUncertain, ReleaseBudget,
   NextDay, ChangePolicy, TypeOK, Unsettled, Unknown, ledger, reservations

\* What an operation does to the other wakes: nothing.
LEMMA OthersStay ==
    ASSUME TypeOK, NEW w \in Wakes,
           \/ \E n \in Amounts : ReserveBudget(w, n)
           \/ \E n \in 0 .. MaxUsage : SettleBudget(w, n)
           \/ MarkBudgetUncertain(w) \/ ReleaseBudget(w),
           NEW v \in Wakes \ {w}, NEW b
    PROVE  /\ amount'[v] = amount[v] /\ usage'[v] = usage[v]
           /\ v \in Holders(b)' <=> v \in Holders(b)
           /\ v \in Users(b)' <=> v \in Users(b)
<1>1. /\ amount'[v] = amount[v] /\ usage'[v] = usage[v]
      /\ rstate'[v] = rstate[v] /\ epoch'[v] = epoch[v]
  BY DEF ReserveBudget, SettleBudget, MarkBudgetUncertain, ReleaseBudget, TypeOK, ledger
<1>2. QED
  BY <1>1 DEF Holders, Users, Holds, Charged, BucketsOn, Unknown

\* An operation without a wake.
LEMMA NoneOperated ==
    ASSUME UNCHANGED <<ledger, reservations>>, ReservedIsHeld, ConsumedIsUsed
    PROVE  ReservedIsHeld' /\ ConsumedIsUsed'
BY DEF ReservedIsHeld, ConsumedIsUsed, Holders, Users, Holds, Charged, BucketsOn, Unknown,
   ledger, reservations

LEMMA NextReserved ==
    ASSUME IsFiniteSet(Wakes), SumInv, TypeOK', Next
    PROVE  ReservedIsHeld' /\ ConsumedIsUsed'
<1>1. /\ amount \in [Wakes -> Nat] /\ amount' \in [Wakes -> Nat]
      /\ usage \in [Wakes -> Nat] /\ usage' \in [Wakes -> Nat]
  BY DEF SumInv, TypeOK
<1>2. ASSUME NEW b
      PROVE  Holders(b) \in SUBSET Wakes /\ Users(b) \in SUBSET Wakes
  BY DEF Holders, Users
<1>3. ASSUME NEW w \in Wakes, NEW n \in Amounts, ReserveBudget(w, n)
      PROVE  ReservedIsHeld' /\ ConsumedIsUsed'
  <2> SUFFICES ASSUME NEW b \in Buckets
               PROVE  /\ reserved'[b] = SumFunctionOnSet(amount', Holders(b)')
                      /\ consumed'[b] = SumFunctionOnSet(usage', Users(b)')
    BY DEF ReservedIsHeld, ConsumedIsUsed
  <2>1. /\ \A v \in Wakes \ {w} : /\ amount'[v] = amount[v]
                                  /\ v \in Holders(b)' <=> v \in Holders(b)
                                  /\ v \in Users(b)' <=> v \in Users(b)
    BY <1>3, OthersStay DEF SumInv
  <2>2. w \notin Holders(b) /\ w \notin Users(b) /\ w \notin Users(b)'
    BY <1>3 DEF ReserveBudget, Holders, Holds, Users, SumInv, Unsettled, Unknown
  <2>3. w \in Holders(b)' <=> b \in BucketsOn(w, day)
    BY <1>3 DEF ReserveBudget, Holders, Holds, Charged, BucketsOn, SumInv, TypeOK
  <2>4. Users(b)' = Users(b) /\ consumed' = consumed /\ usage' = usage
    BY <1>3, <2>1, <2>2 DEF ReserveBudget, Users
  <2>5. CASE b \in BucketsOn(w, day)
    <3>1. Holders(b)' = Holders(b) \cup {w}
      BY <2>1, <2>3, <2>5 DEF Holders
    <3>2. amount'[w] = n /\ reserved'[b] = reserved[b] + n
      BY <1>3, <2>5 DEF ReserveBudget, AddTo, SumInv, TypeOK
    <3>3. SumFunctionOnSet(amount', Holders(b) \cup {w}) =
            SumFunctionOnSet(amount, Holders(b)) + amount'[w]
      BY <1>1, <1>2, <2>1, <2>2, SumJoined
    <3>4. QED
      BY <2>4, <3>1, <3>2, <3>3 DEF SumInv, ReservedIsHeld, ConsumedIsUsed
  <2>6. CASE b \notin BucketsOn(w, day)
    <3>1. Holders(b)' = Holders(b)
      BY <2>1, <2>2, <2>3, <2>6 DEF Holders
    <3>2. reserved'[b] = reserved[b]
      BY <1>3, <2>6 DEF ReserveBudget, AddTo
    <3>3. SumFunctionOnSet(amount', Holders(b)) = SumFunctionOnSet(amount, Holders(b))
      BY <1>2, <2>1, <2>2, SumSame
    <3>4. QED
      BY <2>4, <3>1, <3>2, <3>3 DEF SumInv, ReservedIsHeld, ConsumedIsUsed
  <2>7. QED
    BY <2>5, <2>6
<1>4. ASSUME NEW w \in Wakes, NEW n \in 0 .. MaxUsage, SettleBudget(w, n)
      PROVE  ReservedIsHeld' /\ ConsumedIsUsed'
  <2> SUFFICES ASSUME NEW b \in Buckets
               PROVE  /\ reserved'[b] = SumFunctionOnSet(amount', Holders(b)')
                      /\ consumed'[b] = SumFunctionOnSet(usage', Users(b)')
    BY DEF ReservedIsHeld, ConsumedIsUsed
  <2>1. /\ \A v \in Wakes \ {w} : /\ usage'[v] = usage[v]
                                  /\ v \in Holders(b)' <=> v \in Holders(b)
                                  /\ v \in Users(b)' <=> v \in Users(b)
    BY <1>4, OthersStay DEF SumInv
  <2>2. amount' = amount /\ Charged(w)' = Charged(w) /\ usage'[w] = n /\ n # Unknown
        /\ rstate[w] = "active" /\ rstate'[w] \in {"settled", "uncertain"} /\ usage[w] = Unknown
    BY <1>4 DEF SettleBudget, SettledState, Charged, BucketsOn, SumInv, Unsettled, TypeOK, Unknown
  <2>3. w \notin Users(b) /\ w \notin Holders(b)'
    BY <2>2 DEF Users, Holders, Holds, Unknown
  <2>4. (w \in Holders(b) <=> b \in Charged(w)) /\ (w \in Users(b)' <=> b \in Charged(w))
    BY <2>2 DEF Users, Holders, Holds, Unknown
  <2>5. CASE b \in Charged(w)
    <3>1. Holders(b)' = Holders(b) \ {w} /\ Users(b)' = Users(b) \cup {w}
      BY <2>1, <2>3, <2>4, <2>5 DEF Holders, Users
    <3>2. reserved'[b] = reserved[b] - amount[w] /\ consumed'[b] = consumed[b] + usage'[w]
      BY <1>4, <2>2, <2>5 DEF SettleBudget, TakeFrom, AddTo, Charge
    <3>3. SumFunctionOnSet(amount, Holders(b) \ {w}) =
            SumFunctionOnSet(amount, Holders(b)) - amount[w]
      BY <1>1, <1>2, <2>4, <2>5, SumLeft
    <3>4. SumFunctionOnSet(usage', Users(b) \cup {w}) =
            SumFunctionOnSet(usage, Users(b)) + usage'[w]
      BY <1>1, <1>2, <2>1, <2>3, SumJoined
    <3>5. QED
      BY <2>2, <3>1, <3>2, <3>3, <3>4 DEF SumInv, ReservedIsHeld, ConsumedIsUsed
  <2>6. CASE b \notin Charged(w)
    <3>1. Holders(b)' = Holders(b) /\ Users(b)' = Users(b)
      BY <2>1, <2>3, <2>4, <2>6 DEF Holders, Users
    <3>2. reserved'[b] = reserved[b] /\ consumed'[b] = consumed[b]
      BY <1>4, <2>6 DEF SettleBudget, TakeFrom, AddTo
    <3>3. SumFunctionOnSet(usage', Users(b)) = SumFunctionOnSet(usage, Users(b))
      BY <1>2, <2>1, <2>3, SumSame
    <3>4. QED
      BY <2>2, <3>1, <3>2, <3>3 DEF SumInv, ReservedIsHeld, ConsumedIsUsed
  <2>7. QED
    BY <2>5, <2>6
<1>5. ASSUME NEW w \in Wakes, MarkBudgetUncertain(w)
      PROVE  ReservedIsHeld' /\ ConsumedIsUsed'
  <2>1. \A v \in Wakes : Holds(v)' <=> Holds(v)
    BY <1>5 DEF MarkBudgetUncertain, Holds, SumInv, TypeOK, Unsettled, Unknown
  <2>2. \A b \in Buckets : Holders(b)' = Holders(b) /\ Users(b)' = Users(b)
    BY <1>5, <2>1 DEF MarkBudgetUncertain, Holders, Users, Charged, BucketsOn, Unknown
  <2>3. QED
    BY <1>5, <2>2 DEF MarkBudgetUncertain, SumInv, ReservedIsHeld, ConsumedIsUsed, ledger
<1>6. ASSUME NEW w \in Wakes, ReleaseBudget(w)
      PROVE  ReservedIsHeld' /\ ConsumedIsUsed'
  <2> SUFFICES ASSUME NEW b \in Buckets
               PROVE  /\ reserved'[b] = SumFunctionOnSet(amount', Holders(b)')
                      /\ consumed'[b] = SumFunctionOnSet(usage', Users(b)')
    BY DEF ReservedIsHeld, ConsumedIsUsed
  <2>1. \A v \in Wakes \ {w} : v \in Holders(b)' <=> v \in Holders(b)
    BY <1>6, OthersStay DEF SumInv
  <2>2. amount' = amount /\ w \notin Holders(b)' /\ (w \in Holders(b) <=> b \in Charged(w))
    BY <1>6 DEF ReleaseBudget, Holders, Holds, SumInv, TypeOK
  <2>3. Users(b)' = Users(b) /\ consumed' = consumed /\ usage' = usage
    BY <1>6 DEF ReleaseBudget, Users, Charged, BucketsOn, Unknown
  <2>4. CASE b \in Charged(w)
    <3>1. Holders(b)' = Holders(b) \ {w} /\ reserved'[b] = reserved[b] - amount[w]
      BY <1>6, <2>1, <2>2, <2>4 DEF Holders, ReleaseBudget, TakeFrom
    <3>2. SumFunctionOnSet(amount, Holders(b) \ {w}) =
            SumFunctionOnSet(amount, Holders(b)) - amount[w]
      BY <1>1, <1>2, <2>2, <2>4, SumLeft
    <3>3. QED
      BY <2>2, <2>3, <3>1, <3>2 DEF SumInv, ReservedIsHeld, ConsumedIsUsed
  <2>5. CASE b \notin Charged(w)
    <3>1. Holders(b)' = Holders(b) /\ reserved'[b] = reserved[b]
      BY <1>6, <2>1, <2>2, <2>5 DEF Holders, ReleaseBudget, TakeFrom
    <3>2. QED
      BY <2>2, <2>3, <3>1 DEF SumInv, ReservedIsHeld, ConsumedIsUsed
  <2>6. QED
    BY <2>4, <2>5
<1>7. CASE NextDay \/ \E x \in Subjects, n \in Limits : ChangePolicy(x, n)
  BY <1>7, NoneOperated DEF NextDay, ChangePolicy, SumInv
<1>8. QED
  BY <1>3, <1>4, <1>5, <1>6, <1>7 DEF Next

LEMMA SumInvariance ==
    ASSUME IsFiniteSet(Wakes)
    PROVE  Spec => []SumInv
<1>1. Init => SumInv
  <2> SUFFICES ASSUME Init, NEW b \in Buckets
               PROVE  /\ reserved[b] = SumFunctionOnSet(amount, Holders(b))
                      /\ consumed[b] = SumFunctionOnSet(usage, Users(b))
    BY InitTypes DEF SumInv, ReservedIsHeld, ConsumedIsUsed, Unsettled, Init
  <2>1. Holders(b) = {} /\ Users(b) = {} /\ reserved[b] = 0 /\ consumed[b] = 0
    BY DEF Init, Holders, Holds, Users
  <2>2. SumFunctionOnSet(amount, {}) = 0 /\ SumFunctionOnSet(usage, {}) = 0
    BY FS_EmptySet, SumDef
  <2>3. QED
    BY <2>1, <2>2
<1>2. SumInv /\ [Next]_vars => SumInv'
  <2>1. SumInv /\ UNCHANGED vars => SumInv'
    BY NextTypes, NoneOperated DEF SumInv, Unsettled, Unknown, vars, reservations
  <2>2. QED
    BY <2>1, NextTypes, NextUnsettled, NextReserved DEF SumInv
<1>3. QED
  BY <1>1, <1>2, PTL DEF Spec

\* The reserved tokens of a bucket are those of its open reservations and of the wakes of
\* unknown usage, for any finite number of wakes: no operation loses tokens or leaves any
\* behind.
THEOREM ReservationsAddUp ==
    ASSUME IsFiniteSet(Wakes)
    PROVE  Spec => []ReservedIsHeld
<1>1. SumInv => ReservedIsHeld
  BY DEF SumInv
<1>2. QED
  BY <1>1, SumInvariance, PTL

\* The consumed tokens of a bucket are what its wakes reported, overages included.
THEOREM UsageAddsUp ==
    ASSUME IsFiniteSet(Wakes)
    PROVE  Spec => []ConsumedIsUsed
<1>1. SumInv => ConsumedIsUsed
  BY DEF SumInv
<1>2. QED
  BY <1>1, SumInvariance, PTL

\* A running wake can always be settled or released: its tokens are still reserved in both
\* of its buckets, so that settle_budget and release_budget never refuse it as corrupt.
THEOREM RunningWakesAreCovered ==
    ASSUME IsFiniteSet(Wakes)
    PROVE  Spec => [](\A w \in Wakes : rstate[w] = "active" => Covered(w))
<1>1. SumInv => \A w \in Wakes : rstate[w] = "active" => Covered(w)
  <2> SUFFICES ASSUME SumInv, NEW w \in Wakes, rstate[w] = "active", NEW b \in Charged(w)
               PROVE  reserved[b] >= amount[w]
    BY DEF Covered
  <2>1. amount \in [Wakes -> Nat] /\ Holders(b) \in SUBSET Wakes /\ w \in Holders(b)
    BY DEF SumInv, TypeOK, Holders, Holds
  <2>2. b \in Buckets
    BY WakeBuckets DEF SumInv
  <2>3. IsFiniteSet(Holders(b)) /\ IsFiniteSet(Holders(b) \ {w})
    BY <2>1, FS_Subset
  <2>4. reserved[b] = amount[w] + SumFunctionOnSet(amount, Holders(b) \ {w})
    BY <2>1, <2>2, <2>3, SumRemove DEF SumInv, ReservedIsHeld
  <2>5. SumFunctionOnSet(amount, Holders(b) \ {w}) \in Nat /\ amount[w] \in Nat
    BY <2>1, <2>3, SumType
  <2>6. QED
    BY <2>4, <2>5
<1>2. QED
  BY <1>1, SumInvariance, PTL

=============================================================================
