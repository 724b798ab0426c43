----------------------------- MODULE BudgetLedger -----------------------------
(***************************************************************************)
(* The token ledger: every wake reserves tokens against the bucket of its  *)
(* organization and the bucket of its role for the current day, and the    *)
(* reservation is later settled with the actual usage, released because    *)
(* nothing ran, or kept because the usage is unknown.                      *)
(*                                                                         *)
(* Each operation is one SQLite transaction; a transaction that raises     *)
(* StateError leaves nothing behind and is not a step.  When a reservation *)
(* is settled, released or kept is decided by the wake's life (module      *)
(* WakeLifecycle): here it may happen in any order.                        *)
(***************************************************************************)
EXTENDS Naturals, FiniteSets, Functions

CONSTANTS
    Wakes,       \* wake sessions; each makes at most one reservation
    Roles,       \* commissioned roles
    RoleOf,      \* RoleOf[w]: the role of wake w
    Org,         \* the organization, the subject of the shared bucket
    LastDay,     \* the days (epochs) are 1..LastDay
    Amounts,     \* the reservations a role may be configured with
    MaxUsage,    \* the most tokens a wake can use
    Limits       \* the daily limits a policy release may give

ASSUME RoleOfAssumption == RoleOf \in [Wakes -> Roles]
ASSUME OrgAssumption == Org \notin Roles
ASSUME LastDayAssumption == LastDay \in Nat \ {0}
ASSUME AmountsAssumption == Amounts \subseteq Nat \ {0}
ASSUME MaxUsageAssumption == MaxUsage \in Nat
ASSUME LimitsAssumption == Limits \subseteq Nat \ {0}

Days     == 1 .. LastDay
Subjects == Roles \cup {Org}
Buckets  == Subjects \X Days

VARIABLES
    day,        \* the current epoch
    policy,     \* policy[x]: the daily budget in force for subject x
    limit,      \* limit[b]: budget_bucket.token_limit, 0 when there is no row
    consumed,   \* consumed[b]: budget_bucket.consumed_tokens
    reserved,   \* reserved[b]: budget_bucket.reserved_tokens
    rstate,     \* rstate[w]: budget_reservation.state
    amount,     \* amount[w]: budget_reservation.reserved_tokens
    epoch,      \* epoch[w]: budget_reservation.epoch
    usage       \* usage[w]: what settle_budget was told, history only

ledger       == <<limit, consumed, reserved>>
reservations == <<rstate, amount, epoch, usage>>
vars         == <<day, policy, ledger, reservations>>

\* The usage of a wake that was never settled.
Unknown == MaxUsage + 1

Init ==
    /\ day = 1
    /\ policy \in [Subjects -> Limits]
    /\ limit = [b \in Buckets |-> 0]
    /\ consumed = [b \in Buckets |-> 0]
    /\ reserved = [b \in Buckets |-> 0]
    /\ rstate = [w \in Wakes |-> "none"]
    /\ amount = [w \in Wakes |-> 0]
    /\ epoch = [w \in Wakes |-> 1]
    /\ usage = [w \in Wakes |-> Unknown]

-----------------------------------------------------------------------------
(* The two buckets of a wake of day e, and what the operations do to both. *)

BucketsOn(w, e) == {<<Org, e>>, <<RoleOf[w], e>>}

Charged(w) == BucketsOn(w, epoch[w])

\* The row of a bucket is inserted with the limit now in force.
LimitOf(b) == IF limit[b] = 0 THEN policy[b[1]] ELSE limit[b]

AddTo(f, B, n)  == [b \in Buckets |-> IF b \in B THEN f[b] + n ELSE f[b]]
TakeFrom(f, B, n) == [b \in Buckets |-> IF b \in B THEN f[b] - n ELSE f[b]]

HasRoom(b, n) == consumed[b] + reserved[b] + n <= LimitOf(b)

\* reserve_budget: both buckets have room, under an unchanged limit.
ReserveBudget(w, n) ==
    /\ rstate[w] = "none"
    /\ \A b \in BucketsOn(w, day) : LimitOf(b) = policy[b[1]] /\ HasRoom(b, n)
    /\ limit' = [b \in Buckets |-> IF b \in BucketsOn(w, day) THEN LimitOf(b) ELSE limit[b]]
    /\ reserved' = AddTo(reserved, BucketsOn(w, day), n)
    /\ rstate' = [rstate EXCEPT ![w] = "active"]
    /\ amount' = [amount EXCEPT ![w] = n]
    /\ epoch' = [epoch EXCEPT ![w] = day]
    /\ UNCHANGED <<day, policy, consumed, usage>>

Covered(w) == \A b \in Charged(w) : reserved[b] >= amount[w]

Overage(w, n) == n > amount[w] \/ \E b \in Charged(w) : consumed[b] + n > limit[b]

\* Variant: only crossing a limit is an overage.
SettledStateLimit(w, n) ==
    IF \E b \in Charged(w) : consumed[b] + n > limit[b] THEN "uncertain" ELSE "settled"

SettledState(w, n) == IF Overage(w, n) THEN "uncertain" ELSE "settled"

\* Variant: no more is charged than was reserved.
ChargeReservedOnly(w, n) == IF n > amount[w] THEN amount[w] ELSE n

\* Actual usage is charged in full.
Charge(w, n) == n

\* settle_budget: both buckets exchange the reservation for the usage.
SettleBudget(w, n) ==
    /\ rstate[w] = "active"
    /\ Covered(w)
    /\ reserved' = TakeFrom(reserved, Charged(w), amount[w])
    /\ consumed' = AddTo(consumed, Charged(w), Charge(w, n))
    /\ rstate' = [rstate EXCEPT ![w] = SettledState(w, n)]
    /\ usage' = [usage EXCEPT ![w] = n]
    /\ UNCHANGED <<day, policy, limit, amount, epoch>>

\* Variant: an unknown usage gives the reservation back.
MarkBudgetUncertainFreeing(w) ==
    /\ rstate[w] = "active"
    /\ Covered(w)
    /\ rstate' = [rstate EXCEPT ![w] = "uncertain"]
    /\ reserved' = TakeFrom(reserved, Charged(w), amount[w])
    /\ UNCHANGED <<day, policy, limit, consumed, amount, epoch, usage>>

\* mark_budget_uncertain, and the same update in force_terminate_session and
\* reap_expired_session.
MarkBudgetUncertain(w) ==
    /\ rstate[w] = "active"
    /\ rstate' = [rstate EXCEPT ![w] = "uncertain"]
    /\ UNCHANGED <<day, policy, ledger, amount, epoch, usage>>

\* Variant: a reservation is released whatever became of it.
ReleaseBudgetAgain(w) ==
    /\ rstate[w] # "none"
    /\ reserved' = TakeFrom(reserved, Charged(w), amount[w])
    /\ rstate' = [rstate EXCEPT ![w] = "released"]
    /\ UNCHANGED <<day, policy, limit, consumed, amount, epoch, usage>>

\* release_budget, _release_reservation_for.
ReleaseBudget(w) ==
    /\ rstate[w] = "active"
    /\ Covered(w)
    /\ reserved' = TakeFrom(reserved, Charged(w), amount[w])
    /\ rstate' = [rstate EXCEPT ![w] = "released"]
    /\ UNCHANGED <<day, policy, limit, consumed, amount, epoch, usage>>

\* Midnight UTC.
NextDay ==
    /\ day < LastDay
    /\ day' = day + 1
    /\ UNCHANGED <<policy, ledger, reservations>>

\* A new policy release with another budget for subject x.
ChangePolicy(x, n) ==
    /\ policy' = [policy EXCEPT ![x] = n]
    /\ UNCHANGED <<day, ledger, reservations>>

Next ==
    \/ \E w \in Wakes :
          \/ \E n \in Amounts : ReserveBudget(w, n)
          \/ \E n \in 0 .. MaxUsage : SettleBudget(w, n)
          \/ MarkBudgetUncertain(w) \/ ReleaseBudget(w)
    \/ NextDay
    \/ \E x \in Subjects, n \in Limits : ChangePolicy(x, n)

Spec == Init /\ [][Next]_vars

-----------------------------------------------------------------------------
(* Properties.                                                             *)

\* Types of all variables; in particular no bucket's reserved tokens are negative.
TypeOK ==
    /\ day \in Days
    /\ policy \in [Subjects -> Limits]
    /\ limit \in [Buckets -> Nat]
    /\ consumed \in [Buckets -> Nat]
    /\ reserved \in [Buckets -> Nat]
    /\ rstate \in [Wakes -> {"none", "active", "settled", "released", "uncertain"}]
    /\ amount \in [Wakes -> Nat]
    /\ epoch \in [Wakes -> Days]
    /\ usage \in [Wakes -> Nat]

\* Reservations whose tokens are set aside: running wakes, and wakes whose usage
\* will never be known.
Holds(w) == rstate[w] = "active" \/ (rstate[w] = "uncertain" /\ usage[w] = Unknown)

Holders(b) == {w \in Wakes : Holds(w) /\ b \in Charged(w)}

\* The tokens set aside in a bucket are those of the reservations that hold them: a
\* settlement, a release and a reservation of unknown usage neither lose tokens of
\* others nor leave any behind (reserve_budget, settle_budget, release_budget).
ReservedIsHeld == \A b \in Buckets : reserved[b] = SumFunctionOnSet(amount, Holders(b))

\* The wakes of a bucket whose usage is known.
Users(b) == {w \in Wakes : usage[w] # Unknown /\ b \in Charged(w)}

\* What is consumed in a bucket is the whole known usage of its wakes, overages
\* included (settle_budget: "overage becomes uncertain, never silently free").
ConsumedIsUsed == \A b \in Buckets : consumed[b] = SumFunctionOnSet(usage, Users(b))

\* A bucket is committed beyond its limit only by a wake that used more than it had
\* reserved, and that wake is on record as uncertain for a human to review.
LimitOrOverage ==
    \A b \in Buckets :
        consumed[b] + reserved[b] <= limit[b]
        \/ \E w \in Wakes : /\ rstate[w] = "uncertain" /\ b \in Charged(w)
                            /\ usage[w] # Unknown /\ usage[w] > amount[w]

=============================================================================
