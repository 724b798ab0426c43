---------------------------- MODULE DeliveryQueue ----------------------------
(***************************************************************************)
(* From observed events to deliveries.  A tick routes every event that is  *)
(* not yet routed, binds the routes that wait for each role to one new     *)
(* delivery, leases a batch of deliveries and runs a wake for each.  Two   *)
(* processes may tick at once, the service and the command line: each of   *)
(* the tick's statements is a transaction of its own, and what it read is  *)
(* old by the time it is used.                                             *)
(*                                                                         *)
(* A step is one transaction.  The wake itself (module WakeLifecycle) is   *)
(* here what it does to the queue: it starts its delivery or not, and      *)
(* finishes it.  Time is a flag on each delivery: its lease has lapsed, or *)
(* its retry has fallen due.                                               *)
(***************************************************************************)
EXTENDS Naturals, Sequences, FiniteSets

CONSTANTS
    Events,      \* observed events, numbered in the order of occurred_at
    Facts,       \* Facts[e]: the fields and labels of e, as <<field, value>> pairs
    Rules,       \* the wake rules, in order
    Roles,       \* the policy's roles; as a label, "role:" and the name
    Deliveries,  \* rows of delivery
    Procs,       \* processes that tick
    Service,     \* the one whose scheduler ticks for ever
    Limit,       \* wakes in a batch
    BatchSize,   \* MAX_EVENTS_PER_WAKE
    MaxAttempts, \* lease_delivery's max_attempts
    MaxCrashes,  \* bound on lost processes
    Nobody       \* no role, no delivery, no process

ASSUME QueueNumbersAssumption ==
    /\ Events \subseteq Nat
    /\ {Limit, BatchSize, MaxAttempts} \subseteq Nat \ {0}
    /\ MaxCrashes \in Nat
ASSUME ServiceAssumption == Service \in Procs
ASSUME NobodyAssumption == Nobody \notin Roles \cup Deliveries \cup Procs
ASSUME RulesAssumption ==
    \A n \in DOMAIN Rules : Rules[n].match # {} /\ Rules[n].wake \in Roles \cup {"from-label"}

VARIABLES
    ev,       \* ev[e]: observed_event.enrichment_state, "absent" before it is published
    rt,       \* rt[e]: route_target.state, "none" without a row
    bound,    \* bound[e]: route_target.delivery_id
    dst,      \* dst[d]: delivery.state, "none" without a row
    dev,      \* dev[d]: its delivery_event rows
    owner,    \* owner[d]: lease_owner
    attempt,  \* attempt[d]
    elapsed,  \* elapsed[d]: the time in lease_until or eligible_at has passed
    tried,    \* the deliveries a wake was ever run for (history)
    pc,       \* pc[p]: where tick is
    todo,     \* todo[p]: the unrouted events it read and has still to route
    unread,   \* unread[p]: the roles whose pending routes it has still to read
    pend,     \* pend[p][r]: pending_by_role
    batch,    \* batch[p]: the deliveries it leased and has still a thread for
    started,  \* started[p]: those it has started
    dup,      \* dup[p]: the delivery it leased for a role it had already
    crashes   \* processes lost so far

routes == <<ev, rt, bound>>
queue  == <<dst, dev, owner, attempt, elapsed>>
reads  == <<todo, unread, pend>>
wakes  == <<batch, started, dup>>
vars   == <<routes, queue, tried, pc, reads, wakes, crashes>>

Waiting == {"queued", "retry_wait"}
Held    == {"leased", "running"}
Final   == {"succeeded", "dead_letter", "uncertain"}
Rows    == Waiting \cup Held \cup Final \cup {"budget_hold"}

TypeOK ==
    /\ ev \in [Events -> {"absent", "pending", "routed", "ignored"}]
    /\ rt \in [Events -> {"none", "pending", "queued", "leased", "delivered",
                          "dead_letter", "manual_review"}]
    /\ bound \in [Events -> Deliveries \cup {Nobody}]
    /\ dst \in [Deliveries -> Rows \cup {"none"}]
    /\ dev \in [Deliveries -> SUBSET Events]
    /\ owner \in [Deliveries -> Procs \cup {Nobody}]
    /\ attempt \in [Deliveries -> 0..MaxAttempts]
    /\ elapsed \in [Deliveries -> BOOLEAN]
    /\ tried \subseteq Deliveries
    /\ pc \in [Procs -> {"idle", "bind", "dup", "run"}]
    /\ todo \in [Procs -> SUBSET Events]
    /\ unread \in [Procs -> SUBSET Roles]
    /\ pend \in [Procs -> [Roles -> SUBSET Events]]
    /\ batch \in [Procs -> SUBSET Deliveries]
    /\ started \in [Procs -> SUBSET Deliveries]
    /\ dup \in [Procs -> Deliveries \cup {Nobody}]
    /\ crashes \in 0..MaxCrashes

Init ==
    /\ ev = [e \in Events |-> "absent"]
    /\ rt = [e \in Events |-> "none"]
    /\ bound = [e \in Events |-> Nobody]
    /\ dst = [d \in Deliveries |-> "none"]
    /\ dev = [d \in Deliveries |-> {}]
    /\ owner = [d \in Deliveries |-> Nobody]
    /\ attempt = [d \in Deliveries |-> 0]
    /\ elapsed = [d \in Deliveries |-> FALSE]
    /\ tried = {}
    /\ pc = [p \in Procs |-> "idle"]
    /\ todo = [p \in Procs |-> {}]
    /\ unread = [p \in Procs |-> {}]
    /\ pend = [p \in Procs |-> [r \in Roles |-> {}]]
    /\ batch = [p \in Procs |-> {}]
    /\ started = [p \in Procs |-> {}]
    /\ dup = [p \in Procs |-> Nobody]
    /\ crashes = 0

-----------------------------------------------------------------------------
(* route_event.                                                            *)

\* The first rule whose fields the event all has decides.  "from-label" takes the
\* role among the event's labels if there is exactly one.
RouteEvent(e) ==
    LET hits == {n \in DOMAIN Rules : Rules[n].match \subseteq Facts[e]}
        labelled == {r \in Roles : <<"label", r>> \in Facts[e]}
        first == CHOOSE n \in hits : \A k \in hits : n <= k
    IN  IF hits = {} THEN Nobody
        ELSE IF Rules[first].wake # "from-label" THEN Rules[first].wake
        ELSE IF Cardinality(labelled) = 1 THEN CHOOSE r \in labelled : TRUE
        ELSE Nobody

\* The role of a delivery's events.
RoleOf(d) == RouteEvent(CHOOSE e \in dev[d] : TRUE)

-----------------------------------------------------------------------------
(* Store: routing and binding.                                             *)

\* pending_routes: the oldest few of a role's routes that no delivery has.
PendingRoutes(r) ==
    LET S == {e \in Events : RouteEvent(e) = r /\ rt[e] = "pending" /\ bound[e] = Nobody}
    IN  {e \in S : Cardinality({f \in S : f < e}) < BatchSize}

\* The idempotency key is the role and the events, and so the events alone.
Known(S) == \E d \in Deliveries : dst[d] # "none" /\ dev[d] = S

\* Variant: the routes are bound as they were read.
MayBindUnchecked(S) == TRUE

\* enqueue_delivery looks at every route again.
MayBind(S) == \A e \in S : rt[e] = "pending" /\ bound[e] = Nobody

\* enqueue_delivery inserts the delivery and binds the routes in one transaction.  The
\* rows there may be are bounded by Deliveries.
BindRoutes(S) ==
    LET d == CHOOSE x \in Deliveries : dst[x] = "none"
    IN  /\ \E x \in Deliveries : dst[x] = "none"
        /\ dst' = [dst EXCEPT ![d] = "queued"]
        /\ dev' = [dev EXCEPT ![d] = S]
        /\ elapsed' = [elapsed EXCEPT ![d] = TRUE]
        /\ rt' = [e \in Events |-> IF e \in S THEN "queued" ELSE rt[e]]
        /\ bound' = [e \in Events |-> IF e \in S THEN d ELSE bound[e]]
        /\ UNCHANGED <<ev, owner, attempt>>

-----------------------------------------------------------------------------
(* Store: leases and outcomes.                                             *)

SetRoutes(d, s) == [e \in Events |-> IF bound[e] = d THEN s ELSE rt[e]]

\* Variant: a lease that lapsed before the start stays with its holder.
SweptKeepingLeases(d) ==
    CASE dst[d] = "running" /\ elapsed[d] -> "uncertain"
      [] dst[d] \in Waiting /\ attempt[d] >= MaxAttempts -> "dead_letter"
      [] OTHER -> dst[d]

\* What lease_delivery's sweep makes of a row before it looks for one to lease.
Swept(d) ==
    CASE dst[d] = "running" /\ elapsed[d] -> "uncertain"
      [] dst[d] = "leased" /\ elapsed[d] /\ attempt[d] < MaxAttempts -> "retry_wait"
      [] dst[d] = "leased" /\ elapsed[d] /\ attempt[d] >= MaxAttempts -> "dead_letter"
      [] dst[d] \in Waiting /\ attempt[d] >= MaxAttempts -> "dead_letter"
      [] OTHER -> dst[d]

\* Variant: the sweep closes deliveries and leaves their routes alone.
SweptRouteKept(e) == rt[e]

\* The sweep closes a route with its delivery.  A lease that lapsed leaves its
\* routes "leased".
SweptRoute(e) ==
    IF bound[e] = Nobody \/ Swept(bound[e]) = dst[bound[e]] THEN rt[e]
    ELSE CASE Swept(bound[e]) = "uncertain" -> "manual_review"
           [] Swept(bound[e]) = "dead_letter" -> "dead_letter"
           [] OTHER -> rt[e]

Eligible == {d \in Deliveries : Swept(d) \in Waiting /\ elapsed[d]}

\* The sweep, and d leased to p if there is one.
SweepAndLease(p, leased) ==
    /\ dst' = [d \in Deliveries |-> IF d \in leased THEN "leased" ELSE Swept(d)]
    /\ owner' = [d \in Deliveries |-> IF d \in leased THEN p
                    ELSE IF Swept(d) \in Held THEN owner[d] ELSE Nobody]
    /\ attempt' = [d \in Deliveries |-> IF d \in leased THEN attempt[d] + 1 ELSE attempt[d]]
    /\ elapsed' = [d \in Deliveries |-> elapsed[d] /\ d \notin leased]
    /\ rt' = [e \in Events |-> IF bound[e] \in leased THEN "leased" ELSE SweptRoute(e)]
    /\ UNCHANGED <<ev, bound, dev>>

\* finish_delivery's targets: the delivery's state and its routes'.
DeliveryAfter == [succeeded |-> "succeeded", retry |-> "retry_wait",
                  budget_hold |-> "budget_hold", uncertain |-> "uncertain"]
RouteAfter == [succeeded |-> "delivered", retry |-> "queued",
               budget_hold |-> "queued", uncertain |-> "manual_review"]

\* The row is p's to finish this way; otherwise finish_delivery raises.
Finishes(p, d, outcome) ==
    /\ owner[d] = p
    /\ \/ dst[d] = "leased" /\ outcome \in {"retry", "budget_hold"}
       \/ dst[d] = "running" /\ outcome \in {"succeeded", "uncertain"}

\* Variant: whoever holds the delivery now, it is finished.
FinishDeliveryUnchecked(p, d, outcome) ==
    /\ dst' = [dst EXCEPT ![d] = DeliveryAfter[outcome]]
    /\ owner' = [owner EXCEPT ![d] = Nobody]
    /\ attempt' = [attempt EXCEPT ![d] = IF outcome = "budget_hold" THEN @ - 1 ELSE @]
    /\ elapsed' = [elapsed EXCEPT ![d] = FALSE]
    /\ rt' = SetRoutes(d, RouteAfter[outcome])
    /\ UNCHANGED <<ev, bound, dev>>

\* finish_delivery.  A budget hold gives the attempt back.
FinishDelivery(p, d, outcome) ==
    IF Finishes(p, d, outcome)
    THEN /\ dst' = [dst EXCEPT ![d] = DeliveryAfter[outcome]]
         /\ owner' = [owner EXCEPT ![d] = Nobody]
         /\ attempt' = [attempt EXCEPT ![d] = IF outcome = "budget_hold" THEN @ - 1 ELSE @]
         /\ elapsed' = [elapsed EXCEPT ![d] = FALSE]
         /\ rt' = SetRoutes(d, RouteAfter[outcome])
         /\ UNCHANGED <<ev, bound, dev>>
    ELSE UNCHANGED <<routes, queue>>

\* A held delivery is let go, whoever holds it.
LetGoOf(d, state, route) ==
    /\ dst' = [dst EXCEPT ![d] = state]
    /\ owner' = [owner EXCEPT ![d] = Nobody]
    /\ elapsed' = [elapsed EXCEPT ![d] = FALSE]
    /\ rt' = SetRoutes(d, route)
    /\ UNCHANGED <<ev, bound, dev, attempt>>

\* force_delivery_uncertain, its StateError caught.
ForceDeliveryUncertain(d) ==
    IF dst[d] \in Held THEN LetGoOf(d, "uncertain", "manual_review")
                       ELSE UNCHANGED <<routes, queue>>

\* _retry_leased_delivery.
RetryLeasedDelivery(d) == dst[d] = "leased" /\ LetGoOf(d, "retry_wait", "queued")

-----------------------------------------------------------------------------
(* tick.                                                                   *)

Goto(p, label) == pc' = [pc EXCEPT ![p] = label]

\* A StateError ends the tick; the scheduler starts another one.
Abort(p) ==
    /\ Goto(p, "idle")
    /\ todo' = [todo EXCEPT ![p] = {}]
    /\ unread' = [unread EXCEPT ![p] = {}]
    /\ pend' = [pend EXCEPT ![p] = [r \in Roles |-> {}]]

\* unrouted_events, after the sources were polled.
StartTick(p) ==
    /\ pc[p] = "idle"
    /\ Goto(p, "bind")
    /\ todo' = [todo EXCEPT ![p] = {e \in Events : ev[e] = "pending"}]
    /\ unread' = [unread EXCEPT ![p] = Roles]
    /\ UNCHANGED <<routes, queue, tried, pend, wakes, crashes>>

\* The oldest of them; finish_event_routing raises if another process was faster.
RouteOne(p) ==
    /\ pc[p] = "bind" /\ todo[p] # {}
    /\ LET e == CHOOSE x \in todo[p] : \A y \in todo[p] : x <= y
           r == RouteEvent(e)
       IN  IF ev[e] = "pending"
           THEN /\ ev' = [ev EXCEPT ![e] = IF r = Nobody THEN "ignored" ELSE "routed"]
                /\ rt' = [rt EXCEPT ![e] = IF r = Nobody THEN @ ELSE "pending"]
                /\ todo' = [todo EXCEPT ![p] = @ \ {e}]
                /\ UNCHANGED <<bound, pc, unread, pend>>
           ELSE Abort(p) /\ UNCHANGED routes
    /\ UNCHANGED <<queue, tried, wakes, crashes>>

\* The pending routes of every role are read, one role after the other, before any
\* is bound.
ReadPending(p) ==
    /\ pc[p] = "bind" /\ todo[p] = {} /\ unread[p] # {}
    /\ LET r == CHOOSE x \in unread[p] : TRUE
       IN  /\ pend' = [pend EXCEPT ![p][r] = PendingRoutes(r)]
           /\ unread' = [unread EXCEPT ![p] = @ \ {r}]
    /\ UNCHANGED <<routes, queue, tried, pc, todo, wakes, crashes>>

\* pending_by_role, as far as it is not enqueued yet.
Unbound(p) == {r \in Roles : pend[p][r] # {}}

\* enqueue_delivery under the key of these events: a second process with the same
\* events gets the same delivery, one with other events an error.
Enqueue(p) ==
    /\ pc[p] = "bind" /\ todo[p] = {} /\ unread[p] = {} /\ Unbound(p) # {}
    /\ LET r == CHOOSE x \in Unbound(p) : TRUE
           S == pend[p][r]
       IN  \/ /\ Known(S)
              /\ pend' = [pend EXCEPT ![p][r] = {}]
              /\ UNCHANGED <<routes, queue, pc, todo, unread>>
           \/ /\ ~Known(S) /\ MayBind(S)
              /\ BindRoutes(S)
              /\ pend' = [pend EXCEPT ![p][r] = {}]
              /\ UNCHANGED <<pc, todo, unread>>
           \/ /\ ~Known(S) /\ ~MayBind(S)
              /\ Abort(p)
              /\ UNCHANGED <<routes, queue>>
    /\ UNCHANGED <<tried, wakes, crashes>>

\* Everything is routed and bound: tick goes on to lease.
Leasing(p) == pc[p] = "bind" /\ todo[p] = {} /\ unread[p] = {} /\ Unbound(p) = {}

Taken(p) == {RoleOf(d) : d \in batch[p]}

\* lease_delivery for the batch.
Lease(p, d) ==
    /\ Leasing(p) /\ Cardinality(batch[p]) < Limit
    /\ d \in Eligible
    /\ SweepAndLease(p, {d})
    /\ IF RoleOf(d) \in Taken(p)
       THEN Goto(p, "dup") /\ dup' = [dup EXCEPT ![p] = d] /\ UNCHANGED batch
       ELSE batch' = [batch EXCEPT ![p] = @ \cup {d}] /\ UNCHANGED <<pc, dup>>
    /\ UNCHANGED <<tried, reads, started, crashes>>

\* Its role has a wake in this batch already: it is put back, its attempt spent.  A
\* lease lost meanwhile is a StateError out of the tick, and the leases of the batch
\* are left to lapse.
GiveBack(p) ==
    /\ pc[p] = "dup"
    /\ FinishDelivery(p, dup[p], "retry")
    /\ dup' = [dup EXCEPT ![p] = Nobody]
    /\ IF Finishes(p, dup[p], "retry")
       THEN Goto(p, "bind") /\ UNCHANGED batch
       ELSE Goto(p, "idle") /\ batch' = [batch EXCEPT ![p] = {}]
    /\ UNCHANGED <<tried, reads, started, crashes>>

\* The batch is full, or the last sweep found nothing to lease.
RunBatch(p) ==
    /\ Leasing(p)
    /\ \/ Cardinality(batch[p]) >= Limit /\ UNCHANGED <<routes, queue>>
       \/ Cardinality(batch[p]) < Limit /\ Eligible = {} /\ SweepAndLease(p, {})
    /\ Goto(p, "run")
    /\ tried' = tried \cup batch[p]
    /\ UNCHANGED <<reads, wakes, crashes>>

\* start_delivery, on a lease that is p's and has not lapsed.
StartDelivery(p, d) ==
    /\ pc[p] = "run" /\ d \in batch[p] \ started[p]
    /\ dst[d] = "leased" /\ owner[d] = p /\ ~elapsed[d]
    /\ dst' = [dst EXCEPT ![d] = "running"]
    /\ started' = [started EXCEPT ![p] = @ \cup {d}]
    /\ UNCHANGED <<routes, dev, owner, attempt, elapsed, tried, pc, reads, batch, dup, crashes>>

\* The thread of d ends: before start_delivery with a retry or a budget hold, after
\* it with the wake's outcome.
EndWake(p, d, outcome) ==
    /\ pc[p] = "run" /\ d \in batch[p]
    /\ IF d \in started[p] THEN outcome \in {"succeeded", "uncertain"}
                           ELSE outcome \in {"retry", "budget_hold"}
    /\ FinishDelivery(p, d, outcome)
    /\ batch' = [batch EXCEPT ![p] = @ \ {d}]
    /\ started' = [started EXCEPT ![p] = @ \ {d}]
    /\ UNCHANGED <<tried, pc, reads, dup, crashes>>

\* The thread of d fails after its provider was spawned, before or after start_delivery:
\* the delivery is put under review, whoever holds it by then.
FailWake(p, d) ==
    /\ pc[p] = "run" /\ d \in batch[p]
    /\ ForceDeliveryUncertain(d)
    /\ batch' = [batch EXCEPT ![p] = @ \ {d}]
    /\ started' = [started EXCEPT ![p] = @ \ {d}]
    /\ UNCHANGED <<tried, pc, reads, dup, crashes>>

EndTick(p) ==
    /\ pc[p] = "run" /\ batch[p] = {}
    /\ Goto(p, "idle")
    /\ UNCHANGED <<routes, queue, tried, reads, wakes, crashes>>

-----------------------------------------------------------------------------
(* The rest of the world.                                                  *)

\* finish_snapshot publishes an event.
Observe(e) ==
    /\ ev[e] = "absent"
    /\ ev' = [ev EXCEPT ![e] = "pending"]
    /\ UNCHANGED <<rt, bound, queue, tried, pc, reads, wakes, crashes>>

Elapse(d) ==
    /\ dst[d] \in Held \cup Waiting /\ ~elapsed[d]
    /\ elapsed' = [elapsed EXCEPT ![d] = TRUE]
    /\ UNCHANGED <<routes, dst, dev, owner, attempt, tried, pc, reads, wakes, crashes>>

\* The process is lost.  Another one takes its place under another owner's name.
Crash(p) ==
    /\ crashes < MaxCrashes /\ pc[p] # "idle"
    /\ crashes' = crashes + 1
    /\ Abort(p)
    /\ owner' = [d \in Deliveries |-> IF owner[d] = p THEN Nobody ELSE owner[d]]
    /\ batch' = [batch EXCEPT ![p] = {}]
    /\ started' = [started EXCEPT ![p] = {}]
    /\ dup' = [dup EXCEPT ![p] = Nobody]
    /\ UNCHANGED <<routes, dst, dev, attempt, elapsed, tried>>

\* recover finds the wake of a delivery, whoever runs it.  A wake with no process recorded
\* is given back if it is only leased; any other is put under review.
Recover(d) ==
    /\ dst[d] \in Held /\ d \in tried
    /\ RetryLeasedDelivery(d) \/ ForceDeliveryUncertain(d)
    /\ UNCHANGED <<tried, pc, reads, wakes, crashes>>

Outcomes == DOMAIN DeliveryAfter

TickStep(p) ==
    \/ StartTick(p) \/ RouteOne(p) \/ ReadPending(p) \/ Enqueue(p)
    \/ GiveBack(p) \/ RunBatch(p) \/ EndTick(p)
    \/ \E d \in Deliveries :
         Lease(p, d) \/ StartDelivery(p, d) \/ FailWake(p, d) \/ \E o \in Outcomes : EndWake(p, d, o)

Next ==
    \/ \E p \in Procs : TickStep(p) \/ Crash(p)
    \/ \E e \in Events : Observe(e)
    \/ \E d \in Deliveries : Elapse(d) \/ Recover(d)

Spec == Init /\ [][Next]_vars

\* The service's scheduler ticks for ever and its wakes end by their timeout; time
\* passes.  Nothing is asked of the command line, nor of a recovery.
FairSpec ==
    /\ Spec
    /\ WF_vars(TickStep(Service))
    /\ \A d \in Deliveries : WF_vars(Elapse(d))

-----------------------------------------------------------------------------
(* Properties.                                                             *)

(***************************************************************************)
(* Whatever two ticks read before they bind, a route belongs to at most    *)
(* one delivery, and the two sides of the binding, route_target and        *)
(* delivery_event, agree (enqueue_delivery: "a route can never be double   *)
(* queued").                                                               *)
(***************************************************************************)
BoundOnce ==
    \A e \in Events : \A d \in Deliveries :
        (e \in dev[d]) <=> (bound[e] = d /\ dst[d] # "none")

RouteOf == [succeeded |-> "delivered", dead_letter |-> "dead_letter",
            uncertain |-> "manual_review"]

(***************************************************************************)
(* A route is closed exactly when its delivery is, and in the same way,    *)
(* whether it was closed by the wake, by the sweep of another process or   *)
(* by a recovery: nothing an operator sees as delivered was dropped.       *)
(***************************************************************************)
RouteTellsDelivery ==
    \A e \in Events : \A d \in Deliveries : bound[e] = d =>
        IF dst[d] \in Final THEN rt[e] = RouteOf[dst[d]]
                            ELSE rt[e] \in {"queued", "leased"}

(***************************************************************************)
(* An outcome is final: a delivery that succeeded, was dropped or is under *)
(* review is never taken up again, however late a thread comes back to it. *)
(***************************************************************************)
OutcomeIsFinal ==
    [][\A d \in Deliveries : dst[d] \in Final => dst'[d] = dst[d]]_vars

(***************************************************************************)
(* Every observed event is in the end ignored, or its delivery has an      *)
(* outcome or waits for budget, although processes are lost and ticks      *)
(* stumble over each other (pending_routes: "oldest-first so a crash       *)
(* cannot strand routed events").                                          *)
(***************************************************************************)
Settled(e) ==
    \/ ev[e] = "ignored"
    \/ bound[e] # Nobody /\ dst[bound[e]] \in Final \cup {"budget_hold"}

EveryEventSettled == \A e \in Events : ev[e] = "pending" ~> Settled(e)

=============================================================================
