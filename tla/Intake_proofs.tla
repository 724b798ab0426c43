---------------------------- MODULE Intake_proofs ----------------------------
(***************************************************************************)
(* Proofs about how events come in: DeliveryQueue, for any rules, events,  *)
(* roles and number of ticking processes (its types, that a route has one  *)
(* delivery, that it tells its outcome, and that an outcome is final), and *)
(* then EventPolling, for any finite set of items, page size, overlap and  *)
(* number of pollers (its types, and that no change is lost).              *)
(***************************************************************************)
EXTENDS DeliveryQueue, EventPolling, FiniteSetTheorems, TLAPS

RouteStates == {"none", "pending", "queued", "leased", "delivered", "dead_letter",
                "manual_review"}

\* The types of the tables, and of what the processes hold.
TableTypes ==
    /\ ev \in [Events -> {"absent", "pending", "routed", "ignored"}]
    /\ rt \in [Events -> RouteStates]
    /\ bound \in [Events -> Deliveries \cup {Nobody}]
    /\ dst \in [Deliveries -> Rows \cup {"none"}]
    /\ dev \in [Deliveries -> SUBSET Events]
    /\ owner \in [Deliveries -> Procs \cup {Nobody}]
    /\ attempt \in [Deliveries -> 0..MaxAttempts]
    /\ elapsed \in [Deliveries -> BOOLEAN]
TickTypes ==
    /\ tried \subseteq Deliveries
    /\ pc \in [Procs -> {"idle", "bind", "dup", "run"}]
    /\ todo \in [Procs -> SUBSET Events]
    /\ unread \in [Procs -> SUBSET Roles]
    /\ pend \in [Procs -> [Roles -> SUBSET Events]]
    /\ batch \in [Procs -> SUBSET Deliveries]
    /\ started \in [Procs -> SUBSET Deliveries]
    /\ dup \in [Procs -> Deliveries \cup {Nobody}]
    /\ crashes \in 0..MaxCrashes

\* A route belongs to a routed event, and its delivery exists.
Linked ==
    \A e \in Events : /\ rt[e] # "none" => ev[e] = "routed"
                      /\ bound[e] # Nobody => dst[bound[e]] # "none"

\* A lease has spent an attempt, which a budget hold may give back.
Spent == \A d \in Deliveries : dst[d] = "leased" => attempt[d] # 0

\* A tick that has a delivery to give back knows which.
HasDuplicate == \A p \in Procs : pc[p] = "dup" => dup[p] \in Deliveries

\* The inductive invariant: what the tables owe each other, and the ticks' part.
TableInv == TableTypes /\ BoundOnce /\ RouteTellsDelivery /\ Linked /\ Spent
QueueInv == TableInv /\ TickTypes /\ HasDuplicate

\* What OutcomeIsFinal says of one step.
KeepsOutcomes == \A d \in Deliveries : dst[d] \in Final => dst'[d] = dst[d]

-----------------------------------------------------------------------------
(* The sweep.                                                              *)

\* What the sweep may do to a delivery.
LEMMA SweptFacts ==
    ASSUME TableTypes, NEW d \in Deliveries
    PROVE  /\ Swept(d) = dst[d] \/ Swept(d) \in {"uncertain", "retry_wait", "dead_letter"}
           /\ Swept(d) # dst[d] => dst[d] \in Held \cup Waiting
           /\ Swept(d) \in Waiting => attempt[d] < MaxAttempts
           /\ Swept(d) = "leased" => dst[d] = "leased"
           /\ dst[d] \in Final \cup {"none", "budget_hold"} => Swept(d) = dst[d]
  <1>0. attempt[d] \in Nat /\ MaxAttempts \in Nat
    BY QueueNumbersAssumption DEF TableTypes
  <1>1. CASE dst[d] = "running" /\ elapsed[d]
    <2>1. dst[d] # "leased" /\ dst[d] \notin Waiting
      BY <1>1 DEF Waiting
    <2>2. Swept(d) = "uncertain"
      BY <1>1, <2>1 DEF Swept
    <2> QED  BY <1>1, <2>2 DEF Held, Waiting, Final
  <1>2. CASE dst[d] = "leased" /\ elapsed[d] /\ attempt[d] < MaxAttempts
    <2>1. dst[d] # "running" /\ dst[d] \notin Waiting /\ ~(attempt[d] >= MaxAttempts)
      BY <1>0, <1>2 DEF Waiting
    <2>2. Swept(d) = "retry_wait"
      BY <1>2, <2>1 DEF Swept
    <2> QED  BY <1>2, <2>2 DEF Held, Waiting, Final
  <1>3. CASE dst[d] = "leased" /\ elapsed[d] /\ attempt[d] >= MaxAttempts
    <2>1. dst[d] # "running" /\ dst[d] \notin Waiting /\ ~(attempt[d] < MaxAttempts)
      BY <1>0, <1>3 DEF Waiting
    <2>2. Swept(d) = "dead_letter"
      BY <1>3, <2>1 DEF Swept
    <2> QED  BY <1>3, <2>2 DEF Held, Waiting, Final
  <1>4. CASE dst[d] \in Waiting /\ attempt[d] >= MaxAttempts
    <2>1. dst[d] # "running" /\ dst[d] # "leased"
      BY <1>4 DEF Waiting
    <2>2. Swept(d) = "dead_letter"
      BY <1>4, <2>1 DEF Swept
    <2> QED  BY <1>4, <2>2 DEF Held, Waiting, Final
  <1>5. CASE /\ ~(dst[d] = "running" /\ elapsed[d])
             /\ ~(dst[d] = "leased" /\ elapsed[d])
             /\ ~(dst[d] \in Waiting /\ attempt[d] >= MaxAttempts)
    <2>1. Swept(d) = dst[d]
      BY <1>5 DEF Swept
    <2>2. dst[d] \in Waiting => attempt[d] < MaxAttempts
      BY <1>0, <1>5
    <2> QED  BY <2>1, <2>2
  <1>6. attempt[d] < MaxAttempts \/ attempt[d] >= MaxAttempts
    BY <1>0
  <1> QED  BY <1>1, <1>2, <1>3, <1>4, <1>5, <1>6

\* ... and what it makes of the routes of a delivery.
LEMMA SweptRouteFacts ==
    ASSUME TableInv, NEW e \in Events
    PROVE  /\ bound[e] = Nobody => SweptRoute(e) = rt[e]
           /\ bound[e] # Nobody =>
                IF Swept(bound[e]) \in Final THEN SweptRoute(e) = RouteOf[Swept(bound[e])]
                                            ELSE SweptRoute(e) \in {"queued", "leased"}
  <1>1. CASE bound[e] = Nobody
    BY <1>1 DEF SweptRoute
  <1>2. CASE bound[e] # Nobody
    <2> DEFINE d == bound[e]
    <2>1. d \in Deliveries
      BY <1>2 DEF TableInv, TableTypes
    <2>2. IF dst[d] \in Final THEN rt[e] = RouteOf[dst[d]] ELSE rt[e] \in {"queued", "leased"}
      BY <2>1 DEF TableInv, RouteTellsDelivery
    <2>3. /\ Swept(d) = dst[d] \/ Swept(d) \in {"uncertain", "retry_wait", "dead_letter"}
          /\ Swept(d) # dst[d] => dst[d] \in Held \cup Waiting
      BY <2>1, SweptFacts DEF TableInv
    <2>4. CASE Swept(d) = dst[d]
      <3>1. SweptRoute(e) = rt[e]
        BY <2>4 DEF SweptRoute
      <3> QED  BY <1>2, <2>2, <2>4, <3>1
    <2>5. CASE Swept(d) # dst[d] /\ Swept(d) = "uncertain"
      <3>1. SweptRoute(e) = "manual_review"
        BY <1>2, <2>5 DEF SweptRoute
      <3> QED  BY <1>2, <2>5, <3>1 DEF Final, RouteOf
    <2>6. CASE Swept(d) # dst[d] /\ Swept(d) = "dead_letter"
      <3>1. SweptRoute(e) = "dead_letter"
        BY <1>2, <2>6 DEF SweptRoute
      <3> QED  BY <1>2, <2>6, <3>1 DEF Final, RouteOf
    <2>7. CASE Swept(d) # dst[d] /\ Swept(d) = "retry_wait"
      <3>1. SweptRoute(e) = rt[e]
        BY <1>2, <2>7 DEF SweptRoute
      <3>2. dst[d] \notin Final
        BY <2>3, <2>7 DEF Held, Waiting, Final
      <3> QED  BY <1>2, <2>2, <2>7, <3>1, <3>2 DEF Final
    <2> QED  BY <2>3, <2>4, <2>5, <2>6, <2>7
  <1> QED  BY <1>1, <1>2

-----------------------------------------------------------------------------
(* The store's transactions.                                               *)

\* enqueue_delivery.
LEMMA BindTables ==
    ASSUME TableInv, NEW S \in SUBSET Events, MayBind(S), BindRoutes(S)
    PROVE  TableInv' /\ KeepsOutcomes
  <1> DEFINE d == CHOOSE x \in Deliveries : dst[x] = "none"
  <1>1. d \in Deliveries /\ dst[d] = "none"
    BY DEF BindRoutes
  <1>2. /\ dst' = [dst EXCEPT ![d] = "queued"]
        /\ dev' = [dev EXCEPT ![d] = S]
        /\ elapsed' = [elapsed EXCEPT ![d] = TRUE]
        /\ rt' = [e \in Events |-> IF e \in S THEN "queued" ELSE rt[e]]
        /\ bound' = [e \in Events |-> IF e \in S THEN d ELSE bound[e]]
        /\ UNCHANGED <<ev, owner, attempt>>
    BY DEF BindRoutes
  <1> HIDE DEF d
  <1>3. d # Nobody
    BY <1>1, NobodyAssumption
  <1>4. /\ dst'[d] = "queued" /\ dev'[d] = S
        /\ \A x \in Deliveries : x # d => dst'[x] = dst[x] /\ dev'[x] = dev[x]
    BY <1>1, <1>2 DEF TableInv, TableTypes
  <1>5. /\ \A e \in S : rt[e] = "pending" /\ bound[e] = Nobody /\ rt'[e] = "queued" /\ bound'[e] = d
        /\ \A e \in Events \ S : rt'[e] = rt[e] /\ bound'[e] = bound[e]
    BY <1>2 DEF MayBind
  <1>6. TableTypes'
    <2>1. dst' \in [Deliveries -> Rows \cup {"none"}] /\ dev' \in [Deliveries -> SUBSET Events]
      BY <1>2 DEF TableInv, TableTypes, Rows, Waiting
    <2>2. /\ rt' \in [Events -> RouteStates]
          /\ bound' \in [Events -> Deliveries \cup {Nobody}]
      BY <1>1, <1>2 DEF TableInv, TableTypes, RouteStates
    <2>3. elapsed' \in [Deliveries -> BOOLEAN]
      BY <1>2 DEF TableInv, TableTypes
    <2> QED  BY <1>2, <2>1, <2>2, <2>3 DEF TableInv, TableTypes
  <1>7. \A e \in Events : bound[e] # d
    BY <1>1, <1>3 DEF TableInv, Linked
  <1>8. BoundOnce'
    <2> SUFFICES ASSUME NEW e \in Events, NEW x \in Deliveries
                 PROVE  (e \in dev'[x]) <=> (bound'[e] = x /\ dst'[x] # "none")
      BY DEF BoundOnce
    <2>1. (e \in dev[x]) <=> (bound[e] = x /\ dst[x] # "none")
      BY DEF TableInv, BoundOnce
    <2>2. CASE x = d
      BY <1>4, <1>5, <1>7, <2>2
    <2>3. CASE x # d
      BY <1>4, <1>5, <2>1, <2>3, NobodyAssumption
    <2> QED  BY <2>2, <2>3
  <1>9. RouteTellsDelivery'
    <2> SUFFICES ASSUME NEW e \in Events, NEW x \in Deliveries, bound'[e] = x
                 PROVE  IF dst'[x] \in Final THEN rt'[e] = RouteOf[dst'[x]]
                                            ELSE rt'[e] \in {"queued", "leased"}
      BY DEF RouteTellsDelivery
    <2>1. CASE x = d
      BY <1>4, <1>5, <1>7, <2>1 DEF Final
    <2>2. CASE x # d
      BY <1>4, <1>5, <2>2 DEF TableInv, RouteTellsDelivery
    <2> QED  BY <2>1, <2>2
  <1>10. Linked'
    <2> SUFFICES ASSUME NEW e \in Events
                 PROVE  /\ rt'[e] # "none" => ev'[e] = "routed"
                        /\ bound'[e] # Nobody => dst'[bound'[e]] # "none"
      BY DEF Linked
    <2>1. CASE e \in S
      BY <1>2, <1>4, <1>5, <2>1 DEF TableInv, Linked
    <2>2. CASE e \notin S
      <3>1. rt'[e] = rt[e] /\ bound'[e] = bound[e] /\ ev'[e] = ev[e]
        BY <1>2, <1>5, <2>2
      <3>2. bound[e] # Nobody => bound[e] \in Deliveries
        BY DEF TableInv, TableTypes
      <3> QED  BY <1>4, <1>7, <3>1, <3>2 DEF TableInv, Linked
    <2> QED  BY <2>1, <2>2
  <1>11. Spent'
    BY <1>2, <1>4 DEF TableInv, Spent
  <1>12. KeepsOutcomes
    BY <1>1, <1>4 DEF KeepsOutcomes, Final
  <1> QED  BY <1>6, <1>8, <1>9, <1>10, <1>11, <1>12 DEF TableInv

\* lease_delivery.
LEMMA SweepTables ==
    ASSUME TableInv, NEW p \in Procs, NEW leased \in SUBSET Eligible,
           SweepAndLease(p, leased)
    PROVE  TableInv' /\ KeepsOutcomes
  <1>1. /\ dst' = [d \in Deliveries |-> IF d \in leased THEN "leased" ELSE Swept(d)]
        /\ owner' = [d \in Deliveries |-> IF d \in leased THEN p
                        ELSE IF Swept(d) \in Held THEN owner[d] ELSE Nobody]
        /\ attempt' = [d \in Deliveries |-> IF d \in leased THEN attempt[d] + 1 ELSE attempt[d]]
        /\ elapsed' = [d \in Deliveries |-> elapsed[d] /\ d \notin leased]
        /\ rt' = [e \in Events |-> IF bound[e] \in leased THEN "leased" ELSE SweptRoute(e)]
        /\ UNCHANGED <<ev, bound, dev>>
    BY DEF SweepAndLease
  <1>2. \A d \in Deliveries :
           /\ Swept(d) = dst[d] \/ Swept(d) \in {"uncertain", "retry_wait", "dead_letter"}
           /\ Swept(d) # dst[d] => dst[d] \in Held \cup Waiting
           /\ Swept(d) \in Waiting => attempt[d] < MaxAttempts
           /\ Swept(d) = "leased" => dst[d] = "leased"
           /\ dst[d] \in Final \cup {"none", "budget_hold"} => Swept(d) = dst[d]
    BY SweptFacts DEF TableInv
  <1>3. \A d \in leased : d \in Deliveries /\ Swept(d) \in Waiting
    BY DEF Eligible
  <1>4. \A e \in Events :
           /\ bound[e] = Nobody => SweptRoute(e) = rt[e]
           /\ bound[e] # Nobody =>
                IF Swept(bound[e]) \in Final THEN SweptRoute(e) = RouteOf[Swept(bound[e])]
                                            ELSE SweptRoute(e) \in {"queued", "leased"}
    BY SweptRouteFacts
  <1>5. TableTypes'
    <2>1. dst' \in [Deliveries -> Rows \cup {"none"}]
      BY <1>1, <1>2 DEF TableInv, TableTypes, Rows, Held, Waiting, Final
    <2>2. owner' \in [Deliveries -> Procs \cup {Nobody}]
      BY <1>1 DEF TableInv, TableTypes
    <2>3. attempt' \in [Deliveries -> 0..MaxAttempts]
      <3>1. \A d \in Deliveries : attempt[d] \in 0..MaxAttempts /\ MaxAttempts \in Nat
        BY QueueNumbersAssumption DEF TableInv, TableTypes
      <3>2. \A d \in Deliveries : d \in leased => attempt[d] + 1 \in 0..MaxAttempts
        BY <1>2, <1>3, <3>1
      <3> QED  BY <1>1, <3>1, <3>2
    <2>4. elapsed' \in [Deliveries -> BOOLEAN]
      BY <1>1
    <2>5. rt' \in [Events -> RouteStates]
      <3>1. \A e \in Events : SweptRoute(e) \in RouteStates
        BY <1>4 DEF TableInv, TableTypes, RouteStates, Final, RouteOf
      <3> QED  BY <1>1, <3>1 DEF RouteStates
    <2> QED  BY <1>1, <2>1, <2>2, <2>3, <2>4, <2>5 DEF TableInv, TableTypes
  <1>6. \A d \in Deliveries : (dst'[d] = "none") <=> (dst[d] = "none")
    BY <1>1, <1>2, <1>3 DEF Held, Waiting
  <1>7. BoundOnce'
    BY <1>1, <1>6 DEF TableInv, BoundOnce
  <1>8. RouteTellsDelivery'
    <2> SUFFICES ASSUME NEW e \in Events, NEW x \in Deliveries, bound'[e] = x
                 PROVE  IF dst'[x] \in Final THEN rt'[e] = RouteOf[dst'[x]]
                                            ELSE rt'[e] \in {"queued", "leased"}
      BY DEF RouteTellsDelivery
    <2>1. bound[e] = x /\ x # Nobody
      BY <1>1, NobodyAssumption
    <2>2. CASE x \in leased
      <3>1. dst'[x] = "leased" /\ rt'[e] = "leased"
        BY <1>1, <2>1, <2>2
      <3> QED  BY <3>1 DEF Final
    <2>3. CASE x \notin leased
      <3>1. dst'[x] = Swept(x) /\ rt'[e] = SweptRoute(e)
        BY <1>1, <2>1, <2>3
      <3> QED  BY <1>4, <2>1, <3>1
    <2> QED  BY <2>2, <2>3
  <1>9. Linked'
    <2> SUFFICES ASSUME NEW e \in Events
                 PROVE  /\ rt'[e] # "none" => ev'[e] = "routed"
                        /\ bound'[e] # Nobody => dst'[bound'[e]] # "none"
      BY DEF Linked
    <2>1. rt'[e] # "none" => rt[e] # "none"
      <3>1. CASE bound[e] = Nobody
        <4>1. bound[e] \notin leased
          BY <1>3, <3>1, NobodyAssumption
        <4> QED  BY <1>1, <1>4, <3>1, <4>1
      <3>2. CASE bound[e] # Nobody
        <4>1. bound[e] \in Deliveries
          BY <3>2 DEF TableInv, TableTypes
        <4>2. rt[e] \in {"queued", "leased", "delivered", "dead_letter", "manual_review"}
          BY <4>1 DEF TableInv, RouteTellsDelivery, RouteOf, Final
        <4> QED  BY <4>2
      <3> QED  BY <3>1, <3>2
    <2>2. rt'[e] # "none" => ev'[e] = "routed"
      BY <1>1, <2>1 DEF TableInv, Linked
    <2>3. bound'[e] # Nobody => dst'[bound'[e]] # "none"
      BY <1>1, <1>6 DEF TableInv, TableTypes, Linked
    <2> QED  BY <2>2, <2>3
  <1>10. Spent'
    <2> SUFFICES ASSUME NEW d \in Deliveries, dst'[d] = "leased" PROVE attempt'[d] # 0
      BY DEF Spent
    <2>1. attempt[d] \in Nat
      BY QueueNumbersAssumption DEF TableInv, TableTypes
    <2>2. CASE d \in leased
      BY <1>1, <2>1, <2>2
    <2>3. CASE d \notin leased
      <3>1. dst[d] = "leased" /\ attempt'[d] = attempt[d]
        BY <1>1, <1>2, <2>3
      <3> QED  BY <3>1 DEF TableInv, Spent
    <2> QED  BY <2>2, <2>3
  <1>11. KeepsOutcomes
    <2> SUFFICES ASSUME NEW d \in Deliveries, dst[d] \in Final PROVE dst'[d] = dst[d]
      BY DEF KeepsOutcomes
    <2>1. Swept(d) = dst[d]
      BY <1>2
    <2>2. d \notin leased
      BY <1>3, <2>1 DEF Final, Waiting
    <2> QED  BY <1>1, <2>1, <2>2
  <1> QED  BY <1>5, <1>7, <1>8, <1>9, <1>10, <1>11 DEF TableInv

\* A held delivery is let go, with its routes.
LEMMA LetGo ==
    ASSUME TableInv, NEW d \in Deliveries, dst[d] \in Held,
           NEW state, NEW route,
           \/ state \in {"retry_wait", "budget_hold"} /\ route = "queued"
           \/ state = "succeeded" /\ route = "delivered"
           \/ state = "uncertain" /\ route = "manual_review",
           dst' = [dst EXCEPT ![d] = state],
           owner' = [owner EXCEPT ![d] = Nobody],
           elapsed' = [elapsed EXCEPT ![d] = FALSE],
           rt' = SetRoutes(d, route),
           attempt' \in [Deliveries -> 0..MaxAttempts],
           \A x \in Deliveries \ {d} : attempt'[x] = attempt[x],
           UNCHANGED <<ev, bound, dev>>
    PROVE  TableInv' /\ KeepsOutcomes
  <1>1. /\ dst' \in [Deliveries -> Rows \cup {"none"}]
        /\ dst'[d] = state
        /\ \A x \in Deliveries \ {d} : dst'[x] = dst[x]
    BY DEF TableInv, TableTypes, Rows, Waiting, Held, Final
  <1>2. /\ owner' \in [Deliveries -> Procs \cup {Nobody}]
        /\ elapsed' \in [Deliveries -> BOOLEAN]
    BY DEF TableInv, TableTypes
  <1>3. /\ rt' \in [Events -> RouteStates]
        /\ \A e \in Events : rt'[e] = IF bound[e] = d THEN route ELSE rt[e]
    BY DEF TableInv, TableTypes, SetRoutes, RouteStates
  <1>4. TableTypes'
    BY <1>1, <1>2, <1>3 DEF TableInv, TableTypes
  <1>5. \A x \in Deliveries : (dst'[x] = "none") <=> (dst[x] = "none")
    BY <1>1 DEF Held
  <1>6. BoundOnce'
    BY <1>5 DEF TableInv, BoundOnce
  <1>7. RouteTellsDelivery'
    <2> SUFFICES ASSUME NEW e \in Events, NEW x \in Deliveries, bound'[e] = x
                 PROVE  IF dst'[x] \in Final THEN rt'[e] = RouteOf[dst'[x]]
                                            ELSE rt'[e] \in {"queued", "leased"}
      BY DEF RouteTellsDelivery
    <2>1. CASE x = d
      BY <1>1, <1>3, <2>1 DEF Final, RouteOf
    <2>2. CASE x # d
      BY <1>1, <1>3, <2>2 DEF TableInv, RouteTellsDelivery
    <2> QED  BY <2>1, <2>2
  <1>8. Linked'
    <2> SUFFICES ASSUME NEW e \in Events
                 PROVE  /\ rt'[e] # "none" => ev'[e] = "routed"
                        /\ bound'[e] # Nobody => dst'[bound'[e]] # "none"
      BY DEF Linked
    <2>1. bound[e] = d => rt[e] \in {"queued", "leased"}
      BY DEF TableInv, RouteTellsDelivery, Held, Final
    <2>2. rt'[e] # "none" => ev'[e] = "routed"
      BY <1>3, <2>1 DEF TableInv, Linked
    <2>3. bound[e] # Nobody => bound[e] \in Deliveries
      BY DEF TableInv, TableTypes
    <2> QED  BY <1>5, <2>2, <2>3 DEF TableInv, Linked
  <1>9. Spent'
    BY <1>1 DEF TableInv, Spent
  <1>10. KeepsOutcomes
    BY <1>1 DEF KeepsOutcomes, Held, Final
  <1> QED  BY <1>4, <1>6, <1>7, <1>8, <1>9, <1>10 DEF TableInv

\* Nothing changes in the tables.
LEMMA SameTables ==
    ASSUME TableInv, UNCHANGED <<routes, queue>>
    PROVE  TableInv' /\ KeepsOutcomes
  <1>1. UNCHANGED <<ev, rt, bound, dst, dev, owner, attempt, elapsed>>
    BY DEF routes, queue
  <1>2. TableTypes' /\ Linked' /\ Spent'
    BY <1>1 DEF TableInv, TableTypes, Linked, Spent
  <1>3. BoundOnce' /\ RouteTellsDelivery'
    BY <1>1 DEF TableInv, BoundOnce, RouteTellsDelivery
  <1>4. KeepsOutcomes
    BY <1>1 DEF KeepsOutcomes
  <1> QED  BY <1>2, <1>3, <1>4 DEF TableInv

\* finish_delivery.
LEMMA FinishTables ==
    ASSUME TableInv, NEW p \in Procs, NEW d \in Deliveries,
           NEW outcome \in {"succeeded", "retry", "budget_hold", "uncertain"},
           FinishDelivery(p, d, outcome)
    PROVE  TableInv' /\ KeepsOutcomes
  <1>1. CASE ~Finishes(p, d, outcome)
    BY <1>1, SameTables DEF FinishDelivery
  <1>2. CASE Finishes(p, d, outcome)
    <2>1. /\ dst' = [dst EXCEPT ![d] = DeliveryAfter[outcome]]
          /\ owner' = [owner EXCEPT ![d] = Nobody]
          /\ attempt' = [attempt EXCEPT ![d] = IF outcome = "budget_hold" THEN @ - 1 ELSE @]
          /\ elapsed' = [elapsed EXCEPT ![d] = FALSE]
          /\ rt' = SetRoutes(d, RouteAfter[outcome])
          /\ UNCHANGED <<ev, bound, dev>>
      BY <1>2 DEF FinishDelivery
    <2>2. /\ dst[d] \in Held
          /\ outcome = "budget_hold" => dst[d] = "leased"
      BY <1>2 DEF Finishes, Held
    <2>3. \/ /\ DeliveryAfter[outcome] \in {"retry_wait", "budget_hold"}
             /\ RouteAfter[outcome] = "queued"
          \/ DeliveryAfter[outcome] = "succeeded" /\ RouteAfter[outcome] = "delivered"
          \/ DeliveryAfter[outcome] = "uncertain" /\ RouteAfter[outcome] = "manual_review"
      BY DEF DeliveryAfter, RouteAfter
    <2>4. \A x \in Deliveries \ {d} : attempt'[x] = attempt[x]
      BY <2>1 DEF TableInv, TableTypes
    <2>5. attempt' \in [Deliveries -> 0..MaxAttempts]
      <3>1. attempt[d] \in 0..MaxAttempts /\ MaxAttempts \in Nat
        BY QueueNumbersAssumption DEF TableInv, TableTypes
      <3>2. outcome = "budget_hold" => attempt[d] # 0
        BY <2>2 DEF TableInv, Spent
      <3>3. (IF outcome = "budget_hold" THEN attempt[d] - 1 ELSE attempt[d]) \in 0..MaxAttempts
        BY <3>1, <3>2
      <3> QED  BY <2>1, <3>3 DEF TableInv, TableTypes
    <2> QED  BY <2>1, <2>2, <2>3, <2>4, <2>5, LetGo
  <1> QED  BY <1>1, <1>2

\* _retry_leased_delivery and force_delivery_uncertain.
LEMMA RetriedTables ==
    ASSUME TableInv, NEW d \in Deliveries, RetryLeasedDelivery(d)
    PROVE  TableInv' /\ KeepsOutcomes
  <1>1. dst[d] \in Held /\ LetGoOf(d, "retry_wait", "queued")
    BY DEF RetryLeasedDelivery, Held
  <1> QED  BY <1>1, LetGo DEF LetGoOf, TableInv, TableTypes

LEMMA ForcedTables ==
    ASSUME TableInv, NEW d \in Deliveries, ForceDeliveryUncertain(d)
    PROVE  TableInv' /\ KeepsOutcomes
  <1>1. CASE dst[d] \notin Held
    BY <1>1, SameTables DEF ForceDeliveryUncertain
  <1>2. CASE dst[d] \in Held
    BY <1>2, LetGo DEF ForceDeliveryUncertain, LetGoOf, TableInv, TableTypes
  <1> QED  BY <1>1, <1>2

-----------------------------------------------------------------------------
(* The actions.                                                            *)

LEMMA InitInv == Init => QueueInv
  <1> SUFFICES ASSUME Init PROVE QueueInv
    OBVIOUS
  <1>1. TableTypes
    BY QueueNumbersAssumption DEF Init, TableTypes, RouteStates
  <1>2. TickTypes
    BY QueueNumbersAssumption DEF Init, TickTypes
  <1>3. BoundOnce /\ RouteTellsDelivery
    BY NobodyAssumption DEF Init, BoundOnce, RouteTellsDelivery
  <1>4. Linked /\ Spent /\ HasDuplicate
    BY DEF Init, Linked, Spent, HasDuplicate
  <1> QED  BY <1>1, <1>2, <1>3, <1>4 DEF QueueInv, TableInv

\* A tick that stops forgets what it read.
LEMMA AbortTyped ==
    ASSUME TickTypes, HasDuplicate, NEW p \in Procs, Abort(p),
           UNCHANGED <<tried, wakes, crashes>>
    PROVE  TickTypes' /\ HasDuplicate'
  <1>1. /\ pc' = [pc EXCEPT ![p] = "idle"]
        /\ todo' = [todo EXCEPT ![p] = {}]
        /\ unread' = [unread EXCEPT ![p] = {}]
        /\ pend' = [pend EXCEPT ![p] = [r \in Roles |-> {}]]
        /\ UNCHANGED <<tried, batch, started, dup, crashes>>
    BY DEF Abort, Goto, wakes
  <1>2. pend' \in [Procs -> [Roles -> SUBSET Events]]
    BY <1>1 DEF TickTypes
  <1>3. /\ pc' \in [Procs -> {"idle", "bind", "dup", "run"}]
        /\ todo' \in [Procs -> SUBSET Events]
        /\ unread' \in [Procs -> SUBSET Roles]
    BY <1>1 DEF TickTypes
  <1>4. HasDuplicate'
    BY <1>1 DEF TickTypes, HasDuplicate
  <1> QED  BY <1>1, <1>2, <1>3, <1>4 DEF TickTypes

LEMMA StartTickInv ==
    ASSUME QueueInv, NEW p \in Procs, StartTick(p)
    PROVE  QueueInv' /\ KeepsOutcomes
  <1>1. /\ pc' = [pc EXCEPT ![p] = "bind"]
        /\ todo' = [todo EXCEPT ![p] = {e \in Events : ev[e] = "pending"}]
        /\ unread' = [unread EXCEPT ![p] = Roles]
        /\ UNCHANGED <<routes, queue>>
        /\ UNCHANGED <<tried, pend, batch, started, dup, crashes>>
    BY DEF StartTick, Goto, wakes
  <1>2. TableInv' /\ KeepsOutcomes
    BY <1>1, SameTables DEF QueueInv
  <1>3. TickTypes'
    BY <1>1 DEF QueueInv, TickTypes
  <1>4. HasDuplicate'
    BY <1>1 DEF QueueInv, TickTypes, HasDuplicate
  <1> QED  BY <1>2, <1>3, <1>4 DEF QueueInv

LEMMA RouteOneInv ==
    ASSUME QueueInv, NEW p \in Procs, RouteOne(p)
    PROVE  QueueInv' /\ KeepsOutcomes
  <1> DEFINE e == CHOOSE x \in todo[p] : \A y \in todo[p] : x <= y
  <1> DEFINE r == RouteEvent(e)
  <1>0. UNCHANGED <<queue, tried, wakes, crashes>>
    BY DEF RouteOne
  <1>1. CASE ev[e] # "pending"
    <2>1. Abort(p) /\ UNCHANGED routes
      BY <1>1 DEF RouteOne
    <2>2. TableInv' /\ KeepsOutcomes
      BY <1>0, <2>1, SameTables DEF QueueInv
    <2> QED  BY <1>0, <2>1, <2>2, AbortTyped DEF QueueInv
  <1>2. CASE ev[e] = "pending"
    <2>1. /\ ev' = [ev EXCEPT ![e] = IF r = Nobody THEN "ignored" ELSE "routed"]
          /\ rt' = [rt EXCEPT ![e] = IF r = Nobody THEN @ ELSE "pending"]
          /\ todo' = [todo EXCEPT ![p] = @ \ {e}]
          /\ UNCHANGED <<bound, pc, unread, pend>>
      BY <1>2 DEF RouteOne
    <2> HIDE DEF e, r
    <2>2. UNCHANGED <<dst, dev, owner, attempt, elapsed, tried, batch, started, dup, crashes>>
      BY <1>0 DEF queue, wakes
    <2>3. TickTypes' /\ HasDuplicate'
      BY <2>1, <2>2 DEF QueueInv, TickTypes, HasDuplicate
    <2>4. TableTypes'
      BY <2>1, <2>2 DEF QueueInv, TableInv, TableTypes, RouteStates
    <2>5. BoundOnce' /\ Spent' /\ KeepsOutcomes
      BY <2>1, <2>2 DEF QueueInv, TableInv, BoundOnce, Spent, KeepsOutcomes
    <2>6. \A f \in Events : f # e => rt'[f] = rt[f] /\ ev'[f] = ev[f]
      BY <2>1 DEF QueueInv, TableInv, TableTypes
    <2>7. e \in Events => rt[e] = "none" /\ bound[e] = Nobody
      <3> SUFFICES ASSUME e \in Events PROVE rt[e] = "none" /\ bound[e] = Nobody
        OBVIOUS
      <3>1. rt[e] = "none"
        BY <1>2 DEF QueueInv, TableInv, Linked
      <3>2. CASE bound[e] \in Deliveries
        BY <3>1, <3>2 DEF QueueInv, TableInv, RouteTellsDelivery, RouteOf, Final
      <3> QED  BY <3>1, <3>2 DEF QueueInv, TableInv, TableTypes
    <2>8. RouteTellsDelivery'
      BY <2>1, <2>2, <2>6, <2>7, NobodyAssumption DEF QueueInv, TableInv, RouteTellsDelivery
    <2>9. Linked'
      <3> SUFFICES ASSUME NEW f \in Events
                   PROVE  /\ rt'[f] # "none" => ev'[f] = "routed"
                          /\ bound'[f] # Nobody => dst'[bound'[f]] # "none"
        BY DEF Linked
      <3>1. CASE f = e
        BY <2>1, <2>2, <2>7, <3>1 DEF QueueInv, TableInv, TableTypes
      <3>2. CASE f # e
        BY <2>1, <2>2, <2>6, <3>2 DEF QueueInv, TableInv, Linked
      <3> QED  BY <3>1, <3>2
    <2> QED  BY <2>3, <2>4, <2>5, <2>8, <2>9 DEF QueueInv, TableInv
  <1> QED  BY <1>1, <1>2

LEMMA ReadPendingInv ==
    ASSUME QueueInv, NEW p \in Procs, ReadPending(p)
    PROVE  QueueInv' /\ KeepsOutcomes
  <1> DEFINE r == CHOOSE x \in unread[p] : TRUE
  <1>1. /\ pend' = [pend EXCEPT ![p][r] = PendingRoutes(r)]
        /\ unread' = [unread EXCEPT ![p] = @ \ {r}]
        /\ UNCHANGED <<routes, queue>>
        /\ UNCHANGED <<tried, pc, todo, batch, started, dup, crashes>>
    BY DEF ReadPending, wakes
  <1>2. PendingRoutes(r) \subseteq Events
    BY DEF PendingRoutes
  <1> HIDE DEF r
  <1>3. pend' \in [Procs -> [Roles -> SUBSET Events]]
    BY <1>1, <1>2 DEF QueueInv, TickTypes
  <1>4. unread' \in [Procs -> SUBSET Roles]
    BY <1>1 DEF QueueInv, TickTypes
  <1>5. TickTypes' /\ HasDuplicate'
    BY <1>1, <1>3, <1>4 DEF QueueInv, TickTypes, HasDuplicate
  <1>6. TableInv' /\ KeepsOutcomes
    BY <1>1, SameTables DEF QueueInv
  <1> QED  BY <1>5, <1>6 DEF QueueInv

LEMMA EnqueueInv ==
    ASSUME QueueInv, NEW p \in Procs, Enqueue(p)
    PROVE  QueueInv' /\ KeepsOutcomes
  <1> DEFINE r == CHOOSE x \in Unbound(p) : TRUE
  <1> DEFINE S == pend[p][r]
  <1>1. r \in Roles
    BY DEF Enqueue, Unbound
  <1>2. UNCHANGED <<tried, wakes, crashes>>
    BY DEF Enqueue
  <1>3. S \in SUBSET Events
    BY <1>1 DEF QueueInv, TickTypes
  <1>4. ASSUME pend' = [pend EXCEPT ![p][r] = {}], UNCHANGED <<pc, todo, unread>>
        PROVE  TickTypes' /\ HasDuplicate'
    <2> HIDE DEF r
    <2>1. pend' \in [Procs -> [Roles -> SUBSET Events]]
      BY <1>4 DEF QueueInv, TickTypes
    <2> QED  BY <1>2, <1>4, <2>1 DEF QueueInv, TickTypes, HasDuplicate, wakes
  <1>5. CASE /\ Known(S)
             /\ pend' = [pend EXCEPT ![p][r] = {}]
             /\ UNCHANGED <<routes, queue, pc, todo, unread>>
    <2>1. TableInv' /\ KeepsOutcomes
      BY <1>5, SameTables DEF QueueInv
    <2> QED  BY <1>4, <1>5, <2>1 DEF QueueInv
  <1>6. CASE /\ MayBind(S)
             /\ BindRoutes(S)
             /\ pend' = [pend EXCEPT ![p][r] = {}]
             /\ UNCHANGED <<pc, todo, unread>>
    <2>1. TableInv' /\ KeepsOutcomes
      BY <1>3, <1>6, BindTables DEF QueueInv
    <2> QED  BY <1>4, <1>6, <2>1 DEF QueueInv
  <1>7. CASE Abort(p) /\ UNCHANGED <<routes, queue>>
    <2>1. TableInv' /\ KeepsOutcomes
      BY <1>7, SameTables DEF QueueInv
    <2> QED  BY <1>2, <1>7, <2>1, AbortTyped DEF QueueInv
  <1> QED  BY <1>5, <1>6, <1>7 DEF Enqueue

LEMMA LeaseInv ==
    ASSUME QueueInv, NEW p \in Procs, NEW d \in Deliveries, Lease(p, d)
    PROVE  QueueInv' /\ KeepsOutcomes
  <1>1. d \in Eligible /\ SweepAndLease(p, {d}) /\ UNCHANGED <<tried, reads, started, crashes>>
    BY DEF Lease
  <1>2. TableInv' /\ KeepsOutcomes
    BY <1>1, SweepTables DEF QueueInv
  <1>3. CASE RoleOf(d) \in Taken(p)
    <2>1. pc' = [pc EXCEPT ![p] = "dup"] /\ dup' = [dup EXCEPT ![p] = d] /\ UNCHANGED batch
      BY <1>3 DEF Lease, Goto
    <2>2. TickTypes' /\ HasDuplicate'
      BY <1>1, <2>1 DEF QueueInv, TickTypes, HasDuplicate, reads
    <2> QED  BY <1>2, <2>2 DEF QueueInv
  <1>4. CASE RoleOf(d) \notin Taken(p)
    <2>1. batch' = [batch EXCEPT ![p] = @ \cup {d}] /\ UNCHANGED <<pc, dup>>
      BY <1>4 DEF Lease
    <2>2. TickTypes' /\ HasDuplicate'
      BY <1>1, <2>1 DEF QueueInv, TickTypes, HasDuplicate, reads
    <2> QED  BY <1>2, <2>2 DEF QueueInv
  <1> QED  BY <1>3, <1>4

LEMMA GiveBackInv ==
    ASSUME QueueInv, NEW p \in Procs, GiveBack(p)
    PROVE  QueueInv' /\ KeepsOutcomes
  <1>1. /\ pc[p] = "dup" /\ FinishDelivery(p, dup[p], "retry")
        /\ dup' = [dup EXCEPT ![p] = Nobody]
        /\ UNCHANGED <<tried, reads, started, crashes>>
    BY DEF GiveBack
  <1>2. dup[p] \in Deliveries
    BY <1>1 DEF QueueInv, HasDuplicate
  <1>3. TableInv' /\ KeepsOutcomes
    BY <1>1, <1>2, FinishTables DEF QueueInv
  <1>4. PICK label \in {"bind", "idle"} : pc' = [pc EXCEPT ![p] = label]
    BY DEF GiveBack, Goto
  <1>5. batch' = batch \/ batch' = [batch EXCEPT ![p] = {}]
    BY DEF GiveBack
  <1>6. batch' \in [Procs -> SUBSET Deliveries]
    BY <1>5 DEF QueueInv, TickTypes
  <1>7. TickTypes' /\ HasDuplicate'
    BY <1>1, <1>4, <1>6 DEF QueueInv, TickTypes, HasDuplicate, reads
  <1> QED  BY <1>3, <1>7 DEF QueueInv

LEMMA RunBatchInv ==
    ASSUME QueueInv, NEW p \in Procs, RunBatch(p)
    PROVE  QueueInv' /\ KeepsOutcomes
  <1>1. /\ pc' = [pc EXCEPT ![p] = "run"]
        /\ tried' = tried \cup batch[p]
        /\ UNCHANGED <<reads, wakes, crashes>>
        /\ UNCHANGED <<routes, queue>> \/ SweepAndLease(p, {})
    BY DEF RunBatch, Goto
  <1>2. TableInv' /\ KeepsOutcomes
    BY <1>1, SameTables, SweepTables DEF QueueInv
  <1>3. TickTypes' /\ HasDuplicate'
    BY <1>1 DEF QueueInv, TickTypes, HasDuplicate, reads, wakes
  <1> QED  BY <1>2, <1>3 DEF QueueInv

LEMMA StartDeliveryInv ==
    ASSUME QueueInv, NEW p \in Procs, NEW d \in Deliveries, StartDelivery(p, d)
    PROVE  QueueInv' /\ KeepsOutcomes
  <1>1. /\ dst[d] = "leased" /\ dst' = [dst EXCEPT ![d] = "running"]
        /\ started' = [started EXCEPT ![p] = @ \cup {d}]
        /\ UNCHANGED <<ev, rt, bound, dev, owner, attempt, elapsed, tried, pc, todo, unread,
                       pend, batch, dup, crashes>>
    BY DEF StartDelivery, routes, reads
  <1>2. /\ dst' \in [Deliveries -> Rows \cup {"none"}]
        /\ dst'[d] = "running"
        /\ \A x \in Deliveries \ {d} : dst'[x] = dst[x]
    BY <1>1 DEF QueueInv, TableInv, TableTypes, Rows, Held
  <1>3. TickTypes' /\ HasDuplicate'
    BY <1>1 DEF QueueInv, TickTypes, HasDuplicate
  <1>4. TableTypes'
    BY <1>1, <1>2 DEF QueueInv, TableInv, TableTypes
  <1>5. BoundOnce'
    BY <1>1, <1>2 DEF QueueInv, TableInv, BoundOnce
  <1>6. RouteTellsDelivery'
    BY <1>1, <1>2 DEF QueueInv, TableInv, RouteTellsDelivery, Final
  <1>7. Linked' /\ Spent'
    BY <1>1, <1>2 DEF QueueInv, TableInv, TableTypes, Linked, Spent
  <1>8. KeepsOutcomes
    BY <1>1, <1>2 DEF KeepsOutcomes, Final
  <1> QED  BY <1>3, <1>4, <1>5, <1>6, <1>7, <1>8 DEF QueueInv, TableInv

LEMMA EndWakeInv ==
    ASSUME QueueInv, NEW p \in Procs, NEW d \in Deliveries, NEW o \in Outcomes,
           EndWake(p, d, o)
    PROVE  QueueInv' /\ KeepsOutcomes
  <1>1. /\ FinishDelivery(p, d, o)
        /\ batch' = [batch EXCEPT ![p] = @ \ {d}]
        /\ started' = [started EXCEPT ![p] = @ \ {d}]
        /\ UNCHANGED <<tried, pc, reads, dup, crashes>>
    BY DEF EndWake
  <1>2. o \in {"succeeded", "retry", "budget_hold", "uncertain"}
    BY DEF Outcomes, DeliveryAfter
  <1>3. TableInv' /\ KeepsOutcomes
    BY <1>1, <1>2, FinishTables DEF QueueInv
  <1>4. TickTypes' /\ HasDuplicate'
    BY <1>1 DEF QueueInv, TickTypes, HasDuplicate, reads
  <1> QED  BY <1>3, <1>4 DEF QueueInv

LEMMA FailWakeInv ==
    ASSUME QueueInv, NEW p \in Procs, NEW d \in Deliveries, FailWake(p, d)
    PROVE  QueueInv' /\ KeepsOutcomes
  <1>1. /\ ForceDeliveryUncertain(d)
        /\ batch' = [batch EXCEPT ![p] = @ \ {d}]
        /\ started' = [started EXCEPT ![p] = @ \ {d}]
        /\ UNCHANGED <<tried, pc, reads, dup, crashes>>
    BY DEF FailWake
  <1>2. TableInv' /\ KeepsOutcomes
    BY <1>1, ForcedTables DEF QueueInv
  <1>3. TickTypes' /\ HasDuplicate'
    BY <1>1 DEF QueueInv, TickTypes, HasDuplicate, reads
  <1> QED  BY <1>2, <1>3 DEF QueueInv

LEMMA EndTickInv ==
    ASSUME QueueInv, NEW p \in Procs, EndTick(p)
    PROVE  QueueInv' /\ KeepsOutcomes
  <1>1. /\ pc' = [pc EXCEPT ![p] = "idle"]
        /\ UNCHANGED <<routes, queue>> /\ UNCHANGED <<tried, reads, wakes, crashes>>
    BY DEF EndTick, Goto
  <1>2. TableInv' /\ KeepsOutcomes
    BY <1>1, SameTables DEF QueueInv
  <1>3. TickTypes' /\ HasDuplicate'
    BY <1>1 DEF QueueInv, TickTypes, HasDuplicate, reads, wakes
  <1> QED  BY <1>2, <1>3 DEF QueueInv

-----------------------------------------------------------------------------
(* The rest of the world.                                                  *)

LEMMA ObserveInv ==
    ASSUME QueueInv, NEW e \in Events, Observe(e)
    PROVE  QueueInv' /\ KeepsOutcomes
  <1>1. /\ ev[e] = "absent" /\ ev' = [ev EXCEPT ![e] = "pending"]
        /\ UNCHANGED <<rt, bound, dst, dev, owner, attempt, elapsed>>
        /\ UNCHANGED <<tried, pc, todo, unread, pend, batch, started, dup, crashes>>
    BY DEF Observe, queue, reads, wakes
  <1>2. TickTypes' /\ HasDuplicate'
    BY <1>1 DEF QueueInv, TickTypes, HasDuplicate
  <1>3. TableTypes' /\ Spent'
    BY <1>1 DEF QueueInv, TableInv, TableTypes, Spent
  <1>4. BoundOnce' /\ RouteTellsDelivery' /\ KeepsOutcomes
    BY <1>1 DEF QueueInv, TableInv, BoundOnce, RouteTellsDelivery, KeepsOutcomes
  <1>5. Linked'
    BY <1>1 DEF QueueInv, TableInv, TableTypes, Linked
  <1> QED  BY <1>2, <1>3, <1>4, <1>5 DEF QueueInv, TableInv

LEMMA ElapseInv ==
    ASSUME QueueInv, NEW d \in Deliveries, Elapse(d)
    PROVE  QueueInv' /\ KeepsOutcomes
  <1>1. /\ elapsed' = [elapsed EXCEPT ![d] = TRUE]
        /\ UNCHANGED <<ev, rt, bound, dst, dev, owner, attempt>>
        /\ UNCHANGED <<tried, pc, todo, unread, pend, batch, started, dup, crashes>>
    BY DEF Elapse, routes, reads, wakes
  <1>2. TickTypes' /\ HasDuplicate'
    BY <1>1 DEF QueueInv, TickTypes, HasDuplicate
  <1>3. TableTypes' /\ Spent' /\ Linked'
    BY <1>1 DEF QueueInv, TableInv, TableTypes, Spent, Linked
  <1>4. BoundOnce' /\ RouteTellsDelivery' /\ KeepsOutcomes
    BY <1>1 DEF QueueInv, TableInv, BoundOnce, RouteTellsDelivery, KeepsOutcomes
  <1> QED  BY <1>2, <1>3, <1>4 DEF QueueInv, TableInv

LEMMA CrashInv ==
    ASSUME QueueInv, NEW p \in Procs, Crash(p)
    PROVE  QueueInv' /\ KeepsOutcomes
  <1>1. /\ crashes < MaxCrashes /\ crashes' = crashes + 1
        /\ pc' = [pc EXCEPT ![p] = "idle"]
        /\ todo' = [todo EXCEPT ![p] = {}]
        /\ unread' = [unread EXCEPT ![p] = {}]
        /\ pend' = [pend EXCEPT ![p] = [r \in Roles |-> {}]]
        /\ owner' = [d \in Deliveries |-> IF owner[d] = p THEN Nobody ELSE owner[d]]
        /\ batch' = [batch EXCEPT ![p] = {}]
        /\ started' = [started EXCEPT ![p] = {}]
        /\ dup' = [dup EXCEPT ![p] = Nobody]
        /\ UNCHANGED <<ev, rt, bound, dst, dev, attempt, elapsed, tried>>
    BY DEF Crash, Abort, Goto, routes
  <1>2. crashes' \in 0..MaxCrashes
    BY <1>1, QueueNumbersAssumption DEF QueueInv, TickTypes
  <1>3. pend' \in [Procs -> [Roles -> SUBSET Events]]
    BY <1>1 DEF QueueInv, TickTypes
  <1>4. /\ pc' \in [Procs -> {"idle", "bind", "dup", "run"}]
        /\ todo' \in [Procs -> SUBSET Events]
        /\ unread' \in [Procs -> SUBSET Roles]
        /\ batch' \in [Procs -> SUBSET Deliveries]
        /\ started' \in [Procs -> SUBSET Deliveries]
        /\ dup' \in [Procs -> Deliveries \cup {Nobody}]
    BY <1>1 DEF QueueInv, TickTypes
  <1>5. TickTypes'
    BY <1>1, <1>2, <1>3, <1>4 DEF QueueInv, TickTypes
  <1>6. HasDuplicate'
    BY <1>1 DEF QueueInv, TickTypes, HasDuplicate
  <1>7. TableTypes'
    BY <1>1 DEF QueueInv, TableInv, TableTypes
  <1>8. BoundOnce' /\ RouteTellsDelivery' /\ KeepsOutcomes
    BY <1>1 DEF QueueInv, TableInv, BoundOnce, RouteTellsDelivery, KeepsOutcomes
  <1>9. Linked' /\ Spent'
    BY <1>1 DEF QueueInv, TableInv, Linked, Spent
  <1> QED  BY <1>5, <1>6, <1>7, <1>8, <1>9 DEF QueueInv, TableInv

LEMMA RecoverInv ==
    ASSUME QueueInv, NEW d \in Deliveries, Recover(d)
    PROVE  QueueInv' /\ KeepsOutcomes
  <1>1. UNCHANGED <<tried, pc, todo, unread, pend, batch, started, dup, crashes>>
    BY DEF Recover, reads, wakes
  <1>2. TableInv' /\ KeepsOutcomes
    BY RetriedTables, ForcedTables DEF QueueInv, Recover
  <1>3. TickTypes' /\ HasDuplicate'
    BY <1>1 DEF QueueInv, TickTypes, HasDuplicate
  <1> QED  BY <1>2, <1>3 DEF QueueInv

-----------------------------------------------------------------------------
(* The theorems.                                                           *)

LEMMA StepInv ==
    ASSUME QueueInv, [Next]_vars
    PROVE  QueueInv' /\ (KeepsOutcomes \/ UNCHANGED vars)
  <1>1. CASE UNCHANGED vars
    <2>1. UNCHANGED <<routes, queue>>
          /\ UNCHANGED <<tried, pc, todo, unread, pend, batch, started, dup, crashes>>
      BY <1>1 DEF vars, reads, wakes
    <2>2. TableInv'
      BY <2>1, SameTables DEF QueueInv
    <2>3. TickTypes' /\ HasDuplicate'
      BY <2>1 DEF QueueInv, TickTypes, HasDuplicate
    <2> QED  BY <1>1, <2>2, <2>3 DEF QueueInv
  <1>2. ASSUME NEW p \in Procs, TickStep(p) PROVE QueueInv' /\ KeepsOutcomes
    BY <1>2, StartTickInv, RouteOneInv, ReadPendingInv, EnqueueInv, GiveBackInv,
       RunBatchInv, EndTickInv, LeaseInv, StartDeliveryInv, EndWakeInv,
       FailWakeInv DEF TickStep
  <1> QED
    BY <1>1, <1>2, CrashInv, ObserveInv, ElapseInv, RecoverInv DEF Next

LEMMA Invariance == Spec => []QueueInv
  <1>1. QueueInv /\ [Next]_vars => QueueInv'
    BY StepInv
  <1> QED  BY <1>1, InitInv, PTL DEF Spec

\* The queue's tables and the ticks have their types: above all, attempts stay within
\* the ceiling though duplicates spend them and budget holds give them back.
THEOREM TypeCorrectness == Spec => []TypeOK
  <1>1. QueueInv => TypeOK
    BY DEF QueueInv, TableInv, TableTypes, TickTypes, TypeOK, RouteStates
  <1> QED  BY <1>1, Invariance, PTL

\* A route belongs to at most one delivery, whatever ticks read before they bind
\* (enqueue_delivery).
THEOREM RoutesBoundOnce == Spec => []BoundOnce
  <1>1. QueueInv => BoundOnce
    BY DEF QueueInv, TableInv
  <1> QED  BY <1>1, Invariance, PTL

\* A route is closed exactly when its delivery is, and in the same way, whoever closed
\* it (finish_delivery, lease_delivery's sweep, recover).
THEOREM RoutesTellDeliveries == Spec => []RouteTellsDelivery
  <1>1. QueueInv => RouteTellsDelivery
    BY DEF QueueInv, TableInv
  <1> QED  BY <1>1, Invariance, PTL

\* The outcome of a delivery never changes, however late a thread comes back to it
\* (finish_delivery's condition on state and owner).
THEOREM OutcomesAreFinal == Spec => OutcomeIsFinal
  <1>1. QueueInv /\ [Next]_vars =>
          [\A d \in Deliveries : dst[d] \in Final => dst'[d] = dst[d]]_vars
    BY StepInv DEF KeepsOutcomes
  <1> QED  BY <1>1, Invariance, PTL DEF Spec, OutcomeIsFinal

-----------------------------------------------------------------------------
(* Polling, from here on.                                                  *)

\* Items before i in a listing.
Ahead(i, q) == {j \in Listed(q) : Before(j, i)}

-----------------------------------------------------------------------------
(* Numbers.                                                                *)

LEMMA SourceFacts ==
    ASSUME IsFiniteSet(Items)
    PROVE  /\ IsFiniteSet(Items) /\ Cardinality(Items) \in Nat
           /\ \A i \in Items : i \in Nat
           /\ PageSize \in Nat /\ PageSize > 0
           /\ Overlap \in Nat /\ Delay \in Nat
           /\ MaxTime \in Nat /\ MaxChanges \in Nat
           /\ Delay <= Overlap
BY FS_CardinalityType, NumbersAssumption, ItemsAssumption, OverlapAssumption

\* Where pages begin.
LEMMA PageStarts ==
    ASSUME NEW s \in Nat, s > 0, NEW n \in Nat, n > 0
    PROVE  /\ s * (n - 1) \in Nat
           /\ s * n = s * (n - 1) + s
           /\ s * ((n + 1) - 1) = s * n
           /\ n - 1 <= s * (n - 1)
<1>1. n - 1 \in Nat /\ s - 1 \in Nat
  OBVIOUS
<1>2. \A a, b \in Nat : a * b \in Nat
  OBVIOUS
<1>3. s * (n - 1) \in Nat /\ (s - 1) * (n - 1) \in Nat
  BY <1>1, <1>2
<1>4. (s - 1) * (n - 1) = s * (n - 1) - (n - 1)
  OBVIOUS
<1>5. s * n = s * (n - 1) + s /\ (n + 1) - 1 = n
  OBVIOUS
<1>6. QED
  BY <1>1, <1>3, <1>4, <1>5

\* A nonempty set of bounded numbers has a largest member, which MaxOf is.
LEMMA LargestIsMaxOf ==
    ASSUME NEW m \in Nat, NEW S \in SUBSET (0..m), S # {}
    PROVE  MaxOf(S) \in S /\ \A u \in S : u <= MaxOf(S)
<1> DEFINE B == {n \in Nat : \A u \in S : u <= n}
<1>1. m \in B
  OBVIOUS
<1>2. PICK n \in B : \A k \in B : ~(k < n)
  <2>1. B \subseteq Nat /\ B # {}
    BY <1>1
  <2> HIDE DEF B
  <2>2. PICK n \in B : \A k \in B : <<k, n>> \notin OpToRel(<, Nat)
    BY <2>1, NatLessThanWellFounded, WFMin
  <2>3. QED
    BY <2>1, <2>2 DEF OpToRel
<1>3. n \in S
  <2> SUFFICES ASSUME n \notin S PROVE FALSE
    OBVIOUS
  <2>1. \A u \in S : u \in Nat /\ u < n
    BY <1>2
  <2>2. n \in Nat /\ \E u \in S : TRUE
    BY <1>2
  <2>3. n > 0
    BY <2>1, <2>2
  <2>4. n - 1 \in B
    BY <2>1, <2>2, <2>3
  <2>5. QED
    BY <1>2, <2>4
<1>4. \E t \in S : \A u \in S : u <= t
  BY <1>2, <1>3
<1>5. QED
  BY <1>4 DEF MaxOf

-----------------------------------------------------------------------------
(* Places in a listing.                                                    *)

\* Before is a strict total order.
LEMMA BeforeOrders ==
    ASSUME IsFiniteSet(Items), PollTypeOK, NEW i \in Items, NEW j \in Items
    PROVE  /\ ~ Before(i, i)
           /\ i # j => Before(i, j) \/ Before(j, i)
           /\ \A k \in Items : Before(i, j) /\ Before(j, k) => Before(i, k)
<1> USE SourceFacts
<1>1. \A k \in Items : k \in Nat /\ shown[k] \in Nat
  BY DEF PollTypeOK, Times
<1>2. QED
  BY <1>1 DEF Before

LEMMA Places ==
    ASSUME IsFiniteSet(Items), NEW i, NEW q
    PROVE  /\ Ahead(i, q) \subseteq Listed(q) /\ Listed(q) \subseteq Items
           /\ IsFiniteSet(Ahead(i, q)) /\ IsFiniteSet(Listed(q))
           /\ Place(i, q) = Cardinality(Ahead(i, q)) /\ Place(i, q) \in Nat
           /\ Cardinality(Listed(q)) \in Nat
           /\ Cardinality(Listed(q)) <= Cardinality(Items)
<1>1. Ahead(i, q) \subseteq Listed(q) /\ Listed(q) \subseteq Items
  BY DEF Ahead, Listed
<1>2. IsFiniteSet(Ahead(i, q)) /\ IsFiniteSet(Listed(q))
      /\ Cardinality(Listed(q)) <= Cardinality(Items)
  BY <1>1, SourceFacts, FS_Subset
<1>3. Place(i, q) = Cardinality(Ahead(i, q))
  BY DEF Place, Ahead
<1>4. QED
  BY <1>1, <1>2, <1>3, FS_CardinalityType

LEMMA StrictlyFewer ==
    ASSUME NEW T, IsFiniteSet(T), NEW S \in SUBSET T, NEW x \in T, x \notin S
    PROVE  Cardinality(S) < Cardinality(T)
<1>1. Cardinality(S) <= Cardinality(T) /\ Cardinality(S) # Cardinality(T) /\ IsFiniteSet(S)
  BY FS_Subset
<1>2. QED
  BY <1>1, FS_CardinalityType

\* Places grow along a listing, and are less than its length.
LEMMA PlacesGrow ==
    ASSUME IsFiniteSet(Items), PollTypeOK, NEW q, NEW i \in Listed(q)
    PROVE  /\ Place(i, q) < Cardinality(Listed(q))
           /\ \A j \in Items : Before(i, j) => Place(i, q) < Place(j, q)
<1>1. i \in Items /\ i \notin Ahead(i, q)
  BY Places, BeforeOrders DEF Ahead
<1>2. Place(i, q) < Cardinality(Listed(q))
  BY <1>1, Places, StrictlyFewer
<1>3. ASSUME NEW j \in Items, Before(i, j)
      PROVE  Place(i, q) < Place(j, q)
  <2>1. Ahead(i, q) \subseteq Ahead(j, q)
    BY <1>1, <1>3, BeforeOrders, Places DEF Ahead
  <2>2. i \in Ahead(j, q)
    BY <1>3 DEF Ahead
  <2>3. QED
    BY <1>1, <2>1, <2>2, Places, StrictlyFewer
<1>4. QED
  BY <1>2, <1>3

\* Every place below the length of a listing is some item's.
LEMMA PlacesTaken ==
    ASSUME IsFiniteSet(Items), PollTypeOK, NEW q, NEW m \in Nat, m < Cardinality(Listed(q))
    PROVE  \E i \in Listed(q) : Place(i, q) = m
<1> DEFINE L == Listed(q)
           c == Cardinality(L)
           f == [i \in L |-> Place(i, q)]
<1>1. c \in Nat /\ IsFiniteSet(L) /\ L \subseteq Items
  BY Places
<1>2. \A i \in L : Place(i, q) \in 0..(c - 1)
  BY <1>1, Places, PlacesGrow
<1>3. \A i, j \in L : Place(i, q) = Place(j, q) => i = j
  <2> SUFFICES ASSUME NEW i \in L, NEW j \in L, i # j
               PROVE  Place(i, q) # Place(j, q)
    OBVIOUS
  <2>1. i \in Items /\ j \in Items
    BY <1>1
  <2>2. Before(i, j) \/ Before(j, i)
    BY <2>1, BeforeOrders
  <2>3. Place(i, q) \in Nat /\ Place(j, q) \in Nat
    BY Places
  <2>4. Place(i, q) < Place(j, q) \/ Place(j, q) < Place(i, q)
    BY <2>1, <2>2, PlacesGrow
  <2>5. QED
    BY <2>3, <2>4
<1>4. f \in Injection(L, 0..(c - 1))
  BY <1>2, <1>3 DEF Injection, IsInjective
<1>5. IsFiniteSet(0..(c - 1)) /\ Cardinality(0..(c - 1)) = c
  <2>1. 0 \in Int /\ c - 1 \in Int
    BY <1>1
  <2>2. QED
    BY <1>1, <2>1, FS_Interval
<1>6. f \in Surjection(L, 0..(c - 1))
  <2> HIDE DEF f, L
  <2> QED  BY <1>4, <1>5, FS_Injection
<1>7. m \in 0..(c - 1)
  BY <1>1
<1>8. QED
  BY <1>6, <1>7 DEF Surjection

\* A page is full when something comes after it.
LEMMA FullPages ==
    ASSUME IsFiniteSet(Items), PollTypeOK, NEW q, NEW n \in Nat, n > 0,
           NEW i \in Listed(q), PageSize * n <= Place(i, q)
    PROVE  Cardinality({j \in Listed(q) : OnPage(j, q, n)}) = PageSize
<1> DEFINE P == {j \in Listed(q) : OnPage(j, q, n)}
           a == PageSize * (n - 1)
           I == a..(a + PageSize - 1)
           g == [j \in P |-> Place(j, q)]
<1>1. a \in Nat /\ PageSize * n = a + PageSize /\ PageSize \in Nat /\ PageSize > 0
  BY SourceFacts, PageStarts
<1> HIDE DEF a
<1>2. \A j \in Listed(q) : Place(j, q) \in Nat
  BY Places
<1>3. \A j \in Listed(q) : j \in P <=> Place(j, q) \in I
  BY <1>1, <1>2 DEF OnPage, a
<1>4. \A j, k \in P : Place(j, q) = Place(k, q) => j = k
  <2> SUFFICES ASSUME NEW j \in P, NEW k \in P, j # k
               PROVE  Place(j, q) # Place(k, q)
    OBVIOUS
  <2>1. j \in Items /\ k \in Items
    BY Places
  <2>2. Before(j, k) \/ Before(k, j)
    BY <2>1, BeforeOrders
  <2>3. Place(j, q) < Place(k, q) \/ Place(k, q) < Place(j, q)
    BY <2>1, <2>2, PlacesGrow
  <2>4. QED
    BY <1>2, <2>3
<1>5. g \in Injection(P, I)
  BY <1>3, <1>4 DEF Injection, IsInjective
<1>6. \A m \in I : \E j \in P : g[j] = m
  <2> SUFFICES ASSUME NEW m \in I PROVE \E j \in P : g[j] = m
    OBVIOUS
  <2>1. m \in Nat /\ m < Cardinality(Listed(q))
    BY <1>1, <1>2, PlacesGrow, Places
  <2>2. PICK j \in Listed(q) : Place(j, q) = m
    BY <2>1, PlacesTaken
  <2>3. QED
    BY <1>3, <2>2
<1>7. g \in Surjection(P, I)
  BY <1>3, <1>6 DEF Surjection
<1>8. IsFiniteSet(I) /\ Cardinality(I) = PageSize
  <2>1. a \in Int /\ a + PageSize - 1 \in Int
    BY <1>1
  <2>2. QED
    BY <1>1, <2>1, FS_Interval
<1>9. QED
  <2> HIDE DEF g, P, I
  <2>1. Cardinality(P) = Cardinality(I)
    BY <1>5, <1>7, <1>8, FS_Injection
  <2>2. QED
    BY <2>1, <1>8 DEF P

\* A full page is among the first as many as there are items.
LEMMA FullPageBound ==
    ASSUME IsFiniteSet(Items), PollTypeOK, NEW q, NEW n \in Nat, n > 0,
           Cardinality({j \in Listed(q) : OnPage(j, q, n)}) = PageSize
    PROVE  n <= Cardinality(Items)
<1> DEFINE P == {j \in Listed(q) : OnPage(j, q, n)}
<1>1. P # {}
  <2>1. Cardinality({}) = 0
    BY FS_EmptySet
  <2>2. QED
    BY <2>1, SourceFacts
<1>2. PICK j \in Listed(q) : PageSize * (n - 1) <= Place(j, q)
  BY <1>1 DEF OnPage
<1>3. n - 1 <= PageSize * (n - 1) /\ PageSize * (n - 1) \in Nat
  BY SourceFacts, PageStarts
<1>4. Place(j, q) \in Nat /\ Place(j, q) < Cardinality(Items)
  BY Places, PlacesGrow, SourceFacts
<1>5. QED
  BY <1>2, <1>3, <1>4, SourceFacts

-----------------------------------------------------------------------------
(* What a poll owes.                                                       *)

\* The last change of i is published, or an exception; staged, or it moved.
Published(i) == upd[i] \in {observed[i], moved[i], slow[i]}
Staged(p, i) == upd[i] \in {staged[p][i], moved[i]}

\* p asks for the last change of i, and it showed before p began.
Due(p, i) == upd[i] # 0 /\ query[p] <= upd[i] /\ shown[i] = upd[i] /\ i \notin during[p]

\* What is shown, moved and observed of an item is at most its last change.
Dated ==
    \A i \in Items :
        /\ shown[i] <= upd[i] /\ upd[i] <= now
        /\ moved[i] <= shown[i] /\ observed[i] <= upd[i]
        /\ shown[i] # upd[i] => now <= upd[i] + Delay

\* Nothing is from the future.
Timed ==
    /\ wm <= now
    /\ \A p \in Pollers :
         /\ query[p] <= now /\ top[p] <= now
         /\ \A i \in Items : staged[p][i] <= upd[i]

\* What a poll does not ask for is published, what was due on the pages it has read is
\* staged, and at the end that is everything.
Read ==
    \A p \in Pollers, i \in Items :
        /\ upd[i] # 0 /\ upd[i] < query[p] => Published(i)
        /\ at[p] = "fetch" /\ Due(p, i) /\ Place(i, query[p]) < PageSize * (page[p] - 1)
             => Staged(p, i)
        /\ at[p] = "finish" /\ Due(p, i) => Staged(p, i)

PollInv == PollTypeOK /\ Dated /\ Timed /\ Read /\ NothingLost

LEMMA PollNumbers ==
    ASSUME IsFiniteSet(Items), PollTypeOK
    PROVE  /\ now \in Nat /\ wm \in Nat
           /\ \A i \in Items : /\ upd[i] \in Nat /\ shown[i] \in Nat /\ moved[i] \in Nat
                               /\ observed[i] \in Nat /\ slow[i] \in Nat
           /\ \A p \in Pollers : /\ query[p] \in Nat /\ top[p] \in Nat
                                 /\ page[p] \in Nat /\ page[p] > 0
                                 /\ \A i \in Items : staged[p][i] \in Nat
<1>1. MaxTime \in Nat /\ \A t \in Times : t \in Nat
  BY SourceFacts DEF Times
<1>2. Cardinality(Items) \in Nat
  BY SourceFacts
<1>3. QED
  BY <1>1, <1>2 DEF PollTypeOK

LEMMA PollInvInit == ASSUME IsFiniteSet(Items), PollInit PROVE PollInv
<1>1. MaxTime \in Nat /\ MaxChanges \in Nat /\ Cardinality(Items) \in Nat
      /\ Delay \in Nat /\ Overlap \in Nat
  BY SourceFacts
<1>2. PollTypeOK
  BY <1>1 DEF PollInit, PollTypeOK, Times, NoVersions
<1>3. Dated /\ Timed
  BY <1>1 DEF PollInit, Dated, Timed, NoVersions
<1>4. Read /\ NothingLost
  BY <1>1 DEF PollInit, Read, NothingLost
<1>5. QED
  BY <1>2, <1>3, <1>4 DEF PollInv

\* A listing depends on what is shown, and on how the source is listed.
LEMMA SamePlaces ==
    ASSUME UNCHANGED <<shown, listing>>, NEW i, NEW q
    PROVE  Place(i, q)' = Place(i, q)
BY DEF Place, Listed, Before

-----------------------------------------------------------------------------
(* GitHub's steps.                                                         *)

LEMMA UpdateStep ==
    ASSUME IsFiniteSet(Items), PollInv, NEW k \in Items, Update(k)
    PROVE  PollInv'
<1> USE SourceFacts, PollNumbers
<1>1. PollTypeOK /\ Dated /\ Timed /\ Read /\ NothingLost
  BY DEF PollInv
<1>2. /\ upd' = [upd EXCEPT ![k] = now] /\ moved' = [moved EXCEPT ![k] = 0]
      /\ slow' = [slow EXCEPT ![k] = 0] /\ upd[k] # now
      /\ changes' = changes + 1 /\ changes < MaxChanges
      /\ UNCHANGED <<now, listing, shown, wm, observed, at, during, query, page, top, staged>>
  BY DEF Update, store, poll
<1>3. \A i \in Items : i # k => upd'[i] = upd[i] /\ moved'[i] = moved[i] /\ slow'[i] = slow[i]
  BY <1>1, <1>2 DEF PollTypeOK
<1>4. upd'[k] = now /\ moved'[k] = 0
  BY <1>1, <1>2 DEF PollTypeOK
<1>5. PollTypeOK'
  BY <1>1, <1>2 DEF PollTypeOK, Times
<1>6. Dated'
  BY <1>1, <1>2, <1>3, <1>4 DEF Dated
<1>7. Timed'
  BY <1>1, <1>2, <1>3, <1>4 DEF Timed, Dated
<1>8. Read'
  <2> SUFFICES ASSUME NEW p \in Pollers, NEW i \in Items
               PROVE  /\ upd'[i] # 0 /\ upd'[i] < query'[p] => Published(i)'
                      /\ at'[p] = "fetch" /\ Due(p, i)'
                         /\ Place(i, query[p])' < PageSize * (page'[p] - 1)
                           => Staged(p, i)'
                      /\ at'[p] = "finish" /\ Due(p, i)' => Staged(p, i)'
    BY DEF Read
  <2>1. Place(i, query[p])' = Place(i, query[p])
    BY <1>2, SamePlaces
  <2>2. CASE i = k
    BY <1>1, <1>2, <1>4, <2>2 DEF Timed, Dated, Due
  <2>3. CASE i # k
    BY <1>1, <1>2, <1>3, <2>1, <2>3 DEF Read, Due, Published, Staged
  <2>4. QED
    BY <2>2, <2>3
<1>9. NothingLost'
  BY <1>1, <1>2, <1>3, <1>4 DEF NothingLost, Timed
<1>10. QED
  BY <1>5, <1>6, <1>7, <1>8, <1>9 DEF PollInv

LEMMA TimeStep == ASSUME IsFiniteSet(Items), PollInv, Tick PROVE PollInv'
<1> USE SourceFacts, PollNumbers
<1>1. PollTypeOK /\ Dated /\ Timed /\ Read /\ NothingLost
  BY DEF PollInv
<1>2. /\ now' = now + 1 /\ now < MaxTime
      /\ \A i \in Items : shown[i] # upd[i] => now < upd[i] + Delay
      /\ UNCHANGED <<listing, changes, upd, shown, moved, slow, wm, observed, at, during,
                     query, page, top, staged>>
  BY DEF Tick, store, poll
<1>3. PollTypeOK'
  BY <1>1, <1>2 DEF PollTypeOK, Times
<1>4. Dated' /\ Timed'
  BY <1>1, <1>2 DEF Dated, Timed
<1>5. Read'
  <2>1. \A p \in Pollers, i \in Items :
          Place(i, query[p])' = Place(i, query[p])
    BY <1>2, SamePlaces
  <2>2. QED
    BY <1>1, <1>2, <2>1 DEF Read, Due, Published, Staged
<1>6. NothingLost'
  BY <1>1, <1>2 DEF NothingLost
<1>7. QED
  BY <1>3, <1>4, <1>5, <1>6 DEF PollInv

\* When k is indexed, what came before another item still does, but for k itself, and k
\* does too in a listing by creation.
LEMMA IndexedPlaces ==
    ASSUME IsFiniteSet(Items), PollTypeOK, Dated, NEW k \in Items, Index(k),
           NEW i \in Items, i # k, NEW q
    PROVE  /\ Ahead(i, q) \ {k} \subseteq Ahead(i, q)'
           /\ listing # "updated" => Ahead(i, q) \subseteq Ahead(i, q)'
<1> USE SourceFacts, PollNumbers
<1>1. shown' = [shown EXCEPT ![k] = upd[k]] /\ shown[k] # upd[k] /\ listing' = listing
  BY DEF Index
<1>2. \A j \in Items : j # k => shown'[j] = shown[j]
  BY <1>1 DEF PollTypeOK
<1>3. shown'[k] = upd[k] /\ upd[k] # 0
  BY <1>1 DEF PollTypeOK, Dated
<1>4. Ahead(i, q) \ {k} \subseteq Ahead(i, q)'
  BY <1>1, <1>2 DEF Ahead, Listed, Before
<1>5. ASSUME listing # "updated" PROVE Ahead(i, q) \subseteq Ahead(i, q)'
  BY <1>1, <1>2, <1>3, <1>5 DEF Ahead, Listed, Before
<1>6. QED
  BY <1>4, <1>5

\* So an item moves up by one place at most, and only if k came before it in a listing by
\* time of change.
LEMMA MovesUpByOne ==
    ASSUME IsFiniteSet(Items), PollTypeOK, Dated, NEW k \in Items, Index(k),
           NEW i \in Items, i # k, NEW q,
           Place(i, q)' < Place(i, q)
    PROVE  /\ Place(i, q) = Place(i, q)' + 1
           /\ Place(i, q)' \in Nat
           /\ listing = "updated" /\ k \in Listed(q) /\ Before(k, i)
<1> DEFINE A == Ahead(i, q)
           B == Ahead(i, q)'
<1>1. IsFiniteSet(A) /\ Place(i, q) = Cardinality(A) /\ Cardinality(A) \in Nat
  BY Places
<1>2. Place(i, q)' = Cardinality(B)
  BY DEF Place, Ahead
<1>3. IsFiniteSet(B) /\ Cardinality(B) \in Nat
  <2>1. B \subseteq Items
    BY DEF Ahead, Listed
  <2>2. QED
    BY <2>1, SourceFacts, FS_Subset, FS_CardinalityType
<1>4. A \ {k} \subseteq B /\ (listing # "updated" => A \subseteq B)
  BY IndexedPlaces
<1> HIDE DEF A, B
<1>5. ~(A \subseteq B)
  BY <1>1, <1>2, <1>3, FS_Subset
<1>6. k \in A
  BY <1>4, <1>5
<1>7. Cardinality(A \ {k}) = Cardinality(A) - 1 /\ Cardinality(A \ {k}) <= Cardinality(B)
  BY <1>1, <1>3, <1>4, <1>6, FS_RemoveElement, FS_Subset
<1>8. QED
  BY <1>1, <1>2, <1>3, <1>4, <1>5, <1>6, <1>7 DEF A, Ahead

LEMMA IndexStep ==
    ASSUME IsFiniteSet(Items), PollInv, NEW k \in Items, Index(k)
    PROVE  PollInv'
<1> USE SourceFacts, PollNumbers
<1>1. PollTypeOK /\ Dated /\ Timed /\ Read /\ NothingLost
  BY DEF PollInv
<1>2. /\ shown' = [shown EXCEPT ![k] = upd[k]] /\ shown[k] # upd[k]
      /\ during' = [p \in Pollers |-> IF at[p] = "idle" THEN {} ELSE during[p] \cup {k}]
      /\ UNCHANGED <<now, listing, changes, upd, slow, wm, observed, at, query, page, top,
                     staged>>
  BY DEF Index, store
<1>3. \A i \in Items : i # k => shown'[i] = shown[i]
  BY <1>1, <1>2 DEF PollTypeOK
<1>4. shown'[k] = upd[k]
  BY <1>1, <1>2 DEF PollTypeOK
<1>5. moved' \in [Items -> Nat] /\ \A i \in Items : moved'[i] \in {moved[i], shown[i]}
  BY <1>1 DEF Index
<1>6. moved'[k] = moved[k]
  BY <1>1, BeforeOrders DEF Index
<1>7. PollTypeOK'
  <2>1. moved' \in [Items -> Times]
    BY <1>1 DEF Index, PollTypeOK
  <2>2. QED
    BY <1>1, <1>2, <2>1 DEF PollTypeOK, Times
<1>8. \A i \in Items : moved[i] = upd[i] => moved'[i] = upd[i]
  BY <1>1, <1>5 DEF Dated
<1>9. Dated'
  BY <1>1, <1>2, <1>3, <1>4, <1>5, <1>6 DEF Dated
<1>10. Timed'
  BY <1>1, <1>2 DEF Timed
<1>11. NothingLost'
  BY <1>1, <1>2, <1>8 DEF NothingLost
<1>12. Read'
  <2> SUFFICES ASSUME NEW p \in Pollers, NEW i \in Items
               PROVE  /\ upd'[i] # 0 /\ upd'[i] < query'[p] => Published(i)'
                      /\ at'[p] = "fetch" /\ Due(p, i)'
                         /\ Place(i, query[p])' < PageSize * (page'[p] - 1)
                           => Staged(p, i)'
                      /\ at'[p] = "finish" /\ Due(p, i)' => Staged(p, i)'
    BY DEF Read
  <2>1. /\ Published(i) => Published(i)'
        /\ Staged(p, i) => Staged(p, i)'
        /\ at[p] # "idle" /\ Due(p, i)' => i # k /\ Due(p, i)
    BY <1>2, <1>3, <1>8 DEF Published, Staged, Due
  <2>2. ASSUME at[p] = "fetch", Due(p, i), i # k,
               Place(i, query[p])' < PageSize * (page[p] - 1)
        PROVE  Staged(p, i)'
    <3> DEFINE a == PageSize * (page[p] - 1)
    <3>1. a \in Nat /\ Place(i, query[p]) \in Nat
      BY <1>1, PageStarts, Places
    <3>2. Place(i, query[p])' < a
      BY <2>2
    <3> HIDE DEF a
    <3>3. shown[i] = upd[i] /\ i # k
      BY <2>2 DEF Due
    <3>4. CASE Place(i, query[p]) < a
      BY <1>1, <2>1, <2>2, <3>4 DEF Read, a
    <3>5. CASE ~(Place(i, query[p]) < a)
      <4>1. Place(i, query[p])' = Cardinality(Ahead(i, query[p])')
        BY DEF Place, Ahead
      <4>2. Place(i, query[p])' \in Nat
        <5>1. Ahead(i, query[p])' \subseteq Items
          BY DEF Ahead, Listed
        <5>2. QED
          BY <4>1, <5>1, FS_Subset, FS_CardinalityType
      <4>3. query'[p] = query[p]
        BY <1>2
      <4>4. Place(i, query[p])' < Place(i, query[p])
        BY <3>1, <3>2, <3>5, <4>2
      <4>5. /\ Place(i, query[p]) = Place(i, query[p])' + 1
            /\ listing = "updated" /\ k \in Listed(query[p]) /\ Before(k, i)
        BY <1>1, <3>3, <4>3, <4>4, MovesUpByOne
      <4>6. Place(i, query[p]) = a
        BY <3>1, <3>2, <3>5, <4>2, <4>5
      <4>7. i \in Listed(query[p])
        BY <1>1, <2>2, <3>3 DEF Listed, Due
      <4>8. moved'[i] = shown[i]
        BY <2>2, <4>5, <4>6, <4>7 DEF Index, Polling, a
      <4>9. QED
        BY <1>2, <3>3, <4>8 DEF Staged
    <3>6. QED
      BY <3>4, <3>5
  <2>3. QED
    BY <1>1, <1>2, <2>1, <2>2 DEF Read
<1>13. QED
  BY <1>7, <1>9, <1>10, <1>11, <1>12 DEF PollInv

-----------------------------------------------------------------------------
(* The pollers' steps.                                                     *)

\* What remains when a step is a poller's: GitHub is as it was, and the other polls.
LEMMA PollerStep ==
    ASSUME IsFiniteSet(Items), PollInv, NEW p \in Pollers,
           UNCHANGED <<now, listing, changes, upd, shown, moved>>,
           \A r \in Pollers \ {p} : /\ at'[r] = at[r] /\ during'[r] = during[r]
                                    /\ query'[r] = query[r] /\ page'[r] = page[r]
                                    /\ top'[r] = top[r] /\ staged'[r] = staged[r],
           PollTypeOK', wm' <= now,
           \A i \in Items : /\ observed'[i] <= upd[i]
                            /\ Published(i) => Published(i)',
           NothingLost',
           query'[p] <= now, top'[p] <= now,
           \A i \in Items :
             /\ staged'[p][i] <= upd[i]
             /\ upd[i] # 0 /\ upd[i] < query'[p] => Published(i)'
             /\ at'[p] = "fetch" /\ Due(p, i)'
                /\ Place(i, query[p])' < PageSize * (page'[p] - 1) => Staged(p, i)'
             /\ at'[p] = "finish" /\ Due(p, i)' => Staged(p, i)'
    PROVE  PollInv'
<1>1. PollTypeOK /\ Dated /\ Timed /\ Read /\ NothingLost
  BY DEF PollInv
<1>2. Dated'
  BY <1>1 DEF Dated
<1>3. Timed'
  BY <1>1 DEF Timed
<1>4. Read'
  <2> SUFFICES ASSUME NEW r \in Pollers, NEW i \in Items, r # p
               PROVE  /\ upd'[i] # 0 /\ upd'[i] < query'[r] => Published(i)'
                      /\ at'[r] = "fetch" /\ Due(r, i)'
                         /\ Place(i, query[r])' < PageSize * (page'[r] - 1)
                           => Staged(r, i)'
                      /\ at'[r] = "finish" /\ Due(r, i)' => Staged(r, i)'
    BY DEF Read
  <2>1. /\ at'[r] = at[r] /\ during'[r] = during[r] /\ query'[r] = query[r]
        /\ page'[r] = page[r] /\ staged'[r] = staged[r]
    OBVIOUS
  <2>2. (Due(r, i)' <=> Due(r, i)) /\ (Staged(r, i)' <=> Staged(r, i))
    BY <2>1 DEF Due, Staged
  <2>3. Place(i, query[r])' = Place(i, query[r])
    BY <2>1 DEF Place, Listed, Before
  <2>4. QED
    BY <1>1, <2>1, <2>2, <2>3 DEF Read
<1>5. QED
  BY <1>2, <1>3, <1>4 DEF PollInv

\* A poll that is dropped owes nothing.
LEMMA DropStep ==
    ASSUME IsFiniteSet(Items), PollInv, NEW p \in Pollers, Drop(p),
           UNCHANGED <<now, listing, changes, upd, shown, moved>>,
           wm' \in Times, wm' <= now, observed' \in [Items -> Times],
           slow' \in [Items -> Times],
           \A i \in Items : /\ observed'[i] <= upd[i]
                            /\ Published(i) => Published(i)',
           NothingLost'
    PROVE  PollInv'
<1> USE SourceFacts
<1>1. PollTypeOK
  BY DEF PollInv
<1>2. Cardinality(Items) \in Nat
  OBVIOUS
<1>3. /\ at' = [at EXCEPT ![p] = "idle"] /\ during' = [during EXCEPT ![p] = {}]
      /\ query' = [query EXCEPT ![p] = 0] /\ page' = [page EXCEPT ![p] = 1]
      /\ top' = [top EXCEPT ![p] = 0]
      /\ staged' = [staged EXCEPT ![p] = [i \in Items |-> 0]]
  BY DEF Drop, NoVersions
<1>4. PollTypeOK'
  BY <1>1, <1>2, <1>3 DEF PollTypeOK, Times
<1>5. \A r \in Pollers \ {p} : /\ at'[r] = at[r] /\ during'[r] = during[r]
                               /\ query'[r] = query[r] /\ page'[r] = page[r]
                               /\ top'[r] = top[r] /\ staged'[r] = staged[r]
  BY <1>1, <1>3 DEF PollTypeOK
<1>6. /\ at'[p] = "idle" /\ query'[p] = 0 /\ top'[p] = 0
      /\ \A i \in Items : staged'[p][i] = 0
  BY <1>1, <1>3 DEF PollTypeOK
<1>7. now \in Nat /\ \A i \in Items : upd[i] \in Nat
  BY <1>1, PollNumbers
<1>8. QED
  BY <1>4, <1>5, <1>6, <1>7, PollerStep

LEMMA BeginPollStep ==
    ASSUME IsFiniteSet(Items), PollInv, NEW p \in Pollers, BeginPoll(p)
    PROVE  PollInv'
<1> USE SourceFacts
<1>1. PollTypeOK /\ Dated /\ Timed /\ NothingLost
  BY DEF PollInv
<1> USE <1>1, PollNumbers
<1>2. Cardinality(Items) \in Nat
  OBVIOUS
<1>3. /\ at' = [at EXCEPT ![p] = "fetch"] /\ during' = [during EXCEPT ![p] = {}]
      /\ query' = [query EXCEPT ![p] = OverlapWatermark(wm)]
      /\ page' = [page EXCEPT ![p] = 1] /\ top' = [top EXCEPT ![p] = wm]
      /\ staged' = [staged EXCEPT ![p] = [i \in Items |-> 0]]
      /\ UNCHANGED <<now, listing, changes, upd, shown, moved, slow, wm, observed>>
  BY DEF BeginPoll, NoVersions, github, store
<1>4. /\ OverlapWatermark(wm) \in Times /\ OverlapWatermark(wm) <= wm
      /\ \A t \in Nat : t < OverlapWatermark(wm) => t + Overlap < wm
  BY DEF OverlapWatermark, PollTypeOK, Times
<1>5. PollTypeOK'
  BY <1>2, <1>3, <1>4 DEF PollTypeOK, Times
<1>6. \A r \in Pollers \ {p} : /\ at'[r] = at[r] /\ during'[r] = during[r]
                               /\ query'[r] = query[r] /\ page'[r] = page[r]
                               /\ top'[r] = top[r] /\ staged'[r] = staged[r]
  BY <1>3 DEF PollTypeOK
<1>7. /\ at'[p] = "fetch" /\ query'[p] = OverlapWatermark(wm)
      /\ page'[p] = 1 /\ top'[p] = wm /\ \A i \in Items : staged'[p][i] = 0
  BY <1>3 DEF PollTypeOK
<1>8. NothingLost' /\ \A i \in Items : Published(i)' <=> Published(i)
  BY <1>3 DEF NothingLost, Published
<1>9. wm <= now /\ \A i \in Items : observed'[i] <= upd[i]
  BY <1>3 DEF Timed, Dated
<1>10. ASSUME NEW i \in Items, upd[i] # 0, upd[i] < query'[p] PROVE Published(i)'
  BY <1>4, <1>7, <1>8, <1>10 DEF NothingLost, Published
<1>11. \A i \in Items : ~(Place(i, query[p])' < PageSize * (page'[p] - 1))
  <2> SUFFICES ASSUME NEW i \in Items
               PROVE  ~(Place(i, query[p])' < PageSize * (page'[p] - 1))
    OBVIOUS
  <2>1. PageSize * (page'[p] - 1) = 0
    BY <1>7
  <2>2. Place(i, query[p])' \in Nat
    <3>1. Place(i, query[p])' = Cardinality(Ahead(i, query[p])')
      BY DEF Place, Ahead
    <3>2. Ahead(i, query[p])' \subseteq Items
      BY DEF Ahead, Listed
    <3>3. QED
      BY <3>1, <3>2, FS_Subset, FS_CardinalityType
  <2>3. QED
    BY <2>1, <2>2
<1>12. OverlapWatermark(wm) \in Nat
  BY <1>4 DEF Times
<1>13. QED
  BY <1>3, <1>4, <1>5, <1>6, <1>7, <1>8, <1>9, <1>10, <1>11, <1>12, PollerStep

LEMMA CompletePollStep ==
    ASSUME IsFiniteSet(Items), PollInv, NEW p \in Pollers, CompletePoll(p)
    PROVE  PollInv'
<1> USE SourceFacts
<1>1. PollTypeOK /\ Dated /\ Timed /\ Read /\ NothingLost
  BY DEF PollInv
<1> USE <1>1, PollNumbers
<1>2. /\ at[p] = "finish" /\ Drop(p) /\ wm' = top[p]
      /\ observed' = Newest(observed, staged[p])
      /\ UNCHANGED <<now, listing, changes, upd, shown, moved>>
      /\ slow' = [i \in Items |->
                    IF i \in during[p] /\ upd[i] + Overlap < top[p] THEN upd[i] ELSE slow[i]]
  BY DEF CompletePoll, FinishSnapshot
<1>3. /\ wm' \in Times /\ wm' <= now /\ observed' \in [Items -> Times]
      /\ slow' \in [Items -> Times]
  BY <1>2 DEF PollTypeOK, Timed, Newest
<1>4. \A i \in Items : observed'[i] = IF observed[i] > staged[p][i] THEN observed[i]
                                      ELSE staged[p][i]
  BY <1>2 DEF Newest
<1>5. ASSUME NEW i \in Items
      PROVE  /\ observed'[i] <= upd[i]
             /\ observed[i] = upd[i] \/ staged[p][i] = upd[i] => observed'[i] = upd[i]
  BY <1>4 DEF Dated, Timed
<1>6. \A i \in Items : /\ Published(i) => Published(i)'
                       /\ Staged(p, i) => Published(i)'
  BY <1>2, <1>5 DEF Published, Staged
<1>7. NothingLost'
  <2> SUFFICES ASSUME NEW i \in Items, upd[i] # 0, upd[i] + Overlap < top[p]
               PROVE  Published(i)'
    BY <1>2 DEF NothingLost, Published
  <2>1. shown[i] = upd[i]
    BY DEF Timed, Dated
  <2>2. CASE i \in during[p]
    BY <1>2, <2>2 DEF Published
  <2>3. CASE i \notin during[p] /\ query[p] <= upd[i]
    BY <1>2, <1>6, <2>1, <2>3 DEF Read, Due
  <2>4. CASE upd[i] < query[p]
    BY <1>6, <2>4 DEF Read
  <2>5. QED
    BY <2>2, <2>3, <2>4
<1>8. QED
  BY <1>2, <1>3, <1>5, <1>6, <1>7, DropStep

LEMMA LostPollStep ==
    ASSUME IsFiniteSet(Items), PollInv, NEW p \in Pollers, FailPoll(p) \/ LosePoller(p)
    PROVE  PollInv'
<1>1. PollTypeOK /\ Dated /\ Timed /\ NothingLost
  BY DEF PollInv
<1>2. Drop(p)
      /\ UNCHANGED <<now, listing, changes, upd, shown, moved, slow, wm, observed>>
  BY DEF FailPoll, LosePoller, FinishSnapshot, github, store
<1>3. NothingLost' /\ \A i \in Items : Published(i)' <=> Published(i)
  BY <1>1, <1>2 DEF NothingLost, Published
<1>4. /\ wm' \in Times /\ wm' <= now /\ observed' \in [Items -> Times]
      /\ slow' \in [Items -> Times]
      /\ \A i \in Items : observed'[i] <= upd[i]
  BY <1>1, <1>2 DEF PollTypeOK, Dated, Timed
<1>5. QED
  BY <1>2, <1>3, <1>4, DropStep

\* A page adds to what is staged what it lists of the versions asked for.
LEMMA StagedAfterPage ==
    ASSUME IsFiniteSet(Items), PollInv, NEW p \in Pollers, FetchPage(p), NEW i \in Items
    PROVE  /\ staged'[p][i] <= upd[i]
           /\ staged[p][i] = upd[i] => staged'[p][i] = upd[i]
           /\ i \in RawPage(p) /\ query[p] <= shown[i] /\ shown[i] = upd[i]
                => staged'[p][i] = upd[i]
<1> USE SourceFacts
<1>1. PollTypeOK /\ Dated /\ Timed
  BY DEF PollInv
<1> USE <1>1, PollNumbers
<1> DEFINE kept == {j \in RawPage(p) : shown[j] >= query[p]}
           v == IF i \in kept THEN shown[i] ELSE 0
<1>2. staged' = [staged EXCEPT ![p] = StageObservations(staged[p], kept)]
  BY DEF FetchPage
<1>3. staged'[p][i] = IF staged[p][i] > v THEN staged[p][i] ELSE v
  BY <1>2 DEF PollTypeOK, StageObservations, Newest, EventVersion
<1>4. v \in Nat /\ v <= upd[i] /\ staged[p][i] <= upd[i]
  BY DEF Dated, Timed
<1>5. i \in RawPage(p) /\ query[p] <= shown[i] => v = shown[i]
  OBVIOUS
<1> HIDE DEF v, kept
<1>6. QED
  BY <1>3, <1>4, <1>5

\* The highest version seen stays one that was shown by now.
LEMMA TopAfterPage ==
    ASSUME IsFiniteSet(Items), PollInv, NEW p \in Pollers, FetchPage(p)
    PROVE  /\ top'[p] \in Times /\ top'[p] <= now
           /\ top' = [top EXCEPT ![p] = top'[p]]
<1> USE SourceFacts
<1>1. PollTypeOK /\ Dated /\ Timed /\ at[p] = "fetch"
  BY DEF PollInv, FetchPage
<1> USE <1>1, PollNumbers
<1> DEFINE kept == {j \in RawPage(p) : shown[j] >= query[p]}
           V == {top[p]} \cup {EventVersion(j) : j \in kept}
<1>2. top' = [top EXCEPT ![p] = MaxOf(V)]
  BY DEF FetchPage
<1>3. \A j \in kept : j \in Items
  BY DEF RawPage, Listed
<1>4. \A t \in V : t \in 0..MaxTime /\ t <= now
  BY <1>3 DEF EventVersion, PollTypeOK, Times, Dated, Timed
<1>5. V \in SUBSET (0..MaxTime) /\ V # {}
  BY <1>4
<1> HIDE DEF V
<1>6. MaxOf(V) \in V
  BY <1>5, LargestIsMaxOf
<1>7. top'[p] = MaxOf(V)
  BY <1>2 DEF PollTypeOK
<1>8. top'[p] \in 0..MaxTime /\ top'[p] <= now
  BY <1>4, <1>6, <1>7
<1>9. top' = [top EXCEPT ![p] = top'[p]]
  BY <1>2, <1>7
<1>10. QED
  BY <1>8, <1>9 DEF Times

\* An item that is listed and not after the page is on it, or was on one before.
LEMMA PageRead ==
    ASSUME IsFiniteSet(Items), PollInv, NEW p \in Pollers, FetchPage(p), NEW i \in Items, Due(p, i),
           Place(i, query[p]) < PageSize * page[p]
    PROVE  Staged(p, i)'
<1> USE SourceFacts
<1>1. PollTypeOK /\ Dated /\ Timed /\ Read /\ at[p] = "fetch"
  BY DEF PollInv, FetchPage
<1> USE <1>1, PollNumbers
<1>2. UNCHANGED <<upd, moved>>
  BY DEF FetchPage, github
<1>3. shown[i] = upd[i] /\ upd[i] # 0 /\ query[p] <= shown[i]
  BY DEF Due
<1>4. i \in Listed(query[p])
  BY <1>3 DEF Listed
<1>5. CASE Place(i, query[p]) < PageSize * (page[p] - 1)
  <2>1. Staged(p, i)
    BY <1>5 DEF Read
  <2>2. QED
    BY <1>2, <2>1, StagedAfterPage DEF Staged
<1>6. CASE ~(Place(i, query[p]) < PageSize * (page[p] - 1))
  <2>1. PageSize * (page[p] - 1) \in Nat /\ Place(i, query[p]) \in Nat
    BY PageStarts, Places
  <2>2. PageSize * (page[p] - 1) <= Place(i, query[p])
    BY <1>6, <2>1
  <2>3. i \in RawPage(p)
    BY <1>4, <2>2 DEF RawPage, OnPage
  <2>4. QED
    BY <1>2, <1>3, <2>3, StagedAfterPage DEF Staged
<1>7. QED
  BY <1>5, <1>6

LEMMA FetchPageStep ==
    ASSUME IsFiniteSet(Items), PollInv, NEW p \in Pollers, FetchPage(p)
    PROVE  PollInv'
<1> USE SourceFacts
<1>1. PollTypeOK /\ Dated /\ Timed /\ Read /\ NothingLost /\ at[p] = "fetch"
  BY DEF PollInv, FetchPage
<1> USE <1>1, PollNumbers
<1>2. UNCHANGED <<now, listing, changes, upd, shown, moved, slow, wm, observed, during, query>>
  BY DEF FetchPage, github, store
<1>3. RawPage(p) = {j \in Listed(query[p]) : OnPage(j, query[p], page[p])}
  BY DEF RawPage
<1>4. \/ /\ Cardinality(RawPage(p)) = PageSize
         /\ page' = [page EXCEPT ![p] = page[p] + 1] /\ UNCHANGED at
      \/ /\ Cardinality(RawPage(p)) # PageSize
         /\ at' = [at EXCEPT ![p] = "finish"] /\ UNCHANGED page
  BY DEF FetchPage, MorePages
<1>5. page' \in [Pollers -> 1..(Cardinality(Items) + 1)]
      /\ at' \in [Pollers -> {"idle", "fetch", "finish"}]
  <2>1. page \in [Pollers -> 1..(Cardinality(Items) + 1)]
        /\ at \in [Pollers -> {"idle", "fetch", "finish"}]
    BY DEF PollTypeOK
  <2>2. Cardinality(RawPage(p)) = PageSize => page[p] <= Cardinality(Items)
    BY <1>3, FullPageBound
  <2>3. QED
    BY <1>4, <2>1, <2>2
<1>6. staged' \in [Pollers -> [Items -> Times]]
      /\ \A r \in Pollers \ {p} : staged'[r] = staged[r]
  <2> DEFINE kept == {j \in RawPage(p) : shown[j] >= query[p]}
  <2>1. staged' = [staged EXCEPT ![p] = StageObservations(staged[p], kept)]
    BY DEF FetchPage
  <2>2. 0 \in Times
    BY DEF Times
  <2>3. StageObservations(staged[p], kept) \in [Items -> Times]
    BY <2>2 DEF PollTypeOK, StageObservations, Newest, EventVersion
  <2>4. QED
    BY <2>1, <2>3 DEF PollTypeOK
<1>7. top' \in [Pollers -> Times] /\ \A r \in Pollers \ {p} : top'[r] = top[r]
  BY TopAfterPage DEF PollTypeOK
<1>8. PollTypeOK'
  BY <1>2, <1>5, <1>6, <1>7 DEF PollTypeOK
<1>9. \A r \in Pollers \ {p} : /\ at'[r] = at[r] /\ during'[r] = during[r]
                               /\ query'[r] = query[r] /\ page'[r] = page[r]
                               /\ top'[r] = top[r] /\ staged'[r] = staged[r]
  BY <1>2, <1>4, <1>6, <1>7 DEF PollTypeOK
<1>10. NothingLost' /\ \A i \in Items : Published(i)' <=> Published(i)
  BY <1>2 DEF NothingLost, Published
<1>11. /\ wm' <= now /\ \A i \in Items : observed'[i] <= upd[i]
       /\ query'[p] <= now /\ top'[p] <= now
  BY <1>2, TopAfterPage DEF Dated, Timed
<1>12. ASSUME NEW i \in Items
       PROVE  /\ staged'[p][i] <= upd[i]
              /\ upd[i] # 0 /\ upd[i] < query'[p] => Published(i)'
              /\ Due(p, i)' <=> Due(p, i)
              /\ Place(i, query[p])' = Place(i, query[p])
  <2>1. staged'[p][i] <= upd[i]
    BY StagedAfterPage
  <2>2. upd[i] # 0 /\ upd[i] < query'[p] => Published(i)'
    BY <1>2, <1>10 DEF Read
  <2>3. Due(p, i)' <=> Due(p, i)
    BY <1>2 DEF Due
  <2>4. Place(i, query[p])' = Place(i, query[p])
    BY <1>2 DEF Place, Listed, Before
  <2>5. QED
    BY <2>1, <2>2, <2>3, <2>4
<1>13. ASSUME NEW i \in Items, at'[p] = "fetch", Due(p, i)',
              Place(i, query[p])' < PageSize * (page'[p] - 1)
       PROVE  Staged(p, i)'
  <2>1. page'[p] = page[p] + 1
    BY <1>4, <1>13 DEF PollTypeOK
  <2>2. PageSize * (page'[p] - 1) = PageSize * page[p]
    BY <2>1, PageStarts
  <2>3. Place(i, query[p]) < PageSize * page[p] /\ Due(p, i)
    BY <1>12, <1>13, <2>2
  <2>4. QED
    BY <2>3, PageRead
<1>14. ASSUME NEW i \in Items, at'[p] = "finish", Due(p, i)'
       PROVE  Staged(p, i)'
  <2>1. Cardinality(RawPage(p)) # PageSize
    BY <1>4, <1>14
  <2>2. i \in Listed(query[p]) /\ Due(p, i)
    BY <1>12, <1>14 DEF Listed, Due
  <2>3. ~(PageSize * page[p] <= Place(i, query[p]))
    BY <1>3, <2>1, <2>2, FullPages
  <2>4. PageSize * page[p] \in Nat /\ Place(i, query[p]) \in Nat
    BY PageStarts, Places
  <2>5. Place(i, query[p]) < PageSize * page[p]
    BY <2>3, <2>4
  <2>6. QED
    BY <2>2, <2>5, PageRead
<1>15. QED
  BY <1>2, <1>8, <1>9, <1>10, <1>11, <1>12, <1>13, <1>14, PollerStep

-----------------------------------------------------------------------------
LEMMA PollInvStep == ASSUME IsFiniteSet(Items), PollInv, [PollNext]_pollVars PROVE PollInv'
<1>1. CASE PollNext
  BY <1>1, UpdateStep, IndexStep, TimeStep, BeginPollStep, FetchPageStep, CompletePollStep,
     LostPollStep DEF PollNext
<1>2. CASE UNCHANGED pollVars
  <2>1. UNCHANGED <<now, listing, changes, upd, shown, moved, slow, wm, observed, at, during,
                    query, page, top, staged>>
    BY <1>2 DEF pollVars, github, store, poll
  <2>2. \A p \in Pollers, i \in Items :
          Place(i, query[p])' = Place(i, query[p])
    BY <2>1, SamePlaces
  <2>3. PollTypeOK' /\ NothingLost'
    BY <2>1 DEF PollInv, PollTypeOK, NothingLost
  <2>4. Dated' /\ Timed'
    BY <2>1 DEF PollInv, Dated, Timed
  <2>5. Read'
    BY <2>1, <2>2 DEF PollInv, Read, Due, Published, Staged
  <2>6. QED
    BY <2>3, <2>4, <2>5 DEF PollInv
<1>3. QED
  BY <1>1, <1>2

\* The type invariant of polling: the times stay within the clock's bound, and no poll asks
\* for more pages than there are items and one.
THEOREM PollsAreTyped == ASSUME IsFiniteSet(Items) PROVE PollSpec => []PollTypeOK
<1>1. PollInv => PollTypeOK
  BY DEF PollInv
<1>2. QED
  BY <1>1, PollInvInit, PollInvStep, PTL DEF PollSpec

\* A change that no later poll will ask for is published, or one of the two exceptions,
\* however many pollers there are, however long a poll takes, whatever fails, and for every
\* overlap that covers the delay of the listings (delivery.overlap_watermark,
\* store.finish_snapshot).
THEOREM PollsLoseNothing == ASSUME IsFiniteSet(Items) PROVE PollSpec => []NothingLost
<1>1. PollInv => NothingLost
  BY DEF PollInv
<1>2. QED
  BY <1>1, PollInvInit, PollInvStep, PTL DEF PollSpec

=============================================================================
