--------------------------- MODULE WorkItems_proofs ---------------------------
(***************************************************************************)
(* Proofs about WorkItems for every set of items, agents and roles, every  *)
(* number of requests and of interventions of the Human Principal, and     *)
(* every population of items that the Human may have created.              *)
(***************************************************************************)
EXTENDS WorkItems, TLAPS

USE WorkItemsAssumption, WorkItemsVocabulary

-----------------------------------------------------------------------------
(* What authorize grants.                                                  *)

\* The kinds that have a required parent: delivery work.
DeliveryKinds == {"epic", "feature", "story"}

LEMMA DeliveryKindsDef == DOMAIN RequiredParent = DeliveryKinds
BY DEF RequiredParent, DeliveryKinds

LEMMA RequiredParentIsKind == \A k \in DeliveryKinds : RequiredParent[k] \in Kinds
<1>1. RequiredParent["epic"] = "objective" /\ RequiredParent["feature"] = "epic"
      /\ RequiredParent["story"] = "feature"
  BY DEF RequiredParent
<1>2. QED
  BY <1>1 DEF DeliveryKinds, Kinds

\* The stages of the flow have ranks below 5, and no terminal stage is among them.
LEMMA StageOrderDef ==
    /\ \A st \in DOMAIN STAGE_ORDER : STAGE_ORDER[st] \in 0..4
    /\ DOMAIN STAGE_ORDER \cap TERMINAL_STAGES = {}
<1>1. \A st \in DOMAIN STAGE_ORDER :
        \/ STAGE_ORDER[st] = 0 \/ STAGE_ORDER[st] = 1 \/ STAGE_ORDER[st] = 2
        \/ STAGE_ORDER[st] = 3 \/ STAGE_ORDER[st] = 4
  BY Zenon DEF STAGE_ORDER
<1>2. \A st \in DOMAIN STAGE_ORDER : STAGE_ORDER[st] \in 0..4
  BY <1>1
<1>3. DOMAIN STAGE_ORDER \cap TERMINAL_STAGES = {}
  BY Zenon DEF STAGE_ORDER, TERMINAL_STAGES
<1>4. QED
  BY <1>2, <1>3

\* The answer of authorize, operation by operation.
LEMMA AllowedCreate ==
    ASSUME NEW r, r.op = "create", Allowed(r)
    PROVE  /\ r.role \in DeliveryRoles \cup {"project-orchestrator"}
           /\ MayCreate(r.role, r.kind, IF r.item = None THEN None ELSE kind[r.item], r.to)
BY DEF Allowed, Capable

LEMMA AllowedRoute ==
    ASSUME NEW r, r.op = "route", Allowed(r)
    PROVE  MayRoute(r.item, r.to)
BY DEF Allowed

LEMMA AllowedMove ==
    ASSUME NEW r, r.op = "move", Allowed(r)
    PROVE  MayMove(r.role, r.item, r.to)
BY DEF Allowed

LEMMA AllowedClose ==
    ASSUME NEW r, r.op \in {"done", "drop"}, Allowed(r)
    PROVE  MayClose(r.role, r.item, r.op)
BY DEF Allowed

\* Where a request goes once it is authorized again.
LEMMA FirstWriteDef ==
    /\ FirstWrite("create") = "post" /\ FirstWrite("route") = "assign"
    /\ FirstWrite("move") = "move" /\ FirstWrite("done") = "column"
    /\ FirstWrite("drop") = "column"
BY DEF FirstWrite

\* Delivery work is created for a delivery role, and under its required parent.
LEMMA CreatedForDelivery ==
    ASSUME NEW role, NEW k \in DeliveryKinds, NEW pk, NEW target, MayCreate(role, k, pk, target),
           role \in DeliveryRoles \cup {"project-orchestrator"}
    PROVE  /\ (IF target = None THEN role ELSE target) \in DeliveryRoles
           /\ pk = RequiredParent[k]
<1>1. pk = RequiredParent[k]
  BY DeliveryKindsDef DEF MayCreate
<1>2. CASE target = None
  BY <1>1, <1>2 DEF MayCreate, DeliveryKinds
<1>3. CASE target # None
  BY <1>1, <1>3 DEF MayCreate
<1>4. QED
  BY <1>2, <1>3, <1>1

-----------------------------------------------------------------------------
(* The shape of items and requests.                                        *)

AgentStep(a) ==
    \/ \E r \in Requests : Ask(a, r)
    \/ \E i \in Items : Post(a, i)
    \/ Recheck(a) \/ Link(a) \/ Move(a) \/ Assign(a) \/ Column(a) \/ Close(a) \/ Fail(a)

HumanStep ==
    \E i \in Items :
      \/ \E r \in Roles : HumanAssigns(i, r)
      \/ \E to \in MoveTargets : HumanMoves(i, to)
      \/ HumanReopens(i) \/ HumanJudges(i)

LEMMA StepKinds == Next <=> (\E a \in Agents : AgentStep(a)) \/ HumanStep
BY DEF Next, AgentStep, HumanStep

ItemTypes ==
    /\ kind \in [Items -> Kinds \cup {"none"}]
    /\ owner \in [Items -> Roles \cup {None}]
    /\ parent \in [Items -> Items \cup {None}]
    /\ stage \in [Items -> Stages \cup {None}]
    /\ open \subseteq Existing
    /\ evidence \subseteq Existing

AgentTypes ==
    /\ pc \in [Agents -> Writing \cup {"idle", "allowed"}]
    /\ changed \in [Agents -> SUBSET Facts]
    /\ asked \in 0..MaxRequests /\ human \in 0..MaxHuman

\* Every request is a record of its five fields.
Typed == [op : {"none", "create", "route", "move", "done", "drop"}, role : Roles \cup {None},
          item : Items \cup {None}, to : Roles \cup {None} \cup MoveTargets \cup Items,
          kind : Kinds \cup {"none"}]

ReqTypes == req \in [Agents -> Typed]

\* Sub-issues hang under a parent of the required kind.
Linked == \A i \in Items : parent[i] # None /\ kind[i] \in DeliveryKinds =>
             kind[parent[i]] = RequiredParent[kind[i]]

\* Nothing is known of an issue before it is posted.
Blank == \A i \in Items : kind[i] = "none" => owner[i] = None /\ parent[i] = None /\ stage[i] = None

\* What a request is about, by where it is: the parts of authorize's answer that no
\* other request or person can take back.
Shape(a) ==
    /\ pc[a] = "allowed" => req[a] \in Requests
    /\ pc[a] = "post" =>
         /\ req[a] \in Requests /\ req[a].op = "create"
         /\ req[a].kind \in DeliveryKinds =>
              /\ (IF req[a].to = None THEN req[a].role ELSE req[a].to) \in DeliveryRoles
              /\ req[a].item # None => kind[req[a].item] = RequiredParent[req[a].kind]
    /\ pc[a] = "link" =>
         /\ req[a].to \in Existing
         /\ kind[req[a].to] \in DeliveryKinds => kind[req[a].item] = RequiredParent[kind[req[a].to]]
    /\ pc[a] \in Writing \ {"post"} => req[a].item \in Existing
    /\ pc[a] = "assign" =>
         req[a].to \in Roles /\ (kind[req[a].item] \in DeliveryKinds => req[a].to \in DeliveryRoles)
    /\ pc[a] = "move" => req[a].to \in MoveTargets
    /\ pc[a] \in {"column", "close"} => req[a].op \in {"done", "drop"}

ShapeInv ==
    /\ ItemTypes /\ AgentTypes /\ ReqTypes
    /\ Linked /\ Blank
    /\ \A a \in Agents : Shape(a)

\* The requests of an agent are records of that type.
LEMMA RequestsTyped == ItemTypes => Requests \subseteq Typed
BY DEF ItemTypes, Requests, Typed, Existing

\* An issue stays, and keeps its kind.
LEMMA KindsStay ==
    ASSUME ShapeInv, [Next]_vars
    PROVE  /\ \A i \in Existing : kind'[i] = kind[i]
           /\ Existing \subseteq Existing'
<1> USE DEF ShapeInv, ItemTypes, Existing, Exists
<1>1. ASSUME NEW a \in Agents, NEW i \in Items, Post(a, i)
      PROVE  \A j \in Existing : kind'[j] = kind[j]
  BY <1>1 DEF Post
<1>2. CASE UNCHANGED kind
  BY <1>2
<1>3. QED
  BY <1>1, <1>2 DEF Next, Ask, Recheck, Link, Move, Assign, Column, Close, Fail, HumanAssigns,
     HumanMoves, HumanReopens, HumanJudges, items, vars

\* Another agent's request keeps its shape.
LEMMA ShapeKept ==
    ASSUME ShapeInv, [Next]_vars, NEW b \in Agents, pc'[b] = pc[b], req'[b] = req[b]
    PROVE  Shape(b)'
<1>1. \A i \in Existing : kind'[i] = kind[i] /\ i \in Existing'
  BY KindsStay
<1>2. req[b] \in Requests => req[b] \in Requests'
  BY <1>1 DEF Requests
<1>3. pc[b] = "post" /\ req[b].item # None => req[b].item \in Existing
  BY DEF ShapeInv, Shape, Requests
<1>4. QED
  BY <1>1, <1>2, <1>3 DEF ShapeInv, Shape, Writing

\* The steps that write one item, or none.
LEMMA FactsTyped ==
    ASSUME ShapeInv, NEW x, NEW i, NEW facts \in SUBSET Facts, Change(x, i, facts)
    PROVE  changed' \in [Agents -> SUBSET Facts]
BY DEF ShapeInv, AgentTypes, Change

LEMMA AskKeepsShape ==
    ASSUME ShapeInv, NEW a \in Agents, NEW r \in Requests, Ask(a, r)
    PROVE  ShapeInv'
<1> USE DEF ShapeInv
<1>1. r \in Typed
  BY RequestsTyped
<1>2. UNCHANGED <<kind, owner, parent, stage, open, evidence>>
  BY DEF Ask, items
<1>3. ItemTypes' /\ Linked' /\ Blank' /\ Requests' = Requests
  BY <1>2 DEF ItemTypes, Linked, Blank, Requests, Existing, Exists
<1>4. AgentTypes'
  BY DEF Ask, Goto, AgentTypes
<1>5. ReqTypes'
  BY <1>1 DEF Ask, ReqTypes
<1>6. pc'[a] = "allowed" /\ req'[a] = r
  BY DEF Ask, Goto, AgentTypes, ReqTypes
<1>7. Shape(a)'
  BY <1>3, <1>6 DEF Shape, Writing
<1>8. \A b \in Agents : b # a => pc'[b] = pc[b] /\ req'[b] = req[b]
  BY DEF Ask, Goto, AgentTypes, ReqTypes
<1>9. [Next]_vars
  BY DEF Next
<1>10. \A b \in Agents : b # a => Shape(b)'
  BY <1>8, <1>9, ShapeKept
<1>11. QED
  BY <1>3, <1>4, <1>5, <1>7, <1>10

LEMMA RecheckKeepsShape ==
    ASSUME ShapeInv, NEW a \in Agents, Recheck(a)
    PROVE  ShapeInv'
<1> USE DEF ShapeInv
<1>1. UNCHANGED <<kind, owner, parent, stage, open, evidence>> /\ pc[a] = "allowed"
  BY DEF Recheck, items
<1>2. ItemTypes' /\ Linked' /\ Blank' /\ Requests' = Requests /\ Existing' = Existing
  BY <1>1 DEF ItemTypes, Linked, Blank, Requests, Existing, Exists
<1>3. req[a] \in Requests
  BY <1>1 DEF Shape
<1>4. CASE Allowed(req[a])
  <2>1. UNCHANGED req /\ pc' = [pc EXCEPT ![a] = FirstWrite(req[a].op)]
    BY <1>4 DEF Recheck, StillAllowed, Goto
  <2>2. req[a].op \in {"create", "route", "move", "done", "drop"}
    BY <1>3 DEF Requests
  <2>3. pc'[a] = FirstWrite(req[a].op)
    BY <2>1 DEF AgentTypes
  <2>4. FirstWrite(req[a].op) \in Writing
    BY <2>2, FirstWriteDef DEF Writing
  <2>5. AgentTypes' /\ ReqTypes'
    BY <2>1, <2>4 DEF Recheck, AgentTypes, ReqTypes, count
  <2>6. ASSUME req[a].op = "create"
       PROVE  Shape(a)'
    <3>1. pc'[a] = "post"
      BY <2>3, <2>6, FirstWriteDef
    <3>2. req[a].kind \in DeliveryKinds =>
            /\ (IF req[a].to = None THEN req[a].role ELSE req[a].to) \in DeliveryRoles
            /\ (IF req[a].item = None THEN None ELSE kind[req[a].item]) = RequiredParent[req[a].kind]
      <4> DEFINE pk == IF req[a].item = None THEN None ELSE kind[req[a].item]
      <4>1. /\ req[a].role \in DeliveryRoles \cup {"project-orchestrator"}
            /\ MayCreate(req[a].role, req[a].kind, pk, req[a].to)
        BY <1>4, <2>6, AllowedCreate
      <4> HIDE DEF pk
      <4>2. req[a].kind \in DeliveryKinds =>
              /\ (IF req[a].to = None THEN req[a].role ELSE req[a].to) \in DeliveryRoles
              /\ pk = RequiredParent[req[a].kind]
        BY <4>1, CreatedForDelivery
      <4>3. QED
        BY <4>2 DEF pk
    <3>3. QED
      BY <1>1, <1>2, <1>3, <2>1, <2>6, <3>1, <3>2 DEF Shape, Writing
  <2>7. ASSUME req[a].op = "route"
       PROVE  Shape(a)'
    <3>1. pc'[a] = "assign"
      BY <2>3, <2>7, FirstWriteDef
    <3>2. req[a].item \in Existing
      BY <1>3, <2>7 DEF Requests
    <3>3. req[a].to \in Roles /\ (kind[req[a].item] \in DeliveryKinds => req[a].to \in DeliveryRoles)
      BY <1>4, <2>7, AllowedRoute DEF MayRoute, DeliveryKinds
    <3>4. QED
      BY <1>1, <1>2, <2>1, <3>1, <3>2, <3>3 DEF Shape
  <2>8. ASSUME req[a].op = "move"
       PROVE  Shape(a)'
    <3>1. pc'[a] = "move"
      BY <2>3, <2>8, FirstWriteDef
    <3>2. req[a].item \in Existing /\ req[a].to \in MoveTargets
      BY <1>3, <2>8 DEF Requests
    <3>3. QED
      BY <1>2, <2>1, <3>1, <3>2 DEF Shape
  <2>9. ASSUME req[a].op \in {"done", "drop"}
       PROVE  Shape(a)'
    <3>1. pc'[a] = "column"
      BY <2>3, <2>9, FirstWriteDef
    <3>2. req[a].item \in Existing
      BY <1>3, <2>9 DEF Requests
    <3>3. QED
      BY <1>2, <2>1, <2>9, <3>1, <3>2 DEF Shape
  <2>10. Shape(a)'
    BY <2>2, <2>6, <2>7, <2>8, <2>9
  <2>11. \A b \in Agents : b # a => Shape(b)'
    BY <2>1, ShapeKept DEF Next, AgentTypes
  <2>12. QED
    BY <1>2, <2>5, <2>10, <2>11
<1>5. CASE ~Allowed(req[a])
  <2>1. Idle(a)
    BY <1>5 DEF Recheck, StillAllowed
  <2>2. AgentTypes'
    BY <2>1 DEF Idle, Goto, Recheck, AgentTypes, count
  <2>3. ReqTypes'
    BY <2>1 DEF Idle, ReqTypes, NoRequest, Typed
  <2>4. pc'[a] = "idle" /\ \A b \in Agents : b # a => pc'[b] = pc[b] /\ req'[b] = req[b]
    BY <2>1 DEF Idle, Goto, AgentTypes, ReqTypes
  <2>5. Shape(a)'
    BY <2>4 DEF Shape, Writing
  <2>6. \A b \in Agents : b # a => Shape(b)'
    BY <2>4, ShapeKept DEF Next
  <2>7. QED
    BY <1>2, <2>2, <2>3, <2>5, <2>6
<1>6. QED
  BY <1>4, <1>5

\* A request that ends leaves no request behind.
LEMMA IdleKeepsShape ==
    ASSUME ShapeInv, [Next]_vars, NEW a \in Agents, Idle(a)
    PROVE  /\ pc' \in [Agents -> Writing \cup {"idle", "allowed"}] /\ ReqTypes'
           /\ \A b \in Agents : Shape(b)'
<1> USE DEF ShapeInv
<1>1. pc' \in [Agents -> Writing \cup {"idle", "allowed"}]
  BY DEF Idle, Goto, AgentTypes
<1>2. ReqTypes'
  BY DEF Idle, ReqTypes, NoRequest, Typed
<1>3. pc'[a] = "idle" /\ \A b \in Agents : b # a => pc'[b] = pc[b] /\ req'[b] = req[b]
  BY DEF Idle, Goto, AgentTypes, ReqTypes
<1>4. Shape(a)'
  BY <1>3 DEF Shape, Writing
<1>5. \A b \in Agents : b # a => Shape(b)'
  BY <1>3, ShapeKept
<1>6. QED
  BY <1>1, <1>2, <1>4, <1>5

\* The other requests when a takes a step.
LEMMA OthersKeepShape ==
    ASSUME ShapeInv, [Next]_vars, NEW a, NEW label, Goto(a, label),
           \A b \in Agents : b # a => req'[b] = req[b]
    PROVE  \A b \in Agents : b # a => Shape(b)'
<1>1. \A b \in Agents : b # a => pc'[b] = pc[b]
  BY DEF Goto, ShapeInv, AgentTypes
<1>2. QED
  BY <1>1, ShapeKept

LEMMA PostKeepsShape ==
    ASSUME ShapeInv, NEW a \in Agents, NEW i \in Items, Post(a, i)
    PROVE  ShapeInv'
<1> USE DEF ShapeInv
<1>1. [Next]_vars
  BY DEF Next
<1>2. /\ req[a] \in Typed /\ req[a] \in Requests /\ req[a].op = "create" /\ kind[i] = "none"
      /\ req[a].kind \in CreateKinds /\ req[a].role \in Roles /\ req[a].to \in Roles \cup {None}
      /\ req[a].item \in Existing \cup {None}
  <2>1. pc[a] = "post" /\ kind[i] = "none"
    BY DEF Post, Exists
  <2>2. req[a] \in Typed /\ req[a] \in Requests /\ req[a].op = "create"
    BY <2>1 DEF Shape, ReqTypes
  <2>3. QED
    BY <2>1, <2>2 DEF Requests
<1>3. /\ kind' = [kind EXCEPT ![i] = req[a].kind] /\ open' = open \cup {i}
      /\ owner' = [owner EXCEPT ![i] = IF req[a].to = None THEN req[a].role ELSE req[a].to]
      /\ UNCHANGED <<parent, stage, evidence, changed, asked, human>>
  BY DEF Post, count
<1>4. \A j \in Existing : kind'[j] = kind[j] /\ j \in Existing' /\ j # i
  BY <1>1, <1>2, KindsStay DEF Existing, Exists
<1>5. kind'[i] = req[a].kind /\ i \in Existing' /\ req[a].kind \in Kinds
  BY <1>2, <1>3 DEF Existing, Exists, ItemTypes, Kinds
<1>6. kind' \in [Items -> Kinds \cup {"none"}]
  BY <1>3, <1>5 DEF ItemTypes
<1>7. owner' \in [Items -> Roles \cup {None}]
  BY <1>2, <1>3 DEF ItemTypes
<1>8. ItemTypes'
  BY <1>3, <1>4, <1>5, <1>6, <1>7 DEF ItemTypes
<1>9. \A j \in Items : j # i => kind'[j] = kind[j] /\ owner'[j] = owner[j]
  BY <1>3 DEF ItemTypes
<1>10. Blank'
  BY <1>3, <1>5, <1>9 DEF Blank, Kinds
<1>11. Linked'
  <2>1. SUFFICES ASSUME NEW j \in Items, parent[j] # None, kind'[j] \in DeliveryKinds
                 PROVE  kind'[parent[j]] = RequiredParent[kind'[j]]
    BY <1>3 DEF Linked
  <2>2. j # i
    BY <1>2, <2>1 DEF Blank
  <2>3. kind[parent[j]] = RequiredParent[kind[j]] /\ kind'[j] = kind[j]
    BY <1>9, <2>1, <2>2 DEF Linked
  <2>4. parent[j] \in Items /\ kind[parent[j]] # "none"
    BY <2>1, <2>3, RequiredParentIsKind DEF ItemTypes, Kinds
  <2>5. QED
    BY <1>4, <2>3, <2>4 DEF Existing, Exists
<1>12. AgentTypes'
  BY <1>3 DEF Post, Goto, AgentTypes, Writing
<1>13. CASE req[a].item = None
  <2>1. req' = [req EXCEPT ![a].item = i] /\ Goto(a, "board")
    BY <1>13 DEF Post
  <2>2. req'[a].item = i /\ req'[a] \in Typed
    BY <1>2, <2>1 DEF ReqTypes, Typed
  <2>3. ReqTypes'
    BY <2>1, <2>2 DEF ReqTypes
  <2>4. pc'[a] = "board"
    BY <2>1 DEF Goto, AgentTypes
  <2>5. Shape(a)'
    BY <1>5, <2>2, <2>4 DEF Shape
  <2>6. \A b \in Agents : b # a => Shape(b)'
    BY <1>1, <2>1, OthersKeepShape DEF ReqTypes
  <2>7. QED
    BY <1>8, <1>10, <1>11, <1>12, <2>3, <2>5, <2>6
<1>14. CASE req[a].item # None
  <2>1. req' = [req EXCEPT ![a].to = i] /\ Goto(a, "link")
    BY <1>14 DEF Post
  <2>2. req'[a].to = i /\ req'[a].item = req[a].item /\ req'[a] \in Typed
    BY <1>2, <2>1 DEF ReqTypes, Typed
  <2>3. ReqTypes'
    BY <2>1, <2>2 DEF ReqTypes
  <2>4. pc'[a] = "link" /\ pc[a] = "post"
    BY <2>1 DEF Goto, AgentTypes, Post
  <2>5. kind'[i] \in DeliveryKinds => kind'[req[a].item] = RequiredParent[kind'[i]]
    BY <1>2, <1>4, <1>5, <1>14, <2>4 DEF Shape
  <2>6. req[a].item \in Existing'
    BY <1>2, <1>4, <1>14
  <2>7. Shape(a)'
    BY <1>5, <2>2, <2>4, <2>5, <2>6 DEF Shape
  <2>8. \A b \in Agents : b # a => Shape(b)'
    BY <1>1, <2>1, OthersKeepShape DEF ReqTypes
  <2>9. QED
    BY <1>8, <1>10, <1>11, <1>12, <2>3, <2>7, <2>8
<1>15. QED
  BY <1>13, <1>14

LEMMA LinkKeepsShape ==
    ASSUME ShapeInv, NEW a \in Agents, Link(a)
    PROVE  ShapeInv'
<1> USE DEF ShapeInv
<1>1. [Next]_vars
  BY DEF Next
<1>2. /\ pc[a] = "link" /\ req[a] \in Typed /\ req[a].to \in Existing /\ req[a].item \in Existing
      /\ kind[req[a].to] \in DeliveryKinds => kind[req[a].item] = RequiredParent[kind[req[a].to]]
  BY DEF Link, Shape, Writing, ReqTypes
<1>3. /\ parent' = [parent EXCEPT ![req[a].to] = req[a].item]
      /\ UNCHANGED <<kind, owner, stage, open, evidence, asked, human>>
      /\ req' = [req EXCEPT ![a].item = req[a].to] /\ Goto(a, "board")
      /\ Change(a, req[a].item, {"children"})
  BY DEF Link, count
<1>4. Existing' = Existing /\ Existing \subseteq Items
  BY <1>3 DEF Existing, Exists
<1>5. ItemTypes'
  BY <1>2, <1>3, <1>4 DEF ItemTypes
<1>6. Linked'
  BY <1>2, <1>3, <1>4 DEF Linked, ItemTypes
<1>7. Blank'
  BY <1>2, <1>3 DEF Blank, ItemTypes, Existing, Exists
<1>8. changed' \in [Agents -> SUBSET Facts]
  BY <1>3, FactsTyped DEF Facts
<1>9. AgentTypes'
  BY <1>3, <1>8 DEF AgentTypes, Goto, Writing
<1>10. req'[a].item = req[a].to /\ req'[a] \in Typed
  BY <1>2, <1>3, <1>4 DEF ReqTypes, Typed
<1>11. ReqTypes'
  BY <1>3, <1>10 DEF ReqTypes
<1>12. pc'[a] = "board"
  BY <1>3 DEF Goto, AgentTypes
<1>13. Shape(a)'
  BY <1>2, <1>4, <1>10, <1>12 DEF Shape
<1>14. \A b \in Agents : b # a => Shape(b)'
  BY <1>1, <1>3, OthersKeepShape DEF ReqTypes
<1>15. QED
  BY <1>5, <1>6, <1>7, <1>9, <1>11, <1>13, <1>14

LEMMA LastWriteKeepsShape ==
    ASSUME ShapeInv, NEW a \in Agents, Move(a) \/ Assign(a) \/ Close(a) \/ Fail(a)
    PROVE  ShapeInv'
<1> USE DEF ShapeInv
<1>1. [Next]_vars
  BY DEF Next
<1>2. UNCHANGED <<kind, parent, asked, human>> /\ Idle(a)
  BY DEF Move, Assign, Close, Fail, items, count
<1>3. Existing' = Existing /\ Existing \subseteq Items
  BY <1>2 DEF Existing, Exists
<1>4. pc[a] \in Writing \ {"post"} => req[a].item \in Existing
  BY DEF Shape
<1>5. /\ ReqTypes' /\ pc' \in [Agents -> Writing \cup {"idle", "allowed"}]
      /\ \A b \in Agents : Shape(b)'
  BY <1>1, <1>2, IdleKeepsShape
<1>6. Linked'
  BY <1>2 DEF Linked
<1>7. changed' \in [Agents -> SUBSET Facts]
  <2>1. CASE Move(a) \/ Assign(a)
    BY <2>1, FactsTyped DEF Move, Assign, Facts
  <2>2. CASE Close(a) \/ Fail(a)
    BY <2>2 DEF Close, Fail, AgentTypes
  <2>3. QED
    BY <2>1, <2>2
<1>8. AgentTypes'
  BY <1>2, <1>5, <1>7 DEF AgentTypes
<1>9. ItemTypes' /\ Blank'
  <2>1. CASE Move(a)
    <3>1. (IF pc[a] = "board" THEN "Todo" ELSE req[a].to) \in Stages /\ req[a].item \in Existing
      <4>1. "Todo" \in Stages
        BY Zenon DEF Stages, STAGE_ORDER
      <4>2. QED
        BY <1>4, <2>1, <4>1 DEF Move, Shape, Writing
    <3>2. stage' \in [Items -> Stages \cup {None}] /\ UNCHANGED <<owner, open, evidence>>
      BY <2>1, <3>1 DEF Move, ItemTypes
    <3>3. ItemTypes'
      BY <1>2, <1>3, <3>2 DEF ItemTypes
    <3>4. QED
      BY <1>2, <2>1, <3>1, <3>2, <3>3 DEF Move, Blank, ItemTypes, Existing, Exists
  <2>2. CASE Assign(a)
    <3>1. req[a].to \in Roles /\ req[a].item \in Existing
      BY <1>4, <2>2 DEF Assign, Shape, Writing
    <3>2. owner' \in [Items -> Roles \cup {None}] /\ UNCHANGED <<stage, open, evidence>>
      BY <2>2, <3>1 DEF Assign, ItemTypes
    <3>3. QED
      BY <1>2, <1>3, <2>2, <3>1, <3>2 DEF Assign, Blank, ItemTypes, Existing, Exists
  <2>3. CASE Close(a)
    BY <1>2, <1>3, <2>3 DEF Close, ItemTypes, Blank
  <2>4. CASE Fail(a)
    BY <1>2, <1>3, <2>4 DEF Fail, items, ItemTypes, Blank
  <2>5. QED
    BY <2>1, <2>2, <2>3, <2>4
<1>10. QED
  BY <1>5, <1>6, <1>8, <1>9

LEMMA ColumnKeepsShape ==
    ASSUME ShapeInv, NEW a \in Agents, Column(a)
    PROVE  ShapeInv'
<1> USE DEF ShapeInv
<1>1. [Next]_vars
  BY DEF Next
<1>2. /\ UNCHANGED <<kind, owner, parent, open, evidence, req, asked, human>> /\ Goto(a, "close")
      /\ Change(a, req[a].item, {"stage"}) /\ pc[a] = "column"
  BY DEF Column, count
<1>3. Existing' = Existing /\ Existing \subseteq Items
  BY <1>2 DEF Existing, Exists
<1>4. req[a].item \in Existing /\ req[a].op \in {"done", "drop"}
  BY <1>2 DEF Shape, Writing
<1>5. "Done" \in Stages /\ "Dropped" \in Stages
  BY Zenon DEF Stages, TERMINAL_STAGES
<1>6. stage' \in [Items -> Stages \cup {None}]
  BY <1>5 DEF Column, ItemTypes
<1>7. ItemTypes' /\ Linked'
  BY <1>2, <1>3, <1>6 DEF ItemTypes, Linked
<1>8. Blank'
  BY <1>2, <1>4 DEF Column, Blank, ItemTypes, Existing, Exists
<1>9. changed' \in [Agents -> SUBSET Facts]
  BY <1>2, FactsTyped DEF Facts
<1>10. AgentTypes' /\ ReqTypes' /\ pc'[a] = "close"
  BY <1>2, <1>9 DEF AgentTypes, ReqTypes, Goto, Writing
<1>11. Shape(a)'
  BY <1>2, <1>3, <1>4, <1>10 DEF Shape
<1>12. \A b \in Agents : b # a => Shape(b)'
  BY <1>1, <1>2, OthersKeepShape
<1>13. QED
  BY <1>7, <1>8, <1>10, <1>11, <1>12

LEMMA HumanKeepsShape ==
    ASSUME ShapeInv, HumanStep
    PROVE  ShapeInv'
<1> USE DEF ShapeInv
<1>1. [Next]_vars
  BY StepKinds
<1>2. UNCHANGED <<kind, parent, pc, req, asked>> /\ human' \in 0..MaxHuman
  BY DEF HumanStep, HumanAssigns, HumanMoves, HumanReopens, HumanJudges, Intervene, AgentTypes
<1>3. Existing' = Existing
  BY <1>2 DEF Existing, Exists
<1>4. changed' \in [Agents -> SUBSET Facts]
  BY FactsTyped DEF HumanStep, HumanAssigns, HumanMoves, HumanReopens, HumanJudges, Facts
<1>5. AgentTypes' /\ ReqTypes' /\ Linked'
  BY <1>2, <1>4 DEF AgentTypes, ReqTypes, Linked
<1>6. \A b \in Agents : Shape(b)'
  BY <1>1, <1>2, ShapeKept
<1>7. ItemTypes' /\ Blank'
  <2>1. ASSUME NEW i \in Items, NEW r \in Roles, HumanAssigns(i, r)
        PROVE  ItemTypes' /\ Blank'
    BY <1>2, <1>3, <2>1 DEF HumanAssigns, ItemTypes, Blank, Exists
  <2>2. ASSUME NEW i \in Items, NEW to \in MoveTargets, HumanMoves(i, to)
        PROVE  ItemTypes' /\ Blank'
    BY <1>2, <1>3, <2>2 DEF HumanMoves, ItemTypes, Blank, Exists
  <2>3. ASSUME NEW i \in Items, HumanReopens(i) \/ HumanJudges(i)
        PROVE  ItemTypes' /\ Blank'
    BY <1>2, <1>3, <2>3 DEF HumanReopens, HumanJudges, ItemTypes, Blank, Existing, Exists
  <2>4. QED
    BY <2>1, <2>2, <2>3 DEF HumanStep
<1>8. QED
  BY <1>5, <1>6, <1>7

LEMMA ShapeNext == ShapeInv /\ [Next]_vars => ShapeInv'
<1> SUFFICES ASSUME ShapeInv, [Next]_vars
             PROVE  ShapeInv'
  OBVIOUS
<1>1. CASE UNCHANGED vars
  <2>1. UNCHANGED <<kind, owner, parent, stage, open, evidence, pc, req, changed, asked, human>>
    BY <1>1 DEF vars, items, count
  <2>2. \A b \in Agents : Shape(b)'
    BY <2>1, ShapeKept
  <2>3. QED
    BY <2>1, <2>2 DEF ShapeInv, ItemTypes, AgentTypes, ReqTypes, Linked, Blank, Existing, Exists
<1>2. QED
  BY <1>1, StepKinds, AskKeepsShape, RecheckKeepsShape, PostKeepsShape, LinkKeepsShape,
     LastWriteKeepsShape, ColumnKeepsShape, HumanKeepsShape DEF AgentStep

LEMMA ShapeInit == Init => ShapeInv
<1> SUFFICES ASSUME Init
             PROVE  ShapeInv
  OBVIOUS
<1>1. "Todo" \in Stages
  BY Zenon DEF Stages, STAGE_ORDER
<1>2. ItemTypes
  BY <1>1 DEF Init, ItemTypes, Existing, Exists
<1>3. AgentTypes /\ ReqTypes
  BY DEF Init, AgentTypes, ReqTypes, Typed, NoRequest
<1>4. Linked /\ Blank
  BY DEF Init, Linked, Blank, Exists
<1>5. \A a \in Agents : Shape(a)
  BY DEF Init, Shape, Writing
<1>6. QED
  BY <1>2, <1>3, <1>4, <1>5 DEF ShapeInv

\* Every field of an item keeps to its declared values, and a sub-issue hangs under a
\* parent of the kind that required_parent asks for, whatever requests race.
THEOREM TypeCorrectness == Spec => []TypeOK
<1>1. ShapeInv => TypeOK
  BY DeliveryKindsDef DEF ShapeInv, ItemTypes, AgentTypes, Linked, TypeOK, Existing
<1>2. QED
  BY <1>1, ShapeInit, ShapeNext, PTL DEF Spec

-----------------------------------------------------------------------------
(* Delivery work belongs to those who can finish it.                       *)

\* No race of creations, routes and the Human's assignments gives an epic, a feature or
\* a story to a role that authorize would not let deliver it.
THEOREM DeliveryOwners == Spec => []DeliveryWorkIsDeliverable
<1> DEFINE Inv == \A i \in Items : kind[i] \in DeliveryKinds /\ owner[i] # None => owner[i] \in DeliveryRoles
<1>1. Init => Inv
  BY DEF Init
<1>2. ShapeInv /\ Inv /\ [Next]_vars => Inv'
  <2> SUFFICES ASSUME ShapeInv, Inv, [Next]_vars
               PROVE  Inv'
    OBVIOUS
  <2>1. ASSUME NEW a \in Agents, NEW i \in Items, Post(a, i)
        PROVE  Inv'
    <3>1. /\ kind' = [kind EXCEPT ![i] = req[a].kind]
          /\ owner' = [owner EXCEPT ![i] = IF req[a].to = None THEN req[a].role ELSE req[a].to]
      BY <2>1 DEF Post
    <3>2. req[a].kind \in DeliveryKinds =>
            (IF req[a].to = None THEN req[a].role ELSE req[a].to) \in DeliveryRoles
      BY <2>1 DEF Post, ShapeInv, Shape
    <3>3. QED
      BY <3>1, <3>2 DEF ShapeInv, ItemTypes
  <2>2. ASSUME NEW a \in Agents, Assign(a)
        PROVE  Inv'
    <3>1. kind[req[a].item] \in DeliveryKinds => req[a].to \in DeliveryRoles
      BY <2>2 DEF Assign, ShapeInv, Shape
    <3>2. QED
      BY <2>2, <3>1 DEF Assign, ShapeInv, ItemTypes
  <2>3. ASSUME NEW i \in Items, NEW r \in Roles, HumanAssigns(i, r)
        PROVE  Inv'
    BY <2>3, DeliveryKindsDef DEF HumanAssigns, ShapeInv, ItemTypes
  <2>4. CASE UNCHANGED <<kind, owner>>
    BY <2>4
  <2>5. QED
    BY <2>1, <2>2, <2>3, <2>4 DEF Next, Ask, Recheck, Link, Move, Column, Close, Fail,
       HumanMoves, HumanReopens, HumanJudges, items, vars
<1>3. Inv => DeliveryWorkIsDeliverable
  BY DeliveryKindsDef DEF DeliveryWorkIsDeliverable
<1>4. QED
  BY <1>1, <1>2, <1>3, ShapeInit, ShapeNext, PTL DEF Spec

-----------------------------------------------------------------------------
(* What others change after a request's last check is in changed.          *)

\* The request learns nothing of the step, and its history of the step is complete.
Told(b) ==
    /\ changed[b] \subseteq changed'[b]
    /\ \A i \in Existing : Watching(b, i) =>
         /\ owner'[i] # owner[i] => "owner" \in changed'[b]
         /\ stage'[i] # stage[i] => "stage" \in changed'[b]
         /\ i \in evidence /\ i \notin evidence' => "evidence" \in changed'[b]
         /\ ~HasOpenChildren(i) /\ HasOpenChildren(i)' => "children" \in changed'[b]

LEMMA ChangeDef ==
    ASSUME NEW x, NEW i, NEW facts, Change(x, i, facts), NEW b \in Agents, b # x
    PROVE  /\ changed[b] \subseteq changed'[b]
           /\ Watching(b, i) => facts \subseteq changed'[b]
BY DEF Change

\* A request's own step takes it on; the other requests stay where they are.
LEMMA OwnStep ==
    ASSUME ShapeInv, NEW a \in Agents, AgentStep(a)
    PROVE  pc'[a] # pc[a] /\ \A b \in Agents : b # a => pc'[b] = pc[b] /\ req'[b] = req[b]
<1> USE DEF ShapeInv, AgentTypes, ReqTypes
<1>1. CASE \E r \in Requests : Ask(a, r)
  BY <1>1 DEF Ask, Goto
<1>2. CASE \E i \in Items : Post(a, i)
  BY <1>2 DEF Post, Goto
<1>3. CASE Recheck(a)
  <2>1. CASE StillAllowed(req[a])
    <3>1. req[a].op \in {"create", "route", "move", "done", "drop"}
      BY <1>3 DEF Recheck, Shape, Requests
    <3>2. FirstWrite(req[a].op) # "allowed"
      BY <3>1, FirstWriteDef
    <3>3. QED
      BY <1>3, <2>1, <3>2 DEF Recheck, Goto
  <2>2. CASE ~StillAllowed(req[a])
    BY <1>3, <2>2 DEF Recheck, Idle, Goto
  <2>3. QED
    BY <2>1, <2>2
<1>4. CASE Link(a) \/ Column(a)
  BY <1>4 DEF Link, Column, Goto
<1>5. CASE Move(a) \/ Assign(a) \/ Close(a) \/ Fail(a)
  BY <1>5 DEF Move, Assign, Close, Fail, Idle, Goto, Writing
<1>6. QED
  BY <1>1, <1>2, <1>3, <1>4, <1>5 DEF AgentStep

\* A request that goes on has taken the step itself.
LEMMA WhoMoved ==
    ASSUME ShapeInv, [Next]_vars, NEW b \in Agents, pc'[b] # pc[b]
    PROVE  AgentStep(b)
<1>1. ~HumanStep /\ ~UNCHANGED vars
  BY DEF HumanStep, HumanAssigns, HumanMoves, HumanReopens, HumanJudges, Intervene, vars
<1>2. PICK a \in Agents : AgentStep(a)
  BY <1>1, StepKinds
<1>3. a = b
  BY <1>2, OwnStep
<1>4. QED
  BY <1>2, <1>3

\* A step of another request.
LEMMA AgentTells ==
    ASSUME ShapeInv, NEW a \in Agents, AgentStep(a), NEW b \in Agents, b # a
    PROVE  Told(b)
<1> USE DEF ShapeInv, Told
<1>1. CASE \E r \in Requests : Ask(a, r)
  BY <1>1 DEF Ask, items, HasOpenChildren
<1>2. CASE Recheck(a)
  BY <1>2 DEF Recheck, items, HasOpenChildren, AgentTypes
<1>3. CASE Fail(a)
  BY <1>3 DEF Fail, items, HasOpenChildren
<1>4. ASSUME NEW i \in Items, Post(a, i)
      PROVE  Told(b)
  <2>1. kind[i] = "none" /\ UNCHANGED <<parent, stage, evidence, changed>> /\ open' = open \cup {i}
    BY <1>4 DEF Post, Exists
  <2>2. parent[i] = None
    BY <2>1 DEF Blank
  <2>3. \A j \in Existing : j # i /\ owner'[j] = owner[j] /\ j \in Items
    BY <1>4, <2>1 DEF Post, ItemTypes, Existing, Exists
  <2>4. \A j \in Existing : HasOpenChildren(j)' => HasOpenChildren(j)
    BY <2>1, <2>2, <2>3 DEF HasOpenChildren
  <2>5. QED
    BY <2>1, <2>3, <2>4
<1>5. CASE Link(a)
  <2>1. /\ parent' = [parent EXCEPT ![req[a].to] = req[a].item] /\ UNCHANGED <<owner, stage, open, evidence>>
        /\ Change(a, req[a].item, {"children"})
    BY <1>5 DEF Link
  <2>2. \A j \in Existing : HasOpenChildren(j)' /\ ~HasOpenChildren(j) => j = req[a].item
    BY <2>1 DEF HasOpenChildren, ItemTypes, Existing
  <2>3. QED
    BY <2>1, <2>2, ChangeDef
<1>6. CASE Move(a) \/ Column(a)
  <2>1. /\ UNCHANGED <<owner, open, parent, evidence>> /\ Change(a, req[a].item, {"stage"})
        /\ \A j \in Existing : j # req[a].item => stage'[j] = stage[j]
    BY <1>6 DEF Move, Column, ItemTypes, Existing
  <2>2. QED
    BY <2>1, ChangeDef DEF HasOpenChildren
<1>7. CASE Assign(a)
  <2>1. /\ UNCHANGED <<stage, open, parent, evidence>> /\ Change(a, req[a].item, {"owner"})
        /\ \A j \in Existing : j # req[a].item => owner'[j] = owner[j]
    BY <1>7 DEF Assign, ItemTypes, Existing
  <2>2. QED
    BY <2>1, ChangeDef DEF HasOpenChildren
<1>8. CASE Close(a)
  BY <1>8 DEF Close, HasOpenChildren
<1>9. QED
  BY <1>1, <1>2, <1>3, <1>4, <1>5, <1>6, <1>7, <1>8 DEF AgentStep

\* An intervention of the Human.
LEMMA HumanTells ==
    ASSUME ShapeInv, HumanStep, NEW b \in Agents
    PROVE  Told(b)
<1> USE DEF ShapeInv, Told
<1>1. b # None
  OBVIOUS
<1>2. ASSUME NEW i \in Items, NEW r \in Roles, HumanAssigns(i, r)
      PROVE  Told(b)
  <2>1. /\ UNCHANGED <<stage, open, parent, evidence>> /\ Change(None, i, {"owner"})
        /\ \A j \in Existing : j # i => owner'[j] = owner[j]
    BY <1>2 DEF HumanAssigns, ItemTypes, Existing
  <2>2. QED
    BY <1>1, <2>1, ChangeDef DEF HasOpenChildren
<1>3. ASSUME NEW i \in Items, NEW to \in MoveTargets, HumanMoves(i, to)
      PROVE  Told(b)
  <2>1. /\ UNCHANGED <<owner, open, parent, evidence>> /\ Change(None, i, {"stage"})
        /\ \A j \in Existing : j # i => stage'[j] = stage[j]
    BY <1>3 DEF HumanMoves, ItemTypes, Existing
  <2>2. QED
    BY <1>1, <2>1, ChangeDef DEF HasOpenChildren
<1>4. ASSUME NEW i \in Items, HumanReopens(i)
      PROVE  Told(b)
  <2>1. /\ UNCHANGED <<owner, stage, parent, evidence>> /\ Change(None, parent[i], {"children"})
        /\ open' = open \cup {i}
    BY <1>4 DEF HumanReopens
  <2>2. \A j \in Existing : HasOpenChildren(j)' /\ ~HasOpenChildren(j) => j = parent[i]
    BY <2>1 DEF HasOpenChildren
  <2>3. QED
    BY <1>1, <2>1, <2>2, ChangeDef
<1>5. ASSUME NEW i \in Items, HumanJudges(i)
      PROVE  Told(b)
  <2>1. /\ UNCHANGED <<owner, stage, open, parent>> /\ Change(None, i, {"evidence"})
        /\ evidence \ {i} \subseteq evidence'
    BY <1>5 DEF HumanJudges
  <2>2. QED
    BY <1>1, <2>1, ChangeDef DEF HasOpenChildren
<1>6. QED
  BY <1>2, <1>3, <1>4, <1>5 DEF HumanStep

LEMMA OthersAreTold ==
    ASSUME ShapeInv, [Next]_vars, NEW b \in Agents, pc'[b] = pc[b]
    PROVE  req'[b] = req[b] /\ Told(b)
<1>1. CASE UNCHANGED vars
  BY <1>1 DEF vars, items, Told, HasOpenChildren
<1>2. ASSUME NEW a \in Agents, AgentStep(a)
      PROVE  req'[b] = req[b] /\ Told(b)
  <2>1. b # a
    BY <1>2, OwnStep
  <2>2. QED
    BY <1>2, <2>1, OwnStep, AgentTells
<1>3. CASE HumanStep
  <2>1. UNCHANGED req
    BY <1>3 DEF HumanStep, HumanAssigns, HumanMoves, HumanReopens, HumanJudges, Intervene
  <2>2. QED
    BY <1>3, <2>1, HumanTells
<1>4. QED
  BY <1>1, <1>2, <1>3, StepKinds

-----------------------------------------------------------------------------
(* The answer of the last check stands, except for what others changed.    *)

\* The part of authorize's answer to a move that is about the stages.
Onward(from, to) ==
    /\ to \notin TERMINAL_STAGES
    /\ \/ to \in HOLDING_STAGES
       \/ from \in HOLDING_STAGES
       \/ {from, to} \subseteq DOMAIN STAGE_ORDER /\ STAGE_ORDER[to] >= STAGE_ORDER[from]

CheckedCreate(a) ==
    /\ pc[a] = "link"  => stage[req[a].to] = None \/ "stage" \in changed[a]
    /\ pc[a] = "board" => stage[req[a].item] = None \/ "stage" \in changed[a]

CheckedRoute(a) ==
    pc[a] = "assign" => owner[req[a].item] = None \/ "owner" \in changed[a]

CheckedMove(a) ==
    pc[a] = "move" => Onward(stage[req[a].item], req[a].to) \/ "stage" \in changed[a]

CheckedClose(a) ==
    /\ pc[a] \in {"column", "close"} =>
         /\ kind[req[a].item] \in {"story", "feature"}
         /\ owner[req[a].item] = req[a].role \/ "owner" \in changed[a]
         /\ ~HasOpenChildren(req[a].item) \/ "children" \in changed[a]
         /\ req[a].op = "drop" \/ req[a].item \in evidence \/ "evidence" \in changed[a]
    /\ pc[a] = "close" => stage[req[a].item] \in TERMINAL_STAGES \/ "stage" \in changed[a]

Checked(a) == CheckedCreate(a) /\ CheckedRoute(a) /\ CheckedMove(a) /\ CheckedClose(a)

CheckedInv == ShapeInv /\ \A a \in Agents : Checked(a)

\* A request that another's step leaves where it is.
LEMMA CheckedKept ==
    ASSUME CheckedInv, [Next]_vars, NEW b \in Agents, pc'[b] = pc[b]
    PROVE  Checked(b)'
<1>1. req'[b] = req[b] /\ Told(b)
  BY OthersAreTold DEF CheckedInv
<1>2. pc[b] \in Writing \ {"post"} => req[b].item \in Existing /\ Watching(b, req[b].item)
  BY DEF CheckedInv, ShapeInv, Shape, Watching
<1>3. pc[b] = "link" => req[b].to \in Existing /\ Watching(b, req[b].to)
  BY DEF CheckedInv, ShapeInv, Shape, Watching, Writing
<1>4. Checked(b)
  BY DEF CheckedInv
<1>5. CheckedCreate(b)'
  BY <1>1, <1>2, <1>3, <1>4 DEF Told, Checked, CheckedCreate, Writing
<1>6. CheckedRoute(b)'
  BY <1>1, <1>2, <1>4 DEF Told, Checked, CheckedRoute, Writing
<1>7. CheckedMove(b)'
  <2>1. pc[b] = "move" => stage'[req[b].item] = stage[req[b].item] \/ "stage" \in changed'[b]
    BY <1>1, <1>2 DEF Told, Writing
  <2>2. changed[b] \subseteq changed'[b] /\ CheckedMove(b)
    BY <1>1, <1>4 DEF Told, Checked
  <2>3. QED
    BY <1>1, <2>1, <2>2 DEF CheckedMove
<1>8. CheckedClose(b)'
  <2> SUFFICES ASSUME pc[b] \in {"column", "close"}
               PROVE  CheckedClose(b)'
    BY DEF CheckedClose
  <2>1. req[b].item \in Existing /\ Watching(b, req[b].item)
    BY <1>2 DEF Writing
  <2>2. kind'[req[b].item] = kind[req[b].item]
    BY <2>1, KindsStay DEF CheckedInv
  <2>3. CheckedClose(b)
    BY <1>4 DEF Checked
  <2> DEFINE i == req[b].item
  <2>4. /\ changed[b] \subseteq changed'[b]
        /\ owner'[i] # owner[i] => "owner" \in changed'[b]
        /\ stage'[i] # stage[i] => "stage" \in changed'[b]
        /\ i \in evidence /\ i \notin evidence' => "evidence" \in changed'[b]
        /\ ~HasOpenChildren(i) /\ HasOpenChildren(i)' => "children" \in changed'[b]
    BY <1>1, <2>1 DEF Told
  <2>5. HasOpenChildren(req[b].item)' <=> \E c \in open' : parent'[c] = req[b].item
    BY <1>1 DEF HasOpenChildren
  <2>6. QED
    BY <1>1, <2>2, <2>3, <2>4, <2>5 DEF CheckedClose, HasOpenChildren
<1>9. QED
  BY <1>5, <1>6, <1>7, <1>8 DEF Checked

\* The last check itself.
LEMMA RecheckChecks ==
    ASSUME CheckedInv, NEW a \in Agents, Recheck(a)
    PROVE  Checked(a)'
<1> USE DEF CheckedInv, ShapeInv
<1>1. UNCHANGED <<kind, owner, parent, stage, open, evidence>> /\ pc[a] = "allowed"
  BY DEF Recheck, items
<1>2. req[a] \in Requests
  BY <1>1 DEF Shape
<1>3. CASE ~Allowed(req[a])
  <2>1. pc'[a] = "idle"
    BY <1>3 DEF Recheck, StillAllowed, Idle, Goto, AgentTypes
  <2>2. QED
    BY <2>1 DEF Checked, CheckedCreate, CheckedRoute, CheckedMove, CheckedClose
<1>4. CASE Allowed(req[a])
  <2>1. UNCHANGED req /\ pc'[a] = FirstWrite(req[a].op)
    BY <1>4 DEF Recheck, StillAllowed, Goto, AgentTypes
  <2>2. req[a].op \in {"create", "route", "move", "done", "drop"}
    BY <1>2 DEF Requests
  <2>3. ASSUME req[a].op = "create"
        PROVE  Checked(a)'
    <3>1. pc'[a] = "post"
      BY <2>1, <2>3, FirstWriteDef
    <3>2. QED
      BY <3>1 DEF Checked, CheckedCreate, CheckedRoute, CheckedMove, CheckedClose
  <2>4. ASSUME req[a].op = "route"
        PROVE  Checked(a)'
    <3>1. pc'[a] = "assign"
      BY <2>1, <2>4, FirstWriteDef
    <3>2. owner'[req'[a].item] = None
      BY <1>1, <1>4, <2>1, <2>4, AllowedRoute DEF MayRoute
    <3>3. QED
      BY <3>1, <3>2 DEF Checked, CheckedCreate, CheckedRoute, CheckedMove, CheckedClose
  <2>5. ASSUME req[a].op = "move"
        PROVE  Checked(a)'
    <3>1. pc'[a] = "move"
      BY <2>1, <2>5, FirstWriteDef
    <3>2. Onward(stage[req[a].item], req[a].to)
      <4>1. MayMove(req[a].role, req[a].item, req[a].to)
        BY <1>4, <2>5, AllowedMove
      <4>2. QED
        BY <4>1, Zenon DEF MayMove, CurrentStage, Onward
    <3>3. Onward(stage'[req'[a].item], req'[a].to)
      BY <1>1, <2>1, <3>2
    <3>4. CheckedMove(a)'
      BY <3>3 DEF CheckedMove
    <3>5. QED
      BY <3>1, <3>4 DEF Checked, CheckedCreate, CheckedRoute, CheckedClose
  <2>6. ASSUME req[a].op \in {"done", "drop"}
        PROVE  Checked(a)'
    <3>1. pc'[a] = "column"
      BY <2>1, <2>6, FirstWriteDef
    <3>2. MayClose(req[a].role, req[a].item, req[a].op)
      BY <1>4, <2>6, AllowedClose
    <3>3. CheckedClose(a)'
      BY <1>1, <2>1, <2>6, <3>1, <3>2 DEF MayClose, EvidenceValid, CheckedClose, HasOpenChildren
    <3>4. QED
      BY <3>1, <3>3 DEF Checked, CheckedCreate, CheckedRoute, CheckedMove
  <2>7. QED
    BY <2>2, <2>3, <2>4, <2>5, <2>6
<1>5. QED
  BY <1>3, <1>4

LEMMA AgentKeepsChecked ==
    ASSUME CheckedInv, NEW a \in Agents, AgentStep(a)
    PROVE  Checked(a)'
<1> USE DEF CheckedInv, ShapeInv
<1> DEFINE Elsewhere == pc'[a] \notin {"link", "board", "assign", "move", "column", "close"}
<1>1. Elsewhere => Checked(a)'
  BY DEF Checked, CheckedCreate, CheckedRoute, CheckedMove, CheckedClose
<1>2. CASE \E r \in Requests : Ask(a, r)
  BY <1>1, <1>2 DEF Ask, Goto, AgentTypes
<1>3. CASE Recheck(a)
  BY <1>3, RecheckChecks
<1>4. CASE Move(a) \/ Assign(a) \/ Close(a) \/ Fail(a)
  <2>1. pc'[a] = "idle"
    BY <1>4 DEF Move, Assign, Close, Fail, Idle, Goto, AgentTypes
  <2>2. QED
    BY <1>1, <2>1
<1>5. ASSUME NEW i \in Items, Post(a, i)
      PROVE  Checked(a)'
  <2>1. kind[i] = "none" /\ UNCHANGED <<stage, changed>>
    BY <1>5 DEF Post, Exists
  <2>2. stage'[i] = None
    BY <2>1 DEF Blank
  <2>3. \/ pc'[a] = "board" /\ req'[a].item = i
        \/ pc'[a] = "link" /\ req'[a].to = i
    BY <1>5 DEF Post, Goto, AgentTypes, ReqTypes, Typed
  <2>4. QED
    BY <2>2, <2>3 DEF Checked, CheckedCreate, CheckedRoute, CheckedMove, CheckedClose
<1>6. CASE Link(a)
  <2>1. pc'[a] = "board" /\ req'[a].item = req[a].to /\ UNCHANGED stage /\ changed'[a] = changed[a]
    BY <1>6 DEF Link, Goto, Change, AgentTypes, ReqTypes, Typed
  <2>2. stage[req[a].to] = None \/ "stage" \in changed[a]
    BY <1>6 DEF Link, Checked, CheckedCreate
  <2>3. QED
    BY <2>1, <2>2 DEF Checked, CheckedCreate, CheckedRoute, CheckedMove, CheckedClose
<1>7. CASE Column(a)
  <2>1. /\ pc[a] = "column" /\ pc'[a] = "close" /\ UNCHANGED <<kind, owner, parent, open, evidence, req>>
        /\ changed'[a] = changed[a]
    BY <1>7 DEF Column, Goto, Change, AgentTypes
  <2>2. req[a].item \in Existing
    BY <2>1 DEF Shape, Writing
  <2>3. stage'[req[a].item] \in {"Done", "Dropped"}
    BY <1>7, <2>2 DEF Column, ItemTypes, Existing
  <2>4. CheckedClose(a)
    BY DEF Checked
  <2>5. CheckedClose(a)'
    BY <2>1, <2>3, <2>4 DEF CheckedClose, HasOpenChildren, TERMINAL_STAGES
  <2>6. QED
    BY <2>1, <2>5 DEF Checked, CheckedCreate, CheckedRoute, CheckedMove
<1>8. QED
  BY <1>2, <1>3, <1>4, <1>5, <1>6, <1>7 DEF AgentStep

LEMMA CheckedInvariance ==
    /\ Init => CheckedInv
    /\ CheckedInv /\ [Next]_vars => CheckedInv'
<1>1. Init => CheckedInv
  BY ShapeInit DEF Init, CheckedInv, Checked, CheckedCreate, CheckedRoute, CheckedMove, CheckedClose
<1>2. ASSUME CheckedInv, [Next]_vars
      PROVE  CheckedInv'
  <2>1. ShapeInv'
    BY <1>2, ShapeNext DEF CheckedInv
  <2>2. ASSUME NEW b \in Agents
        PROVE  Checked(b)'
    <3>1. CASE pc'[b] = pc[b]
      BY <1>2, <3>1, CheckedKept
    <3>2. CASE pc'[b] # pc[b]
      <4>1. AgentStep(b)
        BY <1>2, <3>2, WhoMoved DEF CheckedInv
      <4>2. QED
        BY <1>2, <4>1, AgentKeepsChecked
    <3>3. QED
      BY <3>1, <3>2
  <2>3. QED
    BY <2>1, <2>2 DEF CheckedInv
<1>3. QED
  BY <1>1, <1>2

\* No request replaces an owner that the item had when the request was last checked.
THEOREM OwnersAreKept == Spec => OwnerKept
<1>1. CheckedInv /\ [Next]_vars =>
        [\A i \in Items, a \in Agents : pc'[a] # pc[a] /\ owner[i] # None /\ owner'[i] # owner[i] =>
            "owner" \in changed[a]]_vars
  <2> SUFFICES ASSUME CheckedInv, [Next]_vars, NEW i \in Items, NEW a \in Agents,
                      pc'[a] # pc[a], owner[i] # None, owner'[i] # owner[i]
               PROVE  "owner" \in changed[a]
    OBVIOUS
  <2> USE DEF CheckedInv, ShapeInv
  <2>1. AgentStep(a)
    BY WhoMoved
  <2>2. ASSUME NEW j \in Items, Post(a, j)
        PROVE  FALSE
    <3>1. owner[j] = None
      BY <2>2 DEF Post, Exists, Blank
    <3>2. QED
      BY <2>2, <3>1 DEF Post, ItemTypes
  <2>3. Assign(a)
    BY <2>1, <2>2 DEF AgentStep, Ask, Recheck, Link, Move, Column, Close, Fail, items
  <2>4. i = req[a].item
    BY <2>3 DEF Assign, ItemTypes
  <2>5. QED
    BY <2>3, <2>4 DEF Assign, Checked, CheckedRoute
<1>2. QED
  BY <1>1, CheckedInvariance, PTL DEF Spec, OwnerKept

\* The rank of a terminal stage is above those of the flow.
LEMMA RankDef ==
    /\ \A st \in TERMINAL_STAGES : Rank(st) = 5
    /\ \A st \in DOMAIN STAGE_ORDER : Rank(st) = STAGE_ORDER[st] /\ Rank(st) \in 0..4
BY StageOrderDef DEF Rank

\* No request takes an item backward in the flow, or out of a terminal stage, from the
\* stage that the item had when the request was last checked.
THEOREM StagesGoForward == Spec => StageForward
<1>1. CheckedInv /\ [Next]_vars =>
        [\A i \in Items, a \in Agents :
           /\ pc'[a] # pc[a] /\ stage'[i] # stage[i]
           /\ {stage[i], stage'[i]} \cap (HOLDING_STAGES \cup {None}) = {}
           /\ Rank(stage'[i]) < Rank(stage[i])
           => "stage" \in changed[a]]_vars
  <2> SUFFICES ASSUME CheckedInv, [Next]_vars, NEW i \in Items, NEW a \in Agents,
                      pc'[a] # pc[a], stage'[i] # stage[i],
                      {stage[i], stage'[i]} \cap (HOLDING_STAGES \cup {None}) = {},
                      Rank(stage'[i]) < Rank(stage[i])
               PROVE  "stage" \in changed[a]
    OBVIOUS
  <2> USE DEF CheckedInv, ShapeInv
  <2>1. AgentStep(a)
    BY WhoMoved
  <2>2. stage[i] \notin HOLDING_STAGES /\ stage'[i] \notin HOLDING_STAGES /\ stage[i] # None
    OBVIOUS
  <2>3. Move(a) \/ Column(a)
    BY <2>1 DEF AgentStep, Ask, Recheck, Post, Link, Assign, Close, Fail, items
  <2>4. i = req[a].item
    BY <2>3 DEF Move, Column, ItemTypes
  <2>5. Rank(stage[i]) \in 0..5
    <3>1. stage[i] \in DOMAIN STAGE_ORDER \/ stage[i] \in TERMINAL_STAGES
      BY <2>2 DEF ItemTypes, Stages
    <3>2. QED
      BY <3>1, RankDef
  <2>6. CASE Column(a)
    <3>1. stage'[i] \in TERMINAL_STAGES
      BY <2>4, <2>6 DEF Column, ItemTypes, TERMINAL_STAGES
    <3>2. QED
      BY <2>5, <3>1, RankDef
  <2>7. CASE Move(a) /\ pc[a] = "board"
    BY <2>2, <2>4, <2>7 DEF Checked, CheckedCreate
  <2>8. CASE Move(a) /\ pc[a] = "move"
    <3>1. stage'[i] = req[a].to
      BY <2>4, <2>8 DEF Move, ItemTypes
    <3>2. Onward(stage[i], req[a].to) \/ "stage" \in changed[a]
      BY <2>4, <2>8 DEF Checked, CheckedMove
    <3>3. Onward(stage[i], req[a].to) =>
            /\ stage[i] \in DOMAIN STAGE_ORDER /\ stage'[i] \in DOMAIN STAGE_ORDER
            /\ STAGE_ORDER[stage'[i]] >= STAGE_ORDER[stage[i]]
      BY <2>2, <3>1 DEF Onward
    <3>4. QED
      BY <3>2, <3>3, RankDef
  <2>9. QED
    BY <2>3, <2>6, <2>7, <2>8 DEF Move
<1>2. QED
  BY <1>1, CheckedInvariance, PTL DEF Spec, StageForward

\* What an agent closes is a story or a feature of its own, in a terminal stage, without
\* an open child and with evidence if done, by the facts of the request's last check.
THEOREM ClosureHasEvidence == Spec => ClosedWithEvidence
<1>1. CheckedInv /\ [Next]_vars =>
        [\A i \in open, a \in Agents : pc'[a] # pc[a] /\ i \notin open' =>
           /\ kind[i] \in {"story", "feature"}
           /\ owner[i] = req[a].role \/ "owner" \in changed[a]
           /\ stage[i] \in TERMINAL_STAGES \/ "stage" \in changed[a]
           /\ ~HasOpenChildren(i) \/ "children" \in changed[a]
           /\ req[a].op = "drop" \/ i \in evidence \/ "evidence" \in changed[a]]_vars
  <2> SUFFICES ASSUME CheckedInv, [Next]_vars, NEW i \in open, NEW a \in Agents,
                      pc'[a] # pc[a], i \notin open'
               PROVE  /\ kind[i] \in {"story", "feature"}
                      /\ owner[i] = req[a].role \/ "owner" \in changed[a]
                      /\ stage[i] \in TERMINAL_STAGES \/ "stage" \in changed[a]
                      /\ ~HasOpenChildren(i) \/ "children" \in changed[a]
                      /\ req[a].op = "drop" \/ i \in evidence \/ "evidence" \in changed[a]
    OBVIOUS
  <2>1. AgentStep(a)
    BY WhoMoved DEF CheckedInv
  <2>2. Close(a)
    BY <2>1 DEF AgentStep, Ask, Recheck, Post, Link, Move, Assign, Column, Fail, items
  <2>3. i = req[a].item /\ pc[a] = "close"
    BY <2>2 DEF Close
  <2>4. CheckedClose(a)
    BY DEF CheckedInv, Checked
  <2>5. QED
    BY <2>3, <2>4 DEF CheckedClose
<1>2. QED
  BY <1>1, CheckedInvariance, PTL DEF Spec, ClosedWithEvidence

=============================================================================
