------------------------------ MODULE WorkItems ------------------------------
(***************************************************************************)
(* Work items on GitHub and the agents' typed requests about them.  A      *)
(* request is authorized from facts read from GitHub, authorized again     *)
(* from facts read anew just before its first write, and then carried out  *)
(* by several calls, while the other roles' requests, the late thread of a *)
(* stopped wake and the Human Principal change the same items.             *)
(*                                                                         *)
(* The journal around a request is in module BrokerJournal.  Texts,        *)
(* comments and reads are left out; evidence is whether _evidence finds a  *)
(* related merged pull request or an accepted demo of the current          *)
(* acceptance lines.  The organization has a Project for the stages.       *)
(***************************************************************************)
EXTENDS Naturals, FiniteSets

CONSTANTS
    Items,       \* issues of the org repository
    Agents,      \* requests being handled at the same time
    Roles,       \* the policy's roles
    CreateKinds, \* the kinds that requests create
    MoveTargets, \* the stages that requests and the Human move items to
    Populations, \* the kinds of the items that the Human has created
    MaxRequests, \* bound on the requests that are authorized
    MaxHuman,    \* bound on the Human's interventions
    None         \* no owner, no parent, no target

ASSUME WorkItemsAssumption ==
    {MaxRequests, MaxHuman} \subseteq Nat /\ None \notin Items \cup Roles \cup Agents

DeliveryRoles == {"commercial-planner", "software-implementer", "policy-reviewer"}
Kinds == {"objective", "proposal", "epic", "feature", "story"}

STAGE_ORDER == [st \in {"Todo", "In Progress", "Awaiting Merge", "Demo", "Awaiting Deploy"} |->
                  CASE st = "Todo" -> 0
                    [] st = "In Progress" -> 1
                    [] st = "Awaiting Merge" -> 2
                    [] st = "Demo" -> 3
                    [] st = "Awaiting Deploy" -> 4]
HOLDING_STAGES  == {"Blocked", "On Hold"}
TERMINAL_STAGES == {"Done", "Dropped"}
Stages == DOMAIN STAGE_ORDER \cup HOLDING_STAGES \cup TERMINAL_STAGES

ASSUME WorkItemsVocabulary ==
    /\ CreateKinds \subseteq Kinds /\ MoveTargets \subseteq Stages
    /\ Populations \subseteq [Items -> Kinds \cup {"none"}]

\* required_parent.
RequiredParent == [k \in {"epic", "feature", "story"} |->
                     CASE k = "epic" -> "objective"
                       [] k = "feature" -> "epic"
                       [] k = "story" -> "feature"]

VARIABLES
    kind,     \* kind[i]: the kind label, "none" without an issue
    owner,    \* owner[i]: owner_role of the issue's metadata
    parent,   \* parent[i]: the issue it is a sub-issue of
    stage,    \* stage[i]: its Status in the Project
    open,     \* the open issues
    evidence, \* the issues with valid evidence
    pc,       \* pc[a]: where the request is
    req,      \* req[a]: the request
    changed,  \* changed[a]: the facts others changed since its last check (history)
    asked,    \* how many requests have been authorized
    human     \* how often the Human has intervened

items == <<kind, owner, parent, stage, open, evidence>>
count == <<asked, human>>
vars  == <<items, pc, req, changed, count>>

Facts == {"owner", "stage", "children", "evidence"}
Writing == {"post", "link", "board", "assign", "move", "column", "close"}
NoRequest == [op |-> "none", role |-> None, item |-> None, to |-> None, kind |-> "none"]
Exists(i) == kind[i] # "none"

TypeOK ==
    /\ kind \in [Items -> Kinds \cup {"none"}]
    /\ owner \in [Items -> Roles \cup {None}]
    /\ parent \in [Items -> Items \cup {None}]
    /\ stage \in [Items -> Stages \cup {None}]
    /\ open \subseteq {i \in Items : Exists(i)}
    /\ evidence \subseteq {i \in Items : Exists(i)}
    /\ pc \in [Agents -> Writing \cup {"idle", "allowed"}]
    /\ changed \in [Agents -> SUBSET Facts]
    /\ asked \in 0..MaxRequests /\ human \in 0..MaxHuman
    /\ \A i \in Items : parent[i] # None /\ kind[i] \in DOMAIN RequiredParent =>
         kind[parent[i]] = RequiredParent[kind[i]]

\* What the Human created has no owner yet, and may have evidence; its parent is not
\* among the items.
Init ==
    /\ kind \in Populations
    /\ owner = [i \in Items |-> None]
    /\ parent = [i \in Items |-> None]
    /\ stage = [i \in Items |-> IF Exists(i) THEN "Todo" ELSE None]
    /\ open = {i \in Items : Exists(i)} /\ evidence \in SUBSET open
    /\ pc = [a \in Agents |-> "idle"]
    /\ req = [a \in Agents |-> NoRequest]
    /\ changed = [a \in Agents |-> {}]
    /\ asked = 0 /\ human = 0

-----------------------------------------------------------------------------
(* authorize.                                                              *)

\* ROLE_CAPABILITIES, for the operations that change an item.
Capable(role, op) ==
    CASE op = "create" -> role \in DeliveryRoles \cup {"project-orchestrator"}
      [] op = "route"  -> role \in {"project-orchestrator", "governance-reviewer"}
      [] OTHER         -> role \in DeliveryRoles

\* Variant: the coordinator may keep what it creates.
MayCreateKept(role, k, parentKind, target) ==
    /\ k \in IF role = "project-orchestrator" THEN {"epic", "proposal"}
                                             ELSE {"feature", "story", "proposal"}
    /\ k \in DOMAIN RequiredParent => parentKind = RequiredParent[k]
    /\ target # None => role = "project-orchestrator" /\ target \in Roles \cap DeliveryRoles

\* Variant: the parent is not looked at.
MayCreateAnywhere(role, k, parentKind, target) ==
    /\ k \in IF role = "project-orchestrator" THEN {"epic", "proposal"}
                                             ELSE {"feature", "story", "proposal"}
    /\ role = "project-orchestrator" /\ k # "proposal" => target # None
    /\ target # None => role = "project-orchestrator" /\ target \in Roles \cap DeliveryRoles

\* pm.issue.create, of kind k under a parent of parentKind, for target.
MayCreate(role, k, parentKind, target) ==
    /\ k \in IF role = "project-orchestrator" THEN {"epic", "proposal"}
                                             ELSE {"feature", "story", "proposal"}
    /\ k \in DOMAIN RequiredParent => parentKind = RequiredParent[k]
    /\ role = "project-orchestrator" /\ k # "proposal" => target # None
    /\ target # None => role = "project-orchestrator" /\ target \in Roles \cap DeliveryRoles

\* pm.issue.route.
MayRoute(i, target) ==
    /\ target \in Roles
    /\ target \in IF kind[i] = "objective" THEN {"project-orchestrator"} ELSE DeliveryRoles
    /\ owner[i] = None

\* _stage: the item's column, which is read anew for every move.
CurrentStage(i) == stage[i]

\* Variant: no stage is behind another.
MayMoveAnywhere(role, i, to) ==
    owner[i] = role /\ to \notin TERMINAL_STAGES

\* pm.issue.move.
MayMove(role, i, to) ==
    /\ owner[i] = role /\ role # "project-orchestrator"
    /\ to \notin TERMINAL_STAGES
    /\ \/ to \in HOLDING_STAGES
       \/ CurrentStage(i) \in HOLDING_STAGES /\ to \in DOMAIN STAGE_ORDER
       \/ /\ {CurrentStage(i), to} \subseteq DOMAIN STAGE_ORDER
          /\ STAGE_ORDER[to] >= STAGE_ORDER[CurrentStage(i)]

HasOpenChildren(i) == \E c \in open : parent[c] = i

\* _evidence.
EvidenceValid(i) == i \in evidence

\* Variant: children that were not listed are not there.
MayCloseUnlisted(role, i, how) ==
    /\ owner[i] = role /\ kind[i] \in {"story", "feature"}
    /\ how = "done" => i \in evidence

\* pm.issue.done and pm.issue.drop.
MayClose(role, i, how) ==
    /\ owner[i] = role /\ role # "project-orchestrator"
    /\ kind[i] \in {"story", "feature"}
    /\ ~HasOpenChildren(i)
    /\ how = "done" => EvidenceValid(i)

\* A request's item is its parent-to-be when it creates one.
Allowed(r) ==
    /\ Capable(r.role, r.op)
    /\ CASE r.op = "create" ->
              MayCreate(r.role, r.kind, IF r.item = None THEN None ELSE kind[r.item], r.to)
         [] r.op = "route" -> MayRoute(r.item, r.to)
         [] r.op = "move"  -> MayMove(r.role, r.item, r.to)
         [] OTHER          -> MayClose(r.role, r.item, r.op)

-----------------------------------------------------------------------------
(* A request.                                                              *)

Existing == {i \in Items : Exists(i)}

Requests ==
    [op : {"create"}, role : Roles, item : Existing \cup {None}, to : Roles \cup {None}, kind : CreateKinds]
    \cup [op : {"route"}, role : Roles, item : Existing, to : Roles, kind : {"none"}]
    \cup [op : {"move"}, role : Roles, item : Existing, to : MoveTargets, kind : {"none"}]
    \cup [op : {"done", "drop"}, role : Roles, item : Existing, to : {None}, kind : {"none"}]

Goto(a, label) == pc' = [pc EXCEPT ![a] = label]

\* Request b is past its last check and is about item i.
Watching(b, i) ==
    /\ pc[b] \in Writing
    /\ i = req[b].item \/ (pc[b] = "link" /\ i = req[b].to)

\* x changes facts of item i, and the other requests do not learn of it.
Change(x, i, facts) ==
    changed' = [b \in Agents |-> IF b # x /\ Watching(b, i) THEN changed[b] \cup facts
                                                           ELSE changed[b]]

\* The broker: validate_request, facts, authorize.
Ask(a, r) ==
    /\ pc[a] = "idle" /\ asked < MaxRequests
    /\ Allowed(r)
    /\ asked' = asked + 1
    /\ req' = [req EXCEPT ![a] = r]
    /\ Goto(a, "allowed")
    /\ UNCHANGED <<items, changed, human>>

FirstWrite(op) ==
    CASE op = "create" -> "post"
      [] op = "route"  -> "assign"
      [] op = "move"   -> "move"
      [] OTHER         -> "column"

\* Variant: the broker's authorization stands.
StillAllowedOnce(r) == TRUE

\* Facts are read and judged anew.
StillAllowed(r) == Allowed(r)

\* The request is over.
Idle(a) ==
    /\ req' = [req EXCEPT ![a] = NoRequest]
    /\ Goto(a, "idle")

\* ControlBackend.execute.
Recheck(a) ==
    /\ pc[a] = "allowed"
    /\ changed' = [changed EXCEPT ![a] = {}]
    /\ IF StillAllowed(req[a])
       THEN Goto(a, FirstWrite(req[a].op)) /\ UNCHANGED req
       ELSE Idle(a)
    /\ UNCHANGED <<items, count>>

\* pm.issue.create: the issue, with its labels and metadata, belongs to its target or
\* to whoever creates it.
Post(a, i) ==
    /\ pc[a] = "post" /\ ~Exists(i)
    /\ kind' = [kind EXCEPT ![i] = req[a].kind]
    /\ owner' = [owner EXCEPT ![i] = IF req[a].to = None THEN req[a].role ELSE req[a].to]
    /\ open' = open \cup {i}
    /\ IF req[a].item = None
       THEN /\ Goto(a, "board")
            /\ req' = [req EXCEPT ![a].item = i]
       ELSE /\ Goto(a, "link")
            /\ req' = [req EXCEPT ![a].to = i]
    /\ UNCHANGED <<parent, stage, evidence, changed, count>>

\* The sub-issue.  The request's item is then the new one.
Link(a) ==
    /\ pc[a] = "link"
    /\ parent' = [parent EXCEPT ![req[a].to] = req[a].item]
    /\ req' = [req EXCEPT ![a].item = req[a].to]
    /\ Change(a, req[a].item, {"children"})
    /\ Goto(a, "board")
    /\ UNCHANGED <<kind, owner, stage, open, evidence, count>>

\* _move, the only write of pm.issue.move and the last of pm.issue.create.
Move(a) ==
    /\ pc[a] \in {"board", "move"}
    /\ stage' = [stage EXCEPT ![req[a].item] = IF pc[a] = "board" THEN "Todo" ELSE req[a].to]
    /\ Change(a, req[a].item, {"stage"})
    /\ Idle(a)
    /\ UNCHANGED <<kind, owner, parent, open, evidence, count>>

\* The PATCH of pm.issue.route.
Assign(a) ==
    /\ pc[a] = "assign"
    /\ owner' = [owner EXCEPT ![req[a].item] = req[a].to]
    /\ Change(a, req[a].item, {"owner"})
    /\ Idle(a)
    /\ UNCHANGED <<kind, parent, stage, open, evidence, count>>

\* pm.issue.done and pm.issue.drop: a comment, the column of the board,
Column(a) ==
    /\ pc[a] = "column"
    /\ stage' = [stage EXCEPT ![req[a].item] = IF req[a].op = "done" THEN "Done" ELSE "Dropped"]
    /\ Change(a, req[a].item, {"stage"})
    /\ Goto(a, "close")
    /\ UNCHANGED <<kind, owner, parent, open, evidence, req, count>>

\* and the issue.
Close(a) ==
    /\ pc[a] = "close"
    /\ open' = open \ {req[a].item}
    /\ Idle(a)
    /\ UNCHANGED <<kind, owner, parent, stage, evidence, changed, count>>

\* A call fails, or the wake is lost: what has been written stays.
Fail(a) ==
    /\ pc[a] \in Writing
    /\ Idle(a)
    /\ UNCHANGED <<items, changed, count>>

-----------------------------------------------------------------------------
(* The Human Principal, on GitHub.                                         *)

Intervene == human < MaxHuman /\ human' = human + 1 /\ UNCHANGED <<pc, req, asked>>

HumanAssigns(i, r) ==
    /\ Intervene /\ Exists(i) /\ owner[i] # r
    /\ kind[i] \in DOMAIN RequiredParent => r \in DeliveryRoles
    /\ owner' = [owner EXCEPT ![i] = r]
    /\ Change(None, i, {"owner"})
    /\ UNCHANGED <<kind, parent, stage, open, evidence>>

HumanMoves(i, to) ==
    /\ Intervene /\ Exists(i)
    /\ stage' = [stage EXCEPT ![i] = to]
    /\ Change(None, i, {"stage"})
    /\ UNCHANGED <<kind, owner, parent, open, evidence>>

HumanReopens(i) ==
    /\ Intervene /\ Exists(i) /\ i \notin open
    /\ open' = open \cup {i}
    /\ Change(None, parent[i], {"children"})
    /\ UNCHANGED <<kind, owner, parent, stage, evidence>>

\* A pull request is merged or a demo accepted; or the acceptance lines are edited.
HumanJudges(i) ==
    /\ Intervene /\ Exists(i)
    /\ evidence' = IF i \in evidence THEN evidence \ {i} ELSE evidence \cup {i}
    /\ Change(None, i, {"evidence"})
    /\ UNCHANGED <<kind, owner, parent, stage, open>>

Next ==
    \/ \E a \in Agents :
         \/ \E r \in Requests : Ask(a, r)
         \/ \E i \in Items : Post(a, i)
         \/ Recheck(a) \/ Link(a) \/ Move(a) \/ Assign(a)
         \/ Column(a) \/ Close(a) \/ Fail(a)
    \/ \E i \in Items :
         \/ \E r \in Roles : HumanAssigns(i, r)
         \/ \E to \in MoveTargets : HumanMoves(i, to)
         \/ HumanReopens(i) \/ HumanJudges(i)

Spec == Init /\ [][Next]_vars

-----------------------------------------------------------------------------
(* Properties.                                                             *)

(***************************************************************************)
(* A coordinator or a reviewer never comes to own delivery work it could   *)
(* not finish, through creations, routes and their races (patterns.md,     *)
(* "Ownership theft"; authorize, pm.issue.create and pm.issue.route).      *)
(***************************************************************************)
DeliveryWorkIsDeliverable ==
    \A i \in Items : kind[i] \in DOMAIN RequiredParent /\ owner[i] # None =>
        owner[i] \in DeliveryRoles

(***************************************************************************)
(* A request replaces an owner only if the item got that owner after the   *)
(* request's last check, whatever happened between its two checks          *)
(* (ControlBackend.execute; authorize, "cannot replace an owner").         *)
(***************************************************************************)
OwnerKept ==
    [][\A i \in Items, a \in Agents :
         pc'[a] # pc[a] /\ owner[i] # None /\ owner'[i] # owner[i] =>
            "owner" \in changed[a]]_vars

Rank(st) == IF st \in TERMINAL_STAGES THEN 5 ELSE STAGE_ORDER[st]

(***************************************************************************)
(* A request takes an item from a stage of the flow, or out of a terminal  *)
(* one, to an earlier stage only if the stage changed after the request's  *)
(* last check (authorize, "backward movement requires Human                *)
(* intervention").  A holding stage has no place in the flow.              *)
(***************************************************************************)
StageForward ==
    [][\A i \in Items, a \in Agents :
         /\ pc'[a] # pc[a] /\ stage'[i] # stage[i]
         /\ {stage[i], stage'[i]} \cap (HOLDING_STAGES \cup {None}) = {}
         /\ Rank(stage'[i]) < Rank(stage[i])
         => "stage" \in changed[a]]_vars

(***************************************************************************)
(* An agent closes only a story or a feature, of its own, that stands in a *)
(* terminal stage, has no open child and, if it is done, has valid         *)
(* evidence, except for what others changed after the request's last check *)
(* (patterns.md, "Closure without evidence"; github_backend.execute).      *)
(***************************************************************************)
ClosedWithEvidence ==
    [][\A i \in open, a \in Agents : pc'[a] # pc[a] /\ i \notin open' =>
         /\ kind[i] \in {"story", "feature"}
         /\ owner[i] = req[a].role \/ "owner" \in changed[a]
         /\ stage[i] \in TERMINAL_STAGES \/ "stage" \in changed[a]
         /\ ~HasOpenChildren(i) \/ "children" \in changed[a]
         /\ req[a].op = "drop" \/ i \in evidence \/ "evidence" \in changed[a]]_vars

=============================================================================
