--------------------- MODULE GovernanceReconcile_proofs ---------------------
(***************************************************************************)
(* Proofs about GovernanceReconcile, for any number of syncs, sources'     *)
(* texts and issues, and under every mode: its types, that a settled row   *)
(* of reconcile_operation stays as it is, that one text leads to one       *)
(* issue, and that one undisturbed sync is enough.                         *)
(***************************************************************************)
EXTENDS GovernanceReconcile, FiniteSetTheorems, TLAPS

\* Where a sync has claimed the row of its write and not yet recorded the outcome.
Calls   == {"get", "post", "reopen", "link", "close"}
Writing == Calls \cup {"record"}
Planned == {"reserve", "mark"} \cup Writing

\* An issue that exists has a version.
Dated == \A i \in Issues : issue[i] # "none" => ver[i] # 0

\* So has every issue of an observation that a plan is made from.
SeenDated ==
    \A s \in Syncers : pc[s] = "children" =>
        /\ seen[s].text \in Texts
        /\ \A i \in seen[s].found : seen[s].ver[i] # 0

\* A sync that is about to write has a key, and an issue where the write needs one.
Aimed ==
    \A s \in Syncers :
        /\ pc[s] \in Planned => act[s] \in Keys
        /\ pc[s] \in {"get", "reopen", "link", "close"} => target[s] \in Issues

\* The row of a write being made is "applying", and belongs to one sync.
Owned ==
    /\ \A s \in Syncers : pc[s] \in Writing => rows[act[s]] = "applying"
    /\ \A s, t \in Syncers :
         pc[s] \in Writing /\ pc[t] \in Writing /\ act[s] = act[t] => s = t

\* What a sync verifies is past its write: in doubt still, or settled by another sync.
Past == {"verify_pending", "succeeded", "dead_letter"}
PastWrite ==
    \A s \in Syncers :
        /\ \A k \in todo[s] : rows[k] \in Past
        /\ pc[s] = "resolve" => look[s].key \in Keys /\ rows[look[s].key] \in Past

\* The inductive invariant.
ReconcileInv == TypeOK /\ Dated /\ SeenDated /\ Aimed /\ Owned /\ PastWrite

\* What SettledStays says of one step.
KeepsSettled ==
    \A k \in Keys : rows[k] \in {"succeeded", "dead_letter"} => rows'[k] = rows[k]

-----------------------------------------------------------------------------
(* Operators.                                                              *)

\* Leave changes the sync's own variables only, and types are kept.
LEMMA LeaveTyped ==
    ASSUME TypeOK, NEW s \in Syncers, Leave(s)
    PROVE  /\ pc' = [pc EXCEPT ![s] = "idle"]
           /\ act' = [act EXCEPT ![s] = NoKey]
           /\ todo' = [todo EXCEPT ![s] = {}]
           /\ pc' \in [Syncers -> Labels]
           /\ todo' \in [Syncers -> SUBSET Keys]
           /\ look' \in [Syncers -> Looks]
           /\ seen' \in [Syncers -> Observations]
           /\ act' \in [Syncers -> Keys \cup {NoKey}]
           /\ target' \in [Syncers -> Issues \cup {Nobody}]
  <1>1. Unseen \in Observations
    BY ReconcileNumbersAssumption DEF Unseen, Observations
  <1>2. NoLook \in Looks
    BY DEF NoLook, Looks
  <1>3. /\ seen' = [seen EXCEPT ![s] = Unseen]
        /\ look' = [look EXCEPT ![s] = NoLook]
        /\ target' = [target EXCEPT ![s] = Nobody]
        /\ act' = [act EXCEPT ![s] = NoKey]
        /\ todo' = [todo EXCEPT ![s] = {}]
        /\ pc' = [pc EXCEPT ![s] = "idle"]
    BY DEF Leave, Goto
  <1> QED  BY <1>1, <1>2, <1>3 DEF TypeOK, Labels

\* A plan made from an observation of dated issues is a key, or nothing.
LEMMA PlanIsKey ==
    ASSUME NEW o \in [wanted : BOOLEAN, text : Texts, found : SUBSET Issues,
                      open : SUBSET Issues, ver : [Issues -> 0..MaxVer]],
           \A i \in o.found : o.ver[i] # 0,
           NEW kids
    PROVE  Plan(o, kids) \in Keys \cup {NoKey}
  <1> DEFINE i  == IF o.found = {} THEN Nobody ELSE CHOOSE x \in o.found : TRUE
  <1> DEFINE op == Operation(i \in o.open \cap kids, o.wanted)
  <1>1. i \in o.found \/ (o.found = {} /\ i = Nobody)
    OBVIOUS
  <1>2. op \in {"create", "close", "none"}
    BY DEF Operation
  <1>3. op = "close" => i \in o.found
    <2>1. op = "close" => i \in o.open \cap kids
      BY DEF Operation
    <2> QED  BY <1>1, <2>1, ReconcileNobodyAssumption
  <1>4. CASE Cardinality(o.found) > 1 \/ op = "none"
    BY <1>4 DEF Plan
  <1>5. CASE ~(Cardinality(o.found) > 1 \/ op = "none")
    <2> DEFINE k == [op |-> op, issue |-> i,
                     text |-> IF op = "create" THEN o.text ELSE Nobody,
                     ver |-> IF i = Nobody THEN 0 ELSE o.ver[i]]
    <2>1. Plan(o, kids) = k
      BY <1>5 DEF Plan
    <2> HIDE DEF op
    <2>2. CASE i \in o.found
      <3>1. i \in Issues /\ i # Nobody /\ o.ver[i] \in 1..MaxVer
        BY <2>2, ReconcileNobodyAssumption, ReconcileNumbersAssumption
      <3> HIDE DEF i
      <3> QED  BY <1>2, <1>5, <3>1, <2>1 DEF Keys
    <2>3. CASE i = Nobody /\ i \notin o.found
      <3> HIDE DEF i
      <3> QED  BY <1>2, <1>3, <1>5, <2>3, <2>1 DEF Keys
    <2> QED  BY <1>1, <2>2, <2>3
  <1> QED  BY <1>4, <1>5

-----------------------------------------------------------------------------
(* Steps of the journal.                                                   *)

\* An answer to a call, good or bad: the writer's row is its own.
LEMMA AnsweredStep ==
    ASSUME ReconcileInv, NEW s \in Syncers, pc[s] \in Calls,
           NEW a \in {"ok", "error", "timeout"}, NEW next \in {"link", "record"},
           Answered(s, a, next)
    PROVE  /\ rows' \in [Keys -> RowStates]
           /\ pc' \in [Syncers -> Labels]
           /\ todo' = todo /\ look' = look /\ seen' = seen
           /\ act' \in [Syncers -> Keys \cup {NoKey}]
           /\ calm' \in [Syncers -> BOOLEAN] /\ unopened' \subseteq Keys
           /\ pc'[s] \in {"idle", "done", next}
           /\ \A t \in Syncers \ {s} : pc'[t] = pc[t] /\ act'[t] = act[t]
           /\ pc'[s] = next => act'[s] = act[s]
           /\ \A k \in Keys : rows'[k] \in {rows[k], "verify_pending"}
           /\ SeenDated' /\ Owned' /\ PastWrite' /\ KeepsSettled
  <1> USE DEF ReconcileInv
  <1>0. act[s] \in Keys /\ rows[act[s]] = "applying"
    BY DEF Aimed, Planned, Writing, Calls, Owned
  <1>1. CASE a = "ok"
    <2>1. /\ pc' = [pc EXCEPT ![s] = next]
          /\ UNCHANGED <<rows, todo, look, seen, act, unopened>>
          /\ calm' = [x \in Syncers |-> x = s /\ calm[x]]
      BY <1>1 DEF Answered, Goto, Alone
    <2>2. calm' \in [Syncers -> BOOLEAN]
      BY <2>1 DEF TypeOK
    <2>3. /\ pc' \in [Syncers -> Labels]
          /\ pc'[s] = next
          /\ \A t \in Syncers \ {s} : pc'[t] = pc[t]
      BY <2>1 DEF TypeOK, Labels
    <2>4. SeenDated' /\ Owned' /\ PastWrite' /\ KeepsSettled
      BY <2>1, <2>3 DEF TypeOK, SeenDated, Owned, PastWrite, KeepsSettled, Writing, Calls
    <2> QED  BY <2>1, <2>2, <2>3, <2>4 DEF TypeOK
  <1>2. CASE a = "error"
    <2>1. /\ pc' = [pc EXCEPT ![s] = "done"]
          /\ rows' = [rows EXCEPT ![act[s]] = "verify_pending"]
          /\ UNCHANGED <<todo, look, seen, act>>
          /\ calm' = [x \in Syncers |-> FALSE]
          /\ unopened' = unopened \/ unopened' = unopened \cup {act[s]}
      BY <1>2 DEF Answered, Goto, FinishReconcile
    <2>2. calm' \in [Syncers -> BOOLEAN]
      BY <2>1
    <2>3. /\ pc' \in [Syncers -> Labels]
          /\ pc'[s] = "done"
          /\ \A t \in Syncers \ {s} : pc'[t] = pc[t]
      BY <2>1 DEF TypeOK, Labels
    <2>4. /\ rows' \in [Keys -> RowStates]
          /\ rows'[act[s]] = "verify_pending"
          /\ \A k \in Keys : k # act[s] => rows'[k] = rows[k]
      BY <1>0, <2>1 DEF TypeOK, RowStates
    <2>5. unopened' \subseteq Keys
      BY <1>0, <2>1 DEF TypeOK
    <2>6. SeenDated' /\ KeepsSettled
      BY <1>0, <2>1, <2>3, <2>4 DEF SeenDated, KeepsSettled
    <2>7. Owned'
      BY <1>0, <2>1, <2>3, <2>4 DEF TypeOK, Owned, Aimed, Planned, Writing, Calls
    <2>8. PastWrite'
      BY <1>0, <2>1, <2>3, <2>4 DEF TypeOK, PastWrite, Past
    <2> QED  BY <2>1, <2>2, <2>3, <2>4, <2>5, <2>6, <2>7, <2>8 DEF TypeOK
  <1>3. CASE a = "timeout"
    <2>1. /\ pc' = [pc EXCEPT ![s] = "idle"]
          /\ act' = [act EXCEPT ![s] = NoKey]
          /\ UNCHANGED <<rows, todo, look, seen, unopened>>
          /\ calm' = [x \in Syncers |-> FALSE]
      BY <1>3 DEF Answered, Goto, Disturbed
    <2>2. calm' \in [Syncers -> BOOLEAN]
      BY <2>1
    <2>3. /\ pc' \in [Syncers -> Labels]
          /\ pc'[s] = "idle"
          /\ act' \in [Syncers -> Keys \cup {NoKey}]
          /\ \A t \in Syncers \ {s} : pc'[t] = pc[t] /\ act'[t] = act[t]
      BY <2>1 DEF TypeOK, Labels
    <2>4. SeenDated' /\ Owned' /\ PastWrite' /\ KeepsSettled
      BY <2>1, <2>3 DEF SeenDated, Owned, PastWrite, KeepsSettled, Writing, Calls
    <2> QED  BY <2>1, <2>2, <2>3, <2>4 DEF TypeOK
  <1> QED  BY <1>1, <1>2, <1>3

\* The call with its effect on GitHub: what is left to show is about the issues.
LEMMA CallStep ==
    ASSUME ReconcileInv, NEW s \in Syncers, pc[s] \in Calls,
           NEW a \in {"ok", "error", "timeout"}, NEW next \in {"link", "record"},
           Answered(s, a, next), UNCHANGED source,
           issue' \in [Issues -> {"none", "open", "closed"}],
           attached' \subseteq Issues,
           ver' \in [Issues -> 0..MaxVer],
           Dated',
           target' \in [Syncers -> Issues \cup {Nobody}],
           \A t \in Syncers \ {s} : target'[t] = target[t],
           next = "link" /\ a = "ok" => target'[s] \in Issues
    PROVE  ReconcileInv' /\ KeepsSettled
  <1>1. /\ rows' \in [Keys -> RowStates]
        /\ pc' \in [Syncers -> Labels]
        /\ todo' = todo /\ look' = look /\ seen' = seen
        /\ act' \in [Syncers -> Keys \cup {NoKey}]
        /\ calm' \in [Syncers -> BOOLEAN] /\ unopened' \subseteq Keys
        /\ pc'[s] \in {"idle", "done", next}
        /\ \A t \in Syncers \ {s} : pc'[t] = pc[t] /\ act'[t] = act[t]
        /\ pc'[s] = next => act'[s] = act[s]
        /\ SeenDated' /\ Owned' /\ PastWrite' /\ KeepsSettled
    BY AnsweredStep
  <1>2. pc'[s] = next => a = "ok"
    <2>1. CASE a = "error"
      <3>1. pc' = [pc EXCEPT ![s] = "done"]
        BY <2>1 DEF Answered, Goto
      <3> QED  BY <3>1 DEF ReconcileInv, TypeOK
    <2>2. CASE a = "timeout"
      <3>1. pc' = [pc EXCEPT ![s] = "idle"]
        BY <2>2 DEF Answered, Goto
      <3> QED  BY <3>1 DEF ReconcileInv, TypeOK
    <2> QED  BY <2>1, <2>2
  <1>3. Aimed'
    BY <1>1, <1>2 DEF ReconcileInv, Aimed, Planned, Writing, Calls
  <1>4. TypeOK'
    BY <1>1 DEF ReconcileInv, TypeOK, source
  <1> QED  BY <1>1, <1>3, <1>4 DEF ReconcileInv

\* A call without effect.
LEMMA FailedStep ==
    ASSUME ReconcileInv, NEW s \in Syncers, pc[s] \in Calls,
           NEW next \in {"link", "record"}, Failed(s, next)
    PROVE  ReconcileInv' /\ KeepsSettled
  <1>1. PICK a \in Bad : Answered(s, a, next)
    BY DEF Failed
  <1>2. a \in {"error", "timeout"}
    BY DEF Bad
  <1>3. UNCHANGED <<issue, attached, ver>> /\ UNCHANGED source
        /\ target' = [target EXCEPT ![s] = Nobody]
    BY DEF Failed, github
  <1>4. /\ target' \in [Syncers -> Issues \cup {Nobody}]
        /\ \A t \in Syncers \ {s} : target'[t] = target[t]
    BY <1>3 DEF ReconcileInv, TypeOK
  <1>5. Dated'
    BY <1>3 DEF ReconcileInv, Dated
  <1>6. /\ issue' \in [Issues -> {"none", "open", "closed"}]
        /\ attached' \subseteq Issues
        /\ ver' \in [Issues -> 0..MaxVer]
    BY <1>3 DEF ReconcileInv, TypeOK
  <1> QED  BY <1>1, <1>2, <1>3, <1>4, <1>5, <1>6, CallStep

\* A call that changes one issue.
LEMMA ChangeStep ==
    ASSUME ReconcileInv, NEW s \in Syncers, pc[s] \in Calls,
           NEW next \in {"link", "record"}, NEW i \in Issues, NEW now \in {"open", "closed"},
           issue' = [issue EXCEPT ![i] = now], Changes(i), Applied(s, next),
           UNCHANGED attached,
           target' = [target EXCEPT ![s] = i]
    PROVE  ReconcileInv' /\ KeepsSettled
  <1>1. PICK a \in Bad \cup {"ok"} : Answered(s, a, next)
    BY DEF Applied
  <1>2. a \in {"ok", "error", "timeout"}
    BY DEF Bad
  <1>3. UNCHANGED source
    BY DEF Applied
  <1>4. /\ issue' \in [Issues -> {"none", "open", "closed"}]
        /\ attached' \subseteq Issues
        /\ target' \in [Syncers -> Issues \cup {Nobody}]
        /\ target'[s] \in Issues
        /\ \A t \in Syncers \ {s} : target'[t] = target[t]
    BY DEF ReconcileInv, TypeOK
  <1>5. /\ ver' \in [Issues -> 0..MaxVer]
        /\ ver'[i] # 0
        /\ \A j \in Issues \ {i} : ver'[j] = ver[j]
    BY ReconcileNumbersAssumption DEF ReconcileInv, TypeOK, Changes
  <1>6. Dated'
    BY <1>5 DEF ReconcileInv, TypeOK, Dated
  <1> QED  BY <1>1, <1>2, <1>3, <1>4, <1>5, <1>6, CallStep

\* A step of s that leaves rows and issues alone, and neither takes s to a write nor
\* gives it more to verify.
LEMMA QuietStep ==
    ASSUME ReconcileInv, NEW s \in Syncers, NEW label,
           label \in {"idle", "verify", "resolve", "issues", "children", "reserve", "done"},
           pc' = [pc EXCEPT ![s] = label],
           UNCHANGED <<source, github, rows>>,
           calm' \in [Syncers -> BOOLEAN], UNCHANGED unopened,
           todo' \in [Syncers -> SUBSET Keys],
           look' \in [Syncers -> Looks],
           seen' \in [Syncers -> Observations],
           act' \in [Syncers -> Keys \cup {NoKey}],
           target' \in [Syncers -> Issues \cup {Nobody}],
           \A t \in Syncers \ {s} :
               /\ todo'[t] = todo[t] /\ look'[t] = look[t] /\ seen'[t] = seen[t]
               /\ act'[t] = act[t] /\ target'[t] = target[t],
           \A k \in todo'[s] : rows[k] \in Past,
           label = "resolve" => look'[s].key \in Keys /\ rows[look'[s].key] \in Past,
           label = "children" => /\ seen'[s].text \in Texts
                                 /\ \A i \in seen'[s].found : seen'[s].ver[i] # 0,
           label = "reserve" => act'[s] \in Keys
    PROVE  ReconcileInv' /\ KeepsSettled
  <1>1. /\ pc' \in [Syncers -> Labels]
        /\ pc'[s] = label
        /\ \A t \in Syncers \ {s} : pc'[t] = pc[t]
    BY DEF ReconcileInv, TypeOK, Labels
  <1>2. TypeOK'
    BY <1>1 DEF ReconcileInv, TypeOK, source, github
  <1>3. Dated' /\ KeepsSettled
    BY DEF ReconcileInv, Dated, KeepsSettled, github
  <1>4. SeenDated'
    BY <1>1 DEF ReconcileInv, SeenDated
  <1>5. Aimed'
    BY <1>1 DEF ReconcileInv, Aimed, Planned, Writing, Calls
  <1>6. Owned'
    <2>1. \A t \in Syncers : pc'[t] \in Writing =>
              pc[t] \in Writing /\ act'[t] = act[t]
      BY <1>1 DEF Writing, Calls
    <2>2. rows' = rows
      OBVIOUS
    <2> QED  BY <2>1, <2>2 DEF ReconcileInv, Owned
  <1>7. PastWrite'
    BY <1>1 DEF ReconcileInv, PastWrite
  <1> QED  BY <1>2, <1>3, <1>4, <1>5, <1>6, <1>7 DEF ReconcileInv

\* A sync that leaves is quiet.
LEMMA LeaveStep ==
    ASSUME ReconcileInv, NEW s \in Syncers, Leave(s),
           UNCHANGED <<source, github, rows>>,
           calm' \in [Syncers -> BOOLEAN], UNCHANGED unopened
    PROVE  ReconcileInv' /\ KeepsSettled
  <1>1. TypeOK
    BY DEF ReconcileInv
  <1>2. /\ pc' = [pc EXCEPT ![s] = "idle"]
        /\ todo' \in [Syncers -> SUBSET Keys]
        /\ look' \in [Syncers -> Looks]
        /\ seen' \in [Syncers -> Observations]
        /\ act' \in [Syncers -> Keys \cup {NoKey}]
        /\ target' \in [Syncers -> Issues \cup {Nobody}]
    BY <1>1, LeaveTyped
  <1>3. /\ \A t \in Syncers \ {s} :
               /\ todo'[t] = todo[t] /\ look'[t] = look[t] /\ seen'[t] = seen[t]
               /\ act'[t] = act[t] /\ target'[t] = target[t]
        /\ todo'[s] = {}
    BY <1>1 DEF TypeOK, Leave
  <1> QED  BY <1>2, <1>3, QuietStep

-----------------------------------------------------------------------------
(* The actions.                                                            *)

LEMMA InitInv == Init => ReconcileInv
  <1> SUFFICES ASSUME Init PROVE ReconcileInv
    OBVIOUS
  <1>1. /\ wanted \in BOOLEAN /\ text \in Texts /\ flips \in 0..MaxFlips
        /\ issue \in [Issues -> {"none", "open", "closed"}]
        /\ attached \subseteq Issues
        /\ ver \in [Issues -> 0..MaxVer]
    BY ReconcileNumbersAssumption DEF Init
  <1>2. rows \in [Keys -> RowStates]
    BY DEF Init, RowStates
  <1>3. /\ todo \in [Syncers -> SUBSET Keys]
        /\ act \in [Syncers -> Keys \cup {NoKey}]
        /\ target \in [Syncers -> Issues \cup {Nobody}]
        /\ calm \in [Syncers -> BOOLEAN]
        /\ unopened \subseteq Keys
    BY DEF Init
  <1>4. look \in [Syncers -> Looks]
    BY DEF Init, NoLook, Looks
  <1>5. seen \in [Syncers -> Observations]
    BY ReconcileNumbersAssumption DEF Init, Unseen, Observations
  <1>6. pc = [s \in Syncers |-> "idle"] /\ todo = [s \in Syncers |-> {}]
        /\ issue = [i \in Issues |-> "none"]
    BY DEF Init
  <1>7. TypeOK
    BY <1>1, <1>2, <1>3, <1>4, <1>5, <1>6 DEF TypeOK, Labels
  <1>8. Dated /\ SeenDated /\ Aimed /\ Owned /\ PastWrite
    BY <1>6 DEF Dated, SeenDated, Aimed, Owned, PastWrite, Planned, Writing, Calls
  <1> QED  BY <1>7, <1>8 DEF ReconcileInv

\* The history of undisturbed syncs has its type.
LEMMA CalmTyped ==
    ASSUME TypeOK, NEW s \in Syncers, Alone(s) \/ Disturbed
    PROVE  calm' \in [Syncers -> BOOLEAN] /\ unopened' = unopened
  <1>1. CASE Alone(s)
    BY <1>1 DEF Alone, TypeOK
  <1>2. CASE Disturbed
    BY <1>2 DEF Disturbed
  <1> QED  BY <1>1, <1>2

LEMMA StartSyncInv ==
    ASSUME ReconcileInv, NEW s \in Syncers, StartSync(s)
    PROVE  ReconcileInv' /\ KeepsSettled
  <1>1. /\ pc' = [pc EXCEPT ![s] = "verify"]
        /\ todo' = [todo EXCEPT ![s] = {k \in Keys : rows[k] = "verify_pending"}]
        /\ calm' = [x \in Syncers |-> x = s]
        /\ UNCHANGED <<source, github, rows, look, seen, act, target, unopened>>
    BY DEF StartSync, Goto
  <1>2. calm' \in [Syncers -> BOOLEAN]
    BY <1>1
  <1>3. /\ todo' \in [Syncers -> SUBSET Keys]
        /\ \A t \in Syncers \ {s} : todo'[t] = todo[t]
        /\ \A k \in todo'[s] : rows[k] \in Past
    BY <1>1 DEF ReconcileInv, TypeOK, Past
  <1> QED  BY <1>1, <1>2, <1>3, QuietStep DEF ReconcileInv, TypeOK

LEMMA LookInv ==
    ASSUME ReconcileInv, NEW s \in Syncers, Look(s)
    PROVE  ReconcileInv' /\ KeepsSettled
  <1>1. PICK k \in todo[s] :
          /\ todo' = [todo EXCEPT ![s] = @ \ {k}]
          /\ \/ /\ look' = [look EXCEPT ![s] = [key |-> k, proof |-> VerifyReconcile(k)]]
                /\ Goto(s, "resolve")
                /\ Alone(s)
             \/ Disturbed /\ UNCHANGED <<look, pc>>
    BY DEF Look
  <1>2. UNCHANGED <<source, github, rows, seen, act, target>> /\ pc[s] = "verify"
    BY DEF Look
  <1>3. calm' \in [Syncers -> BOOLEAN] /\ UNCHANGED unopened
    BY <1>1, CalmTyped DEF ReconcileInv
  <1>4. k \in Keys /\ rows[k] \in Past
    BY <1>1 DEF ReconcileInv, TypeOK, PastWrite
  <1>5. /\ todo' \in [Syncers -> SUBSET Keys]
        /\ \A t \in Syncers \ {s} : todo'[t] = todo[t]
        /\ \A j \in todo'[s] : rows[j] \in Past
    BY <1>1 DEF ReconcileInv, TypeOK, PastWrite
  <1>6. VerifyReconcile(k) \in Proofs
    BY DEF VerifyReconcile, Proofs
  <1>7. CASE /\ look' = [look EXCEPT ![s] = [key |-> k, proof |-> VerifyReconcile(k)]]
             /\ Goto(s, "resolve")
    <2>1. /\ look' \in [Syncers -> Looks]
          /\ \A t \in Syncers \ {s} : look'[t] = look[t]
          /\ look'[s].key = k
      BY <1>4, <1>6, <1>7 DEF ReconcileInv, TypeOK, Looks
    <2>2. pc' = [pc EXCEPT ![s] = "resolve"]
      BY <1>7 DEF Goto
    <2> QED  BY <1>2, <1>3, <1>4, <1>5, <2>1, <2>2, QuietStep DEF ReconcileInv, TypeOK
  <1>8. CASE UNCHANGED <<look, pc>>
    <2>1. pc' = [pc EXCEPT ![s] = "verify"]
      BY <1>2, <1>8 DEF ReconcileInv, TypeOK
    <2> QED  BY <1>2, <1>3, <1>5, <1>8, <2>1, QuietStep DEF ReconcileInv, TypeOK
  <1> QED  BY <1>1, <1>7, <1>8

LEMMA ResolveInv ==
    ASSUME ReconcileInv, NEW s \in Syncers, Resolve(s)
    PROVE  ReconcileInv' /\ KeepsSettled
  <1> DEFINE k == look[s].key
  <1> DEFINE state == IF look[s].proof = "PRESENT" THEN "succeeded" ELSE "dead_letter"
  <1>0. calm' \in [Syncers -> BOOLEAN] /\ UNCHANGED unopened /\ UNCHANGED <<source, github>>
    BY CalmTyped DEF ReconcileInv, Resolve
  <1>1. k \in Keys /\ rows[k] \in Past
    BY DEF Resolve, ReconcileInv, PastWrite
  <1>2. CASE MayFinish(k, state)
    <2>1. /\ rows' = [rows EXCEPT ![k] = state]
          /\ pc' = [pc EXCEPT ![s] = "verify"]
          /\ look' = [look EXCEPT ![s] = NoLook]
          /\ UNCHANGED <<todo, seen, act, target>>
      BY <1>2 DEF Resolve, FinishReconcile, Goto
    <2>2. rows[k] = "verify_pending"
      BY <1>1, <1>2 DEF MayFinish, Past
    <2>3. state \in {"succeeded", "dead_letter"}
      OBVIOUS
    <2> HIDE DEF state
    <2>4. /\ rows' \in [Keys -> RowStates]
          /\ rows'[k] = state
          /\ \A j \in Keys : j # k => rows'[j] = rows[j]
      BY <1>1, <2>1, <2>3 DEF ReconcileInv, TypeOK, RowStates
    <2>5. /\ pc' \in [Syncers -> Labels]
          /\ pc'[s] = "verify"
          /\ \A t \in Syncers \ {s} : pc'[t] = pc[t] /\ look'[t] = look[t]
      BY <2>1 DEF ReconcileInv, TypeOK, Labels
    <2>6. look' \in [Syncers -> Looks]
      <3>1. NoLook \in Looks
        BY DEF NoLook, Looks
      <3> QED  BY <2>1, <3>1 DEF ReconcileInv, TypeOK
    <2> HIDE DEF k
    <2>7. TypeOK'
      BY <1>0, <2>1, <2>4, <2>5, <2>6 DEF ReconcileInv, TypeOK, source, github
    <2>8. Dated' /\ SeenDated' /\ Aimed'
      BY <1>0, <2>1, <2>5 DEF ReconcileInv, Dated, SeenDated, Aimed, Planned, Writing, Calls, github
    <2>9. Owned'
      <3>1. \A t \in Syncers : pc'[t] \in Writing =>
                /\ pc[t] \in Writing /\ act'[t] = act[t]
                /\ act[t] \in Keys /\ rows[act[t]] = "applying"
        BY <2>1, <2>5 DEF ReconcileInv, Aimed, Owned, Planned, Writing, Calls
      <3>2. \A t \in Syncers : pc'[t] \in Writing => rows'[act'[t]] = "applying"
        BY <2>2, <2>4, <3>1
      <3> QED  BY <3>1, <3>2 DEF ReconcileInv, Owned
    <2>10. PastWrite'
      BY <2>1, <2>2, <2>3, <2>4, <2>5 DEF ReconcileInv, TypeOK, PastWrite, Past
    <2>11. KeepsSettled
      BY <2>2, <2>4 DEF KeepsSettled
    <2> QED  BY <2>7, <2>8, <2>9, <2>10, <2>11 DEF ReconcileInv
  <1>3. CASE ~MayFinish(k, state)
    <2>1. Leave(s) /\ UNCHANGED rows
      BY <1>3 DEF Resolve
    <2> QED  BY <1>0, <2>1, LeaveStep
  <1> QED  BY <1>2, <1>3

LEMMA VerifiedInv ==
    ASSUME ReconcileInv, NEW s \in Syncers, Verified(s)
    PROVE  ReconcileInv' /\ KeepsSettled
  <1>1. /\ pc' = [pc EXCEPT ![s] = "issues"] /\ todo[s] = {}
        /\ UNCHANGED <<source, github, rows, todo, look, seen, act, target>>
    BY DEF Verified, Goto
  <1>2. calm' \in [Syncers -> BOOLEAN] /\ UNCHANGED unopened
    BY CalmTyped DEF ReconcileInv, Verified
  <1> QED  BY <1>1, <1>2, QuietStep DEF ReconcileInv, TypeOK

\* An observation has the version of every issue it found.
LEMMA ReadIssuesInv ==
    ASSUME ReconcileInv, NEW s \in Syncers, ReadIssues(s)
    PROVE  ReconcileInv' /\ KeepsSettled
  <1> DEFINE o == [wanted |-> wanted, text |-> text, found |-> Marked,
                   open |-> {i \in Marked : issue[i] = "open"}, ver |-> ver]
  <1>1. /\ pc' = [pc EXCEPT ![s] = "children"]
        /\ seen' = [seen EXCEPT ![s] = o]
        /\ UNCHANGED <<source, github, rows, todo, look, act, target>>
    BY DEF ReadIssues, Goto
  <1>2. calm' \in [Syncers -> BOOLEAN] /\ UNCHANGED unopened
    BY CalmTyped DEF ReconcileInv, ReadIssues
  <1>3. /\ o \in Observations
        /\ o.text \in Texts
        /\ \A i \in o.found : o.ver[i] # 0
    BY DEF ReconcileInv, TypeOK, Observations, Dated, Marked
  <1> HIDE DEF o
  <1>4. /\ seen' \in [Syncers -> Observations]
        /\ \A t \in Syncers \ {s} : seen'[t] = seen[t]
        /\ seen'[s] = o
    BY <1>1, <1>3 DEF ReconcileInv, TypeOK
  <1>5. \A k \in todo'[s] : rows[k] \in Past
    BY <1>1 DEF ReconcileInv, PastWrite
  <1>6. seen'[s].text \in Texts /\ \A i \in seen'[s].found : seen'[s].ver[i] # 0
    BY <1>3, <1>4
  <1>7. /\ todo' \in [Syncers -> SUBSET Keys]
        /\ look' \in [Syncers -> Looks]
        /\ act' \in [Syncers -> Keys \cup {NoKey}]
        /\ target' \in [Syncers -> Issues \cup {Nobody}]
    BY <1>1 DEF ReconcileInv, TypeOK
  <1> QED  BY <1>1, <1>2, <1>4, <1>5, <1>6, <1>7, QuietStep

LEMMA ReadChildrenInv ==
    ASSUME ReconcileInv, NEW s \in Syncers, ReadChildren(s)
    PROVE  ReconcileInv' /\ KeepsSettled
  <1> DEFINE p == Plan(seen[s], attached)
  <1>1. /\ act' = [act EXCEPT ![s] = p]
        /\ seen' = [seen EXCEPT ![s] = Unseen]
        /\ pc' = [pc EXCEPT ![s] = IF act'[s] = NoKey THEN "done" ELSE "reserve"]
        /\ UNCHANGED <<source, github, rows, todo, look, target>>
        /\ pc[s] = "children"
    BY DEF ReadChildren, Goto
  <1>2. calm' \in [Syncers -> BOOLEAN] /\ UNCHANGED unopened
    BY CalmTyped DEF ReconcileInv, ReadChildren
  <1>3. p \in Keys \cup {NoKey}
    <2>1. /\ seen[s] \in [wanted : BOOLEAN, text : Texts, found : SUBSET Issues,
                          open : SUBSET Issues, ver : [Issues -> 0..MaxVer]]
          /\ \A i \in seen[s].found : seen[s].ver[i] # 0
      BY <1>1 DEF ReconcileInv, TypeOK, Observations, SeenDated
    <2> QED  BY <2>1, PlanIsKey
  <1> HIDE DEF p
  <1>4. /\ act' \in [Syncers -> Keys \cup {NoKey}]
        /\ act'[s] = p
        /\ \A t \in Syncers \ {s} : act'[t] = act[t]
    BY <1>1, <1>3 DEF ReconcileInv, TypeOK
  <1>5. /\ seen' \in [Syncers -> Observations]
        /\ \A t \in Syncers \ {s} : seen'[t] = seen[t]
    <2>1. Unseen \in Observations
      BY ReconcileNumbersAssumption DEF Unseen, Observations
    <2> QED  BY <1>1, <2>1 DEF ReconcileInv, TypeOK
  <1>6. \A k \in todo'[s] : rows[k] \in Past
    BY <1>1 DEF ReconcileInv, PastWrite
  <1> DEFINE label == IF p = NoKey THEN "done" ELSE "reserve"
  <1>7. /\ label \in {"done", "reserve"}
        /\ label = "reserve" => act'[s] \in Keys
        /\ pc' = [pc EXCEPT ![s] = label]
    BY <1>1, <1>3, <1>4
  <1> HIDE DEF label
  <1> QED  BY <1>1, <1>2, <1>4, <1>5, <1>6, <1>7, QuietStep DEF ReconcileInv, TypeOK

LEMMA IncompleteInv ==
    ASSUME ReconcileInv, NEW s \in Syncers, Incomplete(s)
    PROVE  ReconcileInv' /\ KeepsSettled
  <1>1. Leave(s) /\ UNCHANGED <<source, github, rows>>
    BY DEF Incomplete
  <1>2. calm' \in [Syncers -> BOOLEAN] /\ UNCHANGED unopened
    BY CalmTyped DEF ReconcileInv, Incomplete
  <1> QED  BY <1>1, <1>2, LeaveStep

LEMMA EndSyncInv ==
    ASSUME ReconcileInv, NEW s \in Syncers, EndSync(s)
    PROVE  ReconcileInv' /\ KeepsSettled
  <1>1. Leave(s) /\ UNCHANGED <<source, github, rows>>
    BY DEF EndSync
  <1>2. calm' \in [Syncers -> BOOLEAN] /\ UNCHANGED unopened
    BY CalmTyped DEF ReconcileInv, EndSync
  <1> QED  BY <1>1, <1>2, LeaveStep

\* A step that moves one row on, from a state in which nobody writes under it, and with
\* the row its sync: to the write itself, or just before it.
LEMMA ClaimStep ==
    ASSUME ReconcileInv, NEW s \in Syncers, NEW label, NEW state,
           act[s] \in Keys,
           rows[act[s]] \in {"none", "planned"},
           \/ state = "planned" /\ label = "mark"
           \/ state = "applying" /\ label \in {"get", "post", "close"},
           rows' = [rows EXCEPT ![act[s]] = state],
           pc' = [pc EXCEPT ![s] = label],
           target' \in [Syncers -> Issues \cup {Nobody}],
           \A t \in Syncers \ {s} : target'[t] = target[t],
           label \in {"get", "close"} => target'[s] \in Issues,
           calm' \in [Syncers -> BOOLEAN], UNCHANGED unopened,
           UNCHANGED <<source, github, todo, look, seen, act>>
    PROVE  ReconcileInv' /\ KeepsSettled
  <1>1. /\ rows' \in [Keys -> RowStates]
        /\ rows'[act[s]] = state
        /\ \A k \in Keys : k # act[s] => rows'[k] = rows[k]
    BY DEF ReconcileInv, TypeOK, RowStates
  <1>2. /\ pc' \in [Syncers -> Labels]
        /\ pc'[s] = label
        /\ \A t \in Syncers \ {s} : pc'[t] = pc[t]
    BY DEF ReconcileInv, TypeOK, Labels
  <1>3. TypeOK'
    BY <1>1, <1>2 DEF ReconcileInv, TypeOK, source, github
  <1>4. Dated' /\ SeenDated'
    BY <1>2 DEF ReconcileInv, Dated, SeenDated, github
  <1>5. Aimed'
    BY <1>2 DEF ReconcileInv, Aimed, Planned, Writing, Calls
  <1>6. Owned'
    <2>1. \A t \in Syncers \ {s} : pc'[t] \in Writing =>
              /\ pc[t] \in Writing /\ act[t] \in Keys
              /\ rows[act[t]] = "applying" /\ act[t] # act[s]
      BY <1>2 DEF ReconcileInv, Aimed, Owned, Planned
    <2>2. \A t \in Syncers : pc'[t] \in Writing => rows'[act'[t]] = "applying"
      BY <1>1, <1>2, <2>1 DEF Writing, Calls
    <2>3. \A t, u \in Syncers : pc'[t] \in Writing /\ pc'[u] \in Writing
                                 /\ act'[t] = act'[u] => t = u
      BY <1>2, <2>1 DEF ReconcileInv, Owned
    <2> QED  BY <2>2, <2>3 DEF Owned
  <1>7. PastWrite'
    <2>1. \A k \in Keys : rows[k] \in Past => rows'[k] = rows[k]
      BY <1>1 DEF Past
    <2> QED  BY <1>2, <2>1 DEF ReconcileInv, TypeOK, PastWrite
  <1>8. KeepsSettled
    BY <1>1 DEF KeepsSettled
  <1> QED  BY <1>3, <1>4, <1>5, <1>6, <1>7, <1>8 DEF ReconcileInv

LEMMA ReserveInv ==
    ASSUME ReconcileInv, NEW s \in Syncers, Reserve(s)
    PROVE  ReconcileInv' /\ KeepsSettled
  <1>1. calm' \in [Syncers -> BOOLEAN] /\ UNCHANGED unopened
    BY CalmTyped DEF ReconcileInv, Reserve
  <1>2. pc[s] = "reserve" /\ UNCHANGED <<source, github, todo, look, seen, act, target>>
    BY DEF Reserve
  <1>3. act[s] \in Keys
    BY <1>2 DEF ReconcileInv, Aimed, Planned
  <1>4. CASE rows[act[s]] \in {"none", "planned"}
    <2>1. rows' = [rows EXCEPT ![act[s]] = "planned"] /\ pc' = [pc EXCEPT ![s] = "mark"]
      BY <1>4 DEF Reserve, Goto
    <2> QED  BY <1>1, <1>2, <1>3, <1>4, <2>1, ClaimStep DEF ReconcileInv, TypeOK
  <1>5. CASE rows[act[s]] \notin {"none", "planned"}
    <2>1. UNCHANGED rows /\ pc' = [pc EXCEPT ![s] = "done"]
      BY <1>5 DEF Reserve, Goto
    <2>2. \A k \in todo'[s] : rows[k] \in Past
      BY <1>2 DEF ReconcileInv, PastWrite
    <2> QED  BY <1>1, <1>2, <2>1, <2>2, QuietStep DEF ReconcileInv, TypeOK
  <1> QED  BY <1>4, <1>5

LEMMA MarkInv ==
    ASSUME ReconcileInv, NEW s \in Syncers, Mark(s)
    PROVE  ReconcileInv' /\ KeepsSettled
  <1>1. calm' \in [Syncers -> BOOLEAN] /\ UNCHANGED unopened
    BY CalmTyped DEF ReconcileInv, Mark
  <1>2. pc[s] = "mark" /\ UNCHANGED <<source, github>>
    BY DEF Mark
  <1>3. act[s] \in Keys
    BY <1>2 DEF ReconcileInv, Aimed, Planned
  <1>4. CASE Claims(act[s])
    <2>1. /\ rows[act[s]] = "planned"
          /\ rows' = [rows EXCEPT ![act[s]] = "applying"]
          /\ pc' = [pc EXCEPT ![s] = FirstCall(act[s])]
          /\ target' = [target EXCEPT ![s] = act[s].issue]
          /\ UNCHANGED <<todo, look, seen, act>>
      BY <1>4 DEF Mark, Goto, Claims
    <2>2. act[s].issue \in Issues \cup {Nobody}
      BY <1>3 DEF Keys
    <2>3. /\ FirstCall(act[s]) \in {"get", "post", "close"}
          /\ FirstCall(act[s]) \in {"get", "close"} => act[s].issue \in Issues
      BY <1>3 DEF Keys, FirstCall
    <2>4. /\ target' \in [Syncers -> Issues \cup {Nobody}]
          /\ target'[s] = act[s].issue
          /\ \A t \in Syncers \ {s} : target'[t] = target[t]
      BY <2>1, <2>2 DEF ReconcileInv, TypeOK
    <2> QED  BY <1>1, <1>2, <1>3, <2>1, <2>3, <2>4, ClaimStep
  <1>5. CASE ~Claims(act[s])
    <2>1. Leave(s) /\ UNCHANGED rows
      BY <1>5 DEF Mark
    <2> QED  BY <1>1, <1>2, <2>1, LeaveStep
  <1> QED  BY <1>4, <1>5

\* A writer's row is settled: nobody else was writing under it.
LEMMA SettleStep ==
    ASSUME ReconcileInv, NEW s \in Syncers, pc[s] \in Writing,
           NEW state \in {"succeeded", "dead_letter"},
           rows' = [rows EXCEPT ![act[s]] = state],
           pc' = [pc EXCEPT ![s] = "done"],
           calm' \in [Syncers -> BOOLEAN], UNCHANGED unopened,
           UNCHANGED <<source, github, todo, look, seen, act, target>>
    PROVE  ReconcileInv' /\ KeepsSettled
  <1>0. act[s] \in Keys /\ rows[act[s]] = "applying"
    BY DEF ReconcileInv, Aimed, Owned, Planned
  <1>1. /\ rows' \in [Keys -> RowStates]
        /\ rows'[act[s]] = state
        /\ \A k \in Keys : k # act[s] => rows'[k] = rows[k]
    BY <1>0 DEF ReconcileInv, TypeOK, RowStates
  <1>2. /\ pc' \in [Syncers -> Labels]
        /\ pc'[s] = "done"
        /\ \A t \in Syncers \ {s} : pc'[t] = pc[t]
    BY DEF ReconcileInv, TypeOK, Labels
  <1>3. TypeOK'
    BY <1>1, <1>2 DEF ReconcileInv, TypeOK, source, github
  <1>4. Dated' /\ SeenDated' /\ Aimed'
    BY <1>2 DEF ReconcileInv, Dated, SeenDated, Aimed, Planned, Writing, Calls, github
  <1>5. Owned'
    <2>1. \A t \in Syncers : pc'[t] \in Writing =>
              /\ pc[t] \in Writing /\ act[t] \in Keys
              /\ rows[act[t]] = "applying" /\ act[t] # act[s]
      BY <1>2 DEF ReconcileInv, Aimed, Owned, Planned, Writing, Calls
    <2>2. \A t \in Syncers : pc'[t] \in Writing => rows'[act'[t]] = "applying"
      BY <1>1, <2>1
    <2> QED  BY <2>1, <2>2 DEF ReconcileInv, Owned
  <1>6. PastWrite'
    <2>1. \A k \in Keys : rows[k] \in Past => rows'[k] = rows[k]
      BY <1>0, <1>1 DEF Past
    <2> QED  BY <1>2, <2>1 DEF ReconcileInv, TypeOK, PastWrite
  <1>7. KeepsSettled
    BY <1>0, <1>1 DEF KeepsSettled
  <1> QED  BY <1>3, <1>4, <1>5, <1>6, <1>7 DEF ReconcileInv

LEMMA GetInv ==
    ASSUME ReconcileInv, NEW s \in Syncers, Get(s)
    PROVE  ReconcileInv' /\ KeepsSettled
  <1>1. pc[s] = "get" /\ pc[s] \in Calls
    BY DEF Get, Calls
  <1>2. target[s] \in Issues /\ act[s] \in Keys /\ rows[act[s]] = "applying"
    BY <1>1 DEF ReconcileInv, Aimed, Owned, Planned, Writing
  <1>3. CASE /\ Goto(s, IF issue[target[s]] = "open" THEN "link" ELSE "reopen")
             /\ Alone(s)
             /\ UNCHANGED <<source, github, rows, todo, look, seen, act, target>>
    <2> DEFINE label == IF issue[target[s]] = "open" THEN "link" ELSE "reopen"
    <2>1. calm' \in [Syncers -> BOOLEAN] /\ UNCHANGED unopened
      BY <1>3, CalmTyped DEF ReconcileInv
    <2>2. label \in {"link", "reopen"} /\ pc' = [pc EXCEPT ![s] = label]
      BY <1>3 DEF Goto
    <2> HIDE DEF label
    <2>3. /\ pc' \in [Syncers -> Labels]
          /\ pc'[s] = label
          /\ \A t \in Syncers \ {s} : pc'[t] = pc[t]
      BY <2>2 DEF ReconcileInv, TypeOK, Labels
    <2>4. TypeOK'
      BY <1>3, <2>1, <2>3 DEF ReconcileInv, TypeOK, source, github
    <2>5. Dated' /\ SeenDated' /\ PastWrite' /\ KeepsSettled
      BY <1>3, <2>2, <2>3 DEF ReconcileInv, Dated, SeenDated, PastWrite, KeepsSettled, github
    <2>6. Aimed' /\ Owned'
      BY <1>1, <1>2, <1>3, <2>2, <2>3
         DEF ReconcileInv, Aimed, Owned, Planned, Writing, Calls
    <2> QED  BY <2>4, <2>5, <2>6 DEF ReconcileInv
  <1>4. CASE Failed(s, "link")
    BY <1>1, <1>4, FailedStep
  <1>5. CASE /\ FinishReconcile(act[s], "dead_letter")
             /\ Goto(s, "done")
             /\ Disturbed
             /\ UNCHANGED <<source, github, todo, look, seen, act, target>>
    BY <1>1, <1>2, <1>5, SettleStep, CalmTyped DEF FinishReconcile, Goto, ReconcileInv, Writing
  <1> QED  BY <1>3, <1>4, <1>5 DEF Get

LEMMA ReopenInv ==
    ASSUME ReconcileInv, NEW s \in Syncers, Reopen(s)
    PROVE  ReconcileInv' /\ KeepsSettled
  <1>1. pc[s] = "reopen" /\ pc[s] \in Calls
    BY DEF Reopen, Calls
  <1>2. target[s] \in Issues
    BY <1>1 DEF ReconcileInv, Aimed
  <1>3. CASE Failed(s, "link")
    BY <1>1, <1>3, FailedStep
  <1>4. CASE /\ issue' = [issue EXCEPT ![target[s]] = "open"]
             /\ Changes(target[s])
             /\ Applied(s, "link")
             /\ UNCHANGED <<attached, target>>
    <2>1. target' = [target EXCEPT ![s] = target[s]]
      BY <1>4 DEF ReconcileInv, TypeOK
    <2> QED  BY <1>1, <1>2, <1>4, <2>1, ChangeStep
  <1> QED  BY <1>3, <1>4 DEF Reopen

LEMMA PostInv ==
    ASSUME ReconcileInv, NEW s \in Syncers, Post(s)
    PROVE  ReconcileInv' /\ KeepsSettled
  <1>1. pc[s] = "post" /\ pc[s] \in Calls
    BY DEF Post, Calls
  <1>2. CASE Failed(s, "link")
    BY <1>1, <1>2, FailedStep
  <1>3. ASSUME NEW i \in Issues,
               issue' = [issue EXCEPT ![i] = "open"], Changes(i), Applied(s, "link"),
               target' = [target EXCEPT ![s] = i], UNCHANGED attached
        PROVE  ReconcileInv' /\ KeepsSettled
    BY <1>1, <1>3, ChangeStep
  <1> QED  BY <1>2, <1>3 DEF Post

LEMMA LinkInv ==
    ASSUME ReconcileInv, NEW s \in Syncers, Link(s)
    PROVE  ReconcileInv' /\ KeepsSettled
  <1>1. pc[s] = "link" /\ pc[s] \in Calls
    BY DEF Link, Calls
  <1>2. target[s] \in Issues
    BY <1>1 DEF ReconcileInv, Aimed
  <1>3. CASE Failed(s, "record")
    BY <1>1, <1>3, FailedStep
  <1>4. CASE /\ attached' = attached \cup {target[s]}
             /\ UNCHANGED ver
             /\ Applied(s, "record")
             /\ UNCHANGED <<issue, target>>
    <2>1. PICK a \in Bad \cup {"ok"} : Answered(s, a, "record")
      BY <1>4 DEF Applied
    <2>2. a \in {"ok", "error", "timeout"} /\ UNCHANGED source
      BY <1>4 DEF Bad, Applied
    <2>3. /\ issue' \in [Issues -> {"none", "open", "closed"}]
          /\ attached' \subseteq Issues
          /\ ver' \in [Issues -> 0..MaxVer]
          /\ target' \in [Syncers -> Issues \cup {Nobody}]
      BY <1>2, <1>4 DEF ReconcileInv, TypeOK
    <2>4. Dated'
      BY <1>4 DEF ReconcileInv, Dated
    <2> QED  BY <1>1, <1>4, <2>1, <2>2, <2>3, <2>4, CallStep
  <1> QED  BY <1>3, <1>4 DEF Link

LEMMA CloseInv ==
    ASSUME ReconcileInv, NEW s \in Syncers, Close(s)
    PROVE  ReconcileInv' /\ KeepsSettled
  <1>1. pc[s] = "close" /\ pc[s] \in Calls
    BY DEF Close, Calls
  <1>2. target[s] \in Issues
    BY <1>1 DEF ReconcileInv, Aimed
  <1>3. CASE Failed(s, "record")
    BY <1>1, <1>3, FailedStep
  <1>4. CASE /\ issue' = [issue EXCEPT ![target[s]] = "closed"]
             /\ Changes(target[s])
             /\ Applied(s, "record")
             /\ UNCHANGED <<attached, target>>
    <2>1. target' = [target EXCEPT ![s] = target[s]]
      BY <1>4 DEF ReconcileInv, TypeOK
    <2> QED  BY <1>1, <1>2, <1>4, <2>1, ChangeStep
  <1> QED  BY <1>3, <1>4 DEF Close

LEMMA RecordInv ==
    ASSUME ReconcileInv, NEW s \in Syncers, Record(s)
    PROVE  ReconcileInv' /\ KeepsSettled
  <1>1. calm' \in [Syncers -> BOOLEAN] /\ UNCHANGED unopened /\ UNCHANGED <<source, github>>
    BY CalmTyped DEF ReconcileInv, Record
  <1>2. pc[s] = "record" /\ pc[s] \in Writing
    BY DEF Record, Writing
  <1>3. CASE MayFinish(act[s], "succeeded")
    <2>1. /\ rows' = [rows EXCEPT ![act[s]] = "succeeded"]
          /\ pc' = [pc EXCEPT ![s] = "done"]
          /\ UNCHANGED <<todo, look, seen, act, target>>
      BY <1>3 DEF Record, FinishReconcile, Goto
    <2> QED  BY <1>1, <1>2, <2>1, SettleStep
  <1>4. CASE ~MayFinish(act[s], "succeeded")
    <2>1. Leave(s) /\ UNCHANGED rows
      BY <1>4 DEF Record
    <2> QED  BY <1>1, <2>1, LeaveStep
  <1> QED  BY <1>3, <1>4

-----------------------------------------------------------------------------
(* The rest of the world.                                                  *)

LEMMA SourceChangesInv ==
    ASSUME ReconcileInv, SourceChanges
    PROVE  ReconcileInv' /\ KeepsSettled
  <1>1. /\ UNCHANGED <<issue, attached, ver, rows, pc, todo, look, seen, act, target>>
        /\ calm' = [x \in Syncers |-> FALSE] /\ UNCHANGED unopened
        /\ flips < MaxFlips /\ flips' = flips + 1
    BY DEF SourceChanges, Disturbed, github, sync
  <1>2. wanted' \in BOOLEAN /\ text' \in Texts
    BY DEF SourceChanges, ReconcileInv, TypeOK
  <1>3. flips' \in 0..MaxFlips
    BY <1>1, ReconcileNumbersAssumption DEF ReconcileInv, TypeOK
  <1>4. calm' \in [Syncers -> BOOLEAN]
    BY <1>1
  <1>5. TypeOK'
    BY <1>1, <1>2, <1>3, <1>4 DEF ReconcileInv, TypeOK
  <1>6. Dated' /\ SeenDated' /\ Aimed' /\ Owned' /\ PastWrite' /\ KeepsSettled
    BY <1>1 DEF ReconcileInv, Dated, SeenDated, Aimed, Owned, PastWrite, KeepsSettled
  <1> QED  BY <1>5, <1>6 DEF ReconcileInv

LEMMA HumanClosesInv ==
    ASSUME ReconcileInv, NEW i \in Issues, HumanCloses(i)
    PROVE  ReconcileInv' /\ KeepsSettled
  <1>1. /\ UNCHANGED <<wanted, text, attached, rows, pc, todo, look, seen, act, target>>
        /\ calm' = [x \in Syncers |-> FALSE] /\ UNCHANGED unopened
        /\ flips < MaxFlips /\ flips' = flips + 1
        /\ issue' = [issue EXCEPT ![i] = "closed"]
    BY DEF HumanCloses, Disturbed, sync
  <1>2. /\ ver' \in [Issues -> 0..MaxVer]
        /\ ver'[i] # 0
        /\ \A j \in Issues \ {i} : ver'[j] = ver[j]
    BY ReconcileNumbersAssumption DEF ReconcileInv, TypeOK, HumanCloses, Changes
  <1>3. flips' \in 0..MaxFlips
    BY <1>1, ReconcileNumbersAssumption DEF ReconcileInv, TypeOK
  <1>4. calm' \in [Syncers -> BOOLEAN]
    BY <1>1
  <1>5. TypeOK'
    BY <1>1, <1>2, <1>3, <1>4 DEF ReconcileInv, TypeOK
  <1>6. Dated'
    BY <1>1, <1>2 DEF ReconcileInv, TypeOK, Dated
  <1>7. SeenDated' /\ Aimed' /\ Owned' /\ PastWrite' /\ KeepsSettled
    BY <1>1 DEF ReconcileInv, SeenDated, Aimed, Owned, PastWrite, KeepsSettled
  <1> QED  BY <1>5, <1>6, <1>7 DEF ReconcileInv

LEMMA CrashInv ==
    ASSUME ReconcileInv, Crash
    PROVE  ReconcileInv' /\ KeepsSettled
  <1>1. /\ pc' = [s \in Syncers |-> "idle"]
        /\ todo' = [s \in Syncers |-> {}]
        /\ look' = [s \in Syncers |-> NoLook]
        /\ seen' = [s \in Syncers |-> Unseen]
        /\ act' = [s \in Syncers |-> NoKey]
        /\ target' = [s \in Syncers |-> Nobody]
        /\ calm' = [x \in Syncers |-> FALSE] /\ UNCHANGED unopened
        /\ UNCHANGED <<wanted, text, flips, issue, attached, ver, rows>>
    BY DEF Crash, Disturbed, source, github
  <1>2. seen' \in [Syncers -> Observations]
    BY <1>1, ReconcileNumbersAssumption DEF Unseen, Observations
  <1>3. look' \in [Syncers -> Looks]
    BY <1>1 DEF NoLook, Looks
  <1>4. calm' \in [Syncers -> BOOLEAN]
    BY <1>1
  <1>5. TypeOK'
    BY <1>1, <1>2, <1>3, <1>4 DEF ReconcileInv, TypeOK, Labels
  <1>6. Dated' /\ SeenDated' /\ Aimed' /\ Owned' /\ PastWrite' /\ KeepsSettled
    BY <1>1 DEF ReconcileInv, Dated, SeenDated, Aimed, Owned, PastWrite, KeepsSettled,
                Planned, Writing, Calls
  <1> QED  BY <1>5, <1>6 DEF ReconcileInv

-----------------------------------------------------------------------------
(* The theorems.                                                           *)

LEMMA StepInv ==
    ASSUME ReconcileInv, [Next]_vars
    PROVE  ReconcileInv' /\ (KeepsSettled \/ UNCHANGED vars)
  <1>1. CASE UNCHANGED vars
    <2>1. UNCHANGED <<wanted, text, flips, issue, attached, ver, rows, pc, todo, look,
                      seen, act, target, calm, unopened>>
      BY <1>1 DEF vars, source, github, sync
    <2>2. TypeOK' /\ Dated' /\ SeenDated' /\ Aimed' /\ Owned' /\ PastWrite'
      BY <2>1 DEF ReconcileInv, TypeOK, Dated, SeenDated, Aimed, Owned, PastWrite
    <2> QED  BY <1>1, <2>2 DEF ReconcileInv
  <1>2. ASSUME NEW s \in Syncers,
               \/ StartSync(s) \/ Look(s) \/ Resolve(s) \/ Verified(s)
               \/ ReadIssues(s) \/ ReadChildren(s) \/ Incomplete(s)
               \/ Reserve(s) \/ Mark(s)
               \/ Get(s) \/ Reopen(s) \/ Post(s) \/ Link(s) \/ Close(s)
               \/ Record(s) \/ EndSync(s)
        PROVE  ReconcileInv' /\ KeepsSettled
    BY <1>2, StartSyncInv, LookInv, ResolveInv, VerifiedInv, ReadIssuesInv,
       ReadChildrenInv, IncompleteInv, ReserveInv, MarkInv, GetInv, ReopenInv, PostInv,
       LinkInv, CloseInv, RecordInv, EndSyncInv
  <1> QED
    BY <1>1, <1>2, SourceChangesInv, HumanClosesInv, CrashInv DEF Next

\* The journal, the plans and what a sync holds have their types: above all, whatever a
\* sync sees, the write it plans has a key made of a dated issue (_apply).
THEOREM TypeCorrectness == Spec => []TypeOK
  <1>1. ReconcileInv /\ [Next]_vars => ReconcileInv'
    BY StepInv
  <1>2. ReconcileInv => TypeOK
    BY DEF ReconcileInv
  <1> QED  BY <1>1, <1>2, InitInv, PTL DEF Spec

\* A settled row of reconcile_operation never changes again, for any number of syncs,
\* texts and issues and under every mode (finish_reconcile).
THEOREM SettledRowsStay == Spec => SettledStays
  <1>1. ReconcileInv /\ [Next]_vars => ReconcileInv'
    BY StepInv
  <1>2. ReconcileInv /\ [Next]_vars =>
          [\A k \in Keys : rows[k] \in {"succeeded", "dead_letter"} => rows'[k] = rows[k]]_vars
    BY StepInv DEF KeepsSettled
  <1> QED  BY <1>1, <1>2, InitInv, PTL DEF Spec, SettledStays

-----------------------------------------------------------------------------
(* One issue.  As long as the row of the first creation has not been        *)
(* claimed, or its claimant has still to send the creation, no issue bears  *)
(* the marker; afterwards nobody can claim it again.                        *)

\* What a sync has seen, plans to change or changes exists.
Known ==
    \A s \in Syncers :
        /\ pc[s] = "children" => seen[s].found \subseteq Marked
        /\ pc[s] \in {"reserve", "mark"} /\ act[s].issue # Nobody => act[s].issue \in Marked
        /\ pc[s] \in {"get", "reopen", "close"} => target[s] \in Marked
        /\ pc[s] = "post" => act[s].issue = Nobody

Unborn ==
    /\ \A k \in Keys : k.issue = Nobody /\ rows[k] \in {"none", "planned"} => Marked = {}
    /\ \A s \in Syncers : pc[s] = "post" => Marked = {}

Sole == Known /\ Unborn /\ \A i, j \in Marked : i = j

OneText == \A t, u \in Texts : t = u

\* With one text there is one key for the first creation.
LEMMA OneFirstKey ==
    ASSUME OneText, NEW k \in Keys, NEW l \in Keys, k.issue = Nobody, l.issue = Nobody
    PROVE  k = l
  <1>1. /\ k \in [op : {"create"}, text : Texts, issue : {Nobody}, ver : {0}]
        /\ l \in [op : {"create"}, text : Texts, issue : {Nobody}, ver : {0}]
    BY ReconcileNobodyAssumption DEF Keys
  <1> QED  BY <1>1 DEF OneText

\* A step of one sync, or of none of them, that creates nothing.
LEMMA SoleStep ==
    ASSUME ReconcileInv, Sole, Marked' = Marked,
           \A k \in Keys : rows'[k] \in {"none", "planned"} => rows[k] \in {"none", "planned"},
           NEW s \in Syncers,
           \A t \in Syncers \ {s} : /\ pc'[t] = pc[t] /\ seen'[t] = seen[t]
                                    /\ act'[t] = act[t] /\ target'[t] = target[t],
           pc'[s] = "children" => seen'[s].found \subseteq Marked,
           pc'[s] \in {"reserve", "mark"} /\ act'[s].issue # Nobody => act'[s].issue \in Marked,
           pc'[s] \in {"get", "reopen", "close"} => target'[s] \in Marked,
           pc'[s] = "post" => act'[s].issue = Nobody /\ Marked = {}
    PROVE  Sole'
  <1>1. Known'
    BY DEF Sole, Known
  <1>2. Unborn'
    BY DEF Sole, Unborn
  <1>3. \A i, j \in Marked' : i = j
    BY DEF Sole
  <1> QED  BY <1>1, <1>2, <1>3 DEF Sole

\* A plan's issue was found.
LEMMA PlanFound ==
    ASSUME NEW o, NEW kids, Plan(o, kids).issue # Nobody
    PROVE  Plan(o, kids).issue \in o.found
  <1> DEFINE i  == IF o.found = {} THEN Nobody ELSE CHOOSE x \in o.found : TRUE
  <1> DEFINE op == Operation(i \in o.open \cap kids, o.wanted)
  <1>1. i \in o.found \/ i = Nobody
    OBVIOUS
  <1>2. CASE Cardinality(o.found) > 1 \/ op = "none"
    BY <1>2 DEF Plan, NoKey
  <1>3. CASE ~(Cardinality(o.found) > 1 \/ op = "none")
    <2>1. Plan(o, kids).issue = i
      BY <1>3 DEF Plan
    <2> HIDE DEF i
    <2> QED  BY <1>1, <2>1
  <1> QED  BY <1>2, <1>3

\* A sync that leaves creates nothing.
LEMMA SoleLeave ==
    ASSUME ReconcileInv, Sole, NEW s \in Syncers, Leave(s), UNCHANGED <<github, rows>>
    PROVE  Sole'
  <1>1. Marked' = Marked /\ rows' = rows
    BY DEF Marked, github
  <1>2. /\ pc'[s] = "idle"
        /\ \A t \in Syncers \ {s} : /\ pc'[t] = pc[t] /\ seen'[t] = seen[t]
                                     /\ act'[t] = act[t] /\ target'[t] = target[t]
    BY DEF ReconcileInv, TypeOK, Leave, Goto
  <1> QED  BY <1>1, <1>2, SoleStep

\* A step of s to a label that Known says nothing of.
LEMMA SoleIdle ==
    ASSUME ReconcileInv, Sole, NEW s \in Syncers,
           NEW label \in {"idle", "verify", "resolve", "issues", "link", "record", "done"},
           pc' = [pc EXCEPT ![s] = label],
           UNCHANGED <<issue, seen, act, target>>,
           \A k \in Keys : rows'[k] \in {"none", "planned"} => rows[k] \in {"none", "planned"}
    PROVE  Sole'
  <1>1. Marked' = Marked
    BY DEF Marked
  <1>2. pc'[s] = label /\ \A t \in Syncers \ {s} : pc'[t] = pc[t]
    BY DEF ReconcileInv, TypeOK
  <1> QED  BY <1>1, <1>2, SoleStep

\* Settling a row, or putting it in doubt, leads to no claim.
LEMMA RowMovesOn ==
    ASSUME ReconcileInv, NEW k, NEW state, state \notin {"none", "planned"},
           rows' = [rows EXCEPT ![k] = state]
    PROVE  \A j \in Keys : rows'[j] \in {"none", "planned"} => rows[j] \in {"none", "planned"}
  BY DEF ReconcileInv, TypeOK

LEMMA SoleVerify ==
    ASSUME ReconcileInv, Sole, NEW s \in Syncers,
           StartSync(s) \/ Look(s) \/ Resolve(s) \/ Verified(s)
    PROVE  Sole'
  <1>1. CASE StartSync(s)
    BY <1>1, SoleIdle DEF StartSync, Goto, github
  <1>2. CASE Look(s)
    <2>1. PICK label \in {"resolve", "verify"} : pc' = [pc EXCEPT ![s] = label]
      BY <1>2 DEF Look, Goto, ReconcileInv, TypeOK
    <2>2. UNCHANGED <<issue, seen, act, target, rows>>
      BY <1>2 DEF Look, github
    <2> QED  BY <2>1, <2>2, SoleIdle
  <1>3. CASE Resolve(s)
    <2> DEFINE k == look[s].key
    <2> DEFINE state == IF look[s].proof = "PRESENT" THEN "succeeded" ELSE "dead_letter"
    <2>1. CASE MayFinish(k, state)
      <3>1. /\ rows' = [rows EXCEPT ![k] = state]
            /\ pc' = [pc EXCEPT ![s] = "verify"]
            /\ UNCHANGED <<issue, seen, act, target>>
        BY <1>3, <2>1 DEF Resolve, FinishReconcile, Goto, github
      <3>2. state \notin {"none", "planned"}
        OBVIOUS
      <3> HIDE DEF k, state
      <3>3. \A j \in Keys : rows'[j] \in {"none", "planned"} => rows[j] \in {"none", "planned"}
        BY <3>1, <3>2, RowMovesOn
      <3> QED  BY <3>1, <3>3, SoleIdle
    <2>2. CASE ~MayFinish(k, state)
      <3>1. Leave(s) /\ UNCHANGED <<github, rows>>
        BY <1>3, <2>2 DEF Resolve
      <3> QED  BY <3>1, SoleLeave
    <2> QED  BY <2>1, <2>2
  <1>4. CASE Verified(s)
    BY <1>4, SoleIdle DEF Verified, Goto, github
  <1> QED  BY <1>1, <1>2, <1>3, <1>4

LEMMA SoleSnapshot ==
    ASSUME ReconcileInv, Sole, NEW s \in Syncers, ReadIssues(s) \/ ReadChildren(s)
    PROVE  Sole'
  <1>1. CASE ReadIssues(s)
    <2> DEFINE o == [wanted |-> wanted, text |-> text, found |-> Marked,
                     open |-> {i \in Marked : issue[i] = "open"}, ver |-> ver]
    <2>1. /\ pc' = [pc EXCEPT ![s] = "children"]
          /\ seen' = [seen EXCEPT ![s] = o]
          /\ UNCHANGED <<issue, rows, act, target>>
      BY <1>1 DEF ReadIssues, Goto, github
    <2>2. o.found = Marked /\ Marked' = Marked
      BY <2>1 DEF Marked
    <2> HIDE DEF o
    <2>3. /\ pc'[s] = "children" /\ seen'[s].found = Marked
          /\ \A t \in Syncers \ {s} : pc'[t] = pc[t] /\ seen'[t] = seen[t]
      BY <2>1, <2>2 DEF ReconcileInv, TypeOK
    <2> QED  BY <2>1, <2>2, <2>3, SoleStep
  <1>2. CASE ReadChildren(s)
    <2> DEFINE p == Plan(seen[s], attached)
    <2>1. /\ act' = [act EXCEPT ![s] = p]
          /\ seen' = [seen EXCEPT ![s] = Unseen]
          /\ pc' = [pc EXCEPT ![s] = IF act'[s] = NoKey THEN "done" ELSE "reserve"]
          /\ UNCHANGED <<issue, rows, target>>
          /\ pc[s] = "children"
      BY <1>2 DEF ReadChildren, Goto, github
    <2>2. p.issue # Nobody => p.issue \in Marked
      BY <2>1, PlanFound DEF Sole, Known
    <2>3. Marked' = Marked
      BY <2>1 DEF Marked
    <2> HIDE DEF p
    <2>4. /\ act'[s] = p /\ pc'[s] \in {"done", "reserve"}
          /\ \A t \in Syncers \ {s} : pc'[t] = pc[t] /\ seen'[t] = seen[t] /\ act'[t] = act[t]
      BY <2>1 DEF ReconcileInv, TypeOK
    <2> QED  BY <2>1, <2>2, <2>3, <2>4, SoleStep
  <1> QED  BY <1>1, <1>2

LEMMA SoleClaim ==
    ASSUME ReconcileInv, Sole, NEW s \in Syncers, Reserve(s) \/ Mark(s)
    PROVE  Sole'
  <1>0. act[s] \in Keys
    BY DEF Reserve, Mark, ReconcileInv, Aimed, Planned
  <1>1. CASE Reserve(s)
    <2>1. UNCHANGED <<issue, seen, act, target>> /\ pc[s] = "reserve"
      BY <1>1 DEF Reserve, github
    <2>2. CASE rows[act[s]] \in {"none", "planned"}
      <3>1. rows' = [rows EXCEPT ![act[s]] = "planned"] /\ pc' = [pc EXCEPT ![s] = "mark"]
        BY <1>1, <2>2 DEF Reserve, Goto
      <3>2. \A k \in Keys : rows'[k] \in {"none", "planned"} => rows[k] \in {"none", "planned"}
        BY <2>2, <3>1 DEF ReconcileInv, TypeOK
      <3>3. pc'[s] = "mark" /\ \A t \in Syncers \ {s} : pc'[t] = pc[t]
        BY <3>1 DEF ReconcileInv, TypeOK
      <3>4. Marked' = Marked
        BY <2>1 DEF Marked
      <3>5. act'[s].issue # Nobody => act'[s].issue \in Marked
        BY <2>1 DEF Sole, Known
      <3> QED  BY <2>1, <3>2, <3>3, <3>4, <3>5, SoleStep
    <2>3. CASE rows[act[s]] \notin {"none", "planned"}
      <3>1. UNCHANGED rows /\ pc' = [pc EXCEPT ![s] = "done"]
        BY <1>1, <2>3 DEF Reserve, Goto
      <3> QED  BY <2>1, <3>1, SoleIdle
    <2> QED  BY <2>2, <2>3
  <1>2. CASE Mark(s)
    <2>1. CASE Claims(act[s])
      <3>1. /\ rows[act[s]] = "planned"
            /\ rows' = [rows EXCEPT ![act[s]] = "applying"]
            /\ pc' = [pc EXCEPT ![s] = FirstCall(act[s])]
            /\ target' = [target EXCEPT ![s] = act[s].issue]
            /\ UNCHANGED <<issue, seen, act>>
            /\ pc[s] = "mark"
        BY <1>2, <2>1 DEF Mark, Goto, Claims, github
      <3>2. /\ FirstCall(act[s]) \in {"get", "post", "close"}
            /\ FirstCall(act[s]) \in {"get", "close"} => act[s].issue # Nobody
            /\ FirstCall(act[s]) = "post" => act[s].issue = Nobody
        BY <1>0, ReconcileNobodyAssumption DEF Keys, FirstCall
      <3>3. /\ pc'[s] = FirstCall(act[s]) /\ target'[s] = act[s].issue
            /\ \A t \in Syncers \ {s} : pc'[t] = pc[t] /\ target'[t] = target[t]
        BY <3>1 DEF ReconcileInv, TypeOK
      <3>4. Marked' = Marked
        BY <3>1 DEF Marked
      <3>5. act[s].issue # Nobody => act[s].issue \in Marked
        BY <3>1 DEF Sole, Known
      <3>6. act[s].issue = Nobody => Marked = {}
        BY <1>0, <3>1 DEF Sole, Unborn
      <3>7. \A k \in Keys : rows'[k] \in {"none", "planned"} => rows[k] \in {"none", "planned"}
        BY <3>1, RowMovesOn
      <3> QED  BY <3>1, <3>2, <3>3, <3>4, <3>5, <3>6, <3>7, SoleStep
    <2>2. CASE ~Claims(act[s])
      <3>1. Leave(s) /\ UNCHANGED <<github, rows>>
        BY <1>2, <2>2 DEF Mark
      <3> QED  BY <3>1, SoleLeave
    <2> QED  BY <2>1, <2>2
  <1> QED  BY <1>1, <1>2

\* A call that creates nothing.
LEMMA SoleCall ==
    ASSUME ReconcileInv, Sole, NEW s \in Syncers, pc[s] \in Calls,
           NEW a \in {"ok", "error", "timeout"}, NEW next \in {"link", "record"},
           Answered(s, a, next), Marked' = Marked,
           \A t \in Syncers \ {s} : target'[t] = target[t]
    PROVE  Sole'
  <1>1. /\ pc'[s] \in {"idle", "done", next} /\ seen' = seen
        /\ \A t \in Syncers \ {s} : pc'[t] = pc[t] /\ act'[t] = act[t]
        /\ \A k \in Keys : rows'[k] \in {rows[k], "verify_pending"}
    BY AnsweredStep
  <1> QED  BY <1>1, SoleStep

LEMMA SoleFailed ==
    ASSUME ReconcileInv, Sole, NEW s \in Syncers, pc[s] \in Calls,
           NEW next \in {"link", "record"}, Failed(s, next)
    PROVE  Sole'
  <1>1. PICK a \in Bad : Answered(s, a, next)
    BY DEF Failed
  <1>2. a \in {"ok", "error", "timeout"}
    BY DEF Bad
  <1>3. Marked' = Marked /\ target' = [target EXCEPT ![s] = Nobody]
    BY DEF Failed, github, Marked
  <1>4. \A t \in Syncers \ {s} : target'[t] = target[t]
    BY <1>3 DEF ReconcileInv, TypeOK
  <1> QED  BY <1>1, <1>2, <1>3, <1>4, SoleCall

\* A call that changes the state of an issue there is.
LEMMA SoleChange ==
    ASSUME ReconcileInv, Sole, NEW s \in Syncers, pc[s] \in Calls,
           NEW next \in {"link", "record"}, NEW now \in {"open", "closed"},
           target[s] \in Marked, issue' = [issue EXCEPT ![target[s]] = now],
           Applied(s, next), UNCHANGED target
    PROVE  Sole'
  <1>1. PICK a \in Bad \cup {"ok"} : Answered(s, a, next)
    BY DEF Applied
  <1>2. a \in {"ok", "error", "timeout"}
    BY DEF Bad
  <1>3. Marked' = Marked
    BY DEF ReconcileInv, TypeOK, Marked
  <1> QED  BY <1>1, <1>2, <1>3, SoleCall

\* The first creation: whoever sends it is the only one to, and no row is left for
\* another.
LEMMA SolePost ==
    ASSUME ReconcileInv, Sole, OneText, NEW s \in Syncers, Post(s)
    PROVE  Sole'
  <1>1. pc[s] = "post" /\ pc[s] \in Calls
    BY DEF Post, Calls
  <1>2. CASE Failed(s, "link")
    BY <1>1, <1>2, SoleFailed
  <1>3. ASSUME NEW i \in Issues,
               issue' = [issue EXCEPT ![i] = "open"], Applied(s, "link"),
               target' = [target EXCEPT ![s] = i]
        PROVE  Sole'
    <2>1. PICK a \in Bad \cup {"ok"} : Answered(s, a, "link")
      BY <1>3 DEF Applied
    <2>2. a \in {"ok", "error", "timeout"}
      BY DEF Bad
    <2>3. /\ pc'[s] \in {"idle", "done", "link"} /\ seen' = seen
          /\ \A t \in Syncers \ {s} : pc'[t] = pc[t] /\ act'[t] = act[t]
          /\ \A k \in Keys : rows'[k] \in {rows[k], "verify_pending"}
      BY <1>1, <2>1, <2>2, AnsweredStep
    <2>4. Marked = {} /\ Marked' = {i}
      BY <1>1, <1>3 DEF ReconcileInv, TypeOK, Sole, Unborn, Marked
    <2>5. act[s] \in Keys /\ rows[act[s]] = "applying" /\ act[s].issue = Nobody
      BY <1>1 DEF ReconcileInv, Aimed, Owned, Planned, Writing, Sole, Known
    <2>6. \A t \in Syncers : pc[t] = "post" => t = s
      <3> SUFFICES ASSUME NEW t \in Syncers, pc[t] = "post" PROVE t = s
        OBVIOUS
      <3>1. act[t] \in Keys /\ act[t].issue = Nobody /\ pc[t] \in Writing
        BY DEF ReconcileInv, Aimed, Planned, Writing, Calls, Sole, Known
      <3>2. act[t] = act[s]
        BY <2>5, <3>1, OneFirstKey
      <3> QED  BY <1>1, <3>1, <3>2 DEF ReconcileInv, Owned, Writing
    <2>7. \A k \in Keys : k.issue = Nobody => rows'[k] \notin {"none", "planned"}
      BY <2>3, <2>5, OneFirstKey
    <2>8. Unborn'
      BY <2>3, <2>6, <2>7 DEF Unborn
    <2>9. \A t \in Syncers \ {s} : target'[t] = target[t]
      BY <1>3 DEF ReconcileInv, TypeOK
    <2>10. Known'
      BY <2>3, <2>4, <2>9 DEF Sole, Known
    <2> QED  BY <2>4, <2>8, <2>10 DEF Sole
  <1> QED  BY <1>2, <1>3 DEF Post

LEMMA SoleApply ==
    ASSUME ReconcileInv, Sole, OneText, NEW s \in Syncers,
           Get(s) \/ Reopen(s) \/ Post(s) \/ Link(s) \/ Close(s) \/ Record(s)
    PROVE  Sole'
  <1>1. CASE Get(s)
    <2>1. pc[s] = "get" /\ pc[s] \in Calls
      BY <1>1 DEF Get, Calls
    <2>2. CASE /\ Goto(s, IF issue[target[s]] = "open" THEN "link" ELSE "reopen")
               /\ UNCHANGED <<github, rows, seen, act, target>>
      <3>1. Marked' = Marked
        BY <2>2 DEF Marked, github
      <3>2. /\ pc'[s] \in {"link", "reopen"} /\ target'[s] \in Marked
            /\ \A t \in Syncers \ {s} : pc'[t] = pc[t]
        BY <2>1, <2>2 DEF ReconcileInv, TypeOK, Goto, Sole, Known
      <3> QED  BY <2>2, <3>1, <3>2, SoleStep
    <2>3. CASE Failed(s, "link")
      BY <2>1, <2>3, SoleFailed
    <2>4. CASE /\ FinishReconcile(act[s], "dead_letter")
               /\ Goto(s, "done")
               /\ UNCHANGED <<github, seen, act, target>>
      <3>1. /\ rows' = [rows EXCEPT ![act[s]] = "dead_letter"]
            /\ pc' = [pc EXCEPT ![s] = "done"]
            /\ UNCHANGED <<issue, seen, act, target>>
        BY <2>4 DEF FinishReconcile, Goto, github
      <3>2. \A k \in Keys : rows'[k] \in {"none", "planned"} => rows[k] \in {"none", "planned"}
        BY <3>1, RowMovesOn
      <3> QED  BY <3>1, <3>2, SoleIdle
    <2> QED  BY <1>1, <2>2, <2>3, <2>4 DEF Get
  <1>2. CASE Reopen(s)
    <2>1. pc[s] = "reopen" /\ pc[s] \in Calls /\ target[s] \in Marked
      BY <1>2 DEF Reopen, Calls, Sole, Known
    <2> QED  BY <1>2, <2>1, SoleFailed, SoleChange DEF Reopen
  <1>3. CASE Post(s)
    BY <1>3, SolePost
  <1>4. CASE Link(s)
    <2>1. pc[s] = "link" /\ pc[s] \in Calls
      BY <1>4 DEF Link, Calls
    <2>2. CASE Applied(s, "record") /\ UNCHANGED <<issue, target>>
      <3>1. PICK a \in Bad \cup {"ok"} : Answered(s, a, "record")
        BY <2>2 DEF Applied
      <3>2. a \in {"ok", "error", "timeout"}
        BY DEF Bad
      <3>3. Marked' = Marked
        BY <2>2 DEF Marked
      <3> QED  BY <2>1, <2>2, <3>1, <3>2, <3>3, SoleCall
    <2> QED  BY <1>4, <2>1, <2>2, SoleFailed DEF Link
  <1>5. CASE Close(s)
    <2>1. pc[s] = "close" /\ pc[s] \in Calls /\ target[s] \in Marked
      BY <1>5 DEF Close, Calls, Sole, Known
    <2> QED  BY <1>5, <2>1, SoleFailed, SoleChange DEF Close
  <1>6. CASE Record(s)
    <2>1. CASE MayFinish(act[s], "succeeded")
      <3>1. /\ rows' = [rows EXCEPT ![act[s]] = "succeeded"]
            /\ pc' = [pc EXCEPT ![s] = "done"]
            /\ UNCHANGED <<issue, seen, act, target>>
        BY <1>6, <2>1 DEF Record, FinishReconcile, Goto, github
      <3>2. \A k \in Keys : rows'[k] \in {"none", "planned"} => rows[k] \in {"none", "planned"}
        BY <3>1, RowMovesOn
      <3> QED  BY <3>1, <3>2, SoleIdle
    <2>2. CASE ~MayFinish(act[s], "succeeded")
      <3>1. Leave(s) /\ UNCHANGED <<github, rows>>
        BY <1>6, <2>2 DEF Record
      <3> QED  BY <3>1, SoleLeave
    <2> QED  BY <2>1, <2>2
  <1> QED  BY <1>1, <1>2, <1>3, <1>4, <1>5, <1>6

\* The steps that are no sync's leave the syncs' plans and the set of issues alone.
LEMMA SoleOthers ==
    ASSUME ReconcileInv, Sole, SourceChanges \/ Crash \/ \E i \in Issues : HumanCloses(i)
    PROVE  Sole'
  <1>1. CASE SourceChanges
    <2>1. UNCHANGED <<issue, rows, pc, seen, act, target>>
      BY <1>1 DEF SourceChanges, github, sync
    <2> QED  BY <2>1 DEF Sole, Known, Unborn, Marked
  <1>2. CASE Crash
    <2>1. UNCHANGED <<issue, rows>> /\ pc' = [s \in Syncers |-> "idle"]
      BY <1>2 DEF Crash, github
    <2> QED  BY <2>1 DEF Sole, Known, Unborn, Marked
  <1>3. ASSUME NEW i \in Issues, HumanCloses(i) PROVE Sole'
    <2>1. /\ UNCHANGED <<rows, pc, seen, act, target>>
          /\ issue[i] = "open" /\ issue' = [issue EXCEPT ![i] = "closed"]
      BY <1>3 DEF HumanCloses, sync
    <2>2. Marked' = Marked
      BY <2>1 DEF ReconcileInv, TypeOK, Marked
    <2>3. Known' /\ Unborn'
      BY <2>1, <2>2 DEF Sole, Known, Unborn
    <2> QED  BY <2>2, <2>3 DEF Sole
  <1> QED  BY <1>1, <1>2, <1>3

\* As long as the source keeps its text, at most one issue comes to bear its marker,
\* for any number of syncs and whatever fails, is cut off or lost (reserve_reconcile,
\* mark_reconcile_applying).
THEOREM AtMostOneIssue == Spec => []OneIssue
  <1>1. Init => (OneText => Sole)
    BY DEF Init, Sole, Known, Unborn, Marked
  <1>2. ASSUME ReconcileInv, OneText, Sole, [Next]_vars PROVE Sole'
    <2>1. CASE UNCHANGED vars
      <3>1. UNCHANGED <<issue, rows, pc, seen, act, target>>
        BY <2>1 DEF vars, github, sync
      <3> QED  BY <1>2, <3>1 DEF Sole, Known, Unborn, Marked
    <2>2. ASSUME NEW s \in Syncers, Incomplete(s) \/ EndSync(s) PROVE Sole'
      <3>1. Leave(s) /\ UNCHANGED <<github, rows>>
        BY <2>2 DEF Incomplete, EndSync
      <3> QED  BY <1>2, <3>1, SoleLeave
    <2>3. ASSUME NEW s \in Syncers,
                 \/ StartSync(s) \/ Look(s) \/ Resolve(s) \/ Verified(s)
                 \/ ReadIssues(s) \/ ReadChildren(s) \/ Reserve(s) \/ Mark(s)
                 \/ Get(s) \/ Reopen(s) \/ Post(s) \/ Link(s) \/ Close(s) \/ Record(s)
          PROVE  Sole'
      BY <1>2, <2>3, SoleVerify, SoleSnapshot, SoleClaim, SoleApply
    <2> QED  BY <1>2, <2>1, <2>2, <2>3, SoleOthers DEF Next
  <1>3. ReconcileInv /\ (OneText => Sole) /\ [Next]_vars => ReconcileInv' /\ (OneText => Sole)'
    BY <1>2, StepInv DEF OneText
  <1>4. (OneText => Sole) => OneIssue
    BY DEF OneText, Sole, OneIssue
  <1> QED  BY <1>1, <1>3, <1>4, InitInv, PTL DEF Spec

-----------------------------------------------------------------------------
(* One sync suffices.  Issues only come, join the queue and change their   *)
(* version with every change, so that a row still shows what its write has *)
(* achieved as long as the version in its key is the issue's; and what an  *)
(* undisturbed sync has read still holds when it acts on it.               *)

\* The issue has changed since the key was made.
Later(k) == ver[k.issue] > k.ver

\* The key was made from an issue that exists.
Placed(k) == k.issue # Nobody => k.issue \in Marked /\ k.ver <= ver[k.issue]

\* What a creation that was begun has achieved, unless it failed before that.
Tried(k) ==
    k.op = "create" /\ k.issue # Nobody =>
        k \in unopened \/ Later(k) \/ issue[k.issue] = "open"

\* What a write that succeeded has achieved.
Effect(k) ==
    IF k.issue = Nobody THEN Marked # {}
    ELSE IF k.op = "create"
         THEN k \in unopened \/ Later(k) \/ (issue[k.issue] = "open" /\ k.issue \in attached)
         ELSE Later(k) \/ issue[k.issue] = "closed"

\* What verify_reconcile finds when it answers PRESENT.
Proven(k) ==
    IF k.issue = Nobody THEN Marked # {}
    ELSE IF k.op = "create" THEN k.issue \in attached
         ELSE Later(k) \/ issue[k.issue] = "closed"

RowTells(k) ==
    /\ rows[k] # "none" => Placed(k)
    /\ rows[k] = "verify_pending" => Tried(k)
    /\ rows[k] = "succeeded" => Effect(k)

\* What a sync has read and decided, by where it is.
Trace(s) ==
    /\ pc[s] = "children" =>
         /\ seen[s].found \subseteq Marked
         /\ \A i \in Issues : seen[s].ver[i] <= ver[i]
    /\ pc[s] \in Planned => Placed(act[s])
    /\ pc[s] \in {"get", "reopen", "close"} => target[s] = act[s].issue /\ target[s] \in Marked
    /\ pc[s] \in {"get", "reopen", "post", "link"} => act[s].op = "create"
    /\ pc[s] = "close" => act[s].op = "close"
    /\ pc[s] = "post" => act[s].issue = Nobody
    /\ pc[s] = "link" =>
         /\ target[s] \in Marked
         /\ act[s].issue # Nobody =>
              target[s] = act[s].issue /\ (Later(act[s]) \/ issue[target[s]] = "open")
    /\ pc[s] = "record" => Effect(act[s])
    /\ pc[s] = "resolve" /\ look[s].proof = "PRESENT" => Proven(look[s].key)

\* The source and the issues as they are.
Now == [wanted |-> wanted, text |-> text, found |-> Marked,
        open |-> {i \in Marked : issue[i] = "open"}, ver |-> ver]

InDoubt == {k \in Keys : rows[k] = "verify_pending"}

\* What a sync may end with: OneSyncSuffices says it of one.
Enough(s) ==
    \/ Agreed
    \/ Cardinality(Marked) > 1
    \/ act[s] # NoKey /\ rows[act[s]] \in {"applying", "dead_letter"}
    \/ act[s] \in unopened

\* What an undisturbed sync has read still holds.
Undisturbed(s) ==
    calm[s] =>
      /\ pc[s] = "verify" => InDoubt \subseteq todo[s]
      /\ pc[s] = "resolve" => InDoubt \subseteq todo[s] \cup {look[s].key}
      /\ pc[s] \in {"issues", "children", "reserve"} => InDoubt = {}
      /\ pc[s] = "children" => seen[s] = Now
      /\ pc[s] \in {"reserve", "mark", "get", "reopen", "post", "close"} =>
           act[s] = Plan(Now, attached)
      /\ pc[s] = "link" => wanted /\ issue[target[s]] = "open"
      /\ pc[s] = "record" => Agreed
      /\ pc[s] = "done" => Enough(s)

Queue == attached \subseteq Marked /\ \A k \in Keys : RowTells(k)

SyncInv == ReconcileInv /\ Queue /\ \A s \in Syncers : Trace(s) /\ Undisturbed(s)

\* What every step does to GitHub.
Grows ==
    /\ Marked \subseteq Marked' /\ attached \subseteq attached' /\ unopened \subseteq unopened'
    /\ \A i \in Issues : ver[i] <= ver'[i] /\ (ver'[i] = ver[i] => issue'[i] = issue[i])

LEMMA KeyTyped ==
    ASSUME NEW k \in Keys
    PROVE  k.issue \in Issues \cup {Nobody} /\ k.ver \in Nat /\ k.op \in {"create", "close"}
           /\ (k.issue = Nobody => k.op = "create") /\ k # NoKey
BY ReconcileNumbersAssumption, ReconcileNobodyAssumption DEF Keys, NoKey

\* What has been achieved stays achieved, or the issue's version shows that it changed.
LEMMA KeyStays ==
    ASSUME ReconcileInv, ReconcileInv', Grows, NEW k \in Keys, Placed(k)
    PROVE  /\ Placed(k)'
           /\ Tried(k) => Tried(k)'
           /\ Effect(k) => Effect(k)'
           /\ Proven(k) => Proven(k)'
           /\ k.issue # Nobody => Later(k)' \/ (~Later(k) /\ issue'[k.issue] = issue[k.issue])
  <1>1. k.issue \in Issues \cup {Nobody} /\ k.ver \in Nat
    BY KeyTyped
  <1>2. \A i \in Issues : ver[i] \in Nat /\ ver'[i] \in Nat
    BY ReconcileNumbersAssumption DEF ReconcileInv, TypeOK
  <1>3. Placed(k)'
    BY <1>1, <1>2 DEF Grows, Placed
  <1>4. k.issue # Nobody => Later(k)' \/ (~Later(k) /\ issue'[k.issue] = issue[k.issue])
    BY <1>1, <1>2 DEF Grows, Placed, Later
  <1>5. Tried(k) => Tried(k)'
    BY <1>4 DEF Grows, Tried
  <1>6. Effect(k) => Effect(k)'
    BY <1>4 DEF Grows, Effect
  <1>7. Proven(k) => Proven(k)'
    BY <1>4 DEF Grows, Proven
  <1> QED  BY <1>3, <1>4, <1>5, <1>6, <1>7

\* Who is still undisturbed after a step.
LEMMA CalmAfter ==
    ASSUME NEW s \in Syncers, NEW t \in Syncers
    PROVE  /\ Alone(s) /\ calm'[t] => t = s /\ calm[s]
           /\ Alone(s) \/ Disturbed => UNCHANGED unopened
           /\ Disturbed => ~calm'[t]
BY DEF Alone, Disturbed

\* The three ways a call may be answered.
LEMMA AnsweredCases ==
    ASSUME NEW s \in Syncers, NEW a \in Bad \cup {"ok"}, NEW next, Answered(s, a, next)
    PROVE  /\ UNCHANGED <<todo, look, seen>>
           /\ \/ /\ a = "ok" /\ pc' = [pc EXCEPT ![s] = next] /\ Alone(s)
                 /\ UNCHANGED <<rows, act, unopened>>
              \/ /\ a = "error" /\ pc' = [pc EXCEPT ![s] = "done"]
                 /\ rows' = [rows EXCEPT ![act[s]] = "verify_pending"]
                 /\ \A t \in Syncers : ~calm'[t]
                 /\ unopened' = IF pc[s] \in {"get", "reopen"} THEN unopened \cup {act[s]} ELSE unopened
                 /\ UNCHANGED act
              \/ /\ a = "timeout" /\ pc' = [pc EXCEPT ![s] = "idle"] /\ Disturbed
                 /\ act' = [act EXCEPT ![s] = NoKey]
                 /\ UNCHANGED <<rows, unopened>>
  <1>1. CASE a = "ok"
    BY <1>1 DEF Answered, Goto, Alone
  <1>2. CASE a = "error"
    BY <1>2 DEF Answered, Goto, FinishReconcile
  <1>3. CASE a = "timeout"
    BY <1>3 DEF Answered, Goto, Disturbed
  <1> QED  BY <1>1, <1>2, <1>3 DEF Bad

LEMMA ChangeGrows ==
    ASSUME ReconcileInv, NEW i \in Issues, NEW now \in {"open", "closed"}, Changes(i),
           issue' = [issue EXCEPT ![i] = now], UNCHANGED attached, unopened \subseteq unopened'
    PROVE  Grows /\ Marked' = Marked \cup {i} /\ ver'[i] > ver[i]
  <1>1. \A j \in Issues : ver[j] \in Nat
    BY ReconcileNumbersAssumption DEF ReconcileInv, TypeOK
  <1>2. ver'[i] = ver[i] + 1 /\ \A j \in Issues : j # i => ver'[j] = ver[j] /\ issue'[j] = issue[j]
    BY DEF Changes, ReconcileInv, TypeOK
  <1>3. Marked' = Marked \cup {i}
    BY DEF Marked, ReconcileInv, TypeOK
  <1> QED  BY <1>1, <1>2, <1>3 DEF Grows

LEMMA StillGrows ==
    ASSUME ReconcileInv, UNCHANGED github, unopened \subseteq unopened'
    PROVE  Grows /\ Marked' = Marked
  <1>1. UNCHANGED <<issue, attached, ver>>
    BY DEF github
  <1>2. \A j \in Issues : ver[j] \in Nat
    BY ReconcileNumbersAssumption DEF ReconcileInv, TypeOK
  <1> QED  BY <1>1, <1>2 DEF Grows, Marked

LEMMA FailedDef ==
    ASSUME ReconcileInv, NEW s \in Syncers, NEW next, Failed(s, next)
    PROVE  /\ UNCHANGED <<github, todo, look, seen>> /\ unopened \subseteq unopened'
           /\ pc'[s] \in {"idle", "done"} /\ \A t \in Syncers : ~calm'[t]
           /\ \A t \in Syncers \ {s} : pc'[t] = pc[t] /\ act'[t] = act[t] /\ target'[t] = target[t]
           /\ \/ UNCHANGED rows
              \/ /\ rows' = [rows EXCEPT ![act[s]] = "verify_pending"]
                 /\ pc[s] \in {"get", "reopen"} => act[s] \in unopened'
  <1>1. PICK a \in Bad : Answered(s, a, next)
    BY DEF Failed
  <1>2. UNCHANGED github /\ target' = [target EXCEPT ![s] = Nobody] /\ a # "ok"
    BY DEF Failed, Bad
  <1>3. Disturbed => \A t \in Syncers : ~calm'[t]
    BY DEF Disturbed
  <1> QED  BY <1>1, <1>2, <1>3, AnsweredCases DEF ReconcileInv, TypeOK

\* What another sync has read and decided stands.
LEMMA TraceKept ==
    ASSUME SyncInv, ReconcileInv', Grows, NEW t \in Syncers,
           pc'[t] = pc[t], act'[t] = act[t], target'[t] = target[t], seen'[t] = seen[t],
           look'[t] = look[t]
    PROVE  Trace(t)'
  <1> USE DEF SyncInv
  <1>1. Trace(t)
    OBVIOUS
  <1>2. pc[t] \in Planned => act[t] \in Keys /\ Placed(act[t])
    BY <1>1 DEF ReconcileInv, Aimed, Trace
  <1>3. pc[t] = "resolve" => look[t].key \in Keys /\ Placed(look[t].key)
    BY DEF ReconcileInv, PastWrite, Past, Queue, RowTells
  <1>4. /\ pc[t] \in Planned => Placed(act[t])'
        /\ pc[t] = "record" => Effect(act[t])'
    <2> SUFFICES ASSUME pc[t] \in Planned
                 PROVE  Placed(act[t])' /\ (pc[t] = "record" => Effect(act[t])')
      BY DEF Planned, Writing
    <2>1. PICK k \in Keys : k = act[t]
      BY <1>2
    <2>2. Placed(k)' /\ (Effect(k) => Effect(k)')
      BY <1>2, <2>1, KeyStays
    <2>3. pc[t] = "record" => Effect(k)
      BY <1>1, <2>1 DEF Trace
    <2>4. act'[t] = k
      BY <2>1
    <2>5. Placed(act[t])'
      BY <2>2, <2>4 DEF Placed
    <2>6. pc[t] = "record" => Effect(act[t])'
      BY <2>2, <2>3, <2>4 DEF Effect, Later
    <2> QED  BY <2>5, <2>6
  <1>5. pc[t] = "resolve" /\ look[t].proof = "PRESENT" => Proven(look[t].key)'
    <2> SUFFICES ASSUME pc[t] = "resolve", look[t].proof = "PRESENT"
                 PROVE  Proven(look[t].key)'
      OBVIOUS
    <2>1. PICK k \in Keys : k = look[t].key
      BY <1>3
    <2>2. Proven(k) /\ Placed(k)
      BY <1>1, <1>3, <2>1 DEF Trace
    <2>3. Proven(k)' /\ look'[t].key = k
      BY <2>1, <2>2, KeyStays
    <2> QED  BY <2>3 DEF Proven, Later
  <1>6. pc[t] = "children" => /\ seen'[t].found \subseteq Marked'
                              /\ \A i \in Issues : seen'[t].ver[i] <= ver'[i]
    <2>1. \A i \in Issues : ver[i] \in Nat /\ ver'[i] \in Nat /\ seen[t].ver[i] \in Nat
      BY ReconcileNumbersAssumption DEF ReconcileInv, TypeOK, Observations
    <2> QED  BY <1>1, <2>1 DEF Trace, Grows
  <1>7. pc[t] = "link" /\ act[t].issue # Nobody =>
          Later(act[t])' \/ issue'[act[t].issue] = "open"
    <2> SUFFICES ASSUME pc[t] = "link", act[t].issue # Nobody
                 PROVE  Later(act[t])' \/ issue'[act[t].issue] = "open"
      OBVIOUS
    <2>1. PICK k \in Keys : k = act[t]
      BY <1>2 DEF Planned, Writing, Calls
    <2>2. Placed(k) /\ (Later(k) \/ issue[k.issue] = "open") /\ k.issue # Nobody
      BY <1>1, <1>2, <2>1 DEF Trace, Planned, Writing, Calls
    <2>3. Later(k)' \/ (~Later(k) /\ issue'[k.issue] = issue[k.issue])
      BY <2>2, KeyStays
    <2> QED  BY <2>1, <2>2, <2>3 DEF Later
  <1> QED
    BY <1>1, <1>4, <1>5, <1>6, <1>7 DEF Trace, Grows

\* A step of one sync: what is left to show is about that sync and the rows it writes.
LEMMA SyncStep ==
    ASSUME SyncInv, ReconcileInv', Grows, NEW s \in Syncers,
           \A t \in Syncers \ {s} :
               /\ pc'[t] = pc[t] /\ act'[t] = act[t] /\ target'[t] = target[t]
               /\ seen'[t] = seen[t] /\ look'[t] = look[t] /\ ~calm'[t],
           attached' \subseteq Marked',
           \A k \in Keys : \/ rows'[k] = rows[k]
                           \/ /\ Placed(k)'
                              /\ rows'[k] = "verify_pending" => Tried(k)'
                              /\ rows'[k] = "succeeded" => Effect(k)',
           Trace(s)', Undisturbed(s)'
    PROVE  SyncInv'
  <1>1. \A t \in Syncers \ {s} : Trace(t)'
    BY TraceKept
  <1>2. \A t \in Syncers \ {s} : Undisturbed(t)'
    BY DEF Undisturbed
  <1>3. ASSUME NEW k \in Keys
        PROVE  RowTells(k)'
    <2>1. CASE rows'[k] = rows[k]
      BY <2>1, KeyStays DEF SyncInv, Queue, RowTells
    <2>2. CASE rows'[k] # rows[k]
      BY <2>2 DEF RowTells
    <2> QED  BY <2>1, <2>2
  <1> QED  BY <1>1, <1>2, <1>3 DEF SyncInv, Queue

\* A step that is no sync's.
LEMMA NoSyncStep ==
    ASSUME SyncInv, ReconcileInv', Grows, UNCHANGED rows, attached' \subseteq Marked',
           \A t \in Syncers : /\ ~calm'[t]
                              /\ \/ pc'[t] = "idle"
                                 \/ /\ pc'[t] = pc[t] /\ act'[t] = act[t] /\ target'[t] = target[t]
                                    /\ seen'[t] = seen[t] /\ look'[t] = look[t]
    PROVE  SyncInv'
  <1>1. \A k \in Keys : RowTells(k)'
    BY KeyStays DEF SyncInv, Queue, RowTells
  <1>2. \A t \in Syncers : Undisturbed(t)'
    BY DEF Undisturbed
  <1>3. \A t \in Syncers : pc'[t] = "idle" => Trace(t)'
    BY DEF Trace, Planned, Writing, Calls
  <1>4. \A t \in Syncers : Trace(t)'
    BY <1>3, TraceKept
  <1> QED  BY <1>1, <1>2, <1>4 DEF SyncInv, Queue

LEMMA OtherSteps ==
    ASSUME SyncInv, ReconcileInv',
           SourceChanges \/ Crash \/ (\E i \in Issues : HumanCloses(i))
    PROVE  SyncInv'
  <1> USE DEF SyncInv
  <1>1. Disturbed => UNCHANGED unopened /\ \A t \in Syncers : ~calm'[t]
    BY DEF Disturbed
  <1>2. CASE SourceChanges
    <2>1. UNCHANGED <<github, rows, sync>> /\ Disturbed
      BY <1>2 DEF SourceChanges
    <2>2. Grows /\ Marked' = Marked
      BY <1>1, <2>1, StillGrows
    <2> QED  BY <1>1, <2>1, <2>2, NoSyncStep DEF github, sync, Queue
  <1>3. CASE Crash
    <2>1. UNCHANGED <<github, rows>> /\ Disturbed /\ \A t \in Syncers : pc'[t] = "idle"
      BY <1>3 DEF Crash
    <2>2. Grows /\ Marked' = Marked
      BY <1>1, <2>1, StillGrows
    <2> QED  BY <1>1, <2>1, <2>2, NoSyncStep DEF github, Queue
  <1>4. ASSUME NEW i \in Issues, HumanCloses(i)
        PROVE  SyncInv'
    <2>1. /\ UNCHANGED <<rows, sync, attached>> /\ Disturbed /\ Changes(i)
          /\ issue' = [issue EXCEPT ![i] = "closed"]
      BY <1>4 DEF HumanCloses
    <2>2. Grows /\ Marked' = Marked \cup {i}
      BY <1>1, <2>1, ChangeGrows
    <2> QED  BY <1>1, <2>1, <2>2, NoSyncStep DEF sync, Queue
  <1> QED  BY <1>2, <1>3, <1>4

\* A sync that leaves has nothing more to show for it.
LEMMA SyncLeaves ==
    ASSUME SyncInv, ReconcileInv', NEW s \in Syncers, Leave(s), UNCHANGED <<github, rows>>,
           Alone(s) \/ Disturbed
    PROVE  SyncInv'
  <1> USE DEF SyncInv
  <1>1. UNCHANGED unopened /\ \A t \in Syncers : t # s => ~calm'[t]
    BY CalmAfter
  <1>2. Grows /\ Marked' = Marked
    BY <1>1, StillGrows
  <1>3. /\ pc'[s] = "idle"
        /\ \A t \in Syncers \ {s} :
               /\ pc'[t] = pc[t] /\ act'[t] = act[t] /\ target'[t] = target[t]
               /\ seen'[t] = seen[t] /\ look'[t] = look[t]
    BY DEF Leave, Goto, ReconcileInv, TypeOK
  <1>4. Trace(s)' /\ Undisturbed(s)'
    BY <1>3 DEF Trace, Undisturbed, Planned, Writing, Calls
  <1> QED  BY <1>1, <1>2, <1>3, <1>4, SyncStep DEF github, Queue

\* No more than one.
LEMMA AtMostOne ==
    ASSUME NEW S, IsFiniteSet(S), ~(Cardinality(S) > 1)
    PROVE  \A i, j \in S : i = j
  <1>1. Cardinality(S) \in Nat
    BY FS_CardinalityType
  <1>2. CASE Cardinality(S) = 0
    BY <1>2, FS_EmptySet
  <1>3. CASE Cardinality(S) = 1
    BY <1>3, FS_Singleton
  <1> QED  BY <1>1, <1>2, <1>3

\* What the plan of an undisturbed sync says of the queue.
LEMMA PlanNow ==
    ASSUME ReconcileInv, IsFiniteSet(Issues), attached \subseteq Marked
    PROVE  LET p == Plan(Now, attached) IN
           /\ p.op \in {"create", "close", "none"} /\ (p.op = "none" => p = NoKey)
           /\ p = NoKey => Agreed \/ Cardinality(Marked) > 1
           /\ p # NoKey => \A i, j \in Marked : i = j
           /\ p.op = "create" => /\ wanted
                                 /\ p.issue = Nobody => Marked = {}
                                 /\ p.issue # Nobody => ~(issue[p.issue] = "open" /\ p.issue \in attached)
           /\ p.op = "close" => ~wanted /\ p.issue \in Marked /\ issue[p.issue] = "open"
           /\ p.issue # Nobody => p.issue \in Marked /\ p.ver = ver[p.issue]
  <1> DEFINE o == Now
  <1> DEFINE i == IF o.found = {} THEN Nobody ELSE CHOOSE x \in o.found : TRUE
  <1> DEFINE there == i \in o.open \cap attached
  <1> DEFINE op == Operation(there, o.wanted)
  <1> DEFINE p == Plan(o, attached)
  <1>1. o.found = Marked /\ o.wanted = wanted /\ o.ver = ver /\ o.text = text
        /\ o.open = {x \in Marked : issue[x] = "open"}
    BY DEF Now
  <1>2. i \in Marked \/ (Marked = {} /\ i = Nobody)
    BY <1>1
  <1>3. Marked \subseteq Issues /\ Nobody \notin Marked
    BY ReconcileNobodyAssumption DEF Marked
  <1>4. i # Nobody <=> i \in Marked
    BY <1>2, <1>3
  <1>5. there <=> i \in Marked /\ issue[i] = "open" /\ i \in attached
    BY <1>1
  <1>6. /\ op \in {"create", "close", "none"}
        /\ op = "create" <=> wanted /\ ~there
        /\ op = "close" <=> ~wanted /\ there
    BY <1>1 DEF Operation, ReconcileInv, TypeOK
  <1>7. IsFiniteSet(Marked)
    BY <1>3, FS_Subset
  <1>8. p = IF Cardinality(Marked) > 1 \/ op = "none" THEN NoKey
            ELSE [op |-> op, issue |-> i, text |-> IF op = "create" THEN o.text ELSE Nobody,
                  ver |-> IF i = Nobody THEN 0 ELSE ver[i]]
    BY <1>1 DEF Plan
  <1> HIDE DEF i, there, op, p, o
  <1>9. CASE Cardinality(Marked) > 1
    BY <1>8, <1>9 DEF NoKey, p, o
  <1>10. CASE ~(Cardinality(Marked) > 1)
    <2>1. \A x, y \in Marked : x = y
      BY <1>7, <1>10, AtMostOne
    <2>2. CASE op = "none"
      <3>1. p = NoKey
        BY <1>8, <2>2
      <3>2. wanted <=> there
        BY <1>6, <2>2
      <3>3. Agreed
        BY <1>2, <1>4, <1>5, <2>1, <3>2 DEF Agreed
      <3> QED  BY <3>1, <3>3 DEF NoKey, p, o
    <2>3. CASE op # "none"
      <3>1. p.op = op /\ p.issue = i /\ p.ver = IF i = Nobody THEN 0 ELSE ver[i]
        BY <1>8, <1>10, <2>3
      <3>2. p # NoKey
        BY <2>3, <3>1 DEF NoKey
      <3> QED  BY <1>2, <1>4, <1>5, <1>6, <2>1, <2>3, <3>1, <3>2 DEF p, o
    <2> QED  BY <2>2, <2>3
  <1> QED  BY <1>9, <1>10

\* A step of s that leaves GitHub alone.
LEMMA SyncThinks ==
    ASSUME SyncInv, ReconcileInv', NEW s \in Syncers, UNCHANGED <<github, unopened>>,
           \A t \in Syncers \ {s} :
               /\ pc'[t] = pc[t] /\ act'[t] = act[t] /\ target'[t] = target[t]
               /\ seen'[t] = seen[t] /\ look'[t] = look[t] /\ ~calm'[t],
           \A k \in Keys : \/ rows'[k] = rows[k]
                           \/ /\ Placed(k)'
                              /\ rows'[k] = "verify_pending" => Tried(k)'
                              /\ rows'[k] = "succeeded" => Effect(k)',
           Trace(s)', Undisturbed(s)'
    PROVE  SyncInv'
  <1>1. Grows /\ Marked' = Marked
    BY StillGrows DEF SyncInv
  <1>2. attached' \subseteq Marked'
    BY <1>1 DEF SyncInv, Queue, github
  <1> QED  BY <1>1, <1>2, SyncStep

LEMMA VerifySteps ==
    ASSUME SyncInv, ReconcileInv', NEW s \in Syncers, StartSync(s) \/ Look(s) \/ Verified(s)
    PROVE  SyncInv'
  <1> USE DEF SyncInv
  <1>1. CASE StartSync(s)
    <2>1. /\ UNCHANGED <<github, rows, look, seen, act, target, unopened>>
          /\ pc'[s] = "verify" /\ \A t \in Syncers \ {s} : pc'[t] = pc[t]
      BY <1>1 DEF StartSync, Goto, ReconcileInv, TypeOK
    <2>2. \A t \in Syncers \ {s} : ~calm'[t]
      BY <1>1 DEF StartSync
    <2>3. InDoubt' \subseteq todo'[s]
      BY <1>1 DEF StartSync, InDoubt, ReconcileInv, TypeOK
    <2>4. Trace(s)'
      BY <2>1 DEF Trace, Planned, Writing, Calls
    <2>5. Undisturbed(s)'
      BY <2>1, <2>3 DEF Undisturbed
    <2> QED  BY <2>1, <2>2, <2>4, <2>5, SyncThinks
  <1>2. CASE Verified(s)
    <2>1. /\ UNCHANGED <<github, rows, todo, look, seen, act, target>> /\ Alone(s)
          /\ pc[s] = "verify" /\ todo[s] = {}
          /\ pc'[s] = "issues" /\ \A t \in Syncers \ {s} : pc'[t] = pc[t]
      BY <1>2 DEF Verified, Goto, ReconcileInv, TypeOK
    <2>2. UNCHANGED unopened /\ (calm'[s] => calm[s]) /\ \A t \in Syncers \ {s} : ~calm'[t]
      BY <2>1, CalmAfter
    <2>3. Trace(s)'
      BY <2>1 DEF Trace, Planned, Writing, Calls
    <2>4. calm'[s] => InDoubt' = {}
      BY <2>1, <2>2 DEF Undisturbed, InDoubt
    <2>5. Undisturbed(s)'
      BY <2>1, <2>4 DEF Undisturbed
    <2> QED  BY <2>1, <2>2, <2>3, <2>5, SyncThinks
  <1>3. CASE Look(s)
    <2>1. PICK k \in todo[s] :
            /\ todo' = [todo EXCEPT ![s] = @ \ {k}]
            /\ \/ /\ look' = [look EXCEPT ![s] = [key |-> k, proof |-> VerifyReconcile(k)]]
                  /\ Goto(s, "resolve")
                  /\ Alone(s)
               \/ Disturbed /\ UNCHANGED <<look, pc>>
      BY <1>3 DEF Look
    <2>2. UNCHANGED <<github, rows, seen, act, target>> /\ pc[s] = "verify"
      BY <1>3 DEF Look
    <2>3. k \in Keys /\ rows[k] \in Past /\ todo'[s] = todo[s] \ {k}
      BY <2>1 DEF ReconcileInv, TypeOK, PastWrite
    <2>4. CASE Disturbed /\ UNCHANGED <<look, pc>>
      <3>1. UNCHANGED unopened /\ \A t \in Syncers : ~calm'[t]
        BY <2>4, CalmAfter
      <3>2. Trace(s)' /\ Undisturbed(s)'
        BY <2>2, <2>4, <3>1 DEF Trace, Undisturbed, Planned, Writing, Calls
      <3> QED  BY <2>2, <2>4, <3>1, <3>2, SyncThinks
    <2>5. CASE /\ look' = [look EXCEPT ![s] = [key |-> k, proof |-> VerifyReconcile(k)]]
               /\ Goto(s, "resolve")
               /\ Alone(s)
      <3>1. /\ look'[s].key = k /\ look'[s].proof = VerifyReconcile(k) /\ pc'[s] = "resolve"
            /\ \A t \in Syncers \ {s} : look'[t] = look[t] /\ pc'[t] = pc[t]
        BY <2>5 DEF Goto, ReconcileInv, TypeOK
      <3>2. UNCHANGED unopened /\ (calm'[s] => calm[s]) /\ \A t \in Syncers \ {s} : ~calm'[t]
        BY <2>5, CalmAfter
      <3>3. VerifyReconcile(k) = "PRESENT" => Proven(k)
        <4>1. Placed(k) /\ (k.issue = Nobody => k.op = "create")
          BY <2>3, KeyTyped DEF Queue, RowTells, Past
        <4> QED  BY <4>1 DEF VerifyReconcile, Proven, Placed
      <3>4. UNCHANGED <<issue, attached, ver>>
        BY <2>2 DEF github
      <3>5. look'[s].proof = "PRESENT" => Proven(look[s].key)'
        BY <3>1, <3>3, <3>4 DEF Proven, Later, Marked
      <3>6. Trace(s)'
        BY <3>1, <3>5 DEF Trace, Planned, Writing, Calls
      <3>7. calm'[s] => InDoubt' \subseteq todo'[s] \cup {k}
        BY <2>2, <2>3, <3>2 DEF Undisturbed, InDoubt
      <3>8. Undisturbed(s)'
        BY <3>1, <3>7 DEF Undisturbed
      <3> QED  BY <2>2, <3>1, <3>2, <3>6, <3>8, SyncThinks
    <2> QED  BY <2>1, <2>4, <2>5
  <1> QED  BY <1>1, <1>2, <1>3

LEMMA ResolveStep ==
    ASSUME SyncInv, ReconcileInv', NEW s \in Syncers, Resolve(s)
    PROVE  SyncInv'
  <1> USE DEF SyncInv
  <1> DEFINE state == IF look[s].proof = "PRESENT" THEN "succeeded" ELSE "dead_letter"
  <1>1. PICK k \in Keys : k = look[s].key /\ rows[k] \in Past
    BY DEF Resolve, ReconcileInv, PastWrite
  <1>2. UNCHANGED github /\ Alone(s) /\ pc[s] = "resolve"
    BY DEF Resolve
  <1>3. CASE ~MayFinish(k, state)
    <2>1. Leave(s) /\ UNCHANGED rows
      BY <1>1, <1>3 DEF Resolve
    <2> QED  BY <1>2, <2>1, SyncLeaves
  <1>4. CASE MayFinish(k, state)
    <2>1. /\ rows' = [rows EXCEPT ![k] = state]
          /\ pc' = [pc EXCEPT ![s] = "verify"]
          /\ look' = [look EXCEPT ![s] = NoLook]
          /\ UNCHANGED <<todo, seen, act, target>>
      BY <1>1, <1>4 DEF Resolve, FinishReconcile, Goto
    <2>2. rows[k] = "verify_pending"
      BY <1>1, <1>4 DEF MayFinish, Past
    <2>3. UNCHANGED unopened /\ (calm'[s] => calm[s]) /\ \A t \in Syncers \ {s} : ~calm'[t]
      BY <1>2, CalmAfter
    <2>4. /\ rows'[k] = state /\ \A j \in Keys : j # k => rows'[j] = rows[j]
          /\ pc'[s] = "verify"
          /\ \A t \in Syncers \ {s} : pc'[t] = pc[t] /\ look'[t] = look[t]
      BY <2>1 DEF ReconcileInv, TypeOK
    <2>5. Placed(k) /\ Tried(k)
      BY <2>2 DEF Queue, RowTells
    <2>6. look[s].proof = "PRESENT" => Proven(k)
      BY <1>1, <1>2 DEF Trace
    <2>7. look[s].proof = "PRESENT" => Effect(k)
      BY <2>5, <2>6 DEF Tried, Proven, Effect
    <2>8. Grows
      BY <1>2, <2>3, StillGrows
    <2>9. Placed(k)' /\ (state = "succeeded" => Effect(k)')
      BY <2>5, <2>7, <2>8, KeyStays
    <2>10. Trace(s)'
      BY <2>4 DEF Trace, Planned, Writing, Calls
    <2>11. calm'[s] => InDoubt' \subseteq todo'[s]
      <3>1. state # "verify_pending"
        OBVIOUS
      <3>2. InDoubt' \subseteq InDoubt \ {k}
        BY <2>4, <3>1 DEF InDoubt
      <3>3. calm[s] => InDoubt \subseteq todo[s] \cup {k}
        BY <1>1, <1>2 DEF Undisturbed
      <3> QED  BY <2>1, <2>3, <3>2, <3>3
    <2>12. Undisturbed(s)'
      BY <2>4, <2>11 DEF Undisturbed
    <2>13. \A j \in Keys : \/ rows'[j] = rows[j]
                           \/ /\ Placed(j)'
                              /\ rows'[j] = "verify_pending" => Tried(j)'
                              /\ rows'[j] = "succeeded" => Effect(j)'
      BY <2>4, <2>9
    <2> QED  BY <1>2, <2>1, <2>3, <2>4, <2>10, <2>12, <2>13, SyncThinks
  <1> QED  BY <1>3, <1>4

\* A plan's version is that of the issue found.
LEMMA PlanVersion ==
    ASSUME NEW o, NEW kids, Plan(o, kids).issue # Nobody
    PROVE  Plan(o, kids).issue \in o.found /\ Plan(o, kids).ver = o.ver[Plan(o, kids).issue]
  <1> DEFINE i  == IF o.found = {} THEN Nobody ELSE CHOOSE x \in o.found : TRUE
  <1> DEFINE op == Operation(i \in o.open \cap kids, o.wanted)
  <1>1. CASE Cardinality(o.found) > 1 \/ op = "none"
    BY <1>1 DEF Plan, NoKey
  <1>2. CASE ~(Cardinality(o.found) > 1 \/ op = "none")
    <2>1. Plan(o, kids).issue = i /\ Plan(o, kids).ver = IF i = Nobody THEN 0 ELSE o.ver[i]
      BY <1>2 DEF Plan
    <2> HIDE DEF i
    <2> QED  BY <2>1, PlanFound
  <1> QED  BY <1>1, <1>2

LEMMA ReadSteps ==
    ASSUME SyncInv, ReconcileInv', IsFiniteSet(Issues), NEW s \in Syncers,
           ReadIssues(s) \/ ReadChildren(s)
    PROVE  SyncInv'
  <1> USE DEF SyncInv
  <1>1. UNCHANGED <<source, github, rows, todo, look, target>> /\ Alone(s)
    BY DEF ReadIssues, ReadChildren
  <1>2. UNCHANGED unopened /\ (calm'[s] => calm[s]) /\ \A t \in Syncers \ {s} : ~calm'[t]
    BY <1>1, CalmAfter
  <1>3. UNCHANGED <<wanted, text, issue, attached, ver>>
    BY <1>1 DEF source, github
  <1>4. Marked' = Marked /\ Now' = Now /\ InDoubt' = InDoubt
    BY <1>1, <1>3 DEF Marked, Now, InDoubt
  <1>5. CASE ReadIssues(s)
    <2>1. /\ pc[s] = "issues" /\ pc' = [pc EXCEPT ![s] = "children"] /\ UNCHANGED act
          /\ seen' = [seen EXCEPT ![s] = Now]
      BY <1>5 DEF ReadIssues, Goto, Now
    <2>2. /\ pc'[s] = "children" /\ seen'[s] = Now
          /\ \A t \in Syncers \ {s} : pc'[t] = pc[t] /\ seen'[t] = seen[t]
      BY <2>1 DEF ReconcileInv, TypeOK
    <2>3. \A i \in Issues : ver[i] <= ver[i]
      BY ReconcileNumbersAssumption DEF ReconcileInv, TypeOK
    <2>4. Trace(s)'
      BY <1>3, <1>4, <2>2, <2>3 DEF Trace, Now, Planned, Writing, Calls
    <2>5. Undisturbed(s)'
      BY <1>2, <1>4, <2>1, <2>2 DEF Undisturbed
    <2> QED  BY <1>1, <1>2, <2>1, <2>2, <2>4, <2>5, SyncThinks
  <1>6. CASE ReadChildren(s)
    <2>1. PICK p : p = Plan(seen[s], attached)
      OBVIOUS
    <2>2. /\ pc[s] = "children" /\ act' = [act EXCEPT ![s] = p]
          /\ seen' = [seen EXCEPT ![s] = Unseen]
          /\ pc' = [pc EXCEPT ![s] = IF act'[s] = NoKey THEN "done" ELSE "reserve"]
      BY <1>6, <2>1 DEF ReadChildren, Goto
    <2>3. /\ act'[s] = p /\ pc'[s] = IF p = NoKey THEN "done" ELSE "reserve"
          /\ \A t \in Syncers \ {s} : pc'[t] = pc[t] /\ seen'[t] = seen[t] /\ act'[t] = act[t]
      BY <2>2 DEF ReconcileInv, TypeOK
    <2>4. Placed(p)
      <3>1. p.issue # Nobody => p.issue \in seen[s].found /\ p.ver = seen[s].ver[p.issue]
        BY <2>1, PlanVersion
      <3>2. seen[s].found \subseteq Marked /\ \A i \in Issues : seen[s].ver[i] <= ver[i]
        BY <2>2 DEF Trace
      <3> QED  BY <3>1, <3>2 DEF Placed, Marked
    <2>5. Placed(act[s])'
      BY <1>3, <1>4, <2>3, <2>4 DEF Placed
    <2>6. Trace(s)'
      BY <2>3, <2>5 DEF Trace
    <2>7. calm'[s] => p = Plan(Now, attached)
      BY <1>2, <2>1, <2>2 DEF Undisturbed
    <2>8. calm'[s] /\ p = NoKey => Agreed \/ Cardinality(Marked) > 1
      BY <2>7, PlanNow DEF Queue
    <2>9. Agreed' = Agreed
      BY <1>3 DEF Agreed
    <2>10. calm'[s] /\ pc'[s] = "done" => Enough(s)'
      BY <1>4, <2>3, <2>8, <2>9 DEF Enough
    <2>11. calm'[s] => InDoubt' = {}
      BY <1>2, <1>4, <2>2 DEF Undisturbed
    <2>12. Undisturbed(s)'
      BY <1>3, <1>4, <2>3, <2>7, <2>10, <2>11 DEF Undisturbed
    <2> QED  BY <1>1, <1>2, <2>3, <2>6, <2>12, SyncThinks
  <1> QED  BY <1>5, <1>6

\* An undisturbed sync that finds the row of its write settled.
LEMMA FoundSettled ==
    ASSUME SyncInv, IsFiniteSet(Issues), NEW s \in Syncers, pc[s] = "reserve", calm[s],
           rows[act[s]] \notin {"none", "planned"}
    PROVE  rows[act[s]] \in {"applying", "dead_letter"} \/ act[s] \in unopened
  <1> USE DEF SyncInv
  <1>1. act[s] \in Keys /\ rows[act[s]] \in RowStates
    BY DEF ReconcileInv, Aimed, Planned, TypeOK
  <1>2. rows[act[s]] # "verify_pending" /\ act[s] = Plan(Now, attached)
    BY <1>1 DEF Undisturbed, InDoubt
  <1>3. rows[act[s]] = "succeeded" => Effect(act[s])
    BY <1>1 DEF Queue, RowTells
  <1>4. attached \subseteq Marked
    BY DEF Queue
  <1>5. PICK k : k = act[s]
    OBVIOUS
  <1>6. /\ k.op = "create" => /\ k.issue = Nobody => Marked = {}
                              /\ k.issue # Nobody => ~(issue[k.issue] = "open" /\ k.issue \in attached)
        /\ k.op = "close" => k.issue \in Marked /\ issue[k.issue] = "open"
        /\ k.issue # Nobody => k.issue \in Marked /\ k.ver = ver[k.issue]
    BY <1>2, <1>4, <1>5, PlanNow
  <1>7. k.op \in {"create", "close"} /\ (k.issue = Nobody => k.op = "create") /\ k.ver \in Nat
    BY <1>1, <1>5, KeyTyped
  <1>8. k.issue # Nobody => ~Later(k)
    BY <1>6, <1>7 DEF Later
  <1>9. Effect(k) => k \in unopened
    BY <1>6, <1>7, <1>8 DEF Effect
  <1> QED  BY <1>1, <1>2, <1>3, <1>5, <1>9 DEF RowStates

LEMMA ClaimSteps ==
    ASSUME SyncInv, ReconcileInv', IsFiniteSet(Issues), NEW s \in Syncers, Reserve(s) \/ Mark(s)
    PROVE  SyncInv'
  <1> USE DEF SyncInv
  <1>1. UNCHANGED <<source, github>> /\ Alone(s) /\ pc[s] \in {"reserve", "mark"}
    BY DEF Reserve, Mark
  <1>2. UNCHANGED unopened /\ (calm'[s] => calm[s]) /\ \A t \in Syncers \ {s} : ~calm'[t]
    BY <1>1, CalmAfter
  <1>3. UNCHANGED <<wanted, text, issue, attached, ver>>
    BY <1>1 DEF source, github
  <1>4. Marked' = Marked /\ Now' = Now
    BY <1>3 DEF Marked, Now
  <1>5. PICK k \in Keys : k = act[s]
    BY <1>1 DEF ReconcileInv, Aimed, Planned
  <1>6. Placed(k)
    BY <1>1, <1>5 DEF Trace, Planned
  <1>7. Placed(k)'
    BY <1>3, <1>4, <1>6 DEF Placed
  <1>8. calm'[s] => k = Plan(Now, attached)
    BY <1>1, <1>2, <1>5 DEF Undisturbed
  <1>9. CASE Reserve(s) /\ rows[k] \notin {"none", "planned"}
    <2>1. UNCHANGED <<rows, todo, look, seen, act, target>> /\ pc' = [pc EXCEPT ![s] = "done"]
          /\ pc[s] = "reserve"
      BY <1>5, <1>9 DEF Reserve, Goto
    <2>2. pc'[s] = "done" /\ \A t \in Syncers \ {s} : pc'[t] = pc[t]
      BY <2>1 DEF ReconcileInv, TypeOK
    <2>3. Trace(s)'
      BY <2>2 DEF Trace, Planned, Writing, Calls
    <2>4. calm'[s] => rows[k] \in {"applying", "dead_letter"} \/ k \in unopened
      BY <1>2, <1>5, <1>9, <2>1, FoundSettled
    <2>5. k # NoKey
      BY KeyTyped
    <2>6. calm'[s] => Enough(s)'
      BY <1>2, <1>5, <2>1, <2>4, <2>5 DEF Enough
    <2>7. Undisturbed(s)'
      BY <2>2, <2>6 DEF Undisturbed
    <2> QED  BY <1>1, <1>2, <2>1, <2>2, <2>3, <2>7, SyncThinks
  <1>10. CASE Reserve(s) /\ rows[k] \in {"none", "planned"}
    <2>1. /\ UNCHANGED <<todo, look, seen, act, target>> /\ pc' = [pc EXCEPT ![s] = "mark"]
          /\ rows' = [rows EXCEPT ![k] = "planned"]
      BY <1>5, <1>10 DEF Reserve, Goto
    <2>2. /\ pc'[s] = "mark" /\ act'[s] = k /\ \A t \in Syncers \ {s} : pc'[t] = pc[t]
          /\ rows'[k] = "planned" /\ \A j \in Keys : j # k => rows'[j] = rows[j]
      BY <1>5, <2>1 DEF ReconcileInv, TypeOK
    <2>3. Trace(s)'
      BY <1>7, <2>2 DEF Trace, Placed
    <2>4. Undisturbed(s)'
      BY <1>3, <1>4, <1>8, <2>2 DEF Undisturbed
    <2>5. \A j \in Keys : \/ rows'[j] = rows[j]
                          \/ /\ Placed(j)'
                             /\ rows'[j] = "verify_pending" => Tried(j)'
                             /\ rows'[j] = "succeeded" => Effect(j)'
      BY <1>7, <2>2
    <2> QED  BY <1>1, <1>2, <2>1, <2>2, <2>3, <2>4, <2>5, SyncThinks
  <1>11. CASE Mark(s) /\ ~Claims(k)
    <2>1. Leave(s) /\ UNCHANGED rows
      BY <1>5, <1>11 DEF Mark
    <2> QED  BY <1>1, <2>1, SyncLeaves
  <1>12. CASE Mark(s) /\ Claims(k)
    <2>1. /\ UNCHANGED <<todo, look, seen, act>> /\ pc' = [pc EXCEPT ![s] = FirstCall(k)]
          /\ rows' = [rows EXCEPT ![k] = "applying"] /\ target' = [target EXCEPT ![s] = k.issue]
      BY <1>5, <1>12 DEF Mark, Goto
    <2>2. /\ pc'[s] = FirstCall(k) /\ act'[s] = k /\ target'[s] = k.issue
          /\ \A t \in Syncers \ {s} : pc'[t] = pc[t] /\ target'[t] = target[t]
          /\ rows'[k] = "applying" /\ \A j \in Keys : j # k => rows'[j] = rows[j]
      BY <1>5, <2>1 DEF ReconcileInv, TypeOK
    <2>3. \/ FirstCall(k) = "close" /\ k.op = "close" /\ k.issue # Nobody
          \/ FirstCall(k) = "post" /\ k.op = "create" /\ k.issue = Nobody
          \/ FirstCall(k) = "get" /\ k.op = "create" /\ k.issue # Nobody
      BY KeyTyped DEF FirstCall
    <2>4. k.issue # Nobody => k.issue \in Marked
      BY <1>6 DEF Placed
    <2>5. Trace(s)'
      BY <1>4, <1>7, <2>2, <2>3, <2>4 DEF Trace, Placed
    <2>6. Undisturbed(s)'
      BY <1>3, <1>4, <1>8, <2>2, <2>3 DEF Undisturbed
    <2>7. \A j \in Keys : \/ rows'[j] = rows[j]
                          \/ /\ Placed(j)'
                             /\ rows'[j] = "verify_pending" => Tried(j)'
                             /\ rows'[j] = "succeeded" => Effect(j)'
      BY <1>7, <2>2
    <2> QED  BY <1>1, <1>2, <2>1, <2>2, <2>5, <2>6, <2>7, SyncThinks
  <1> QED  BY <1>9, <1>10, <1>11, <1>12

\* A call that ends badly, with or without an effect: the row is left as it is or put
\* in doubt.
LEMMA CallEnds ==
    ASSUME SyncInv, ReconcileInv', Grows, NEW s \in Syncers, pc[s] \in Calls,
           UNCHANGED <<look, seen>>, attached' \subseteq Marked',
           pc'[s] \in {"idle", "done"}, \A t \in Syncers : ~calm'[t],
           \A t \in Syncers \ {s} : pc'[t] = pc[t] /\ act'[t] = act[t] /\ target'[t] = target[t],
           \/ UNCHANGED rows
           \/ /\ rows' = [rows EXCEPT ![act[s]] = "verify_pending"]
              /\ pc[s] \in {"get", "reopen"} => act[s] \in unopened'
    PROVE  SyncInv'
  <1> USE DEF SyncInv
  <1>1. PICK k \in Keys : k = act[s]
    BY DEF ReconcileInv, Aimed, Planned, Writing
  <1>2. Placed(k)
    BY <1>1 DEF Trace, Planned, Writing
  <1>3. Placed(k)'
    BY <1>2, KeyStays
  <1>4. pc[s] \in {"get", "reopen"} \/ Tried(k)
    BY <1>1 DEF Trace, Tried, Calls
  <1>5. UNCHANGED rows \/ pc[s] \notin {"get", "reopen"} \/ k \in unopened'
    BY <1>1
  <1>6. UNCHANGED rows \/ Tried(k)'
    <2>1. Tried(k) => Tried(k)'
      BY <1>2, KeyStays
    <2>2. k \in unopened' => Tried(k)'
      BY DEF Tried
    <2> QED  BY <1>4, <1>5, <2>1, <2>2
  <1>7. \A j \in Keys : \/ rows'[j] = rows[j]
                        \/ /\ Placed(j)'
                           /\ rows'[j] = "verify_pending" => Tried(j)'
                           /\ rows'[j] = "succeeded" => Effect(j)'
    <2>1. CASE UNCHANGED rows
      BY <2>1
    <2>2. CASE rows' = [rows EXCEPT ![k] = "verify_pending"]
      <3>1. rows'[k] = "verify_pending" /\ \A j \in Keys : j # k => rows'[j] = rows[j]
        BY <2>2 DEF ReconcileInv, TypeOK
      <3> QED  BY <1>3, <1>6, <3>1
    <2> QED  BY <1>1, <2>1, <2>2
  <1>8. Trace(s)' /\ Undisturbed(s)'
    BY DEF Trace, Undisturbed, Planned, Writing, Calls
  <1> QED  BY <1>7, <1>8, SyncStep

LEMMA FailedCall ==
    ASSUME SyncInv, ReconcileInv', NEW s \in Syncers, pc[s] \in Calls, NEW next, Failed(s, next)
    PROVE  SyncInv'
  <1> USE DEF SyncInv
  <1>1. /\ UNCHANGED <<github, todo, look, seen>> /\ unopened \subseteq unopened'
        /\ pc'[s] \in {"idle", "done"} /\ \A t \in Syncers : ~calm'[t]
        /\ \A t \in Syncers \ {s} : pc'[t] = pc[t] /\ act'[t] = act[t] /\ target'[t] = target[t]
        /\ \/ UNCHANGED rows
           \/ /\ rows' = [rows EXCEPT ![act[s]] = "verify_pending"]
              /\ pc[s] \in {"get", "reopen"} => act[s] \in unopened'
    BY FailedDef
  <1>2. Grows /\ Marked' = Marked
    BY <1>1, StillGrows
  <1>3. attached' \subseteq Marked'
    BY <1>1, <1>2 DEF Queue, github
  <1> QED  BY <1>1, <1>2, <1>3, CallEnds

\* A call with its effect: what is left to show is about the sync it is answered to.
LEMMA AppliedCall ==
    ASSUME SyncInv, ReconcileInv', NEW s \in Syncers, pc[s] \in Calls, NEW next, Applied(s, next),
           unopened \subseteq unopened' => Grows, attached' \subseteq Marked',
           \A t \in Syncers \ {s} : target'[t] = target[t],
           Grows /\ pc'[s] = next /\ act'[s] = act[s] => Trace(s)',
           /\ Grows /\ calm[s] /\ pc'[s] = next /\ act'[s] = act[s]
           /\ UNCHANGED <<wanted, text, flips>>
           => Undisturbed(s)'
    PROVE  SyncInv'
  <1> USE DEF SyncInv
  <1>1. PICK a \in Bad \cup {"ok"} : Answered(s, a, next)
    BY DEF Applied
  <1>2. UNCHANGED <<wanted, text, flips>>
    BY DEF Applied, source
  <1>3. CASE /\ pc' = [pc EXCEPT ![s] = next] /\ Alone(s)
             /\ UNCHANGED <<rows, act, unopened, look, seen>>
    <2>1. pc'[s] = next /\ \A t \in Syncers \ {s} : pc'[t] = pc[t]
      BY <1>3 DEF ReconcileInv, TypeOK
    <2>2. (calm'[s] => calm[s]) /\ \A t \in Syncers \ {s} : ~calm'[t]
      BY <1>3, CalmAfter
    <2>3. Trace(s)' /\ Grows
      BY <1>3, <2>1
    <2>4. ~calm'[s] => Undisturbed(s)'
      BY DEF Undisturbed
    <2>5. Undisturbed(s)'
      BY <1>2, <1>3, <2>1, <2>2, <2>3, <2>4
    <2> QED  BY <1>3, <2>1, <2>2, <2>3, <2>5, SyncStep
  <1>4. CASE /\ pc' = [pc EXCEPT ![s] = "done"]
             /\ rows' = [rows EXCEPT ![act[s]] = "verify_pending"]
             /\ \A t \in Syncers : ~calm'[t]
             /\ unopened' = IF pc[s] \in {"get", "reopen"} THEN unopened \cup {act[s]} ELSE unopened
             /\ UNCHANGED <<act, look, seen>>
    <2>1. pc'[s] = "done" /\ \A t \in Syncers \ {s} : pc'[t] = pc[t]
      BY <1>4 DEF ReconcileInv, TypeOK
    <2>2. unopened \subseteq unopened' /\ (pc[s] \in {"get", "reopen"} => act[s] \in unopened')
      BY <1>4
    <2> QED  BY <1>4, <2>1, <2>2, CallEnds
  <1>5. CASE /\ pc' = [pc EXCEPT ![s] = "idle"] /\ Disturbed
             /\ act' = [act EXCEPT ![s] = NoKey]
             /\ UNCHANGED <<rows, unopened, look, seen>>
    <2>1. pc'[s] = "idle" /\ \A t \in Syncers \ {s} : pc'[t] = pc[t] /\ act'[t] = act[t]
      BY <1>5 DEF ReconcileInv, TypeOK
    <2>2. \A t \in Syncers : ~calm'[t]
      BY <1>5, CalmAfter
    <2> QED  BY <1>5, <2>1, <2>2, CallEnds
  <1> QED  BY <1>1, <1>3, <1>4, <1>5, AnsweredCases

\* What is known of a sync that calls GitHub.
LEMMA CallerKnows ==
    ASSUME SyncInv, IsFiniteSet(Issues), NEW s \in Syncers, pc[s] \in Calls
    PROVE  /\ act[s] \in Keys /\ Placed(act[s])
           /\ calm[s] /\ pc[s] \in {"get", "reopen", "post"} => wanted
           /\ calm[s] /\ pc[s] = "close" => ~wanted /\ \A i, j \in Marked : i = j
  <1> USE DEF SyncInv
  <1>1. act[s] \in Keys /\ Placed(act[s])
    BY DEF ReconcileInv, Aimed, Trace, Planned, Writing
  <1>2. attached \subseteq Marked
    BY DEF Queue
  <1>3. calm[s] /\ pc[s] \in {"get", "reopen", "post", "close"} => act[s] = Plan(Now, attached)
    BY DEF Undisturbed
  <1>4. pc[s] \in {"get", "reopen", "post"} => act[s].op = "create"
    BY DEF Trace
  <1>5. pc[s] = "close" => act[s].op = "close"
    BY DEF Trace
  <1>6. act[s] # NoKey
    BY <1>1, KeyTyped
  <1>7. calm[s] /\ pc[s] \in {"get", "reopen", "post"} => wanted
    BY <1>2, <1>3, <1>4, PlanNow
  <1>8. calm[s] /\ pc[s] = "close" => ~wanted /\ \A i, j \in Marked : i = j
    BY <1>2, <1>3, <1>5, <1>6, PlanNow
  <1> QED  BY <1>1, <1>7, <1>8

LEMMA GetStep ==
    ASSUME SyncInv, ReconcileInv', IsFiniteSet(Issues), NEW s \in Syncers, Get(s)
    PROVE  SyncInv'
  <1> USE DEF SyncInv
  <1>1. pc[s] = "get" /\ pc[s] \in Calls
    BY DEF Get, Calls
  <1>2. PICK k \in Keys : k = act[s]
    BY <1>1, CallerKnows
  <1>3. Placed(k) /\ k.op = "create" /\ target[s] = k.issue /\ target[s] \in Marked
    BY <1>1, <1>2, CallerKnows DEF Trace
  <1>4. CASE Failed(s, "link")
    BY <1>1, <1>4, FailedCall
  <1>5. CASE /\ Goto(s, IF issue[target[s]] = "open" THEN "link" ELSE "reopen")
             /\ Alone(s)
             /\ UNCHANGED <<source, github, rows, todo, look, seen, act, target>>
    <2>1. /\ pc'[s] = IF issue[target[s]] = "open" THEN "link" ELSE "reopen"
          /\ \A t \in Syncers \ {s} : pc'[t] = pc[t]
      BY <1>5 DEF Goto, ReconcileInv, TypeOK
    <2>2. UNCHANGED unopened /\ (calm'[s] => calm[s]) /\ \A t \in Syncers \ {s} : ~calm'[t]
      BY <1>5, CalmAfter
    <2>3. UNCHANGED <<wanted, text, issue, attached, ver>>
      BY <1>5 DEF source, github
    <2>4. Marked' = Marked /\ Now' = Now
      BY <2>3 DEF Marked, Now
    <2>5. Placed(act[s])' /\ act'[s] = k /\ target'[s] = k.issue
      BY <1>2, <1>3, <1>5, <2>3, <2>4 DEF Placed
    <2>6. Trace(s)'
      BY <1>3, <2>1, <2>3, <2>4, <2>5 DEF Trace
    <2>7. calm'[s] => wanted /\ act[s] = Plan(Now, attached)
      BY <1>1, <2>2, CallerKnows DEF Undisturbed
    <2>8. Undisturbed(s)'
      BY <1>5, <2>1, <2>3, <2>4, <2>7 DEF Undisturbed
    <2> QED  BY <1>5, <2>1, <2>2, <2>6, <2>8, SyncThinks
  <1>6. CASE /\ FinishReconcile(act[s], "dead_letter")
             /\ Goto(s, "done")
             /\ Disturbed
             /\ UNCHANGED <<source, github, todo, look, seen, act, target>>
    <2>1. /\ pc'[s] = "done" /\ \A t \in Syncers \ {s} : pc'[t] = pc[t]
          /\ rows'[k] = "dead_letter" /\ \A j \in Keys : j # k => rows'[j] = rows[j]
      BY <1>2, <1>6 DEF Goto, FinishReconcile, ReconcileInv, TypeOK
    <2>2. UNCHANGED unopened /\ \A t \in Syncers : ~calm'[t]
      BY <1>6, CalmAfter
    <2>3. Placed(k)'
      BY <1>3, <1>6 DEF Placed, Marked, github
    <2>4. Trace(s)' /\ Undisturbed(s)'
      BY <2>1, <2>2 DEF Trace, Undisturbed, Planned, Writing, Calls
    <2>5. \A j \in Keys : \/ rows'[j] = rows[j]
                          \/ /\ Placed(j)'
                             /\ rows'[j] = "verify_pending" => Tried(j)'
                             /\ rows'[j] = "succeeded" => Effect(j)'
      BY <2>1, <2>3
    <2> QED  BY <1>6, <2>1, <2>2, <2>4, <2>5, SyncThinks
  <1> QED  BY <1>4, <1>5, <1>6 DEF Get

LEMMA ReopenStep ==
    ASSUME SyncInv, ReconcileInv', IsFiniteSet(Issues), NEW s \in Syncers, Reopen(s)
    PROVE  SyncInv'
  <1> USE DEF SyncInv
  <1>1. pc[s] = "reopen" /\ pc[s] \in Calls
    BY DEF Reopen, Calls
  <1>2. PICK k \in Keys : k = act[s]
    BY <1>1, CallerKnows
  <1>3. PICK i \in Marked : i = target[s]
    BY <1>1 DEF Trace
  <1>4. /\ Placed(k) /\ k.op = "create" /\ k.issue = i /\ i \in Issues
        /\ k.ver \in Nat /\ ver[i] \in Nat /\ ver'[i] \in Nat /\ i # Nobody
    BY <1>1, <1>2, <1>3, CallerKnows, KeyTyped, ReconcileNumbersAssumption, ReconcileNobodyAssumption
       DEF Trace, Marked, ReconcileInv, TypeOK
  <1>5. CASE Failed(s, "link")
    BY <1>1, <1>5, FailedCall
  <1>6. CASE /\ issue' = [issue EXCEPT ![i] = "open"] /\ Changes(i)
             /\ Applied(s, "link") /\ UNCHANGED <<attached, target>>
    <2>1. unopened \subseteq unopened' => Grows
      BY <1>4, <1>6, ChangeGrows
    <2>2. Grows => ver'[i] > ver[i]
      BY <1>4, <1>6 DEF Changes, ReconcileInv, TypeOK
    <2>3. issue'[i] = "open" /\ i \in Marked' /\ Marked' = Marked
      BY <1>4, <1>6 DEF Marked, ReconcileInv, TypeOK
    <2>4. Grows /\ pc'[s] = "link" /\ act'[s] = act[s] => Trace(s)'
      <3> SUFFICES ASSUME Grows, pc'[s] = "link", act'[s] = act[s]
                   PROVE  Trace(s)'
        OBVIOUS
      <3>1. act'[s] = k /\ target'[s] = i
        BY <1>2, <1>3, <1>6
      <3>2. Placed(act[s])'
        BY <1>4, <2>2, <2>3, <3>1 DEF Placed
      <3> QED  BY <1>4, <2>3, <3>1, <3>2 DEF Trace
    <2>5. calm[s] /\ pc'[s] = "link" /\ UNCHANGED wanted => Undisturbed(s)'
      BY <1>1, <1>3, <1>6, <2>3, CallerKnows DEF Undisturbed
    <2>6. attached' \subseteq Marked'
      BY <1>6, <2>3 DEF Queue
    <2> QED  BY <1>1, <1>6, <2>1, <2>4, <2>5, <2>6, AppliedCall
  <1> QED  BY <1>3, <1>5, <1>6 DEF Reopen

LEMMA PostStep ==
    ASSUME SyncInv, ReconcileInv', IsFiniteSet(Issues), NEW s \in Syncers, Post(s)
    PROVE  SyncInv'
  <1> USE DEF SyncInv
  <1>1. pc[s] = "post" /\ pc[s] \in Calls
    BY DEF Post, Calls
  <1>2. act[s].issue = Nobody /\ act[s].op = "create"
    BY <1>1 DEF Trace
  <1>3. CASE Failed(s, "link")
    BY <1>1, <1>3, FailedCall
  <1>4. ASSUME NEW i \in Issues, issue' = [issue EXCEPT ![i] = "open"], Changes(i),
               Applied(s, "link"), target' = [target EXCEPT ![s] = i], UNCHANGED attached
        PROVE  SyncInv'
    <2>1. unopened \subseteq unopened' => Grows
      BY <1>4, ChangeGrows
    <2>2. issue'[i] = "open" /\ i \in Marked' /\ Marked \subseteq Marked'
      BY <1>4 DEF Marked, ReconcileInv, TypeOK
    <2>3. target'[s] = i /\ \A t \in Syncers \ {s} : target'[t] = target[t]
      BY <1>4 DEF ReconcileInv, TypeOK
    <2>4. pc'[s] = "link" /\ act'[s] = act[s] => Trace(s)'
      BY <1>2, <2>2, <2>3 DEF Trace, Placed
    <2>5. calm[s] /\ pc'[s] = "link" /\ UNCHANGED wanted => Undisturbed(s)'
      BY <1>1, <2>2, <2>3, CallerKnows DEF Undisturbed
    <2>6. attached' \subseteq Marked'
      BY <1>4, <2>2 DEF Queue
    <2> QED  BY <1>1, <1>4, <2>1, <2>3, <2>4, <2>5, <2>6, AppliedCall
  <1> QED  BY <1>3, <1>4 DEF Post

LEMMA LinkStep ==
    ASSUME SyncInv, ReconcileInv', IsFiniteSet(Issues), NEW s \in Syncers, Link(s)
    PROVE  SyncInv'
  <1> USE DEF SyncInv
  <1>1. pc[s] = "link" /\ pc[s] \in Calls
    BY DEF Link, Calls
  <1>2. PICK k \in Keys : k = act[s]
    BY <1>1, CallerKnows
  <1>3. /\ Placed(k) /\ k.op = "create" /\ target[s] \in Marked
        /\ k.issue # Nobody => target[s] = k.issue /\ (Later(k) \/ issue[k.issue] = "open")
    BY <1>1, <1>2, CallerKnows DEF Trace
  <1>4. CASE Failed(s, "record")
    BY <1>1, <1>4, FailedCall
  <1>5. CASE /\ attached' = attached \cup {target[s]} /\ UNCHANGED <<ver, issue, target>>
             /\ Applied(s, "record")
    <2>1. Marked' = Marked /\ attached' \subseteq Marked'
      BY <1>3, <1>5 DEF Marked, Queue
    <2>2. unopened \subseteq unopened' => Grows
      BY <1>5, <2>1, ReconcileNumbersAssumption DEF Grows, ReconcileInv, TypeOK
    <2>3. pc'[s] = "record" /\ act'[s] = act[s] => Trace(s)'
      <3> SUFFICES ASSUME pc'[s] = "record", act'[s] = k
                   PROVE  Trace(s)'
        BY <1>2
      <3>1. Placed(act[s])'
        BY <1>3, <1>5, <2>1 DEF Placed
      <3>2. Effect(act[s])'
        BY <1>3, <1>5, <2>1 DEF Effect, Later
      <3> QED  BY <3>1, <3>2 DEF Trace
    <2>4. calm[s] /\ pc'[s] = "record" /\ UNCHANGED wanted => Undisturbed(s)'
      <3>1. calm[s] /\ UNCHANGED wanted => Agreed'
        BY <1>1, <1>5 DEF Undisturbed, Agreed
      <3> QED  BY <3>1 DEF Undisturbed
    <2> QED  BY <1>1, <1>5, <2>1, <2>2, <2>3, <2>4, AppliedCall
  <1> QED  BY <1>4, <1>5 DEF Link

LEMMA CloseStep ==
    ASSUME SyncInv, ReconcileInv', IsFiniteSet(Issues), NEW s \in Syncers, Close(s)
    PROVE  SyncInv'
  <1> USE DEF SyncInv
  <1>1. pc[s] = "close" /\ pc[s] \in Calls
    BY DEF Close, Calls
  <1>2. PICK k \in Keys : k = act[s]
    BY <1>1, CallerKnows
  <1>3. PICK i \in Marked : i = target[s]
    BY <1>1 DEF Trace
  <1>4. /\ Placed(k) /\ k.op = "close" /\ k.issue = i /\ i \in Issues
        /\ k.ver \in Nat /\ ver[i] \in Nat /\ i # Nobody
    BY <1>1, <1>2, <1>3, CallerKnows, KeyTyped, ReconcileNumbersAssumption, ReconcileNobodyAssumption
       DEF Trace, Marked, ReconcileInv, TypeOK
  <1>5. CASE Failed(s, "record")
    BY <1>1, <1>5, FailedCall
  <1>6. CASE /\ issue' = [issue EXCEPT ![i] = "closed"] /\ Changes(i)
             /\ Applied(s, "record") /\ UNCHANGED <<attached, target>>
    <2>1. unopened \subseteq unopened' => Grows
      BY <1>4, <1>6, ChangeGrows
    <2>2. ver'[i] = ver[i] + 1
      BY <1>4, <1>6 DEF Changes, ReconcileInv, TypeOK
    <2>3. issue'[i] = "closed" /\ Marked' = Marked
      BY <1>4, <1>6 DEF Marked, ReconcileInv, TypeOK
    <2>4. pc'[s] = "record" /\ act'[s] = act[s] => Trace(s)'
      <3> SUFFICES ASSUME pc'[s] = "record", act'[s] = k
                   PROVE  Trace(s)'
        BY <1>2
      <3>1. k.ver <= ver[i]
        BY <1>4 DEF Placed
      <3>2. Placed(act[s])'
        BY <1>4, <2>2, <2>3, <3>1 DEF Placed
      <3>3. Effect(act[s])'
        BY <1>4, <2>2, <3>1 DEF Effect, Later
      <3> QED  BY <3>2, <3>3 DEF Trace
    <2>5. calm[s] /\ pc'[s] = "record" /\ UNCHANGED wanted => Undisturbed(s)'
      <3>1. calm[s] => ~wanted /\ \A x \in attached : x = i
        BY <1>1, CallerKnows DEF Queue
      <3>2. calm[s] /\ UNCHANGED wanted => Agreed'
        BY <1>6, <2>3, <3>1 DEF Agreed
      <3> QED  BY <3>2 DEF Undisturbed
    <2>6. attached' \subseteq Marked'
      BY <1>6, <2>3 DEF Queue
    <2> QED  BY <1>1, <1>6, <2>1, <2>4, <2>5, <2>6, AppliedCall
  <1> QED  BY <1>3, <1>5, <1>6 DEF Close

LEMMA RecordStep ==
    ASSUME SyncInv, ReconcileInv', NEW s \in Syncers, Record(s)
    PROVE  SyncInv'
  <1> USE DEF SyncInv
  <1>1. pc[s] = "record" /\ UNCHANGED <<source, github>> /\ Alone(s)
    BY DEF Record
  <1>2. PICK k \in Keys : k = act[s]
    BY <1>1 DEF ReconcileInv, Aimed, Planned, Writing
  <1>3. Placed(k) /\ Effect(k)
    BY <1>1, <1>2 DEF Trace, Planned, Writing
  <1>4. UNCHANGED unopened /\ (calm'[s] => calm[s]) /\ \A t \in Syncers \ {s} : ~calm'[t]
    BY <1>1, CalmAfter
  <1>5. CASE ~MayFinish(k, "succeeded")
    <2>1. Leave(s) /\ UNCHANGED rows
      BY <1>2, <1>5 DEF Record
    <2> QED  BY <1>1, <2>1, SyncLeaves
  <1>6. CASE MayFinish(k, "succeeded")
    <2>1. /\ rows' = [rows EXCEPT ![k] = "succeeded"] /\ pc' = [pc EXCEPT ![s] = "done"]
          /\ UNCHANGED <<todo, look, seen, act, target>>
      BY <1>2, <1>6 DEF Record, FinishReconcile, Goto
    <2>2. /\ pc'[s] = "done" /\ \A t \in Syncers \ {s} : pc'[t] = pc[t]
          /\ rows'[k] = "succeeded" /\ \A j \in Keys : j # k => rows'[j] = rows[j]
      BY <2>1 DEF ReconcileInv, TypeOK
    <2>3. Placed(k)' /\ Effect(k)'
      BY <1>1, <1>3, <1>4, StillGrows, KeyStays
    <2>4. Trace(s)'
      BY <2>2 DEF Trace, Planned, Writing, Calls
    <2>5. calm'[s] => Agreed'
      BY <1>1, <1>4 DEF Undisturbed, Agreed, source, github
    <2>6. Undisturbed(s)'
      BY <2>2, <2>5 DEF Undisturbed, Enough
    <2>7. \A j \in Keys : \/ rows'[j] = rows[j]
                          \/ /\ Placed(j)'
                             /\ rows'[j] = "verify_pending" => Tried(j)'
                             /\ rows'[j] = "succeeded" => Effect(j)'
      BY <2>2, <2>3
    <2> QED  BY <1>1, <1>4, <2>1, <2>2, <2>4, <2>6, <2>7, SyncThinks
  <1> QED  BY <1>5, <1>6

\* One undisturbed sync brings the queue and the source together, or shows by its rows or
\* by duplicates why it could not, for any number of syncs, texts and issues, whatever
\* earlier syncs, crashes, errors and Humans left behind (GovernanceMonitor.sync).
THEOREM OneSyncIsEnough ==
    ASSUME IsFiniteSet(Issues)
    PROVE  Spec => []OneSyncSuffices
  <1>1. Init => SyncInv
    <2> SUFFICES ASSUME Init PROVE SyncInv
      OBVIOUS
    <2>1. ReconcileInv
      BY InitInv
    <2>2. Queue
      BY DEF Init, Queue, RowTells, Marked
    <2>3. \A s \in Syncers : pc[s] = "idle"
      BY DEF Init
    <2>4. \A s \in Syncers : Trace(s) /\ Undisturbed(s)
      BY <2>3 DEF Trace, Undisturbed, Planned, Writing, Calls
    <2> QED  BY <2>1, <2>2, <2>4 DEF SyncInv
  <1>2. SyncInv /\ [Next]_vars => SyncInv'
    <2> SUFFICES ASSUME SyncInv, [Next]_vars PROVE SyncInv'
      OBVIOUS
    <2>1. ReconcileInv'
      BY StepInv DEF SyncInv
    <2>2. CASE UNCHANGED vars
      <3>1. UNCHANGED <<wanted, text, flips, issue, attached, ver, rows, pc, todo, look,
                        seen, act, target, calm, unopened>>
        BY <2>2 DEF vars, source, github, sync
      <3>2. Queue'
        BY <3>1 DEF SyncInv, Queue, RowTells, Placed, Tried, Effect, Later, Marked
      <3>3. \A s \in Syncers : Trace(s)'
        BY <2>1, <3>1, StillGrows, TraceKept DEF SyncInv, github
      <3>4. \A s \in Syncers : Undisturbed(s)'
        BY <3>1 DEF SyncInv, Undisturbed, Enough, Agreed, InDoubt, Now, Marked
      <3> QED  BY <2>1, <3>2, <3>3, <3>4 DEF SyncInv
    <2>3. ASSUME NEW s \in Syncers, Incomplete(s) \/ EndSync(s) PROVE SyncInv'
      <3>1. Leave(s) /\ UNCHANGED <<github, rows>> /\ (Alone(s) \/ Disturbed)
        BY <2>3 DEF Incomplete, EndSync
      <3> QED  BY <2>1, <3>1, SyncLeaves
    <2>4. ASSUME NEW s \in Syncers,
                 \/ StartSync(s) \/ Look(s) \/ Resolve(s) \/ Verified(s)
                 \/ ReadIssues(s) \/ ReadChildren(s) \/ Reserve(s) \/ Mark(s)
          PROVE  SyncInv'
      BY <2>1, <2>4, VerifySteps, ResolveStep, ReadSteps, ClaimSteps
    <2>5. ASSUME NEW s \in Syncers,
                 Get(s) \/ Reopen(s) \/ Post(s) \/ Link(s) \/ Close(s) \/ Record(s)
          PROVE  SyncInv'
      BY <2>1, <2>5, GetStep, ReopenStep, PostStep, LinkStep, CloseStep, RecordStep
    <2> QED  BY <2>1, <2>2, <2>3, <2>4, <2>5, OtherSteps DEF Next
  <1>3. SyncInv => OneSyncSuffices
    BY DEF SyncInv, Undisturbed, Enough, OneSyncSuffices
  <1> QED  BY <1>1, <1>2, <1>3, PTL DEF Spec

=============================================================================
