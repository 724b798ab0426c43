------------------------- MODULE GovernanceReconcile -------------------------
(***************************************************************************)
(* The governance monitor keeps one issue in the Human Principal's queue   *)
(* for every source that asks for one: a blocker, a proposal, a pull       *)
(* request ready to merge.  A sync first settles what earlier syncs left   *)
(* in doubt, then compares what is wanted with what GitHub has, and        *)
(* journals each write under a key made of all it was decided from.        *)
(*                                                                         *)
(* This is one source: whether it qualifies (wanted), with which text, and *)
(* the issues that bear its marker.  Other sources only ever cut its sync  *)
(* short: duplicates of one stop the writes of all, and so does an error   *)
(* that no handler catches.  A syncer is an admin thread in                *)
(* governance_sync; two may run at once.  A step is one transaction, one   *)
(* verification, or one call of GitHub, which answers, fails or is cut     *)
(* off, having taken effect or not.                                        *)
(***************************************************************************)
EXTENDS Naturals, FiniteSets

CONSTANTS
    Syncers,   \* threads in governance_sync
    Issues,    \* issues that may come to bear the marker
    Texts,     \* titles and bodies the source may have
    MaxVer,    \* bound on the changes of an issue
    MaxFlips,  \* bound on the changes of the source and the Human's closings
    Nobody,    \* no issue, no key
    Modes      \* disturbances: "crash", "timeout", "error", "human"

ASSUME ReconcileNumbersAssumption == MaxVer \in Nat /\ MaxFlips \in Nat
ASSUME ReconcileNobodyAssumption == Nobody \notin Issues
ASSUME ReconcileModesAssumption ==
    Modes \subseteq {"crash", "timeout", "error", "human"}

VARIABLES
    wanted,    \* the source qualifies
    text,      \* its title and body
    flips,     \* how often it has changed, or a Human has closed an issue
    issue,     \* issue[i]: "none", "open" or "closed"
    attached,  \* the issues that are children of the queue issue
    ver,       \* ver[i]: updated_at
    rows,      \* rows[k]: reconcile_operation.state under key k, "none" without a row
    pc,        \* pc[s]: where governance_sync is
    todo,      \* todo[s]: the rows it has still to verify
    look,      \* look[s]: the row it verifies, and what it found
    seen,      \* seen[s]: the source and the issues as it read them
    act,       \* act[s]: the key of the write it has planned
    target,    \* target[s]: the issue it writes to
    calm,      \* calm[s]: nothing else has happened since its sync began (history)
    unopened   \* the keys of creations cut short before the issue was open (history)

source == <<wanted, text, flips>>
github == <<issue, attached, ver>>
sync   == <<pc, todo, look, seen, act, target>>
vars   == <<source, github, rows, sync, calm, unopened>>

\* What _apply hashes into the key: the operation, the text, the issue there is
\* already and its version.
Keys == [op : {"create"}, text : Texts, issue : {Nobody}, ver : {0}]
        \cup [op : {"create"}, text : Texts, issue : Issues, ver : 1..MaxVer]
        \cup [op : {"close"}, text : {Nobody}, issue : Issues, ver : 1..MaxVer]
NoKey == [op |-> "none", text |-> Nobody, issue |-> Nobody, ver |-> 0]

RowStates == {"none", "planned", "applying", "verify_pending", "succeeded", "dead_letter"}
Proofs    == {"PRESENT", "ABSENT", "CONFLICT"}

NoLook == [key |-> NoKey, proof |-> "none"]
Unseen == [wanted |-> FALSE, text |-> Nobody, found |-> {}, open |-> {}, ver |-> [i \in Issues |-> 0]]

Labels == {"idle", "verify", "resolve", "issues", "children", "reserve", "mark", "get",
           "post", "reopen", "link", "close", "record", "done"}
Looks  == [key : Keys \cup {NoKey}, proof : Proofs \cup {"none"}]
Observations ==
    [wanted : BOOLEAN, text : Texts \cup {Nobody}, found : SUBSET Issues,
     open : SUBSET Issues, ver : [Issues -> 0..MaxVer]]

TypeOK ==
    /\ wanted \in BOOLEAN /\ text \in Texts /\ flips \in 0..MaxFlips
    /\ issue \in [Issues -> {"none", "open", "closed"}]
    /\ attached \subseteq Issues
    /\ ver \in [Issues -> 0..MaxVer]
    /\ rows \in [Keys -> RowStates]
    /\ pc \in [Syncers -> Labels]
    /\ todo \in [Syncers -> SUBSET Keys]
    /\ look \in [Syncers -> Looks]
    /\ seen \in [Syncers -> Observations]
    /\ act \in [Syncers -> Keys \cup {NoKey}]
    /\ target \in [Syncers -> Issues \cup {Nobody}]
    /\ calm \in [Syncers -> BOOLEAN]
    /\ unopened \subseteq Keys

Init ==
    /\ wanted \in BOOLEAN /\ text \in Texts /\ flips = 0
    /\ issue = [i \in Issues |-> "none"]
    /\ attached = {}
    /\ ver = [i \in Issues |-> 0]
    /\ rows = [k \in Keys |-> "none"]
    /\ pc = [s \in Syncers |-> "idle"]
    /\ todo = [s \in Syncers |-> {}]
    /\ look = [s \in Syncers |-> NoLook]
    /\ seen = [s \in Syncers |-> Unseen]
    /\ act = [s \in Syncers |-> NoKey]
    /\ target = [s \in Syncers |-> Nobody]
    /\ calm = [s \in Syncers |-> FALSE]
    /\ unopened = {}

Goto(s, label) == pc' = [pc EXCEPT ![s] = label]

\* A step of s: the others are no longer alone.
Alone(s)  == calm' = [x \in Syncers |-> x = s /\ calm[x]] /\ UNCHANGED unopened
Disturbed == calm' = [x \in Syncers |-> FALSE] /\ UNCHANGED unopened

\* The sync ends by an exception, or is over and answered.
Leave(s) ==
    /\ Goto(s, "idle")
    /\ todo' = [todo EXCEPT ![s] = {}]
    /\ look' = [look EXCEPT ![s] = NoLook]
    /\ seen' = [seen EXCEPT ![s] = Unseen]
    /\ act' = [act EXCEPT ![s] = NoKey]
    /\ target' = [target EXCEPT ![s] = Nobody]

Marked == {i \in Issues : issue[i] # "none"}

\* The ways a call of GitHub may end badly.
Bad == {"error", "timeout"} \cap Modes

-----------------------------------------------------------------------------
(* Store: the journal.                                                     *)

\* Variant: any row may be settled again.
MayFinishAny(k, state) == TRUE

\* finish_reconcile: the states it may replace.
MayFinish(k, state) ==
    \/ rows[k] = "applying"
    \/ rows[k] = "verify_pending" /\ state \in {"succeeded", "dead_letter"}

FinishReconcile(k, state) == rows' = [rows EXCEPT ![k] = state]

-----------------------------------------------------------------------------
(* verify_pending: resolve_pending's second loop.                          *)

StartSync(s) ==
    /\ pc[s] = "idle"
    /\ Goto(s, "verify")
    /\ todo' = [todo EXCEPT ![s] = {k \in Keys : rows[k] = "verify_pending"}]
    /\ calm' = [x \in Syncers |-> x = s]
    /\ UNCHANGED <<source, github, rows, look, seen, act, target, unopened>>

\* Variant: an issue that bears the marker is enough, in the queue or not.
VerifyReconcileMarker(k) ==
    IF k.op = "create"
    THEN IF Cardinality(Marked) > 1 THEN "CONFLICT"
         ELSE IF Marked # {} THEN "PRESENT" ELSE "ABSENT"
    ELSE IF issue[k.issue] = "closed" THEN "PRESENT" ELSE "ABSENT"

\* verify_reconcile.  A create is there if one issue bears the marker and is in the
\* queue, a close if the issue is closed.
VerifyReconcile(k) ==
    IF k.op = "create"
    THEN IF Cardinality(Marked) > 1 THEN "CONFLICT"
         ELSE IF Marked # {} /\ Marked \subseteq attached THEN "PRESENT" ELSE "ABSENT"
    ELSE IF issue[k.issue] = "closed" THEN "PRESENT" ELSE "ABSENT"

\* A read that fails proves nothing (UNKNOWN), and the row is left as it is.
Look(s) ==
    /\ pc[s] = "verify"
    /\ \E k \in todo[s] :
         /\ todo' = [todo EXCEPT ![s] = @ \ {k}]
         /\ \/ /\ look' = [look EXCEPT ![s] = [key |-> k, proof |-> VerifyReconcile(k)]]
               /\ Goto(s, "resolve")
               /\ Alone(s)
            \/ /\ "error" \in Modes
               /\ Disturbed
               /\ UNCHANGED <<look, pc>>
    /\ UNCHANGED <<source, github, rows, seen, act, target>>

\* finish_reconcile raises if another sync has settled the row.
Resolve(s) ==
    /\ pc[s] = "resolve"
    /\ LET k == look[s].key
           state == IF look[s].proof = "PRESENT" THEN "succeeded" ELSE "dead_letter"
       IN  IF MayFinish(k, state)
           THEN /\ FinishReconcile(k, state)
                /\ Goto(s, "verify")
                /\ look' = [look EXCEPT ![s] = NoLook]
                /\ UNCHANGED <<todo, seen, act, target>>
           ELSE Leave(s) /\ UNCHANGED rows
    /\ Alone(s)
    /\ UNCHANGED <<source, github>>

Verified(s) ==
    /\ pc[s] = "verify" /\ todo[s] = {}
    /\ Goto(s, "issues")
    /\ Alone(s)
    /\ UNCHANGED <<source, github, rows, todo, look, seen, act, target>>

-----------------------------------------------------------------------------
(* snapshot: two reads of GitHub, and what follows from them.              *)

\* The source, and every issue that bears its marker.
ReadIssues(s) ==
    /\ pc[s] = "issues"
    /\ seen' = [seen EXCEPT ![s] =
          [wanted |-> wanted, text |-> text, found |-> Marked,
           open |-> {i \in Marked : issue[i] = "open"}, ver |-> ver]]
    /\ Goto(s, "children")
    /\ Alone(s)
    /\ UNCHANGED <<source, github, rows, todo, look, act, target>>

\* plan: create what is wanted and not there, close what is there and not wanted.
Operation(exists, qualifies) ==
    CASE qualifies /\ ~exists -> "create"
      [] ~qualifies /\ exists -> "close"
      [] OTHER -> "none"

\* The write that the observation o and the children of the queue call for.
\* Duplicates are left to the Human.
Plan(o, kids) ==
    LET i  == IF o.found = {} THEN Nobody ELSE CHOOSE x \in o.found : TRUE
        op == Operation(i \in o.open \cap kids, o.wanted)
    IN  IF Cardinality(o.found) > 1 \/ op = "none" THEN NoKey
        ELSE [op |-> op, issue |-> i,
              text |-> IF op = "create" THEN o.text ELSE Nobody,
              ver |-> IF i = Nobody THEN 0 ELSE o.ver[i]]

\* The children of the queue issue.
ReadChildren(s) ==
    /\ pc[s] = "children"
    /\ act' = [act EXCEPT ![s] = Plan(seen[s], attached)]
    /\ seen' = [seen EXCEPT ![s] = Unseen]
    /\ Goto(s, IF act'[s] = NoKey THEN "done" ELSE "reserve")
    /\ Alone(s)
    /\ UNCHANGED <<source, github, rows, todo, look, target>>

\* A read fails, GitHub has not computed a fact yet, or another source has duplicates
\* or an error: nothing is planned, or the plan is not carried out.
Incomplete(s) ==
    /\ Bad # {}
    /\ pc[s] \in {"verify", "issues", "children", "reserve"}
    /\ Leave(s)
    /\ Disturbed
    /\ UNCHANGED <<source, github, rows>>

-----------------------------------------------------------------------------
(* _apply.                                                                 *)

\* reserve_reconcile returns the row there is under the key; only a planned one,
\* new or left over, is gone on with.
Reserve(s) ==
    /\ pc[s] = "reserve"
    /\ IF rows[act[s]] \in {"none", "planned"}
       THEN rows' = [rows EXCEPT ![act[s]] = "planned"] /\ Goto(s, "mark")
       ELSE Goto(s, "done") /\ UNCHANGED rows
    /\ Alone(s)
    /\ UNCHANGED <<source, github, todo, look, seen, act, target>>

FirstCall(k) ==
    IF k.op = "close" THEN "close" ELSE IF k.issue = Nobody THEN "post" ELSE "get"

\* Variant: whoever holds the planned row goes on.
ClaimsAny(k) == TRUE

\* mark_reconcile_applying: one statement, and one caller it succeeds for.
Claims(k) == rows[k] = "planned"

Mark(s) ==
    /\ pc[s] = "mark"
    /\ IF Claims(act[s])
       THEN /\ rows' = [rows EXCEPT ![act[s]] = "applying"]
            /\ Goto(s, FirstCall(act[s]))
            /\ target' = [target EXCEPT ![s] = act[s].issue]
            /\ UNCHANGED <<todo, look, seen, act>>
       ELSE Leave(s) /\ UNCHANGED rows
    /\ Alone(s)
    /\ UNCHANGED <<source, github>>

\* What GitHub's answer makes of the sync: it goes on; it records the doubt, in a row
\* that is "applying" and its own, so that finish_reconcile does not raise; or the call
\* is cut off by its timeout, which no handler catches.
Answered(s, answer, next) ==
    CASE answer = "ok" ->
           Goto(s, next) /\ Alone(s) /\ UNCHANGED <<rows, todo, look, seen, act>>
      [] answer = "error" ->
           /\ FinishReconcile(act[s], "verify_pending")
           /\ calm' = [x \in Syncers |-> FALSE]
           /\ unopened' = IF pc[s] \in {"get", "reopen"} THEN unopened \cup {act[s]} ELSE unopened
           /\ Goto(s, "done") /\ UNCHANGED <<todo, look, seen, act>>
      [] answer = "timeout" ->
           /\ Goto(s, "idle") /\ Disturbed
           /\ act' = [act EXCEPT ![s] = NoKey]
           /\ UNCHANGED <<rows, todo, look, seen>>

\* A call of GitHub with an effect, which it may have or not if it ends badly.
Changes(i) == ver[i] < MaxVer /\ ver' = [ver EXCEPT ![i] = @ + 1]
Failed(s, next) ==
    /\ UNCHANGED github
    /\ \E a \in Bad : Answered(s, a, next)
    /\ target' = [target EXCEPT ![s] = Nobody]
    /\ UNCHANGED source
Applied(s, next) ==
    /\ \E a \in Bad \cup {"ok"} : Answered(s, a, next)
    /\ UNCHANGED source

\* The issue there is already is read again, and reopened if it is closed.  An answer
\* that is not the issue is a GovernanceError.
Get(s) ==
    /\ pc[s] = "get"
    /\ \/ /\ Goto(s, IF issue[target[s]] = "open" THEN "link" ELSE "reopen")
          /\ Alone(s)
          /\ UNCHANGED <<source, github, rows, todo, look, seen, act, target>>
       \/ Failed(s, "link")
       \/ /\ "error" \in Modes
          /\ FinishReconcile(act[s], "dead_letter")
          /\ Goto(s, "done")
          /\ Disturbed
          /\ UNCHANGED <<source, github, todo, look, seen, act, target>>

Reopen(s) ==
    /\ pc[s] = "reopen"
    /\ \/ /\ issue' = [issue EXCEPT ![target[s]] = "open"]
          /\ Changes(target[s])
          /\ Applied(s, "link")
          /\ UNCHANGED <<attached, target>>
       \/ Failed(s, "link")

Post(s) ==
    /\ pc[s] = "post"
    /\ \/ \E i \in Issues :
            /\ issue[i] = "none" /\ \A j \in Issues : j < i => issue[j] # "none"
            /\ issue' = [issue EXCEPT ![i] = "open"]
            /\ Changes(i)
            /\ Applied(s, "link")
            /\ target' = [target EXCEPT ![s] = i]
            /\ UNCHANGED attached
       \/ Failed(s, "link")

\* The version of the new child is taken to stay: keys are then as alike as they can be.
Link(s) ==
    /\ pc[s] = "link"
    /\ \/ /\ attached' = attached \cup {target[s]}
          /\ UNCHANGED ver
          /\ Applied(s, "record")
          /\ UNCHANGED <<issue, target>>
       \/ Failed(s, "record")

Close(s) ==
    /\ pc[s] = "close"
    /\ \/ /\ issue' = [issue EXCEPT ![target[s]] = "closed"]
          /\ Changes(target[s])
          /\ Applied(s, "record")
          /\ UNCHANGED <<attached, target>>
       \/ Failed(s, "record")

\* finish_reconcile raises if the row was settled meanwhile.
Record(s) ==
    /\ pc[s] = "record"
    /\ IF MayFinish(act[s], "succeeded")
       THEN /\ FinishReconcile(act[s], "succeeded")
            /\ Goto(s, "done")
            /\ UNCHANGED <<todo, look, seen, act, target>>
       ELSE Leave(s) /\ UNCHANGED rows
    /\ Alone(s)
    /\ UNCHANGED <<source, github>>

EndSync(s) ==
    /\ pc[s] = "done"
    /\ Leave(s)
    /\ Alone(s)
    /\ UNCHANGED <<source, github, rows>>

-----------------------------------------------------------------------------
(* The rest of the world.                                                  *)

\* The blocker is cleared or opened again, the proposal decided, the text edited.
SourceChanges ==
    /\ flips < MaxFlips
    /\ flips' = flips + 1
    /\ \/ wanted' = ~wanted /\ UNCHANGED text
       \/ UNCHANGED wanted /\ text' \in Texts \ {text}
    /\ Disturbed
    /\ UNCHANGED <<github, rows, sync>>

\* A Human closes the issue.
HumanCloses(i) ==
    /\ "human" \in Modes /\ issue[i] = "open" /\ Changes(i)
    /\ flips < MaxFlips
    /\ flips' = flips + 1
    /\ issue' = [issue EXCEPT ![i] = "closed"]
    /\ Disturbed
    /\ UNCHANGED <<wanted, text, attached, rows, sync>>

\* The service is lost with all its threads.
Crash ==
    /\ "crash" \in Modes
    /\ \E s \in Syncers : pc[s] # "idle"
    /\ pc' = [s \in Syncers |-> "idle"]
    /\ todo' = [s \in Syncers |-> {}]
    /\ look' = [s \in Syncers |-> NoLook]
    /\ seen' = [s \in Syncers |-> Unseen]
    /\ act' = [s \in Syncers |-> NoKey]
    /\ target' = [s \in Syncers |-> Nobody]
    /\ Disturbed
    /\ UNCHANGED <<source, github, rows>>

Next ==
    \/ \E s \in Syncers :
         \/ StartSync(s) \/ Look(s) \/ Resolve(s) \/ Verified(s)
         \/ ReadIssues(s) \/ ReadChildren(s) \/ Incomplete(s) \/ Reserve(s) \/ Mark(s)
         \/ Get(s) \/ Reopen(s) \/ Post(s) \/ Link(s) \/ Close(s) \/ Record(s) \/ EndSync(s)
    \/ SourceChanges \/ Crash
    \/ \E i \in Issues : HumanCloses(i)

Spec == Init /\ [][Next]_vars

-----------------------------------------------------------------------------
(* Properties.                                                             *)

(***************************************************************************)
(* However many syncs run, fail, are cut off or lost, at most one issue    *)
(* comes to bear the source's marker, as long as its text stays the same:  *)
(* whoever wants to create it needs the same row, and a row is claimed     *)
(* once (reserve_reconcile, mark_reconcile_applying).                      *)
(***************************************************************************)
OneIssue == (\A t, u \in Texts : t = u) => \A i, j \in Marked : i = j

\* The queue has an open issue of the source exactly if it is wanted.
Agreed ==
    IF wanted THEN \E i \in attached : issue[i] = "open"
              ELSE \A i \in attached : issue[i] # "open"

(***************************************************************************)
(* One undisturbed sync is enough, whatever earlier ones left behind: at   *)
(* its end the queue agrees with the source, or there are duplicates, or   *)
(* the row of the very write that is missing shows that it was attempted   *)
(* and needs a Human.  It never reports success over a queue that is       *)
(* wrong, except for an issue that was to be opened again: an error before *)
(* that is verified from the marker alone (GovernanceMonitor.sync,         *)
(* resolve_pending).                                                       *)
(***************************************************************************)
OneSyncSuffices ==
    \A s \in Syncers : pc[s] = "done" /\ calm[s] =>
        \/ Agreed
        \/ Cardinality(Marked) > 1
        \/ act[s] # NoKey /\ rows[act[s]] \in {"applying", "dead_letter"}
        \/ act[s] \in unopened

(***************************************************************************)
(* A row that was settled stays as it is, although two syncs may verify it *)
(* at once and one may still be writing (finish_reconcile).                *)
(***************************************************************************)
SettledStays ==
    [][\A k \in Keys : rows[k] \in {"succeeded", "dead_letter"} => rows'[k] = rows[k]]_vars

=============================================================================
