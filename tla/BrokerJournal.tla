---------------------------- MODULE BrokerJournal ----------------------------
(***************************************************************************)
(* The broker's write-ahead journal.  A wake asks its broker for a remote  *)
(* operation under an idempotency key; Broker.handle journals the key,     *)
(* sends the operation's writes to GitHub and records the outcome.  What   *)
(* it could not learn is left in verify_pending, and the operator's        *)
(* monitor sync later proves from GitHub whether the write is there.       *)
(*                                                                         *)
(* A step is one statement on the journal, one call of GitHub, or one      *)
(* thing that happens at GitHub by itself.  A request is represented by    *)
(* the kind of its operation, which decides what it writes and how it is   *)
(* verified:                                                               *)
(*   read     read.*, repo.status: no write                                *)
(*   marked   comments, reviews, pr.create: one write, bearing the key     *)
(*   create   pm.issue.create: the issue, bearing the key, and then its    *)
(*            place under a parent and on the board                        *)
(*   close    pm.issue.done, drop: a comment bearing the key, then closing *)
(*   state    pm.issue.route, move, pr.update: one write without the key   *)
(*   submit   repo.submit: a new branch head, bearing the key              *)
(*   worker   worker.run: nothing at GitHub                                *)
(* The stored response is ok, denied or indeterminate as the row is        *)
(* succeeded, failed or verify_pending, and absent before that.            *)
(***************************************************************************)
EXTENDS Naturals, FiniteSets

CONSTANTS
    Sessions,    \* wake sessions; each has one server that handles one request at a time
    Requests,    \* the requests that are made
    Keys,        \* idempotency keys
    ClientKeys,  \* ClientKeys[s][r]: the keys under which s may ask for r
    Verifiers,   \* threads of the admin service that run monitor sync
    Nobody,      \* no session, no request, no key
    Modes        \* which disturbances the environment may cause

Kinds == {"read", "marked", "create", "close", "state", "submit", "worker"}

ASSUME RequestsAssumption == Requests \subseteq Kinds
ASSUME ClientKeysAssumption == ClientKeys \in [Sessions -> [Requests -> SUBSET Keys]]
ASSUME NobodyAssumption == Nobody \notin Sessions \cup Kinds \cup Keys
ASSUME ModesAssumption == Modes \subseteq {"crash", "late", "others", "fault"}

VARIABLES
    state,   \* state[k]: broker_request.state, "none" when there is no row
    by,      \* by[k]: its session_id
    req,     \* req[k]: its operation and arguments
    open,    \* the wake sessions that are active
    pc,      \* pc[s]: where Broker.handle is for session s
    key,     \* key[s]: the key of the request it handles
    ask,     \* ask[s]: the request itself
    part,    \* part[s]: the write it is at
    sent,    \* sent[k][i]: how often write i was sent to GitHub under k
    flying,  \* flying[k]: writes on their way, which GitHub may still apply
    landed,  \* landed[k]: writes GitHub has applied
    shown,   \* shown[k]: writes whose effect a read of GitHub now finds
    foreign, \* foreign[k]: those whose effect somebody else produced (history)
    todo,    \* todo[v]: the rows v has still to verify
    look,    \* look[v]: the row it has looked up at GitHub
    proof    \* proof[v]: what it found

journal == <<state, by, req>>
broker  == <<open, pc, key, ask, part>>
remote  == <<sent, flying, landed, shown, foreign>>
sync    == <<todo, look, proof>>
vars    == <<journal, broker, remote, sync>>

-----------------------------------------------------------------------------
(* The operations.                                                         *)

Parts == 1..2

Writes(r) ==
    CASE r \in {"create", "close"} -> {1, 2}
      [] r \in {"marked", "state", "submit"} -> {1}
      [] OTHER -> {}

\* Broker.handle reads facts before it journals; ControlBackend reads them again
\* before the first write.  Both do so for pm.* and pr.* operations only.
NeedsFacts(r) == r \in {"marked", "create", "close", "state"}

Final == {"succeeded", "failed"}

Init ==
    /\ state = [k \in Keys |-> "none"]
    /\ by = [k \in Keys |-> Nobody]
    /\ req = [k \in Keys |-> Nobody]
    /\ open = Sessions
    /\ pc = [s \in Sessions |-> "idle"]
    /\ key = [s \in Sessions |-> Nobody]
    /\ ask = [s \in Sessions |-> Nobody]
    /\ part = [s \in Sessions |-> 1]
    /\ sent = [k \in Keys |-> [i \in Parts |-> 0]]
    /\ flying = [k \in Keys |-> {}]
    /\ landed = [k \in Keys |-> {}]
    /\ shown = [k \in Keys |-> {}]
    /\ foreign = [k \in Keys |-> {}]
    /\ todo = [v \in Verifiers |-> {}]
    /\ look = [v \in Verifiers |-> Nobody]
    /\ proof = [v \in Verifiers |-> "none"]

Goto(s, label) == pc' = [pc EXCEPT ![s] = label]

\* The request is answered; nothing of it is kept but its row.
Answer(s) ==
    /\ pc' = [pc EXCEPT ![s] = "idle"]
    /\ key' = [key EXCEPT ![s] = Nobody]
    /\ ask' = [ask EXCEPT ![s] = Nobody]
    /\ part' = [part EXCEPT ![s] = 1]
    /\ UNCHANGED open

Move(s, label) == Goto(s, label) /\ UNCHANGED <<open, key, ask, part>>

-----------------------------------------------------------------------------
(* Store: the statements on broker_request.                                *)

\* reserve_request: the first to use the key gets the row.  Anyone else gets its
\* response, "indeterminate", or a conflict if the request differs.
ReserveRequest(s) ==
    IF state[key[s]] = "none"
    THEN /\ state' = [state EXCEPT ![key[s]] = "reserved"]
         /\ by' = [by EXCEPT ![key[s]] = s]
         /\ req' = [req EXCEPT ![key[s]] = ask[s]]
         /\ Move(s, "mark")
    ELSE Answer(s) /\ UNCHANGED journal

\* Variant: the failure of any request is forgotten.
AbandonReadRequestAny(k) ==
    /\ state' = [state EXCEPT ![k] = "none"]
    /\ by' = [by EXCEPT ![k] = Nobody]
    /\ req' = [req EXCEPT ![k] = Nobody]

\* abandon_read_request deletes the key's row if its operation is a read.
AbandonReadRequest(k) ==
    IF state[k] # "none" /\ req[k] = "read"
    THEN /\ state' = [state EXCEPT ![k] = "none"]
         /\ by' = [by EXCEPT ![k] = Nobody]
         /\ req' = [req EXCEPT ![k] = Nobody]
    ELSE UNCHANGED journal

\* Variant: a missing row is written anew.
FinishRequestUpsert(k, outcome) ==
    /\ state' = [state EXCEPT ![k] = outcome]
    /\ UNCHANGED <<by, req>>

\* finish_request updates whatever row has the key, from whatever state.
FinishRequest(k, outcome) ==
    /\ state' = [state EXCEPT ![k] = IF @ = "none" THEN @ ELSE outcome]
    /\ UNCHANGED <<by, req>>

-----------------------------------------------------------------------------
(* Broker.handle.  Rejections that change nothing are not steps: a session *)
(* that is not active, a malformed request, an operation out of scope.     *)

Receive(s, r, k) ==
    /\ pc[s] = "idle" /\ s \in open
    /\ k \in ClientKeys[s][r]
    /\ Goto(s, "prior")
    /\ key' = [key EXCEPT ![s] = k]
    /\ ask' = [ask EXCEPT ![s] = r]
    /\ UNCHANGED <<open, part, journal, remote, sync>>

\* prior_request: a known key is answered from its row.
PriorRequest(s) ==
    /\ pc[s] = "prior"
    /\ IF state[key[s]] # "none" THEN Answer(s)
       ELSE Move(s, "facts")
    /\ UNCHANGED <<journal, remote, sync>>

\* authorize allows the request or denies it, unless its facts cannot be read.
Authorize(s) ==
    /\ pc[s] = "facts"
    /\ \/ Move(s, "reserve")
       \/ Answer(s)
       \/ NeedsFacts(ask[s]) /\ Move(s, "forget")
    /\ UNCHANGED <<journal, remote, sync>>

Reserve(s) ==
    /\ pc[s] = "reserve"
    /\ ReserveRequest(s)
    /\ UNCHANGED <<remote, sync>>

\* mark_request_applying: a row no longer reserved is a conflict.
MarkApplying(s) ==
    /\ pc[s] = "mark"
    /\ IF state[key[s]] = "reserved"
       THEN /\ state' = [state EXCEPT ![key[s]] = "applying"]
            /\ UNCHANGED <<by, req>>
            /\ Move(s, IF NeedsFacts(ask[s]) THEN "again" ELSE "execute")
       ELSE Answer(s) /\ UNCHANGED journal
    /\ UNCHANGED <<remote, sync>>

\* ControlBackend.execute reads and checks the facts again: a denial is final, a
\* failed read leaves the outcome open.
Revalidate(s) ==
    /\ pc[s] = "again"
    /\ \/ Move(s, "execute")
       \/ Move(s, "deny")
       \/ Move(s, "unsure")
    /\ UNCHANGED <<journal, remote, sync>>

\* Operations without a write.  A worker may also be refused by reserve_worker,
\* a StateError that leaves the row as it is.
Execute(s) ==
    /\ pc[s] = "execute" /\ Writes(ask[s]) = {}
    /\ \/ Move(s, "finish")
       \/ ask[s] = "read" /\ Move(s, "forget")
       \/ ask[s] = "worker" /\ (Move(s, "unsure") \/ Answer(s))
    /\ UNCHANGED <<journal, remote, sync>>

\* A write leaves for GitHub; or what precedes it (a read, the check of the base)
\* fails, and nothing is sent.
Send(s) ==
    /\ pc[s] = "execute" /\ part[s] \in Writes(ask[s])
    /\ \/ /\ sent' = [sent EXCEPT ![key[s]][part[s]] = @ + 1]
          /\ flying' = [flying EXCEPT ![key[s]] = @ \cup {part[s]}]
          /\ Move(s, "await")
          /\ UNCHANGED <<landed, shown, foreign>>
       \/ Move(s, "unsure") /\ UNCHANGED remote
    /\ UNCHANGED <<journal, sync>>

\* GitHub confirms the write: the next one, or the end of the operation.
Confirmed(s) ==
    /\ pc[s] = "await" /\ part[s] \in landed[key[s]]
    /\ IF part[s] + 1 \in Writes(ask[s])
       THEN /\ Goto(s, "execute")
            /\ part' = [part EXCEPT ![s] = @ + 1]
            /\ UNCHANGED <<open, key, ask>>
       ELSE Move(s, "finish")
    /\ UNCHANGED <<journal, remote, sync>>

\* The call ends without a confirmation: an error, or sixty seconds.  Unless the
\* environment may be late, GitHub has by then applied the write or never will.
Unconfirmed(s) ==
    /\ pc[s] = "await"
    /\ "late" \in Modes \/ part[s] \notin flying[key[s]]
    /\ Move(s, "unsure")
    /\ UNCHANGED <<journal, remote, sync>>

Finish(s) ==
    /\ pc[s] = "finish"
    /\ FinishRequest(key[s], "succeeded")
    /\ Move(s, "audit")
    /\ UNCHANGED <<remote, sync>>

Audit(s) ==
    /\ pc[s] = "audit"
    /\ Answer(s)
    /\ UNCHANGED <<journal, remote, sync>>

\* Variant: the caller is told, the journal is not.
UnsureUnrecorded(s) ==
    /\ pc[s] = "unsure"
    /\ Answer(s)
    /\ UNCHANGED <<journal, remote, sync>>

\* The exception handlers: an unknown outcome, a denial, and a failed read (or
\* any failure before the row was marked applying).
Unsure(s) ==
    /\ pc[s] = "unsure"
    /\ FinishRequest(key[s], "verify_pending")
    /\ Answer(s)
    /\ UNCHANGED <<remote, sync>>

Deny(s) ==
    /\ pc[s] = "deny"
    /\ FinishRequest(key[s], "failed")
    /\ Answer(s)
    /\ UNCHANGED <<remote, sync>>

Forget(s) ==
    /\ pc[s] = "forget"
    /\ AbandonReadRequest(key[s])
    /\ Answer(s)
    /\ UNCHANGED <<remote, sync>>

\* A statement on the database raises.  Before the row is marked applying, and
\* for a read, the request is forgotten; afterwards its outcome is open; inside a
\* handler the exception is swallowed.
Fault(s) ==
    /\ "fault" \in Modes
    /\ \/ pc[s] \in {"prior", "reserve", "mark"} /\ Move(s, "forget")
       \/ /\ pc[s] \in {"finish", "audit"}
          /\ Move(s, IF ask[s] = "read" THEN "forget" ELSE "unsure")
       \/ pc[s] \in {"unsure", "deny", "forget"} /\ Answer(s)
    /\ UNCHANGED <<journal, remote, sync>>

-----------------------------------------------------------------------------
(* GitHub.                                                                 *)

Land(k, i) ==
    /\ i \in flying[k]
    /\ flying' = [flying EXCEPT ![k] = @ \ {i}]
    /\ landed' = [landed EXCEPT ![k] = @ \cup {i}]
    /\ shown' = [shown EXCEPT ![k] = @ \cup {i}]
    /\ UNCHANGED <<sent, foreign, journal, broker, sync>>

Lose(k, i) ==
    /\ i \in flying[k]
    /\ flying' = [flying EXCEPT ![k] = @ \ {i}]
    /\ UNCHANGED <<sent, landed, shown, foreign, journal, broker, sync>>

\* The writes without the key: an owner, a stage, a title and text, a closed issue.
Unkeyed(r) ==
    CASE r = "state" -> {1}
      [] r = "close" -> {2}
      [] OTHER -> {}

\* Somebody else undoes an effect: moves, reroutes, edits, deletes, reopens, or pushes on
\* top of the submitted head.  Or produces it: what bears no key looks the same then.
Others(k) ==
    /\ "others" \in Modes
    /\ \/ \E i \in shown[k] :
             /\ shown' = [shown EXCEPT ![k] = @ \ {i}]
             /\ UNCHANGED foreign
       \/ \E i \in Unkeyed(req[k]) \ shown[k] :
             /\ shown' = [shown EXCEPT ![k] = @ \cup {i}]
             /\ foreign' = [foreign EXCEPT ![k] = @ \cup {i}]
    /\ UNCHANGED <<sent, flying, landed, journal, broker, sync>>

-----------------------------------------------------------------------------
(* verification.resolve_pending, run by monitor sync.                      *)

\* pending_broker_verifications.
Pending == {k \in Keys : state[k] = "verify_pending"}

\* Variant: a marked comment is enough to prove an item closed.
FoundMarked(k) ==
    IF req[k] \in {"read", "worker"} THEN "unknown"
    ELSE IF 1 \in shown[k] THEN "present" ELSE "absent"

\* What verify_broker's complete reads find: marked effects by their key, an owner, a
\* stage, a text or a closed issue as they are now, whoever made them so.  Its CONFLICT,
\* two effects with one marker, would take a write sent twice.
Found(k) ==
    CASE req[k] \in {"read", "worker"} -> "unknown"
      [] req[k] = "close" -> IF {1, 2} \subseteq shown[k] THEN "present" ELSE "absent"
      [] OTHER -> IF 1 \in shown[k] THEN "present" ELSE "absent"

Busy(v) == todo[v] # {} \/ look[v] # Nobody

ScanPending(v) ==
    /\ ~ Busy(v) /\ Pending # {}
    /\ todo' = [todo EXCEPT ![v] = Pending]
    /\ UNCHANGED <<look, proof, journal, broker, remote>>

\* One row is looked up; the read may also be incomplete.
Verify(v, k) ==
    /\ look[v] = Nobody /\ k \in todo[v]
    /\ look' = [look EXCEPT ![v] = k]
    /\ \E p \in {Found(k), "unknown"} : proof' = [proof EXCEPT ![v] = p]
    /\ todo' = [todo EXCEPT ![v] = @ \ {k}]
    /\ UNCHANGED <<journal, broker, remote>>

\* gh exceeds its sixty seconds: TimeoutExpired is not caught, and the sync ends.
VerifyTimeout(v) ==
    /\ look[v] = Nobody /\ todo[v] # {}
    /\ todo' = [todo EXCEPT ![v] = {}]
    /\ UNCHANGED <<look, proof, journal, broker, remote>>

Outcome(p) == IF p = "present" THEN "succeeded" ELSE "failed"

Resolve(v) ==
    /\ look[v] # Nobody
    /\ IF proof[v] = "unknown" THEN UNCHANGED journal
       ELSE FinishRequest(look[v], Outcome(proof[v]))
    /\ look' = [look EXCEPT ![v] = Nobody]
    /\ proof' = [proof EXCEPT ![v] = "none"]
    /\ UNCHANGED <<todo, broker, remote>>

-----------------------------------------------------------------------------
(* The sessions and the process around the broker.                         *)

\* The wake ends or is revoked; a request already being handled goes on.
CloseSession(s) ==
    /\ s \in open
    /\ open' = open \ {s}
    /\ UNCHANGED <<pc, key, ask, part, journal, remote, sync>>

\* The supervisor is lost with all its threads; its sessions are closed by the
\* recovery of the next start.  Some sessions are the next supervisor's.
Crash ==
    /\ "crash" \in Modes
    /\ \E dead \in SUBSET open :
          /\ {s \in Sessions : pc[s] # "idle"} \cap open \subseteq dead
          /\ open' = open \ dead
    /\ pc' = [s \in Sessions |-> "idle"]
    /\ key' = [s \in Sessions |-> Nobody]
    /\ ask' = [s \in Sessions |-> Nobody]
    /\ part' = [s \in Sessions |-> 1]
    /\ todo' = [v \in Verifiers |-> {}]
    /\ look' = [v \in Verifiers |-> Nobody]
    /\ proof' = [v \in Verifiers |-> "none"]
    /\ UNCHANGED <<journal, remote>>

Handle(s) ==
    \/ \E r \in Requests, k \in Keys : Receive(s, r, k)
    \/ PriorRequest(s) \/ Authorize(s) \/ Reserve(s) \/ MarkApplying(s)
    \/ Revalidate(s) \/ Execute(s) \/ Send(s) \/ Confirmed(s) \/ Unconfirmed(s)
    \/ Finish(s) \/ Audit(s) \/ Unsure(s) \/ Deny(s) \/ Forget(s) \/ Fault(s)

GitHub == \E k \in Keys : Others(k) \/ \E i \in Parts : Land(k, i) \/ Lose(k, i)

MonitorSync(v) ==
    ScanPending(v) \/ VerifyTimeout(v) \/ Resolve(v) \/ \E k \in Keys : Verify(v, k)

Next ==
    \/ \E s \in Sessions : Handle(s) \/ CloseSession(s)
    \/ GitHub
    \/ \E v \in Verifiers : MonitorSync(v)
    \/ Crash

Spec == Init /\ [][Next]_vars

-----------------------------------------------------------------------------
(* Properties.                                                             *)

\* A row is present with all its columns or not at all.
JournalTypes ==
    /\ state \in [Keys -> {"none", "reserved", "applying", "verify_pending"} \cup Final]
    /\ by \in [Keys -> Sessions \cup {Nobody}]
    /\ req \in [Keys -> Requests \cup {Nobody}]
    /\ \A k \in Keys : (state[k] = "none" <=> by[k] = Nobody)
                       /\ (state[k] = "none" <=> req[k] = Nobody)

BrokerTypes ==
    /\ open \subseteq Sessions
    /\ pc \in [Sessions -> {"idle", "prior", "facts", "reserve", "mark", "again", "execute",
                            "await", "finish", "audit", "unsure", "deny", "forget"}]
    /\ key \in [Sessions -> Keys \cup {Nobody}]
    /\ ask \in [Sessions -> Requests \cup {Nobody}]
    /\ \A s \in Sessions : pc[s] # "idle" => key[s] \in Keys /\ ask[s] \in Requests
    /\ part \in [Sessions -> Parts]

RemoteTypes ==
    /\ sent \in [Keys -> [Parts -> Nat]]
    /\ flying \in [Keys -> SUBSET Parts]
    /\ landed \in [Keys -> SUBSET Parts]
    /\ shown \in [Keys -> SUBSET Parts]
    /\ foreign \in [Keys -> SUBSET Parts]

SyncTypes ==
    /\ todo \in [Verifiers -> SUBSET Keys]
    /\ look \in [Verifiers -> Keys \cup {Nobody}]
    /\ proof \in [Verifiers -> {"none", "present", "absent", "unknown"}]

\* Types of all variables; in particular a row has all its columns or none, and a
\* request that is being handled has its key (the broker_request schema and handle).
TypeOK == JournalTypes /\ BrokerTypes /\ RemoteTypes /\ SyncTypes

\* Whatever fails, is retried, crashes or is asked twice at once under one key, no
\* write of a request is sent to GitHub twice (prior_request, reserve_request,
\* mark_request_applying and abandon_read_request together).
SentOnce == \A k \in Keys, i \in Parts : sent[k][i] <= 1

\* A request on record as succeeded has had every one of its writes applied, whether
\* handle saw it or resolve_pending proved it, however late its writes and whatever others
\* undid.  The exception is a write without the key whose effect somebody else produced:
\* the verifier takes the item's present state for the request's own.
SucceededIsDone ==
    \A k \in Keys : state[k] = "succeeded" => Writes(req[k]) \subseteq landed[k] \cup foreign[k]

\* Once nobody is handling a request whose write was sent, the journal has its
\* outcome or has it for verification.
AmbiguousIsPending ==
    \A k \in Keys :
        (\E i \in Parts : sent[k][i] > 0) /\ (\A s \in Sessions : key[s] # k)
            => state[k] \in Final \cup {"verify_pending"}

=============================================================================
