---------------------------- MODULE WakeLifecycle ----------------------------
(***************************************************************************)
(* The life of a wake: one run of Supervisor._run_wake, from the lease of  *)
(* a delivery to the end of the provider process, against everything that  *)
(* can touch the same SQLite rows meanwhile: the other wakes, a pause, a   *)
(* start-up, shutdown or command-line recovery, a crash of the service,    *)
(* and a second supervisor process.                                        *)
(*                                                                         *)
(* A step is one SQLite transaction (or autocommitted statement), one      *)
(* system call on the provider process, or one passage of time.  A wake w  *)
(* is one thread with the rows it owns, and is never reused:               *)
(*   sess[w]  wake_session.state         resv[w]  budget_reservation.state *)
(*   wake[w]  wake_runtime.state         prow[w]  process_runtime.state    *)
(*   prov[w]  the provider process itself, as the operating system has it  *)
(* History variables, which no code reads:                                 *)
(*   ran      the wakes whose provider was handed its prompt, after which  *)
(*            work may have been done and tokens spent                     *)
(*   unsent   those whose living provider was reported as terminated       *)
(*            without having been ended                                    *)
(*   missed   those whose thread was at work when a pause or a recovery    *)
(*            found no process row to terminate                            *)
(*   broken   those whose exception handler raised itself                  *)
(***************************************************************************)
EXTENDS Naturals, FiniteSets

CONSTANTS
    Wakes,        \* identities of wakes (threads of _run_wake)
    Deliveries,   \* rows of the delivery table
    Roles,        \* commissioned roles
    RoleOf,       \* RoleOf[d]: the role delivery d is routed to
    Procs,        \* supervisor processes, each with its own lease owner
    Cap,          \* policy.global_max_agents
    MaxAttempts,  \* lease_delivery's max_attempts
    Manual,       \* the job of a wake that serves no delivery
    Nobody,       \* no process, no wake, no role
    Modes         \* which disturbances the environment may cause

ASSUME RoleOfAssumption == RoleOf \in [Deliveries -> Roles]
ASSUME CapAssumption == Cap \in Nat \ {0}
ASSUME MaxAttemptsAssumption == MaxAttempts \in Nat \ {0}
ASSUME ManualAssumption == Manual \notin Deliveries
ASSUME NobodyAssumption == Nobody \notin Procs \cup Wakes \cup Roles
ASSUME ModesAssumption ==
    Modes \subseteq {"crash", "pause", "shutdown", "cli", "manual", "fault", "pidreuse"}

VARIABLES
    pc,       \* pc[w]: where the thread of wake w is
    job,      \* job[w]: its delivery, or Manual
    role,     \* role[w]: the role it wakes
    proc,     \* proc[w]: the supervisor process it runs in
    proved,   \* proved[w]: the result of its own terminate_session
    sess, resv, wake, prow, prov, ran, unsent, missed, broken,
    dstate,   \* dstate[d]: delivery.state
    owner,    \* owner[d]: delivery.lease_owner
    attempt,  \* attempt[d]: delivery.attempt
    elapsed,  \* elapsed[d]: its eligible_at (if waiting) or lease_until has passed
    pstate,   \* pstate[p]: the supervisor process p
    tick,     \* tick[p]: what the holder of p's _tick_lock is doing
    paused,   \* supervisor_state 'paused'
    opk, opp, ost,   \* the operator call in progress: kind, process, step
    orphans, todo, prepd,  \* its worklists, read once at its start
    cur, opok        \* the wake it works on, and that wake's terminate_session

threads == <<pc, job, role, proc, proved>>
rows    == <<sess, resv, wake, prow>>
marks   == <<unsent, missed, broken>>
os      == <<prov, ran, marks>>
queue   == <<dstate, owner, attempt, elapsed>>
service == <<pstate, tick, paused>>
opvars  == <<opk, opp, ost, orphans, todo, prepd, cur, opok>>
vars    == <<threads, rows, os, queue, service, opvars>>

-----------------------------------------------------------------------------
(* States of the rows, as the schema's comments and the code name them.    *)

Waiting   == {"queued", "retry_wait"}
Held      == {"leased", "running"}
Final     == {"succeeded", "dead_letter", "uncertain"}
OpenWake  == {"prepared", "running"}
Alive     == {"idle", "working"}
LiveProc  == {"recovering", "up", "stopping", "cli"}

\* The steps of _run_wake's try block, then those of its exception handlers.
TrySteps  == {"leased", "begin", "create", "reserve", "revoke", "hold", "prepare",
              "spawn", "record", "mark", "start", "prompt", "wait", "overdue", "exit",
              "settle", "finwake", "findel", "finsess"}
Handlers  == {"giveup", "undo", "kill", "expire", "stop", "stopmark", "unbudget",
              "force", "unwake", "drop"}

Init ==
    /\ pc = [w \in Wakes |-> "free"]
    /\ job = [w \in Wakes |-> Manual]
    /\ role = [w \in Wakes |-> Nobody]
    /\ proc = [w \in Wakes |-> Nobody]
    /\ proved = [w \in Wakes |-> FALSE]
    /\ sess = [w \in Wakes |-> "none"]
    /\ resv = [w \in Wakes |-> "none"]
    /\ wake = [w \in Wakes |-> "none"]
    /\ prow = [w \in Wakes |-> "none"]
    /\ prov = [w \in Wakes |-> "none"]
    /\ ran = {} /\ unsent = {} /\ missed = {} /\ broken = {}
    /\ dstate = [d \in Deliveries |-> "queued"]
    /\ owner = [d \in Deliveries |-> Nobody]
    /\ attempt = [d \in Deliveries |-> 0]
    /\ elapsed = [d \in Deliveries |-> TRUE]
    /\ pstate = [p \in Procs |-> "off"]
    /\ tick = [p \in Procs |-> "no"]
    /\ paused = FALSE
    /\ opk = "idle" /\ opp = Nobody /\ ost = "none"
    /\ orphans = {} /\ todo = {} /\ prepd = {} /\ cur = Nobody /\ opok = FALSE

-----------------------------------------------------------------------------
(* Transactions of the store that more than one caller uses.               *)

\* Store.finish_delivery by w's process: what it needs, and what it writes.
HoldsLease(w)  == job[w] # Manual /\ dstate[job[w]] = "leased" /\ owner[job[w]] = proc[w]
HoldsRun(w)    == job[w] # Manual /\ dstate[job[w]] = "running" /\ owner[job[w]] = proc[w]

SetDelivery(d, s) ==
    /\ dstate' = [dstate EXCEPT ![d] = s]
    /\ owner' = [owner EXCEPT ![d] = Nobody]

RetryDelivery(d) ==
    /\ SetDelivery(d, "retry_wait")
    /\ elapsed' = [elapsed EXCEPT ![d] = FALSE]
    /\ UNCHANGED attempt

\* Store.force_delivery_uncertain: any holder's lease, its StateError swallowed.
ForceDeliveryUncertain(w) ==
    IF job[w] # Manual /\ dstate[job[w]] \in Held
    THEN SetDelivery(job[w], "uncertain") /\ UNCHANGED <<attempt, elapsed>>
    ELSE UNCHANGED queue

\* Variant: closing a session frees its reservation.
ForceTerminateSessionFreeing(w) ==
    /\ sess[w] = "active"
    /\ sess' = [sess EXCEPT ![w] = "revoked"]
    /\ resv' = [resv EXCEPT ![w] = IF @ = "active" THEN "released" ELSE @]
    /\ wake' = [wake EXCEPT ![w] = IF @ \in OpenWake THEN "terminated" ELSE @]
    /\ UNCHANGED prow

\* Store.force_terminate_session of an active session.
ForceTerminateSession(w) ==
    /\ sess[w] = "active"
    /\ sess' = [sess EXCEPT ![w] = "revoked"]
    /\ resv' = [resv EXCEPT ![w] = IF @ = "active" THEN "uncertain" ELSE @]
    /\ wake' = [wake EXCEPT ![w] = IF @ \in OpenWake THEN "terminated" ELSE @]
    /\ UNCHANGED prow

\* Store._release_reservation_for within a recovery transaction.
ReleasesBudget(w) == resv[w] \in {"none", "active"}
ReleaseBudget(w)  == resv' = [resv EXCEPT ![w] = IF @ = "active" THEN "released" ELSE @]

\* Store.recover_orphan_session: the guards of its transaction, then its effect
\* on the rows.  Only the wake's own handler names a delivery to retry.
OrphanSession(w) ==
    sess[w] = "active" /\ wake[w] = "none" /\ prow[w] = "none" /\ ReleasesBudget(w)

RecoverOrphanRows(w) ==
    /\ ReleaseBudget(w)
    /\ sess' = [sess EXCEPT ![w] = "revoked"]
    /\ UNCHANGED <<wake, prow>>

\* Store.recover_prepared_wake.  _retry_leased_delivery asks for the state leased
\* and not for the owner of the lease.
RetryableJobUnchecked(w) == TRUE  \* variant: no look at the delivery's state
RetryableJob(w) == job[w] # Manual => dstate[job[w]] = "leased"

PreparedWake(w) ==
    /\ wake[w] = "prepared" /\ sess[w] = "active" /\ prow[w] = "none"
    /\ ReleasesBudget(w) /\ RetryableJob(w)

RecoverPreparedRows(w) ==
    /\ ReleaseBudget(w)
    /\ sess' = [sess EXCEPT ![w] = "revoked"]
    /\ wake' = [wake EXCEPT ![w] = "failed"]
    /\ UNCHANGED prow

RetryJob(w) == IF job[w] = Manual THEN UNCHANGED queue ELSE RetryDelivery(job[w])

KillGroupUnsent(w) == UNCHANGED prov  \* variant: identity checked, no signal sent
KillGroup(w) == prov' = [prov EXCEPT ![w] =
    CASE @ \in Alive /\ pstate[proc[w]] \in LiveProc -> "zombie"
      [] @ \in Alive /\ pstate[proc[w]] \notin LiveProc -> "gone"
      [] OTHER -> @]

\* _terminate_group on the recorded identity of w's provider, and its result.  A
\* readable identity: FALSE and no signal if the pid belongs to another process, else
\* the group is ended.  An identity that cannot be read (/proc or ps fails, ps takes
\* more than 5 s) counts as terminated, before a signal or after a SIGTERM that was
\* not obeyed, although the process may be alive.
GroupTerminated(w, ok) ==
    \/ /\ ok = (prov[w] # "reused")
       /\ KillGroup(w) /\ UNCHANGED unsent
    \/ /\ "fault" \in Modes /\ ok
       /\ UNCHANGED prov
       /\ unsent' = IF prov[w] \in Alive THEN unsent \cup {w} ELSE unsent

\* terminate_session looks at the process rows that are running, if there are any.
TerminateSession(w, ok) ==
    IF prow[w] = "running" THEN GroupTerminated(w, ok) ELSE ok /\ UNCHANGED <<prov, unsent>>

\* Store.finish_process: only a running row changes.
FinishProcess(w, s) == prow' = [prow EXCEPT ![w] = IF @ = "running" THEN s ELSE @]

Goto(w, s) == pc' = [pc EXCEPT ![w] = s] /\ UNCHANGED <<job, role, proc, proved>>

-----------------------------------------------------------------------------
(* Supervisor.tick: lease a batch under the tick lock, then run it.        *)

\* Variants of the sweep: an expired running lease is retried, is left alone, and
\* the attempt ceiling is not enforced.
SweptRetrying(d) ==
    CASE dstate[d] \in Held /\ elapsed[d] -> "retry_wait"
      [] dstate[d] \in Waiting /\ attempt[d] >= MaxAttempts -> "dead_letter"
      [] OTHER -> dstate[d]
SweptLeavingRunning(d) ==
    CASE dstate[d] = "leased" /\ elapsed[d] /\ attempt[d] < MaxAttempts -> "retry_wait"
      [] dstate[d] = "leased" /\ elapsed[d] /\ attempt[d] >= MaxAttempts -> "dead_letter"
      [] dstate[d] \in Waiting /\ attempt[d] >= MaxAttempts -> "dead_letter"
      [] OTHER -> dstate[d]
SweptWithoutCeiling(d) ==
    CASE dstate[d] = "running" /\ elapsed[d] -> "uncertain"
      [] dstate[d] = "leased" /\ elapsed[d] -> "retry_wait"
      [] OTHER -> dstate[d]

\* lease_delivery first sweeps every row: an expired running lease is quarantined,
\* an expired unstarted one waits again, and an exhausted waiting row is dropped.
Swept(d) ==
    CASE dstate[d] = "running" /\ elapsed[d] -> "uncertain"
      [] dstate[d] = "leased" /\ elapsed[d] /\ attempt[d] < MaxAttempts -> "retry_wait"
      [] dstate[d] = "leased" /\ elapsed[d] /\ attempt[d] >= MaxAttempts -> "dead_letter"
      [] dstate[d] \in Waiting /\ attempt[d] >= MaxAttempts -> "dead_letter"
      [] OTHER -> dstate[d]
SweptOwner(d) == IF Swept(d) \in Held THEN owner[d] ELSE Nobody

Eligible == {d \in Deliveries : Swept(d) \in Waiting /\ elapsed[d]}

\* The wakes this tick has leased, and their roles.
Batch(p) == {w \in Wakes : pc[w] = "leased" /\ proc[w] = p}
BatchRoles(p) == {role[w] : w \in Batch(p)}
TickLimit == IF Cap < Cardinality(Roles) THEN Cap ELSE Cardinality(Roles)

StartTick(p) ==
    /\ pstate[p] = "up" /\ tick[p] = "no"
    /\ ~paused
    /\ tick' = [tick EXCEPT ![p] = "leasing"]
    /\ UNCHANGED <<threads, rows, os, queue, pstate, paused, opvars>>

\* lease_delivery, when it finds a row.
LeaseRow(p, d) ==
    /\ dstate' = [x \in Deliveries |-> IF x = d THEN "leased" ELSE Swept(x)]
    /\ owner' = [x \in Deliveries |-> IF x = d THEN p ELSE SweptOwner(x)]
    /\ attempt' = [attempt EXCEPT ![d] = @ + 1]
    /\ elapsed' = [elapsed EXCEPT ![d] = FALSE]

\* One successful lease_delivery for a role this tick has not selected yet.
LeaseDelivery(p, w, d) ==
    /\ tick[p] = "leasing" /\ Cardinality(Batch(p)) < TickLimit
    /\ d \in Eligible /\ RoleOf[d] \notin BatchRoles(p)
    /\ pc[w] = "free"
    /\ LeaseRow(p, d)
    /\ pc' = [pc EXCEPT ![w] = "leased"]
    /\ job' = [job EXCEPT ![w] = d]
    /\ role' = [role EXCEPT ![w] = RoleOf[d]]
    /\ proc' = [proc EXCEPT ![w] = p]
    /\ UNCHANGED <<proved, rows, os, service, opvars>>

\* The same lease for a role already selected, and its finish_delivery(retry): handed
\* back at once, its attempt spent.
LeaseDuplicate(p, d) ==
    /\ tick[p] = "leasing" /\ Cardinality(Batch(p)) < TickLimit
    /\ d \in Eligible /\ RoleOf[d] \in BatchRoles(p)
    /\ dstate' = [x \in Deliveries |-> IF x = d THEN "retry_wait" ELSE Swept(x)]
    /\ owner' = [x \in Deliveries |-> SweptOwner(x)]
    /\ attempt' = [attempt EXCEPT ![d] = @ + 1]
    /\ elapsed' = [elapsed EXCEPT ![d] = FALSE]
    /\ UNCHANGED <<threads, rows, os, service, opvars>>

\* The batch is full, or a last lease_delivery found nothing eligible; its
\* sweep is committed all the same.  The threads of the batch start.
RunBatch(p) ==
    /\ tick[p] = "leasing"
    /\ \/ Cardinality(Batch(p)) >= TickLimit /\ UNCHANGED queue
       \/ /\ Cardinality(Batch(p)) < TickLimit /\ Eligible = {}
          /\ dstate' = [x \in Deliveries |-> Swept(x)]
          /\ owner' = [x \in Deliveries |-> SweptOwner(x)]
          /\ UNCHANGED <<attempt, elapsed>>
    /\ tick' = [tick EXCEPT ![p] = "running"]
    /\ pc' = [w \in Wakes |-> IF w \in Batch(p) THEN "begin" ELSE pc[w]]
    /\ UNCHANGED <<job, role, proc, proved, rows, os, pstate, paused, opvars>>

\* The executor has joined every thread of the batch; a command-line tick exits.
EndTick(p) ==
    /\ tick[p] = "running"
    /\ \A w \in Wakes : proc[w] = p /\ job[w] # Manual => pc[w] = "done"
    /\ tick' = [tick EXCEPT ![p] = "no"]
    /\ pstate' = [pstate EXCEPT ![p] = IF @ = "cli" THEN "dead" ELSE @]
    /\ UNCHANGED <<threads, rows, os, queue, paused, opvars>>

\* lease_delivery raises, or finish_delivery does for a role already selected: the
\* scheduler drops the tick, and what it has leased stays leased until it lapses.
\* (A tick that fails before its first lease changes nothing.)
TickFault(p) ==
    /\ "fault" \in Modes /\ tick[p] = "leasing" /\ Batch(p) # {}
    /\ \/ UNCHANGED queue
       \/ /\ Cardinality(Batch(p)) < TickLimit
          /\ \E d \in Eligible : RoleOf[d] \in BatchRoles(p) /\ LeaseRow(p, d)
    /\ tick' = [tick EXCEPT ![p] = "no"]
    /\ pstate' = [pstate EXCEPT ![p] = IF @ = "cli" THEN "dead" ELSE @]
    /\ pc' = [w \in Wakes |-> IF w \in Batch(p) THEN "done" ELSE pc[w]]
    /\ UNCHANGED <<job, role, proc, proved, rows, os, paused, opvars>>

\* run_manual_wake: an operator's wake takes no tick lock and has no delivery.
ManualWake(p, w, r) ==
    /\ "manual" \in Modes /\ pstate[p] = "up" /\ pc[w] = "free"
    /\ pc' = [pc EXCEPT ![w] = "begin"]
    /\ job' = [job EXCEPT ![w] = Manual]
    /\ role' = [role EXCEPT ![w] = r]
    /\ proc' = [proc EXCEPT ![w] = p]
    /\ UNCHANGED <<proved, rows, os, queue, service, opvars>>

-----------------------------------------------------------------------------
(* _run_wake, the try block.                                               *)

\* The paused flag is read once, before any row exists.
Begin(w) ==
    /\ pc[w] = "begin"
    /\ \/ ~paused /\ Goto(w, "create") /\ UNCHANGED queue
       \/ /\ paused /\ Goto(w, "done")
          /\ IF HoldsLease(w) THEN RetryDelivery(job[w]) ELSE UNCHANGED queue
    /\ UNCHANGED <<rows, os, service, opvars>>

ActiveSessions == {v \in Wakes : sess[v] = "active"}

\* Variant: room under the cap is enough.
MayCreateAnyRole(w) == Cardinality(ActiveSessions) < Cap

\* create_session: one active parent per role, and room under the global cap.
MayCreate(w) ==
    /\ \A v \in ActiveSessions : role[v] # role[w]
    /\ Cardinality(ActiveSessions) < Cap

CreateSession(w) ==
    /\ pc[w] = "create"
    /\ \/ /\ MayCreate(w) /\ Goto(w, "reserve")
          /\ sess' = [sess EXCEPT ![w] = "active"]
       \/ ~MayCreate(w) /\ Goto(w, "giveup") /\ UNCHANGED sess
    /\ UNCHANGED <<resv, wake, prow, os, queue, service, opvars>>

\* reserve_budget: granted, or refused with a budget hold (the amounts are
\* BudgetLedger's); either way it asks for an active session first.
ReserveBudget(w) ==
    /\ pc[w] = "reserve"
    /\ \/ /\ sess[w] = "active" /\ Goto(w, "prepare")
          /\ resv' = [resv EXCEPT ![w] = "active"]
       \/ sess[w] = "active" /\ Goto(w, "revoke") /\ UNCHANGED resv
       \/ sess[w] # "active" /\ Goto(w, "undo") /\ UNCHANGED resv
    /\ UNCHANGED <<sess, wake, prow, os, queue, service, opvars>>

RevokeSession(w) ==
    /\ pc[w] = "revoke"
    /\ \/ /\ sess[w] = "active" /\ job[w] # Manual /\ Goto(w, "hold")
          /\ sess' = [sess EXCEPT ![w] = "revoked"]
       \/ /\ sess[w] = "active" /\ job[w] = Manual /\ Goto(w, "undo")
          /\ sess' = [sess EXCEPT ![w] = "revoked"]
       \/ sess[w] # "active" /\ Goto(w, "undo") /\ UNCHANGED sess
    /\ UNCHANGED <<resv, wake, prow, os, queue, service, opvars>>

\* finish_delivery(budget_hold) gives the attempt back.
BudgetHold(w) ==
    /\ pc[w] = "hold"
    /\ \/ /\ HoldsLease(w) /\ Goto(w, "done")
          /\ SetDelivery(job[w], "budget_hold")
          /\ attempt' = [attempt EXCEPT ![job[w]] = @ - 1]
          /\ elapsed' = [elapsed EXCEPT ![job[w]] = FALSE]
       \/ ~HoldsLease(w) /\ Goto(w, "undo") /\ UNCHANGED queue
    /\ UNCHANGED <<rows, os, service, opvars>>

\* prepare_wake inserts the row whatever has become of the session.
PrepareWake(w) ==
    /\ pc[w] = "prepare" /\ Goto(w, "spawn")
    /\ wake' = [wake EXCEPT ![w] = "prepared"]
    /\ UNCHANGED <<sess, resv, prow, os, queue, service, opvars>>

\* Popen, then on_spawned.  The provider waits for its prompt on stdin.
Spawn(w) ==
    /\ pc[w] = "spawn" /\ Goto(w, "record")
    /\ prov' = [prov EXCEPT ![w] = "idle"]
    /\ UNCHANGED <<rows, ran, marks, queue, service, opvars>>

RecordProcess(w) ==
    /\ pc[w] = "record" /\ Goto(w, "mark")
    /\ prow' = [prow EXCEPT ![w] = "running"]
    /\ UNCHANGED <<sess, resv, wake, os, queue, service, opvars>>

\* on_started, first statement.
MarkWakeRunning(w) ==
    /\ pc[w] = "mark"
    /\ \/ /\ wake[w] = "prepared"
          /\ Goto(w, IF job[w] = Manual THEN "prompt" ELSE "start")
          /\ wake' = [wake EXCEPT ![w] = "running"]
       \/ wake[w] # "prepared" /\ Goto(w, "kill") /\ UNCHANGED wake
    /\ UNCHANGED <<sess, resv, prow, os, queue, service, opvars>>

\* on_started, second statement: the fence against a lost lease.
MayStart(w) == HoldsLease(w) /\ ~elapsed[job[w]]

StartDelivery(w) ==
    /\ pc[w] = "start"
    /\ \/ /\ MayStart(w) /\ Goto(w, "prompt")
          /\ dstate' = [dstate EXCEPT ![job[w]] = "running"]
       \/ ~MayStart(w) /\ Goto(w, "kill") /\ UNCHANGED dstate
    /\ UNCHANGED <<rows, os, owner, attempt, elapsed, service, opvars>>

\* communicate() hands over the prompt; a provider already killed never reads it.
Prompt(w) ==
    /\ pc[w] = "prompt" /\ Goto(w, "wait")
    /\ prov' = [prov EXCEPT ![w] = IF @ = "idle" THEN "working" ELSE @]
    /\ ran' = IF prov[w] = "idle" THEN ran \cup {w} ELSE ran
    /\ UNCHANGED <<rows, marks, queue, service, opvars>>

\* communicate() returns once the provider has ended, and reaps it.
Wait(w) ==
    /\ pc[w] = "wait" /\ prov[w] = "zombie" /\ Goto(w, "exit")
    /\ prov' = [prov EXCEPT ![w] = "gone"]
    /\ UNCHANGED <<rows, ran, marks, queue, service, opvars>>

\* communicate() times out: the group is terminated and reaped, or its identity
\* cannot be read and a second communicate(), without a timeout, waits for its end.
Timeout(w) ==
    /\ pc[w] = "wait" /\ prov[w] \in Alive
    /\ \/ Goto(w, "expire") /\ prov' = [prov EXCEPT ![w] = "gone"]
       \/ "fault" \in Modes /\ Goto(w, "overdue") /\ UNCHANGED prov
    /\ UNCHANGED <<rows, ran, marks, queue, service, opvars>>

Overdue(w) ==
    /\ pc[w] = "overdue" /\ prov[w] = "zombie" /\ Goto(w, "expire")
    /\ prov' = [prov EXCEPT ![w] = "gone"]
    /\ UNCHANGED <<rows, ran, marks, queue, service, opvars>>

\* finish_process(exited) raises when someone else has closed the row.
RecordExit(w) ==
    /\ pc[w] = "exit"
    /\ Goto(w, IF prow[w] = "running" THEN "settle" ELSE "stop")
    /\ FinishProcess(w, "exited")
    /\ UNCHANGED <<sess, resv, wake, os, queue, service, opvars>>

\* settle_budget: within the reservation, or past a boundary (it then raises).
SettleBudget(w) ==
    /\ pc[w] = "settle"
    /\ \/ /\ resv[w] = "active" /\ Goto(w, "finwake")
          /\ resv' = [resv EXCEPT ![w] = "settled"]
       \/ /\ resv[w] = "active" /\ Goto(w, "stop")
          /\ resv' = [resv EXCEPT ![w] = "uncertain"]
       \/ resv[w] # "active" /\ Goto(w, "stop") /\ UNCHANGED resv
    /\ UNCHANGED <<sess, wake, prow, os, queue, service, opvars>>

\* finish_wake: succeeded on a zero return code, failed on any other.
FinishWake(w) ==
    /\ pc[w] = "finwake"
    /\ \/ /\ wake[w] \in OpenWake
          /\ Goto(w, IF job[w] = Manual THEN "finsess" ELSE "findel")
          /\ \E s \in {"succeeded", "failed"} : wake' = [wake EXCEPT ![w] = s]
       \/ wake[w] \notin OpenWake /\ Goto(w, "stop") /\ UNCHANGED wake
    /\ UNCHANGED <<sess, resv, prow, os, queue, service, opvars>>

\* Variant: the provider's return code is not looked at.
FinishDeliveryUnchecked(w) ==
    /\ pc[w] = "findel"
    /\ \/ /\ HoldsRun(w) /\ Goto(w, "finsess")
          /\ SetDelivery(job[w], "succeeded")
       \/ ~HoldsRun(w) /\ Goto(w, "stop") /\ UNCHANGED <<dstate, owner>>
    /\ UNCHANGED <<rows, os, attempt, elapsed, service, opvars>>

\* finish_delivery: succeeded, or uncertain after a provider that failed.
FinishDelivery(w) ==
    /\ pc[w] = "findel"
    /\ \/ /\ HoldsRun(w) /\ Goto(w, "finsess")
          /\ SetDelivery(job[w], IF wake[w] = "succeeded" THEN "succeeded" ELSE "uncertain")
       \/ ~HoldsRun(w) /\ Goto(w, "stop") /\ UNCHANGED <<dstate, owner>>
    /\ UNCHANGED <<rows, os, attempt, elapsed, service, opvars>>

FinishSession(w) ==
    /\ pc[w] = "finsess"
    /\ \/ /\ sess[w] = "active" /\ resv[w] # "active" /\ Goto(w, "done")
          /\ sess' = [sess EXCEPT ![w] = "finished"]
       \/ ~(sess[w] = "active" /\ resv[w] # "active") /\ Goto(w, "stop") /\ UNCHANGED sess
    /\ UNCHANGED <<resv, wake, prow, os, queue, service, opvars>>

-----------------------------------------------------------------------------
(* _run_wake, the exception handlers.                                      *)

\* Any step may raise before it commits (I/O error, locked database, a server
\* thread that failed, output that is no usage record).
\* The handlers catch StateError alone: any other exception in one of them ends the
\* thread there.  _run's own handlers (kill, expire) raise into _run_wake's.
HandlerOf(s) ==
    CASE s \in {"begin", "create"} -> "giveup"
      [] s \in {"reserve", "revoke", "hold", "prepare", "spawn"} -> "undo"
      [] s \in {"record", "mark", "start"} -> "kill"
      [] s \in Handlers \ {"expire"} -> "done"
      [] OTHER -> "stop"

Fault(w) ==
    /\ "fault" \in Modes
    /\ pc[w] \in (TrySteps \cup Handlers) \ {"leased", "kill"}
    /\ Goto(w, HandlerOf(pc[w]))
    /\ broken' = IF HandlerOf(pc[w]) = "done" THEN broken \cup {w} ELSE broken
    /\ UNCHANGED <<rows, prov, ran, unsent, missed, queue, service, opvars>>

\* No session yet: hand the delivery back if it is still ours.
GiveUp(w) ==
    /\ pc[w] = "giveup" /\ Goto(w, "done")
    /\ IF HoldsLease(w) THEN RetryDelivery(job[w]) ELSE UNCHANGED queue
    /\ UNCHANGED <<rows, os, service, opvars>>

\* Not started: one recovery transaction, whose StateError is not caught.
Undo(w) ==
    /\ pc[w] = "undo" /\ Goto(w, "done")
    /\ \/ /\ OrphanSession(w) /\ RetryableJob(w)
          /\ RecoverOrphanRows(w) /\ RetryJob(w) /\ UNCHANGED broken
       \/ PreparedWake(w) /\ RecoverPreparedRows(w) /\ RetryJob(w) /\ UNCHANGED broken
       \/ /\ ~(OrphanSession(w) /\ RetryableJob(w)) /\ ~PreparedWake(w)
          /\ broken' = broken \cup {w} /\ UNCHANGED <<rows, queue>>
    /\ UNCHANGED <<prov, ran, unsent, missed, service, opvars>>

\* HostProviderLauncher._run: kill and reap a provider whose start failed, then
\* close its row if the database lets it.
Kill(w) ==
    /\ pc[w] = "kill" /\ Goto(w, "stop")
    /\ prov' = [prov EXCEPT ![w] = IF @ \in Alive \cup {"zombie"} THEN "gone" ELSE @]
    /\ \/ FinishProcess(w, "terminated")
       \/ "fault" \in Modes /\ UNCHANGED prow
    /\ UNCHANGED <<sess, resv, wake, ran, marks, queue, service, opvars>>

\* The row of a provider that timed out; a lost row raises all the same.
Expire(w) ==
    /\ pc[w] = "expire" /\ Goto(w, "stop")
    /\ FinishProcess(w, "terminated")
    /\ UNCHANGED <<sess, resv, wake, os, queue, service, opvars>>

\* terminate_session from the handler.
Stop(w) ==
    /\ pc[w] = "stop"
    /\ pc' = [pc EXCEPT ![w] = IF prow[w] = "running" THEN "stopmark" ELSE "unbudget"]
    /\ \E ok \in BOOLEAN : proved' = [proved EXCEPT ![w] = ok] /\ TerminateSession(w, ok)
    /\ UNCHANGED <<job, role, proc, rows, ran, missed, broken, queue, service, opvars>>

StopMark(w) ==
    /\ pc[w] = "stopmark" /\ Goto(w, "unbudget")
    /\ FinishProcess(w, IF proved[w] THEN "terminated" ELSE "uncertain")
    /\ UNCHANGED <<sess, resv, wake, os, queue, service, opvars>>

MarkBudgetUncertain(w) ==
    /\ pc[w] = "unbudget" /\ Goto(w, "force")
    /\ resv' = [resv EXCEPT ![w] = IF @ = "active" THEN "uncertain" ELSE @]
    /\ UNCHANGED <<sess, wake, prow, os, queue, service, opvars>>

QuarantineDelivery(w) ==
    /\ pc[w] = "force" /\ Goto(w, "unwake")
    /\ ForceDeliveryUncertain(w)
    /\ UNCHANGED <<rows, os, service, opvars>>

QuarantineWake(w) ==
    /\ pc[w] = "unwake" /\ Goto(w, "drop")
    /\ wake' = [wake EXCEPT ![w] = IF @ \in OpenWake THEN "uncertain" ELSE @]
    /\ UNCHANGED <<sess, resv, prow, os, queue, service, opvars>>

DropSession(w) ==
    /\ pc[w] = "drop" /\ Goto(w, "done")
    /\ \/ proved[w] /\ ForceTerminateSession(w)
       \/ ~(proved[w] /\ sess[w] = "active") /\ UNCHANGED rows
    /\ UNCHANGED <<os, queue, service, opvars>>

-----------------------------------------------------------------------------
(* Operator calls: Supervisor.pause and Supervisor.recover.  One runs at a *)
(* time (a bound of the model); each step is one transaction.              *)

EnterOp(p, kind, step) ==
    /\ opk = "idle"
    /\ opk' = kind /\ opp' = p /\ ost' = step
    /\ UNCHANGED <<orphans, todo, prepd, cur, opok>>

LeaveOp ==
    /\ opk' = "idle" /\ opp' = Nobody /\ ost' = "none"
    /\ orphans' = {} /\ todo' = {} /\ prepd' = {} /\ cur' = Nobody /\ opok' = FALSE

OpGoto(s) == ost' = s /\ UNCHANGED <<opk, opp, orphans, todo, prepd, cur, opok>>

\* Where an operator call leaves its process: a start-up recovery opens the
\* service or, if it raised, ends it; a command-line recovery exits.
AfterOp(ok) ==
    pstate' = IF opk # "recover" THEN pstate ELSE
        [pstate EXCEPT ![opp] = CASE @ = "recovering" -> IF ok THEN "up" ELSE "dead"
                                  [] @ = "cli" -> "dead"
                                  [] OTHER -> @]

\* An exception that pause or recover does not catch: the rest of the list is left
\* as it is.
AbortOp == LeaveOp /\ AfterOp(FALSE)

Pause(p) ==
    /\ "pause" \in Modes /\ pstate[p] = "up"
    /\ EnterOp(p, "pause", "scan")
    /\ paused' = TRUE
    /\ UNCHANGED <<threads, rows, os, queue, pstate, tick>>

Resume(p) ==
    /\ pstate[p] = "up" /\ paused
    /\ paused' = FALSE
    /\ UNCHANGED <<threads, rows, os, queue, pstate, tick, opvars>>

OpenWakes == {w \in Wakes : wake[w] \in OpenWake}

\* Variant: only wakes marked running are listed.
ScanRunningWakes ==
    /\ ost = "scan"
    /\ todo' = {w \in Wakes : wake[w] = "running"}
    /\ prepd' = {}
    /\ ost' = IF opk = "pause" THEN "next" ELSE "orphans"
    /\ UNCHANGED <<threads, rows, os, queue, service, opk, opp, orphans, cur, opok>>

\* active_wakes, for pause and as the second query of recover.
ScanWakes ==
    /\ ost = "scan"
    /\ todo' = OpenWakes
    /\ prepd' = {w \in OpenWakes : wake[w] = "prepared"}
    /\ ost' = IF opk = "pause" THEN "next" ELSE "orphans"
    /\ UNCHANGED <<threads, rows, os, queue, service, opk, opp, orphans, cur, opok>>

\* orphan_sessions, the first query of recover.
ScanOrphans ==
    /\ ost = "first"
    /\ orphans' = {w \in Wakes : sess[w] = "active" /\ wake[w] = "none"}
    /\ ost' = "scan"
    /\ UNCHANGED <<threads, rows, os, queue, service, opk, opp, todo, prepd, cur, opok>>

\* The operator call goes by w's rows and finds no process among them.
SeesNoProcess(w) ==
    missed' = IF prow[w] = "none" /\ pc[w] # "done" THEN missed \cup {w} ELSE missed

RecoverOrphan(w) ==
    /\ ost = "orphans" /\ w \in orphans
    /\ \/ /\ OrphanSession(w) /\ RecoverOrphanRows(w) /\ SeesNoProcess(w)
          /\ orphans' = orphans \ {w}
          /\ UNCHANGED <<pstate, opk, opp, ost, todo, prepd, cur, opok>>
       \/ ~OrphanSession(w) /\ AbortOp /\ UNCHANGED <<rows, missed>>
    /\ UNCHANGED <<threads, prov, ran, unsent, broken, queue, tick, paused>>

OrphansDone ==
    /\ ost = "orphans" /\ orphans = {} /\ OpGoto("next")
    /\ UNCHANGED <<threads, rows, os, queue, service>>

\* The wake's state is the one read by the scan; its process rows are read now.
NextWake(w) ==
    /\ ost = "next" /\ w \in todo
    /\ todo' = todo \ {w} /\ cur' = w
    /\ ost' = IF opk = "recover" /\ w \in prepd /\ prow[w] = "none"
              THEN "prepared" ELSE "read"
    /\ UNCHANGED <<threads, rows, os, queue, service, opk, opp, orphans, prepd, opok>>

RecoverPrepared ==
    /\ ost = "prepared"
    /\ \/ /\ PreparedWake(cur) /\ RecoverPreparedRows(cur) /\ RetryJob(cur)
          /\ OpGoto("next") /\ UNCHANGED pstate
       \/ ~PreparedWake(cur) /\ AbortOp /\ UNCHANGED <<rows, queue>>
    /\ UNCHANGED <<threads, os, tick, paused>>

\* _terminate_wake, first statement: terminate_session.
TerminateGroup ==
    /\ ost = "read"
    /\ ost' = IF prow[cur] = "running" THEN "mark" ELSE "force"
    /\ \E ok \in BOOLEAN : opok' = ok /\ TerminateSession(cur, ok)
    /\ SeesNoProcess(cur)
    /\ UNCHANGED <<threads, rows, ran, broken, queue, service, opk, opp, orphans, todo, prepd, cur>>

TerminateMark ==
    /\ ost = "mark"
    /\ FinishProcess(cur, IF opok THEN "terminated" ELSE "uncertain")
    /\ OpGoto(IF opok THEN "force" ELSE "quarantine")
    /\ UNCHANGED <<threads, sess, resv, wake, os, queue, service>>

TerminateForce ==
    /\ ost = "force" /\ OpGoto("revoke")
    /\ ForceDeliveryUncertain(cur)
    /\ UNCHANGED <<threads, rows, os, service>>

TerminateRevoke ==
    /\ ost = "revoke"
    /\ \/ ForceTerminateSession(cur) /\ OpGoto("next") /\ UNCHANGED pstate
       \/ sess[cur] # "active" /\ AbortOp /\ UNCHANGED rows
    /\ UNCHANGED <<threads, os, queue, tick, paused>>

TerminateQuarantine ==
    /\ ost = "quarantine" /\ OpGoto("next")
    /\ wake' = [wake EXCEPT ![cur] = IF @ \in OpenWake THEN "uncertain" ELSE @]
    /\ UNCHANGED <<threads, sess, resv, prow, os, queue, service>>

OpDone ==
    /\ ost = "next" /\ todo = {}
    /\ LeaveOp /\ AfterOp(TRUE)
    /\ UNCHANGED <<threads, rows, os, queue, tick, paused>>

\* A statement of the call raises (I/O error, locked database).
OpFault ==
    /\ "fault" \in Modes /\ ost # "none"
    /\ AbortOp
    /\ UNCHANGED <<threads, rows, os, queue, tick, paused>>

-----------------------------------------------------------------------------
(* The service process, the provider process, and time.                    *)

\* AdminServer.serve_forever recovers before anything else.  The service manager
\* starts a new process only once the previous one is gone.
StartService(p) ==
    /\ pstate[p] = "off" /\ \A q \in Procs : pstate[q] \in {"off", "dead", "cli"}
    /\ EnterOp(p, "recover", "first")
    /\ pstate' = [pstate EXCEPT ![p] = "recovering"]
    /\ UNCHANGED <<threads, rows, os, queue, tick, paused>>

\* sjg-supervisor tick, and sjg-supervisor recover, beside a running service.
StartCli(p) ==
    /\ "cli" \in Modes /\ pstate[p] = "off"
    /\ \/ /\ ~paused /\ UNCHANGED opvars
          /\ tick' = [tick EXCEPT ![p] = "leasing"]
       \/ EnterOp(p, "recover", "first") /\ UNCHANGED tick
    /\ pstate' = [pstate EXCEPT ![p] = "cli"]
    /\ UNCHANGED <<threads, rows, os, queue, paused>>

\* serve_forever's finally: no new tick, and a recovery while the threads of a
\* tick or a manual wake may still run.
Shutdown(p) ==
    /\ "shutdown" \in Modes /\ pstate[p] = "up"
    /\ EnterOp(p, "recover", "first")
    /\ pstate' = [pstate EXCEPT ![p] = "stopping"]
    /\ UNCHANGED <<threads, rows, os, queue, tick, paused>>

\* The end of process p: its threads stop where they are, its children are
\* adopted, its operator call is lost.
EndProcess(p) ==
    /\ pstate' = [pstate EXCEPT ![p] = "dead"]
    /\ tick' = [tick EXCEPT ![p] = "no"]
    /\ pc' = [w \in Wakes |-> IF proc[w] = p THEN "done" ELSE pc[w]]
    /\ prov' = [w \in Wakes |-> IF proc[w] = p /\ prov[w] = "zombie" THEN "gone" ELSE prov[w]]
    /\ IF opp = p THEN LeaveOp ELSE UNCHANGED opvars
    /\ UNCHANGED <<job, role, proc, proved, rows, ran, marks, queue, paused>>

Crash(p) == "crash" \in Modes /\ pstate[p] \in LiveProc /\ EndProcess(p)

\* After a shutdown's recovery the interpreter joins the executor's threads;
\* daemon threads (a manual wake, a tick still leasing) are dropped.
Exit(p) ==
    /\ pstate[p] = "stopping" /\ opp # p
    /\ \A w \in Wakes : proc[w] = p /\ job[w] # Manual => pc[w] \in {"done", "leased"}
    /\ EndProcess(p)

\* The provider ends by itself, with or without success.
ProviderExit(w) ==
    /\ prov[w] \in Alive
    /\ prov' = [prov EXCEPT ![w] =
                  IF pstate[proc[w]] \in LiveProc THEN "zombie" ELSE "gone"]
    /\ UNCHANGED <<threads, rows, ran, marks, queue, service, opvars>>

\* The pid of a reaped provider is given to another process.
PidReuse(w) ==
    /\ "pidreuse" \in Modes /\ prov[w] = "gone" /\ prow[w] = "running"
    /\ prov' = [prov EXCEPT ![w] = "reused"]
    /\ UNCHANGED <<threads, rows, ran, marks, queue, service, opvars>>

\* A lease lapses or a retry falls due.
Elapse(d) ==
    /\ dstate[d] \in Held \cup Waiting /\ ~elapsed[d]
    /\ elapsed' = [elapsed EXCEPT ![d] = TRUE]
    /\ UNCHANGED <<threads, rows, os, dstate, owner, attempt, service, opvars>>

-----------------------------------------------------------------------------
TickStep(p) ==
    \/ StartTick(p) \/ RunBatch(p) \/ EndTick(p)
    \/ \E d \in Deliveries : LeaseDuplicate(p, d)
    \/ \E w \in Wakes, d \in Deliveries : LeaseDelivery(p, w, d)

WakeStep(w) ==
    \/ Begin(w) \/ CreateSession(w) \/ ReserveBudget(w) \/ RevokeSession(w)
    \/ BudgetHold(w) \/ PrepareWake(w) \/ Spawn(w) \/ RecordProcess(w)
    \/ MarkWakeRunning(w) \/ StartDelivery(w) \/ Prompt(w) \/ Wait(w) \/ Timeout(w)
    \/ Overdue(w) \/ RecordExit(w) \/ SettleBudget(w) \/ FinishWake(w) \/ FinishDelivery(w)
    \/ FinishSession(w) \/ GiveUp(w) \/ Undo(w) \/ Kill(w) \/ Expire(w) \/ Stop(w)
    \/ StopMark(w) \/ MarkBudgetUncertain(w) \/ QuarantineDelivery(w)
    \/ QuarantineWake(w) \/ DropSession(w)

OpStep ==
    \/ ScanWakes \/ ScanOrphans \/ OrphansDone \/ RecoverPrepared
    \/ TerminateGroup \/ TerminateMark \/ TerminateForce \/ TerminateRevoke
    \/ TerminateQuarantine \/ OpDone
    \/ \E w \in Wakes : RecoverOrphan(w) \/ NextWake(w)

EnvStep ==
    \/ \E w \in Wakes : Fault(w) \/ ProviderExit(w) \/ PidReuse(w)
    \/ \E d \in Deliveries : Elapse(d)
    \/ OpFault
    \/ \E p \in Procs : \/ Pause(p) \/ Resume(p) \/ StartService(p) \/ StartCli(p)
                        \/ Shutdown(p) \/ Crash(p) \/ Exit(p) \/ TickFault(p)
                        \/ \E w \in Wakes, r \in Roles : ManualWake(p, w, r)

Next ==
    \/ \E p \in Procs : TickStep(p)
    \/ \E w \in Wakes : WakeStep(w)
    \/ OpStep
    \/ EnvStep

Spec == Init /\ [][Next]_vars

\* The threads of a live process run; communicate() has a timeout; the scheduler
\* ticks for ever; the service manager restarts a dead service; time passes.
\* Nothing obliges a provider to end by itself, an operator to act or a pid to
\* be reused.
Fairness ==
    /\ \A w \in Wakes : WF_vars(WakeStep(w))
    /\ \A p \in Procs : WF_vars(TickStep(p)) /\ WF_vars(StartService(p))
    /\ WF_vars(OpStep)
    /\ \A d \in Deliveries : WF_vars(Elapse(d))

FairSpec == Spec /\ Fairness

-----------------------------------------------------------------------------
(* Properties.                                                             *)

ThreadTypes ==
    /\ pc \in [Wakes -> TrySteps \cup Handlers \cup {"free", "done"}]
    /\ job \in [Wakes -> Deliveries \cup {Manual}]
    /\ role \in [Wakes -> Roles \cup {Nobody}]
    /\ proc \in [Wakes -> Procs \cup {Nobody}]
    /\ proved \in [Wakes -> BOOLEAN]
RowTypes ==
    /\ sess \in [Wakes -> {"none", "active", "revoked", "finished"}]
    /\ resv \in [Wakes -> {"none", "active", "settled", "uncertain", "released"}]
    /\ wake \in [Wakes -> {"none", "prepared", "running", "succeeded", "failed",
                           "uncertain", "terminated"}]
    /\ prow \in [Wakes -> {"none", "running", "exited", "terminated", "uncertain"}]
OsTypes ==
    /\ prov \in [Wakes -> {"none", "idle", "working", "zombie", "gone", "reused"}]
    /\ ran \subseteq Wakes /\ unsent \subseteq Wakes
    /\ missed \subseteq Wakes /\ broken \subseteq Wakes
QueueTypes ==
    /\ dstate \in [Deliveries -> Waiting \cup Held \cup Final \cup {"budget_hold"}]
    /\ owner \in [Deliveries -> Procs \cup {Nobody}]
    /\ attempt \in [Deliveries -> 0 .. MaxAttempts]
    /\ elapsed \in [Deliveries -> BOOLEAN]
ServiceTypes ==
    /\ pstate \in [Procs -> LiveProc \cup {"off", "dead"}]
    /\ tick \in [Procs -> {"no", "leasing", "running"}]
    /\ paused \in BOOLEAN
AtWake == {"prepared", "read", "mark", "force", "revoke", "quarantine"}
OpTypes ==
    /\ opk \in {"idle", "pause", "recover"}
    /\ opp \in Procs \cup {Nobody}
    /\ ost \in {"none", "first", "scan", "orphans", "next"} \cup AtWake
    /\ ost \in AtWake => cur \in Wakes
    /\ orphans \subseteq Wakes /\ todo \subseteq Wakes /\ prepd \subseteq Wakes
    /\ cur \in Wakes \cup {Nobody}
    /\ opok \in BOOLEAN

\* Every column and variable keeps to its declared states; attempt stays within
\* the ceiling of lease_delivery and, given back by a budget hold, above zero.
TypeOK ==
    ThreadTypes /\ RowTypes /\ OsTypes /\ QueueTypes /\ ServiceTypes /\ OpTypes

\* A delivery whose provider was prompted once is never prompted again, whatever
\* crashes, recoveries, lapsed leases and second supervisors do: start_delivery
\* fences the prompt, and no path leads from running back to a waiting state.
NoReexecution ==
    \A v, w \in ran : job[v] = job[w] /\ job[v] # Manual => v = w

\* release of a reservation is a claim that the provider did no work
\* (recover_orphan_session, recover_prepared_wake): no released reservation
\* belongs to a prompted provider.
ReleasedUnused == \A w \in Wakes : resv[w] = "released" => w \notin ran

\* A session is closed only when its provider is dead, so that the role and the
\* slot it frees are really free.  Two kinds of wake are excepted, and no other: one
\* whose living provider _terminate_group took for terminated because its identity
\* could not be read, and one whose thread was at work while a pause or a recovery
\* went by its rows, which named no process yet.
Excused == unsent \cup missed
ClosedSessionIsQuiet ==
    \A w \in Wakes \ Excused : sess[w] \in {"revoked", "finished"} => prov[w] # "working"

\* What create_session is for: never two providers at work for one role, never
\* more than the cap in all, those of the excused wakes not counted.
RoleExclusive ==
    LET Working == {w \in Wakes \ Excused : prov[w] = "working"}
    IN  /\ \A v, w \in Working : role[v] = role[w] => v = w
        /\ Cardinality(Working) <= Cap

\* Tokens known to be spent are settled only once the provider has ended, and a
\* delivery is reported as succeeded only if its provider ran to its end.
OutcomeIsReal ==
    /\ \A w \in Wakes : resv[w] = "settled" => prov[w] \notin Alive
    /\ \A d \in Deliveries : dstate[d] = "succeeded" =>
          \E w \in Wakes : job[w] = d /\ prov[w] \notin Alive \cup {"none"}
                            /\ prow[w] = "exited" /\ wake[w] = "succeeded"

\* Once a start-up recovery has opened the service, every active session without
\* a finished wake has a thread that will close it.  The exception, left to the next
\* recovery, is a wake whose exception handler raised itself: a fault in it, or an undo
\* that refuses because the lease ran out meanwhile (_retry_leased_delivery).
Attended(w) == pc[w] # "done"
NoOrphanAfterStartup ==
    \A w \in Wakes : /\ \E p \in Procs : pstate[p] = "up"
                     /\ sess[w] = "active"
                     /\ wake[w] \in OpenWake \cup {"none"}
                     => Attended(w) \/ w \in broken

\* The delivery table implements its promise: a delivery is committed to one
\* execution at most, worked on by one wake at most, and its outcome is final.
Phase(d) == CASE dstate[d] = "running" -> "committed"
              [] dstate[d] \in Final -> "closed"
              [] OTHER -> "waiting"
Promise == INSTANCE AtMostOnce WITH
    phase <- [d \in Deliveries |-> Phase(d)],
    works <- [d \in Deliveries |-> {w \in ran : job[w] = d}]
ImplementsAtMostOnce == Promise!Spec

\* Under a service that in the end stays up, every delivery is disposed of: no
\* crash, lost lease, failed start or failed handler leaves one leased, running or
\* retried for ever.  The exception is a thread that waits for ever, past its timeout,
\* for a provider that it could not signal: it holds the tick lock all the while.
ServiceStays == <>[](\E p \in Procs : pstate[p] = "up")
NobodyOverdue == <>[](\A w \in Wakes : pc[w] # "overdue")
EveryDeliveryDisposed ==
    ServiceStays /\ NobodyOverdue =>
        \A d \in Deliveries : <>[](dstate[d] \in Final \cup {"budget_hold"})

=============================================================================
