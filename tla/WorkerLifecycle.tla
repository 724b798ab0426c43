--------------------------- MODULE WorkerLifecycle ---------------------------
(***************************************************************************)
(* Workers.  A wake's provider may ask its broker for a worker: a second   *)
(* provider process that works on a copy of declared files and whose       *)
(* changes are imported into the role's workspace.  The thread that        *)
(* handles the request reserves an attempt under three caps, copies,       *)
(* spawns, records, waits, accounts for the tokens, and imports, while the *)
(* wake that asked may end, be stopped, or be followed by the role's next. *)
(*                                                                         *)
(* A role's wakes follow each other on the role's workspace.  A session    *)
(* has the end of _run_wake that concerns workers (module WakeLifecycle    *)
(* has the rest).  A file is the number of its last write.  A worker       *)
(* changes every file.                                                     *)
(***************************************************************************)
EXTENDS Naturals, FiniteSets

CONSTANTS
    Roles,          \* roles, each with a workspace
    Sessions,       \* wake sessions
    RoleOf,         \* RoleOf[s]: the role a session is a wake of
    Attempts,       \* rows of worker_attempt
    Files,          \* declared paths of the workspace
    CumulativeCap,  \* max_workers_per_wake
    ConcurrentCap,  \* max_workers_concurrent
    GlobalCap,      \* global_max_agents
    MaxWrites,      \* bound on the writes of providers
    Nobody,         \* no session
    Modes           \* disturbances: "crash" of the supervisor, "fault" of a call

ASSUME WorkerNumbersAssumption ==
    {CumulativeCap, ConcurrentCap, GlobalCap, MaxWrites} \subseteq Nat
ASSUME WorkerNobodyAssumption == Nobody \notin Sessions
ASSUME WorkerModesAssumption == Modes \subseteq {"crash", "fault"}
ASSUME WorkerRolesAssumption == RoleOf \in [Sessions -> Roles]

VARIABLES
    sess,      \* sess[s]: wake_session.state, "none" without a row
    parent,    \* parent[s]: process_runtime.state of the wake's provider
    step,      \* step[s]: where the end of _run_wake is
    budget,    \* budget[s]: budget_reservation.state
    att,       \* att[a]: worker_attempt.state, "none" without a row
    of,        \* of[a]: its session_id
    pc,        \* pc[a]: where WorkerSupervisor.run is
    os,        \* os[a]: the worker's process
    prow,      \* prow[a]: its process_runtime.state
    usage,     \* the attempts whose tokens are in _usage
    unknown,   \* _uncertain_usage
    spent,     \* the attempts whose process was prompted (history)
    charged,   \* the attempts whose tokens were settled (history)
    ver,       \* ver[r][f]: the files of a role's workspace
    base,      \* base[a][f]: the worker's starting snapshot
    writes,    \* how often providers wrote
    imported,  \* imported[a]: the files it has imported
    stale,     \* the attempts that overwrote what they had not started from (history)
    raced,     \* the attempts during whose import the workspace changed (history)
    unseen,    \* the attempts not over when their wake took the usage (history)
    unrecorded,\* those that terminate_session could not know of (history)
    unsent,    \* those it reported as terminated without ending them (history)
    lost       \* those whose usage an exception dropped (history)

wake   == <<sess, parent, step, budget>>
rows   == <<att, of>>
tokens == <<usage, unknown, spent, charged>>
files  == <<ver, base, writes, imported, stale, raced>>
missed == <<unseen, unrecorded, unsent, lost>>
vars   == <<wake, rows, pc, os, prow, tokens, files, missed>>

Counted == {"accepted", "running"}
AtWork  == {a \in Attempts : pc[a] # "none"}
WorkersOf(s) == {a \in Attempts : of[a] = s}
Active  == {s \in Sessions : sess[s] = "active"}

WakeTypes ==
    /\ sess \in [Sessions -> {"none", "active", "finished", "revoked"}]
    /\ parent \in [Sessions -> {"none", "running", "ended"}]
    /\ step \in [Sessions -> {"none", "run", "finish", "stop", "recover", "force", "keep",
                              "left", "closed"}]
    /\ budget \in [Sessions -> {"none", "active", "settled", "uncertain"}]
WorkerTypes ==
    /\ att \in [Attempts -> Counted \cup {"none", "succeeded", "failed"}]
    /\ of \in [Attempts -> Sessions \cup {Nobody}]
    /\ pc \in [Attempts -> {"none", "copy", "mark", "spawn", "record", "prompt", "wait",
                            "account", "check", "import", "finish", "fail"}]
    /\ os \in [Attempts -> {"none", "idle", "working", "exited", "killed"}]
    /\ prow \in [Attempts -> {"none", "running", "ended"}]
TokenTypes ==
    /\ usage \subseteq Attempts /\ unknown \subseteq Sessions
    /\ spent \subseteq Attempts /\ charged \subseteq Attempts
    /\ unseen \subseteq Attempts /\ unrecorded \subseteq Attempts
    /\ unsent \subseteq Attempts /\ lost \subseteq Attempts
FileTypes ==
    /\ ver \in [Roles -> [Files -> Nat]]
    /\ base \in [Attempts -> [Files -> Nat]]
    /\ writes \in 0..MaxWrites
    /\ imported \in [Attempts -> SUBSET Files]
    /\ stale \subseteq Attempts /\ raced \subseteq Attempts

\* Every column and variable keeps to its declared states, and a wake has no more
\* attempts in all than max_workers_per_wake.
TypeOK ==
    /\ WakeTypes /\ WorkerTypes /\ TokenTypes /\ FileTypes
    /\ \A s \in Sessions : Cardinality(WorkersOf(s)) <= CumulativeCap

Init ==
    /\ sess = [s \in Sessions |-> "none"]
    /\ parent = [s \in Sessions |-> "none"]
    /\ step = [s \in Sessions |-> "none"]
    /\ budget = [s \in Sessions |-> "none"]
    /\ att = [a \in Attempts |-> "none"]
    /\ of = [a \in Attempts |-> Nobody]
    /\ pc = [a \in Attempts |-> "none"]
    /\ os = [a \in Attempts |-> "none"]
    /\ prow = [a \in Attempts |-> "none"]
    /\ usage = {} /\ unknown = {} /\ spent = {} /\ charged = {}
    /\ ver = [r \in Roles |-> [f \in Files |-> 0]]
    /\ base = [a \in Attempts |-> [f \in Files |-> 0]]
    /\ imported = [a \in Attempts |-> {}]
    /\ stale = {} /\ raced = {} /\ writes = 0 /\ unseen = {} /\ unrecorded = {}
    /\ unsent = {} /\ lost = {}

Goto(a, label) == pc' = [pc EXCEPT ![a] = label]

-----------------------------------------------------------------------------
(* The wake.                                                               *)

\* Agents that the caps count: parents and workers by their rows.
Agents == Cardinality(Active) + Cardinality({a \in Attempts : att[a] \in Counted})

\* create_session, reserve_budget and the provider's start.
StartWake(s) ==
    /\ sess[s] = "none" /\ Agents < GlobalCap
    /\ \A t \in Active : RoleOf[t] # RoleOf[s]
    /\ sess' = [sess EXCEPT ![s] = "active"]
    /\ parent' = [parent EXCEPT ![s] = "running"]
    /\ step' = [step EXCEPT ![s] = "run"]
    /\ budget' = [budget EXCEPT ![s] = "active"]
    /\ UNCHANGED <<rows, pc, os, prow, tokens, files, missed>>

\* Variant: only the tokens that are known are asked for.
MaySettleKnown(s) == TRUE

\* take_worker_usage returns None for a session whose usage is unknown.
MaySettle(s) == s \notin unknown

\* The provider ends by itself, whether or not its worker has answered:
\* take_worker_usage, which forgets what it returns, and settle_budget.
ParentEnds(s) ==
    /\ step[s] = "run"
    /\ parent' = [parent EXCEPT ![s] = "ended"]
    /\ usage' = usage \ WorkersOf(s)
    /\ unknown' = unknown \ {s}
    /\ unseen' = unseen \cup (WorkersOf(s) \cap AtWork)
    /\ IF MaySettle(s)
       THEN /\ charged' = charged \cup (usage \cap WorkersOf(s))
            /\ budget' = [budget EXCEPT ![s] = "settled"]
            /\ step' = [step EXCEPT ![s] = "finish"]
       ELSE /\ step' = [step EXCEPT ![s] = "stop"]
            /\ UNCHANGED <<charged, budget>>
    /\ UNCHANGED <<sess, rows, pc, os, prow, spent, files, unrecorded, unsent, lost>>

\* finish_session raises while workers are active.
FinishSession(s) ==
    /\ step[s] = "finish"
    /\ IF \E a \in WorkersOf(s) : att[a] \in Counted
       THEN step' = [step EXCEPT ![s] = "stop"] /\ UNCHANGED sess
       ELSE /\ sess' = [sess EXCEPT ![s] = "finished"]
            /\ step' = [step EXCEPT ![s] = "closed"]
    /\ UNCHANGED <<parent, budget, rows, pc, os, prow, tokens, files, missed>>

\* The wake fails, times out, or is paused by an operator.
BeginStop(s) ==
    /\ step[s] \in {"run", "finish"}
    /\ step' = [step EXCEPT ![s] = "stop"]
    /\ UNCHANGED <<sess, parent, budget, rows, pc, os, prow, tokens, files, missed>>

\* Variant: only the provider is stopped.
RunningParentsOnly(s) == {}

\* active_processes: what process_runtime has as running.
Running(s) == {a \in WorkersOf(s) : prow[a] = "running"}

\* The processes of those rows that live, and those that are over.
Alive(s) == {a \in Running(s) : os[a] \in {"idle", "working"}}
Over(s)  == Running(s) \ Alive(s)

\* terminate_session.  A worker between reserve_worker and record_process has no row.
\* A process whose identity cannot be read (unread) is reported as terminated and goes on.
\* The answer is FALSE if a process is over, unseen, and its pid is another's.  After a
\* pause that was answered so, the thread's own handler follows.
Terminate(s, unread, ok) ==
    /\ step[s] \in {"stop", "recover"}
    /\ unread \subseteq Alive(s) /\ ("fault" \in Modes \/ unread = {})
    /\ os' = [a \in Attempts |-> IF a \in Alive(s) \ unread THEN "killed" ELSE os[a]]
    /\ prow' = [a \in Attempts |-> IF a \in Running(s) THEN "ended" ELSE prow[a]]
    /\ unsent' = unsent \cup unread
    /\ unrecorded' = unrecorded \cup {a \in WorkersOf(s) \cap AtWork : prow[a] = "none"}
    /\ parent' = [parent EXCEPT ![s] = "ended"]
    /\ ok \/ Over(s) # {} \/ parent[s] = "running"
    /\ \/ step' = [step EXCEPT ![s] = IF ok THEN "force" ELSE "keep"]
       \/ ~ok /\ step[s] = "stop" /\ UNCHANGED step
    /\ UNCHANGED <<sess, budget, rows, pc, tokens, files, unseen, lost>>

\* mark_budget_uncertain, and again in force_terminate_session.
BudgetOfStopped(s) == IF budget[s] = "active" THEN "uncertain" ELSE budget[s]

\* force_terminate_session: the wake's workers have failed, whatever they do.
ForceTerminateSession(s) ==
    /\ step[s] = "force"
    /\ att' = [a \in Attempts |->
                 IF a \in WorkersOf(s) /\ att[a] \in Counted THEN "failed" ELSE att[a]]
    /\ budget' = [budget EXCEPT ![s] = BudgetOfStopped(s)]
    /\ sess' = [sess EXCEPT ![s] = "revoked"]
    /\ step' = [step EXCEPT ![s] = "closed"]
    /\ UNCHANGED <<parent, of, pc, os, prow, tokens, files, missed>>

\* A wake that was not terminated keeps its session and its slots.  Its row becomes
\* uncertain, so that no recovery lists it again; its own handler, unlike recovery, also
\* marks the reservation.
Keep(s) ==
    /\ step[s] = "keep"
    /\ budget' \in {budget, [budget EXCEPT ![s] = BudgetOfStopped(s)]}
    /\ step' = [step EXCEPT ![s] = "left"]
    /\ UNCHANGED <<sess, parent, rows, pc, os, prow, tokens, files, missed>>

\* The attempts between their check of role r's workspace and the end of their import.
Importing(r) == {a \in Attempts : pc[a] = "import" /\ RoleOf[of[a]] = r}

\* The wake's provider writes a file of its workspace, or a process of it that outlived
\* its end: killpg reaches only its group, and not at all one that could not be identified.
ParentWrites(s, f) ==
    LET r == RoleOf[s]
    IN  /\ parent[s] # "none" /\ writes < MaxWrites
        /\ writes' = writes + 1
        /\ ver' = [ver EXCEPT ![r][f] = @ + 1]
        /\ raced' = raced \cup Importing(r)
        /\ UNCHANGED <<wake, rows, pc, os, prow, tokens, base, imported, stale, missed>>

-----------------------------------------------------------------------------
(* WorkerSupervisor.run.                                                   *)

\* Variant: finished workers leave the cumulative cap.
MayReserveAnew(s) ==
    /\ sess[s] = "active"
    /\ Cardinality({a \in WorkersOf(s) : att[a] \in Counted}) < ConcurrentCap
    /\ Agents < GlobalCap

\* reserve_worker.
MayReserve(s) ==
    /\ sess[s] = "active"
    /\ Cardinality(WorkersOf(s)) < CumulativeCap
    /\ Cardinality({a \in WorkersOf(s) : att[a] \in Counted}) < ConcurrentCap
    /\ Agents < GlobalCap

\* The wake's socket server handles one request at a time until the wake is closed,
\* also one that its provider sent before it ended or was terminated.
Reserve(a, s) ==
    /\ att[a] = "none"
    /\ step[s] \in {"run", "finish", "stop", "force", "keep"}
    /\ WorkersOf(s) \cap AtWork = {}
    /\ MayReserve(s)
    /\ att' = [att EXCEPT ![a] = "accepted"]
    /\ of' = [of EXCEPT ![a] = s]
    /\ Goto(a, "copy")
    /\ unrecorded' = IF step[s] \in {"force", "keep"} THEN unrecorded \cup {a} ELSE unrecorded
    /\ unseen' = IF budget[s] = "settled" THEN unseen \cup {a} ELSE unseen
    /\ UNCHANGED <<wake, os, prow, tokens, files, unsent, lost>>

\* _regular_file_state.
FileState(r, f) == ver[r][f]

\* snapshot_tree, of a scratch directory that was just filled.
SnapshotTree(r) == [f \in Files |-> FileState(r, f)]

\* A scratch directory, a copy of every input, and before, what the copies are.
Copy(a) ==
    /\ pc[a] = "copy"
    /\ base' = [base EXCEPT ![a] = SnapshotTree(RoleOf[of[a]])]
    /\ Goto(a, "mark")
    /\ UNCHANGED <<wake, rows, os, prow, tokens, ver, writes, imported, stale, raced, missed>>

\* The UPDATE has no condition on the state it replaces.
MarkRunning(a) ==
    /\ pc[a] = "mark"
    /\ att' = [att EXCEPT ![a] = "running"]
    /\ Goto(a, "spawn")
    /\ UNCHANGED <<wake, of, os, prow, tokens, files, missed>>

Spawn(a) ==
    /\ pc[a] = "spawn"
    /\ os' = [os EXCEPT ![a] = "idle"]
    /\ Goto(a, "record")
    /\ UNCHANGED <<wake, rows, prow, tokens, files, missed>>

\* record_process.
Record(a) ==
    /\ pc[a] = "record"
    /\ prow' = [prow EXCEPT ![a] = "running"]
    /\ Goto(a, "prompt")
    /\ UNCHANGED <<wake, rows, os, tokens, files, missed>>

\* communicate sends the prompt, to a process that may have been killed.
Prompt(a) ==
    /\ pc[a] = "prompt"
    /\ os' = [os EXCEPT ![a] = IF @ = "idle" THEN "working" ELSE @]
    /\ spent' = IF os[a] = "idle" THEN spent \cup {a} ELSE spent
    /\ Goto(a, "wait")
    /\ UNCHANGED <<wake, rows, prow, usage, unknown, charged, files, missed>>

\* The worker's process ends by itself, or is killed by the thread's timeout.
WorkerEnds(a) ==
    /\ os[a] = "working"
    /\ os' = [os EXCEPT ![a] = "exited"]
    /\ UNCHANGED <<wake, rows, pc, prow, tokens, files, missed>>

\* finish_process raises if the process was terminated by others.
Collect(a) ==
    /\ pc[a] = "wait" /\ os[a] \in {"exited", "killed"}
    /\ prow' = [prow EXCEPT ![a] = "ended"]
    /\ Goto(a, IF prow[a] = "running" THEN "account" ELSE "fail")
    /\ UNCHANGED <<wake, rows, os, tokens, files, missed>>

\* run_worker: the output says what was used, or nobody knows.
Account(a, known) ==
    /\ pc[a] = "account"
    /\ IF known THEN usage' = usage \cup {a} /\ UNCHANGED unknown
                ELSE unknown' = unknown \cup {of[a]} /\ UNCHANGED usage
    /\ Goto(a, IF known THEN "check" ELSE "fail")
    /\ UNCHANGED <<wake, rows, os, prow, spent, charged, files, missed>>

\* Variant: one path is checked for all.
UnchangedSomewhere(a) == \E f \in Files : FileState(RoleOf[of[a]], f) = base[a][f]

\* Every changed path is compared with the starting snapshot.
UnchangedSince(a) == \A f \in Files : FileState(RoleOf[of[a]], f) = base[a][f]

\* A failure of the provider, too much output, and changes out of scope or too large
\* are refused here as well.
Check(a, acceptable) ==
    /\ pc[a] = "check"
    /\ Goto(a, IF acceptable /\ UnchangedSince(a) THEN "import" ELSE "fail")
    /\ UNCHANGED <<wake, rows, os, prow, tokens, files, missed>>

\* Variant: the attempt is over once something has been imported.
ImportedEnough(done) == TRUE

\* Every changed path has been replaced.
ImportedAll(done) == done = Files

\* _replace_regular_file: a rename of a file written beside it.
Replace(r, f) == ver' = [ver EXCEPT ![r][f] = @ + 1]

\* One path after the other is replaced.
Import(a, f) ==
    LET r == RoleOf[of[a]]
    IN  /\ pc[a] = "import" /\ f \notin imported[a]
        /\ Replace(r, f)
        /\ imported' = [imported EXCEPT ![a] = @ \cup {f}]
        /\ stale' = IF ver[r][f] # base[a][f] THEN stale \cup {a} ELSE stale
        /\ raced' = raced \cup (Importing(r) \ {a})
        /\ Goto(a, IF ImportedAll(imported'[a]) THEN "finish" ELSE "import")
        /\ UNCHANGED <<wake, rows, os, prow, tokens, base, writes, missed>>

\* Both endings write the row whatever it holds, and remove the scratch directory.
Finish(a) ==
    /\ pc[a] \in {"finish", "fail"}
    /\ att' = [att EXCEPT ![a] = IF pc[a] = "finish" THEN "succeeded" ELSE "failed"]
    /\ base' = [base EXCEPT ![a] = [f \in Files |-> 0]]
    /\ Goto(a, "none")
    /\ UNCHANGED <<wake, of, os, prow, tokens, ver, writes, imported, stale, raced, missed>>

\* A call fails, also the one that writes the ending.  If it is the one that makes the
\* scratch directory, before the try block, the row stays as it is.  A process that cannot
\* be recorded is killed; the usage is unknown if a HostProcessError was raised, and
\* dropped if the output cannot be decoded or the end of the process not be recorded.
Fault(a) ==
    /\ "fault" \in Modes /\ pc[a] \notin {"none", "check"}
    /\ pc[a] = "wait" => os[a] \in {"exited", "killed"}
    /\ os' = [os EXCEPT ![a] = IF pc[a] = "record" THEN "killed" ELSE @]
    /\ \/ UNCHANGED unknown
       \/ pc[a] \in {"spawn", "record", "account"} /\ unknown' = unknown \cup {of[a]}
    /\ lost' = IF pc[a] \in {"wait", "account"} /\ of[a] \notin unknown'
               THEN lost \cup {a} ELSE lost
    /\ \/ pc[a] # "fail" /\ Goto(a, "fail")
       \/ pc[a] \in {"copy", "fail"} /\ Goto(a, "none")
    /\ base' = [base EXCEPT ![a] = [f \in Files |-> 0]]
    /\ UNCHANGED <<wake, rows, prow, usage, spent, charged, ver, writes, imported, stale, raced,
                   unseen, unrecorded, unsent>>

-----------------------------------------------------------------------------
\* The supervisor is lost: its threads and its memory, not the processes.  The next
\* one stops every wake that is listed as open.
Crash ==
    /\ "crash" \in Modes /\ Active # {}
    /\ pc' = [a \in Attempts |-> "none"]
    /\ usage' = {} /\ unknown' = {}
    /\ step' = [s \in Sessions |-> IF s \in Active /\ step[s] # "left" THEN "recover" ELSE step[s]]
    /\ UNCHANGED <<sess, parent, budget, rows, os, prow, spent, charged, files, missed>>

Next ==
    \/ \E s \in Sessions :
         \/ StartWake(s) \/ ParentEnds(s) \/ FinishSession(s)
         \/ BeginStop(s) \/ ForceTerminateSession(s) \/ Keep(s)
         \/ \E unread \in SUBSET Attempts, ok \in BOOLEAN : Terminate(s, unread, ok)
         \/ \E a \in Attempts : Reserve(a, s)
         \/ \E f \in Files : ParentWrites(s, f)
    \/ \E a \in Attempts :
         \/ Copy(a) \/ MarkRunning(a) \/ Spawn(a) \/ Record(a) \/ Prompt(a)
         \/ WorkerEnds(a) \/ Collect(a) \/ Finish(a) \/ Fault(a)
         \/ \E b \in BOOLEAN : Account(a, b) \/ Check(a, b)
         \/ \E f \in Files : Import(a, f)
    \/ Crash

Spec == Init /\ [][Next]_vars

-----------------------------------------------------------------------------
(* Properties.                                                             *)

(***************************************************************************)
(* The agents at work, not only the rows that stand for them, stay within  *)
(* the organization's cap: a worker's slot is given to nobody else before  *)
(* its process is gone (reserve_worker, create_session, terminate_session  *)
(* before force_terminate_session), and a wake that was not terminated     *)
(* keeps its slots.  The exceptions are a worker that was reserved and had *)
(* no process_runtime row when its wake was terminated, and one whose      *)
(* identity could not be read then: it is reported as terminated and not   *)
(* signalled (_terminate_group).                                           *)
(***************************************************************************)
WithinGlobalCap ==
    Cardinality(Active)
      + Cardinality({a \in Attempts \ (unrecorded \cup unsent) : os[a] = "working"}) <= GlobalCap

(***************************************************************************)
(* What a worker used is charged to its wake or leaves the reservation     *)
(* uncertain once the wake is closed: it never becomes free capacity       *)
(* (take_worker_usage, settle_budget, mark_budget_uncertain).  The         *)
(* exceptions are a worker at work, or yet to be reserved, when its wake   *)
(* took the usage, and one whose output or whose end raised an exception   *)
(* other than HostProcessError and TimeoutError, after which run_worker    *)
(* marks nothing.                                                          *)
(***************************************************************************)
UsageKept ==
    \A a \in spent \ (unseen \cup lost) : sess[of[a]] \in {"finished", "revoked"} =>
        a \in charged \/ budget[of[a]] = "uncertain"

(***************************************************************************)
(* An import overwrites only files as the worker found them, although its  *)
(* wake and the role's next one write the same workspace, and a stopped    *)
(* wake's thread imports after its wake has been closed                    *)
(* (WorkerSupervisor.run: "a parent that changed while the worker ran      *)
(* wins").  The exception is a write between the check and the import.     *)
(***************************************************************************)
NothingOverwritten == stale \subseteq raced

(***************************************************************************)
(* An attempt recorded as succeeded has imported every file, through       *)
(* every failure of an import, crash and forced end of its wake            *)
(* (WorkerSupervisor.run).                                                 *)
(***************************************************************************)
SucceededIsImported ==
    \A a \in Attempts : att[a] = "succeeded" => imported[a] = Files

=============================================================================
