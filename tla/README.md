# A TLA+ development of the Scrum Jail control plane

The control plane (`control/sjg_control/`) is a supervisor that wakes language-model
agents ("providers") for the roles of an organization, hands them routed GitHub events,
brokers their remote reads and writes, meters their tokens, and recovers from whatever
stops it half-way. Its state is one SQLite database; its hard part is that threads of one
service, a command-line invocation of the same program, GitHub and operating-system
processes all move independently of that database. This directory models it in TLA+.

## 1. The system

| component | source | state it keeps | operations |
|---|---|---|---|
| wake lifecycle | `supervisor.py`, `host_process.py`, `store.py` | `wake_session`, `wake_runtime`, `process_runtime`, `budget_reservation`, `delivery`; one provider process per wake | `tick`, `_run_wake`, `run_manual_wake`, `pause`, `resume`, `recover` |
| admin service | `service.py` | the service process, its scheduler, the admin socket | `serve_forever`, `_scheduler`, `handle`, `main` |
| budget ledger | `store.py` | `budget_bucket`, `budget_reservation` | `reserve_budget`, `settle_budget`, `mark_budget_uncertain`, release |
| delivery queue, routing | `store.py`, `routing.py`, `supervisor.py` | `observed_event`, `route_target`, `delivery`, `delivery_event` | `finish_event_routing`, `enqueue_delivery`, `lease_delivery`, `finish_delivery` |
| event polling | `delivery.py`, `sources.py`, `store.py` | `source_checkpoint`, `source_snapshot`, staged observations | `poll_source`, `begin_snapshot`, `stage_observation`, `finish_snapshot` |
| broker journal, verification | `broker.py`, `verification.py`, `store.py` | `broker_request` | `Broker.handle`, `resolve_pending` |
| governance reconciliation | `governance.py`, `reconcile.py`, `store.py` | `reconcile_operation` | `snapshot`, `plan`, `_apply`, `sync` |
| workers | `workers.py`, `host_process.py`, `store.py` | `worker_attempt`, scratch trees | `WorkerSupervisor.run` |
| authorization | `authz.py` | none | `authorize` |
| GitHub backend | `github_backend.py` | none (GitHub's) | one method per remote operation |
| wake socket, client | `server.py`, `client.py`, `protocol.py` | one request at a time | framing |
| policy, configuration, provider commands | `policy.py`, `host_config.py`, `provider.py` | none | validation, command lines |
| release installation, activation | `bin/sjg-install`, `bin/sjg-activate`, `service.py` | `releases/<version>`, the link `current` | install, activate, check at start |
| generator, scripts | `bin/orggen`, `runtime/scripts/*` | files | generate, lint |

How they interact. A tick polls five sources, routes new events to roles, binds pending
routes to deliveries, leases a batch of deliveries and runs one thread of `_run_wake` per
delivery. A thread opens a session, reserves tokens, records the wake, starts a wake socket
whose broker serves the provider, spawns the provider, records the process, marks wake and
delivery running and only then sends the prompt. Everything shared is in SQLite: each
`Store` method is one transaction, and there is no lock across methods except the tick lock
within one process.

What is hard: transactions of different threads, operators and processes between any two
statements of `_run_wake`; losing the supervisor between any two statements, with the
provider still alive; process identities that outlive their process; leases that lapse;
deciding after the fact whether tokens were spent or a write was made.

### What makes each part correct

| component | hard behaviour | what must hold |
|---|---|---|
| wake lifecycle | threads, pauses, recoveries and crashes between any two statements | a delivery is executed at most once; tokens are given back only if nothing ran; no session is closed over a provider at work; nothing stays open after start-up; every delivery is disposed of |
| budget ledger | overages, unknown usage, shared buckets, midnight, policy releases | buckets are exactly the sum of their reservations; a limit is passed only by a recorded overage |
| broker journal, verification | lost answers, retries, late and partial writes, concurrent syncs | no write is sent twice; succeeded means done; what is in doubt stays on record until proved |
| delivery queue, routing | two ticks on one queue, late threads, sweeps, crashes | a route has one delivery and tells its outcome; outcomes are final; every event is settled |
| event polling | pages that shift, delayed indexing, overlapping and failing polls | what the watermark has passed was published |
| governance reconciliation | writes cut off half-way, two syncs, people editing the issue | one issue at most; no success over a wrong queue; settled rows stay |
| workers | a wake stopped under its worker, caps, import into a changing workspace | caps bound the agents at work; usage is charged or uncertain; nothing newer is overwritten; success means a whole import |
| authorization, GitHub backend | facts that change between check and write, writes of several calls | delivery work has an owner who can deliver it; owners, stages and closures obey the rules up to what changed after the last check |
| release activation | two installers, interrupted installs, edits during installation | what is installed stays; the active release is whole; the service runs what was reviewed |

## 2. Plan

Done, in this order: `WakeLifecycle` with its abstract specification `AtMostOnce`;
`BudgetLedger`; `BrokerJournal`; `DeliveryQueue`; `EventPolling`; `GovernanceReconcile`;
`WorkerLifecycle`; `WorkItems` (authorization together with the backend's writes);
`ReleaseActivation`. Each has its proofs in a module of its own, but for `DeliveryQueue` and
`EventPolling`, the two halves of how events come in, whose proofs share `Intake_proofs` (no
name is common to the two modules, so that it extends both).

Every invariant and every action property of the runs is proved (section 5). What is left is
liveness, which is beyond the prover.

## 3. Modules

### WakeLifecycle

A wake `w` is one thread of `Supervisor._run_wake` with the rows it owns: `sess`
(`wake_session`), `resv` (`budget_reservation`), `wake` (`wake_runtime`), `prow`
(`process_runtime`), and the provider process itself, `prov`, as the operating system has
it. `pc[w]` is the statement the thread is at: one action per transaction or system call of
the `try` block (`Begin`, `CreateSession`, `ReserveBudget`, `PrepareWake`, `Spawn`,
`RecordProcess`, `MarkWakeRunning`, `StartDelivery`, `Prompt`, `Wait`, `RecordExit`,
`SettleBudget`, `FinishWake`, `FinishDelivery`, `FinishSession`) and of its handlers
(`GiveUp`, `Undo`, `Kill`, `Expire`, `Stop`, `StopMark`, `MarkBudgetUncertain`,
`QuarantineDelivery`, `QuarantineWake`, `DropSession`; `Overdue` is the second
`communicate`, after a timeout). `Fault` is an exception at a statement of either: from the
`try` block it leads to the handlers, from a handler, which catches `StateError` alone, out of
the thread. `TickFault` and `OpFault` are exceptions in a tick and in an operator call.
`GroupTerminated` is `_terminate_group` with its answer, which is also given for a living
process whose identity cannot be read. Deliveries have `dstate`, `owner`, `attempt` and `elapsed`
(whether the time in `eligible_at` or `lease_until` has passed); `Elapse` is the only
action of time.

A supervisor process `p` has `pstate` and the step of its `tick` (`StartTick`,
`LeaseDelivery`, `LeaseDuplicate`, `RunBatch`, `EndTick`). One operator call at a time
(`opk`, `ost` and its worklists) is a `pause`, `resume` or `recover`: `ScanWakes` and
`ScanOrphans` read the worklists once, and each later step works on them as the code does,
however stale they are. History: `ran`, the wakes whose provider received its prompt, and the
exact exceptions `unsent`, `missed` and `broken` (section 4).

`Modes` chooses the disturbances of an instance: `crash` (loss of a supervisor at any
point), `pause`, `shutdown` (the recovery at the end of `serve_forever`), `cli` (a second
process running `tick` or `recover`), `manual` (`wake.run`), `fault` (exceptions),
`pidreuse` (a recorded pid that belongs to another process).

`AtMostOnce` is the abstract promise: a delivery waits, is committed once, worked on at most
once and closed for good. `ImplementsAtMostOnce` maps the delivery states and `ran` to it.

### BudgetLedger

`limit`, `consumed`, `reserved` are the columns of `budget_bucket` (`limit` 0: no row);
`rstate`, `amount`, `epoch` those of `budget_reservation`. Each action is one transaction
of the store; one that raises `StateError` rolls back and is no step. `usage` is history:
what `settle_budget` was told. `ChangePolicy` is a release with another daily budget,
`NextDay` is midnight UTC.

### BrokerJournal

`state`, `by`, `req` are the columns of `broker_request`; `pc[s]` is where `Broker.handle`
is for the one request that session `s`'s socket server handles at a time. A request is
represented by its kind, which fixes its writes and its verification (see the module's
header). A write is sent (`Send`), is then on its way (`flying`), and is applied (`Land`) or
not (`Lose`) by GitHub on its own; the call ends by `Confirmed` or `Unconfirmed`. `shown` is
what a read of GitHub finds now, `landed` what was ever applied: `Others` edits make the two
differ, and `foreign` is history: the effects that somebody else produced. Those that bear no
key (`Unkeyed`: an owner, a stage, a title, a closed issue) look to the verifier like the
request's own. A verifier is one admin thread in `resolve_pending`; its look (`Verify`) and its
update (`Resolve`) are separate steps. Modes: `crash`; `late` (a call may end while its
write is still on its way); `others`; `fault` (a statement on the database raises).
`ClientKeys` says which keys a caller uses: in `broker_once` all share one, elsewhere the
key names wake and request as `client.request_id` does.

### DeliveryQueue

`ev`, `rt`, `bound` are `observed_event`, `route_target` and its `delivery_id`; `dst`, `dev`,
`owner`, `attempt`, `elapsed` are `delivery` and `delivery_event`. A process that ticks
(`pc[p]`) reads the unrouted events once (`todo`), routes them one by one (`RouteEvent` is
the rule table, over the facts that the rules test), reads the pending routes of each role
(`pend`), binds them (`BindRoutes`, which checks again what it read), leases with the sweep of
expired leases (`Swept`, `SweptRoute`) and runs its batch. A wake is here what it does to the
queue: it starts, finishes or fails (`FailWake`, whose `force_delivery_uncertain` asks for no
owner and no start). A recovery by another process may give a leased delivery back or make it
uncertain at any time. `tried` is history.

### EventPolling

One source. GitHub's side is `upd` (when an item last changed), `shown` (what listings show,
which lags) and the two ways a source is listed, by change from an instant on or by creation.
A poller reads the checkpoint (`BeginPoll`), fetches a page and stages it (`FetchPage`), and
publishes observations and watermark in one transaction (`CompletePoll`), or fails or dies and
publishes nothing. `Place` is the number of items before one in a listing, and `OnPage` the
slice of it a page is. A poll may take any time. History: `moved`, for each item the change
with which it went to an earlier page while somebody was between two pages; `during`, the items
whose change came to show since a poll began; and `slow`, the change among them that this poll's
watermark then passed by more than the overlap.

### GovernanceReconcile

One source of the monitor: `wanted` and `text`, the issues with its marker (`issue`,
`attached`, `ver`), and the rows of `reconcile_operation` (`rows`), under keys made of what
`_apply` hashes. A syncer verifies the rows in `verify_pending` one by one, takes a snapshot,
plans, reserves and marks the row, and makes its writes, each of which is applied or not and
is confirmed, fails, or is cut off. Modes: `crash`, `timeout` (a `TimeoutExpired`, which no
handler catches), `error`, `human` (a Human closes an issue). `calm` and `unopened` are
history: syncs nobody disturbed, and creations cut short before the issue was open.

### WorkerLifecycle

A session with the end of `_run_wake` (`sess`, `parent`, `step`, `budget`), and attempts of
`WorkerSupervisor.run` (`att`, `pc`, `os`, `prow`) from the reservation under three caps
through copying, spawning, recording, waiting and accounting (`usage`, `unknown`) to the
import, file by file, into the role's workspace (`ver`, `base`, `imported`). Around them the
wake ends, is stopped, the supervisor is lost, and the role's next wake starts and writes the
same files. `Terminate` may be refused, after which the wake keeps its session and its slots
(`Keep`), or may reach nobody; `Fault` is an exception at any statement of the thread, the wait
and the accounting included. History: `spent`, `charged`, `stale`, and the exact exceptions
`raced`, `unseen`, `lost`, `unrecorded`, `unsent` (section 4).

### WorkItems

Items with `kind`, `owner`, `parent`, `stage`, `open`, `evidence`, and agents' requests
(`create`, `route`, `move`, `done`, `drop`). A request is authorized, authorized again from
fresh facts (`StillAllowed`), and then makes the backend's calls one at a time: issue, parent
link, board column, metadata, closure. Each may fail, leaving what was done. The Human edits
anything in between. `changed[a]` is history: the facts others changed since `a`'s last check.

### ReleaseActivation

`tree`, `state`, `committed` are the checkout; `rel`, `sealed`, `extra` the installed releases
(with the manifest's contents), `current` the link, `org` what `organization.yaml` pins.
An installer reads state and digest, checks the target, copies in two parts, renames and
seals; an activator verifies, compares, imports the release's compiler and switches; the
service resolves its path, checks its release and then reads the organization again.
`Import` is a program that runs code from a release: with privileges (`sudo`, as
`RUNBOOK.md:36-37` has it) it writes bytecode into the read-only directories (`extra`).
`touched` and `changed` are history: an installation during which the checkout changed, and a
start during which the organization did.

### Conventions

Definitions whose name ends in a changed word and whose comment says "Variant" are mistaken
versions of the definition after them; they are used only to see that a property notices.
Where the code leaves a window that a property cannot close, the property names the window by
a history variable instead of leaving the disturbance out: everything outside the window is
checked, and section 4 says what happens inside it.

## 4. Runs

| run | instance | shows |
|---|---|---|
| `wake_crash` | 2 wakes, 1 delivery, 2 roles, 2 processes one after the other; crash, fault (handlers and identities included), pid reuse; with fairness | `ReleasedUnused`, `ClosedSessionIsQuiet`, `NoOrphanAfterStartup`, `EveryDeliveryDisposed` |
| `wake_overlap` | 2 overlapping processes; pause, shutdown, command line | `NoReexecution`, `OutcomeIsReal`, `ClosedSessionIsQuiet`, `ImplementsAtMostOnce` |
| `wake_roles` | 2 deliveries and manual wakes for one role; faults | `TypeOK`, `RoleExclusive` |
| `budget_ledger` | 3 wakes, 2 roles, 2 days | `TypeOK`, `ReservedIsHeld`, `ConsumedIsUsed`, `LimitOrOverage` |
| `broker_once` | 2 sessions sharing 1 key, a read, a comment, a close, a submission and a worker, 2 verifiers, all modes | `TypeOK`, `SentOnce` |
| `broker_steady` | 1 session with its own keys, closes and changes of state; late writes, edits by others, 2 verifiers | `SucceededIsDone`, `AmbiguousIsPending` |
| `queue` | 2 events, 2 roles, 2 deliveries, service and command line, 2 attempts, 1 crash; with fairness | `BoundOnce`, `RouteTellsDelivery`, `OutcomeIsFinal`, `EveryEventSettled` |
| `polling` | 2 items, 2 pollers, pages of 1, overlap 1, delay 1, polls of up to 4 | `PollTypeOK`, `NothingLost` |
| `reconcile` | 2 syncers, 2 issues, 1 text, all modes | `OneIssue`, `OneSyncSuffices`, `SettledStays` |
| `workers` | 2 wakes of one role, 2 attempts, 2 files, 1 write of the wakes; crash and fault | `TypeOK`, `WithinGlobalCap`, `UsageKept`, `NothingOverwritten`, `SucceededIsImported` |
| `work_items` | 2 agents, 3 roles, an item of the Human's and one to be created | `TypeOK`, `DeliveryWorkIsDeliverable`, `OwnerKept`, `StageForward`, `ClosedWithEvidence` |
| `release` | 2 installers, 1 activator, the service, 1 version, 2 contents, with and without privileges | `ActiveIsWhole`, `RunsReviewed`, `InstalledStays` |

Bounds. Wakes are never reused, so two are one wake and its successor or rival, which is
what every race in this code takes; `MaxAttempts` 2 reaches both a retry and the ceiling;
two processes are the old supervisor and the new one. Two roles in `wake_crash` make a tick
ask for a second lease, whose sweep takes back a lease that has lapsed meanwhile. One operator call at a time is a
restriction: two concurrent pauses are not explored. In the ledger, reservations of 1 and 2
against limits of 2 and 3 with usage up to 2 reach exact fits, refusals and overages; two
wakes share a role bucket and all three the organization's. In the broker, two writes per
operation are enough for a part of an operation; the later writes of a create (parent link,
board) are one. `broker_steady` has the two kinds with an effect that bears no key, one of them
after a keyed one. In the queue, two deliveries are a delivery and its rival or successor, and
the lease limit of 2 makes a tick lease two deliveries of one role. Polling with pages of one
item makes every second item a page boundary; four instants with an overlap of one are enough
for a poll that outlasts the overlap, and for a watermark that passes a change by more. A reconciliation needs a second issue to show that there is none; three versions let an
issue change under a plan twice. Two files are a partial import, and one write of the wakes is
one to race it. Four requests and one
intervention of the Human reach every pair of operations on one item, with a change between
any two steps. One edit of the checkout gives two contents, which is
what a mixed copy takes; one version is what two installers compete for.

The type invariants of `DeliveryQueue`, `GovernanceReconcile` and `ReleaseActivation` are
proved only (section 5), the others are checked and proved.

Fairness. `wake_crash`: threads of `_run_wake` run to their next statement (Python threads of
a running process; the provider itself is bounded by its timeout), the scheduler ticks
(`_scheduler` loops on `poll_interval_seconds`), a lost service is started again (the service
manager), an operator call that began goes on, and time passes; the property is stated for a
service that in the end stays up, and in which no thread waits for ever for a provider it could
not signal (`NobodyOverdue`; section 4). `queue`: the service's tick goes on, and leases and retries
fall due. Nothing is assumed of the provider's exit, of operators or the command line, of a
recovery, or of pid reuse.

### Where the code and its documents disagree

The passing runs leave out the mode, or name the window, that causes each of the following;
adding the mode, or removing the exception, gives TLC's counterexample.

Wake lifecycle.

* A crash between `finish_wake` and `finish_session` leaves an active session with a finished
  wake. `recover` considers sessions without a wake and wakes that are prepared or running
  (`supervisor.py:202`, `store.py:617`), so nothing ever closes it and its role cannot be woken
  again, although `docs/CONTROL-PLANE.md:44` says that the session is revoked on every exit
  path. `NoOrphanAfterStartup` excepts sessions of finished wakes.
* A pause reads the process table between a provider's spawn and its recording
  (`supervisor.py:244`), and revokes the session of a provider that is then prompted;
  `RUNBOOK.md:154` says every process group is terminated first. So do the recoveries of a
  shutdown and of the command line. `missed` in `ClosedSessionIsQuiet` and `RoleExclusive` names
  the wakes whose thread was at work when such a call found no process row; without it
  `wake_overlap` fails.
* `_terminate_group` answers that a group is terminated whenever the identity of its leader
  cannot be read (`host_process.py:119`, `:136`): when it is gone, but also when `/proc` cannot
  be read or `ps` fails or takes more than five seconds. The session of the living provider is
  then closed, its role woken again and its slot given away, against `RUNBOOK.md:154`. `unsent`
  in the same two properties names these wakes; without it `wake_crash` fails. At a timeout the
  thread goes on to wait for the provider without a limit (`host_process.py:253`), and holds the
  tick lock meanwhile (`NobodyOverdue` in `EveryDeliveryDisposed`).
* `shutdown` in `wake_crash` violates `ReleasedUnused`: `serve_forever` recovers while the
  executor's threads still run, and releases the reservation of a wake that then starts its
  provider.
* A lease that lapses while its thread is still starting the provider goes to another wake or
  back to the queue. If the start then fails, the undo refuses the delivery
  (`_retry_leased_delivery`, `store.py:652`) and with it the whole transaction: the session
  stays active, and its role cannot be woken, until the next recovery, again against
  `docs/CONTROL-PLANE.md:44`. The handlers of `_run_wake` catch `StateError` alone
  (`supervisor.py:626-677`), so that a database or host error in one of them ends the thread
  half-way with the same effect. `broken` in `NoOrphanAfterStartup` names the wakes whose handler
  raised, by either cause; without it `wake_crash` fails.
* A delivery may be dead-lettered although no wake was ever run for it: leasing a second
  delivery of one role spends an attempt each time (`supervisor.py:404-409`), while
  `docs/ARCHITECTURE.md:47` says that leases make delivery at least once.
* A crash in the middle of quarantining a changed process identity lets the next recovery take
  the process for terminated. A delivery in `budget_hold` is never taken up again: nothing
  calls `release_budget_hold`. `EveryDeliveryDisposed` and `EveryEventSettled` count it as
  disposed.

Broker and verification.

* A write in flight when the supervisor is lost stays `applying`, and `resolve_pending` looks
  at `verify_pending` only (`broker.py:54`, against `docs/CONTROL-PLANE.md:91`): `crash` in
  `broker_steady` violates `AmbiguousIsPending`.
* A write that lands after the verifier looked is on record as failed (`verification.py:201`,
  against the docstring at `:29`).
* `create` in `broker_steady` violates `SucceededIsDone`: an issue that was created but not
  attached to its parent or put on the board is verified as a success. So does sharing a key
  between two wakes: a failed request forgets the row of another wake's read, and that
  read's outcome is then written to whatever row took its place. Keys made by
  `client.request_id` are not shared.
* The verifier judges owners, stages, titles, texts and closed issues by the item's present
  state, whoever produced it (`verification.py:71-91`, `:103-111`): a done whose comment landed
  and whose closure failed is on record as succeeded once somebody else closes the issue.
  `foreign` in `SucceededIsDone` is this exception, and covers no effect that bears the key.
* A recorded outcome may be revised. Every admin connection has a thread of its own
  (`service.py:241`) and nothing serialises `monitor.sync`; of two verifiers that looked at one
  row before and after a late write or an edit, the second replaces what the first recorded,
  failed over succeeded too, because `finish_request` does not look at the state it replaces
  (`store.py:435`). No property says that outcomes of the broker are final. A row that two
  verifiers disagreed on is still not sent again (`SentOnce`).

Polling. An item that is listed by change and changes while a poll is between two pages moves
the items after it one place up; the one that crosses the page boundary is not seen, and once
the watermark has passed it by more than the overlap it is lost (`moved` in `NothingLost`).
Nothing bounds how long a poll takes (sixty seconds for each of its `gh` calls,
`sources.py:38-41`, and several calls per item), while the overlap is 300 seconds
(`store.py:78`). If one takes longer than the overlap less the delay of the listings, a change
that came to show too late for the page it belongs to can be passed by a watermark taken from
a later page, and is lost (`slow`).

Reconciliation.

* A creation whose failing call was the reopening of a closed issue is verified from marker
  and queue alone, and recorded as succeeded over a closed issue (`verification.py:148-163`,
  against `docs/CONTROL-PLANE.md:91-93`; `unopened` in `OneSyncSuffices`).
* `TimeoutExpired` (`github_backend.py:59`) has no handler on this path: the row stays
  `applying` and the sync ends.
* Two syncs that read two texts of the source can create two issues: their keys differ.
  `OneIssue` is about a source that keeps its text.

Workers.

* A worker that is not over when its wake takes the usage is charged to nobody
  (`FIELD-NOTES.md:54-57`; `unseen` in `UsageKept`).
* Output that cannot be decoded, or a database error when the end of the process is recorded,
  is neither of the exceptions after which `run_worker` marks the usage as uncertain
  (`host_process.py:249`, `:261-265`, `:341`): those tokens are lost (`lost` in `UsageKept`).
* A worker between its reservation and its process row is unknown to `terminate_session`; its
  thread goes on and launches it when the wake is stopped and its slot given away
  (`workers.py:314`; `unrecorded` in `WithinGlobalCap`). One whose identity cannot be read is
  reported as terminated and works on, its slot given away (`unsent`).
* A write between the check of the parent workspace and the rename is overwritten
  (`workers.py:333-334` says the parent wins; `raced` in `NothingOverwritten`).

Work items. A done item can be taken back by legal moves through a holding stage. A child may
be created under a closed parent. A route reads the issue and then writes its whole body, and
so undoes an edit made in between. Facts changed after the second check are not seen
(`changed`).

Releases. Run with `sudo` as `RUNBOOK.md:36-37` says, `sjg-activate` imports the policy compiler
from the release it has verified (line 87), and the interpreter writes `__pycache__` into the
read-only directories (a release is to be immutable, `README.md:28`). So does the supervisor when
it is started as root by launchd or by hand (`RUNBOOK.md:72`); the systemd unit forbids it
(`ProtectSystem=strict`). From then on `verify_release` refuses the release for unlisted files,
so that it can be neither activated again after another one nor installed again under its
version. `ActiveIsWhole` therefore does not say that the active release still verifies, but that
it is complete and sealed, and that whatever was added to it came after that. An installer lost between the rename and the sealing leaves a version that can
neither be activated (its directories are mutable) nor installed again (it exists). A
checkout edited between provenance and copy gives a release whose files are not those of the
digest in its manifest, which nothing compares (`touched` in `RunsReviewed`).

## 5. Proofs

For every value of the constants that satisfies the modules' named assumptions (roles,
caps and limits have their types, the null values are distinct from real ones). A theorem
that needs more says so in its own `ASSUME`; every such assumption is listed here with its
reason. Sets that are counted are assumed finite: the rows of a database are.

* `WakeLifecycle_proofs`: `TypeCorrectness`, `ExecutedAtMostOnce` (`NoReexecution`) and
  `SupervisorImplementsAtMostOnce`, under all modes at once. `NoReexecution` is not
  inductive: the invariant `WakeInv` adds that a leased delivery has spent an attempt, so
  that giving one back stays within the counter's range, and that a wake past
  `start_delivery` belongs to a delivery that is committed or closed and has no other such
  wake. A committed delivery never returns to waiting (the sweep sends an expired running
  lease to `uncertain`, retries look at the delivery's state), so no second wake can start.

  `OutcomesAreReal` (`OutcomeIsReal`), under all modes too: `OutcomeInv` ties every place of
  the thread after the exit to what it has recorded, and no other process writes those rows
  with a success.

  `ReleasedWasUnused` (`ReleasedUnused`) assumes neither `shutdown` nor `cli`; the run without
  the assumption fails, for the reason of section 4. Crashes, restarts, faults, pauses, reused
  pids and manual wakes are all in. `ServiceInv` says that one process at most is up, that
  threads and ticks live in it, and so that a recovery meets no thread; `Unused(w)` that only
  a thread that has recorded its provider prompts it, and that a reservation is released only
  when no thread will.

  `ClosedMeansQuiet` (`ClosedSessionIsQuiet`) and, for finitely many wakes, `OneProviderPerRole`
  (`RoleExclusive`), under all modes at once. `Quiet(w)` says that a provider at work has its
  process row and its session open, that a thread past the end of its provider has met it, and
  that a closed row of a wake whose thread goes on means one of three things: the provider was
  ended or could not be identified, the call found no process row, or the thread can no longer
  prompt because `mark_wake_running` will refuse it (`Refused`). `OpQuiet` says the same of an
  operator call between its termination and the rows it closes (`Settled`). `RowsExclusive`
  counts sessions instead of providers: a provider at work has an active session, and
  `create_session` checks the role and the cap against those.

  `NoOrphans` (`NoOrphanAfterStartup`) assumes neither `pause`, `shutdown` nor `cli`. The
  invariant `OrphanInv` has two halves. During a recovery, `Listed`: every active session
  whose wake is open or missing is on one of the lists that the recovery still works on,
  though these were read once; so an empty list opens a service without orphans, and a recovery
  that raises opens none. While a service is up, `Abandoned`: a thread that ended without
  closing its session is one whose handler raised. `Handled` says which rows a thread's handlers
  find, and so that nothing else can leave a session behind.
* `BudgetLedger_proofs`: `TypeCorrectness`, `LimitsHold`, and for finitely many wakes
  `ReservationsAddUp` (`ReservedIsHeld`), `UsageAddsUp` (`ConsumedIsUsed`) and
  `RunningWakesAreCovered`: `settle_budget` and `release_budget` never find less in a bucket
  than the wake has reserved there. A reservation fits the room of
  both buckets when made; settling with no more than was reserved shrinks the commitment;
  settling with more puts the wake on record, and nothing takes it off. The sums are
  invariant together (`SumInv`) with the fact that usage is unknown until it is settled. That
  adding or removing one wake changes a sum by its number (`SumJoined` and its like) rests on
  what a fold over a set does, whatever the order of its choices. The prover cannot use the
  library's induction here, so this is proved from a smallest counterexample (`Smallest`: strict
  inclusion is well-founded on the subsets of a finite set).
* `BrokerJournal_proofs`: `TypeCorrectness` and `WritesSentOnce`, for any sharing of keys and
  under all modes.
  The invariant `JournalInv` says that a request that may still send inserted its key's row
  and that the row is still its own, that what lies ahead of it is unsent, and that under a
  key without a row, or with a read's, nothing was sent. Rows of other requests than reads
  are never deleted, so the row decides who sends.

  `SuccessIsReal` (`SucceededIsDone`) assumes that no key serves both a read and another
  operation (`ReadKeysApart`; `client.request_id` hashes the operation into the key) and
  leaves out the creation of issues (section 4); crashes, faults, late writes, any number of
  verifiers and whatever others undo or produce are in. `DoneInv` adds to `JournalInv` that a request has had
  the writes before the one it is at applied, and all of them in its own row when it comes to
  record success; that a read of GitHub shows only what was applied or what others produced
  (`ShownLanded`); and that a verifier that has found an effect has found all of it.
  `NothingAmbiguousIsLost` (`AmbiguousIsPending`) assumes neither crash nor fault, for any
  sharing of keys: a row that is neither final nor pending has its owner's thread on it
  (`OwnerOnIt`).
* `Intake_proofs`, on `DeliveryQueue`: `TypeCorrectness`, `RoutesBoundOnce`, `RoutesTellDeliveries` and
  `OutcomesAreFinal`. The invariant `QueueInv` joins both properties of the tables with three
  facts: a bound route's delivery has a row, a lease has spent an attempt, and a tick that
  gives a delivery back knows which. What a tick has read is not constrained at all: binding,
  starting and finishing check the rows again, and that is enough.

  On `EventPolling`: `PollsAreTyped` (`PollTypeOK`) and `PollsLoseNothing` (`NothingLost`), for
  finitely many items, any number of pollers, any page size and polls of any length, under the
  module's assumption that the overlap covers the delay of the listings (`OverlapAssumption`).
  `PollInv` adds to the two properties `Dated` (what a listing shows is behind by `Delay` at
  most), `Timed` (nothing is from the future) and `Read`: what a poll does not ask for is
  published, what is due on the pages it has read is staged, and at its end that is everything
  due, which is what it asks for and what showed before it began (`Due`). A change that showed
  later is within the overlap of the new watermark, or is marked in `slow`. The last is a count: a page with something after it is full
  (`FullPages`), so the poll stops at none that is followed by another; and an item that is
  due and not marked in `moved` does not go to a page that was already read.
* `GovernanceReconcile_proofs`: `TypeCorrectness`, `SettledRowsStay` and `AtMostOneIssue`. The
  invariant `ReconcileInv` says that a row being written is `applying` and belongs to one
  sync, and that what a sync verifies is past its write; so no two syncs finish one row
  differently. For one text there is one key of a first creation: `Sole` adds that while it
  can still be claimed, or its holder has not posted, no issue bears the marker.

  `OneSyncIsEnough` (`OneSyncSuffices`; finitely many issues), under all modes. The invariant
  `SyncInv` has three parts. A row tells what its write achieved (`RowTells`), as long as the
  version in its key is still the issue's: issues only grow in version, and every change
  raises it. `Trace` says what a sync has read and decided, by where it is; `Undisturbed` that
  what an undisturbed sync has read still holds at each of its steps, and so that at its end
  the queue agrees with the source, or a row or a duplicate shows why not.
* `WorkerLifecycle_proofs`, under all modes: `TypeCorrectness` with the cap on the attempts of
  a wake (finitely many attempts), `SuccessIsImported`, `NothingIsOverwritten`, `UsageIsKept`
  and `WithinTheCap` (finitely many sessions and attempts). `Tracked` ties an attempt's row,
  thread and process together, and success to a whole import. `Unraced`: while nobody has
  written the workspace since the check, what is still to be imported is as the worker found
  it. `Closing` and `Carried` follow the tokens from the process over the thread and the two
  sets of `take_worker_usage` to the settled or uncertain budget. `Slotted`: an attempt that
  the termination of its wake could know of and reach keeps its slot as long as its process may
  work;
  `WithinSlots` then counts rows, as the code does.
* `WorkItems_proofs`: `TypeCorrectness`, `DeliveryOwners` (`DeliveryWorkIsDeliverable`),
  `OwnersAreKept`, `StagesGoForward` and `ClosureHasEvidence`, for any items, agents, roles,
  requests and interventions. `ShapeInv` says that sub-issues hang under parents of the right
  kind, that an issue not yet created is blank, and that a request in progress is one that
  the check grants by its form. `CheckedInv` says that the facts on which the last check of a
  request was decided still stand, but for those that `changed` names; every other step is
  told to it (`OthersAreTold`), so a write is as good as its check.
* `ReleaseActivation_proofs`: `TypeCorrectness`, `ReleasesStay`, `ActiveReleaseIsWhole`
  and `ServiceRunsReviewed`, whatever the privileges. `ReleaseInv` follows the
  contents from the checkout to the service: what an unmarked installer has read and copied so
  far is of the present checkout, a release is as its installer left it, and what an activator
  has accepted, what is current and what runs is sealed.

Only model-checked: `EveryDeliveryDisposed` and `EveryEventSettled`. Liveness under fairness is
beyond the prover.

## 6. Not modelled

Sequential processing without state of its own stays out: the framing of the local sockets,
argument parsing, policy and configuration validation (`policy.py`, `host_config.py`),
provider command lines and usage parsing (`provider.py`), the organization generator and the
linters and reports under `runtime/scripts`. So do read-only admin operations, and two store
methods that nothing calls (`add_route`, `release_budget_hold`).

Within the modelled parts: the members of a process group other than its leader; the wall
clock (only "has passed", the day, and in `EventPolling` an order of instants); the contents of
events, prompts, issues and submissions, and the checks that are about text alone (pull
requests, repository submissions, comments); path safety of copies and imports; the two reads
of one verification of a broker row, or of a reconciliation row (marker and queue,
`verification.py:140-180`), which are one step; the digest of the policy in the keys of
reconciliations, so that a release of the policy between two syncs is not explored; the several
directories of a release, which are sealed as one. The lease of a second delivery of a role and
its return (`supervisor.py:402-408`) are two transactions and one step (`LeaseDuplicate`);
`TickFault` has the state between them. In `WorkItems` the Human is assumed to give delivery work to
delivery roles only, which no code enforces.
