------------------------ MODULE WakeLifecycle_proofs ------------------------
(***************************************************************************)
(* Proofs about WakeLifecycle for every set of wakes, deliveries, roles    *)
(* and supervisor processes, every cap and attempt ceiling, and every      *)
(* combination of disturbances; a theorem that needs some of them away     *)
(* says so in its assumption on Modes.                                     *)
(***************************************************************************)
EXTENDS WakeLifecycle, FiniteSetTheorems, TLAPS

USE RoleOfAssumption, CapAssumption, MaxAttemptsAssumption, ManualAssumption,
    NobodyAssumption
    DEF marks, AtWake

-----------------------------------------------------------------------------
(* Type correctness.                                                       *)

\* What finish_delivery(budget_hold) relies on when it gives an attempt back:
\* a leased delivery has spent at least one.
AttemptSpent == \A d \in Deliveries : dstate[d] = "leased" => attempt[d] >= 1

\* The variables a step leaves alone keep their types.
LEMMA TypesFramed ==
    ASSUME TypeOK
    PROVE  /\ UNCHANGED threads => ThreadTypes'
           /\ UNCHANGED rows => RowTypes'
           /\ UNCHANGED os => OsTypes'
           /\ UNCHANGED queue => QueueTypes'
           /\ UNCHANGED service => ServiceTypes'
           /\ UNCHANGED opvars => OpTypes'
<1>1. UNCHANGED threads => ThreadTypes'
  BY DEF TypeOK, ThreadTypes, threads
<1>2. UNCHANGED rows => RowTypes'
  BY DEF TypeOK, RowTypes, rows
<1>3. UNCHANGED os => OsTypes'
  BY DEF TypeOK, OsTypes, os
<1>4. UNCHANGED queue => QueueTypes'
  BY DEF TypeOK, QueueTypes, queue
<1>5. UNCHANGED service => ServiceTypes'
  BY DEF TypeOK, ServiceTypes, service
<1>6. UNCHANGED opvars => OpTypes'
  BY DEF TypeOK, OpTypes, opvars
<1>7. QED
  BY <1>1, <1>2, <1>3, <1>4, <1>5, <1>6

\* A thread that moves to one of its steps keeps the types of the threads.
LEMMA GotoTypes ==
    ASSUME ThreadTypes, NEW w \in Wakes,
           NEW s \in TrySteps \cup Handlers \cup {"free", "done"}, Goto(w, s)
    PROVE  ThreadTypes'
BY DEF ThreadTypes, Goto

\* finish_delivery(budget_hold) gives back an attempt that was spent.
LEMMA BudgetHoldTypes ==
    ASSUME TypeOK, AttemptSpent, NEW w \in Wakes, BudgetHold(w)
    PROVE  QueueTypes'
<1>1. CASE HoldsLease(w)
  <2>1. job[w] \in Deliveries /\ attempt[job[w]] \in 1 .. MaxAttempts
    BY <1>1 DEF HoldsLease, TypeOK, ThreadTypes, QueueTypes, AttemptSpent
  <2>2. attempt' \in [Deliveries -> 0 .. MaxAttempts]
    BY <1>1, <2>1 DEF BudgetHold, TypeOK, QueueTypes
  <2>3. QED
    BY <1>1, <2>1, <2>2 DEF BudgetHold, SetDelivery, TypeOK, QueueTypes
<1>2. CASE ~HoldsLease(w)
  BY <1>2 DEF BudgetHold, TypeOK, QueueTypes, queue
<1>3. QED
  BY <1>1, <1>2

\* terminate_session keeps the types of the provider and of the history variables.
LEMMA TerminationTypes ==
    ASSUME OsTypes, NEW w \in Wakes, NEW ok \in BOOLEAN, TerminateSession(w, ok)
    PROVE  /\ prov' \in [Wakes -> {"none", "idle", "working", "zombie", "gone", "reused"}]
           /\ unsent' \subseteq Wakes
<1>1. UNCHANGED <<prov, unsent>> \/ GroupTerminated(w, ok)
  BY DEF TerminateSession
<1>2. CASE KillGroup(w) /\ UNCHANGED unsent
  BY <1>2 DEF KillGroup, OsTypes
<1>3. CASE UNCHANGED prov /\ unsent' = IF prov[w] \in Alive THEN unsent \cup {w} ELSE unsent
  BY <1>3 DEF OsTypes
<1>4. QED
  BY <1>1, <1>2, <1>3 DEF GroupTerminated, OsTypes

\* Every step of _run_wake is type correct.
LEMMA WakeStepTypes ==
    ASSUME TypeOK, AttemptSpent, NEW w \in Wakes, WakeStep(w)
    PROVE  TypeOK'
<1> USE DEF TypeOK
<1>1. CASE Begin(w)
  <2>1. ThreadTypes'
    BY <1>1, GotoTypes DEF Begin, TrySteps, Handlers
  <2>2. QueueTypes'
    BY <1>1 DEF Begin, QueueTypes, ThreadTypes, HoldsLease, RetryDelivery, SetDelivery,
       queue, Waiting, Held, Final
  <2>3. QED
    BY <1>1, <2>1, <2>2, TypesFramed DEF TypeOK, Begin, threads, rows, os, queue,
       service, opvars
<1>2. CASE CreateSession(w)
  <2>1. ThreadTypes'
    BY <1>2, GotoTypes DEF CreateSession, TrySteps, Handlers
  <2>2. RowTypes'
    BY <1>2 DEF CreateSession, RowTypes
  <2>3. QED
    BY <1>2, <2>1, <2>2, TypesFramed DEF TypeOK, CreateSession, threads, rows, os,
       queue, service, opvars
<1>3. CASE ReserveBudget(w)
  <2>1. ThreadTypes'
    BY <1>3, GotoTypes DEF ReserveBudget, TrySteps, Handlers
  <2>2. RowTypes'
    BY <1>3 DEF ReserveBudget, RowTypes
  <2>3. QED
    BY <1>3, <2>1, <2>2, TypesFramed DEF TypeOK, ReserveBudget, threads, rows, os,
       queue, service, opvars
<1>4. CASE RevokeSession(w)
  <2>1. ThreadTypes'
    BY <1>4, GotoTypes DEF RevokeSession, TrySteps, Handlers
  <2>2. RowTypes'
    BY <1>4 DEF RevokeSession, RowTypes
  <2>3. QED
    BY <1>4, <2>1, <2>2, TypesFramed DEF TypeOK, RevokeSession, threads, rows, os,
       queue, service, opvars
<1>5. CASE BudgetHold(w)
  <2>1. ThreadTypes'
    BY <1>5, GotoTypes DEF BudgetHold, TrySteps, Handlers
  <2>2. QueueTypes'
    BY <1>5, BudgetHoldTypes
  <2>3. QED
    BY <1>5, <2>1, <2>2, TypesFramed DEF TypeOK, BudgetHold, threads, rows, os, queue,
       service, opvars
<1>6. CASE PrepareWake(w)
  <2>1. ThreadTypes'
    BY <1>6, GotoTypes DEF PrepareWake, TrySteps, Handlers
  <2>2. RowTypes'
    BY <1>6 DEF PrepareWake, RowTypes
  <2>3. QED
    BY <1>6, <2>1, <2>2, TypesFramed DEF TypeOK, PrepareWake, threads, rows, os, queue,
       service, opvars
<1>7. CASE Spawn(w)
  <2>1. ThreadTypes'
    BY <1>7, GotoTypes DEF Spawn, TrySteps, Handlers
  <2>2. OsTypes'
    BY <1>7 DEF Spawn, OsTypes
  <2>3. QED
    BY <1>7, <2>1, <2>2, TypesFramed DEF TypeOK, Spawn, threads, rows, os, queue,
       service, opvars
<1>8. CASE RecordProcess(w)
  <2>1. ThreadTypes'
    BY <1>8, GotoTypes DEF RecordProcess, TrySteps, Handlers
  <2>2. RowTypes'
    BY <1>8 DEF RecordProcess, RowTypes
  <2>3. QED
    BY <1>8, <2>1, <2>2, TypesFramed DEF TypeOK, RecordProcess, threads, rows, os,
       queue, service, opvars
<1>9. CASE MarkWakeRunning(w)
  <2>1. ThreadTypes'
    BY <1>9, GotoTypes DEF MarkWakeRunning, TrySteps, Handlers
  <2>2. RowTypes'
    BY <1>9 DEF MarkWakeRunning, RowTypes
  <2>3. QED
    BY <1>9, <2>1, <2>2, TypesFramed DEF TypeOK, MarkWakeRunning, threads, rows, os,
       queue, service, opvars
<1>10. CASE StartDelivery(w)
  <2>1. ThreadTypes'
    BY <1>10, GotoTypes DEF StartDelivery, TrySteps, Handlers
  <2>2. QueueTypes'
    BY <1>10 DEF StartDelivery, QueueTypes, ThreadTypes, Waiting, Held, Final
  <2>3. QED
    BY <1>10, <2>1, <2>2, TypesFramed DEF TypeOK, StartDelivery, threads, rows, os,
       queue, service, opvars
<1>11. CASE Prompt(w)
  <2>1. ThreadTypes'
    BY <1>11, GotoTypes DEF Prompt, TrySteps, Handlers
  <2>2. OsTypes'
    BY <1>11 DEF Prompt, OsTypes
  <2>3. QED
    BY <1>11, <2>1, <2>2, TypesFramed DEF TypeOK, Prompt, threads, rows, os, queue,
       service, opvars
<1>12. CASE Wait(w)
  <2>1. ThreadTypes'
    BY <1>12, GotoTypes DEF Wait, TrySteps, Handlers
  <2>2. OsTypes'
    BY <1>12 DEF Wait, OsTypes
  <2>3. QED
    BY <1>12, <2>1, <2>2, TypesFramed DEF TypeOK, Wait, threads, rows, os, queue,
       service, opvars
<1>13. CASE Timeout(w)
  <2>1. ThreadTypes'
    BY <1>13, GotoTypes DEF Timeout, TrySteps, Handlers
  <2>2. OsTypes'
    BY <1>13 DEF Timeout, OsTypes
  <2>3. QED
    BY <1>13, <2>1, <2>2, TypesFramed DEF TypeOK, Timeout, threads, rows, os, queue,
       service, opvars
<1>30. CASE Overdue(w)
  <2>1. ThreadTypes'
    BY <1>30, GotoTypes DEF Overdue, TrySteps, Handlers
  <2>2. OsTypes'
    BY <1>30 DEF Overdue, OsTypes
  <2>3. QED
    BY <1>30, <2>1, <2>2, TypesFramed DEF TypeOK, Overdue, threads, rows, os, queue,
       service, opvars
<1>14. CASE RecordExit(w)
  <2>1. ThreadTypes'
    BY <1>14, GotoTypes DEF RecordExit, TrySteps, Handlers
  <2>2. RowTypes'
    BY <1>14 DEF RecordExit, RowTypes, FinishProcess
  <2>3. QED
    BY <1>14, <2>1, <2>2, TypesFramed DEF TypeOK, RecordExit, threads, rows, os, queue,
       service, opvars
<1>15. CASE SettleBudget(w)
  <2>1. ThreadTypes'
    BY <1>15, GotoTypes DEF SettleBudget, TrySteps, Handlers
  <2>2. RowTypes'
    BY <1>15 DEF SettleBudget, RowTypes
  <2>3. QED
    BY <1>15, <2>1, <2>2, TypesFramed DEF TypeOK, SettleBudget, threads, rows, os,
       queue, service, opvars
<1>16. CASE FinishWake(w)
  <2>1. ThreadTypes'
    BY <1>16, GotoTypes DEF FinishWake, TrySteps, Handlers
  <2>2. RowTypes'
    BY <1>16 DEF FinishWake, RowTypes
  <2>3. QED
    BY <1>16, <2>1, <2>2, TypesFramed DEF TypeOK, FinishWake, threads, rows, os, queue,
       service, opvars
<1>17. CASE FinishDelivery(w)
  <2>1. ThreadTypes'
    BY <1>17, GotoTypes DEF FinishDelivery, TrySteps, Handlers
  <2>2. QueueTypes'
    BY <1>17 DEF FinishDelivery, QueueTypes, ThreadTypes, SetDelivery, Waiting, Held,
       Final
  <2>3. QED
    BY <1>17, <2>1, <2>2, TypesFramed DEF TypeOK, FinishDelivery, threads, rows, os,
       queue, service, opvars
<1>18. CASE FinishSession(w)
  <2>1. ThreadTypes'
    BY <1>18, GotoTypes DEF FinishSession, TrySteps, Handlers
  <2>2. RowTypes'
    BY <1>18 DEF FinishSession, RowTypes
  <2>3. QED
    BY <1>18, <2>1, <2>2, TypesFramed DEF TypeOK, FinishSession, threads, rows, os,
       queue, service, opvars
<1>19. CASE GiveUp(w)
  <2>1. ThreadTypes'
    BY <1>19, GotoTypes DEF GiveUp, TrySteps, Handlers
  <2>2. QueueTypes'
    BY <1>19 DEF GiveUp, QueueTypes, ThreadTypes, HoldsLease, RetryDelivery,
       SetDelivery, queue, Waiting, Held, Final
  <2>3. QED
    BY <1>19, <2>1, <2>2, TypesFramed DEF TypeOK, GiveUp, threads, rows, os, queue,
       service, opvars
<1>20. CASE Undo(w)
  <2>1. ThreadTypes'
    BY <1>20, GotoTypes DEF Undo, TrySteps, Handlers
  <2>2. RowTypes'
    BY <1>20 DEF Undo, RowTypes, RecoverOrphanRows, RecoverPreparedRows, ReleaseBudget,
       rows
  <2>3. QueueTypes'
    BY <1>20 DEF Undo, QueueTypes, ThreadTypes, RetryJob, RetryDelivery, SetDelivery,
       queue, Waiting, Held, Final
  <2>4. OsTypes'
    BY <1>20 DEF Undo, OsTypes
  <2>5. QED
    BY <1>20, <2>1, <2>2, <2>3, <2>4, TypesFramed DEF TypeOK, Undo, threads, rows, os, queue,
       service, opvars
<1>21. CASE Kill(w)
  <2>1. ThreadTypes'
    BY <1>21, GotoTypes DEF Kill, TrySteps, Handlers
  <2>2. RowTypes'
    BY <1>21 DEF Kill, RowTypes, FinishProcess
  <2>3. OsTypes'
    BY <1>21 DEF Kill, OsTypes, Alive
  <2>4. QED
    BY <1>21, <2>1, <2>2, <2>3, TypesFramed DEF TypeOK, Kill, threads, rows, os, queue,
       service, opvars
<1>22. CASE Expire(w)
  <2>1. ThreadTypes'
    BY <1>22, GotoTypes DEF Expire, TrySteps, Handlers
  <2>2. RowTypes'
    BY <1>22 DEF Expire, RowTypes, FinishProcess
  <2>3. QED
    BY <1>22, <2>1, <2>2, TypesFramed DEF TypeOK, Expire, threads, rows, os, queue,
       service, opvars
<1>23. CASE Stop(w)
  <2>1. ThreadTypes'
    BY <1>23 DEF Stop, ThreadTypes, TrySteps, Handlers
  <2>2. OsTypes'
    BY <1>23, TerminationTypes DEF Stop, OsTypes
  <2>3. QED
    BY <1>23, <2>1, <2>2, TypesFramed DEF TypeOK, Stop, threads, rows, os, queue,
       service, opvars
<1>24. CASE StopMark(w)
  <2>1. ThreadTypes'
    BY <1>24, GotoTypes DEF StopMark, TrySteps, Handlers
  <2>2. RowTypes'
    BY <1>24 DEF StopMark, RowTypes, FinishProcess
  <2>3. QED
    BY <1>24, <2>1, <2>2, TypesFramed DEF TypeOK, StopMark, threads, rows, os, queue,
       service, opvars
<1>25. CASE MarkBudgetUncertain(w)
  <2>1. ThreadTypes'
    BY <1>25, GotoTypes DEF MarkBudgetUncertain, TrySteps, Handlers
  <2>2. RowTypes'
    BY <1>25 DEF MarkBudgetUncertain, RowTypes
  <2>3. QED
    BY <1>25, <2>1, <2>2, TypesFramed DEF TypeOK, MarkBudgetUncertain, threads, rows,
       os, queue, service, opvars
<1>26. CASE QuarantineDelivery(w)
  <2>1. ThreadTypes'
    BY <1>26, GotoTypes DEF QuarantineDelivery, TrySteps, Handlers
  <2>2. QueueTypes'
    BY <1>26 DEF QuarantineDelivery, QueueTypes, ThreadTypes, ForceDeliveryUncertain,
       queue, SetDelivery, Waiting, Held, Final
  <2>3. QED
    BY <1>26, <2>1, <2>2, TypesFramed DEF TypeOK, QuarantineDelivery, threads, rows, os,
       queue, service, opvars
<1>27. CASE QuarantineWake(w)
  <2>1. ThreadTypes'
    BY <1>27, GotoTypes DEF QuarantineWake, TrySteps, Handlers
  <2>2. RowTypes'
    BY <1>27 DEF QuarantineWake, RowTypes
  <2>3. QED
    BY <1>27, <2>1, <2>2, TypesFramed DEF TypeOK, QuarantineWake, threads, rows, os,
       queue, service, opvars
<1>28. CASE DropSession(w)
  <2>1. ThreadTypes'
    BY <1>28, GotoTypes DEF DropSession, TrySteps, Handlers
  <2>2. RowTypes'
    BY <1>28 DEF DropSession, RowTypes, ForceTerminateSession, rows
  <2>3. QED
    BY <1>28, <2>1, <2>2, TypesFramed DEF TypeOK, DropSession, threads, rows, os, queue,
       service, opvars
<1>29. QED
  BY <1>1, <1>2, <1>3, <1>4, <1>5, <1>6, <1>7, <1>8, <1>9, <1>10, <1>11, <1>12, <1>13,
     <1>14, <1>15, <1>16, <1>17, <1>18, <1>19, <1>20, <1>21, <1>22, <1>23, <1>24, <1>25,
     <1>26, <1>27, <1>28, <1>30 DEF WakeStep

\* Every step of tick is type correct.
LEMMA TickStepTypes ==
    ASSUME TypeOK, NEW p \in Procs, TickStep(p)
    PROVE  TypeOK'
<1> USE DEF TypeOK
<1>1. CASE StartTick(p)
  <2>1. ServiceTypes'
    BY <1>1 DEF StartTick, ServiceTypes, LiveProc
  <2>2. QED
    BY <1>1, <2>1, TypesFramed DEF TypeOK, StartTick, threads, rows, os, queue, service,
       opvars
<1>2. CASE RunBatch(p)
  <2>1. ThreadTypes'
    BY <1>2 DEF RunBatch, ThreadTypes, TrySteps, Handlers
  <2>2. QueueTypes'
    BY <1>2 DEF RunBatch, QueueTypes, ThreadTypes, queue, Swept, SweptOwner, Waiting,
       Held, Final
  <2>3. ServiceTypes'
    BY <1>2 DEF RunBatch, ServiceTypes, LiveProc
  <2>4. QED
    BY <1>2, <2>1, <2>2, <2>3, TypesFramed DEF TypeOK, RunBatch, threads, rows, os,
       queue, service, opvars
<1>3. CASE EndTick(p)
  <2>1. ServiceTypes'
    BY <1>3 DEF EndTick, ServiceTypes, LiveProc
  <2>2. QED
    BY <1>3, <2>1, TypesFramed DEF TypeOK, EndTick, threads, rows, os, queue, service,
       opvars
<1>4. ASSUME NEW d \in Deliveries, LeaseDuplicate(p, d) PROVE TypeOK'
  <2>1. QueueTypes'
    BY <1>4 DEF LeaseDuplicate, QueueTypes, ThreadTypes, Eligible, Swept, SweptOwner,
       Waiting, Held, Final
  <2>2. QED
    BY <1>4, <2>1, TypesFramed DEF TypeOK, LeaseDuplicate, threads, rows, os, queue,
       service, opvars
<1>5. ASSUME NEW w \in Wakes, NEW d \in Deliveries, LeaseDelivery(p, w, d) PROVE TypeOK'
  <2>1. ThreadTypes'
    BY <1>5 DEF LeaseDelivery, ThreadTypes, TrySteps, Handlers
  <2>2. QueueTypes'
    BY <1>5 DEF LeaseDelivery, LeaseRow, QueueTypes, ThreadTypes, Eligible, Swept,
       SweptOwner, Waiting, Held, Final
  <2>3. QED
    BY <1>5, <2>1, <2>2, TypesFramed DEF TypeOK, LeaseDelivery, threads, rows, os,
       queue, service, opvars
<1>6. QED
  BY <1>1, <1>2, <1>3, <1>4, <1>5 DEF TickStep

\* Every step of pause and recover is type correct.
LEMMA OpStepTypes ==
    ASSUME TypeOK, OpStep
    PROVE  TypeOK'
<1> USE DEF TypeOK
<1>1. CASE ScanWakes
  <2>1. OpTypes'
    BY <1>1 DEF ScanWakes, OpTypes, OpenWakes
  <2>2. QED
    BY <1>1, <2>1, TypesFramed DEF TypeOK, ScanWakes, threads, rows, os, queue, service,
       opvars
<1>2. CASE ScanOrphans
  <2>1. OpTypes'
    BY <1>2 DEF ScanOrphans, OpTypes
  <2>2. QED
    BY <1>2, <2>1, TypesFramed DEF TypeOK, ScanOrphans, threads, rows, os, queue,
       service, opvars
<1>3. CASE OrphansDone
  <2>1. OpTypes'
    BY <1>3 DEF OrphansDone, OpTypes, OpGoto
  <2>2. QED
    BY <1>3, <2>1, TypesFramed DEF TypeOK, OrphansDone, threads, rows, os, queue,
       service, opvars
<1>4. CASE RecoverPrepared
  <2>1. RowTypes'
    BY <1>4 DEF RecoverPrepared, RowTypes, RecoverPreparedRows, ReleaseBudget, rows
  <2>2. QueueTypes'
    BY <1>4 DEF RecoverPrepared, QueueTypes, ThreadTypes, RetryJob, RetryDelivery,
       SetDelivery, queue, Waiting, Held, Final
  <2>3. ServiceTypes'
    BY <1>4 DEF RecoverPrepared, ServiceTypes, AbortOp, LeaveOp, AfterOp, LiveProc
  <2>4. OpTypes'
    BY <1>4 DEF RecoverPrepared, OpTypes, OpGoto, AbortOp, LeaveOp, AfterOp
  <2>5. QED
    BY <1>4, <2>1, <2>2, <2>3, <2>4, TypesFramed DEF TypeOK, RecoverPrepared, threads,
       rows, os, queue, service, opvars
<1>5. CASE TerminateGroup
  <2>1. OsTypes'
    <3>1. cur \in Wakes
      BY <1>5 DEF TerminateGroup, OpTypes
    <3>2. QED
      BY <1>5, <3>1, TerminationTypes DEF TerminateGroup, SeesNoProcess, OsTypes
  <2>2. OpTypes'
    BY <1>5 DEF TerminateGroup, OpTypes
  <2>3. QED
    BY <1>5, <2>1, <2>2, TypesFramed DEF TypeOK, TerminateGroup, threads, rows, os,
       queue, service, opvars
<1>6. CASE TerminateMark
  <2>1. RowTypes'
    BY <1>6 DEF TerminateMark, RowTypes, FinishProcess
  <2>2. OpTypes'
    BY <1>6 DEF TerminateMark, OpTypes, OpGoto
  <2>3. QED
    BY <1>6, <2>1, <2>2, TypesFramed DEF TypeOK, TerminateMark, threads, rows, os,
       queue, service, opvars
<1>7. CASE TerminateForce
  <2>1. QueueTypes'
    BY <1>7 DEF TerminateForce, QueueTypes, ThreadTypes, ForceDeliveryUncertain, queue,
       SetDelivery, Waiting, Held, Final
  <2>2. OpTypes'
    BY <1>7 DEF TerminateForce, OpTypes, OpGoto
  <2>3. QED
    BY <1>7, <2>1, <2>2, TypesFramed DEF TypeOK, TerminateForce, threads, rows, os,
       queue, service, opvars
<1>8. CASE TerminateRevoke
  <2>1. RowTypes'
    BY <1>8 DEF TerminateRevoke, RowTypes, ForceTerminateSession, rows
  <2>2. ServiceTypes'
    BY <1>8 DEF TerminateRevoke, ServiceTypes, AbortOp, LeaveOp, AfterOp, LiveProc
  <2>3. OpTypes'
    BY <1>8 DEF TerminateRevoke, OpTypes, OpGoto, AbortOp, LeaveOp, AfterOp
  <2>4. QED
    BY <1>8, <2>1, <2>2, <2>3, TypesFramed DEF TypeOK, TerminateRevoke, threads, rows,
       os, queue, service, opvars
<1>9. CASE TerminateQuarantine
  <2>1. RowTypes'
    BY <1>9 DEF TerminateQuarantine, RowTypes
  <2>2. OpTypes'
    BY <1>9 DEF TerminateQuarantine, OpTypes, OpGoto
  <2>3. QED
    BY <1>9, <2>1, <2>2, TypesFramed DEF TypeOK, TerminateQuarantine, threads, rows, os,
       queue, service, opvars
<1>10. CASE OpDone
  <2>1. ServiceTypes'
    BY <1>10 DEF OpDone, ServiceTypes, LeaveOp, AfterOp, LiveProc
  <2>2. OpTypes'
    BY <1>10 DEF OpDone, OpTypes, LeaveOp
  <2>3. QED
    BY <1>10, <2>1, <2>2, TypesFramed DEF TypeOK, OpDone, threads, rows, os, queue,
       service, opvars
<1>11. ASSUME NEW w \in Wakes, RecoverOrphan(w) PROVE TypeOK'
  <2>1. RowTypes'
    BY <1>11 DEF RecoverOrphan, RowTypes, RecoverOrphanRows, ReleaseBudget, rows
  <2>2. ServiceTypes'
    BY <1>11 DEF RecoverOrphan, ServiceTypes, AbortOp, LeaveOp, AfterOp, LiveProc
  <2>3. OpTypes'
    BY <1>11 DEF RecoverOrphan, OpTypes, AbortOp, LeaveOp, AfterOp
  <2>5. OsTypes'
    BY <1>11 DEF RecoverOrphan, SeesNoProcess, OsTypes
  <2>4. QED
    BY <1>11, <2>1, <2>2, <2>3, <2>5, TypesFramed DEF TypeOK, RecoverOrphan, threads, rows, os,
       queue, service, opvars
<1>12. ASSUME NEW w \in Wakes, NextWake(w) PROVE TypeOK'
  <2>1. OpTypes'
    BY <1>12 DEF NextWake, OpTypes
  <2>2. QED
    BY <1>12, <2>1, TypesFramed DEF TypeOK, NextWake, threads, rows, os, queue, service,
       opvars
<1>13. QED
  BY <1>1, <1>2, <1>3, <1>4, <1>5, <1>6, <1>7, <1>8, <1>9, <1>10, <1>11, <1>12 DEF
     OpStep

\* So is every step of the environment.
LEMMA EnvStepTypes ==
    ASSUME TypeOK, EnvStep
    PROVE  TypeOK'
<1> USE DEF TypeOK
<1>1. ASSUME NEW w \in Wakes, Fault(w) PROVE TypeOK'
  <2>1. ThreadTypes'
    <3>1. HandlerOf(pc[w]) \in {"giveup", "undo", "kill", "stop", "done"}
      BY DEF HandlerOf
    <3>2. QED
      BY <1>1, <3>1 DEF Fault, ThreadTypes, TrySteps, Handlers, Goto
  <2>3. OsTypes'
    BY <1>1 DEF Fault, OsTypes
  <2>2. QED
    BY <1>1, <2>1, <2>3, TypesFramed DEF TypeOK, Fault, threads, rows, os, queue, service,
       opvars
<1>2. ASSUME NEW w \in Wakes, ProviderExit(w) PROVE TypeOK'
  <2>1. OsTypes'
    BY <1>2 DEF ProviderExit, OsTypes
  <2>2. QED
    BY <1>2, <2>1, TypesFramed DEF TypeOK, ProviderExit, threads, rows, os, queue,
       service, opvars
<1>3. ASSUME NEW w \in Wakes, PidReuse(w) PROVE TypeOK'
  <2>1. OsTypes'
    BY <1>3 DEF PidReuse, OsTypes
  <2>2. QED
    BY <1>3, <2>1, TypesFramed DEF TypeOK, PidReuse, threads, rows, os, queue, service,
       opvars
<1>4. ASSUME NEW d \in Deliveries, Elapse(d) PROVE TypeOK'
  <2>1. QueueTypes'
    BY <1>4 DEF Elapse, QueueTypes, ThreadTypes
  <2>2. QED
    BY <1>4, <2>1, TypesFramed DEF TypeOK, Elapse, threads, rows, os, queue, service,
       opvars
<1>5. ASSUME NEW p \in Procs, Pause(p) PROVE TypeOK'
  <2>1. ServiceTypes'
    BY <1>5 DEF Pause, ServiceTypes, LiveProc
  <2>2. OpTypes'
    BY <1>5 DEF Pause, OpTypes, EnterOp
  <2>3. QED
    BY <1>5, <2>1, <2>2, TypesFramed DEF TypeOK, Pause, threads, rows, os, queue,
       service, opvars
<1>6. ASSUME NEW p \in Procs, Resume(p) PROVE TypeOK'
  <2>1. ServiceTypes'
    BY <1>6 DEF Resume, ServiceTypes, LiveProc
  <2>2. QED
    BY <1>6, <2>1, TypesFramed DEF TypeOK, Resume, threads, rows, os, queue, service,
       opvars
<1>7. ASSUME NEW p \in Procs, StartService(p) PROVE TypeOK'
  <2>1. ServiceTypes'
    BY <1>7 DEF StartService, ServiceTypes, LiveProc
  <2>2. OpTypes'
    BY <1>7 DEF StartService, OpTypes, EnterOp
  <2>3. QED
    BY <1>7, <2>1, <2>2, TypesFramed DEF TypeOK, StartService, threads, rows, os, queue,
       service, opvars
<1>8. ASSUME NEW p \in Procs, StartCli(p) PROVE TypeOK'
  <2>1. ServiceTypes'
    BY <1>8 DEF StartCli, ServiceTypes, LiveProc
  <2>2. OpTypes'
    BY <1>8 DEF StartCli, OpTypes, EnterOp, opvars
  <2>3. QED
    BY <1>8, <2>1, <2>2, TypesFramed DEF TypeOK, StartCli, threads, rows, os, queue,
       service, opvars
<1>9. ASSUME NEW p \in Procs, Shutdown(p) PROVE TypeOK'
  <2>1. ServiceTypes'
    BY <1>9 DEF Shutdown, ServiceTypes, LiveProc
  <2>2. OpTypes'
    BY <1>9 DEF Shutdown, OpTypes, EnterOp
  <2>3. QED
    BY <1>9, <2>1, <2>2, TypesFramed DEF TypeOK, Shutdown, threads, rows, os, queue,
       service, opvars
<1>10. ASSUME NEW p \in Procs, Crash(p) PROVE TypeOK'
  <2>1. ThreadTypes'
    BY <1>10 DEF Crash, ThreadTypes, EndProcess, TrySteps, Handlers
  <2>2. OsTypes'
    BY <1>10 DEF Crash, OsTypes, EndProcess
  <2>3. ServiceTypes'
    BY <1>10 DEF Crash, ServiceTypes, EndProcess, LiveProc
  <2>4. OpTypes'
    BY <1>10 DEF Crash, OpTypes, EndProcess, LeaveOp, opvars
  <2>5. QED
    BY <1>10, <2>1, <2>2, <2>3, <2>4, TypesFramed DEF TypeOK, Crash, EndProcess, threads,
       rows, os, queue, service, opvars
<1>11. ASSUME NEW p \in Procs, Exit(p) PROVE TypeOK'
  <2>1. ThreadTypes'
    BY <1>11 DEF Exit, ThreadTypes, EndProcess, TrySteps, Handlers
  <2>2. OsTypes'
    BY <1>11 DEF Exit, OsTypes, EndProcess
  <2>3. ServiceTypes'
    BY <1>11 DEF Exit, ServiceTypes, EndProcess, LiveProc
  <2>4. OpTypes'
    BY <1>11 DEF Exit, OpTypes, EndProcess, LeaveOp, opvars
  <2>5. QED
    BY <1>11, <2>1, <2>2, <2>3, <2>4, TypesFramed DEF TypeOK, Exit, EndProcess, threads,
       rows, os, queue, service, opvars
<1>12. ASSUME NEW p \in Procs, NEW w \in Wakes, NEW r \in Roles, ManualWake(p, w, r) PROVE TypeOK'
  <2>1. ThreadTypes'
    BY <1>12 DEF ManualWake, ThreadTypes, TrySteps, Handlers
  <2>2. QED
    BY <1>12, <2>1, TypesFramed DEF TypeOK, ManualWake, threads, rows, os, queue,
       service, opvars
<1>13. CASE OpFault
  <2>1. ServiceTypes' /\ OpTypes'
    BY <1>13 DEF OpFault, AbortOp, LeaveOp, AfterOp, ServiceTypes, OpTypes, LiveProc
  <2>2. QED
    BY <1>13, <2>1, TypesFramed DEF TypeOK, OpFault, threads, rows, os, queue
<1>14. ASSUME NEW p \in Procs, TickFault(p) PROVE TypeOK'
  <2>1. ThreadTypes' /\ ServiceTypes'
    BY <1>14 DEF TickFault, ThreadTypes, ServiceTypes, LiveProc
  <2>2. QueueTypes'
    <3>1. CASE UNCHANGED queue
      BY <3>1 DEF QueueTypes, queue
    <3>2. ASSUME NEW d \in Eligible, LeaseRow(p, d)
          PROVE  QueueTypes'
      BY <3>2 DEF LeaseRow, Eligible, QueueTypes, Swept, SweptOwner, Waiting, Held, Final
    <3>3. QED
      BY <1>14, <3>1, <3>2 DEF TickFault
  <2>3. QED
    BY <1>14, <2>1, <2>2, TypesFramed DEF TypeOK, TickFault, threads, rows, os, queue,
       service, opvars
<1>15. QED
  BY <1>1, <1>2, <1>3, <1>4, <1>5, <1>6, <1>7, <1>8, <1>9, <1>10, <1>11, <1>12, <1>13,
     <1>14 DEF EnvStep

-----------------------------------------------------------------------------
(* At most one execution of a delivery.                                    *)

\* The states of a delivery from which no path leads back to the queue.
Locked == {"running"} \cup Final

\* What every step does to the delivery table: a locked row stays locked, and a
\* lease has cost an attempt.
QueueSafe ==
    /\ \A d \in Deliveries : dstate[d] \in Locked => dstate'[d] \in Locked
    /\ AttemptSpent'

\* The steps that write the delivery table are safe in this sense.
LEMMA QueueWriters ==
    ASSUME TypeOK, AttemptSpent
    PROVE  /\ \A w \in Wakes : Begin(w) => QueueSafe
           /\ \A w \in Wakes : BudgetHold(w) => QueueSafe
           /\ \A w \in Wakes : StartDelivery(w) => QueueSafe
           /\ \A w \in Wakes : FinishDelivery(w) => QueueSafe
           /\ \A w \in Wakes : GiveUp(w) => QueueSafe
           /\ \A w \in Wakes : Undo(w) => QueueSafe
           /\ \A w \in Wakes : QuarantineDelivery(w) => QueueSafe
           /\ TerminateForce => QueueSafe
           /\ RecoverPrepared => QueueSafe
           /\ \A p \in Procs : RunBatch(p) => QueueSafe
           /\ \A p \in Procs, d \in Deliveries : LeaseDuplicate(p, d) => QueueSafe
           /\ \A p \in Procs, w \in Wakes, d \in Deliveries : LeaseDelivery(p, w, d) => QueueSafe
           /\ \A p \in Procs : TickFault(p) => QueueSafe
<1> USE DEF TypeOK, QueueTypes, ThreadTypes, QueueSafe, AttemptSpent, Locked, Waiting,
        Held, Final
<1>1. ASSUME NEW w \in Wakes, Begin(w) PROVE QueueSafe
  BY <1>1 DEF Begin, HoldsLease, RetryDelivery, SetDelivery, queue
<1>2. ASSUME NEW w \in Wakes, BudgetHold(w) PROVE QueueSafe
  BY <1>2 DEF BudgetHold, HoldsLease, SetDelivery, queue
<1>3. ASSUME NEW w \in Wakes, StartDelivery(w) PROVE QueueSafe
  BY <1>3 DEF StartDelivery, MayStart, HoldsLease
<1>4. ASSUME NEW w \in Wakes, FinishDelivery(w) PROVE QueueSafe
  BY <1>4 DEF FinishDelivery, HoldsRun, SetDelivery
<1>5. ASSUME NEW w \in Wakes, GiveUp(w) PROVE QueueSafe
  BY <1>5 DEF GiveUp, HoldsLease, RetryDelivery, SetDelivery, queue
<1>6. ASSUME NEW w \in Wakes, Undo(w) PROVE QueueSafe
  BY <1>6 DEF Undo, RetryableJob, PreparedWake, RetryJob, RetryDelivery, SetDelivery,
     queue
<1>7. ASSUME NEW w \in Wakes, QuarantineDelivery(w) PROVE QueueSafe
  BY <1>7 DEF QuarantineDelivery, ForceDeliveryUncertain, SetDelivery, queue
<1>8. ASSUME TerminateForce PROVE QueueSafe
  BY <1>8 DEF TerminateForce, ForceDeliveryUncertain, SetDelivery, queue
<1>9. ASSUME RecoverPrepared PROVE QueueSafe
  BY <1>9 DEF RecoverPrepared, RetryableJob, PreparedWake, RetryJob, RetryDelivery,
     SetDelivery, queue
<1>10. ASSUME NEW p \in Procs, RunBatch(p) PROVE QueueSafe
  BY <1>10 DEF RunBatch, Swept, queue
<1>11. ASSUME NEW p \in Procs, NEW d \in Deliveries, LeaseDuplicate(p, d) PROVE QueueSafe
  BY <1>11 DEF LeaseDuplicate, Eligible, Swept
<1>12. ASSUME NEW p \in Procs, NEW w \in Wakes, NEW d \in Deliveries, LeaseDelivery(p, w, d) PROVE QueueSafe
  BY <1>12 DEF LeaseDelivery, LeaseRow, Eligible, Swept
<1>13. ASSUME NEW p \in Procs, TickFault(p) PROVE QueueSafe
  BY <1>13 DEF TickFault, LeaseRow, Eligible, Swept, queue
<1>14. QED
  BY <1>1, <1>2, <1>3, <1>4, <1>5, <1>6, <1>7, <1>8, <1>9, <1>10, <1>11, <1>12, <1>13

\* Any other step leaves the delivery table alone, but for the passage of time.
LEMMA QueueStep ==
    ASSUME TypeOK, AttemptSpent, [Next]_vars
    PROVE  QueueSafe
<1>1. UNCHANGED <<dstate, attempt>> => QueueSafe
  BY DEF QueueSafe, AttemptSpent
<1>2. ASSUME NEW w \in Wakes, WakeStep(w) PROVE QueueSafe
  BY <1>1, <1>2, QueueWriters
     DEF WakeStep, CreateSession, ReserveBudget, RevokeSession, PrepareWake, Spawn,
         RecordProcess, MarkWakeRunning, Prompt, Wait, Timeout, Overdue, RecordExit, SettleBudget,
         FinishWake, FinishSession, Kill, Expire, Stop, StopMark, MarkBudgetUncertain,
         QuarantineWake, DropSession, queue
<1>3. ASSUME NEW p \in Procs, TickStep(p) PROVE QueueSafe
  BY <1>1, <1>3, QueueWriters DEF TickStep, StartTick, EndTick, queue
<1>4. CASE OpStep
  BY <1>1, <1>4, QueueWriters
     DEF OpStep, ScanWakes, ScanOrphans, OrphansDone, TerminateGroup, TerminateMark,
         TerminateRevoke, TerminateQuarantine, OpDone, RecoverOrphan, NextWake, queue
<1>5. CASE EnvStep
  BY <1>1, <1>5, QueueWriters
     DEF EnvStep, Fault, ProviderExit, PidReuse, Elapse, Pause, Resume, StartService,
         StartCli, Shutdown, Crash, Exit, EndProcess, ManualWake, OpFault, queue
<1>6. CASE UNCHANGED vars
  BY <1>1, <1>6 DEF vars, queue
<1>7. QED
  BY <1>2, <1>3, <1>4, <1>5, <1>6 DEF Next

\* A wake is committed once its start_delivery has gone through: its provider was
\* prompted, or its next step prompts it.
Committed(w) == w \in ran \/ pc[w] = "prompt"

\* The inductive core: committed deliveries are locked and have one wake.
OneCommitment ==
    /\ \A w \in Wakes : pc[w] = "free" => w \notin ran
    /\ \A w \in Wakes : Committed(w) /\ job[w] # Manual => dstate[job[w]] \in Locked
    /\ \A v, w \in Wakes :
          Committed(v) /\ Committed(w) /\ job[v] = job[w] /\ job[v] # Manual => v = w

\* A step that commits no wake to a delivery: nothing is committed anew but
\* manual wakes, and committed wakes keep their job.
CommitsNothing ==
    \A w \in Wakes :
        /\ pc'[w] = "free" => pc[w] = "free" /\ (w \in ran' => w \in ran)
        /\ Committed(w)' => job'[w] = job[w] /\ (Committed(w) \/ job[w] = Manual)

\* Such a step preserves OneCommitment, as the queue stays safe.
LEMMA CommitmentFramed ==
    ASSUME TypeOK, OneCommitment, QueueSafe, CommitsNothing
    PROVE  OneCommitment'
<1>1. \A w \in Wakes : pc'[w] = "free" => w \notin ran'
  BY DEF OneCommitment, CommitsNothing
<1>2. \A w \in Wakes : Committed(w)' /\ job'[w] # Manual => dstate'[job'[w]] \in Locked
  BY DEF OneCommitment, CommitsNothing, QueueSafe, TypeOK, ThreadTypes
<1>3. \A v, w \in Wakes :
         Committed(v)' /\ Committed(w)' /\ job'[v] = job'[w] /\ job'[v] # Manual => v = w
  BY DEF OneCommitment, CommitsNothing
<1>4. QED
  BY <1>1, <1>2, <1>3 DEF OneCommitment

\* A thread that goes anywhere but to the prompt commits nothing.
LEMMA GotoCommitsNothing ==
    ASSUME TypeOK, NEW w \in Wakes, NEW s, s # "free", s # "prompt", Goto(w, s),
           UNCHANGED ran
    PROVE  CommitsNothing
BY DEF CommitsNothing, Committed, Goto, TypeOK, ThreadTypes

\* So does a step that moves no thread.
LEMMA IdleCommitsNothing ==
    ASSUME UNCHANGED <<pc, job, ran>>
    PROVE  CommitsNothing
BY DEF CommitsNothing, Committed

\* The steps of a wake, but for start_delivery, commit nothing.
LEMMA WakeCommitsNothing ==
    ASSUME TypeOK, OneCommitment, NEW w \in Wakes, WakeStep(w), ~StartDelivery(w)
    PROVE  CommitsNothing
<1>1. CASE MarkWakeRunning(w)
  BY <1>1 DEF MarkWakeRunning, Goto, CommitsNothing, Committed, TypeOK, ThreadTypes, os
<1>2. CASE Prompt(w)
  BY <1>2 DEF Prompt, Goto, CommitsNothing, Committed, TypeOK, ThreadTypes
<1>3. CASE Stop(w)
  BY <1>3 DEF Stop, CommitsNothing, Committed, TypeOK, ThreadTypes
<1>4. CASE \/ Begin(w) \/ CreateSession(w) \/ ReserveBudget(w) \/ RevokeSession(w)
           \/ BudgetHold(w) \/ PrepareWake(w)
  BY <1>4, GotoCommitsNothing
     DEF Begin, CreateSession, ReserveBudget, RevokeSession, BudgetHold, PrepareWake, os
<1>5. CASE \/ Spawn(w) \/ RecordProcess(w) \/ Wait(w) \/ Timeout(w)
           \/ Overdue(w) \/ RecordExit(w) \/ SettleBudget(w)
  BY <1>5, GotoCommitsNothing
     DEF Spawn, RecordProcess, Wait, Timeout, Overdue, RecordExit, SettleBudget, os
<1>6. CASE FinishWake(w) \/ FinishDelivery(w) \/ FinishSession(w)
  BY <1>6, GotoCommitsNothing DEF FinishWake, FinishDelivery, FinishSession, os
<1>7. CASE GiveUp(w) \/ Undo(w) \/ Kill(w) \/ Expire(w) \/ StopMark(w)
  BY <1>7, GotoCommitsNothing DEF GiveUp, Undo, Kill, Expire, StopMark, os
<1>8. CASE \/ MarkBudgetUncertain(w) \/ QuarantineDelivery(w) \/ QuarantineWake(w)
           \/ DropSession(w)
  BY <1>8, GotoCommitsNothing
     DEF MarkBudgetUncertain, QuarantineDelivery, QuarantineWake, DropSession, os
<1>9. QED
  BY <1>1, <1>2, <1>3, <1>4, <1>5, <1>6, <1>7, <1>8 DEF WakeStep

\* start_delivery commits a wake to a delivery that was leased, hence not locked,
\* hence no other wake's.
LEMMA StartDeliveryCommits ==
    ASSUME TypeOK, AttemptSpent, OneCommitment, NEW w \in Wakes, StartDelivery(w)
    PROVE  OneCommitment'
<1>1. QueueSafe
  BY QueueWriters
<1>2. CASE ~MayStart(w)
  <2>1. CommitsNothing
    BY <1>2, GotoCommitsNothing DEF StartDelivery, os
  <2>2. QED
    BY <1>1, <2>1, CommitmentFramed
<1>3. CASE MayStart(w)
  <2>1. /\ job[w] \in Deliveries /\ job[w] # Manual
        /\ dstate[job[w]] = "leased" /\ dstate'[job[w]] = "running"
        /\ pc'[w] = "prompt" /\ UNCHANGED <<job, ran>>
        /\ \A v \in Wakes : v # w => pc'[v] = pc[v]
    BY <1>3 DEF StartDelivery, MayStart, HoldsLease, Goto, TypeOK, ThreadTypes,
                QueueTypes, os
  <2>2. \A v \in Wakes : v # w /\ Committed(v)' => Committed(v) /\ job[v] # job[w]
    BY <2>1 DEF OneCommitment, Committed, Locked, Final
  <2>3. \A v \in Wakes : pc'[v] = "free" => v \notin ran'
    BY <2>1 DEF OneCommitment
  <2>4. \A v \in Wakes : Committed(v)' /\ job'[v] # Manual => dstate'[job'[v]] \in Locked
    BY <1>1, <2>1, <2>2 DEF OneCommitment, QueueSafe, Locked, TypeOK, ThreadTypes
  <2>5. \A u, v \in Wakes :
           Committed(u)' /\ Committed(v)' /\ job'[u] = job'[v] /\ job'[u] # Manual => u = v
    BY <2>1, <2>2 DEF OneCommitment
  <2>6. QED
    BY <2>3, <2>4, <2>5 DEF OneCommitment
<1>4. QED
  BY <1>2, <1>3

\* The steps of a tick commit nothing: a lease gives a job to a free wake only.
LEMMA TickCommitsNothing ==
    ASSUME TypeOK, OneCommitment, NEW p \in Procs, TickStep(p)
    PROVE  CommitsNothing
<1>1. CASE StartTick(p) \/ EndTick(p) \/ \E d \in Deliveries : LeaseDuplicate(p, d)
  BY <1>1, IdleCommitsNothing DEF StartTick, EndTick, LeaseDuplicate, threads, os
<1>2. CASE RunBatch(p)
  BY <1>2 DEF RunBatch, Batch, CommitsNothing, Committed, TypeOK, ThreadTypes, os
<1>3. ASSUME NEW w \in Wakes, NEW d \in Deliveries, LeaseDelivery(p, w, d)
      PROVE  CommitsNothing
  BY <1>3 DEF LeaseDelivery, OneCommitment, CommitsNothing, Committed, TypeOK,
              ThreadTypes, os
<1>4. QED
  BY <1>1, <1>2, <1>3 DEF TickStep

\* Nor do the steps of an operator call or of the environment.
LEMMA OthersCommitNothing ==
    ASSUME TypeOK, OneCommitment, OpStep \/ EnvStep \/ UNCHANGED vars
    PROVE  CommitsNothing
<1>1. CASE OpStep
  BY <1>1, IdleCommitsNothing
     DEF OpStep, ScanWakes, ScanOrphans, OrphansDone, RecoverPrepared, TerminateGroup,
         TerminateMark, TerminateForce, TerminateRevoke, TerminateQuarantine, OpDone,
         RecoverOrphan, NextWake, threads, os
<1>2. ASSUME NEW w \in Wakes, Fault(w) PROVE CommitsNothing
  <2>1. HandlerOf(pc[w]) # "free" /\ HandlerOf(pc[w]) # "prompt"
    BY DEF HandlerOf
  <2>2. QED
    BY <1>2, <2>1, GotoCommitsNothing DEF Fault, os
<1>3. ASSUME NEW p \in Procs, Crash(p) \/ Exit(p) \/ TickFault(p) PROVE CommitsNothing
  BY <1>3 DEF Crash, Exit, EndProcess, TickFault, CommitsNothing, Committed, TypeOK,
              ThreadTypes, os
<1>4. ASSUME NEW p \in Procs, NEW w \in Wakes, NEW r \in Roles, ManualWake(p, w, r)
      PROVE  CommitsNothing
  BY <1>4 DEF ManualWake, OneCommitment, CommitsNothing, Committed, TypeOK, ThreadTypes, os
<1>5. ASSUME NEW w \in Wakes, ProviderExit(w) \/ PidReuse(w) PROVE CommitsNothing
  BY <1>5, IdleCommitsNothing DEF ProviderExit, PidReuse, threads
<1>6. ASSUME NEW d \in Deliveries, Elapse(d) PROVE CommitsNothing
  BY <1>6, IdleCommitsNothing DEF Elapse, threads, os
<1>7. ASSUME NEW p \in Procs,
             Pause(p) \/ Resume(p) \/ StartService(p) \/ StartCli(p) \/ Shutdown(p)
      PROVE  CommitsNothing
  BY <1>7, IdleCommitsNothing
     DEF Pause, Resume, StartService, StartCli, Shutdown, threads, os
<1>8. CASE UNCHANGED vars \/ OpFault
  BY <1>8, IdleCommitsNothing DEF vars, OpFault, threads, os
<1>9. QED
  BY <1>1, <1>2, <1>3, <1>4, <1>5, <1>6, <1>7, <1>8 DEF EnvStep

-----------------------------------------------------------------------------
(* The inductive invariant and what follows from it.                       *)

WakeInv == TypeOK /\ AttemptSpent /\ OneCommitment

LEMMA WakeInvInit == Init => WakeInv
<1> SUFFICES ASSUME Init PROVE WakeInv
  OBVIOUS
<1>1. ThreadTypes /\ RowTypes /\ OsTypes
  BY DEF Init, ThreadTypes, RowTypes, OsTypes
<1>2. QueueTypes
  BY DEF Init, QueueTypes, Waiting
<1>3. ServiceTypes /\ OpTypes
  BY DEF Init, ServiceTypes, OpTypes
<1>4. AttemptSpent /\ OneCommitment
  BY DEF Init, AttemptSpent, OneCommitment, Committed
<1>5. QED
  BY <1>1, <1>2, <1>3, <1>4 DEF WakeInv, TypeOK

LEMMA WakeInvStep == WakeInv /\ [Next]_vars => WakeInv'
<1> SUFFICES ASSUME TypeOK, AttemptSpent, OneCommitment, [Next]_vars PROVE WakeInv'
  BY DEF WakeInv
<1>1. TypeOK'
  <2>1. CASE UNCHANGED vars
    BY <2>1, TypesFramed DEF vars, TypeOK
  <2>2. QED
    BY <2>1, WakeStepTypes, TickStepTypes, OpStepTypes, EnvStepTypes DEF Next
<1>2. QueueSafe
  BY QueueStep
<1>3. OneCommitment'
  <2>1. ASSUME NEW w \in Wakes, WakeStep(w) PROVE OneCommitment'
    BY <1>2, <2>1, WakeCommitsNothing, StartDeliveryCommits, CommitmentFramed
  <2>2. ASSUME NEW p \in Procs, TickStep(p) PROVE OneCommitment'
    BY <1>2, <2>2, TickCommitsNothing, CommitmentFramed
  <2>3. CASE OpStep \/ EnvStep \/ UNCHANGED vars
    BY <1>2, <2>3, OthersCommitNothing, CommitmentFramed
  <2>4. QED
    BY <2>1, <2>2, <2>3 DEF Next
<1>4. QED
  BY <1>1, <1>2, <1>3 DEF WakeInv, QueueSafe

\* Every behaviour of the supervisor satisfies the inductive invariant.
THEOREM WakeInvariance == Spec => []WakeInv
<1>1. Init => WakeInv
  BY WakeInvInit
<1>2. WakeInv /\ [Next]_vars => WakeInv'
  BY WakeInvStep
<1>3. QED
  BY <1>1, <1>2, PTL DEF Spec

\* The columns of the store and the state of threads, processes and operator calls
\* keep to their types, whatever disturbs the supervisor.
THEOREM TypeCorrectness == Spec => []TypeOK
<1>1. WakeInv => TypeOK
  BY DEF WakeInv
<1>2. QED
  BY <1>1, WakeInvariance, PTL

\* No delivery is executed twice, for every number of supervisors, crashes,
\* recoveries, pauses and lapsed leases: start_delivery is the only way to a
\* prompt, and it locks the row.
THEOREM ExecutedAtMostOnce == Spec => []NoReexecution
<1>1. WakeInv => NoReexecution
  BY DEF WakeInv, OneCommitment, Committed, NoReexecution, TypeOK, OsTypes
<1>2. QED
  BY <1>1, WakeInvariance, PTL

-----------------------------------------------------------------------------
(* Refinement of AtMostOnce.                                               *)

PhaseMap == [d \in Deliveries |-> Phase(d)]
WorksMap == [d \in Deliveries |-> {w \in ran : job[w] = d}]

\* A step of the delivery table that starts nothing and reopens nothing: each row
\* keeps its abstract phase or is closed.
OnlyCloses ==
    \A d \in Deliveries : \/ dstate[d] \in Final /\ dstate'[d] = dstate[d]
                          \/ dstate'[d] \in Final
                          \/ dstate[d] = "running" /\ dstate'[d] = "running"
                          \/ dstate[d] \notin Locked /\ dstate'[d] \notin Locked

\* The writers of the delivery table other than start_delivery only close rows.
LEMMA QueueCloses ==
    ASSUME TypeOK, [Next]_vars, \A w \in Wakes : ~StartDelivery(w)
    PROVE  OnlyCloses
<1> USE DEF OnlyCloses, Locked, Final
<1>1. UNCHANGED dstate => OnlyCloses
  OBVIOUS
<1>2. ASSUME NEW w \in Wakes, WakeStep(w) PROVE OnlyCloses
  <2> USE DEF TypeOK, ThreadTypes, QueueTypes, Waiting, Held
  <2>1. CASE Begin(w) \/ GiveUp(w)
    BY <2>1 DEF Begin, GiveUp, HoldsLease, RetryDelivery, SetDelivery, queue
  <2>2. CASE BudgetHold(w)
    BY <2>2 DEF BudgetHold, HoldsLease, SetDelivery, queue
  <2>3. CASE FinishDelivery(w)
    BY <2>3 DEF FinishDelivery, HoldsRun, SetDelivery
  <2>4. CASE Undo(w)
    BY <2>4 DEF Undo, PreparedWake, RetryableJob, RetryJob, RetryDelivery, SetDelivery,
                queue
  <2>5. CASE QuarantineDelivery(w)
    BY <2>5 DEF QuarantineDelivery, ForceDeliveryUncertain, SetDelivery, queue
  <2>6. QED
    BY <1>1, <1>2, <2>1, <2>2, <2>3, <2>4, <2>5
       DEF WakeStep, CreateSession, ReserveBudget, RevokeSession, PrepareWake, Spawn,
           RecordProcess, MarkWakeRunning, Prompt, Wait, Timeout, Overdue, RecordExit,
           SettleBudget, FinishWake, FinishSession, Kill, Expire, Stop, StopMark,
           MarkBudgetUncertain, QuarantineWake, DropSession, queue
<1>3. ASSUME NEW p \in Procs, TickStep(p) PROVE OnlyCloses
  <2> USE DEF TypeOK, QueueTypes, Waiting, Held
  <2>1. CASE StartTick(p) \/ EndTick(p)
    BY <1>1, <2>1 DEF StartTick, EndTick, queue
  <2>2. CASE RunBatch(p)
    BY <2>2 DEF RunBatch, Swept, queue
  <2>3. ASSUME NEW d \in Deliveries, LeaseDuplicate(p, d) PROVE OnlyCloses
    BY <2>3 DEF LeaseDuplicate, Eligible, Swept
  <2>4. ASSUME NEW w \in Wakes, NEW d \in Deliveries, LeaseDelivery(p, w, d)
        PROVE  OnlyCloses
    BY <2>4 DEF LeaseDelivery, LeaseRow, Eligible, Swept
  <2>5. QED
    BY <1>3, <2>1, <2>2, <2>3, <2>4 DEF TickStep
<1>4. CASE OpStep
  <2> USE DEF TypeOK, ThreadTypes, QueueTypes, Waiting, Held
  <2>1. CASE RecoverPrepared
    BY <2>1 DEF RecoverPrepared, PreparedWake, RetryableJob, RetryJob, RetryDelivery,
                SetDelivery, queue
  <2>2. CASE TerminateForce
    BY <2>2 DEF TerminateForce, ForceDeliveryUncertain, SetDelivery, queue
  <2>3. QED
    BY <1>1, <1>4, <2>1, <2>2
       DEF OpStep, ScanWakes, ScanOrphans, OrphansDone, TerminateGroup, TerminateMark,
           TerminateRevoke, TerminateQuarantine, OpDone, RecoverOrphan, NextWake, queue
<1>5. CASE EnvStep
  <2>1. ASSUME NEW p \in Procs, TickFault(p) PROVE OnlyCloses
    BY <1>1, <2>1 DEF TickFault, LeaseRow, Eligible, Swept, TypeOK, QueueTypes, Waiting,
       Held, queue
  <2>2. QED
    BY <1>1, <1>5, <2>1
       DEF EnvStep, Fault, ProviderExit, PidReuse, Elapse, Pause, Resume, StartService,
           StartCli, Shutdown, Crash, Exit, EndProcess, ManualWake, OpFault, queue
<1>6. CASE UNCHANGED vars
  BY <1>1, <1>6 DEF vars, queue
<1>7. QED
  BY <1>2, <1>3, <1>4, <1>5, <1>6 DEF Next

\* Rows that only close make a Close step of the abstract specification, or none.
LEMMA ClosingRefines ==
    ASSUME TypeOK, OnlyCloses, WorksMap' = WorksMap
    PROVE  Promise!Next \/ UNCHANGED Promise!vars
<1> DEFINE D == {d \in Deliveries : dstate[d] \notin Final /\ dstate'[d] \in Final}
<1>1. \A d \in D : PhaseMap[d] # "closed"
  BY DEF PhaseMap, Phase
<1>2. \A d \in Deliveries : Phase(d)' = IF d \in D THEN "closed" ELSE Phase(d)
  BY DEF OnlyCloses, Phase, Locked, Final
<1>3. PhaseMap' = [d \in Deliveries |-> IF d \in D THEN "closed" ELSE PhaseMap[d]]
  BY <1>2 DEF PhaseMap
<1>4. D \in SUBSET Deliveries
  OBVIOUS
<1>5. Promise!Close(D)
  BY <1>1, <1>3 DEF Promise!Close, PhaseMap, WorksMap
<1>6. QED
  BY <1>4, <1>5 DEF Promise!Next

\* A step that prompts no provider leaves the work done on every delivery as it is.
LEMMA WorksFramed ==
    ASSUME TypeOK, OneCommitment, [Next]_vars, \A w \in Wakes : ~Prompt(w)
    PROVE  WorksMap' = WorksMap
<1>1. ran' = ran
  <2>1. ASSUME NEW w \in Wakes, WakeStep(w) PROVE ran' = ran
    BY <2>1
       DEF WakeStep, Begin, CreateSession, ReserveBudget, RevokeSession, BudgetHold,
           PrepareWake, Spawn, RecordProcess, MarkWakeRunning, StartDelivery, Wait, Timeout,
           Overdue, RecordExit, SettleBudget, FinishWake, FinishDelivery, FinishSession,
           GiveUp, Undo, Kill, Expire, Stop, StopMark, MarkBudgetUncertain,
           QuarantineDelivery, QuarantineWake, DropSession, os
  <2>2. CASE (\E p \in Procs : TickStep(p)) \/ OpStep
    BY <2>2
       DEF TickStep, StartTick, RunBatch, EndTick, LeaseDuplicate, LeaseDelivery, OpStep,
           ScanWakes, ScanOrphans, OrphansDone, RecoverPrepared, TerminateGroup,
           TerminateMark, TerminateForce, TerminateRevoke, TerminateQuarantine, OpDone,
           RecoverOrphan, NextWake, os
  <2>3. CASE EnvStep \/ UNCHANGED vars
    BY <2>3
       DEF EnvStep, Fault, ProviderExit, PidReuse, Elapse, Pause, Resume, StartService,
           StartCli, Shutdown, Crash, Exit, EndProcess, ManualWake, OpFault, TickFault,
           vars, os
  <2>4. QED
    BY <2>1, <2>2, <2>3 DEF Next
<1>2. \A w \in ran : job'[w] = job[w]
  <2>1. ASSUME NEW w \in ran PROVE job'[w] = job[w]
    <3>1. w \in Wakes /\ Committed(w)'
      BY <1>1, <2>1 DEF Committed, TypeOK, OsTypes
    <3>2. CASE \E v \in Wakes : StartDelivery(v)
      BY <3>2 DEF StartDelivery, Goto
    <3>3. CASE \A v \in Wakes : ~StartDelivery(v)
      <4>1. CommitsNothing
        BY <3>3, WakeCommitsNothing, TickCommitsNothing, OthersCommitNothing DEF Next
      <4>2. QED
        BY <3>1, <4>1 DEF CommitsNothing
    <3>4. QED
      BY <3>2, <3>3
  <2>2. QED
    BY <2>1
<1>3. QED
  BY <1>1, <1>2 DEF WorksMap

\* start_delivery is the abstract commitment.
LEMMA StartRefines ==
    ASSUME TypeOK, OneCommitment, NEW w \in Wakes, StartDelivery(w)
    PROVE  Promise!Next \/ UNCHANGED Promise!vars
<1>1. WorksMap' = WorksMap
  BY DEF StartDelivery, Goto, WorksMap, os
<1>2. CASE ~MayStart(w)
  <2>1. OnlyCloses
    BY <1>2 DEF StartDelivery, OnlyCloses, Locked, Final
  <2>2. QED
    BY <1>1, <2>1, ClosingRefines
<1>3. CASE MayStart(w)
  <2>1. /\ job[w] \in Deliveries /\ dstate[job[w]] = "leased"
        /\ dstate' = [dstate EXCEPT ![job[w]] = "running"]
    BY <1>3 DEF StartDelivery, MayStart, HoldsLease, TypeOK, ThreadTypes
  <2>2. PhaseMap[job[w]] = "waiting"
    BY <2>1 DEF PhaseMap, Phase, Final
  <2>3. \A d \in Deliveries : Phase(d)' = IF d = job[w] THEN "committed" ELSE Phase(d)
    <3>1. \A d \in Deliveries : dstate'[d] = IF d = job[w] THEN "running" ELSE dstate[d]
      BY <2>1 DEF TypeOK, QueueTypes
    <3>2. QED
      BY <3>1 DEF Phase, Final
  <2>4. PhaseMap' = [PhaseMap EXCEPT ![job[w]] = "committed"]
    BY <2>3 DEF PhaseMap
  <2>5. Promise!Commit(job[w])
    BY <1>1, <2>2, <2>4 DEF Promise!Commit, PhaseMap, WorksMap
  <2>6. QED
    BY <2>1, <2>5 DEF Promise!Next
<1>4. QED
  BY <1>2, <1>3

\* Handing over the prompt is the abstract work, on a delivery nobody else worked on.
LEMMA PromptRefines ==
    ASSUME TypeOK, OneCommitment, NEW w \in Wakes, Prompt(w)
    PROVE  Promise!Next \/ UNCHANGED Promise!vars
<1>1. PhaseMap' = PhaseMap /\ UNCHANGED job
  BY DEF Prompt, Goto, PhaseMap, Phase, queue
<1>2. CASE ran' = ran
  BY <1>1, <1>2 DEF Promise!vars, PhaseMap, WorksMap
<1>3. CASE job[w] = Manual /\ ran' # ran
  <2>1. ran' = ran \cup {w}
    BY <1>3 DEF Prompt
  <2>2. WorksMap' = WorksMap
    BY <1>1, <1>3, <2>1 DEF WorksMap
  <2>3. QED
    BY <1>1, <2>2 DEF Promise!vars, PhaseMap, WorksMap
<1>4. CASE job[w] # Manual /\ ran' # ran
  <2>1. ran' = ran \cup {w} /\ w \notin ran /\ Committed(w) /\ job[w] \in Deliveries
    BY <1>4 DEF Prompt, Committed, TypeOK, ThreadTypes
  <2>2. PhaseMap[job[w]] # "waiting"
    BY <1>4, <2>1 DEF OneCommitment, PhaseMap, Phase, Locked
  <2>3. WorksMap[job[w]] = {}
    BY <1>4, <2>1 DEF OneCommitment, WorksMap, Committed, TypeOK, OsTypes
  <2>4. \A d \in Deliveries :
           {v \in ran' : job'[v] = d} = IF d = job[w] THEN {w} ELSE {v \in ran : job[v] = d}
    <3>1. {v \in ran : job[v] = job[w]} = {}
      BY <2>1, <2>3 DEF WorksMap
    <3>2. QED
      BY <1>1, <2>1, <3>1
  <2>5. WorksMap' = [WorksMap EXCEPT ![job[w]] = {w}]
    BY <2>4 DEF WorksMap
  <2>6. PICK e \in Deliveries : e = job[w]
    BY <2>1
  <2>7. Promise!Work(e, w)
    BY <1>1, <2>2, <2>3, <2>5, <2>6 DEF Promise!Work, PhaseMap, WorksMap
  <2>8. QED
    BY <2>7 DEF Promise!Next
<1>5. QED
  BY <1>2, <1>3, <1>4

\* The supervisor, the wakes and every recovery together implement AtMostOnce.
THEOREM SupervisorImplementsAtMostOnce == Spec => ImplementsAtMostOnce
<1>1. Init => Promise!Init
  BY DEF Init, Promise!Init, Phase, Final
<1>2. WakeInv /\ [Next]_vars => [Promise!Next]_(Promise!vars)
  <2> SUFFICES ASSUME TypeOK, OneCommitment, [Next]_vars
               PROVE  Promise!Next \/ UNCHANGED Promise!vars
    BY DEF WakeInv
  <2>1. CASE \E w \in Wakes : Prompt(w)
    BY <2>1, PromptRefines
  <2>2. CASE \E w \in Wakes : StartDelivery(w)
    BY <2>2, StartRefines
  <2>3. CASE \A w \in Wakes : ~Prompt(w) /\ ~StartDelivery(w)
    BY <2>3, WorksFramed, QueueCloses, ClosingRefines
  <2>4. QED
    BY <2>1, <2>2, <2>3
<1>3. QED
  BY <1>1, <1>2, WakeInvariance, PTL DEF Spec, ImplementsAtMostOnce, Promise!Spec

-----------------------------------------------------------------------------
(* Outcomes are real.                                                      *)

\* The provider has ended, whether or not it was reaped.
Ended == {"zombie", "gone", "reused"}

\* The thread up to the end of communicate, and after it.
Starting == {"free", "leased", "begin", "create", "reserve", "revoke", "hold", "prepare",
             "spawn", "record", "mark", "start", "prompt", "wait", "overdue"}
Ending   == {"exit", "settle", "finwake", "findel", "finsess"}

\* What any step can do to the thread, the rows and the provider of a wake, as far as
\* its outcome goes.
Onward(w) ==
    /\ pc'[w] \in Starting => pc[w] \in Starting
    /\ prov[w] \in Ended /\ pc[w] # "spawn" => prov'[w] \in Ended
    /\ prow[w] = "exited" /\ pc[w] # "record" => prow'[w] = "exited"
    /\ pc'[w] \in Ending => pc[w] \in Ending \/ prov'[w] \in Ended
    /\ pc'[w] \in Ending \ {"exit"} =>
          pc[w] \in Ending \ {"exit"} \/ (pc[w] = "exit" /\ prow'[w] = "exited")
    /\ resv'[w] = "settled" => resv[w] = "settled" \/ (pc[w] = "settle" /\ pc'[w] = "finwake")
    /\ wake[w] = "succeeded" /\ pc[w] # "prepare" => wake'[w] = "succeeded"
    /\ wake'[w] = "succeeded" =>
          wake[w] = "succeeded" \/ (pc[w] = "finwake" /\ pc'[w] \in Ending)
    /\ job'[w] = job[w] \/ pc[w] = "free"

\* _terminate_group leaves no living provider, and no other one touched.
LEMMA KillGroupKills ==
    ASSUME TypeOK, NEW w \in Wakes, KillGroup(w)
    PROVE  /\ \A v \in Wakes : v # w => prov'[v] = prov[v]
           /\ prov[w] \notin Alive => prov'[w] = prov[w]
           /\ prov[w] \in Alive => prov'[w] \in {"zombie", "gone"}
<1>1. prov \in [Wakes -> {"none", "idle", "working", "zombie", "gone", "reused"}]
  BY DEF TypeOK, OsTypes
<1> DEFINE dead == CASE prov[w] \in Alive /\ pstate[proc[w]] \in LiveProc -> "zombie"
                     [] prov[w] \in Alive /\ pstate[proc[w]] \notin LiveProc -> "gone"
                     [] OTHER -> prov[w]
<1>2. prov' = [prov EXCEPT ![w] = dead]
  BY DEF KillGroup
<1>3. prov[w] \notin Alive => dead = prov[w]
  OBVIOUS
<1>4. prov[w] \in Alive => dead \in {"zombie", "gone"}
  OBVIOUS
<1> HIDE DEF dead
<1>5. QED
  BY <1>1, <1>2, <1>3, <1>4

\* terminate_session leaves no living provider of a row that was running, but for one it
\* could not identify.
LEMMA SessionTerminates ==
    ASSUME TypeOK, NEW w \in Wakes, NEW ok \in BOOLEAN, TerminateSession(w, ok)
    PROVE  /\ \A v \in Wakes : v # w => prov'[v] = prov[v]
           /\ prov[w] \notin Alive => prov'[w] = prov[w]
           /\ prov[w] \in Alive => prov'[w] \in {prov[w], "zombie", "gone"}
           /\ prow[w] = "running" => prov'[w] \notin Alive \/ w \in unsent'
           /\ unsent \subseteq unsent' /\ unsent' \subseteq unsent \cup {w}
<1>1. CASE UNCHANGED <<prov, unsent>> /\ prow[w] # "running"
  BY <1>1
<1>2. CASE KillGroup(w) /\ UNCHANGED unsent
  BY <1>2, KillGroupKills DEF Alive
<1>3. CASE UNCHANGED prov /\ unsent' = IF prov[w] \in Alive THEN unsent \cup {w} ELSE unsent
  BY <1>3
<1>4. QED
  BY <1>1, <1>2, <1>3 DEF TerminateSession, GroupTerminated

\* A step that touches none of these.
LEMMA OnwardFramed ==
    ASSUME UNCHANGED <<pc, job, prov, prow, resv, wake>>, NEW v \in Wakes
    PROVE  Onward(v)
BY DEF Onward

LEMMA WakeStepsOnward ==
    ASSUME TypeOK, NEW w \in Wakes, WakeStep(w), NEW v \in Wakes
    PROVE  Onward(v)
<1> USE DEF TypeOK, ThreadTypes, RowTypes, OsTypes, Onward, Starting, Ending, Ended, Goto
<1>1. CASE Begin(w) \/ CreateSession(w) \/ ReserveBudget(w) \/ RevokeSession(w)
  BY <1>1 DEF Begin, CreateSession, ReserveBudget, RevokeSession, rows, os
<1>2. CASE BudgetHold(w) \/ PrepareWake(w) \/ RecordProcess(w)
  BY <1>2 DEF BudgetHold, PrepareWake, RecordProcess, rows, os
<1>3. CASE Spawn(w) \/ MarkWakeRunning(w) \/ StartDelivery(w)
  BY <1>3 DEF Spawn, MarkWakeRunning, StartDelivery, rows, os
<1>4. CASE Prompt(w) \/ Wait(w) \/ Timeout(w) \/ Overdue(w)
  BY <1>4 DEF Prompt, Wait, Timeout, Overdue, rows, Alive
<1>5. CASE RecordExit(w)
  BY <1>5 DEF RecordExit, FinishProcess, os
<1>6. CASE SettleBudget(w)
  BY <1>6 DEF SettleBudget, os
<1>7. CASE FinishWake(w)
  BY <1>7 DEF FinishWake, OpenWake, os
<1>8. CASE FinishDelivery(w) \/ FinishSession(w) \/ GiveUp(w)
  BY <1>8 DEF FinishDelivery, FinishSession, GiveUp, rows, os
<1>9. CASE Undo(w)
  BY <1>9 DEF Undo, RecoverOrphanRows, RecoverPreparedRows, ReleaseBudget, PreparedWake, rows,
     os
<1>10. CASE Kill(w) \/ Expire(w) \/ StopMark(w)
  BY <1>10 DEF Kill, Expire, StopMark, FinishProcess, Alive, os
<1>11. CASE Stop(w)
  <2>1. \E ok \in BOOLEAN : TerminateSession(w, ok)
    BY <1>11 DEF Stop
  <2>2. prov[v] \in Ended => prov'[v] \in Ended
    BY <2>1, SessionTerminates DEF Alive
  <2>3. QED
    BY <1>11, <2>2 DEF Stop, rows
<1>12. CASE MarkBudgetUncertain(w) \/ QuarantineDelivery(w) \/ QuarantineWake(w)
  BY <1>12 DEF MarkBudgetUncertain, QuarantineDelivery, QuarantineWake, OpenWake, rows, os
<1>13. CASE DropSession(w)
  BY <1>13 DEF DropSession, ForceTerminateSession, OpenWake, rows, os
<1>14. QED
  BY <1>1, <1>2, <1>3, <1>4, <1>5, <1>6, <1>7, <1>8, <1>9, <1>10, <1>11, <1>12, <1>13
     DEF WakeStep

LEMMA OtherStepsOnward ==
    ASSUME TypeOK, (\E p \in Procs : TickStep(p)) \/ OpStep \/ EnvStep \/ UNCHANGED vars,
           NEW v \in Wakes
    PROVE  Onward(v)
<1> USE DEF TypeOK, ThreadTypes, RowTypes, OsTypes, OpTypes
<1>1. ASSUME NEW p \in Procs, TickStep(p)
      PROVE  Onward(v)
  <2>1. CASE StartTick(p) \/ EndTick(p) \/ \E d \in Deliveries : LeaseDuplicate(p, d)
    BY <2>1, OnwardFramed DEF StartTick, EndTick, LeaseDuplicate, threads, rows, os
  <2>2. CASE RunBatch(p)
    BY <2>2 DEF RunBatch, Batch, Onward, Starting, Ending, Ended, rows, os
  <2>3. ASSUME NEW w \in Wakes, NEW d \in Deliveries, LeaseDelivery(p, w, d)
        PROVE  Onward(v)
    BY <2>3 DEF LeaseDelivery, Onward, Starting, Ending, Ended, rows, os
  <2>4. QED
    BY <1>1, <2>1, <2>2, <2>3 DEF TickStep
<1>2. CASE OpStep
  <2>1. CASE \/ ScanWakes \/ ScanOrphans \/ OrphansDone \/ TerminateForce \/ OpDone
             \/ \E w \in Wakes : NextWake(w)
    BY <2>1, OnwardFramed
       DEF ScanWakes, ScanOrphans, OrphansDone, TerminateForce, OpDone, NextWake, threads, rows, os
  <2>2. CASE RecoverPrepared \/ \E w \in Wakes : RecoverOrphan(w)
    BY <2>2 DEF RecoverPrepared, RecoverOrphan, RecoverOrphanRows, RecoverPreparedRows,
       ReleaseBudget, PreparedWake, Onward, Starting, Ending, Ended, threads, rows, os
  <2>3. CASE TerminateGroup
    <3>1. cur \in Wakes /\ \E ok \in BOOLEAN : TerminateSession(cur, ok)
      BY <2>3 DEF TerminateGroup
    <3>2. prov[v] \in Ended => prov'[v] \in Ended
      BY <3>1, SessionTerminates DEF Alive, Ended
    <3>3. QED
      BY <2>3, <3>2 DEF TerminateGroup, Onward, threads, rows
  <2>4. CASE TerminateMark
    BY <2>4 DEF TerminateMark, FinishProcess, Onward, Starting, Ending, Ended, threads, os
  <2>5. CASE TerminateRevoke
    BY <2>5 DEF TerminateRevoke, ForceTerminateSession, OpenWake, Onward, Starting, Ending,
       Ended, threads, rows, os
  <2>6. CASE TerminateQuarantine
    BY <2>6 DEF TerminateQuarantine, OpenWake, Onward, Starting, Ending, Ended, threads, os
  <2>7. QED
    BY <1>2, <2>1, <2>2, <2>3, <2>4, <2>5, <2>6 DEF OpStep
<1>3. CASE EnvStep
  <2>1. ASSUME NEW w \in Wakes, Fault(w)
        PROVE  Onward(v)
    <3>1. HandlerOf(pc[w]) \in {"giveup", "undo", "kill", "stop", "done"}
      BY DEF HandlerOf
    <3>2. QED
      BY <2>1, <3>1 DEF Fault, Goto, Onward, Starting, Ending, Ended, rows, os
  <2>2. ASSUME NEW w \in Wakes, ProviderExit(w) \/ PidReuse(w)
        PROVE  Onward(v)
    BY <2>2 DEF ProviderExit, PidReuse, Alive, Onward, Starting, Ending, Ended, threads, rows
  <2>3. ASSUME NEW p \in Procs, Crash(p) \/ Exit(p) \/ TickFault(p)
        PROVE  Onward(v)
    BY <2>3 DEF Crash, Exit, EndProcess, TickFault, Batch, Onward, Starting, Ending, Ended,
       rows, os
  <2>4. ASSUME NEW p \in Procs, NEW w \in Wakes, NEW r \in Roles, ManualWake(p, w, r)
        PROVE  Onward(v)
    BY <2>4 DEF ManualWake, Onward, Starting, Ending, Ended, rows, os
  <2>5. ASSUME NEW p \in Procs,
               Pause(p) \/ Resume(p) \/ StartService(p) \/ StartCli(p) \/ Shutdown(p)
        PROVE  Onward(v)
    BY <2>5, OnwardFramed DEF Pause, Resume, StartService, StartCli, Shutdown, threads, rows, os
  <2>6. ASSUME NEW d \in Deliveries, Elapse(d)
        PROVE  Onward(v)
    BY <2>6, OnwardFramed DEF Elapse, threads, rows, os
  <2>7. CASE OpFault
    BY <2>7, OnwardFramed DEF OpFault, threads, rows, os
  <2>8. QED
    BY <1>3, <2>1, <2>2, <2>3, <2>4, <2>5, <2>6, <2>7 DEF EnvStep
<1>4. CASE UNCHANGED vars
  BY <1>4, OnwardFramed DEF vars, threads, rows, os
<1>5. QED
  BY <1>1, <1>2, <1>3, <1>4

LEMMA StepsOnward == TypeOK /\ [Next]_vars => \A w \in Wakes : Onward(w)
BY WakeStepsOnward, OtherStepsOnward DEF Next

\* A delivery succeeds only through the thread of a wake that succeeded.
LEMMA DeliverySucceeds ==
    ASSUME TypeOK, [Next]_vars, NEW d \in Deliveries,
           dstate'[d] = "succeeded", dstate[d] # "succeeded"
    PROVE  \E w \in Wakes : pc[w] = "findel" /\ job[w] = d /\ wake[w] = "succeeded"
<1> USE DEF TypeOK, QueueTypes, ThreadTypes, Waiting, Held, Final
<1>1. ASSUME NEW w \in Wakes, WakeStep(w)
      PROVE  \E x \in Wakes : pc[x] = "findel" /\ job[x] = d /\ wake[x] = "succeeded"
  <2>1. CASE FinishDelivery(w)
    BY <2>1 DEF FinishDelivery, HoldsRun, SetDelivery
  <2>2. CASE Begin(w) \/ BudgetHold(w) \/ StartDelivery(w) \/ GiveUp(w)
    BY <2>2 DEF Begin, BudgetHold, StartDelivery, GiveUp, HoldsLease, MayStart, RetryDelivery,
       SetDelivery, queue
  <2>3. CASE Undo(w) \/ QuarantineDelivery(w)
    BY <2>3 DEF Undo, QuarantineDelivery, RetryJob, RetryDelivery, ForceDeliveryUncertain,
       SetDelivery, queue
  <2>4. QED
    BY <1>1, <2>1, <2>2, <2>3
       DEF WakeStep, CreateSession, ReserveBudget, RevokeSession, PrepareWake, Spawn,
           RecordProcess, MarkWakeRunning, Prompt, Wait, Timeout, Overdue, RecordExit, SettleBudget,
           FinishWake, FinishSession, Kill, Expire, Stop, StopMark, MarkBudgetUncertain,
           QuarantineWake, DropSession, queue
<1>2. ASSUME NEW p \in Procs, TickStep(p)
      PROVE  FALSE
  <2>1. \A x \in Deliveries : Swept(x) = "succeeded" => dstate[x] = "succeeded"
    BY DEF Swept
  <2>2. QED
    BY <1>2, <2>1 DEF TickStep, StartTick, RunBatch, EndTick, LeaseDuplicate, LeaseDelivery,
       LeaseRow, queue
<1>3. ASSUME OpStep
      PROVE  FALSE
  <2>1. CASE RecoverPrepared
    BY <2>1 DEF RecoverPrepared, RetryJob, RetryDelivery, SetDelivery, queue
  <2>2. CASE TerminateForce
    BY <2>2 DEF TerminateForce, ForceDeliveryUncertain, SetDelivery, queue
  <2>3. QED
    BY <1>3, <2>1, <2>2 DEF OpStep, ScanWakes, ScanOrphans, OrphansDone, TerminateGroup,
       TerminateMark, TerminateRevoke, TerminateQuarantine, OpDone, RecoverOrphan, NextWake, queue
<1>4. ASSUME EnvStep \/ UNCHANGED vars
      PROVE  FALSE
  <2>1. ASSUME NEW p \in Procs, TickFault(p)
        PROVE  FALSE
    BY <2>1 DEF TickFault, LeaseRow, Swept, queue
  <2>2. QED
    BY <1>4, <2>1 DEF EnvStep, Fault, ProviderExit, PidReuse, Elapse, Pause, Resume,
       StartService, StartCli, Shutdown, Crash, Exit, EndProcess, ManualWake, OpFault, queue,
       vars
<1>5. QED
  BY <1>1, <1>2, <1>3, <1>4 DEF Next

\* After communicate the provider has ended and its exit is on record; a settled budget
\* and a succeeded wake are behind that point; a succeeded delivery has such a wake.
OutcomeInv ==
    /\ \A w \in Wakes : pc[w] \in Ending => prov[w] \in Ended
    /\ \A w \in Wakes : pc[w] \in Ending \ {"exit"} => prow[w] = "exited"
    /\ \A w \in Wakes : resv[w] = "settled" => prov[w] \in Ended /\ pc[w] \notin Starting
    /\ \A w \in Wakes : wake[w] = "succeeded" =>
          prov[w] \in Ended /\ prow[w] = "exited" /\ pc[w] \notin Starting
    /\ \A d \in Deliveries : dstate[d] = "succeeded" =>
          \E w \in Wakes : job[w] = d /\ wake[w] = "succeeded"

LEMMA OutcomeInvStep ==
    ASSUME TypeOK, OutcomeInv, [Next]_vars
    PROVE  OutcomeInv'
<1>1. \A w \in Wakes : Onward(w)
  BY StepsOnward
<1>2. \A w \in Wakes : pc'[w] \in Ending => prov'[w] \in Ended
  BY <1>1 DEF OutcomeInv, Onward, Ending
<1>3. \A w \in Wakes : pc'[w] \in Ending \ {"exit"} => prow'[w] = "exited"
  BY <1>1 DEF OutcomeInv, Onward, Ending
<1>4. \A w \in Wakes : resv'[w] = "settled" => prov'[w] \in Ended /\ pc'[w] \notin Starting
  BY <1>1, <1>2 DEF OutcomeInv, Onward, Ending, Starting
<1>5. ASSUME NEW w \in Wakes, wake[w] = "succeeded" \/ (pc[w] = "finwake" /\ pc'[w] \in Ending)
      PROVE  prov'[w] \in Ended /\ prow'[w] = "exited" /\ pc'[w] \notin Starting
  BY <1>1, <1>5 DEF OutcomeInv, Onward, Ending, Starting
<1>6. \A w \in Wakes : wake'[w] = "succeeded" =>
          prov'[w] \in Ended /\ prow'[w] = "exited" /\ pc'[w] \notin Starting
  BY <1>1, <1>5 DEF Onward
<1>7. ASSUME NEW d \in Deliveries, dstate'[d] = "succeeded"
      PROVE  \E w \in Wakes : job'[w] = d /\ wake'[w] = "succeeded"
  <2>1. PICK w \in Wakes : job[w] = d /\ wake[w] = "succeeded"
    BY <1>7, DeliverySucceeds DEF OutcomeInv
  <2>2. pc[w] \notin Starting
    BY <2>1 DEF OutcomeInv
  <2>3. QED
    BY <1>1, <2>1, <2>2 DEF Onward, Starting
<1>8. QED
  BY <1>2, <1>3, <1>4, <1>6, <1>7 DEF OutcomeInv

\* A settled reservation and a succeeded delivery are behind a provider that really
\* ended, under every disturbance: other supervisors, pauses and recoveries included.
THEOREM OutcomesAreReal == Spec => []OutcomeIsReal
<1>1. Init => OutcomeInv
  BY DEF Init, OutcomeInv, Ending, Starting
<1>2. OutcomeInv => OutcomeIsReal
  BY DEF OutcomeInv, OutcomeIsReal, Ended, Alive
<1>3. WakeInv /\ OutcomeInv /\ [Next]_vars => OutcomeInv'
  BY OutcomeInvStep DEF WakeInv
<1>4. QED
  BY <1>1, <1>2, <1>3, WakeInvariance, PTL DEF Spec

-----------------------------------------------------------------------------
(* One service at a time.  Without a shutdown's recovery and without the   *)
(* command line, a recovery runs only in a service that has just started,  *)
(* when no thread of any wake is left.                                     *)

OneService ==
    /\ \A p \in Procs : pstate[p] \in {"off", "dead", "recovering", "up"}
    /\ \A p, q \in Procs : pstate[p] \in {"recovering", "up"} /\ pstate[q] \in {"recovering", "up"}
                              => p = q

AtRest == {"free", "done"}

\* Threads and ticks are those of a service that is up.
ThreadsServed == \A w \in Wakes : pc[w] \notin AtRest => proc[w] \in Procs /\ pstate[proc[w]] = "up"
TicksServed   == \A p \in Procs : tick[p] # "no" => pstate[p] = "up"

\* A recovery is the recovering service's.
RecoveryServed ==
    /\ opk = "recover" => opp \in Procs /\ pstate[opp] = "recovering"
    /\ \A p \in Procs : pstate[p] = "recovering" => opk = "recover" /\ opp = p
    /\ ost \in {"first", "orphans", "prepared"} => opk = "recover"
    /\ opk = "idle" => ost = "none"
    /\ ost \in {"prepared", "read", "mark", "force", "revoke", "quarantine"} => cur \in Wakes

ServiceInv == OneService /\ ThreadsServed /\ TicksServed /\ RecoveryServed

\* During a recovery no thread is left.
LEMMA RecoveryAlone ==
    ASSUME ServiceInv, opk = "recover", NEW w \in Wakes
    PROVE  pc[w] \in AtRest
BY DEF ServiceInv, OneService, ThreadsServed, RecoveryServed

\* A step of a thread that was at work leaves the service alone.
LEMMA ServiceFramed ==
    ASSUME ServiceInv, UNCHANGED <<service, opvars>>,
           \A w \in Wakes : proc'[w] = proc[w] /\ (pc'[w] \notin AtRest => pc[w] \notin AtRest)
    PROVE  ServiceInv'
BY DEF ServiceInv, OneService, ThreadsServed, TicksServed, RecoveryServed, service, opvars

LEMMA WakeKeepsService ==
    ASSUME TypeOK, ServiceInv, NEW w \in Wakes, WakeStep(w) \/ Fault(w)
    PROVE  ServiceInv'
<1>1. ASSUME NEW s, Goto(w, s), pc[w] \notin AtRest, NEW v \in Wakes
      PROVE  proc'[v] = proc[v] /\ (pc'[v] \notin AtRest => pc[v] \notin AtRest)
  BY <1>1 DEF Goto, TypeOK, ThreadTypes
<1>2. CASE Stop(w)
  BY <1>2, ServiceFramed DEF Stop, AtRest, TypeOK, ThreadTypes
<1>3. CASE \/ Begin(w) \/ CreateSession(w) \/ ReserveBudget(w) \/ RevokeSession(w)
           \/ BudgetHold(w) \/ PrepareWake(w) \/ Spawn(w) \/ RecordProcess(w)
  BY <1>1, <1>3, ServiceFramed
     DEF Begin, CreateSession, ReserveBudget, RevokeSession, BudgetHold, PrepareWake, Spawn,
         RecordProcess, AtRest
<1>4. CASE \/ MarkWakeRunning(w) \/ StartDelivery(w) \/ Prompt(w) \/ Wait(w) \/ Timeout(w) \/ Overdue(w)
           \/ RecordExit(w) \/ SettleBudget(w) \/ FinishWake(w)
  BY <1>1, <1>4, ServiceFramed
     DEF MarkWakeRunning, StartDelivery, Prompt, Wait, Timeout, Overdue, RecordExit, SettleBudget,
         FinishWake, AtRest
<1>5. CASE \/ FinishDelivery(w) \/ FinishSession(w) \/ GiveUp(w) \/ Undo(w) \/ Kill(w)
           \/ Expire(w) \/ StopMark(w)
  BY <1>1, <1>5, ServiceFramed
     DEF FinishDelivery, FinishSession, GiveUp, Undo, Kill, Expire, StopMark, AtRest
<1>6. CASE \/ MarkBudgetUncertain(w) \/ QuarantineDelivery(w) \/ QuarantineWake(w)
           \/ DropSession(w)
  BY <1>1, <1>6, ServiceFramed
     DEF MarkBudgetUncertain, QuarantineDelivery, QuarantineWake, DropSession, AtRest
<1>7. CASE Fault(w)
  BY <1>1, <1>7, ServiceFramed DEF Fault, TrySteps, Handlers, AtRest
<1>8. QED
  BY <1>2, <1>3, <1>4, <1>5, <1>6, <1>7 DEF WakeStep

LEMMA TickKeepsService ==
    ASSUME TypeOK, ServiceInv, NEW p \in Procs, TickStep(p)
    PROVE  ServiceInv'
<1> USE DEF ServiceInv, TypeOK, ThreadTypes, ServiceTypes
<1>1. CASE StartTick(p)
  BY <1>1 DEF StartTick, OneService, ThreadsServed, TicksServed, RecoveryServed, threads, opvars
<1>2. CASE RunBatch(p)
  <2>1. tick' = [tick EXCEPT ![p] = "running"] /\ pstate[p] = "up" /\ UNCHANGED <<pstate, proc, opvars>>
    BY <1>2 DEF RunBatch, TicksServed
  <2>2. \A w \in Wakes : pc'[w] \notin AtRest => pc[w] \notin AtRest
    BY <1>2 DEF RunBatch, Batch, AtRest
  <2>3. QED
    BY <2>1, <2>2 DEF OneService, ThreadsServed, TicksServed, RecoveryServed, opvars
<1>3. CASE EndTick(p)
  <2>1. tick' = [tick EXCEPT ![p] = "no"] /\ UNCHANGED <<pstate, pc, proc, opvars>>
    BY <1>3 DEF EndTick, OneService, threads
  <2>2. QED
    BY <2>1 DEF OneService, ThreadsServed, TicksServed, RecoveryServed, opvars
<1>4. ASSUME NEW d \in Deliveries, LeaseDuplicate(p, d)
      PROVE  ServiceInv'
  BY <1>4, ServiceFramed DEF LeaseDuplicate, threads
<1>5. ASSUME NEW w \in Wakes, NEW d \in Deliveries, LeaseDelivery(p, w, d)
      PROVE  ServiceInv'
  <2>1. /\ pstate[p] = "up" /\ pc' = [pc EXCEPT ![w] = "leased"] /\ proc' = [proc EXCEPT ![w] = p]
        /\ UNCHANGED <<service, opvars>>
    BY <1>5 DEF LeaseDelivery, TicksServed
  <2>2. QED
    BY <2>1 DEF OneService, ThreadsServed, TicksServed, RecoveryServed, service, opvars
<1>6. QED
  BY <1>1, <1>2, <1>3, <1>4, <1>5 DEF TickStep

\* The end of an operator call opens or ends the service that was recovering, and
\* leaves any other as it is.
LEMMA LeaveKeepsService ==
    ASSUME TypeOK, ServiceInv, NEW ok \in BOOLEAN, LeaveOp, AfterOp(ok),
           UNCHANGED <<threads, tick>>
    PROVE  ServiceInv'
<1>1. CASE opk # "recover"
  <2>1. UNCHANGED <<pstate, pc, proc, tick>> /\ opk' = "idle" /\ ost' = "none"
    BY <1>1 DEF AfterOp, LeaveOp, threads
  <2>2. \A p \in Procs : pstate[p] # "recovering"
    BY <1>1 DEF ServiceInv, RecoveryServed
  <2>3. QED
    BY <2>1, <2>2 DEF ServiceInv, OneService, ThreadsServed, TicksServed, RecoveryServed
<1>2. CASE opk = "recover"
  <2>1. opp \in Procs /\ pstate[opp] = "recovering"
    BY <1>2 DEF ServiceInv, RecoveryServed
  <2> DEFINE after == CASE pstate[opp] = "recovering" -> IF ok THEN "up" ELSE "dead"
                        [] pstate[opp] = "cli" -> "dead"
                        [] OTHER -> pstate[opp]
  <2>2. pstate' = [pstate EXCEPT ![opp] = after]
    BY <1>2 DEF AfterOp
  <2>3. after = "up" \/ after = "dead"
    <3>1. after = IF ok THEN "up" ELSE "dead"
      BY <2>1, pstate[opp] # "cli"
    <3>2. QED
      BY <3>1
  <2> HIDE DEF after
  <2>4. UNCHANGED <<pc, proc, tick>> /\ opk' = "idle" /\ ost' = "none"
    BY DEF LeaveOp, threads
  <2>5. \A w \in Wakes : pc[w] \in AtRest
    BY <1>2, RecoveryAlone
  <2>6. \A p \in Procs : p # opp => pstate'[p] = pstate[p] /\ pstate[p] \notin {"recovering", "up"}
    BY <2>1, <2>2 DEF ServiceInv, OneService, TypeOK, ServiceTypes
  <2>7. pstate'[opp] \in {"up", "dead"}
    BY <2>1, <2>2, <2>3 DEF TypeOK, ServiceTypes
  <2>8. OneService'
    BY <2>6, <2>7 DEF ServiceInv, OneService
  <2>9. ThreadsServed' /\ TicksServed'
    BY <2>1, <2>4, <2>5, <2>6 DEF ServiceInv, ThreadsServed, TicksServed
  <2>10. RecoveryServed'
    BY <2>4, <2>6, <2>7 DEF RecoveryServed
  <2>11. QED
    BY <2>8, <2>9, <2>10 DEF ServiceInv
<1>3. QED
  BY <1>1, <1>2

LEMMA OpKeepsService ==
    ASSUME TypeOK, ServiceInv, OpStep
    PROVE  ServiceInv'
<1>1. ASSUME UNCHANGED <<pc, proc, pstate, tick, opk, opp>>,
             ost' \in {"first", "orphans", "prepared"} => opk = "recover",
             opk # "idle",
             ost' \in {"prepared", "read", "mark", "force", "revoke", "quarantine"} => cur' \in Wakes
      PROVE  ServiceInv'
  BY <1>1 DEF ServiceInv, OneService, ThreadsServed, TicksServed, RecoveryServed
<1>2. ost # "none" /\ opk # "idle" /\ opk \in {"pause", "recover"}
  BY DEF OpStep, ScanWakes, ScanOrphans, OrphansDone, RecoverPrepared, TerminateGroup,
     TerminateMark, TerminateForce, TerminateRevoke, TerminateQuarantine, OpDone, RecoverOrphan,
     NextWake, ServiceInv, RecoveryServed, TypeOK, OpTypes
<1>3. CASE ScanWakes \/ ScanOrphans \/ OrphansDone
  BY <1>1, <1>2, <1>3 DEF ScanWakes, ScanOrphans, OrphansDone, OpGoto, service, threads,
     ServiceInv, RecoveryServed
<1>4. CASE TerminateGroup \/ TerminateMark \/ TerminateForce \/ TerminateQuarantine
  BY <1>1, <1>2, <1>4 DEF TerminateGroup, TerminateMark, TerminateForce, TerminateQuarantine,
     OpGoto, service, threads, ServiceInv, RecoveryServed
<1>5. ASSUME NEW w \in Wakes, NextWake(w)
      PROVE  ServiceInv'
  BY <1>1, <1>2, <1>5 DEF NextWake, service, threads
<1>6. CASE RecoverPrepared
  <2>1. CASE AbortOp
    BY <1>6, <2>1, LeaveKeepsService DEF RecoverPrepared, AbortOp
  <2>2. CASE ~ AbortOp
    BY <1>1, <1>2, <1>6, <2>2 DEF RecoverPrepared, OpGoto, threads
  <2>3. QED
    BY <2>1, <2>2
<1>7. ASSUME NEW w \in Wakes, RecoverOrphan(w)
      PROVE  ServiceInv'
  <2>1. CASE AbortOp
    BY <1>7, <2>1, LeaveKeepsService DEF RecoverOrphan, AbortOp
  <2>2. CASE ~ AbortOp
    BY <1>1, <1>2, <1>7, <2>2 DEF RecoverOrphan, threads, ServiceInv, RecoveryServed
  <2>3. QED
    BY <2>1, <2>2
<1>8. CASE TerminateRevoke
  <2>1. CASE AbortOp
    BY <1>8, <2>1, LeaveKeepsService DEF TerminateRevoke, AbortOp
  <2>2. CASE ~ AbortOp
    BY <1>1, <1>2, <1>8, <2>2 DEF TerminateRevoke, OpGoto, threads
  <2>3. QED
    BY <2>1, <2>2
<1>9. CASE OpDone
  BY <1>9, LeaveKeepsService DEF OpDone
<1>10. QED
  BY <1>3, <1>4, <1>5, <1>6, <1>7, <1>8, <1>9 DEF OpStep

LEMMA EnvKeepsService ==
    ASSUME Modes \cap {"shutdown", "cli"} = {}, TypeOK, ServiceInv, EnvStep
    PROVE  ServiceInv'
<1>1. ASSUME NEW w \in Wakes, Fault(w)
      PROVE  ServiceInv'
  BY <1>1, WakeKeepsService
<1>2. ASSUME NEW w \in Wakes, ProviderExit(w) \/ PidReuse(w)
      PROVE  ServiceInv'
  BY <1>2, ServiceFramed DEF ProviderExit, PidReuse, threads
<1>3. ASSUME NEW d \in Deliveries, Elapse(d)
      PROVE  ServiceInv'
  BY <1>3, ServiceFramed DEF Elapse, threads
<1>4. ASSUME NEW p \in Procs, Pause(p)
      PROVE  ServiceInv'
  <2>1. /\ UNCHANGED <<pc, proc, pstate, tick>> /\ opk = "idle" /\ opk' = "pause" /\ ost' = "scan"
    BY <1>4 DEF Pause, EnterOp, threads
  <2>2. \A q \in Procs : pstate[q] # "recovering"
    BY <2>1 DEF ServiceInv, RecoveryServed
  <2>3. QED
    BY <2>1, <2>2 DEF ServiceInv, OneService, ThreadsServed, TicksServed, RecoveryServed
<1>5. ASSUME NEW p \in Procs, Resume(p)
      PROVE  ServiceInv'
  BY <1>5 DEF Resume, threads, opvars, ServiceInv, OneService, ThreadsServed, TicksServed,
     RecoveryServed
<1>6. ASSUME NEW p \in Procs, StartService(p)
      PROVE  ServiceInv'
  <2>1. /\ UNCHANGED <<pc, proc, tick>> /\ opk' = "recover" /\ opp' = p /\ ost' = "first"
        /\ pstate' = [pstate EXCEPT ![p] = "recovering"]
        /\ \A q \in Procs : pstate[q] \in {"off", "dead"}
    BY <1>6 DEF StartService, EnterOp, threads, ServiceInv, OneService
  <2>2. pstate'[p] = "recovering" /\ \A q \in Procs : q # p => pstate'[q] = pstate[q]
    BY <2>1 DEF TypeOK, ServiceTypes
  <2>3. (\A w \in Wakes : pc[w] \in AtRest) /\ \A q \in Procs : tick[q] = "no"
    BY <2>1 DEF ServiceInv, ThreadsServed, TicksServed
  <2>4. OneService' /\ ThreadsServed' /\ TicksServed'
    BY <2>1, <2>2, <2>3 DEF OneService, ThreadsServed, TicksServed
  <2>5. RecoveryServed'
    BY <2>1, <2>2 DEF RecoveryServed
  <2>6. QED
    BY <2>4, <2>5 DEF ServiceInv
<1>7. ASSUME NEW p \in Procs, Crash(p) \/ Exit(p)
      PROVE  ServiceInv'
  <2>1. /\ pstate' = [pstate EXCEPT ![p] = "dead"] /\ tick' = [tick EXCEPT ![p] = "no"]
        /\ pc' = [w \in Wakes |-> IF proc[w] = p THEN "done" ELSE pc[w]] /\ UNCHANGED proc
        /\ IF opp = p THEN LeaveOp ELSE UNCHANGED opvars
    BY <1>7 DEF Crash, Exit, EndProcess
  <2>2. pstate'[p] = "dead" /\ \A q \in Procs : q # p => pstate'[q] = pstate[q]
    BY <2>1 DEF TypeOK, ServiceTypes
  <2>3. OneService'
    BY <2>2 DEF ServiceInv, OneService
  <2>4. ThreadsServed'
    BY <2>1, <2>2 DEF ServiceInv, ThreadsServed, AtRest
  <2>5. TicksServed'
    BY <2>1, <2>2 DEF ServiceInv, TicksServed, TypeOK, ServiceTypes
  <2>6. RecoveryServed'
    BY <2>1, <2>2 DEF ServiceInv, RecoveryServed, LeaveOp, opvars
  <2>7. QED
    BY <2>3, <2>4, <2>5, <2>6 DEF ServiceInv
<1>8. ASSUME NEW p \in Procs, NEW w \in Wakes, NEW r \in Roles, ManualWake(p, w, r)
      PROVE  ServiceInv'
  <2>1. /\ pstate[p] = "up" /\ pc' = [pc EXCEPT ![w] = "begin"] /\ proc' = [proc EXCEPT ![w] = p]
        /\ UNCHANGED <<service, opvars>>
    BY <1>8 DEF ManualWake
  <2>2. QED
    BY <2>1 DEF ServiceInv, OneService, ThreadsServed, TicksServed, RecoveryServed, service,
       opvars, TypeOK, ThreadTypes
<1>9. CASE OpFault
  BY <1>9, LeaveKeepsService DEF OpFault, AbortOp
<1>10. ASSUME NEW p \in Procs, TickFault(p)
       PROVE  ServiceInv'
  <2>1. tick' = [tick EXCEPT ![p] = "no"] /\ UNCHANGED <<pstate, proc, opvars>>
    BY <1>10 DEF TickFault, ServiceInv, OneService, TypeOK, ServiceTypes
  <2>2. \A w \in Wakes : pc'[w] \notin AtRest => pc[w] \notin AtRest
    BY <1>10 DEF TickFault, AtRest
  <2>3. QED
    BY <2>1, <2>2 DEF ServiceInv, OneService, ThreadsServed, TicksServed, RecoveryServed,
       opvars, TypeOK, ServiceTypes
<1>11. QED
  BY <1>1, <1>2, <1>3, <1>4, <1>5, <1>6, <1>7, <1>8, <1>9, <1>10 DEF EnvStep, StartCli, Shutdown

LEMMA ServiceInit == Init => ServiceInv
BY DEF Init, ServiceInv, OneService, ThreadsServed, TicksServed, RecoveryServed, AtRest

LEMMA ServiceNext ==
    ASSUME Modes \cap {"shutdown", "cli"} = {}
    PROVE  TypeOK /\ ServiceInv /\ [Next]_vars => ServiceInv'
<1> SUFFICES ASSUME TypeOK, ServiceInv, [Next]_vars
             PROVE  ServiceInv'
  OBVIOUS
<1>1. CASE UNCHANGED vars
  BY <1>1, ServiceFramed DEF vars, threads
<1>2. QED
  BY <1>1, WakeKeepsService, TickKeepsService, OpKeepsService, EnvKeepsService DEF Next

-----------------------------------------------------------------------------
(* A released reservation was not used.                                    *)

\* A step that does not concern wake v.
Untouched(v) ==
    /\ pc'[v] = pc[v] /\ role'[v] = role[v] /\ (v \in ran' <=> v \in ran)
    /\ sess'[v] = sess[v] /\ resv'[v] = resv[v] /\ wake'[v] = wake[v]
    /\ prow'[v] = prow[v] /\ prov'[v] = prov[v]
    /\ (v \in unsent' <=> v \in unsent) /\ (v \in missed' <=> v \in missed)
    /\ (v \in broken' <=> v \in broken)

\* A thread touches no wake but its own.
LEMMA ThreadsKeepApart ==
    ASSUME TypeOK, NEW w \in Wakes, WakeStep(w) \/ Fault(w), NEW v \in Wakes, v # w
    PROVE  Untouched(v)
<1> USE DEF TypeOK, ThreadTypes, RowTypes, OsTypes, Untouched, Goto
<1>1. CASE Begin(w) \/ CreateSession(w) \/ ReserveBudget(w) \/ RevokeSession(w)
  BY <1>1 DEF Begin, CreateSession, ReserveBudget, RevokeSession, rows, os
<1>2. CASE BudgetHold(w) \/ PrepareWake(w) \/ RecordProcess(w)
  BY <1>2 DEF BudgetHold, PrepareWake, RecordProcess, rows, os
<1>3. CASE Spawn(w) \/ MarkWakeRunning(w) \/ StartDelivery(w)
  BY <1>3 DEF Spawn, MarkWakeRunning, StartDelivery, rows, os
<1>4. CASE Prompt(w) \/ Wait(w) \/ Timeout(w) \/ Overdue(w)
  BY <1>4 DEF Prompt, Wait, Timeout, Overdue, rows
<1>5. CASE RecordExit(w) \/ SettleBudget(w) \/ FinishWake(w)
  BY <1>5 DEF RecordExit, FinishProcess, SettleBudget, FinishWake, os
<1>6. CASE FinishDelivery(w) \/ FinishSession(w) \/ GiveUp(w)
  BY <1>6 DEF FinishDelivery, FinishSession, GiveUp, rows, os
<1>7. CASE Undo(w)
  BY <1>7 DEF Undo, RecoverOrphanRows, RecoverPreparedRows, ReleaseBudget, rows, os
<1>8. CASE Kill(w) \/ Expire(w) \/ StopMark(w)
  BY <1>8 DEF Kill, Expire, StopMark, FinishProcess, os
<1>9. CASE Stop(w)
  <2>1. prov'[v] = prov[v] /\ (v \in unsent' <=> v \in unsent)
    BY <1>9, SessionTerminates DEF Stop
  <2>2. QED
    BY <1>9, <2>1 DEF Stop, rows
<1>10. CASE MarkBudgetUncertain(w) \/ QuarantineDelivery(w) \/ QuarantineWake(w)
  BY <1>10 DEF MarkBudgetUncertain, QuarantineDelivery, QuarantineWake, rows, os
<1>11. CASE DropSession(w) \/ Fault(w)
  BY <1>11 DEF DropSession, ForceTerminateSession, Fault, rows, os
<1>12. QED
  BY <1>1, <1>2, <1>3, <1>4, <1>5, <1>6, <1>7, <1>8, <1>9, <1>10, <1>11 DEF WakeStep

\* Before the session's row, and before the provider.
Unopened  == {"free", "leased", "begin", "create", "giveup"}
Unspawned == Unopened \cup {"reserve", "revoke", "hold", "prepare", "undo", "spawn"}

\* Where an exception takes a thread.
LEMMA FaultGoes ==
    ASSUME TypeOK, NEW w \in Wakes, Fault(w)
    PROVE  /\ UNCHANGED <<rows, prov, ran, unsent, missed, job, role, proc>>
           /\ pc[w] \notin {"free", "done", "leased", "kill"}
           /\ pc[w] \in {"begin", "create"} => pc'[w] = "giveup"
           /\ pc[w] \in {"reserve", "revoke", "hold", "prepare", "spawn"} => pc'[w] = "undo"
           /\ pc[w] \in {"record", "mark", "start"} => pc'[w] = "kill"
           /\ pc[w] \in {"prompt", "wait", "overdue", "expire"} \cup Ending => pc'[w] = "stop"
           /\ pc[w] \in Handlers \ {"expire"} => pc'[w] = "done" /\ w \in broken'
<1>1. /\ pc'[w] = HandlerOf(pc[w]) /\ UNCHANGED <<rows, prov, ran, unsent, missed, job, role, proc>>
      /\ pc[w] \in (TrySteps \cup Handlers) \ {"leased", "kill"}
      /\ HandlerOf(pc[w]) = "done" => w \in broken'
  BY DEF Fault, Goto, TypeOK, ThreadTypes
<1>2. /\ pc[w] \in {"begin", "create"} => HandlerOf(pc[w]) = "giveup"
      /\ pc[w] \in {"reserve", "revoke", "hold", "prepare", "spawn"} => HandlerOf(pc[w]) = "undo"
  BY DEF HandlerOf, Handlers
<1>3. pc[w] \in {"record", "mark", "start"} => HandlerOf(pc[w]) = "kill"
  BY DEF HandlerOf, Handlers
<1>4. pc[w] \in {"prompt", "wait", "overdue", "expire"} \cup Ending => HandlerOf(pc[w]) = "stop"
  BY DEF HandlerOf, Handlers, Ending
<1>5. pc[w] \in Handlers \ {"expire"} => HandlerOf(pc[w]) = "done"
  BY DEF HandlerOf, Handlers
<1>6. QED
  BY <1>1, <1>2, <1>3, <1>4, <1>5 DEF TrySteps, Handlers

\* A provider is prompted only by a thread that has recorded it, and a reservation is
\* released only when no thread will.
Unused(w) ==
    /\ pc[w] \in Unspawned \cup {"record"} => w \notin ran
    /\ pc[w] \in Unopened => sess[w] = "none"
    /\ w \in ran \/ pc[w] \in {"mark", "start", "prompt"} => prow[w] # "none"
    /\ resv[w] = "released" => pc[w] = "done" /\ w \notin ran

LEMMA ThreadKeepsUnused ==
    ASSUME TypeOK, NEW w \in Wakes, Unused(w), WakeStep(w) \/ Fault(w)
    PROVE  Unused(w)'
<1> USE DEF TypeOK, ThreadTypes, RowTypes, OsTypes, Unused, Unspawned, Unopened, Goto
<1>1. CASE Begin(w) \/ CreateSession(w) \/ ReserveBudget(w) \/ RevokeSession(w)
  BY <1>1 DEF Begin, CreateSession, ReserveBudget, RevokeSession, rows, os
<1>2. CASE BudgetHold(w) \/ PrepareWake(w) \/ RecordProcess(w)
  BY <1>2 DEF BudgetHold, PrepareWake, RecordProcess, rows, os
<1>3. CASE Spawn(w) \/ MarkWakeRunning(w) \/ StartDelivery(w)
  BY <1>3 DEF Spawn, MarkWakeRunning, StartDelivery, rows, os
<1>4. CASE Prompt(w) \/ Wait(w) \/ Timeout(w) \/ Overdue(w)
  BY <1>4 DEF Prompt, Wait, Timeout, Overdue, rows
<1>5. CASE RecordExit(w) \/ SettleBudget(w) \/ FinishWake(w)
  BY <1>5 DEF RecordExit, FinishProcess, SettleBudget, FinishWake, os
<1>6. CASE FinishDelivery(w) \/ FinishSession(w) \/ GiveUp(w)
  BY <1>6 DEF FinishDelivery, FinishSession, GiveUp, rows, os
<1>7. CASE Undo(w)
  BY <1>7 DEF Undo, RecoverOrphanRows, RecoverPreparedRows, ReleaseBudget, rows, os
<1>8. CASE Kill(w) \/ Expire(w) \/ StopMark(w)
  BY <1>8 DEF Kill, Expire, StopMark, FinishProcess, os
<1>9. CASE Stop(w)
  BY <1>9 DEF Stop, rows
<1>10. CASE MarkBudgetUncertain(w) \/ QuarantineDelivery(w) \/ QuarantineWake(w)
  BY <1>10 DEF MarkBudgetUncertain, QuarantineDelivery, QuarantineWake, rows, os
<1>11. CASE DropSession(w)
  BY <1>11 DEF DropSession, ForceTerminateSession, rows, os
<1>12. CASE Fault(w)
  BY <1>12, FaultGoes DEF TrySteps, Handlers, Ending, rows
<1>13. QED
  BY <1>1, <1>2, <1>3, <1>4, <1>5, <1>6, <1>7, <1>8, <1>9, <1>10, <1>11, <1>12 DEF WakeStep

\* What the scheduler, the operating system and time do to wake v: its thread starts
\* or stops, its provider ends.
Outside(v) ==
    /\ \/ pc'[v] = pc[v] \/ pc'[v] = "done"
       \/ pc[v] = "free" /\ pc'[v] \in {"leased", "begin"}
       \/ pc[v] = "leased" /\ pc'[v] = "begin"
    /\ pc[v] # "free" => role'[v] = role[v] /\ job'[v] = job[v] /\ proc'[v] = proc[v]
    /\ prov'[v] = prov[v] \/ (prov[v] # "none" /\ prov'[v] \in Ended)
    /\ sess'[v] = sess[v] /\ resv'[v] = resv[v] /\ wake'[v] = wake[v] /\ prow'[v] = prow[v]
    /\ v \in ran' <=> v \in ran
    /\ (v \in unsent' <=> v \in unsent) /\ (v \in missed' <=> v \in missed)
    /\ v \in broken' <=> v \in broken

\* What a pause or a recovery does to wake v: it goes for the provider of the wake it
\* works on, and closes a session after that or where it found no process row.
Operated(v) ==
    /\ pc'[v] = pc[v] /\ role'[v] = role[v] /\ (v \in ran' <=> v \in ran)
    /\ \/ prow'[v] = prow[v]
       \/ v = cur /\ ost = "mark" /\ prow[v] = "running" /\ prow'[v] # "none"
    /\ \/ sess'[v] = sess[v]
       \/ /\ sess[v] = "active" /\ sess'[v] = "revoked"
          /\ \/ ost = "orphans" /\ prow[v] = "none" /\ (pc[v] = "done" \/ v \in missed')
             \/ ost = "prepared" /\ prow[v] = "none" /\ wake[v] = "prepared" /\ wake'[v] = "failed"
             \/ ost = "revoke" /\ v = cur
    /\ resv'[v] = "released" =>
          \/ resv[v] = "released"
          \/ ost \in {"orphans", "prepared"} /\ sess[v] = "active" /\ prow[v] = "none"
    /\ wake'[v] = "prepared" => wake[v] = "prepared"
    /\ wake[v] = "none" => wake'[v] = "none"
    /\ prov'[v] = prov[v] \/ (prov[v] \in Alive /\ prov'[v] \in Ended)
    /\ (v \in unsent => v \in unsent') /\ (v \in missed => v \in missed')
    /\ v \in broken' <=> v \in broken

LEMMA TicksAreOutside ==
    ASSUME TypeOK, NEW p \in Procs, TickStep(p), NEW v \in Wakes
    PROVE  Outside(v)
<1> USE DEF TypeOK, ThreadTypes, Outside
<1>1. CASE StartTick(p) \/ EndTick(p) \/ \E d \in Deliveries : LeaseDuplicate(p, d)
  BY <1>1 DEF StartTick, EndTick, LeaseDuplicate, threads, rows, os
<1>2. CASE RunBatch(p)
  BY <1>2 DEF RunBatch, Batch, rows, os
<1>3. ASSUME NEW w \in Wakes, NEW d \in Deliveries, LeaseDelivery(p, w, d)
      PROVE  Outside(v)
  BY <1>3 DEF LeaseDelivery, rows, os
<1>4. QED
  BY <1>1, <1>2, <1>3 DEF TickStep

LEMMA OpsOperate ==
    ASSUME TypeOK, OpStep, NEW v \in Wakes
    PROVE  Operated(v)
<1> USE DEF TypeOK, ThreadTypes, RowTypes, OsTypes, OpTypes, Operated
<1>1. CASE \/ ScanWakes \/ ScanOrphans \/ OrphansDone \/ TerminateForce \/ OpDone
           \/ \E w \in Wakes : NextWake(w)
  BY <1>1 DEF ScanWakes, ScanOrphans, OrphansDone, TerminateForce, OpDone, NextWake, threads,
     rows, os
<1>2. CASE RecoverPrepared
  BY <1>2 DEF RecoverPrepared, RecoverPreparedRows, ReleaseBudget, PreparedWake, threads, rows, os
<1>3. ASSUME NEW w \in Wakes, RecoverOrphan(w)
      PROVE  Operated(v)
  BY <1>3 DEF RecoverOrphan, RecoverOrphanRows, ReleaseBudget, OrphanSession, SeesNoProcess,
     threads, rows
<1>4. CASE TerminateGroup
  <2>1. cur \in Wakes /\ \E ok \in BOOLEAN : TerminateSession(cur, ok)
    BY <1>4 DEF TerminateGroup
  <2>2. /\ prov'[v] = prov[v] \/ (prov[v] \in Alive /\ prov'[v] \in Ended)
        /\ v \in unsent => v \in unsent'
    BY <2>1, SessionTerminates DEF Ended
  <2>3. QED
    BY <1>4, <2>2 DEF TerminateGroup, SeesNoProcess, threads, rows
<1>5. CASE TerminateMark
  BY <1>5 DEF TerminateMark, FinishProcess, threads, os
<1>6. CASE TerminateRevoke
  BY <1>6 DEF TerminateRevoke, ForceTerminateSession, OpenWake, threads, rows, os
<1>7. CASE TerminateQuarantine
  BY <1>7 DEF TerminateQuarantine, OpenWake, threads, rows, os
<1>8. QED
  BY <1>1, <1>2, <1>3, <1>4, <1>5, <1>6, <1>7 DEF OpStep

LEMMA EnvIsOutside ==
    ASSUME TypeOK, EnvStep, NEW v \in Wakes
    PROVE  Outside(v) \/ \E w \in Wakes : Fault(w)
<1> USE DEF TypeOK, ThreadTypes, RowTypes, OsTypes, Outside
<1>1. ASSUME NEW w \in Wakes, ProviderExit(w) \/ PidReuse(w)
      PROVE  Outside(v)
  BY <1>1 DEF ProviderExit, PidReuse, Alive, Ended, threads, rows
<1>2. ASSUME NEW p \in Procs, Crash(p) \/ Exit(p) \/ TickFault(p)
      PROVE  Outside(v)
  BY <1>2 DEF Crash, Exit, EndProcess, TickFault, Ended, rows, os
<1>3. ASSUME NEW p \in Procs, NEW w \in Wakes, NEW r \in Roles, ManualWake(p, w, r)
      PROVE  Outside(v)
  BY <1>3 DEF ManualWake, rows, os
<1>4. ASSUME NEW p \in Procs,
             Pause(p) \/ Resume(p) \/ StartService(p) \/ StartCli(p) \/ Shutdown(p)
      PROVE  Outside(v)
  BY <1>4 DEF Pause, Resume, StartService, StartCli, Shutdown, threads, rows, os
<1>5. ASSUME NEW d \in Deliveries, Elapse(d)
      PROVE  Outside(v)
  BY <1>5 DEF Elapse, threads, rows, os
<1>6. CASE OpFault
  BY <1>6 DEF OpFault, threads, rows, os
<1>7. QED
  BY <1>1, <1>2, <1>3, <1>4, <1>5, <1>6 DEF EnvStep

LEMMA UnusedStep ==
    ASSUME TypeOK, ServiceInv, \A w \in Wakes : Unused(w), [Next]_vars, NEW v \in Wakes
    PROVE  Unused(v)'
<1>1. CASE Untouched(v)
  BY <1>1 DEF Unused, Untouched
<1>2. CASE Outside(v)
  BY <1>2 DEF Unused, Outside, Unspawned, Unopened
<1>3. CASE OpStep
  <2>1. Operated(v)
    BY <1>3, OpsOperate
  <2>2. ost \in {"orphans", "prepared"} /\ sess[v] = "active" => pc[v] = "done"
    BY RecoveryAlone DEF ServiceInv, RecoveryServed, AtRest, Unused, Unopened
  <2>3. QED
    BY <2>1, <2>2 DEF Unused, Operated
<1>4. CASE \E w \in Wakes : WakeStep(w) \/ Fault(w)
  BY <1>1, <1>4, ThreadsKeepApart, ThreadKeepsUnused
<1>5. CASE UNCHANGED vars
  BY <1>1, <1>5 DEF Untouched, vars, threads, rows, os
<1>6. QED
  BY <1>2, <1>3, <1>4, <1>5, TicksAreOutside, EnvIsOutside DEF Next

\* Under a service that is restarted but neither shut down in order nor joined by a
\* command line: the budget that a recovery gives back was not spent, because a recovery
\* meets no thread that could still prompt a provider.
THEOREM ReleasedWasUnused ==
    ASSUME Modes \cap {"shutdown", "cli"} = {}
    PROVE  Spec => []ReleasedUnused
<1> DEFINE Inv == ServiceInv /\ \A w \in Wakes : Unused(w)
<1>1. Init => Inv
  BY ServiceInit DEF Init, Unused, Unspawned, Unopened
<1>2. TypeOK /\ Inv /\ [Next]_vars => Inv'
  BY ServiceNext, UnusedStep
<1>3. Inv => ReleasedUnused
  BY DEF ReleasedUnused, Unused
<1>4. QED
  BY <1>1, <1>2, <1>3, TypeCorrectness, PTL DEF Spec

-----------------------------------------------------------------------------
(* A closed session is quiet, and a role has one provider at work.         *)

\* The provider is dead, or was reported so without having been ended.
Unheard(w) == prov[w] \notin Alive \/ w \in unsent

\* No provider of w's will work from here on, unless w is excused.
Settled(w) ==
    \/ w \in Excused
    \/ pc[w] = "done" /\ prov[w] # "working"
    \/ pc[w] \notin Unspawned \cup {"record"} /\ prov[w] \notin Alive

\* A thread on its way to its end: mark_wake_running will refuse it, or has.
Refused(w) ==
    \/ pc[w] \in {"hold", "undo", "kill"}
    \/ pc[w] \in {"spawn", "record", "mark"} /\ wake[w] # "prepared"

\* The rows, the thread and the provider of wake w agree: whoever closes a row has ended
\* the provider first, found no process row, or met a thread that cannot prompt any more.
Quiet(w) ==
    /\ pc[w] \in Unopened => sess[w] = "none"
    /\ pc[w] \in Unspawned => prov[w] = "none"
    /\ pc[w] \in Unspawned \cup {"record"} => prow[w] = "none"
    /\ pc[w] \in {"record", "mark", "start", "prompt", "kill"} => prov[w] # "working"
    /\ pc[w] \in Unopened \cup {"reserve", "revoke", "hold", "prepare"} => wake[w] = "none"
    /\ pc[w] \in {"mark", "start", "prompt", "wait", "overdue"} => prow[w] # "none"
    /\ pc[w] \in Ending \cup {"expire"} => prov[w] \notin Alive
    /\ pc[w] = "stop" => prow[w] = "running" \/ Unheard(w)
    /\ pc[w] \in {"stopmark", "unbudget", "force", "unwake", "drop"} => Unheard(w)
    /\ prow[w] \notin {"none", "running"} => Unheard(w)
    /\ prov[w] = "working" => prow[w] # "none"
    /\ sess[w] = "none" => pc[w] \in Unopened \cup {"done"} /\ prov[w] = "none"
    /\ sess[w] \in {"revoked", "finished"} => Settled(w) \/ Refused(w)

\* A pause or a recovery that is about to close the rows of a wake has seen to its
\* provider, or has overlooked it.
OpQuiet ==
    /\ ost = "mark" => prow[cur] # "none" /\ Unheard(cur)
    /\ ost \in {"force", "revoke"} => Settled(cur)

SessionInv == OpQuiet /\ \A w \in Wakes : Quiet(w)

LEMMA ThreadKeepsQuiet ==
    ASSUME TypeOK, NEW w \in Wakes, Quiet(w), WakeStep(w) \/ Fault(w)
    PROVE  Quiet(w)'
<1> USE DEF TypeOK, ThreadTypes, RowTypes, OsTypes, Quiet, Unheard, Settled, Refused, Excused,
            Unspawned, Unopened, Ending, Alive, Goto
<1>1. CASE Begin(w) \/ CreateSession(w) \/ ReserveBudget(w) \/ RevokeSession(w)
  BY <1>1 DEF Begin, CreateSession, ReserveBudget, RevokeSession, rows, os
<1>2. CASE BudgetHold(w) \/ PrepareWake(w) \/ RecordProcess(w)
  BY <1>2 DEF BudgetHold, PrepareWake, RecordProcess, rows, os
<1>3. CASE Spawn(w) \/ MarkWakeRunning(w) \/ StartDelivery(w)
  BY <1>3 DEF Spawn, MarkWakeRunning, StartDelivery, rows, os
<1>4. CASE Prompt(w) \/ Wait(w) \/ Timeout(w) \/ Overdue(w)
  BY <1>4 DEF Prompt, Wait, Timeout, Overdue, rows
<1>5. CASE RecordExit(w) \/ SettleBudget(w) \/ FinishWake(w)
  BY <1>5 DEF RecordExit, FinishProcess, SettleBudget, FinishWake, os
<1>6. CASE FinishDelivery(w) \/ FinishSession(w) \/ GiveUp(w)
  BY <1>6 DEF FinishDelivery, FinishSession, GiveUp, rows, os
<1>7. CASE Undo(w)
  BY <1>7 DEF Undo, RecoverOrphanRows, RecoverPreparedRows, ReleaseBudget, rows, os
<1>8. CASE Kill(w) \/ Expire(w) \/ StopMark(w)
  BY <1>8 DEF Kill, Expire, StopMark, FinishProcess, os
<1>9. CASE Stop(w)
  <2>1. \E ok \in BOOLEAN : TerminateSession(w, ok)
    BY <1>9 DEF Stop
  <2>2. /\ prov'[w] \notin Alive \/ w \in unsent'
        /\ prov[w] \notin Alive => prov'[w] = prov[w]
        /\ prov'[w] = "working" => prov[w] = "working"
        /\ w \in unsent => w \in unsent'
    BY <1>9, <2>1, SessionTerminates DEF Stop
  <2>3. /\ pc[w] = "stop" /\ pc'[w] \in {"stopmark", "unbudget"}
        /\ UNCHANGED <<rows, missed>>
    BY <1>9 DEF Stop
  <2>4. QED
    BY <2>2, <2>3 DEF rows
<1>10. CASE MarkBudgetUncertain(w) \/ QuarantineDelivery(w) \/ QuarantineWake(w)
  BY <1>10 DEF MarkBudgetUncertain, QuarantineDelivery, QuarantineWake, rows, os
<1>11. CASE DropSession(w)
  BY <1>11 DEF DropSession, ForceTerminateSession, rows, os
<1>12. CASE Fault(w)
  BY <1>12, FaultGoes DEF TrySteps, Handlers, rows
<1>13. QED
  BY <1>1, <1>2, <1>3, <1>4, <1>5, <1>6, <1>7, <1>8, <1>9, <1>10, <1>11, <1>12 DEF WakeStep

LEMMA QuietStep ==
    ASSUME TypeOK, SessionInv, [Next]_vars, NEW v \in Wakes
    PROVE  Quiet(v)'
<1> USE DEF Quiet, Unheard, Settled, Refused, Excused
<1>1. CASE Untouched(v)
  BY <1>1 DEF SessionInv, Untouched
<1>2. CASE Outside(v)
  BY <1>2 DEF SessionInv, Outside, Unspawned, Unopened, Ending, Alive, Ended
<1>3. CASE OpStep
  <2>1. Operated(v)
    BY <1>3, OpsOperate
  <2>2. wake[v] = "none" => wake'[v] = "none"
    BY <1>3, OpsOperate DEF Operated
  <2>3. ost = "mark" /\ v = cur => Unheard(v)
    BY DEF SessionInv, OpQuiet
  <2>4. ost = "revoke" /\ v = cur => Settled(v)
    BY DEF SessionInv, OpQuiet
  <2>5. Settled(v) => Settled(v)'
    BY <2>1 DEF Operated, Alive, Ended
  <2>6. Unheard(v) => Unheard(v)'
    BY <2>1 DEF Operated, Alive, Ended
  <2>7. Refused(v) => Refused(v)'
    BY <2>1 DEF Operated
  <2>8. sess'[v] \in {"revoked", "finished"} => Settled(v)' \/ Refused(v)'
    <3>1. CASE sess'[v] = sess[v]
      BY <2>5, <2>7, <3>1 DEF SessionInv
    <3>2. CASE ost = "revoke" /\ v = cur
      BY <2>4, <2>5, <3>2
    <3>3. CASE /\ sess[v] = "active" /\ ost = "orphans" /\ prow[v] = "none"
               /\ pc[v] = "done" \/ v \in missed'
      BY <2>1, <3>3 DEF SessionInv, Operated, Ended
    <3>4. CASE prow[v] = "none" /\ wake[v] = "prepared" /\ wake'[v] = "failed" /\ sess[v] = "active"
      BY <2>1, <3>4 DEF SessionInv, Operated, Unspawned, Unopened, Ending, Ended, Alive, TypeOK,
         ThreadTypes, TrySteps, Handlers
    <3>5. QED
      BY <2>1, <3>1, <3>2, <3>3, <3>4 DEF Operated
  <2>9. QED
    BY <2>1, <2>3, <2>6, <2>8 DEF SessionInv, Operated, Unspawned, Unopened, Ending, Alive, Ended
<1>4. CASE \E w \in Wakes : WakeStep(w) \/ Fault(w)
  <2>1. Quiet(v)
    BY DEF SessionInv
  <2>2. QED
    BY <1>1, <1>4, <2>1, ThreadsKeepApart, ThreadKeepsQuiet
<1>5. CASE UNCHANGED vars
  BY <1>1, <1>5 DEF Untouched, vars, threads, rows, os
<1>6. QED
  BY <1>2, <1>3, <1>4, <1>5, TicksAreOutside, EnvIsOutside DEF Next

LEMMA ThreadStaysSettled ==
    ASSUME TypeOK, NEW w \in Wakes, Quiet(w), WakeStep(w) \/ Fault(w)
    PROVE  /\ Settled(w) => Settled(w)'
           /\ prow[w] # "none" /\ Unheard(w) => prow'[w] # "none" /\ Unheard(w)'
<1> USE DEF TypeOK, ThreadTypes, RowTypes, OsTypes, Quiet, Unheard, Settled, Excused,
            Unspawned, Unopened, Alive, Goto
<1>1. CASE Begin(w) \/ CreateSession(w) \/ ReserveBudget(w) \/ RevokeSession(w)
  BY <1>1 DEF Begin, CreateSession, ReserveBudget, RevokeSession, rows, os
<1>2. CASE BudgetHold(w) \/ PrepareWake(w) \/ RecordProcess(w)
  BY <1>2 DEF BudgetHold, PrepareWake, RecordProcess, rows, os
<1>3. CASE Spawn(w) \/ MarkWakeRunning(w) \/ StartDelivery(w)
  BY <1>3 DEF Spawn, MarkWakeRunning, StartDelivery, rows, os
<1>4. CASE Prompt(w) \/ Wait(w) \/ Timeout(w) \/ Overdue(w)
  BY <1>4 DEF Prompt, Wait, Timeout, Overdue, rows
<1>5. CASE RecordExit(w) \/ SettleBudget(w) \/ FinishWake(w)
  BY <1>5 DEF RecordExit, FinishProcess, SettleBudget, FinishWake, os
<1>6. CASE FinishDelivery(w) \/ FinishSession(w) \/ GiveUp(w)
  BY <1>6 DEF FinishDelivery, FinishSession, GiveUp, rows, os
<1>7. CASE Undo(w)
  BY <1>7 DEF Undo, RecoverOrphanRows, RecoverPreparedRows, rows, os
<1>8. CASE Kill(w) \/ Expire(w) \/ StopMark(w)
  BY <1>8 DEF Kill, Expire, StopMark, FinishProcess, os
<1>9. CASE Stop(w)
  <2>1. \E ok \in BOOLEAN : TerminateSession(w, ok)
    BY <1>9 DEF Stop
  <2>2. /\ prov[w] \notin Alive => prov'[w] = prov[w]
        /\ w \in unsent => w \in unsent'
    BY <2>1, SessionTerminates
  <2>3. QED
    BY <1>9, <2>2 DEF Stop, rows
<1>10. CASE MarkBudgetUncertain(w) \/ QuarantineDelivery(w) \/ QuarantineWake(w)
  BY <1>10 DEF MarkBudgetUncertain, QuarantineDelivery, QuarantineWake, rows, os
<1>11. CASE DropSession(w)
  BY <1>11 DEF DropSession, ForceTerminateSession, rows, os
<1>12. CASE Fault(w)
  BY <1>12, FaultGoes DEF TrySteps, Handlers, Ending, rows
<1>13. QED
  BY <1>1, <1>2, <1>3, <1>4, <1>5, <1>6, <1>7, <1>8, <1>9, <1>10, <1>11, <1>12 DEF WakeStep

LEMMA OpQuietStep ==
    ASSUME TypeOK, SessionInv, [Next]_vars
    PROVE  OpQuiet'
<1> USE DEF TypeOK, OpTypes
<1>1. ASSUME UNCHANGED <<ost, cur>>,
             \A v \in Wakes : /\ Settled(v) => Settled(v)'
                              /\ prow[v] # "none" /\ Unheard(v) => prow'[v] # "none" /\ Unheard(v)'
      PROVE  OpQuiet'
  BY <1>1 DEF SessionInv, OpQuiet, Settled, Unheard
<1>2. ASSUME NEW v \in Wakes, Untouched(v) \/ Outside(v)
      PROVE  /\ Settled(v) => Settled(v)'
             /\ prow[v] # "none" /\ Unheard(v) => prow'[v] # "none" /\ Unheard(v)'
  BY <1>2 DEF Untouched, Outside, Settled, Unheard, Excused, Unspawned, Unopened, Alive, Ended
<1>3. ASSUME NEW w \in Wakes, WakeStep(w) \/ Fault(w)
      PROVE  OpQuiet'
  <2>1. UNCHANGED <<ost, cur>>
    BY <1>3 DEF WakeStep, Begin, CreateSession, ReserveBudget, RevokeSession, BudgetHold,
       PrepareWake, Spawn, RecordProcess, MarkWakeRunning, StartDelivery, Prompt, Wait, Timeout,
       Overdue, RecordExit, SettleBudget, FinishWake, FinishDelivery, FinishSession, GiveUp, Undo,
       Kill, Expire, Stop, StopMark, MarkBudgetUncertain, QuarantineDelivery, QuarantineWake,
       DropSession, Fault, opvars
  <2>2. QED
    BY <1>1, <1>2, <1>3, <2>1, ThreadsKeepApart, ThreadStaysSettled DEF SessionInv
<1>4. ASSUME NEW p \in Procs, TickStep(p)
      PROVE  OpQuiet'
  <2>1. UNCHANGED <<ost, cur>>
    BY <1>4 DEF TickStep, StartTick, RunBatch, EndTick, LeaseDuplicate, LeaseDelivery, opvars
  <2>2. QED
    BY <1>1, <1>2, <1>4, <2>1, TicksAreOutside
<1>5. CASE OpStep
  <2>1. CASE TerminateGroup
    <3>1. PICK ok \in BOOLEAN : cur \in Wakes /\ TerminateSession(cur, ok)
      BY <2>1 DEF TerminateGroup
    <3>2. UNCHANGED <<pc, prow, cur>> /\ ost' = IF prow[cur] = "running" THEN "mark" ELSE "force"
      BY <2>1 DEF TerminateGroup, threads, rows
    <3>3. CASE prow[cur] = "running"
      BY <3>1, <3>2, <3>3, SessionTerminates DEF OpQuiet, Unheard
    <3>4. CASE prow[cur] # "running"
      <4>1. prov' = prov /\ unsent' = unsent
        BY <3>1, <3>4 DEF TerminateSession
      <4>2. Quiet(cur)
        BY <3>1 DEF SessionInv
      <4>3. prow[cur] = "none" => pc[cur] = "done" \/ cur \in missed'
        BY <2>1 DEF TerminateGroup, SeesNoProcess
      <4>4. Settled(cur)'
        BY <3>2, <3>4, <4>1, <4>2, <4>3 DEF Quiet, Settled, Unheard, Excused
      <4>5. QED
        BY <3>2, <3>4, <4>4 DEF OpQuiet
    <3>5. QED
      BY <3>3, <3>4
  <2>2. CASE TerminateMark
    <3>1. cur \in Wakes /\ prow[cur] # "none" /\ Unheard(cur) /\ Quiet(cur)
      BY <2>2 DEF TerminateMark, SessionInv, OpQuiet
    <3>2. UNCHANGED <<pc, prov, unsent, missed, cur>> /\ ost' \in {"force", "quarantine"}
      BY <2>2 DEF TerminateMark, OpGoto, threads, os
    <3>3. Settled(cur)'
      BY <3>1, <3>2 DEF Quiet, Settled, Unheard, Excused
    <3>4. QED
      BY <3>2, <3>3 DEF OpQuiet
  <2>3. CASE TerminateForce
    <3>1. Settled(cur) /\ UNCHANGED <<pc, prov, unsent, missed, cur>> /\ ost' = "revoke"
      BY <2>3 DEF TerminateForce, OpGoto, SessionInv, OpQuiet, threads, os
    <3>2. QED
      BY <3>1 DEF OpQuiet, Settled, Excused
  <2>4. CASE TerminateRevoke \/ RecoverPrepared \/ OpDone \/ TerminateQuarantine \/ OrphansDone
    BY <2>4 DEF TerminateRevoke, RecoverPrepared, OpDone, TerminateQuarantine, OrphansDone,
       AbortOp, LeaveOp, OpGoto, OpQuiet
  <2>5. CASE ScanWakes \/ ScanOrphans \/ \E w \in Wakes : NextWake(w) \/ RecoverOrphan(w)
    BY <2>5 DEF ScanWakes, ScanOrphans, NextWake, RecoverOrphan, AbortOp, LeaveOp, OpQuiet
  <2>6. QED
    BY <1>5, <2>1, <2>2, <2>3, <2>4, <2>5 DEF OpStep
<1>6. CASE EnvStep /\ ~ \E w \in Wakes : Fault(w)
  <2>1. CASE UNCHANGED <<ost, cur>>
    BY <1>1, <1>2, <1>6, <2>1, EnvIsOutside
  <2>2. CASE ost' \in {"none", "first", "scan"}
    BY <2>2 DEF OpQuiet
  <2>3. QED
    BY <1>6, <2>1, <2>2 DEF EnvStep, ProviderExit, PidReuse, Elapse, Pause, Resume, StartService,
       StartCli, Shutdown, Crash, Exit, EndProcess, ManualWake, TickFault, OpFault, AbortOp,
       EnterOp, LeaveOp, opvars
<1>7. CASE UNCHANGED vars
  BY <1>1, <1>2, <1>7 DEF Untouched, vars, threads, rows, os, opvars
<1>8. QED
  BY <1>3, <1>4, <1>5, <1>6, <1>7 DEF Next

\* Whatever crashes, faults, restarts, pauses, recoveries, second supervisors and manual
\* wakes do, the rows, the threads and the providers agree in this way.
THEOREM SessionInvariance == Spec => []SessionInv
<1>1. Init => SessionInv
  BY DEF Init, SessionInv, OpQuiet, Quiet, Unopened, Unspawned, Ending, Alive
<1>2. TypeOK /\ SessionInv /\ [Next]_vars => SessionInv'
  BY QuietStep, OpQuietStep DEF SessionInv
<1>3. QED
  BY <1>1, <1>2, TypeCorrectness, PTL DEF Spec

\* Under every disturbance, pauses, shutdowns and the command line included: no session is
\* closed, by its own thread or by an operator call, under a provider that is still at
\* work, but for the two kinds of wake that Excused names.
THEOREM ClosedMeansQuiet == Spec => []ClosedSessionIsQuiet
<1>1. SessionInv => ClosedSessionIsQuiet
  BY DEF SessionInv, Quiet, Settled, Refused, Unspawned, Alive, ClosedSessionIsQuiet
<1>2. QED
  BY <1>1, SessionInvariance, PTL

\* The rows that create_session counts: one session of a role, the cap in all.
RowsExclusive ==
    /\ \A v, w \in ActiveSessions : role[v] = role[w] => v = w
    /\ Cardinality(ActiveSessions) <= Cap

LEMMA RowsExclusiveStep ==
    ASSUME IsFiniteSet(Wakes), TypeOK, SessionInv, RowsExclusive, [Next]_vars
    PROVE  RowsExclusive'
<1>1. IsFiniteSet(ActiveSessions) /\ Cardinality(ActiveSessions) \in Nat
  BY FS_Subset, FS_CardinalityType DEF ActiveSessions
<1>2. \A v \in ActiveSessions : pc[v] # "free"
  BY DEF ActiveSessions, SessionInv, Quiet, Unopened
<1>3. ASSUME ActiveSessions' \subseteq ActiveSessions,
             \A v \in ActiveSessions : role'[v] = role[v]
      PROVE  RowsExclusive'
  <2>1. Cardinality(ActiveSessions') <= Cardinality(ActiveSessions)
        /\ Cardinality(ActiveSessions') \in Nat
    BY <1>1, <1>3, FS_Subset, FS_CardinalityType
  <2>2. Cardinality(ActiveSessions') <= Cap
    BY <1>1, <2>1 DEF RowsExclusive
  <2>3. QED
    BY <1>3, <2>2 DEF RowsExclusive
<1>4. ASSUME NEW w \in Wakes, CreateSession(w), MayCreate(w), sess' = [sess EXCEPT ![w] = "active"]
      PROVE  RowsExclusive'
  <2>1. ActiveSessions' = ActiveSessions \cup {w} /\ UNCHANGED role
    BY <1>4 DEF ActiveSessions, CreateSession, Goto, TypeOK, RowTypes
  <2>2. Cardinality(ActiveSessions') <= Cardinality(ActiveSessions) + 1
    <3>1. Cardinality(ActiveSessions \cup {w}) =
              IF w \in ActiveSessions THEN Cardinality(ActiveSessions)
                                      ELSE Cardinality(ActiveSessions) + 1
      BY <1>1, FS_AddElement
    <3>2. Cardinality(ActiveSessions \cup {w}) <= Cardinality(ActiveSessions) + 1
      BY <1>1, <3>1
    <3>3. QED
      BY <2>1, <3>2
  <2>3. Cardinality(ActiveSessions') \in Nat
    BY <1>1, <2>1, FS_AddElement, FS_CardinalityType
  <2>4. Cardinality(ActiveSessions') <= Cap
    BY <1>1, <1>4, <2>2, <2>3 DEF MayCreate
  <2>5. QED
    BY <1>4, <2>1, <2>4 DEF RowsExclusive, MayCreate
<1>5. ASSUME NEW w \in Wakes, WakeStep(w) \/ Fault(w)
      PROVE  RowsExclusive'
  <2>1. CASE CreateSession(w) /\ MayCreate(w) /\ sess' = [sess EXCEPT ![w] = "active"]
    BY <1>4, <2>1
  <2>2. CASE sess'[w] = "active" => sess[w] = "active"
    <3>1. UNCHANGED role
      BY <1>5 DEF WakeStep, Begin, CreateSession, ReserveBudget, RevokeSession, BudgetHold,
         PrepareWake, Spawn, RecordProcess, MarkWakeRunning, StartDelivery, Prompt, Wait, Timeout, Overdue,
         RecordExit, SettleBudget, FinishWake, FinishDelivery, FinishSession, GiveUp, Undo, Kill,
         Expire, Stop, StopMark, MarkBudgetUncertain, QuarantineDelivery, QuarantineWake,
         DropSession, Fault, Goto
    <3>2. QED
      BY <1>3, <1>5, <2>2, <3>1, ThreadsKeepApart DEF ActiveSessions, Untouched
  <2>3. (CreateSession(w) /\ MayCreate(w) /\ sess' = [sess EXCEPT ![w] = "active"])
        \/ (sess'[w] = "active" => sess[w] = "active")
    <3> USE DEF TypeOK, RowTypes
    <3>1. CASE CreateSession(w)
      BY <3>1 DEF CreateSession
    <3>2. CASE Undo(w) \/ DropSession(w)
      BY <3>2 DEF Undo, DropSession, RecoverOrphanRows, RecoverPreparedRows, ForceTerminateSession,
         rows
    <3>3. CASE RevokeSession(w) \/ FinishSession(w)
      BY <3>3 DEF RevokeSession, FinishSession
    <3>4. CASE UNCHANGED sess
      BY <3>4
    <3>5. QED
      BY <1>5, <3>1, <3>2, <3>3, <3>4
         DEF WakeStep, Begin, ReserveBudget, BudgetHold, PrepareWake, Spawn, RecordProcess,
             MarkWakeRunning, StartDelivery, Prompt, Wait, Timeout, Overdue, RecordExit, SettleBudget,
             FinishWake, FinishDelivery, GiveUp, Kill, Expire, Stop, StopMark,
             MarkBudgetUncertain, QuarantineDelivery, QuarantineWake, Fault, rows
  <2>4. QED
    BY <2>1, <2>2, <2>3
<1>6. CASE \A v \in Wakes : Outside(v)
  BY <1>2, <1>3, <1>6 DEF Outside, ActiveSessions
<1>7. CASE OpStep
  <2>1. \A v \in Wakes : Operated(v)
    BY <1>7, OpsOperate
  <2>2. QED
    BY <1>3, <2>1 DEF Operated, ActiveSessions
<1>8. CASE UNCHANGED vars
  BY <1>3, <1>8 DEF vars, threads, rows, ActiveSessions
<1>9. QED
  BY <1>5, <1>6, <1>7, <1>8, TicksAreOutside, EnvIsOutside DEF Next

\* Under every disturbance, for finitely many wakes: never two providers at work for one
\* role, never more at work than policy.global_max_agents, but for the wakes that Excused
\* names.
THEOREM OneProviderPerRole ==
    ASSUME IsFiniteSet(Wakes)
    PROVE  Spec => []RoleExclusive
<1>1. Init => RowsExclusive
  <2>1. Init => ActiveSessions = {}
    BY DEF Init, ActiveSessions
  <2>2. QED
    BY <2>1, FS_EmptySet DEF RowsExclusive
<1>2. TypeOK /\ SessionInv /\ RowsExclusive /\ [Next]_vars => RowsExclusive'
  BY RowsExclusiveStep
<1>3. TypeOK /\ SessionInv /\ RowsExclusive => RoleExclusive
  <2> SUFFICES ASSUME TypeOK, SessionInv, RowsExclusive
               PROVE  RoleExclusive
    OBVIOUS
  <2> DEFINE Working == {w \in Wakes \ Excused : prov[w] = "working"}
  <2>1. Working \subseteq ActiveSessions
    BY DEF SessionInv, Quiet, Settled, Refused, Unspawned, Alive, ActiveSessions, TypeOK, RowTypes
  <2>2. IsFiniteSet(ActiveSessions)
    BY FS_Subset DEF ActiveSessions
  <2>3. Cardinality(Working) <= Cardinality(ActiveSessions) /\ Cardinality(Working) \in Nat
        /\ Cardinality(ActiveSessions) \in Nat
    BY <2>1, <2>2, FS_Subset, FS_CardinalityType
  <2>4. Cardinality(Working) <= Cap
    BY <2>3 DEF RowsExclusive
  <2>5. QED
    BY <2>1, <2>4 DEF RoleExclusive, RowsExclusive
<1>4. QED
  BY <1>1, <1>2, <1>3, TypeCorrectness, SessionInvariance, PTL DEF Spec

-----------------------------------------------------------------------------
(* No orphan after a start-up.                                             *)

\* Without pause, a recovery is the only operator call, and it meets no thread.
ServedInv == ServiceInv /\ opk # "pause" /\ \A w \in Wakes : Unused(w)

LEMMA ServedInvariance ==
    ASSUME Modes \cap {"pause", "shutdown", "cli"} = {}
    PROVE  Spec => []ServedInv
<1>1. Init => ServedInv
  BY ServiceInit DEF Init, ServedInv, Unused, Unspawned, Unopened
<1>2. TypeOK /\ ServedInv /\ [Next]_vars => ServedInv'
  <2> SUFFICES ASSUME TypeOK, ServedInv, [Next]_vars
               PROVE  ServedInv'
    OBVIOUS
  <2>1. ServiceInv' /\ \A w \in Wakes : Unused(w)'
    BY ServiceNext, UnusedStep DEF ServedInv
  <2>2. opk' = opk \/ opk' \in {"idle", "recover"}
    <3>1. ASSUME NEW w \in Wakes, WakeStep(w) \/ Fault(w)
          PROVE  opk' = opk
      BY <3>1 DEF WakeStep, Begin, CreateSession, ReserveBudget, RevokeSession, BudgetHold,
         PrepareWake, Spawn, RecordProcess, MarkWakeRunning, StartDelivery, Prompt, Wait, Timeout,
         Overdue, RecordExit, SettleBudget, FinishWake, FinishDelivery, FinishSession, GiveUp,
         Undo, Kill, Expire, Stop, StopMark, MarkBudgetUncertain, QuarantineDelivery,
         QuarantineWake, DropSession, Fault, opvars
    <3>2. CASE (\E p \in Procs : TickStep(p)) \/ OpStep
      BY <3>2 DEF TickStep, StartTick, RunBatch, EndTick, LeaseDuplicate, LeaseDelivery, OpStep,
         ScanWakes, ScanOrphans, OrphansDone, RecoverPrepared, TerminateGroup, TerminateMark,
         TerminateForce, TerminateRevoke, TerminateQuarantine, OpDone, RecoverOrphan, NextWake,
         AbortOp, LeaveOp, OpGoto, opvars
    <3>3. CASE EnvStep /\ ~ \E w \in Wakes : Fault(w)
      BY <3>3 DEF EnvStep, ProviderExit, PidReuse, Elapse, Pause, Resume, StartService, StartCli,
         Shutdown, Crash, Exit, EndProcess, ManualWake, TickFault, OpFault, AbortOp, EnterOp,
         LeaveOp, opvars
    <3>4. QED
      BY <3>1, <3>2, <3>3 DEF Next, vars, opvars
  <2>3. QED
    BY <2>1, <2>2 DEF ServedInv
<1>3. QED
  BY <1>1, <1>2, TypeCorrectness, PTL DEF Spec

\* The rows a thread's last steps find.
Handled(w) ==
    /\ pc[w] \in Unopened => wake[w] = "none"
    /\ pc[w] \in Unspawned => /\ prow[w] = "none" /\ resv[w] \in {"none", "active"}
                              /\ wake[w] \in {"none", "prepared"}
    /\ pc[w] = "hold" => sess[w] # "active"
    /\ pc[w] \notin (Unspawned \ {"spawn"}) \cup {"done"} => wake[w] # "none"
    /\ pc[w] = "drop" => wake[w] \notin OpenWake

\* A wake that is left to the next recovery is one whose exception handler raised.
Orphaned(w) == pc[w] = "done" /\ sess[w] = "active" /\ wake[w] \in OpenWake \cup {"none"}
Abandoned ==
    \A w \in Wakes : Orphaned(w) /\ (\E p \in Procs : pstate[p] = "up") => w \in broken

\* A recovery has what it still has to close on its lists.
OnList(w) ==
    /\ ost \in {"scan", "orphans"} /\ wake[w] = "none" => w \in orphans
    /\ ost \notin {"first", "scan", "orphans"} => wake[w] # "none"
    /\ ost \in {"orphans", "next"} /\ wake[w] \in OpenWake => w \in todo
    /\ ost \in {"prepared", "read", "mark", "force", "revoke", "quarantine"}
       /\ wake[w] \in OpenWake => w \in todo \cup {cur}
Listed == \A w \in Wakes : opk = "recover" /\ sess[w] = "active" => OnList(w)

OrphanInv ==
    /\ \A w \in Wakes : Handled(w)
    /\ Abandoned /\ Listed

LEMMA ThreadKeepsHandled ==
    ASSUME TypeOK, NEW w \in Wakes, Unused(w), Handled(w), WakeStep(w) \/ Fault(w)
    PROVE  Handled(w)'
<1> USE DEF TypeOK, ThreadTypes, RowTypes, Handled, Unspawned, Unopened, OpenWake, Goto
<1>1. CASE Begin(w) \/ CreateSession(w) \/ ReserveBudget(w) \/ RevokeSession(w)
  BY <1>1 DEF Begin, CreateSession, ReserveBudget, RevokeSession, rows
<1>2. CASE BudgetHold(w) \/ PrepareWake(w) \/ RecordProcess(w)
  BY <1>2 DEF BudgetHold, PrepareWake, RecordProcess, rows
<1>3. CASE Spawn(w) \/ MarkWakeRunning(w) \/ StartDelivery(w)
  BY <1>3 DEF Spawn, MarkWakeRunning, StartDelivery, rows
<1>4. CASE Prompt(w) \/ Wait(w) \/ Timeout(w) \/ Overdue(w)
  BY <1>4 DEF Prompt, Wait, Timeout, Overdue, rows
<1>5. CASE RecordExit(w) \/ SettleBudget(w) \/ FinishWake(w)
  BY <1>5 DEF RecordExit, FinishProcess, SettleBudget, FinishWake
<1>6. CASE FinishDelivery(w) \/ FinishSession(w) \/ GiveUp(w)
  BY <1>6 DEF FinishDelivery, FinishSession, GiveUp, rows
<1>7. CASE Undo(w)
  BY <1>7 DEF Undo, RecoverOrphanRows, RecoverPreparedRows, ReleaseBudget, rows
<1>8. CASE Kill(w) \/ Expire(w) \/ StopMark(w)
  BY <1>8 DEF Kill, Expire, StopMark, FinishProcess
<1>9. CASE Stop(w)
  BY <1>9 DEF Stop, rows
<1>10. CASE MarkBudgetUncertain(w) \/ QuarantineDelivery(w) \/ QuarantineWake(w)
  BY <1>10 DEF MarkBudgetUncertain, QuarantineDelivery, QuarantineWake, rows
<1>11. CASE DropSession(w)
  BY <1>11 DEF DropSession, ForceTerminateSession, rows
<1>12. CASE Fault(w)
  BY <1>12, FaultGoes DEF TrySteps, Handlers, Ending, rows
<1>13. QED
  BY <1>1, <1>2, <1>3, <1>4, <1>5, <1>6, <1>7, <1>8, <1>9, <1>10, <1>11, <1>12 DEF WakeStep

\* A thread that ends and leaves its session open is one whose handler raised.
LEMMA LastSteps ==
    ASSUME TypeOK, NEW w \in Wakes, Unused(w), Handled(w), WakeStep(w) \/ Fault(w),
           Orphaned(w)'
    PROVE  w \in broken'
<1> USE DEF TypeOK, ThreadTypes, RowTypes, Orphaned, Handled, Unused, Unspawned, Unopened,
            OpenWake, Goto
<1>1. CASE Begin(w) \/ GiveUp(w) \/ BudgetHold(w)
  BY <1>1 DEF Begin, GiveUp, BudgetHold, rows
<1>2. CASE FinishSession(w)
  BY <1>2 DEF FinishSession
<1>3. CASE DropSession(w)
  BY <1>3 DEF DropSession, ForceTerminateSession, rows
<1>4. CASE Undo(w)
  BY <1>4 DEF Undo, RecoverOrphanRows, RecoverPreparedRows
<1>5. CASE pc'[w] # "done"
  BY <1>5
<1>6. CASE Fault(w)
  BY <1>6, FaultGoes DEF TrySteps, Handlers, Ending
<1>7. QED
  BY <1>1, <1>2, <1>3, <1>4, <1>5, <1>6
     DEF WakeStep, CreateSession, ReserveBudget, RevokeSession, PrepareWake,
     Spawn, RecordProcess, MarkWakeRunning, StartDelivery, Prompt, Wait, Timeout, Overdue, RecordExit,
     SettleBudget, FinishWake, FinishDelivery, Kill, Expire, Stop,
     StopMark, MarkBudgetUncertain, QuarantineDelivery, QuarantineWake

\* A thread at work: no recovery is, and the service stays as it is.
LEMMA ThreadsKeepService ==
    ASSUME ServedInv, NEW w \in Wakes, WakeStep(w) \/ Fault(w)
    PROVE  opk # "recover" /\ opk' = opk /\ pstate' = pstate
<1>1. pc[w] \notin AtRest /\ opk' = opk /\ pstate' = pstate
  BY DEF WakeStep, Begin, CreateSession, ReserveBudget, RevokeSession, BudgetHold, PrepareWake,
     Spawn, RecordProcess, MarkWakeRunning, StartDelivery, Prompt, Wait, Timeout, Overdue,
     RecordExit, SettleBudget, FinishWake, FinishDelivery, FinishSession, GiveUp, Undo, Kill,
     Expire, Stop, StopMark, MarkBudgetUncertain, QuarantineDelivery, QuarantineWake,
     DropSession, Fault, TrySteps, Handlers, AtRest, opvars, service
<1>2. QED
  BY <1>1, RecoveryAlone DEF ServedInv

\* A thread's own step leaves the rows of the others alone.
LEMMA ThreadKeepsOrphans ==
    ASSUME TypeOK, ServedInv, OrphanInv, NEW w \in Wakes, WakeStep(w) \/ Fault(w)
    PROVE  OrphanInv'
<1>1. (\A v \in Wakes \ {w} : Untouched(v)) /\ opk # "recover" /\ opk' = opk /\ pstate' = pstate
  BY ThreadsKeepApart, ThreadsKeepService
<1>2. \A v \in Wakes : Handled(v)'
  <2>1. Handled(w)'
    BY ThreadKeepsHandled DEF ServedInv, OrphanInv
  <2>2. \A v \in Wakes \ {w} : Handled(v)'
    BY <1>1 DEF Untouched, OrphanInv, Handled
  <2>3. QED
    BY <2>1, <2>2
<1>3. Abandoned'
  <2>1. \A v \in Wakes \ {w} : Orphaned(v)' => Orphaned(v) /\ (v \in broken => v \in broken')
    BY <1>1 DEF Untouched, Orphaned
  <2>2. Orphaned(w)' => w \in broken'
    BY LastSteps DEF ServedInv, OrphanInv
  <2>3. QED
    BY <1>1, <2>1, <2>2 DEF OrphanInv, Abandoned
<1>4. Listed'
  BY <1>1 DEF Listed
<1>5. QED
  BY <1>2, <1>3, <1>4 DEF OrphanInv

\* A step outside the threads leaves no orphan, if those threads that it ends had no
\* session or no service is up after it.
LEMMA OutsideKeepsOrphans ==
    ASSUME TypeOK, ServedInv, OrphanInv, \A v \in Wakes : Outside(v), Listed',
           \/ \A p \in Procs : pstate'[p] # "up"
           \/ /\ (\E p \in Procs : pstate'[p] = "up") => \E p \in Procs : pstate[p] = "up"
              /\ \A v \in Wakes : pc'[v] = "done" => pc[v] \in Unopened \cup {"done"}
    PROVE  OrphanInv'
<1>1. \A v \in Wakes : Handled(v)'
  BY DEF OrphanInv, Handled, Outside, Unspawned, Unopened
<1>2. ASSUME NEW v \in Wakes, Orphaned(v)', pc[v] \in Unopened \cup {"done"}
      PROVE  Orphaned(v)
  <2>1. Outside(v) /\ Unused(v)
    BY DEF ServedInv
  <2>2. QED
    BY <1>2, <2>1 DEF Orphaned, Outside, Unused
<1>3. Abandoned'
  <2>1. CASE \A p \in Procs : pstate'[p] # "up"
    BY <2>1 DEF Abandoned
  <2>2. CASE /\ (\E p \in Procs : pstate'[p] = "up") => \E p \in Procs : pstate[p] = "up"
             /\ \A v \in Wakes : pc'[v] = "done" => pc[v] \in Unopened \cup {"done"}
    <3>1. \A v \in Wakes : Orphaned(v)' => Orphaned(v)
      BY <1>2, <2>2 DEF Orphaned
    <3>2. \A v \in Wakes : v \in broken => v \in broken'
      BY DEF Outside
    <3>3. QED
      BY <2>2, <3>1, <3>2 DEF OrphanInv, Abandoned
  <2>3. QED
    BY <2>1, <2>2
<1>4. QED
  BY <1>1, <1>3 DEF OrphanInv

LEMMA TickKeepsOrphans ==
    ASSUME TypeOK, ServedInv, OrphanInv, NEW p \in Procs, TickStep(p)
    PROVE  OrphanInv'
<1>1. \A v \in Wakes : Outside(v)
  BY TicksAreOutside
<1>2. UNCHANGED <<rows, opvars>>
  BY DEF TickStep, StartTick, RunBatch, EndTick, LeaseDuplicate, LeaseDelivery
<1>3. \A q \in Procs : pstate'[q] = "up" => pstate[q] = "up"
  BY DEF TickStep, StartTick, RunBatch, EndTick, LeaseDuplicate, LeaseDelivery, service, TypeOK,
     ServiceTypes
<1>4. \A v \in Wakes : pc'[v] = "done" => pc[v] \in Unopened \cup {"done"}
  BY DEF TickStep, StartTick, RunBatch, EndTick, LeaseDuplicate, LeaseDelivery, threads, TypeOK,
     ThreadTypes
<1>5. Listed'
  BY <1>2 DEF OrphanInv, Listed, OnList, rows, opvars
<1>6. QED
  BY <1>1, <1>3, <1>4, <1>5, OutsideKeepsOrphans

\* A step of a recovery that does not end it.
RecoveryGoes ==
    /\ UNCHANGED <<pstate, opk>>
    /\ \A v \in Wakes : sess'[v] = "active" => sess[v] = "active" /\ OnList(v)'

\* What a recovery has to close is on its lists until it is closed.
LEMMA RecoveryLists ==
    ASSUME TypeOK, ServiceInv, Listed, opk = "recover", OpStep
    PROVE  \/ RecoveryGoes
           \/ LeaveOp /\ AfterOp(FALSE) /\ UNCHANGED rows
           \/ LeaveOp /\ AfterOp(TRUE) /\ UNCHANGED rows /\ ost = "next" /\ todo = {}
<1> USE DEF TypeOK, RowTypes, OpTypes, Listed, OnList, RecoveryGoes
<1>1. CASE ScanWakes
  BY <1>1 DEF ScanWakes, OpenWakes, rows, service
<1>2. CASE ScanOrphans
  BY <1>2 DEF ScanOrphans, rows, service
<1>3. CASE OrphansDone
  BY <1>3 DEF OrphansDone, OpGoto, rows, service
<1>4. ASSUME NEW w \in Wakes, NextWake(w)
      PROVE  RecoveryGoes
  BY <1>4 DEF NextWake, rows, service
<1>5. ASSUME NEW w \in Wakes, RecoverOrphan(w)
      PROVE  RecoveryGoes \/ (LeaveOp /\ AfterOp(FALSE) /\ UNCHANGED rows)
  BY <1>5 DEF RecoverOrphan, RecoverOrphanRows, AbortOp, rows
<1>6. cur \in Wakes \/ ost \notin {"prepared", "read", "mark", "force", "revoke", "quarantine"}
  BY DEF ServiceInv, RecoveryServed
<1>7. CASE RecoverPrepared
  BY <1>6, <1>7 DEF RecoverPrepared, RecoverPreparedRows, AbortOp, OpGoto, rows
<1>8. CASE TerminateGroup \/ TerminateMark \/ TerminateForce
  BY <1>6, <1>8 DEF TerminateGroup, TerminateMark, TerminateForce, OpGoto, rows, service
<1>9. CASE TerminateRevoke
  BY <1>6, <1>9 DEF TerminateRevoke, ForceTerminateSession, AbortOp, OpGoto, rows
<1>10. CASE TerminateQuarantine
  BY <1>6, <1>10 DEF TerminateQuarantine, OpGoto, rows, service, OpenWake
<1>11. CASE OpDone
  BY <1>11 DEF OpDone
<1>12. QED
  BY <1>1, <1>2, <1>3, <1>4, <1>5, <1>7, <1>8, <1>9, <1>10, <1>11 DEF OpStep

\* A recovery leaves the rows of a wake that has not begun alone.
LEMMA RecoveryKeepsUnopened ==
    ASSUME TypeOK, OpStep, NEW v \in Wakes,
           sess[v] = "none", wake[v] = "none", prow[v] = "none"
    PROVE  resv'[v] = resv[v] /\ wake'[v] = "none" /\ prow'[v] = "none"
<1> USE DEF TypeOK, RowTypes
<1>1. CASE \/ ScanWakes \/ ScanOrphans \/ OrphansDone \/ TerminateForce \/ OpDone \/ TerminateGroup
           \/ \E w \in Wakes : NextWake(w)
  BY <1>1 DEF ScanWakes, ScanOrphans, OrphansDone, TerminateForce, OpDone, TerminateGroup, NextWake,
     rows
<1>2. CASE RecoverPrepared \/ \E w \in Wakes : RecoverOrphan(w)
  BY <1>2 DEF RecoverPrepared, RecoverPreparedRows, PreparedWake, RecoverOrphan,
     RecoverOrphanRows, OrphanSession, ReleaseBudget, rows
<1>3. CASE TerminateMark \/ TerminateRevoke \/ TerminateQuarantine
  BY <1>3 DEF TerminateMark, FinishProcess, TerminateRevoke, ForceTerminateSession,
     TerminateQuarantine, OpenWake, rows
<1>4. QED
  BY <1>1, <1>2, <1>3 DEF OpStep

LEMMA RecoveryKeepsOrphans ==
    ASSUME TypeOK, ServedInv, OrphanInv, OpStep
    PROVE  OrphanInv'
<1>1. opk = "recover" /\ UNCHANGED pc
  BY DEF OpStep, ScanWakes, ScanOrphans, OrphansDone, RecoverPrepared, TerminateGroup,
     TerminateMark, TerminateForce, TerminateRevoke, TerminateQuarantine, OpDone, RecoverOrphan,
     NextWake, ServedInv, ServiceInv, RecoveryServed, TypeOK, OpTypes, threads
<1>2. \A v \in Wakes : pc[v] \in AtRest
  BY <1>1, RecoveryAlone DEF ServedInv
<1>3. /\ opp \in Procs /\ pstate[opp] = "recovering"
      /\ \A p \in Procs : pstate[p] # "up"
  BY <1>1 DEF ServedInv, ServiceInv, OneService, RecoveryServed
<1>5. ASSUME NEW v \in Wakes
      PROVE  Handled(v)'
  <2>1. CASE pc[v] = "done"
    BY <1>1, <2>1 DEF Handled, Unspawned, Unopened
  <2>2. CASE pc[v] = "free"
    <3>1. sess[v] = "none" /\ wake[v] = "none" /\ prow[v] = "none" /\ resv[v] \in {"none", "active"}
      BY <2>2 DEF ServedInv, OrphanInv, Unused, Handled, Unspawned, Unopened
    <3>2. resv'[v] = resv[v] /\ wake'[v] = "none" /\ prow'[v] = "none"
      BY <3>1, RecoveryKeepsUnopened
    <3>3. QED
      BY <1>1, <2>2, <3>1, <3>2 DEF Handled, Unspawned, Unopened
  <2>3. QED
    BY <1>2, <2>1, <2>2 DEF AtRest
<1>6. CASE RecoveryGoes
  <2>1. Listed' /\ Abandoned'
    BY <1>3, <1>6 DEF RecoveryGoes, Listed, Abandoned
  <2>2. QED
    BY <1>5, <2>1 DEF OrphanInv
<1>7. CASE LeaveOp /\ AfterOp(FALSE)
  <2>1. pstate' = [pstate EXCEPT ![opp] = "dead"]
    BY <1>1, <1>3, <1>7 DEF AfterOp
  <2>2. Listed' /\ Abandoned'
    BY <1>3, <1>7, <2>1 DEF LeaveOp, Listed, Abandoned, TypeOK, ServiceTypes
  <2>3. QED
    BY <1>5, <2>2 DEF OrphanInv
<1>8. CASE LeaveOp /\ UNCHANGED rows /\ ost = "next" /\ todo = {}
  <2>1. \A v \in Wakes : ~ Orphaned(v)'
    BY <1>1, <1>8 DEF OrphanInv, Listed, OnList, Orphaned, rows
  <2>2. Listed' /\ Abandoned'
    BY <1>8, <2>1 DEF LeaveOp, Listed, Abandoned
  <2>3. QED
    BY <1>5, <2>2 DEF OrphanInv
<1>9. QED
  BY <1>1, <1>6, <1>7, <1>8, RecoveryLists DEF ServedInv, OrphanInv

LEMMA EnvKeepsOrphans ==
    ASSUME Modes \cap {"pause", "shutdown", "cli"} = {}, TypeOK, ServedInv, OrphanInv, EnvStep
    PROVE  OrphanInv'
<1>1. ASSUME NEW w \in Wakes, Fault(w)
      PROVE  OrphanInv'
  BY <1>1, ThreadKeepsOrphans
<1>2. CASE ~ \E w \in Wakes : Fault(w)
  <2>1. \A v \in Wakes : Outside(v)
    BY <1>2, EnvIsOutside
  <2>2. CASE \/ \E w \in Wakes : ProviderExit(w) \/ PidReuse(w)
             \/ \E d \in Deliveries : Elapse(d)
             \/ \E p \in Procs : Resume(p)
    <3>1. UNCHANGED <<pc, rows, pstate, opvars>>
      BY <2>2 DEF ProviderExit, PidReuse, Elapse, Resume, threads, service
    <3>2. Listed'
      BY <3>1 DEF OrphanInv, Listed, OnList, rows, opvars
    <3>3. QED
      BY <2>1, <3>1, <3>2, OutsideKeepsOrphans
  <2>3. ASSUME NEW p \in Procs, NEW w \in Wakes, NEW r \in Roles, ManualWake(p, w, r)
        PROVE  OrphanInv'
    <3>1. /\ UNCHANGED <<rows, pstate, opvars>>
          /\ \A v \in Wakes : pc'[v] = "done" => pc[v] = "done"
      BY <2>3 DEF ManualWake, service, TypeOK, ThreadTypes
    <3>2. Listed'
      BY <3>1 DEF OrphanInv, Listed, OnList, rows, opvars
    <3>3. QED
      BY <2>1, <3>1, <3>2, OutsideKeepsOrphans
  <2>4. ASSUME NEW p \in Procs, StartService(p)
        PROVE  OrphanInv'
    <3>1. ost' = "first" /\ \A q \in Procs : pstate'[q] # "up"
      BY <2>4 DEF StartService, EnterOp, TypeOK, ServiceTypes
    <3>2. Listed'
      BY <3>1 DEF Listed, OnList
    <3>3. QED
      BY <2>1, <3>1, <3>2, OutsideKeepsOrphans
  <2>5. ASSUME NEW p \in Procs, Crash(p) \/ Exit(p)
        PROVE  OrphanInv'
    <3>1. /\ pstate[p] \in {"recovering", "up"} /\ pstate' = [pstate EXCEPT ![p] = "dead"]
          /\ UNCHANGED rows /\ IF opp = p THEN LeaveOp ELSE UNCHANGED opvars
      BY <2>5 DEF Crash, Exit, EndProcess, LiveProc, ServedInv, ServiceInv, OneService
    <3>2. \A q \in Procs : pstate'[q] # "up"
      BY <3>1 DEF ServedInv, ServiceInv, OneService, TypeOK, ServiceTypes
    <3>3. Listed'
      BY <3>1 DEF OrphanInv, Listed, OnList, LeaveOp, rows, opvars
    <3>4. QED
      BY <2>1, <3>2, <3>3, OutsideKeepsOrphans
  <2>6. ASSUME NEW p \in Procs, TickFault(p)
        PROVE  OrphanInv'
    <3>1. /\ UNCHANGED <<rows, opvars>>
          /\ \A q \in Procs : pstate'[q] = "up" => pstate[q] = "up"
          /\ \A v \in Wakes : pc'[v] = "done" => pc[v] \in {"leased", "done"}
      BY <2>6 DEF TickFault, Batch, TypeOK, ServiceTypes
    <3>2. Listed'
      BY <3>1 DEF OrphanInv, Listed, OnList, rows, opvars
    <3>3. QED
      BY <2>1, <3>1, <3>2, OutsideKeepsOrphans DEF Unopened
  <2>7. CASE OpFault
    <3>1. opk = "recover"
      BY <2>7 DEF OpFault, ServedInv, ServiceInv, RecoveryServed, TypeOK, OpTypes
    <3>2. /\ opp \in Procs /\ pstate[opp] = "recovering"
          /\ \A q \in Procs : pstate[q] # "up"
      BY <3>1 DEF ServedInv, ServiceInv, OneService, RecoveryServed
    <3>3. pstate' = [pstate EXCEPT ![opp] = "dead"] /\ opk' = "idle"
      BY <2>7, <3>1, <3>2 DEF OpFault, AbortOp, AfterOp, LeaveOp
    <3>4. QED
      BY <2>1, <3>2, <3>3, OutsideKeepsOrphans DEF Listed, TypeOK, ServiceTypes
  <2>8. QED
    BY <1>2, <2>2, <2>3, <2>4, <2>5, <2>6, <2>7 DEF EnvStep, Pause, StartCli, Shutdown
<1>3. QED
  BY <1>1, <1>2

LEMMA OrphanInit == Init => OrphanInv
BY DEF Init, OrphanInv, Handled, Abandoned, Orphaned, Listed, OnList, Unspawned, Unopened

\* Without pause, shutdown in order and command line: whatever crashes, faults, lapsed
\* leases and failed recoveries leave behind, once a start-up recovery has opened the
\* service every active session without a finished wake has a thread that will close it,
\* or is that of a wake whose exception handler raised.
THEOREM NoOrphans ==
    ASSUME Modes \cap {"pause", "shutdown", "cli"} = {}
    PROVE  Spec => []NoOrphanAfterStartup
<1>1. TypeOK /\ ServedInv /\ OrphanInv /\ [Next]_vars => OrphanInv'
  <2> SUFFICES ASSUME TypeOK, ServedInv, OrphanInv, [Next]_vars
               PROVE  OrphanInv'
    OBVIOUS
  <2>1. CASE UNCHANGED vars
    BY <2>1 DEF vars, threads, rows, os, service, opvars, OrphanInv, Handled, Abandoned,
       Orphaned, Listed, OnList
  <2>2. QED
    BY <2>1, TickKeepsOrphans, ThreadKeepsOrphans, RecoveryKeepsOrphans, EnvKeepsOrphans DEF Next
<1>2. OrphanInv => NoOrphanAfterStartup
  BY DEF OrphanInv, Abandoned, Orphaned, NoOrphanAfterStartup, Attended
<1>3. QED
  BY <1>1, <1>2, OrphanInit, TypeCorrectness, ServedInvariance, PTL DEF Spec

=============================================================================
