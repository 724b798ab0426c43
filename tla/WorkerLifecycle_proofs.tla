----------------------- MODULE WorkerLifecycle_proofs -----------------------
(***************************************************************************)
(* Proofs about WorkerLifecycle for every finite set of sessions and       *)
(* attempts, every set of roles and files, every value of the three caps,  *)
(* and every combination of disturbances.                                  *)
(***************************************************************************)
EXTENDS WorkerLifecycle, FiniteSetTheorems, TLAPS

USE WorkerNumbersAssumption, WorkerNobodyAssumption, WorkerRolesAssumption

-----------------------------------------------------------------------------
(* Type correctness.                                                       *)

\* A thread of WorkerSupervisor.run works for a session.
Owned == \A a \in Attempts : pc[a] # "none" => of[a] \in Sessions

\* terminate_session, whatever its answer and whatever it could read.
Terminating(s) == \E u \in SUBSET Attempts, ok \in BOOLEAN : Terminate(s, u, ok)

Types == WakeTypes /\ WorkerTypes /\ TokenTypes /\ FileTypes

LEMMA WakeStepTypes ==
    ASSUME Types, Owned, NEW s \in Sessions,
           \/ StartWake(s) \/ ParentEnds(s) \/ FinishSession(s) \/ BeginStop(s)
           \/ Terminating(s) \/ ForceTerminateSession(s) \/ Keep(s)
    PROVE  Types' /\ Owned'
<1> USE DEF Types, Owned
<1>1. CASE StartWake(s) \/ BeginStop(s) \/ FinishSession(s) \/ Keep(s)
  <2>1. WakeTypes'
    BY <1>1 DEF StartWake, BeginStop, FinishSession, Keep, BudgetOfStopped, WakeTypes
  <2>2. UNCHANGED <<rows, pc, os, prow, tokens, files, missed>>
    BY <1>1 DEF StartWake, BeginStop, FinishSession, Keep
  <2>3. QED
    BY <2>1, <2>2 DEF WorkerTypes, TokenTypes, FileTypes, rows, tokens, files, missed
<1>2. CASE ParentEnds(s)
  <2>1. WakeTypes'
    BY <1>2 DEF ParentEnds, WakeTypes
  <2>2. TokenTypes'
    BY <1>2 DEF ParentEnds, TokenTypes, WorkersOf, AtWork
  <2>3. QED
    BY <1>2, <2>1, <2>2 DEF ParentEnds, WorkerTypes, FileTypes, rows, files
<1>3. CASE Terminating(s)
  <2>1. WakeTypes'
    BY <1>3 DEF Terminating, Terminate, WakeTypes
  <2>2. WorkerTypes'
    BY <1>3 DEF Terminating, Terminate, WorkerTypes, rows
  <2>3. TokenTypes'
    BY <1>3 DEF Terminating, Terminate, TokenTypes, tokens, WorkersOf, AtWork
  <2>4. QED
    BY <1>3, <2>1, <2>2, <2>3 DEF Terminating, Terminate, FileTypes, files, rows
<1>4. CASE ForceTerminateSession(s)
  <2>1. WakeTypes'
    BY <1>4 DEF ForceTerminateSession, WakeTypes, BudgetOfStopped
  <2>2. WorkerTypes'
    BY <1>4 DEF ForceTerminateSession, WorkerTypes
  <2>3. QED
    BY <1>4, <2>1, <2>2 DEF ForceTerminateSession, TokenTypes, FileTypes, tokens, files, missed
<1>5. QED
  BY <1>1, <1>2, <1>3, <1>4

LEMMA ReserveTypes ==
    ASSUME Types, Owned, NEW a \in Attempts, NEW s \in Sessions, Reserve(a, s)
    PROVE  Types' /\ Owned'
BY DEF Types, Owned, Reserve, Goto, WakeTypes, WorkerTypes, TokenTypes, FileTypes, Counted, wake,
   tokens, files

\* A write to one file of one workspace.
LEMMA WriteTypes ==
    ASSUME FileTypes, NEW r \in Roles, NEW f \in Files,
           ver' = [ver EXCEPT ![r][f] = @ + 1]
    PROVE  ver' \in [Roles -> [Files -> Nat]]
<1>1. ver[r][f] \in Nat /\ ver[r][f] + 1 \in Nat
  BY DEF FileTypes
<1>2. [ver[r] EXCEPT ![f] = ver[r][f] + 1] \in [Files -> Nat]
  BY <1>1 DEF FileTypes
<1>3. QED
  BY <1>2 DEF FileTypes

LEMMA ParentWritesTypes ==
    ASSUME Types, Owned, NEW s \in Sessions, NEW f \in Files, ParentWrites(s, f)
    PROVE  Types' /\ Owned'
<1>1. RoleOf[s] \in Roles
  OBVIOUS
<1>2. ver' \in [Roles -> [Files -> Nat]]
  BY <1>1, WriteTypes DEF ParentWrites, Types
<1>3. FileTypes'
  BY <1>2 DEF ParentWrites, Types, FileTypes, Importing
<1>4. QED
  BY <1>3 DEF ParentWrites, Types, Owned, WakeTypes, WorkerTypes, TokenTypes, wake, rows, tokens,
     missed

LEMMA ImportTypes ==
    ASSUME Types, Owned, NEW a \in Attempts, NEW f \in Files, Import(a, f)
    PROVE  Types' /\ Owned'
<1>1. of[a] \in Sessions
  BY DEF Import, Owned
<1>2. RoleOf[of[a]] \in Roles
  BY <1>1
<1>3. ver' \in [Roles -> [Files -> Nat]]
  BY <1>2, WriteTypes DEF Import, Replace, Types
<1>4. FileTypes'
  BY <1>3 DEF Import, Types, FileTypes, Importing
<1>5. WorkerTypes' /\ UNCHANGED of /\ pc[a] # "none"
  BY DEF Import, Types, WorkerTypes, Goto, rows
<1>6. Owned'
  BY <1>1, <1>5 DEF Import, Goto, Owned, Types, WorkerTypes
<1>7. QED
  BY <1>4, <1>5, <1>6 DEF Import, Types, WakeTypes, TokenTypes, wake, tokens, missed

LEMMA WorkerStepTypes ==
    ASSUME Types, Owned, NEW a \in Attempts,
           \/ Copy(a) \/ MarkRunning(a) \/ Spawn(a) \/ Record(a) \/ Prompt(a) \/ WorkerEnds(a)
           \/ Collect(a) \/ Finish(a) \/ Fault(a) \/ \E b \in BOOLEAN : Account(a, b) \/ Check(a, b)
    PROVE  Types' /\ Owned'
<1> USE DEF Types, Owned
<1>1. CASE Copy(a)
  <2>1. of[a] \in Sessions
    BY <1>1 DEF Copy
  <2>2. SnapshotTree(RoleOf[of[a]]) \in [Files -> Nat]
    BY <2>1 DEF SnapshotTree, FileState, FileTypes
  <2>3. FileTypes'
    BY <1>1, <2>2 DEF Copy, FileTypes
  <2>4. WorkerTypes'
    BY <1>1 DEF Copy, WorkerTypes, Goto, rows
  <2>5. QED
    BY <1>1, <2>3, <2>4 DEF Copy, Goto, WakeTypes, WorkerTypes, TokenTypes, wake, rows, tokens,
       missed
<1>2. CASE MarkRunning(a) \/ Spawn(a) \/ Record(a)
  <2>1. WorkerTypes'
    BY <1>2 DEF MarkRunning, Spawn, Record, WorkerTypes, Goto, rows, Counted
  <2>2. QED
    BY <1>2, <2>1 DEF MarkRunning, Spawn, Record, Goto, WakeTypes, WorkerTypes, TokenTypes, FileTypes,
       wake, rows, tokens, files, missed
<1>3. CASE Prompt(a)
  <2>1. WorkerTypes'
    BY <1>3 DEF Prompt, WorkerTypes, Goto, rows
  <2>2. QED
    BY <1>3, <2>1 DEF Prompt, Goto, WakeTypes, WorkerTypes, TokenTypes, FileTypes, wake, rows, files,
       missed
<1>4. CASE WorkerEnds(a) \/ Collect(a)
  <2>1. WorkerTypes'
    BY <1>4 DEF WorkerEnds, Collect, WorkerTypes, Goto, rows
  <2>2. QED
    BY <1>4, <2>1 DEF WorkerEnds, Collect, Goto, WakeTypes, WorkerTypes, TokenTypes, FileTypes, wake,
       rows, tokens, files, missed
<1>5. CASE Finish(a)
  <2>1. WorkerTypes'
    BY <1>5 DEF Finish, WorkerTypes, Goto
  <2>2. FileTypes'
    <3>1. [f \in Files |-> 0] \in [Files -> Nat]
      OBVIOUS
    <3>2. QED
      BY <1>5, <3>1 DEF Finish, FileTypes
  <2>3. QED
    BY <1>5, <2>1, <2>2 DEF Finish, Goto, WakeTypes, WorkerTypes, TokenTypes, wake, tokens, missed
<1>6. CASE Fault(a)
  <2>1. of[a] \in Sessions
    BY <1>6 DEF Fault
  <2>2. WorkerTypes'
    BY <1>6 DEF Fault, WorkerTypes, Goto, rows
  <2>3. TokenTypes'
    BY <1>6, <2>1 DEF Fault, TokenTypes, missed
  <2>4. QED
    BY <1>6, <2>1, <2>2, <2>3 DEF Fault, Goto, WakeTypes, WorkerTypes, FileTypes, wake, rows, files
<1>7. ASSUME NEW b \in BOOLEAN, Account(a, b)
      PROVE  Types' /\ Owned'
  <2>1. of[a] \in Sessions
    BY <1>7 DEF Account
  <2>2. WorkerTypes'
    BY <1>7 DEF Account, WorkerTypes, Goto, rows
  <2>3. TokenTypes'
    BY <1>7, <2>1 DEF Account, TokenTypes, missed
  <2>4. QED
    BY <1>7, <2>1, <2>2, <2>3 DEF Account, Goto, WakeTypes, WorkerTypes, FileTypes, wake, rows, files
<1>8. ASSUME NEW b \in BOOLEAN, Check(a, b)
      PROVE  Types' /\ Owned'
  <2>1. WorkerTypes'
    BY <1>8 DEF Check, WorkerTypes, Goto, rows
  <2>2. QED
    BY <1>8, <2>1 DEF Check, Goto, WakeTypes, WorkerTypes, TokenTypes, FileTypes, wake, rows, tokens,
       files, missed
<1>9. QED
  BY <1>1, <1>2, <1>3, <1>4, <1>5, <1>6, <1>7, <1>8

LEMMA TypesNext == Types /\ Owned /\ [Next]_vars => Types' /\ Owned'
<1> SUFFICES ASSUME Types, Owned, [Next]_vars
             PROVE  Types' /\ Owned'
  OBVIOUS
<1>1. CASE Crash
  BY <1>1 DEF Crash, Types, Owned, WakeTypes, WorkerTypes, TokenTypes, FileTypes, rows, files, missed
<1>2. CASE UNCHANGED vars
  BY <1>2 DEF vars, Types, Owned, WakeTypes, WorkerTypes, TokenTypes, FileTypes, wake, rows, tokens,
     files, missed
<1>3. QED
  BY <1>1, <1>2, WakeStepTypes, ReserveTypes, ParentWritesTypes, ImportTypes, WorkerStepTypes
     DEF Next, Terminating

LEMMA TypesInit == Init => Types /\ Owned
BY DEF Init, Types, Owned, WakeTypes, WorkerTypes, TokenTypes, FileTypes, Counted

-----------------------------------------------------------------------------
(* The cumulative cap of a wake.                                           *)

\* max_workers_per_wake bounds the rows of a session, finished ones included.
Cumulative == \A s \in Sessions : Cardinality(WorkersOf(s)) <= CumulativeCap

\* The row of an attempt names its session from reserve_worker on.
LEMMA RowsKeepSession ==
    ASSUME [Next]_vars
    PROVE  UNCHANGED of \/ \E a \in Attempts, s \in Sessions : Reserve(a, s)
BY DEF Next, StartWake, ParentEnds, FinishSession, BeginStop, Terminating, Terminate, Keep,
   ForceTerminateSession, ParentWrites, Copy, MarkRunning, Spawn, Record, Prompt, WorkerEnds, Collect, Finish, Fault,
   Account, Check, Import, Crash, rows, vars

LEMMA CumulativeNext ==
    ASSUME IsFiniteSet(Attempts)
    PROVE  Types /\ Cumulative /\ [Next]_vars => Cumulative'
<1> SUFFICES ASSUME Types, Cumulative, [Next]_vars, NEW t \in Sessions
             PROVE  Cardinality(WorkersOf(t)') <= CumulativeCap
  BY DEF Cumulative
<1>1. IsFiniteSet(WorkersOf(t)) /\ Cardinality(WorkersOf(t)) \in Nat
  BY FS_Subset, FS_CardinalityType DEF WorkersOf
<1>2. CASE UNCHANGED of
  BY <1>2 DEF Cumulative, WorkersOf
<1>3. ASSUME NEW a \in Attempts, NEW s \in Sessions, Reserve(a, s)
      PROVE  Cardinality(WorkersOf(t)') <= CumulativeCap
  <2>1. of' = [of EXCEPT ![a] = s]
    BY <1>3 DEF Reserve
  <2>2. CASE t # s
    <3>1. WorkersOf(t)' \subseteq WorkersOf(t)
      BY <2>1, <2>2 DEF WorkersOf, Types, WorkerTypes
    <3>2. Cardinality(WorkersOf(t)') <= Cardinality(WorkersOf(t))
          /\ Cardinality(WorkersOf(t)') \in Nat
      BY <1>1, <3>1, FS_Subset, FS_CardinalityType
    <3>3. QED
      BY <1>1, <3>2 DEF Cumulative
  <2>3. CASE t = s
    <3>1. WorkersOf(t)' = WorkersOf(t) \cup {a}
      BY <2>1, <2>3 DEF WorkersOf, Types, WorkerTypes
    <3>2. Cardinality(WorkersOf(t) \cup {a}) =
              IF a \in WorkersOf(t) THEN Cardinality(WorkersOf(t)) ELSE Cardinality(WorkersOf(t)) + 1
      BY <1>1, FS_AddElement
    <3>3. Cardinality(WorkersOf(t)) < CumulativeCap
      BY <1>3, <2>3 DEF Reserve, MayReserve
    <3>4. Cardinality(WorkersOf(t) \cup {a}) <= CumulativeCap
      BY <1>1, <3>2, <3>3
    <3>5. QED
      BY <3>1, <3>4
  <2>4. QED
    BY <2>2, <2>3
<1>4. QED
  BY <1>2, <1>3, RowsKeepSession

\* The state of every session and attempt is one of the declared ones, and a wake never
\* has more attempts, ended ones included, than max_workers_per_wake.
THEOREM TypeCorrectness ==
    ASSUME IsFiniteSet(Attempts)
    PROVE  Spec => []TypeOK
<1>1. Init => Cumulative
  <2>1. ASSUME Init, NEW s \in Sessions
        PROVE  WorkersOf(s) = {}
    BY <2>1 DEF Init, WorkersOf
  <2>2. QED
    BY <2>1, FS_EmptySet DEF Cumulative
<1>2. Types /\ Cumulative => TypeOK
  BY DEF Types, Cumulative, TypeOK
<1>3. QED
  BY <1>1, <1>2, TypesInit, TypesNext, CumulativeNext, PTL DEF Spec

-----------------------------------------------------------------------------
(* The thread of an attempt, its rows and its process.                     *)

\* Before record_process.
Early == {"copy", "mark", "spawn", "record"}

\* Without a row there is neither thread nor process; a process at work has its row
\* running, unless it was reported as terminated unsignalled, and a thread that waits for
\* it, if any; a prompt is sent once; a thread reports success only once every file is
\* imported.
Tracked(a) ==
    /\ att[a] = "none" => pc[a] = "none" /\ os[a] = "none" /\ prow[a] = "none" /\ a \notin spent
    /\ att[a] # "none" => of[a] \in Sessions
    /\ os[a] = "working" => (prow[a] = "running" \/ a \in unsent) /\ pc[a] \in {"wait", "none"}
    /\ pc[a] = "prompt" /\ os[a] = "idle" => prow[a] = "running" \/ a \in unsent
    /\ pc[a] \in Early => prow[a] = "none"
    /\ pc[a] \in Early \cup {"prompt"} => a \notin spent
    /\ pc[a] = "finish" \/ att[a] = "succeeded" => imported[a] = Files

AllTracked == \A a \in Attempts : Tracked(a)

LEMMA WakeKeepsTracked ==
    ASSUME Types, AllTracked, NEW s \in Sessions,
           \/ StartWake(s) \/ ParentEnds(s) \/ FinishSession(s) \/ BeginStop(s)
           \/ Terminating(s) \/ ForceTerminateSession(s) \/ Keep(s)
           \/ \E f \in Files : ParentWrites(s, f)
    PROVE  AllTracked'
<1> SUFFICES ASSUME NEW v \in Attempts
             PROVE  Tracked(v)'
  BY DEF AllTracked
<1> USE DEF Types, WorkerTypes, AllTracked, Tracked, Early
<1>1. CASE Terminating(s)
  BY <1>1 DEF Terminating, Terminate, Running, Alive, rows, tokens, files, missed
<1>2. CASE ForceTerminateSession(s)
  BY <1>2 DEF ForceTerminateSession, Counted, tokens, files, missed
<1>3. CASE \/ StartWake(s) \/ ParentEnds(s) \/ FinishSession(s) \/ BeginStop(s) \/ Keep(s)
           \/ \E f \in Files : ParentWrites(s, f)
  BY <1>3 DEF StartWake, ParentEnds, FinishSession, BeginStop, Keep, ParentWrites,
     rows, tokens, files, missed
<1>4. QED
  BY <1>1, <1>2, <1>3

LEMMA WorkerKeepsTracked ==
    ASSUME Types, AllTracked, NEW a \in Attempts,
           \/ Copy(a) \/ MarkRunning(a) \/ Spawn(a) \/ Record(a) \/ Prompt(a) \/ WorkerEnds(a)
           \/ Collect(a) \/ Finish(a) \/ Fault(a) \/ \E b \in BOOLEAN : Account(a, b) \/ Check(a, b)
           \/ \E s \in Sessions : Reserve(a, s)
           \/ \E f \in Files : Import(a, f)
    PROVE  AllTracked'
<1> SUFFICES ASSUME NEW v \in Attempts
             PROVE  Tracked(v)'
  BY DEF AllTracked
<1> USE DEF Types, WorkerTypes, AllTracked, Tracked, Early, Goto
<1>1. CASE Copy(a) \/ MarkRunning(a) \/ Spawn(a)
  BY <1>1 DEF Copy, MarkRunning, Spawn, rows, tokens, files, missed
<1>2. CASE Record(a) \/ Prompt(a) \/ WorkerEnds(a)
  BY <1>2 DEF Record, Prompt, WorkerEnds, rows, tokens, files, missed
<1>3. CASE Collect(a) \/ Finish(a) \/ Fault(a)
  BY <1>3 DEF Collect, Finish, Fault, rows, tokens, files, missed
<1>4. CASE \E b \in BOOLEAN : Account(a, b) \/ Check(a, b)
  BY <1>4 DEF Account, Check, rows, tokens, files, missed
<1>5. CASE \E s \in Sessions : Reserve(a, s)
  BY <1>5 DEF Reserve, tokens, files
<1>6. CASE \E f \in Files : Import(a, f)
  BY <1>6 DEF Import, ImportedAll, FileTypes, rows, tokens, missed
<1>7. QED
  BY <1>1, <1>2, <1>3, <1>4, <1>5, <1>6

LEMMA TrackedNext == Types /\ AllTracked /\ [Next]_vars => AllTracked'
<1> SUFFICES ASSUME Types, AllTracked, [Next]_vars
             PROVE  AllTracked'
  OBVIOUS
<1>1. CASE Crash
  BY <1>1 DEF Crash, Types, WorkerTypes, AllTracked, Tracked, Early, rows, files, missed
<1>2. CASE UNCHANGED vars
  BY <1>2 DEF vars, AllTracked, Tracked, rows, tokens, files, missed
<1>3. QED
  BY <1>1, <1>2, WakeKeepsTracked, WorkerKeepsTracked DEF Next, Terminating

LEMMA TrackedInit == Init => AllTracked
BY DEF Init, AllTracked, Tracked, Early

\* An attempt whose row says succeeded has imported every file, through failed imports,
\* crashes and forced ends of its wake, for any number of files.
THEOREM SuccessIsImported == Spec => []SucceededIsImported
<1>1. AllTracked => SucceededIsImported
  BY DEF AllTracked, Tracked, SucceededIsImported
<1>2. QED
  BY <1>1, TypesInit, TypesNext, TrackedInit, TrackedNext, PTL DEF Spec

-----------------------------------------------------------------------------
(* Imports.                                                                *)

\* While the workspace has not been written since the check, what is still to be
\* imported is as the worker found it.
Unraced(a) ==
    pc[a] = "import" /\ a \notin raced =>
        \A f \in Files \ imported[a] : ver[RoleOf[of[a]]][f] = base[a][f]

AllUnraced == \A a \in Attempts : Unraced(a)

\* A write to a workspace is noted by every import into it.
LEMMA WriteKeepsUnraced ==
    ASSUME Types, Owned, AllUnraced, NEW r \in Roles, NEW f \in Files,
           ver' = [ver EXCEPT ![r][f] = @ + 1],
           NEW v \in Attempts, pc'[v] = "import" => pc[v] = "import", UNCHANGED <<of, base>>,
           imported'[v] = imported[v], v \in Importing(r) => v \in raced', raced \subseteq raced'
    PROVE  Unraced(v)'
<1>1. SUFFICES ASSUME pc'[v] = "import", v \notin raced', NEW g \in Files \ imported[v]
               PROVE  ver'[RoleOf[of[v]]][g] = base[v][g]
  BY DEF Unraced
<1>2. pc[v] = "import" /\ v \notin raced /\ RoleOf[of[v]] \in Roles
  BY <1>1 DEF Owned
<1>3. RoleOf[of[v]] # r
  BY <1>1, <1>2 DEF Importing
<1>4. ver'[RoleOf[of[v]]] = ver[RoleOf[of[v]]]
  BY <1>2, <1>3 DEF Types, FileTypes
<1>5. QED
  BY <1>1, <1>2, <1>4 DEF AllUnraced, Unraced

\* The import of f leaves the other files of its own attempt as they were.
LEMMA ImportKeepsUnraced ==
    ASSUME Types, Owned, AllUnraced, NEW a \in Attempts, NEW f \in Files, Import(a, f)
    PROVE  AllUnraced'
<1> DEFINE r == RoleOf[of[a]]
<1>1. pc[a] = "import" /\ r \in Roles
  BY DEF Import, Owned
<1>2. /\ ver' = [ver EXCEPT ![r][f] = @ + 1] /\ raced' = raced \cup (Importing(r) \ {a})
      /\ imported' = [imported EXCEPT ![a] = @ \cup {f}] /\ UNCHANGED <<of, base>>
  BY DEF Import, Replace, rows
<1>3. \A v \in Attempts : v # a => pc'[v] = pc[v] /\ imported'[v] = imported[v]
  BY <1>2 DEF Import, Goto, Types, WorkerTypes, FileTypes
<1>4. ASSUME NEW v \in Attempts, v # a
      PROVE  Unraced(v)'
  BY <1>1, <1>2, <1>3, <1>4, WriteKeepsUnraced
<1>5. Unraced(a)'
  <2>1. SUFFICES ASSUME a \notin raced', NEW g \in Files \ imported'[a]
                 PROVE  ver'[r][g] = base[a][g]
    BY <1>2 DEF Unraced
  <2>2. g # f /\ g \in Files \ imported[a] /\ a \notin raced
    BY <1>2, <2>1 DEF Types, FileTypes
  <2>3. ver'[r][g] = ver[r][g]
    BY <1>1, <1>2, <2>2 DEF Types, FileTypes
  <2>4. QED
    BY <1>1, <2>2, <2>3 DEF AllUnraced, Unraced
<1>6. QED
  BY <1>4, <1>5 DEF AllUnraced

LEMMA UnracedNext == Types /\ Owned /\ AllUnraced /\ [Next]_vars => AllUnraced'
<1> SUFFICES ASSUME Types, Owned, AllUnraced, [Next]_vars
             PROVE  AllUnraced'
  OBVIOUS
<1>1. ASSUME UNCHANGED <<ver, base, imported, raced, of>>,
             \A v \in Attempts : pc'[v] = "import" => pc[v] = "import"
      PROVE  AllUnraced'
  BY <1>1 DEF AllUnraced, Unraced
<1>2. ASSUME NEW s \in Sessions,
             \/ StartWake(s) \/ ParentEnds(s) \/ FinishSession(s) \/ BeginStop(s)
             \/ Terminating(s) \/ ForceTerminateSession(s) \/ Keep(s)
      PROVE  AllUnraced'
  BY <1>1, <1>2 DEF StartWake, ParentEnds, FinishSession, BeginStop, Terminating, Terminate, Keep,
     ForceTerminateSession, rows, files
<1>3. ASSUME NEW s \in Sessions, NEW f \in Files, ParentWrites(s, f)
      PROVE  AllUnraced'
  BY <1>3, WriteKeepsUnraced DEF ParentWrites, rows, AllUnraced
<1>4. ASSUME NEW a \in Attempts, NEW s \in Sessions, Reserve(a, s)
      PROVE  AllUnraced'
  BY <1>4 DEF Reserve, Goto, files, AllUnraced, Unraced, Types, WorkerTypes
<1>5. ASSUME NEW a \in Attempts, Copy(a) \/ Finish(a) \/ Fault(a)
      PROVE  AllUnraced'
  <2>1. /\ UNCHANGED <<ver, imported, raced, of>> /\ pc'[a] # "import"
        /\ \A v \in Attempts : v # a => pc'[v] = pc[v] /\ base'[v] = base[v]
    BY <1>5 DEF Copy, Finish, Fault, Goto, rows, Types, WorkerTypes, FileTypes
  <2>2. QED
    BY <2>1 DEF AllUnraced, Unraced
<1>6. ASSUME NEW a \in Attempts, NEW b \in BOOLEAN, Check(a, b)
      PROVE  AllUnraced'
  BY <1>6 DEF Check, UnchangedSince, FileState, Goto, rows, files, AllUnraced, Unraced, Types,
     WorkerTypes
<1>7. ASSUME NEW a \in Attempts,
             \/ MarkRunning(a) \/ Spawn(a) \/ Record(a) \/ Prompt(a) \/ WorkerEnds(a)
             \/ Collect(a) \/ \E b \in BOOLEAN : Account(a, b)
      PROVE  AllUnraced'
  BY <1>1, <1>7 DEF MarkRunning, Spawn, Record, Prompt, WorkerEnds, Collect, Account, Goto,
     rows, files, Types, WorkerTypes
<1>8. CASE Crash
  BY <1>1, <1>8 DEF Crash, rows, files
<1>9. CASE UNCHANGED vars
  BY <1>1, <1>9 DEF vars, rows, files
<1>10. QED
  BY <1>2, <1>3, <1>4, <1>5, <1>6, <1>7, <1>8, <1>9, ImportKeepsUnraced DEF Next, Terminating

\* An import overwrites a file that is not the one the worker started from only if the
\* workspace was written between its check and that import, for any number of wakes,
\* workers and files.
THEOREM NothingIsOverwritten == Spec => []NothingOverwritten
<1>1. Init => AllUnraced /\ NothingOverwritten
  BY DEF Init, AllUnraced, Unraced, NothingOverwritten
<1>2. Types /\ Owned /\ AllUnraced /\ NothingOverwritten /\ [Next]_vars => NothingOverwritten'
  <2> SUFFICES ASSUME Types, Owned, AllUnraced, NothingOverwritten, [Next]_vars
               PROVE  NothingOverwritten'
    OBVIOUS
  <2>1. ASSUME NEW a \in Attempts, NEW f \in Files, Import(a, f)
        PROVE  NothingOverwritten'
    BY <2>1 DEF Import, AllUnraced, Unraced, NothingOverwritten
  <2>2. CASE UNCHANGED stale /\ raced \subseteq raced'
    BY <2>2 DEF NothingOverwritten
  <2>3. QED
    BY <2>1, <2>2 DEF Next, StartWake, ParentEnds, FinishSession, BeginStop, Terminating, Terminate, Keep,
       ForceTerminateSession, Reserve, ParentWrites, Copy, MarkRunning, Spawn, Record, Prompt,
       WorkerEnds, Collect, Finish, Fault, Account, Check, Crash, files, vars
<1>3. QED
  BY <1>1, <1>2, TypesInit, TypesNext, UnracedNext, PTL DEF Spec

-----------------------------------------------------------------------------
(* The end of a wake, and the tokens of its workers.                       *)

Opened == {"run", "finish", "stop", "recover", "force", "keep", "left"}

\* The session's row, the thread that closes it and the reservation go together.
Closing(s) ==
    /\ sess[s] = "none" <=> step[s] = "none"
    /\ sess[s] = "active" <=> step[s] \in Opened
    /\ step[s] = "run" => budget[s] = "active"
    /\ step[s] = "finish" => budget[s] = "settled"
    /\ step[s] # "none" => budget[s] # "none"
    /\ sess[s] \in {"finished", "revoked"} => budget[s] \in {"settled", "uncertain"}

AllClosing == \A s \in Sessions : Closing(s)

LEMMA ClosingNext == Types /\ AllClosing /\ [Next]_vars => AllClosing'
<1> SUFFICES ASSUME Types, AllClosing, [Next]_vars, NEW t \in Sessions
             PROVE  Closing(t)'
  BY DEF AllClosing
<1> USE DEF Types, WakeTypes, AllClosing, Closing, Opened
<1>1. ASSUME NEW s \in Sessions, StartWake(s) \/ ParentEnds(s) \/ FinishSession(s)
      PROVE  Closing(t)'
  BY <1>1 DEF StartWake, ParentEnds, FinishSession
<1>2. ASSUME NEW s \in Sessions, BeginStop(s) \/ Terminating(s) \/ ForceTerminateSession(s) \/ Keep(s)
      PROVE  Closing(t)'
  BY <1>2 DEF BeginStop, Terminating, Terminate, Keep, ForceTerminateSession, BudgetOfStopped
<1>3. CASE Crash
  BY <1>3 DEF Crash, Active
<1>4. CASE UNCHANGED wake
  BY <1>4 DEF wake
<1>5. QED
  BY <1>1, <1>2, <1>3, <1>4 DEF Next, Terminating, Reserve, ParentWrites, Copy, MarkRunning, Spawn, Record,
     Prompt, WorkerEnds, Collect, Finish, Fault, Account, Check, Import, vars

\* The tokens of an attempt of a wake that was started: while its wake runs, a thread still waits
\* for them or _usage or _uncertain_usage has them; settle_budget takes them from there,
\* and those of a thread that is late are counted as unseen.
Carried(a) ==
    att[a] # "none" =>
        /\ step[of[a]] # "none"
        /\ pc[a] # "none" /\ budget[of[a]] = "settled" => a \in unseen
        /\ a \in spent \ (unseen \cup lost) /\ budget[of[a]] = "settled" => a \in charged
        /\ a \in spent \ lost /\ step[of[a]] = "run" =>
              pc[a] \in {"wait", "account"} \/ a \in usage \/ of[a] \in unknown
        /\ pc[a] \in {"prompt", "wait"} /\ step[of[a]] = "run" => prow[a] = "running"

AllCarried == \A a \in Attempts : Carried(a)

UsageInv == AllTracked /\ AllClosing /\ AllCarried

LEMMA WakeKeepsCarried ==
    ASSUME Types, UsageInv, NEW s \in Sessions,
           \/ StartWake(s) \/ ParentEnds(s) \/ FinishSession(s) \/ BeginStop(s)
           \/ Terminating(s) \/ ForceTerminateSession(s) \/ Keep(s)
           \/ \E f \in Files : ParentWrites(s, f)
    PROVE  AllCarried'
<1> SUFFICES ASSUME NEW v \in Attempts
             PROVE  Carried(v)'
  BY DEF AllCarried
<1> USE DEF Types, WakeTypes, WorkerTypes, UsageInv, AllCarried, Carried
<1>1. att[v] # "none" => of[v] \in Sessions
  BY DEF AllTracked, Tracked
<1>2. CASE StartWake(s)
  <2>1. att[v] # "none" => of[v] # s
    BY <1>2 DEF StartWake, AllClosing, Closing
  <2>2. QED
    BY <1>1, <1>2, <2>1 DEF StartWake, rows, tokens, missed
<1>3. CASE ParentEnds(s)
  BY <1>1, <1>3 DEF ParentEnds, MaySettle, WorkersOf, AtWork, rows, TokenTypes
<1>4. CASE FinishSession(s) \/ BeginStop(s) \/ Keep(s) \/ \E f \in Files : ParentWrites(s, f)
  BY <1>1, <1>4 DEF FinishSession, BeginStop, Keep, BudgetOfStopped, ParentWrites, wake, rows,
     tokens, missed
<1>5. CASE Terminating(s)
  BY <1>1, <1>5 DEF Terminating, Terminate, Running, Alive, WorkersOf, rows, tokens
<1>6. CASE ForceTerminateSession(s)
  BY <1>1, <1>6 DEF ForceTerminateSession, BudgetOfStopped, Counted, tokens, missed
<1>7. QED
  BY <1>2, <1>3, <1>4, <1>5, <1>6

LEMMA WorkerKeepsCarried ==
    ASSUME Types, UsageInv, NEW a \in Attempts,
           \/ Copy(a) \/ MarkRunning(a) \/ Spawn(a) \/ Record(a) \/ Prompt(a) \/ WorkerEnds(a)
           \/ Collect(a) \/ Finish(a) \/ Fault(a) \/ \E b \in BOOLEAN : Account(a, b) \/ Check(a, b)
           \/ \E s \in Sessions : Reserve(a, s)
           \/ \E f \in Files : Import(a, f)
    PROVE  AllCarried'
<1> SUFFICES ASSUME NEW v \in Attempts
             PROVE  Carried(v)'
  BY DEF AllCarried
<1> USE DEF Types, WakeTypes, WorkerTypes, UsageInv, AllCarried, Carried, Goto
<1>1. Tracked(v) /\ Tracked(a)
  BY DEF AllTracked
<1>2. CASE Copy(a) \/ MarkRunning(a) \/ Spawn(a)
  BY <1>1, <1>2 DEF Tracked, Early, Copy, MarkRunning, Spawn, wake, rows, tokens, missed
<1>3. CASE Record(a) \/ Prompt(a) \/ WorkerEnds(a)
  BY <1>1, <1>3 DEF Tracked, Early, Record, Prompt, WorkerEnds, wake, rows, tokens, missed
<1>4. CASE Collect(a) \/ Finish(a) \/ Fault(a)
  BY <1>1, <1>4 DEF Tracked, Early, Collect, Finish, Fault, wake, rows, tokens, missed
<1>5. CASE \E b \in BOOLEAN : Account(a, b) \/ Check(a, b)
  BY <1>1, <1>5 DEF Tracked, Early, Account, Check, wake, rows, tokens, missed
<1>6. CASE \E s \in Sessions : Reserve(a, s)
  BY <1>1, <1>6 DEF Tracked, Early, Reserve, wake, tokens
<1>7. CASE \E f \in Files : Import(a, f)
  BY <1>1, <1>7 DEF Tracked, Early, Import, wake, rows, tokens, missed
<1>8. QED
  BY <1>2, <1>3, <1>4, <1>5, <1>6, <1>7

LEMMA CarriedNext == Types /\ UsageInv /\ [Next]_vars => AllCarried'
<1> SUFFICES ASSUME Types, UsageInv, [Next]_vars
             PROVE  AllCarried'
  OBVIOUS
<1>1. CASE Crash
  <2>1. \A s \in Sessions : step'[s] # "run"
    BY <1>1 DEF Crash, Active, UsageInv, AllClosing, Closing, Opened
  <2>2. QED
    BY <1>1, <2>1 DEF Crash, Types, WorkerTypes, UsageInv, AllCarried, Carried, AllTracked,
       Tracked, rows, missed
<1>2. CASE UNCHANGED vars
  BY <1>2 DEF vars, UsageInv, AllCarried, Carried, wake, rows, tokens, missed
<1>3. QED
  BY <1>1, <1>2, WakeKeepsCarried, WorkerKeepsCarried DEF Next, Terminating

LEMMA UsageInvNext == Types /\ UsageInv /\ [Next]_vars => UsageInv'
BY TrackedNext, ClosingNext, CarriedNext DEF UsageInv

LEMMA UsageInvInit == Init => UsageInv
BY TrackedInit DEF Init, UsageInv, AllClosing, Closing, Opened, AllCarried, Carried

\* What a worker used is charged to its wake, or the reservation stays uncertain, once
\* the wake is closed in whatever way; except for what was still on its way when the
\* wake took the usage, and for what an exception dropped that run_worker does not mark.
THEOREM UsageIsKept == Spec => []UsageKept
<1>1. Types /\ UsageInv => UsageKept
  BY DEF Types, TokenTypes, UsageInv, UsageKept, AllTracked, Tracked, AllClosing, Closing,
     AllCarried, Carried
<1>2. QED
  BY <1>1, TypesInit, TypesNext, UsageInvInit, UsageInvNext, PTL DEF Spec

-----------------------------------------------------------------------------
(* The organization's cap.                                                 *)

\* The slot of an attempt that its wake's termination could know of: it is counted as
\* long as a process may be at work, and none is once the wake's processes were killed.
Slotted(a) ==
    att[a] # "none" /\ a \notin unrecorded \cup unsent =>
        /\ os[a] = "working" => att[a] \in Counted
        /\ pc[a] # "none" /\ step[of[a]] # "closed" => att[a] \in Counted
        /\ step[of[a]] \in {"force", "closed"} =>
              os[a] # "working" /\ pc[a] \notin Early /\ ~(pc[a] = "prompt" /\ os[a] = "idle")

AllSlotted == \A a \in Attempts : Slotted(a)

LEMMA WakeKeepsSlotted ==
    ASSUME Types, UsageInv, AllSlotted, NEW s \in Sessions,
           \/ StartWake(s) \/ ParentEnds(s) \/ FinishSession(s) \/ BeginStop(s)
           \/ Terminating(s) \/ ForceTerminateSession(s) \/ Keep(s)
           \/ \E f \in Files : ParentWrites(s, f)
    PROVE  AllSlotted'
<1> SUFFICES ASSUME NEW v \in Attempts
             PROVE  Slotted(v)'
  BY DEF AllSlotted
<1> USE DEF Types, WakeTypes, WorkerTypes, AllSlotted, Slotted
<1>1. Tracked(v) /\ (att[v] # "none" => of[v] \in Sessions /\ step[of[v]] # "none")
  BY DEF UsageInv, AllTracked, Tracked, AllCarried, Carried
<1>2. CASE StartWake(s)
  <2>1. step[s] = "none"
    BY <1>2 DEF StartWake, UsageInv, AllClosing, Closing
  <2>2. QED
    BY <1>1, <1>2, <2>1 DEF StartWake, rows, missed
<1>3. CASE ParentEnds(s) \/ BeginStop(s) \/ Keep(s) \/ \E f \in Files : ParentWrites(s, f)
  BY <1>1, <1>3 DEF ParentEnds, BeginStop, Keep, ParentWrites, wake, rows, missed
<1>4. CASE FinishSession(s)
  BY <1>1, <1>4 DEF FinishSession, WorkersOf, Tracked, Early, rows, missed
<1>5. CASE Terminating(s)
  BY <1>1, <1>5 DEF Terminating, Terminate, Running, Alive, WorkersOf, AtWork, Tracked, Early, rows
<1>6. CASE ForceTerminateSession(s)
  BY <1>1, <1>6 DEF ForceTerminateSession, WorkersOf, Counted, missed
<1>7. QED
  BY <1>2, <1>3, <1>4, <1>5, <1>6

LEMMA WorkerKeepsSlotted ==
    ASSUME Types, UsageInv, AllSlotted, NEW a \in Attempts,
           \/ Copy(a) \/ MarkRunning(a) \/ Spawn(a) \/ Record(a) \/ Prompt(a) \/ WorkerEnds(a)
           \/ Collect(a) \/ Finish(a) \/ Fault(a) \/ \E b \in BOOLEAN : Account(a, b) \/ Check(a, b)
           \/ \E s \in Sessions : Reserve(a, s)
           \/ \E f \in Files : Import(a, f)
    PROVE  AllSlotted'
<1> SUFFICES ASSUME NEW v \in Attempts
             PROVE  Slotted(v)'
  BY DEF AllSlotted
<1> USE DEF Types, WakeTypes, WorkerTypes, AllSlotted, Slotted, Goto
<1>1. Tracked(v) /\ Tracked(a)
  BY DEF UsageInv, AllTracked
<1>2. CASE Copy(a) \/ MarkRunning(a) \/ Spawn(a)
  BY <1>1, <1>2 DEF Tracked, Early, Counted, Copy, MarkRunning, Spawn, wake, rows, missed
<1>3. CASE Record(a) \/ Prompt(a) \/ WorkerEnds(a)
  BY <1>1, <1>3 DEF Tracked, Early, Record, Prompt, WorkerEnds, wake, rows, missed
<1>4. CASE Collect(a) \/ Finish(a) \/ Fault(a)
  BY <1>1, <1>4 DEF Tracked, Early, Collect, Finish, Fault, wake, rows, missed
<1>5. CASE \E b \in BOOLEAN : Account(a, b) \/ Check(a, b)
  BY <1>1, <1>5 DEF Tracked, Early, Account, Check, wake, rows, missed
<1>6. ASSUME NEW s \in Sessions, Reserve(a, s)
      PROVE  Slotted(v)'
  <2>1. CASE v = a
    <3>1. step[s] # "closed" /\ os[a] = "none"
      BY <1>1, <1>6 DEF Reserve, Tracked
    <3>2. QED
      BY <1>6, <2>1, <3>1 DEF Reserve, Counted, Early, wake
  <2>2. CASE v # a
    BY <1>6, <2>2 DEF Reserve, wake
  <2>3. QED
    BY <2>1, <2>2
<1>7. CASE \E f \in Files : Import(a, f)
  BY <1>1, <1>7 DEF Tracked, Early, Import, wake, rows, missed
<1>8. QED
  BY <1>2, <1>3, <1>4, <1>5, <1>6, <1>7

LEMMA SlottedNext == Types /\ UsageInv /\ AllSlotted /\ [Next]_vars => AllSlotted'
<1> SUFFICES ASSUME Types, UsageInv, AllSlotted, [Next]_vars
             PROVE  AllSlotted'
  OBVIOUS
<1>1. CASE Crash
  <2>1. \A s \in Sessions : step'[s] = step[s] \/ step'[s] = "recover"
    BY <1>1 DEF Crash, Types, WakeTypes
  <2>2. QED
    BY <1>1, <2>1 DEF Crash, Types, WorkerTypes, UsageInv, AllTracked, Tracked, AllSlotted, Slotted,
       Early, rows, missed
<1>2. CASE UNCHANGED vars
  BY <1>2 DEF vars, AllSlotted, Slotted, wake, rows, missed
<1>3. QED
  BY <1>1, <1>2, WakeKeepsSlotted, WorkerKeepsSlotted DEF Next, Terminating

\* The rows that the caps count, less the attempts no termination could know of.
Slots == {a \in Attempts \ (unrecorded \cup unsent) : att[a] \in Counted}

WithinSlots == Cardinality(Active) + Cardinality(Slots) <= GlobalCap

\* Only create_session and reserve_worker take a slot, each under the cap.
LEMMA SlotsTaken ==
    ASSUME Types, UsageInv, AllSlotted, [Next]_vars
    PROVE  \/ Active' \subseteq Active /\ Slots' \subseteq Slots
           \/ \E s \in Sessions : Active' = Active \cup {s} /\ Slots' = Slots /\ Agents < GlobalCap
           \/ \E a \in Attempts : Active' = Active /\ Slots' \subseteq Slots \cup {a}
                                  /\ Agents < GlobalCap
<1> USE DEF Types, WakeTypes, WorkerTypes, Active, Slots
<1>1. ASSUME NEW s \in Sessions, StartWake(s)
      PROVE  Active' = Active \cup {s} /\ Slots' = Slots /\ Agents < GlobalCap
  BY <1>1 DEF StartWake, rows, missed
<1>2. ASSUME NEW s \in Sessions, NEW a \in Attempts, Reserve(a, s)
      PROVE  Active' = Active /\ Slots' \subseteq Slots \cup {a} /\ Agents < GlobalCap
  BY <1>2 DEF Reserve, MayReserve, wake
<1>3. ASSUME NEW s \in Sessions,
             ParentEnds(s) \/ FinishSession(s) \/ BeginStop(s) \/ Terminating(s) \/ Keep(s)
             \/ \E f \in Files : ParentWrites(s, f)
      PROVE  Active' \subseteq Active /\ Slots' \subseteq Slots
  BY <1>3 DEF ParentEnds, FinishSession, BeginStop, Terminating, Terminate, Keep, ParentWrites, wake, rows, missed
<1>4. ASSUME NEW s \in Sessions, ForceTerminateSession(s)
      PROVE  Active' \subseteq Active /\ Slots' \subseteq Slots
  BY <1>4 DEF ForceTerminateSession, Counted, missed
<1>5. ASSUME NEW a \in Attempts, MarkRunning(a)
      PROVE  Active' \subseteq Active /\ Slots' \subseteq Slots
  <2>1. a \notin unrecorded \cup unsent => att[a] \in Counted
    BY <1>5 DEF MarkRunning, UsageInv, AllTracked, Tracked, AllSlotted, Slotted, Early
  <2>2. QED
    BY <1>5, <2>1 DEF MarkRunning, wake, missed
<1>6. ASSUME NEW a \in Attempts, Finish(a)
      PROVE  Active' \subseteq Active /\ Slots' \subseteq Slots
  BY <1>6 DEF Finish, Counted, wake, missed
<1>7. ASSUME UNCHANGED <<sess, att, unrecorded, unsent>>
      PROVE  Active' \subseteq Active /\ Slots' \subseteq Slots
  BY <1>7
<1>8. QED
  BY <1>1, <1>2, <1>3, <1>4, <1>5, <1>6, <1>7
     DEF Next, Terminating, Copy, Spawn, Record, Prompt, WorkerEnds, Collect, Fault, Account, Check,
         Import, Crash, wake, rows, missed, vars

LEMMA WithinSlotsNext ==
    ASSUME IsFiniteSet(Sessions), IsFiniteSet(Attempts)
    PROVE  Types /\ UsageInv /\ AllSlotted /\ WithinSlots /\ [Next]_vars => WithinSlots'
<1> SUFFICES ASSUME Types, UsageInv, AllSlotted, WithinSlots, [Next]_vars
             PROVE  WithinSlots'
  OBVIOUS
<1> DEFINE C == {a \in Attempts : att[a] \in Counted}
<1>1. IsFiniteSet(Active) /\ IsFiniteSet(Slots) /\ IsFiniteSet(C)
  BY FS_Subset DEF Active, Slots
<1>2. Cardinality(Active) \in Nat /\ Cardinality(Slots) \in Nat /\ Cardinality(C) \in Nat
  BY <1>1, FS_CardinalityType
<1>3. Cardinality(Slots) <= Cardinality(C)
  BY <1>1, FS_Subset DEF Slots
<1>4. Agents = Cardinality(Active) + Cardinality(C)
  BY DEF Agents
<1>5. CASE Active' \subseteq Active /\ Slots' \subseteq Slots
  <2>1. Cardinality(Active') <= Cardinality(Active) /\ Cardinality(Slots') <= Cardinality(Slots)
    BY <1>1, <1>5, FS_Subset
  <2>2. Cardinality(Active') \in Nat /\ Cardinality(Slots') \in Nat
    BY <1>1, <1>5, FS_Subset, FS_CardinalityType
  <2>3. QED
    BY <1>2, <2>1, <2>2 DEF WithinSlots
<1>6. ASSUME NEW s \in Sessions, Active' = Active \cup {s}, Slots' = Slots, Agents < GlobalCap
      PROVE  WithinSlots'
  <2>1. Cardinality(Active \cup {s}) =
            IF s \in Active THEN Cardinality(Active) ELSE Cardinality(Active) + 1
    BY <1>1, FS_AddElement
  <2>2. Cardinality(Active \cup {s}) + Cardinality(Slots) <= GlobalCap
    BY <1>2, <1>3, <1>4, <1>6, <2>1
  <2>3. QED
    BY <1>6, <2>2 DEF WithinSlots
<1>7. ASSUME NEW a \in Attempts, Active' = Active, Slots' \subseteq Slots \cup {a}, Agents < GlobalCap
      PROVE  WithinSlots'
  <2>1. IsFiniteSet(Slots \cup {a})
        /\ Cardinality(Slots \cup {a}) = IF a \in Slots THEN Cardinality(Slots) ELSE Cardinality(Slots) + 1
    BY <1>1, FS_AddElement
  <2>2. Cardinality(Slots') <= Cardinality(Slots \cup {a}) /\ Cardinality(Slots') \in Nat
        /\ Cardinality(Slots \cup {a}) \in Nat
    BY <1>7, <2>1, FS_Subset, FS_CardinalityType
  <2>3. Cardinality(Slots \cup {a}) <= Cardinality(Slots) + 1
    BY <1>2, <2>1
  <2>4. Cardinality(Active) + Cardinality(Slots') <= GlobalCap
    BY <1>2, <1>3, <1>4, <1>7, <2>2, <2>3
  <2>5. QED
    BY <1>7, <2>4 DEF WithinSlots
<1>8. QED
  BY <1>5, <1>6, <1>7, SlotsTaken

\* The wakes and the workers at work, counted as processes and not as rows, stay within
\* global_max_agents through crashes, forced ends and unconditional updates of the rows;
\* except for a worker that had no process row when its wake was terminated, or that was
\* reported as terminated without a signal.
THEOREM WithinTheCap ==
    ASSUME IsFiniteSet(Sessions), IsFiniteSet(Attempts)
    PROVE  Spec => []WithinGlobalCap
<1>1. Init => AllSlotted
  BY DEF Init, AllSlotted, Slotted
<1>2. Init => WithinSlots
  <2>1. ASSUME Init
        PROVE  Active = {} /\ Slots = {}
    BY <2>1 DEF Init, Active, Slots, Counted
  <2>2. QED
    BY <2>1, FS_EmptySet DEF WithinSlots
<1>3. Types /\ UsageInv /\ AllSlotted /\ WithinSlots => WithinGlobalCap
  <2> SUFFICES ASSUME Types, UsageInv, AllSlotted, WithinSlots
               PROVE  WithinGlobalCap
    OBVIOUS
  <2> DEFINE W == {a \in Attempts \ (unrecorded \cup unsent) : os[a] = "working"}
  <2>1. W \subseteq Slots
    BY DEF Slots, UsageInv, AllTracked, Tracked, AllSlotted, Slotted
  <2>2. IsFiniteSet(Slots) /\ IsFiniteSet(Active)
    BY FS_Subset DEF Slots, Active
  <2>3. Cardinality(W) <= Cardinality(Slots) /\ Cardinality(W) \in Nat /\ Cardinality(Slots) \in Nat
    BY <2>1, <2>2, FS_Subset, FS_CardinalityType
  <2>4. Cardinality(Active) \in Nat
    BY <2>2, FS_CardinalityType
  <2>5. Cardinality(Active) + Cardinality(W) <= GlobalCap
    BY <2>3, <2>4 DEF WithinSlots
  <2>6. QED
    BY <2>5 DEF WithinGlobalCap
<1>4. QED
  BY <1>1, <1>2, <1>3, TypesInit, TypesNext, UsageInvInit, UsageInvNext, SlottedNext,
     WithinSlotsNext, PTL DEF Spec

=============================================================================
