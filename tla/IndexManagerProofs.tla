-------------------------- MODULE IndexManagerProofs --------------------------
(***************************************************************************)
(* Proofs about IndexManager, for any finite set of paths, any number of   *)
(* snapshots, restarts and failures.                                       *)
(***************************************************************************)
EXTENDS IndexManager, FiniteSetTheorems, WellFoundedInduction, TLAPS

(* A set of paths that is not empty has a first path: applyJob finds one   *)
(* as long as shards are left.                                             *)
LEMMA FirstPath ==
  ASSUME NEW S, S \subseteq Paths, S # {}
  PROVE  \E p \in S : \A q \in S : p <= q
<1> DEFINE Less == OpToRel(<, Nat)
<1>1. S \subseteq Nat
  BY IndexConstants
<1>2. IsWellFoundedOn(Less, Nat)
  BY NatLessThanWellFounded
<1>3. ASSUME NEW p \in Nat, NEW q \in Nat, q < p PROVE <<q, p>> \in Less
  BY <1>3 DEF OpToRel
<1> HIDE DEF Less
<1>4. PICK p \in S : \A q \in S : ~ (<<q, p>> \in Less)
  BY <1>1, <1>2, WFMin, Zenon
<1>5. ASSUME NEW q \in S PROVE p <= q
  <2>1. q \in Nat /\ p \in Nat /\ ~ (<<q, p>> \in Less)
    BY <1>1, <1>4
  <2>2. ~ (q < p)
    BY <1>3, <2>1
  <2> QED BY <2>1, <2>2
<1> QED
  BY <1>5

LEMMA NextPathInTodo ==
  ASSUME todo \subseteq Paths, todo # {}
  PROVE  NextPath \in todo
BY FirstPath DEF NextPath

(* The number of indexed files is a number. *)
LEMMA FileCount ==
  ASSUME NEW S, S \subseteq Paths
  PROVE  Cardinality(S) \in Nat
BY IndexConstants, FS_Subset, FS_CardinalityType

-----------------------------------------------------------------------------
(* Type correctness.                                                       *)

(* A job is active exactly while the worker is busy with one. *)
Busy    == {"writing", "renaming", "retrying", "pruning", "committing",
            "committed", "abandoned"}
JobHeld == activeJob # NoJob <=> worker \in Busy

(* While a shard is being put in place it is still to be written. *)
ShardInHand == worker \in {"renaming", "retrying"} => todo # {}

TInv == TypeOK /\ JobHeld /\ ShardInHand

(* What each update makes of the statistics. *)
LEMMA CountsType ==
  ASSUME NEW st \in Counts, NEW n \in Nat, NEW v \in Versions \cup {NoJob}
  PROVE  /\ [st EXCEPT !.cancelled = @ + n] \in Counts
         /\ [st EXCEPT !.scheduled = @ + 1] \in Counts
         /\ [st EXCEPT !.files = n] \in Counts
         /\ [st EXCEPT !.completed = @ + 1, !.lastCompleted = v, !.files = n] \in Counts
<1>1. /\ st.cancelled + n \in Nat /\ st.scheduled + 1 \in Nat /\ st.completed + 1 \in Nat
  BY DEF Counts
<1>2. [st EXCEPT !.cancelled = @ + n] \in Counts
  BY <1>1 DEF Counts
<1>3. [st EXCEPT !.scheduled = @ + 1] \in Counts
  BY <1>1 DEF Counts
<1>4. [st EXCEPT !.files = n] \in Counts
  BY DEF Counts
<1>5. [st EXCEPT !.completed = @ + 1, !.lastCompleted = v, !.files = n] \in Counts
  BY <1>1 DEF Counts
<1> QED BY <1>2, <1>3, <1>4, <1>5

LEMMA TypeInit == ASSUME Init PROVE TInv
<1> USE IndexConstants DEF Init, NoJob
<1>1. stats \in Counts
  BY DEF NoStats, Counts
<1>2. /\ disk \in [ShardFiles -> Shards \cup {Absent, Damaged}]
      /\ temp \in [ShardFiles -> Shards \cup {Absent}]
  BY Zenon
<1>3. /\ worker \in WorkerStates /\ caller \in CallerStates
      /\ crashes \in 0 .. MaxCrashes /\ faults \in 0 .. MaxFaults
      /\ index \in [Paths -> Versions \cup {NoJob}]
      /\ filesOf \in [Versions -> SUBSET Paths]
  BY DEF WorkerStates, CallerStates, Versions
<1>4. TypeOK
  BY <1>1, <1>2, <1>3 DEF TypeOK, Counts
<1> QED BY <1>4 DEF TInv, JobHeld, ShardInHand, Busy

LEMMA LoadedType ==
  ASSUME NEW d \in [ShardFiles -> Shards \cup {Absent, Damaged}]
  PROVE  LoadedFrom(d) \in [Paths -> Versions \cup {NoJob}]
<1>1. ASSUME NEW p \in Paths, \E f \in ShardFiles : d[f].path = p
      PROVE  (CHOOSE s \in {d[f] : f \in ShardFiles} : s.path = p).version \in Versions
  <2>1. PICK s \in {d[f] : f \in ShardFiles} :
            s = CHOOSE x \in {d[f] : f \in ShardFiles} : x.path = p
    BY <1>1
  <2>2. s.path = p /\ s \in Shards \cup {Absent, Damaged}
    BY <1>1, <2>1
  <2>3. p # 0
    BY IndexConstants
  <2>4. s \in Shards
    BY <2>2, <2>3 DEF Absent, Damaged
  <2>5. s.version \in Versions
    BY <2>4 DEF Shards, Shard
  <2> QED BY <2>1, <2>5
<1> QED BY <1>1 DEF LoadedFrom

(* Every step of the caller keeps the type invariant ... *)
LEMMA CallerType == ASSUME TInv, CallerCalls \/ CallerContinues PROVE TInv'
<1> USE DEF TInv, TypeOK, JobHeld, ShardInHand, Busy, WorkerStates, CallerStates,
        fileVars, indexVars, jobVars, workerVars, callerVars, boundVars, historyVars
<1>1. ASSUME NEW S \in SUBSET Paths, ScheduleRebuild(S) PROVE TInv'
  <2>1. DroppedPending \in Nat /\ stats \in Counts /\ 0 \in Nat
    BY IndexConstants DEF DroppedPending, NoJob
  <2>2. CancelledWith(DroppedPending) \in Counts
    BY <2>1, CountsType, IndexConstants DEF CancelledWith, NoJob
  <2>3. stats' \in Counts
    BY <1>1, <2>2, CountsType, IndexConstants DEF ScheduleRebuild, NoJob
  <2>4. latest' \in Versions /\ filesOf' \in [Versions -> SUBSET Paths]
    BY <1>1, IndexConstants DEF ScheduleRebuild, Versions, NoJob
  <2> QED BY <1>1, <2>3, <2>4 DEF ScheduleRebuild, WakeWorker
<1>2. CASE WaitForSnapshot \/ SnapshotReady \/ SnapshotSleeps \/ SnapshotTimesOut
  BY <1>2 DEF WaitForSnapshot, SnapshotReady, SnapshotSleeps, SnapshotTimesOut
<1>3. CASE BeginRepair
  <2>1. stats' \in Counts
    BY <1>3, CountsType DEF BeginRepair, CancelledWith, DroppedPending
  <2> QED BY <1>3, <2>1 DEF BeginRepair
<1>4. CASE IdleReached \/ IdleSleeps
  BY <1>4 DEF IdleReached, IdleSleeps
<1>5. ASSUME NEW remove \in BOOLEAN, Repair(remove) PROVE TInv'
  <2>1. /\ disk' \in [ShardFiles -> Shards \cup {Absent, Damaged}]
        /\ temp' \in [ShardFiles -> Shards \cup {Absent}]
    BY <1>5 DEF Repair, RepairedDisk, RepairedTemp
  <2>2. /\ index' \in [Paths -> Versions \cup {NoJob}]
        /\ indexedPaths' \subseteq Paths
    BY <1>5, <2>1, LoadedType DEF Repair, PathsIn
  <2>3. Cardinality(indexedPaths') \in Nat
    BY <2>2, FileCount
  <2>4. stats' \in Counts
    BY <1>5, <2>3, CountsType DEF Repair
  <2> QED BY <1>5, <2>1, <2>2, <2>4 DEF Repair
<1>6. CASE ShutdownMark \/ ShutdownNotify \/ ShutdownJoin
  BY <1>6 DEF ShutdownMark, ShutdownNotify, ShutdownJoin, WakeWorker
<1> QED
  BY <1>1, <1>2, <1>3, <1>4, <1>5, <1>6 DEF CallerCalls, CallerContinues

(* ... so does every step of the worker ... *)
LEMMA WorkerType == ASSUME TInv, WorkerStep PROVE TInv'
<1> USE DEF TInv, TypeOK, JobHeld, ShardInHand, Busy, WorkerStates, CallerStates,
        fileVars, indexVars, jobVars, workerVars, callerVars, boundVars, historyVars
<1>1. CASE WorkerBlocks \/ WorkerExits \/ TakeJob \/ AbandonJob
  <2>1. CASE WorkerBlocks
    BY <2>1 DEF WorkerBlocks
  <2>2. CASE WorkerExits
    BY <2>2 DEF WorkerExits
  <2>3. CASE TakeJob
    BY <2>3 DEF TakeJob, PendingTaken
  <2>4. CASE AbandonJob
    BY <2>4 DEF AbandonJob
  <2> QED BY <1>1, <2>1, <2>2, <2>3, <2>4
<1>2. CASE WriteTemp
  <2>1. NextPath \in Paths
    BY <1>2, NextPathInTodo DEF WriteTemp
  <2>2. activeJob \in Versions
    BY <1>2 DEF WriteTemp
  <2>3. Shard(NextPath, activeJob) \in Shards
    BY <2>1, <2>2 DEF Shards
  <2>4. temp' \in [ShardFiles -> Shards \cup {Absent}]
    BY <1>2, <2>3 DEF WriteTemp
  <2>5. worker' \in Busy /\ worker' \in WorkerStates /\ todo' = todo
    BY <1>2 DEF WriteTemp
  <2> QED BY <1>2, <2>2, <2>4, <2>5 DEF WriteTemp, TargetUntouched
<1>3. CASE RenameTemp \/ RetryFails
  BY <1>3 DEF RenameTemp, RetryFails, Wrote
<1>4. CASE FindStale \/ (\E p \in Paths : RemoveStale(p)) \/ LastCheck
  BY <1>4 DEF FindStale, RemoveStale, LastCheck, StalePaths
<1>5. CASE Commit
  BY <1>5 DEF Commit, SnapshotIndex, CommittedPaths
<1>6. CASE Report
  <2>1. Cardinality(PathsIn(index)) \in Nat
    BY FileCount DEF PathsIn
  <2>2. stats' \in Counts
    BY <1>6, <2>1, CountsType DEF Report, CompletedStats, CancelledWith
  <2>3. JobHeld' /\ ShardInHand'
    BY <1>6 DEF Report
  <2>4. TypeOK'
    BY <1>6, <2>2 DEF Report
  <2> QED BY <2>3, <2>4
<1>7. CASE NotifyCaller
  BY <1>7 DEF NotifyCaller, WokenCaller
<1> QED
  BY <1>1, <1>2, <1>3, <1>4, <1>5, <1>6, <1>7 DEF WorkerStep

(* ... every failure of the file system, and every restart. *)
LEMMA EnvironmentType == ASSUME TInv, FileFault \/ Restart PROVE TInv'
<1> USE DEF TInv, TypeOK, JobHeld, ShardInHand, Busy, WorkerStates, CallerStates,
        fileVars, indexVars, jobVars, workerVars, callerVars, boundVars, historyVars
<1>1. CASE WriteFails \/ RenameFails
  <2>1. NextPath \in Paths
    BY <1>1, NextPathInTodo DEF WriteFails, RenameFails
  <2>2. CASE WriteFails
    <3>1. faults' \in 0 .. MaxFaults /\ excused' \subseteq Paths
      BY <2>1, <2>2, IndexConstants DEF WriteFails, Fault
    <3>2. temp' \in [ShardFiles -> Shards \cup {Absent}]
      BY <2>2 DEF WriteFails
    <3> QED BY <2>2, <3>1, <3>2 DEF WriteFails, Wrote
  <2>3. CASE RenameFails
    <3>1. faults' \in 0 .. MaxFaults /\ excused' \subseteq Paths
      BY <2>1, <2>3, IndexConstants DEF RenameFails, Fault
    <3>2. disk' \in [ShardFiles -> Shards \cup {Absent, Damaged}]
      BY <2>3 DEF RenameFails
    <3> QED BY <2>3, <3>1, <3>2 DEF RenameFails
  <2> QED BY <1>1, <2>2, <2>3
<1>2. ASSUME NEW p \in Paths, DamageShard(p) PROVE TInv'
  <2>1. faults' \in 0 .. MaxFaults /\ excused' \subseteq Paths
    BY <1>2, IndexConstants DEF DamageShard, Fault
  <2>2. disk' \in [ShardFiles -> Shards \cup {Absent, Damaged}]
    BY <1>2 DEF DamageShard
  <2> QED BY <1>2, <2>1, <2>2 DEF DamageShard
<1>3. CASE Restart
  <2>1. index' \in [Paths -> Versions \cup {NoJob}] /\ indexedPaths' \subseteq Paths
    BY <1>3, LoadedType DEF Restart, WarmStart, PathsIn
  <2>2. Cardinality(indexedPaths') \in Nat
    BY <2>1, FileCount
  <2>3. stats' \in Counts
    BY <1>3, <2>2, IndexConstants DEF Restart, WarmStart, NoStats, NoJob, Counts, Versions
  <2>4. dropped' \subseteq Versions /\ crashes' \in 0 .. MaxCrashes
    BY <1>3, IndexConstants DEF Restart, NoJob, Versions
  <2> QED BY <1>3, <2>1, <2>3, <2>4 DEF Restart
<1> QED BY <1>1, <1>2, <1>3 DEF FileFault

LEMMA TypeStep == ASSUME TInv, [Next]_vars PROVE TInv'
<1>1. CASE UNCHANGED vars
  BY <1>1 DEF TInv, TypeOK, JobHeld, ShardInHand, vars, fileVars, indexVars, jobVars, workerVars,
              callerVars, boundVars, historyVars
<1> QED
  BY <1>1, CallerType, WorkerType, EnvironmentType DEF Next

(* The variables of the manager keep their types, and its active job is    *)
(* there exactly while the worker is busy with it (Impl's data members).   *)
THEOREM TypeCorrect == Spec => []TypeOK
<1>1. Init => TInv
  BY TypeInit
<1>2. TInv /\ [Next]_vars => TInv'
  BY TypeStep
<1>3. TInv => TypeOK
  BY DEF TInv
<1> QED
  BY <1>1, <1>2, <1>3, PTL DEF Spec

-----------------------------------------------------------------------------
(* The inductive invariant.                                                *)

(* Only the caller schedules jobs, and it does so only while it is idle.   *)
CallerAlone ==
    /\ caller = "repairing" => activeJob = NoJob /\ pendingJob = NoJob
    /\ stopping => caller \in {"marked", "joining", "stopped"}

(* Versions grow from what was completed through what is indexed and what  *)
(* is being written to what waits.                                         *)
JobsOrdered ==
    /\ activeJob <= latest /\ pendingJob <= latest /\ origin <= latest
    /\ stats.lastCompleted <= latest
    /\ pendingJob # NoJob =>
         pendingJob > activeJob /\ pendingJob > origin /\ pendingJob > stats.lastCompleted
    /\ activeJob # NoJob => activeJob > stats.lastCompleted
    /\ activeJob # NoJob /\ worker # "committed" => activeJob > origin
    /\ worker = "committed" => origin = activeJob
    /\ origin # NoJob => origin >= stats.lastCompleted
    /\ confirmed <= stats.lastCompleted

(* What applyJob has still to write or remove.                             *)
WorkLeft ==
    /\ worker \in {"writing", "renaming", "retrying"} => todo \subseteq filesOf[activeJob]
    /\ worker \in {"pruning", "committing", "committed"} => todo = {}
    /\ worker = "pruning" => stale \cap filesOf[activeJob] = {}

(* What it has already written is on disk, and the temporary file it is    *)
(* about to rename is the right one.                                       *)
WrittenIsOnDisk ==
    worker \in Busy \ {"abandoned"} =>
        \A p \in filesOf[activeJob] \ (todo \cup excused) :
            disk[ShardFileOf[p]] = Shard(p, activeJob)

TempIsReady ==
    /\ worker \in {"renaming", "retrying"} =>
         temp[ShardFileOf[NextPath]] = Shard(NextPath, activeJob)
    /\ worker = "retrying" => NextPath \in excused

Order == TInv /\ CallerAlone /\ JobsOrdered

(* Every path has a shard file of its own: shardPathFor maps no two paths  *)
(* of the workspace to one.                                                *)
SeparateFiles ==
    \A p, q \in Paths : ShardFileOf[p] = ShardFileOf[q] => p = q

LEMMA OrderInit == ASSUME Init PROVE Order
<1>1. TInv
  BY TypeInit
<1>2. /\ caller = "idle" /\ stopping = FALSE /\ worker = "atWait"
      /\ activeJob = 0 /\ pendingJob = 0 /\ origin = 0 /\ latest = 0 /\ confirmed = 0
      /\ stats.lastCompleted = 0
  BY DEF Init, NoStats, NoJob
<1> QED BY <1>1, <1>2 DEF Order, CallerAlone, JobsOrdered, NoJob

(* No call of the caller disturbs the order ... *)
LEMMA CallerOrder == ASSUME Order, TInv', CallerCalls \/ CallerContinues PROVE Order'
<1> USE DEF Order, CallerAlone, JobsOrdered, NoJob, fileVars, indexVars, jobVars, workerVars,
        callerVars, boundVars, historyVars
<1>t. /\ activeJob \in Nat /\ pendingJob \in Nat /\ origin \in Nat /\ latest \in Nat
      /\ stats.lastCompleted \in Nat /\ confirmed \in Nat /\ awaited \in Nat
      /\ stats \in Counts
  BY IndexConstants, SMTT(30) DEF TInv, TypeOK, Counts, Versions
<1>1. ASSUME NEW S \in SUBSET Paths, ScheduleRebuild(S) PROVE Order'
  <2>1. stats'.lastCompleted = stats.lastCompleted
    BY <1>1, <1>t DEF ScheduleRebuild, CancelledWith, Counts
  <2>2. worker' = "committed" <=> worker = "committed"
    BY <1>1 DEF ScheduleRebuild, WakeWorker
  <2>3. /\ latest' = latest + 1 /\ pendingJob' = latest' /\ caller = "idle"
        /\ UNCHANGED <<activeJob, origin, confirmed, caller, stopping>>
    BY <1>1 DEF ScheduleRebuild
  <2>4. JobsOrdered'
    BY <1>t, <2>1, <2>2, <2>3
  <2> QED BY <2>3, <2>4
<1>2. CASE WaitForSnapshot \/ SnapshotReady \/ SnapshotSleeps \/ SnapshotTimesOut
  BY <1>2, <1>t DEF WaitForSnapshot, SnapshotReady, SnapshotSleeps, SnapshotTimesOut, SnapshotIsIndexed
<1>3. CASE BeginRepair
  <2>1. stats'.lastCompleted = stats.lastCompleted
    BY <1>3, <1>t DEF BeginRepair, CancelledWith, Counts
  <2> QED BY <1>3, <1>t, <2>1 DEF BeginRepair
<1>4. CASE IdleReached \/ IdleSleeps
  BY <1>4, <1>t DEF IdleReached, IdleSleeps, WorkerIsIdle
<1>5. ASSUME NEW remove \in BOOLEAN, Repair(remove) PROVE Order'
  <2>1. stats'.lastCompleted = stats.lastCompleted
    BY <1>5, <1>t DEF Repair, Counts
  <2>2. worker # "committed"
    BY <1>5 DEF Repair, TInv, JobHeld, Busy
  <2> QED BY <1>5, <1>t, <2>1, <2>2 DEF Repair
<1>6. CASE ShutdownMark \/ ShutdownNotify \/ ShutdownJoin
  BY <1>6, <1>t DEF ShutdownMark, ShutdownNotify, ShutdownJoin, WakeWorker
<1> QED
  BY <1>1, <1>2, <1>3, <1>4, <1>5, <1>6 DEF CallerCalls, CallerContinues

(* ... nor does the worker, though it commits without looking at its flag  *)
(* again ...                                                               *)
LEMMA WorkerOrder == ASSUME Order, TInv', WorkerStep PROVE Order'
<1> USE DEF Order, CallerAlone, JobsOrdered, NoJob, fileVars, indexVars, jobVars, workerVars,
        callerVars, boundVars, historyVars
<1>t. /\ activeJob \in Nat /\ pendingJob \in Nat /\ origin \in Nat /\ latest \in Nat
      /\ stats.lastCompleted \in Nat /\ confirmed \in Nat
      /\ stats \in Counts
  BY IndexConstants DEF TInv, TypeOK, Counts, Versions
<1>1. CASE WorkerBlocks \/ WorkerExits \/ AbandonJob
  BY <1>1, <1>t DEF WorkerBlocks, WorkerExits, AbandonJob
<1>2. CASE TakeJob
  <2>1. activeJob = NoJob
    BY <1>2 DEF TakeJob, TInv, JobHeld, Busy
  <2> QED BY <1>2, <1>t, <2>1 DEF TakeJob, PendingTaken
<1>3. CASE WriteTemp \/ RenameTemp \/ RetryFails
  BY <1>3, <1>t DEF WriteTemp, RenameTemp, RetryFails, Wrote
<1>4. CASE FindStale \/ (\E p \in Paths : RemoveStale(p)) \/ LastCheck
  BY <1>4, <1>t DEF FindStale, RemoveStale, LastCheck
<1>5. CASE Commit
  <2>1. activeJob # NoJob
    BY <1>5 DEF Commit, TInv, JobHeld, Busy
  <2> QED BY <1>5, <1>t, <2>1 DEF Commit
<1>6. CASE Report
  <2>1. stats'.lastCompleted = IF worker = "committed" THEN activeJob ELSE stats.lastCompleted
    BY <1>6, <1>t DEF Report, CompletedStats, CancelledWith, Counts
  <2>2. activeJob # NoJob
    BY <1>6 DEF Report, TInv, JobHeld, Busy
  <2> QED BY <1>6, <1>t, <2>1, <2>2 DEF Report
<1>7. CASE NotifyCaller
  BY <1>7, <1>t DEF NotifyCaller, WokenCaller
<1> QED
  BY <1>1, <1>2, <1>3, <1>4, <1>5, <1>6, <1>7 DEF WorkerStep

(* ... and a restart begins anew. *)
LEMMA EnvironmentOrder == ASSUME Order, TInv', FileFault \/ Restart PROVE Order'
<1> USE DEF Order, CallerAlone, JobsOrdered, NoJob, fileVars, indexVars, jobVars, workerVars,
        callerVars, boundVars, historyVars
<1>t. /\ latest \in Nat /\ stats \in Counts
  BY IndexConstants DEF TInv, TypeOK, Counts, Versions
<1>1. CASE FileFault
  BY <1>1 DEF FileFault, WriteFails, RenameFails, DamageShard, Wrote, Fault
<1>2. CASE Restart
  <2>1. stats'.lastCompleted = 0
    BY <1>2 DEF Restart, WarmStart, NoStats
  <2> QED BY <1>2, <1>t, <2>1 DEF Restart
<1> QED BY <1>1, <1>2

(* So no step of the manager does. *)
LEMMA OrderStep == ASSUME Order, [Next]_vars PROVE Order'
<1>1. TInv'
  BY TypeStep DEF Order
<1>2. CASE UNCHANGED vars
  BY <1>1, <1>2 DEF Order, CallerAlone, JobsOrdered, vars, fileVars, indexVars, jobVars,
                    workerVars, callerVars, boundVars, historyVars
<1> QED
  BY <1>1, <1>2, CallerOrder, WorkerOrder, EnvironmentOrder DEF Next

(* A job being written is newer than whatever was completed or committed,  *)
(* and a pending one newer still: scheduleRebuild and workerLoop pass jobs *)
(* on in the order of their versions, and shutdown and repair are the only *)
(* calls that stop it.                                                     *)
THEOREM Ordered == Spec => []Order
<1>1. Init => Order
  BY OrderInit
<1>2. Order /\ [Next]_vars => Order'
  BY OrderStep
<1> QED
  BY <1>1, <1>2, PTL DEF Spec

(* A snapshot that waitForSnapshot confirmed stays visible to queries: the *)
(* index is never set back behind it by a job cancelled too late.          *)
THEOREM Confirmed == Spec => []ConfirmedIsVisible
<1>1. Order => ConfirmedIsVisible
  <2>1. Order => origin \in Nat /\ confirmed \in Nat /\ stats.lastCompleted \in Nat
    BY IndexConstants DEF Order, TInv, TypeOK, Counts, Versions, NoJob
  <2> QED BY <2>1 DEF Order, JobsOrdered, ConfirmedIsVisible
<1> QED
  BY <1>1, Ordered, PTL

(* Snapshots are committed in the order in which they were scheduled. *)
THEOREM Advancing == Spec => CommitsAdvance
<1>1. Order /\ [Next]_vars =>
        [worker = "committing" /\ worker' = "committed" => origin' > stats.lastCompleted]_vars
  <2> SUFFICES ASSUME Order, [Next]_vars, worker = "committing", worker' = "committed"
               PROVE  origin' > stats.lastCompleted
    OBVIOUS
  <2>1. Order'
    BY OrderStep
  <2>2. activeJob # NoJob /\ activeJob > stats.lastCompleted
    BY DEF Order, TInv, JobHeld, JobsOrdered, Busy
  <2>3. activeJob' = activeJob
    <3>1. CASE UNCHANGED vars
      BY <3>1 DEF vars, jobVars
    <3>2. CASE CallerCalls \/ CallerContinues
      BY <3>2 DEF CallerCalls, CallerContinues, jobVars, ScheduleRebuild, WaitForSnapshot,
                  BeginRepair, ShutdownMark, SnapshotReady, SnapshotSleeps,
                  SnapshotTimesOut, IdleReached, IdleSleeps, Repair, ShutdownNotify,
                  ShutdownJoin
    <3>3. CASE WorkerStep
      BY <3>3 DEF WorkerStep, jobVars, WorkerBlocks, WorkerExits, TakeJob, AbandonJob,
                  WriteTemp, RenameTemp, RetryFails, FindStale, RemoveStale, LastCheck,
                  Commit, Report, NotifyCaller
    <3>4. CASE FileFault
      BY <3>4 DEF FileFault, jobVars, WriteFails, RenameFails, DamageShard
    <3>5. CASE Restart
      BY <3>5 DEF Restart
    <3> QED BY <3>1, <3>2, <3>3, <3>4, <3>5 DEF Next
  <2>4. activeJob \in Nat /\ stats.lastCompleted \in Nat
    BY IndexConstants DEF Order, TInv, TypeOK, Counts, Versions, NoJob
  <2>5. origin' = activeJob'
    BY <2>1 DEF Order, JobsOrdered
  <2> QED BY <2>2, <2>3, <2>4, <2>5
<1> QED
  BY <1>1, Ordered, PTL DEF Spec, CommitsAdvance

-----------------------------------------------------------------------------
(* The counters.                                                           *)

LEMMA JobsInit == ASSUME Init PROVE JobsConserved
BY DEF Init, JobsConserved, NoStats, NoJob

LEMMA JobsStep == ASSUME Order, JobsConserved, [Next]_vars PROVE JobsConserved'
<1> USE DEF fileVars, indexVars, jobVars, workerVars, callerVars, boundVars, historyVars
<1> DEFINE Same == UNCHANGED <<stats, pendingJob, activeJob>>
<1>t. /\ stats \in Counts /\ stats.scheduled \in Nat /\ stats.completed \in Nat
      /\ stats.cancelled \in Nat /\ activeJob \in Nat /\ pendingJob \in Nat /\ latest \in Nat
  BY IndexConstants DEF Order, TInv, TypeOK, Counts, Versions, NoJob
<1>0. ASSUME Same PROVE JobsConserved'
  BY <1>0 DEF JobsConserved
<1>1. ASSUME NEW S \in SUBSET Paths, ScheduleRebuild(S) PROVE JobsConserved'
  <2>1. /\ stats'.scheduled = stats.scheduled + 1 /\ stats'.completed = stats.completed
        /\ stats'.cancelled = stats.cancelled + DroppedPending
    BY <1>1, <1>t DEF ScheduleRebuild, CancelledWith, Counts
  <2>2. pendingJob' # NoJob /\ activeJob' = activeJob
    BY <1>1, <1>t DEF ScheduleRebuild, NoJob
  <2> QED BY <2>1, <2>2, <1>t DEF JobsConserved, DroppedPending
<1>2. CASE BeginRepair
  <2>1. /\ stats'.scheduled = stats.scheduled /\ stats'.completed = stats.completed
        /\ stats'.cancelled = stats.cancelled + DroppedPending
    BY <1>2, <1>t DEF BeginRepair, CancelledWith, Counts
  <2> QED BY <1>2, <2>1, <1>t DEF BeginRepair, JobsConserved, DroppedPending
<1>3. CASE WaitForSnapshot \/ SnapshotReady \/ SnapshotSleeps \/ SnapshotTimesOut
           \/ IdleReached \/ IdleSleeps \/ ShutdownMark \/ ShutdownNotify \/ ShutdownJoin
  BY <1>0, <1>3 DEF WaitForSnapshot, SnapshotReady, SnapshotSleeps, SnapshotTimesOut,
                    IdleReached, IdleSleeps, ShutdownMark, ShutdownNotify, ShutdownJoin
<1>4. ASSUME NEW remove \in BOOLEAN, Repair(remove) PROVE JobsConserved'
  <2>1. /\ stats'.scheduled = stats.scheduled /\ stats'.completed = stats.completed
        /\ stats'.cancelled = stats.cancelled
    BY <1>4, <1>t DEF Repair, Counts
  <2> QED BY <1>4, <2>1 DEF Repair, JobsConserved
<1>5. CASE TakeJob
  <2>1. activeJob = NoJob
    BY <1>5 DEF TakeJob, Order, TInv, JobHeld, Busy
  <2> QED BY <1>5, <2>1, <1>t DEF TakeJob, PendingTaken, JobsConserved, NoJob
<1>6. CASE Report
  <2>1. activeJob # NoJob
    BY <1>6 DEF Report, Order, TInv, JobHeld, Busy
  <2>2. /\ stats'.scheduled = stats.scheduled
        /\ stats'.completed + stats'.cancelled = stats.completed + stats.cancelled + 1
        /\ stats'.completed \in Nat /\ stats'.cancelled \in Nat
    BY <1>6, <1>t DEF Report, CompletedStats, CancelledWith, Counts
  <2> QED BY <1>6, <2>1, <2>2, <1>t DEF Report, JobsConserved
<1>7. CASE WorkerBlocks \/ WorkerExits \/ AbandonJob \/ WriteTemp \/ RenameTemp \/ RetryFails
           \/ FindStale \/ (\E p \in Paths : RemoveStale(p)) \/ LastCheck \/ Commit
           \/ NotifyCaller
  BY <1>0, <1>7 DEF WorkerBlocks, WorkerExits, AbandonJob, WriteTemp, RenameTemp, RetryFails,
                    FindStale, RemoveStale, LastCheck, Commit, NotifyCaller
<1>8. CASE FileFault \/ UNCHANGED vars
  BY <1>0, <1>8 DEF FileFault, WriteFails, RenameFails, DamageShard, vars
<1>9. CASE Restart
  BY <1>9 DEF Restart, WarmStart, NoStats, JobsConserved, NoJob
<1> QED
  BY <1>1, <1>2, <1>3, <1>4, <1>5, <1>6, <1>7, <1>8, <1>9
     DEF Next, CallerCalls, CallerContinues, WorkerStep

(* Every job scheduled is counted exactly once (IndexManagerStats). *)
THEOREM Conserved == Spec => []JobsConserved
<1>1. Init => JobsConserved
  BY JobsInit
<1>2. Order /\ JobsConserved /\ [Next]_vars => JobsConserved'
  BY JobsStep
<1> QED
  BY <1>1, <1>2, Ordered, PTL DEF Spec

-----------------------------------------------------------------------------
(* The index in memory.                                                    *)

(* A snapshot's index lists the files of the snapshot. *)
LEMMA SnapshotPaths ==
  ASSUME NEW v \in Versions, filesOf[v] \subseteq Paths
  PROVE  PathsIn(SnapshotIndex(v)) = filesOf[v]
BY DEF PathsIn, SnapshotIndex, Versions, NoJob

(* A version that was given to a job taken already, if to any.             *)
NotAhead(v) == v <= latest /\ (pendingJob # NoJob => v < pendingJob)

(* No file and no entry of the index is of a job that waits, and no entry  *)
(* is of the job being applied.                                            *)
FilesNotAhead ==
    \A f \in ShardFiles :
        /\ disk[f] \in Shards => NotAhead(disk[f].version)
        /\ temp[f] \in Shards => NotAhead(temp[f].version)
IndexNotAhead ==
    /\ \A p \in Paths : NotAhead(index[p])
    /\ Applying => \A p \in Paths : index[p] < activeJob

Ages == FilesNotAhead /\ IndexNotAhead

(* What loadAllShards finds for a path is the version of a shard on disk.  *)
LEMMA LoadedVersion ==
  ASSUME NEW d \in [ShardFiles -> Shards \cup {Absent, Damaged}], NEW p \in Paths
  PROVE  \/ LoadedFrom(d)[p] = NoJob
         \/ \E f \in ShardFiles : d[f] \in Shards /\ LoadedFrom(d)[p] = d[f].version
<1>1. CASE \E f \in ShardFiles : d[f].path = p
  <2>1. PICK s \in {d[f] : f \in ShardFiles} :
            s = CHOOSE x \in {d[f] : f \in ShardFiles} : x.path = p
    BY <1>1
  <2>2. PICK f \in ShardFiles : s = d[f]
    BY <2>1
  <2>3. s.path = p
    BY <1>1, <2>1
  <2>4. p # 0
    BY IndexConstants
  <2>5. d[f] \in Shards
    BY <2>2, <2>3, <2>4 DEF Absent, Damaged
  <2>6. LoadedFrom(d)[p] = s.version
    BY <1>1, <2>1 DEF LoadedFrom
  <2> QED BY <2>2, <2>5, <2>6
<1>2. CASE ~ \E f \in ShardFiles : d[f].path = p
  BY <1>2 DEF LoadedFrom
<1> QED BY <1>1, <1>2

(* A shard has a path and a version, unlike what stands for no shard. *)
LEMMA ShardFields ==
  ASSUME NEW s \in Shards
  PROVE  s.path \in Paths /\ s.version \in Nat /\ s # Absent /\ s # Damaged
<1>1. PICK p \in Paths, v \in Versions : s = Shard(p, v)
  BY DEF Shards
<1>2. s.path = p /\ s.version = v
  BY <1>1 DEF Shard
<1>3. Absent.path = 0 /\ Damaged.path = 0 /\ 0 \notin Paths /\ v \in Nat
  BY IndexConstants DEF Absent, Damaged, Versions
<1> QED BY <1>2, <1>3

LEMMA AgesInit == ASSUME Init PROVE Ages
<1>1. Absent \notin Shards
  BY ShardFields
<1> QED
  BY <1>1 DEF Init, Ages, FilesNotAhead, IndexNotAhead, NotAhead, Applying, NoJob

(* The index and the files stay behind the jobs to come: a job's shards    *)
(* get there only through the worker, and into the index only when it      *)
(* commits them or, the job being over, a repair or a restart loads them.  *)
LEMMA AgesStep == ASSUME Order, Ages, [Next]_vars PROVE Ages'
<1> USE DEF Ages, FilesNotAhead, IndexNotAhead, NotAhead, Applying, NoJob,
        fileVars, indexVars, jobVars, workerVars, callerVars, boundVars, historyVars
<1>t. /\ activeJob \in Nat /\ pendingJob \in Nat /\ latest \in Nat
      /\ disk \in [ShardFiles -> Shards \cup {Absent, Damaged}]
      /\ temp \in [ShardFiles -> Shards \cup {Absent}]
      /\ index \in [Paths -> Versions \cup {NoJob}]
      /\ Versions \cup {NoJob} \subseteq Nat
      /\ todo \subseteq Paths
  BY IndexConstants DEF Order, TInv, TypeOK, Versions
<1>s. /\ Absent \notin Shards /\ Damaged \notin Shards
      /\ \A s \in Shards : s.version \in Nat
  BY ShardFields
<1>f. \A p \in Paths : ShardFileOf[p] \in ShardFiles
  BY DEF ShardFiles
<1>v. activeJob <= latest /\ (pendingJob # NoJob => activeJob < pendingJob)
  BY DEF Order, JobsOrdered
<1>1. ASSUME NEW S \in SUBSET Paths, ScheduleRebuild(S) PROVE Ages'
  <2>1. /\ UNCHANGED <<disk, temp, index, activeJob>>
        /\ latest' = latest + 1 /\ pendingJob' = latest'
        /\ Applying' => Applying
    BY <1>1 DEF ScheduleRebuild, WakeWorker
  <2> QED BY <1>t, <1>s, <2>1
<1>2. CASE WaitForSnapshot \/ SnapshotReady \/ SnapshotSleeps \/ SnapshotTimesOut
           \/ BeginRepair \/ IdleReached \/ IdleSleeps
           \/ ShutdownMark \/ ShutdownNotify \/ ShutdownJoin
  <2>1. /\ UNCHANGED <<disk, temp, index, activeJob, latest>>
        /\ pendingJob' \in {pendingJob, NoJob}
        /\ Applying' => Applying
    BY <1>2 DEF WaitForSnapshot, SnapshotReady, SnapshotSleeps, SnapshotTimesOut,
                BeginRepair, IdleReached, IdleSleeps, ShutdownMark, ShutdownNotify,
                ShutdownJoin, WakeWorker
  <2> QED BY <2>1
<1>3. ASSUME NEW remove \in BOOLEAN, Repair(remove) PROVE Ages'
  <2>1. ~Applying'
    BY <1>3 DEF Repair, Order, CallerAlone, TInv, JobHeld, Busy
  <2>2. \A f \in ShardFiles : disk'[f] \in {disk[f], Absent} /\ temp'[f] \in {temp[f], Absent}
    BY <1>3 DEF Repair, RepairedDisk, RepairedTemp
  <2>3. disk' \in [ShardFiles -> Shards \cup {Absent, Damaged}]
    BY <1>3, <1>t DEF Repair, RepairedDisk
  <2>4. UNCHANGED <<latest, pendingJob>> /\ index' = LoadedFrom(disk')
    BY <1>3 DEF Repair
  <2>5. FilesNotAhead'
    BY <1>s, <2>2, <2>4
  <2>6. ASSUME NEW p \in Paths PROVE NotAhead(index[p])'
    BY <1>t, <2>3, <2>4, <2>5, LoadedVersion
  <2> QED BY <2>1, <2>5, <2>6
<1>4. CASE TakeJob
  BY <1>4, <1>t DEF TakeJob, PendingTaken
<1>5. CASE WriteTemp
  <2>1. NextPath \in Paths
    BY <1>5, <1>t, NextPathInTodo DEF WriteTemp
  <2>2. /\ disk' = disk
        /\ temp' = [temp EXCEPT ![ShardFileOf[NextPath]] = Shard(NextPath, activeJob)]
        /\ UNCHANGED <<index, latest, pendingJob, activeJob>> /\ Applying
    BY <1>5 DEF WriteTemp, TargetUntouched
  <2>3. \A f \in ShardFiles : temp'[f] \in {temp[f], Shard(NextPath, activeJob)}
    BY <1>t, <2>2
  <2>4. Shard(NextPath, activeJob).version = activeJob
    BY DEF Shard
  <2> QED BY <1>v, <2>2, <2>3, <2>4
<1>6. CASE RenameTemp
  <2>1. NextPath \in Paths
    BY <1>6, <1>t, NextPathInTodo DEF RenameTemp, Order, TInv, ShardInHand
  <2>2. /\ \A f \in ShardFiles : disk'[f] \in {disk[f], temp[f]} /\ temp'[f] \in {temp[f], Absent}
        /\ UNCHANGED <<index, latest, pendingJob, activeJob>> /\ Applying
    BY <1>6, <1>t, <1>f, <2>1 DEF RenameTemp
  <2> QED BY <1>s, <2>2
<1>7. CASE Commit
  <2>1. /\ UNCHANGED <<disk, temp, latest, pendingJob, activeJob>> /\ ~Applying'
        /\ \A p \in Paths : index'[p] \in {activeJob, NoJob}
    BY <1>7 DEF Commit, SnapshotIndex
  <2> QED BY <1>t, <1>v, <2>1
<1>8. CASE WorkerBlocks \/ WorkerExits \/ AbandonJob \/ RetryFails \/ FindStale
           \/ (\E p \in Paths : RemoveStale(p)) \/ LastCheck \/ Report \/ NotifyCaller
  <2>1. /\ UNCHANGED <<index, latest, pendingJob>>
        /\ Applying' => Applying /\ activeJob' = activeJob
        /\ \A f \in ShardFiles : disk'[f] \in {disk[f], Absent} /\ temp'[f] \in {temp[f], Absent}
    BY <1>8, <1>t DEF WorkerBlocks, WorkerExits, AbandonJob, RetryFails, Wrote, FindStale,
                      RemoveStale, LastCheck, Report, NotifyCaller
  <2> QED BY <1>s, <2>1
<1>9. CASE FileFault
  <2>1. /\ UNCHANGED <<index, latest, pendingJob, activeJob>>
        /\ Applying' => Applying
        /\ \A f \in ShardFiles : disk'[f] \in {disk[f], Absent, Damaged} /\ temp'[f] \in {temp[f], Absent}
    BY <1>9, <1>t DEF FileFault, WriteFails, Wrote, RenameFails, DamageShard
  <2> QED BY <1>s, <2>1
<1>10. CASE Restart
  <2>1. /\ UNCHANGED <<disk, temp, latest>> /\ pendingJob' = NoJob /\ ~Applying'
        /\ index' = LoadedFrom(disk)
    BY <1>10 DEF Restart, WarmStart
  <2>2. ASSUME NEW p \in Paths PROVE NotAhead(index[p])'
    BY <1>t, <2>1, LoadedVersion
  <2> QED BY <2>1, <2>2
<1>11. CASE UNCHANGED vars
  BY <1>11 DEF vars
<1> QED
  BY <1>1, <1>2, <1>3, <1>4, <1>5, <1>6, <1>7, <1>8, <1>9, <1>10, <1>11
     DEF Next, CallerCalls, CallerContinues, WorkerStep

(* What was committed is the whole of one snapshot.                        *)
CommittedIsWhole ==
    /\ indexedPaths = PathsIn(index)
    /\ origin # NoJob => index = SnapshotIndex(origin)

LEMMA CommittedStep == ASSUME Order, CommittedIsWhole, [Next]_vars PROVE CommittedIsWhole'
<1> USE DEF fileVars, indexVars, jobVars, workerVars, callerVars, boundVars, historyVars
<1>t. /\ activeJob \in Nat /\ origin \in Nat /\ latest \in Nat
      /\ filesOf \in [Versions -> SUBSET Paths]
      /\ activeJob \in Versions \cup {NoJob} /\ origin \in Versions \cup {NoJob}
      /\ index \in [Paths -> Versions \cup {NoJob}]
  BY IndexConstants DEF Order, TInv, TypeOK, Counts, Versions, NoJob
<1>0. ASSUME UNCHANGED <<index, indexedPaths, origin, filesOf>> PROVE CommittedIsWhole'
  BY <1>0 DEF CommittedIsWhole, PathsIn, SnapshotIndex
<1>1. ASSUME NEW S \in SUBSET Paths, ScheduleRebuild(S) PROVE CommittedIsWhole'
  <2>1. origin # NoJob => filesOf'[origin] = filesOf[origin]
    BY <1>1, <1>t DEF ScheduleRebuild, Order, JobsOrdered
  <2> QED BY <1>1, <2>1 DEF ScheduleRebuild, CommittedIsWhole, PathsIn, SnapshotIndex
<1>2. CASE Commit
  <2>1. activeJob \in Versions
    BY <1>2, <1>t DEF Commit, Order, TInv, JobHeld, Busy
  <2>2. PathsIn(SnapshotIndex(activeJob)) = filesOf[activeJob]
    BY <1>t, <2>1, SnapshotPaths
  <2>3. /\ index' = SnapshotIndex(activeJob) /\ indexedPaths' = filesOf[activeJob]
        /\ origin' = activeJob /\ filesOf' = filesOf
    BY <1>2 DEF Commit, CommittedPaths
  <2>4. indexedPaths' = PathsIn(index')
    BY <2>2, <2>3
  <2>5. SnapshotIndex(origin)' = SnapshotIndex(activeJob)
    BY <2>3 DEF SnapshotIndex
  <2> QED BY <2>3, <2>4, <2>5 DEF CommittedIsWhole, PathsIn
<1>3. CASE Restart \/ (\E remove \in BOOLEAN : Repair(remove))
  BY <1>3 DEF Restart, WarmStart, Repair, CommittedIsWhole, PathsIn, NoJob
<1>4. CASE WaitForSnapshot \/ SnapshotReady \/ SnapshotSleeps \/ SnapshotTimesOut
           \/ BeginRepair \/ IdleReached \/ IdleSleeps
           \/ ShutdownMark \/ ShutdownNotify \/ ShutdownJoin
  BY <1>0, <1>4 DEF WaitForSnapshot, SnapshotReady, SnapshotSleeps, SnapshotTimesOut,
                    BeginRepair, IdleReached, IdleSleeps, ShutdownMark, ShutdownNotify,
                    ShutdownJoin
<1>5. CASE WorkerBlocks \/ WorkerExits \/ TakeJob \/ AbandonJob \/ WriteTemp \/ RenameTemp
           \/ RetryFails \/ FindStale \/ (\E p \in Paths : RemoveStale(p)) \/ LastCheck
           \/ Report \/ NotifyCaller
  BY <1>0, <1>5 DEF WorkerBlocks, WorkerExits, TakeJob, AbandonJob, WriteTemp, RenameTemp,
                    RetryFails, FindStale, RemoveStale, LastCheck, Report, NotifyCaller
<1>6. CASE FileFault \/ UNCHANGED vars
  BY <1>0, <1>6 DEF FileFault, WriteFails, RenameFails, DamageShard, vars
<1> QED
  BY <1>1, <1>2, <1>3, <1>4, <1>5, <1>6 DEF Next, CallerCalls, CallerContinues, WorkerStep

LEMMA WholeInit == ASSUME Init PROVE IndexIsWhole
BY DEF Init, IndexIsWhole, PathsIn, Applying

LEMMA WholeStep == ASSUME Order, IndexIsWhole, Ages', [Next]_vars PROVE IndexIsWhole'
<1>w. CommittedIsWhole'
  BY CommittedStep DEF IndexIsWhole, CommittedIsWhole
<1>a. ASSUME Applying' PROVE \A p \in Paths : index'[p] # activeJob'
  <2>1. Order'
    BY OrderStep
  <2>2. activeJob' \in Nat /\ \A p \in Paths : index'[p] \in Nat /\ index'[p] < activeJob'
    BY <1>a, <2>1, IndexConstants
       DEF Order, TInv, TypeOK, Versions, NoJob, Ages, IndexNotAhead
  <2> QED BY <2>2
<1> QED BY <1>w, <1>a DEF IndexIsWhole, CommittedIsWhole

(* Queries see nothing of a snapshot while applyJob writes its shards,     *)
(* verifyAndRepair included, which waits until no job is at work, and the  *)
(* whole of it once it is committed.                                       *)
THEOREM Whole == Spec => []IndexIsWhole
<1>1. Init => Ages /\ IndexIsWhole
  BY AgesInit, WholeInit
<1>2. Order /\ Ages /\ IndexIsWhole /\ [Next]_vars => Ages' /\ IndexIsWhole'
  BY AgesStep, WholeStep
<1> QED
  BY <1>1, <1>2, Ordered, PTL DEF Spec

-----------------------------------------------------------------------------
(* The shard files.                                                        *)

DiskInv == WorkLeft /\ WrittenIsOnDisk /\ TempIsReady /\ SnapshotIsDurable

(* While a job is at work the index is that of an older snapshot. *)
LEMMA Superseded ==
  ASSUME Order, worker \in Busy \ {"committed"}
  PROVE  activeJob # NoJob /\ origin # latest /\ origin < activeJob
<1>1. activeJob \in Nat /\ origin \in Nat /\ latest \in Nat
  BY IndexConstants DEF Order, TInv, TypeOK, Counts, Versions, NoJob
<1> QED BY <1>1 DEF Order, TInv, JobHeld, JobsOrdered

LEMMA DiskInit == ASSUME Init PROVE DiskInv
BY DEF Init, DiskInv, WorkLeft, WrittenIsOnDisk, TempIsReady, SnapshotIsDurable, Busy, NoJob

(* The caller writes files only in a repair, when no job is at work. *)
LEMMA CallerDisk == ASSUME Order, DiskInv, CallerCalls \/ CallerContinues PROVE DiskInv'
<1> USE DEF DiskInv, WorkLeft, WrittenIsOnDisk, TempIsReady, SnapshotIsDurable, Busy, NoJob,
        NextPath, fileVars, indexVars, jobVars, workerVars, callerVars, boundVars, historyVars
<1>t. /\ activeJob \in Nat /\ origin \in Nat /\ latest \in Nat
      /\ filesOf \in [Versions -> SUBSET Paths]
      /\ activeJob \in Versions \cup {NoJob} /\ origin \in Versions \cup {NoJob}
  BY IndexConstants DEF Order, TInv, TypeOK, Versions
<1>1. ASSUME NEW S \in SUBSET Paths, ScheduleRebuild(S) PROVE DiskInv'
  <2>1. /\ UNCHANGED <<disk, temp, todo, stale, activeJob, origin, excused>>
        /\ latest' = latest + 1
        /\ worker' \in Busy => worker' = worker
    BY <1>1 DEF ScheduleRebuild, WakeWorker
  <2>2. worker \in Busy => filesOf'[activeJob] = filesOf[activeJob]
    BY <1>1, <1>t DEF ScheduleRebuild, Order, TInv, JobHeld, JobsOrdered
  <2>3. origin' # latest'
    BY <1>t, <2>1 DEF Order, JobsOrdered
  <2> QED BY <2>1, <2>2, <2>3
<1>2. CASE WaitForSnapshot \/ SnapshotReady \/ SnapshotSleeps \/ SnapshotTimesOut
           \/ BeginRepair \/ IdleReached \/ IdleSleeps \/ ShutdownMark \/ ShutdownJoin
  <2>1. UNCHANGED <<fileVars, workerVars, activeJob, origin, latest, filesOf, excused>>
    BY <1>2 DEF WaitForSnapshot, SnapshotReady, SnapshotSleeps, SnapshotTimesOut,
                BeginRepair, IdleReached, IdleSleeps, ShutdownMark, ShutdownJoin
  <2> QED BY <2>1
<1>3. ASSUME NEW remove \in BOOLEAN, Repair(remove) PROVE DiskInv'
  <2>1. worker \notin Busy
    BY <1>3 DEF Repair, Order, CallerAlone, TInv, JobHeld
  <2> QED BY <1>3, <2>1 DEF Repair
<1>4. CASE ShutdownNotify
  BY <1>4 DEF ShutdownNotify, WakeWorker
<1> QED BY <1>1, <1>2, <1>3, <1>4 DEF CallerCalls, CallerContinues

(* A job writes its own files and removes others', and commits when all of *)
(* its own are there.                                                      *)
LEMMA WorkerDisk ==
  ASSUME SeparateFiles, Order, DiskInv, WorkerStep
  PROVE  DiskInv'
<1> USE DEF DiskInv, WorkLeft, WrittenIsOnDisk, TempIsReady, SnapshotIsDurable, Busy,
        fileVars, indexVars, jobVars, workerVars, callerVars, boundVars, historyVars
<1>t. /\ activeJob \in Versions \cup {NoJob}
      /\ filesOf \in [Versions -> SUBSET Paths]
      /\ todo \subseteq Paths /\ stale \subseteq Paths
      /\ disk \in [ShardFiles -> Shards \cup {Absent, Damaged}]
      /\ temp \in [ShardFiles -> Shards \cup {Absent}]
  BY DEF Order, TInv, TypeOK
<1>f. \A p \in Paths : ShardFileOf[p] \in ShardFiles
  BY DEF ShardFiles
<1>a. worker \in Busy => filesOf[activeJob] \subseteq Paths
  BY <1>t DEF Order, TInv, JobHeld
<1>1. CASE WorkerBlocks \/ WorkerExits \/ NotifyCaller \/ Report \/ AbandonJob
  BY <1>1 DEF WorkerBlocks, WorkerExits, NotifyCaller, Report, AbandonJob
<1>2. CASE TakeJob
  BY <1>2 DEF TakeJob, PendingTaken
<1>3. CASE WriteTemp
  <2>1. NextPath \in Paths
    BY <1>3, <1>t, NextPathInTodo DEF WriteTemp
  <2>2. temp'[ShardFileOf[NextPath]] = Shard(NextPath, activeJob)
    BY <1>3, <1>t, <1>f, <2>1 DEF WriteTemp
  <2>3. NextPath' = NextPath
    BY <1>3 DEF WriteTemp, NextPath
  <2> QED BY <1>3, <2>2, <2>3 DEF WriteTemp, TargetUntouched
<1>4. CASE RenameTemp
  <2>1. NextPath \in Paths /\ worker \in Busy \ {"committed", "abandoned"}
    BY <1>4, <1>t, NextPathInTodo DEF RenameTemp, Order, TInv, ShardInHand
  <2>2. /\ disk'[ShardFileOf[NextPath]] = Shard(NextPath, activeJob)
        /\ \A p \in Paths \ {NextPath} : disk'[ShardFileOf[p]] = disk[ShardFileOf[p]]
    BY <1>4, <1>t, <1>f, <2>1 DEF RenameTemp, SeparateFiles
  <2>3. origin # latest
    BY <2>1, Superseded
  <2>4. worker' = "writing" /\ todo' = todo \ {NextPath}
    BY <1>4 DEF RenameTemp, Wrote
  <2>5. /\ UNCHANGED <<activeJob, filesOf, origin, latest>>
        /\ excused' = excused \ {NextPath}
    BY <1>4 DEF RenameTemp
  <2>6. \A p \in filesOf[activeJob] \ (todo' \cup excused') : disk'[ShardFileOf[p]] = Shard(p, activeJob)
    BY <1>a, <2>1, <2>2, <2>4, <2>5
  <2> QED BY <1>4, <2>3, <2>4, <2>5, <2>6 DEF RenameTemp
<1>5. CASE RetryFails
  BY <1>5 DEF RetryFails, Wrote
<1>6. CASE FindStale \/ LastCheck
  BY <1>6 DEF FindStale, LastCheck, StalePaths
<1>7. ASSUME NEW q \in Paths, RemoveStale(q) PROVE DiskInv'
  <2>1. /\ worker = "pruning" /\ q \notin filesOf[activeJob]
        /\ stale' = stale \ {q}
        /\ UNCHANGED <<worker, activeJob, filesOf, todo, excused, origin, latest>>
    BY <1>7 DEF RemoveStale
  <2>2. \A p \in Paths \ {q} : disk'[ShardFileOf[p]] = disk[ShardFileOf[p]]
    BY <1>7, <1>t, <1>f DEF RemoveStale, SeparateFiles
  <2>3. origin # latest
    BY <2>1, Superseded
  <2> QED BY <1>a, <2>1, <2>2, <2>3
<1>8. CASE Commit
  BY <1>8 DEF Commit
<1> QED
  BY <1>1, <1>2, <1>3, <1>4, <1>5, <1>6, <1>7, <1>8 DEF WorkerStep

(* A failure or damage touches the file of one path, which is excused.     *)
LEMMA EnvironmentDisk ==
  ASSUME SeparateFiles, Order, DiskInv, FileFault \/ Restart
  PROVE  DiskInv'
<1> USE DEF DiskInv, WorkLeft, WrittenIsOnDisk, TempIsReady, SnapshotIsDurable, Busy,
        fileVars, indexVars, jobVars, workerVars, callerVars, boundVars, historyVars
<1>t. /\ activeJob \in Versions \cup {NoJob} /\ origin \in Versions \cup {NoJob}
      /\ filesOf \in [Versions -> SUBSET Paths]
      /\ todo \subseteq Paths
      /\ disk \in [ShardFiles -> Shards \cup {Absent, Damaged}]
      /\ temp \in [ShardFiles -> Shards \cup {Absent}]
  BY DEF Order, TInv, TypeOK
<1>f. \A p \in Paths : ShardFileOf[p] \in ShardFiles
  BY DEF ShardFiles
<1>a. worker \in Busy => filesOf[activeJob] \subseteq Paths
  BY <1>t DEF Order, TInv, JobHeld
<1>b. origin # NoJob => filesOf[origin] \subseteq Paths
  BY <1>t
<1>1. CASE WriteFails
  <2>1. /\ UNCHANGED <<disk, stale, activeJob, filesOf, origin, latest>>
        /\ todo' = todo \ {NextPath} /\ worker' = "writing" /\ worker = "writing"
        /\ excused' = excused \cup {NextPath}
    BY <1>1 DEF WriteFails, Wrote, Fault
  <2> QED BY <2>1
<1>2. CASE RenameFails
  <2>1. NextPath \in Paths /\ worker \in Busy \ {"committed", "abandoned"}
    BY <1>2, <1>t, NextPathInTodo DEF RenameFails, Order, TInv, ShardInHand
  <2>2. \A p \in Paths \ {NextPath} : disk'[ShardFileOf[p]] = disk[ShardFileOf[p]]
    BY <1>2, <1>t, <1>f, <2>1 DEF RenameFails, SeparateFiles
  <2>3. origin # latest
    BY <2>1, Superseded
  <2>4. /\ UNCHANGED <<temp, todo, stale, activeJob, filesOf, origin, latest>>
        /\ worker' = "retrying" /\ worker = "renaming"
        /\ excused' = excused \cup {NextPath}
        /\ NextPath' = NextPath
    BY <1>2 DEF RenameFails, Fault, NextPath
  <2>5. WrittenIsOnDisk'
    BY <1>a, <2>1, <2>2, <2>4
  <2>6. TempIsReady'
    BY <2>4
  <2> QED BY <2>3, <2>4, <2>5, <2>6
<1>3. ASSUME NEW q \in Paths, DamageShard(q) PROVE DiskInv'
  <2>1. /\ UNCHANGED <<temp, worker, todo, stale, activeJob, filesOf, origin, latest>>
        /\ excused' = excused \cup {q}
        /\ NextPath' = NextPath
    BY <1>3 DEF DamageShard, Fault, NextPath
  <2>2. \A p \in Paths \ {q} : disk'[ShardFileOf[p]] = disk[ShardFileOf[p]]
    BY <1>3, <1>t, <1>f DEF DamageShard, SeparateFiles
  <2>3. WrittenIsOnDisk'
    BY <1>a, <2>1, <2>2
  <2>4. TempIsReady' /\ WorkLeft'
    BY <2>1
  <2>5. SnapshotIsDurable'
    BY <1>b, <2>1, <2>2
  <2> QED BY <2>3, <2>4, <2>5
<1>4. CASE Restart
  BY <1>4 DEF Restart
<1> QED
  BY <1>1, <1>2, <1>3, <1>4 DEF FileFault

LEMMA DiskStep == ASSUME SeparateFiles, Order, DiskInv, [Next]_vars PROVE DiskInv'
<1>1. CASE UNCHANGED vars
  <2>1. NextPath' = NextPath
    BY <1>1 DEF NextPath, vars, workerVars
  <2> QED
    BY <1>1, <2>1 DEF DiskInv, WorkLeft, WrittenIsOnDisk, TempIsReady, SnapshotIsDurable,
                      vars, fileVars, indexVars, jobVars, workerVars, boundVars, historyVars
<1> QED
  BY <1>1, CallerDisk, WorkerDisk, EnvironmentDisk DEF Next

(* If every path has a shard file of its own, the shards of the snapshot   *)
(* applyJob committed last are on disk, whatever cancelled jobs, repairs   *)
(* and restarts came before, but for files whose last write failed or      *)
(* whose shard was damaged since.                                          *)
THEOREM Durable == ASSUME SeparateFiles PROVE Spec => []SnapshotIsDurable
<1>1. Init => DiskInv
  BY DiskInit
<1>2. Order /\ DiskInv /\ [Next]_vars => DiskInv'
  BY DiskStep
<1>3. DiskInv => SnapshotIsDurable
  BY DEF DiskInv
<1> QED
  BY <1>1, <1>2, <1>3, Ordered, PTL DEF Spec

(* If every path has a shard file of its own, writeShard's rename leaves   *)
(* no moment at which a crash would find a file without its shard, unless  *)
(* that file's own rename failed, and applyJob removes only shards of      *)
(* files its snapshot does not have.                                       *)
THEOREM NothingLost == ASSUME SeparateFiles PROVE Spec => NoShardLost
<1>1. Init => DiskInv
  BY DiskInit
<1>2. Order /\ DiskInv /\ [Next]_vars => DiskInv'
  BY DiskStep
<1>3. Order /\ DiskInv /\ [Next]_vars =>
        [\A p \in Paths \ excused' :
           /\ disk[ShardFileOf[p]].path = p
           /\ disk'[ShardFileOf[p]].path # p
           => activeJob # NoJob /\ p \notin filesOf[activeJob]]_vars
  <2> SUFFICES ASSUME Order, DiskInv, Next, NEW p \in Paths \ excused',
                      disk[ShardFileOf[p]].path = p, disk'[ShardFileOf[p]].path # p
               PROVE  activeJob # NoJob /\ p \notin filesOf[activeJob]
    OBVIOUS
  <2>t. /\ disk \in [ShardFiles -> Shards \cup {Absent, Damaged}]
        /\ todo \subseteq Paths
    BY DEF Order, TInv, TypeOK
  <2>f. ShardFileOf[p] \in ShardFiles /\ p # 0
    BY IndexConstants DEF ShardFiles
  <2>0. disk'[ShardFileOf[p]] # disk[ShardFileOf[p]]
    OBVIOUS
  <2>1. ~ CallerCalls
    BY <2>0 DEF CallerCalls, ScheduleRebuild, WaitForSnapshot, BeginRepair, ShutdownMark, fileVars
  <2>2. ~ CallerContinues
    <3>1. ASSUME NEW remove \in BOOLEAN, Repair(remove) PROVE FALSE
      BY <3>1, <2>f, <2>0 DEF Repair, RepairedDisk, Damaged
    <3> QED
      BY <3>1, <2>0 DEF CallerContinues, SnapshotReady, SnapshotSleeps, SnapshotTimesOut,
                        IdleReached, IdleSleeps, ShutdownNotify, ShutdownJoin, fileVars
  <2>3. ~ (FileFault \/ Restart)
    <3>1. ASSUME RenameFails PROVE FALSE
      <4>1. NextPath \in Paths /\ p # NextPath
        BY <3>1, <2>t, NextPathInTodo DEF RenameFails, Fault, Order, TInv, ShardInHand
      <4> QED BY <3>1, <4>1, <2>t, <2>f, <2>0 DEF RenameFails, SeparateFiles
    <3>2. ASSUME NEW q \in Paths, DamageShard(q) PROVE FALSE
      <4>1. p # q
        BY <3>2 DEF DamageShard, Fault
      <4> QED BY <3>2, <4>1, <2>t, <2>f, <2>0 DEF DamageShard, SeparateFiles
    <3> QED
      BY <3>1, <3>2, <2>0 DEF FileFault, WriteFails, Restart, fileVars
  <2>4. ~ RenameTemp
    <3> SUFFICES ASSUME RenameTemp PROVE FALSE
      OBVIOUS
    <3>1. NextPath \in Paths
      BY <2>t, NextPathInTodo DEF RenameTemp, Order, TInv, ShardInHand
    <3>2. temp[ShardFileOf[NextPath]] = Shard(NextPath, activeJob)
      BY DEF RenameTemp, DiskInv, TempIsReady
    <3>3. p = NextPath
      BY <3>1, <2>t, <2>f, <2>0 DEF RenameTemp, SeparateFiles
    <3>4. disk'[ShardFileOf[p]] = Shard(p, activeJob)
      BY <3>2, <3>3, <2>t, <2>f DEF RenameTemp
    <3> QED BY <3>4 DEF Shard
  <2>5. CASE \E q \in Paths : RemoveStale(q)
    <3>1. PICK q \in Paths : RemoveStale(q)
      BY <2>5
    <3>2. p = q
      BY <3>1, <2>t, <2>f, <2>0 DEF RemoveStale, SeparateFiles
    <3>3. p \notin filesOf[activeJob]
      BY <3>1, <3>2 DEF RemoveStale, DiskInv, WorkLeft
    <3>4. activeJob # NoJob
      BY <3>1 DEF RemoveStale, Order, TInv, JobHeld, Busy
    <3> QED BY <3>3, <3>4
  <2>6. ~ (WorkerBlocks \/ WorkerExits \/ TakeJob \/ AbandonJob \/ WriteTemp \/ RetryFails
           \/ FindStale \/ LastCheck \/ Commit \/ Report \/ NotifyCaller)
    BY <2>0 DEF WorkerBlocks, WorkerExits, TakeJob, AbandonJob, WriteTemp, TargetUntouched,
                RetryFails, FindStale, LastCheck, Commit, Report, NotifyCaller, fileVars
  <2> QED BY <2>1, <2>2, <2>3, <2>4, <2>5, <2>6 DEF Next, WorkerStep
<1> QED
  BY <1>1, <1>2, <1>3, Ordered, PTL DEF Spec, NoShardLost

=============================================================================
