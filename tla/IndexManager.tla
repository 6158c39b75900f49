----------------------------- MODULE IndexManager -----------------------------
(***************************************************************************)
(* The background workspace index (lib/LSP/Index.cpp: IndexManager,        *)
(* WorkspaceIndex::replaceAll and the shard files of IndexStorage).        *)
(*                                                                         *)
(* The server's message thread (the caller) schedules one rebuild job per  *)
(* analysis snapshot, waits for it for a while, queries the index, asks    *)
(* for verification and shuts the manager down.  A worker thread takes the *)
(* pending job, writes its shards one by one, removes the shards of files  *)
(* that are gone and then replaces the index in memory.  A newer job       *)
(* cancels the older one.  The process may die at any step; the next one   *)
(* loads its index from the shard files.                                   *)
(*                                                                         *)
(* A job is named by its snapshot version; versions are counted on across  *)
(* restarts, as no code compares the versions of two processes.  A shard   *)
(* is its path and the version it was made for.                            *)
(***************************************************************************)
EXTENDS Naturals, FiniteSets

CONSTANTS
    Paths,         \* the paths of source files, in the order of their names
    ShardFileOf,   \* the shard file of each path (shardPathFor)
    MaxVersion,    \* bound: snapshots ever scheduled
    MaxCrashes,    \* bound: process restarts
    MaxFaults      \* bound: failing file operations and damaged shard files

ShardFiles == {ShardFileOf[p] : p \in Paths}

ASSUME IndexConstants ==
    /\ Paths \subseteq Nat \ {0} /\ IsFiniteSet(Paths)
    /\ DOMAIN ShardFileOf = Paths
    /\ MaxVersion \in Nat /\ MaxCrashes \in Nat /\ MaxFaults \in Nat

VARIABLES
    \* Files.
    disk,         \* the shard files
    temp,         \* their ".tmp" siblings
    \* Memory, guarded by mutex_.
    index,        \* index_: the version each path's symbols come from
    indexedPaths, \* indexedPaths_
    pendingJob,   \* pendingJob_
    activeJob,    \* the job whose flag activeJobCancelFlag_ holds
    cancelled,    \* that flag
    stats,        \* stats_
    stopping,     \* stopping_
    \* The two threads.
    worker,       \* where workerLoop and applyJob are
    todo,         \* shards applyJob has still to write
    stale,        \* shards applyJob has still to remove
    caller,       \* where the caller is
    awaited,      \* the version it waits for
    \* History.
    latest,       \* the last version scheduled
    filesOf,      \* the files of each snapshot
    origin,       \* the version that was committed to index, 0: loaded from disk
    confirmed,    \* the last version waitForSnapshot confirmed
    dropped,      \* versions given up by repair, shutdown or crash
    excused,      \* paths whose shard a failure or damage hit since it was written
    crashes, faults

fileVars    == <<disk, temp>>
indexVars   == <<index, indexedPaths, origin>>
jobVars     == <<pendingJob, activeJob, cancelled>>
workerVars  == <<worker, todo, stale>>
callerVars  == <<caller, awaited, confirmed>>
boundVars   == <<excused, crashes, faults>>
historyVars == <<latest, filesOf, dropped>>
vars == <<fileVars, indexVars, jobVars, stats, stopping, workerVars,
          callerVars, boundVars, historyVars>>

NoJob    == 0                     \* also: no version, not indexed
Versions == 1 .. MaxVersion
Absent   == [path |-> 0, version |-> 0]
Damaged  == [path |-> 0, version |-> 1]
Shard(p, v) == [path |-> p, version |-> v]
Shards      == {Shard(p, v) : p \in Paths, v \in Versions}

WorkerStates == {"atWait", "blocked", "writing", "renaming", "retrying",
                 "pruning", "committing", "committed", "abandoned",
                 "reported", "exited"}
CallerStates == {"idle", "snapshotCheck", "snapshotSleep", "idleCheck",
                 "idleSleep", "repairing", "marked", "joining", "stopped"}

(* IndexManagerStats.                                                      *)
Counts == [scheduled : Nat, completed : Nat, cancelled : Nat,
           lastCompleted : Versions \cup {NoJob}, files : Nat]

TypeOK ==
    /\ disk \in [ShardFiles -> Shards \cup {Absent, Damaged}]
    /\ temp \in [ShardFiles -> Shards \cup {Absent}]
    /\ index \in [Paths -> Versions \cup {NoJob}]
    /\ indexedPaths \subseteq Paths
    /\ pendingJob \in Versions \cup {NoJob}
    /\ activeJob \in Versions \cup {NoJob}
    /\ cancelled \in BOOLEAN
    /\ stats \in Counts
    /\ stopping \in BOOLEAN
    /\ worker \in WorkerStates
    /\ todo \subseteq Paths
    /\ stale \subseteq Paths
    /\ caller \in CallerStates
    /\ awaited \in Versions \cup {NoJob}
    /\ latest \in Versions \cup {NoJob}
    /\ filesOf \in [Versions -> SUBSET Paths]
    /\ origin \in Versions \cup {NoJob}
    /\ confirmed \in Versions \cup {NoJob}
    /\ dropped \subseteq Versions
    /\ excused \subseteq Paths
    /\ crashes \in 0 .. MaxCrashes
    /\ faults \in 0 .. MaxFaults

-----------------------------------------------------------------------------
(* Shards, files and the index in memory.                                  *)

(* replaceAll with the shards of a snapshot.                               *)
SnapshotIndex(v) == [p \in Paths |-> IF p \in filesOf[v] THEN v ELSE NoJob]

(* loadAllShards: the parseable "*.index.json" files; ".tmp" is ignored.   *)
LoadedFrom(d) ==
    [p \in Paths |-> IF \E f \in ShardFiles : d[f].path = p
                     THEN (CHOOSE s \in {d[f] : f \in ShardFiles} : s.path = p).version
                     ELSE NoJob]

(* WorkspaceIndex::indexedPaths.                                           *)
PathsIn(i) == {p \in Paths : i[p] # NoJob}

NoStats == [scheduled |-> 0, completed |-> 0, cancelled |-> 0,
            lastCompleted |-> NoJob, files |-> 0]

(* The constructor's warmStartLoad.                                        *)
WarmStart ==
    /\ index' = LoadedFrom(disk)
    /\ indexedPaths' = PathsIn(index')
    /\ stats' = [NoStats EXCEPT !.files = Cardinality(indexedPaths')]

Init ==
    /\ disk = [f \in ShardFiles |-> Absent]
    /\ temp = [f \in ShardFiles |-> Absent]
    /\ index = [p \in Paths |-> NoJob]
    /\ indexedPaths = {}
    /\ pendingJob = NoJob
    /\ activeJob = NoJob
    /\ cancelled = FALSE
    /\ stats = NoStats
    /\ stopping = FALSE
    /\ worker = "atWait"
    /\ todo = {}
    /\ stale = {}
    /\ caller = "idle"
    /\ awaited = NoJob
    /\ latest = NoJob
    /\ filesOf = [v \in Versions |-> {}]
    /\ origin = NoJob
    /\ confirmed = NoJob
    /\ dropped = {}
    /\ excused = {}
    /\ crashes = 0
    /\ faults = 0

WakeLost   == UNCHANGED worker
WakeWorker == worker' = IF worker = "blocked" THEN "atWait" ELSE worker

-----------------------------------------------------------------------------
(* The caller.                                                             *)

CancelledWith(n) == [stats EXCEPT !.cancelled = @ + n]

(* The pending job, if any, counts as cancelled when it is dropped.        *)
DroppedUncounted == 0
DroppedPending   == IF pendingJob # NoJob THEN 1 ELSE 0

(* scheduleRebuild: the newer snapshot replaces the pending one and        *)
(* cancels the active one.                                                 *)
ScheduleRebuild(S) ==
    /\ caller = "idle"
    /\ latest < MaxVersion
    /\ latest' = latest + 1
    /\ filesOf' = [filesOf EXCEPT ![latest'] = S]
    /\ pendingJob' = latest'
    /\ cancelled' = (cancelled \/ activeJob # NoJob)
    /\ stats' = [CancelledWith(DroppedPending) EXCEPT !.scheduled = @ + 1]
    /\ WakeWorker
    /\ UNCHANGED <<fileVars, indexVars, activeJob, stopping, todo, stale,
                   callerVars, dropped, boundVars>>

(* waitForSnapshot, for the latest snapshot: wait_for evaluates its        *)
(* predicate and sleeps while it is false, until notified or timed out.    *)
WaitForSnapshot ==
    /\ caller = "idle"
    /\ latest # NoJob
    /\ caller' = "snapshotCheck"
    /\ awaited' = latest
    /\ UNCHANGED <<fileVars, indexVars, jobVars, stats, stopping, workerVars,
                   confirmed, historyVars, boundVars>>

SnapshotIsScheduled == stats.scheduled >= awaited
SnapshotIsIndexed   == stopping \/ stats.lastCompleted >= awaited

SnapshotReady ==
    /\ caller = "snapshotCheck"
    /\ SnapshotIsIndexed
    /\ caller' = "idle"
    /\ awaited' = NoJob
    /\ confirmed' = awaited
    /\ UNCHANGED <<fileVars, indexVars, jobVars, stats, stopping, workerVars,
                   historyVars, boundVars>>

SnapshotSleeps ==
    /\ caller = "snapshotCheck"
    /\ ~SnapshotIsIndexed
    /\ caller' = "snapshotSleep"
    /\ UNCHANGED <<fileVars, indexVars, jobVars, stats, stopping, workerVars,
                   awaited, confirmed, historyVars, boundVars>>

(* On time-out wait_for evaluates the predicate once more.                 *)
SnapshotTimesOut ==
    /\ caller = "snapshotSleep"
    /\ caller' = "idle"
    /\ awaited' = NoJob
    /\ confirmed' = IF SnapshotIsIndexed THEN awaited ELSE confirmed
    /\ UNCHANGED <<fileVars, indexVars, jobVars, stats, stopping, workerVars,
                   historyVars, boundVars>>

(* verifyAndRepair begins with waitForIdle, which drops the pending job    *)
(* and cancels the active one ...                                          *)
BeginRepair ==
    /\ caller = "idle"
    /\ caller' = "idleCheck"
    /\ pendingJob' = NoJob
    /\ stats' = CancelledWith(DroppedPending)
    /\ cancelled' = (cancelled \/ activeJob # NoJob)
    /\ dropped' = dropped \cup ({pendingJob, activeJob} \ {NoJob})
    /\ UNCHANGED <<fileVars, indexVars, activeJob, stopping, workerVars,
                   awaited, confirmed, latest, filesOf, boundVars>>

NothingPending == pendingJob = NoJob
WorkerIsIdle   == activeJob = NoJob /\ pendingJob = NoJob

IdleReached ==
    /\ caller = "idleCheck"
    /\ WorkerIsIdle
    /\ caller' = "repairing"
    /\ UNCHANGED <<fileVars, indexVars, jobVars, stats, stopping, workerVars,
                   awaited, confirmed, historyVars, boundVars>>

IdleSleeps ==
    /\ caller = "idleCheck"
    /\ ~WorkerIsIdle
    /\ caller' = "idleSleep"
    /\ UNCHANGED <<fileVars, indexVars, jobVars, stats, stopping, workerVars,
                   awaited, confirmed, historyVars, boundVars>>

(* ... then removes what does not parse, and every temporary file whose    *)
(* path has been seen (IndexStorage::verifyAndRepair; a shard sorts before *)
(* its temporary file) ...                                                 *)
RepairedDisk(remove) ==
    [f \in ShardFiles |-> IF remove /\ disk[f] = Damaged THEN Absent ELSE disk[f]]

RepairedTemp(remove) ==
    [f \in ShardFiles |->
        IF remove /\ \E g \in ShardFiles : disk[g].path = temp[f].path
        THEN Absent ELSE temp[f]]

(* ... and loads the index from what is left.                              *)
Repair(remove) ==
    /\ caller = "repairing"
    /\ disk' = RepairedDisk(remove)
    /\ temp' = RepairedTemp(remove)
    /\ index' = LoadedFrom(disk')
    /\ indexedPaths' = PathsIn(index')
    /\ stats' = [stats EXCEPT !.files = Cardinality(indexedPaths')]
    /\ origin' = NoJob
    /\ caller' = "idle"
    /\ UNCHANGED <<jobVars, stopping, workerVars, awaited, confirmed,
                   historyVars, boundVars>>

(* shutdown: set stopping_ and the flags, notify, join.                    *)
ShutdownMark ==
    /\ caller = "idle"
    /\ stopping' = TRUE
    /\ cancelled' = (cancelled \/ activeJob # NoJob)
    /\ dropped' = dropped \cup ({pendingJob, activeJob} \ {NoJob})
    /\ caller' = "marked"
    /\ UNCHANGED <<fileVars, indexVars, pendingJob, activeJob, stats, workerVars,
                   awaited, confirmed, latest, filesOf, boundVars>>

ShutdownNotify ==
    /\ caller = "marked"
    /\ WakeWorker
    /\ caller' = "joining"
    /\ UNCHANGED <<fileVars, indexVars, jobVars, stats, stopping, todo, stale,
                   awaited, confirmed, historyVars, boundVars>>

ShutdownJoin ==
    /\ caller = "joining"
    /\ worker = "exited"
    /\ caller' = "stopped"
    /\ UNCHANGED <<fileVars, indexVars, jobVars, stats, stopping, workerVars,
                   awaited, confirmed, historyVars, boundVars>>

-----------------------------------------------------------------------------
(* The worker: workerLoop and applyJob.                                    *)

MustWaitForJob == pendingJob = NoJob
MustWait       == ~stopping /\ pendingJob = NoJob

WorkerBlocks ==
    /\ worker = "atWait"
    /\ MustWait
    /\ worker' = "blocked"
    /\ UNCHANGED <<fileVars, indexVars, jobVars, stats, stopping, todo, stale,
                   callerVars, historyVars, boundVars>>

WorkerExits ==
    /\ worker = "atWait"
    /\ stopping
    /\ worker' = "exited"
    /\ UNCHANGED <<fileVars, indexVars, jobVars, stats, stopping, todo, stale,
                   callerVars, historyVars, boundVars>>

PendingLeft  == pendingJob
PendingTaken == NoJob

TakeJob ==
    /\ worker = "atWait"
    /\ ~stopping
    /\ pendingJob # NoJob
    /\ activeJob' = pendingJob
    /\ cancelled' = FALSE
    /\ pendingJob' = PendingTaken
    /\ todo' = filesOf[pendingJob]
    /\ worker' = "writing"
    /\ UNCHANGED <<fileVars, indexVars, stats, stopping, stale,
                   callerVars, historyVars, boundVars>>

(* applyJob returns false at whichever test of the flag sees it set.       *)
AbandonJob ==
    /\ worker \in {"writing", "pruning"}
    /\ cancelled
    /\ worker' = "abandoned"
    /\ todo' = {}
    /\ stale' = {}
    /\ UNCHANGED <<fileVars, indexVars, jobVars, stats, stopping,
                   callerVars, historyVars, boundVars>>

(* writeShard in the order of the paths: the temporary file first ...      *)
NextPath == CHOOSE p \in todo : \A q \in todo : p <= q

TargetTruncated == [disk EXCEPT ![ShardFileOf[NextPath]] = Absent]
TargetUntouched == disk

WriteTemp ==
    /\ worker = "writing"
    /\ ~cancelled
    /\ todo # {}
    /\ temp' = [temp EXCEPT ![ShardFileOf[NextPath]] = Shard(NextPath, activeJob)]
    /\ disk' = TargetUntouched
    /\ worker' = "renaming"
    /\ UNCHANGED <<indexVars, jobVars, stats, stopping, todo, stale,
                   callerVars, historyVars, boundVars>>

(* ... which a rename puts in place.                                       *)
Wrote == todo' = todo \ {NextPath} /\ worker' = "writing"

RenameTemp ==
    /\ worker \in {"renaming", "retrying"}
    /\ disk' = [disk EXCEPT ![ShardFileOf[NextPath]] = temp[ShardFileOf[NextPath]]]
    /\ temp' = [temp EXCEPT ![ShardFileOf[NextPath]] = Absent]
    /\ excused' = excused \ {NextPath}
    /\ Wrote
    /\ UNCHANGED <<indexVars, jobVars, stats, stopping, stale,
                   callerVars, historyVars, crashes, faults>>

(* Failures of the file system.  applyJob ignores that a write failed.     *)
Fault(p) ==
    /\ faults < MaxFaults
    /\ faults' = faults + 1
    /\ excused' = excused \cup {p}

(* The temporary file cannot be opened, or it cannot be written and is     *)
(* removed.                                                                *)
WriteFails ==
    /\ worker = "writing"
    /\ ~cancelled
    /\ todo # {}
    /\ Fault(NextPath)
    /\ temp' \in {temp, [temp EXCEPT ![ShardFileOf[NextPath]] = Absent]}
    /\ Wrote
    /\ UNCHANGED <<disk, indexVars, jobVars, stats, stopping, stale,
                   callerVars, historyVars, crashes>>

(* The rename fails: the target is removed and the rename tried again.     *)
RenameFails ==
    /\ worker = "renaming"
    /\ Fault(NextPath)
    /\ disk' = [disk EXCEPT ![ShardFileOf[NextPath]] = Absent]
    /\ worker' = "retrying"
    /\ UNCHANGED <<temp, indexVars, jobVars, stats, stopping, todo, stale,
                   callerVars, historyVars, crashes>>

RetryFails ==
    /\ worker = "retrying"
    /\ temp' = [temp EXCEPT ![ShardFileOf[NextPath]] = Absent]
    /\ Wrote
    /\ UNCHANGED <<disk, indexVars, jobVars, stats, stopping, stale,
                   callerVars, historyVars, boundVars>>

(* All shards written: find the indexed files the snapshot does not have.  *)
AllIndexed == indexedPaths
StalePaths == indexedPaths \ filesOf[activeJob]

FindStale ==
    /\ worker = "writing"
    /\ ~cancelled
    /\ todo = {}
    /\ stale' = StalePaths
    /\ worker' = "pruning"
    /\ UNCHANGED <<fileVars, indexVars, jobVars, stats, stopping, todo,
                   callerVars, historyVars, boundVars>>

RemoveStale(p) ==
    /\ worker = "pruning"
    /\ ~cancelled
    /\ p \in stale
    /\ disk' = [disk EXCEPT ![ShardFileOf[p]] = Absent]
    /\ stale' = stale \ {p}
    /\ UNCHANGED <<temp, indexVars, jobVars, stats, stopping, worker, todo,
                   callerVars, historyVars, boundVars>>

(* The last test of the flag comes before the lock is taken again: a       *)
(* snapshot that is superseded in between is still committed.              *)
LastCheck ==
    /\ worker = "pruning"
    /\ ~cancelled
    /\ stale = {}
    /\ worker' = "committing"
    /\ UNCHANGED <<fileVars, indexVars, jobVars, stats, stopping, todo, stale,
                   callerVars, historyVars, boundVars>>

CommittedPaths == filesOf[activeJob]

Commit ==
    /\ worker = "committing"
    /\ index' = SnapshotIndex(activeJob)
    /\ indexedPaths' = CommittedPaths
    /\ origin' = activeJob
    /\ worker' = "committed"
    /\ UNCHANGED <<fileVars, jobVars, stats, stopping, todo, stale,
                   callerVars, historyVars, boundVars>>

CompletedStats ==
    [stats EXCEPT !.completed = @ + 1,
                  !.lastCompleted = activeJob,
                  !.files = Cardinality(PathsIn(index))]

Report ==
    /\ worker \in {"committed", "abandoned"}
    /\ stats' = IF worker = "committed" THEN CompletedStats ELSE CancelledWith(1)
    /\ activeJob' = NoJob
    /\ cancelled' = FALSE
    /\ worker' = "reported"
    /\ UNCHANGED <<fileVars, indexVars, pendingJob, stopping, todo, stale,
                   callerVars, historyVars, boundVars>>

(* notify_all wakes the caller, whichever wait it sleeps in.               *)
NobodyWoken == caller
WokenCaller ==
    CASE caller = "snapshotSleep" -> "snapshotCheck"
      [] caller = "idleSleep" -> "idleCheck"
      [] OTHER -> caller

NotifyCaller ==
    /\ worker = "reported"
    /\ caller' = WokenCaller
    /\ worker' = "atWait"
    /\ UNCHANGED <<fileVars, indexVars, jobVars, stats, stopping, todo, stale,
                   awaited, confirmed, historyVars, boundVars>>

-----------------------------------------------------------------------------
(* The environment.                                                        *)

(* Something else damages a shard file.                                    *)
DamageShard(p) ==
    /\ disk[ShardFileOf[p]] \in Shards
    /\ Fault(p)
    /\ disk' = [disk EXCEPT ![ShardFileOf[p]] = Damaged]
    /\ UNCHANGED <<temp, indexVars, jobVars, stats, stopping, workerVars,
                   callerVars, historyVars, crashes>>

(* The process ends, in the middle of anything or after shutdown, and a    *)
(* new one starts on the same cache directory.                             *)
Restart ==
    /\ crashes < MaxCrashes
    /\ crashes' = crashes + 1
    /\ WarmStart
    /\ origin' = NoJob
    /\ pendingJob' = NoJob
    /\ activeJob' = NoJob
    /\ cancelled' = FALSE
    /\ stopping' = FALSE
    /\ worker' = "atWait"
    /\ todo' = {}
    /\ stale' = {}
    /\ caller' = "idle"
    /\ awaited' = NoJob
    /\ confirmed' = NoJob
    /\ dropped' = dropped \cup (1 .. latest)
    /\ UNCHANGED <<fileVars, latest, filesOf, excused, faults>>

WorkerStep ==
    \/ WorkerBlocks \/ WorkerExits \/ TakeJob \/ AbandonJob
    \/ WriteTemp \/ RenameTemp \/ RetryFails
    \/ FindStale \/ (\E p \in Paths : RemoveStale(p)) \/ LastCheck
    \/ Commit \/ Report \/ NotifyCaller

FileFault ==
    \/ WriteFails \/ RenameFails \/ (\E p \in Paths : DamageShard(p))

(* What the caller does once it has called something that may block.       *)
CallerContinues ==
    \/ SnapshotReady \/ SnapshotSleeps \/ SnapshotTimesOut
    \/ IdleReached \/ IdleSleeps \/ (\E remove \in BOOLEAN : Repair(remove))
    \/ ShutdownNotify \/ ShutdownJoin

CallerCalls ==
    \/ (\E S \in SUBSET Paths : ScheduleRebuild(S))
    \/ WaitForSnapshot \/ BeginRepair \/ ShutdownMark

Next == CallerCalls \/ CallerContinues \/ WorkerStep \/ FileFault \/ Restart

(* Both threads run while they can; nobody is obliged to make a call.      *)
Fairness == WF_vars(WorkerStep) /\ WF_vars(CallerContinues)

Spec == Init /\ [][Next]_vars /\ Fairness

-----------------------------------------------------------------------------
(* Safety.                                                                 *)

(* Every job ever scheduled is counted once: completed, cancelled, pending *)
(* or active, through replacement, repair and abandonment.                 *)
JobsConserved ==
    stats.scheduled = stats.completed + stats.cancelled
                        + (IF pendingJob # NoJob THEN 1 ELSE 0)
                        + (IF activeJob # NoJob THEN 1 ELSE 0)

(* A job writes its shards outside the lock, for a while, before it        *)
(* replaces the index.                                                     *)
Applying == worker \in {"writing", "renaming", "retrying", "pruning", "committing"}

(* Queries see nothing of a snapshot while its job is being applied, not   *)
(* even when a repair loads what is on disk, and the whole of it once it   *)
(* is committed; indexedPaths_, from which the next job computes what to   *)
(* remove, always names exactly the indexed files.                         *)
IndexIsWhole ==
    /\ indexedPaths = PathsIn(index)
    /\ origin # NoJob => index = SnapshotIndex(origin)
    /\ Applying => \A p \in Paths : index[p] # activeJob

(* waitForSnapshot's "requested snapshot threshold is met" means that the  *)
(* queries that follow see that snapshot or a later one, unless the index  *)
(* has been loaded from disk since.                                        *)
ConfirmedIsVisible == origin # NoJob => origin >= confirmed

(* Snapshots are committed in order and none twice, whatever was replaced, *)
(* cancelled or repaired in between.                                       *)
CommitsAdvance ==
    [][worker = "committing" /\ worker' = "committed" =>
         origin' > stats.lastCompleted]_vars

(* Until a later snapshot is scheduled, each file of the snapshot that was *)
(* committed has its own shard on disk: a restart would serve it.  A       *)
(* failed write or damage excuses a file only until a job next puts its    *)
(* shard in place: every job writes all its shards anew.                   *)
SnapshotIsDurable ==
    (origin # NoJob /\ origin = latest) =>
        \A p \in filesOf[origin] \ excused :
            disk[ShardFileOf[p]] = Shard(p, origin)

(* Writing a shard replaces it: at no step, so after no crash, is a file   *)
(* of the snapshot being written left without its old or new shard.  Only  *)
(* a rename that fails, or damage, can do that, and to its own file only.  *)
NoShardLost ==
    [][\A p \in Paths \ excused' :
         /\ disk[ShardFileOf[p]].path = p
         /\ disk'[ShardFileOf[p]].path # p
         => activeJob # NoJob /\ p \notin filesOf[activeJob]]_vars

-----------------------------------------------------------------------------
(* Liveness.                                                               *)

(* The latest snapshot is indexed in the end, unless a later one, a        *)
(* repair, a shutdown or a restart takes its place.                        *)
LatestIsIndexed ==
    \A v \in Versions :
        (latest = v) ~> (stats.lastCompleted >= v \/ latest > v \/ v \in dropped)

(* verifyAndRepair and shutdown return.                                    *)
RepairReturns   == (caller = "idleSleep") ~> (caller = "idle")
ShutdownReturns == (caller = "marked") ~> (caller = "stopped" \/ caller = "idle")

-----------------------------------------------------------------------------
(* What Index.h says of workspaceSymbols: "Queries ranked workspace        *)
(* symbols from latest committed index".  verifyAndRepair loads the shards *)
(* a cancelled job has left on disk.                                       *)
QueriesLatestCommitted ==
    stats.lastCompleted # NoJob /\ worker # "committed" =>
        index = SnapshotIndex(stats.lastCompleted)

=============================================================================
