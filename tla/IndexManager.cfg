\* Two snapshots of two paths, a restart at any step, and a failing file operation or
\* a damaged shard.
CONSTANTS
    Paths = {1, 2}
    ShardFileOf <- MCShardFileOf
    MaxVersion = 2
    MaxCrashes = 1
    MaxFaults = 1
SPECIFICATION Spec
INVARIANTS
    JobsConserved
    IndexIsWhole
    ConfirmedIsVisible
    SnapshotIsDurable
PROPERTIES
    CommitsAdvance
    NoShardLost
    LatestIsIndexed
    RepairReturns
    ShutdownReturns
CHECK_DEADLOCK FALSE
