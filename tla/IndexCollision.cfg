\* One snapshot, two paths, no failures.
CONSTANTS
    Paths = {1, 2}
    ShardFileOf <- MCShardFileOf
    MaxVersion = 1
    MaxCrashes = 0
    MaxFaults = 0
SPECIFICATION Spec
INVARIANTS
    PersistsPerFileShards
CHECK_DEADLOCK FALSE
