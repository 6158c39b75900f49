\* Two snapshots: what a repair does to the committed index.
CONSTANTS
    Paths = {1, 2}
    ShardFileOf <- MCShardFileOf
    MaxVersion = 2
    MaxCrashes = 0
    MaxFaults = 0
SPECIFICATION Spec
INVARIANTS
    QueriesLatestCommitted

CHECK_DEADLOCK FALSE
