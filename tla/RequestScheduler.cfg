\* Four calls of enqueue over three keys, one of them used twice, at most two pending,
\* two closers; the refinement of SchedulerPromise.
CONSTANTS
    r1 = r1
    r2 = r2
    r3 = r3
    r4 = r4
    k1 = k1
    k2 = k2
    k3 = k3
    Requests <- MCRequests
    Keys = {k1, k2, k3}
    KeyOf <- MCKeyOf
    MaxPendingRequests = 2
    Closers = {c1, c2}
    NoRequest = NoRequest
SPECIFICATION Spec
INVARIANTS
    JoinedMeansDrained
    TrackedIsOutstanding
PROPERTIES
    NoStartAfterStop
    CancelReachesLiveRequest
    ImplementsPromise
    ShutdownReturns
CHECK_DEADLOCK FALSE
