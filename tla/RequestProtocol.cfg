\* Three requests for the scheduler, which takes one at a time, and one for the
\* main thread; three of them with one id.  At most five messages and an exit.
CONSTANTS
    s1 = s1
    s2 = s2
    s3 = s3
    q1 = q1
    SleepRequests <- MCSleepRequests
    SyncRequests = {q1}
    IdOf <- MCIdOf
    MaxPendingRequests = 1
    MaxMessages = 5
    MaxUnread = 2
    NoRequest = NoRequest
SPECIFICATION Spec
INVARIANTS
    AnsweredOnce
    CancelledMeansAsked
PROPERTIES
    FramesAreWhole
    RefusedOnlyWhenFull
    HandledIsAnswered
    ServerEnds
CHECK_DEADLOCK FALSE
