--------------------------- MODULE RequestScheduler ---------------------------
(***************************************************************************)
(* The worker scheduler for cancellable LSP requests                       *)
(* (lib/LSP/RequestScheduler.cpp).                                         *)
(*                                                                         *)
(* Any number of threads call enqueue, cancel and shutdown; one worker     *)
(* thread takes the work items in order, runs them and calls their         *)
(* completion.  Everything the code does while it holds mutex_ is one step *)
(* here; what it does between two critical sections is a step of its own.  *)
(* The condition variable is modelled: a worker in "blocked" sleeps until  *)
(* some thread notifies it (or it wakes spuriously).                       *)
(*                                                                         *)
(* A member of Requests stands for one call of enqueue, with its work item *)
(* and its cancellation flag.  Two requests may carry the same key, as a   *)
(* client may reuse an id.                                                 *)
(***************************************************************************)
EXTENDS Naturals, Sequences, FiniteSets

CONSTANTS
    Requests,            \* the calls of enqueue that are ever made
    Keys,                \* the request keys (serialised JSON-RPC ids)
    KeyOf,               \* the key each call passes
    MaxPendingRequests,  \* maxPendingRequests_
    Closers,             \* the threads that call shutdown
    NoRequest            \* "no work item"

ASSUME SchedulerConstants ==
    /\ KeyOf \in [Requests -> Keys]
    /\ MaxPendingRequests \in Nat
    /\ NoRequest \notin Requests

VARIABLES
    queue,          \* queue_
    requestStates,  \* requestStates_, from a key to the request that owns it
    cancellation,   \* the atomic flag each work item shares with the map
    stopping,       \* stopping_
    worker,         \* where the worker thread is in run()
    item,           \* run()'s local work item
    result,         \* run()'s local result.status
    closer,         \* where each closer is in shutdown()
    \* What the callers have seen, for the properties.
    answer,         \* what enqueue returned
    started,        \* requests whose task has been called
    calls,          \* how often each completion has been called
    outcome,        \* the status passed to the completion
    cancelledEarly  \* requests whose flag was set while they were queued

sharedVars  == <<queue, requestStates, cancellation, stopping>>
workerVars  == <<worker, item, result>>
historyVars == <<answer, started, calls, outcome, cancelledEarly>>
vars        == <<sharedVars, workerVars, closer, historyVars>>

Statuses == {"Completed", "Cancelled", "Failed"}

WorkerStates == {"atWait", "blocked", "popped", "running", "finished",
                 "erased", "exited"}

CloserStates == {"idle", "marked", "joining", "joined", "late"}

(* RequestTaskResult's default member initializer.                         *)
FreshResult == "Failed"

Elements(s) == {s[i] : i \in DOMAIN s}

(* The keys the map holds, and the requests they belong to.                *)
TrackedKeys == {k \in Keys : requestStates[k] # NoRequest}
Tracked     == {requestStates[k] : k \in TrackedKeys}

(* The worker holds a work item whose key is still in the map.             *)
InFlight == worker \in {"popped", "running", "finished"}

(* The worker holds a work item whose completion has not been called.      *)
Holding == InFlight \/ worker = "erased"

TypeOK ==
    /\ queue \in Seq(Requests)
    /\ requestStates \in [Keys -> Requests \cup {NoRequest}]
    /\ cancellation \in [Requests -> BOOLEAN]
    /\ stopping \in BOOLEAN
    /\ worker \in WorkerStates
    /\ item \in IF Holding THEN Requests ELSE {NoRequest}
    /\ result \in Statuses
    /\ closer \in [Closers -> CloserStates]
    /\ answer \in [Requests -> {"none", "accepted", "rejected"}]
    /\ started \subseteq Requests
    /\ calls \in [Requests -> Nat]
    /\ outcome \in [Requests -> Statuses \cup {"none"}]
    /\ cancelledEarly \subseteq Requests

Init ==
    /\ queue = <<>>
    /\ requestStates = [k \in Keys |-> NoRequest]
    /\ cancellation = [r \in Requests |-> FALSE]
    /\ stopping = FALSE
    /\ worker = "atWait"
    /\ item = NoRequest
    /\ result = FreshResult
    /\ closer = [c \in Closers |-> "idle"]
    /\ answer = [r \in Requests |-> "none"]
    /\ started = {}
    /\ calls = [r \in Requests |-> 0]
    /\ outcome = [r \in Requests |-> "none"]
    /\ cancelledEarly = {}

-----------------------------------------------------------------------------
(* The callers.                                                            *)

NotifyLost == UNCHANGED worker

(* cv_.notify_one() and cv_.notify_all(): only the worker ever waits.      *)
Notify == worker' = IF worker = "blocked" THEN "atWait" ELSE worker

CanAcceptReusedKey(r) ==
    /\ ~stopping
    /\ Cardinality(TrackedKeys) < MaxPendingRequests

CanAccept(r) ==
    /\ ~stopping
    /\ requestStates[KeyOf[r]] = NoRequest
    /\ Cardinality(TrackedKeys) < MaxPendingRequests

PushedFront(r) == <<r>> \o queue
Pushed(r) == Append(queue, r)

EnqueueAccepted(r) ==
    /\ answer[r] = "none"
    /\ CanAccept(r)
    /\ requestStates' = [requestStates EXCEPT ![KeyOf[r]] = r]
    /\ queue' = Pushed(r)
    /\ Notify
    /\ answer' = [answer EXCEPT ![r] = "accepted"]
    /\ UNCHANGED <<cancellation, stopping, item, result, closer,
                   started, calls, outcome, cancelledEarly>>

EnqueueRejected(r) ==
    /\ answer[r] = "none"
    /\ ~CanAccept(r)
    /\ answer' = [answer EXCEPT ![r] = "rejected"]
    /\ UNCHANGED <<sharedVars, workerVars, closer,
                   started, calls, outcome, cancelledEarly>>

(* cancel(k) that returns true; when it returns false it changes nothing.  *)
Cancel(k) ==
    /\ requestStates[k] # NoRequest
    /\ cancellation' = [cancellation EXCEPT ![requestStates[k]] = TRUE]
    /\ Notify
    /\ cancelledEarly' = cancelledEarly
                           \cup ({requestStates[k]} \cap Elements(queue))
    /\ UNCHANGED <<queue, requestStates, stopping, item, result, closer,
                   answer, started, calls, outcome>>

(* The requests whose flags shutdown sets.                                 *)
ReachedQueueOnly == Elements(queue)
ReachedByShutdown == Tracked

(* shutdown(): the critical section ...                                    *)
ShutdownMark(c) ==
    /\ closer[c] = "idle"
    /\ ~stopping
    /\ stopping' = TRUE
    /\ cancellation' = [r \in Requests |-> cancellation[r] \/ r \in ReachedByShutdown]
    /\ closer' = [closer EXCEPT ![c] = "marked"]
    /\ cancelledEarly' = cancelledEarly \cup Elements(queue)
    /\ UNCHANGED <<queue, requestStates, workerVars,
                   answer, started, calls, outcome>>

(* ... which returns at once when another call came first ...              *)
ShutdownLate(c) ==
    /\ closer[c] = "idle"
    /\ stopping
    /\ closer' = [closer EXCEPT ![c] = "late"]
    /\ UNCHANGED <<sharedVars, workerVars, historyVars>>

(* ... then notify_all outside of it ...                                   *)
ShutdownNotify(c) ==
    /\ closer[c] = "marked"
    /\ Notify
    /\ closer' = [closer EXCEPT ![c] = "joining"]
    /\ UNCHANGED <<sharedVars, item, result, historyVars>>

(* ... and the join, which returns when the worker has left run().         *)
ShutdownJoin(c) ==
    /\ closer[c] = "joining"
    /\ worker = "exited"
    /\ closer' = [closer EXCEPT ![c] = "joined"]
    /\ UNCHANGED <<sharedVars, workerVars, historyVars>>

-----------------------------------------------------------------------------
(* The worker thread: run().                                               *)

(* The predicate of cv_.wait is false: release the mutex and sleep.        *)
MustWaitForWork == queue = <<>>
MustWait == ~stopping /\ queue = <<>>

WorkerBlocks ==
    /\ worker = "atWait"
    /\ MustWait
    /\ worker' = "blocked"
    /\ UNCHANGED <<sharedVars, item, result, closer, historyVars>>

(* A condition variable may wake without being notified.                   *)
SpuriousWakeup ==
    /\ worker = "blocked"
    /\ worker' = "atWait"
    /\ UNCHANGED <<sharedVars, item, result, closer, historyVars>>

FrontLeft == queue
FrontRemoved == Tail(queue)

WorkerPops ==
    /\ worker = "atWait"
    /\ queue # <<>>
    /\ item' = Head(queue)
    /\ queue' = FrontRemoved
    /\ result' = FreshResult
    /\ worker' = "popped"
    /\ UNCHANGED <<requestStates, cancellation, stopping, closer, historyVars>>

LeaveAtOnce == stopping
LeaveWhenDrained == stopping /\ queue = <<>>

WorkerExits ==
    /\ worker = "atWait"
    /\ LeaveWhenDrained
    /\ worker' = "exited"
    /\ UNCHANGED <<sharedVars, item, result, closer, historyVars>>

(* What the work item's flag says (CancellationToken).                     *)
IsCancellationRequested == cancellation[item]

(* The flag is read without the mutex: either the task is skipped ...      *)
WorkerSkips ==
    /\ worker = "popped"
    /\ IsCancellationRequested
    /\ result' = "Cancelled"
    /\ worker' = "finished"
    /\ UNCHANGED <<sharedVars, item, closer, historyVars>>

(* ... or it is called.                                                    *)
WorkerStarts ==
    /\ worker = "popped"
    /\ ~IsCancellationRequested
    /\ started' = started \cup {item}
    /\ worker' = "running"
    /\ UNCHANGED <<sharedVars, item, result, closer,
                   answer, calls, outcome, cancelledEarly>>

(* The task returns, or throws.  It reports "Cancelled" only when its      *)
(* token told it so, but it may also finish without polling the token.     *)
TaskReturns(s) ==
    /\ worker = "running"
    /\ s = "Cancelled" => IsCancellationRequested
    /\ result' = s
    /\ worker' = "finished"
    /\ UNCHANGED <<sharedVars, item, closer, historyVars>>

KeyLeft == requestStates
KeyErased == [requestStates EXCEPT ![KeyOf[item]] = NoRequest]

WorkerErases ==
    /\ worker = "finished"
    /\ requestStates' = KeyErased
    /\ worker' = "erased"
    /\ UNCHANGED <<queue, cancellation, stopping, item, result, closer,
                   historyVars>>

WorkerCompletes ==
    /\ worker = "erased"
    /\ calls' = [calls EXCEPT ![item] = @ + 1]
    /\ outcome' = [outcome EXCEPT ![item] = result]
    /\ item' = NoRequest
    /\ worker' = "atWait"
    /\ UNCHANGED <<sharedVars, result, closer, answer, started,
                   cancelledEarly>>

WorkerStep ==
    \/ WorkerBlocks
    \/ WorkerPops
    \/ WorkerExits
    \/ WorkerSkips
    \/ WorkerStarts
    \/ \E s \in Statuses : TaskReturns(s)
    \/ WorkerErases
    \/ WorkerCompletes

CloserStep(c) ==
    \/ ShutdownMark(c)
    \/ ShutdownLate(c)
    \/ ShutdownNotify(c)
    \/ ShutdownJoin(c)

Next ==
    \/ \E r \in Requests : EnqueueAccepted(r) \/ EnqueueRejected(r)
    \/ \E k \in Keys : Cancel(k)
    \/ \E c \in Closers : CloserStep(c)
    \/ SpuriousWakeup
    \/ WorkerStep

(* The worker runs while it can, tasks terminate, and a thread that has    *)
(* begun shutdown goes on.  Nobody is obliged to call anything.            *)
Fairness ==
    /\ WF_vars(WorkerStep)
    /\ \A c \in Closers : WF_vars(ShutdownNotify(c) \/ ShutdownJoin(c))

Spec == Init /\ [][Next]_vars /\ Fairness

-----------------------------------------------------------------------------
(* Safety.                                                                 *)

(* The completion of a request is called at most once, and only if enqueue *)
(* accepted it (RequestScheduler.h: "Completion callback invoked once").   *)
CompletedAtMostOnce ==
    \A r \in Requests :
        /\ calls[r] <= 1
        /\ calls[r] = 1 => answer[r] = "accepted"

(* The map tracks exactly the requests that wait in the queue or run, each *)
(* under its own key, so that erasing a key after a task never drops the   *)
(* entry of a later request that reuses it, and cancel never misses one.   *)
TrackedIsOutstanding ==
    /\ Tracked = Elements(queue) \cup (IF InFlight THEN {item} ELSE {})
    /\ \A k \in TrackedKeys : KeyOf[requestStates[k]] = k

(* enqueue never lets more than maxPendingRequests_ requests be queued or  *)
(* in flight.                                                              *)
PendingBounded == Len(queue) + (IF InFlight THEN 1 ELSE 0) <= MaxPendingRequests

(* When the shutdown that joined the worker has returned, no accepted      *)
(* request is left without its completion.                                 *)
JoinedMeansDrained ==
    (\E c \in Closers : closer[c] = "joined") =>
        \A r \in Requests : answer[r] = "accepted" => calls[r] = 1

(* A request cancelled while it was still queued is never started, and its *)
(* completion is told so.                                                  *)
EarlyCancelHonoured ==
    \A r \in cancelledEarly :
        /\ r \notin started
        /\ calls[r] = 1 => outcome[r] = "Cancelled"

(* Once shutdown has set stopping_, no further task is started: the flags  *)
(* reach the queued requests and the one already popped.                   *)
NoStartAfterStop == [][stopping => started' = started]_vars

(* A flag set after the worker erased the key would be lost; cancel never  *)
(* sets the flag of a request that is no longer queued or in flight.       *)
CancelReachesLiveRequest ==
    [][\A r \in Requests :
         cancellation[r] # cancellation'[r] =>
            /\ calls[r] = 0
            /\ r \in Elements(queue) \/ (InFlight /\ r = item)]_vars

-----------------------------------------------------------------------------
(* Liveness.                                                               *)

(* A shutdown that has marked the scheduler returns.                       *)
ShutdownReturns ==
    \A c \in Closers : (closer[c] = "marked") ~> (closer[c] = "joined")

-----------------------------------------------------------------------------
(* The promise this scheduler implements.                                  *)

Promise == INSTANCE SchedulerPromise WITH
    line      <- (IF InFlight THEN <<item>> ELSE <<>>) \o queue,
    serving   <- InFlight /\ item \in started,
    cancelled <- {r \in Requests : cancellation[r]},
    closed    <- stopping,
    settled   <- IF worker = "erased" THEN item ELSE NoRequest,
    verdict   <- IF worker = "erased" THEN result ELSE "Failed",
    delivered <- outcome

(* The scheduler serves its callers as SchedulerPromise says, with its     *)
(* liveness: first come first served, one outcome each, nothing served     *)
(* that was cancelled before.                                              *)
ImplementsPromise == Promise!Spec

=============================================================================
