------------------------ MODULE RequestSchedulerProofs ------------------------
(***************************************************************************)
(* Proofs about RequestScheduler, for any set of requests and keys, any    *)
(* bound and any number of closers.                                        *)
(***************************************************************************)
EXTENDS RequestScheduler, FiniteSetTheorems, TLAPS

(* Facts about the work items in the queue.                                *)

LEMMA ElementsEmpty == Elements(<<>>) = {}
BY DEF Elements

(* push_back adds one element. *)
LEMMA ElementsAppend ==
  ASSUME NEW s \in Seq(Requests), NEW r \in Requests
  PROVE  Elements(Append(s, r)) = Elements(s) \cup {r}
<1>1. Elements(Append(s, r)) \subseteq Elements(s) \cup {r}
  BY DEF Elements
<1>2. r \in Elements(Append(s, r))
  <2>1. /\ Len(s) + 1 \in DOMAIN Append(s, r)
        /\ Append(s, r)[Len(s) + 1] = r
    OBVIOUS
  <2> QED BY <2>1 DEF Elements
<1>3. ASSUME NEW i \in DOMAIN s PROVE s[i] \in Elements(Append(s, r))
  <2>1. i \in DOMAIN Append(s, r) /\ Append(s, r)[i] = s[i]
    OBVIOUS
  <2> QED BY <2>1 DEF Elements
<1> QED BY <1>1, <1>2, <1>3 DEF Elements

NoRepeats(s) == \A i, j \in DOMAIN s : s[i] = s[j] => i = j

LEMMA NoRepeatsAppend ==
  ASSUME NEW s \in Seq(Requests), NEW r \in Requests,
         NoRepeats(s), r \notin Elements(s)
  PROVE  NoRepeats(Append(s, r))
BY DEF NoRepeats, Elements

(* front() and pop_front() split a queue without repetitions. *)
LEMMA HeadTail ==
  ASSUME NEW s \in Seq(Requests), s # <<>>, NoRepeats(s)
  PROVE  /\ Head(s) \in Requests
         /\ Tail(s) \in Seq(Requests)
         /\ Len(Tail(s)) = Len(s) - 1
         /\ NoRepeats(Tail(s))
         /\ Head(s) \notin Elements(Tail(s))
         /\ Elements(s) = Elements(Tail(s)) \cup {Head(s)}
<1>1. /\ Head(s) = s[1] /\ Head(s) \in Requests
      /\ Tail(s) \in Seq(Requests)
      /\ Len(Tail(s)) = Len(s) - 1
      /\ \A i \in DOMAIN Tail(s) : i + 1 \in DOMAIN s /\ Tail(s)[i] = s[i + 1]
      /\ \A i \in DOMAIN s : i # 1 => i - 1 \in DOMAIN Tail(s)
                                      /\ Tail(s)[i - 1] = s[i]
      /\ 1 \in DOMAIN s
      /\ DOMAIN s \subseteq Nat \ {0} /\ DOMAIN Tail(s) \subseteq Nat \ {0}
  OBVIOUS
<1>2. NoRepeats(Tail(s))
  BY <1>1 DEF NoRepeats
<1>3. Head(s) \notin Elements(Tail(s))
  BY <1>1 DEF NoRepeats, Elements
<1>4. ASSUME NEW i \in DOMAIN s PROVE s[i] \in Elements(Tail(s)) \cup {Head(s)}
  <2>1. CASE i = 1
    BY <1>1, <2>1
  <2>2. CASE i # 1
    BY <1>1, <2>2 DEF Elements
  <2> QED BY <2>1, <2>2
<1>5. Elements(Tail(s)) \cup {Head(s)} \subseteq Elements(s)
  BY <1>1 DEF Elements
<1>6. Elements(s) \subseteq Elements(Tail(s)) \cup {Head(s)}
  BY <1>4 DEF Elements
<1> QED BY <1>1, <1>2, <1>3, <1>5, <1>6

-----------------------------------------------------------------------------
(* Type correctness.                                                       *)

LEMMA TypeInit == ASSUME Init PROVE TypeOK
<1>1. <<>> \in Seq(Requests)
  OBVIOUS
<1> QED
  BY <1>1, SchedulerConstants
     DEF Init, TypeOK, WorkerStates, CloserStates, Statuses, FreshResult,
         Holding, InFlight

(* Every step of every thread keeps the type invariant. *)
LEMMA TypeStep == ASSUME TypeOK, [Next]_vars PROVE TypeOK'
<1> USE SchedulerConstants DEF TypeOK, WorkerStates, CloserStates, Statuses, Holding, InFlight
<1>1. ASSUME NEW r \in Requests, EnqueueAccepted(r) PROVE TypeOK'
  BY <1>1 DEF EnqueueAccepted, Pushed, Notify
<1>2. ASSUME NEW r \in Requests, EnqueueRejected(r) PROVE TypeOK'
  BY <1>2 DEF EnqueueRejected, sharedVars, workerVars
<1>3. ASSUME NEW k \in Keys, Cancel(k) PROVE TypeOK'
  <2>1. Elements(queue) \subseteq Requests
    BY DEF Elements
  <2> QED BY <1>3, <2>1 DEF Cancel, Notify
<1>4. ASSUME NEW c \in Closers, CloserStep(c) PROVE TypeOK'
  <2>1. Elements(queue) \subseteq Requests
    BY DEF Elements
  <2>2. CASE ShutdownMark(c)
    BY <2>1, <2>2 DEF ShutdownMark, workerVars
  <2>3. CASE ShutdownLate(c)
    BY <2>3 DEF ShutdownLate, sharedVars, workerVars, historyVars
  <2>4. CASE ShutdownNotify(c)
    BY <2>4 DEF ShutdownNotify, Notify, sharedVars, historyVars
  <2>5. CASE ShutdownJoin(c)
    BY <2>5 DEF ShutdownJoin, sharedVars, workerVars, historyVars
  <2> QED BY <1>4, <2>2, <2>3, <2>4, <2>5 DEF CloserStep
<1>5. CASE SpuriousWakeup \/ WorkerBlocks \/ WorkerExits
  BY <1>5 DEF SpuriousWakeup, WorkerBlocks, WorkerExits, sharedVars, historyVars
<1>6. CASE WorkerPops
  BY <1>6 DEF WorkerPops, FrontRemoved, FreshResult, historyVars
<1>7. CASE WorkerSkips
  BY <1>7 DEF WorkerSkips, sharedVars, historyVars
<1>8. CASE WorkerStarts
  <2>1. item \in Requests
    BY <1>8 DEF WorkerStarts
  <2> QED BY <1>8, <2>1 DEF WorkerStarts, sharedVars
<1>9. CASE \E s \in Statuses : TaskReturns(s)
  BY <1>9 DEF TaskReturns, sharedVars, historyVars
<1>10. CASE WorkerErases
  BY <1>10 DEF WorkerErases, KeyErased, historyVars
<1>11. CASE WorkerCompletes
  BY <1>11 DEF WorkerCompletes, sharedVars
<1>12. CASE UNCHANGED vars
  BY <1>12 DEF vars, sharedVars, workerVars, historyVars
<1> QED
  BY <1>1, <1>2, <1>3, <1>4, <1>5, <1>6, <1>7, <1>8, <1>9, <1>10, <1>11, <1>12
     DEF Next, WorkerStep

(* The scheduler's data members and its threads' positions keep their      *)
(* types under every call and every step of run().                         *)
THEOREM TypeCorrect == Spec => []TypeOK
<1>1. Init => TypeOK
  BY TypeInit
<1>2. TypeOK /\ [Next]_vars => TypeOK'
  BY TypeStep
<1> QED
  BY <1>1, <1>2, PTL DEF Spec

-----------------------------------------------------------------------------
(* The inductive invariant.                                                *)

Held(r) == Holding /\ r = item

(* A request is in at most one place: queue, worker, or completed. *)
PlaceInv ==
    /\ NoRepeats(queue)
    /\ \A r \in Requests :
          /\ calls[r] \in {0, 1}
          /\ calls[r] = 0 <=> outcome[r] = "none"
          /\ r \in Elements(queue) => ~Held(r)
          /\ calls[r] = 1 => r \notin Elements(queue) /\ ~Held(r)
          /\ answer[r] = "accepted" <=>
                r \in Elements(queue) \/ Held(r) \/ calls[r] = 1

(* The map owns the key of each request that is queued or in flight. *)
MapInv ==
    /\ \A k \in Keys :
          requestStates[k] # NoRequest => KeyOf[requestStates[k]] = k
    /\ \A r \in Requests :
          requestStates[KeyOf[r]] = r <=>
             r \in Elements(queue) \/ (InFlight /\ r = item)

(* The worker leaves only a drained scheduler, which accepts nothing more. *)
CloseInv ==
    /\ worker = "exited" => stopping /\ queue = <<>>
    /\ \A c \in Closers : closer[c] = "joined" => worker = "exited"

(* After shutdown every flag that matters is set. *)
StopInv ==
    stopping => \A r \in Requests :
        r \in Elements(queue) \/ (InFlight /\ r = item) => cancellation[r]

(* Only requests that have left the queue have been started. *)
StartInv ==
    /\ \A r \in Elements(queue) : r \notin started
    /\ worker = "popped" => item \notin started
    /\ started \subseteq {r \in Requests : answer[r] = "accepted"}

(* The fate of a request cancelled while it was queued. *)
EarlyInv ==
    \A r \in cancelledEarly :
        /\ cancellation[r]
        /\ r \notin started
        /\ \/ r \in Elements(queue)
           \/ worker = "popped" /\ r = item
           \/ worker \in {"finished", "erased"} /\ r = item /\ result = "Cancelled"
           \/ calls[r] = 1 /\ outcome[r] = "Cancelled"

(* A result other than Cancelled comes from the task. *)
ResultInv ==
    /\ worker = "running" => item \in started
    /\ worker = "finished" =>
          IF result = "Cancelled" THEN cancellation[item] ELSE item \in started

IInv ==
    /\ TypeOK
    /\ PlaceInv
    /\ MapInv
    /\ CloseInv
    /\ StopInv
    /\ StartInv
    /\ EarlyInv
    /\ ResultInv

(* A new scheduler is empty. *)
LEMMA InvInit == ASSUME Init PROVE IInv
<1>1. TypeOK
  BY TypeInit
<1>2. Elements(queue) = {} /\ NoRepeats(queue)
  BY ElementsEmpty DEF Init, NoRepeats
<1>3. requestStates \in [Keys -> {NoRequest}]
  BY DEF Init
<1>4. MapInv
  BY <1>2, <1>3, SchedulerConstants DEF Init, MapInv, InFlight
<1>5. PlaceInv
  BY <1>2, SchedulerConstants DEF Init, PlaceInv, Held, Holding, InFlight
<1>6. CloseInv /\ StopInv /\ StartInv /\ EarlyInv /\ ResultInv
  BY <1>2 DEF Init, CloseInv, StopInv, StartInv, EarlyInv, ResultInv
<1> QED BY <1>1, <1>4, <1>5, <1>6 DEF IInv

(* An accepted enqueue: r moves from nowhere to the end of the queue. *)
LEMMA InvEnqueue ==
  ASSUME IInv, NEW r \in Requests, EnqueueAccepted(r)
  PROVE  IInv'
<1> USE SchedulerConstants
<1> USE DEF Held, Holding, InFlight
<1>1. TypeOK' /\ TypeOK
  BY TypeStep DEF IInv, Next
<1>2. PlaceInv /\ MapInv /\ CloseInv /\ StopInv /\ StartInv /\ EarlyInv /\ ResultInv
  BY DEF IInv
<1>3. /\ answer[r] = "none" /\ r \notin Elements(queue)
      /\ calls[r] = 0 /\ ~Held(r)
  BY <1>1, <1>2 DEF EnqueueAccepted, PlaceInv, TypeOK
<1>4. /\ Elements(queue') = Elements(queue) \cup {r}
      /\ NoRepeats(queue')
  BY <1>1, <1>2, <1>3, ElementsAppend, NoRepeatsAppend
     DEF EnqueueAccepted, Pushed, PlaceInv, TypeOK
<1>5. /\ (worker' = worker \/ (worker = "blocked" /\ worker' = "atWait"))
      /\ answer' = [answer EXCEPT ![r] = "accepted"]
      /\ requestStates' = [requestStates EXCEPT ![KeyOf[r]] = r]
      /\ requestStates[KeyOf[r]] = NoRequest
      /\ ~stopping
      /\ UNCHANGED <<cancellation, stopping, item, result, closer,
                     started, calls, outcome, cancelledEarly>>
  BY DEF EnqueueAccepted, Notify, CanAccept
<1>6. PlaceInv'
  BY <1>1, <1>2, <1>3, <1>4, <1>5 DEF PlaceInv, TypeOK
<1>7. MapInv'
  <2>1. \A k \in Keys : requestStates'[k] # NoRequest => KeyOf[requestStates'[k]] = k
    BY <1>1, <1>2, <1>5 DEF MapInv, TypeOK
  <2>2. ASSUME NEW q \in Requests
        PROVE  requestStates'[KeyOf[q]] = q <=>
                  q \in Elements(queue') \/ (InFlight' /\ q = item')
    <3>1. CASE q = r
      BY <1>1, <1>4, <1>5, <3>1 DEF TypeOK
    <3>2. CASE q # r
      <4>1. q \in Elements(queue') <=> q \in Elements(queue)
        BY <1>4, <3>2
      <4>2. InFlight' <=> InFlight
        BY <1>5
      <4>3. requestStates'[KeyOf[q]] = q <=> requestStates[KeyOf[q]] = q
        BY <1>1, <1>5, <3>2 DEF TypeOK
      <4> QED BY <1>2, <1>5, <4>1, <4>2, <4>3 DEF MapInv
    <3> QED BY <3>1, <3>2
  <2> QED BY <2>1, <2>2 DEF MapInv
<1>8. CloseInv'
  BY <1>1, <1>2, <1>5 DEF CloseInv, TypeOK
<1>9. StopInv'
  BY <1>5 DEF StopInv
<1>10. StartInv' /\ ResultInv'
  BY <1>1, <1>2, <1>3, <1>4, <1>5 DEF StartInv, ResultInv, TypeOK
<1>11. EarlyInv'
  BY <1>1, <1>2, <1>4, <1>5 DEF EarlyInv, TypeOK
<1> QED BY <1>1, <1>6, <1>7, <1>8, <1>9, <1>10, <1>11 DEF IInv

(* cancel sets the flag of the request that owns the key. *)
LEMMA InvCancel ==
  ASSUME IInv, NEW k \in Keys, Cancel(k)
  PROVE  IInv'
<1> USE SchedulerConstants
<1> USE DEF Held, Holding, InFlight
<1>1. TypeOK' /\ TypeOK
  BY TypeStep DEF IInv, Next
<1>2. PlaceInv /\ MapInv /\ CloseInv /\ StopInv /\ StartInv /\ EarlyInv /\ ResultInv
  BY DEF IInv
<1>3. /\ (worker' = worker \/ (worker = "blocked" /\ worker' = "atWait"))
      /\ cancellation' = [cancellation EXCEPT ![requestStates[k]] = TRUE]
      /\ cancelledEarly' = cancelledEarly
                             \cup ({requestStates[k]} \cap Elements(queue))
      /\ requestStates[k] \in Requests
      /\ UNCHANGED <<queue, requestStates, stopping, item, result, closer,
                     answer, started, calls, outcome>>
  BY <1>1 DEF Cancel, Notify, TypeOK
<1>4. PlaceInv' /\ MapInv'
  BY <1>2, <1>3 DEF PlaceInv, MapInv
<1>5. CloseInv'
  BY <1>1, <1>2, <1>3 DEF CloseInv
<1>6. StopInv'
  BY <1>1, <1>2, <1>3 DEF StopInv, TypeOK
<1>7. StartInv' /\ ResultInv'
  BY <1>1, <1>2, <1>3 DEF StartInv, ResultInv, TypeOK
<1>8. EarlyInv'
  BY <1>1, <1>2, <1>3 DEF EarlyInv, StartInv, TypeOK
<1> QED BY <1>1, <1>4, <1>5, <1>6, <1>7, <1>8 DEF IInv

(* shutdown sets every tracked flag, then notifies, then joins. *)
LEMMA InvCloser ==
  ASSUME IInv, NEW c \in Closers, CloserStep(c)
  PROVE  IInv'
<1> USE SchedulerConstants
<1> USE DEF Held, Holding, InFlight
<1>1. TypeOK' /\ TypeOK
  BY TypeStep DEF IInv, Next
<1>2. PlaceInv /\ MapInv /\ CloseInv /\ StopInv /\ StartInv /\ EarlyInv /\ ResultInv
  BY DEF IInv
<1>3. CASE ShutdownMark(c)
  <2>1. /\ ~stopping /\ stopping'
        /\ cancellation' = [r \in Requests |-> cancellation[r] \/ r \in Tracked]
        /\ closer' = [closer EXCEPT ![c] = "marked"]
        /\ cancelledEarly' = cancelledEarly \cup Elements(queue)
        /\ UNCHANGED <<queue, requestStates, worker, item, result,
                       answer, started, calls, outcome>>
    BY <1>3 DEF ShutdownMark, ReachedByShutdown, workerVars
  <2>2. \A r \in Requests :
           r \in Elements(queue) \/ (InFlight /\ r = item) => r \in Tracked
    BY <1>1, <1>2 DEF MapInv, Tracked, TrackedKeys
  <2>3. Elements(queue) \subseteq Requests
    BY <1>1 DEF Elements, TypeOK
  <2>4. PlaceInv' /\ MapInv' /\ CloseInv'
    BY <1>1, <1>2, <2>1 DEF PlaceInv, MapInv, CloseInv, TypeOK
  <2>5. StopInv'
    BY <2>1, <2>2 DEF StopInv
  <2>6. StartInv' /\ ResultInv'
    BY <1>1, <1>2, <2>1 DEF StartInv, ResultInv, TypeOK
  <2>7. EarlyInv'
    BY <1>1, <1>2, <2>1, <2>2, <2>3 DEF EarlyInv, StartInv, TypeOK
  <2> QED BY <1>1, <2>4, <2>5, <2>6, <2>7 DEF IInv
<1>4. CASE ShutdownLate(c) \/ ShutdownNotify(c) \/ ShutdownJoin(c)
  <2>1. /\ (worker' = worker \/ (worker = "blocked" /\ worker' = "atWait"))
        /\ \E s \in CloserStates :
              /\ closer' = [closer EXCEPT ![c] = s]
              /\ s = "joined" => worker = "exited"
        /\ UNCHANGED <<sharedVars, item, result, historyVars>>
    BY <1>4 DEF ShutdownLate, ShutdownNotify, ShutdownJoin, Notify, CloserStates,
                sharedVars, workerVars, historyVars
  <2>2. PlaceInv' /\ MapInv' /\ StopInv' /\ StartInv' /\ EarlyInv' /\ ResultInv'
    BY <1>2, <2>1 DEF PlaceInv, MapInv, StopInv, StartInv, EarlyInv, ResultInv,
                      sharedVars, historyVars
  <2>3. CloseInv'
    BY <1>1, <1>2, <2>1 DEF CloseInv, TypeOK, sharedVars
  <2> QED BY <1>1, <2>2, <2>3 DEF IInv
<1> QED BY <1>3, <1>4 DEF CloserStep

(* The worker takes the head of the queue. *)
LEMMA InvPop ==
  ASSUME IInv, WorkerPops
  PROVE  IInv'
<1> USE SchedulerConstants
<1> USE DEF Held, Holding, InFlight
<1>1. TypeOK' /\ TypeOK
  BY TypeStep DEF IInv, Next, WorkerStep
<1>2. PlaceInv /\ MapInv /\ CloseInv /\ StopInv /\ StartInv /\ EarlyInv /\ ResultInv
  BY DEF IInv
<1>3. /\ worker = "atWait" /\ worker' = "popped"
      /\ UNCHANGED <<requestStates, cancellation, stopping, closer,
                     answer, started, calls, outcome, cancelledEarly>>
  BY DEF WorkerPops, historyVars
<1>4. /\ item' \in Requests /\ item' \notin Elements(queue')
      /\ NoRepeats(queue')
      /\ Elements(queue) = Elements(queue') \cup {item'}
  BY <1>1, <1>2, HeadTail DEF WorkerPops, FrontRemoved, PlaceInv, TypeOK
<1>5. PlaceInv'
  BY <1>2, <1>3, <1>4 DEF PlaceInv
<1>6. MapInv'
  BY <1>2, <1>3, <1>4 DEF MapInv
<1>7. CloseInv' /\ StopInv'
  BY <1>2, <1>3, <1>4 DEF CloseInv, StopInv
<1>8. StartInv' /\ ResultInv'
  BY <1>2, <1>3, <1>4 DEF StartInv, ResultInv
<1>9. EarlyInv'
  BY <1>2, <1>3, <1>4 DEF EarlyInv
<1> QED BY <1>1, <1>5, <1>6, <1>7, <1>8, <1>9 DEF IInv

(* The worker decides the result of its item: skipped, called, returned. *)
LEMMA InvServe ==
  ASSUME IInv, WorkerSkips \/ WorkerStarts \/ (\E s \in Statuses : TaskReturns(s))
  PROVE  IInv'
<1> USE SchedulerConstants
<1> USE DEF Held, Holding, InFlight
<1>1. TypeOK' /\ TypeOK
  BY TypeStep DEF IInv, Next, WorkerStep
<1>2. PlaceInv /\ MapInv /\ CloseInv /\ StopInv /\ StartInv /\ EarlyInv /\ ResultInv
  BY DEF IInv
<1>3. /\ InFlight /\ InFlight' /\ worker # "exited" /\ worker' # "exited"
      /\ worker' # "popped"
      /\ UNCHANGED <<queue, requestStates, cancellation, stopping, item, closer,
                     answer, calls, outcome, cancelledEarly>>
  BY DEF WorkerSkips, WorkerStarts, TaskReturns, sharedVars, historyVars
<1>4. PlaceInv' /\ MapInv' /\ CloseInv' /\ StopInv'
  BY <1>2, <1>3 DEF PlaceInv, MapInv, CloseInv, StopInv
<1>5. CASE WorkerStarts
  <2>1. /\ started' = started \cup {item} /\ ~cancellation[item]
        /\ item \in Requests /\ worker = "popped" /\ worker' = "running"
    BY <1>1, <1>5 DEF WorkerStarts, IsCancellationRequested, TypeOK
  <2>2. answer[item] = "accepted" /\ item \notin Elements(queue)
    BY <1>2, <1>3, <2>1 DEF PlaceInv
  <2>3. StartInv' /\ ResultInv'
    BY <1>2, <1>3, <2>1, <2>2 DEF StartInv, ResultInv
  <2>4. EarlyInv'
    BY <1>2, <1>3, <2>1 DEF EarlyInv
  <2> QED BY <1>1, <1>4, <2>3, <2>4 DEF IInv
<1>6. CASE WorkerSkips
  <2>1. /\ started' = started /\ result' = "Cancelled"
        /\ worker = "popped" /\ worker' = "finished" /\ cancellation[item]
    BY <1>6 DEF WorkerSkips, IsCancellationRequested, historyVars
  <2>2. StartInv' /\ EarlyInv' /\ ResultInv'
    BY <1>2, <1>3, <2>1 DEF StartInv, EarlyInv, ResultInv
  <2> QED BY <1>1, <1>4, <2>2 DEF IInv
<1>7. CASE \E s \in Statuses : TaskReturns(s)
  <2>1. /\ started' = started /\ worker = "running" /\ worker' = "finished"
        /\ result' = "Cancelled" => cancellation[item]
    BY <1>7 DEF TaskReturns, IsCancellationRequested, historyVars
  <2>2. StartInv' /\ EarlyInv' /\ ResultInv'
    BY <1>2, <1>3, <2>1 DEF StartInv, EarlyInv, ResultInv
  <2> QED BY <1>1, <1>4, <2>2 DEF IInv
<1> QED BY <1>5, <1>6, <1>7

(* The worker forgets the key of its item. *)
LEMMA InvErase ==
  ASSUME IInv, WorkerErases
  PROVE  IInv'
<1> USE SchedulerConstants
<1> USE DEF Held, Holding, InFlight
<1>1. TypeOK' /\ TypeOK
  BY TypeStep DEF IInv, Next, WorkerStep
<1>2. PlaceInv /\ MapInv /\ CloseInv /\ StopInv /\ StartInv /\ EarlyInv /\ ResultInv
  BY DEF IInv
<1>3. /\ worker = "finished" /\ worker' = "erased" /\ item \in Requests
      /\ requestStates' = [requestStates EXCEPT ![KeyOf[item]] = NoRequest]
      /\ UNCHANGED <<queue, cancellation, stopping, item, result, closer,
                     answer, started, calls, outcome, cancelledEarly>>
  BY <1>1 DEF WorkerErases, KeyErased, historyVars, TypeOK
<1>4. requestStates[KeyOf[item]] = item
  BY <1>2, <1>3 DEF MapInv
<1>5. MapInv'
  <2>1. \A k \in Keys : requestStates'[k] # NoRequest => KeyOf[requestStates'[k]] = k
    BY <1>1, <1>2, <1>3 DEF MapInv, TypeOK
  <2>2. \A q \in Requests : requestStates'[KeyOf[q]] = q <=> q \in Elements(queue)
    BY <1>1, <1>2, <1>3, <1>4 DEF MapInv, PlaceInv, TypeOK
  <2> QED BY <1>3, <2>1, <2>2 DEF MapInv
<1>6. PlaceInv' /\ CloseInv'
  BY <1>2, <1>3 DEF PlaceInv, CloseInv
<1>7. StopInv' /\ StartInv' /\ EarlyInv' /\ ResultInv'
  BY <1>2, <1>3 DEF StopInv, StartInv, EarlyInv, ResultInv
<1> QED BY <1>1, <1>5, <1>6, <1>7 DEF IInv

(* The worker calls the completion of its item. *)
LEMMA InvComplete ==
  ASSUME IInv, WorkerCompletes
  PROVE  IInv'
<1> USE SchedulerConstants
<1> USE DEF Held, Holding, InFlight
<1>1. TypeOK' /\ TypeOK
  BY TypeStep DEF IInv, Next, WorkerStep
<1>2. PlaceInv /\ MapInv /\ CloseInv /\ StopInv /\ StartInv /\ EarlyInv /\ ResultInv
  BY DEF IInv
<1>3. /\ worker = "erased" /\ worker' = "atWait" /\ item \in Requests
      /\ calls' = [calls EXCEPT ![item] = @ + 1]
      /\ outcome' = [outcome EXCEPT ![item] = result]
      /\ UNCHANGED <<queue, requestStates, cancellation, stopping, closer,
                     answer, started, cancelledEarly>>
  BY <1>1 DEF WorkerCompletes, sharedVars, TypeOK
<1>4. calls[item] = 0 /\ item \notin Elements(queue)
  BY <1>1, <1>2, <1>3 DEF PlaceInv
<1>5. PlaceInv'
  BY <1>1, <1>2, <1>3, <1>4 DEF PlaceInv, TypeOK, Statuses
<1>6. MapInv' /\ CloseInv' /\ StopInv' /\ StartInv' /\ ResultInv'
  BY <1>2, <1>3 DEF MapInv, CloseInv, StopInv, StartInv, ResultInv
<1>7. EarlyInv'
  BY <1>1, <1>2, <1>3, <1>4 DEF EarlyInv, TypeOK
<1> QED BY <1>1, <1>5, <1>6, <1>7 DEF IInv

LEMMA InvStep == ASSUME IInv, [Next]_vars PROVE IInv'
<1>1. ASSUME NEW r \in Requests, EnqueueRejected(r) PROVE IInv'
  <2>1. TypeOK' /\ TypeOK
    BY <1>1, TypeStep DEF IInv, Next
  <2>2. /\ answer[r] = "none" /\ answer' = [answer EXCEPT ![r] = "rejected"]
        /\ UNCHANGED <<queue, requestStates, cancellation, stopping,
                       worker, item, result, closer,
                       started, calls, outcome, cancelledEarly>>
    BY <1>1 DEF EnqueueRejected, sharedVars, workerVars
  <2>3. PlaceInv'
    BY <2>1, <2>2 DEF IInv, PlaceInv, Held, Holding, InFlight, TypeOK
  <2>4. MapInv' /\ CloseInv' /\ StopInv' /\ EarlyInv' /\ ResultInv'
    BY <2>2 DEF IInv, MapInv, CloseInv, StopInv, EarlyInv, ResultInv, InFlight
  <2>5. StartInv'
    BY <2>1, <2>2 DEF IInv, StartInv, TypeOK
  <2> QED BY <2>1, <2>3, <2>4, <2>5 DEF IInv
<1>2. CASE WorkerBlocks \/ SpuriousWakeup \/ WorkerExits \/ UNCHANGED vars
  <2>1. TypeOK'
    BY <1>2, TypeStep DEF IInv, Next, WorkerStep
  <2>2. /\ \/ worker' = worker
           \/ worker \in {"atWait", "blocked"} /\ worker' \in {"atWait", "blocked"}
           \/ worker = "atWait" /\ worker' = "exited" /\ stopping /\ queue = <<>>
        /\ UNCHANGED <<sharedVars, item, result, closer, historyVars>>
    BY <1>2 DEF WorkerBlocks, SpuriousWakeup, WorkerExits, LeaveWhenDrained,
                vars, workerVars
  <2>3. PlaceInv' /\ MapInv' /\ StopInv' /\ StartInv' /\ EarlyInv' /\ ResultInv'
    BY <2>2 DEF IInv, PlaceInv, MapInv, StopInv, StartInv, EarlyInv, ResultInv,
                Held, Holding, InFlight, sharedVars, historyVars
  <2>4. CloseInv'
    BY <2>2 DEF IInv, CloseInv, sharedVars
  <2> QED BY <2>1, <2>3, <2>4 DEF IInv
<1> QED
  BY <1>1, <1>2, InvEnqueue, InvCancel, InvCloser, InvPop, InvServe, InvErase,
     InvComplete
     DEF Next, WorkerStep

(* Between any two critical sections of enqueue, cancel, shutdown and      *)
(* run(), each request is in one place, the map owns the keys of those     *)
(* that are not yet done, and flags and results agree with what was asked. *)
THEOREM Inductive == Spec => []IInv
<1>1. Init => IInv
  BY InvInit
<1>2. IInv /\ [Next]_vars => IInv'
  BY InvStep
<1> QED
  BY <1>1, <1>2, PTL DEF Spec

-----------------------------------------------------------------------------
(* The safety properties.                                                  *)

(* "Completion callback invoked once": never twice, never unasked. *)
THEOREM AtMostOnce == Spec => []CompletedAtMostOnce
<1>1. IInv => CompletedAtMostOnce
  BY DEF IInv, PlaceInv, CompletedAtMostOnce
<1> QED
  BY <1>1, Inductive, PTL

(* requestStates_ holds exactly the queued and running requests. *)
THEOREM MapTracksOutstanding == Spec => []TrackedIsOutstanding
<1>1. ASSUME IInv PROVE TrackedIsOutstanding
  <2>1. /\ TypeOK /\ MapInv /\ Elements(queue) \subseteq Requests
        /\ InFlight => item \in Requests
    BY <1>1 DEF IInv, TypeOK, Elements, Holding, InFlight
  <2>2. ASSUME NEW k \in TrackedKeys
        PROVE  /\ KeyOf[requestStates[k]] = k
               /\ requestStates[k] \in Elements(queue)
                    \/ (InFlight /\ requestStates[k] = item)
    BY <2>1, SchedulerConstants DEF MapInv, TrackedKeys, TypeOK
  <2>3. ASSUME NEW r \in Requests,
               r \in Elements(queue) \/ (InFlight /\ r = item)
        PROVE  r \in Tracked
    BY <2>1, <2>3, SchedulerConstants DEF MapInv, Tracked, TrackedKeys
  <2> QED BY <2>1, <2>2, <2>3 DEF TrackedIsOutstanding, Tracked
<1> QED
  BY <1>1, Inductive, PTL

(* The join in shutdown() is reached only by a drained scheduler. *)
THEOREM Drained == Spec => []JoinedMeansDrained
<1>1. IInv => JoinedMeansDrained
  BY ElementsEmpty
     DEF IInv, PlaceInv, CloseInv, JoinedMeansDrained, Held, Holding, InFlight
<1> QED
  BY <1>1, Inductive, PTL

(* A request cancelled in the queue is skipped and reported Cancelled. *)
THEOREM EarlyCancel == Spec => []EarlyCancelHonoured
<1>1. IInv => EarlyCancelHonoured
  BY DEF IInv, PlaceInv, EarlyInv, EarlyCancelHonoured, TypeOK, Held, Holding,
         InFlight
<1> QED
  BY <1>1, Inductive, PTL

(* No task starts once stopping_ is set. *)
THEOREM NoLateStart == Spec => NoStartAfterStop
<1>1. ASSUME IInv, [Next]_vars PROVE stopping => started' = started
  <2>1. CASE WorkerStarts
    <3>1. worker = "popped" /\ item \in Requests /\ ~cancellation[item]
      BY <1>1, <2>1 DEF WorkerStarts, IsCancellationRequested, IInv, TypeOK,
                        Holding, InFlight
    <3> QED BY <1>1, <3>1 DEF IInv, StopInv, InFlight
  <2>2. CASE ~WorkerStarts
    BY <1>1, <2>2
       DEF Next, EnqueueAccepted, EnqueueRejected, Cancel, CloserStep, ShutdownMark,
           ShutdownLate, ShutdownNotify, ShutdownJoin, SpuriousWakeup, WorkerStep,
           WorkerBlocks, WorkerPops, WorkerExits, WorkerSkips, TaskReturns,
           WorkerErases, WorkerCompletes, vars, sharedVars, workerVars, historyVars
  <2> QED BY <2>1, <2>2
<1>2. [][IInv /\ [Next]_vars => (stopping => started' = started)]_vars
  BY <1>1, PTL
<1> QED
  BY <1>1, Inductive, PTL DEF Spec, NoStartAfterStop

(* The map counts what is queued or in flight, up to the bound. *)
CountInv ==
    /\ IsFiniteSet(TrackedKeys)
    /\ Cardinality(TrackedKeys) = Len(queue) + (IF InFlight THEN 1 ELSE 0)
    /\ Cardinality(TrackedKeys) <= MaxPendingRequests

LEMMA CountStep == ASSUME IInv, CountInv, [Next]_vars PROVE CountInv'
<1> USE SchedulerConstants
<1>1. TypeOK /\ TypeOK' /\ MapInv /\ PlaceInv
  BY TypeStep DEF IInv
<1>2. ASSUME NEW r \in Requests, EnqueueAccepted(r) PROVE CountInv'
  <2>1. /\ KeyOf[r] \in Keys \ TrackedKeys
        /\ Cardinality(TrackedKeys) < MaxPendingRequests
        /\ InFlight' <=> InFlight
        /\ Len(queue') = Len(queue) + 1
    BY <1>1, <1>2 DEF EnqueueAccepted, CanAccept, Pushed, Notify, TrackedKeys,
                      InFlight, TypeOK
  <2>2. TrackedKeys' = TrackedKeys \cup {KeyOf[r]}
    BY <1>1, <1>2 DEF EnqueueAccepted, TrackedKeys, TypeOK
  <2>3. /\ IsFiniteSet(TrackedKeys \cup {KeyOf[r]})
        /\ Cardinality(TrackedKeys \cup {KeyOf[r]}) = Cardinality(TrackedKeys) + 1
    BY <2>1, FS_AddElement DEF CountInv
  <2>4. Cardinality(TrackedKeys) \in Nat
    BY FS_CardinalityType DEF CountInv
  <2>5. Len(queue) \in Nat
    BY <1>1 DEF TypeOK
  <2> QED BY <2>1, <2>2, <2>3, <2>4, <2>5 DEF CountInv
<1>3. CASE WorkerErases
  <2>1. /\ InFlight /\ ~InFlight' /\ queue' = queue /\ item \in Requests
        /\ requestStates' = [requestStates EXCEPT ![KeyOf[item]] = NoRequest]
    BY <1>1, <1>3 DEF WorkerErases, KeyErased, InFlight, Holding, TypeOK
  <2>2. requestStates[KeyOf[item]] = item
    BY <1>1, <2>1 DEF MapInv
  <2>3. /\ KeyOf[item] \in TrackedKeys
        /\ TrackedKeys' = TrackedKeys \ {KeyOf[item]}
    BY <1>1, <2>1, <2>2 DEF TrackedKeys, TypeOK
  <2>4. /\ IsFiniteSet(TrackedKeys \ {KeyOf[item]})
        /\ Cardinality(TrackedKeys \ {KeyOf[item]}) = Cardinality(TrackedKeys) - 1
    BY <2>3, FS_RemoveElement DEF CountInv
  <2>5. Cardinality(TrackedKeys) \in Nat /\ Len(queue) \in Nat
    BY <1>1, FS_CardinalityType DEF CountInv, TypeOK
  <2> QED BY <2>1, <2>3, <2>4, <2>5 DEF CountInv
<1>4. CASE WorkerPops
  <2>1. /\ ~InFlight /\ InFlight' /\ requestStates' = requestStates
        /\ Len(queue') = Len(queue) - 1
    BY <1>1, <1>4, HeadTail DEF WorkerPops, FrontRemoved, InFlight, PlaceInv, TypeOK
  <2>2. Cardinality(TrackedKeys) \in Nat /\ Len(queue) \in Nat
    BY <1>1, FS_CardinalityType DEF CountInv, TypeOK
  <2> QED BY <2>1, <2>2 DEF CountInv, TrackedKeys
<1>5. CASE UNCHANGED <<queue, requestStates>> /\ (InFlight' <=> InFlight)
  BY <1>5 DEF CountInv, TrackedKeys
<1>6. ASSUME \/ \E r \in Requests : EnqueueRejected(r)
             \/ \E k \in Keys : Cancel(k)
             \/ \E c \in Closers : CloserStep(c)
             \/ UNCHANGED vars
      PROVE  UNCHANGED <<queue, requestStates>> /\ (InFlight' <=> InFlight)
  BY <1>6
     DEF EnqueueRejected, Cancel, CloserStep, ShutdownMark, ShutdownLate,
         ShutdownNotify, ShutdownJoin, Notify, InFlight, vars, sharedVars, workerVars
<1>7. ASSUME \/ SpuriousWakeup \/ WorkerBlocks \/ WorkerExits
             \/ WorkerSkips \/ WorkerStarts \/ \E s \in Statuses : TaskReturns(s)
             \/ WorkerCompletes
      PROVE  UNCHANGED <<queue, requestStates>> /\ (InFlight' <=> InFlight)
  BY <1>7
     DEF SpuriousWakeup, WorkerBlocks, WorkerExits, WorkerSkips, WorkerStarts,
         TaskReturns, WorkerCompletes, InFlight, sharedVars
<1> QED
  BY <1>2, <1>3, <1>4, <1>5, <1>6, <1>7 DEF Next, WorkerStep

LEMMA Counted == Spec => []CountInv
<1>1. ASSUME Init PROVE CountInv
  <2>1. TrackedKeys = {} /\ Len(queue) = 0 /\ ~InFlight
    BY <1>1 DEF Init, TrackedKeys, InFlight
  <2> QED BY <2>1, FS_EmptySet, SchedulerConstants DEF CountInv
<1>2. IInv /\ CountInv /\ [Next]_vars => CountInv'
  BY CountStep
<1> QED
  BY <1>1, <1>2, Inductive, PTL DEF Spec

(* enqueue's bound covers the queue and the request in flight. *)
THEOREM Bounded == Spec => []PendingBounded
<1>1. CountInv => PendingBounded
  BY DEF CountInv, PendingBounded
<1> QED
  BY <1>1, Counted, PTL

(* No flag is set for a request that has left queue and worker. *)
THEOREM CancelReachesLive == Spec => CancelReachesLiveRequest
<1> DEFINE Reaches(r) ==
      /\ calls[r] = 0
      /\ r \in Elements(queue) \/ (InFlight /\ r = item)
<1>1. ASSUME IInv, [Next]_vars, NEW r \in Requests, cancellation[r] # cancellation'[r]
      PROVE  Reaches(r)
  <2>1. TypeOK /\ MapInv /\ PlaceInv
    BY <1>1 DEF IInv
  <2>2. ASSUME NEW k \in Keys, requestStates[k] = r PROVE Reaches(r)
    <3>1. requestStates[KeyOf[r]] = r
      BY <1>1, <2>1, <2>2, SchedulerConstants DEF MapInv
    <3>2. r \in Elements(queue) \/ (InFlight /\ r = item)
      BY <1>1, <2>1, <3>1 DEF MapInv
    <3>3. calls[r] = 0
      BY <1>1, <2>1, <3>2 DEF PlaceInv, Held, Holding
    <3> QED BY <3>2, <3>3 DEF Reaches
  <2>3. ASSUME NEW k \in Keys, Cancel(k) PROVE requestStates[k] = r
    BY <1>1, <2>1, <2>3 DEF Cancel, TypeOK
  <2>4. ASSUME NEW c \in Closers, CloserStep(c)
        PROVE  \E k \in Keys : requestStates[k] = r
    <3>1. CASE ShutdownMark(c)
      <4>1. cancellation'[r] = (cancellation[r] \/ r \in Tracked)
        BY <3>1 DEF ShutdownMark, ReachedByShutdown
      <4>2. cancellation[r] \in BOOLEAN
        BY <2>1 DEF TypeOK
      <4>3. r \in Tracked
        <5>1. cancellation[r] # cancellation'[r]
          BY <1>1
        <5> QED BY <4>1, <4>2, <5>1
      <4> QED BY <4>3 DEF Tracked, TrackedKeys
    <3>2. CASE ShutdownLate(c) \/ ShutdownNotify(c) \/ ShutdownJoin(c)
      BY <1>1, <3>2 DEF ShutdownLate, ShutdownNotify, ShutdownJoin, sharedVars
    <3> QED BY <2>4, <3>1, <3>2 DEF CloserStep
  <2>5. ASSUME \/ \E q \in Requests : EnqueueAccepted(q) \/ EnqueueRejected(q)
               \/ SpuriousWakeup \/ WorkerStep \/ UNCHANGED vars
        PROVE  cancellation' = cancellation
    BY <2>5
       DEF EnqueueAccepted, EnqueueRejected, SpuriousWakeup, WorkerStep, WorkerBlocks,
           WorkerPops, WorkerExits, WorkerSkips, WorkerStarts, TaskReturns,
           WorkerErases, WorkerCompletes, vars, sharedVars
  <2> QED BY <1>1, <2>2, <2>3, <2>4, <2>5 DEF Next
<1>2. IInv /\ [Next]_vars =>
        \A r \in Requests : cancellation[r] # cancellation'[r] => Reaches(r)
  BY <1>1
<1> HIDE DEF Reaches
<1>3. Spec => [][\A r \in Requests : cancellation[r] # cancellation'[r] => Reaches(r)]_vars
  BY <1>2, Inductive, PTL DEF Spec
<1> QED
  BY <1>3 DEF CancelReachesLiveRequest, Reaches

-----------------------------------------------------------------------------
(* The scheduler implements its promise, step by step.                     *)

MappedLine == (IF InFlight THEN <<item>> ELSE <<>>) \o queue

LEMMA MappedLineFacts ==
  ASSUME TypeOK
  PROVE  /\ MappedLine \in Seq(Requests)
         /\ InFlight => /\ MappedLine # <<>> /\ Head(MappedLine) = item
                        /\ Tail(MappedLine) = queue
         /\ ~InFlight => MappedLine = queue
         /\ Len(MappedLine) = Len(queue) + (IF InFlight THEN 1 ELSE 0)
         /\ Elements(MappedLine) = Elements(queue)
                                     \cup (IF InFlight THEN {item} ELSE {})
<1>1. queue \in Seq(Requests) /\ (InFlight => item \in Requests)
  BY DEF TypeOK, Holding
<1>2. CASE ~InFlight
  BY <1>1, <1>2 DEF MappedLine
<1>3. CASE InFlight
  <2>1. MappedLine = <<item>> \o queue
    BY <1>3 DEF MappedLine
  <2>2. /\ MappedLine \in Seq(Requests) /\ Len(MappedLine) = Len(queue) + 1
        /\ \A i \in DOMAIN MappedLine :
              MappedLine[i] = IF i = 1 THEN item ELSE queue[i - 1]
    BY <1>1, <1>3, <2>1
  <2>3. /\ MappedLine # <<>> /\ Head(MappedLine) = item /\ Tail(MappedLine) = queue
    BY <1>1, <1>3, <2>1, <2>2
  <2>4. Elements(MappedLine) \subseteq Elements(queue) \cup {item}
    BY <1>1, <2>2 DEF Elements
  <2>5. item \in Elements(MappedLine)
    BY <1>1, <2>2 DEF Elements
  <2>6. ASSUME NEW i \in DOMAIN queue PROVE queue[i] \in Elements(MappedLine)
    <3>1. i + 1 \in DOMAIN MappedLine /\ MappedLine[i + 1] = queue[i]
      BY <1>1, <2>2
    <3> QED BY <3>1 DEF Elements
  <2> QED BY <1>3, <2>2, <2>3, <2>4, <2>5, <2>6 DEF Elements
<1> QED BY <1>2, <1>3

(* A new scheduler is a new promise. *)
THEOREM PromiseInit == Init => Promise!Init
BY SchedulerConstants
   DEF Init, Promise!Init, InFlight

(* Each step of the scheduler is a step of the promise, or none. *)
LEMMA PromiseCallers ==
  ASSUME IInv, IInv', CountInv,
         \/ \E r \in Requests : EnqueueAccepted(r) \/ EnqueueRejected(r)
         \/ \E k \in Keys : Cancel(k)
         \/ \E c \in Closers : CloserStep(c)
  PROVE  Promise!Next \/ UNCHANGED Promise!promiseVars
<1> USE SchedulerConstants
<1>1. /\ TypeOK /\ MapInv /\ PlaceInv /\ CloseInv /\ StartInv
      /\ PlaceInv' /\ TypeOK' /\ MapInv'
  BY DEF IInv
<1>2. ASSUME NEW r \in Requests, EnqueueAccepted(r) PROVE Promise!Accept(r)
  <2>1. /\ ~stopping /\ answer[r] = "none" /\ requestStates[KeyOf[r]] = NoRequest
        /\ Cardinality(TrackedKeys) < MaxPendingRequests
        /\ queue' = Append(queue, r)
        /\ (InFlight' <=> InFlight) /\ (worker' = "erased" <=> worker = "erased")
        /\ UNCHANGED <<cancellation, stopping, item, result, started, outcome>>
    BY <1>2 DEF EnqueueAccepted, CanAccept, Pushed, Notify, InFlight
  <2>2. outcome[r] = "none" /\ ~Held(r) /\ calls[r] = 0
    BY <1>1, <2>1 DEF PlaceInv, TypeOK
  <2>3. r # (IF worker = "erased" THEN item ELSE NoRequest)
    BY <2>2 DEF Held, Holding
  <2>4. Len(MappedLine) < MaxPendingRequests
    BY <1>1, <2>1, MappedLineFacts DEF CountInv
  <2>5. \A q \in Elements(MappedLine) : KeyOf[q] # KeyOf[r]
    <3>1. ASSUME NEW q \in Elements(MappedLine) PROVE requestStates[KeyOf[q]] = q
      <4>1. q \in Requests
        BY <1>1, <3>1, MappedLineFacts DEF Elements
      <4>2. q \in Elements(queue) \/ (InFlight /\ q = item)
        BY <1>1, <3>1, MappedLineFacts
      <4> QED BY <1>1, <4>1, <4>2 DEF MapInv
    <3>2. \A q \in Elements(MappedLine) : q # NoRequest
      BY <1>1, MappedLineFacts DEF Elements
    <3> QED BY <2>1, <3>1, <3>2
  <2>6. MappedLine' = Append(MappedLine, r)
    <3>1. queue \in Seq(Requests) /\ (InFlight => item \in Requests)
      BY <1>1 DEF TypeOK, Holding
    <3>2. CASE InFlight
      <4>1. MappedLine = <<item>> \o queue /\ MappedLine' = <<item>> \o Append(queue, r)
        BY <2>1, <3>2 DEF MappedLine
      <4> QED BY <3>1, <3>2, <4>1
    <3>3. CASE ~InFlight
      <4>1. MappedLine = <<>> \o queue /\ MappedLine' = <<>> \o Append(queue, r)
        BY <2>1, <3>3 DEF MappedLine
      <4> QED BY <3>1, <4>1
    <3> QED BY <3>2, <3>3
  <2> QED
    BY <2>1, <2>2, <2>3, <2>4, <2>5, <2>6
       DEF Promise!Accept, Promise!InLine, MappedLine, Elements
<1>3. ASSUME NEW k \in Keys, Cancel(k)
      PROVE  \E r \in Requests : Promise!RequestCancel(r)
  <2> DEFINE r == requestStates[k]
  <2>1. /\ r \in Requests /\ KeyOf[r] = k
        /\ cancellation' = [cancellation EXCEPT ![r] = TRUE]
        /\ (InFlight' <=> InFlight) /\ (worker' = "erased" <=> worker = "erased")
        /\ UNCHANGED <<queue, stopping, item, result, started, outcome>>
    BY <1>1, <1>3 DEF Cancel, Notify, MapInv, InFlight, TypeOK
  <2>2. r \in Elements(MappedLine)
    BY <1>1, <2>1, MappedLineFacts DEF MapInv
  <2>3. {q \in Requests : cancellation'[q]} = {q \in Requests : cancellation[q]} \cup {r}
    BY <1>1, <2>1 DEF TypeOK
  <2> QED
    BY <2>1, <2>2, <2>3
       DEF Promise!RequestCancel, Promise!InLine, MappedLine, Elements
<1>4. ASSUME NEW c \in Closers, ShutdownMark(c) PROVE Promise!Close
  <2>1. /\ ~stopping /\ stopping'
        /\ cancellation' = [r \in Requests |-> cancellation[r] \/ r \in Tracked]
        /\ UNCHANGED <<queue, worker, item, result, started, outcome>>
    BY <1>4 DEF ShutdownMark, ReachedByShutdown, workerVars
  <2>2. Tracked = Elements(MappedLine)
    <3>1. \A r \in Tracked : r \in Requests /\ requestStates[KeyOf[r]] = r
      BY <1>1 DEF Tracked, TrackedKeys, MapInv, TypeOK
    <3>2. \A r \in Elements(MappedLine) : r \in Requests
      BY <1>1, MappedLineFacts DEF Elements
    <3>3. \A r \in Requests : requestStates[KeyOf[r]] = r => r \in Tracked
      BY <1>1 DEF Tracked, TrackedKeys
    <3>4. Elements(MappedLine)
            = Elements(queue) \cup (IF InFlight THEN {item} ELSE {})
      BY <1>1, MappedLineFacts
    <3>5. \A r \in Requests : r \in Elements(MappedLine) <=> r \in Tracked
      BY <1>1, <3>1, <3>3, <3>4 DEF MapInv
    <3> QED BY <3>1, <3>2, <3>5
  <2>3. {q \in Requests : cancellation'[q]}
          = {q \in Requests : cancellation[q]} \cup Elements(MappedLine)
    <3>1. Elements(MappedLine) \subseteq Requests
      BY <1>1, MappedLineFacts DEF Elements
    <3> QED BY <2>1, <2>2, <3>1
  <2> QED
    BY <2>1, <2>3
       DEF Promise!Close, Promise!InLine, MappedLine, Elements, InFlight
<1>5. ASSUME \/ \E r \in Requests : EnqueueRejected(r)
             \/ \E c \in Closers : ShutdownLate(c) \/ ShutdownNotify(c) \/ ShutdownJoin(c)
      PROVE  UNCHANGED Promise!promiseVars
  <2>1. /\ (InFlight' <=> InFlight) /\ (worker' = "erased" <=> worker = "erased")
        /\ UNCHANGED <<queue, cancellation, stopping, item, result, started, outcome>>
    BY <1>5 DEF EnqueueRejected, ShutdownLate, ShutdownNotify, ShutdownJoin, Notify,
                InFlight, sharedVars, workerVars, historyVars
  <2> QED BY <2>1 DEF Promise!promiseVars
<1> QED
  BY <1>2, <1>3, <1>4, <1>5 DEF CloserStep, Promise!Next

LEMMA PromiseWorker ==
  ASSUME IInv, IInv', SpuriousWakeup \/ WorkerStep
  PROVE  Promise!Next \/ UNCHANGED Promise!promiseVars
<1> USE SchedulerConstants
<1>1. TypeOK /\ TypeOK' /\ PlaceInv /\ StartInv
  BY DEF IInv
<1>2. CASE SpuriousWakeup \/ WorkerBlocks \/ WorkerExits
  <2>1. /\ ~InFlight /\ ~InFlight' /\ worker # "erased" /\ worker' # "erased"
        /\ UNCHANGED <<queue, cancellation, stopping, item, result, started, outcome>>
    BY <1>2 DEF SpuriousWakeup, WorkerBlocks, WorkerExits, InFlight, sharedVars,
                historyVars
  <2>2. UNCHANGED Promise!promiseVars
    BY <2>1 DEF Promise!promiseVars
  <2> QED BY <2>2
<1>3. CASE WorkerPops
  <2>1. /\ ~InFlight /\ InFlight' /\ worker # "erased" /\ worker' # "erased"
        /\ queue # <<>> /\ item' = Head(queue) /\ queue' = Tail(queue)
        /\ UNCHANGED <<cancellation, stopping, started, outcome>>
    BY <1>3 DEF WorkerPops, FrontRemoved, InFlight, historyVars
  <2>2. item' \notin started
    BY <1>1, <2>1, HeadTail DEF StartInv, PlaceInv, TypeOK
  <2>3. MappedLine' = MappedLine
    <3>1. queue \in Seq(Requests)
      BY <1>1 DEF TypeOK
    <3>2. MappedLine = queue /\ MappedLine' = <<Head(queue)>> \o Tail(queue)
      BY <2>1, <3>1 DEF MappedLine
    <3>3. <<Head(queue)>> \o Tail(queue) = queue
      BY <2>1, <3>1
    <3> QED BY <3>2, <3>3
  <2>4. UNCHANGED Promise!promiseVars
    BY <2>1, <2>2, <2>3 DEF Promise!promiseVars, MappedLine
  <2> QED BY <2>4
<1>4. CASE WorkerStarts
  <2>1. /\ InFlight /\ InFlight' /\ worker # "erased" /\ worker' # "erased"
        /\ item \in Requests /\ item \notin started /\ ~cancellation[item]
        /\ started' = started \cup {item}
        /\ UNCHANGED <<queue, item, cancellation, stopping, outcome>>
    BY <1>1, <1>4 DEF WorkerStarts, IsCancellationRequested, InFlight, Holding,
                      StartInv, TypeOK, sharedVars
  <2>2. Promise!Serve
    BY <1>1, <2>1, MappedLineFacts DEF Promise!Serve, MappedLine
  <2> QED BY <2>2 DEF Promise!Next
<1>5. CASE WorkerSkips \/ (\E s \in Statuses : TaskReturns(s))
  <2>1. /\ InFlight /\ InFlight' /\ worker # "erased" /\ worker' # "erased"
        /\ UNCHANGED <<queue, item, cancellation, stopping, started, outcome>>
    BY <1>5 DEF WorkerSkips, TaskReturns, InFlight, sharedVars, historyVars
  <2>2. UNCHANGED Promise!promiseVars
    BY <2>1 DEF Promise!promiseVars
  <2> QED BY <2>2
<1>6. CASE WorkerErases
  <2>1. /\ InFlight /\ ~InFlight' /\ worker = "finished" /\ worker' = "erased"
        /\ item \in Requests /\ result \in Statuses
        /\ UNCHANGED <<queue, item, result, cancellation, stopping, started, outcome>>
    BY <1>1, <1>6 DEF WorkerErases, InFlight, Holding, TypeOK, historyVars
  <2>2. IF result = "Cancelled" THEN cancellation[item] ELSE item \in started
    BY <1>6 DEF WorkerErases, IInv, ResultInv
  <2>3. /\ MappedLine # <<>> /\ Head(MappedLine) = item /\ Tail(MappedLine) = queue
        /\ MappedLine' = queue
    BY <1>1, <2>1, MappedLineFacts DEF MappedLine, TypeOK
  <2>4. Promise!Settle(result)
    BY <2>1, <2>2, <2>3 DEF Promise!Settle, MappedLine
  <2> QED BY <2>1, <2>4 DEF Promise!Next, Promise!SettleAny, Statuses
<1>7. CASE WorkerCompletes
  <2>1. /\ ~InFlight /\ ~InFlight' /\ worker = "erased" /\ worker' = "atWait"
        /\ item \in Requests
        /\ outcome' = [outcome EXCEPT ![item] = result]
        /\ UNCHANGED <<queue, cancellation, stopping, started>>
    BY <1>1, <1>7 DEF WorkerCompletes, InFlight, Holding, TypeOK, sharedVars
  <2>2. Promise!Deliver
    BY <2>1 DEF Promise!Deliver, Promise!promiseVars
  <2> QED BY <2>2 DEF Promise!Next
<1> QED
  BY <1>2, <1>3, <1>4, <1>5, <1>6, <1>7 DEF WorkerStep

(* Every behaviour of the scheduler is one its promise allows. *)
THEOREM Refinement == Spec => Promise!Safety
<1>1. ASSUME IInv, IInv', CountInv, [Next]_vars
      PROVE  [Promise!Next]_(Promise!promiseVars)
  <2>1. CASE UNCHANGED vars
    <3>1. UNCHANGED Promise!promiseVars
      BY <2>1 DEF Promise!promiseVars, InFlight, vars, sharedVars, workerVars, historyVars
    <3> QED BY <3>1
  <2>2. CASE Next
    BY <1>1, <2>2, PromiseCallers, PromiseWorker DEF Next
  <2> QED BY <1>1, <2>1, <2>2
<1>2. Spec => []CountInv
  BY Counted
<1> QED
  BY <1>1, <1>2, PromiseInit, Inductive, PTL DEF Spec, Promise!Safety

=============================================================================
