-------------------------- MODULE RequestProtocolProofs --------------------------
(***************************************************************************)
(* Proofs about RequestProtocol, for any requests and ids, any bound of    *)
(* the scheduler and any number of messages.                               *)
(*                                                                         *)
(* The first part shows for the scheduler of the protocol what             *)
(* RequestSchedulerProofs shows for any, as far as it is needed here: the  *)
(* prover does not carry the theorems of a module over to an instance.     *)
(***************************************************************************)
EXTENDS RequestProtocol, FiniteSetTheorems, TLAPS

Key(r) == requestKeyFromId(IdOf[r])
Keys   == {requestKeyFromId(i) : i \in Ids}

InQueue(r) == \E i \in DOMAIN queue : queue[i] = r
InFlight   == worker \in {"popped", "running", "finished"}
Held(r)    == (InFlight \/ worker = "erased") /\ r = item

TaskStatuses == {"Completed", "Cancelled", "Failed"}

(* Ids are equal when their keys are: a key is tagged with the type. *)
LEMMA KeyIsId ==
  ASSUME NEW q \in Requests, NEW r \in Requests
  PROVE  Key(q) \in Keys /\ (Key(q) = Key(r) => IdOf[q] = IdOf[r])
BY ProtocolConstants DEF Key, Keys, requestKeyFromId, Ids

-----------------------------------------------------------------------------
(* The scheduler's steps, in terms of its variables.                       *)

Woken == worker' = worker \/ (worker = "blocked" /\ worker' = "atWait")

LEMMA EnqueueEffect ==
  ASSUME NEW r \in SleepRequests, Scheduler!EnqueueAccepted(r)
  PROVE  /\ answer[r] = "none" /\ ~stopping
         /\ requestStates[Key(r)] = NoRequest
         /\ Cardinality({k \in Keys : requestStates[k] # NoRequest}) < MaxPendingRequests
         /\ requestStates' = [requestStates EXCEPT ![Key(r)] = r]
         /\ queue' = Append(queue, r)
         /\ answer' = [answer EXCEPT ![r] = "accepted"]
         /\ Woken
         /\ UNCHANGED <<cancellation, stopping, item, result, closer,
                        started, calls, outcome, cancelledEarly>>
BY DEF Scheduler!EnqueueAccepted, Scheduler!CanAccept, Scheduler!Pushed, Scheduler!Notify,
       Scheduler!TrackedKeys, Scheduler!Cardinality, Cardinality, Key, Keys, Woken

LEMMA RefuseEffect ==
  ASSUME NEW r \in SleepRequests, Scheduler!EnqueueRejected(r)
  PROVE  /\ answer[r] = "none"
         /\ \/ stopping
            \/ requestStates[Key(r)] # NoRequest
            \/ ~(Cardinality({k \in Keys : requestStates[k] # NoRequest})
                   < MaxPendingRequests)
         /\ answer' = [answer EXCEPT ![r] = "rejected"]
         /\ UNCHANGED <<queue, requestStates, cancellation, stopping, worker, item, result,
                        closer, started, calls, outcome, cancelledEarly>>
BY DEF Scheduler!EnqueueRejected, Scheduler!CanAccept, Scheduler!TrackedKeys,
       Scheduler!Cardinality, Cardinality, Scheduler!sharedVars, Scheduler!workerVars,
       Key, Keys

LEMMA CancelEffect ==
  ASSUME NEW k, Scheduler!Cancel(k)
  PROVE  /\ requestStates[k] # NoRequest
         /\ cancellation' = [cancellation EXCEPT ![requestStates[k]] = TRUE]
         /\ Woken
         /\ UNCHANGED <<queue, requestStates, stopping, item, result, closer,
                        answer, started, calls, outcome>>
         /\ \E S \in SUBSET {queue[i] : i \in DOMAIN queue} :
               cancelledEarly' = cancelledEarly \cup S
BY DEF Scheduler!Cancel, Scheduler!Notify, Scheduler!Elements, Woken

LEMMA MarkEffect ==
  ASSUME Scheduler!ShutdownMark("main")
  PROVE  /\ closer["main"] = "idle" /\ ~stopping /\ stopping'
         /\ cancellation' \in [SleepRequests -> BOOLEAN]
         /\ closer' = [closer EXCEPT !["main"] = "marked"]
         /\ cancelledEarly' = cancelledEarly \cup {queue[i] : i \in DOMAIN queue}
         /\ UNCHANGED <<queue, requestStates, worker, item, result,
                        answer, started, calls, outcome>>
BY DEF Scheduler!ShutdownMark, Scheduler!workerVars, Scheduler!Elements

LEMMA PopEffect ==
  ASSUME Scheduler!WorkerPops
  PROVE  /\ worker = "atWait" /\ worker' = "popped"
         /\ queue # <<>> /\ queue' = Tail(queue) /\ item' = Head(queue)
         /\ result' = "Failed"
         /\ UNCHANGED <<requestStates, cancellation, stopping, closer,
                        answer, started, calls, outcome, cancelledEarly>>
BY DEF Scheduler!WorkerPops, Scheduler!FrontRemoved, Scheduler!FreshResult,
       Scheduler!historyVars

(* The steps that decide the result of the work item. *)
ServeStep ==
    \/ Scheduler!WorkerSkips \/ Scheduler!WorkerStarts
    \/ \E s \in {"Completed", "Cancelled"} : Scheduler!TaskReturns(s)

LEMMA ServeEffect ==
  ASSUME ServeStep
  PROVE  /\ InFlight /\ worker' \in {"running", "finished"}
         /\ started' \in {started, started \cup {item}}
         /\ result' \in {result, "Completed", "Cancelled"}
         /\ worker' = "finished" /\ result' = "Cancelled" => cancellation[item]
         /\ UNCHANGED <<queue, requestStates, cancellation, stopping, item, closer,
                        answer, calls, outcome, cancelledEarly>>
<1>1. CASE Scheduler!WorkerSkips
  BY <1>1 DEF Scheduler!WorkerSkips, Scheduler!IsCancellationRequested,
              Scheduler!sharedVars, Scheduler!historyVars, InFlight
<1>2. CASE Scheduler!WorkerStarts
  BY <1>2 DEF Scheduler!WorkerStarts, Scheduler!sharedVars, InFlight
<1>3. ASSUME NEW s \in {"Completed", "Cancelled"}, Scheduler!TaskReturns(s)
      PROVE  /\ worker = "running" /\ worker' = "finished" /\ result' = s
             /\ s = "Cancelled" => cancellation[item]
             /\ UNCHANGED <<queue, requestStates, cancellation, stopping, item, closer,
                            answer, started, calls, outcome, cancelledEarly>>
  BY <1>3 DEF Scheduler!TaskReturns, Scheduler!IsCancellationRequested,
              Scheduler!sharedVars, Scheduler!historyVars
<1> QED BY <1>1, <1>2, <1>3 DEF ServeStep, InFlight

LEMMA EraseEffect ==
  ASSUME Scheduler!WorkerErases, item \in SleepRequests
  PROVE  /\ worker = "finished" /\ worker' = "erased"
         /\ requestStates' = [requestStates EXCEPT ![Key(item)] = NoRequest]
         /\ UNCHANGED <<queue, cancellation, stopping, item, result, closer,
                        answer, started, calls, outcome, cancelledEarly>>
BY DEF Scheduler!WorkerErases, Scheduler!KeyErased, Scheduler!historyVars, Key

LEMMA CompleteEffect ==
  ASSUME Scheduler!WorkerCompletes
  PROVE  /\ worker = "erased" /\ worker' = "atWait" /\ item' = NoRequest
         /\ calls' = [calls EXCEPT ![item] = @ + 1]
         /\ outcome' = [outcome EXCEPT ![item] = result]
         /\ UNCHANGED <<queue, requestStates, cancellation, stopping, result, closer,
                        answer, started, cancelledEarly>>
BY DEF Scheduler!WorkerCompletes, Scheduler!sharedVars

(* The steps that only move a thread: a wait, an exit, a notification, a   *)
(* join.                                                                   *)
MoveStep ==
    \/ Scheduler!WorkerBlocks \/ Scheduler!WorkerExits
    \/ Scheduler!ShutdownNotify("main") \/ Scheduler!ShutdownJoin("main")

LEMMA MoveEffect ==
  ASSUME MoveStep
  PROVE  /\ \/ worker' = worker
            \/ {worker, worker'} \subseteq {"atWait", "blocked"}
            \/ worker = "atWait" /\ worker' = "exited" /\ stopping /\ queue = <<>>
         /\ \/ closer' = closer
            \/ /\ closer["main"] = "marked"
               /\ closer' = [closer EXCEPT !["main"] = "joining"]
            \/ /\ closer["main"] = "joining" /\ worker = "exited"
               /\ closer' = [closer EXCEPT !["main"] = "joined"]
         /\ UNCHANGED <<queue, requestStates, cancellation, stopping, item, result,
                        answer, started, calls, outcome, cancelledEarly>>
<1>1. CASE Scheduler!WorkerBlocks \/ Scheduler!WorkerExits
  BY <1>1 DEF Scheduler!WorkerBlocks, Scheduler!WorkerExits, Scheduler!LeaveWhenDrained,
              Scheduler!sharedVars, Scheduler!historyVars
<1>2. CASE Scheduler!ShutdownNotify("main") \/ Scheduler!ShutdownJoin("main")
  BY <1>2 DEF Scheduler!ShutdownNotify, Scheduler!ShutdownJoin, Scheduler!Notify,
              Scheduler!sharedVars, Scheduler!workerVars, Scheduler!historyVars
<1> QED BY <1>1, <1>2 DEF MoveStep

(* What the protocol lets the scheduler do. *)
SchedulerStep ==
    \/ \E r \in SleepRequests : Scheduler!EnqueueAccepted(r) \/ Scheduler!EnqueueRejected(r)
    \/ \E k \in Keys : Scheduler!Cancel(k)
    \/ Scheduler!ShutdownMark("main")
    \/ Scheduler!WorkerPops \/ ServeStep \/ Scheduler!WorkerErases \/ Scheduler!WorkerCompletes
    \/ MoveStep
    \/ UNCHANGED schedulerVars

-----------------------------------------------------------------------------
(* The scheduler's types and its invariant.                                *)

SchedulerTypeOK ==
    /\ queue \in Seq(SleepRequests)
    /\ requestStates \in [Keys -> SleepRequests \cup {NoRequest}]
    /\ cancellation \in [SleepRequests -> BOOLEAN]
    /\ stopping \in BOOLEAN
    /\ worker \in {"atWait", "blocked", "popped", "running", "finished", "erased", "exited"}
    /\ item \in IF InFlight \/ worker = "erased" THEN SleepRequests ELSE {NoRequest}
    /\ result \in TaskStatuses
    /\ closer \in [{"main"} -> {"idle", "marked", "joining", "joined", "late"}]
    /\ answer \in [SleepRequests -> {"none", "accepted", "rejected"}]
    /\ started \subseteq SleepRequests
    /\ calls \in [SleepRequests -> Nat]
    /\ outcome \in [SleepRequests -> TaskStatuses \cup {"none"}]
    /\ cancelledEarly \subseteq SleepRequests

LEMMA SchedulerTypes == Scheduler!TypeOK <=> SchedulerTypeOK
BY DEF Scheduler!TypeOK, SchedulerTypeOK, Scheduler!WorkerStates, Scheduler!Holding,
       Scheduler!InFlight, Scheduler!Statuses, Scheduler!CloserStates,
       InFlight, TaskStatuses, Keys

LEMMA SchedulerTypeStep ==
  ASSUME SchedulerTypeOK, SchedulerStep
  PROVE  SchedulerTypeOK'
<1> USE DEF SchedulerTypeOK, InFlight, TaskStatuses
<1>0. {queue[i] : i \in DOMAIN queue} \subseteq SleepRequests
  OBVIOUS
<1>1. ASSUME NEW r \in SleepRequests, Scheduler!EnqueueAccepted(r) PROVE SchedulerTypeOK'
  <2>1. queue' \in Seq(SleepRequests)
    <3>1. queue' = Append(queue, r)
      BY <1>1, EnqueueEffect
    <3>2. queue \in Seq(SleepRequests)
      OBVIOUS
    <3> HIDE DEF SchedulerTypeOK
    <3> QED BY <3>1, <3>2
  <2>2. item' = item /\ Woken
    BY <1>1, EnqueueEffect
  <2>3. item' \in IF InFlight' \/ worker' = "erased" THEN SleepRequests ELSE {NoRequest}
    BY <2>2 DEF Woken
  <2> QED BY <1>1, <2>1, <2>2, <2>3, EnqueueEffect DEF Woken
<1>2. ASSUME NEW r \in SleepRequests, Scheduler!EnqueueRejected(r) PROVE SchedulerTypeOK'
  BY <1>2, RefuseEffect
<1>3. ASSUME NEW k \in Keys, Scheduler!Cancel(k) PROVE SchedulerTypeOK'
  BY <1>0, <1>3, CancelEffect DEF Woken
<1>4. CASE Scheduler!ShutdownMark("main")
  BY <1>0, <1>4, MarkEffect
<1>5. CASE Scheduler!WorkerPops
  <2>1. Head(queue) \in SleepRequests /\ Tail(queue) \in Seq(SleepRequests)
    BY <1>5, PopEffect
  <2> QED BY <1>5, <2>1, PopEffect
<1>6. CASE ServeStep
  <2>1. item \in SleepRequests
    BY <1>6, ServeEffect
  <2> QED BY <1>6, <2>1, ServeEffect
<1>7. CASE Scheduler!WorkerErases
  <2>1. item \in SleepRequests
    BY <1>7 DEF Scheduler!WorkerErases
  <2> QED BY <1>7, <2>1, EraseEffect
<1>8. CASE Scheduler!WorkerCompletes
  <2>1. item \in SleepRequests /\ calls[item] + 1 \in Nat
    BY <1>8, CompleteEffect
  <2>2. calls' \in [SleepRequests -> Nat] /\ outcome' \in [SleepRequests -> TaskStatuses \cup {"none"}]
    BY <1>8, <2>1, CompleteEffect
  <2> QED BY <1>8, <2>2, CompleteEffect
<1>9. CASE MoveStep
  BY <1>9, MoveEffect
<1>10. CASE UNCHANGED schedulerVars
  BY <1>10 DEF schedulerVars
<1> QED
  BY <1>1, <1>2, <1>3, <1>4, <1>5, <1>6, <1>7, <1>8, <1>9, <1>10 DEF SchedulerStep

(* A work item is in at most one place: in the queue once, in the hands of *)
(* the worker, or done.                                                    *)
PlaceInv ==
    /\ \A i, j \in DOMAIN queue : queue[i] = queue[j] => i = j
    /\ \A r \in SleepRequests :
          /\ calls[r] \in {0, 1}
          /\ InQueue(r) => ~Held(r)
          /\ calls[r] = 1 => ~InQueue(r) /\ ~Held(r)
          /\ answer[r] = "accepted" <=> InQueue(r) \/ Held(r) \/ calls[r] = 1

(* The map owns the key of each request that is queued or in flight.       *)
MapInv ==
    /\ \A k \in Keys : requestStates[k] # NoRequest => Key(requestStates[k]) = k
    /\ \A r \in SleepRequests :
          requestStates[Key(r)] = r <=> InQueue(r) \/ (InFlight /\ r = item)

(* It counts them.                                                         *)
TrackedKeys == {k \in Keys : requestStates[k] # NoRequest}

CountInv ==
    /\ IsFiniteSet(TrackedKeys)
    /\ Cardinality(TrackedKeys) = Len(queue) + (IF InFlight THEN 1 ELSE 0)

(* The worker leaves a drained scheduler, for the main thread to join it.  *)
CloseInv ==
    /\ worker = "exited" => stopping /\ queue = <<>>
    /\ closer["main"] = "joined" => worker = "exited"
    /\ stopping <=> closer["main"] # "idle"

SchedulerInv ==
    /\ SchedulerTypeOK
    /\ PlaceInv
    /\ MapInv
    /\ CountInv
    /\ CloseInv

LEMMA SleepKeys ==
  ASSUME NEW r \in SleepRequests
  PROVE  Key(r) \in Keys
BY KeyIsId DEF Requests

LEMMA QueueAppend ==
  ASSUME queue \in Seq(SleepRequests), NEW r \in SleepRequests,
         queue' = Append(queue, r)
  PROVE  /\ Len(queue') = Len(queue) + 1
         /\ \A q : InQueue(q)' <=> InQueue(q) \/ q = r
         /\ (\A i, j \in DOMAIN queue : queue[i] = queue[j] => i = j) /\ ~InQueue(r)
               => \A i, j \in DOMAIN queue' : queue'[i] = queue'[j] => i = j
<1>1. /\ Len(queue') = Len(queue) + 1
      /\ DOMAIN queue' = DOMAIN queue \cup {Len(queue) + 1}
      /\ \A i \in DOMAIN queue : queue'[i] = queue[i]
      /\ queue'[Len(queue) + 1] = r
  OBVIOUS
<1> QED BY <1>1 DEF InQueue

LEMMA QueueTail ==
  ASSUME queue \in Seq(SleepRequests), queue # <<>>, queue' = Tail(queue),
         item' = Head(queue),
         \A i, j \in DOMAIN queue : queue[i] = queue[j] => i = j
  PROVE  /\ Len(queue') = Len(queue) - 1
         /\ \A q : InQueue(q) <=> InQueue(q)' \/ q = item'
         /\ ~InQueue(item)'
         /\ \A i, j \in DOMAIN queue' : queue'[i] = queue'[j] => i = j
<1>1. /\ Len(queue') = Len(queue) - 1
      /\ item' = queue[1] /\ 1 \in DOMAIN queue
      /\ \A i \in DOMAIN queue' : i + 1 \in DOMAIN queue /\ queue'[i] = queue[i + 1]
      /\ \A i \in DOMAIN queue : i # 1 => i - 1 \in DOMAIN queue' /\ queue'[i - 1] = queue[i]
      /\ DOMAIN queue \subseteq Nat \ {0} /\ DOMAIN queue' \subseteq Nat \ {0}
  OBVIOUS
<1>2. ASSUME NEW i \in DOMAIN queue', NEW j \in DOMAIN queue', queue'[i] = queue'[j]
      PROVE  i = j
  BY <1>1, <1>2
<1>3. ~InQueue(item)'
  BY <1>1 DEF InQueue
<1>4. ASSUME NEW q, InQueue(q) PROVE InQueue(q)' \/ q = item'
  <2>1. PICK i \in DOMAIN queue : queue[i] = q
    BY <1>4 DEF InQueue
  <2> QED BY <1>1, <2>1 DEF InQueue
<1>5. ASSUME NEW q, InQueue(q)' \/ q = item' PROVE InQueue(q)
  BY <1>1, <1>5 DEF InQueue
<1> QED BY <1>1, <1>2, <1>3, <1>4, <1>5

LEMMA SchedulerEnqueue ==
  ASSUME SchedulerInv, NEW r \in SleepRequests, Scheduler!EnqueueAccepted(r)
  PROVE  SchedulerInv'
<1>1. SchedulerTypeOK /\ SchedulerTypeOK'
  BY SchedulerTypeStep DEF SchedulerInv, SchedulerStep
<1>2. /\ answer[r] = "none" /\ ~stopping
      /\ requestStates[Key(r)] = NoRequest
      /\ requestStates' = [requestStates EXCEPT ![Key(r)] = r]
      /\ queue' = Append(queue, r)
      /\ answer' = [answer EXCEPT ![r] = "accepted"]
      /\ Woken
      /\ UNCHANGED <<stopping, item, closer, calls>>
  BY EnqueueEffect
<1>3. InFlight' = InFlight /\ (worker' = "erased" <=> worker = "erased")
      /\ (worker' = "exited" <=> worker = "exited")
  BY <1>2 DEF Woken, InFlight
<1>4. ~InQueue(r) /\ ~Held(r) /\ calls[r] = 0
  BY <1>1, <1>2 DEF SchedulerInv, PlaceInv
<1>5. /\ Len(queue') = Len(queue) + 1
      /\ \A q : InQueue(q)' <=> InQueue(q) \/ q = r
      /\ \A i, j \in DOMAIN queue' : queue'[i] = queue'[j] => i = j
  BY <1>1, <1>2, <1>4, QueueAppend DEF SchedulerInv, PlaceInv, SchedulerTypeOK
<1>6. \A q \in SleepRequests : Held(q)' <=> Held(q)
  BY <1>2, <1>3 DEF Held
<1>7. PlaceInv'
  BY <1>1, <1>2, <1>4, <1>5, <1>6 DEF SchedulerInv, PlaceInv, SchedulerTypeOK
<1>8. MapInv'
  <2>1. r # NoRequest /\ Key(r) \in Keys
    BY ProtocolConstants, SleepKeys DEF Requests
  <2>2. \A k \in Keys : requestStates'[k] # NoRequest => Key(requestStates'[k]) = k
    BY <1>1, <1>2 DEF SchedulerInv, MapInv, SchedulerTypeOK
  <2>3. ASSUME NEW q \in SleepRequests, q # r
        PROVE  requestStates'[Key(q)] = q <=> requestStates[Key(q)] = q
    BY <1>1, <1>2, <2>1, <2>3, ProtocolConstants, SleepKeys DEF SchedulerTypeOK, Requests
  <2>4. requestStates'[Key(r)] = r
    BY <1>1, <1>2, <2>1 DEF SchedulerTypeOK
  <2> QED BY <1>2, <1>3, <1>5, <2>2, <2>3, <2>4 DEF SchedulerInv, MapInv
<1>9. CountInv'
  <2>1. Key(r) \in Keys \ TrackedKeys /\ r # NoRequest
    BY <1>2, ProtocolConstants, SleepKeys DEF TrackedKeys, Requests
  <2>2. TrackedKeys' = TrackedKeys \cup {Key(r)}
    BY <1>1, <1>2, <2>1 DEF TrackedKeys, SchedulerTypeOK
  <2>3. /\ IsFiniteSet(TrackedKeys \cup {Key(r)})
        /\ Cardinality(TrackedKeys \cup {Key(r)}) = Cardinality(TrackedKeys) + 1
    BY <2>1, FS_AddElement DEF SchedulerInv, CountInv
  <2>4. Len(queue) \in Nat
    BY <1>1 DEF SchedulerTypeOK
  <2> QED BY <1>3, <1>5, <2>2, <2>3, <2>4 DEF SchedulerInv, CountInv
<1>10. CloseInv'
  BY <1>2, <1>3 DEF SchedulerInv, CloseInv
<1> QED BY <1>1, <1>7, <1>8, <1>9, <1>10 DEF SchedulerInv

LEMMA SchedulerPop ==
  ASSUME SchedulerInv, Scheduler!WorkerPops
  PROVE  SchedulerInv'
<1>1. SchedulerTypeOK /\ SchedulerTypeOK'
  BY SchedulerTypeStep DEF SchedulerInv, SchedulerStep
<1>2. /\ worker = "atWait" /\ worker' = "popped"
      /\ queue # <<>> /\ queue' = Tail(queue) /\ item' = Head(queue)
      /\ UNCHANGED <<requestStates, stopping, closer, answer, calls>>
  BY PopEffect
<1>3. /\ Len(queue') = Len(queue) - 1
      /\ \A q : InQueue(q) <=> InQueue(q)' \/ q = item'
      /\ ~InQueue(item)'
      /\ \A i, j \in DOMAIN queue' : queue'[i] = queue'[j] => i = j
  BY <1>1, <1>2, QueueTail DEF SchedulerInv, PlaceInv, SchedulerTypeOK
<1>4. /\ ~InFlight /\ InFlight'
      /\ \A q \in SleepRequests : ~Held(q) /\ (Held(q)' <=> q = item')
  BY <1>2 DEF InFlight, Held
<1>5. PlaceInv'
  BY <1>2, <1>3, <1>4 DEF SchedulerInv, PlaceInv
<1>6. MapInv'
  BY <1>2, <1>3, <1>4 DEF SchedulerInv, MapInv
<1>7. CountInv'
  <2>1. TrackedKeys' = TrackedKeys /\ Len(queue) \in Nat
    BY <1>1, <1>2 DEF TrackedKeys, SchedulerTypeOK
  <2> QED BY <1>3, <1>4, <2>1 DEF SchedulerInv, CountInv
<1>8. CloseInv'
  BY <1>2 DEF SchedulerInv, CloseInv
<1> QED BY <1>1, <1>5, <1>6, <1>7, <1>8 DEF SchedulerInv

LEMMA SchedulerErase ==
  ASSUME SchedulerInv, Scheduler!WorkerErases
  PROVE  SchedulerInv'
<1>1. SchedulerTypeOK /\ SchedulerTypeOK'
  BY SchedulerTypeStep DEF SchedulerInv, SchedulerStep
<1>2. item \in SleepRequests
  BY <1>1 DEF Scheduler!WorkerErases, SchedulerTypeOK, InFlight
<1>3. /\ worker = "finished" /\ worker' = "erased"
      /\ requestStates' = [requestStates EXCEPT ![Key(item)] = NoRequest]
      /\ UNCHANGED <<queue, stopping, item, closer, answer, calls>>
  BY <1>2, EraseEffect
<1>4. /\ InFlight /\ ~InFlight'
      /\ \A q \in SleepRequests : (Held(q)' <=> Held(q)) /\ (InQueue(q)' <=> InQueue(q))
  BY <1>3 DEF InFlight, Held, InQueue
<1>5. requestStates[Key(item)] = item /\ item # NoRequest /\ Held(item) /\ Key(item) \in Keys
  BY <1>2, <1>4, ProtocolConstants, SleepKeys DEF SchedulerInv, MapInv, Held, Requests
<1>6. PlaceInv'
  BY <1>3, <1>4 DEF SchedulerInv, PlaceInv
<1>7. MapInv'
  <2>1. \A k \in Keys : requestStates'[k] # NoRequest => Key(requestStates'[k]) = k
    BY <1>1, <1>3 DEF SchedulerInv, MapInv, SchedulerTypeOK
  <2>2. ASSUME NEW q \in SleepRequests PROVE requestStates'[Key(q)] = q <=> InQueue(q)'
    <3>1. CASE q = item
      BY <1>1, <1>2, <1>3, <1>4, <1>5, <3>1 DEF SchedulerInv, PlaceInv, SchedulerTypeOK
    <3>2. CASE q # item
      <4>1. requestStates[Key(q)] = q <=> InQueue(q)
        BY <3>2 DEF SchedulerInv, MapInv
      <4>2. requestStates'[Key(q)] = q <=> requestStates[Key(q)] = q
        BY <1>1, <1>3, <1>5, <3>2, ProtocolConstants, SleepKeys DEF SchedulerTypeOK, Requests
      <4> QED BY <1>4, <4>1, <4>2
    <3> QED BY <3>1, <3>2
  <2> QED BY <1>4, <2>1, <2>2 DEF MapInv
<1>8. CountInv'
  <2>1. Key(item) \in TrackedKeys /\ TrackedKeys' = TrackedKeys \ {Key(item)}
    BY <1>1, <1>3, <1>5 DEF TrackedKeys, SchedulerTypeOK
  <2>2. /\ IsFiniteSet(TrackedKeys \ {Key(item)})
        /\ Cardinality(TrackedKeys \ {Key(item)}) = Cardinality(TrackedKeys) - 1
    BY <2>1, FS_RemoveElement DEF SchedulerInv, CountInv
  <2>3. Len(queue) \in Nat
    BY <1>1 DEF SchedulerTypeOK
  <2> QED BY <1>3, <1>4, <2>1, <2>2, <2>3 DEF SchedulerInv, CountInv
<1>9. CloseInv'
  BY <1>3 DEF SchedulerInv, CloseInv
<1> QED BY <1>1, <1>6, <1>7, <1>8, <1>9 DEF SchedulerInv

LEMMA SchedulerComplete ==
  ASSUME SchedulerInv, Scheduler!WorkerCompletes
  PROVE  SchedulerInv'
<1>1. SchedulerTypeOK /\ SchedulerTypeOK'
  BY SchedulerTypeStep DEF SchedulerInv, SchedulerStep
<1>2. /\ worker = "erased" /\ worker' = "atWait"
      /\ calls' = [calls EXCEPT ![item] = @ + 1]
      /\ UNCHANGED <<queue, requestStates, stopping, closer, answer>>
  BY CompleteEffect
<1>3. /\ ~InFlight /\ ~InFlight' /\ item \in SleepRequests
      /\ \A q \in SleepRequests : ~Held(q)' /\ (Held(q) <=> q = item)
      /\ \A q \in SleepRequests : InQueue(q)' <=> InQueue(q)
  BY <1>1, <1>2 DEF InFlight, Held, InQueue, SchedulerTypeOK
<1>4. calls[item] = 0 /\ ~InQueue(item)
  BY <1>3 DEF SchedulerInv, PlaceInv
<1>5. PlaceInv'
  BY <1>1, <1>2, <1>3, <1>4 DEF SchedulerInv, PlaceInv, SchedulerTypeOK
<1>6. MapInv' /\ CountInv' /\ CloseInv'
  BY <1>2, <1>3 DEF SchedulerInv, MapInv, CountInv, CloseInv, TrackedKeys
<1> QED BY <1>1, <1>5, <1>6 DEF SchedulerInv

LEMMA SchedulerInvStep ==
  ASSUME SchedulerInv, SchedulerStep
  PROVE  SchedulerInv'
<1>1. SchedulerTypeOK /\ SchedulerTypeOK'
  BY SchedulerTypeStep DEF SchedulerInv
<1>2. ASSUME NEW r \in SleepRequests, Scheduler!EnqueueRejected(r) PROVE SchedulerInv'
  <2>1. /\ answer[r] = "none" /\ answer' = [answer EXCEPT ![r] = "rejected"]
        /\ UNCHANGED <<queue, requestStates, stopping, worker, item, closer, calls>>
    BY <1>2, RefuseEffect
  <2>2. PlaceInv'
    BY <1>1, <2>1 DEF SchedulerInv, PlaceInv, SchedulerTypeOK, Held, InFlight, InQueue
  <2>3. MapInv' /\ CountInv' /\ CloseInv'
    BY <2>1 DEF SchedulerInv, MapInv, CountInv, CloseInv, TrackedKeys, InFlight, InQueue
  <2> QED BY <1>1, <2>2, <2>3 DEF SchedulerInv
<1>3. ASSUME UNCHANGED <<queue, requestStates, item, answer, calls>>,
             InFlight' <=> InFlight, worker' = "erased" <=> worker = "erased"
      PROVE  PlaceInv' /\ MapInv' /\ CountInv'
  BY <1>3 DEF SchedulerInv, PlaceInv, MapInv, CountInv, TrackedKeys, InQueue, Held
<1>4. ASSUME NEW k \in Keys, Scheduler!Cancel(k) PROVE SchedulerInv'
  <2>1. Woken /\ UNCHANGED <<queue, requestStates, stopping, item, closer, answer, calls>>
    BY <1>4, CancelEffect
  <2>2. CloseInv' /\ (InFlight' <=> InFlight) /\ (worker' = "erased" <=> worker = "erased")
    BY <2>1 DEF Woken, InFlight, SchedulerInv, CloseInv
  <2> QED BY <1>1, <1>3, <2>1, <2>2 DEF SchedulerInv
<1>5. CASE Scheduler!ShutdownMark("main")
  <2>1. /\ closer["main"] = "idle" /\ ~stopping /\ stopping'
        /\ closer' = [closer EXCEPT !["main"] = "marked"]
        /\ UNCHANGED <<queue, requestStates, worker, item, answer, calls>>
    BY <1>5, MarkEffect
  <2>2. CloseInv' /\ (InFlight' <=> InFlight)
    BY <1>1, <2>1 DEF InFlight, SchedulerInv, CloseInv, SchedulerTypeOK
  <2> QED BY <1>1, <1>3, <2>1, <2>2 DEF SchedulerInv
<1>6. CASE ServeStep
  <2>1. /\ InFlight /\ worker' \in {"running", "finished"}
        /\ UNCHANGED <<queue, requestStates, stopping, item, closer, answer, calls>>
    BY <1>6, ServeEffect
  <2>2. CloseInv' /\ (InFlight' <=> InFlight) /\ (worker' = "erased" <=> worker = "erased")
    BY <2>1 DEF InFlight, SchedulerInv, CloseInv
  <2> QED BY <1>1, <1>3, <2>1, <2>2 DEF SchedulerInv
<1>7. CASE MoveStep
  <2>1. /\ \/ worker' = worker
           \/ {worker, worker'} \subseteq {"atWait", "blocked"}
           \/ worker = "atWait" /\ worker' = "exited" /\ stopping /\ queue = <<>>
        /\ \/ closer' = closer
           \/ /\ closer["main"] = "marked"
              /\ closer' = [closer EXCEPT !["main"] = "joining"]
           \/ /\ closer["main"] = "joining" /\ worker = "exited"
              /\ closer' = [closer EXCEPT !["main"] = "joined"]
        /\ UNCHANGED <<queue, requestStates, stopping, item, answer, calls>>
    BY <1>7, MoveEffect
  <2>2. CloseInv'
    BY <1>1, <2>1 DEF SchedulerInv, CloseInv, SchedulerTypeOK
  <2>3. (InFlight' <=> InFlight) /\ (worker' = "erased" <=> worker = "erased")
    BY <2>1 DEF InFlight
  <2> QED BY <1>1, <1>3, <2>1, <2>2, <2>3 DEF SchedulerInv
<1>8. CASE UNCHANGED schedulerVars
  BY <1>1, <1>3, <1>8 DEF schedulerVars, SchedulerInv, CloseInv, InFlight
<1> QED
  BY <1>2, <1>4, <1>5, <1>6, <1>7, <1>8, SchedulerEnqueue, SchedulerPop, SchedulerErase,
     SchedulerComplete DEF SchedulerStep

LEMMA SchedulerInvInit ==
  ASSUME Scheduler!Init
  PROVE  SchedulerInv
<1>1. /\ queue = <<>> /\ requestStates = [k \in Keys |-> NoRequest]
      /\ cancellation = [r \in SleepRequests |-> FALSE]
      /\ stopping = FALSE /\ worker = "atWait" /\ item = NoRequest /\ result = "Failed"
      /\ closer = [c \in {"main"} |-> "idle"]
      /\ answer = [r \in SleepRequests |-> "none"] /\ started = {}
      /\ calls = [r \in SleepRequests |-> 0]
      /\ outcome = [r \in SleepRequests |-> "none"] /\ cancelledEarly = {}
  BY DEF Scheduler!Init, Scheduler!FreshResult, Keys
<1>2. ~InFlight /\ TrackedKeys = {} /\ Len(queue) = 0
      /\ \A r : ~InQueue(r) /\ ~Held(r)
  BY <1>1 DEF InFlight, TrackedKeys, InQueue, Held
<1>3. queue \in Seq(SleepRequests)
  BY <1>1
<1>4. SchedulerTypeOK
  BY <1>1, <1>2, <1>3 DEF SchedulerTypeOK, TaskStatuses
<1>5. PlaceInv
  BY <1>1, <1>2 DEF PlaceInv
<1>6. MapInv
  BY <1>1, <1>2, ProtocolConstants, SleepKeys DEF MapInv, Requests
<1>7. CountInv
  BY <1>2, FS_EmptySet DEF CountInv
<1>8. CloseInv
  BY <1>1 DEF CloseInv
<1> QED BY <1>4, <1>5, <1>6, <1>7, <1>8 DEF SchedulerInv

-----------------------------------------------------------------------------
(* The protocol: its inductive invariant.                                  *)

(* The client's counters are finite. *)
ProtocolTypeOK == TypeOK /\ IsFiniteSet(sent) /\ IsFiniteSet(cancels)

Messages  == [kind : {"request", "cancel", "exit", "garbled"},
              request : Requests \cup {NoRequest}]
Responses == [to : Requests \cup {NoRequest}, what : Verdicts]

Accepted(r) == r \in SleepRequests /\ answer[r] = "accepted"
Replying(r) == main \in {"replying", "framing"} /\ reply.to = r

(* The main thread closes the scheduler once it has left its loop.         *)
MainInv ==
    /\ closer["main"] = "idle" <=> main \in {"reading", "replying", "framing"}
    /\ main = "ended" => closer["main"] = "joined"

(* A request in the inbox was sent once and has not been read; one that    *)
(* has been read was put to the scheduler if it is the scheduler's.        *)
InboxInv ==
    /\ \A i \in DOMAIN inbox :
          /\ inbox[i].kind = "request" => inbox[i].request \in sent \ handled
          /\ inbox[i].kind = "cancel" => inbox[i].request \in cancels
    /\ \A i, j \in DOMAIN inbox :
          /\ inbox[i].kind = "request" /\ inbox[j].kind = "request"
          /\ inbox[i].request = inbox[j].request
          => i = j
    /\ \A r \in SleepRequests : answer[r] = "none" <=> r \notin handled

(* The scheduler's completions answer what it accepted, the main thread    *)
(* all else it has read, except what it is about to write.                 *)
AnswerInv ==
    /\ \A r \in Requests :
          /\ Len(answers[r]) = recorded[r]
          /\ recorded[r] = IF Accepted(r) THEN calls[r]
                           ELSE IF r \in handled /\ ~Replying(r) THEN 1 ELSE 0
          /\ Replying(r) => r \in handled /\ ~Accepted(r)

(* Of the requests with one id at most one is unanswered ...               *)
OpenIdInv ==
    \A q, r \in sent : IdOf[q] = IdOf[r] /\ ~Answered(q) /\ ~Answered(r) => q = r

(* ... and when a cancellation has not been read, another one with that id *)
(* comes after it.                                                         *)
CancelOrderInv ==
    \A i \in DOMAIN inbox : inbox[i].kind = "cancel" =>
        \A r \in sent :
            r # inbox[i].request /\ IdOf[r] = IdOf[inbox[i].request] /\ ~Answered(r) =>
                \E j \in DOMAIN inbox : j > i /\ inbox[j] = Message("request", r)

(* So a flag is only ever set for a request that was cancelled.            *)
CancelInv ==
    /\ \A r \in SleepRequests : cancellation[r] => r \in cancels \/ stopping
    /\ worker \in {"finished", "erased"} /\ result = "Cancelled" =>
          item \in cancels \/ stopping
    /\ reply.what # "request cancelled"
    /\ CancelledMeansAsked

(* Between a header and its payload the stream belongs to one thread.      *)
WriteInv ==
    /\ writing \in {{}, {"main"}, {"worker"}}
    /\ "main" \in writing <=> main = "framing"
    /\ "main" \in writing => unfinished = reply
    /\ "worker" \in writing => worker = "erased" /\ unfinished = Response(item, Verdict)
    /\ writing = {} => unfinished = NoResponse

IInv ==
    /\ ProtocolTypeOK
    /\ SchedulerInv
    /\ MainInv
    /\ InboxInv
    /\ AnswerInv
    /\ OpenIdInv
    /\ CancelOrderInv
    /\ CancelInv
    /\ WriteInv

-----------------------------------------------------------------------------
(* Type correctness.                                                       *)

LEMMA VerdictTypes ==
  ASSUME SchedulerTypeOK
  PROVE  /\ Verdict \in {"result", "request cancelled", "request failed"}
         /\ Verdict = "request cancelled" => result = "Cancelled"
BY DEF SchedulerTypeOK, TaskStatuses, Verdict

(* Every step of the protocol is one the scheduler lets its callers and    *)
(* its worker do.                                                          *)
LEMMA ProtocolSchedulerStep ==
  ASSUME [Next]_vars
  PROVE  SchedulerStep
<1>1. CASE ClientStep
  BY <1>1 DEF ClientStep, SendRequest, SendCancel, SendGarbled, SendExit, EndInput, Sends,
              SchedulerStep
<1>2. CASE MainStep
  <2>1. ASSUME NEW r \in Requests, HandleCancel(r) PROVE SchedulerStep
    BY <2>1, KeyIsId DEF HandleCancel, SchedulerStep, Key
  <2>2. ASSUME NEW r \in Requests, HandleSync(r) \/ HandleSleepQueued(r) \/ HandleSleepRefused(r)
        PROVE  SchedulerStep
    BY <2>2 DEF HandleSync, HandleSleepQueued, HandleSleepRefused, SchedulerStep
  <2>3. CASE HandleExit \/ HandleGarbled \/ MainWritesHeader \/ MainWritesPayload
    BY <2>3 DEF HandleExit, HandleGarbled, MainWritesHeader, MainWritesPayload, SchedulerStep
  <2>4. CASE LeaveLoop \/ CloseNotifies \/ Closes
    BY <2>4 DEF LeaveLoop, CloseNotifies, Closes, SchedulerStep, MoveStep
  <2> QED BY <1>2, <2>1, <2>2, <2>3, <2>4 DEF MainStep
<1>3. CASE WorkerStep
  BY <1>3 DEF WorkerStep, WorkerGoesOn, CompletionWritesHeader, CompletionWritesPayload,
              SchedulerStep, ServeStep, MoveStep
<1>4. CASE UNCHANGED vars
  BY <1>4 DEF vars, SchedulerStep
<1> QED BY <1>1, <1>2, <1>3, <1>4 DEF Next

(* Reading takes the first message ... *)
LEMMA InboxRead ==
  ASSUME TypeOK, NEW kind, NEW r, Reads(kind, r)
  PROVE  /\ main = "reading"
         /\ 1 \in DOMAIN inbox /\ inbox[1] = Message(kind, r)
         /\ inbox' \in Seq(Messages)
         /\ DOMAIN inbox \subseteq Nat \ {0}
         /\ \A i \in DOMAIN inbox' : i \in Nat /\ i + 1 \in DOMAIN inbox /\ inbox'[i] = inbox[i + 1]
         /\ \A i \in DOMAIN inbox :
               i # 1 => i - 1 \in DOMAIN inbox' /\ inbox'[i - 1] = inbox[i]
<1>1. /\ inbox \in Seq(Messages) /\ inbox # <<>> /\ inbox' = Tail(inbox)
      /\ Head(inbox) = Message(kind, r) /\ main = "reading"
  BY DEF Reads, TypeOK, Messages
<1>2. /\ Head(inbox) = inbox[1] /\ 1 \in DOMAIN inbox
      /\ Tail(inbox) \in Seq(Messages)
      /\ DOMAIN inbox \subseteq Nat \ {0} /\ DOMAIN Tail(inbox) \subseteq Nat
      /\ \A i \in DOMAIN Tail(inbox) : i + 1 \in DOMAIN inbox /\ Tail(inbox)[i] = inbox[i + 1]
      /\ \A i \in DOMAIN inbox :
            i # 1 => i - 1 \in DOMAIN Tail(inbox) /\ Tail(inbox)[i - 1] = inbox[i]
  BY <1>1
<1> QED BY <1>1, <1>2

(* ... and sending adds a last one. *)
LEMMA InboxSend ==
  ASSUME TypeOK, NEW m \in Messages, Sends(m)
  PROVE  /\ inbox' \in Seq(Messages)
         /\ DOMAIN inbox \subseteq Nat /\ Len(inbox) \in Nat
         /\ DOMAIN inbox' = DOMAIN inbox \cup {Len(inbox) + 1}
         /\ \A i \in DOMAIN inbox : inbox'[i] = inbox[i] /\ i < Len(inbox) + 1
         /\ inbox'[Len(inbox) + 1] = m
<1>1. inbox \in Seq(Messages) /\ inbox' = Append(inbox, m)
  BY DEF Sends, TypeOK, Messages
<1> QED BY <1>1

LEMMA MayWriteCount ==
  ASSUME ProtocolTypeOK, MayWrite
  PROVE  garbled + 1 \in 0 .. MaxMessages
<1>1. Cardinality(sent) \in Nat /\ Cardinality(cancels) \in Nat
  BY FS_CardinalityType DEF ProtocolTypeOK
<1> QED BY <1>1, ProtocolConstants DEF ProtocolTypeOK, TypeOK, MayWrite

LEMMA MessageTypes ==
  ASSUME NEW kind \in {"request", "cancel", "exit", "garbled"},
         NEW r \in Requests \cup {NoRequest}
  PROVE  Message(kind, r) \in Messages
BY DEF Message, Messages

(* Answers and counts keep their types when one is added. *)
LEMMA AnswerTypes ==
  ASSUME TypeOK, NEW r \in Requests \cup {NoRequest}, NEW v \in Verdicts, NEW rs,
         answers' = [answers EXCEPT ![r] = Append(@, v)], Records(rs)
  PROVE  /\ answers' \in [Requests \cup {NoRequest} -> Seq(Verdicts)]
         /\ recorded' \in [Requests -> Nat]
<1>1. Append(answers[r], v) \in Seq(Verdicts)
  BY DEF TypeOK
<1> QED BY <1>1 DEF TypeOK, Records

LEMMA ResponseTypes ==
  ASSUME SchedulerTypeOK
  PROVE  /\ \A r \in Requests \cup {NoRequest} : \A v \in Verdicts : Response(r, v) \in Responses
         /\ NoResponse \in Responses
         /\ worker = "erased" => item \in SleepRequests /\ Response(item, Verdict) \in Responses
         /\ Verdict \in Verdicts
<1>1. Verdict \in Verdicts
  BY VerdictTypes DEF Verdicts
<1>2. worker = "erased" => item \in SleepRequests
  BY DEF SchedulerTypeOK
<1> QED BY <1>1, <1>2 DEF Response, Responses, NoResponse, Verdicts, Requests

LEMMA TypeInit ==
  ASSUME Init
  PROVE  ProtocolTypeOK
<1>1. Scheduler!TypeOK
  BY SchedulerInvInit, SchedulerTypes DEF Init, SchedulerInv
<1>2. NoResponse \in Responses /\ inbox \in Seq(Messages)
  BY DEF Init, NoResponse, Response, Responses, Verdicts
<1>3. IsFiniteSet(sent) /\ IsFiniteSet(cancels)
  BY FS_EmptySet DEF Init
<1>4. answers \in [Requests \cup {NoRequest} -> Seq(Verdicts)]
  BY DEF Init
<1>5. garbled \in 0 .. MaxMessages
  BY ProtocolConstants DEF Init
<1>6. recorded \in [Requests -> Nat]
  BY DEF Init
<1>7. reply \in Responses /\ unfinished \in Responses
  BY <1>2 DEF Init
<1>8. /\ sent \subseteq Requests /\ cancels \subseteq sent /\ inputClosed \in BOOLEAN
      /\ main \in {"reading", "replying", "framing", "closing", "ended"}
      /\ handled \subseteq sent /\ shouldExit \in BOOLEAN
      /\ writing \subseteq {"main", "worker"}
  BY DEF Init
<1> QED
  BY <1>1, <1>2, <1>3, <1>4, <1>5, <1>6, <1>7, <1>8 DEF ProtocolTypeOK, TypeOK, Messages, Responses

LEMMA TypeStep ==
  ASSUME ProtocolTypeOK, InboxInv, [Next]_vars
  PROVE  ProtocolTypeOK'
<1> USE DEF Responses
<1>1. /\ TypeOK /\ SchedulerTypeOK
      /\ Scheduler!TypeOK'
  <2>1. TypeOK /\ SchedulerTypeOK
    BY SchedulerTypes DEF ProtocolTypeOK, TypeOK
  <2>2. SchedulerTypeOK'
    BY <2>1, SchedulerTypeStep, ProtocolSchedulerStep
  <2> QED BY <2>1, <2>2, SchedulerTypes, PTL
<1>2. CASE ClientStep
  <2>1. ASSUME NEW r \in Requests, SendRequest(r) PROVE ProtocolTypeOK'
    <3>1. inbox' \in Seq(Messages)
      BY <1>1, <2>1, InboxSend, MessageTypes DEF SendRequest
    <3>2. IsFiniteSet(sent')
      BY <2>1, FS_AddElement DEF SendRequest, ProtocolTypeOK
    <3> QED
      BY <1>1, <2>1, <3>1, <3>2
         DEF SendRequest, Sends, ProtocolTypeOK, TypeOK, Messages, mainVars, streamVars
  <2>2. ASSUME NEW r \in Requests, SendCancel(r) PROVE ProtocolTypeOK'
    <3>1. inbox' \in Seq(Messages)
      BY <1>1, <2>2, InboxSend, MessageTypes DEF SendCancel
    <3>2. IsFiniteSet(cancels')
      BY <2>2, FS_AddElement DEF SendCancel, ProtocolTypeOK
    <3> QED
      BY <1>1, <2>2, <3>1, <3>2
         DEF SendCancel, Sends, ProtocolTypeOK, TypeOK, Messages, mainVars, streamVars
  <2>3. CASE SendGarbled
    <3>1. inbox' \in Seq(Messages)
      BY <1>1, <2>3, InboxSend, MessageTypes DEF SendGarbled
    <3>2. garbled' \in 0 .. MaxMessages
      BY <2>3, MayWriteCount DEF SendGarbled
    <3> QED
      BY <1>1, <2>3, <3>1, <3>2
         DEF SendGarbled, Sends, ProtocolTypeOK, TypeOK, Messages, mainVars, streamVars
  <2>4. CASE SendExit
    <3>1. inbox' \in Seq(Messages)
      BY <1>1, <2>4, InboxSend, MessageTypes DEF SendExit
    <3> QED
      BY <1>1, <2>4, <3>1
         DEF SendExit, Sends, ProtocolTypeOK, TypeOK, Messages, mainVars, streamVars
  <2>5. CASE EndInput
    BY <1>1, <2>5 DEF EndInput, ProtocolTypeOK, TypeOK, mainVars, streamVars
  <2> QED BY <1>2, <2>1, <2>2, <2>3, <2>4, <2>5 DEF ClientStep
<1>3. ASSUME NEW r \in Requests,
             HandleSync(r) \/ HandleSleepQueued(r) \/ HandleSleepRefused(r) \/ HandleCancel(r)
      PROVE  ProtocolTypeOK'
  <2>1. CASE HandleSync(r) \/ HandleSleepQueued(r) \/ HandleSleepRefused(r)
    <3>1. Reads("request", r)
      BY <2>1 DEF HandleSync, HandleSleepQueued, HandleSleepRefused
    <3>2. inbox' \in Seq(Messages) /\ r \in sent
      <4>1. inbox' \in Seq(Messages) /\ 1 \in DOMAIN inbox /\ inbox[1] = Message("request", r)
        BY <1>1, <3>1, InboxRead
      <4>2. inbox[1].kind = "request" /\ inbox[1].request = r
        BY <4>1 DEF Message
      <4> QED BY <4>1, <4>2 DEF InboxInv
    <3>3. /\ Response(r, "result") \in Responses
          /\ Response(r, "failed to queue request") \in Responses
      BY <1>1, ResponseTypes DEF Verdicts
    <3> QED
      BY <1>1, <2>1, <3>2, <3>3
         DEF HandleSync, HandleSleepQueued, HandleSleepRefused, Reads, RepliesWith,
             ProtocolTypeOK, TypeOK, Messages, streamVars
  <2>2. CASE HandleCancel(r)
    <3>1. inbox' \in Seq(Messages)
      BY <1>1, <2>2, InboxRead DEF HandleCancel
    <3> QED
      BY <1>1, <2>2, <3>1
         DEF HandleCancel, Reads, ProtocolTypeOK, TypeOK, Messages, mainVars, streamVars
  <2> QED BY <1>3, <2>1, <2>2
<1>4. CASE HandleExit \/ HandleGarbled
  <2>1. inbox' \in Seq(Messages)
    BY <1>1, <1>4, InboxRead DEF HandleExit, HandleGarbled
  <2>2. Response(NoRequest, "Parse error") \in Responses
    BY <1>1, ResponseTypes DEF Verdicts
  <2> QED
    BY <1>1, <1>4, <2>1, <2>2
       DEF HandleExit, HandleGarbled, Reads, RepliesWith, ProtocolTypeOK, TypeOK, Messages,
           streamVars
<1>5. CASE MainWritesHeader
  BY <1>1, <1>5 DEF MainWritesHeader, WritesHeader, ProtocolTypeOK, TypeOK, clientVars
<1>6. CASE MainWritesPayload
  <2>1. /\ answers' \in [Requests \cup {NoRequest} -> Seq(Verdicts)]
        /\ recorded' \in [Requests -> Nat]
    BY <1>1, <1>6, AnswerTypes DEF MainWritesPayload, WritesPayload, TypeOK
  <2>2. NoResponse \in Responses
    BY <1>1, ResponseTypes
  <2> QED
    BY <1>1, <1>6, <2>1, <2>2
       DEF MainWritesPayload, WritesPayload, ProtocolTypeOK, TypeOK, clientVars
<1>7. CASE LeaveLoop \/ CloseNotifies \/ Closes
  BY <1>1, <1>7 DEF LeaveLoop, CloseNotifies, Closes, ProtocolTypeOK, TypeOK,
                    clientVars, mainVars, streamVars
<1>8. CASE CompletionWritesHeader
  <2>1. Response(item, Verdict) \in Responses
    BY <1>1, <1>8, ResponseTypes DEF CompletionWritesHeader
  <2> QED
    BY <1>1, <1>8, <2>1 DEF CompletionWritesHeader, WritesHeader, ProtocolTypeOK, TypeOK,
                            clientVars, mainVars
<1>9. CASE CompletionWritesPayload
  <2>1. worker = "erased"
    BY <1>9, CompleteEffect DEF CompletionWritesPayload
  <2>2. /\ item \in Requests \cup {NoRequest} /\ Verdict \in Verdicts
        /\ NoResponse \in Responses
    BY <1>1, <2>1, ResponseTypes DEF Requests
  <2>3. answers' = [answers EXCEPT ![item] = Append(@, Verdict)]
    BY <1>9 DEF CompletionWritesPayload, WritesPayload, Response
  <2>4. /\ answers' \in [Requests \cup {NoRequest} -> Seq(Verdicts)]
        /\ recorded' \in [Requests -> Nat]
    BY <1>1, <1>9, <2>2, <2>3, AnswerTypes DEF CompletionWritesPayload
  <2> QED
    BY <1>1, <1>9, <2>2, <2>4
       DEF CompletionWritesPayload, WritesPayload, ProtocolTypeOK, TypeOK, clientVars, mainVars
<1>10. CASE WorkerGoesOn
  BY <1>1, <1>10 DEF WorkerGoesOn, ProtocolTypeOK, TypeOK, clientVars, mainVars, streamVars
<1>11. CASE UNCHANGED vars
  BY <1>1, <1>11 DEF vars, ProtocolTypeOK, TypeOK, clientVars, mainVars, streamVars
<1> QED
  BY <1>2, <1>3, <1>4, <1>5, <1>6, <1>7, <1>8, <1>9, <1>10, <1>11
     DEF Next, MainStep, WorkerStep

-----------------------------------------------------------------------------
(* The steps of the protocol, in terms of its variables.                   *)

(* Reading a request hands it to the scheduler or answers it. *)
Handles(r) == HandleSync(r) \/ HandleSleepQueued(r) \/ HandleSleepRefused(r)

LEMMA HandleEffect ==
  ASSUME NEW r \in Requests, Handles(r)
  PROVE  /\ Reads("request", r)
         /\ handled' = handled \cup {r}
         /\ Woken
         /\ \/ /\ r \in SyncRequests /\ answer' = answer
               /\ main' = "replying" /\ reply' = Response(r, "result")
            \/ /\ r \in SleepRequests /\ answer[r] = "none"
               /\ answer' = [answer EXCEPT ![r] = "accepted"]
               /\ UNCHANGED <<main, reply>>
            \/ /\ r \in SleepRequests /\ answer[r] = "none"
               /\ answer' = [answer EXCEPT ![r] = "rejected"]
               /\ main' = "replying" /\ reply' = Response(r, "failed to queue request")
         /\ UNCHANGED <<cancellation, stopping, item, result, closer, calls,
                        sent, cancels, writing, unfinished, answers, recorded>>
<1>1. CASE HandleSync(r)
  BY <1>1 DEF HandleSync, Reads, RepliesWith, schedulerVars, streamVars, Woken
<1>2. CASE HandleSleepQueued(r)
  BY <1>2, EnqueueEffect DEF HandleSleepQueued, Reads, streamVars
<1>3. CASE HandleSleepRefused(r)
  BY <1>3, RefuseEffect DEF HandleSleepRefused, Reads, RepliesWith, streamVars, Woken
<1> QED BY <1>1, <1>2, <1>3 DEF Handles

LEMMA HandleCancelEffect ==
  ASSUME SchedulerTypeOK, NEW r \in Requests, HandleCancel(r)
  PROVE  /\ Reads("cancel", r)
         /\ Woken
         /\ \/ cancellation' = cancellation
            \/ /\ requestStates[Key(r)] \in SleepRequests
               /\ cancellation' = [cancellation EXCEPT ![requestStates[Key(r)]] = TRUE]
         /\ UNCHANGED <<stopping, item, result, closer, answer, calls, sent, cancels,
                        main, reply, handled, writing, unfinished, answers, recorded>>
<1>1. CASE Scheduler!Cancel(Key(r))
  <2>1. requestStates[Key(r)] \in SleepRequests
    BY <1>1, CancelEffect, KeyIsId DEF SchedulerTypeOK
  <2> QED
    BY <1>1, <2>1, CancelEffect DEF HandleCancel, Reads, mainVars, streamVars
<1>2. CASE UNCHANGED schedulerVars
  BY <1>2 DEF HandleCancel, Reads, mainVars, streamVars, schedulerVars, Woken
<1> QED BY <1>1, <1>2 DEF HandleCancel, Key

(* The client touches its own variables only. *)
LEMMA ClientEffect ==
  ASSUME ClientStep
  PROVE  UNCHANGED <<schedulerVars, mainVars, recorded, streamVars>>
BY DEF ClientStep, SendRequest, SendCancel, SendGarbled, SendExit, EndInput, Sends

(* The main thread closes the scheduler. *)
ClosingStep == LeaveLoop \/ CloseNotifies \/ Closes

LEMMA ClosingEffect ==
  ASSUME SchedulerTypeOK, ClosingStep
  PROVE  /\ \/ /\ main = "reading" /\ main' = "closing" /\ stopping'
               /\ closer["main"] = "idle" /\ closer'["main"] = "marked"
            \/ /\ main' = main /\ UNCHANGED <<stopping, cancellation>>
               /\ closer["main"] = "marked" /\ closer'["main"] = "joining"
            \/ /\ main' = "ended" /\ UNCHANGED <<stopping, cancellation>>
               /\ closer["main"] = "joining" /\ closer'["main"] = "joined"
         /\ Woken
         /\ UNCHANGED <<clientVars, item, result, answer, calls, reply, handled, recorded,
                        streamVars>>
<1>1. CASE LeaveLoop
  BY <1>1, MarkEffect DEF LeaveLoop, SchedulerTypeOK, Woken
<1>2. CASE CloseNotifies
  BY <1>2 DEF CloseNotifies, SchedulerTypeOK, Woken, mainVars, Scheduler!ShutdownNotify,
              Scheduler!Notify, Scheduler!sharedVars, Scheduler!historyVars
<1>3. CASE Closes
  BY <1>3 DEF Closes, SchedulerTypeOK, Woken, Scheduler!ShutdownJoin,
              Scheduler!sharedVars, Scheduler!workerVars, Scheduler!historyVars
<1> QED BY <1>1, <1>2, <1>3 DEF ClosingStep

(* The worker takes a work item as far as its verdict. *)
LEMMA WorkerEffect ==
  ASSUME SchedulerTypeOK, WorkerGoesOn
  PROVE  /\ worker # "erased"
         /\ UNCHANGED <<cancellation, stopping, closer, answer, calls>>
         /\ UNCHANGED <<clientVars, mainVars, recorded, streamVars>>
         /\ worker' \in {"finished", "erased"} /\ result' = "Cancelled" =>
               /\ item' = item /\ item \in SleepRequests
               /\ cancellation[item] \/ (worker = "finished" /\ result = "Cancelled")
<1> USE DEF WorkerGoesOn
<1>1. CASE Scheduler!WorkerBlocks \/ Scheduler!WorkerExits
  BY <1>1 DEF Scheduler!WorkerBlocks, Scheduler!WorkerExits,
              Scheduler!sharedVars, Scheduler!historyVars
<1>2. CASE Scheduler!WorkerPops
  BY <1>2, PopEffect
<1>3. CASE ServeStep
  BY <1>3, ServeEffect DEF SchedulerTypeOK, InFlight, TaskStatuses
<1>4. CASE Scheduler!WorkerErases
  <2>1. worker = "finished" /\ item \in SleepRequests
    BY <1>4 DEF Scheduler!WorkerErases, SchedulerTypeOK, InFlight
  <2> QED BY <1>4, <2>1, EraseEffect
<1> QED BY <1>1, <1>2, <1>3, <1>4 DEF ServeStep

(* While a completion is being called, no other thread disturbs it. *)
LEMMA ErasedStays ==
  ASSUME SchedulerTypeOK, [Next]_vars, worker = "erased", ~CompletionWritesPayload
  PROVE  UNCHANGED <<worker, item, result>>
<1>1. CASE ClientStep \/ MainWritesHeader \/ MainWritesPayload \/ HandleExit \/ HandleGarbled
  BY <1>1, ClientEffect DEF schedulerVars, MainWritesHeader, MainWritesPayload, HandleExit,
                            HandleGarbled
<1>2. ASSUME NEW r \in Requests, Handles(r) \/ HandleCancel(r)
      PROVE  UNCHANGED <<worker, item, result>>
  BY <1>2, HandleEffect, HandleCancelEffect DEF Woken
<1>3. CASE ClosingStep
  BY <1>3, ClosingEffect DEF Woken
<1>4. CASE WorkerStep
  BY <1>4, WorkerEffect DEF WorkerStep, CompletionWritesHeader, schedulerVars
<1>5. CASE UNCHANGED vars
  BY <1>5 DEF vars, schedulerVars
<1> QED BY <1>1, <1>2, <1>3, <1>4, <1>5 DEF Next, MainStep, Handles, ClosingStep

-----------------------------------------------------------------------------
(* The main thread and its inbox.                                          *)

LEMMA InvMain ==
  ASSUME ProtocolTypeOK, SchedulerTypeOK, MainInv, [Next]_vars
  PROVE  MainInv'
<1> USE DEF MainInv
<1>1. CASE ClientStep \/ UNCHANGED vars
  BY <1>1, ClientEffect DEF vars, schedulerVars, mainVars
<1>2. ASSUME NEW r \in Requests, Handles(r) PROVE MainInv'
  BY <1>2, HandleEffect DEF Reads
<1>3. ASSUME NEW r \in Requests, HandleCancel(r) PROVE MainInv'
  BY <1>3, HandleCancelEffect
<1>4. CASE HandleExit \/ HandleGarbled
  BY <1>4 DEF HandleExit, HandleGarbled, Reads, RepliesWith, schedulerVars
<1>5. CASE MainWritesHeader \/ MainWritesPayload
  <2>1. main \in {"replying", "framing"} /\ main' \in {"reading", "framing"} /\ closer' = closer
    <3>1. CASE MainWritesHeader
      BY <3>1 DEF MainWritesHeader, schedulerVars
    <3>2. CASE MainWritesPayload
      BY <3>2 DEF MainWritesPayload, schedulerVars
    <3> QED BY <1>5, <3>1, <3>2
  <2> QED BY <2>1
<1>6. CASE ClosingStep
  BY <1>6, ClosingEffect
<1>7. CASE WorkerGoesOn
  BY <1>7, WorkerEffect DEF mainVars
<1>8. CASE CompletionWritesHeader
  BY <1>8 DEF CompletionWritesHeader, mainVars, schedulerVars
<1>9. CASE CompletionWritesPayload
  BY <1>9, CompleteEffect DEF CompletionWritesPayload, mainVars
<1> QED
  BY <1>1, <1>2, <1>3, <1>4, <1>5, <1>6, <1>7, <1>8, <1>9
     DEF Next, MainStep, WorkerStep, Handles, ClosingStep

(* What is left in the inbox when its first message has been read. *)
LEMMA InboxAfterRead ==
  ASSUME TypeOK, InboxInv, NEW kind, NEW q, Reads(kind, q), UNCHANGED <<sent, cancels>>,
         handled' = handled \/ (kind = "request" /\ handled' = handled \cup {q})
  PROVE  /\ \A i \in DOMAIN inbox' :
               /\ inbox'[i].kind = "request" => inbox'[i].request \in sent' \ handled'
               /\ inbox'[i].kind = "cancel" => inbox'[i].request \in cancels'
         /\ \A i, j \in DOMAIN inbox' :
               /\ inbox'[i].kind = "request" /\ inbox'[j].kind = "request"
               /\ inbox'[i].request = inbox'[j].request
               => i = j
<1>1. /\ 1 \in DOMAIN inbox /\ inbox[1] = Message(kind, q)
      /\ \A i \in DOMAIN inbox' : i \in Nat /\ i + 1 \in DOMAIN inbox /\ inbox'[i] = inbox[i + 1]
  BY InboxRead
<1>2. \A i \in DOMAIN inbox' : i \in Nat \ {0}
  BY DEF TypeOK, Reads
<1>3. inbox[1].kind = kind /\ inbox[1].request = q
  BY <1>1 DEF Message
<1>4. ASSUME NEW i \in DOMAIN inbox', inbox'[i].kind = "request"
      PROVE  inbox'[i].request \in sent' \ handled'
  <2>1. /\ i + 1 \in DOMAIN inbox /\ i + 1 # 1
        /\ inbox[i + 1].kind = "request" /\ inbox[i + 1].request = inbox'[i].request
    BY <1>1, <1>2, <1>4
  <2>2. inbox'[i].request \in sent \ handled
    BY <2>1 DEF InboxInv
  <2>3. kind = "request" => inbox'[i].request # q
    BY <1>1, <1>3, <2>1 DEF InboxInv
  <2> QED BY <2>2, <2>3
<1>5. ASSUME NEW i \in DOMAIN inbox', inbox'[i].kind = "cancel"
      PROVE  inbox'[i].request \in cancels'
  BY <1>1, <1>5 DEF InboxInv
<1>6. ASSUME NEW i \in DOMAIN inbox', NEW j \in DOMAIN inbox',
             inbox'[i].kind = "request", inbox'[j].kind = "request",
             inbox'[i].request = inbox'[j].request
      PROVE  i = j
  <2>1. i + 1 = j + 1
    BY <1>1, <1>6 DEF InboxInv
  <2> QED BY <1>2, <2>1
<1> QED BY <1>4, <1>5, <1>6

(* And when a message has been added. *)
LEMMA InboxAfterSend ==
  ASSUME TypeOK, InboxInv, NEW m \in Messages, Sends(m),
         sent \subseteq sent', cancels \subseteq cancels',
         m.kind = "request" => m.request \in sent' \ sent,
         m.kind = "cancel" => m.request \in cancels'
  PROVE  InboxInv'
<1>1. /\ DOMAIN inbox' = DOMAIN inbox \cup {Len(inbox) + 1}
      /\ \A i \in DOMAIN inbox : inbox'[i] = inbox[i]
      /\ inbox'[Len(inbox) + 1] = m
  BY InboxSend
<1>2. /\ \A i \in DOMAIN inbox :
          /\ inbox[i].kind = "request" => inbox[i].request \in sent \ handled
          /\ inbox[i].kind = "cancel" => inbox[i].request \in cancels
      /\ handled' = handled /\ answer' = answer /\ handled \subseteq sent
  BY DEF InboxInv, Sends, mainVars, schedulerVars, TypeOK
<1>3. \A i \in DOMAIN inbox :
          inbox[i].kind = "request" /\ m.kind = "request" => inbox[i].request # m.request
  BY <1>2
<1>4. \A i \in DOMAIN inbox' :
          /\ inbox'[i].kind = "request" => inbox'[i].request \in sent' \ handled'
          /\ inbox'[i].kind = "cancel" => inbox'[i].request \in cancels'
  BY <1>1, <1>2
<1>5. ASSUME NEW i \in DOMAIN inbox', NEW j \in DOMAIN inbox',
             inbox'[i].kind = "request", inbox'[j].kind = "request",
             inbox'[i].request = inbox'[j].request
      PROVE  i = j
  <2>1. CASE i \in DOMAIN inbox /\ j \in DOMAIN inbox
    BY <1>1, <1>5, <2>1 DEF InboxInv
  <2> QED BY <1>1, <1>3, <1>5, <2>1
<1>6. \A r \in SleepRequests : answer'[r] = "none" <=> r \notin handled'
  BY <1>2 DEF InboxInv
<1> QED BY <1>4, <1>5, <1>6 DEF InboxInv

LEMMA InvInbox ==
  ASSUME ProtocolTypeOK, SchedulerTypeOK, InboxInv, [Next]_vars
  PROVE  InboxInv'
<1>0. TypeOK
  BY DEF ProtocolTypeOK
<1>1. ASSUME NEW r \in Requests, SendRequest(r) PROVE InboxInv'
  BY <1>0, <1>1, InboxAfterSend, MessageTypes DEF SendRequest, Message
<1>2. ASSUME NEW r \in Requests, SendCancel(r) PROVE InboxInv'
  BY <1>0, <1>2, InboxAfterSend, MessageTypes DEF SendCancel, Message
<1>3. CASE SendGarbled
  BY <1>0, <1>3, InboxAfterSend, MessageTypes DEF SendGarbled, Message
<1>4. CASE SendExit
  BY <1>0, <1>4, InboxAfterSend, MessageTypes DEF SendExit, Message
<1>5. ASSUME NEW r \in Requests, Handles(r) PROVE InboxInv'
  <2>1. Reads("request", r) /\ handled' = handled \cup {r} /\ UNCHANGED <<sent, cancels>>
    BY <1>5, HandleEffect
  <2>2. r \in SyncRequests => r \notin SleepRequests
    BY ProtocolConstants
  <2>3. \A q \in SleepRequests : answer'[q] = "none" <=> answer[q] = "none" /\ q # r
    BY <1>5, <2>2, HandleEffect DEF SchedulerTypeOK
  <2>4. \A q \in SleepRequests : answer'[q] = "none" <=> q \notin handled'
    BY <2>1, <2>3 DEF InboxInv
  <2> QED BY <1>0, <2>1, <2>4, InboxAfterRead DEF InboxInv
<1>6. ASSUME NEW r \in Requests, HandleCancel(r) PROVE InboxInv'
  <2>1. Reads("cancel", r) /\ UNCHANGED <<sent, cancels, handled, answer>>
    BY <1>6, HandleCancelEffect
  <2> QED BY <1>0, <2>1, InboxAfterRead DEF InboxInv
<1>7. CASE HandleExit \/ HandleGarbled
  <2>1. /\ \E kind \in {"exit", "garbled"} : Reads(kind, NoRequest)
        /\ UNCHANGED <<sent, cancels, handled, answer>>
    BY <1>7 DEF HandleExit, HandleGarbled, Reads, schedulerVars
  <2> QED BY <1>0, <2>1, InboxAfterRead DEF InboxInv
<1>8. CASE UNCHANGED <<inbox, sent, cancels, handled, answer>>
  BY <1>8 DEF InboxInv
<1>9. \/ EndInput \/ MainWritesHeader \/ MainWritesPayload \/ ClosingStep
      \/ WorkerStep \/ UNCHANGED vars
      => UNCHANGED <<inbox, sent, cancels, handled, answer>>
  <2>1. CASE EndInput \/ MainWritesHeader \/ MainWritesPayload \/ UNCHANGED vars
    BY <2>1 DEF EndInput, MainWritesHeader, MainWritesPayload, vars, schedulerVars,
                clientVars, mainVars
  <2>2. CASE ClosingStep
    BY <2>2, ClosingEffect DEF clientVars
  <2>3. CASE WorkerStep
    BY <2>3, WorkerEffect, CompleteEffect
       DEF WorkerStep, CompletionWritesHeader, CompletionWritesPayload, clientVars, mainVars,
           schedulerVars
  <2> QED BY <2>1, <2>2, <2>3
<1> QED
  BY <1>1, <1>2, <1>3, <1>4, <1>5, <1>6, <1>7, <1>8, <1>9
     DEF Next, ClientStep, MainStep, Handles, ClosingStep

-----------------------------------------------------------------------------
(* The responses and their counts.                                         *)

(* Nobody is being answered, or nobody else than before. *)
LEMMA AnswersKept ==
  ASSUME AnswerInv, UNCHANGED <<answers, recorded, answer, calls, handled, reply>>,
         main' \in {"replying", "framing"} <=> main \in {"replying", "framing"}
  PROVE  AnswerInv'
BY DEF AnswerInv, Accepted, Replying

LEMMA AnswersHandled ==
  ASSUME ProtocolTypeOK, SchedulerInv, InboxInv, AnswerInv, NEW q \in Requests, Handles(q)
  PROVE  AnswerInv'
<1>1. /\ main = "reading" /\ q \notin handled
      /\ handled' = handled \cup {q} /\ UNCHANGED <<answers, recorded, calls>>
  <2>1. Reads("request", q) /\ TypeOK
    BY HandleEffect DEF ProtocolTypeOK
  <2>2. 1 \in DOMAIN inbox /\ inbox[1] = Message("request", q)
    BY <2>1, InboxRead
  <2>3. inbox[1].kind = "request" /\ inbox[1].request = q
    BY <2>2 DEF Message
  <2> QED BY <2>1, <2>2, <2>3, HandleEffect DEF InboxInv, Reads
<1>2. /\ Len(answers[q]) = 0 /\ recorded[q] = 0
      /\ q \in SleepRequests /\ answer[q] = "none" => calls[q] = 0
  <2>1. ~Replying(q)
    BY <1>1 DEF Replying
  <2>2. ~Accepted(q)
    BY <1>1 DEF InboxInv, Accepted
  <2> QED BY <1>1, <2>1, <2>2 DEF AnswerInv, SchedulerInv, PlaceInv
<1>3. \/ ~Accepted(q)' /\ Replying(q)'
      \/ Accepted(q)' /\ ~Replying(q)' /\ calls'[q] = 0
  <2>1. q \in SyncRequests => q \notin SleepRequests
    BY ProtocolConstants
  <2>2. answer \in [SleepRequests -> {"none", "accepted", "rejected"}]
    BY DEF SchedulerInv, SchedulerTypeOK
  <2>3. CASE q \in SleepRequests /\ answer' = [answer EXCEPT ![q] = "accepted"] /\ main' = main
    BY <1>1, <1>2, <2>2, <2>3, HandleEffect DEF Accepted, Replying
  <2>4. CASE /\ q \in SyncRequests \/ answer' = [answer EXCEPT ![q] = "rejected"]
             /\ main' = "replying" /\ reply'.to = q
    BY <2>1, <2>2, <2>4 DEF Accepted, Replying
  <2>5. Response(q, "result").to = q /\ Response(q, "failed to queue request").to = q
    BY DEF Response
  <2> QED BY <2>3, <2>4, <2>5, HandleEffect
<1>4. ASSUME NEW r \in Requests, r # q
      PROVE  (Accepted(r)' <=> Accepted(r)) /\ ~Replying(r)' /\ ~Replying(r)
  <2>1. answer \in [SleepRequests -> {"none", "accepted", "rejected"}]
    BY DEF SchedulerInv, SchedulerTypeOK
  <2>2. /\ answer' = answer \/ answer' = [answer EXCEPT ![q] = "accepted"]
           \/ answer' = [answer EXCEPT ![q] = "rejected"]
        /\ main' = "reading" \/ reply' = Response(q, "result")
           \/ reply' = Response(q, "failed to queue request")
    BY <1>1, HandleEffect
  <2>3. Accepted(r)' <=> Accepted(r)
    BY <1>4, <2>1, <2>2 DEF Accepted
  <2>4. Response(q, "result").to = q /\ Response(q, "failed to queue request").to = q
    BY DEF Response
  <2>5. main' = "reading" \/ reply'.to = q
    BY <2>2, <2>4
  <2>6. ~Replying(r)' /\ ~Replying(r)
    BY <1>1, <1>4, <2>5 DEF Replying
  <2> QED BY <2>3, <2>6
<1>5. ASSUME NEW r \in Requests
      PROVE  /\ Len(answers'[r]) = recorded'[r]
             /\ recorded'[r] = IF Accepted(r)' THEN calls'[r]
                               ELSE IF r \in handled' /\ ~Replying(r)' THEN 1 ELSE 0
             /\ Replying(r)' => r \in handled' /\ ~Accepted(r)'
  <2>1. CASE r = q
    BY <1>1, <1>2, <1>3, <2>1
  <2>2. CASE r # q
    BY <1>1, <1>4, <2>2 DEF AnswerInv
  <2> QED BY <2>1, <2>2
<1> QED BY <1>5 DEF AnswerInv

(* What a payload adds. *)
LEMMA AnswerAdded ==
  ASSUME TypeOK, NEW q \in Requests \cup {NoRequest}, NEW v \in Verdicts,
         answers' = [answers EXCEPT ![q] = Append(@, v)], Records({q} \ {NoRequest})
  PROVE  \A r \in Requests :
            IF r = q THEN Len(answers'[r]) = Len(answers[r]) + 1 /\ recorded'[r] = recorded[r] + 1
                     ELSE answers'[r] = answers[r] /\ recorded'[r] = recorded[r]
<1>1. ASSUME NEW r \in Requests, r = q
      PROVE  Len(answers'[r]) = Len(answers[r]) + 1
  <2>1. answers[r] \in Seq(Verdicts) /\ answers'[r] = Append(answers[r], v)
    BY <1>1 DEF TypeOK
  <2> QED BY <2>1
<1>2. \A r \in Requests : r # q => answers'[r] = answers[r]
  BY DEF TypeOK
<1>3. ASSUME NEW r \in Requests
      PROVE  IF r = q THEN recorded'[r] = recorded[r] + 1 ELSE recorded'[r] = recorded[r]
  <2>1. recorded[r] \in Nat /\ r # NoRequest
    BY ProtocolConstants DEF TypeOK
  <2> QED BY <2>1 DEF Records
<1> QED BY <1>1, <1>2, <1>3

LEMMA AnswersByMain ==
  ASSUME ProtocolTypeOK, AnswerInv, MainWritesPayload
  PROVE  AnswerInv'
<1>1. /\ main = "framing" /\ main' = "reading"
      /\ answers' = [answers EXCEPT ![reply.to] = Append(@, reply.what)]
      /\ UNCHANGED <<answer, calls, handled>>
  BY DEF MainWritesPayload, WritesPayload, schedulerVars
<1>2. \A r \in Requests :
         IF r = reply.to
         THEN Len(answers'[r]) = Len(answers[r]) + 1 /\ recorded'[r] = recorded[r] + 1
         ELSE answers'[r] = answers[r] /\ recorded'[r] = recorded[r]
  <2>1. reply.to \in Requests \cup {NoRequest} /\ reply.what \in Verdicts /\ TypeOK
    BY DEF ProtocolTypeOK, TypeOK
  <2> QED BY <1>1, <2>1, AnswerAdded DEF MainWritesPayload, RecordedByMain
<1>3. \A r \in Requests : ~Replying(r)' /\ (Replying(r) <=> r = reply.to)
                          /\ (Accepted(r)' <=> Accepted(r))
  BY <1>1 DEF Replying, Accepted
<1>4. \A r \in Requests : Len(answers[r]) \in Nat /\ recorded[r] \in Nat
  BY DEF ProtocolTypeOK, TypeOK
<1>5. ASSUME NEW r \in Requests
      PROVE  /\ Len(answers'[r]) = recorded'[r]
             /\ recorded'[r] = IF Accepted(r)' THEN calls'[r]
                               ELSE IF r \in handled' /\ ~Replying(r)' THEN 1 ELSE 0
             /\ Replying(r)' => r \in handled' /\ ~Accepted(r)'
  <2>1. Len(answers[r]) = recorded[r] /\ recorded[r] \in Nat
    BY <1>4 DEF AnswerInv
  <2>2. CASE r = reply.to
    <3>1. Replying(r) /\ recorded[r] = 0 /\ r \in handled /\ ~Accepted(r)
      BY <1>3, <2>2 DEF AnswerInv
    <3> QED BY <1>1, <1>2, <1>3, <2>1, <2>2, <3>1
  <2>3. CASE r # reply.to
    <3>1. Len(answers'[r]) = recorded[r] /\ recorded'[r] = recorded[r] /\ ~Replying(r)
      BY <1>2, <1>3, <2>1, <2>3
    <3> QED BY <1>1, <1>3, <3>1 DEF AnswerInv, Accepted
  <2> QED BY <2>2, <2>3
<1> QED BY <1>5 DEF AnswerInv

LEMMA AnswersByWorker ==
  ASSUME ProtocolTypeOK, SchedulerInv, AnswerInv, CompletionWritesPayload
  PROVE  AnswerInv'
<1>1. /\ worker = "erased" /\ item \in SleepRequests /\ item # NoRequest
      /\ Accepted(item) /\ calls[item] = 0
  <2>1. worker = "erased" /\ item \in SleepRequests
    BY CompleteEffect DEF CompletionWritesPayload, SchedulerInv, SchedulerTypeOK
  <2>2. Held(item)
    BY <2>1 DEF Held
  <2> QED
    BY <2>1, <2>2, ProtocolConstants DEF SchedulerInv, PlaceInv, Accepted, Requests
<1>2. /\ answers' = [answers EXCEPT ![item] = Append(@, Verdict)]
      /\ UNCHANGED <<answer, handled, main, reply>>
      /\ calls' = [calls EXCEPT ![item] = @ + 1]
  BY CompleteEffect DEF CompletionWritesPayload, WritesPayload, Response, mainVars
<1>3. \A r \in Requests :
         IF r = item
         THEN Len(answers'[r]) = Len(answers[r]) + 1 /\ recorded'[r] = recorded[r] + 1
         ELSE answers'[r] = answers[r] /\ recorded'[r] = recorded[r]
  <2>1. item \in Requests \cup {NoRequest} /\ Verdict \in Verdicts /\ TypeOK
    BY <1>1, ResponseTypes DEF ProtocolTypeOK, SchedulerInv, Requests
  <2>2. Records({item} \ {NoRequest})
    <3>1. {item} \ {NoRequest} = {item}
      BY <1>1
    <3> QED BY <3>1 DEF CompletionWritesPayload
  <2> QED BY <1>2, <2>1, <2>2, AnswerAdded
<1>4. ASSUME NEW r \in Requests
      PROVE  /\ Len(answers'[r]) = recorded'[r]
             /\ recorded'[r] = IF Accepted(r)' THEN calls'[r]
                               ELSE IF r \in handled' /\ ~Replying(r)' THEN 1 ELSE 0
             /\ Replying(r)' => r \in handled' /\ ~Accepted(r)'
  <2>1. (Accepted(r)' <=> Accepted(r)) /\ (Replying(r)' <=> Replying(r)) /\ handled' = handled
    BY <1>2 DEF Accepted, Replying
  <2>2. Accepted(r) => calls'[r] = calls[r] + (IF r = item THEN 1 ELSE 0)
    BY <1>1, <1>2 DEF Accepted, SchedulerInv, SchedulerTypeOK
  <2>3. Len(answers[r]) \in Nat /\ recorded[r] \in Nat
    BY DEF ProtocolTypeOK, TypeOK
  <2>4. CASE r = item
    <3>1. recorded[r] = 0 /\ Len(answers[r]) = 0 /\ calls'[r] = 1 /\ Accepted(r) /\ ~Replying(r)
      BY <1>1, <2>2, <2>4 DEF AnswerInv
    <3> QED BY <1>3, <2>1, <2>4, <3>1
  <2>5. CASE r # item
    <3>1. Len(answers'[r]) = Len(answers[r]) /\ recorded'[r] = recorded[r]
      BY <1>3, <2>3, <2>5
    <3>2. Accepted(r) => calls'[r] = calls[r]
      BY <1>2, <2>5 DEF Accepted, SchedulerInv, SchedulerTypeOK
    <3> QED BY <2>1, <3>1, <3>2 DEF AnswerInv
  <2> QED BY <2>4, <2>5
<1> QED BY <1>4 DEF AnswerInv

LEMMA InvAnswer ==
  ASSUME ProtocolTypeOK, SchedulerInv, MainInv, InboxInv, AnswerInv, [Next]_vars
  PROVE  AnswerInv'
<1>1. CASE ClientStep \/ UNCHANGED vars
  BY <1>1, AnswersKept, ClientEffect DEF vars, schedulerVars, mainVars, streamVars
<1>2. ASSUME NEW r \in Requests, Handles(r) PROVE AnswerInv'
  BY <1>2, AnswersHandled
<1>3. ASSUME NEW r \in Requests, HandleCancel(r) PROVE AnswerInv'
  BY <1>3, AnswersKept, HandleCancelEffect DEF SchedulerInv
<1>4. CASE HandleExit \/ MainWritesHeader
  <2>1. CASE HandleExit
    BY <2>1, AnswersKept DEF HandleExit, Reads, schedulerVars, streamVars
  <2>2. CASE MainWritesHeader
    BY <2>2, AnswersKept DEF MainWritesHeader, WritesHeader, schedulerVars
  <2> QED BY <1>4, <2>1, <2>2
<1>5. CASE HandleGarbled
  <2>1. /\ main = "reading" /\ reply'.to = NoRequest
        /\ UNCHANGED <<answers, recorded, answer, calls, handled>>
    BY <1>5 DEF HandleGarbled, Reads, RepliesWith, Response, schedulerVars, streamVars
  <2>2. \A r \in Requests : ~Replying(r) /\ ~Replying(r)' /\ (Accepted(r)' <=> Accepted(r))
    BY <2>1, ProtocolConstants DEF Replying, Accepted
  <2> QED BY <2>1, <2>2 DEF AnswerInv
<1>6. CASE MainWritesPayload
  BY <1>6, AnswersByMain
<1>7. CASE ClosingStep
  <2>1. UNCHANGED <<answers, recorded, answer, calls, handled, reply>>
    BY <1>7, ClosingEffect DEF SchedulerInv, streamVars
  <2>2. main' \in {"replying", "framing"} <=> main \in {"replying", "framing"}
    BY <1>7, ClosingEffect DEF SchedulerInv, MainInv
  <2> QED BY <2>1, <2>2, AnswersKept
<1>8. CASE WorkerGoesOn
  BY <1>8, WorkerEffect, AnswersKept DEF SchedulerInv, mainVars, streamVars
<1>9. CASE CompletionWritesHeader
  BY <1>9, AnswersKept DEF CompletionWritesHeader, WritesHeader, mainVars, schedulerVars
<1>10. CASE CompletionWritesPayload
  BY <1>10, AnswersByWorker
<1> QED
  BY <1>1, <1>2, <1>3, <1>4, <1>5, <1>6, <1>7, <1>8, <1>9, <1>10
     DEF Next, MainStep, WorkerStep, Handles, ClosingStep

-----------------------------------------------------------------------------
(* The ids of unanswered requests.                                         *)

LEMMA AnsweredStays ==
  ASSUME TypeOK, NEW q \in Requests \cup {NoRequest}, NEW v \in Verdicts,
         answers' = [answers EXCEPT ![q] = Append(@, v)]
  PROVE  \A r \in Requests : Answered(r) => Answered(r)'
<1> SUFFICES ASSUME NEW r \in Requests, Answered(r)
             PROVE  Answered(r)'
  OBVIOUS
<1>1. CASE r = q
  <2>1. answers[q] \in Seq(Verdicts) /\ answers'[r] = Append(answers[q], v)
    BY <1>1 DEF TypeOK
  <2>2. Append(answers[q], v) # <<>>
    <3>1. Len(Append(answers[q], v)) = Len(answers[q]) + 1 /\ Len(answers[q]) \in Nat
      BY <2>1
    <3>2. Len(Append(answers[q], v)) # 0
      BY <3>1
    <3> QED BY <3>2
  <2> QED BY <2>1, <2>2 DEF Answered
<1>2. CASE r # q
  <2>1. answers'[r] = answers[r]
    BY <1>2 DEF TypeOK
  <2> QED BY <2>1 DEF Answered
<1> QED BY <1>1, <1>2

(* An answer, a cancellation and a shutdown are for good. *)
LEMMA Grows ==
  ASSUME ProtocolTypeOK, SchedulerInv, [Next]_vars
  PROVE  /\ \A r \in Requests : Answered(r) => Answered(r)'
         /\ cancels \subseteq cancels'
         /\ stopping => stopping'
<1>0. TypeOK
  BY DEF ProtocolTypeOK
<1>1. CASE ClientStep
  <2>1. UNCHANGED <<answers, stopping>>
    BY <1>1, ClientEffect DEF schedulerVars, streamVars
  <2>2. cancels \subseteq cancels'
    BY <1>1 DEF ClientStep, SendRequest, SendCancel, SendGarbled, SendExit, EndInput
  <2> QED BY <2>1, <2>2 DEF Answered
<1>2. ASSUME NEW r \in Requests, Handles(r) \/ HandleCancel(r)
      PROVE  UNCHANGED <<answers, stopping, cancels>>
  BY <1>2, HandleEffect, HandleCancelEffect DEF SchedulerInv
<1>3. CASE HandleExit \/ HandleGarbled
  <2>1. UNCHANGED <<answers, stopping, cancels>>
    BY <1>3 DEF HandleExit, HandleGarbled, Reads, schedulerVars, streamVars
  <2> QED BY <2>1 DEF Answered
<1>4. CASE MainWritesHeader \/ CompletionWritesHeader
  <2>1. UNCHANGED <<answers, stopping, cancels>>
    BY <1>4 DEF MainWritesHeader, CompletionWritesHeader, WritesHeader, schedulerVars, clientVars
  <2> QED BY <2>1 DEF Answered
<1>5. CASE MainWritesPayload
  <2>1. /\ answers' = [answers EXCEPT ![reply.to] = Append(@, reply.what)]
        /\ UNCHANGED <<stopping, cancels>>
    BY <1>5 DEF MainWritesPayload, WritesPayload, schedulerVars, clientVars
  <2>2. reply.to \in Requests \cup {NoRequest} /\ reply.what \in Verdicts
    BY <1>0 DEF TypeOK
  <2>3. \A r \in Requests : Answered(r) => Answered(r)'
    BY <1>0, <2>1, <2>2, AnsweredStays
  <2> QED BY <2>1, <2>3
<1>6. CASE ClosingStep
  BY <1>6, ClosingEffect DEF SchedulerInv, clientVars, streamVars, Answered
<1>7. CASE WorkerGoesOn
  BY <1>7, WorkerEffect DEF SchedulerInv, clientVars, streamVars, Answered
<1>8. CASE CompletionWritesPayload
  <2>1. /\ answers' = [answers EXCEPT ![item] = Append(@, Verdict)]
        /\ UNCHANGED <<stopping, cancels>>
    BY <1>8, CompleteEffect DEF CompletionWritesPayload, WritesPayload, Response, clientVars
  <2>2. item \in Requests \cup {NoRequest} /\ Verdict \in Verdicts
    BY <1>8, CompleteEffect, ResponseTypes DEF CompletionWritesPayload, SchedulerInv, Requests
  <2>3. \A r \in Requests : Answered(r) => Answered(r)'
    BY <1>0, <2>1, <2>2, AnsweredStays
  <2> QED BY <2>1, <2>3
<1>9. CASE UNCHANGED vars
  BY <1>9 DEF vars, schedulerVars, clientVars, streamVars, Answered
<1> QED
  BY <1>1, <1>2, <1>3, <1>4, <1>5, <1>6, <1>7, <1>8, <1>9
     DEF Next, MainStep, WorkerStep, Handles, ClosingStep, Answered

(* Who reads, who sends, and who leaves the inbox alone. *)
LEMMA InboxSteps ==
  ASSUME SchedulerTypeOK, [Next]_vars
  PROVE  \/ \E r \in Requests : SendRequest(r) \/ SendCancel(r)
         \/ \E m \in Messages : m.kind \in {"garbled", "exit"} /\ Sends(m) /\ UNCHANGED <<sent, cancels>>
         \/ \E kind, r : Reads(kind, r)
         \/ UNCHANGED <<inbox, sent, cancels>>
<1>1. CASE SendGarbled \/ SendExit
  <2>1. \A kind \in {"garbled", "exit"} : /\ Message(kind, NoRequest) \in Messages
                                           /\ Message(kind, NoRequest).kind = kind
    BY MessageTypes DEF Message
  <2> QED BY <1>1, <2>1 DEF SendGarbled, SendExit
<1>2. ASSUME NEW r \in Requests, Handles(r) \/ HandleCancel(r)
      PROVE  \E kind : Reads(kind, r)
  BY <1>2, HandleEffect, HandleCancelEffect
<1>3. CASE HandleExit \/ HandleGarbled
  BY <1>3 DEF HandleExit, HandleGarbled
<1>4. CASE EndInput \/ MainWritesHeader \/ MainWritesPayload \/ UNCHANGED vars
  BY <1>4 DEF EndInput, MainWritesHeader, MainWritesPayload, vars, clientVars
<1>5. CASE ClosingStep
  BY <1>5, ClosingEffect DEF clientVars
<1>6. CASE WorkerStep
  BY <1>6, WorkerEffect
     DEF WorkerStep, CompletionWritesHeader, CompletionWritesPayload, clientVars
<1> QED
  BY <1>1, <1>2, <1>3, <1>4, <1>5, <1>6
     DEF Next, ClientStep, MainStep, Handles, ClosingStep

LEMMA InvOpenId ==
  ASSUME ProtocolTypeOK, SchedulerInv, OpenIdInv, [Next]_vars
  PROVE  OpenIdInv'
<1>0. \A r \in Requests : Answered(r) => Answered(r)'
  BY Grows
<1>1. sent \subseteq Requests
  BY DEF ProtocolTypeOK, TypeOK
<1>2. CASE sent' = sent
  BY <1>0, <1>1, <1>2 DEF OpenIdInv
<1>3. ASSUME NEW r \in Requests, SendRequest(r) PROVE OpenIdInv'
  BY <1>0, <1>1, <1>3 DEF SendRequest, OpenIdInv
<1>4. sent' = sent \/ \E r \in Requests : SendRequest(r)
  <2>1. SchedulerTypeOK
    BY DEF SchedulerInv
  <2>2. CASE \E kind, r : Reads(kind, r)
    BY <2>2 DEF Reads
  <2> QED BY <2>1, <2>2, InboxSteps DEF SendCancel
<1> QED BY <1>2, <1>3, <1>4

(* A cancellation, wherever it is in the inbox, and the requests it might *)
(* be taken for.                                                          *)
LEMMA InvCancelOrder ==
  ASSUME ProtocolTypeOK, SchedulerInv, OpenIdInv, CancelOrderInv, [Next]_vars
  PROVE  CancelOrderInv'
<1>0. /\ \A r \in Requests : Answered(r) => Answered(r)'
      /\ TypeOK /\ sent \subseteq Requests
  BY Grows DEF ProtocolTypeOK, TypeOK
<1>1. ASSUME NEW r \in Requests, SendRequest(r) PROVE CancelOrderInv'
  <2>1. /\ sent' = sent \cup {r}
        /\ DOMAIN inbox' = DOMAIN inbox \cup {Len(inbox) + 1}
        /\ \A i \in DOMAIN inbox : inbox'[i] = inbox[i] /\ i < Len(inbox) + 1
        /\ inbox'[Len(inbox) + 1] = Message("request", r)
    BY <1>0, <1>1, InboxSend, MessageTypes DEF SendRequest
  <2>2. inbox'[Len(inbox) + 1].kind # "cancel"
    BY <2>1 DEF Message
  <2>3. ASSUME NEW i \in DOMAIN inbox, inbox'[i].kind = "cancel", NEW q \in sent',
               q # inbox'[i].request, IdOf[q] = IdOf[inbox'[i].request], ~Answered(q)'
        PROVE  \E j \in DOMAIN inbox' : j > i /\ inbox'[j] = Message("request", q)
    <3>1. CASE q = r
      BY <2>1, <3>1
    <3>2. CASE q \in sent
      <4>1. PICK j \in DOMAIN inbox : j > i /\ inbox[j] = Message("request", q)
        BY <1>0, <2>1, <2>3, <3>2 DEF CancelOrderInv
      <4> QED BY <2>1, <4>1
    <3> QED BY <2>1, <3>1, <3>2
  <2> QED BY <2>1, <2>2, <2>3 DEF CancelOrderInv
<1>2. ASSUME NEW m \in Messages, Sends(m), UNCHANGED sent, m.kind \in {"cancel", "garbled", "exit"},
             m.kind = "cancel" => m.request \in sent /\ ~Answered(m.request)
      PROVE  CancelOrderInv'
  <2>1. /\ DOMAIN inbox' = DOMAIN inbox \cup {Len(inbox) + 1}
        /\ \A i \in DOMAIN inbox : inbox'[i] = inbox[i] /\ i < Len(inbox) + 1
        /\ inbox'[Len(inbox) + 1] = m
    BY <1>0, <1>2, InboxSend
  <2>2. ASSUME NEW i \in DOMAIN inbox', inbox'[i].kind = "cancel", NEW q \in sent',
               q # inbox'[i].request, IdOf[q] = IdOf[inbox'[i].request], ~Answered(q)'
        PROVE  \E j \in DOMAIN inbox' : j > i /\ inbox'[j] = Message("request", q)
    <3>1. q \in sent /\ ~Answered(q)
      BY <1>0, <1>2, <2>2
    <3>2. CASE i \in DOMAIN inbox
      <4>1. PICK j \in DOMAIN inbox : j > i /\ inbox[j] = Message("request", q)
        BY <2>1, <2>2, <3>1, <3>2 DEF CancelOrderInv
      <4> QED BY <2>1, <4>1
    <3>3. CASE inbox'[i] = m
      BY <1>2, <2>2, <3>1, <3>3 DEF OpenIdInv
    <3> QED BY <2>1, <3>2, <3>3
  <2> QED BY <2>2 DEF CancelOrderInv
<1>3. ASSUME NEW kind, NEW c, Reads(kind, c) PROVE CancelOrderInv'
  <2>1. /\ \A i \in DOMAIN inbox' : i \in Nat /\ i + 1 \in DOMAIN inbox /\ inbox'[i] = inbox[i + 1]
        /\ \A i \in DOMAIN inbox : i # 1 => i - 1 \in DOMAIN inbox' /\ inbox'[i - 1] = inbox[i]
        /\ DOMAIN inbox \subseteq Nat \ {0}
        /\ sent' = sent
    BY <1>0, <1>3, InboxRead DEF Reads
  <2>2. ASSUME NEW i \in DOMAIN inbox', inbox'[i].kind = "cancel", NEW q \in sent',
               q # inbox'[i].request, IdOf[q] = IdOf[inbox'[i].request], ~Answered(q)'
        PROVE  \E j \in DOMAIN inbox' : j > i /\ inbox'[j] = Message("request", q)
    <3>1. PICK j \in DOMAIN inbox : j > i + 1 /\ inbox[j] = Message("request", q)
      BY <1>0, <2>1, <2>2 DEF CancelOrderInv
    <3>2. j \in Nat /\ i \in Nat /\ j # 1 /\ j - 1 > i
      BY <2>1, <3>1
    <3> QED BY <2>1, <3>1, <3>2
  <2> QED BY <2>2 DEF CancelOrderInv
<1>4. CASE UNCHANGED <<inbox, sent>>
  BY <1>0, <1>4 DEF CancelOrderInv
<1>5. ASSUME NEW r \in Requests, SendCancel(r) PROVE CancelOrderInv'
  <2>1. Message("cancel", r) \in Messages
    BY MessageTypes
  <2>2. Message("cancel", r).kind = "cancel" /\ Message("cancel", r).request = r
    BY DEF Message
  <2> QED BY <1>2, <1>5, <2>1, <2>2 DEF SendCancel
<1> QED
  BY <1>1, <1>2, <1>3, <1>4, <1>5, InboxSteps DEF SchedulerInv

-----------------------------------------------------------------------------
(* Cancellations.                                                          *)

(* The owner of the key a cancellation names is the request it is for: any *)
(* other with that id would come after it in the inbox.                    *)
LEMMA CancelHitsItsRequest ==
  ASSUME ProtocolTypeOK, SchedulerInv, InboxInv, AnswerInv, CancelOrderInv,
         NEW q \in Requests, HandleCancel(q), requestStates[Key(q)] \in SleepRequests
  PROVE  requestStates[Key(q)] = q /\ q \in cancels
<1> DEFINE o == requestStates[Key(q)]
<1>1. 1 \in DOMAIN inbox /\ inbox[1].kind = "cancel" /\ inbox[1].request = q
  <2>1. Reads("cancel", q) /\ TypeOK
    BY HandleCancelEffect DEF SchedulerInv, ProtocolTypeOK
  <2>2. 1 \in DOMAIN inbox /\ inbox[1] = Message("cancel", q)
    BY <2>1, InboxRead
  <2> QED BY <2>2 DEF Message
<1>2. q \in cancels
  BY <1>1 DEF InboxInv
<1>3. o \in SleepRequests /\ o \in Requests /\ Key(o) = Key(q) /\ IdOf[o] = IdOf[q]
  <2>1. Key(q) \in Keys /\ o \in SleepRequests /\ o # NoRequest
    BY KeyIsId, ProtocolConstants DEF Requests
  <2>2. Key(o) = Key(q)
    BY <2>1 DEF SchedulerInv, MapInv
  <2> QED BY <2>1, <2>2, KeyIsId DEF Requests
<1>4. InQueue(o) \/ Held(o)
  <2>1. requestStates[Key(o)] = o
    BY <1>3
  <2> QED BY <1>3, <2>1 DEF SchedulerInv, MapInv, Held
<1>5. Accepted(o) /\ calls[o] = 0
  BY <1>3, <1>4 DEF SchedulerInv, PlaceInv, Accepted
<1>6. o \in handled /\ o \in sent
  <2>1. answer[o] # "none"
    BY <1>5 DEF Accepted
  <2> QED BY <1>3, <2>1 DEF InboxInv, ProtocolTypeOK, TypeOK
<1>7. ~Answered(o)
  <2>1. Len(answers[o]) = 0 /\ answers[o] \in Seq(Verdicts)
    BY <1>3, <1>5 DEF AnswerInv, ProtocolTypeOK, TypeOK
  <2> QED BY <2>1 DEF Answered
<1>8. ASSUME o # q PROVE FALSE
  <2>1. PICK j \in DOMAIN inbox : inbox[j] = Message("request", o)
    BY <1>1, <1>3, <1>6, <1>7, <1>8 DEF CancelOrderInv
  <2>2. inbox[j].kind = "request" /\ inbox[j].request = o
    BY <2>1 DEF Message
  <2> QED BY <1>6, <2>2 DEF InboxInv
<1> QED BY <1>2, <1>8

LEMMA AnswerAppended ==
  ASSUME TypeOK, NEW q \in Requests \cup {NoRequest}, NEW v \in Verdicts
  PROVE  \A i \in DOMAIN Append(answers[q], v) :
            \/ i \in DOMAIN answers[q] /\ Append(answers[q], v)[i] = answers[q][i]
            \/ Append(answers[q], v)[i] = v
<1>1. answers[q] \in Seq(Verdicts)
  BY DEF TypeOK
<1> QED BY <1>1

(* An answer added is told from the others by what it says. *)
LEMMA CancelledAdded ==
  ASSUME TypeOK, CancelledMeansAsked, cancels \subseteq cancels', stopping => stopping',
         NEW q \in Requests \cup {NoRequest}, NEW v \in Verdicts,
         answers' = [answers EXCEPT ![q] = Append(@, v)],
         v = "request cancelled" => q \in cancels \/ stopping
  PROVE  CancelledMeansAsked'
<1> SUFFICES ASSUME NEW r \in Requests, NEW i \in DOMAIN answers'[r],
                    answers'[r][i] = "request cancelled"
             PROVE  r \in cancels' \/ stopping'
  BY DEF CancelledMeansAsked
<1>1. CASE r = q
  <2>1. answers[q] \in Seq(Verdicts) /\ answers'[r] = Append(answers[q], v)
    BY <1>1 DEF TypeOK
  <2>2. i \in DOMAIN Append(answers[q], v) /\ answers'[r][i] = Append(answers[q], v)[i]
    BY <2>1
  <2>3. \/ i \in DOMAIN answers[q] /\ answers'[r][i] = answers[q][i]
        \/ answers'[r][i] = v
    BY <2>2, AnswerAppended
  <2> QED BY <1>1, <2>3 DEF CancelledMeansAsked
<1>2. CASE r # q
  <2>1. answers'[r] = answers[r]
    BY <1>2 DEF TypeOK
  <2> QED BY <2>1 DEF CancelledMeansAsked
<1> QED BY <1>1, <1>2

(* CancelInv but for its first conjunct, which a cancellation can touch. *)
LEMMA CancelKept ==
  ASSUME CancelInv, cancels \subseteq cancels', stopping => stopping',
         cancellation' = cancellation \/ stopping',
         Woken, UNCHANGED <<item, result, answers>>,
         reply'.what # "request cancelled"
  PROVE  CancelInv'
BY DEF CancelInv, CancelledMeansAsked, Woken

LEMMA InvCancel ==
  ASSUME ProtocolTypeOK, SchedulerInv, InboxInv, AnswerInv, CancelOrderInv, CancelInv,
         [Next]_vars
  PROVE  CancelInv'
<1>0. /\ cancels \subseteq cancels' /\ (stopping => stopping')
      /\ TypeOK /\ SchedulerTypeOK
      /\ reply.what # "request cancelled" /\ NoResponse.what # "request cancelled"
  BY Grows DEF ProtocolTypeOK, SchedulerInv, CancelInv, NoResponse, Response
<1>1. CASE ClientStep \/ MainWritesHeader \/ CompletionWritesHeader \/ UNCHANGED vars
  <2>1. UNCHANGED <<schedulerVars, reply, answers>>
    BY <1>1, ClientEffect DEF MainWritesHeader, CompletionWritesHeader, WritesHeader, vars,
                              mainVars, streamVars
  <2> QED BY <1>0, <2>1, CancelKept DEF schedulerVars, Woken
<1>2. ASSUME NEW r \in Requests, Handles(r) PROVE CancelInv'
  <2>1. reply'.what # "request cancelled"
    <3>1. /\ Response(r, "result").what = "result"
          /\ Response(r, "failed to queue request").what = "failed to queue request"
      BY DEF Response
    <3>2. \/ reply' = reply \/ reply' = Response(r, "result")
          \/ reply' = Response(r, "failed to queue request")
      BY <1>2, HandleEffect
    <3> QED BY <1>0, <3>1, <3>2
  <2> QED BY <1>0, <1>2, <2>1, HandleEffect, CancelKept
<1>3. ASSUME NEW r \in Requests, HandleCancel(r) PROVE CancelInv'
  <2>1. CASE cancellation' = cancellation
    BY <1>0, <1>3, <2>1, HandleCancelEffect, CancelKept
  <2>2. CASE /\ requestStates[Key(r)] \in SleepRequests
             /\ cancellation' = [cancellation EXCEPT ![requestStates[Key(r)]] = TRUE]
    <3>1. requestStates[Key(r)] = r /\ r \in cancels
      BY <1>3, <2>2, CancelHitsItsRequest
    <3>2. \A q \in SleepRequests : cancellation'[q] => q \in cancels' \/ stopping'
      BY <1>0, <2>2, <3>1 DEF CancelInv, SchedulerTypeOK
    <3> QED
      BY <1>0, <1>3, <3>2, HandleCancelEffect DEF CancelInv, CancelledMeansAsked, Woken
  <2> QED BY <1>0, <1>3, <2>1, <2>2, HandleCancelEffect
<1>4. CASE HandleExit \/ HandleGarbled
  <2>1. UNCHANGED <<schedulerVars, answers>> /\ reply'.what # "request cancelled"
    <3>1. CASE HandleExit
      BY <1>0, <3>1 DEF HandleExit, Reads, streamVars
    <3>2. CASE HandleGarbled
      <4>1. reply' = Response(NoRequest, "Parse error") /\ UNCHANGED <<schedulerVars, answers>>
        BY <3>2 DEF HandleGarbled, Reads, RepliesWith, streamVars
      <4>2. Response(NoRequest, "Parse error").what = "Parse error"
        BY DEF Response
      <4> QED BY <4>1, <4>2
    <3> QED BY <1>4, <3>1, <3>2
  <2> QED BY <1>0, <2>1, CancelKept DEF schedulerVars, Woken
<1>5. CASE MainWritesPayload
  <2>1. /\ answers' = [answers EXCEPT ![reply.to] = Append(@, reply.what)]
        /\ reply' = NoResponse /\ UNCHANGED schedulerVars
    BY <1>5 DEF MainWritesPayload, WritesPayload
  <2>2. reply.to \in Requests \cup {NoRequest} /\ reply.what \in Verdicts
    BY <1>0 DEF TypeOK
  <2>3. CancelledMeansAsked'
    BY <1>0, <2>1, <2>2, CancelledAdded DEF CancelInv
  <2> QED BY <1>0, <2>1, <2>3 DEF CancelInv, schedulerVars
<1>6. CASE ClosingStep
  <2>1. /\ cancellation' = cancellation \/ stopping'
        /\ Woken /\ UNCHANGED <<item, result, answers, reply>>
    BY <1>0, <1>6, ClosingEffect DEF streamVars
  <2> QED BY <1>0, <2>1, CancelKept
<1>7. CASE WorkerGoesOn
  <2>1. /\ UNCHANGED <<cancellation, stopping, cancels, answers, reply>>
        /\ worker' \in {"finished", "erased"} /\ result' = "Cancelled" =>
               /\ item' = item /\ item \in SleepRequests
               /\ cancellation[item] \/ (worker = "finished" /\ result = "Cancelled")
    BY <1>0, <1>7, WorkerEffect DEF clientVars, mainVars, streamVars
  <2> QED BY <2>1 DEF CancelInv, CancelledMeansAsked
<1>8. CASE CompletionWritesPayload
  <2>1. /\ worker = "erased" /\ worker' = "atWait"
        /\ answers' = [answers EXCEPT ![item] = Append(@, Verdict)]
        /\ UNCHANGED <<cancellation, stopping, cancels, reply>>
    BY <1>8, CompleteEffect DEF CompletionWritesPayload, WritesPayload, Response, clientVars,
                                mainVars
  <2>2. /\ item \in Requests \cup {NoRequest} /\ Verdict \in Verdicts
        /\ Verdict = "request cancelled" => item \in cancels \/ stopping
    BY <1>0, <2>1, ResponseTypes, VerdictTypes DEF Requests, CancelInv
  <2>3. CancelledMeansAsked'
    BY <1>0, <2>1, <2>2, CancelledAdded DEF CancelInv
  <2> QED BY <2>1, <2>3 DEF CancelInv
<1> QED
  BY <1>1, <1>2, <1>3, <1>4, <1>5, <1>6, <1>7, <1>8
     DEF Next, MainStep, WorkerStep, Handles, ClosingStep

-----------------------------------------------------------------------------
(* The stream.                                                             *)

LEMMA InvWrite ==
  ASSUME ProtocolTypeOK, SchedulerInv, MainInv, WriteInv, [Next]_vars
  PROVE  WriteInv'
<1>0. SchedulerTypeOK /\ "main" # "worker"
  BY DEF SchedulerInv
<1>1. CASE MainWritesHeader
  BY <1>1, <1>0 DEF MainWritesHeader, WritesHeader, WriterMayGo, WriteInv
<1>2. CASE MainWritesPayload
  BY <1>2, <1>0 DEF MainWritesPayload, WritesPayload, WriteInv
<1>3. CASE CompletionWritesHeader
  BY <1>3, <1>0 DEF CompletionWritesHeader, WritesHeader, WriterMayGo, WriteInv, mainVars,
                    schedulerVars, Verdict
<1>4. CASE CompletionWritesPayload
  BY <1>4, <1>0 DEF CompletionWritesPayload, WritesPayload, WriteInv, mainVars
<1>5. CASE /\ UNCHANGED <<writing, unfinished>>
           /\ main' = "framing" <=> main = "framing"
           /\ main = "framing" => reply' = reply
           /\ ~CompletionWritesPayload
  <2>1. worker = "erased" => UNCHANGED <<worker, item, result>>
    BY <1>0, <1>5, ErasedStays
  <2>2. worker = "erased" => Response(item, Verdict)' = Response(item, Verdict)
    BY <2>1 DEF Response, Verdict
  <2>3. /\ "main" \in writing' => unfinished' = reply'
        /\ "worker" \in writing' => worker' = "erased" /\ unfinished' = Response(item, Verdict)'
    BY <1>5, <2>1, <2>2 DEF WriteInv
  <2> QED BY <1>5, <2>3 DEF WriteInv
<1>6. CASE ClientStep \/ UNCHANGED vars
  <2>1. UNCHANGED <<writing, unfinished, main, reply>> /\ ~CompletionWritesPayload
    <3>1. UNCHANGED <<schedulerVars, mainVars, recorded, streamVars>>
      BY <1>6, ClientEffect DEF vars
    <3>2. ~CompletionWritesPayload
      BY <3>1, CompleteEffect DEF CompletionWritesPayload, schedulerVars
    <3> QED BY <3>1, <3>2 DEF mainVars, streamVars
  <2> QED BY <1>5, <2>1
<1>7. ASSUME ~CompletionWritesPayload, ~(ClientStep \/ UNCHANGED vars),
             ~MainWritesHeader, ~MainWritesPayload, ~CompletionWritesHeader
      PROVE  /\ UNCHANGED <<writing, unfinished>>
             /\ main' = "framing" <=> main = "framing"
             /\ main = "framing" => reply' = reply
  <2>1. ASSUME NEW r \in Requests, Handles(r) \/ HandleCancel(r)
        PROVE  /\ UNCHANGED <<writing, unfinished>>
               /\ main = "reading" /\ main' \in {"reading", "replying"}
    BY <1>0, <2>1, HandleEffect, HandleCancelEffect DEF Reads
  <2>2. CASE HandleExit \/ HandleGarbled
    BY <2>2 DEF HandleExit, HandleGarbled, Reads, RepliesWith, streamVars
  <2>3. CASE ClosingStep
    BY <1>0, <2>3, ClosingEffect DEF MainInv, streamVars
  <2>4. CASE WorkerGoesOn
    BY <1>0, <2>4, WorkerEffect DEF mainVars, streamVars
  <2> QED
    BY <1>7, <2>1, <2>2, <2>3, <2>4 DEF Next, MainStep, WorkerStep, Handles, ClosingStep
<1> QED BY <1>1, <1>2, <1>3, <1>4, <1>5, <1>6, <1>7

-----------------------------------------------------------------------------
(* The inductive invariant.                                                *)

LEMMA InvInit ==
  ASSUME Init
  PROVE  IInv
<1>1. ProtocolTypeOK /\ SchedulerInv
  BY TypeInit, SchedulerInvInit DEF Init
<1>2. /\ closer = [c \in {"main"} |-> "idle"]
      /\ answer = [r \in SleepRequests |-> "none"]
      /\ cancellation = [r \in SleepRequests |-> FALSE]
      /\ worker = "atWait"
  BY DEF Init, Scheduler!Init
<1>3. /\ main = "reading" /\ inbox = <<>> /\ sent = {} /\ handled = {} /\ writing = {}
      /\ reply = NoResponse /\ unfinished = NoResponse
      /\ recorded = [r \in Requests |-> 0]
      /\ answers = [r \in Requests \cup {NoRequest} |-> <<>>]
  BY DEF Init
<1>4. MainInv
  BY <1>2, <1>3 DEF MainInv
<1>5. DOMAIN inbox = {}
  BY <1>3
<1>6. InboxInv
  BY <1>2, <1>3, <1>5 DEF InboxInv
<1>7. AnswerInv
  <2>1. \A r \in Requests : ~Accepted(r) /\ ~Replying(r) /\ Len(answers[r]) = 0 /\ recorded[r] = 0
    BY <1>2, <1>3 DEF Accepted, Replying
  <2> QED BY <1>3, <2>1 DEF AnswerInv
<1>8. OpenIdInv /\ CancelOrderInv
  BY <1>3, <1>5 DEF OpenIdInv, CancelOrderInv
<1>9. CancelInv
  <2>1. reply.what # "request cancelled"
    BY <1>3 DEF NoResponse, Response
  <2>2. \A r \in Requests : DOMAIN answers[r] = {}
    BY <1>3
  <2> QED BY <1>2, <2>1, <2>2 DEF CancelInv, CancelledMeansAsked
<1>10. WriteInv
  BY <1>3 DEF WriteInv
<1> QED BY <1>1, <1>4, <1>6, <1>7, <1>8, <1>9, <1>10 DEF IInv

LEMMA InvStep ==
  ASSUME IInv, [Next]_vars
  PROVE  IInv'
<1>1. ProtocolTypeOK /\ SchedulerInv /\ SchedulerTypeOK
  BY DEF IInv, SchedulerInv
<1>2. ProtocolTypeOK'
  BY <1>1, TypeStep DEF IInv
<1>3. SchedulerInv'
  BY <1>1, ProtocolSchedulerStep, SchedulerInvStep
<1>4. MainInv' /\ InboxInv' /\ AnswerInv'
  BY <1>1, InvMain, InvInbox, InvAnswer DEF IInv
<1>5. OpenIdInv' /\ CancelOrderInv' /\ CancelInv'
  BY <1>1, InvOpenId, InvCancelOrder, InvCancel DEF IInv
<1>6. WriteInv'
  BY <1>1, InvWrite DEF IInv
<1> QED BY <1>2, <1>3, <1>4, <1>5, <1>6 DEF IInv

LEMMA InvCorrect == Spec => []IInv
<1>1. Init => IInv
  BY InvInit
<1>2. IInv /\ [Next]_vars => IInv'
  BY InvStep
<1> QED BY <1>1, <1>2, PTL DEF Spec

-----------------------------------------------------------------------------
(* The theorems.                                                           *)

(* The variables of client, server, scheduler and stream keep their types. *)
THEOREM TypeCorrect == Spec => []TypeOK
<1>1. IInv => TypeOK
  BY DEF IInv, ProtocolTypeOK
<1> QED BY <1>1, InvCorrect, PTL

(* The scheduler is used as RequestScheduler says its callers use it: what *)
(* the main thread and the worker do to it are its own steps.              *)
SchedulerRuns == Scheduler!Init /\ [][Scheduler!Next]_(Scheduler!vars)

(* So what RequestSchedulerProofs shows of the scheduler holds inside the  *)
(* server (Server::handleRequest, handleCancelRequest and shutdown).       *)
THEOREM UsesTheScheduler == Spec => SchedulerRuns
<1>1. Init => Scheduler!Init
  BY DEF Init
<1>2. ASSUME [Next]_vars PROVE [Scheduler!Next]_(Scheduler!vars)
  <2>1. SchedulerStep
    BY <1>2, ProtocolSchedulerStep
  <2>2. CASE \E r \in SleepRequests : Scheduler!EnqueueAccepted(r) \/ Scheduler!EnqueueRejected(r)
    BY <2>2 DEF Scheduler!Next
  <2>3. CASE \E k \in Keys : Scheduler!Cancel(k)
    BY <2>3 DEF Scheduler!Next, Keys
  <2>4. CASE Scheduler!ShutdownMark("main")
    BY <2>4 DEF Scheduler!Next, Scheduler!CloserStep
  <2>5. CASE ServeStep
    BY <2>5 DEF ServeStep, Scheduler!Next, Scheduler!WorkerStep, Scheduler!Statuses
  <2>6. CASE Scheduler!WorkerPops \/ Scheduler!WorkerErases \/ Scheduler!WorkerCompletes
    BY <2>6 DEF Scheduler!Next, Scheduler!WorkerStep
  <2>7. CASE MoveStep
    BY <2>7 DEF MoveStep, Scheduler!Next, Scheduler!WorkerStep, Scheduler!CloserStep
  <2>8. CASE UNCHANGED schedulerVars
    BY <2>8 DEF schedulerVars, Scheduler!vars, Scheduler!sharedVars, Scheduler!workerVars,
                Scheduler!historyVars
  <2> QED BY <2>1, <2>2, <2>3, <2>4, <2>5, <2>6, <2>7, <2>8 DEF SchedulerStep
<1>3. [Next]_vars => [Scheduler!Next]_(Scheduler!vars)
  BY <1>2
<1> QED BY <1>1, <1>3, PTL DEF Spec, SchedulerRuns

(* Each request is answered at most once, by the main thread or by the     *)
(* completion, and only after it was read; when the process ends, all that *)
(* were read have been answered and counted (Server::recordRequestTelemetry).*)
THEOREM AnswersOnce == Spec => []AnsweredOnce
<1>1. ASSUME IInv PROVE AnsweredOnce
  <2>1. \A r \in Requests : /\ Len(answers[r]) = recorded[r]
                            /\ answers[r] \in Seq(Verdicts) /\ recorded[r] \in Nat
                            /\ Answered(r) <=> Len(answers[r]) # 0
    <3>1. ASSUME NEW r \in Requests
          PROVE  answers[r] \in Seq(Verdicts) /\ recorded[r] \in Nat
      BY <1>1 DEF IInv, ProtocolTypeOK, TypeOK
    <3>2. ASSUME NEW r \in Requests
          PROVE  Answered(r) <=> Len(answers[r]) # 0
      <4>1. \A s \in Seq(Verdicts) : s = <<>> <=> Len(s) = 0
        OBVIOUS
      <4> QED BY <3>1, <4>1 DEF Answered
    <3> QED BY <1>1, <3>1, <3>2 DEF IInv, AnswerInv
  <2>2. ASSUME NEW r \in Requests
        PROVE  /\ recorded[r] \in {0, 1}
               /\ recorded[r] = 1 => r \in handled
    BY <1>1 DEF IInv, AnswerInv, InboxInv, SchedulerInv, PlaceInv, Accepted
  <2>3. ASSUME NEW r \in Requests, main = "ended", r \in handled
        PROVE  recorded[r] = 1
    <3>1. worker = "exited" /\ queue = <<>>
      BY <1>1, <2>3 DEF IInv, MainInv, SchedulerInv, CloseInv
    <3>2. ~InQueue(r) /\ ~Held(r) /\ ~Replying(r)
      BY <2>3, <3>1 DEF InQueue, Held, InFlight, Replying
    <3> QED BY <1>1, <2>3, <3>2 DEF IInv, AnswerInv, SchedulerInv, PlaceInv, Accepted
  <2>4. ASSUME NEW r \in Requests
        PROVE  /\ Len(answers[r]) <= 1
               /\ Answered(r) => r \in handled
               /\ recorded[r] <= 1
               /\ main = "ended" => (Answered(r) <=> r \in handled)
    BY <2>1, <2>2, <2>3
  <2>5. ASSUME NEW r \in Requests, main = "ended"
        PROVE  Answered(r) = (r \in handled)
    BY <2>4, <2>5 DEF Answered
  <2> QED BY <2>1, <2>4, <2>5 DEF AnsweredOnce
<1>2. IInv => AnsweredOnce
  BY <1>1
<1> QED BY <1>2, InvCorrect, PTL

(* A response "request cancelled" goes to a request the client cancelled,  *)
(* or is of the shutdown: with ids used again, and with strings that read  *)
(* like numbers, a cancellation still finds the request it was sent for    *)
(* (Server::handleCancelRequest, requestKeyFromId).                        *)
THEOREM CancelsWhatWasAsked == Spec => []CancelledMeansAsked
<1>1. IInv => CancelledMeansAsked
  BY DEF IInv, CancelInv
<1> QED BY <1>1, InvCorrect, PTL

(* A header is followed by the payload of its own frame, whichever thread  *)
(* wrote it (JsonRpcIO's writeMutex_).                                     *)
THEOREM FramesHold == Spec => FramesAreWhole
<1>1. ASSUME IInv, [Next]_vars, writing' \ writing # {}
      PROVE  unfinished = NoResponse
  <2>0. SchedulerTypeOK
    BY <1>1 DEF IInv, SchedulerInv
  <2>1. CASE MainWritesHeader \/ CompletionWritesHeader
    BY <1>1, <2>1 DEF MainWritesHeader, CompletionWritesHeader, WritesHeader, WriterMayGo, IInv,
                      WriteInv
  <2>2. CASE ClientStep \/ UNCHANGED vars
    BY <1>1, <2>2, ClientEffect DEF vars, streamVars
  <2>3. ASSUME NEW r \in Requests, Handles(r) \/ HandleCancel(r) PROVE writing' = writing
    BY <2>0, <2>3, HandleEffect, HandleCancelEffect
  <2>4. CASE HandleExit \/ HandleGarbled
    BY <1>1, <2>4 DEF HandleExit, HandleGarbled, Reads, streamVars
  <2>5. CASE MainWritesPayload \/ CompletionWritesPayload
    BY <1>1, <2>5 DEF MainWritesPayload, CompletionWritesPayload, WritesPayload
  <2>6. CASE ClosingStep
    BY <1>1, <2>0, <2>6, ClosingEffect DEF streamVars
  <2>7. CASE WorkerGoesOn
    BY <1>1, <2>0, <2>7, WorkerEffect DEF streamVars
  <2> QED
    BY <1>1, <2>1, <2>2, <2>3, <2>4, <2>5, <2>6, <2>7
       DEF Next, MainStep, WorkerStep, Handles, ClosingStep
<1>2. ASSUME IInv, NEW thread \in writing
      PROVE  unfinished = InHand(thread)
  BY <1>2 DEF IInv, WriteInv, InHand
<1>3. IInv /\ [Next]_vars =>
        [/\ writing' \ writing # {} => unfinished = NoResponse
         /\ \A thread \in writing \ writing' : unfinished = InHand(thread)]_vars
  BY <1>1, <1>2
<1> QED BY <1>3, InvCorrect, PTL DEF Spec, FramesAreWhole

(* As the key is erased before the response is sent, a client that waited  *)
(* for the response of one request is never told that its id is taken, and *)
(* none is refused by a scheduler that still has room.                     *)
THEOREM RefusesOnlyWhenFull == Spec => RefusedOnlyWhenFull
<1>1. ASSUME IInv, NEW r \in SleepRequests, HandleSleepRefused(r)
      PROVE  Len(queue) + (IF Scheduler!InFlight THEN 1 ELSE 0) >= MaxPendingRequests
  <2>1. /\ r \in Requests /\ main = "reading"
        /\ 1 \in DOMAIN inbox /\ inbox[1].kind = "request" /\ inbox[1].request = r
    <3>1. Reads("request", r) /\ TypeOK
      BY <1>1 DEF HandleSleepRefused, IInv, ProtocolTypeOK
    <3>2. main = "reading" /\ 1 \in DOMAIN inbox /\ inbox[1] = Message("request", r)
      BY <3>1, InboxRead
    <3> QED BY <3>2 DEF Message, Requests
  <2>2. ~stopping
    BY <1>1, <2>1 DEF IInv, MainInv, SchedulerInv, CloseInv
  <2>3. r \in sent /\ r \notin handled /\ ~Answered(r)
    <3>1. r \in sent /\ r \notin handled
      BY <1>1, <2>1 DEF IInv, InboxInv
    <3>2. Len(answers[r]) = 0 /\ answers[r] \in Seq(Verdicts)
      BY <1>1, <2>1, <3>1
         DEF IInv, InboxInv, AnswerInv, Accepted, ProtocolTypeOK, TypeOK
    <3> QED BY <3>1, <3>2 DEF Answered
  <2>4. requestStates[Key(r)] = NoRequest
    <3> SUFFICES ASSUME requestStates[Key(r)] # NoRequest PROVE FALSE
      OBVIOUS
    <3> DEFINE o == requestStates[Key(r)]
    <3>1. o \in SleepRequests /\ o \in Requests /\ Key(o) = Key(r) /\ IdOf[o] = IdOf[r]
      <4>1. Key(r) \in Keys /\ o \in SleepRequests
        BY <1>1, <2>1, KeyIsId DEF IInv, SchedulerInv, SchedulerTypeOK
      <4>2. Key(o) = Key(r)
        BY <1>1, <4>1 DEF IInv, SchedulerInv, MapInv
      <4> QED BY <2>1, <4>1, <4>2, KeyIsId DEF Requests
    <3>2. InQueue(o) \/ Held(o)
      <4>1. requestStates[Key(o)] = o
        BY <3>1
      <4> QED BY <1>1, <3>1, <4>1 DEF IInv, SchedulerInv, MapInv, Held
    <3>3. Accepted(o) /\ calls[o] = 0
      BY <1>1, <3>1, <3>2 DEF IInv, SchedulerInv, PlaceInv, Accepted
    <3>4. o \in handled /\ o \in sent
      <4>1. answer[o] # "none"
        BY <3>3 DEF Accepted
      <4> QED BY <1>1, <3>1, <4>1 DEF IInv, InboxInv, ProtocolTypeOK, TypeOK
    <3>5. ~Answered(o)
      <4>1. Len(answers[o]) = 0 /\ answers[o] \in Seq(Verdicts)
        BY <1>1, <3>1, <3>3 DEF IInv, AnswerInv, ProtocolTypeOK, TypeOK
      <4> QED BY <4>1 DEF Answered
    <3> QED BY <1>1, <2>3, <3>1, <3>4, <3>5 DEF IInv, OpenIdInv
  <2>5. ~(Cardinality(TrackedKeys) < MaxPendingRequests)
    BY <1>1, <2>2, <2>4, RefuseEffect DEF HandleSleepRefused, TrackedKeys
  <2>6. /\ Cardinality(TrackedKeys) = Len(queue) + (IF InFlight THEN 1 ELSE 0)
        /\ Len(queue) \in Nat /\ MaxPendingRequests \in Nat
    BY <1>1, ProtocolConstants DEF IInv, SchedulerInv, CountInv, SchedulerTypeOK
  <2>7. InFlight <=> Scheduler!InFlight
    BY DEF InFlight, Scheduler!InFlight
  <2> QED BY <2>5, <2>6, <2>7
<1>2. ASSUME IInv, [Next]_vars, NEW r \in SleepRequests, answer[r] = "none", answer'[r] = "rejected"
      PROVE  HandleSleepRefused(r)
  <2>0. SchedulerTypeOK /\ SleepRequests \cap SyncRequests = {}
    BY <1>2, ProtocolConstants DEF IInv, SchedulerInv
  <2>1. answer' # answer
    BY <1>2
  <2>2. ASSUME NEW q \in Requests, HandleSleepRefused(q) PROVE q = r
    BY <1>2, <2>0, <2>2, RefuseEffect DEF HandleSleepRefused, SchedulerTypeOK
  <2>3. ASSUME NEW q \in Requests, HandleSleepQueued(q) PROVE FALSE
    BY <1>2, <2>0, <2>3, EnqueueEffect DEF HandleSleepQueued, SchedulerTypeOK
  <2>4. ASSUME NEW q \in Requests, HandleSync(q) \/ HandleCancel(q) PROVE FALSE
    BY <2>0, <2>1, <2>4, HandleCancelEffect DEF HandleSync, schedulerVars
  <2>5. CASE ClientStep \/ UNCHANGED vars
    BY <2>1, <2>5, ClientEffect DEF vars, schedulerVars
  <2>6. CASE HandleExit \/ HandleGarbled \/ MainWritesHeader \/ MainWritesPayload
    BY <2>1, <2>6 DEF HandleExit, HandleGarbled, MainWritesHeader, MainWritesPayload, schedulerVars
  <2>7. CASE ClosingStep
    BY <2>0, <2>1, <2>7, ClosingEffect
  <2>8. CASE WorkerStep
    BY <2>0, <2>1, <2>8, WorkerEffect, CompleteEffect
       DEF WorkerStep, CompletionWritesHeader, CompletionWritesPayload, schedulerVars
  <2> QED
    BY <1>2, <2>2, <2>3, <2>4, <2>5, <2>6, <2>7, <2>8 DEF Next, MainStep, ClosingStep
<1>3. IInv /\ [Next]_vars =>
        [\A r \in SleepRequests :
           answer[r] = "none" /\ answer'[r] = "rejected" =>
             Len(queue) + (IF Scheduler!InFlight THEN 1 ELSE 0) >= MaxPendingRequests]_vars
  BY <1>1, <1>2
<1> QED BY <1>3, InvCorrect, PTL DEF Spec, RefusedOnlyWhenFull

=============================================================================
