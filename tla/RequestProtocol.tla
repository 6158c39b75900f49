---------------------------- MODULE RequestProtocol ----------------------------
(***************************************************************************)
(* Requests and responses: the main loop of dsdld (tools/dsdld/main.cpp),  *)
(* the dispatch of Server::handleMessage, and the transport of JsonRpcIO,  *)
(* composed with the scheduler.                                            *)
(*                                                                         *)
(* The main thread reads a message and handles it to the end.  A request   *)
(* for dsdld/debug/sleep is handed to the scheduler, whose worker sends    *)
(* its response; any other is answered at once.  Both threads write to one *)
(* stream, a frame being a header and a payload.                           *)
(*                                                                         *)
(* The client sends each request once, with an id that no unanswered       *)
(* request has, and cancels only what has not been answered.  Its messages *)
(* arrive in the order in which it sent them.                              *)
(***************************************************************************)
EXTENDS Naturals, Sequences, FiniteSets

CONSTANTS
    SleepRequests,       \* requests the scheduler serves (dsdld/debug/sleep)
    SyncRequests,        \* requests the main thread answers
    IdOf,                \* the JSON-RPC id of each request
    MaxPendingRequests,  \* of the scheduler
    MaxMessages,         \* bound: messages sent, an exit not counted
    MaxUnread,           \* bound: messages sent and not yet read
    NoRequest

Requests == SleepRequests \cup SyncRequests
Ids      == {IdOf[r] : r \in Requests}

ASSUME ProtocolConstants ==
    /\ SleepRequests \cap SyncRequests = {} /\ NoRequest \notin Requests
    /\ DOMAIN IdOf = Requests
    /\ \A i \in Ids : i.type \in {"string", "integer", "other"}
    /\ \A i, j \in Ids : i.type = j.type /\ i.text = j.text => i = j
    /\ MaxPendingRequests \in Nat /\ MaxMessages \in Nat /\ MaxUnread \in Nat

(* Server::requestKeyFromId: a string and a number never have one key.     *)
UntaggedKey(id)      == id.text
requestKeyFromId(id) == <<id.type, id.text>>

VARIABLES
    \* The scheduler's.
    queue, requestStates, cancellation, stopping, worker, item, result, closer,
    answer, started, calls, outcome, cancelledEarly,
    \* The client.
    inbox,              \* messages sent and not yet read
    sent,               \* requests sent
    cancels,            \* requests for which a cancellation was sent
    garbled,            \* messages sent that are not JSON
    inputClosed,        \* nothing follows what is in inbox
    \* The server.
    main,               \* where the main thread is
    reply,              \* the response it is about to write
    handled,            \* requests it has read
    shouldExit,         \* shouldExit_
    recorded,           \* telemetry_ (a count for each request)
    \* The output stream.
    writing,            \* threads between a header and its payload
    unfinished,         \* the response whose header was written last, if its
                        \* payload was not
    answers             \* the responses written to each request

schedulerVars == <<queue, requestStates, cancellation, stopping, worker, item,
                   result, closer, answer, started, calls, outcome, cancelledEarly>>
clientVars    == <<inbox, sent, cancels, garbled, inputClosed>>
mainVars      == <<main, reply, handled, shouldExit>>
streamVars    == <<writing, unfinished, answers>>
vars          == <<schedulerVars, clientVars, mainVars, recorded, streamVars>>

Scheduler == INSTANCE RequestScheduler WITH
    Requests <- SleepRequests,
    Keys     <- {requestKeyFromId(i) : i \in Ids},
    KeyOf    <- [r \in SleepRequests |-> requestKeyFromId(IdOf[r])],
    Closers  <- {"main"}

Message(kind, r)  == [kind |-> kind, request |-> r]
Response(r, what) == [to |-> r, what |-> what]
NoResponse        == Response(NoRequest, "none")
Verdicts          == {"result", "request cancelled", "request failed",
                      "failed to queue request", "Parse error", "none"}

Answered(r) == answers[r] # <<>>

TypeOK ==
    /\ Scheduler!TypeOK
    /\ inbox \in Seq([kind : {"request", "cancel", "exit", "garbled"},
                      request : Requests \cup {NoRequest}])
    /\ sent \subseteq Requests
    /\ cancels \subseteq sent
    /\ garbled \in 0 .. MaxMessages
    /\ inputClosed \in BOOLEAN
    /\ main \in {"reading", "replying", "framing", "closing", "ended"}
    /\ reply \in [to : Requests \cup {NoRequest}, what : Verdicts]
    /\ handled \subseteq sent
    /\ shouldExit \in BOOLEAN
    /\ recorded \in [Requests -> Nat]
    /\ writing \subseteq {"main", "worker"}
    /\ unfinished \in [to : Requests \cup {NoRequest}, what : Verdicts]
    /\ answers \in [Requests \cup {NoRequest} -> Seq(Verdicts)]

Init ==
    /\ Scheduler!Init
    /\ inbox = <<>>
    /\ sent = {}
    /\ cancels = {}
    /\ garbled = 0
    /\ inputClosed = FALSE
    /\ main = "reading"
    /\ reply = NoResponse
    /\ handled = {}
    /\ shouldExit = FALSE
    /\ recorded = [r \in Requests |-> 0]
    /\ writing = {}
    /\ unfinished = NoResponse
    /\ answers = [r \in Requests \cup {NoRequest} |-> <<>>]

-----------------------------------------------------------------------------
(* The client.                                                             *)

MayWrite == Cardinality(sent) + Cardinality(cancels) + garbled < MaxMessages

Sends(m) ==
    /\ ~inputClosed
    /\ Len(inbox) < MaxUnread
    /\ inbox' = Append(inbox, m)
    /\ UNCHANGED <<schedulerVars, mainVars, recorded, streamVars>>

SendRequest(r) ==
    /\ MayWrite /\ r \notin sent
    /\ \A q \in sent : IdOf[q] = IdOf[r] => Answered(q)
    /\ Sends(Message("request", r))
    /\ sent' = sent \cup {r}
    /\ UNCHANGED <<cancels, garbled, inputClosed>>

SendCancel(r) ==
    /\ MayWrite /\ r \in sent \ cancels
    /\ ~Answered(r)
    /\ Sends(Message("cancel", r))
    /\ cancels' = cancels \cup {r}
    /\ UNCHANGED <<sent, garbled, inputClosed>>

SendGarbled ==
    /\ MayWrite
    /\ Sends(Message("garbled", NoRequest))
    /\ garbled' = garbled + 1
    /\ UNCHANGED <<sent, cancels, inputClosed>>

(* Nothing follows an exit.                                                *)
SendExit ==
    /\ Sends(Message("exit", NoRequest))
    /\ inputClosed' = TRUE
    /\ UNCHANGED <<sent, cancels, garbled>>

(* The stream ends between two frames or in the middle of one, or goes on  *)
(* with something that is not a frame: readMessage finds no message then.  *)
EndInput ==
    /\ ~inputClosed
    /\ inputClosed' = TRUE
    /\ UNCHANGED <<schedulerVars, inbox, sent, cancels, garbled, mainVars,
                   recorded, streamVars>>

-----------------------------------------------------------------------------
(* The main thread.                                                        *)

(* It reads the next message.                                              *)
Reads(kind, r) ==
    /\ main = "reading"
    /\ ~shouldExit
    /\ inbox # <<>>
    /\ Head(inbox) = Message(kind, r)
    /\ inbox' = Tail(inbox)
    /\ UNCHANGED <<sent, cancels, garbled, inputClosed, streamVars>>

RepliesWith(response) ==
    /\ main' = "replying"
    /\ reply' = response

(* A request the main thread answers itself.                               *)
HandleSync(r) ==
    /\ Reads("request", r)
    /\ r \in SyncRequests
    /\ handled' = handled \cup {r}
    /\ RepliesWith(Response(r, "result"))
    /\ UNCHANGED <<schedulerVars, shouldExit, recorded>>

(* dsdld/debug/sleep, which enqueue takes ...                              *)
HandleSleepQueued(r) ==
    /\ Reads("request", r)
    /\ r \in SleepRequests
    /\ Scheduler!EnqueueAccepted(r)
    /\ handled' = handled \cup {r}
    /\ UNCHANGED <<main, reply, shouldExit, recorded>>

(* ... or refuses.                                                         *)
HandleSleepRefused(r) ==
    /\ Reads("request", r)
    /\ r \in SleepRequests
    /\ Scheduler!EnqueueRejected(r)
    /\ handled' = handled \cup {r}
    /\ RepliesWith(Response(r, "failed to queue request"))
    /\ UNCHANGED <<shouldExit, recorded>>

(* $/cancelRequest for what is queued or in flight, and for what is not.   *)
HandleCancel(r) ==
    /\ Reads("cancel", r)
    /\ \/ Scheduler!Cancel(requestKeyFromId(IdOf[r]))
       \/ /\ requestKeyFromId(IdOf[r]) \notin Scheduler!TrackedKeys
          /\ UNCHANGED schedulerVars
    /\ UNCHANGED <<mainVars, recorded>>

HandleExit ==
    /\ Reads("exit", NoRequest)
    /\ shouldExit' = TRUE
    /\ UNCHANGED <<schedulerVars, main, reply, handled, recorded>>

(* A whole frame that is not JSON is answered, without an id.              *)
HandleGarbled ==
    /\ Reads("garbled", NoRequest)
    /\ RepliesWith(Response(NoRequest, "Parse error"))
    /\ UNCHANGED <<schedulerVars, handled, shouldExit, recorded>>

(* The loop ends after exit, at the end of the input, and when it is       *)
(* broken; server.shutdown() follows.                                      *)
InputIsOver == inbox = <<>> /\ inputClosed

LeaveLoop ==
    /\ main = "reading"
    /\ shouldExit \/ InputIsOver
    /\ Scheduler!ShutdownMark("main")
    /\ main' = "closing"
    /\ UNCHANGED <<clientVars, reply, handled, shouldExit, recorded, streamVars>>

CloseNotifies ==
    /\ Scheduler!ShutdownNotify("main")
    /\ UNCHANGED <<clientVars, mainVars, recorded, streamVars>>

(* Only when the worker has been joined does the process end.              *)
Closes ==
    /\ Scheduler!ShutdownJoin("main")
    /\ main' = "ended"
    /\ UNCHANGED <<clientVars, reply, handled, shouldExit, recorded, streamVars>>

-----------------------------------------------------------------------------
(* Writing: a frame is written under writeMutex_.                          *)

Unlocked    == TRUE
WriterMayGo == writing = {}

WritesHeader(thread, response) ==
    /\ WriterMayGo
    /\ writing' = writing \cup {thread}
    /\ unfinished' = response
    /\ UNCHANGED answers

WritesPayload(thread, response) ==
    /\ thread \in writing
    /\ writing' = writing \ {thread}
    /\ unfinished' = NoResponse
    /\ answers' = [answers EXCEPT ![response.to] = Append(@, response.what)]

(* recordRequestTelemetry, after the response.                             *)
Records(rs) == recorded' = [r \in Requests |-> recorded[r] + IF r \in rs THEN 1 ELSE 0]

MainWritesHeader ==
    /\ main = "replying"
    /\ WritesHeader("main", reply)
    /\ main' = "framing"
    /\ UNCHANGED <<schedulerVars, clientVars, reply, handled, shouldExit, recorded>>

(* handleMessage records what handleRequest did not leave to the scheduler.*)
RecordedByMain == {reply.to} \ {NoRequest}

MainWritesPayload ==
    /\ main = "framing"
    /\ WritesPayload("main", reply)
    /\ Records(RecordedByMain)
    /\ main' = "reading"
    /\ reply' = NoResponse
    /\ UNCHANGED <<schedulerVars, clientVars, handled, shouldExit>>

(* The completion of a sleep request, called by the scheduler's worker.    *)
Verdict == CASE result = "Completed" -> "result"
             [] result = "Cancelled" -> "request cancelled"
             [] result = "Failed"    -> "request failed"

CompletionWritesHeader ==
    /\ worker = "erased"
    /\ "worker" \notin writing
    /\ WritesHeader("worker", Response(item, Verdict))
    /\ UNCHANGED <<schedulerVars, clientVars, mainVars, recorded>>

CompletionWritesPayload ==
    /\ WritesPayload("worker", Response(item, Verdict))
    /\ Scheduler!WorkerCompletes
    /\ Records({item})
    /\ UNCHANGED <<clientVars, mainVars>>

(* The steps of the worker that write nothing.                             *)
WorkerGoesOn ==
    /\ \/ Scheduler!WorkerBlocks \/ Scheduler!WorkerPops \/ Scheduler!WorkerExits
       \/ Scheduler!WorkerSkips \/ Scheduler!WorkerStarts
       \/ (\E s \in {"Completed", "Cancelled"} : Scheduler!TaskReturns(s))
       \/ Scheduler!WorkerErases
    /\ UNCHANGED <<clientVars, mainVars, recorded, streamVars>>

-----------------------------------------------------------------------------
ClientStep ==
    \/ (\E r \in Requests : SendRequest(r) \/ SendCancel(r))
    \/ SendGarbled \/ SendExit \/ EndInput

MainStep ==
    \/ (\E r \in Requests : HandleSync(r) \/ HandleSleepQueued(r)
                              \/ HandleSleepRefused(r) \/ HandleCancel(r))
    \/ HandleExit \/ HandleGarbled
    \/ MainWritesHeader \/ MainWritesPayload
    \/ LeaveLoop \/ CloseNotifies \/ Closes

WorkerStep == WorkerGoesOn \/ CompletionWritesHeader \/ CompletionWritesPayload

Next == ClientStep \/ MainStep \/ WorkerStep

(* Both threads run while they can; the client is free to stop.            *)
Fairness == WF_vars(MainStep) /\ WF_vars(WorkerStep)

Spec == Init /\ [][Next]_vars /\ Fairness

-----------------------------------------------------------------------------
(* Safety.                                                                 *)

(* Two threads write responses, but no header comes between another and    *)
(* its payload: the client can find the frames.                            *)
InHand(thread) == IF thread = "main" THEN reply ELSE Response(item, Verdict)

FramesAreWhole ==
    [][/\ writing' \ writing # {} => unfinished = NoResponse
       /\ \A thread \in writing \ writing' : unfinished = InHand(thread)]_vars

(* No request is answered twice, by whichever thread, and none that the    *)
(* server has not read.  By the end all it has read are answered, and each *)
(* is counted once: "Every request -- synchronous and scheduler-completed  *)
(* alike -- funnels through here" (recordRequestTelemetry).                *)
AnsweredOnce ==
    \A r \in Requests :
        /\ Len(answers[r]) <= 1
        /\ Answered(r) => r \in handled
        /\ recorded[r] <= 1
        /\ main = "ended" => Answered(r) = (r \in handled) /\ recorded[r] = Len(answers[r])

(* "request cancelled" is said only of a request the client cancelled, or  *)
(* once the server is shutting down: a cancellation that comes too late    *)
(* never meets a later request, though ids are reused and a string and a   *)
(* number may look alike.                                                  *)
CancelledMeansAsked ==
    \A r \in Requests : \A i \in DOMAIN answers[r] :
        answers[r][i] = "request cancelled" => r \in cancels \/ stopping

(* A client that has its response may use the id again: as the scheduler   *)
(* forgets a key before the response is sent, only a full scheduler        *)
(* refuses a request.                                                      *)
RefusedOnlyWhenFull ==
    [][\A r \in SleepRequests :
         answer[r] = "none" /\ answer'[r] = "rejected" =>
            Len(queue) + (IF Scheduler!InFlight THEN 1 ELSE 0) >= MaxPendingRequests]_vars

-----------------------------------------------------------------------------
(* Liveness.                                                               *)

(* The server catches up with its client: as the requests are bounded,     *)
(* every one that is read is answered, whether or not the input ends.      *)
AllAnswered       == \A r \in handled : Answered(r)
HandledIsAnswered == []<>AllAnswered

(* The process ends once its input does: the main thread, which joins the  *)
(* worker, and the worker, which needs the stream, do not wait for each    *)
(* other.                                                                  *)
ServerEnds == inputClosed ~> (main = "ended")

=============================================================================
