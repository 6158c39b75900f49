--------------------------- MODULE SchedulerPromise ---------------------------
(***************************************************************************)
(* What RequestScheduler promises its callers, without worker, locks,      *)
(* condition variable or cancellation flags: a line of accepted requests   *)
(* with distinct keys, served first come first served, each delivered one  *)
(* outcome (include/llvmdsdl/LSP/RequestScheduler.h).                      *)
(***************************************************************************)
EXTENDS Naturals, Sequences, FiniteSets

CONSTANTS Requests, KeyOf, MaxPendingRequests, NoRequest

VARIABLES
    line,       \* the accepted requests that can still be cancelled, in order
    serving,    \* whether the task of the first of the line has been called
    cancelled,  \* requests for which cancellation has been requested
    closed,     \* no further request is accepted
    settled,    \* the request that has left the line and awaits delivery
    verdict,    \* its outcome ("Failed" while there is none)
    delivered   \* the outcomes delivered

promiseVars == <<line, serving, cancelled, closed, settled, verdict, delivered>>

InLine == {line[i] : i \in DOMAIN line}

Init ==
    /\ line = <<>>
    /\ serving = FALSE
    /\ cancelled = {}
    /\ closed = FALSE
    /\ settled = NoRequest
    /\ verdict = "Failed"
    /\ delivered = [r \in Requests |-> "none"]

Accept(r) ==
    /\ ~closed
    /\ delivered[r] = "none"
    /\ r # settled
    /\ Len(line) < MaxPendingRequests
    /\ \A q \in InLine : KeyOf[q] # KeyOf[r]
    /\ line' = Append(line, r)
    /\ UNCHANGED <<serving, cancelled, closed, settled, verdict, delivered>>

RequestCancel(r) ==
    /\ r \in InLine
    /\ cancelled' = cancelled \cup {r}
    /\ UNCHANGED <<line, serving, closed, settled, verdict, delivered>>

Close ==
    /\ ~closed
    /\ closed' = TRUE
    /\ cancelled' = cancelled \cup InLine
    /\ UNCHANGED <<line, serving, settled, verdict, delivered>>

(* Only a request that nobody has cancelled is served.                     *)
Serve ==
    /\ line # <<>>
    /\ ~serving
    /\ settled = NoRequest
    /\ Head(line) \notin cancelled
    /\ serving' = TRUE
    /\ UNCHANGED <<line, cancelled, closed, settled, verdict, delivered>>

(* "Cancelled" needs a cancellation; anything else needs the task.         *)
Settle(s) ==
    /\ line # <<>>
    /\ settled = NoRequest
    /\ IF s = "Cancelled" THEN Head(line) \in cancelled ELSE serving
    /\ settled' = Head(line)
    /\ verdict' = s
    /\ line' = Tail(line)
    /\ serving' = FALSE
    /\ UNCHANGED <<cancelled, closed, delivered>>

Deliver ==
    /\ settled # NoRequest
    /\ delivered' = [delivered EXCEPT ![settled] = verdict]
    /\ settled' = NoRequest
    /\ verdict' = "Failed"
    /\ UNCHANGED <<line, serving, cancelled, closed>>

SettleAny == \E s \in {"Completed", "Cancelled", "Failed"} : Settle(s)

Next ==
    \/ \E r \in Requests : Accept(r) \/ RequestCancel(r)
    \/ Close
    \/ Serve
    \/ SettleAny
    \/ Deliver

(* The line keeps moving.                                                  *)
Fairness == WF_promiseVars(Serve \/ SettleAny \/ Deliver)

Safety == Init /\ [][Next]_promiseVars

Spec == Safety /\ Fairness
=============================================================================
