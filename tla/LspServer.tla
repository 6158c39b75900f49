------------------------------- MODULE LspServer -------------------------------
(***************************************************************************)
(* The main thread of dsdld (lib/LSP/Server.cpp): it handles the messages  *)
(* of the editor one at a time.  This module has the messages that change  *)
(* documents or configuration, ask for analysis or for workspace symbols,  *)
(* and what the server owes the editor for them: an analysis of what is    *)
(* open, its diagnostics, and an index job for each analysis.              *)
(*                                                                         *)
(* The editor sends didOpen and didClose as the protocol asks, and opens   *)
(* a file under one URI at a time.  Files change on disk when they like.   *)
(* The index manager is seen from here as one job, which completes some    *)
(* time or is cancelled; IndexManager has its detail.                      *)
(***************************************************************************)
EXTENDS AnalysisPipeline

CONSTANTS
    IndexDirOf,    \* resolveIndexCacheDirectory for each configuration of roots
    MaxSnapshots,  \* bound: runs of the pipeline
    MaxToolRuns    \* bound: those an AI tool makes

ASSUME ServerConstants ==
    /\ DOMAIN IndexDirOf = RootSets
    /\ MaxSnapshots \in Nat /\ MaxToolRuns \in Nat

VARIABLES
    analysisDirty,  \* analysisDirty_
    latest,         \* latestAnalysisResult_, of version 0 while it has no value
    published,      \* publishedDiagnosticUris_
    shown,          \* the editor: the diagnostics last published for each URI
    indexDir,       \* indexCacheDirectory_, empty while there is no manager
    lastScheduled,  \* lastScheduledIndexSnapshotVersion_
    lastTimedOut,   \* lastTimedOutIndexWaitSnapshotVersion_
    job,            \* the manager: the job scheduled last
    completed,      \* the manager: lastCompletedSnapshotVersion
    waiting,        \* the main thread is in waitForSnapshot
    timeouts,       \* history: waits in vain for the latest snapshot
    toolRuns        \* history: runs an AI tool made

publishVars == <<published, shown>>
indexVars   == <<indexDir, lastScheduled, lastTimedOut, job, completed, timeouts>>
callVars    == <<waiting, toolRuns>>
vars == <<inputVars, pipelineVars, analysisDirty, latest, publishVars, indexVars, callVars>>

NoVersion == 0
Versions  == 0 .. MaxSnapshots
NoDir     == {}
NoJob     == [version |-> NoVersion, shards |-> {}, live |-> FALSE]

ProblemSet == SUBSET ({"parse", "unresolved"} \X Texts)

TypeOK ==
    /\ AnalysisTypeOK
    /\ analysisDirty \in BOOLEAN
    /\ latest \in [version : Versions, diagnostics : [Uris -> ProblemSet]]
    /\ published \subseteq Uris
    /\ shown \in [Uris -> ProblemSet]
    /\ indexDir \in {IndexDirOf[r] : r \in RootSets} \cup {NoDir}
    /\ lastScheduled \in Versions
    /\ lastTimedOut \in Versions
    /\ job \in [version : Versions, shards : SUBSET (Paths \X Definitions), live : BOOLEAN]
    /\ completed \in Versions
    /\ waiting \in BOOLEAN
    /\ timeouts \in Nat
    /\ toolRuns \in Nat

Init ==
    /\ disk \in {f \in [Paths -> Texts \cup {NoText}] :
                   \A p \in Paths : f[p] \in TextsOf[p] \cup {NoText}}
    /\ documents = [u \in Uris |-> NoText]
    /\ roots \in RootSets
    /\ AnalysisInit
    /\ analysisDirty = TRUE
    /\ latest = [version |-> NoVersion, diagnostics |-> [u \in Uris |-> {}]]
    /\ published = {}
    /\ shown = [u \in Uris |-> {}]
    /\ indexDir = NoDir
    /\ lastScheduled = NoVersion
    /\ lastTimedOut = NoVersion
    /\ job = NoJob
    /\ completed = NoVersion
    /\ waiting = FALSE
    /\ timeouts = 0
    /\ toolRuns = 0

-----------------------------------------------------------------------------
(* What the handlers call.                                                 *)

(* ensureAnalysisSnapshot, called with analysisDirty_ = dirty.             *)
EnsureSnapshot(dirty) ==
    /\ IF dirty \/ latest.version = NoVersion
       THEN /\ snapshotVersion < MaxSnapshots
            /\ RunPipeline
            /\ latest' = [version |-> snapshotVersion', diagnostics |-> DiagnosticsByUri']
       ELSE UNCHANGED <<pipelineVars, latest>>
    /\ analysisDirty' = FALSE

(* ensureIndexManager replaces the manager when its directory changes.     *)
ManagerReplaced == indexDir # IndexDirOf[roots']
Kept(value, fresh) == IF ManagerReplaced THEN fresh ELSE value

(* scheduleWorkspaceIndex up to the wait.                                  *)
ScheduledBefore  == Kept(lastScheduled, NoVersion) # NoVersion
AlreadyScheduled == Kept(lastScheduled, NoVersion) = latest'.version

ScheduleIndex ==
    /\ indexDir' = IndexDirOf[roots']
    /\ lastScheduled' = latest'.version
    /\ job' = IF AlreadyScheduled THEN job
              ELSE [version |-> latest'.version, shards |-> IndexShards', live |-> TRUE]

(* What a new manager or a new snapshot resets.                            *)
CountsKept ==
    /\ completed' = Kept(completed, NoVersion)
    /\ timeouts' = IF ManagerReplaced \/ latest'.version # latest.version THEN 0 ELSE timeouts

(* scheduleWorkspaceIndex then waits for the job, unless it has completed  *)
(* or has been waited for in vain.                                         *)
WaitsAlways      == Kept(completed, NoVersion) < latest'.version
MustWaitForIndex ==
    /\ Kept(completed, NoVersion) < latest'.version
    /\ Kept(lastTimedOut, NoVersion) # latest'.version

(* A time-out is forgotten once its snapshot has been indexed after all.   *)
TimedOutForgotten ==
    IF completed' >= latest'.version /\ lastTimedOut = latest'.version
    THEN NoVersion ELSE Kept(lastTimedOut, NoVersion)

(* publishDiagnosticsFromAnalysis, after ensureAnalysisSnapshot.           *)
CurrentUris == {u \in Uris : latest.diagnostics[u] # {}} \cup OpenUris

PreviousLeft == {}
Previous     == published

PublishAll ==
    /\ shown' = [u \in Uris |->
                    IF u \in CurrentUris' THEN latest'.diagnostics[u]
                    ELSE IF u \in Previous THEN {} ELSE shown[u]]
    /\ published' = CurrentUris'

(* invalidateAnalysisSnapshot and publishDiagnosticsFromAnalysis.          *)
AnalyseAndPublish ==
    /\ EnsureSnapshot(TRUE)
    /\ ScheduleIndex
    /\ CountsKept
    /\ lastTimedOut' = Kept(lastTimedOut, NoVersion)
    /\ PublishAll
    /\ UNCHANGED callVars

-----------------------------------------------------------------------------
(* The messages.                                                           *)

CanReuseAnyText(u, t) ==
    ~analysisDirty /\ latest.version # NoVersion /\ cached[UriPath[u]] # NoDef
CanReuseDidOpenAnalysis(u, t) ==
    ~analysisDirty /\ latest.version # NoVersion /\ DocumentTextMatches(u, t)

(* A document whose text has been analysed already gets its diagnostics    *)
(* from that analysis.                                                     *)
DidOpenReusing(u, t) ==
    /\ ~waiting
    /\ UriPath[u] \notin Overlays
    /\ CanReuseDidOpenAnalysis(u, t)
    /\ documents' = [documents EXCEPT ![u] = t]
    /\ shown' = [shown EXCEPT ![u] = latest.diagnostics[u]]
    /\ published' = published \cup {u}
    /\ UNCHANGED <<disk, roots, pipelineVars, analysisDirty, latest, indexVars, callVars>>

DidOpen(u, t) ==
    /\ ~waiting
    /\ UriPath[u] \notin Overlays
    /\ ~CanReuseDidOpenAnalysis(u, t)
    /\ documents' = [documents EXCEPT ![u] = t]
    /\ UNCHANGED <<disk, roots>>
    /\ AnalyseAndPublish

DidChange(u, t) ==
    /\ ~waiting
    /\ u \in OpenUris
    /\ documents' = [documents EXCEPT ![u] = t]
    /\ UNCHANGED <<disk, roots>>
    /\ AnalyseAndPublish

DidClose(u) ==
    /\ ~waiting
    /\ u \in OpenUris
    /\ documents' = [documents EXCEPT ![u] = NoText]
    /\ UNCHANGED <<disk, roots>>
    /\ AnalyseAndPublish

DidChangeConfiguration(r) ==
    /\ ~waiting
    /\ roots' = r
    /\ UNCHANGED <<disk, documents>>
    /\ AnalyseAndPublish

(* Hover, completion, rename and the other requests that need an analysis. *)
AnalysisRequest ==
    /\ ~waiting
    /\ UNCHANGED inputVars
    /\ EnsureSnapshot(analysisDirty)
    /\ UNCHANGED <<publishVars, indexVars, callVars>>

WorkspaceSymbol ==
    /\ ~waiting
    /\ UNCHANGED inputVars
    /\ EnsureSnapshot(analysisDirty)
    /\ ScheduleIndex
    /\ CountsKept
    /\ lastTimedOut' = TimedOutForgotten
    /\ waiting' = MustWaitForIndex
    /\ UNCHANGED <<publishVars, toolRuns>>

(* The wait is over when the job is completed or the time is up.           *)
WaitEnds ==
    /\ waiting
    /\ waiting' = FALSE
    /\ IF completed >= latest.version
       THEN UNCHANGED <<lastTimedOut, timeouts>>
       ELSE lastTimedOut' = latest.version /\ timeouts' = timeouts + 1
    /\ UNCHANGED <<inputVars, pipelineVars, analysisDirty, latest, publishVars,
                   indexDir, lastScheduled, job, completed, toolRuns>>

(* dsdld/ai/toolUse: three of the four tools run the pipeline.             *)
AiToolUse ==
    /\ ~waiting
    /\ snapshotVersion < MaxSnapshots
    /\ toolRuns < MaxToolRuns
    /\ UNCHANGED inputVars
    /\ RunPipeline
    /\ UNCHANGED <<analysisDirty, latest, publishVars, indexVars, waiting>>
    /\ toolRuns' = toolRuns + 1

(* dsdld/debug/indexVerifyRepair: ensureIndexManager, then the manager     *)
(* cancels its job.                                                        *)
IndexVerifyRepair ==
    /\ ~waiting
    /\ UNCHANGED <<inputVars, pipelineVars, analysisDirty, latest, publishVars>>
    /\ indexDir' = IndexDirOf[roots']
    /\ lastScheduled' = Kept(lastScheduled, NoVersion)
    /\ job' = Kept([job EXCEPT !.live = FALSE], NoJob)
    /\ CountsKept
    /\ lastTimedOut' = Kept(lastTimedOut, NoVersion)
    /\ UNCHANGED callVars

-----------------------------------------------------------------------------
(* The index worker completes its job, and files change.                   *)

IndexCompletes ==
    /\ job.live
    /\ job' = [job EXCEPT !.live = FALSE]
    /\ completed' = job.version
    /\ UNCHANGED <<inputVars, pipelineVars, analysisDirty, latest, publishVars,
                   indexDir, lastScheduled, lastTimedOut, timeouts, callVars>>

FileChanges(p, t) ==
    /\ disk' = [disk EXCEPT ![p] = t]
    /\ UNCHANGED <<documents, roots, pipelineVars, analysisDirty, latest,
                   publishVars, indexVars, callVars>>

Next ==
    \/ \E u \in Uris :
          \/ \E t \in TextsOf[UriPath[u]] :
                DidOpenReusing(u, t) \/ DidOpen(u, t) \/ DidChange(u, t)
          \/ DidClose(u)
    \/ \E r \in RootSets : DidChangeConfiguration(r)
    \/ AnalysisRequest \/ WorkspaceSymbol \/ WaitEnds \/ AiToolUse \/ IndexVerifyRepair
    \/ IndexCompletes
    \/ \E p \in Paths : \E t \in TextsOf[p] \cup {NoText} : FileChanges(p, t)

Spec == Init /\ [][Next]_vars

-----------------------------------------------------------------------------
(* Each run leaves in the caches what its input holds now: a text that     *)
(* parses as a definition, one that does not as diagnostics, and no        *)
(* definition of a file that is gone, whatever was parsed again and        *)
(* whatever was left from earlier runs.                                    *)
CacheIsCurrent ==
    [][snapshotVersion' # snapshotVersion =>
         \A p \in Paths :
            /\ cached'[p].text = FreshDefinition(p)'.text
            /\ p \in Present' => parseDiagnostics'[p] = FreshDiagnostics(p)']_vars

(* Nothing the editor shows is left from an earlier analysis: what it      *)
(* shows for a file is what the latest result says, and for an open        *)
(* document all that it says, across files that come and go.               *)
ShownIsLatest ==
    \A u \in Uris :
        u \in OpenUris \/ shown[u] # {} => shown[u] = latest.diagnostics[u]

(* What the editor shows for an open document is about the text it has,    *)
(* and it shows something when that does not parse.                        *)
TextIsShown ==
    \A u \in OpenUris :
        /\ \A problem \in shown[u] : problem[2] = documents[u]
        /\ documents[u] \notin Parses => shown[u] # {}

(* The pipeline's last run is the one the latest result comes from: no AI  *)
(* tool has run it since.                                                  *)
ResultIsOfLastRun == latest.version = snapshotVersion

(* The diagnostics shown for an open document are about the text it has,   *)
(* also when didOpen takes them from an earlier analysis, as long as no AI *)
(* tool has run the pipeline since that analysis; the next analysis of the *)
(* server's own makes up for what a tool did.                              *)
OpenShowsItsText == ResultIsOfLastRun => TextIsShown

(* As long as no AI tool has run the pipeline since the latest analysis, a *)
(* snapshot the server takes for scheduled is the index's last job, and    *)
(* the shards of that job are the definitions of that snapshot, though the *)
(* version comes from the latest result and the shards from the pipeline:  *)
(* a job made after a tool's run is not taken for the next snapshot's.     *)
(* While the tool's run is the last one the claim is false, as             *)
(* workspace/symbol may schedule an older version with the tool's shards.  *)
JobMatchesSnapshot ==
    ResultIsOfLastRun /\ latest.version # NoVersion /\ lastScheduled = latest.version =>
        job.version = latest.version /\ job.shards = IndexShards

(* workspace/symbol waits for the index in vain at most once for each      *)
(* snapshot: an index that is slow or was cancelled does not block the     *)
(* editor at every key.                                                    *)
WaitsInVainOnce == timeouts <= 1

-----------------------------------------------------------------------------
(* docs/reference/lsp/ai-data-flow.md says the AI tools are "read-only     *)
(* introspection of state the server already computed": with them too an   *)
(* open document would show diagnostics of its own text.                   *)
ToolsLeaveShownText == TextIsShown

(* Analysis.h on AnalysisPipeline::run: "Executes one analysis pass over   *)
(* workspace roots and open overlays".  The diagnostics of a text that did *)
(* not parse outlive its file.                                             *)
OnlyPresentFilesReported ==
    [][snapshotVersion' # snapshotVersion =>
         \A p \in Paths : parseDiagnostics'[p] # NoText => p \in Present']_vars

=============================================================================
