---------------------------- MODULE LspServerProofs ----------------------------
(***************************************************************************)
(* Proofs about LspServer and the pipeline it runs, for any set of files,  *)
(* texts, URIs and configurations, and any number of runs.                 *)
(***************************************************************************)
EXTENDS LspServer, TLAPS

(* What a handler leaves for the run it calls: documents and configuration *)
(* of the right types.                                                     *)
InputsTypeOK ==
    /\ disk \in [Paths -> Texts \cup {NoText}]
    /\ documents \in [Uris -> Texts \cup {NoText}]
    /\ roots \in RootSets

-----------------------------------------------------------------------------
(* What a run reads.                                                       *)

(* The overlay of a path is an open document of that path. *)
LEMMA OverlayIsOpen ==
  ASSUME NEW p \in Overlays'
  PROVE  OverlayUri(p)' \in OpenUris' /\ UriPath[OverlayUri(p)'] = p
<1>1. \E u \in OpenUris' : UriPath[u] = p
  BY DEF Overlays
<1> QED BY <1>1 DEF OverlayUri

(* A run finds only paths of definition files ... *)
LEMMA PresentPaths ==
  ASSUME InputsTypeOK'
  PROVE  Present' \subseteq Paths /\ Overlays' \subseteq Paths
BY AnalysisConstants DEF InputsTypeOK, Present, Discovered, Overlays, OpenUris

(* ... and a text for each of them. *)
LEMMA PresentText ==
  ASSUME InputsTypeOK', NEW p \in Paths
  PROVE  /\ TextOf(p)' \in Texts \cup {NoText}
         /\ p \in Present' => TextOf(p)' # NoText
<1>1. CASE p \in Overlays'
  <2>1. OverlayUri(p)' \in OpenUris'
    BY <1>1, OverlayIsOpen
  <2>2. TextOf(p)' = documents'[OverlayUri(p)']
    BY <1>1 DEF TextOf
  <2> QED BY <2>1, <2>2 DEF OpenUris, InputsTypeOK
<1>2. CASE p \notin Overlays'
  BY <1>2 DEF TextOf, InputsTypeOK, Present, Discovered
<1> QED BY <1>1, <1>2

(* Parsing a path afresh leaves a definition or diagnostics, never both. *)
LEMMA FreshTypes ==
  ASSUME InputsTypeOK', NEW p \in Paths
  PROVE  /\ FreshDefinition(p)' \in Definitions \cup {NoDef}
         /\ FreshDiagnostics(p)' \in (Texts \ Parses) \cup {NoText}
         /\ FreshDefinition(p)' # NoDef => FreshDiagnostics(p)' = NoText
<1>1. TextOf(p)' \in Texts \cup {NoText}
  BY PresentText
<1> QED BY <1>1 DEF FreshDefinition, FreshDiagnostics, Definitions, NoDef

(* What a run finds changed it parses again, with or without dependents. *)
LEMMA DirtyIsImpacted ==
  ASSUME InputsTypeOK', NEW p \in DirtyPaths
  PROVE  p \in ImpactedPaths
<1>1. p \in Paths
  BY PresentPaths DEF DirtyPaths, CachedPaths, Vanished, Changed
<1> QED BY <1>1 DEF ImpactedPaths

-----------------------------------------------------------------------------
(* What a run leaves.                                                      *)

LEMMA RunTypes ==
  ASSUME AnalysisTypeOK, InputsTypeOK', RunPipeline
  PROVE  AnalysisTypeOK'
<1>1. cached' \in [Paths -> Definitions \cup {NoDef}]
  BY FreshTypes DEF RunPipeline, AnalysisTypeOK
<1>2. parseDiagnostics' \in [Paths -> (Texts \ Parses) \cup {NoText}]
  BY FreshTypes DEF RunPipeline, AnalysisTypeOK
<1> QED
  BY <1>1, <1>2 DEF RunPipeline, AnalysisTypeOK, InputsTypeOK

(* No path has both a definition and a text that did not parse.            *)
CachesInv == \A p \in Paths : cached[p] # NoDef => parseDiagnostics[p] = NoText

LEMMA RunKeepsCachesInv ==
  ASSUME CachesInv, InputsTypeOK', RunPipeline
  PROVE  CachesInv'
BY FreshTypes DEF RunPipeline, CachesInv

(* A path that is not parsed again has its current text in the cache. *)
LEMMA RunIsCurrent ==
  ASSUME AnalysisTypeOK, CachesInv, InputsTypeOK', RunPipeline, NEW p \in Paths
  PROVE  /\ cached'[p].text = FreshDefinition(p)'.text
         /\ p \in Present' => parseDiagnostics'[p] = FreshDiagnostics(p)'
<1>1. CASE p \in ImpactedPaths
  BY <1>1 DEF RunPipeline
<1>2. CASE p \notin ImpactedPaths
  <2>1. cached'[p] = cached[p] /\ parseDiagnostics'[p] = parseDiagnostics[p]
    BY <1>2 DEF RunPipeline
  <2>2. p \notin DirtyPaths
    BY <1>2, DirtyIsImpacted
  <2>3. NoDef.text = NoText /\ NoText \notin Parses
    BY AnalysisConstants DEF NoDef
  <2>4. cached[p] \in Definitions \cup {NoDef}
    BY DEF AnalysisTypeOK
  <2>5. CASE p \notin Present'
    <3>1. p \notin CachedPaths
      BY <2>2, <2>5 DEF DirtyPaths, Vanished
    <3>2. cached[p] = NoDef /\ FreshDefinition(p)' = NoDef
      BY <2>5, <3>1 DEF CachedPaths, FreshDefinition
    <3> QED BY <2>1, <2>5, <3>2
  <2>6. CASE p \in Present'
    <3>1. cached[p].text = TextOf(p)'
      BY <2>2, <2>6 DEF DirtyPaths, Changed
    <3>2. TextOf(p)' # NoText
      BY <2>6, PresentText
    <3>3. cached[p] # NoDef
      BY <2>3, <3>1, <3>2
    <3>4. TextOf(p)' \in Parses
      BY <2>4, <3>1, <3>3 DEF Definitions
    <3>5. parseDiagnostics[p] = NoText
      BY <3>3 DEF CachesInv
    <3>6. FreshDefinition(p)'.text = TextOf(p)' /\ FreshDiagnostics(p)' = NoText
      BY <2>6, <3>4 DEF FreshDefinition, FreshDiagnostics
    <3> QED BY <2>1, <3>1, <3>5, <3>6
  <2> QED BY <2>5, <2>6
<1> QED BY <1>1, <1>2

-----------------------------------------------------------------------------
(* What a run reports.                                                     *)

(* The URI of a path, open or not, is a URI of that path. *)
LEMMA UriOfPath ==
  ASSUME NEW p \in Paths
  PROVE  UriPath[UriOf(p)'] = p
<1>1. CASE p \in Overlays'
  BY <1>1, OverlayIsOpen DEF UriOf
<1>2. CASE p \notin Overlays'
  BY <1>2, AnalysisConstants DEF UriOf
<1> QED BY <1>1, <1>2

(* So the diagnostics of a URI are problems of its path ... *)
LEMMA ReportIsOfPath ==
  ASSUME NEW u \in Uris
  PROVE  DiagnosticsByUri'[u] \subseteq Problems(UriPath[u])'
BY UriOfPath DEF DiagnosticsByUri

LEMMA ProblemTypes ==
  ASSUME AnalysisTypeOK', NEW p \in Paths
  PROVE  Problems(p)' \in ProblemSet
<1>1. cached'[p] # NoDef => cached'[p].text \in Texts
  BY AnalysisConstants DEF AnalysisTypeOK, Definitions
<1>2. parseDiagnostics'[p] # NoText => parseDiagnostics'[p] \in Texts
  BY DEF AnalysisTypeOK
<1> QED BY <1>1, <1>2 DEF Problems, Unresolved, ProblemSet

LEMMA ReportTypes ==
  ASSUME AnalysisTypeOK'
  PROVE  DiagnosticsByUri' \in [Uris -> ProblemSet]
<1>1. ASSUME NEW u \in Uris PROVE DiagnosticsByUri'[u] \in ProblemSet
  <2>1. UriPath[u] \in Paths
    BY AnalysisConstants
  <2> QED BY <2>1, ReportIsOfPath, ProblemTypes DEF ProblemSet
<1> QED BY <1>1 DEF DiagnosticsByUri

(* A path is open under one URI: the editor opens it under one at a time.  *)
DocumentsInv == \A u, v \in OpenUris : UriPath[u] = UriPath[v] => u = v

(* ... and those of an open document, all the problems of its path. *)
LEMMA OpenReport ==
  ASSUME DocumentsInv', NEW u \in OpenUris'
  PROVE  /\ OverlayUri(UriPath[u])' = u
         /\ Problems(UriPath[u])' \subseteq DiagnosticsByUri'[u]
<1>1. /\ u \in Uris /\ UriPath[u] \in Paths
      /\ UriPath[u] \in Overlays'
  BY AnalysisConstants DEF OpenUris, Overlays
<1>2. OverlayUri(UriPath[u])' = u
  BY <1>1, OverlayIsOpen DEF DocumentsInv
<1>3. UriOf(UriPath[u])' = u
  BY <1>1, <1>2 DEF UriOf
<1> QED BY <1>1, <1>2, <1>3 DEF DiagnosticsByUri

(* The problems of a path are about the text it was parsed from. *)
LEMMA ProblemText ==
  ASSUME AnalysisTypeOK, CachesInv, InputsTypeOK', DocumentsInv', RunPipeline,
         NEW u \in OpenUris'
  PROVE  /\ \A problem \in Problems(UriPath[u])' : problem[2] = documents'[u]
         /\ documents'[u] \notin Parses => Problems(UriPath[u])' # {}
<1> DEFINE p == UriPath[u]
<1>1. p \in Paths /\ p \in Overlays' /\ p \in Present'
  BY AnalysisConstants DEF OpenUris, Overlays, Present
<1>2. TextOf(p)' = documents'[u]
  BY <1>1, OpenReport DEF TextOf
<1>3. /\ cached'[p].text = FreshDefinition(p)'.text
      /\ parseDiagnostics'[p] = FreshDiagnostics(p)'
  BY <1>1, RunIsCurrent
<1>4. documents'[u] # NoText
  BY DEF OpenUris
<1>5. CASE documents'[u] \in Parses
  <2>1. cached'[p].text = documents'[u] /\ parseDiagnostics'[p] = NoText
    BY <1>1, <1>2, <1>3, <1>5 DEF FreshDefinition, FreshDiagnostics
  <2> QED BY <1>5, <2>1 DEF Problems
<1>6. CASE documents'[u] \notin Parses
  <2>1. FreshDefinition(p)' = NoDef /\ parseDiagnostics'[p] = documents'[u]
    BY <1>1, <1>2, <1>3, <1>6 DEF FreshDefinition, FreshDiagnostics
  <2>2. cached'[p] \in Definitions \cup {NoDef}
    BY <1>1, RunTypes DEF AnalysisTypeOK
  <2>3. cached'[p] = NoDef
    <3>1. NoDef.text = NoText /\ NoText \notin Parses
      BY AnalysisConstants DEF NoDef
    <3> QED BY <1>3, <2>1, <2>2, <3>1 DEF Definitions
  <2>4. Problems(p)' = {<<"parse", documents'[u]>>}
    BY <1>4, <2>1, <2>3 DEF Problems, Unresolved
  <2> QED BY <1>6, <2>4
<1> QED BY <1>5, <1>6

-----------------------------------------------------------------------------
(* Type correctness.                                                       *)

Results == [version : Versions, diagnostics : [Uris -> ProblemSet]]

LEMMA TypeInit == ASSUME Init PROVE TypeOK
<1>1. /\ disk \in [Paths -> Texts \cup {NoText}]
      /\ documents \in [Uris -> Texts \cup {NoText}]
  BY DEF Init, Texts
<1>2. AnalysisTypeOK
  BY <1>1 DEF Init, AnalysisInit, AnalysisTypeOK
<1>3. {} \in ProblemSet /\ NoVersion \in Versions
  BY ServerConstants DEF ProblemSet, Versions, NoVersion
<1> QED
  BY <1>2, <1>3 DEF Init, TypeOK, NoJob

(* A snapshot is a result of the right type, whether it is old or new. *)
LEMMA SnapshotTypes ==
  ASSUME TypeOK, InputsTypeOK', NEW STATE dirty, EnsureSnapshot(dirty)
  PROVE  AnalysisTypeOK' /\ latest' \in Results /\ analysisDirty' = FALSE
<1>1. CASE dirty \/ latest.version = NoVersion
  <2>1. RunPipeline /\ snapshotVersion < MaxSnapshots
        /\ latest' = [version |-> snapshotVersion', diagnostics |-> DiagnosticsByUri']
    BY <1>1 DEF EnsureSnapshot
  <2>2. AnalysisTypeOK'
    BY <2>1, RunTypes DEF TypeOK
  <2>3. snapshotVersion' \in Versions
    BY <2>1, ServerConstants DEF RunPipeline, TypeOK, AnalysisTypeOK, Versions
  <2> QED BY <2>1, <2>2, <2>3, ReportTypes DEF EnsureSnapshot, Results
<1>2. CASE ~(dirty \/ latest.version = NoVersion)
  BY <1>2 DEF EnsureSnapshot, pipelineVars, TypeOK, AnalysisTypeOK, InputsTypeOK, Results
<1> QED BY <1>1, <1>2

LEMMA ShardTypes ==
  ASSUME AnalysisTypeOK'
  PROVE  IndexShards' \in SUBSET (Paths \X Definitions)
BY DEF AnalysisTypeOK, IndexShards, CachedPaths

(* The job and the counts have their types after scheduling. *)
LEMMA ScheduleTypes ==
  ASSUME TypeOK, InputsTypeOK', AnalysisTypeOK', latest' \in Results,
         ScheduleIndex, CountsKept
  PROVE  /\ indexDir' \in {IndexDirOf[r] : r \in RootSets} \cup {NoDir}
         /\ lastScheduled' \in Versions
         /\ job' \in [version : Versions, shards : SUBSET (Paths \X Definitions), live : BOOLEAN]
         /\ completed' \in Versions
         /\ timeouts' \in Nat
<1>1. NoVersion \in Versions
  BY ServerConstants DEF Versions, NoVersion
<1>2. latest'.version \in Versions
  BY DEF Results
<1>3. IndexShards' \in SUBSET (Paths \X Definitions)
  BY ShardTypes
<1>4. job' \in [version : Versions, shards : SUBSET (Paths \X Definitions), live : BOOLEAN]
  BY <1>2, <1>3 DEF ScheduleIndex, TypeOK
<1> QED
  BY <1>1, <1>2, <1>4 DEF ScheduleIndex, CountsKept, Kept, TypeOK, InputsTypeOK

(* What is published after an analysis is what it reports. *)
LEMMA PublishTypes ==
  ASSUME TypeOK, latest' \in Results, PublishAll
  PROVE  published' \subseteq Uris /\ shown' \in [Uris -> ProblemSet]
<1>1. {} \in ProblemSet /\ CurrentUris' \subseteq Uris
  BY DEF ProblemSet, CurrentUris, OpenUris
<1> QED BY <1>1 DEF PublishAll, Results, TypeOK

LEMMA AnalyseTypes ==
  ASSUME TypeOK, InputsTypeOK', AnalyseAndPublish
  PROVE  TypeOK'
<1>1. AnalysisTypeOK' /\ latest' \in Results /\ analysisDirty' = FALSE
  BY SnapshotTypes DEF AnalyseAndPublish
<1>2. lastTimedOut' \in Versions
  BY ServerConstants DEF AnalyseAndPublish, Kept, TypeOK, Versions, NoVersion
<1> QED
  BY <1>1, <1>2, ScheduleTypes, PublishTypes
     DEF AnalyseAndPublish, TypeOK, Results, callVars

(* The documents the editor may open or change. *)
LEMMA DocumentTypes ==
  ASSUME TypeOK, NEW u \in Uris, NEW t \in TextsOf[UriPath[u]] \cup {NoText},
         documents' = [documents EXCEPT ![u] = t], UNCHANGED <<disk, roots>>
  PROVE  InputsTypeOK' /\ t \in Texts \cup {NoText}
<1>1. t \in Texts \cup {NoText}
  BY AnalysisConstants DEF Texts
<1> QED BY <1>1 DEF TypeOK, AnalysisTypeOK, InputsTypeOK

LEMMA TypeStep == ASSUME TypeOK, [Next]_vars PROVE TypeOK'
<1>1. ASSUME NEW u \in Uris, NEW t \in TextsOf[UriPath[u]], DidOpenReusing(u, t)
      PROVE  TypeOK'
  <2>1. InputsTypeOK'
    BY <1>1, DocumentTypes DEF DidOpenReusing
  <2> QED
    BY <1>1, <2>1 DEF DidOpenReusing, TypeOK, AnalysisTypeOK, InputsTypeOK,
                      pipelineVars, indexVars, callVars
<1>2. ASSUME NEW u \in Uris, NEW t \in TextsOf[UriPath[u]],
             DidOpen(u, t) \/ DidChange(u, t)
      PROVE  TypeOK'
  BY <1>2, DocumentTypes, AnalyseTypes DEF DidOpen, DidChange
<1>3. ASSUME NEW u \in Uris, DidClose(u) PROVE TypeOK'
  BY <1>3, DocumentTypes, AnalyseTypes DEF DidClose
<1>4. ASSUME NEW r \in RootSets, DidChangeConfiguration(r) PROVE TypeOK'
  <2>1. InputsTypeOK'
    BY <1>4 DEF DidChangeConfiguration, TypeOK, AnalysisTypeOK, InputsTypeOK
  <2> QED BY <1>4, <2>1, AnalyseTypes DEF DidChangeConfiguration
<1>5. CASE AnalysisRequest
  <2>1. InputsTypeOK'
    BY <1>5 DEF AnalysisRequest, inputVars, TypeOK, AnalysisTypeOK, InputsTypeOK
  <2>2. AnalysisTypeOK' /\ latest' \in Results /\ analysisDirty' = FALSE
    BY <1>5, <2>1, SnapshotTypes DEF AnalysisRequest
  <2> QED
    BY <1>5, <2>2 DEF AnalysisRequest, TypeOK, Results, publishVars, indexVars, callVars
<1>6. CASE WorkspaceSymbol
  <2>1. InputsTypeOK'
    BY <1>6 DEF WorkspaceSymbol, inputVars, TypeOK, AnalysisTypeOK, InputsTypeOK
  <2>2. AnalysisTypeOK' /\ latest' \in Results /\ analysisDirty' = FALSE
    BY <1>6, <2>1, SnapshotTypes DEF WorkspaceSymbol
  <2>3. lastTimedOut' \in Versions /\ waiting' \in BOOLEAN
    BY <1>6, ServerConstants
       DEF WorkspaceSymbol, TimedOutForgotten, MustWaitForIndex, Kept, TypeOK, Versions, NoVersion
  <2> QED
    BY <1>6, <2>1, <2>2, <2>3, ScheduleTypes
       DEF WorkspaceSymbol, TypeOK, Results, publishVars
<1>7. CASE WaitEnds
  <2>1. lastTimedOut' \in Versions /\ timeouts' \in Nat
    BY <1>7 DEF WaitEnds, TypeOK
  <2> QED
    BY <1>7, <2>1 DEF WaitEnds, TypeOK, AnalysisTypeOK, inputVars, pipelineVars, publishVars
<1>8. CASE AiToolUse
  <2>1. InputsTypeOK'
    BY <1>8 DEF AiToolUse, inputVars, TypeOK, AnalysisTypeOK, InputsTypeOK
  <2>2. AnalysisTypeOK'
    BY <1>8, <2>1, RunTypes DEF AiToolUse, TypeOK
  <2> QED
    BY <1>8, <2>2 DEF AiToolUse, TypeOK, publishVars, indexVars
<1>9. CASE IndexVerifyRepair
  <2>1. NoVersion \in Versions /\ NoJob.version = NoVersion
    BY ServerConstants DEF Versions, NoVersion, NoJob
  <2>2. job' \in [version : Versions, shards : SUBSET (Paths \X Definitions), live : BOOLEAN]
    BY <1>9, <2>1 DEF IndexVerifyRepair, Kept, NoJob, TypeOK
  <2> QED
    BY <1>9, <2>1, <2>2
       DEF IndexVerifyRepair, CountsKept, Kept, TypeOK, AnalysisTypeOK,
           inputVars, pipelineVars, publishVars, callVars
<1>10. CASE IndexCompletes
  BY <1>10 DEF IndexCompletes, TypeOK, AnalysisTypeOK,
               inputVars, pipelineVars, publishVars, callVars
<1>11. ASSUME NEW p \in Paths, NEW t \in TextsOf[p] \cup {NoText}, FileChanges(p, t)
       PROVE  TypeOK'
  <2>1. t \in Texts \cup {NoText}
    BY DEF Texts
  <2> QED
    BY <1>11, <2>1 DEF FileChanges, TypeOK, AnalysisTypeOK,
                       pipelineVars, publishVars, indexVars, callVars
<1>12. CASE UNCHANGED vars
  BY <1>12 DEF vars, TypeOK, AnalysisTypeOK,
               inputVars, pipelineVars, publishVars, indexVars, callVars
<1> QED
  BY <1>1, <1>2, <1>3, <1>4, <1>5, <1>6, <1>7, <1>8, <1>9, <1>10, <1>11, <1>12 DEF Next

(* What the handlers keep of documents, caches, results and jobs has its   *)
(* type: the latest result is always one the editor can be shown.          *)
THEOREM TypeCorrect == Spec => []TypeOK
<1>1. Init => TypeOK
  BY TypeInit
<1>2. TypeOK /\ [Next]_vars => TypeOK'
  BY TypeStep
<1> QED
  BY <1>1, <1>2, PTL DEF Spec

-----------------------------------------------------------------------------
(* The inductive invariant.  With CachesInv and DocumentsInv:              *)

(* Only before the first analysis has the server no current result, and    *)
(* then nothing is open, shown or waited for.                              *)
FreshInv ==
    /\ analysisDirty => latest.version = NoVersion
    /\ latest.version = NoVersion =>
          /\ OpenUris = {}
          /\ \A u \in Uris : shown[u] = {}
          /\ timeouts = 0

(* The pipeline, the latest result, the snapshot scheduled, the job and    *)
(* what the manager has completed follow each other.                       *)
VersionsInv ==
    /\ latest.version <= snapshotVersion
    /\ lastScheduled <= latest.version
    /\ job.version <= latest.version
    /\ completed <= job.version
    /\ lastScheduled # NoVersion => job.version = lastScheduled

(* What is shown has been published, so that it can be taken back.         *)
PublishedInv == \A u \in Uris : shown[u] # {} => u \in published

(* Until a tool runs the pipeline, the latest result says of a URI only    *)
(* what the caches say of its path.                                        *)
ResultInv ==
    ResultIsOfLastRun /\ latest.version # NoVersion =>
        \A u \in Uris : latest.diagnostics[u] \subseteq Problems(UriPath[u])

(* A wait in vain is remembered until its snapshot has been indexed.       *)
WaitInv ==
    /\ timeouts \in {0, 1}
    /\ timeouts = 1 => lastTimedOut = latest.version \/ completed >= latest.version
    /\ waiting => timeouts = 0 \/ completed >= latest.version

IInv ==
    /\ TypeOK
    /\ CachesInv
    /\ DocumentsInv
    /\ FreshInv
    /\ VersionsInv
    /\ PublishedInv
    /\ ResultInv
    /\ WaitInv
    /\ ShownIsLatest
    /\ OpenShowsItsText
    /\ JobMatchesSnapshot

LEMMA InvInit == ASSUME Init PROVE IInv
<1>1. TypeOK
  BY TypeInit
<1>2. OpenUris = {}
  BY DEF Init, OpenUris
<1>3. CachesInv
  BY DEF Init, AnalysisInit, CachesInv
<1>4. DocumentsInv /\ OpenShowsItsText
  BY <1>2 DEF DocumentsInv, OpenShowsItsText, TextIsShown
<1>5. VersionsInv /\ WaitInv /\ JobMatchesSnapshot
  BY DEF Init, AnalysisInit, NoJob, NoVersion, VersionsInv, WaitInv, JobMatchesSnapshot
<1>6. FreshInv /\ PublishedInv /\ ResultInv /\ ShownIsLatest
  BY <1>2 DEF Init, NoVersion, FreshInv, PublishedInv, ResultInv, ShownIsLatest
<1> QED BY <1>1, <1>3, <1>4, <1>5, <1>6 DEF IInv

-----------------------------------------------------------------------------
(* The parts of a handler.                                                 *)

(* A snapshot is new, with a version no earlier result has, or kept. *)
LEMMA SnapshotIsNewOrKept ==
  ASSUME TypeOK, VersionsInv, NEW STATE dirty, EnsureSnapshot(dirty)
  PROVE  \/ /\ RunPipeline
            /\ latest'.version = snapshotVersion'
            /\ snapshotVersion' = snapshotVersion + 1
            /\ latest'.version > latest.version
            /\ latest'.version # NoVersion
            /\ latest'.diagnostics = DiagnosticsByUri'
         \/ /\ ~dirty /\ latest.version # NoVersion
            /\ UNCHANGED <<pipelineVars, latest>>
<1>1. CASE dirty \/ latest.version = NoVersion
  <2>1. RunPipeline
        /\ latest' = [version |-> snapshotVersion', diagnostics |-> DiagnosticsByUri']
    BY <1>1 DEF EnsureSnapshot
  <2>2. snapshotVersion \in Nat /\ latest.version \in Nat
        /\ snapshotVersion' = snapshotVersion + 1
    BY <2>1 DEF RunPipeline, TypeOK, AnalysisTypeOK, Versions
  <2> QED BY <2>1, <2>2 DEF VersionsInv, NoVersion
<1>2. CASE ~(dirty \/ latest.version = NoVersion)
  BY <1>2 DEF EnsureSnapshot
<1> QED BY <1>1, <1>2

(* A kept pipeline says of a path what it said before. *)
LEMMA KeptProblems ==
  ASSUME UNCHANGED pipelineVars, NEW p \in Paths
  PROVE  Problems(p)' = Problems(p)
BY DEF pipelineVars, Problems, Unresolved

(* The shards come from the pipeline and the version from the latest       *)
(* result; a snapshot that is scheduled again is the one of the job.       *)
LEMMA ScheduleKeeps ==
  ASSUME TypeOK, TypeOK', VersionsInv, JobMatchesSnapshot,
         ScheduleIndex, CountsKept,
         latest'.version # NoVersion,
         \/ /\ latest'.version = snapshotVersion'
            /\ snapshotVersion' = snapshotVersion + 1
         \/ UNCHANGED <<pipelineVars, latest>>
  PROVE  VersionsInv' /\ JobMatchesSnapshot'
<1>1. /\ latest.version \in Nat /\ latest'.version \in Nat
      /\ snapshotVersion \in Nat /\ snapshotVersion' \in Nat
      /\ lastScheduled \in Nat /\ completed \in Nat /\ job.version \in Nat
  BY DEF TypeOK, AnalysisTypeOK, Versions
<1>2. latest.version <= latest'.version /\ latest'.version <= snapshotVersion'
  BY <1>1 DEF VersionsInv, pipelineVars
<1>3. lastScheduled' = latest'.version
  BY DEF ScheduleIndex
<1>4. completed' \in {completed, NoVersion}
  BY DEF CountsKept, Kept
<1>5. CASE AlreadyScheduled
  <2>1. lastScheduled = latest'.version /\ ~ManagerReplaced
    BY <1>5 DEF AlreadyScheduled, Kept
  <2>2. UNCHANGED <<pipelineVars, latest>>
    BY <1>1, <2>1 DEF VersionsInv
  <2>3. job' = job
    BY <1>5 DEF ScheduleIndex
  <2>4. IndexShards' = IndexShards
    BY <2>2 DEF pipelineVars, IndexShards, CachedPaths
  <2>5. VersionsInv'
    BY <1>1, <1>2, <1>3, <1>4, <2>1, <2>2, <2>3 DEF VersionsInv, NoVersion
  <2>6. JobMatchesSnapshot'
    BY <1>3, <2>1, <2>2, <2>3, <2>4 DEF JobMatchesSnapshot, ResultIsOfLastRun, pipelineVars
  <2> QED BY <2>5, <2>6
<1>6. CASE ~AlreadyScheduled
  <2>1. job' = [version |-> latest'.version, shards |-> IndexShards', live |-> TRUE]
    BY <1>6 DEF ScheduleIndex
  <2>2. VersionsInv'
    BY <1>1, <1>2, <1>3, <1>4, <2>1 DEF VersionsInv, NoVersion
  <2>3. JobMatchesSnapshot'
    BY <1>3, <2>1 DEF JobMatchesSnapshot
  <2> QED BY <2>2, <2>3
<1> QED BY <1>5, <1>6

-----------------------------------------------------------------------------
(* The handlers.                                                           *)

(* What is shown after an analysis is of the texts the documents have,     *)
(* whatever an AI tool did before.                                         *)
LEMMA AnalysisShowsText ==
  ASSUME IInv, InputsTypeOK', DocumentsInv', AnalyseAndPublish
  PROVE  TextIsShown'
<1>1. TypeOK /\ AnalysisTypeOK
  BY DEF IInv, TypeOK
<1>2. RunPipeline /\ latest'.diagnostics = DiagnosticsByUri'
  BY <1>1, SnapshotIsNewOrKept DEF IInv, AnalyseAndPublish
<1>3. ASSUME NEW u \in OpenUris'
      PROVE  /\ \A problem \in shown'[u] : problem[2] = documents'[u]
             /\ documents'[u] \notin Parses => shown'[u] # {}
  <2>1. u \in Uris /\ u \in CurrentUris'
    BY DEF OpenUris, CurrentUris
  <2>2. shown'[u] = DiagnosticsByUri'[u]
    BY <1>2, <2>1 DEF AnalyseAndPublish, PublishAll
  <2>3. shown'[u] = Problems(UriPath[u])'
    BY <2>1, <2>2, ReportIsOfPath, OpenReport
  <2> QED BY <1>1, <1>2, <2>3, ProblemText DEF IInv
<1> QED BY <1>3 DEF TextIsShown

(* All that ends in publishDiagnosticsFromAnalysis. *)
LEMMA InvAnalyse ==
  ASSUME IInv, InputsTypeOK', DocumentsInv', ~waiting, AnalyseAndPublish
  PROVE  IInv'
<1>1. TypeOK /\ TypeOK'
  BY AnalyseTypes DEF IInv
<1>2. /\ RunPipeline
      /\ latest'.version = snapshotVersion'
      /\ snapshotVersion' = snapshotVersion + 1
      /\ latest'.version > latest.version
      /\ latest'.version # NoVersion
      /\ latest'.diagnostics = DiagnosticsByUri'
  BY <1>1, SnapshotIsNewOrKept DEF IInv, AnalyseAndPublish
<1>3. AnalysisTypeOK /\ AnalysisTypeOK' /\ analysisDirty' = FALSE
  BY <1>1 DEF TypeOK, AnalyseAndPublish, EnsureSnapshot
<1>4. CachesInv'
  BY <1>2, RunKeepsCachesInv DEF IInv
<1>5. FreshInv'
  BY <1>2, <1>3 DEF FreshInv
<1>6. VersionsInv' /\ JobMatchesSnapshot'
  BY <1>1, <1>2, ScheduleKeeps DEF IInv, AnalyseAndPublish
<1>7. WaitInv'
  <2>1. timeouts' = 0
    BY <1>1, <1>2 DEF AnalyseAndPublish, CountsKept, TypeOK, Versions
  <2> QED BY <2>1 DEF WaitInv
<1>8. /\ published' = CurrentUris'
      /\ \A u \in Uris : shown'[u] =
            IF u \in CurrentUris' THEN latest'.diagnostics[u]
            ELSE IF u \in published THEN {} ELSE shown[u]
  BY DEF AnalyseAndPublish, PublishAll, Previous
<1>9. OpenUris' \subseteq CurrentUris'
  BY DEF CurrentUris
<1>10. ASSUME NEW u \in Uris, u \notin CurrentUris' PROVE shown'[u] = {}
  BY <1>8, <1>10 DEF IInv, PublishedInv
<1>11. PublishedInv' /\ ShownIsLatest'
  BY <1>8, <1>9, <1>10 DEF PublishedInv, ShownIsLatest
<1>12. ResultInv'
  BY <1>2, ReportIsOfPath DEF ResultInv
<1>13. OpenShowsItsText'
  BY AnalysisShowsText DEF OpenShowsItsText
<1> QED
  BY <1>1, <1>4, <1>5, <1>6, <1>7, <1>11, <1>12, <1>13 DEF IInv

(* Hover and its like may only bring the first result, when nothing is     *)
(* shown yet.                                                              *)
LEMMA InvRequest ==
  ASSUME IInv, AnalysisRequest
  PROVE  IInv'
<1>1. TypeOK /\ TypeOK'
  BY TypeStep DEF IInv, Next
<1>2. CASE UNCHANGED <<pipelineVars, latest>>
  <2>1. /\ analysisDirty' = FALSE
        /\ UNCHANGED <<inputVars, pipelineVars, latest, publishVars, indexVars, callVars>>
    BY <1>2 DEF AnalysisRequest, EnsureSnapshot
  <2>2. \A p \in Paths : Problems(p)' = Problems(p)
    BY <1>2, KeptProblems
  <2>3. CachesInv' /\ DocumentsInv' /\ FreshInv' /\ VersionsInv' /\ PublishedInv' /\ WaitInv'
    BY <2>1 DEF IInv, CachesInv, DocumentsInv, FreshInv, VersionsInv, PublishedInv, WaitInv,
                OpenUris, inputVars, pipelineVars, publishVars, indexVars, callVars
  <2>4. ResultInv'
    BY <2>1, <2>2, AnalysisConstants DEF IInv, ResultInv, ResultIsOfLastRun, pipelineVars
  <2>5. ShownIsLatest' /\ OpenShowsItsText' /\ JobMatchesSnapshot'
    BY <2>1 DEF IInv, ShownIsLatest, OpenShowsItsText, TextIsShown, JobMatchesSnapshot,
                ResultIsOfLastRun, OpenUris, IndexShards, CachedPaths,
                inputVars, pipelineVars, publishVars, indexVars, callVars
  <2> QED BY <1>1, <2>3, <2>4, <2>5 DEF IInv
<1>3. CASE ~UNCHANGED <<pipelineVars, latest>>
  <2>1. /\ RunPipeline
        /\ latest'.version = snapshotVersion'
        /\ snapshotVersion' = snapshotVersion + 1
        /\ latest'.version > latest.version
        /\ latest'.version # NoVersion
        /\ latest'.diagnostics = DiagnosticsByUri'
    BY <1>1, <1>3, SnapshotIsNewOrKept DEF IInv, AnalysisRequest
  <2>2. latest.version = NoVersion
    BY <1>3 DEF IInv, FreshInv, AnalysisRequest, EnsureSnapshot
  <2>3. /\ OpenUris = {} /\ timeouts = 0
        /\ \A u \in Uris : shown[u] = {}
    BY <2>2 DEF IInv, FreshInv
  <2>4. /\ analysisDirty' = FALSE
        /\ UNCHANGED <<inputVars, publishVars, indexVars, callVars>>
    BY DEF AnalysisRequest, EnsureSnapshot
  <2>5. OpenUris' = {} /\ timeouts' = 0 /\ \A u \in Uris : shown'[u] = {}
    BY <2>3, <2>4 DEF OpenUris, inputVars, publishVars, indexVars
  <2>6. InputsTypeOK'
    BY <1>1 DEF TypeOK, AnalysisTypeOK, InputsTypeOK
  <2>7. CachesInv'
    BY <2>1, <2>6, RunKeepsCachesInv DEF IInv
  <2>8. DocumentsInv' /\ FreshInv' /\ PublishedInv' /\ WaitInv'
    BY <2>1, <2>4, <2>5 DEF DocumentsInv, FreshInv, PublishedInv, WaitInv
  <2>9. /\ snapshotVersion \in Nat /\ latest.version \in Nat /\ lastScheduled \in Nat
        /\ job.version \in Nat /\ completed \in Nat
    BY <1>1 DEF TypeOK, AnalysisTypeOK, Versions
  <2>10. VersionsInv' /\ JobMatchesSnapshot'
    BY <2>1, <2>4, <2>9 DEF IInv, VersionsInv, JobMatchesSnapshot, indexVars
  <2>11. ResultInv'
    BY <2>1, ReportIsOfPath DEF ResultInv
  <2>12. ShownIsLatest' /\ OpenShowsItsText'
    BY <2>5 DEF ShownIsLatest, OpenShowsItsText, TextIsShown
  <2> QED BY <1>1, <2>7, <2>8, <2>10, <2>11, <2>12 DEF IInv
<1> QED BY <1>2, <1>3

(* workspace/symbol does the same, schedules the job and may wait. *)
LEMMA InvSymbol ==
  ASSUME IInv, WorkspaceSymbol
  PROVE  IInv'
<1>1. TypeOK /\ TypeOK'
  BY TypeStep DEF IInv, Next
<1>2. /\ analysisDirty' = FALSE
      /\ UNCHANGED <<inputVars, publishVars, toolRuns>>
      /\ ~waiting /\ waiting' = MustWaitForIndex /\ lastTimedOut' = TimedOutForgotten
      /\ ScheduleIndex /\ CountsKept
  BY DEF WorkspaceSymbol, EnsureSnapshot
<1>3. \/ /\ RunPipeline
         /\ latest'.version = snapshotVersion'
         /\ snapshotVersion' = snapshotVersion + 1
         /\ latest'.version > latest.version
         /\ latest'.version # NoVersion
         /\ latest'.diagnostics = DiagnosticsByUri'
      \/ /\ latest.version # NoVersion
         /\ UNCHANGED <<pipelineVars, latest>>
  BY <1>1, SnapshotIsNewOrKept DEF IInv, WorkspaceSymbol
<1>4. latest'.version # NoVersion
  BY <1>3
<1>5. VersionsInv' /\ JobMatchesSnapshot'
  BY <1>1, <1>2, <1>3, <1>4, ScheduleKeeps DEF IInv
<1>6. FreshInv'
  BY <1>2, <1>4 DEF FreshInv
<1>7. DocumentsInv' /\ PublishedInv'
  BY <1>2 DEF IInv, DocumentsInv, PublishedInv, OpenUris, inputVars, publishVars
<1>8. CachesInv' /\ ResultInv' /\ ShownIsLatest' /\ OpenShowsItsText'
  <2>1. CASE UNCHANGED <<pipelineVars, latest>>
    <3>1. CachesInv'
      BY <2>1 DEF IInv, CachesInv, pipelineVars
    <3>2. \A p \in Paths : Problems(p)' = Problems(p)
      BY <2>1, KeptProblems
    <3>3. ResultInv'
      BY <1>2, <2>1, <3>2, AnalysisConstants DEF IInv, ResultInv, ResultIsOfLastRun, pipelineVars
    <3>4. ShownIsLatest' /\ OpenShowsItsText'
      BY <1>2, <2>1 DEF IInv, ShownIsLatest, OpenShowsItsText, TextIsShown, OpenUris,
                        ResultIsOfLastRun, inputVars, pipelineVars, publishVars
    <3> QED BY <3>1, <3>3, <3>4
  <2>2. CASE ~UNCHANGED <<pipelineVars, latest>>
    <3>1. RunPipeline /\ latest'.diagnostics = DiagnosticsByUri'
      BY <1>3, <2>2
    <3>2. latest.version = NoVersion
      BY <2>2 DEF IInv, FreshInv, WorkspaceSymbol, EnsureSnapshot
    <3>3. OpenUris' = {} /\ \A u \in Uris : shown'[u] = {}
      BY <1>2, <3>2 DEF IInv, FreshInv, OpenUris, inputVars, publishVars
    <3>4. InputsTypeOK'
      BY <1>1 DEF TypeOK, AnalysisTypeOK, InputsTypeOK
    <3>5. CachesInv'
      BY <3>1, <3>4, RunKeepsCachesInv DEF IInv
    <3>6. ResultInv'
      BY <3>1, ReportIsOfPath DEF ResultInv
    <3>7. ShownIsLatest' /\ OpenShowsItsText'
      BY <3>3 DEF ShownIsLatest, OpenShowsItsText, TextIsShown
    <3> QED BY <3>5, <3>6, <3>7
  <2> QED BY <2>1, <2>2
<1>9. WaitInv'
  <2>1. /\ latest'.version \in Nat /\ completed \in Nat /\ completed' \in Nat
    BY <1>1 DEF TypeOK, Versions
  <2>2. CASE ManagerReplaced \/ latest'.version # latest.version
    <3>1. timeouts' = 0
      BY <1>2, <2>2 DEF CountsKept
    <3> QED BY <3>1 DEF WaitInv
  <2>3. CASE ~(ManagerReplaced \/ latest'.version # latest.version)
    <3>1. /\ timeouts' = timeouts /\ completed' = completed
          /\ latest'.version = latest.version
          /\ waiting' <=> completed < latest'.version /\ lastTimedOut # latest'.version
          /\ lastTimedOut' = lastTimedOut \/ completed' >= latest'.version
      BY <1>2, <2>3 DEF CountsKept, Kept, MustWaitForIndex, TimedOutForgotten
    <3> QED BY <2>1, <3>1 DEF IInv, WaitInv
  <2> QED BY <2>2, <2>3
<1> QED BY <1>1, <1>5, <1>6, <1>7, <1>8, <1>9 DEF IInv

(* A document that is opened with a text that has been analysed: the       *)
(* caches have a definition of it, so there is nothing else to show.       *)
LEMMA InvOpenReusing ==
  ASSUME IInv, NEW u \in Uris, NEW t \in TextsOf[UriPath[u]], DidOpenReusing(u, t)
  PROVE  IInv'
<1>1. TypeOK /\ TypeOK'
  BY TypeStep DEF IInv, Next
<1>2. /\ documents' = [documents EXCEPT ![u] = t]
      /\ shown' = [shown EXCEPT ![u] = latest.diagnostics[u]]
      /\ published' = published \cup {u}
      /\ UNCHANGED <<disk, roots, pipelineVars, analysisDirty, latest, indexVars, callVars>>
      /\ UriPath[u] \notin Overlays
      /\ ~analysisDirty /\ latest.version # NoVersion
      /\ cached[UriPath[u]] # NoDef /\ cached[UriPath[u]].text = t
  BY DEF DidOpenReusing, CanReuseDidOpenAnalysis, DocumentTextMatches
<1>3. documents \in [Uris -> Texts \cup {NoText}] /\ shown \in [Uris -> ProblemSet]
  BY <1>1 DEF TypeOK, AnalysisTypeOK
<1>4. OpenUris' \subseteq OpenUris \cup {u}
  BY <1>2, <1>3 DEF OpenUris
<1>5. DocumentsInv'
  BY <1>2, <1>4 DEF IInv, DocumentsInv, Overlays
<1>6. CachesInv' /\ FreshInv' /\ VersionsInv' /\ WaitInv' /\ JobMatchesSnapshot'
  BY <1>2 DEF IInv, CachesInv, FreshInv, VersionsInv, WaitInv, JobMatchesSnapshot,
              ResultIsOfLastRun, IndexShards, CachedPaths, pipelineVars, indexVars, callVars
<1>7. PublishedInv' /\ ShownIsLatest'
  BY <1>2, <1>3, <1>4 DEF IInv, PublishedInv, ShownIsLatest
<1>8. ResultInv'
  <2>1. \A p \in Paths : Problems(p)' = Problems(p)
    BY <1>2, KeptProblems
  <2> QED BY <1>2, <2>1, AnalysisConstants DEF IInv, ResultInv, ResultIsOfLastRun, pipelineVars
<1>9. OpenShowsItsText'
  <2>1. SUFFICES ASSUME ResultIsOfLastRun PROVE TextIsShown'
    BY <1>2 DEF OpenShowsItsText, ResultIsOfLastRun, pipelineVars
  <2>2. ASSUME NEW v \in OpenUris', v # u
        PROVE  /\ \A problem \in shown'[v] : problem[2] = documents'[v]
               /\ documents'[v] \notin Parses => shown'[v] # {}
    <3>1. v \in OpenUris /\ documents'[v] = documents[v] /\ shown'[v] = shown[v]
      BY <1>2, <1>3, <1>4, <2>2 DEF OpenUris
    <3> QED BY <2>1, <3>1 DEF IInv, OpenShowsItsText, TextIsShown
  <2>3. /\ \A problem \in shown'[u] : problem[2] = documents'[u]
        /\ documents'[u] \in Parses
    <3>1. UriPath[u] \in Paths
      BY AnalysisConstants
    <3>2. documents'[u] = t /\ shown'[u] \subseteq Problems(UriPath[u])
      BY <1>2, <1>3, <2>1 DEF IInv, ResultInv
    <3>3. parseDiagnostics[UriPath[u]] = NoText
      BY <1>2, <3>1 DEF IInv, CachesInv
    <3>4. t \in Parses
      BY <1>1, <1>2, <3>1 DEF TypeOK, AnalysisTypeOK, Definitions
    <3> QED BY <1>2, <3>2, <3>3, <3>4 DEF Problems
  <2> QED BY <2>2, <2>3 DEF TextIsShown
<1> QED BY <1>1, <1>5, <1>6, <1>7, <1>8, <1>9 DEF IInv

(* The steps of the wait, the worker, the tools and the disk. *)
LEMMA InvOthers ==
  ASSUME IInv,
         \/ WaitEnds \/ AiToolUse \/ IndexVerifyRepair \/ IndexCompletes
         \/ \E p \in Paths : \E t \in TextsOf[p] \cup {NoText} : FileChanges(p, t)
         \/ UNCHANGED vars
  PROVE  IInv'
<1>1. TypeOK /\ TypeOK'
  BY TypeStep DEF IInv, Next
<1>2. /\ snapshotVersion \in Nat /\ latest.version \in Nat /\ lastScheduled \in Nat
      /\ job.version \in Nat /\ completed \in Nat
  BY <1>1 DEF TypeOK, AnalysisTypeOK, Versions
<1>3. /\ UNCHANGED <<documents, roots, analysisDirty, latest, publishVars>>
      /\ OpenUris' = OpenUris
  BY DEF WaitEnds, AiToolUse, IndexVerifyRepair, IndexCompletes, FileChanges, vars,
         inputVars, OpenUris
<1>4. DocumentsInv' /\ PublishedInv' /\ ShownIsLatest'
  BY <1>3 DEF IInv, DocumentsInv, PublishedInv, ShownIsLatest, publishVars
<1>5. TextIsShown' <=> TextIsShown
  BY <1>3 DEF TextIsShown, publishVars
<1>6. CASE AiToolUse
  <2>1. RunPipeline /\ UNCHANGED <<indexVars, waiting>>
    BY <1>6 DEF AiToolUse
  <2>2. InputsTypeOK'
    BY <1>1 DEF TypeOK, AnalysisTypeOK, InputsTypeOK
  <2>3. CachesInv'
    BY <2>1, <2>2, RunKeepsCachesInv DEF IInv
  <2>4. ResultInv' /\ OpenShowsItsText' /\ JobMatchesSnapshot'
    <3>1. snapshotVersion' = snapshotVersion + 1
      BY <2>1 DEF RunPipeline
    <3>2. ~ResultIsOfLastRun'
      BY <1>2, <1>3, <3>1 DEF IInv, VersionsInv, ResultIsOfLastRun
    <3> QED BY <3>2 DEF ResultInv, OpenShowsItsText, JobMatchesSnapshot
  <2>5. VersionsInv'
    BY <1>2, <1>3, <2>1 DEF IInv, VersionsInv, RunPipeline, indexVars
  <2>6. FreshInv' /\ WaitInv'
    BY <1>3, <2>1 DEF IInv, FreshInv, WaitInv, indexVars, publishVars
  <2> QED BY <1>1, <1>4, <2>3, <2>4, <2>5, <2>6 DEF IInv
<1>7. CASE ~AiToolUse
  <2>1. UNCHANGED pipelineVars /\ (ResultIsOfLastRun' <=> ResultIsOfLastRun)
    BY <1>3, <1>7 DEF WaitEnds, IndexVerifyRepair, IndexCompletes, FileChanges, vars,
                      ResultIsOfLastRun, pipelineVars
  <2>2. \A p \in Paths : Problems(p)' = Problems(p)
    BY <2>1, KeptProblems
  <2>3. CachesInv' /\ OpenShowsItsText'
    BY <1>5, <2>1 DEF IInv, CachesInv, OpenShowsItsText, pipelineVars
  <2>4. ResultInv'
    BY <1>3, <2>1, <2>2, AnalysisConstants DEF IInv, ResultInv
  <2>5. IndexShards' = IndexShards
    BY <2>1 DEF IndexShards, CachedPaths, pipelineVars
  <2>6. FreshInv' /\ VersionsInv' /\ WaitInv' /\ JobMatchesSnapshot'
    <3>1. CASE WaitEnds
      <4>1. /\ waiting /\ ~waiting'
            /\ UNCHANGED <<lastScheduled, job, completed>>
            /\ \/ timeouts' = timeouts /\ lastTimedOut' = lastTimedOut
               \/ /\ ~(completed >= latest.version)
                  /\ lastTimedOut' = latest.version /\ timeouts' = timeouts + 1
        BY <3>1 DEF WaitEnds
      <4>2. WaitInv'
        BY <1>3, <4>1 DEF IInv, WaitInv
      <4>3. FreshInv'
        <5>1. latest.version # NoVersion \/ timeouts' = timeouts
          BY <1>2, <4>1 DEF NoVersion
        <5> QED BY <1>3, <5>1 DEF IInv, FreshInv, publishVars
      <4>4. VersionsInv' /\ JobMatchesSnapshot'
        BY <1>3, <2>1, <2>5, <4>1 DEF IInv, VersionsInv, JobMatchesSnapshot, pipelineVars
      <4> QED BY <4>2, <4>3, <4>4
    <3>2. CASE IndexVerifyRepair
      <4>1. UNCHANGED waiting /\ CountsKept /\ ~waiting
            /\ lastTimedOut' = Kept(lastTimedOut, NoVersion)
            /\ lastScheduled' = Kept(lastScheduled, NoVersion)
            /\ job' = Kept([job EXCEPT !.live = FALSE], NoJob)
        BY <3>2 DEF IndexVerifyRepair, callVars
      <4>2. CASE ManagerReplaced
        <5>1. /\ timeouts' = 0 /\ completed' = NoVersion /\ lastScheduled' = NoVersion
              /\ job' = NoJob
          BY <4>1, <4>2 DEF CountsKept, Kept
        <5>2. VersionsInv'
          BY <1>2, <1>3, <2>1, <5>1 DEF IInv, VersionsInv, NoJob, NoVersion, pipelineVars
        <5>3. FreshInv' /\ WaitInv' /\ JobMatchesSnapshot'
          BY <1>3, <5>1 DEF IInv, FreshInv, WaitInv, JobMatchesSnapshot, publishVars
        <5> QED BY <5>2, <5>3
      <4>3. CASE ~ManagerReplaced
        <5>1. /\ timeouts' = timeouts /\ completed' = completed
              /\ lastScheduled' = lastScheduled /\ lastTimedOut' = lastTimedOut
              /\ job' = [job EXCEPT !.live = FALSE]
          BY <1>3, <4>1, <4>3 DEF CountsKept, Kept
        <5>2. job'.version = job.version /\ job'.shards = job.shards
          BY <1>1, <5>1 DEF TypeOK
        <5> QED
          BY <1>3, <2>1, <2>5, <4>1, <5>1, <5>2
             DEF IInv, FreshInv, VersionsInv, WaitInv, JobMatchesSnapshot,
                 pipelineVars, publishVars
      <4> QED BY <4>2, <4>3
    <3>3. CASE IndexCompletes
      <4>1. /\ completed' = job.version
            /\ job' = [job EXCEPT !.live = FALSE]
            /\ UNCHANGED <<lastScheduled, lastTimedOut, timeouts, waiting>>
        BY <3>3 DEF IndexCompletes, callVars
      <4>2. job'.version = job.version /\ job'.shards = job.shards
        BY <1>1, <4>1 DEF TypeOK
      <4>3. FreshInv' /\ VersionsInv' /\ JobMatchesSnapshot'
        BY <1>2, <1>3, <2>1, <2>5, <4>1, <4>2
           DEF IInv, FreshInv, VersionsInv, JobMatchesSnapshot, pipelineVars, publishVars
      <4>4. completed <= completed'
        BY <4>1 DEF IInv, VersionsInv
      <4>5. WaitInv'
        BY <1>2, <1>3, <4>1, <4>4 DEF IInv, WaitInv
      <4> QED BY <4>3, <4>5
    <3>4. CASE \/ \E p \in Paths : \E t \in TextsOf[p] \cup {NoText} : FileChanges(p, t)
               \/ UNCHANGED vars
      <4>1. UNCHANGED <<indexVars, waiting>>
        BY <3>4 DEF FileChanges, vars, callVars
      <4> QED
        BY <1>3, <2>1, <2>5, <4>1
           DEF IInv, FreshInv, VersionsInv, WaitInv, JobMatchesSnapshot,
               pipelineVars, publishVars, indexVars
    <3> QED BY <1>7, <3>1, <3>2, <3>3, <3>4
  <2> QED BY <1>1, <1>4, <2>3, <2>4, <2>6 DEF IInv
<1> QED BY <1>6, <1>7

-----------------------------------------------------------------------------
(* The invariant holds.                                                    *)

(* The editor opens a file under one URI at a time. *)
LEMMA OneUriForEachPath ==
  ASSUME IInv, NEW u \in Uris, NEW t \in Texts \cup {NoText},
         u \in OpenUris \/ UriPath[u] \notin Overlays,
         documents' = [documents EXCEPT ![u] = t]
  PROVE  DocumentsInv'
<1>1. documents \in [Uris -> Texts \cup {NoText}]
  BY DEF IInv, TypeOK, AnalysisTypeOK
<1>2. OpenUris' \subseteq OpenUris \cup {u}
  BY <1>1 DEF OpenUris
<1> QED BY <1>2 DEF IInv, DocumentsInv, Overlays

(* The messages that change documents or configuration and then analyse.   *)
EditAndPublish ==
    \/ \E u \in Uris :
          \/ \E t \in TextsOf[UriPath[u]] : DidOpen(u, t) \/ DidChange(u, t)
          \/ DidClose(u)
    \/ \E r \in RootSets : DidChangeConfiguration(r)

LEMMA EditInputs ==
  ASSUME IInv, EditAndPublish
  PROVE  InputsTypeOK' /\ DocumentsInv' /\ ~waiting /\ AnalyseAndPublish
<1>1. TypeOK
  BY DEF IInv
<1>2. ASSUME NEW u \in Uris, NEW t \in TextsOf[UriPath[u]], DidOpen(u, t) \/ DidChange(u, t)
      PROVE  InputsTypeOK' /\ DocumentsInv' /\ ~waiting /\ AnalyseAndPublish
  BY <1>1, <1>2, DocumentTypes, OneUriForEachPath DEF DidOpen, DidChange
<1>3. ASSUME NEW u \in Uris, DidClose(u)
      PROVE  InputsTypeOK' /\ DocumentsInv' /\ ~waiting /\ AnalyseAndPublish
  BY <1>1, <1>3, DocumentTypes, OneUriForEachPath DEF DidClose
<1>4. ASSUME NEW r \in RootSets, DidChangeConfiguration(r)
      PROVE  InputsTypeOK' /\ DocumentsInv' /\ ~waiting /\ AnalyseAndPublish
  BY <1>1, <1>4 DEF DidChangeConfiguration, TypeOK, AnalysisTypeOK, InputsTypeOK,
                    IInv, DocumentsInv, OpenUris
<1> QED BY <1>2, <1>3, <1>4 DEF EditAndPublish

LEMMA InvStep == ASSUME IInv, [Next]_vars PROVE IInv'
<1>1. CASE EditAndPublish
  BY <1>1, EditInputs, InvAnalyse
<1>2. ASSUME NEW u \in Uris, NEW t \in TextsOf[UriPath[u]], DidOpenReusing(u, t)
      PROVE  IInv'
  BY <1>2, InvOpenReusing
<1>3. CASE AnalysisRequest \/ WorkspaceSymbol
  BY <1>3, InvRequest, InvSymbol
<1>4. CASE \/ WaitEnds \/ AiToolUse \/ IndexVerifyRepair \/ IndexCompletes
           \/ \E p \in Paths : \E t \in TextsOf[p] \cup {NoText} : FileChanges(p, t)
           \/ UNCHANGED vars
  BY <1>4, InvOthers
<1> QED BY <1>1, <1>2, <1>3, <1>4 DEF Next, EditAndPublish

(* The invariant holds in every state of the server. *)
LEMMA InvCorrect == Spec => []IInv
<1>1. Init => IInv
  BY InvInit
<1>2. IInv /\ [Next]_vars => IInv'
  BY InvStep
<1> QED
  BY <1>1, <1>2, PTL DEF Spec

-----------------------------------------------------------------------------
(* What the server owes the editor.                                        *)

(* publishDiagnosticsFromAnalysis takes back what earlier results left in  *)
(* the editor, and didOpen, which publishes for one document only, adds    *)
(* nothing that is not in the latest result.                               *)
THEOREM ShowsTheLatest == Spec => []ShownIsLatest
<1>1. IInv => ShownIsLatest
  BY DEF IInv
<1> QED
  BY <1>1, InvCorrect, PTL

(* Whenever no AI tool has run the pipeline since the latest analysis, the *)
(* diagnostics of an open document are about its text, although            *)
(* canReuseDidOpenAnalysis takes them from a result made before it was     *)
(* opened, perhaps for the file on disk.                                   *)
THEOREM ShowsTheText == Spec => []OpenShowsItsText
<1>1. IInv => OpenShowsItsText
  BY DEF IInv
<1> QED
  BY <1>1, InvCorrect, PTL

(* scheduleWorkspaceIndex takes the version from the latest result and the *)
(* shards from the pipeline.  They belong together whenever no AI tool has *)
(* run the pipeline since the latest analysis, tools that ran before it    *)
(* included; in the states after a tool's run nothing is claimed.          *)
THEOREM SchedulesTheSnapshot == Spec => []JobMatchesSnapshot
<1>1. IInv => JobMatchesSnapshot
  BY DEF IInv
<1> QED
  BY <1>1, InvCorrect, PTL

(* lastTimedOutIndexWaitSnapshotVersion_ keeps workspace/symbol from       *)
(* waiting in vain for one snapshot twice.                                 *)
THEOREM WaitsOnce == Spec => []WaitsInVainOnce
<1>1. IInv => WaitsInVainOnce
  BY DEF IInv, WaitInv, WaitsInVainOnce
<1> QED
  BY <1>1, InvCorrect, PTL

(* An incremental run of AnalysisPipeline leaves in the caches, for each   *)
(* file, the text of the definition that a run from nothing would leave,   *)
(* and for each file that is present its parse diagnostics: what run       *)
(* parses again includes all that changed, whoever calls it, whatever was  *)
(* left by earlier runs.  Nothing is claimed of the names definitions were *)
(* parsed under nor of the diagnostics of files that are gone.             *)
THEOREM RunsAreCurrent == Spec => CacheIsCurrent
<1>1. ASSUME IInv, IInv', [Next]_vars, snapshotVersion' # snapshotVersion
      PROVE  \A p \in Paths :
                /\ cached'[p].text = FreshDefinition(p)'.text
                /\ p \in Present' => parseDiagnostics'[p] = FreshDiagnostics(p)'
  <2>1. AnalysisTypeOK /\ CachesInv /\ TypeOK /\ VersionsInv
    BY <1>1 DEF IInv, TypeOK
  <2>2. InputsTypeOK'
    BY <1>1 DEF IInv, TypeOK, AnalysisTypeOK, InputsTypeOK
  <2>3. RunPipeline
    <3>1. CASE EditAndPublish
      BY <1>1, <2>1, <3>1, EditInputs, SnapshotIsNewOrKept DEF AnalyseAndPublish
    <3>2. CASE AnalysisRequest \/ WorkspaceSymbol
      BY <1>1, <2>1, <3>2, SnapshotIsNewOrKept DEF AnalysisRequest, WorkspaceSymbol, pipelineVars
    <3>3. CASE AiToolUse
      BY <3>3 DEF AiToolUse
    <3>4. CASE ~(EditAndPublish \/ AnalysisRequest \/ WorkspaceSymbol \/ AiToolUse)
      BY <1>1, <3>4 DEF Next, EditAndPublish, DidOpenReusing, WaitEnds, IndexVerifyRepair,
                        IndexCompletes, FileChanges, vars, pipelineVars
    <3> QED BY <3>1, <3>2, <3>3, <3>4
  <2> QED BY <2>1, <2>2, <2>3, RunIsCurrent
<1>2. IInv /\ IInv' /\ [Next]_vars
        => [snapshotVersion' # snapshotVersion =>
              \A p \in Paths :
                /\ cached'[p].text = FreshDefinition(p)'.text
                /\ p \in Present' => parseDiagnostics'[p] = FreshDiagnostics(p)']_vars
  BY <1>1
<1> QED
  BY <1>2, InvCorrect, PTL DEF Spec, CacheIsCurrent

(* A stale result that an AI tool's run left behind lasts only until the   *)
(* next edit: after a didOpen that is not reused, a didChange, a didClose  *)
(* or a change of configuration every open document shows diagnostics of   *)
(* the text it has.                                                        *)
EditsShowTheText == [][EditAndPublish => TextIsShown']_vars

(* publishDiagnosticsFromAnalysis, which ends each of these handlers,      *)
(* publishes for every open document.                                      *)
THEOREM EditsRepair == Spec => EditsShowTheText
<1>1. IInv /\ [Next]_vars => [EditAndPublish => TextIsShown']_vars
  BY EditInputs, AnalysisShowsText
<1> QED
  BY <1>1, InvCorrect, PTL DEF Spec, EditsShowTheText

=============================================================================
