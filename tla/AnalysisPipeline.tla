--------------------------- MODULE AnalysisPipeline ---------------------------
(***************************************************************************)
(* Incremental analysis of the workspace (AnalysisPipeline::run of         *)
(* lib/LSP/Analysis.cpp).  A run discovers the definition files below the  *)
(* configured roots, lays the open documents over them, parses again what  *)
(* has changed since the last run together with its dependents, and        *)
(* analyses everything it has cached.                                      *)
(*                                                                         *)
(* A definition is named by its path when it is below a root; an open      *)
(* document that is not has an "__overlay" name no text refers to.  Of the *)
(* problems a run reports two kinds are told apart: a text that does not   *)
(* parse, whose verdict is kept with its path, and a reference that does   *)
(* not resolve, which stands for all that semantic analysis computes       *)
(* afresh from the cached definitions.                                     *)
(*                                                                         *)
(* A handler of the server changes documents or configuration first and    *)
(* calls run next, in one step: run reads their new, primed values.        *)
(***************************************************************************)
EXTENDS Naturals, FiniteSets

CONSTANTS
    Paths,         \* normalised paths of definition files
    TextsOf,       \* the texts each of these files may have
    Parses,        \* the texts that parse
    Refs,          \* the definitions each of these texts refers to
    Uris,          \* the URIs of documents
    UriPath,       \* uriToNormalizedPath
    CanonicalUri,  \* normalizedPathToFileUri
    RootSets,      \* for each configuration of roots, the paths below them
    NoText         \* no file, no document, no parse diagnostics

Texts == UNION {TextsOf[p] : p \in Paths}

ASSUME AnalysisConstants ==
    /\ IsFiniteSet(Paths) /\ IsFiniteSet(Uris)
    /\ DOMAIN TextsOf = Paths
    /\ Parses \subseteq Texts
    /\ Refs \in [Parses -> SUBSET Paths]
    /\ UriPath \in [Uris -> Paths]
    /\ CanonicalUri \in [Paths -> Uris]
    /\ \A p \in Paths : UriPath[CanonicalUri[p]] = p
    /\ RootSets \subseteq SUBSET Paths
    /\ NoText \notin Texts

VARIABLES
    disk,              \* the files
    documents,         \* DocumentStore: the open documents
    roots,             \* config.rootNamespaceDirs and lookupDirs
    cached,            \* cachedDefinitionsByPath_
    parseDiagnostics,  \* parseDiagnosticsByPath_: the text that did not parse
    cachedRoots,       \* cachedRootNamespaceDirs_ and cachedLookupDirs_
    snapshotVersion    \* snapshotVersion_

inputVars    == <<disk, documents, roots>>
pipelineVars == <<cached, parseDiagnostics, cachedRoots, snapshotVersion>>

NoDef       == [text |-> NoText, named |-> FALSE]
Definitions == [text : Parses, named : BOOLEAN]

AnalysisTypeOK ==
    /\ disk \in [Paths -> Texts \cup {NoText}]
    /\ documents \in [Uris -> Texts \cup {NoText}]
    /\ roots \in RootSets
    /\ cached \in [Paths -> Definitions \cup {NoDef}]
    /\ parseDiagnostics \in [Paths -> (Texts \ Parses) \cup {NoText}]
    /\ cachedRoots \in RootSets \cup {{}}
    /\ snapshotVersion \in Nat

AnalysisInit ==
    /\ cached = [p \in Paths |-> NoDef]
    /\ parseDiagnostics = [p \in Paths |-> NoText]
    /\ cachedRoots = {}
    /\ snapshotVersion = 0

-----------------------------------------------------------------------------
(* What a run is made on.                                                  *)

OpenUris      == {u \in Uris : documents[u] # NoText}
Overlays      == {UriPath[u] : u \in OpenUris}
OverlayUri(p) == CHOOSE u \in OpenUris : UriPath[u] = p

Discovered == {p \in roots : disk[p] # NoText}
Present    == Discovered \cup Overlays

TextOf(p) == IF p \in Overlays THEN documents[OverlayUri(p)] ELSE disk[p]

(* What parsing a path afresh leaves in the two caches.                    *)
FreshDefinition(p) ==
    IF p \in Present /\ TextOf(p) \in Parses
    THEN [text |-> TextOf(p), named |-> p \in Discovered] ELSE NoDef

FreshDiagnostics(p) ==
    IF p \in Present /\ TextOf(p) \notin Parses THEN TextOf(p) ELSE NoText

-----------------------------------------------------------------------------
(* What a run parses again.                                                *)

CachedPaths == {p \in Paths : cached[p] # NoDef}

FullRebuild == roots' # cachedRoots \/ CachedPaths = {}

Vanished == CachedPaths \ Present'

ChangedOnDisk == {p \in Present' : cached[p].text # disk[p]}
Changed       == {p \in Present' : cached[p].text # TextOf(p)'}

DirtyPaths == IF FullRebuild THEN Present' \cup CachedPaths ELSE Vanished \cup Changed

(* The cached definitions that refer to p by its old or its new name.      *)
Dependents(p) ==
    {q \in CachedPaths : (cached[p].named \/ p \in Discovered') /\ p \in Refs[cached[q].text]}

Closed(S) == \A p \in S : Dependents(p) \subseteq S

(* The work list that starts with the dirty paths.                         *)
ImpactedPaths ==
    LET dirty == DirtyPaths
    IN  IF FullRebuild THEN dirty
        ELSE {q \in Paths : \A S \in SUBSET Paths : dirty \subseteq S /\ Closed(S) => q \in S}

RunPipeline ==
    /\ LET impacted == ImpactedPaths
       IN  /\ cached' = [p \in Paths |->
                    IF p \in impacted THEN FreshDefinition(p)' ELSE cached[p]]
           /\ parseDiagnostics' = [p \in Paths |->
                    IF p \in impacted THEN FreshDiagnostics(p)' ELSE parseDiagnostics[p]]
    /\ cachedRoots' = roots'
    /\ snapshotVersion' = snapshotVersion + 1

-----------------------------------------------------------------------------
(* What a run reports.                                                     *)

Unresolved(p) ==
    /\ cached[p] # NoDef
    /\ \E q \in Refs[cached[p].text] : ~cached[q].named

Problems(p) ==
    (IF parseDiagnostics[p] # NoText THEN {<<"parse", parseDiagnostics[p]>>} ELSE {})
    \cup (IF Unresolved(p) THEN {<<"unresolved", cached[p].text>>} ELSE {})

UriOf(p) == IF p \in Overlays THEN OverlayUri(p) ELSE CanonicalUri[p]

DiagnosticsByUri ==
    [u \in Uris |-> UNION {Problems(p) : p \in {q \in Paths : UriOf(q) = u}}]

(* documentTextMatches.                                                    *)
DocumentTextMatches(u, t) == cached[UriPath[u]] # NoDef /\ cached[UriPath[u]].text = t

(* buildIndexShards: one shard for each cached definition.                 *)
IndexShards == {<<p, cached[p]>> : p \in CachedPaths}

=============================================================================
