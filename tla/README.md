# TLA+ models of llvm-dsdl

llvm-dsdl compiles DSDL, the interface language of Cyphal, to several
languages (`dsdlc`), and serves editors with a language server (`dsdld`).
This directory holds TLA+ models of the parts whose correctness is a matter of
ordering, failure and stale state, the TLC configurations that check them on
small instances, and proofs for all instances that `tlapm` checks.

The repository has two halves.  The language server (`lib/LSP`) keeps state for
a long time, runs several threads, writes files another process reads later and
reacts to calls in any order.  The compiler is sequential, text in and text
out, but what it makes is a protocol: a message is written by one program and
read by another, possibly of another version, possibly cut short, and the
constants in both programs come from what a pass believed about offsets.  Both
halves are modelled; the text output is not.

## The system

| Component | Source | State | Operations | Model |
|---|---|---|---|---|
| Request scheduler | `lib/LSP/RequestScheduler` | queue, map from request key to cancel flag, stop flag, one worker thread | enqueue, cancel, shutdown, worker loop | `RequestScheduler`, `SchedulerPromise` |
| Index manager | `lib/LSP/Index` (`IndexManager`, `IndexStorage`, `WorkspaceIndex`) | index in memory, pending and active job, statistics, one worker thread, shard files | scheduleRebuild, waitForSnapshot, verifyAndRepair, shutdown, warm start, worker loop, writeShard | `IndexManager`, `ShardKey` |
| Analysis pipeline | `lib/LSP/Analysis` | parsed definitions and parse diagnostics by path, the roots of the last run, snapshot version | run, documentTextMatches, buildIndexShards, navigation queries | `AnalysisPipeline` |
| Document store | `lib/LSP/DocumentStore` | open documents by URI | open, applyFullTextChange, close, snapshots | in `AnalysisPipeline`, `LspServer` |
| Server | `lib/LSP/Server` | dirty flag, latest result, published URIs, versions scheduled and timed out, suggestions | one handler per message | `LspServer`; its dispatch in `RequestProtocol` |
| Transport, main loop | `lib/LSP/JsonRpcIO`, `tools/dsdld` | streams, write lock | readMessage, writeMessage | `RequestProtocol` |
| Adaptive ranking | `lib/LSP/Ranking` | counters by key, tick, dirty flag, a file | noteExposure, noteSelection, prune, load, flush | not modelled |
| AI provider and tools | `lib/LSP/AI` | audit log | policy, suggestions, tools | the tools' use of the pipeline, in `LspServer` |
| Lint, configuration, telemetry, logging | `lib/LSP` | counters | pure rules, parsing, counting | the counting of requests, in `RequestProtocol` |
| Front end | `lib/Frontend` | none between runs | discovery, parsing, target resolution, dependency files | not modelled |
| Semantic analyser | `lib/Semantics/Analyzer` | visit state and result of each definition, the call stack | the walk, statements of a section, name resolution, version rules | `DefinitionAnalysis` |
| Bit-length sets | `lib/Semantics` (`BitLengthSet`, `RunSet`) | expressions, the runs of each once asked for | sum, union, padding, repetitions; extremes, residues, expansion, comparisons | `RunArithmetic`, `BitLengths` |
| Evaluator | `lib/Semantics/Evaluator` | none | arithmetic on rationals and sets, queries of `_offset_` | the queries, in `OffsetQueries` |
| Layout | `lib/Semantics` (`Analyzer`, `AliasLayout`) | none | offsets of sections, wire-flat and host-image verdicts | `TypeLayout` |
| Plan bodies | `lib/Lowering`, `lib/Transforms`, `lib/SerDes` | what is known of the offset, the operations built | lowering to steps, helpers, typed bodies, host-image fold, getters, alias verification | `TypeLayout`, `PlanBodies` |
| C runtime | `runtime/dsdl_runtime.h` | none | bit copy, integer getters and setters | in `PlanBodies` |
| Naming | `lib/Support` | scopes of names | identifier formatting and collisions | not modelled |
| Code generators | `lib/CodeGen` | none | text in six languages | not modelled |
| Other runtimes | `runtime` | none | the C runtime's helpers in five languages | not modelled |
| `dsdlc`, `dsdl-opt` | `tools` | none | command line | not modelled |

Three threads meet in `dsdld`.  The **main thread** reads a message and
handles it to the end before it reads the next.  The **scheduler's worker**
runs the requests that can be cancelled (today `dsdld/debug/sleep`) and writes
their responses.  The **index worker** writes the shards of the latest
snapshot and replaces the index.  The main thread calls both workers' owners;
they call it back only through what it waits for.  The index's shard files
outlive the process.

What is hard here:

* a cancel, a shutdown or a reused id that meets a request while it is queued,
  popped, running, finished or being answered;
* a wake-up that is lost because a flag is set and a notification sent in
  different lock scopes;
* an index job that is replaced, cancelled, repaired over or shut down at any
  point of its writes, with file operations that fail and a process that ends;
* caches that must agree with documents, files and configuration that change
  between runs, while each run looks only at what it believes has changed;
* results published, scheduled or reused for another state than the present one;
* a recursive walk that meets definitions half analysed, in whatever order a
  module names them, with a limit on its depth;
* serialisation code specialised with offsets a pass took for known, past
  arrays, unions and nested types whose lengths vary;
* messages read into storage that holds something else, cut short at any byte,
  or written by another minor version of the type;
* sets of lengths too large to enumerate, about which every answer must be exact
  or refused, though budgets run out and sums overflow half way.

`PROJECT.json` lists each as a hazard at its line, with the properties that
would notice it going wrong.

## RequestScheduler

State: `queue_`, `requestStates_`, the flag of each request, `stopping_`, and
where the worker and each caller of `shutdown` are.  A critical section of the
code is one step; what the code does between two sections is a step of its
own, so that every interleaving of `enqueue`, `cancel` and `shutdown` with
`run()` occurs.  Sleeping on the condition variable is modelled: a worker in
`blocked` only goes on when notified (or spuriously), which makes a lost
wake-up a deadlock that `ShutdownReturns` and the liveness of the refinement see.

| Code | Model |
|---|---|
| `Impl::enqueue` | `EnqueueAccepted`, `EnqueueRejected`; `CanAccept`, `Pushed`, `Notify` |
| `Impl::cancel` | `Cancel` |
| `Impl::shutdown` | `ShutdownMark`, `ShutdownNotify`, `ShutdownJoin`; `ShutdownLate` for a second caller, which returns without joining |
| `Impl::run`, wait and pop | `WorkerBlocks`, `SpuriousWakeup`, `WorkerPops`, `WorkerExits` |
| flag test, task, erase, completion | `WorkerSkips`, `WorkerStarts`, `TaskReturns`, `WorkerErases`, `WorkerCompletes` |

The flag is a relaxed atomic; it is one location read after a lock was taken,
so reading it at one instant loses no behaviour.  A task may report any
status, but `Cancelled` only when its token says so, as its only user does.

`SchedulerPromise` says what the callers rely on: requests are served in the
order in which they were accepted, each gets one outcome, nothing cancelled
before its turn is run, and once closed nothing is accepted and everything
accepted is answered.  `ImplementsPromise` maps the queue, the worker's place
and the map onto it, including its liveness.

Run `scheduler`: four calls over three keys, one of them used twice, at most two
pending, two closers: enough for a reused key while its predecessor is in any
place, a full queue, and a late closer.  That no completion is called twice
(`CompletedAtMostOnce`) and that a request cancelled while queued never runs
(`EarlyCancelHonoured`) is part of the promise; both are proved below.

## RequestProtocol

The main loop of `dsdld`, the server's dispatch, and the transport, composed
with `RequestScheduler` by an instance whose keys are what `requestKeyFromId`
makes of the ids and whose only closer is the main thread.  A step of the
worker that writes is split at the header and the payload, so that the two
threads that write responses meet on the lock.

| Code | Model |
|---|---|
| `runDsdld`: the loop | `Reads`, `HandleGarbled`, `InputIsOver`, `LeaveLoop`, `CloseNotifies`, `Closes` |
| `readMessage` | a message, a whole frame that is not JSON (`garbled`), or the end of the input: a stream that ends in a frame or loses its framing is never read again |
| `writeMessage` | `WriterMayGo`, `WritesHeader`, `WritesPayload` |
| requests answered by the main thread | `HandleSync`, `MainWritesHeader`, `MainWritesPayload` |
| `dsdld/debug/sleep` | `HandleSleepQueued`, `HandleSleepRefused`; its completion `CompletionWritesHeader`, `CompletionWritesPayload` |
| `$/cancelRequest`, `exit` | `HandleCancel`, `HandleExit` |
| `recordRequestTelemetry` | `Records`, `RecordedByMain` |

The client is the environment.  It reuses an id only when it has the response,
cancels only what is not answered in its eyes, and may stop in the middle.  Its
messages arrive in order, with up to two unread.  A failing write is only
logged by the code and changes nothing, so it is not an action.

Run `request_protocol`: every request read is answered once, by the thread that
has it, with a whole frame, and the process ends when the client leaves.  Three requests for the scheduler, which takes one at a
time, and one for the main thread; three of the four share an id and the
fourth's is a string that reads the same.  Five messages and an exit are enough
for a cancellation that arrives after its answer and before a successor.

## IndexManager and ShardKey

State: shard files and their `.tmp` siblings, `index_`, `indexedPaths_`,
`pendingJob_`, the active job and its flag, `stats_`, `stopping_`, and where
the worker and the one calling thread are.  A snapshot is the set of files it
has; a shard is its path and the version it was made for, which is all the
properties tell apart.

| Code | Model |
|---|---|
| `scheduleRebuild` | `ScheduleRebuild` |
| `waitForSnapshot` | `WaitForSnapshot`, `SnapshotReady`, `SnapshotSleeps`, `SnapshotTimesOut` |
| `verifyAndRepair`, `waitForIdle` | `BeginRepair`, `IdleReached`, `IdleSleeps`, `Repair` |
| `shutdown` | `ShutdownMark`, `ShutdownNotify`, `ShutdownJoin` |
| `workerLoop` | `WorkerBlocks`, `WorkerExits`, `TakeJob`, `Report`, `NotifyCaller` |
| `applyJob` | `AbandonJob`, `WriteTemp`, `RenameTemp`, `FindStale`, `RemoveStale`, `LastCheck`, `Commit` |
| `writeShard` failing | `WriteFails`, `RenameFails`, `RetryFails` |
| constructor and `warmStartLoad` | `Init`, `Restart` |

A crash is a crash of the process: what it wrote is there afterwards.  A
temporary file is complete or absent; nothing ever reads one, so a half-written
one behaves the same.  `DamageShard` is damage from outside.  One thread calls
the manager, as the server's main thread does.

`SnapshotIsDurable` and `NoShardLost` excuse a path whose write or rename failed
until its shard is next put in place (`excused`), because the code ignores the
failure and reports the job complete.  So they do not promise that nothing is
lost when `writeShard` removes the target and tries the rename again: if that
fails too, or the process ends in between, the file has no shard.  They say that
no other file suffers, and that the next job to write that file makes up for it.
`IndexIsWhole` speaks of a job at work too: nothing of its snapshot is in the index
before all of it is, which is what `waitForIdle` is for in `verifyAndRepair`.  Shard files that two paths share are excluded there by giving each path its
own; `index_collision` uses the names the code computes.

`ShardKey` is `encodeShardKey` on a path as a sequence of characters.

Runs: `index` (two snapshots of two paths, a restart at any step, one failing
operation or damaged shard; safety and liveness together), `index_repair` and
`index_collision` (findings below).  Two snapshots let a job be replaced,
cancelled, repaired over or restarted half way; that longer sequences add nothing
to the safety properties is what the proofs show.

## AnalysisPipeline and LspServer

`AnalysisPipeline` is one run of the pipeline as an operator on the caches:
which paths are discovered or overlaid, which are dirty, which of the others
depend on a dirty one (the closure is the least closed set, which is what the
work list computes), and what parsing each leaves behind.  A text either
parses and refers to a set of definitions or does not parse.  Of the problems
a run reports two remain: one that is stored with the path (a parse error) and
one that is computed afresh (an unresolved reference).  They are the two ways
in which a report can be stale.

`LspServer` is the main thread: one action per message, each doing all that the
handler does, from the change of the document to the publication and the index
job.  Only the wait for the index is split in two, as the index worker and the
file system go on meanwhile.

| Code | Model |
|---|---|
| `ensureAnalysisSnapshot` | `EnsureSnapshot` |
| `ensureIndexManager` | `ManagerReplaced`, `Kept`, `CountsKept` |
| `scheduleWorkspaceIndex` | `ScheduleIndex`, `MustWaitForIndex`, `TimedOutForgotten`, `WaitEnds` |
| `publishDiagnosticsFromAnalysis` | `PublishAll`, `AnalyseAndPublish` |
| `didOpen`, and the reuse of an analysis | `DidOpen`, `DidOpenReusing`, `CanReuseDidOpenAnalysis` |
| `didChange`, `didClose`, `didChangeConfiguration` | `DidChange`, `DidClose`, `DidChangeConfiguration` |
| requests that analyse, `workspace/symbol` | `AnalysisRequest`, `WorkspaceSymbol` |
| `dsdld/ai/toolUse`, `dsdld/debug/indexVerifyRepair` | `AiToolUse`, `IndexVerifyRepair` |

The editor is assumed to follow the protocol: it opens a document once, and
under one URI.  Left out: diagnostics of discovery, lint and lowering, which
are computed like the unresolved references; parse errors of a text whose
remainder parses; navigation queries, which read the caches; and documents
whose URI is spelt differently from the one the server computes from the path.
From here the index manager is one job, which completes or is cancelled; a job
that was replaced is taken to be gone, while `IndexManager` knows that it may
still commit before its successor.

Run `lsp_server`: two files, one of which may refer to the other, texts that
parse or not, one file inside or outside the roots, three runs of the
pipeline of which an AI tool may make one.  Three runs let a cache be filled,
go stale and be used; the states between them are all combinations of open
documents and files.

An AI tool's run makes the pipeline newer than the server's latest result.
`OpenShowsItsText` and `JobMatchesSnapshot` therefore speak of the states in which
the latest result comes from the pipeline's last run (`ResultIsOfLastRun`), those
after earlier runs of tools included; what happens in the others is reported
below.  `CacheIsCurrent` compares the texts of the cached definitions, and the
parse diagnostics of the files present, with those of a run from nothing.  It
leaves out the names definitions were parsed under and the diagnostics of files
that are gone, which may be stale (below).  Parsing again what depends on a
changed definition is not needed for it: parsing looks at one text only, and
semantic analysis is done afresh over all cached definitions in each run
(`Analysis.cpp:850`).

## TypeLayout and PlanBodies

What a definition becomes on the wire, and the programs that write and read it.

`TypeLayout` computes, as functions over numbered definitions, the set of
offsets a section may end at, the steps of its plan, the initial object, the
fixed offsets of fields, and the alias layout: whether the wire form is one
image of bytes (`computeWireFlat`), whether the generated structure is that
image (`computeHostImage`), and what the lowering derives once more from the
steps (`verifyPlan`).

`PlanBodies` runs the bodies.  State: the object, the wire (the set of the
positions of its one bits), a stack of frames - a body per composite being
written or read, with its offset, buffer and error - and what the caller does.
Each step carries what the *builder* knew of the offset when it built the step
(`PlanCursor`): the offset, the offset modulo eight, or nothing.  It uses that
knowledge where the builder spells a constant and the real offset elsewhere, so
a wrong belief makes a wrong message.

| Code | Model |
|---|---|
| `analyzeType`, `analyzeSection`: offsets | `FieldLengths`, `ScalarLengths`, `SectionLengths`, `OffsetAtEnd` |
| `lowerToMLIR`, `canonicalizePlan`: steps | `FieldSteps`, `StepsOf` |
| helper functions of scalars, counts, tags, headers | `WrittenValue`, `ReadValue`, `PrefixValue`, `TagValue`, `TooLong`, `BeyondBuffer` |
| `PlanCursor` and who advances it | `KnownPast`, `KnownAligned`, `KnownPastElements`, `Meet` |
| `buildTypedSerializeBody`, `buildTypedDeserializeBody` | `Built`, `BodyOf`; the actions `Serialize`, `Deserialize`, `Return` |
| scalars, padding, alignment | `WriteScalar`, `ReadScalar`, `Padding`, `Align` |
| unions, arrays | `WriteTag`, `ReadTag`, `WriteArray`, `ReadArray`, `WriteElement`, `ReadElement`, `EndArray` |
| nested composites | `EnterSealed`, `LeaveSealed`, `EnterDelimited`, `LeaveDelimited` |
| `FoldDSDLHostImageBodies`, `ImageWriteLowering`, `ImageReadLowering` | `Moved`, `WriteImage`, `ReadImage` |
| `dsdl_runtime_copy_bits`, `get_bits`, getters and setters | `CopyBits`, `GetBits`, `WithBits`, `BitsAt` |
| `buildFieldAccessors` | `Getter` |

Only a target whose objects are byte images folds, so for each definition that
could be folded the model chooses either body, for the writer and the reader
each.  The reader gets storage with stale contents; it reads what was delivered,
cut at any byte, and then the same bytes with zeros in the place of what was
cut.  Left out: floats, whose helpers convert by a library; members held as
views; null arguments; setters; and the variant for an object and a buffer that
share their storage.

Run `plan_bodies`: about five hundred definitions - every structure and every union of
two out of fourteen kinds of fields, and structures of three whole-byte fields
for the images - with values in and out of range, arrays empty, full and too
long, tags without an option, buffers of the longest size and one byte less.
Two fields are enough for one to start wherever the other may end.  The
delimiter header has 16 bits instead of 32, which still is more than one byte
and only shortens the messages.  Nested definitions go one deep, and two where a
nested one has a nested one.

`ReadsAsWritten` and `WrittenIffValid` compare with functions on objects that know
nothing of bits (for `WrittenIffValid` the set `ValidObjects` of the objects that
fit their definition); `GettersAgree` compares what a body read with what the
accessors answer from the same bytes; `ImageIsTheStructure` compares the
verdicts with the structure a C compiler lays out.  That one has to be `Plain`: a
void field has no member there, and an array of bools is packed into bytes by the
C generator, eight to each, so the compiler's layout of a scalar says nothing of
it, and `computeHostImage` makes no image of either.

## DefinitionAnalysis

State: `state_`, `results_`, the diagnostics, and the calls of `analyzeOne` that
run: analysing a statement may call `analyzeOne` for what it refers to, so the
walk is a stack of frames, each in the middle of a section.

| Code | Model |
|---|---|
| `run` | `Start`, `CheckVersionRules` |
| `analyzeOne` | `Visit` (done, on a cycle, too deep, new), `EndRequest`, `Finish` |
| `resolveCompositeType` | `Candidates`, `Resolved` |
| the statements: directives, constants, fields, padding | `Refer`, `Take`; `StatementErrors`, `Taken` |
| end of a section | `SectionErrors`, `Closed` |
| `checkVersionRules` | `MinorErrors`, `PortErrors` |
| `annotateAliasLayout`, `VerifyDSDLAliasLayoutPass` | `HostImage`, `LowerAndVerify` |

Lengths are in bytes, a scalar takes one, and expressions are numbers, `_offset_`
or attributes of other definitions.  Left out: `@print`, `@aliasable`, unknown
directives, kinds of values, variable-length arrays, the external catalogue.

Run `definition_analysis`: five families of modules - three definitions that refer
to each other in every way; one definition of every sequence of three statements
out of ten, with longer ones for unions; services; minor and major versions
with ports; a name with several meanings.  `VerdictIsJust` judges each module once
more by rules stated over all of it at once.  The depth limit is 2 here, so that three
definitions pass it; a circle of three is then refused as too deep, and cycles are those
of one or two.  Minor versions of one service are in no family.  Run `nesting_limit` has the limits of the code.

## RunArithmetic, BitLengths and OffsetQueries

The analyser asks of a set of lengths that may have billions of elements for its
extremes, its residues, whether it equals another.  A set is an expression over
leaves, and there are three ways to an answer: symbolic (extremes, residues), by
*runs* (arithmetic progressions that share no element), and by an expansion to
the least few elements.  Each may give up, and the next one is tried.

| Code | Model |
|---|---|
| `makeRun`, `intersectRuns`, `subtractSubProgression` | `MakeRun`, `Intersection`, `Remainder` |
| `insertRun`, `coalesce`, `unite` | `PlaceAll`, `Placed`, `Coalesced`, `Unite` |
| `sum`: bitmap, pairs, run by run | `Sum`, `BitmapSum`, `StructuralSum` |
| `paddedTo`, `repeated`, `repeatRange`, `residues` | `PaddedTo`, `Repeated`, `RepeatedUpTo`, `RunResidues` |
| `Node::min`, `summary`, `residues`, `expandNode`, `runSet` | `Minimum`, `Maximum`, `Saturates`, `Residues`, `Expanded`, `RunsOf` |
| `modulo`, `is_aligned_at`, `equalsExact`, `isSubsetOfExact` | `Modulo`, `AlignedAt`, `EqualsExact`, `IsSubsetOfExact` |
| the operators and builders of `BitLengthSet` | `Leaf`, `Add`, `Union`, `PadToAlignment`, `Repeat`, `RepeatRange` |
| `_offset_.count`, `materializeExact`, `decideSetEquality`, the comparisons | `CountOf`, `MaterializeExact`, `EqualsLiteral`, `CompareLiteral`, `CompareSets` |

State: a stack of expressions.  Each carries what its evaluations memoise and,
as the reference, the set itself, by enumeration.  `Drop` begins a new one, as
the analyser does for the next definition.

The limits of the code are constants, scaled so that sums of a few elements meet
them: integers end at 63, words have 4 bits, and every budget and cap is between
5 and 40.  So all the ways are taken, given up and fallen back from, saturation
is reached, and a budget ends in the middle of an operation.  Pieces are
placed and sums visited in the order of the code, since a budget or a limit may
cut them anywhere.

Run `bit_lengths`: eight leaves, among them the empty set, overlapping progressions
and sets that are none, alignments and counts below their least legal value,
at most four operations, and eleven literals.  Four are enough for a sum or a
union of two expressions of which one is a sum, a padding or a repetition already,
and for three operations on one leaf.  `RunsAreExact`: there are no runs, or they are in
normal form and are the set.  `AnswersAreExact`: every answer is the true one or
a refusal, also for sets that saturate.

Left out: negative elements, which a bit length never has, and with them
`shifted`; the text of an expression; how nodes are shared, cached and freed.
That `equalsExact` answers at once for one expression and itself is not needed
for exactness.

## Findings

Each is a violation run of a property that a document of the repository states.

* `index_repair`, `QueriesLatestCommitted`: `Index.h` says symbol queries are
  served "from latest committed index".  `verifyAndRepair` cancels the active
  job and then loads what it finds on disk, which may be half of that job.
* `index_collision`, `PersistsPerFileShards`: `encodeShardKey` does not escape
  `_`, the character its escapes begin with, so `/a/a` and `/a_2fa` share a
  shard file, where `docs/reference/lsp/index-schema.md` promises one per file.
* `stale_diagnostics`, `OnlyPresentFilesReported`: files that vanished are
  looked for among the cached definitions; one that did not parse is not there,
  and its diagnostics are reported until the roots change and even after.
* `ai_tool`, `ToolsLeaveShownText`: three of the four AI tools run the
  pipeline, behind the server's latest result.  A later `didOpen` compares its
  text with the pipeline's cache and publishes diagnostics of the older result.
  The same run behind the latest result has a second consequence, for which there
  is no run here.  A request has analysis 1 made and schedules nothing
  (`Server.cpp:826`); an AI tool makes analysis 2; `workspace/symbol` then schedules
  version 1, that of the latest result, with the shards of `buildIndexShards`,
  those of analysis 2 (`Server.cpp:1961`).  `AnalysisRequest`, `AiToolUse`,
  `WorkspaceSymbol` are that sequence in `LspServer`, and `ResultIsOfLastRun` is what
  keeps it out of `JobMatchesSnapshot`.
* `nesting_limit`, `AcceptedIsLowered`: a comment in `Passes.cpp` says that the
  depth limit of the alias verification, 64, bounds malformed modules only; the
  analyser accepts 128, so a legal chain of 66 sealed definitions is refused late.

Also noticed, without a run: a new file below a root that is open before it is
saved gets an `__overlay` name, and once it is saved with that text its cache
entry counts as unchanged and keeps the name (`Analysis.cpp:709`); a comment in
`Evaluator.cpp:645` says that ordered comparisons with a literal "decide wherever
equality does", while a set whose runs are refused and whose expansion is cut
short can have other extremes than the literal, so that equality is decided and
inclusion is not; the analyser's depth limit depends on the order in
which a module names its definitions (a chain named from its leaf is accepted at
any length, as each definition finds the next one done); the version rules look
at the request section of a service only; `docs/reference/lsp/index-schema.md:8` gives
schema version 1 where `Index.h` has `LspIndexSchemaVersion = 2`; and
`Server.h:77` says the exit code is 0 "after orderly `shutdown`+`exit`,
otherwise non-zero", while `dsdld` also returns 0 when its input ends without
either.

## Fairness and bounds

`RequestScheduler`, `RequestProtocol` and `IndexManager` assume weak fairness of
each worker thread as a whole and of a thread that is inside a blocking call or
has input to read: threads that
can run do run, tasks end, and a wait in `waitForSnapshot` ends.  No fairness
is assumed of spurious wake-ups, of failures, or of anybody making a call.
`LspServer`, `PlanBodies`, `DefinitionAnalysis` and `BitLengths` have safety properties
only; of the latter three, TLC checks that no state but a final one is without a successor.

Bounds are constants or sets of the configurations: `Requests` (calls of
enqueue), `MaxVersion` (snapshots), `MaxCrashes`, `MaxFaults`, `MaxSnapshots`,
`MaxToolRuns`, `MaxMessages`, `MaxUnread`, the catalogue `Types` with its `Objects`,
`Readers`, `Capacities` and `Garbage`, `Modules`, and for the bit-length sets
`MaxSteps` with `Leaves`, `Alignments`, `Counts`, `Divisors` and `Literals`.  No next-state relation has
another bound.  Deadlock is not checked in the models of the language server,
because each of them may stop for good: after its calls are made, at its bounds, or
once shut down.  That no thread is stuck is what the liveness properties say.

## Proofs

### RequestScheduler (`RequestSchedulerProofs`)

For any requests, keys, closers and bound on pending requests, and from
`SchedulerConstants` alone.  No safety property is inductive by itself: that a
completion is called once says nothing of where a request is before.  The
invariant of `Inductive` adds

* the *places* of a request: it is in the queue once, in the worker's hand, or
  done, and its status and counts follow from the place;
* the *ownership of keys*: `requestStates_` has exactly the requests that are
  queued or in flight and not yet erased, and no two of these share a key,
  which is why erasing by key never hits a successor;
* that the worker leaves only with an empty queue, after `stopping_` is set;
* that after `stopping_` every flag is set, and that a request cancelled while
  queued keeps its flag and is not started.

`CountInv` counts the keys of `requestStates_` for the bound.  `TypeCorrect`,
`AtMostOnce`, `MapTracksOutstanding`, `Bounded`, `Drained`,
`EarlyCancel`, `NoLateStart` and `CancelReachesLive` follow.  `Refinement`
shows that the initial state and every step map to `SchedulerPromise` or
stutter.

### IndexManager (`IndexManagerProofs`)

For any finite set of paths and any number of snapshots, restarts and failures,
from `IndexConstants`.

* `Ordered`: versions grow from the one completed through the one in memory
  and the one being written to the one that waits; repair and shutdown alone
  keep the caller from scheduling.  This is what makes it harmless that
  `applyJob` tests its flag for the last time *before* it takes the lock: a
  superseded job may still commit, but what it commits is newer than whatever
  was confirmed and older than what follows.  `Confirmed` and `Advancing` are
  read off it.
* `Conserved`: the counters, with the fact from `Ordered` that no job is active
  when one is taken.
* `Whole`: what was committed is one snapshot's index, `indexedPaths_` names the
  indexed files, and nothing of a job is in the index while it is being applied.
  For that, `Ages` says that neither the files nor the index have a version of
  a job still to come, so that what a repair or a restart loads is older than
  any job taken later; `CallerAlone`, that no job is at work during a repair.
* `Durable` and `NothingLost`: the invariant `DiskInv` follows `applyJob`
  through its loop.  What is still to be written is part of the snapshot, what
  is no longer is on disk, the temporary file at hand is the right one, and
  what is removed is not part of the snapshot.  Both assume `SeparateFiles`,
  that no two paths share a shard file, and both leave out a file whose own
  write failed until it is written again.  The code does not guarantee separate files:
  `index_collision` is the counterexample.

`FirstPath`, on which the walk through the shards rests, is that a set of paths
has a least element, from the well-foundedness of `<`.

### DefinitionAnalysis (`DefinitionAnalysisProofs`)

For any modules, however large, and any depth limit, from `AnalysisConstants`.
`Walks` is the inductive invariant: the frames are the definitions being
visited, each once and the callers outermost; what is done has a result or was
reported; and, while nothing was reported, every reference a frame has passed,
and every reference of a finished definition, is to one finished before.
The last part needs the frame's place in the middle of a statement: a
definition finishes with all its references passed.  `FinishesInOrder` follows,
as do `DepthIsBounded` and `AnalysedOnce`.

The verdict on the walk rests on three more parts.  `CallInv`: a definition
being visited is on the stack, each call is for a reference of its caller, and
no definition before the next one was left out.  `ChainInv`: behind each
complaint is a chain of references, from a definition back to itself or as long
as the limit.  `AcceptInv`: what is accepted has no complaint and nothing left.
When `analyzeOne` finds a definition being visited, the calls from that one on
are the chain; that it is no longer than there are definitions, as
`BlameIsDeserved` has it, is that a stack of distinct definitions is no longer
than their set.  `BlamesWhoDeservesIt` is the one half of the verdict, that
nobody is blamed for nothing; `AcceptsNoCycle` is the other for cycles: in an
accepted module every definition is finished, what it leads to was finished
before it, so it does not lead to itself.

`Away` is a function defined by recursion.  That there is such a function, and
what it answers, takes induction: the library's theorems for that are about
operators, which the provers cannot instantiate.  The lemma `Induction` states it
for sets, from the well-foundedness of `<`, and a set of the numbers for which
something holds does the rest.

### LspServer (`LspServerProofs`)

For any files, texts, URIs and configurations and any number of runs, from
`AnalysisConstants` and `ServerConstants`.  The properties tie what the editor
shows to the caches, the latest result and the job of the index manager, and
none is inductive by itself.  The invariant adds to the types and the properties:

* `CachesInv`: a path has a definition in the cache or diagnostics from parsing,
  never both; `DocumentsInv`: no two open URIs are of one path;
* `FreshInv`: where nothing was analysed yet nothing is open or shown;
* `VersionsInv`: what is completed, the job, what was scheduled last, the latest
  result and the pipeline's counter are versions in this order;
* `PublishedInv` and `ResultInv`: what is shown was published, so it can be taken
  back, and the latest result says of a URI only what the caches say of its path;
  this is what lets `canReuseDidOpenAnalysis` publish an old result for a
  document just opened.  It holds until a tool runs the pipeline, and again from
  the next analysis of the server's own;
* `WaitInv`: a wait in vain is remembered until its snapshot is indexed.

`ShowsTheLatest`, `ShowsTheText`, `SchedulesTheSnapshot` and `WaitsOnce` are the
invariants of the run, `RunsAreCurrent` and `EditsRepair` its two action
properties.  `ShowsTheText` and `SchedulesTheSnapshot` claim nothing of the states
in which a tool's run is the pipeline's last one.  `RunsAreCurrent` rests on what a
run parses again: a path it does not has the text it was parsed from; it claims
texts and parse diagnostics of present files, not all a run from nothing would have.

### RequestProtocol (`RequestProtocolProofs`)

For any requests and bounds, from `ProtocolConstants`; an id is a type and a
text, which is what `requestKeyFromId` keeps of it.  The module has an instance
of `RequestScheduler` inside, and the prover does not carry a theorem about a
module over to its instances: the scheduler's invariant (`SchedulerInv`) is
proved again for this one, where the main thread calls and completions
write frames.  `UsesTheScheduler` says that no step of the composition does
anything to the scheduler that it could not do itself.

What the composition adds is the way of a request: sent, in the input, handled,
queued or answered by the main thread, answered by the worker.  `InboxInv` says that a request in
the input was sent once and not yet read; `AnswerInv` that completions answer
what the scheduler accepted and the main thread the rest; `OpenIdInv` that of
the requests with one id at most one is unanswered, and `CancelOrderInv` that
a cancellation still unread is followed by any later request with its id, so it
never hits that one.  `CancelInv` and `WriteInv` say whose flags are set and
who holds the stream.  `AnswersOnce`, `CancelsWhatWasAsked`, `FramesHold` and
`RefusesOnlyWhenFull` follow.

### TypeLayout (`TypeLayoutProofs`)

For any definitions, from `LayoutConstants` and `CountsAreOf64Bits`: fields are
what the AST can hold, a scalar has at most 64 bits (`validateBitLength` in
`lib/Frontend/Parser.cpp`), a composite refers to a definition before it (the
analyser finishes what a definition refers to first, `ReferencesFinishFirst`),
and a capacity or a number of options needs no more than 64 bits, being an
`int64_t`.  The lengths of `OffsetAtEnd` are defined by a function of itself over
the definitions, in which the offsets of a section, and the repetitions of an
element, are two more; `LengthsUnfold` says that they exist and are what they
are defined by, by an induction over the definitions.  The module opens with
induction and recursion over the numbers in the form a proof can use here, for
sets and functions.
`LengthsAreWholeBytes` and `FixedBitsAreTheOnly` are what the bodies go by.

The second half is the alias layout.  `FlatsAreVerified` says that the analyser
and the lowering never disagree about what is flat on the wire: the analyser
counts the bits of one field after the other (`RunBefore`), the lowering the widths
its steps state, a composite's from its lengths, and `fixedFieldOffsets` walks the
alignments besides.  For a flat definition the three are one count: each named
field of it starts on a byte, so no alignment moves anything, and a nested flat
definition has one length (`FlatRunIsLength`, `WidthsAreRuns`, `FlatOffsetIs`).

`VerdictsAreRight` is the whole of `IsTheStructure`, and `ImageCorrect` says it of
the definitions whose bodies run.  Its first half, `ImagesAreStructures`, is that a
definition `computeHostImage` calls the image of its structure is one: it is flat
on the wire, and the structure a C compiler lays out for it has every member
where the wire has the field, and its size.  It is by induction over the
definitions again, and within one over its members: where the verdict has held so
far, the bytes it counted are a multiple of what the next member is aligned to,
so the compiler inserts nothing, and eight times them are the run of bits on the
wire (`Whole`, `SameAsImage`).  The alignment of every image is a power of two up
to eight, since a scalar that is its own storage has 8, 16, 32 or 64 bits: this is
where the bound on widths is needed.

The other half is that no image is missed.  What is flat and plain the compiler
never packs tighter than the wire (`IsNoShorter`): storage is as wide as the
scalar or wider, and padding only adds.  So a structure that is as long as the
wire form has no slack in any member, in any element or between them, all the way
down, and that is what `computeHostImage` asks for.  The sizes alone decide: the
offsets follow.  `ScalarsLieInside` follows the scalars of an image, through
arrays and nested images, and finds each within the longest message.

### PlanBodies (`PlanBodiesProofs`, `PlanCourseProofs`)

For any definitions, objects, readers, buffers and contents of them, from the
assumptions above and `PlanConstants`: plans are made of accepted definitions,
and an object has the shape its definition gives it (its numbers and counts are
any, and its tag is any that the tag's storage, as wide as on the wire, holds).  `KnowledgeIsSound` is not inductive: it speaks of the step a
frame is at, and says nothing of the steps behind it, nor of what a loop or a
nested body will have moved the offset by.  The invariant `KInv` has for every
frame on the stack

* `WellFormed`: what is left of it is a run of steps of its definition's body, each
  starting with no more knowledge than the one before it ended with (after the
  arm of a union, with what the arms have in common); a loop over elements has
  the bound of its array; while writing, the object is one of the definition's,
  and the steps of a union's frame are those of the option the tag selects;
* `Knowing`: what the first step left takes the offset to be, it is; in a loop, that
  of the offset less what the elements behind took, or modulo eight where they
  have no one width;
* `Waiting`: a frame that called another has not failed and is at a composite, or at
  the elements of an array of them, of the definition called.

That the builder's bodies are such runs (`BodiesAre`) is by an induction over the
steps of a plan; that each step of a body keeps the frames as
they should be, lemma by lemma, is the rest.  The step over a nested composite
is where the lengths come in: a sealed one with one length is stepped over by
it, a delimited one by what its header says, whole bytes both.
`FramesAreSound` is the invariant, `KnowledgeCorrect` the property.

What the wire primitives do is proved of them alone.  `CopiesAreExact`: a copy makes
the bits asked for those of the source and leaves every other bit, whatever the
alignment of the two memories, by bytes or by fragments (by induction over the
turns of the loop: a turn masks into one byte bits that lie in one byte of the
source, at least one, so that after as many turns as there are bits all are
copied).  From it follow `ReadsPastTheEndAreZeros`, the zero extension of
`dsdl_runtime_get_bits`, and `WhatIsWrittenIsRead`: a number read from where it was
written is the low bits of its holder, whatever is around it.

`GettersCorrect` says that the accessors, the steps and the structure have one
layout.  `buildFieldAccessors` sums the fixed widths of the fields before one; a
body steps over alignments, loops and nested bodies, or moves a whole object as
an image.  For a definition of one layout the builder knows the offset in full
at every step, and it is the accessors' (`BodyIsThere`).  The invariant `GInv` says
of the outermost body, while it reads and has not failed (`Getting`), that each
field is still ahead or holds what its getters answer, and in a loop that the
elements behind do; a body it calls fills a composite, of which no getter
answers.  A scalar is read by the getter's own primitive from the same bits; a
run of bools is copied, and each is its bit of the wire or 0 past the end.  An
image goes through the memory of the object: every scalar has its place in it
(`ImageFields`), and setting one leaves the others (`MovesOne`).  A body that failed
leaves arrays and composites behind the failure unread, so the property speaks
of one that succeeded.

`PlanCourseProofs` puts the lengths of the analyser beside the steps of the
builder, from the same assumptions.  Of the steps a body has left, `Leads` says
that there is a course for them: sets of offsets, the first with where the body
is, each next one with all the analyser gives the step (`Takes`) beyond the one
before it, none past `MaxBits`, and the last within `OffsetAtEnd`.  The bodies of
a definition lead from zero (`BodiesLead`): the builder's steps and the
analyser's sections are two recursions over the same fields, and the lemmas of
the first half show that they count alike, alignments, tags and the steps of
every option included.  The invariant `LInv` adds to `KInv`

* `Placed`: a body's buffer is a part of the caller's; one that writes and has not
  failed has a buffer of `MaxBits` and is `OnCourse`, in a loop over elements with what those ahead may take still to come;
  one that was refused its buffer is a writer's whose buffer holds less; and a
  loop over composites is on a byte;
* `Placing`: a body that was called was not refused, its caller has the element it
  called for ahead of it, and the outermost one is of the definition written;
* `LengthIsAnalysed` itself, between the body's answer and the next call.

The case that needs all of it is the composite.  Its container is on a byte, and
what the container may still take holds the composite's longest object; so the
bytes left are enough for it, the capacity check of the nested body passes,
what it used is one of its lengths, and behind it the container is on its course
again.  Around a delimited one the header is part of that, and its extent is
what `Accepted` compares with `MaxBits`.  `FramesArePlaced` is the invariant;
`LengthCorrect` and `RefusalCorrect` are read off it.

`StaysInsideCorrect` goes by `LInv` and the second half of that: a copy changes no
bit but the ones it is asked for (`CopyBitsIs`).  Most writes check the buffer.  Two do not: the run of
a bool array, for which there is room because the body is on its course
(`BoolsTake`), and the image of an object, for which there is because every scalar
of it lies within `MaxBits` (`ScalarsLieInside`).  That is what the one capacity
check at the entry has to be enough for.

`WrittenCorrect` says which objects are written: those of `ValidObjects`, and no
others, if the buffer holds the longest one.  `WrittenIffValid` speaks of the end
only; the invariant `VInv` adds to `LInv` what a body part of the way through has
found out.  What a body has ahead *passes* (`Passing`) if every check it still makes
will succeed: each step's field fits, the tag selects an option, the rest of the
loop's elements fit.  `Judging` has for every frame

* `Judged`: if it has not failed, all it has ahead passes just when its whole
  object fits; if it failed for another reason than the buffer, its object does
  not; and only a buffer that holds the longest object was let in;
* that its object is the element its container is at, and the outermost one's the
  caller's.

At the first step all is ahead, and the steps of a body, padding aside, have
every field (`StepsCover`); at the end nothing is, so the body's verdict is the
object's.  In between a step that succeeds takes away what passed, and one that
fails shows what did not.  The step back from a nested body is where the second
part comes in: that the nested one failed says of the container's object that it
does not fit because the two objects belong together, and that no nested body is
refused its buffer is `LInv`.  An object folded to an image is written without a
check; that every such object fits is because a foldable definition has no
unions and no variable arrays.

### Only model-checked

Everything about liveness (`HandledIsAnswered`, `ShutdownReturns`, `ServerEnds`,
`LatestIsIndexed`, `RepairReturns` and the fairness half of `ImplementsPromise`),
which is out of the prover's reach; `CutReadsAsZeros`, which compares two runs of
a body, and `ReadsAsWritten`, which compares one with a recursive function of the
object (what the wire primitives do for each scalar is proved:
`CopiesAreExact`, `ReadsPastTheEndAreZeros`, `WhatIsWrittenIsRead`); the whole verdict of the analyser (`VerdictIsJust`), whose
reference definition is recursive and kept in the module for TLC; and all of
`RunArithmetic`, `BitLengths` and `OffsetQueries`, whose operators are recursive.

## Not modelled

* The code generators (`lib/CodeGen`) and the printing passes, the largest part of
  the repository: they turn the plan's operations into text, line by line, in six
  languages.  A model of them would be a model of those languages.  What their
  output does is the bodies of `PlanBodies`.  For the same reason the models
  cover a small share, about 11 %, of the repository's lines.
* The runtimes of the other languages, which repeat the C runtime's helpers.
* Discovery, the lexer, the parser, the printer, target resolution, dependency
  files, naming: functions from text or paths to text, without state.
* The evaluator's arithmetic on rationals and on sets that are written out.
* Lint, server configuration, navigation queries, completion ranking and its
  adaptive signals, AI policy and suggestions.
* Floats, views, setters, and decoding in place.
* A crash of the machine: files are written without `fsync`, and the code
  promises nothing there.

## What is left

1. `LspServer` over the full `IndexManager`, for the snapshot a repair loses.
2. Adaptive signals: ticks, pruning, load and flush with a crash between remove
   and rename.
3. A proof of `ReadsAsWritten`: it needs that `CopyBits` writes, besides leaving the
   rest alone, the bits it is given, and a reader's invariant beside the writer's.
