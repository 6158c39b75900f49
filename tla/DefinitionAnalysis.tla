------------------------- MODULE DefinitionAnalysis -------------------------
(***************************************************************************)
(* The semantic analyser: the depth-first walk over the definitions of a   *)
(* module, the state machine that takes the statements of a section, the   *)
(* rules between versions, and the layout verification that follows        *)
(* (src/lib/Semantics/Analyzer.cpp, src/lib/Transforms/Passes.cpp).        *)
(*                                                                         *)
(* analyzeOne calls itself from the middle of a statement, so the walk is  *)
(* a stack of frames, each with the section it has reached.                *)
(*                                                                         *)
(* A definition is a record                                                *)
(*   [space : Seq(STRING), short : STRING, major, minor : Nat,             *)
(*    port : Nat or NoPort, markers : Nat, sections : Seq(Seq(statement))] *)
(* with a section for the response where it is a service, and a statement  *)
(*   [kind : Kinds, name : STRING, refs : Seq(reference), value : Nat,     *)
(*    offset, array : BOOLEAN]                                             *)
(* with the reference its type makes first and then the one its expression *)
(* makes:                                                                  *)
(*   [role : {"type", "attribute"}, path : Seq(STRING), major, minor : Nat,*)
(*    attribute : STRING].                                                 *)
(* An expression is a number, the offset, or an attribute of a definition. *)
(* Lengths are counted in bytes; a scalar takes one.                       *)
(*                                                                         *)
(* Left out: @print, @aliasable, unknown directives, the kinds of values,  *)
(* variable-length arrays and the external catalogue.                      *)
(***************************************************************************)
EXTENDS Naturals, Integers, Sequences, FiniteSets

CONSTANTS Modules,           \* the modules analysed: sequences of definitions
          MaxAnalysisDepth,  \* kMaxAnalysisDepth: 128 in the code
          MaxVerifyDepth,    \* the bound of verifyHostImage: 64 in the code
          AllowUnregulated   \* AnalyzeOptions::allowUnregulatedFixedPortId

VARIABLES
    module,     \* the definitions analysed
    phase,      \* "walking", "accepted", "refused", "lowered" or "rejected"
    next,       \* run(): the definition the walk starts from next
    state,      \* state_: "unvisited", "visiting" or "done"
    stack,      \* the calls of analyzeOne that run, the outermost first
    results,    \* results_
    errors,     \* what was reported: the definition and the complaint
    finished    \* the definitions in the order in which they got a result

vars == <<module, phase, next, state, stack, results, errors, finished>>

Kinds == {"union", "deprecated", "sealed", "extent", "assert", "constant", "field", "padding"}

NoPort == -1
NoValue == -1
NoResult == [service |-> FALSE, sections |-> << >>]

HeaderBytes == 4

Reserved == "_offset_"

IsSequence(s) == Len(s) \in Nat /\ DOMAIN s = 1 .. Len(s)

\* Sections of statements, each with its references, and a response where it has a marker.
IsDefinition(d) ==
    /\ IsSequence(d.sections) /\ Len(d.sections) = IF d.markers = 0 THEN 1 ELSE 2
    /\ \A part \in DOMAIN d.sections :
          /\ IsSequence(d.sections[part])
          /\ \A n \in DOMAIN d.sections[part] : IsSequence(d.sections[part][n].refs)

ASSUME AnalysisConstants ==
    /\ MaxAnalysisDepth \in Nat /\ MaxVerifyDepth \in Nat
    /\ AllowUnregulated \in BOOLEAN
    /\ \A m \in Modules : IsSequence(m) /\ \A i \in DOMAIN m : IsDefinition(m[i])

----------------------------------------------------------------------------
(* resolveCompositeType                                                    *)

Ids == 1 .. Len(module)

\* A bare name is of the owner's namespace; any other is absolute, or below
\* the owner's root, or below its namespace.
Candidates(space, path) ==
    IF Len(path) = 1 THEN <<space \o path>>
    ELSE <<path, <<Head(space)>> \o path, space \o path>>

FirstOf(S) == CHOOSE n \in S : \A k \in S : n =< k

Named(m, name, r) ==
    {i \in DOMAIN m : Append(m[i].space, m[i].short) = name
                        /\ m[i].major = r.major /\ m[i].minor = r.minor}

\* The definition a reference of the definition "d" is to; 0 where there is none.
Resolved(m, d, r) ==
    LET names == Candidates(m[d].space, r.path)
        found == {n \in DOMAIN names : Named(m, names[n], r) # {}}
    IN  IF found = {} THEN 0 ELSE FirstOf(Named(m, names[FirstOf(found)], r))

----------------------------------------------------------------------------
(* analyzeSection: the section so far, and what each statement does to it  *)

NewSection ==
    [union |-> FALSE, deprecated |-> FALSE, mode |-> "unset", extent |-> 0,
     started |-> FALSE, names |-> {}, counted |-> FALSE,
     fields |-> << >>, constants |-> {}, most |-> 0]

MostOf(S) == IF S = {} THEN 0 ELSE CHOOSE n \in S : \A k \in S : k =< n

Options(fields) == {n \in DOMAIN fields : fields[n].option}

\* The offset past the fields so far: the sum of the lengths of a structure's, or
\* computeUnionOffsetFromSeenFields.
Offset(union, fields) ==
    LET past[n \in 0 .. Len(fields)] ==
          IF n = 0 THEN 0 ELSE past[n - 1] + (IF fields[n].option THEN 0 ELSE fields[n].length)
    IN  IF ~union THEN past[Len(fields)]
        ELSE IF Options(fields) = {} THEN 0
        ELSE 1 + MostOf({fields[n].length : n \in Options(fields)})

ResultOf(d, r) ==
    LET i == Resolved(module, d, r) IN IF i = 0 THEN NoResult ELSE results[i]

\* compositeWireBitLengthSet, as far as its maximum goes.
LengthOf(result) ==
    IF result = NoResult \/ result.service THEN 0
    ELSE IF result.sections[1].mode = "sealed" THEN result.sections[1].most
    ELSE HeaderBytes + result.sections[1].extent

\* typeAttrResolver
AttributeOf(result, name) ==
    IF result = NoResult \/ result.service THEN NoValue
    ELSE IF name = "_extent_"
    THEN IF result.sections[1].mode = "unset" THEN result.sections[1].most ELSE result.sections[1].extent
    ELSE LET values == {c \in result.sections[1].constants : c.name = name}
         IN  IF values = {} THEN NoValue ELSE (CHOOSE c \in values : TRUE).value

TypeRefs(stmt) == {k \in DOMAIN stmt.refs : stmt.refs[k].role = "type"}

AttributeRefs(stmt) == {k \in DOMAIN stmt.refs : stmt.refs[k].role = "attribute"}

\* What the expression of a statement of "d" comes to, the offset being "offset".
ValueOf(d, stmt, offset) ==
    IF AttributeRefs(stmt) # {}
    THEN LET r == stmt.refs[CHOOSE k \in AttributeRefs(stmt) : TRUE]
         IN  AttributeOf(ResultOf(d, r), r.attribute)
    ELSE IF stmt.offset THEN offset
    ELSE stmt.value

\* The statements that are dropped before anything in them is looked at.
Dropped(sec, stmt) ==
    CASE stmt.kind \in {"field", "constant"} -> stmt.name = Reserved \/ stmt.name \in sec.names
      [] stmt.kind = "padding"               -> sec.union
      [] stmt.kind \in {"extent", "sealed"}  -> sec.mode # "unset"
      [] OTHER                               -> FALSE

References(sec, stmt) == IF Dropped(sec, stmt) THEN << >> ELSE stmt.refs

IsAttribute(stmt) == stmt.kind \in {"field", "constant", "padding"}

(***************************************************************************)
(* What is reported of a statement, once its references were analysed:     *)
(* "value" is what its expression came to, "result" what its type was.     *)
(***************************************************************************)
StatementErrors(sec, stmt, part, value, result) ==
    {what \in {"dropped", "after mode", "after offset", "service type", "no value",
               "capacity", "assertion", "union", "deprecated"} :
       CASE what = "dropped"      -> Dropped(sec, stmt)
         [] what = "after mode"   -> IsAttribute(stmt) /\ sec.mode # "unset"
         [] what = "after offset" -> /\ stmt.kind = "field" /\ sec.union /\ sec.counted
                                     /\ ~Dropped(sec, stmt)
         [] what = "service type" -> ~Dropped(sec, stmt) /\ result.service
         [] what = "no value"     -> ~Dropped(sec, stmt) /\ value = NoValue
         [] what = "capacity"     -> /\ stmt.kind = "field" /\ stmt.array
                                     /\ ~Dropped(sec, stmt) /\ value < 1
         [] what = "assertion"    -> stmt.kind = "assert" /\ value = 0
         [] what = "union"        -> stmt.kind = "union" /\ (sec.union \/ sec.started)
         [] what = "deprecated"   -> /\ stmt.kind = "deprecated"
                                     /\ part = 2 \/ sec.deprecated \/ sec.started}

\* A field's length, and the definition it is of: 0 where it is a scalar.
FieldEntry(stmt, option, value, typed, of, result) ==
    LET one == IF typed THEN LengthOf(result) ELSE 1 IN
    [padding |-> stmt.kind = "padding", option |-> option, of |-> of,
     length  |-> IF ~stmt.array THEN one ELSE IF value < 1 THEN 0 ELSE one * value]

\* The section past a statement.
Taken(sec, stmt, value, typed, of, result) ==
    LET seen == [sec EXCEPT !.started = @ \/ IsAttribute(stmt),
                            !.counted = @ \/ (stmt.kind \in {"extent", "assert"} /\ ~Dropped(sec, stmt)
                                                /\ stmt.offset /\ sec.union)]
    IN  IF Dropped(sec, stmt) THEN seen
        ELSE CASE stmt.kind = "union"      -> [seen EXCEPT !.union = TRUE]
               [] stmt.kind = "deprecated" -> [seen EXCEPT !.deprecated = TRUE]
               [] stmt.kind = "sealed"     -> [seen EXCEPT !.mode = "sealed"]
               [] stmt.kind = "extent"     ->
                     IF value = NoValue THEN seen
                     ELSE [seen EXCEPT !.mode = "delimited", !.extent = value]
               [] stmt.kind = "assert"     -> seen
               [] stmt.kind = "constant"   ->
                     IF value = NoValue THEN seen
                     ELSE [seen EXCEPT !.names = @ \cup {stmt.name},
                                       !.constants = @ \cup {[name |-> stmt.name, value |-> value]}]
               [] stmt.kind = "padding"    ->
                     [seen EXCEPT !.fields = Append(@, FieldEntry(stmt, sec.union, value, typed, of, result))]
               [] stmt.kind = "field"      ->
                     [seen EXCEPT !.names = @ \cup {stmt.name},
                                  !.fields = Append(@, FieldEntry(stmt, sec.union, value, typed, of, result))]

\* The end of a section.
SectionErrors(sec) ==
    {what \in {"options", "no mode", "extent"} :
       CASE what = "options" -> sec.union /\ Cardinality(Options(sec.fields)) < 2
         [] what = "no mode" -> sec.mode = "unset"
         [] what = "extent"  -> sec.mode # "sealed" /\ sec.extent < Offset(sec.union, sec.fields)}

\* Mutant: @sealed sets no extent.
ClosedWithout(sec) == [sec EXCEPT !.most = Offset(sec.union, sec.fields)]

Closed(sec) ==
    LET most == Offset(sec.union, sec.fields)
    IN  [sec EXCEPT !.most = most, !.extent = IF sec.mode = "sealed" THEN most ELSE @]

----------------------------------------------------------------------------
(* analyzeOne: the walk                                                    *)

Top == stack[Len(stack)]

WithTop(t) == [stack EXCEPT ![Len(stack)] = t]

Statements(d, part) == module[d].sections[part]

NewFrame(d) ==
    [def |-> d, part |-> 1, at |-> 1, called |-> 0, section |-> NewSection, closed |-> << >>]

Reported(d, whats) == {[def |-> d, what |-> what] : what \in whats}

\* Mutant: a definition that is being visited answers like a finished one.
VisitAnswered(d, callers) ==
    IF state[d] # "unvisited"
    THEN stack' = callers /\ UNCHANGED <<state, errors>>
    ELSE /\ stack' = Append(callers, NewFrame(d))
         /\ state' = [state EXCEPT ![d] = "visiting"]
         /\ UNCHANGED errors

\* Mutant: the mark is set before the depth is looked at.
VisitMarked(d, callers) ==
    LET deep == Len(callers) >= MaxAnalysisDepth IN
    /\ state' = [state EXCEPT ![d] = IF @ = "unvisited" THEN "visiting" ELSE @]
    /\ stack' = IF state[d] = "unvisited" /\ ~deep THEN Append(callers, NewFrame(d)) ELSE callers
    /\ errors' = errors \cup Reported(d, IF state[d] = "visiting" THEN {"circular"}
                                         ELSE IF state[d] = "unvisited" /\ deep THEN {"too deep"}
                                         ELSE {})

(***************************************************************************)
(* A call of analyzeOne.  One that is being visited is on a cycle.  One    *)
(* below the depth limit is marked done without a result.                  *)
(***************************************************************************)
Visit(d, callers) ==
    \/ /\ state[d] = "done"
       /\ stack' = callers
       /\ UNCHANGED <<state, errors>>
    \/ /\ state[d] = "visiting"
       /\ stack' = callers
       /\ errors' = errors \cup Reported(d, {"circular"})
       /\ UNCHANGED state
    \/ /\ state[d] = "unvisited" /\ Len(callers) >= MaxAnalysisDepth
       /\ stack' = callers
       /\ errors' = errors \cup Reported(d, {"too deep"})
       /\ state' = [state EXCEPT ![d] = "done"]
    \/ /\ state[d] = "unvisited" /\ Len(callers) < MaxAnalysisDepth
       /\ stack' = Append(callers, NewFrame(d))
       /\ errors' = errors \cup Reported(d, IF module[d].markers > 1 THEN {"markers"} ELSE {})
       /\ state' = [state EXCEPT ![d] = "visiting"]

\* run(): every definition, in the order of the module.
Start ==
    /\ phase = "walking" /\ stack = << >> /\ next \in Ids
    /\ Visit(next, << >>)
    /\ next' = next + 1
    /\ UNCHANGED <<module, phase, results, finished>>

AtStatement == stack # << >> /\ Top.at =< Len(Statements(Top.def, Top.part))

Statement == Statements(Top.def, Top.part)[Top.at]

\* The next reference of the statement, its type before its expression.
Refer ==
    /\ AtStatement
    /\ Top.called < Len(References(Top.section, Statement))
    /\ LET i == Resolved(module, Top.def, References(Top.section, Statement)[Top.called + 1])
           callers == WithTop([Top EXCEPT !.called = @ + 1])
       IN  IF i \in Ids THEN Visit(i, callers)
           ELSE /\ stack' = callers
                /\ errors' = errors \cup Reported(Top.def, {"unresolved"})
                /\ UNCHANGED state
    /\ UNCHANGED <<module, phase, next, results, finished>>

\* The statement itself, once what it refers to was analysed.
Take ==
    /\ AtStatement
    /\ Top.called = Len(References(Top.section, Statement))
    /\ LET sec    == Top.section
           stmt   == Statement
           value  == ValueOf(Top.def, stmt, Offset(sec.union, sec.fields))
           of     == IF TypeRefs(stmt) = {} THEN 0
                     ELSE Resolved(module, Top.def, stmt.refs[CHOOSE k \in TypeRefs(stmt) : TRUE])
           typed  == TypeRefs(stmt) # {}
           result == IF of = 0 THEN NoResult ELSE results[of]
       IN  /\ errors' = errors \cup Reported(Top.def, StatementErrors(sec, stmt, Top.part, value, result))
           /\ stack' = WithTop([Top EXCEPT !.at = @ + 1, !.called = 0,
                                           !.section = Taken(sec, stmt, value, typed, of, result)])
    /\ UNCHANGED <<module, phase, next, state, results, finished>>

AtEnd == stack # << >> /\ Top.at > Len(Statements(Top.def, Top.part))

Sections == Append(Top.closed, Closed(Top.section))

\* The request section of a service; its response is next.
EndRequest ==
    /\ AtEnd /\ Top.part < Len(module[Top.def].sections)
    /\ errors' = errors \cup Reported(Top.def, SectionErrors(Top.section))
    /\ stack' = WithTop([Top EXCEPT !.part = @ + 1, !.at = 1, !.called = 0,
                                    !.section = NewSection, !.closed = Sections])
    /\ UNCHANGED <<module, phase, next, state, results, finished>>

\* The last section: the definition has its result, and its caller goes on.
Finish ==
    /\ AtEnd /\ Top.part = Len(module[Top.def].sections)
    /\ errors' = errors \cup Reported(Top.def, SectionErrors(Top.section)
                   \cup (IF Top.part = 2 /\ Top.section.deprecated THEN {"deprecated"} ELSE {}))
    /\ results' = [results EXCEPT ![Top.def] =
                     [service  |-> Top.part = 2,
                      sections |-> [k \in DOMAIN Sections |->
                                      [Sections[k] EXCEPT !.deprecated = Sections[1].deprecated]]]]
    /\ state' = [state EXCEPT ![Top.def] = "done"]
    /\ finished' = Append(finished, Top.def)
    /\ stack' = SubSeq(stack, 1, Len(stack) - 1)
    /\ UNCHANGED <<module, phase, next>>

----------------------------------------------------------------------------
(* checkVersionRules                                                       *)

Analysed == {i \in Ids : results[i] # NoResult}

SameMajor(i, j) ==
    /\ module[i].space = module[j].space /\ module[i].short = module[j].short
    /\ module[i].major = module[j].major

Minors(i) == {j \in Analysed : SameMajor(i, j)}

Front(i) == CHOOSE j \in Minors(i) : \A k \in Minors(i) : module[j].minor =< module[k].minor

Request(i) == results[i].sections[1]

IsSealed(sec) == sec.mode = "sealed"

HasPort(i) == module[i].port # NoPort

\* The earlier minor versions with a port, and the port the last of them has.
Fixed(i) == {j \in Minors(i) : HasPort(j) /\ module[j].minor < module[i].minor}

LastFixed(i) ==
    module[CHOOSE j \in Fixed(i) : \A k \in Fixed(i) : module[j].minor >= module[k].minor].port

MaxPortId(service) == IF service THEN 511 ELSE 8191

IsStandard(d) == d.space[1] \in {"uavcan", "cyphal"}

Regulated(d, service) ==
    IF service THEN d.port \in (IF IsStandard(d) THEN 384 .. 511 ELSE 256 .. 383)
    ELSE d.port \in (IF IsStandard(d) THEN 7168 .. 8191 ELSE 6144 .. 7167)

\* Types of one kind that share a port, the first of them earlier in the module.
Collides(i, j) ==
    /\ i < j /\ HasPort(i) /\ HasPort(j)
    /\ results[i].service = results[j].service
    /\ ~SameMajor(i, j)
    /\ module[i].port = module[j].port
    /\ module[i].major > 0 /\ module[j].major > 0

MinorErrors(i) ==
    {what \in {"sealing", "extent of minor"} :
       /\ module[i].major > 0
       /\ CASE what = "sealing"         -> IsSealed(Request(i)) # IsSealed(Request(Front(i)))
            [] what = "extent of minor" -> Request(i).extent # Request(Front(i)).extent}

PortErrors(i) ==
    {what \in {"port removed", "port changed", "port collides", "port too wide", "port unregulated"} :
       CASE what = "port removed"     -> ~HasPort(i) /\ Fixed(i) # {}
         [] what = "port changed"     -> HasPort(i) /\ Fixed(i) # {} /\ LastFixed(i) # module[i].port
         [] what = "port collides"    -> \E j \in Analysed : Collides(j, i)
         [] what = "port too wide"    -> module[i].port > MaxPortId(results[i].service)
         [] what = "port unregulated" -> /\ HasPort(i) /\ ~AllowUnregulated
                                         /\ module[i].port =< MaxPortId(results[i].service)
                                         /\ ~Regulated(module[i], results[i].service)}

\* The walk is over: a module with an error has no model.
CheckVersionRules ==
    /\ phase = "walking" /\ stack = << >> /\ next > Len(module)
    /\ errors' = errors \cup UNION {Reported(i, MinorErrors(i) \cup PortErrors(i)) : i \in Analysed}
    /\ phase' = IF errors' = {} THEN "accepted" ELSE "refused"
    /\ UNCHANGED <<module, next, state, stack, results, finished>>

----------------------------------------------------------------------------
(* annotateAliasLayout, VerifyDSDLAliasLayoutPass                          *)

Composites(sec) == {sec.fields[n].of : n \in DOMAIN sec.fields} \ {0}

IsImage(sec, image) ==
    /\ sec.mode = "sealed" /\ ~sec.union /\ sec.fields # << >>
    /\ \A n \in DOMAIN sec.fields : ~sec.fields[n].padding
    /\ \A i \in Composites(sec) : image[i]

\* computeHostImage: the definitions whose objects are images of their bytes.
HostImage ==
    LET image[i \in Ids] == IsImage(Request(i), image)
    IN  [i \in Ids |-> image[i]]

(***************************************************************************)
(* verifyHostImage: the verification walks from every plan that is said to *)
(* be an image into what is nested in it, to a depth of its own.           *)
(***************************************************************************)
Verified(sec) ==
    LET verified[i \in Ids, depth \in 1 .. (MaxVerifyDepth + 1)] ==
          depth =< MaxVerifyDepth /\ \A j \in Composites(Request(i)) : verified[j, depth + 1]
    IN  \A i \in Composites(sec) : verified[i, 1]

LowerAndVerify ==
    /\ phase = "accepted"
    /\ LET image == HostImage IN
       phase' = IF \A i \in Ids : \A k \in DOMAIN results[i].sections :
                     IsImage(results[i].sections[k], image) => Verified(results[i].sections[k])
                THEN "lowered" ELSE "rejected"
    /\ UNCHANGED <<module, next, state, stack, results, errors, finished>>

Stopped == phase \in {"refused", "lowered", "rejected"} /\ UNCHANGED vars

----------------------------------------------------------------------------

Init ==
    /\ module \in Modules
    /\ phase = "walking"
    /\ next = 1
    /\ state = [i \in Ids |-> "unvisited"]
    /\ stack = << >>
    /\ results = [i \in Ids |-> NoResult]
    /\ errors = {}
    /\ finished = << >>

Next ==
    \/ Start \/ Refer \/ Take \/ EndRequest \/ Finish
    \/ CheckVersionRules \/ LowerAndVerify \/ Stopped

Spec == Init /\ [][Next]_vars /\ WF_vars(Next)

----------------------------------------------------------------------------
(* Properties                                                              *)

\* Every definition the statements of "d" refer to; 0 for one there is not.
Dependencies(d) ==
    UNION {UNION {{Resolved(module, d, Statements(d, part)[n].refs[k])
                     : k \in DOMAIN Statements(d, part)[n].refs}
                   : n \in DOMAIN Statements(d, part)}
            : part \in DOMAIN module[d].sections}

\* While nothing was reported, a definition gets its result only after every one
\* it refers to, so nothing is computed from a definition that has no result
\* yet, and what is accepted has no cycle (analyzeOne).  The layout of the wire
\* forms and the alias verdicts rest on this order.
ReferencesFinishFirst ==
    errors = {} =>
      \A n \in DOMAIN finished :
        Dependencies(finished[n]) \subseteq {finished[m] : m \in 1 .. (n - 1)}

\* The definitions "n" references away from those of "from".
Away(from, n) ==
    LET away[k \in 0 .. n] ==
          IF k = 0 THEN from ELSE UNION {Dependencies(i) \ {0} : i \in away[k - 1]}
    IN  away[n]

\* Every complaint about the walk is deserved, although a definition is reported
\* once, where the walk happens to meet it: one blamed for a cycle refers to
\* itself, directly or not, and one blamed for its depth ends a chain of more
\* references than the limit allows (analyzeOne).
BlameIsDeserved ==
    \A e \in errors :
      CASE e.what = "circular" -> \E n \in Ids : e.def \in Away({e.def}, n)
        [] e.what = "too deep" -> e.def \in Away(Ids, MaxAnalysisDepth)
        [] OTHER               -> TRUE

\* A module the analyser accepts is lowered: the verification of the plans turns
\* down only modules no schema produces (verifyHostImage, Passes.cpp:3322).
AcceptedIsLowered == phase # "rejected"

=============================================================================
