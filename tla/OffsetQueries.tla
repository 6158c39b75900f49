---------------------------- MODULE OffsetQueries ----------------------------
(***************************************************************************)
(* What the evaluator makes of a bit-length set in an expression of a      *)
(* definition (src/lib/Semantics/Evaluator.cpp): its number of elements,   *)
(* its elements, and comparisons with a set that is written out.  Each is  *)
(* answered exactly or ends in a diagnostic.                               *)
(*                                                                         *)
(* A literal holds rational numbers, which are counted in halves here: the *)
(* element 2n is the integer n, an odd one no integer.  An answer is a set *)
(* of one Boolean, or {} where it is refused.                              *)
(***************************************************************************)
EXTENDS BitLengths

CONSTANT Literals    \* the sets written out

ASSUME LiteralConstants == \A L \in Literals : IsFiniteSet(L) /\ L \subseteq Int

\* toRationalSet
Halves(S) == {2 * v : v \in S}

\* literalElementAsInt: a literal holds integers of the set's domain alone.
AsInt(r) == IF r % 2 = 0 /\ r \div 2 \in (-IntMax - 1) .. IntMax THEN {r \div 2} ELSE {}

\* RunSet::contains
InRuns(r, runs) ==
    \E v \in AsInt(r) : \E i \in DOMAIN runs :
        /\ v \in runs[i].start .. LastOf(runs[i])
        /\ (v - runs[i].start) % runs[i].stride = 0

\* The runs, where their elements can be counted.
Counted(node) == node.runs # Refused /\ SizeOf(node.runs) =< IntMax

(* materializeExact: the elements from the runs, or where there are none   *)
(* from an exact expansion; {} is a diagnostic.                            *)
MaterializeExact(node) ==
    IF node.runs # Refused
    THEN IF SizeOf(node.runs) =< ExpandLimit THEN Denoted(node.runs) ELSE {}
    ELSE IF node.expansion.exact THEN node.expansion.values ELSE {}

\* "_offset_.count"; 0 is a diagnostic.
CountOf(node) ==
    IF node.least = node.greatest THEN 1
    ELSE IF Counted(node) THEN SizeOf(node.runs)
    ELSE Cardinality(MaterializeExact(node))

\* decideSetEquality: a truncated expansion can still tell the sets apart.
EqualsLiteral(node, L) ==
    LET values == Halves(node.expansion.values)
    IN  IF L = {} \/ Min(L) # 2 * node.least \/ Max(L) # 2 * node.greatest THEN {FALSE}
        ELSE IF Counted(node)
        THEN {SizeOf(node.runs) = Cardinality(L) /\ \A r \in L : InRuns(r, node.runs)}
        ELSE IF node.expansion.exact THEN {values = L}
        ELSE IF Cardinality(values) > Cardinality(L) \/ ~(values \subseteq L) THEN {FALSE}
        ELSE {}

(* The three questions an ordered comparison is put together from: is the  *)
(* literal in the set, is the set in the literal, are they as large.       *)
FromRuns(node, L) ==
    LET members == {r \in L : InRuns(r, node.runs)}
        size    == SizeOf(node.runs)
    IN  [literalIn |-> {members = L},
         inLiteral |-> {size =< Cardinality(L) /\ Cardinality(members) = size},
         sameSize  |-> {size = Cardinality(L)}]

FromExpansion(node, L) ==
    LET values == Halves(node.expansion.values)
    IN  [literalIn |-> {L \subseteq values},
         inLiteral |-> {values \subseteq L},
         sameSize  |-> {Cardinality(values) = Cardinality(L)}]

\* Of an expansion that is not exact: only what it and the extremes settle.
FromExtremes(node, L) ==
    LET ends    == Halves({node.least, node.greatest})
        known   == Halves(node.expansion.values) \cup ends
        within(r) == AsInt(r) # {} /\ r \in Min(ends) .. Max(ends)
    IN  [literalIn |-> IF \E r \in L \ known : ~within(r) THEN {FALSE}
                       ELSE IF L \subseteq known THEN {TRUE}
                       ELSE {},
         inLiteral |-> IF ~(known \subseteq L) \/ Cardinality(node.expansion.values) > Cardinality(L)
                       THEN {FALSE} ELSE {},
         sameSize  |-> {}]

Verdicts(node, L) ==
    IF Counted(node) THEN FromRuns(node, L)
    ELSE IF node.expansion.exact THEN FromExpansion(node, L)
    ELSE FromExtremes(node, L)

\* "<" of two verdicts: not a subset settles it, else the sizes do.
Strict(subset, sameSize) ==
    IF subset = {TRUE} THEN {~same : same \in sameSize} ELSE subset

\* The set before the literal; the other way round swaps the two questions.
CompareLiteral(op, node, L) ==
    CASE op = "<=" -> Verdicts(node, L).inLiteral
      [] op = "<"  -> Strict(Verdicts(node, L).inLiteral, Verdicts(node, L).sameSize)
      [] op = ">=" -> Verdicts(node, L).literalIn
      [] op = ">"  -> Strict(Verdicts(node, L).literalIn, Verdicts(node, L).sameSize)

\* Two sets: both inclusions must be answered, whichever is asked for.
CompareSets(op, l, r) ==
    LET subset   == IsSubsetOfExact(l, r)
        superset == IsSubsetOfExact(r, l)
    IN  IF {} \in {subset, superset} THEN {}
        ELSE CASE op = "<=" -> subset
               [] op = "<"  -> {subset = {TRUE} /\ superset = {FALSE}}
               [] op = ">=" -> superset
               [] op = ">"  -> {superset = {TRUE} /\ subset = {FALSE}}

----------------------------------------------------------------------------
(* Properties                                                              *)

Compared(op, S, T) ==
    CASE op = "<=" -> S \subseteq T
      [] op = "<"  -> S \subseteq T /\ S # T
      [] op = ">=" -> T \subseteq S
      [] op = ">"  -> T \subseteq S /\ S # T

Orders == {"<=", "<", ">=", ">"}

(* A number of elements, the elements, and every comparison with a literal *)
(* or another set is what the sets that are meant have, or a diagnostic.   *)
EvaluationsAreExact ==
    \A i \in DOMAIN sets :
        LET node == sets[i]
            S    == sets[i].denotes
        IN  /\ CountOf(node) \in {0, Cardinality(S)}
            /\ MaterializeExact(node) \in {{}, S}
            /\ \A L \in Literals :
                  /\ EqualsLiteral(node, L) \subseteq {Halves(S) = L}
                  /\ \A op \in Orders :
                        CompareLiteral(op, node, L) \subseteq {Compared(op, Halves(S), L)}
            /\ \A j \in DOMAIN sets : \A op \in Orders :
                  CompareSets(op, node, sets[j]) \subseteq {Compared(op, S, sets[j].denotes)}

(* Every answer about a set is true of what it stands for, from the        *)
(* extremes and the residues to the comparisons in a definition, though    *)
(* no answer but the last resort ever enumerates it.                       *)
AnswersAreExact ==
    SetAnswersAreExact /\ ExpansionIsHonest /\ EvaluationsAreExact

=============================================================================
