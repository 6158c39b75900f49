----------------------------- MODULE BitLengths -----------------------------
(***************************************************************************)
(* The bit-length sets of the analyser (src/lib/Semantics/                 *)
(* BitLengthSet.cpp): expressions over leaves, sums, unions, paddings and  *)
(* repetitions, which are never enumerated to answer for the minimum, the  *)
(* maximum, the residues of a divisor or whether two sets are equal.       *)
(*                                                                         *)
(* An expression is the record of what its evaluations memoise:            *)
(*   denotes     the set it stands for, by enumeration: the reference      *)
(*   least, greatest, saturates                                            *)
(*   residues    [modulus |-> the residues, or {} where a padding needs a  *)
(*               modulus beyond ModulusCap]                                *)
(*   runs        the set as runs, or Refused (RunArithmetic)               *)
(*   expansion   the least elements, and whether they are all              *)
(* Each is computed from those of the operands alone, as the walks over    *)
(* the expression do.  Sums beyond the integers stand for IntMax.          *)
(*                                                                         *)
(* The variable is a stack of expressions, as the analyser builds them for *)
(* a definition: leaves are put on it, operations replace what lies on it. *)
(***************************************************************************)
EXTENDS RunArithmetic

CONSTANTS ModulusCap,    \* kResidueModulusCap
          ExpandLimit,   \* the default limit of expandChecked: 16384
          Leaves,        \* the sets leaves are made of
          Alignments,    \* the alignments padded to
          Counts,        \* the numbers of repetitions
          Divisors,      \* the divisors residues are asked for
          MaxSteps       \* bound: operations, leaves included

ASSUME LengthConstants ==
    /\ ModulusCap \in Nat \ {0} /\ ExpandLimit \in Nat \ {0} /\ MaxSteps \in Nat
    /\ \A S \in Leaves : IsFiniteSet(S) /\ S \subseteq 0 .. IntMax
    /\ Alignments \subseteq Int /\ Counts \subseteq Int
    /\ Divisors \subseteq Nat \ {0}

VARIABLES sets,    \* the stack of expressions, at most two
          steps    \* operations so far

vars == <<sets, steps>>

Moduli == 1 .. ModulusCap

Clamped(v) == Min({v, IntMax})

----------------------------------------------------------------------------
(* The sets expressions stand for                                          *)

SumsOf(S, T) == {Clamped(s + t) : s \in S, t \in T}

RECURSIVE FoldOfSums(_, _)
FoldOfSums(S, count) == IF count = 0 THEN {0} ELSE SumsOf(FoldOfSums(S, count - 1), S)

----------------------------------------------------------------------------
(* Residues                                                                *)

\* minkowskiSumMod: of refused residues, refused ones.
SumMod(R, S, m) == {(x + y) % m : x \in R, y \in S}

(* exactlyKSumMod: the sums of 0, 1, 2 ... residues come back to a set met *)
(* before.  "met" holds them, and the answer is found in the cycle.        *)
RECURSIVE CycleOfSums(_, _, _, _)
CycleOfSums(R, count, m, met) ==
    LET cur    == SumMod(Last(met), R, m)
        before == {j \in DOMAIN met : met[j] = cur}
        first  == Min(before) - 1
        period == Len(met) - first
    IN  IF Len(met) > count THEN Last(met)
        ELSE IF before # {} THEN met[first + ((count - first) % period) + 1]
        ELSE CycleOfSums(R, count, m, Append(met, cur))

\* unionUpToKSumMod: their union, until a sum comes back.
RECURSIVE UnionOfSums(_, _, _, _)
UnionOfSums(R, count, m, met) ==
    LET cur == SumMod(Last(met), R, m)
    IN  IF Len(met) > count \/ cur \in {met[j] : j \in DOMAIN met}
        THEN UNION {met[j] : j \in DOMAIN met}
        ELSE UnionOfSums(R, count, m, Append(met, cur))

\* Mutant: the residues of the same modulus, not of one the alignment divides.
PaddedResiduesUnwidened(node, alignment) ==
    [m \in Moduli |-> {PadUp(r, alignment) % m : r \in node.residues[m]}]

(* What a number is padded to depends on its residue modulo the least      *)
(* common multiple of the alignment and the modulus asked for.             *)
PaddedResidues(node, alignment) ==
    [m \in Moduli |->
        IF LcmOf(alignment, m) > ModulusCap THEN {}
        ELSE {PadUp(r, alignment) % m : r \in node.residues[LcmOf(alignment, m)]}]

----------------------------------------------------------------------------
(* Expansion                                                               *)

(* The least elements up to the limit.  A sum or a union that is trimmed   *)
(* is not exact, nor is one of operands that are not.                      *)
Trimmed(S, exact) ==
    [values |-> IF Cardinality(S) =< ExpandLimit THEN S
                ELSE {v \in S : Cardinality({w \in S : w < v}) < ExpandLimit},
     exact  |-> exact /\ Cardinality(S) =< ExpandLimit]

(* One round of a repetition: the sums of "sofar" and "shifted" in the     *)
(* order of both, up to the first one too many, when the largest goes.     *)
Round(sofar, shifted) ==
    LET a == Ascending(sofar)
        b == Ascending(shifted)
        AddPair(done, n) ==
            LET all == done.values \cup
                       {Clamped(a[((n - 1) \div Len(b)) + 1] + b[((n - 1) % Len(b)) + 1])}
            IN  IF ~done.exact THEN done ELSE Trimmed(all, TRUE)
    IN  FoldLeft(AddPair, [values |-> {}, exact |-> TRUE], [n \in 1 .. Len(a) * Len(b) |-> n])

(* Repeat: the least element is taken off and added again at the end, so   *)
(* that the sums grow and stop at a fixpoint.                              *)
RECURSIVE RepeatRounds(_, _, _, _)
RepeatRounds(sofar, shifted, exact, left) ==
    LET next == Round(sofar, shifted)
    IN  IF left = 0 THEN [values |-> sofar, exact |-> exact]
        ELSE IF next.values = sofar THEN [values |-> sofar, exact |-> exact /\ next.exact]
        ELSE RepeatRounds(next.values, shifted, exact /\ next.exact, left - 1)

ExpandedRepeat(item, count) ==
    LET base    == Min(item.values)
        shifted == {v - base : v \in item.values}
        rounds  == RepeatRounds({0}, shifted, item.exact, count)
    IN  IF count = 0 THEN [values |-> {0}, exact |-> TRUE]
        ELSE [values |-> {Clamped(Clamped(count * base) + v) : v \in rounds.values},
              exact  |-> rounds.exact]

(* RepeatRange: the rounds are united, until the next starts beyond what   *)
(* is kept or, with the least element 0, nothing is added.                 *)
RECURSIVE RangeRounds(_, _, _, _, _, _)
RangeRounds(out, sofar, shifted, base, i, count) ==
    LET shift == Clamped(i * base)
        next  == Round(sofar, shifted)
        kept  == Trimmed(out.values \cup {Clamped(shift + v) : v \in next.values},
                         out.exact /\ next.exact)
    IN  IF i > count THEN out
        ELSE IF base > 0 /\ Cardinality(out.values) >= ExpandLimit /\ shift > Max(out.values)
        THEN [out EXCEPT !.exact = FALSE]
        ELSE IF base = 0 /\ next.values = sofar THEN kept
        ELSE RangeRounds(kept, next.values, shifted, base, i + 1, count)

ExpandedRange(item, count) ==
    LET base == Min(item.values)
    IN  IF count = 0 THEN [values |-> {0}, exact |-> TRUE]
        ELSE RangeRounds([values |-> {0}, exact |-> item.exact], {0},
                         {v - base : v \in item.values}, base, 1, count)

----------------------------------------------------------------------------
(* Expressions.  Each evaluation goes over the expression from the leaves  *)
(* up and has one case for every kind of it.                               *)

Minimum(kind, l, r, n) ==
    CASE kind = "add"         -> Clamped(l.least + r.least)
      [] kind = "union"       -> Min({l.least, r.least})
      [] kind = "pad"         -> Clamped(PadUp(l.least, n))
      [] kind = "repeat"      -> Clamped(n * l.least)
      [] kind = "repeatRange" -> 0

\* summary: the maximum, beyond the integers where it saturates here.
Maximum(kind, l, r, n) ==
    CASE kind = "add"   -> l.greatest + r.greatest
      [] kind = "union" -> Max({l.greatest, r.greatest})
      [] kind = "pad"   -> PadUp(l.greatest, n)
      [] kind \in {"repeat", "repeatRange"} -> n * l.greatest

\* summary: no repetition forgets what saturates below it.
Saturates(kind, l, r, n) ==
    /\ ~(kind \in {"repeat", "repeatRange"} /\ n = 0)
    /\ l.saturates \/ r.saturates \/ Maximum(kind, l, r, n) > IntMax

Residues(kind, l, r, n) ==
    IF kind = "pad" THEN PaddedResidues(l, n)
    ELSE [m \in Moduli |->
            IF {} \in {l.residues[m], r.residues[m]} THEN {}
            ELSE CASE kind = "add"         -> SumMod(l.residues[m], r.residues[m], m)
                   [] kind = "union"       -> l.residues[m] \cup r.residues[m]
                   [] kind = "repeat"      -> CycleOfSums(l.residues[m], n, m, <<{0}>>)
                   [] kind = "repeatRange" -> UnionOfSums(l.residues[m], n, m, <<{0}>>)]

RunsOf(kind, l, r, n) ==
    IF Refused \in {l.runs, r.runs} THEN Refused
    ELSE CASE kind = "add"         -> Sum(l.runs, r.runs)
           [] kind = "union"       -> Unite(l.runs, r.runs)
           [] kind = "pad"         -> PaddedTo(l.runs, n)
           [] kind = "repeat"      -> Repeated(l.runs, n)
           [] kind = "repeatRange" -> RepeatedUpTo(l.runs, n)

\* expandNode
Expanded(kind, l, r, n) ==
    LET exact == l.exact /\ r.exact
    IN  CASE kind = "add"         -> Trimmed(SumsOf(l.values, r.values), exact)
          [] kind = "union"       -> Trimmed(l.values \cup r.values, exact)
          [] kind = "pad"         -> Trimmed({Clamped(PadUp(v, n)) : v \in l.values}, exact)
          [] kind = "repeat"      -> ExpandedRepeat(l, n)
          [] kind = "repeatRange" -> ExpandedRange(l, n)

\* The reference: the set itself.
Meaning(kind, S, T, n) ==
    CASE kind = "add"         -> SumsOf(S, T)
      [] kind = "union"       -> S \cup T
      [] kind = "pad"         -> {Clamped(PadUp(v, n)) : v \in S}
      [] kind = "repeat"      -> FoldOfSums(S, n)
      [] kind = "repeatRange" -> UNION {FoldOfSums(S, k) : k \in 0 .. n}

\* An expression of the operands "l" and "r", of "l" alone where they are one.
Node(kind, l, r, n) ==
    [denotes   |-> Meaning(kind, l.denotes, r.denotes, n),
     least     |-> Minimum(kind, l, r, n),
     greatest  |-> Clamped(Maximum(kind, l, r, n)),
     saturates |-> Saturates(kind, l, r, n),
     residues  |-> Residues(kind, l, r, n),
     runs      |-> RunsOf(kind, l, r, n),
     expansion |-> Expanded(kind, l.expansion, r.expansion, n)]

LeafNode(S) ==
    LET values == IF S = {} THEN {0} ELSE S
    IN  [denotes   |-> values,
         least     |-> Min(values),
         greatest  |-> Max(values),
         saturates |-> FALSE,
         residues  |-> [m \in Moduli |-> {v % m : v \in values}],
         runs      |-> FromValues(values),
         expansion |-> Trimmed(values, TRUE)]

----------------------------------------------------------------------------
(* Answers                                                                 *)

(* modulo: from the residues where nothing saturates, else from the runs,  *)
(* else from an exact expansion.  The empty set is a refusal.              *)
Modulo(node, divisor) ==
    LET symbolic == IF divisor =< ModulusCap /\ ~node.saturates THEN node.residues[divisor] ELSE {}
        byRuns   == IF node.runs = Refused THEN {} ELSE RunResidues(node.runs, divisor)
    IN  IF divisor = 1 THEN {0}
        ELSE IF symbolic # {} THEN symbolic
        ELSE IF byRuns # {} THEN byRuns
        ELSE IF node.expansion.exact THEN {v % divisor : v \in node.expansion.values}
        ELSE {}

\* is_aligned_at: {TRUE}, {FALSE}, or {} for an answer that is refused.
AlignedAt(node, alignment) ==
    IF Modulo(node, alignment) = {} THEN {} ELSE {Modulo(node, alignment) = {0}}

\* equalsExact; that an expression equals itself needs no look at it in the
\* code, here it is found the long way.
EqualsExact(l, r) ==
    IF <<l.least, l.greatest>> # <<r.least, r.greatest>> THEN {FALSE}
    ELSE IF Refused \notin {l.runs, r.runs} THEN {RunsEqual(l.runs, r.runs)}
    ELSE IF l.expansion.exact /\ r.expansion.exact THEN {l.expansion.values = r.expansion.values}
    ELSE {}

\* isSubsetOfExact
IsSubsetOfExact(l, r) ==
    IF l.least < r.least \/ l.greatest > r.greatest THEN {FALSE}
    ELSE IF Refused \notin {l.runs, r.runs} THEN {RunsSubset(l.runs, r.runs)}
    ELSE IF l.expansion.exact /\ r.expansion.exact
    THEN {l.expansion.values \subseteq r.expansion.values}
    ELSE {}

----------------------------------------------------------------------------
(* Operations                                                              *)

Step(stack) ==
    /\ steps < MaxSteps
    /\ steps' = steps + 1
    /\ sets' = stack

\* The stack after an operation on the last expression.
Applied(kind, n) == Append(Front(sets), Node(kind, Last(sets), Last(sets), n))

\* BitLengthSet(values)
Leaf == \E S \in Leaves : Len(sets) < 2 /\ Step(Append(sets, LeafNode(S)))

\* operator+
Add == Len(sets) = 2 /\ Step(<<Node("add", sets[1], sets[2], 0)>>)

\* operator|
Union == Len(sets) = 2 /\ Step(<<Node("union", sets[1], sets[2], 0)>>)

\* padToAlignment: an alignment below 1 is 1.
PadToAlignment == \E a \in Alignments : sets # << >> /\ Step(Applied("pad", Max({1, a})))

\* repeat: a count below 0 is 0.
Repeat == \E n \in Counts : sets # << >> /\ Step(Applied("repeat", Max({0, n})))

\* repeatRange
RepeatRange == \E n \in Counts : sets # << >> /\ Step(Applied("repeatRange", Max({0, n})))

\* The expressions of a definition are done with, and the next one begins.
Drop == sets # << >> /\ sets' = << >> /\ steps' = 0

Init == sets = << >> /\ steps = 0

Next == Leaf \/ Add \/ Union \/ PadToAlignment \/ Repeat \/ RepeatRange \/ Drop

Spec == Init /\ [][Next]_vars

----------------------------------------------------------------------------
(* Properties                                                              *)

(* RunSet::valid: the runs are in normal form, within the integers, in the *)
(* order of their starts, and share no element.                            *)
ValidRuns(runs) ==
    /\ runs # << >>
    /\ \A i \in DOMAIN runs :
          /\ runs[i].count \in 1 .. IntMax /\ runs[i].stride >= 1
          /\ runs[i].count = 1 => runs[i].stride = 1
          /\ LastOf(runs[i]) =< IntMax
    /\ \A i, j \in DOMAIN runs :
          i < j => runs[i].start < runs[j].start /\ ElementsOf(runs[i]) \cap ElementsOf(runs[j]) = {}

(* The runs of an expression are a set in normal form that is exactly what *)
(* the expression stands for, or there are none, whatever budget was used  *)
(* up and whatever overflowed on the way.                                  *)
RunsAreExact ==
    \A i \in DOMAIN sets :
        sets[i].runs # Refused =>
            ValidRuns(sets[i].runs) /\ Denoted(sets[i].runs) = sets[i].denotes

(* The minimum and the maximum are those of the set, and each answer about *)
(* residues, equality and inclusion is the true one or a refusal, whichever *)
(* of the three ways it was found, in a set that saturates too.            *)
SetAnswersAreExact ==
    /\ \A i \in DOMAIN sets :
          LET S == sets[i].denotes IN
          /\ sets[i].least = Min(S) /\ sets[i].greatest = Max(S)
          /\ \A d \in Divisors :
                /\ Modulo(sets[i], d) \in {{}, {v % d : v \in S}}
                /\ AlignedAt(sets[i], d) \subseteq {\A v \in S : v % d = 0}
    /\ \A i, j \in DOMAIN sets :
          /\ EqualsExact(sets[i], sets[j]) \subseteq {sets[i].denotes = sets[j].denotes}
          /\ IsSubsetOfExact(sets[i], sets[j]) \subseteq {sets[i].denotes \subseteq sets[j].denotes}

(* An expansion has elements of the set alone, at least one and no more    *)
(* than the limit, and is marked exact only when it has them all, where    *)
(* repetitions stopped at a fixpoint or at the limit.                      *)
ExpansionIsHonest ==
    \A i \in DOMAIN sets :
        LET expansion == sets[i].expansion IN
        /\ expansion.values \subseteq sets[i].denotes
        /\ Cardinality(expansion.values) \in 1 .. ExpandLimit
        /\ expansion.exact => expansion.values = sets[i].denotes

=============================================================================
