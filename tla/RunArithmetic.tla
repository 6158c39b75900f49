--------------------------- MODULE RunArithmetic ---------------------------
(***************************************************************************)
(* Sets of bit lengths as sequences of arithmetic progressions             *)
(* (src/lib/Semantics/RunSet.cpp).  A run is a start, a stride and a       *)
(* count; a set is a sequence of runs that share no element, in the order  *)
(* of their starts.  An operation gives the exact result or refuses: an    *)
(* overflow of the integers or a budget that is used up never yields a     *)
(* wrong set.                                                              *)
(*                                                                         *)
(* Bit lengths are never negative, so the branches for negative elements   *)
(* are left out.  Every limit of the code is a constant: the integers end  *)
(* at IntMax.                                                              *)
(***************************************************************************)
EXTENDS Integers, Sequences, FiniteSets, SequencesExt

CONSTANTS IntMax,          \* INT64_MAX
          OpBudget,        \* kOpBudget: runs examined or made in one operation
          MaxIterations,   \* kMaxIterations: sums formed by one repetition
          UnionLimit,      \* kEnumUnionLimit: elements united one by one
          ProductLimit,    \* kEnumSumLimit: pairs summed one by one
          SpanLimit,       \* kSumSpanLimit: length of the bitmap of a sum
          WordBits,        \* bits of a word of that bitmap: 64
          WordOps,         \* kWordOpsCap: words combined in that bitmap
          ResidueBudget,   \* kResidueBudget: different residues of a set
          WalkBudget       \* kResidueWalkBudget: residues met on the way

ASSUME RunConstants ==
    /\ {IntMax, OpBudget, MaxIterations, WordBits, ResidueBudget} \subseteq Nat \ {0}
    /\ {UnionLimit, ProductLimit, SpanLimit, WordOps, WalkBudget} \subseteq Nat
    /\ UnionLimit =< IntMax /\ ProductLimit =< IntMax /\ SpanLimit =< IntMax

----------------------------------------------------------------------------
(* Runs                                                                    *)

NoRun == [start |-> 0, stride |-> 0, count |-> 0]

\* The set an operation refuses to give.
Refused == << >>

LastOf(r) == r.start + (r.count - 1) * r.stride

ElementsOf(r) == {r.start + i * r.stride : i \in 0 .. (r.count - 1)}

Denoted(runs) == UNION {ElementsOf(runs[i]) : i \in DOMAIN runs}

\* makeRun: NoRun where the run cannot be represented.  A run of one element
\* has the stride 1.
MakeRun(start, stride, count) ==
    LET run == [start |-> start, stride |-> IF count = 1 THEN 1 ELSE stride, count |-> count]
    IN  IF count \in 1 .. IntMax /\ stride >= 1 /\ LastOf(run) =< IntMax THEN run ELSE NoRun

MakeRunThrough(start, stride, last) ==
    IF last >= start /\ (last - start) % stride = 0
    THEN MakeRun(start, stride, ((last - start) \div stride) + 1)
    ELSE NoRun

\* The set of one run.
Alone(run) == IF run = NoRun THEN Refused ELSE <<run>>

GcdOf(a, b) == Max({d \in 1 .. Max({a, b}) : a % d = 0 /\ b % d = 0})

LcmOf(a, b) == (a \div GcdOf(a, b)) * b

\* extendedGcd: the factor that takes "a" to its gcd with "b", modulo "b".
InverseOf(a, b) == CHOOSE x \in 0 .. (b - 1) : (a * x) % b = GcdOf(a, b) % b

\* An element "a" has in common with "b" if both went on for ever.
Solution(a, b, g) ==
    a.start + a.stride * ((((b.start - a.start) \div g) * InverseOf(a.stride, b.stride)) % (b.stride \div g))

\* The run from "x" on with stride "lcm", advanced into lo .. hi.
RunWithin(x, lcm, lo, hi) ==
    LET first == IF x < lo /\ lcm =< IntMax THEN x + ((lo - x + lcm - 1) \div lcm) * lcm ELSE x
    IN  IF first \notin lo .. hi THEN NoRun
        ELSE MakeRun(first, lcm, IF lcm =< IntMax THEN ((hi - first) \div lcm) + 1 ELSE 1)

(* intersectRuns: the common elements of two runs are a run again, by the  *)
(* Chinese remainder theorem.                                              *)
Intersection(a, b) ==
    LET lo == Max({a.start, b.start})
        hi == Min({LastOf(a), LastOf(b)})
        g  == GcdOf(a.stride, b.stride)
    IN  IF lo > hi \/ (b.start - a.start) % g # 0 THEN NoRun
        ELSE RunWithin(Solution(a, b, g), LcmOf(a.stride, b.stride), lo, hi)

(* subtractSubProgression: what is left of "r" without "cut", which lies   *)
(* on it: the elements before, the classes it passes over, those after.    *)
Remainder(r, cut) ==
    LET head  == IF cut.start > r.start
                 THEN << MakeRun(r.start, r.stride, (cut.start - r.start) \div r.stride) >>
                 ELSE << >>
        class(j) == LET start == cut.start + j * r.stride
                    IN  MakeRun(start, cut.stride,
                                Min({cut.count - 1, ((LastOf(r) - start) \div cut.stride) + 1}))
        between  == SelectSeq([j \in 1 .. ((cut.stride \div r.stride) - 1) |-> class(j)],
                              LAMBDA run : run # NoRun)
        after == LastOf(cut) + r.stride
        tail  == IF after =< LastOf(r)
                 THEN << MakeRun(after, r.stride, ((LastOf(r) - after) \div r.stride) + 1) >>
                 ELSE << >>
    IN  head \o between \o tail

----------------------------------------------------------------------------
(* Sets of runs                                                            *)

\* One run for two neighbours that continue each other, or NoRun.
Joined(cur, next) ==
    LET stride == CASE cur.count > 1 /\ next.count > 1  -> IF cur.stride = next.stride THEN cur.stride ELSE 0
                    [] cur.count > 1 /\ next.count = 1  -> cur.stride
                    [] cur.count = 1 /\ next.count > 1  -> next.stride
                    [] cur.count = 1 /\ next.count = 1  -> next.start - cur.start
    IN  IF next.start = LastOf(cur) + stride
        THEN MakeRun(cur.start, stride, cur.count + next.count)
        ELSE NoRun

Coalesced(runs) ==
    LET Extend(done, next) ==
            LET run == Joined(Last(done), next)
            IN  IF run = NoRun THEN Append(done, next) ELSE Append(Front(done), run)
    IN  IF Len(runs) < 2 THEN runs ELSE FoldLeft(Extend, <<Head(runs)>>, Tail(runs))

Ascending(S) == SelectSeq([i \in 1 .. (IntMax + 1) |-> i - 1], LAMBDA v : v \in S)

\* fromValues: maximal runs over the sorted elements; no element stands for {0}.
FromValues(S) ==
    LET values == Ascending(IF S = {} THEN {0} ELSE S)
    IN  Coalesced([i \in DOMAIN values |-> MakeRun(values[i], 1, 1)])

SizeOf(runs) == FoldLeft(LAMBDA n, r : n + r.count, 0, runs)

\* The smallest element, and the largest.
LeastIn(runs) == runs[1].start

GreatestIn(runs) == Max({LastOf(runs[i]) : i \in DOMAIN runs})

(* isSubsetOf: the runs of "b" are disjoint, so a run of "a" is covered    *)
(* when the sizes of its intersections with them add up to its own.        *)
RunsSubset(a, b) ==
    \A i \in DOMAIN a :
        FoldLeft(LAMBDA n, o : n + Intersection(a[i], o).count, 0, b) = a[i].count

RunsEqual(a, b) ==
    /\ SizeOf(a) =< IntMax /\ SizeOf(b) =< IntMax => SizeOf(a) = SizeOf(b)
    /\ RunsSubset(a, b) /\ RunsSubset(b, a)

----------------------------------------------------------------------------
(* Building a set run by run, on a budget.  A set under construction is    *)
(* its runs, the pieces still to place, and what is left of the budget,    *)
(* which is negative once the operation has refused.                       *)

Empty == [runs |-> << >>, pending |-> << >>, budget |-> OpBudget]

Spent(done) == [done EXCEPT !.budget = -1]

Finished(done) == IF done.budget < 0 THEN Refused ELSE Coalesced(done.runs)

(* One piece, the last of those pending.  "common" is what it shares with  *)
(* each run: where that is nothing it becomes a run, else what is left     *)
(* without the first run it meets is placed in turn.  A piece costs one,   *)
(* and each run it is compared with, and each fragment.                    *)
Placed(done, piece, common) ==
    LET sharing == {i \in DOMAIN common : common[i] # NoRun}
        met     == IF sharing = {} THEN Len(common) ELSE Min(sharing)
        rest    == IF sharing = {} \/ common[met].count = piece.count THEN << >>
                   ELSE Remainder(piece, common[met])
        place   == Cardinality({i \in DOMAIN done.runs : done.runs[i].start < piece.start}) + 1
    IN  [runs    |-> IF sharing = {} THEN InsertAt(done.runs, place, piece) ELSE done.runs,
         pending |-> Front(done.pending) \o rest,
         budget  |-> done.budget - 1 - met - Len(rest)]

\* insertRun
RECURSIVE PlaceAll(_)
PlaceAll(done) ==
    IF done.pending = << >> \/ done.budget < 0 THEN done
    ELSE LET piece == Last(done.pending)
         IN  PlaceAll(Placed(done, piece,
                             [i \in DOMAIN done.runs |-> Intersection(piece, done.runs[i])]))

\* The first run of a new set is taken as it is.
Inserted(done, run) ==
    IF done.budget < 0 THEN done
    ELSE IF run = NoRun THEN Spent(done)
    ELSE IF done.runs = << >> THEN [done EXCEPT !.runs = <<run>>]
    ELSE PlaceAll([done EXCEPT !.pending = <<run>>])

Unite(a, b) ==
    IF SizeOf(a) + SizeOf(b) =< UnionLimit
    THEN FromValues(Denoted(a) \cup Denoted(b))
    ELSE Finished(FoldLeft(Inserted, [Empty EXCEPT !.runs = a], b))

----------------------------------------------------------------------------
(* The sum of two sets: in a bitmap where the result is short, pair by     *)
(* pair where there are few, and run by run otherwise.                     *)

WordsFor(span) == (span + WordBits - 1) \div WordBits

(* The bitmap of "small" is put down once for every element of "large": a  *)
(* shift within a word spills its upper bits into the next.                *)
BitmapSum(small, large) ==
    LET bits    == [w \in 0 .. (WordsFor(GreatestIn(small) - LeastIn(small) + 1) - 1) |->
                        {b \in 0 .. (WordBits - 1) : w * WordBits + b + LeastIn(small) \in Denoted(small)}]
        lo      == LeastIn(small) + LeastIn(large)
        word(x) == (x - LeastIn(large)) \div WordBits
        shift(x) == (x - LeastIn(large)) % WordBits
        marked(x, w)  == {<<word(x) + w, b + shift(x)>> :
                              b \in {c \in bits[w] : c + shift(x) < WordBits}}
        spilled(x, w) == {<<word(x) + w + 1, b + shift(x) - WordBits>> :
                              b \in {c \in bits[w] : c + shift(x) >= WordBits}}
        result  == UNION {marked(p[1], p[2]) \cup spilled(p[1], p[2]) : p \in Denoted(large) \X DOMAIN bits}
    IN  FromValues({lo + p[1] * WordBits + p[2] : p \in result})

\* The sums of two runs: one run, or the larger one moved by every element
\* of the smaller.
PairSums(ra, rb) ==
    LET big   == IF ra.count >= rb.count THEN ra ELSE rb
        small == IF ra.count >= rb.count THEN rb ELSE ra
    IN  IF small.count > 1 /\ ra.stride = rb.stride
        THEN << IF ra.count + rb.count =< IntMax
                THEN MakeRun(ra.start + rb.start, ra.stride, ra.count + rb.count - 1)
                ELSE NoRun >>
        ELSE [i \in 1 .. small.count |->
                  MakeRun(ra.start + rb.start + (i - 1) * small.stride, big.stride, big.count)]

StructuralSum(a, b) ==
    LET AddPair(done, pair) ==
            IF Len(PairSums(pair[1], pair[2])) > done.budget THEN Spent(done)
            ELSE FoldLeft(Inserted, done, PairSums(pair[1], pair[2]))
        pairs == [n \in 1 .. Len(a) * Len(b) |->
                      <<a[((n - 1) \div Len(b)) + 1], b[((n - 1) % Len(b)) + 1]>>]
    IN  Finished(FoldLeft(AddPair, Empty, pairs))

Sum(a, b) ==
    LET spanOf(runs) == GreatestIn(runs) - LeastIn(runs) + 1
        small == IF spanOf(a) =< spanOf(b) THEN a ELSE b
        large == IF spanOf(a) =< spanOf(b) THEN b ELSE a
        fits  == GreatestIn(a) + GreatestIn(b) =< IntMax
    IN  IF fits /\ spanOf(a) + spanOf(b) - 1 =< SpanLimit
           /\ SizeOf(large) * (WordsFor(spanOf(small)) + 1) =< WordOps
        THEN BitmapSum(small, large)
        ELSE IF SizeOf(a) * SizeOf(b) =< ProductLimit
        THEN IF fits THEN FromValues({x + y : x \in Denoted(a), y \in Denoted(b)}) ELSE Refused
        ELSE StructuralSum(a, b)

----------------------------------------------------------------------------
(* Padding                                                                 *)

PadUp(v, alignment) == ((v + alignment - 1) \div alignment) * alignment

(* paddedTo: the elements of a run that lie the same distance below a      *)
(* multiple of the alignment are a run, and are moved together.            *)
PaddedTo(runs, alignment) ==
    LET Classes(r) == alignment \div GcdOf(r.stride, alignment)
        Class(r, j) == LET start  == r.start + j * r.stride
                           period == r.stride * Classes(r)
                       IN  MakeRun(PadUp(start, alignment), period,
                                   ((LastOf(r) - start) \div period) + 1)
        Refuses(done, r) ==
            \/ r.stride * Classes(r) > IntMax
            \/ Classes(r) > done.budget
            \/ r.count < Classes(r) /\ LastOf(r) + r.stride > IntMax
        PadRun(done, r) ==
            IF Refuses(done, r) THEN Spent(done)
            ELSE FoldLeft(Inserted, done,
                          [j \in 1 .. Min({Classes(r), r.count}) |-> Class(r, j - 1)])
    IN  IF alignment =< 1 THEN runs ELSE Finished(FoldLeft(PadRun, Empty, runs))

----------------------------------------------------------------------------
(* Repetition                                                              *)

\* Two sums in a row that are single runs of one stride, the second moved by
\* the least and the greatest element: every later sum moves the same way.
Pinned(runs, before, after) ==
    /\ Len(before) = 1 /\ Len(after) = 1
    /\ before[1].stride = after[1].stride
    /\ after[1].start = before[1].start + LeastIn(runs)
    /\ LastOf(after[1]) = LastOf(before[1]) + GreatestIn(runs)

\* The "count"-fold sum, "term" being the j-fold one and "before" the one before.
RECURSIVE SumsFrom(_, _, _, _, _)
SumsFrom(runs, before, term, j, count) ==
    LET left == count - j
    IN  IF term = Refused THEN Refused
        ELSE IF Pinned(runs, before, term)
        THEN Alone(MakeRunThrough(term[1].start + left * LeastIn(runs), term[1].stride,
                                  LastOf(term[1]) + left * GreatestIn(runs)))
        ELSE IF j >= MaxIterations THEN Refused
        ELSE IF j = count THEN term
        ELSE SumsFrom(runs, term, Sum(term, runs), j + 1, count)

Repeated(runs, count) ==
    IF count = 0 THEN FromValues({0}) ELSE SumsFrom(runs, << >>, runs, 1, count)

\* The stride the sums end up with: the gcd of the differences.
StrideOfSums(runs) ==
    LET gaps == {r.stride : r \in {runs[i] : i \in {j \in DOMAIN runs : runs[j].count > 1}}}
                \cup {runs[i].start - LeastIn(runs) : i \in DOMAIN runs \ {1}}
    IN  FoldSet(GcdOf, 0, gaps)

(* The runs of the j-fold sums from "from" on, where each reaches the next *)
(* of its family: one run for each family, the sums whose first elements   *)
(* agree modulo the stride "g".                                            *)
WithFamilies(runs, g, families, done, from, countMax) ==
    LET m == LeastIn(runs)
        UniteFamily(sofar, f) ==
            LET j0   == from + f - 1
                jEnd == j0 + ((countMax - j0) \div families) * families
                run  == MakeRunThrough(j0 * m, g, jEnd * GreatestIn(runs))
            IN  IF sofar = Refused \/ run = NoRun THEN Refused ELSE Unite(sofar, <<run>>)
        many == Min({families, countMax - from + 1})
    IN  IF many > OpBudget THEN Refused
        ELSE FoldLeft(UniteFamily, done, [f \in 1 .. many |-> f])

\* Mutant: the next of the family need only be reached by the next sum.
ChainedTooSoon(runs, g, families, j) ==
    (j + families) * LeastIn(runs) =< (j + 1) * GreatestIn(runs) + g

\* From the j-fold sum on, the run of each sum reaches the next of its family.
Chained(runs, g, families, j) ==
    /\ (j + families) * LeastIn(runs) =< j * GreatestIn(runs) + g
    /\ j * GreatestIn(runs) + g =< IntMax

(* The sums after the k-fold one, which is dense: each is the run from     *)
(* j times the least to j times the greatest element.  They are united one *)
(* by one until the families chain.                                        *)
RECURSIVE DenseSums(_, _, _, _, _, _)
DenseSums(runs, g, done, k, j, countMax) ==
    LET m        == LeastIn(runs)
        greatest == GreatestIn(runs)
        families == IF m % g = 0 THEN 1 ELSE g \div GcdOf(g, m % g)
    IN  IF done = Refused \/ j > countMax THEN done
        ELSE IF j * greatest > IntMax THEN Refused
        ELSE IF Chained(runs, g, families, j) THEN WithFamilies(runs, g, families, done, j, countMax)
        ELSE IF j - k > MaxIterations THEN Refused
        ELSE DenseSums(runs, g, Unite(done, <<MakeRunThrough(j * m, g, j * greatest)>>),
                       k, j + 1, countMax)

\* The k-fold sum is the whole run it lies on.
IsDense(runs, g, term, k) ==
    /\ Len(term) = 1
    /\ term[1].start = k * LeastIn(runs) /\ LastOf(term[1]) = k * GreatestIn(runs)
    /\ term[1].stride = g \/ term[1].count = 1

\* The sums up to the k-fold one, "term", which is part of "done"; and the
\* same where it is still to be united with it.
RECURSIVE SumsOn(_, _, _, _, _), SumsUpTo(_, _, _, _, _)
SumsOn(runs, done, term, k, countMax) ==
    LET g == StrideOfSums(runs)
    IN  IF done = Refused \/ k = countMax THEN done
        ELSE IF k * GreatestIn(runs) > IntMax THEN Refused
        ELSE IF IsDense(runs, g, term, k) THEN DenseSums(runs, g, done, k, k + 1, countMax)
        ELSE IF k >= MaxIterations THEN Refused
        ELSE SumsUpTo(runs, done, Sum(term, runs), k + 1, countMax)

SumsUpTo(runs, done, term, k, countMax) ==
    IF term = Refused THEN Refused ELSE SumsOn(runs, Unite(done, term), term, k, countMax)

(* repeatRange: the sums of up to "countMax" elements.  With 0 among the   *)
(* elements each sum holds the one before.                                 *)
RepeatedUpTo(runs, countMax) ==
    CASE countMax = 0 \/ Denoted(runs) = {0} -> FromValues({0})
      [] SizeOf(runs) = 1 /\ LeastIn(runs) > 0 -> Alone(MakeRun(0, LeastIn(runs), countMax + 1))
      [] SizeOf(runs) > 1 /\ 0 \in Denoted(runs) -> Repeated(runs, countMax)
      [] OTHER -> SumsUpTo(runs, FromValues({0}), runs, 1, countMax)

----------------------------------------------------------------------------
(* residues: the elements of a run modulo a divisor come back to the first *)
(* after a period.  The empty set is a refusal.                            *)
RunResidues(runs, divisor) ==
    LET Steps(r) == Min({r.count, divisor \div GcdOf(r.stride % divisor, divisor)})
        walked   == FoldLeft(LAMBDA n, r : n + Steps(r), 0, runs)
        unique   == UNION {{(runs[i].start + n * runs[i].stride) % divisor : n \in 0 .. (Steps(runs[i]) - 1)} :
                              i \in DOMAIN runs}
    IN  IF walked > WalkBudget \/ Cardinality(unique) > ResidueBudget THEN {} ELSE unique

=============================================================================
