----------------------------- MODULE TypeLayout -----------------------------
(***************************************************************************)
(* The wire layout the analyser gives a definition, and the steps the      *)
(* lowering makes of it (src/lib/Semantics/Analyzer.cpp,                   *)
(* src/lib/Lowering/LowerToMLIR.cpp, src/lib/Transforms/Passes.cpp).       *)
(*                                                                         *)
(* Definitions are numbered so that a field only names a definition of a   *)
(* smaller number: the order in which the analyser finishes them.  A       *)
(* bit-length set is the finite set of numbers it stands for.              *)
(*                                                                         *)
(* A definition is a record                                                *)
(*   [union, sealed : BOOLEAN, extent : Nat, fields : Seq(field)]          *)
(* and a field is a record                                                 *)
(*   [cat : Categories, bits : 0 .. 64, sat : BOOLEAN, ref : Nat,          *)
(*    array : {"none", "fixed", "variable"}, cap : Nat]                    *)
(* where "ref" numbers the definition of a composite field and "cap" is    *)
(* the number of elements an array holds at most.                          *)
(***************************************************************************)
EXTENDS Naturals, Integers, Sequences, FiniteSets

CONSTANTS Types,        \* the definitions, a sequence of records
          HeaderBits    \* kDelimiterHeaderBits: 32 in the code

ByteBits == 8

Categories == {"void", "bool", "unsigned", "signed", "composite"}

TypeIds == DOMAIN Types

IsSequence(s) == Len(s) \in Nat /\ DOMAIN s = 1 .. Len(s)

\* A scalar and a void field have at most 64 bits (validateBitLength of
\* src/lib/Frontend/Parser.cpp refuses any other width).
ASSUME LayoutConstants ==
    /\ HeaderBits \in Nat /\ HeaderBits % ByteBits = 0 /\ HeaderBits > 0
    /\ IsSequence(Types)
    /\ \A i \in TypeIds :
          /\ Types[i].union \in BOOLEAN /\ Types[i].sealed \in BOOLEAN /\ Types[i].extent \in Nat
          /\ IsSequence(Types[i].fields)
          /\ \A k \in DOMAIN Types[i].fields :
                LET f == Types[i].fields[k] IN
                /\ f.cat \in Categories
                /\ f.bits \in 0 .. 64 /\ f.cap \in Nat
                /\ f.cat = "bool" => f.bits = 1
                /\ f.array \in {"none", "fixed", "variable"}
                /\ f.cat = "composite" => f.ref \in 1 .. (i - 1)

Fields == [i \in TypeIds |-> Types[i].fields]

IsUnion == [i \in TypeIds |-> Types[i].union]

IsSealed == [i \in TypeIds |-> Types[i].sealed]

IsArray(f) == f.array # "none"

IsComposite(f) == f.cat = "composite"

\* padToAlignment: the smallest multiple of "a" that is not below "n".
PadTo(n, a) == ((n + a - 1) \div a) * a

----------------------------------------------------------------------------
(* Bit-length sets                                                         *)

LeastOf(S) == CHOOSE m \in S : \A n \in S : m =< n

GreatestOf(S) == CHOOSE m \in S : \A n \in S : m >= n

SumOf(S, T) == {s + t : s \in S, t \in T}

\* repeat: the lengths of exactly n elements.
Repeated(S, n) ==
    LET times[k \in 0 .. n] == IF k = 0 THEN {0} ELSE SumOf(times[k - 1], S)
    IN  times[n]

\* repeatRange: the lengths of up to n elements.
RepeatedUpTo(S, n) == UNION {Repeated(S, k) : k \in 0 .. n}

\* The number of bits a count up to n takes.
BitWidth(n) == LeastOf({b \in 0 .. n : n < 2 ^ b})

\* pow2ceil of at least 8: the widths a length prefix and a tag can have.
HeldIn(bits) == LeastOf({w \in {8, 16, 32, 64} : bits =< w})

LengthPrefixBits(f) == IF f.array = "variable" THEN HeldIn(BitWidth(f.cap)) ELSE 0

\* ceilLog2 of the number of options, held in whole bytes.
UnionTagBits(d) == HeldIn(BitWidth(Len(d.fields) - 1))

\* A capacity is an int64_t, and so is the number of options.
ASSUME CountsAreOf64Bits ==
    \A i \in TypeIds :
      /\ \A k \in DOMAIN Fields[i] : Fields[i][k].array = "variable" => BitWidth(Fields[i][k].cap) \in 0 .. 64
      /\ IsUnion[i] => BitWidth(Len(Fields[i]) - 1) \in 0 .. 64

----------------------------------------------------------------------------
(* analyzeType, analyzeSection: the offsets a section may end at           *)

\* Mutant: a variable-length array is taken to be full.
FieldLengthsOfFull(f, one) ==
    IF f.array = "none" THEN one ELSE SumOf({LengthPrefixBits(f)}, Repeated(one, f.cap))

\* The lengths of a field whose scalar has the lengths in "one".
FieldLengths(f, one) ==
    CASE f.array = "none"     -> one
      [] f.array = "fixed"    -> Repeated(one, f.cap)
      [] f.array = "variable" -> SumOf({LengthPrefixBits(f)}, RepeatedUpTo(one, f.cap))

AlignmentOf(f) == IF IsComposite(f) THEN ByteBits ELSE 1

PaddedTo(S, a) == {PadTo(n, a) : n \in S}

\* Mutant: the delimiter header is not counted.
ScalarLengthsOfContent(f, sealed) ==
    IF ~IsComposite(f) THEN {f.bits}
    ELSE IF IsSealed[f.ref] THEN sealed[f.ref]
    ELSE {ByteBits * n : n \in 0 .. (Types[f.ref].extent \div ByteBits)}

\* The lengths of one element: "sealed" are the lengths of each definition.
ScalarLengths(f, sealed) ==
    IF ~IsComposite(f) THEN {f.bits}
    ELSE IF IsSealed[f.ref] THEN sealed[f.ref]
    ELSE {HeaderBits + ByteBits * n : n \in 0 .. (Types[f.ref].extent \div ByteBits)}

SectionLengths(d, lengths) ==
    LET after[k \in 0 .. Len(d.fields)] ==
          IF k = 0 THEN {0}
          ELSE SumOf(PaddedTo(after[k - 1], AlignmentOf(d.fields[k])), lengths[k])
    IN  PaddedTo(IF d.union
                 THEN SumOf({UnionTagBits(d)}, UNION {lengths[k] : k \in DOMAIN d.fields})
                 ELSE after[Len(d.fields)],
                 ByteBits)

OffsetAtEnd ==
    LET ends[i \in TypeIds] ==
          SectionLengths(Types[i],
                         [k \in DOMAIN Fields[i] |->
                            FieldLengths(Fields[i][k], ScalarLengths(Fields[i][k], ends))])
    IN  [i \in TypeIds |-> ends[i]]

MaxBits == [i \in TypeIds |-> GreatestOf(OffsetAtEnd[i])]

\* What analyzeType and analyzeSection report no error for.
Accepted(i) ==
    /\ \A k \in DOMAIN Fields[i] :
          LET f == Fields[i][k] IN
          /\ IsArray(f) => f.cap >= 1 /\ f.cat # "void"
          /\ IsUnion[i] => f.cat # "void"
    /\ IsUnion[i] => Len(Fields[i]) >= 2
    /\ ~IsSealed[i] => /\ Types[i].extent % ByteBits = 0
                           /\ Types[i].extent >= MaxBits[i]

----------------------------------------------------------------------------
(* The steps of a plan                                                     *)

AlignStep == [kind |-> "align", field |-> 0]

FieldStep(k) == [kind |-> "field", field |-> k]

TagStep == [kind |-> "tag", field |-> 0]

(***************************************************************************)
(* An alignment step comes before every field; canonicalizePlan drops the  *)
(* ones of a single bit, and the void fields of no bits.  A union has its  *)
(* tag first and then the option the tag selects.                          *)
(***************************************************************************)
FieldSteps(f, k) ==
    (IF AlignmentOf(f) > 1 THEN <<AlignStep>> ELSE << >>)
      \o (IF f.cat = "void" /\ f.bits = 0 THEN << >> ELSE <<FieldStep(k)>>)

StepsOf(d) ==
    LET from[k \in 1 .. (Len(d.fields) + 1)] ==
          IF k > Len(d.fields) THEN << >> ELSE FieldSteps(d.fields[k], k) \o from[k + 1]
    IN  IF d.union THEN <<TagStep>> ELSE from[1]

Steps == [i \in TypeIds |-> StepsOf(Types[i])]

\* No length known: FixedBits and the cursors of PlanBodies.
Unknown == -1

\* nestedFixedBits: the one length of a plan, or nothing.
OneLength(S) == IF LeastOf(S) = GreatestOf(S) THEN GreatestOf(S) ELSE Unknown

FixedBits == [i \in TypeIds |-> OneLength(OffsetAtEnd[i])]

\* The zero of every field: what the initialise body makes of an object.
Initialized ==
  LET zero[i \in TypeIds] ==
        LET scalar(f) == IF IsComposite(f) THEN zero[f.ref] ELSE 0
            value(f) == CASE f.array = "none"     -> scalar(f)
                          [] f.array = "fixed"    -> [n \in 1 .. f.cap |-> scalar(f)]
                          [] f.array = "variable" -> << >>
        IN  IF IsUnion[i]
            THEN [tag |-> 0, value |-> value(Fields[i][1])]
            ELSE [k \in DOMAIN Fields[i] |-> value(Fields[i][k])]
  IN  [i \in TypeIds |-> zero[i]]

(***************************************************************************)
(* fixedFieldOffsets: where each field of a section of one layout lies, by *)
(* walking the steps.  An alignment rounds up to a byte.                   *)
(***************************************************************************)
HasFixedOffsets(i) ==
    /\ IsSealed[i] /\ ~IsUnion[i]
    /\ \A k \in DOMAIN Fields[i] :
          LET f == Fields[i][k] IN
          /\ f.array # "variable"
          /\ IsComposite(f) => IsSealed[f.ref] /\ FixedBits[f.ref] # Unknown

\* Mutant: the fields lie one right after the other.
FixedFieldOffsetPacked(i, k) ==
    LET width(f) == IF IsComposite(f) THEN FixedBits[f.ref] ELSE f.bits
        ends[n \in 0 .. Len(Fields[i])] ==
          IF n = 0 THEN 0
          ELSE LET f == Fields[i][n] IN
               ends[n - 1] + width(f) * (IF IsArray(f) THEN f.cap ELSE 1)
    IN  ends[k - 1]

FixedFieldOffset(i, k) ==
    LET width(f) == IF IsComposite(f) THEN FixedBits[f.ref] ELSE f.bits
        ends[n \in 0 .. Len(Fields[i])] ==
          IF n = 0 THEN 0
          ELSE LET f == Fields[i][n] IN
               PadTo(ends[n - 1], AlignmentOf(f)) + width(f) * (IF IsArray(f) THEN f.cap ELSE 1)
    IN  PadTo(ends[k - 1], AlignmentOf(Fields[i][k]))

----------------------------------------------------------------------------
(* Alias layout: is the wire form one image of bytes, and the object too?  *)

\* The length of a field on the wire, where it has one.
RunBits(f, most) ==
    (IF IsComposite(f) THEN most[f.ref] ELSE f.bits) * (IF IsArray(f) THEN f.cap ELSE 1)

RunBefore(fields, most, k) ==
    LET run[n \in 0 .. Len(fields)] == IF n = 0 THEN 0 ELSE run[n - 1] + RunBits(fields[n], most)
    IN  run[k - 1]

(***************************************************************************)
(* computeWireFlat: every named field starts on a byte and takes whole     *)
(* bytes, whatever the void fields between them do.                        *)
(***************************************************************************)
IsFlat(d, most, fixed, flat) ==
    LET named == {k \in DOMAIN d.fields : d.fields[k].cat # "void"}
    IN  /\ ~d.union /\ d.sealed
        /\ named # {}
        /\ \A k \in named :
              LET f == d.fields[k] IN
              /\ RunBefore(d.fields, most, k) % ByteBits = 0
              /\ f.array # "variable"
              /\ IF IsComposite(f) THEN flat[f.ref]
                 ELSE f.bits > 0 /\ RunBits(f, most) % ByteBits = 0
        /\ RunBefore(d.fields, most, Len(d.fields) + 1) % ByteBits = 0
        /\ fixed # Unknown

WireFlat ==
    LET flat[i \in TypeIds] == IsFlat(Types[i], MaxBits, FixedBits[i], flat)
    IN  [i \in TypeIds |-> flat[i]]

NoImage == [holds |-> FALSE, size |-> 0, align |-> 1]

(***************************************************************************)
(* computeHostImage: the members of the generated structure lie where the  *)
(* wire has them, with nothing between or after them.                      *)
(***************************************************************************)
ScalarImage(f) ==
    [holds |-> HeldIn(f.bits) = f.bits, size |-> f.bits \div ByteBits, align |-> f.bits \div ByteBits]

\* Mutant: a member may start anywhere.
ImageWithAnywhere(at, f, element) ==
    IF at.holds /\ f.cat # "void" /\ element.holds
    THEN [holds |-> TRUE,
          size  |-> at.size + element.size * (IF IsArray(f) THEN f.cap ELSE 1),
          align |-> IF at.align > element.align THEN at.align ELSE element.align]
    ELSE NoImage

\* The image of the members so far with one more of "element" after them.
ImageWith(at, f, element) ==
    IF at.holds /\ f.cat # "void" /\ element.holds /\ at.size % element.align = 0
    THEN [holds |-> TRUE,
          size  |-> at.size + element.size * (IF IsArray(f) THEN f.cap ELSE 1),
          align |-> IF at.align > element.align THEN at.align ELSE element.align]
    ELSE NoImage

WholeImage(last) == IF last.holds /\ last.size % last.align = 0 THEN last ELSE NoImage

\* What a member is made of: the scalar, or the composite's own image.
ElementImage(f, images) == IF IsComposite(f) THEN images[f.ref] ELSE ScalarImage(f)

ImageOf(fields, flat, elements) ==
    LET members[n \in 0 .. Len(fields)] ==
          IF n = 0 THEN [holds |-> flat, size |-> 0, align |-> 1]
          ELSE ImageWith(members[n - 1], fields[n], elements[n])
    IN  WholeImage(members[Len(fields)])

HostImage ==
    LET image[i \in TypeIds] ==
          ImageOf(Fields[i], WireFlat[i], [k \in DOMAIN Fields[i] |-> ElementImage(Fields[i][k], image)])
    IN  [i \in TypeIds |-> image[i]]

----------------------------------------------------------------------------
(* verifyPlan, verifyHostImage: the lowering derives the two verdicts again *)
(* from the steps, and refuses a plan whose steps deny what it claims.     *)

\* A composite step states the whole field's width, a scalar one element's.
StepWidth(f, lengths) ==
    IF IsComposite(f) THEN LeastOf(lengths)
    ELSE f.bits * (IF IsArray(f) THEN f.cap ELSE 1)

\* "ends" answers the offset past each step, the alignments left out.
FlatByItsSteps(fields, ends, flat) ==
    /\ \A k \in DOMAIN fields :
          LET f == fields[k] IN
          f.cat # "void" =>
            /\ ends[k - 1] % ByteBits = 0
            /\ f.array # "variable"
            /\ IsComposite(f) => flat[f.ref]
            /\ ends[k] > ends[k - 1] /\ (ends[k] - ends[k - 1]) % ByteBits = 0
    /\ \E k \in DOMAIN fields : fields[k].cat # "void"
    /\ ends[Len(fields)] % ByteBits = 0

FlatVerified(d, fixed, ends, flat) ==
    /\ d.sealed /\ ~d.union
    /\ FlatByItsSteps(d.fields, ends, flat)
    /\ fixed = ends[Len(d.fields)]

WidthsUpTo(fields, sealed) ==
    LET ends[n \in 0 .. Len(fields)] ==
          IF n = 0 THEN 0
          ELSE ends[n - 1] + StepWidth(fields[n], FieldLengths(fields[n], ScalarLengths(fields[n], sealed)))
    IN  ends

VerifiedFlat(i) ==
    FlatVerified(Types[i], FixedBits[i], WidthsUpTo(Fields[i], OffsetAtEnd), WireFlat)

(***************************************************************************)
(* The structure a compiler lays out for a definition on the wire of whole *)
(* bytes: each member at the next multiple of its alignment.  Void fields  *)
(* have no member.                                                         *)
(***************************************************************************)
StructureMember(f, structures) ==
    IF IsComposite(f) THEN structures[f.ref]
    ELSE LET bytes == IF f.cat = "void" THEN 0 ELSE HeldIn(f.bits) \div ByteBits
         IN  [size |-> bytes, align |-> IF bytes = 0 THEN 1 ELSE bytes, offsets |-> << >>]

StructureWith(at, f, one) ==
    LET start == PadTo(at.size, one.align) IN
    [size    |-> start + one.size * (IF IsArray(f) THEN f.cap ELSE 1),
     align   |-> GreatestOf({at.align, one.align}),
     offsets |-> Append(at.offsets, start)]

StructureOf(fields, members) ==
    LET upTo[n \in 0 .. Len(fields)] ==
          IF n = 0 THEN [size |-> 0, align |-> 1, offsets |-> << >>]
          ELSE StructureWith(upTo[n - 1], fields[n], members[n])
        all == upTo[Len(fields)]
    IN  [all EXCEPT !.size = PadTo(@, all.align)]

StructuresOf(these) ==
    LET structure[i \in TypeIds] ==
          StructureOf(Fields[i], [k \in DOMAIN Fields[i] |-> StructureMember(Fields[i][k], structure)])
    IN  [i \in these |-> structure[i]]

Structure == StructuresOf({i \in TypeIds : WireFlat[i]})

\* The members of the structure "c" lie where the wire has the fields.
Agrees(i, c) ==
    /\ \A k \in DOMAIN Fields[i] : c.offsets[k] * ByteBits = FixedFieldOffset(i, k)
    /\ c.size * ByteBits = MaxBits[i]

\* The definitions whose structure has a member for every field, down to the
\* scalars: nothing is padding, and no bools are packed into bits.
Plain ==
    LET plain[i \in TypeIds] ==
          \A k \in DOMAIN Fields[i] :
            LET f == Fields[i][k] IN
            /\ f.cat # "void"
            /\ f.cat = "bool" => ~IsArray(f)
            /\ IsComposite(f) => plain[f.ref]
    IN  [i \in TypeIds |-> plain[i]]

(***************************************************************************)
(* What the verdicts of a definition say: one that is flat on the wire the *)
(* lowering derives to be so, and it finds every named field a place of    *)
(* its own, on a byte; and one that is an image is flat, plain, and laid   *)
(* out by the compiler as on the wire, and no other is.                    *)
(***************************************************************************)
IsTheStructure(i, flat, image) ==
    /\ flat => /\ VerifiedFlat(i) /\ HasFixedOffsets(i)
               /\ \A k \in DOMAIN Fields[i] :
                     Fields[i][k].cat # "void" => FixedFieldOffset(i, k) % ByteBits = 0
    /\ image <=> flat /\ Plain[i] /\ Agrees(i, Structure[i])

(***************************************************************************)
(* The scalars of an object in memory: the indices that lead to each, the  *)
(* field it is of and the bit it starts at.                                *)
(***************************************************************************)
MemberScalars(f, k, at, size, scalars) ==
    LET path(n) == IF IsArray(f) THEN <<k, n + 1>> ELSE <<k>>
    IN  UNION {IF IsComposite(f)
               THEN {[path |-> path(n) \o s.path, f |-> s.f, at |-> s.at + at + n * size] : s \in scalars[f.ref]}
               ELSE {[path |-> path(n), f |-> f, at |-> at + n * size]}
                 : n \in 0 .. (IF IsArray(f) THEN f.cap - 1 ELSE 0)}

ScalarsIn(structures) ==
    LET scalars[i \in DOMAIN structures] ==
          UNION {MemberScalars(Fields[i][k], k, ByteBits * structures[i].offsets[k],
                               ByteBits * StructureMember(Fields[i][k], structures).size, scalars)
                   : k \in DOMAIN Fields[i]}
    IN  scalars

\* The scalars of a host image; none of a definition that is not one.
ScalarsOf(images) ==
    [i \in TypeIds |-> IF i \in images THEN ScalarsIn(StructuresOf(images))[i] ELSE {}]

ImageScalars == ScalarsOf({i \in TypeIds : HostImage[i].holds})

=============================================================================
