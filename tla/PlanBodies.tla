----------------------------- MODULE PlanBodies -----------------------------
(***************************************************************************)
(* The serialise and deserialise bodies a plan becomes, run step by step   *)
(* (src/lib/Transforms/BuildDSDLPlanBodies.cpp), over the helpers of       *)
(* src/lib/Transforms/Passes.cpp and the wire primitives of                *)
(* src/runtime/dsdl_runtime.h.                                             *)
(*                                                                         *)
(* An object is serialised into a buffer, the bytes are delivered, whole   *)
(* or cut short, to a reader whose definition is the same or another minor *)
(* version, and the reader deserialises them, twice: as delivered and with *)
(* zeros in the place of what was cut.  A nested composite runs its own    *)
(* body on a frame of its own.                                             *)
(*                                                                         *)
(* A step of a body carries what the builder knew of the offset when it    *)
(* built the step: the offset itself and the offset modulo eight, or       *)
(* Unknown.  The builder spells constants from that knowledge, so the      *)
(* bodies are right only while it is.                                      *)
(*                                                                         *)
(* Left out: floats (their helpers are conversions of a library), members  *)
(* held as views (an option of the driver), and null arguments.            *)
(***************************************************************************)
EXTENDS TypeLayout

CONSTANTS Objects(_),   \* the objects of a definition that are serialised
          Readers(_),   \* the definitions a reader of its bytes may have
          Capacities(_),\* the sizes in bytes of the buffers it is written to
          Garbage       \* the contents a buffer may have before it is written

VARIABLES
    phase,      \* what the caller does: see Next
    writer,     \* the definition serialised
    source,     \* the object serialised
    ones,       \* the positions of the bits of the wire that are 1
    size,       \* the size in bytes handed in
    length,     \* the size in bytes the writer answered
    error,      \* what the last body answered
    stack,      \* the frames of the bodies that run, the outermost first
    reader,     \* the definition deserialised
    reads       \* what the reader got, one record for each time it read

vars == <<phase, writer, source, ones, size, length, error, stack, reader, reads>>

Ok == "ok"
TooSmall == "buffer too small"              \* -3
BadArrayLength == "bad array length"        \* -10
BadUnionTag == "bad union tag"              \* -11
BadHeader == "bad delimiter header"         \* -12

----------------------------------------------------------------------------
(* Wire primitives and scalar helpers                                      *)

Positions(at, n) == at .. (at + n - 1)

LeastOfTwo(a, b) == IF a < b THEN a ELSE b

\* A memory is the set of the positions of its bits that are 1, a byte the set
\* of the places 0 .. 7 of its own.
ByteOf(bits, n) == {b \in 0 .. (ByteBits - 1) : ByteBits * n + b \in bits}

WithByte(bits, n, byte) ==
    (bits \ Positions(ByteBits * n, ByteBits)) \cup {ByteBits * n + b : b \in byte}

\* (b & ~mask) | (in & mask) for the byte the position "at" lies in.
Masked(bits, at, mask, in) ==
    LET n == at \div ByteBits IN WithByte(bits, n, (ByteOf(bits, n) \ mask) \cup (in \cap mask))

\* The byte at "from" shifted so that its bit there comes to the place "to".
Shifted(bits, from, to) ==
    {b \in to .. (ByteBits - 1) :
       (b - to) + (from % ByteBits) \in ByteOf(bits, from \div ByteBits)}

\* The bits one turn of the loop copies: what both bytes have left, or the rest.
Fragment(from, to, left) ==
    LeastOfTwo(left, LeastOfTwo(ByteBits - (from % ByteBits), ByteBits - (to % ByteBits)))

CopiedBytes(dst, to, n, src, from) ==
    LET bytes == n \div ByteBits
        moved == (dst \ Positions(to, ByteBits * bytes))
                   \cup {to + (p - from) : p \in src \cap Positions(from, ByteBits * bytes)}
    IN  IF n % ByteBits = 0 THEN moved
        ELSE Masked(moved, to + ByteBits * bytes, 0 .. ((n % ByteBits) - 1),
                    ByteOf(src, from \div ByteBits + bytes))

\* The bits up to "done" are copied; a turn copies some more, while some are left.
FragmentMore(was, to, n, src, from) ==
    IF was.done = n THEN was
    ELSE LET k  == was.done
             w  == Fragment(from + k, to + k, n - k)
             at == (to + k) % ByteBits
         IN  [done |-> k + w,
              out  |-> Masked(was.out, to + k, Positions(at, w), Shifted(src, from + k, at))]

CopiedFragments(dst, to, n, src, from) ==
    LET turn[k \in 0 .. n] ==
          IF k = 0 THEN [done |-> 0, out |-> dst] ELSE FragmentMore(turn[k - 1], to, n, src, from)
    IN  turn[n].out

\* dsdl_runtime_copy_bits: "n" bits of "src" from "from" on, to "to" of "dst".
CopyBits(dst, to, n, src, from) ==
    IF from % ByteBits = 0 /\ to % ByteBits = 0 THEN CopiedBytes(dst, to, n, src, from)
    ELSE CopiedFragments(dst, to, n, src, from)

\* The whole bytes a value is held in, which may hold more bits than are copied.
BitsOf(v, n) == {b \in 0 .. (PadTo(n, ByteBits) - 1) : (v \div 2 ^ b) % 2 = 1}

\* dsdl_runtime_set_uxx and its kin: the low "n" bits of "v" at "at".
WithBits(bits, at, n, v) == CopyBits(bits, at, n, BitsOf(v, n), 0)

\* Mutant: the end of the buffer is not looked at.
SaturatedNever(at, n, end) == n

\* dsdl_runtime_saturate_fragment_bits: the part before the end at "end".
Saturated(at, n, end) == LeastOfTwo(n, end - LeastOfTwo(end, at))

\* dsdl_runtime_get_bits: what is past the end is cleared first.
GetBits(out, bits, at, n, end) ==
    LET there == Saturated(at, n, end)
        kept  == ByteBits * (there \div ByteBits)
        clear == Positions(kept, PadTo(n, ByteBits) - kept)
    IN  CopyBits(out \ clear, 0, there, bits, at)

\* dsdl_runtime_get_u64 and its kin: bits from "end" on read as zeros.
BitsAt(bits, at, n, end) ==
    LET got == CopyBits({}, 0, Saturated(at, n, end), bits, at)
        from[k \in 0 .. n] == IF k = n THEN 0 ELSE (IF k \in got THEN 1 ELSE 0) + 2 * from[k + 1]
    IN  from[0]

Clamped(v, lo, hi) == IF v < lo THEN lo ELSE IF v > hi THEN hi ELSE v

(***************************************************************************)
(* helperBodyForScalar, lowerScalarHelperBody.  What a field's value is    *)
(* written as, and what the bits read make it: a saturated one is clamped  *)
(* to its range, an unsigned truncated one masked; a signed truncated one  *)
(* keeps its low bits, as the write takes them.                            *)
(***************************************************************************)
WrittenValue(f, v) ==
    CASE f.cat = "bool"               -> v
      [] f.cat = "unsigned" /\ f.sat  -> IF v > 2 ^ f.bits - 1 THEN 2 ^ f.bits - 1 ELSE v
      [] f.cat = "unsigned" /\ ~f.sat -> v % 2 ^ f.bits
      [] f.cat = "signed" /\ f.sat    -> Clamped(v, -(2 ^ (f.bits - 1)), 2 ^ (f.bits - 1) - 1)
      [] f.cat = "signed" /\ ~f.sat   -> v

ReadValue(f, raw) ==
    IF f.cat = "signed" /\ raw >= 2 ^ (f.bits - 1) THEN raw - 2 ^ f.bits ELSE raw

\* What a count and a tag are written as: the low bits of their holder.
PrefixValue(f, count) == count % 2 ^ LengthPrefixBits(f)

TagValue(tag, bits) == tag % 2 ^ bits

\* The validations a body calls before it goes by a count or a header.
TooLong(f, count) == f.array = "variable" /\ count > f.cap

BeyondBuffer(span, remaining) == span > remaining

(***************************************************************************)
(* An object of a definition: an array that is a sequence where its length *)
(* is the object's, and objects of the fields' definitions.  A union's tag *)
(* is held in an integer of the width it has on the wire, and its value is *)
(* the one of the option the tag selects, if it selects one.               *)
(***************************************************************************)
IsValue(f, v) ==
    /\ f.array = "variable" => IsSequence(v)
    /\ IsComposite(f) =>
          CASE f.array = "none"     -> v \in Objects(f.ref)
            [] f.array = "fixed"    -> \A n \in 1 .. f.cap : v[n] \in Objects(f.ref)
            [] f.array = "variable" -> \A n \in DOMAIN v : v[n] \in Objects(f.ref)

IsObject(i, obj) ==
    IF IsUnion[i]
    THEN /\ TagValue(obj.tag, UnionTagBits(Types[i])) = obj.tag
         /\ obj.tag + 1 \in DOMAIN Fields[i] => IsValue(Fields[i][obj.tag + 1], obj.value)
    ELSE \A k \in DOMAIN Fields[i] : IsValue(Fields[i][k], obj[k])

(***************************************************************************)
(* The objects that fit their definition: all the way down, no array is    *)
(* longer than its capacity and every tag selects an option.  "valid" are  *)
(* those of each definition.                                               *)
(***************************************************************************)
Fitting(f, v, valid) ==
    /\ f.array = "variable" => Len(v) =< f.cap
    /\ IsComposite(f) =>
          CASE f.array = "none"     -> v \in valid[f.ref]
            [] f.array = "fixed"    -> \A n \in 1 .. f.cap : v[n] \in valid[f.ref]
            [] f.array = "variable" -> \A n \in DOMAIN v : v[n] \in valid[f.ref]

FittingObject(i, obj, valid) ==
    IF IsUnion[i]
    THEN obj.tag + 1 \in DOMAIN Fields[i] /\ Fitting(Fields[i][obj.tag + 1], obj.value, valid)
    ELSE \A k \in DOMAIN Fields[i] : Fitting(Fields[i][k], obj[k], valid)

ValidObjects ==
    LET valid[i \in TypeIds] == {obj \in Objects(i) : FittingObject(i, obj, valid)}
    IN  [i \in TypeIds |-> valid[i]]

\* Plans are made of what the analyser accepted.
ASSUME PlanConstants ==
    \A i \in TypeIds :
      /\ Accepted(i)
      /\ Readers(i) \subseteq TypeIds /\ Capacities(i) \subseteq Nat
      /\ \A obj \in Objects(i) : IsObject(i, obj)

----------------------------------------------------------------------------
(* What the builder knows of the offset: PlanCursor                        *)

Start == [bits |-> 0, residue |-> 0]

\* advancedBy
KnownPast(known, n) ==
    [bits    |-> IF known.bits = Unknown THEN Unknown ELSE known.bits + n,
     residue |-> IF known.residue = Unknown THEN Unknown ELSE (known.residue + n) % ByteBits]

\* What is left of it past a width the object or the wire decides.
KnownModulo(known) == [known EXCEPT !.bits = Unknown]

KnownNothing == [bits |-> Unknown, residue |-> Unknown]

\* buildAlignment
KnownAligned(known) ==
    IF known.residue = Unknown THEN [bits |-> Unknown, residue |-> 0]
    ELSE KnownPast(known, (ByteBits - known.residue) % ByteBits)

\* The width of one element, or of a field that is not an array, where it has
\* one; "fixed" is the one length of a composite, if it has one.
ElementBits(f, fixed, writing) ==
    IF ~IsComposite(f) THEN f.bits
    ELSE IF fixed = Unknown \/ IsSealed[f.ref] THEN fixed
    ELSE IF writing THEN HeaderBits + fixed
    ELSE Unknown

\* Mutant: a counted array is taken to end where its prefix does, modulo eight.
KnownPastElementsModulo(prefixed, f, width) ==
    IF width = Unknown \/ f.array = "variable" THEN KnownModulo(prefixed)
    ELSE KnownPast(prefixed, width * (IF f.array = "fixed" THEN f.cap ELSE 1))

(***************************************************************************)
(* buildScalarWrite, buildArrayWrite and the others, as far as the cursor  *)
(* they answer goes: advancedByRun for elements of one width, and the      *)
(* offset modulo eight past whole bytes.  "prefixed" is the cursor past    *)
(* the length prefix.                                                      *)
(***************************************************************************)
KnownPastElements(prefixed, f, width) ==
    CASE width = Unknown                          -> KnownModulo(prefixed)
      [] width # Unknown /\ f.array = "none"      -> KnownPast(prefixed, width)
      [] width # Unknown /\ f.array = "fixed"     -> KnownPast(prefixed, width * f.cap)
      [] width # Unknown /\ f.array = "variable"  ->
            IF width % ByteBits = 0 THEN KnownModulo(prefixed) ELSE KnownNothing

KnownPastField(known, f, writing) ==
    KnownPastElements(KnownPast(known, LengthPrefixBits(f)), f,
                      ElementBits(f, IF IsComposite(f) THEN FixedBits[f.ref] ELSE Unknown, writing))

\* ResidueMeet
Meet(residues) == IF Cardinality(residues) = 1 THEN CHOOSE r \in residues : TRUE ELSE Unknown

----------------------------------------------------------------------------
(* The bodies: the steps of a plan with the constants the builder spells   *)

NoField == [cat |-> "void", bits |-> 0, sat |-> FALSE, ref |-> 0, array |-> "none", cap |-> 0]

FieldStepAt(k, f, known, writing) ==
    [kind |-> "field", field |-> k, f |-> f, arms |-> << >>,
     bits |-> IF IsComposite(f) THEN FixedBits[f.ref] ELSE f.bits,
     known |-> known, past |-> KnownPastField(known, f, writing)]

AlignStepAt(known) ==
    [kind |-> "align", field |-> 0, f |-> NoField, arms |-> << >>, bits |-> 0,
     known |-> known, past |-> KnownAligned(known)]

\* Past a union holds what holds past every one of its options (ResidueMeet).
TagStepAt(width, arms) ==
    [kind |-> "tag", field |-> 0, f |-> NoField, arms |-> arms, bits |-> width,
     known |-> Start,
     past  |-> [bits    |-> Unknown,
                residue |-> Meet({arms[k][Len(arms[k])].past.residue : k \in DOMAIN arms})]]

PastAll(body, start) == IF body = << >> THEN start ELSE body[Len(body)].past

StepAt(fields, s, known, writing) ==
    IF s = AlignStep THEN AlignStepAt(known)
    ELSE FieldStepAt(s.field, fields[s.field], known, writing)

\* Each step is built with what was known past the one before it.
Built(fields, steps, start, writing) ==
    LET upTo[n \in 0 .. Len(steps)] ==
          IF n = 0 THEN << >>
          ELSE Append(upTo[n - 1],
                      StepAt(fields, steps[n], PastAll(upTo[n - 1], start), writing))
    IN  upTo[Len(steps)]

\* buildUnionOption: each option starts where the tag ends.
UnionStep(fields, width, writing) ==
    TagStepAt(width, [k \in DOMAIN fields |->
                        Built(fields, FieldSteps(fields[k], k), KnownPast(Start, width), writing)])

\* A writer ends on a byte: its last step is an alignment.
Ended(body, writing) ==
    IF writing THEN Append(body, AlignStepAt(PastAll(body, Start))) ELSE body

\* buildTypedSerializeBody, buildTypedDeserializeBody
BodyOf(d, steps, writing) ==
    Ended(IF d.union THEN <<UnionStep(d.fields, UnionTagBits(d), writing)>>
          ELSE Built(d.fields, steps, Start, writing),
          writing)

\* FoldDSDLHostImageBodies: everything between is one move of all the bytes.
Moved(bits, scalars) ==
    << [kind |-> "move", scalars |-> scalars, bits |-> bits,
        known |-> Start, past |-> KnownPast(Start, bits)] >>

(***************************************************************************)
(* The bodies a definition may have: a target whose objects are byte       *)
(* images folds the ones of a host image, unless it does not recognise     *)
(* them; other targets keep the steps.                                     *)
(***************************************************************************)
BodiesFor(stepwise, bits, scalars) ==
    {stepwise} \cup (IF scalars = {} THEN {} ELSE {Moved(bits, scalars)})

Bodies ==
    [i \in TypeIds |-> [writing \in BOOLEAN |->
       BodiesFor(BodyOf(Types[i], Steps[i], writing), MaxBits[i], ImageScalars[i])]]

----------------------------------------------------------------------------
(* Frames                                                                  *)

NoLoop == [at |-> 0, count |-> 0]

Writing == phase = "writing"

Top == stack[Len(stack)]

WithTop(t) == [stack EXCEPT ![Len(stack)] = t]

Step == Head(Top.todo)

Field == Step.f

AtStep(kind) == stack # << >> /\ Top.todo # << >> /\ Step.kind = kind

AtField == AtStep("field")

(***************************************************************************)
(* The storage a reader is handed, before anything is read into it: what   *)
(* it held last.  Setting a length or a tag uncovers more of it.           *)
(***************************************************************************)
Stale ==
  LET stale[i \in TypeIds] ==
        LET scalar(f) == IF IsComposite(f) THEN stale[f.ref] ELSE IF f.cat = "void" THEN 0 ELSE 1
            value(f) == IF IsArray(f) THEN [n \in 1 .. f.cap |-> scalar(f)] ELSE scalar(f)
        IN  IF IsUnion[i]
            THEN [tag |-> Len(Fields[i]) - 1, value |-> value(Fields[i][Len(Fields[i])])]
            ELSE [k \in DOMAIN Fields[i] |-> value(Fields[i][k])]
  IN  [i \in TypeIds |-> stale[i]]

StaleScalar(f) == IF IsComposite(f) THEN Stale[f.ref] ELSE 1

StaleOfLength(f, n) == [k \in 1 .. n |-> StaleScalar(f)]

StaleMember(f) == IF IsArray(f) THEN StaleOfLength(f, f.cap) ELSE StaleScalar(f)

\* The value of the field the step is about, of an element of it where it loops.
Member(t) == IF IsUnion[t.type] THEN t.obj.value ELSE t.obj[Head(t.todo).field]

WithMember(t, v) ==
    IF IsUnion[t.type] THEN [t EXCEPT !.obj.value = v]
    ELSE [t EXCEPT !.obj[Head(t.todo).field] = v]

Element(t, f) == IF IsArray(f) THEN Member(t)[t.loop.at + 1] ELSE Member(t)

WithElement(t, f, v) ==
    IF IsArray(f) THEN WithMember(t, [Member(t) EXCEPT ![t.loop.at + 1] = v])
    ELSE WithMember(t, v)

\* Mutant: the buffer's size is left to the writes.
NewFrameUnchecked(i, body, base, cap, obj, writing) ==
    [type |-> i, todo |-> body, loop |-> NoLoop, off |-> 0, err |-> Ok,
     base |-> base, cap |-> cap, obj |-> obj]

(***************************************************************************)
(* The entry of a body.  A writer is refused a buffer that could not hold  *)
(* the longest object of the definition; a reader takes any.               *)
(***************************************************************************)
NewFrame(i, body, base, cap, obj, writing) ==
    [type  |-> i,
     todo  |-> body,
     loop  |-> NoLoop,
     off   |-> 0,
     err   |-> IF writing /\ cap * ByteBits < MaxBits[i] THEN TooSmall ELSE Ok,
     base  |-> base,
     cap   |-> cap,
     obj   |-> obj]

Past(t) == [t EXCEPT !.todo = Tail(@), !.loop = NoLoop]

FoldError(existing, next) == IF existing = Ok THEN next ELSE existing

Fits(t, at, n) == at + n =< t.cap * ByteBits

\* emitWrite: the frame past "n" bits, and the wire with "v" in them.
Advanced(t, n) == [t EXCEPT !.off = @ + n, !.err = IF Fits(t, t.off, n) THEN @ ELSE TooSmall]

Emitted(bits, t, at, n, v) ==
    IF Fits(t, at, n) THEN WithBits(bits, t.base * ByteBits + at, n, v) ELSE bits

ReadAt(t, at, n) ==
    BitsAt(ones, t.base * ByteBits + at, n, (t.base + t.cap) * ByteBits)

\* bufferPosition: the byte a nested body starts at; a reader's is bounded.
ByteAt(t, at, writing) ==
    IF writing \/ at \div ByteBits < t.cap THEN at \div ByteBits ELSE t.cap

----------------------------------------------------------------------------
(* The caller                                                              *)

Init ==
    /\ phase = "idle"
    /\ writer \in TypeIds
    /\ source \in Objects(writer)
    /\ ones \in Garbage
    /\ size \in Capacities(writer)
    /\ length = 0
    /\ error = Ok
    /\ stack = << >>
    /\ reader = writer
    /\ reads = << >>

Serialize ==
    /\ phase = "idle"
    /\ phase' = "writing"
    /\ \E body \in Bodies[writer][TRUE] :
          stack' = <<NewFrame(writer, body, 0, size, source, TRUE)>>
    /\ UNCHANGED <<writer, source, ones, size, length, error, reader, reads>>

\* The bytes reach a reader, all of them or some first ones.
Deliver ==
    /\ phase = "written" /\ error = Ok
    /\ phase' = "delivered"
    /\ reader' \in Readers(writer)
    /\ size' \in 0 .. length
    /\ UNCHANGED <<writer, source, ones, length, error, stack, reads>>

Deserialize ==
    /\ phase = "delivered"
    /\ phase' = "reading"
    /\ \E body \in Bodies[reader][FALSE] :
          stack' = <<NewFrame(reader, body, 0, size, Stale[reader], FALSE)>>
    /\ UNCHANGED <<writer, source, ones, size, length, error, reader, reads>>

\* The same bytes again, with zeros up to the length they were written at.
Pad ==
    /\ phase = "read" /\ Len(reads) = 1
    /\ phase' = "delivered"
    /\ ones' = {p \in ones : p < size * ByteBits}
    /\ size' = length
    /\ UNCHANGED <<writer, source, length, error, stack, reader, reads>>

Stopped ==
    /\ \/ phase = "written" /\ error # Ok
       \/ phase = "read" /\ Len(reads) = 2
    /\ UNCHANGED vars

----------------------------------------------------------------------------
(* The steps of a body.  A step of the writer runs only while nothing has  *)
(* failed; so does a reader's, but for a scalar, a void field and an       *)
(* alignment, which cannot fail and are not guarded.                       *)

callerVars == <<phase, writer, source, size, length, error, reader, reads>>

Healthy == Top.err = Ok

Unguarded ==
    /\ ~Writing
    /\ Step.kind \in {"align", "move"} \/ (AtField /\ ~IsArray(Field) /\ ~IsComposite(Field))

\* The arm of the option the tag selects, where it selects one.
Selected(t, arms, tag) ==
    [t EXCEPT !.todo = (IF tag + 1 \in DOMAIN arms THEN arms[tag + 1] ELSE << >>) \o Tail(@)]

\* Mutant: any tag will do.
CheckedTagOfAny(t, arms, tag) == t.err

CheckedTag(t, arms, tag) ==
    FoldError(t.err, IF tag + 1 \in DOMAIN arms THEN Ok ELSE BadUnionTag)

\* The tag is normalised and validated before anything is written.
WriteTag ==
    /\ AtStep("tag") /\ Writing
    /\ LET bits == Step.bits
           tag  == TagValue(Top.obj.tag, bits)
           t    == [Top EXCEPT !.err = CheckedTag(Top, Step.arms, tag)]
       IN  IF t.err = Ok
           THEN /\ ones' = Emitted(ones, t, t.off, bits, tag)
                /\ stack' = WithTop(Selected(Advanced(t, bits), Step.arms, tag))
           ELSE /\ stack' = WithTop(Selected(t, Step.arms, tag))
                /\ UNCHANGED ones
    /\ UNCHANGED callerVars

ReadTag ==
    /\ AtStep("tag") /\ ~Writing
    /\ LET bits == Step.bits
           tag  == ReadAt(Top, Top.off, bits)
           t    == [Top EXCEPT !.err = CheckedTag(Top, Step.arms, tag)]
       IN  IF t.err = Ok
           THEN stack' = WithTop(Selected([t EXCEPT
                           !.off = @ + bits,
                           !.obj = [tag |-> tag, value |-> StaleMember(Fields[t.type][tag + 1])]], Step.arms, tag))
           ELSE stack' = WithTop(Selected(t, Step.arms, tag))
    /\ UNCHANGED <<ones, callerVars>>

WriteScalar ==
    /\ AtField /\ Writing /\ Healthy
    /\ ~IsArray(Field) /\ Field.cat \notin {"composite", "void"}
    /\ LET v == WrittenValue(Field, Member(Top)) IN
       /\ ones' = Emitted(ones, Top, Top.off, Field.bits, v)
       /\ stack' = WithTop(Past(Advanced(Top, Field.bits)))
    /\ UNCHANGED callerVars

\* Not guarded: a read past the end answers zeros.
ReadScalar ==
    /\ AtField /\ ~Writing
    /\ ~IsArray(Field) /\ Field.cat \notin {"composite", "void"}
    /\ LET v == ReadValue(Field, ReadAt(Top, Top.off, Field.bits)) IN
       stack' = WithTop(Past([WithMember(Top, v) EXCEPT !.off = @ + Field.bits]))
    /\ UNCHANGED <<ones, callerVars>>

\* emitZeroBits while writing, and nothing but the offset while reading.
ZeroBits(n) ==
    IF Writing
    THEN /\ ones' = Emitted(ones, Top, Top.off, n, 0)
         /\ stack' = WithTop(Past(Advanced(Top, n)))
    ELSE /\ stack' = WithTop(Past([Top EXCEPT !.off = @ + n]))
         /\ UNCHANGED ones

Padding ==
    /\ AtField /\ Field.cat = "void"
    /\ Healthy \/ Unguarded
    /\ ZeroBits(Field.bits)
    /\ UNCHANGED callerVars

(***************************************************************************)
(* The bits to the next byte are a constant where the offset modulo eight  *)
(* is one, and counted from the offset where it is not.                    *)
(***************************************************************************)
Align ==
    /\ AtStep("align")
    /\ Healthy \/ Unguarded
    /\ LET from == IF Step.known.residue = Unknown THEN Top.off ELSE Step.known.residue IN
       ZeroBits(PadTo(from, ByteBits) - from)
    /\ UNCHANGED callerVars

ValueAt(obj, path) ==
    LET at[n \in 0 .. Len(path)] == IF n = 0 THEN obj ELSE at[n - 1][path[n]]
    IN  at[Len(path)]

WithValueAt(obj, path, v) ==
    LET with[n \in 1 .. (Len(path) + 1)] ==
          IF n > Len(path) THEN v
          ELSE [ValueAt(obj, SubSeq(path, 1, n - 1)) EXCEPT ![path[n]] = with[n + 1]]
    IN  with[1]

\* The bits of an object in memory that are 1.
Memory(scalars, obj) ==
    UNION {WithBits({}, s.at, s.f.bits, ValueAt(obj, s.path)) : s \in scalars}

\* "obj" with the bits from "from" on in the place of its memory, and zeros
\* from "end" on.
FromMemory(scalars, obj, bits, from, end) ==
    LET moved[left \in SUBSET scalars] ==
          IF left = {} THEN obj
          ELSE LET s == CHOOSE s \in left : TRUE IN
               WithValueAt(moved[left \ {s}], s.path,
                           ReadValue(s.f, BitsAt(bits, from + s.at, s.f.bits, end)))
    IN  moved[scalars]

\* ImageWriteLowering: under the capacity check alone.
WriteImage ==
    /\ AtStep("move") /\ Writing /\ Healthy
    /\ LET at == Top.base * ByteBits IN
       /\ ones' = (ones \ Positions(at, Step.bits))
                     \cup {at + p : p \in Memory(Step.scalars, Top.obj)}
       /\ stack' = WithTop(Past([Top EXCEPT !.off = @ + Step.bits]))
    /\ UNCHANGED callerVars

\* ImageReadLowering: the bytes there are, and zeros for the rest.
ReadImage ==
    /\ AtStep("move") /\ ~Writing
    /\ stack' = WithTop(Past([Top EXCEPT
                   !.off = @ + Step.bits,
                   !.obj = FromMemory(Step.scalars, @, ones, Top.base * ByteBits,
                                      (Top.base + Top.cap) * ByteBits)]))
    /\ UNCHANGED <<ones, callerVars>>

\* The bytes a bool array is held in, eight to a byte.
Packed(bools) == {n - 1 : n \in {k \in DOMAIN bools : bools[k] = 1}}

(***************************************************************************)
(* A variable-length array announces its count, which may not exceed the   *)
(* capacity.  A bool array then moves as one run of bits, without a check  *)
(* of the buffer; the elements of any other are moved one by one.          *)
(***************************************************************************)
WriteArray ==
    /\ AtField /\ Writing /\ Healthy /\ IsArray(Field)
    /\ LET f      == Field
           count  == IF f.array = "fixed" THEN f.cap ELSE Len(Member(Top))
           prefix == LengthPrefixBits(f)
           t      == Advanced(Top, prefix)
           wire   == Emitted(ones, Top, Top.off, prefix, PrefixValue(f, count))
       IN  IF TooLong(f, count)
           THEN /\ stack' = WithTop(Past([Top EXCEPT !.err = BadArrayLength]))
                /\ UNCHANGED ones
           ELSE IF f.cat = "bool"
           THEN /\ ones' = CopyBits(wire, t.base * ByteBits + t.off, count, Packed(Member(t)), 0)
                /\ stack' = WithTop(Past([t EXCEPT !.off = @ + count]))
           ELSE /\ ones' = wire
                /\ stack' = WithTop([t EXCEPT !.loop = [at |-> 0, count |-> count],
                                              !.todo = <<[Step EXCEPT !.kind = "elements"]>> \o Tail(@)])
    /\ UNCHANGED callerVars

\* The whole of it is guarded: a count is only read while nothing has failed.
ReadArray ==
    /\ AtField /\ ~Writing /\ Healthy /\ IsArray(Field)
    /\ LET f      == Field
           prefix == LengthPrefixBits(f)
           count  == IF f.array = "fixed" THEN f.cap ELSE ReadAt(Top, Top.off, prefix)
           t      == [Top EXCEPT !.off = @ + prefix]
           sized  == IF f.array = "fixed" THEN t ELSE WithMember(t, StaleOfLength(f, count))
           packed == GetBits(Packed(Member(t)), ones, t.base * ByteBits + t.off, count,
                             (t.base + t.cap) * ByteBits)
           bools  == [n \in 1 .. count |-> IF n - 1 \in packed THEN 1 ELSE 0]
       IN  stack' = WithTop(
             IF TooLong(f, count)
             THEN Past([t EXCEPT !.err = BadArrayLength])
             ELSE IF f.cat = "bool"
             THEN Past([WithMember(t, bools) EXCEPT !.off = @ + count])
             ELSE [sized EXCEPT !.loop = [at |-> 0, count |-> count],
                                !.todo = <<[Step EXCEPT !.kind = "elements"]>> \o Tail(@)])
    /\ UNCHANGED <<ones, callerVars>>

AtElement == AtStep("elements") /\ Healthy /\ Top.loop.at < Top.loop.count

WriteElement ==
    /\ AtElement /\ Writing /\ ~IsComposite(Field)
    /\ ones' = Emitted(ones, Top, Top.off, Field.bits, WrittenValue(Field, Element(Top, Field)))
    /\ stack' = WithTop([Advanced(Top, Field.bits) EXCEPT !.loop.at = @ + 1])
    /\ UNCHANGED callerVars

ReadElement ==
    /\ AtElement /\ ~Writing /\ ~IsComposite(Field)
    /\ LET v == ReadValue(Field, ReadAt(Top, Top.off, Field.bits)) IN
       stack' = WithTop([WithElement(Top, Field, v) EXCEPT
                           !.off = @ + Field.bits, !.loop.at = @ + 1])
    /\ UNCHANGED <<ones, callerVars>>

\* The loop ran to its bound, or an element failed and the rest did nothing.
EndArray ==
    /\ AtStep("elements")
    /\ ~Healthy \/ Top.loop.at = Top.loop.count
    /\ stack' = WithTop(Past(Top))
    /\ UNCHANGED <<ones, callerVars>>

\* The field of a composite, or the next element of an array of them.
AtNested ==
    /\ \/ AtField /\ ~IsArray(Field)
       \/ AtStep("elements") /\ Top.loop.at < Top.loop.count
    /\ Healthy
    /\ IsComposite(Field)

\* What the container does once a nested composite is behind it.
PastNested(t, f, off, err) ==
    LET moved == [t EXCEPT !.off = off, !.err = err] IN
    IF IsArray(f) THEN [moved EXCEPT !.loop.at = @ + 1]
    ELSE Past(moved)

\* buildSealedNested: the nested body gets the point reached and what is left.
EnterSealed ==
    /\ AtNested /\ IsSealed[Field.ref]
    /\ LET taken == ByteAt(Top, Top.off, Writing) IN
       \E body \in Bodies[Field.ref][Writing] :
          stack' = Append(stack, NewFrame(Field.ref, body, Top.base + taken, Top.cap - taken,
                                          Element(Top, Field), Writing))
    /\ UNCHANGED <<ones, callerVars>>

(***************************************************************************)
(* buildDelimitedNested, up to the call.  A writer leaves room for the     *)
(* header, which it writes once the length is known; a reader validates    *)
(* the length it is told against what is left, and reads that much.        *)
(***************************************************************************)
EnterDelimited ==
    /\ AtNested /\ ~IsSealed[Field.ref]
    /\ LET at        == Top.off + HeaderBits
           taken     == ByteAt(Top, at, Writing)
           remaining == Top.cap - taken
           declared  == ReadAt(Top, Top.off, HeaderBits)
           given     == IF Writing THEN remaining ELSE declared
       IN  \E body \in Bodies[Field.ref][Writing] :
             stack' = IF BeyondBuffer(given, remaining) THEN WithTop(PastNested(Top, Field, at, BadHeader))
                      ELSE Append(stack, NewFrame(Field.ref, body, Top.base + taken, given,
                                                  Element(Top, Field), Writing))
    /\ UNCHANGED <<ones, callerVars>>

\* The size a body answers through its size pointer: untouched where it failed.
Used(t, writing) ==
    IF t.err # Ok THEN t.cap
    ELSE IF writing THEN t.off \div ByteBits
    ELSE LET aligned == PadTo(t.off, ByteBits) IN
         (IF aligned < t.cap * ByteBits THEN aligned ELSE t.cap * ByteBits) \div ByteBits

Outer == stack[Len(stack) - 1]

AtReturn == Len(stack) > 1 /\ Top.todo = << >>

\* The container with what was read into the nested object.
Returned(f) == IF Writing THEN Outer ELSE WithElement(Outer, f, Top.obj)

\* The frames without the innermost, the next one being "t".
Popped(t) == Append(SubSeq(stack, 1, Len(stack) - 2), t)

\* A nested type of one size moves the container by it, whatever was read.
LeaveSealed ==
    /\ AtReturn
    /\ LET step == Head(Outer.todo)
           f == step.f
           n == IF step.bits # Unknown THEN step.bits
                ELSE Used(Top, Writing) * ByteBits
       IN  /\ IsSealed[f.ref]
           /\ stack' = Popped(PastNested(Returned(f), f, Outer.off + n, Top.err))
    /\ UNCHANGED <<ones, callerVars>>

\* Mutant: the reader steps over what it read of the nested composite.
SpanRead(step, t, writing) ==
    IF writing /\ step.bits # Unknown THEN step.bits \div ByteBits ELSE Used(t, writing)

\* The length a writer announces, and the one a reader was told.
Span(step, t, writing) ==
    IF ~writing THEN t.cap
    ELSE IF step.bits # Unknown THEN step.bits \div ByteBits
    ELSE Used(t, TRUE)

(***************************************************************************)
(* buildDelimitedNested, past the call.  The writer puts the length in the *)
(* header; the reader steps over what it was told, not over what it read.  *)
(***************************************************************************)
LeaveDelimited ==
    /\ AtReturn
    /\ LET step  == Head(Outer.todo)
           f     == step.f
           at    == Outer.off + HeaderBits
           span  == Span(step, Top, Writing)
           valid == FoldError(Top.err, IF Writing /\ BeyondBuffer(span, Top.cap) THEN BadHeader ELSE Ok)
           fits  == ~Writing \/ Fits(Outer, Outer.off, HeaderBits)
       IN  /\ ~IsSealed[f.ref]
           /\ IF valid = Ok
              THEN stack' = Popped(PastNested(Returned(f), f, at + span * ByteBits,
                                              IF fits THEN Ok ELSE TooSmall))
              ELSE stack' = Popped(PastNested(Returned(f), f, at, valid))
           /\ ones' = IF Writing /\ valid = Ok
                      THEN Emitted(ones, Outer, Outer.off, HeaderBits, span % 2 ^ HeaderBits)
                      ELSE ones
    /\ UNCHANGED callerVars

\* A guarded step of a body in which something failed.
Skip ==
    /\ stack # << >> /\ Top.todo # << >> /\ ~Healthy /\ ~Unguarded
    /\ Step.kind \notin {"tag", "elements"}
    /\ stack' = WithTop(Past(Top))
    /\ UNCHANGED <<ones, callerVars>>

\* The outermost body answers its caller.
Return ==
    /\ Len(stack) = 1 /\ Top.todo = << >>
    /\ stack' = << >>
    /\ error' = Top.err
    /\ IF Writing
       THEN /\ phase' = "written"
            /\ length' = Used(Top, TRUE)
            /\ UNCHANGED reads
       ELSE /\ phase' = "read"
            /\ reads' = Append(reads, [err  |-> Top.err, given |-> size,
                                       used |-> Used(Top, FALSE), obj |-> Top.obj])
            /\ UNCHANGED length
    /\ UNCHANGED <<writer, source, ones, size, reader>>

(***************************************************************************)
(* buildFieldAccessors: the getter of a field of one offset, of an element *)
(* of it where it is an array, over the bytes of a message.                *)
(***************************************************************************)
Getter(i, k, n) ==
    LET f == Fields[i][k] IN
    IF IsArray(f) /\ n > f.cap THEN 0
    ELSE ReadValue(f, BitsAt(ones, FixedFieldOffset(i, k) + (n - 1) * f.bits, f.bits, size * ByteBits))

Body ==
    \/ WriteTag \/ ReadTag \/ WriteScalar \/ ReadScalar \/ Padding \/ Align
    \/ WriteArray \/ ReadArray \/ WriteElement \/ ReadElement \/ EndArray
    \/ WriteImage \/ ReadImage
    \/ EnterSealed \/ EnterDelimited \/ LeaveSealed \/ LeaveDelimited
    \/ Skip \/ Return

Next == Serialize \/ Deliver \/ Deserialize \/ Pad \/ Body \/ Stopped

Spec == Init /\ [][Next]_vars

----------------------------------------------------------------------------
(* Properties                                                              *)

\* Every variable holds a value of its kind, and the bodies that run are of
\* the definitions' types: an outer body waits at the composite it called.
TypeOK ==
    /\ phase \in {"idle", "writing", "written", "delivered", "reading", "read"}
    /\ writer \in TypeIds /\ reader \in TypeIds
    /\ size \in Nat /\ length \in Nat
    /\ error \in {Ok, TooSmall, BadArrayLength, BadUnionTag, BadHeader}
    /\ \A d \in DOMAIN stack :
          /\ stack[d].type \in TypeIds
          /\ stack[d].off \in Nat /\ stack[d].cap \in Nat /\ stack[d].base \in Nat
          /\ d < Len(stack) =>
                /\ stack[d].todo # << >>
                /\ Head(stack[d].todo).f.ref = stack[d + 1].type

\* While nothing failed, what the builder took the offset to be, the whole of
\* it or the offset modulo eight, is what it is (PlanCursor).  The bodies spell
\* that knowledge as constants: an offset, the bits to the next boundary.
KnowledgeIsSound ==
    \A d \in DOMAIN stack :
      LET t == stack[d] IN
      t.err = Ok /\ t.todo # << >> =>
        LET known == Head(t.todo).known IN
        Head(t.todo).kind # "elements" =>
          /\ known.bits # Unknown => t.off = known.bits
          /\ known.residue # Unknown => t.off % ByteBits = known.residue

\* A nested composite starts on a byte in a buffer that holds it, so its body
\* is never the one to run out of the buffer: only the outermost check can
\* refuse one, before anything is written (createPlanCapacityCheckFunction).
OnlyTheFirstCheckRefuses ==
    \A d \in DOMAIN stack :
      /\ d > 1 => stack[d].err # TooSmall
      /\ d < Len(stack) =>
            (stack[d].off + (IF IsSealed[stack[d + 1].type] THEN 0 ELSE HeaderBits)) % ByteBits = 0
               \/ stack[d].err # Ok
      /\ stack[d].err = TooSmall => stack[d].cap * ByteBits < MaxBits[stack[d].type]

\* The length a writer answers is one the analyser said the definition has.
LengthIsAnalysed ==
    phase = "written" /\ error = Ok => length * ByteBits \in OffsetAtEnd[writer]

\* A definition said to be the image of its structure is: every member lies
\* where the wire has it and the sizes agree; a plain one whose layout does
\* agree is never refused; and the lowering's own derivation from the steps
\* accepts what the analysis claims (computeWireFlat, computeHostImage,
\* verifyPlan).
ImageIsTheStructure == IsTheStructure(writer, WireFlat[writer], HostImage[writer].holds)

\* An object is written exactly when it fits its definition and the buffer is
\* as long as the longest object: no step in between refuses one.
WrittenIffValid ==
    phase = "written" =>
        IF size * ByteBits < MaxBits[writer] THEN error = TooSmall
        ELSE error = Ok <=> source \in ValidObjects[writer]

\* Nothing past the end of the buffer changes while an object is written, even
\* where a run of bits is moved without a check of the buffer's size.
StaysInside ==
    [][phase = "writing" =>
         \A p \in (ones \ ones') \cup (ones' \ ones) : p < size * ByteBits]_vars

\* A message cut short that is read at all reads as if zeros followed, and one
\* cut to nothing as the initialise body makes the object, whatever the storage
\* held before: implicit zero extension, which the bounded pointers and clamped
\* sizes must not break.  No reader says it took more than it was given.
CutReadsAsZeros ==
    /\ Len(reads) = 2 /\ reads[1].err = Ok =>
          reads[2].err = Ok /\ reads[1].obj = reads[2].obj
    /\ \A k \in DOMAIN reads :
          /\ reads[k].used =< reads[k].given
          /\ reads[k].given = 0 => reads[k].err = Ok /\ reads[k].obj = Initialized[reader]

\* What the field "k" reads as is what its getters answer.
IsWhatIsGot(i, k, got) ==
    LET f == Fields[i][k] IN
    ~IsComposite(f) /\ f.cat # "void" =>
      IF IsArray(f) THEN \A n \in 1 .. f.cap : got[n] = Getter(i, k, n)
      ELSE got = Getter(i, k, 1)

\* A getter answers what deserialising puts in the field, also past the end of
\* a short buffer (buildFieldAccessors), and where the bytes were moved as an
\* image: the accessors, the steps and the structure have one layout.  A body
\* that failed leaves the rest of the object unread, and is not spoken of.
GettersAgree ==
    phase = "read" /\ error = Ok /\ HasFixedOffsets(reader) =>
      \A k \in DOMAIN Fields[reader] : IsWhatIsGot(reader, k, reads[Len(reads)].obj[k])

=============================================================================
