--------------------------- MODULE PlanBodiesProofs ---------------------------
(***************************************************************************)
(* Proofs about the bodies of PlanBodies, for any definitions, objects and *)
(* buffers: what the builder knew of the offset when it built a step is    *)
(* true when the step runs.                                                *)
(*                                                                         *)
(* The wire primitives have a section of their own: a copy of bits is      *)
(* exact at any alignment, a read past the end gives zeros, and a number   *)
(* that is written is read back.                                           *)
(*                                                                         *)
(* A body that reads a definition of one layout has got, in the fields     *)
(* behind it, what their getters answer (Getting).  GInv says so of the    *)
(* outermost body.                                                         *)
(***************************************************************************)
EXTENDS PlanBodies, TypeLayoutProofs, SequenceTheorems, FiniteSetTheorems

LEMMA AllAccepted == \A i \in TypeIds : Accepted(i)
BY PlanConstants

-----------------------------------------------------------------------------
(* What the builder knows.                                                 *)

Knowns == [bits : Int, residue : Int]

(* It is true of the offset "off".                                         *)
Knows(known, off) ==
    /\ known.bits # Unknown => off = known.bits
    /\ known.residue # Unknown => off % ByteBits = known.residue

(* Whoever knows "past" knows "known".                                     *)
Follows(past, known) ==
    /\ known.bits # Unknown => past.bits = known.bits
    /\ known.residue # Unknown => past.residue = known.residue

LEMMA KnowsWhatFollows ==
  ASSUME NEW past, NEW known, NEW off, Knows(past, off), Follows(past, known)
  PROVE  Knows(known, off)
BY DEF Knows, Follows

LEMMA KnowsStart == Start \in Knowns /\ Knows(Start, 0)
BY DEF Start, Knows, Knowns, ByteBits

LEMMA KnowsPast ==
  ASSUME NEW known \in Knowns, NEW n \in Nat
  PROVE  /\ KnownPast(known, n) \in Knowns
         /\ \A off \in Nat : Knows(known, off) => Knows(KnownPast(known, n), off + n)
<1>1. KnownPast(known, n) \in Knowns
  BY DEF KnownPast, Knowns, ByteBits, Unknown
<1>2. ASSUME NEW off \in Nat, Knows(known, off) PROVE Knows(KnownPast(known, n), off + n)
  <2>1. known.residue # Unknown => (known.residue + n) % ByteBits = (off + n) % ByteBits
    BY <1>2 DEF Knows, Knowns, ByteBits
  <2> QED BY <1>2, <2>1 DEF Knows, KnownPast
<1> QED BY <1>1, <1>2

LEMMA KnowsModulo ==
  ASSUME NEW known \in Knowns
  PROVE  /\ KnownModulo(known) \in Knowns
         /\ \A off, n \in Nat : Knows(known, off) /\ n % ByteBits = 0
                                  => Knows(KnownModulo(known), off + n)
         /\ \A off, n \in Nat : Knows(KnownModulo(known), off) /\ n % ByteBits = 0
                                  => Knows(KnownModulo(known), off + n)
<1>1. KnownModulo(known) = [bits |-> Unknown, residue |-> known.residue]
  BY DEF KnownModulo, Knowns
<1>2. KnownModulo(known) \in Knowns
  BY <1>1 DEF Knowns, Unknown
<1>3. \A off, n \in Nat : n % ByteBits = 0 => (off + n) % ByteBits = off % ByteBits
  BY DEF ByteBits
<1> QED BY <1>1, <1>2, <1>3 DEF Knows

LEMMA KnowsNothing == KnownNothing \in Knowns /\ \A off \in Nat : Knows(KnownNothing, off)
BY DEF KnownNothing, Knowns, Knows, Unknown

(* An alignment moves to the next byte, and what is known says how far.    *)
LEMMA KnowsAligned ==
  ASSUME NEW known \in Knowns
  PROVE  /\ KnownAligned(known) \in Knowns
         /\ \A off \in Nat : Knows(known, off) =>
              LET from == IF known.residue = Unknown THEN off ELSE known.residue
                  n == PadTo(from, ByteBits) - from
              IN  n \in Nat /\ Knows(KnownAligned(known), off + n)
<1>1. CASE known.residue = Unknown
  <2>1. KnownAligned(known) = [bits |-> Unknown, residue |-> 0]
    BY <1>1 DEF KnownAligned
  <2>2. ASSUME NEW off \in Nat
        PROVE  PadTo(off, ByteBits) - off \in Nat /\ (off + (PadTo(off, ByteBits) - off)) % ByteBits = 0
    BY DEF PadTo, ByteBits
  <2> QED BY <1>1, <2>1, <2>2 DEF Knows, Knowns, Unknown
<1>2. CASE known.residue # Unknown
  <2>1. KnownAligned(known) = KnownPast(known, (ByteBits - known.residue) % ByteBits)
    BY <1>2 DEF KnownAligned
  <2>2. (ByteBits - known.residue) % ByteBits \in Nat
    BY DEF Knowns, ByteBits
  <2>3. ASSUME NEW off \in Nat, Knows(known, off)
        PROVE  PadTo(known.residue, ByteBits) - known.residue = (ByteBits - known.residue) % ByteBits
    <3>1. known.residue \in 0 .. 7
      BY <1>2, <2>3 DEF Knows, ByteBits
    <3> QED BY <3>1 DEF PadTo, ByteBits
  <2> QED BY <1>2, <2>1, <2>2, <2>3, KnowsPast
<1> QED BY <1>1, <1>2

-----------------------------------------------------------------------------
(* Past a field.                                                           *)

FieldWidth(f, w) == ElementBits(f, IF IsComposite(f) THEN FixedBits[f.ref] ELSE Unknown, w)

Prefixed(known, f) == KnownPast(known, LengthPrefixBits(f))

(* A field of a definition.                                                *)
IsFieldOf(f) == \E i \in TypeIds : \E k \in DOMAIN Fields[i] : f = Fields[i][k]

LEMMA FieldOf ==
  ASSUME NEW f, IsFieldOf(f)
  PROVE  /\ IsField(f)
         /\ IsComposite(f) => f.ref \in TypeIds
         /\ LengthPrefixBits(f) \in Nat
         /\ f.array = "none" => LengthPrefixBits(f) = 0
         /\ f.array = "fixed" => LengthPrefixBits(f) = 0
         /\ IsArray(f) => f.cat # "void"
BY FieldsAre, PrefixBits, AllAccepted DEF IsFieldOf, Accepted, LengthPrefixBits

LEMMA WidthIs ==
  ASSUME NEW f, IsFieldOf(f), NEW w \in BOOLEAN
  PROVE  /\ FieldWidth(f, w) \in Nat \cup {Unknown}
         /\ ~IsComposite(f) => FieldWidth(f, w) = f.bits
         /\ IsComposite(f) =>
              /\ FixedBits[f.ref] \in Nat \cup {Unknown}
              /\ FixedBits[f.ref] # Unknown => FixedBits[f.ref] \in Nat /\ FixedBits[f.ref] % ByteBits = 0
              /\ IsSealed[f.ref] => FieldWidth(f, w) = FixedBits[f.ref]
              /\ ~IsSealed[f.ref] =>
                   FieldWidth(f, w) = IF w /\ FixedBits[f.ref] # Unknown THEN HeaderBits + FixedBits[f.ref]
                                      ELSE Unknown
<1>1. IsField(f) /\ (IsComposite(f) => f.ref \in TypeIds)
  BY FieldOf
<1>2. IsComposite(f) => /\ FixedBits[f.ref] \in Nat \cup {Unknown}
                        /\ FixedBits[f.ref] # Unknown =>
                             FixedBits[f.ref] \in Nat /\ FixedBits[f.ref] % ByteBits = 0
  BY <1>1, FixedBitsAre, AllAccepted
<1>3. HeaderBits \in Nat
  BY LayoutConstants
<1> QED BY <1>1, <1>2, <1>3 DEF FieldWidth, ElementBits, IsField

LEMMA PastFieldIs ==
  ASSUME NEW known \in Knowns, NEW f, IsFieldOf(f), NEW w \in BOOLEAN
  PROVE  /\ KnownPastField(known, f, w) \in Knowns
         /\ Prefixed(known, f) \in Knowns
         /\ KnownPastField(known, f, w) =
              IF FieldWidth(f, w) = Unknown THEN KnownModulo(Prefixed(known, f))
              ELSE IF f.array = "none" THEN KnownPast(Prefixed(known, f), FieldWidth(f, w))
              ELSE IF f.array = "fixed" THEN KnownPast(Prefixed(known, f), FieldWidth(f, w) * f.cap)
              ELSE IF FieldWidth(f, w) % ByteBits = 0 THEN KnownModulo(Prefixed(known, f))
              ELSE KnownNothing
<1> DEFINE p == Prefixed(known, f)
           width == FieldWidth(f, w)
<1>1. IsField(f) /\ LengthPrefixBits(f) \in Nat /\ width \in Nat \cup {Unknown}
  BY FieldOf, WidthIs
<1>2. p \in Knowns
  BY <1>1, KnowsPast DEF Prefixed
<1>3. KnownPastField(known, f, w) = KnownPastElements(p, f, width)
  BY DEF KnownPastField, Prefixed, FieldWidth
<1> HIDE DEF p, width
<1>4. KnownPastElements(p, f, width) =
        IF width = Unknown THEN KnownModulo(p)
        ELSE IF f.array = "none" THEN KnownPast(p, width)
        ELSE IF f.array = "fixed" THEN KnownPast(p, width * f.cap)
        ELSE IF width % ByteBits = 0 THEN KnownModulo(p)
        ELSE KnownNothing
  BY <1>1 DEF KnownPastElements, IsField
<1>5. width # Unknown => width \in Nat /\ width * f.cap \in Nat
  BY <1>1 DEF IsField
<1>6. KnownPastElements(p, f, width) \in Knowns
  BY <1>2, <1>4, <1>5, KnowsPast, KnowsModulo, KnowsNothing
<1> QED BY <1>2, <1>3, <1>4, <1>6 DEF p, width

(* What a step of the loop over elements, or a field that is no array, may *)
(* move the offset by.                                                     *)
MovesBy(f, w, n) ==
    /\ n \in Nat
    /\ FieldWidth(f, w) # Unknown => n = FieldWidth(f, w)
    /\ FieldWidth(f, w) = Unknown => n % ByteBits = 0

LEMMA KnowsPastOne ==
  ASSUME NEW known \in Knowns, NEW f, IsFieldOf(f), ~IsArray(f), NEW w \in BOOLEAN,
         NEW n, MovesBy(f, w, n), NEW off \in Nat, Knows(known, off)
  PROVE  Knows(KnownPastField(known, f, w), off + n)
<1>1. f.array = "none" /\ LengthPrefixBits(f) = 0
  BY FieldOf DEF IsArray
<1>2. Prefixed(known, f) \in Knowns /\ Knows(Prefixed(known, f), off)
  <2>1. Knows(KnownPast(known, 0), off + 0) /\ KnownPast(known, 0) \in Knowns
    BY KnowsPast
  <2> QED BY <1>1, <2>1 DEF Prefixed
<1>3. CASE FieldWidth(f, w) = Unknown
  <2>1. KnownPastField(known, f, w) = KnownModulo(Prefixed(known, f))
    BY <1>3, PastFieldIs
  <2> QED BY <1>2, <1>3, <2>1, KnowsModulo DEF MovesBy
<1>4. CASE FieldWidth(f, w) # Unknown
  <2>1. KnownPastField(known, f, w) = KnownPast(Prefixed(known, f), n)
    BY <1>1, <1>4, PastFieldIs DEF MovesBy
  <2> QED BY <1>2, <2>1, KnowsPast DEF MovesBy
<1> QED BY <1>3, <1>4

(* What holds at the head of the loop, with "at" elements behind.          *)
KnowsInLoop(known, f, w, off, at) ==
    LET width == FieldWidth(f, w)
        p == Prefixed(known, f)
    IN  IF width = Unknown THEN Knows(KnownModulo(p), off)
        ELSE /\ off - at * width \in Nat
             /\ Knows(p, off - at * width)
             /\ width % ByteBits = 0 => Knows(KnownModulo(p), off)

LEMMA LoopStarts ==
  ASSUME NEW known \in Knowns, NEW f, IsFieldOf(f), NEW w \in BOOLEAN,
         NEW off \in Nat, Knows(known, off)
  PROVE  KnowsInLoop(known, f, w, off + LengthPrefixBits(f), 0)
<1> DEFINE o == off + LengthPrefixBits(f)
<1>1. LengthPrefixBits(f) \in Nat /\ o \in Nat
  BY FieldOf
<1>2. Prefixed(known, f) \in Knowns /\ Knows(Prefixed(known, f), o)
  BY <1>1, KnowsPast DEF Prefixed
<1>3. o + 0 = o /\ 0 % ByteBits = 0
  BY <1>1 DEF ByteBits
<1>4. Knows(KnownModulo(Prefixed(known, f)), o)
  <2>1. Knows(KnownModulo(Prefixed(known, f)), o + 0)
    BY <1>1, <1>2, <1>3, KnowsModulo
  <2> QED BY <1>3, <2>1
<1>5. FieldWidth(f, w) # Unknown => o - 0 * FieldWidth(f, w) = o
  BY <1>1, WidthIs
<1> QED BY <1>1, <1>2, <1>4, <1>5 DEF KnowsInLoop

LEMMA LoopGoesOn ==
  ASSUME NEW known \in Knowns, NEW f, IsFieldOf(f), NEW w \in BOOLEAN,
         NEW off \in Nat, NEW at \in Nat, KnowsInLoop(known, f, w, off, at),
         NEW n, MovesBy(f, w, n)
  PROVE  KnowsInLoop(known, f, w, off + n, at + 1)
<1>1. Prefixed(known, f) \in Knowns /\ n \in Nat
  BY PastFieldIs DEF MovesBy
<1>2. CASE FieldWidth(f, w) = Unknown
  BY <1>1, <1>2, KnowsModulo DEF KnowsInLoop, MovesBy
<1>3. CASE FieldWidth(f, w) # Unknown
  <2>1. n = FieldWidth(f, w)
    BY <1>3 DEF MovesBy
  <2>2. (at + 1) * n = at * n + n /\ at * n \in Nat
    BY <1>1
  <2>3. (off + n) - (at + 1) * n = off - at * n
    BY <1>1, <2>2
  <2>4. n % ByteBits = 0 => Knows(KnownModulo(Prefixed(known, f)), off + n)
    BY <1>1, <1>3, <2>1, KnowsModulo DEF KnowsInLoop
  <2> QED BY <1>3, <2>1, <2>3, <2>4 DEF KnowsInLoop
<1> QED BY <1>2, <1>3

LEMMA LoopEnds ==
  ASSUME NEW known \in Knowns, NEW f, IsFieldOf(f), IsArray(f), NEW w \in BOOLEAN,
         NEW off \in Nat, NEW at \in Nat, KnowsInLoop(known, f, w, off, at),
         f.array = "fixed" => at = f.cap
  PROVE  Knows(KnownPastField(known, f, w), off)
<1>1. Prefixed(known, f) \in Knowns /\ f.array \in {"fixed", "variable"} /\ IsField(f)
  BY FieldOf, PastFieldIs DEF IsArray, IsField
<1>2. CASE FieldWidth(f, w) = Unknown
  BY <1>2, PastFieldIs DEF KnowsInLoop
<1>3. CASE FieldWidth(f, w) # Unknown /\ f.array = "fixed"
  <2> DEFINE width == FieldWidth(f, w)
             first == off - at * width
  <2>1. KnownPastField(known, f, w) = KnownPast(Prefixed(known, f), width * f.cap)
    BY <1>3, PastFieldIs
  <2>2. width \in Nat /\ first \in Nat /\ Knows(Prefixed(known, f), first)
    BY <1>3, WidthIs DEF KnowsInLoop
  <2>3. width * f.cap \in Nat /\ first + width * f.cap = off
    BY <1>1, <1>3, <2>2 DEF IsField
  <2> HIDE DEF first, width
  <2>4. Knows(KnownPast(Prefixed(known, f), width * f.cap), first + width * f.cap)
    BY <1>1, <2>2, <2>3, KnowsPast
  <2> QED BY <2>1, <2>3, <2>4
<1>4. CASE FieldWidth(f, w) # Unknown /\ f.array = "variable"
  BY <1>4, PastFieldIs, KnowsNothing DEF KnowsInLoop
<1> QED BY <1>1, <1>2, <1>3, <1>4

-----------------------------------------------------------------------------
(* The steps of a body of the definition "i", and what is left of one.     *)

Held(s) == {s[n] : n \in DOMAIN s}

Elements(s) == [s EXCEPT !.kind = "elements"]

IsAlign(s) == s.kind = "align" /\ s.known \in Knowns /\ s = AlignStepAt(s.known)

IsFieldStep(i, w, s) ==
    /\ s.kind = "field" /\ s.known \in Knowns /\ s.field \in DOMAIN Fields[i]
    /\ s = FieldStepAt(s.field, Fields[i][s.field], s.known, w)

IsElements(i, w, s) ==
    /\ s.kind = "elements" /\ s.known \in Knowns /\ s.field \in DOMAIN Fields[i] /\ IsArray(Fields[i][s.field])
    /\ s = Elements(FieldStepAt(s.field, Fields[i][s.field], s.known, w))

IsMove(i, s) ==
    s.kind = "move" /\ ImageScalars[i] # {} /\ s = Moved(MaxBits[i], ImageScalars[i])[1]

IsPlain(i, w, s) == IsAlign(s) \/ IsFieldStep(i, w, s)

(* Steps each of which starts where the one before it ends.                *)
IsChain(i, w, body, start) ==
    /\ body \in Seq(Held(body))
    /\ \A n \in 1 .. Len(body) :
          /\ IsPlain(i, w, body[n])
          /\ body[n].known = IF n = 1 THEN start ELSE body[n - 1].past

(* An option is written or read by steps of its own field, which end where *)
(* the union does.                                                         *)
IsArm(i, w, arm, k, start, past) ==
    /\ IsChain(i, w, arm, start)
    /\ arm # << >> /\ Follows(arm[Len(arm)].past, past)
    /\ \A n \in 1 .. Len(arm) : arm[n].kind = "field" => arm[n].field = k

IsTag(i, w, s) ==
    /\ s.kind = "tag" /\ IsUnion[i] /\ s.past \in Knowns
    /\ s = [kind |-> "tag", field |-> 0, f |-> NoField, arms |-> s.arms,
            bits |-> UnionTagBits(Types[i]), known |-> Start, past |-> s.past]
    /\ DOMAIN s.arms = DOMAIN Fields[i]
    /\ \A k \in DOMAIN Fields[i] :
          IsArm(i, w, s.arms[k], k, KnownPast(Start, UnionTagBits(Types[i])), s.past)

IsStep(i, w, s) == IsPlain(i, w, s) \/ IsElements(i, w, s) \/ IsMove(i, s) \/ IsTag(i, w, s)

(* A loop over elements is only ever what a body is in.                    *)
IsTodo(i, w, todo) ==
    /\ todo \in Seq(Held(todo))
    /\ \A n \in 1 .. Len(todo) :
          /\ IsStep(i, w, todo[n])
          /\ n > 1 => todo[n].kind # "elements" /\ Follows(todo[n - 1].past, todo[n].known)

-----------------------------------------------------------------------------
(* The inductive invariant.                                                *)

IsFrame(t) ==
    /\ DOMAIN t = {"type", "todo", "loop", "off", "err", "base", "cap", "obj"}
    /\ DOMAIN t.loop = {"at", "count"}

(* The steps about a field that a union's frame has left are about the     *)
(* option its object's tag selects.                                        *)
OfItsOption(t) ==
    IsUnion[t.type] =>
      \A n \in 1 .. Len(t.todo) :
        t.todo[n].kind \in {"field", "elements"} =>
          t.todo[n].field = TagValue(t.obj.tag, UnionTagBits(Types[t.type])) + 1

(* A loop over elements has the bound its array has.                       *)
LoopIsBound(t, w) ==
    LET s == t.todo[1] IN
    t.todo # << >> /\ s.kind = "elements" =>
      /\ s.f.array = "fixed" => t.loop.count = s.f.cap
      /\ w /\ s.f.array = "variable" => t.loop.count = Len(Member(t))

WellFormed(t, w) ==
    /\ IsFrame(t) /\ t.type \in TypeIds /\ IsTodo(t.type, w, t.todo)
    /\ t.loop.at \in Nat
    /\ LoopIsBound(t, w)
    /\ w => t.obj \in Objects(t.type) /\ OfItsOption(t)
    /\ ~w => t.cap \in Nat
    /\ t.err = Ok => t.off \in Nat

Knowing(t, w) ==
    LET s == t.todo[1] IN
    t.err = Ok /\ t.todo # << >> =>
      IF s.kind = "elements" THEN KnowsInLoop(s.known, s.f, w, t.off, t.loop.at)
      ELSE Knows(s.known, t.off)

(* A body that called another waits at the composite it called it for.     *)
Waiting(t, i) ==
    LET s == t.todo[1] IN
    /\ t.err = Ok /\ t.todo # << >>
    /\ \/ s.kind = "field" /\ ~IsArray(s.f)
       \/ s.kind = "elements"
    /\ IsComposite(s.f) /\ s.f.ref = i

AreFrames(frames, w) ==
    /\ frames \in Seq(Held(frames))
    /\ \A d \in 1 .. Len(frames) :
          /\ WellFormed(frames[d], w) /\ Knowing(frames[d], w)
          /\ d = 1 => frames[d].cap \in Nat
          /\ d > 1 => Waiting(frames[d - 1], frames[d].type)

KInv ==
    /\ writer \in TypeIds /\ reader \in TypeIds
    /\ source \in Objects(writer)
    /\ size \in Nat /\ length \in Nat
    /\ phase \notin {"writing", "reading"} => stack = << >>
    /\ AreFrames(stack, Writing)

-----------------------------------------------------------------------------
(* Sequences.                                                              *)

LEMMA SequenceOfHeld ==
  ASSUME NEW S, NEW s \in Seq(S)
  PROVE  s \in Seq(Held(s))
<1>1. DOMAIN s = 1 .. Len(s) /\ Len(s) \in Nat /\ s \in [1 .. Len(s) -> S]
  BY LenProperties
<1>2. s \in [1 .. Len(s) -> Held(s)]
  BY <1>1 DEF Held
<1> QED BY <1>1, <1>2, SMT

LEMMA HeldIs ==
  ASSUME NEW s, s \in Seq(Held(s))
  PROVE  /\ Len(s) \in Nat /\ DOMAIN s = 1 .. Len(s)
         /\ s # << >> <=> Len(s) > 0
         /\ s # << >> => Head(s) = s[1]
<1>1. Len(s) \in Nat /\ DOMAIN s = 1 .. Len(s) /\ (s # << >> => Head(s) = s[1])
  BY LenProperties, HeadTailProperties
<1>2. s # << >> <=> Len(s) > 0
  BY <1>1, EmptySeq
<1> QED BY <1>1, <1>2

LEMMA HeldTail ==
  ASSUME NEW s, s \in Seq(Held(s)), s # << >>
  PROVE  /\ Tail(s) \in Seq(Held(Tail(s)))
         /\ Len(Tail(s)) = Len(s) - 1
         /\ \A n \in 1 .. Len(Tail(s)) : Tail(s)[n] = s[n + 1]
<1>1. Tail(s) \in Seq(Held(s)) /\ Len(Tail(s)) = Len(s) - 1
  BY HeadTailProperties
<1>2. Tail(s) \in Seq(Held(Tail(s)))
  BY <1>1, SequenceOfHeld
<1>3. \A n \in 1 .. Len(Tail(s)) : Tail(s)[n] = s[n + 1]
  BY <1>1, HeldIs, SMT
<1> QED BY <1>1, <1>2, <1>3

LEMMA HeldAppend ==
  ASSUME NEW s, s \in Seq(Held(s)), NEW e
  PROVE  /\ Append(s, e) \in Seq(Held(Append(s, e)))
         /\ Len(Append(s, e)) = Len(s) + 1
         /\ \A n \in 1 .. Len(s) : Append(s, e)[n] = s[n]
         /\ Append(s, e)[Len(s) + 1] = e
<1> DEFINE S == Held(s) \cup {e}
<1>1. s \in Seq(S) /\ e \in S
  BY SeqMonotonic
<1> HIDE DEF S
<1>2. /\ Append(s, e) \in Seq(S) /\ Len(Append(s, e)) = Len(s) + 1
      /\ \A n \in 1 .. Len(s) : Append(s, e)[n] = s[n]
      /\ Append(s, e)[Len(s) + 1] = e
  BY <1>1, AppendProperties
<1>3. Append(s, e) \in Seq(Held(Append(s, e)))
  BY <1>2, SequenceOfHeld
<1> QED BY <1>2, <1>3

LEMMA HeldConcat ==
  ASSUME NEW s, s \in Seq(Held(s)), NEW r, r \in Seq(Held(r))
  PROVE  /\ s \o r \in Seq(Held(s \o r))
         /\ Len(s \o r) = Len(s) + Len(r)
         /\ \A n \in 1 .. Len(s) : (s \o r)[n] = s[n]
         /\ \A n \in 1 .. Len(r) : (s \o r)[Len(s) + n] = r[n]
<1> DEFINE S == Held(s) \cup Held(r)
<1>1. s \in Seq(S) /\ r \in Seq(S)
  BY SeqMonotonic
<1> HIDE DEF S
<1>2. /\ s \o r \in Seq(S) /\ Len(s \o r) = Len(s) + Len(r)
      /\ \A n \in 1 .. Len(s) + Len(r) : (s \o r)[n] = IF n <= Len(s) THEN s[n] ELSE r[n - Len(s)]
  BY <1>1, ConcatProperties
<1>3. s \o r \in Seq(Held(s \o r))
  BY <1>2, SequenceOfHeld
<1>4. Len(s) \in Nat /\ Len(r) \in Nat
  BY HeldIs
<1>5. \A n \in 1 .. Len(s) : (s \o r)[n] = s[n]
  BY <1>2, <1>4
<1>6. ASSUME NEW n \in 1 .. Len(r) PROVE (s \o r)[Len(s) + n] = r[n]
  <2>1. Len(s) + n \in 1 .. Len(s) + Len(r) /\ ~ (Len(s) + n <= Len(s)) /\ (Len(s) + n) - Len(s) = n
    BY <1>4
  <2> QED BY <1>2, <2>1
<1> QED BY <1>2, <1>3, <1>5, <1>6

(* "r" is the steps "a" and after them the steps "b".                        *)
Joins(r, a, b) ==
    /\ r \in Seq(Held(r)) /\ Len(a) \in Nat /\ Len(b) \in Nat
    /\ Len(r) = Len(a) + Len(b)
    /\ \A n \in 1 .. Len(a) : r[n] = a[n]
    /\ \A n \in 1 .. Len(b) : r[Len(a) + n] = b[n]

LEMMA HeldJoins ==
  ASSUME NEW a, a \in Seq(Held(a)), NEW b, b \in Seq(Held(b))
  PROVE  Joins(a \o b, a, b)
<1> DEFINE r == a \o b
<1>1. Len(a) \in Nat /\ Len(b) \in Nat
  BY HeldIs
<1>2. r \in Seq(Held(r)) /\ Len(r) = Len(a) + Len(b)
  BY HeldConcat
<1>3. \A n \in 1 .. Len(a) : r[n] = a[n]
  BY HeldConcat
<1>4. \A n \in 1 .. Len(b) : r[Len(a) + n] = b[n]
  BY HeldConcat
<1> HIDE DEF r
<1>5. Joins(r, a, b)
  BY <1>1, <1>2, <1>3, <1>4 DEF Joins
<1> QED BY <1>5 DEF r

LEMMA HeldOne ==
  ASSUME NEW e
  PROVE  <<e>> \in Seq(Held(<<e>>)) /\ Len(<<e>>) = 1 /\ <<e>>[1] = e /\ <<e>> # << >>
<1>1. <<e>> \in Seq({e})
  OBVIOUS
<1> QED BY <1>1, SequenceOfHeld

LEMMA HeldNothing == << >> \in Seq(Held(<< >>)) /\ Len(<< >>) = 0
<1>1. << >> \in Seq({})
  OBVIOUS
<1> QED BY <1>1, SequenceOfHeld

LEMMA HeldReplaced ==
  ASSUME NEW s, s \in Seq(Held(s)), s # << >>, NEW e
  PROVE  /\ [s EXCEPT ![Len(s)] = e] \in Seq(Held([s EXCEPT ![Len(s)] = e]))
         /\ Len([s EXCEPT ![Len(s)] = e]) = Len(s)
         /\ \A n \in 1 .. Len(s) : [s EXCEPT ![Len(s)] = e][n] = IF n = Len(s) THEN e ELSE s[n]
<1> DEFINE S == Held(s) \cup {e}
           r == [s EXCEPT ![Len(s)] = e]
<1>1. s \in Seq(S) /\ e \in S
  BY SeqMonotonic
<1>2. Len(s) \in 1 .. Len(s) /\ DOMAIN s = 1 .. Len(s) /\ Len(s) \in Nat
  BY HeldIs
<1>3. r \in Seq(S) /\ Len(r) = Len(s) /\ \A n \in 1 .. Len(s) : r[n] = IF n = Len(s) THEN e ELSE s[n]
  BY <1>1, <1>2, ExceptSeq
<1> QED BY <1>3, SequenceOfHeld

(* All but the last two, and one in their place.                           *)
LEMMA HeldPopped ==
  ASSUME NEW s, s \in Seq(Held(s)), Len(s) > 1, NEW e
  PROVE  LET r == Append(SubSeq(s, 1, Len(s) - 2), e) IN
         /\ r \in Seq(Held(r))
         /\ Len(r) = Len(s) - 1
         /\ \A n \in 1 .. (Len(s) - 2) : r[n] = s[n]
         /\ r[Len(s) - 1] = e
<1> DEFINE m == Len(s) - 2
           q == SubSeq(s, 1, m)
<1>1. Len(s) \in Nat /\ m \in Nat /\ DOMAIN s = 1 .. Len(s) /\ \A n \in 1 .. m : n \in 1 .. Len(s)
  BY HeldIs
<1>2. q \in Seq(Held(s)) /\ Len(q) = m /\ \A n \in 1 .. m : q[n] = s[n]
  <2> HIDE DEF m
  <2>1. \A n \in 1 .. m : s[n] \in Held(s)
    BY <1>1 DEF Held
  <2>2. m \in Int /\ 1 \in Int
    BY <1>1
  <2>3. /\ SubSeq(s, 1, m) \in Seq(Held(s))
        /\ Len(SubSeq(s, 1, m)) = IF 1 <= m THEN m - 1 + 1 ELSE 0
        /\ \A n \in 1 .. m - 1 + 1 : SubSeq(s, 1, m)[n] = s[1 + n - 1]
    BY <2>1, <2>2, SubSeqProperties
  <2>4. (IF 1 <= m THEN m - 1 + 1 ELSE 0) = m /\ m - 1 + 1 = m
    BY <1>1
  <2>5. \A n \in 1 .. m : 1 + n - 1 = n
    BY <1>1
  <2>6. Len(SubSeq(s, 1, m)) = m
    BY <2>3, <2>4
  <2>7. \A n \in 1 .. m : SubSeq(s, 1, m)[n] = s[n]
    BY <2>3, <2>4, <2>5
  <2> QED BY <2>3, <2>6, <2>7
<1>3. q \in Seq(Held(q))
  BY <1>2, SequenceOfHeld
<1> HIDE DEF q
<1>4. m + 1 = Len(s) - 1
  BY <1>1
<1> HIDE DEF m
<1>5. /\ Append(q, e) \in Seq(Held(Append(q, e)))
      /\ Len(Append(q, e)) = m + 1
      /\ \A n \in 1 .. m : Append(q, e)[n] = q[n]
      /\ Append(q, e)[m + 1] = e
  BY <1>2, <1>3, HeldAppend
<1> QED BY <1>2, <1>4, <1>5 DEF q, m

-----------------------------------------------------------------------------
(* What a step is, by its kind.                                            *)

IsOfField(i, w, s) ==
    /\ s.field \in DOMAIN Fields[i] /\ s.f = Fields[i][s.field] /\ IsFieldOf(s.f)
    /\ s.bits = IF IsComposite(s.f) THEN FixedBits[s.f.ref] ELSE s.f.bits
    /\ s.past = KnownPastField(s.known, s.f, w)

LEMMA AlignIs ==
  ASSUME NEW s, IsAlign(s)
  PROVE  s.kind = "align" /\ s.known \in Knowns /\ s.past = KnownAligned(s.known) /\ s.past \in Knowns
<1>1. s.known \in Knowns /\ s = AlignStepAt(s.known)
  BY DEF IsAlign
<1>2. AlignStepAt(s.known).kind = "align" /\ AlignStepAt(s.known).past = KnownAligned(s.known)
  BY DEF AlignStepAt
<1> QED BY <1>1, <1>2, KnowsAligned

LEMMA FieldStepIs ==
  ASSUME NEW i \in TypeIds, NEW w \in BOOLEAN, NEW s, IsFieldStep(i, w, s)
  PROVE  /\ s.kind = "field" /\ s.known \in Knowns /\ s.past \in Knowns
         /\ IsOfField(i, w, s)
<1>1. /\ s.known \in Knowns /\ s.field \in DOMAIN Fields[i]
      /\ s = FieldStepAt(s.field, Fields[i][s.field], s.known, w)
  BY DEF IsFieldStep
<1> DEFINE r == FieldStepAt(s.field, Fields[i][s.field], s.known, w)
<1>2. /\ r.kind = "field" /\ r.f = Fields[i][s.field]
      /\ r.bits = IF IsComposite(r.f) THEN FixedBits[r.f.ref] ELSE r.f.bits
      /\ r.past = KnownPastField(s.known, r.f, w)
  BY DEF FieldStepAt
<1> HIDE DEF r
<1>3. s = r
  BY <1>1 DEF r
<1>4. IsFieldOf(s.f)
  BY <1>1, <1>2, <1>3 DEF IsFieldOf
<1>5. s.past \in Knowns
  BY <1>1, <1>2, <1>3, <1>4, PastFieldIs
<1> QED BY <1>1, <1>2, <1>3, <1>4, <1>5 DEF IsOfField

LEMMA ElementsIs ==
  ASSUME NEW i \in TypeIds, NEW w \in BOOLEAN, NEW s, IsElements(i, w, s)
  PROVE  /\ s.kind = "elements" /\ s.known \in Knowns /\ s.past \in Knowns
         /\ IsOfField(i, w, s) /\ IsArray(s.f)
<1> DEFINE r == FieldStepAt(s.field, Fields[i][s.field], s.known, w)
<1>1. /\ s.known \in Knowns /\ s.field \in DOMAIN Fields[i] /\ IsArray(Fields[i][s.field])
      /\ s = Elements(r)
  BY DEF IsElements
<1>2. /\ r.kind = "field" /\ r.field = s.field /\ r.known = s.known
      /\ IsFieldStep(i, w, r)
  BY <1>1, Zenon DEF FieldStepAt, IsFieldStep
<1>3. /\ Elements(r).kind = "elements" /\ Elements(r).field = r.field /\ Elements(r).f = r.f
      /\ Elements(r).bits = r.bits /\ Elements(r).past = r.past /\ Elements(r).known = r.known
  BY DEF Elements, FieldStepAt
<1> HIDE DEF r
<1>4. r.past \in Knowns /\ IsOfField(i, w, r)
  BY <1>2, FieldStepIs
<1> QED BY <1>1, <1>2, <1>3, <1>4 DEF IsOfField

(* The loop over the elements of a field is about the same field.          *)
LEMMA ElementsOf ==
  ASSUME NEW i \in TypeIds, NEW w \in BOOLEAN, NEW s, IsFieldStep(i, w, s), IsArray(s.f)
  PROVE  /\ IsElements(i, w, Elements(s))
         /\ Elements(s).known = s.known /\ Elements(s).past = s.past /\ Elements(s).f = s.f
         /\ Elements(s).field = s.field /\ Elements(s).kind = "elements"
<1> DEFINE r == FieldStepAt(s.field, Fields[i][s.field], s.known, w)
<1>1. s.known \in Knowns /\ s.field \in DOMAIN Fields[i] /\ s = r
  BY DEF IsFieldStep
<1>2. /\ Elements(r).kind = "elements" /\ Elements(r).field = r.field /\ Elements(r).f = r.f
      /\ Elements(r).past = r.past /\ Elements(r).known = r.known
  BY DEF Elements, FieldStepAt
<1>3. s.f = Fields[i][s.field]
  BY FieldStepIs DEF IsOfField
<1> HIDE DEF r
<1>4. Elements(s) = Elements(FieldStepAt(s.field, Fields[i][s.field], s.known, w))
  BY <1>1 DEF r
<1> QED BY <1>1, <1>2, <1>3, <1>4 DEF IsElements

LEMMA MoveIs ==
  ASSUME NEW i \in TypeIds, NEW s, IsMove(i, s)
  PROVE  /\ s.kind = "move" /\ s.known = Start /\ s.bits \in Nat
         /\ s.past = KnownPast(s.known, s.bits) /\ s.past \in Knowns
<1>1. s.kind = "move" /\ s.known = Start /\ s.bits = MaxBits[i] /\ s.past = KnownPast(Start, MaxBits[i])
  BY DEF IsMove, Moved
<1>2. MaxBits[i] \in Nat
  BY FixedBitsAre, AllAccepted
<1> QED BY <1>1, <1>2, KnowsStart, KnowsPast

LEMMA TagIs ==
  ASSUME NEW i \in TypeIds, NEW w, NEW s, IsTag(i, w, s)
  PROVE  /\ s.kind = "tag" /\ s.known = Start /\ s.bits = UnionTagBits(Types[i])
         /\ s.bits \in Nat /\ s.past \in Knowns /\ s.f = NoField
<1>1. /\ IsUnion[i] /\ s.past \in Knowns /\ s.kind = "tag" /\ s.known = Start
      /\ s.bits = UnionTagBits(Types[i]) /\ s.f = NoField
  BY DEF IsTag
<1> QED BY <1>1, TagBits

LEMMA StepIs ==
  ASSUME NEW i \in TypeIds, NEW w \in BOOLEAN, NEW s, IsStep(i, w, s)
  PROVE  /\ s.known \in Knowns /\ s.past \in Knowns
         /\ s.kind = "align" => s.past = KnownAligned(s.known)
         /\ s.kind = "field" => IsFieldStep(i, w, s)
         /\ s.kind \in {"field", "elements"} => IsOfField(i, w, s)
         /\ s.kind = "elements" => IsArray(s.f)
         /\ s.kind = "move" => s.bits \in Nat /\ s.past = KnownPast(s.known, s.bits)
         /\ s.kind = "tag" => IsTag(i, w, s)
<1>1. CASE IsAlign(s)
  BY <1>1, AlignIs
<1>2. CASE IsFieldStep(i, w, s)
  BY <1>2, FieldStepIs
<1>3. CASE IsElements(i, w, s)
  BY <1>3, ElementsIs
<1>4. CASE IsMove(i, s)
  BY <1>4, MoveIs, KnowsStart
<1>5. CASE IsTag(i, w, s)
  BY <1>5, TagIs, KnowsStart
<1> QED BY <1>1, <1>2, <1>3, <1>4, <1>5 DEF IsStep, IsPlain

-----------------------------------------------------------------------------
(* What is left of a body, past a step, in a loop and past a tag.          *)

LEMMA TodoHead ==
  ASSUME NEW i, NEW w, NEW todo, IsTodo(i, w, todo), todo # << >>
  PROVE  /\ Head(todo) = todo[1] /\ IsStep(i, w, todo[1])
         /\ Len(todo) \in Nat /\ 1 \in 1 .. Len(todo)
BY HeldIs DEF IsTodo

LEMMA TodoPast ==
  ASSUME NEW i, NEW w, NEW todo, IsTodo(i, w, todo), todo # << >>
  PROVE  /\ IsTodo(i, w, Tail(todo))
         /\ Tail(todo) # << >> =>
               /\ Follows(todo[1].past, Tail(todo)[1].known)
               /\ Tail(todo)[1].kind # "elements"
         /\ \A n \in 1 .. Len(Tail(todo)) : \E m \in 1 .. Len(todo) : Tail(todo)[n] = todo[m]
<1> DEFINE rest == Tail(todo)
<1>1. /\ todo \in Seq(Held(todo)) /\ Len(todo) \in Nat
      /\ rest \in Seq(Held(rest)) /\ Len(rest) = Len(todo) - 1
      /\ \A n \in 1 .. Len(rest) : rest[n] = todo[n + 1]
  BY HeldIs, HeldTail DEF IsTodo
<1>2. rest # << >> => Len(rest) > 0
  BY <1>1, HeldIs
<1> HIDE DEF rest
<1>3. ASSUME NEW n \in 1 .. Len(rest)
      PROVE  /\ n + 1 \in 1 .. Len(todo) /\ n + 1 > 1 /\ (n + 1) - 1 = n
             /\ IsStep(i, w, rest[n]) /\ rest[n].kind # "elements"
             /\ Follows(todo[n].past, rest[n].known)
  <2>1. n + 1 \in 1 .. Len(todo) /\ n + 1 > 1 /\ (n + 1) - 1 = n
    BY <1>1
  <2>2. rest[n] = todo[n + 1]
    BY <1>1
  <2>3. /\ IsStep(i, w, todo[n + 1]) /\ todo[n + 1].kind # "elements"
        /\ Follows(todo[(n + 1) - 1].past, todo[n + 1].known)
    BY <2>1 DEF IsTodo
  <2> QED BY <2>1, <2>2, <2>3
<1>4. ASSUME NEW n \in 1 .. Len(rest), n > 1 PROVE rest[n - 1] = todo[n]
  <2>1. n - 1 \in 1 .. Len(rest) /\ (n - 1) + 1 = n
    BY <1>1, <1>4
  <2> QED BY <1>1, <2>1
<1>5. IsTodo(i, w, rest)
  BY <1>1, <1>3, <1>4 DEF IsTodo
<1>6. rest # << >> => Follows(todo[1].past, rest[1].known) /\ rest[1].kind # "elements"
  <2>1. rest # << >> => 1 \in 1 .. Len(rest)
    BY <1>1, <1>2
  <2> QED BY <1>3, <2>1
<1>7. \A n \in 1 .. Len(rest) : \E m \in 1 .. Len(todo) : rest[n] = todo[m]
  BY <1>1, <1>3
<1> QED BY <1>5, <1>6, <1>7 DEF rest

LEMMA TodoLoops ==
  ASSUME NEW i \in TypeIds, NEW w \in BOOLEAN, NEW todo, IsTodo(i, w, todo), todo # << >>,
         todo[1].kind = "field", IsArray(todo[1].f)
  PROVE  LET r == <<Elements(todo[1])>> \o Tail(todo) IN
         /\ IsTodo(i, w, r) /\ r # << >> /\ r[1] = Elements(todo[1])
         /\ \A n \in 1 .. Len(r) : n = 1 \/ \E m \in 1 .. Len(todo) : r[n] = todo[m]
<1> DEFINE e == Elements(todo[1])
           rest == Tail(todo)
           r == <<e>> \o rest
<1>1. IsStep(i, w, todo[1]) /\ IsFieldStep(i, w, todo[1])
  BY TodoHead, StepIs
<1>2. IsElements(i, w, e) /\ e.past = todo[1].past
  BY <1>1, ElementsOf
<1>3. /\ rest \in Seq(Held(rest)) /\ Len(rest) = Len(todo) - 1 /\ Len(todo) \in Nat
      /\ IsTodo(i, w, rest)
      /\ rest # << >> => Follows(todo[1].past, rest[1].known) /\ rest[1].kind # "elements"
      /\ \A n \in 1 .. Len(rest) : \E m \in 1 .. Len(todo) : rest[n] = todo[m]
      /\ rest # << >> <=> Len(rest) > 0
  <2>1. todo \in Seq(Held(todo)) /\ Len(todo) \in Nat
    BY HeldIs DEF IsTodo
  <2>2. rest \in Seq(Held(rest)) /\ Len(rest) = Len(todo) - 1
    BY <2>1, HeldTail
  <2>3. rest # << >> <=> Len(rest) > 0
    BY <2>2, HeldIs
  <2>4. IsTodo(i, w, rest)
    BY TodoPast
  <2>5. rest # << >> => Follows(todo[1].past, rest[1].known) /\ rest[1].kind # "elements"
    BY TodoPast
  <2>6. \A n \in 1 .. Len(rest) : \E m \in 1 .. Len(todo) : rest[n] = todo[m]
    BY TodoPast
  <2> QED BY <2>1, <2>2, <2>3, <2>4, <2>5, <2>6
<1>4. <<e>> \in Seq(Held(<<e>>)) /\ Len(<<e>>) = 1 /\ <<e>>[1] = e
  BY HeldOne
<1> HIDE DEF e, rest
<1>5. /\ r \in Seq(Held(r)) /\ Len(r) = 1 + Len(rest)
      /\ r[1] = e /\ \A n \in 1 .. Len(rest) : r[1 + n] = rest[n]
  <2> DEFINE o == <<e>>
  <2>1. o \in Seq(Held(o)) /\ Len(o) = 1 /\ o[1] = e /\ r = o \o rest
    BY <1>4
  <2> HIDE DEF o, r
  <2>a. o \in Seq(Held(o)) /\ rest \in Seq(Held(rest))
    BY <1>3, <2>1
  <2>2. o \o rest \in Seq(Held(o \o rest)) /\ Len(o \o rest) = Len(o) + Len(rest)
    BY <2>a, HeldConcat
  <2>3. \A n \in 1 .. Len(o) : (o \o rest)[n] = o[n]
    BY <2>a, HeldConcat
  <2>4. \A n \in 1 .. Len(rest) : (o \o rest)[Len(o) + n] = rest[n]
    BY <2>a, HeldConcat
  <2>5. 1 \in 1 .. Len(o)
    BY <2>1
  <2> QED BY <2>1, <2>2, <2>3, <2>4, <2>5
<1> HIDE DEF r
<1>6. ASSUME NEW n \in 1 .. Len(r), n # 1
      PROVE  n - 1 \in 1 .. Len(rest) /\ r[n] = rest[n - 1]
  <2>1. n - 1 \in 1 .. Len(rest) /\ 1 + (n - 1) = n
    BY <1>3, <1>5, <1>6
  <2> QED BY <1>5, <2>1
<1>7. r # << >>
  BY <1>3, <1>5, HeldIs
<1>8. ASSUME NEW n \in 1 .. Len(r), n > 1
      PROVE  r[n].kind # "elements" /\ Follows(r[n - 1].past, r[n].known) /\ IsStep(i, w, r[n])
  <2>1. n - 1 \in 1 .. Len(rest) /\ r[n] = rest[n - 1]
    BY <1>6, <1>8
  <2>2. IsStep(i, w, r[n])
    BY <1>3, <2>1 DEF IsTodo
  <2>3. CASE n = 2
    <3>1. n - 1 = 1 /\ rest # << >>
      BY <1>3, <2>1, <2>3
    <3> QED BY <1>2, <1>3, <1>5, <2>1, <2>2, <3>1
  <2>4. CASE n # 2
    <3>1. n - 1 \in 1 .. Len(r) /\ n - 1 > 1
      BY <1>3, <1>5, <1>8, <2>4
    <3>2. r[n - 1] = rest[(n - 1) - 1]
      BY <1>6, <3>1
    <3>3. rest[n - 1].kind # "elements" /\ Follows(rest[(n - 1) - 1].past, rest[n - 1].known)
      BY <1>3, <2>1, <3>1 DEF IsTodo
    <3> QED BY <2>1, <2>2, <3>2, <3>3
  <2> QED BY <2>3, <2>4
<1>9. ASSUME NEW n \in 1 .. Len(r) PROVE IsStep(i, w, r[n])
  <2>1. CASE n = 1
    BY <1>2, <1>5, <2>1 DEF IsStep
  <2>2. CASE n # 1
    BY <1>8, <2>2, <1>5
  <2> QED BY <2>1, <2>2
<1>10. IsTodo(i, w, r)
  BY <1>5, <1>8, <1>9 DEF IsTodo
<1>11. \A n \in 1 .. Len(r) : n = 1 \/ \E m \in 1 .. Len(todo) : r[n] = todo[m]
  BY <1>3, <1>6
<1> QED BY <1>5, <1>7, <1>10, <1>11 DEF r, e, rest

LEMMA FollowsOn ==
  ASSUME NEW past, NEW known, NEW next, Follows(past, known), Follows(known, next)
  PROVE  Follows(past, next)
BY DEF Follows

LEMMA FollowsItself ==
  ASSUME NEW known
  PROVE  Follows(known, known)
BY DEF Follows

LEMMA PlainIs ==
  ASSUME NEW i \in TypeIds, NEW w \in BOOLEAN, NEW s, IsPlain(i, w, s)
  PROVE  IsStep(i, w, s) /\ s.kind \in {"align", "field"} /\ s.known \in Knowns /\ s.past \in Knowns
BY AlignIs, FieldStepIs DEF IsPlain, IsStep

LEMMA ChainIsTodo ==
  ASSUME NEW i \in TypeIds, NEW w \in BOOLEAN, NEW body, NEW start, IsChain(i, w, body, start)
  PROVE  /\ IsTodo(i, w, body)
         /\ body # << >> => body[1].known = start /\ body[1].kind # "elements"
<1>1. body \in Seq(Held(body)) /\ Len(body) \in Nat /\ (body # << >> <=> Len(body) > 0)
  BY HeldIs DEF IsChain
<1>2. ASSUME NEW n \in 1 .. Len(body)
      PROVE  /\ IsStep(i, w, body[n]) /\ body[n].kind # "elements"
             /\ body[n].known = IF n = 1 THEN start ELSE body[n - 1].past
  BY PlainIs DEF IsChain
<1>3. ASSUME NEW n \in 1 .. Len(body), n > 1 PROVE Follows(body[n - 1].past, body[n].known)
  BY <1>2, <1>3, FollowsItself
<1>4. IsTodo(i, w, body)
  BY <1>1, <1>2, <1>3 DEF IsTodo
<1>5. body # << >> => 1 \in 1 .. Len(body)
  BY <1>1
<1> QED BY <1>2, <1>4, <1>5

LEMMA TodoThen ==
  ASSUME NEW i \in TypeIds, NEW w \in BOOLEAN, NEW arm, IsTodo(i, w, arm), arm # << >>,
         NEW rest, IsTodo(i, w, rest),
         rest # << >> => Follows(arm[Len(arm)].past, rest[1].known) /\ rest[1].kind # "elements"
  PROVE  /\ IsTodo(i, w, arm \o rest)
         /\ arm \o rest # << >> /\ (arm \o rest)[1] = arm[1]
         /\ \A n \in 1 .. Len(arm \o rest) :
               \/ \E m \in 1 .. Len(arm) : (arm \o rest)[n] = arm[m]
               \/ \E m \in 1 .. Len(rest) : (arm \o rest)[n] = rest[m]
<1> DEFINE r == arm \o rest
<1>1. arm \in Seq(Held(arm)) /\ rest \in Seq(Held(rest))
  BY DEF IsTodo
<1>2. /\ Len(arm) \in Nat /\ Len(arm) > 0 /\ Len(rest) \in Nat
      /\ rest # << >> <=> Len(rest) > 0
  BY <1>1, HeldIs
<1>3. r \in Seq(Held(r)) /\ Len(r) = Len(arm) + Len(rest)
  BY <1>1, HeldConcat
<1>4. \A n \in 1 .. Len(arm) : r[n] = arm[n]
  BY <1>1, HeldConcat
<1>5. \A n \in 1 .. Len(rest) : r[Len(arm) + n] = rest[n]
  BY <1>1, HeldConcat
<1> HIDE DEF r
<1>6. ASSUME NEW n \in 1 .. Len(r), ~ (n \in 1 .. Len(arm))
      PROVE  n - Len(arm) \in 1 .. Len(rest) /\ r[n] = rest[n - Len(arm)]
  <2>1. n - Len(arm) \in 1 .. Len(rest) /\ Len(arm) + (n - Len(arm)) = n
    BY <1>2, <1>3, <1>6
  <2> QED BY <1>5, <2>1
<1>7. \A n \in 1 .. Len(arm) : IsStep(i, w, arm[n])
  BY DEF IsTodo
<1>8. \A n \in 1 .. Len(rest) : IsStep(i, w, rest[n])
  BY DEF IsTodo
<1>9. ASSUME NEW n \in 1 .. Len(r) PROVE IsStep(i, w, r[n])
  BY <1>4, <1>6, <1>7, <1>8
<1>10. ASSUME NEW n \in 1 .. Len(r), n > 1
       PROVE  r[n].kind # "elements" /\ Follows(r[n - 1].past, r[n].known)
  <2>1. CASE n \in 1 .. Len(arm)
    <3>1. n - 1 \in 1 .. Len(arm)
      BY <1>2, <1>10, <2>1
    <3>2. arm[n].kind # "elements" /\ Follows(arm[n - 1].past, arm[n].known)
      BY <1>10, <2>1 DEF IsTodo
    <3> QED BY <1>4, <2>1, <3>1, <3>2
  <2>2. CASE ~ (n \in 1 .. Len(arm)) /\ n - Len(arm) = 1
    <3>1. n - 1 = Len(arm) /\ n - 1 \in 1 .. Len(arm) /\ Len(rest) > 0
      BY <1>2, <1>6, <2>2
    <3>2. Follows(arm[Len(arm)].past, rest[1].known) /\ rest[1].kind # "elements"
      BY <1>2, <3>1
    <3>3. r[n] = rest[1] /\ r[n - 1] = arm[Len(arm)]
      BY <1>4, <1>6, <2>2, <3>1
    <3> QED BY <3>2, <3>3
  <2>3. CASE ~ (n \in 1 .. Len(arm)) /\ n - Len(arm) # 1
    <3> DEFINE m == n - Len(arm)
    <3>1. m \in 1 .. Len(rest) /\ m > 1 /\ r[n] = rest[m]
      BY <1>6, <2>3
    <3>2. n - 1 \in 1 .. Len(r) /\ ~ (n - 1 \in 1 .. Len(arm)) /\ (n - 1) - Len(arm) = m - 1
      BY <1>2, <1>3, <3>1
    <3>3. r[n - 1] = rest[m - 1]
      BY <1>6, <3>2
    <3>4. rest[m].kind # "elements" /\ Follows(rest[m - 1].past, rest[m].known)
      BY <3>1 DEF IsTodo
    <3> QED BY <3>1, <3>3, <3>4
  <2> QED BY <2>1, <2>2, <2>3
<1>11. IsTodo(i, w, r)
  BY <1>3, <1>9, <1>10 DEF IsTodo
<1>12. r # << >> /\ r[1] = arm[1]
  BY <1>2, <1>3, <1>4, HeldIs
<1>13. \A n \in 1 .. Len(r) :
         \/ \E m \in 1 .. Len(arm) : r[n] = arm[m]
         \/ \E m \in 1 .. Len(rest) : r[n] = rest[m]
  BY <1>4, <1>6
<1> QED BY <1>11, <1>12, <1>13 DEF r

(* The option a tag selects, and what comes past the union: "r" is what is *)
(* left of a body once option "k" is selected.                             *)
IsOption(i, w, todo, k, r) ==
    /\ IsTodo(i, w, r) /\ r # << >>
    /\ r[1].known = KnownPast(Start, todo[1].bits) /\ r[1].kind # "elements"
    /\ \A n \in 1 .. Len(r) : \/ r[n].kind = "field" => r[n].field = k
                              \/ \E m \in 1 .. Len(todo) : r[n] = todo[m]

LEMMA TodoOption ==
  ASSUME NEW i \in TypeIds, NEW w \in BOOLEAN, NEW todo, IsTodo(i, w, todo), todo # << >>,
         todo[1].kind = "tag", NEW k \in DOMAIN Fields[i]
  PROVE  IsOption(i, w, todo, k, todo[1].arms[k] \o Tail(todo))
<1> DEFINE arm == todo[1].arms[k]
           rest == Tail(todo)
           r == arm \o rest
<1>1. IsTag(i, w, todo[1])
  BY TodoHead, StepIs
<1>2. /\ DOMAIN todo[1].arms = DOMAIN Fields[i]
      /\ IsArm(i, w, arm, k, KnownPast(Start, todo[1].bits), todo[1].past)
  BY <1>1, TagIs DEF IsTag
<1>3. IsTodo(i, w, rest)
  BY TodoPast
<1>4. rest # << >> => Follows(todo[1].past, rest[1].known) /\ rest[1].kind # "elements"
  BY TodoPast
<1>5. \A n \in 1 .. Len(rest) : \E m \in 1 .. Len(todo) : rest[n] = todo[m]
  BY TodoPast
<1> HIDE DEF arm, rest
<1>6. /\ IsTodo(i, w, arm) /\ arm # << >>
      /\ arm[1].known = KnownPast(Start, todo[1].bits) /\ arm[1].kind # "elements"
  BY <1>2, ChainIsTodo DEF IsArm
<1>7. rest # << >> => Follows(arm[Len(arm)].past, rest[1].known)
  BY <1>2, <1>4, FollowsOn DEF IsArm
<1>8. IsTodo(i, w, r) /\ r # << >> /\ r[1] = arm[1]
  BY <1>3, <1>4, <1>6, <1>7, TodoThen
<1>9. \A n \in 1 .. Len(r) : \/ \E m \in 1 .. Len(arm) : r[n] = arm[m]
                             \/ \E m \in 1 .. Len(rest) : r[n] = rest[m]
  BY <1>3, <1>4, <1>6, <1>7, TodoThen
<1>10. \A n \in 1 .. Len(arm) : arm[n].kind = "field" => arm[n].field = k
  BY <1>2 DEF IsArm
<1> HIDE DEF r
<1>11. \A n \in 1 .. Len(r) : \/ r[n].kind = "field" => r[n].field = k
                              \/ \E m \in 1 .. Len(todo) : r[n] = todo[m]
  BY <1>5, <1>9, <1>10
<1>12. IsOption(i, w, todo, k, r)
  BY <1>6, <1>8, <1>11 DEF IsOption
<1> QED BY <1>12 DEF r, arm, rest

-----------------------------------------------------------------------------
(* Frames.                                                                 *)

FrameOK(t, w) == WellFormed(t, w) /\ Knowing(t, w)

(* "u" is "t" somewhere else in the same body.                             *)
SameBody(t, u, w) ==
    /\ IsFrame(u) /\ u.type = t.type /\ u.cap = t.cap
    /\ w => u.obj = t.obj

LEMMA PastIs ==
  ASSUME NEW u, IsFrame(u)
  PROVE  /\ IsFrame(Past(u)) /\ Past(u).todo = Tail(u.todo) /\ Past(u).loop = NoLoop
         /\ Past(u).type = u.type /\ Past(u).off = u.off /\ Past(u).err = u.err
         /\ Past(u).base = u.base /\ Past(u).cap = u.cap /\ Past(u).obj = u.obj
BY DEF IsFrame, Past, NoLoop

(* A step moved the offset to where the builder knew it would.             *)
LEMMA FramePast ==
  ASSUME NEW w \in BOOLEAN, NEW t, FrameOK(t, w), t.todo # << >>,
         NEW u, SameBody(t, u, w), u.todo = t.todo,
         u.err = Ok => u.off \in Nat /\ Knows(t.todo[1].past, u.off)
  PROVE  FrameOK(Past(u), w) /\ SameBody(t, Past(u), w)
<1> DEFINE p == Past(u)
<1>1. /\ IsFrame(p) /\ p.todo = Tail(t.todo) /\ p.loop = NoLoop
      /\ p.type = t.type /\ p.off = u.off /\ p.err = u.err /\ p.cap = t.cap
      /\ w => p.obj = t.obj
  BY PastIs DEF SameBody
<1> HIDE DEF p
<1>2. IsTodo(t.type, w, t.todo) /\ t.type \in TypeIds
  BY DEF FrameOK, WellFormed
<1> DEFINE todo == t.todo
           rest == Tail(todo)
<1> HIDE DEF todo
<1>a. IsTodo(t.type, w, todo) /\ todo # << >> /\ p.todo = rest
  BY <1>1, <1>2 DEF todo
<1>b. IsTodo(t.type, w, rest)
  BY <1>a, TodoPast
<1>c. rest # << >> => Follows(todo[1].past, rest[1].known) /\ rest[1].kind # "elements"
  BY <1>a, TodoPast
<1>d. \A n \in 1 .. Len(rest) : \E m \in 1 .. Len(todo) : rest[n] = todo[m]
  BY <1>a, TodoPast
<1> HIDE DEF rest
<1>3. IsTodo(t.type, w, p.todo)
  BY <1>a, <1>b
<1>4. p.todo # << >> => Follows(t.todo[1].past, p.todo[1].known) /\ p.todo[1].kind # "elements"
  BY <1>a, <1>c DEF todo
<1>5. \A n \in 1 .. Len(p.todo) : \E m \in 1 .. Len(t.todo) : p.todo[n] = t.todo[m]
  BY <1>a, <1>d DEF todo
<1>6. w => p.obj \in Objects(p.type) /\ OfItsOption(p)
  BY <1>1, <1>5 DEF FrameOK, WellFormed, OfItsOption
<1>7. p.loop.at \in Nat
  BY <1>1 DEF NoLoop
<1>8. LoopIsBound(p, w)
  BY <1>4 DEF LoopIsBound
<1>9. WellFormed(p, w)
  BY <1>1, <1>2, <1>3, <1>6, <1>7, <1>8 DEF WellFormed, FrameOK
<1>10. Knowing(p, w)
  BY <1>1, <1>4, KnowsWhatFollows DEF Knowing
<1> QED BY <1>1, <1>9, <1>10 DEF FrameOK, SameBody, p

(* A step of the loop over elements moved it past one.                     *)
LEMMA FrameLoops ==
  ASSUME NEW w \in BOOLEAN, NEW t, FrameOK(t, w), t.todo # << >>, t.todo[1].kind = "elements",
         NEW u, SameBody(t, u, w), u.todo = t.todo, u.loop.at = t.loop.at + 1,
         u.loop.count = t.loop.count,
         u.err = Ok => t.err = Ok /\ u.off \in Nat /\ MovesBy(t.todo[1].f, w, u.off - t.off)
  PROVE  FrameOK(u, w)
<1> DEFINE s == t.todo[1]
<1>1. IsTodo(t.type, w, t.todo) /\ t.type \in TypeIds /\ t.loop.at \in Nat /\ LoopIsBound(t, w)
  BY DEF FrameOK, WellFormed
<1>2. IsStep(t.type, w, s)
  BY <1>1, TodoHead
<1>3. IsFieldOf(s.f) /\ s.known \in Knowns
  BY <1>1, <1>2, StepIs DEF IsOfField
<1>4. u.loop.at \in Nat
  BY <1>1
<1>5. LoopIsBound(u, w)
  BY <1>1 DEF LoopIsBound, SameBody, Member
<1>6. w => u.obj \in Objects(u.type) /\ OfItsOption(u)
  BY DEF FrameOK, WellFormed, OfItsOption, SameBody
<1>7. WellFormed(u, w)
  BY <1>1, <1>4, <1>5, <1>6 DEF WellFormed, FrameOK, SameBody
<1>8. ASSUME u.err = Ok PROVE KnowsInLoop(s.known, s.f, w, u.off, u.loop.at)
  <2>1. t.off \in Nat /\ KnowsInLoop(s.known, s.f, w, t.off, t.loop.at)
    BY <1>8 DEF FrameOK, WellFormed, Knowing
  <2> DEFINE n == u.off - t.off
  <2>2. MovesBy(s.f, w, n) /\ t.off + n = u.off
    BY <1>8, <2>1
  <2> HIDE DEF n, s
  <2>3. KnowsInLoop(s.known, s.f, w, t.off + n, t.loop.at + 1)
    BY <1>1, <1>3, <2>1, <2>2, LoopGoesOn
  <2> QED BY <2>2, <2>3
<1>9. Knowing(u, w)
  BY <1>8 DEF Knowing
<1> QED BY <1>7, <1>9 DEF FrameOK

(* An array's prefix is behind, and the loop over its elements begins.     *)
LEMMA FrameStartsLoop ==
  ASSUME NEW w \in BOOLEAN, NEW t, FrameOK(t, w), t.todo # << >>, t.err = Ok,
         t.todo[1].kind = "field", IsArray(t.todo[1].f),
         NEW u, SameBody(t, u, w), u.todo = <<Elements(t.todo[1])>> \o Tail(t.todo),
         u.loop.at = 0,
         t.todo[1].f.array = "fixed" => u.loop.count = t.todo[1].f.cap,
         w /\ t.todo[1].f.array = "variable" => u.loop.count = Len(Member(t)),
         u.err = Ok => u.off = t.off + LengthPrefixBits(t.todo[1].f)
  PROVE  FrameOK(u, w)
<1> DEFINE s == t.todo[1]
<1>1. IsTodo(t.type, w, t.todo) /\ t.type \in TypeIds /\ t.off \in Nat
  BY DEF FrameOK, WellFormed
<1>2. IsStep(t.type, w, s) /\ Head(t.todo) = s
  BY <1>1, TodoHead
<1>3. IsFieldOf(s.f) /\ s.known \in Knowns /\ IsFieldStep(t.type, w, s)
  BY <1>1, <1>2, StepIs DEF IsOfField
<1>4. /\ Elements(s).known = s.known /\ Elements(s).f = s.f /\ Elements(s).field = s.field
      /\ Elements(s).kind = "elements"
  BY <1>1, <1>3, ElementsOf
<1>5. IsTodo(t.type, w, u.todo)
  BY <1>1, TodoLoops
<1>6. u.todo # << >> /\ u.todo[1] = Elements(s)
  BY <1>1, TodoLoops
<1>7. \A n \in 1 .. Len(u.todo) : n = 1 \/ \E m \in 1 .. Len(t.todo) : u.todo[n] = t.todo[m]
  BY <1>1, TodoLoops
<1>8. Head(u.todo) = u.todo[1]
  BY <1>5, <1>6, TodoHead
<1>9. LoopIsBound(u, w)
  BY <1>2, <1>4, <1>6, <1>8 DEF LoopIsBound, SameBody, Member
<1>10. w => u.obj \in Objects(u.type) /\ OfItsOption(u)
  <2>1. 1 \in 1 .. Len(t.todo)
    BY <1>1, TodoHead
  <2> QED BY <1>4, <1>6, <1>7, <2>1 DEF FrameOK, WellFormed, OfItsOption, SameBody
<1>11. LengthPrefixBits(s.f) \in Nat
  BY <1>3, FieldOf
<1>12. u.err = Ok => u.off \in Nat
  BY <1>1, <1>11
<1>13. WellFormed(u, w)
  BY <1>1, <1>5, <1>9, <1>10, <1>12 DEF WellFormed, FrameOK, SameBody
<1>14. Knows(s.known, t.off)
  BY DEF FrameOK, Knowing
<1>15. u.err = Ok => KnowsInLoop(s.known, s.f, w, u.off, 0)
  BY <1>1, <1>3, <1>14, LoopStarts
<1>16. Knowing(u, w)
  BY <1>4, <1>6, <1>15 DEF Knowing
<1> QED BY <1>13, <1>16 DEF FrameOK

(* The loop ran to its bound.                                              *)
LEMMA FrameEndsLoop ==
  ASSUME NEW w \in BOOLEAN, NEW t, FrameOK(t, w), t.todo # << >>, t.todo[1].kind = "elements",
         t.err = Ok => t.loop.at = t.loop.count
  PROVE  FrameOK(Past(t), w) /\ SameBody(t, Past(t), w)
<1> DEFINE s == t.todo[1]
<1>1. /\ IsTodo(t.type, w, t.todo) /\ t.type \in TypeIds /\ t.loop.at \in Nat /\ LoopIsBound(t, w)
      /\ IsFrame(t)
  BY DEF FrameOK, WellFormed
<1>2. IsStep(t.type, w, s)
  BY <1>1, TodoHead
<1>3. IsOfField(t.type, w, s) /\ IsFieldOf(s.f) /\ s.known \in Knowns /\ IsArray(s.f)
  BY <1>1, <1>2, StepIs DEF IsOfField
<1>4. ASSUME t.err = Ok PROVE t.off \in Nat /\ Knows(s.past, t.off)
  <2>1. t.off \in Nat /\ KnowsInLoop(s.known, s.f, w, t.off, t.loop.at)
    BY <1>4 DEF FrameOK, WellFormed, Knowing
  <2>2. s.f.array = "fixed" => t.loop.at = s.f.cap
    BY <1>1, <1>4 DEF LoopIsBound
  <2> HIDE DEF s
  <2>3. Knows(KnownPastField(s.known, s.f, w), t.off)
    BY <1>1, <1>3, <2>1, <2>2, LoopEnds
  <2> QED BY <1>3, <2>1, <2>3 DEF IsOfField
<1>5. SameBody(t, t, w)
  BY <1>1 DEF SameBody
<1> HIDE DEF s
<1> QED BY <1>4, <1>5, FramePast DEF s

(* What is of the option the object holds stays so.                        *)
LEMMA StaysOfItsOption ==
  ASSUME NEW t, OfItsOption(t), NEW u, u.type = t.type, u.obj = t.obj,
         \A n \in 1 .. Len(u.todo) :
            \/ \E m \in 1 .. Len(t.todo) : u.todo[n] = t.todo[m]
            \/ u.todo[n].kind \notin {"field", "elements"}
            \/ u.todo[n].field = TagValue(t.obj.tag, UnionTagBits(Types[t.type])) + 1
  PROVE  OfItsOption(u)
BY DEF OfItsOption

(* The tag is behind, and the option it selects comes next.                *)
LEMMA FrameSelects ==
  ASSUME NEW w \in BOOLEAN, NEW t, FrameOK(t, w), t.todo # << >>, t.todo[1].kind = "tag",
         NEW u, SameBody(t, u, w), u.loop = t.loop, NEW tag,
         w => tag = TagValue(t.obj.tag, t.todo[1].bits),
         u.todo = (IF tag + 1 \in DOMAIN t.todo[1].arms THEN t.todo[1].arms[tag + 1] ELSE << >>)
                    \o Tail(t.todo),
         u.err = Ok => /\ t.err = Ok /\ u.off = t.off + t.todo[1].bits
                       /\ tag + 1 \in DOMAIN t.todo[1].arms
  PROVE  FrameOK(u, w)
<1> DEFINE s == t.todo[1]
<1>1. IsTodo(t.type, w, t.todo) /\ t.type \in TypeIds /\ t.loop.at \in Nat /\ IsFrame(t)
  BY DEF FrameOK, WellFormed
<1>2. IsTag(t.type, w, s)
  BY <1>1, TodoHead, StepIs
<1>3. /\ IsUnion[t.type] /\ s.bits = UnionTagBits(Types[t.type]) /\ s.bits \in Nat /\ s.known = Start
      /\ DOMAIN s.arms = DOMAIN Fields[t.type]
  <2>1. IsUnion[t.type] /\ DOMAIN s.arms = DOMAIN Fields[t.type]
    BY <1>2 DEF IsTag
  <2> HIDE DEF s
  <2>2. s.bits = UnionTagBits(Types[t.type]) /\ s.bits \in Nat /\ s.known = Start
    BY <1>1, <1>2, TagIs
  <2> QED BY <2>1, <2>2
<1>4. u.err = Ok => u.off \in Nat
  BY <1>3 DEF FrameOK, WellFormed
<1> HIDE DEF s
<1>5. ASSUME tag + 1 \in DOMAIN s.arms PROVE FrameOK(u, w)
  <2> DEFINE k == tag + 1
             arm == s.arms[k]
  <2>1. u.todo = arm \o Tail(t.todo) /\ k \in DOMAIN Fields[t.type]
    BY <1>3, <1>5 DEF s
  <2> HIDE DEF k
  <2> DEFINE todo == t.todo
             r == todo[1].arms[k] \o Tail(todo)
  <2> HIDE DEF todo
  <2>a. IsTodo(t.type, w, todo) /\ todo # << >> /\ todo[1].kind = "tag" /\ u.todo = r
    BY <1>1, <2>1 DEF todo, s, arm
  <2>o. IsTodo(t.type, w, todo) /\ todo # << >> /\ todo[1].kind = "tag" /\ t.type \in TypeIds
        /\ k \in DOMAIN Fields[t.type]
    BY <1>1, <2>1, <2>a
  <2>p. IsOption(t.type, w, todo, k, r)
    BY <2>o, TodoOption
  <2> HIDE DEF r
  <2>b. IsTodo(t.type, w, r) /\ r # << >>
    BY <2>p DEF IsOption
  <2>c. r[1].known = KnownPast(Start, todo[1].bits) /\ r[1].kind # "elements"
    BY <2>p DEF IsOption
  <2>d. \A n \in 1 .. Len(r) : \/ r[n].kind = "field" => r[n].field = k
                               \/ \E m \in 1 .. Len(todo) : r[n] = todo[m]
    BY <2>p DEF IsOption
  <2>2. IsTodo(t.type, w, u.todo)
    BY <2>a, <2>b
  <2>3. u.todo # << >> /\ u.todo[1].known = KnownPast(Start, s.bits) /\ u.todo[1].kind # "elements"
    BY <2>a, <2>b, <2>c DEF s, todo
  <2>4. \A n \in 1 .. Len(u.todo) : \/ u.todo[n].kind = "field" => u.todo[n].field = k
                                    \/ \E m \in 1 .. Len(t.todo) : u.todo[n] = t.todo[m]
    BY <2>a, <2>d DEF todo
  <2>5. \A n \in 1 .. Len(u.todo) : u.todo[n].kind # "elements"
    <3>1. \A n \in 1 .. Len(u.todo) : n > 1 => u.todo[n].kind # "elements"
      BY <2>2 DEF IsTodo
    <3>2. \A n \in 1 .. Len(u.todo) : n = 1 \/ n > 1
      OBVIOUS
    <3> QED BY <2>3, <3>1, <3>2
  <2>6. w => u.obj \in Objects(u.type) /\ OfItsOption(u)
    <3>1. w => u.obj \in Objects(u.type) /\ OfItsOption(t) /\ u.obj = t.obj /\ u.type = t.type
      BY DEF FrameOK, WellFormed, SameBody
    <3>2. w => k = TagValue(t.obj.tag, UnionTagBits(Types[t.type])) + 1
      BY <1>3 DEF k, s
    <3>3. w => \A n \in 1 .. Len(u.todo) :
                 \/ \E m \in 1 .. Len(t.todo) : u.todo[n] = t.todo[m]
                 \/ u.todo[n].kind \notin {"field", "elements"}
                 \/ u.todo[n].field = TagValue(t.obj.tag, UnionTagBits(Types[t.type])) + 1
      BY <2>4, <2>5, <3>2
    <3> QED BY <3>1, <3>3, StaysOfItsOption
  <2>7. LoopIsBound(u, w)
    BY <2>3 DEF LoopIsBound
  <2>8. WellFormed(u, w)
    BY <1>1, <1>4, <2>2, <2>6, <2>7 DEF WellFormed, FrameOK, SameBody
  <2>9. ASSUME u.err = Ok PROVE Knows(KnownPast(Start, s.bits), u.off)
    <3>1. t.off \in Nat /\ Knows(Start, t.off) /\ u.off = t.off + s.bits
      BY <1>3, <2>9 DEF FrameOK, WellFormed, Knowing, s
    <3> QED BY <1>3, <3>1, KnowsStart, KnowsPast
  <2>10. Knowing(u, w)
    BY <2>3, <2>9 DEF Knowing
  <2> QED BY <2>8, <2>10 DEF FrameOK
<1>6. ASSUME ~ (tag + 1 \in DOMAIN s.arms) PROVE FrameOK(u, w)
  <2> DEFINE todo == t.todo
             rest == Tail(todo)
  <2>a. u.todo = << >> \o rest /\ u.err # Ok
    BY <1>6 DEF s
  <2> HIDE DEF todo
  <2>b. IsTodo(t.type, w, todo) /\ todo # << >>
    BY <1>1 DEF todo
  <2>c. IsTodo(t.type, w, rest)
    BY <2>b, TodoPast
  <2>d. rest # << >> => rest[1].kind # "elements"
    BY <2>b, TodoPast
  <2>e. \A n \in 1 .. Len(rest) : \E m \in 1 .. Len(todo) : rest[n] = todo[m]
    BY <2>b, TodoPast
  <2> HIDE DEF rest
  <2>1. rest \in Seq(Held(rest))
    BY <2>c DEF IsTodo
  <2>2. u.todo = rest /\ u.err # Ok
    BY <2>1, <2>a, ConcatEmptySeq
  <2>3. IsTodo(t.type, w, u.todo)
    BY <2>2, <2>c
  <2>4. u.todo # << >> => u.todo[1].kind # "elements"
    BY <2>2, <2>d
  <2>5. \A n \in 1 .. Len(u.todo) : \E m \in 1 .. Len(t.todo) : u.todo[n] = t.todo[m]
    BY <2>2, <2>e DEF todo
  <2>6. w => u.obj \in Objects(u.type) /\ OfItsOption(u)
    <3>1. w => u.obj \in Objects(u.type) /\ OfItsOption(t) /\ u.obj = t.obj
      BY DEF FrameOK, WellFormed, SameBody
    <3>2. u.type = t.type
      BY DEF SameBody
    <3> QED BY <2>5, <3>1, <3>2, StaysOfItsOption
  <2>7. LoopIsBound(u, w)
    BY <2>4 DEF LoopIsBound
  <2> QED BY <1>1, <2>2, <2>3, <2>6, <2>7 DEF FrameOK, WellFormed, SameBody, Knowing
<1> QED BY <1>5, <1>6

-----------------------------------------------------------------------------
(* The bodies the builder makes.                                           *)

PlanSteps(i) == {AlignStep} \cup {FieldStep(k) : k \in DOMAIN Fields[i]}

PlainSteps(i, w) == {StepAt(Fields[i], s, known, w) : s \in PlanSteps(i), known \in Knowns}

LEMMA StepAtIs ==
  ASSUME NEW i \in TypeIds, NEW w \in BOOLEAN, NEW s \in PlanSteps(i), NEW known \in Knowns
  PROVE  LET r == StepAt(Fields[i], s, known, w) IN
         /\ IsPlain(i, w, r) /\ r.known = known /\ r.kind = s.kind /\ r.field = s.field
<1>1. CASE s = AlignStep
  <2>1. StepAt(Fields[i], s, known, w) = AlignStepAt(known)
    BY <1>1 DEF StepAt
  <2>2. AlignStepAt(known).known = known /\ AlignStepAt(known).kind = "align" /\ AlignStepAt(known).field = 0
    BY DEF AlignStepAt
  <2>3. s.kind = "align" /\ s.field = 0
    BY <1>1 DEF AlignStep
  <2> QED BY <2>1, <2>2, <2>3 DEF IsPlain, IsAlign
<1>2. CASE s # AlignStep
  <2>1. PICK k \in DOMAIN Fields[i] : s = FieldStep(k)
    BY <1>2 DEF PlanSteps
  <2>2. s.field = k /\ s.kind = "field"
    BY <2>1 DEF FieldStep
  <2> DEFINE r == FieldStepAt(k, Fields[i][k], known, w)
  <2>3. StepAt(Fields[i], s, known, w) = r
    BY <1>2, <2>2 DEF StepAt
  <2>4. r.known = known /\ r.kind = "field" /\ r.field = k
    BY DEF FieldStepAt
  <2>5. IsFieldStep(i, w, r)
    BY <2>4 DEF IsFieldStep
  <2> HIDE DEF r
  <2> QED BY <2>2, <2>3, <2>4, <2>5 DEF IsPlain
<1> QED BY <1>1, <1>2

LEMMA PastAllIs ==
  ASSUME NEW i \in TypeIds, NEW w \in BOOLEAN, NEW body \in Seq(PlainSteps(i, w)), NEW start \in Knowns
  PROVE  PastAll(body, start) \in Knowns
<1>1. CASE body # << >>
  <2>1. Len(body) \in 1 .. Len(body)
    BY <1>1, EmptySeq
  <2>2. body[Len(body)] \in PlainSteps(i, w)
    BY <2>1, ElementOfSeq
  <2>3. PICK s \in PlanSteps(i), known \in Knowns : body[Len(body)] = StepAt(Fields[i], s, known, w)
    BY <2>2, SMT DEF PlainSteps
  <2>4. body[Len(body)].past \in Knowns
    BY <2>3, StepAtIs, PlainIs
  <2> QED BY <1>1, <2>4 DEF PastAll
<1> QED BY <1>1 DEF PastAll

LEMMA ChainStarts ==
  ASSUME NEW i, NEW w, NEW start
  PROVE  IsChain(i, w, << >>, start)
BY HeldNothing DEF IsChain

LEMMA ChainGoesOn ==
  ASSUME NEW i, NEW w, NEW body, NEW start, IsChain(i, w, body, start),
         NEW s, IsPlain(i, w, s), s.known = PastAll(body, start)
  PROVE  IsChain(i, w, Append(body, s), start)
<1> DEFINE r == Append(body, s)
<1>1. body \in Seq(Held(body)) /\ Len(body) \in Nat /\ (body # << >> <=> Len(body) > 0)
  BY HeldIs DEF IsChain
<1>2. r \in Seq(Held(r)) /\ Len(r) = Len(body) + 1 /\ r[Len(body) + 1] = s
  BY <1>1, HeldAppend
<1>3. \A n \in 1 .. Len(body) : r[n] = body[n]
  BY <1>1, HeldAppend
<1> HIDE DEF r
<1>4. ASSUME NEW n \in 1 .. Len(r)
      PROVE  IsPlain(i, w, r[n]) /\ r[n].known = IF n = 1 THEN start ELSE r[n - 1].past
  <2>1. CASE n \in 1 .. Len(body)
    <3>1. IsPlain(i, w, body[n]) /\ body[n].known = IF n = 1 THEN start ELSE body[n - 1].past
      BY <2>1 DEF IsChain
    <3>2. n # 1 => n - 1 \in 1 .. Len(body)
      BY <1>1, <2>1
    <3> QED BY <1>3, <2>1, <3>1, <3>2
  <2>2. CASE ~ (n \in 1 .. Len(body))
    <3>1. n = Len(body) + 1 /\ n - 1 = Len(body) /\ (n # 1 => n - 1 \in 1 .. Len(body))
      BY <1>1, <1>2, <2>2
    <3> QED BY <1>1, <1>2, <1>3, <3>1 DEF PastAll
  <2> QED BY <2>1, <2>2
<1> QED BY <1>2, <1>4 DEF IsChain, r

BuiltUpTo(i, w, steps, start, upTo) ==
    upTo = [n \in 0 .. Len(steps) |->
              IF n = 0 THEN << >>
              ELSE Append(upTo[n - 1],
                          StepAt(Fields[i], steps[n], PastAll(upTo[n - 1], start), w))]

LEMMA BuiltExists ==
  ASSUME NEW i \in TypeIds, NEW w \in BOOLEAN, NEW steps \in Seq(PlanSteps(i)), NEW start \in Knowns
  PROVE  \E upTo : BuiltUpTo(i, w, steps, start, upTo)
<1> DEFINE n == Len(steps)
           More(k, T) == Append(T, StepAt(Fields[i], steps[k], PastAll(T, start), w))
<1>0. PICK V : V = Seq(PlainSteps(i, w))
  OBVIOUS
<1>n. n \in Nat
  BY LenProperties
<1>1. ASSUME NEW k \in 1 .. n, NEW T \in V PROVE More(k, T) \in V
  <2>1. steps[k] \in PlanSteps(i)
    BY ElementOfSeq
  <2>2. PastAll(T, start) \in Knowns
    BY <1>0, PastAllIs
  <2>3. StepAt(Fields[i], steps[k], PastAll(T, start), w) \in PlainSteps(i, w)
    BY <2>1, <2>2 DEF PlainSteps
  <2> QED BY <1>0, <2>3, AppendProperties
<1> HIDE DEF n, More
<1>2. PICK next \in [1 .. n -> [V -> V]] : \A k \in 1 .. n : \A T \in V : next[k][T] = More(k, T)
  <2>1. [k \in 1 .. n |-> [T \in V |-> More(k, T)]] \in [1 .. n -> [V -> V]]
    BY <1>1
  <2> QED BY <2>1
<1>3. << >> \in V
  BY <1>0, EmptySeq
<1>4. PICK upTo \in [0 .. n -> V] : StepsUp(n, << >>, next, upTo)
  BY <1>n, <1>3, Recursion, Zenon
<1>5. ASSUME NEW k \in 0 .. n
      PROVE  upTo[k] = IF k = 0 THEN << >> ELSE More(k, upTo[k - 1])
  <2>1. k # 0 => k \in 1 .. n /\ k - 1 \in 0 .. n /\ upTo[k - 1] \in V
    BY <1>n
  <2> QED BY <1>2, <1>4, <2>1, SMT DEF StepsUp
<1>6. BuiltUpTo(i, w, steps, start, upTo)
  BY <1>5, Zenon DEF BuiltUpTo, n, More
<1> QED BY <1>6

LEMMA BuiltIs ==
  ASSUME NEW i \in TypeIds, NEW w \in BOOLEAN, NEW steps \in Seq(PlanSteps(i)), NEW start \in Knowns
  PROVE  LET b == Built(Fields[i], steps, start, w) IN
         /\ IsChain(i, w, b, start) /\ Len(b) = Len(steps)
         /\ \A m \in 1 .. Len(steps) : b[m].kind = steps[m].kind /\ b[m].field = steps[m].field
<1> DEFINE n == Len(steps)
           upTo == CHOOSE f : BuiltUpTo(i, w, steps, start, f)
<1>1. BuiltUpTo(i, w, steps, start, upTo)
  BY BuiltExists
<1>2. Built(Fields[i], steps, start, w) = upTo[n]
  BY Zenon DEF Built, BuiltUpTo
<1>3. n \in Nat
  BY LenProperties
<1> HIDE DEF upTo, n
<1>4. upTo[0] = << >>
  <2>1. 0 \in 0 .. n
    BY <1>3
  <2> QED BY <1>1, <2>1 DEF BuiltUpTo, n
<1>5. ASSUME NEW k \in 1 .. n
      PROVE  upTo[k] = Append(upTo[k - 1], StepAt(Fields[i], steps[k], PastAll(upTo[k - 1], start), w))
  <2>1. k \in 0 .. n /\ k # 0
    BY <1>3
  <2> QED BY <1>1, <2>1, Zenon DEF BuiltUpTo, n
<1> DEFINE Good(k) == /\ upTo[k] \in Seq(PlainSteps(i, w)) /\ IsChain(i, w, upTo[k], start)
                      /\ Len(upTo[k]) = k
                      /\ \A m \in 1 .. k : /\ upTo[k][m].kind = steps[m].kind
                                           /\ upTo[k][m].field = steps[m].field
           N == {k \in Nat : k <= n => Good(k)}
<1>6. Good(0)
  BY <1>4, ChainStarts, HeldNothing, EmptySeq
<1>7. ASSUME NEW k \in Nat, k + 1 <= n, Good(k) PROVE Good(k + 1)
  <2> DEFINE b == upTo[k]
             known == PastAll(b, start)
             s == StepAt(Fields[i], steps[k + 1], known, w)
             r == upTo[k + 1]
  <2>1. k + 1 \in 1 .. n /\ (k + 1) - 1 = k
    BY <1>3, <1>7
  <2>2. r = Append(b, s)
    BY <1>5, <2>1
  <2>3. steps[k + 1] \in PlanSteps(i)
    BY <2>1, ElementOfSeq DEF n
  <2>4. known \in Knowns
    BY <1>7, PastAllIs
  <2>5. IsPlain(i, w, s) /\ s.known = known /\ s.kind = steps[k + 1].kind /\ s.field = steps[k + 1].field
    BY <2>3, <2>4, StepAtIs
  <2>6. s \in PlainSteps(i, w)
    BY <2>3, <2>4 DEF PlainSteps
  <2>7. b \in Seq(PlainSteps(i, w)) /\ IsChain(i, w, b, start) /\ Len(b) = k
        /\ \A m \in 1 .. k : b[m].kind = steps[m].kind /\ b[m].field = steps[m].field
    BY <1>7
  <2>8. s.known = PastAll(b, start)
    BY <2>5
  <2> HIDE DEF s, b, r, known
  <2>9. /\ r \in Seq(PlainSteps(i, w)) /\ Len(r) = k + 1 /\ r[k + 1] = s
        /\ \A m \in 1 .. k : r[m] = b[m]
    BY <2>2, <2>6, <2>7, AppendProperties
  <2>10. IsChain(i, w, r, start)
    BY <2>2, <2>5, <2>7, <2>8, ChainGoesOn
  <2>11. \A m \in 1 .. (k + 1) : r[m].kind = steps[m].kind /\ r[m].field = steps[m].field
    <3>1. \A m \in 1 .. (k + 1) : m \in 1 .. k \/ m = k + 1
      OBVIOUS
    <3> QED BY <2>5, <2>7, <2>9, <3>1
  <2> QED BY <2>9, <2>10, <2>11 DEF r
<1> HIDE DEF Good
<1>8. ASSUME NEW k \in Nat, k \in N PROVE k + 1 \in N
  BY <1>3, <1>7, <1>8
<1>9. 0 \in N
  BY <1>6
<1> HIDE DEF N
<1>10. n \in N
  BY <1>3, <1>8, <1>9, Induction
<1>11. Good(n)
  BY <1>3, <1>10 DEF N
<1> QED BY <1>2, <1>11 DEF Good, n

LEMMA FieldStepsAre ==
  ASSUME NEW i \in TypeIds, NEW k \in DOMAIN Fields[i]
  PROVE  LET s == FieldSteps(Fields[i][k], k) IN
         /\ s \in Seq(PlanSteps(i))
         /\ \A n \in 1 .. Len(s) : s[n].kind = "field" => s[n].field = k
         /\ Fields[i][k].cat # "void" => s # << >>
<1> DEFINE f == Fields[i][k]
           first == IF AlignmentOf(f) > 1 THEN <<AlignStep>> ELSE << >>
           then == IF f.cat = "void" /\ f.bits = 0 THEN << >> ELSE <<FieldStep(k)>>
<1>1. /\ first \in Seq(PlanSteps(i)) /\ Len(first) \in {0, 1}
      /\ \A n \in 1 .. Len(first) : first[n].kind # "field"
  <2>1. AlignStep \in PlanSteps(i) /\ AlignStep.kind = "align"
    BY DEF PlanSteps, AlignStep
  <2>2. <<AlignStep>> \in Seq(PlanSteps(i)) /\ Len(<<AlignStep>>) = 1 /\ <<AlignStep>>[1] = AlignStep
    BY <2>1
  <2>3. << >> \in Seq(PlanSteps(i)) /\ Len(<< >>) = 0
    BY EmptySeq
  <2> QED BY <2>1, <2>2, <2>3
<1>2. /\ then \in Seq(PlanSteps(i)) /\ Len(then) \in {0, 1}
      /\ \A n \in 1 .. Len(then) : then[n].field = k
      /\ f.cat # "void" => Len(then) = 1
  <2>1. FieldStep(k) \in PlanSteps(i) /\ FieldStep(k).field = k
    BY DEF PlanSteps, FieldStep
  <2>2. <<FieldStep(k)>> \in Seq(PlanSteps(i)) /\ Len(<<FieldStep(k)>>) = 1 /\ <<FieldStep(k)>>[1] = FieldStep(k)
    BY <2>1
  <2>3. << >> \in Seq(PlanSteps(i)) /\ Len(<< >>) = 0
    BY EmptySeq
  <2> QED BY <2>1, <2>2, <2>3
<1> DEFINE s == first \o then
<1>3. FieldSteps(f, k) = s
  BY Zenon DEF FieldSteps
<1> HIDE DEF first, then, f
<1>4. /\ s \in Seq(PlanSteps(i)) /\ Len(s) = Len(first) + Len(then)
      /\ \A n \in 1 .. Len(first) + Len(then) :
           s[n] = IF n <= Len(first) THEN first[n] ELSE then[n - Len(first)]
  BY <1>1, <1>2, ConcatProperties
<1> HIDE DEF s
<1>5. ASSUME NEW n \in 1 .. Len(s), s[n].kind = "field" PROVE s[n].field = k
  <2>1. CASE n <= Len(first)
    BY <1>1, <1>4, <1>5, <2>1
  <2>2. CASE ~ (n <= Len(first))
    <3>1. n - Len(first) \in 1 .. Len(then)
      BY <1>1, <1>2, <1>4, <2>2
    <3> QED BY <1>2, <1>4, <2>2, <3>1
  <2> QED BY <2>1, <2>2
<1>6. f.cat # "void" => s # << >>
  <2>1. f.cat # "void" => Len(s) # 0
    BY <1>1, <1>2, <1>4
  <2> QED BY <2>1, EmptySeq
<1> QED BY <1>3, <1>4, <1>5, <1>6 DEF f

(* The steps of a structure: StepsOf unfolds as it is defined.             *)
FromUpTo(fields, from) ==
    from = [k \in 1 .. (Len(fields) + 1) |->
              IF k > Len(fields) THEN << >> ELSE FieldSteps(fields[k], k) \o from[k + 1]]

LEMMA FromExists ==
  ASSUME NEW i \in TypeIds
  PROVE  \E from : FromUpTo(Fields[i], from) /\ from[1] \in Seq(PlanSteps(i))
<1> DEFINE n == Len(Fields[i])
           More(k, T) == FieldSteps(Fields[i][k + 1], k + 1) \o T
<1>0. PICK V : V = Seq(PlanSteps(i))
  OBVIOUS
<1>n. n \in Nat /\ DOMAIN Fields[i] = 1 .. n
  BY Definitions
<1>1. ASSUME NEW k \in 0 .. (n - 1), NEW T \in V PROVE More(k, T) \in V
  <2>1. k + 1 \in DOMAIN Fields[i]
    BY <1>n
  <2>2. FieldSteps(Fields[i][k + 1], k + 1) \in Seq(PlanSteps(i))
    BY <2>1, FieldStepsAre
  <2> QED BY <1>0, <2>2, ConcatProperties
<1> HIDE DEF n, More
<1>2. PICK next \in [0 .. (n - 1) -> [V -> V]] : \A k \in 0 .. (n - 1) : \A T \in V : next[k][T] = More(k, T)
  <2>1. [k \in 0 .. (n - 1) |-> [T \in V |-> More(k, T)]] \in [0 .. (n - 1) -> [V -> V]]
    BY <1>1
  <2> QED BY <2>1
<1>3. << >> \in V
  BY <1>0, EmptySeq
<1>4. PICK down \in [0 .. n -> V] : StepsDown(n, << >>, next, down)
  BY <1>n, <1>3, RecursionDown, Zenon
<1> DEFINE from == [k \in 1 .. (n + 1) |-> down[k - 1]]
<1>5. ASSUME NEW k \in 1 .. (n + 1)
      PROVE  from[k] = IF k > n THEN << >> ELSE FieldSteps(Fields[i][k], k) \o from[k + 1]
  <2>1. CASE k > n
    <3>1. k - 1 = n
      BY <1>n, <2>1
    <3> QED BY <1>4, <2>1, <3>1 DEF StepsDown
  <2>2. CASE ~ (k > n)
    <3>1. /\ k - 1 \in 0 .. (n - 1) /\ (k - 1) + 1 = k /\ k \in 0 .. n
          /\ k + 1 \in 1 .. (n + 1) /\ (k + 1) - 1 = k
      BY <1>n, <2>2
    <3>2. down[k - 1] = next[k - 1][down[(k - 1) + 1]] /\ down[k] \in V
      BY <1>4, <3>1 DEF StepsDown
    <3>3. down[k - 1] = More(k - 1, down[k])
      BY <1>2, <3>1, <3>2
    <3>4. from[k] = down[k - 1] /\ from[k + 1] = down[k]
      BY <3>1
    <3> HIDE DEF from
    <3> QED BY <2>2, <3>1, <3>3, <3>4 DEF More
  <2> QED BY <2>1, <2>2
<1>6. from = [k \in 1 .. (n + 1) |-> from[k]]
  OBVIOUS
<1>7. from[1] \in Seq(PlanSteps(i))
  <2>1. 1 \in 1 .. (n + 1) /\ 1 - 1 \in 0 .. n
    BY <1>n
  <2> QED BY <1>0, <1>4, <2>1
<1> HIDE DEF from
<1>8. FromUpTo(Fields[i], from)
  BY <1>5, <1>6, Zenon DEF FromUpTo, n
<1> QED BY <1>7, <1>8

LEMMA FromIsOne ==
  ASSUME NEW i \in TypeIds, NEW f, NEW g, FromUpTo(Fields[i], f), FromUpTo(Fields[i], g)
  PROVE  f[1] = g[1]
<1> DEFINE n == Len(Fields[i])
           S == {m \in Nat : m <= n => f[(n + 1) - m] = g[(n + 1) - m]}
<1>n. n \in Nat
  BY Definitions
<1>1. \A k \in 1 .. (n + 1) : f[k] = IF k > n THEN << >> ELSE FieldSteps(Fields[i][k], k) \o f[k + 1]
  BY Zenon DEF FromUpTo
<1>2. \A k \in 1 .. (n + 1) : g[k] = IF k > n THEN << >> ELSE FieldSteps(Fields[i][k], k) \o g[k + 1]
  BY Zenon DEF FromUpTo
<1> HIDE DEF n
<1>3. 0 \in S
  <2>1. (n + 1) - 0 \in 1 .. (n + 1) /\ (n + 1) - 0 > n
    BY <1>n
  <2> QED BY <1>1, <1>2, <2>1
<1>4. ASSUME NEW m \in Nat, m \in S PROVE m + 1 \in S
  <2> SUFFICES ASSUME m + 1 <= n PROVE f[(n + 1) - (m + 1)] = g[(n + 1) - (m + 1)]
    OBVIOUS
  <2> DEFINE k == (n + 1) - (m + 1)
  <2>1. k \in 1 .. (n + 1) /\ ~ (k > n) /\ k + 1 = (n + 1) - m
    BY <1>n
  <2>2. f[k + 1] = g[k + 1]
    BY <1>4, <1>n, <2>1
  <2> HIDE DEF k
  <2>3. f[k] = FieldSteps(Fields[i][k], k) \o f[k + 1]
    BY <1>1, <2>1
  <2>4. g[k] = FieldSteps(Fields[i][k], k) \o g[k + 1]
    BY <1>2, <2>1
  <2> QED BY <2>2, <2>3, <2>4 DEF k
<1> HIDE DEF S
<1>5. n \in S
  BY <1>3, <1>4, <1>n, Induction
<1>6. (n + 1) - n = 1
  BY <1>n
<1> QED BY <1>5, <1>6, <1>n DEF S

LEMMA StepsAre ==
  ASSUME NEW i \in TypeIds, ~IsUnion[i]
  PROVE  Steps[i] \in Seq(PlanSteps(i))
<1> DEFINE from == CHOOSE f : FromUpTo(Fields[i], f)
<1>1. PICK f : FromUpTo(Fields[i], f) /\ f[1] \in Seq(PlanSteps(i))
  BY FromExists
<1>2. FromUpTo(Fields[i], from)
  BY <1>1
<1>3. Steps[i] = from[1]
  <2>1. ~ Types[i].union /\ Types[i].fields = Fields[i]
    BY Definitions
  <2>2. Steps[i] = StepsOf(Types[i])
    BY DEF Steps
  <2> QED BY <2>1, <2>2, Zenon DEF StepsOf, FromUpTo
<1> HIDE DEF from
<1>4. from[1] = f[1]
  BY <1>1, <1>2, FromIsOne
<1> QED BY <1>1, <1>3, <1>4

(* Where the options agree, the union ends where each of them does.        *)
LEMMA MeetIs ==
  ASSUME NEW m \in Nat, m > 0, NEW r, \A k \in 1 .. m : r[k] \in Int
  PROVE  LET R == {r[k] : k \in 1 .. m} IN
         /\ Meet(R) \in Int
         /\ Meet(R) # Unknown => \A k \in 1 .. m : r[k] = Meet(R)
<1> DEFINE R == {r[k] : k \in 1 .. m}
<1>1. CASE Cardinality(R) = 1
  <2>1. IsFiniteSet(1 .. m)
    BY FS_Interval
  <2>2. IsFiniteSet(R)
    <3> DEFINE h == [k \in 1 .. m |-> r[k]]
    <3>1. R = {h[k] : k \in 1 .. m}
      OBVIOUS
    <3>2. h \in Surjection(1 .. m, R)
      BY DEF Surjection
    <3> HIDE DEF h, R
    <3> QED BY <2>1, <3>2, FS_Surjection
  <2>3. PICK x : R = {x}
    <3> HIDE DEF R
    <3> QED BY <1>1, <2>2, FS_Singleton
  <2>4. \A k \in 1 .. m : r[k] = x
    BY <2>3
  <2>5. 1 \in 1 .. m
    OBVIOUS
  <2>6. x \in Int
    BY <2>4, <2>5
  <2>7. Meet(R) = x
    <3>1. Meet(R) = CHOOSE y \in R : TRUE
      BY <1>1 DEF Meet
    <3> HIDE DEF R
    <3>2. (CHOOSE y \in R : TRUE) \in R
      BY <2>3
    <3> QED BY <2>3, <3>1, <3>2
  <2> QED BY <2>4, <2>6, <2>7
<1>2. CASE Cardinality(R) # 1
  BY <1>2 DEF Meet, Unknown
<1> QED BY <1>1, <1>2

LEMMA UnionStepIs ==
  ASSUME NEW i \in TypeIds, IsUnion[i], NEW w \in BOOLEAN
  PROVE  IsTag(i, w, UnionStep(Fields[i], UnionTagBits(Types[i]), w))
<1> DEFINE width == UnionTagBits(Types[i])
           start == KnownPast(Start, width)
           n == Len(Fields[i])
           arms == [k \in DOMAIN Fields[i] |-> Built(Fields[i], FieldSteps(Fields[i][k], k), start, w)]
           tag == TagStepAt(width, arms)
<1>1. /\ width \in Nat /\ n \in Nat /\ n > 0 /\ DOMAIN Fields[i] = 1 .. n
      /\ \A k \in DOMAIN Fields[i] : Fields[i][k].cat # "void"
  <2>1. Accepted(i)
    BY AllAccepted
  <2> QED BY <2>1, TagBits, Definitions DEF Accepted
<1>2. start \in Knowns
  BY <1>1, KnowsStart, KnowsPast
<1>3. UnionStep(Fields[i], width, w) = tag
  BY DEF UnionStep
<1> HIDE DEF start, width
<1>4. ASSUME NEW k \in DOMAIN Fields[i]
      PROVE  /\ IsChain(i, w, arms[k], start) /\ arms[k] # << >>
             /\ \A m \in 1 .. Len(arms[k]) : arms[k][m].kind = "field" => arms[k][m].field = k
             /\ arms[k][Len(arms[k])].past \in Knowns
  <2> DEFINE s == FieldSteps(Fields[i][k], k)
             b == Built(Fields[i], s, start, w)
  <2>1. arms[k] = b
    OBVIOUS
  <2>2. s \in Seq(PlanSteps(i)) /\ \A m \in 1 .. Len(s) : s[m].kind = "field" => s[m].field = k
    BY FieldStepsAre
  <2>3. Len(s) > 0
    <3>1. s # << >>
      BY <1>1, FieldStepsAre
    <3> HIDE DEF s
    <3> QED BY <2>2, <3>1, EmptySeq
  <2> HIDE DEF s
  <2>4. /\ IsChain(i, w, b, start) /\ Len(b) = Len(s)
        /\ \A m \in 1 .. Len(s) : b[m].kind = s[m].kind /\ b[m].field = s[m].field
    BY <1>2, <2>2, BuiltIs
  <2> HIDE DEF b, arms
  <2>5. b # << >> /\ Len(b) \in 1 .. Len(b)
    BY <2>3, <2>4, HeldIs DEF IsChain
  <2>6. b[Len(b)].past \in Knowns
    BY <2>4, <2>5, PlainIs DEF IsChain
  <2> QED BY <2>1, <2>2, <2>4, <2>5, <2>6
<1> DEFINE r == [k \in 1 .. n |-> arms[k][Len(arms[k])].past.residue]
           R == {r[k] : k \in 1 .. n}
<1>5. \A k \in 1 .. n : r[k] \in Int
  BY <1>1, <1>4 DEF Knowns
<1>6. {arms[k][Len(arms[k])].past.residue : k \in DOMAIN arms} = R
  BY <1>1
<1>7. /\ tag.kind = "tag" /\ tag.past = [bits |-> Unknown, residue |-> Meet(R)]
      /\ tag.arms = arms
      /\ tag = [kind |-> "tag", field |-> 0, f |-> NoField, arms |-> tag.arms, bits |-> width,
                known |-> Start, past |-> tag.past]
  BY <1>6 DEF TagStepAt
<1>8. DOMAIN arms = DOMAIN Fields[i]
  OBVIOUS
<1>9. \A k \in 1 .. n : r[k] = arms[k][Len(arms[k])].past.residue
  OBVIOUS
<1> HIDE DEF r, arms, tag
<1>10. Meet(R) \in Int /\ (Meet(R) # Unknown => \A k \in 1 .. n : r[k] = Meet(R))
  BY <1>1, <1>5, MeetIs
<1> HIDE DEF R
<1>11. tag.past \in Knowns
  BY <1>7, <1>10 DEF Knowns, Unknown
<1>12. ASSUME NEW k \in DOMAIN Fields[i]
       PROVE  IsArm(i, w, arms[k], k, start, tag.past)
  <2>1. Follows(arms[k][Len(arms[k])].past, tag.past)
    BY <1>1, <1>7, <1>9, <1>10 DEF Follows
  <2> QED BY <1>4, <2>1 DEF IsArm
<1> QED BY <1>3, <1>7, <1>8, <1>11, <1>12 DEF IsTag, start, width

(* What a body is, whatever makes it.                                      *)
IsBody(i, w, body) ==
    /\ IsTodo(i, w, body)
    /\ body # << >> => body[1].known = Start /\ body[1].kind # "elements"
    /\ IsUnion[i] => \A n \in 1 .. Len(body) : body[n].kind \notin {"field", "elements"}

LEMMA OneStepIsBody ==
  ASSUME NEW i, NEW w, NEW s, IsStep(i, w, s), s.known = Start,
         s.kind \notin {"field", "elements"}
  PROVE  IsBody(i, w, <<s>>)
<1> DEFINE b == <<s>>
<1>1. b \in Seq(Held(b)) /\ Len(b) = 1 /\ b[1] = s
  BY HeldOne
<1> HIDE DEF b
<1>2. \A n \in 1 .. Len(b) : n = 1
  BY <1>1
<1> QED BY <1>1, <1>2 DEF IsBody, IsTodo, b

LEMMA BodyOfIs ==
  ASSUME NEW i \in TypeIds, NEW w \in BOOLEAN
  PROVE  IsBody(i, w, BodyOf(Types[i], Steps[i], w))
<1> DEFINE tag == UnionStep(Fields[i], UnionTagBits(Types[i]), w)
           plain == Built(Fields[i], Steps[i], Start, w)
           all == IF IsUnion[i] THEN <<tag>> ELSE plain
           end == AlignStepAt(PastAll(all, Start))
<1>1. BodyOf(Types[i], Steps[i], w) = IF w THEN Append(all, end) ELSE all
  BY Definitions, Zenon DEF BodyOf, Ended
<1>2. ASSUME IsUnion[i] PROVE IsBody(i, w, all) /\ PastAll(all, Start) \in Knowns
  <2>1. IsTag(i, w, tag)
    BY <1>2, UnionStepIs
  <2>2. IsStep(i, w, tag) /\ tag.known = Start /\ tag.kind = "tag" /\ tag.past \in Knowns
    BY <2>1, TagIs DEF IsStep
  <2> HIDE DEF tag
  <2>3. <<tag>> # << >> /\ Len(<<tag>>) = 1 /\ <<tag>>[1] = tag
    BY HeldOne
  <2>4. PastAll(<<tag>>, Start) = tag.past
    BY <2>3 DEF PastAll
  <2> QED BY <1>2, <2>2, <2>4, OneStepIsBody
<1>3. ASSUME ~IsUnion[i] PROVE IsBody(i, w, all) /\ PastAll(all, Start) \in Knowns
  <2>1. IsChain(i, w, plain, Start)
    BY <1>3, StepsAre, BuiltIs, KnowsStart
  <2> HIDE DEF plain
  <2>2. IsTodo(i, w, plain) /\ (plain # << >> => plain[1].known = Start /\ plain[1].kind # "elements")
    BY <2>1, ChainIsTodo
  <2>3. plain # << >> => Len(plain) \in 1 .. Len(plain)
    BY <2>2, HeldIs DEF IsTodo
  <2>4. plain # << >> => plain[Len(plain)].past \in Knowns
    BY <2>1, <2>3, PlainIs DEF IsChain
  <2>5. PastAll(plain, Start) \in Knowns
    BY <2>4, KnowsStart DEF PastAll
  <2> QED BY <1>3, <2>2, <2>5 DEF IsBody
<1>4. IsBody(i, w, all) /\ PastAll(all, Start) \in Knowns
  BY <1>2, <1>3
<1>5. IsBody(i, w, Append(all, end))
  <2> HIDE DEF all
  <2>1. IsAlign(end) /\ end.known = PastAll(all, Start) /\ end.kind = "align"
    BY <1>4 DEF AlignStepAt, IsAlign
  <2> DEFINE r == Append(all, end)
  <2> HIDE DEF end
  <2>2. all \in Seq(Held(all)) /\ IsTodo(i, w, all)
    BY <1>4 DEF IsBody, IsTodo
  <2>3. Len(all) \in Nat /\ (all # << >> <=> Len(all) > 0)
    BY <2>2, HeldIs
  <2>4. /\ r \in Seq(Held(r)) /\ Len(r) = Len(all) + 1 /\ r[Len(all) + 1] = end
        /\ \A n \in 1 .. Len(all) : r[n] = all[n]
    BY <2>2, HeldAppend
  <2> HIDE DEF r
  <2>5. IsStep(i, w, end)
    BY <2>1 DEF IsStep, IsPlain
  <2>6. ASSUME NEW n \in 1 .. Len(r)
        PROVE  /\ IsStep(i, w, r[n])
               /\ n > 1 => r[n].kind # "elements" /\ Follows(r[n - 1].past, r[n].known)
    <3>1. CASE n \in 1 .. Len(all)
      <4>1. n > 1 => n - 1 \in 1 .. Len(all)
        BY <2>3, <3>1
      <4> QED BY <2>2, <2>4, <3>1, <4>1 DEF IsTodo
    <3>2. CASE ~ (n \in 1 .. Len(all))
      <4>1. n = Len(all) + 1 /\ (n > 1 => n - 1 = Len(all) /\ n - 1 \in 1 .. Len(all))
        BY <2>3, <2>4, <3>2
      <4>2. n > 1 => end.known = r[n - 1].past
        BY <2>1, <2>3, <2>4, <4>1 DEF PastAll
      <4> QED BY <2>1, <2>4, <2>5, <4>1, <4>2, FollowsItself
    <3> QED BY <3>1, <3>2
  <2>7. IsTodo(i, w, r)
    BY <2>4, <2>6 DEF IsTodo
  <2>8. r[1].known = Start /\ r[1].kind # "elements"
    <3>1. CASE all # << >>
      <4>1. 1 \in 1 .. Len(all)
        BY <2>3, <3>1
      <4> QED BY <1>4, <2>4, <3>1, <4>1 DEF IsBody
    <3>2. CASE all = << >>
      <4>1. r[1] = end
        BY <2>3, <2>4, <3>2
      <4> QED BY <2>1, <3>2, <4>1 DEF PastAll
    <3> QED BY <3>1, <3>2
  <2>9. IsUnion[i] => \A n \in 1 .. Len(r) : r[n].kind \notin {"field", "elements"}
    <3>1. \A n \in 1 .. Len(r) : n \in 1 .. Len(all) \/ n = Len(all) + 1
      BY <2>3, <2>4
    <3> QED BY <1>4, <2>1, <2>4, <3>1 DEF IsBody
  <2> QED BY <2>7, <2>8, <2>9 DEF IsBody, r
<1> QED BY <1>1, <1>4, <1>5

(* Whatever body runs, it starts from what is known at its start.          *)
LEMMA BodiesAre ==
  ASSUME NEW i \in TypeIds, NEW w \in BOOLEAN, NEW body \in Bodies[i][w]
  PROVE  IsBody(i, w, body)
<1>1. body \in BodiesFor(BodyOf(Types[i], Steps[i], w), MaxBits[i], ImageScalars[i])
  BY DEF Bodies
<1>2. \/ body = BodyOf(Types[i], Steps[i], w)
      \/ ImageScalars[i] # {} /\ body = Moved(MaxBits[i], ImageScalars[i])
  BY <1>1, Zenon DEF BodiesFor
<1>3. ASSUME ImageScalars[i] # {} PROVE IsBody(i, w, Moved(MaxBits[i], ImageScalars[i]))
  <2>1. PICK scalars : scalars = ImageScalars[i]
    OBVIOUS
  <2> DEFINE s == [kind |-> "move", scalars |-> scalars, bits |-> MaxBits[i],
                   known |-> Start, past |-> KnownPast(Start, MaxBits[i])]
  <2>2. Moved(MaxBits[i], scalars) = <<s>>
    BY DEF Moved
  <2>3. s.kind = "move" /\ s.known = Start
    OBVIOUS
  <2>4. <<s>>[1] = s
    OBVIOUS
  <2> HIDE DEF s
  <2>5. IsMove(i, s)
    BY <1>3, <2>1, <2>2, <2>3, <2>4, Zenon DEF IsMove
  <2>6. IsBody(i, w, <<s>>)
    BY <2>3, <2>5, OneStepIsBody DEF IsStep
  <2> QED BY <2>1, <2>2, <2>6
<1> QED BY <1>2, <1>3, BodyOfIs

-----------------------------------------------------------------------------
(* What is read from the wire is a number.                                 *)

NumberUpTo(got, n, from) ==
    from = [k \in 0 .. n |-> IF k = n THEN 0 ELSE (IF k \in got THEN 1 ELSE 0) + 2 * from[k + 1]]

LEMMA NumberExists ==
  ASSUME NEW got, NEW n \in Nat
  PROVE  \E from : NumberUpTo(got, n, from)
<1> DEFINE More(k, T) == (IF k \in got THEN 1 ELSE 0) + 2 * T
<1>0. PICK V : V = Nat
  OBVIOUS
<1>1. ASSUME NEW k \in 0 .. (n - 1), NEW T \in V PROVE More(k, T) \in V
  BY <1>0
<1>2. ASSUME NEW k \in 0 .. n, NEW T PROVE More(k, T) = (IF k \in got THEN 1 ELSE 0) + 2 * T
  OBVIOUS
<1> HIDE DEF More
<1>3. PICK next \in [0 .. (n - 1) -> [V -> V]] : \A k \in 0 .. (n - 1) : \A T \in V : next[k][T] = More(k, T)
  <2>1. [k \in 0 .. (n - 1) |-> [T \in V |-> More(k, T)]] \in [0 .. (n - 1) -> [V -> V]]
    BY <1>1
  <2> QED BY <2>1
<1>4. 0 \in V
  BY <1>0
<1>5. PICK from \in [0 .. n -> V] : StepsDown(n, 0, next, from)
  BY <1>4, RecursionDown, Zenon
<1>6. ASSUME NEW k \in 0 .. n
      PROVE  from[k] = IF k = n THEN 0 ELSE More(k, from[k + 1])
  <2>1. k # n => k \in 0 .. (n - 1) /\ k + 1 \in 0 .. n /\ from[k + 1] \in V
    OBVIOUS
  <2> QED BY <1>3, <1>5, <2>1, SMT DEF StepsDown
<1>7. NumberUpTo(got, n, from)
  BY <1>6, Zenon DEF NumberUpTo, More
<1> QED BY <1>7

LEMMA BitsAtIs ==
  ASSUME NEW bits, NEW at, NEW n \in Nat, NEW end
  PROVE  BitsAt(bits, at, n, end) \in Nat
<1>1. PICK got : got = CopyBits({}, 0, Saturated(at, n, end), bits, at)
  OBVIOUS
<1> DEFINE from == CHOOSE f : NumberUpTo(got, n, f)
<1>2. NumberUpTo(got, n, from)
  BY NumberExists
<1>3. BitsAt(bits, at, n, end) = from[0]
  BY <1>1, Zenon DEF BitsAt, NumberUpTo
<1> HIDE DEF from
<1>4. from[n] \in Nat
  BY <1>2 DEF NumberUpTo
<1>5. ASSUME NEW k \in 0 .. (n - 1), from[k + 1] \in Nat PROVE from[k] \in Nat
  <2>1. k \in 0 .. n /\ k # n
    OBVIOUS
  <2>2. from[k] = (IF k \in got THEN 1 ELSE 0) + 2 * from[k + 1]
    BY <1>2, <2>1, Zenon DEF NumberUpTo
  <2> QED BY <1>5, <2>2
<1>6. PICK V : V = Nat
  OBVIOUS
<1>7. \A k \in 0 .. n : from[k] \in V
  BY <1>4, <1>5, <1>6, StaysDown
<1> QED BY <1>3, <1>6, <1>7

-----------------------------------------------------------------------------
(* The object a writer reads.                                              *)

(* The value a step is about is one its field may have.                    *)
LEMMA MemberIs ==
  ASSUME NEW t, WellFormed(t, TRUE), t.todo # << >>, t.todo[1].kind \in {"field", "elements"}
  PROVE  IsValue(t.todo[1].f, Member(t))
<1> DEFINE s == t.todo[1]
<1>1. /\ t.type \in TypeIds /\ t.obj \in Objects(t.type) /\ OfItsOption(t)
      /\ IsTodo(t.type, TRUE, t.todo)
  BY DEF WellFormed
<1>2. IsStep(t.type, TRUE, s) /\ Head(t.todo) = s /\ 1 \in 1 .. Len(t.todo)
  BY <1>1, TodoHead
<1>3. s.field \in DOMAIN Fields[t.type] /\ s.f = Fields[t.type][s.field]
  BY <1>1, <1>2, StepIs DEF IsOfField
<1>4. IsObject(t.type, t.obj)
  BY <1>1, PlanConstants
<1> HIDE DEF s
<1>5. CASE IsUnion[t.type]
  <2>1. s.field = TagValue(t.obj.tag, UnionTagBits(Types[t.type])) + 1
    BY <1>1, <1>2, <1>5 DEF OfItsOption, s
  <2>2. IsValue(Fields[t.type][s.field], t.obj.value)
    BY <1>3, <1>4, <1>5, <2>1 DEF IsObject
  <2> QED BY <1>3, <1>5, <2>2 DEF Member, s
<1>6. CASE ~IsUnion[t.type]
  <2>1. IsValue(Fields[t.type][s.field], t.obj[s.field])
    BY <1>3, <1>4, <1>6 DEF IsObject
  <2> QED BY <1>2, <1>3, <1>6, <2>1 DEF Member, s
<1> QED BY <1>5, <1>6

(* The object a nested body is given is one of its definition.             *)
LEMMA ElementIs ==
  ASSUME NEW t, WellFormed(t, TRUE), t.todo # << >>, IsComposite(t.todo[1].f),
         \/ t.todo[1].kind = "field" /\ ~IsArray(t.todo[1].f)
         \/ t.todo[1].kind = "elements" /\ t.loop.at < t.loop.count
  PROVE  Element(t, t.todo[1].f) \in Objects(t.todo[1].f.ref)
<1> DEFINE s == t.todo[1]
           f == s.f
<1>1. IsValue(f, Member(t))
  BY MemberIs
<1>2. IsTodo(t.type, TRUE, t.todo) /\ t.loop.at \in Nat /\ LoopIsBound(t, TRUE) /\ t.type \in TypeIds
  BY DEF WellFormed
<1>3. s.kind \in {"field", "elements"} /\ IsStep(t.type, TRUE, s)
  BY <1>2, TodoHead
<1>4. IsField(f) /\ (s.kind = "elements" => IsArray(f))
  BY <1>2, <1>3, StepIs, FieldOf DEF IsOfField
<1>5. s.kind = "elements" => /\ f.array = "fixed" => t.loop.count = f.cap
                             /\ f.array = "variable" => t.loop.count = Len(Member(t))
  BY DEF LoopIsBound, WellFormed
<1> HIDE DEF f, s
<1>6. CASE f.array = "none"
  BY <1>1, <1>6 DEF IsValue, Element, IsArray, f, s
<1>7. CASE f.array = "fixed"
  <2>1. t.loop.at + 1 \in 1 .. f.cap
    BY <1>2, <1>4, <1>5, <1>7 DEF IsField, IsArray, f, s
  <2> QED BY <1>1, <1>7, <2>1 DEF IsValue, Element, IsArray, f, s
<1>8. CASE f.array = "variable"
  <2>1. IsSequence(Member(t))
    BY <1>1, <1>8 DEF IsValue
  <2>2. t.loop.at + 1 \in DOMAIN Member(t)
    BY <1>2, <1>4, <1>5, <1>8, <2>1 DEF IsSequence, IsArray, f, s
  <2> QED BY <1>1, <1>8, <2>2 DEF IsValue, Element, IsArray, f, s
<1> QED BY <1>4, <1>6, <1>7, <1>8 DEF IsField

-----------------------------------------------------------------------------
(* The frames on the stack.                                                *)

LEMMA FrameStarts ==
  ASSUME NEW i \in TypeIds, NEW w \in BOOLEAN, NEW body \in Bodies[i][w],
         NEW base, NEW cap, NEW obj, w => obj \in Objects(i), ~w => cap \in Nat
  PROVE  LET t == NewFrame(i, body, base, cap, obj, w) IN
         FrameOK(t, w) /\ t.type = i /\ t.cap = cap
<1> DEFINE t == NewFrame(i, body, base, cap, obj, w)
<1>1. IsBody(i, w, body)
  BY BodiesAre
<1>2. /\ IsFrame(t) /\ t.type = i /\ t.todo = body /\ t.loop.at = 0 /\ t.off = 0 /\ t.cap = cap
      /\ t.obj = obj
  BY DEF NewFrame, IsFrame, NoLoop
<1> HIDE DEF t
<1>3. w => OfItsOption(t)
  BY <1>1, <1>2 DEF OfItsOption, IsBody
<1>4. LoopIsBound(t, w)
  BY <1>1, <1>2 DEF LoopIsBound, IsBody
<1>5. WellFormed(t, w)
  BY <1>1, <1>2, <1>3, <1>4 DEF WellFormed, IsBody
<1>6. Knowing(t, w)
  BY <1>1, <1>2, KnowsStart DEF Knowing, IsBody
<1> QED BY <1>2, <1>5, <1>6 DEF FrameOK, t

LEMMA TopIs ==
  ASSUME NEW w, AreFrames(stack, w), stack # << >>
  PROVE  /\ Len(stack) \in Nat /\ Len(stack) > 0
         /\ FrameOK(Top, w) /\ IsFrame(Top) /\ Top.type \in TypeIds
         /\ Len(stack) = 1 => Top.cap \in Nat
         /\ Len(stack) > 1 => /\ FrameOK(Outer, w) /\ Waiting(Outer, Top.type)
                              /\ IsFrame(Outer) /\ Outer.type \in TypeIds
<1>1. Len(stack) \in Nat /\ Len(stack) > 0
  BY HeldIs DEF AreFrames
<1>2. Len(stack) \in 1 .. Len(stack) /\ (Len(stack) > 1 => Len(stack) - 1 \in 1 .. Len(stack))
  BY <1>1
<1> QED BY <1>1, <1>2 DEF AreFrames, Top, Outer, FrameOK, WellFormed

LEMMA FrameReplaced ==
  ASSUME NEW w, AreFrames(stack, w), stack # << >>,
         NEW t, FrameOK(t, w), t.type = Top.type, t.cap = Top.cap
  PROVE  AreFrames(WithTop(t), w)
<1> DEFINE r == [stack EXCEPT ![Len(stack)] = t]
<1>1. stack \in Seq(Held(stack)) /\ Len(stack) \in Nat /\ Len(stack) > 0
  BY HeldIs DEF AreFrames
<1>2. r \in Seq(Held(r)) /\ Len(r) = Len(stack)
  BY <1>1, HeldReplaced
<1>3. \A n \in 1 .. Len(stack) : r[n] = IF n = Len(stack) THEN t ELSE stack[n]
  BY <1>1, HeldReplaced
<1> HIDE DEF r
<1>4. ASSUME NEW d \in 1 .. Len(r)
      PROVE  /\ WellFormed(r[d], w) /\ Knowing(r[d], w)
             /\ d = 1 => r[d].cap \in Nat
             /\ d > 1 => Waiting(r[d - 1], r[d].type)
  <2>1. d > 1 => d - 1 \in 1 .. Len(stack) /\ d - 1 # Len(stack)
    BY <1>1, <1>2
  <2>2. r[d] = (IF d = Len(stack) THEN t ELSE stack[d]) /\ (d > 1 => r[d - 1] = stack[d - 1])
    BY <1>2, <1>3, <2>1
  <2>3. /\ WellFormed(stack[d], w) /\ Knowing(stack[d], w)
        /\ d = 1 => stack[d].cap \in Nat
        /\ d > 1 => Waiting(stack[d - 1], stack[d].type)
    BY <1>2 DEF AreFrames
  <2> QED BY <2>2, <2>3 DEF FrameOK, Top
<1> QED BY <1>2, <1>4 DEF AreFrames, WithTop, r

LEMMA FramePushed ==
  ASSUME NEW w, AreFrames(stack, w), stack # << >>,
         NEW t, FrameOK(t, w), Waiting(Top, t.type)
  PROVE  AreFrames(Append(stack, t), w)
<1> DEFINE r == Append(stack, t)
<1>1. stack \in Seq(Held(stack)) /\ Len(stack) \in Nat /\ Len(stack) > 0
  BY HeldIs DEF AreFrames
<1>2. r \in Seq(Held(r)) /\ Len(r) = Len(stack) + 1 /\ r[Len(stack) + 1] = t
  BY <1>1, HeldAppend
<1>3. \A n \in 1 .. Len(stack) : r[n] = stack[n]
  BY <1>1, HeldAppend
<1> HIDE DEF r
<1>4. ASSUME NEW d \in 1 .. Len(r)
      PROVE  /\ WellFormed(r[d], w) /\ Knowing(r[d], w)
             /\ d = 1 => r[d].cap \in Nat
             /\ d > 1 => Waiting(r[d - 1], r[d].type)
  <2>1. d > 1 => d - 1 \in 1 .. Len(stack) /\ r[d - 1] = stack[d - 1]
    BY <1>1, <1>2, <1>3
  <2>2. CASE d = Len(stack) + 1
    <3>1. d > 1 /\ d - 1 = Len(stack) /\ r[d] = t
      BY <1>1, <1>2, <2>2
    <3> QED BY <2>1, <3>1 DEF FrameOK, Top
  <2>3. CASE d # Len(stack) + 1
    <3>1. d \in 1 .. Len(stack) /\ r[d] = stack[d]
      BY <1>1, <1>2, <1>3, <2>3
    <3> QED BY <2>1, <3>1 DEF AreFrames
  <2> QED BY <2>2, <2>3
<1> QED BY <1>2, <1>4 DEF AreFrames, r

LEMMA FramePopped ==
  ASSUME NEW w, AreFrames(stack, w), Len(stack) > 1,
         NEW t, FrameOK(t, w), t.type = Outer.type, t.cap = Outer.cap
  PROVE  AreFrames(Popped(t), w)
<1> DEFINE r == Append(SubSeq(stack, 1, Len(stack) - 2), t)
           n == Len(stack) - 1
<1>1. stack \in Seq(Held(stack)) /\ Len(stack) \in Nat /\ n \in Nat /\ n > 0 /\ n - 1 = Len(stack) - 2
      /\ Len(stack) = n + 1
  BY HeldIs DEF AreFrames
<1>p. /\ r \in Seq(Held(r))
      /\ Len(r) = Len(stack) - 1
      /\ \A m \in 1 .. (Len(stack) - 2) : r[m] = stack[m]
      /\ r[Len(stack) - 1] = t
  BY <1>1, HeldPopped, Zenon
<1> HIDE DEF r
<1>2. r \in Seq(Held(r)) /\ Len(r) = n
  BY <1>1, <1>p
<1>3. r[n] = t /\ \A m \in 1 .. (n - 1) : r[m] = stack[m]
  BY <1>1, <1>p
<1>4. ASSUME NEW d \in 1 .. Len(r)
      PROVE  /\ WellFormed(r[d], w) /\ Knowing(r[d], w)
             /\ d = 1 => r[d].cap \in Nat
             /\ d > 1 => Waiting(r[d - 1], r[d].type)
  <2> HIDE DEF n
  <2>1. d \in 1 .. Len(stack) /\ (d > 1 => d - 1 \in 1 .. (n - 1)) /\ (d # n => d \in 1 .. (n - 1))
    BY <1>1, <1>2
  <2>2. r[d] = (IF d = n THEN t ELSE stack[d]) /\ (d > 1 => r[d - 1] = stack[d - 1])
    BY <1>3, <2>1
  <2>3. /\ WellFormed(stack[d], w) /\ Knowing(stack[d], w)
        /\ d = 1 => stack[d].cap \in Nat
        /\ d > 1 => Waiting(stack[d - 1], stack[d].type)
    BY <2>1 DEF AreFrames
  <2>4. d = n => stack[d] = Outer
    BY DEF Outer, n
  <2> QED BY <2>2, <2>3, <2>4 DEF FrameOK
<1> QED BY <1>2, <1>4 DEF AreFrames, Popped, r

LEMMA FrameAlone ==
  ASSUME NEW w, NEW t, FrameOK(t, w), t.cap \in Nat
  PROVE  AreFrames(<<t>>, w)
<1> DEFINE r == <<t>>
<1>1. r \in Seq(Held(r)) /\ Len(r) = 1 /\ r[1] = t
  BY HeldOne
<1> HIDE DEF r
<1>2. \A d \in 1 .. Len(r) : d = 1
  BY <1>1
<1> QED BY <1>1, <1>2 DEF AreFrames, FrameOK, r

LEMMA NoFrames ==
  ASSUME NEW w
  PROVE  AreFrames(<< >>, w)
BY HeldNothing DEF AreFrames

-----------------------------------------------------------------------------
(* What the helpers of the steps make of a frame.                          *)

(* "u" is "t" with another object, offset or error.                        *)
Keeps(t, u) ==
    /\ IsFrame(u)
    /\ u.type = t.type /\ u.cap = t.cap /\ u.todo = t.todo
    /\ u.loop = t.loop /\ u.base = t.base

LEMMA AdvancedIs ==
  ASSUME NEW t, IsFrame(t), NEW n
  PROVE  /\ Keeps(t, Advanced(t, n)) /\ Advanced(t, n).obj = t.obj
         /\ Advanced(t, n).off = t.off + n
         /\ Advanced(t, n).err = Ok => t.err = Ok
<1>1. TooSmall # Ok
  BY DEF TooSmall, Ok
<1> QED BY <1>1 DEF IsFrame, Keeps, Advanced

LEMMA WithMemberIs ==
  ASSUME NEW t, IsFrame(t), NEW v
  PROVE  Keeps(t, WithMember(t, v)) /\ WithMember(t, v).off = t.off /\ WithMember(t, v).err = t.err
BY DEF IsFrame, Keeps, WithMember

LEMMA WithElementIs ==
  ASSUME NEW t, IsFrame(t), NEW f, NEW v
  PROVE  /\ Keeps(t, WithElement(t, f, v))
         /\ WithElement(t, f, v).off = t.off /\ WithElement(t, f, v).err = t.err
<1>1. PICK r : r = [Member(t) EXCEPT ![t.loop.at + 1] = v]
  OBVIOUS
<1>2. WithElement(t, f, v) = IF IsArray(f) THEN WithMember(t, r) ELSE WithMember(t, v)
  BY <1>1, Zenon DEF WithElement
<1> QED BY <1>2, WithMemberIs

LEMMA MovedIs ==
  ASSUME NEW t, IsFrame(t), NEW n
  PROVE  /\ Keeps(t, [t EXCEPT !.off = @ + n]) /\ [t EXCEPT !.off = @ + n].obj = t.obj
         /\ [t EXCEPT !.off = @ + n].off = t.off + n /\ [t EXCEPT !.off = @ + n].err = t.err
BY DEF IsFrame, Keeps

LEMMA FailedIs ==
  ASSUME NEW t, IsFrame(t), NEW e
  PROVE  /\ Keeps(t, [t EXCEPT !.err = e]) /\ [t EXCEPT !.err = e].obj = t.obj
         /\ [t EXCEPT !.err = e].off = t.off /\ [t EXCEPT !.err = e].err = e
BY DEF IsFrame, Keeps

LEMMA KeepsOn ==
  ASSUME NEW t, NEW u, NEW v, Keeps(t, u), Keeps(u, v)
  PROVE  Keeps(t, v)
BY DEF Keeps

(* A field that is no array, or a void one, moved by its width.            *)
LEMMA FieldMoved ==
  ASSUME NEW w \in BOOLEAN, NEW t, FrameOK(t, w), t.todo # << >>,
         t.todo[1].kind = "field", ~IsArray(t.todo[1].f), NEW n, MovesBy(t.todo[1].f, w, n),
         NEW u, Keeps(t, u), w => u.obj = t.obj,
         u.err = Ok => t.err = Ok /\ u.off = t.off + n
  PROVE  FrameOK(Past(u), w) /\ SameBody(t, Past(u), w)
<1> DEFINE s == t.todo[1]
<1>1. IsTodo(t.type, w, t.todo) /\ t.type \in TypeIds
  BY DEF FrameOK, WellFormed
<1>2. IsStep(t.type, w, s)
  BY <1>1, TodoHead
<1>3. IsFieldOf(s.f) /\ s.known \in Knowns /\ s.past = KnownPastField(s.known, s.f, w)
  BY <1>1, <1>2, StepIs DEF IsOfField
<1>4. ASSUME u.err = Ok PROVE u.off \in Nat /\ Knows(s.past, u.off)
  <2>1. t.off \in Nat /\ Knows(s.known, t.off) /\ n \in Nat /\ u.off = t.off + n
    BY <1>4 DEF FrameOK, WellFormed, Knowing, MovesBy
  <2> HIDE DEF s
  <2>2. Knows(KnownPastField(s.known, s.f, w), t.off + n)
    BY <1>3, <2>1, KnowsPastOne DEF s
  <2> QED BY <1>3, <2>1, <2>2
<1>5. SameBody(t, u, w) /\ u.todo = t.todo
  BY DEF SameBody, Keeps
<1> HIDE DEF s
<1> QED BY <1>4, <1>5, FramePast DEF s

(* A run of bools moved by its length.                                     *)
LEMMA KnowsPastBits ==
  ASSUME NEW known \in Knowns, NEW f, IsFieldOf(f), IsArray(f), f.cat = "bool", NEW w \in BOOLEAN,
         NEW count \in Nat, f.array = "fixed" => count = f.cap,
         NEW off \in Nat, Knows(known, off)
  PROVE  Knows(KnownPastField(known, f, w), (off + LengthPrefixBits(f)) + count)
<1>1. /\ LengthPrefixBits(f) \in Nat /\ IsField(f) /\ f.bits = 1 /\ ~IsComposite(f)
      /\ f.array \in {"fixed", "variable"}
  BY FieldOf DEF IsField, IsComposite, IsArray
<1> DEFINE o == off + LengthPrefixBits(f)
<1>2. o \in Nat /\ Knows(Prefixed(known, f), o) /\ Prefixed(known, f) \in Knowns
  <2>1. o \in Nat
    BY <1>1
  <2>2. Prefixed(known, f) \in Knowns
    BY PastFieldIs
  <2>3. Knows(KnownPast(known, LengthPrefixBits(f)), off + LengthPrefixBits(f))
    BY <1>1, KnowsPast
  <2> QED BY <2>1, <2>2, <2>3 DEF Prefixed
<1> HIDE DEF o
<1>3. FieldWidth(f, w) = 1 /\ 1 # Unknown /\ 1 % ByteBits # 0
  BY <1>1, WidthIs DEF Unknown, ByteBits
<1>4. CASE f.array = "fixed"
  <2>1. KnownPastField(known, f, w) = KnownPast(Prefixed(known, f), 1 * f.cap)
    BY <1>3, <1>4, PastFieldIs
  <2>2. 1 * f.cap = count
    BY <1>4
  <2> QED BY <1>2, <2>1, <2>2, KnowsPast DEF o
<1>5. CASE f.array = "variable"
  <2>1. KnownPastField(known, f, w) = KnownNothing
    BY <1>3, <1>5, PastFieldIs
  <2>2. o + count \in Nat
    BY <1>2
  <2> QED BY <2>1, <2>2, KnowsNothing DEF o
<1> QED BY <1>1, <1>4, <1>5

(* What a nested composite did to the body that called it.                 *)
LEMMA NestedPast ==
  ASSUME NEW w \in BOOLEAN, NEW t, FrameOK(t, w), NEW i, Waiting(t, i),
         NEW u, Keeps(t, u), w => u.obj = t.obj, NEW off, NEW err,
         err = Ok => off \in Nat /\ MovesBy(t.todo[1].f, w, off - t.off)
  PROVE  LET p == PastNested(u, t.todo[1].f, off, err) IN
         FrameOK(p, w) /\ SameBody(t, p, w)
<1> DEFINE s == t.todo[1]
           f == s.f
           moved == [u EXCEPT !.off = off, !.err = err]
           p == PastNested(u, f, off, err)
<1>1. /\ Keeps(t, moved) /\ (w => moved.obj = t.obj) /\ moved.off = off /\ moved.err = err
      /\ moved.loop = t.loop
  BY DEF Keeps, IsFrame
<1>2. /\ IsTodo(t.type, w, t.todo) /\ t.type \in TypeIds /\ t.err = Ok /\ t.todo # << >>
      /\ t.off \in Nat /\ IsFrame(t) /\ t.loop.at \in Nat
      /\ \/ s.kind = "field" /\ ~IsArray(f)
         \/ s.kind = "elements"
  BY DEF FrameOK, WellFormed, Waiting
<1>3. IsStep(t.type, w, s)
  BY <1>2, TodoHead
<1>4. s.kind = "elements" => IsArray(f)
  BY <1>2, <1>3, StepIs
<1>5. p = IF IsArray(f) THEN [moved EXCEPT !.loop.at = @ + 1] ELSE Past(moved)
  BY Zenon DEF PastNested
<1> HIDE DEF p, f, s, moved
<1>6. CASE s.kind = "field"
  <2>1. p = Past(moved) /\ ~IsArray(f)
    BY <1>2, <1>5, <1>6
  <2> DEFINE n == IF err = Ok THEN off - t.off ELSE 0
  <2>2. err = Ok => n = off - t.off /\ MovesBy(f, w, n) /\ off = t.off + n
    BY <1>2 DEF f, s
  <2> HIDE DEF n
  <2>3. ASSUME err = Ok PROVE FrameOK(Past(moved), w) /\ SameBody(t, Past(moved), w)
    BY <1>1, <1>2, <1>6, <2>1, <2>2, <2>3, FieldMoved DEF f, s
  <2>4. ASSUME err # Ok PROVE FrameOK(Past(moved), w) /\ SameBody(t, Past(moved), w)
    <3>1. SameBody(t, moved, w) /\ moved.todo = t.todo
      BY <1>1 DEF SameBody, Keeps
    <3> QED BY <1>1, <1>2, <2>4, <3>1, FramePast
  <2> QED BY <2>1, <2>3, <2>4 DEF p, f, s
<1>7. CASE s.kind = "elements"
  <2> DEFINE q == [moved EXCEPT !.loop.at = @ + 1]
  <2>1. p = q
    BY <1>4, <1>5, <1>7
  <2>2. /\ IsFrame(q) /\ q.type = t.type /\ q.cap = t.cap /\ q.todo = t.todo /\ (w => q.obj = t.obj)
        /\ q.loop.at = t.loop.at + 1 /\ q.loop.count = t.loop.count /\ q.off = off /\ q.err = err
    BY <1>1, <1>2 DEF Keeps, IsFrame
  <2> HIDE DEF q
  <2>3. SameBody(t, q, w)
    BY <2>2 DEF SameBody
  <2>4. q.err = Ok => t.err = Ok /\ q.off \in Nat /\ MovesBy(t.todo[1].f, w, q.off - t.off)
    BY <1>2, <2>2
  <2>5. FrameOK(q, w)
    BY <1>2, <1>7, <2>2, <2>3, <2>4, FrameLoops DEF s
  <2> QED BY <2>1, <2>3, <2>5 DEF p, f, s
<1> QED BY <1>2, <1>6, <1>7 DEF p, f, s

-----------------------------------------------------------------------------
(* The steps of a body keep the frames as they should be.                  *)

LEMMA AtTop ==
  ASSUME KInv, stack # << >>, Top.todo # << >>
  PROVE  /\ Writing \in BOOLEAN /\ AreFrames(stack, Writing) /\ FrameOK(Top, Writing)
         /\ IsFrame(Top) /\ Top.type \in TypeIds
         /\ Step = Top.todo[1] /\ IsStep(Top.type, Writing, Step) /\ Step.known \in Knowns
         /\ Top.err = Ok => Top.off \in Nat
         /\ Top.err = Ok /\ Step.kind # "elements" => Knows(Step.known, Top.off)
         /\ Step.kind \in {"field", "elements"} =>
               IsFieldOf(Field) /\ Step.past = KnownPastField(Step.known, Field, Writing)
         /\ Step.kind = "elements" => IsArray(Field)
<1>1. Writing \in BOOLEAN /\ AreFrames(stack, Writing)
  BY DEF Writing, KInv
<1>2. FrameOK(Top, Writing) /\ IsFrame(Top) /\ Top.type \in TypeIds
  BY <1>1, TopIs
<1>3. IsTodo(Top.type, Writing, Top.todo)
  BY <1>2 DEF FrameOK, WellFormed
<1>4. Step = Top.todo[1] /\ IsStep(Top.type, Writing, Step)
  BY <1>3, TodoHead DEF Step
<1>5. /\ Step.known \in Knowns
      /\ Step.kind \in {"field", "elements"} => IsOfField(Top.type, Writing, Step)
      /\ Step.kind = "elements" => IsArray(Step.f)
  BY <1>1, <1>2, <1>4, StepIs
<1>6. Top.err = Ok => Top.off \in Nat /\ (Step.kind # "elements" => Knows(Step.known, Top.off))
  BY <1>2, <1>4 DEF FrameOK, WellFormed, Knowing
<1> QED BY <1>1, <1>2, <1>4, <1>5, <1>6 DEF IsOfField, Field

(* The top frame is behind its step.                                       *)
LEMMA TopPast ==
  ASSUME KInv, stack # << >>, Top.todo # << >>,
         NEW u, Keeps(Top, u), Writing => u.obj = Top.obj,
         u.err = Ok => u.off \in Nat /\ Knows(Step.past, u.off)
  PROVE  AreFrames(WithTop(Past(u)), Writing)
<1>1. /\ Writing \in BOOLEAN /\ AreFrames(stack, Writing) /\ FrameOK(Top, Writing)
      /\ Step = Top.todo[1]
  BY AtTop
<1>2. SameBody(Top, u, Writing) /\ u.todo = Top.todo
  BY DEF SameBody, Keeps
<1>3. FrameOK(Past(u), Writing) /\ SameBody(Top, Past(u), Writing)
  BY <1>1, <1>2, FramePast
<1> QED BY <1>1, <1>3, FrameReplaced DEF SameBody

LEMMA TopMoved ==
  ASSUME KInv, stack # << >>, Top.todo # << >>, Step.kind = "field", ~IsArray(Field),
         NEW n, MovesBy(Field, Writing, n),
         NEW u, Keeps(Top, u), Writing => u.obj = Top.obj,
         u.err = Ok => Top.err = Ok /\ u.off = Top.off + n
  PROVE  AreFrames(WithTop(Past(u)), Writing)
<1>1. /\ Writing \in BOOLEAN /\ AreFrames(stack, Writing) /\ FrameOK(Top, Writing)
      /\ Step = Top.todo[1] /\ Field = Top.todo[1].f
  BY AtTop DEF Field
<1>2. FrameOK(Past(u), Writing) /\ SameBody(Top, Past(u), Writing)
  BY <1>1, FieldMoved
<1> QED BY <1>1, <1>2, FrameReplaced DEF SameBody

(* A field that is neither an array nor a composite moves by its bits.     *)
LEMMA ScalarMoves ==
  ASSUME NEW f, IsFieldOf(f), ~IsComposite(f), NEW w \in BOOLEAN
  PROVE  f.bits \in Nat /\ MovesBy(f, w, f.bits)
BY FieldOf, WidthIs DEF MovesBy, IsField, Unknown

LEMMA WriteScalarKeeps ==
  ASSUME KInv, WriteScalar
  PROVE  AreFrames(stack', Writing)
<1>1. /\ stack # << >> /\ Top.todo # << >> /\ Step.kind = "field" /\ ~IsArray(Field) /\ ~IsComposite(Field)
      /\ stack' = WithTop(Past(Advanced(Top, Field.bits)))
  BY DEF WriteScalar, AtField, AtStep, IsComposite
<1>2. IsFieldOf(Field) /\ IsFrame(Top) /\ Writing \in BOOLEAN
  BY <1>1, AtTop
<1>3. MovesBy(Field, Writing, Field.bits)
  BY <1>1, <1>2, ScalarMoves
<1> DEFINE u == Advanced(Top, Field.bits)
<1>4. Keeps(Top, u) /\ u.obj = Top.obj /\ u.off = Top.off + Field.bits /\ (u.err = Ok => Top.err = Ok)
  BY <1>2, AdvancedIs
<1> HIDE DEF u
<1>5. AreFrames(WithTop(Past(u)), Writing)
  BY <1>1, <1>3, <1>4, TopMoved
<1> QED BY <1>1, <1>5 DEF u

LEMMA ReadScalarKeeps ==
  ASSUME KInv, ReadScalar
  PROVE  AreFrames(stack', Writing)
<1>1. /\ stack # << >> /\ Top.todo # << >> /\ Step.kind = "field" /\ ~IsArray(Field) /\ ~IsComposite(Field)
      /\ ~Writing
  BY DEF ReadScalar, AtField, AtStep, IsComposite
<1>2. PICK v : stack' = WithTop(Past([WithMember(Top, v) EXCEPT !.off = @ + Field.bits]))
  BY DEF ReadScalar
<1>3. IsFieldOf(Field) /\ IsFrame(Top) /\ Writing \in BOOLEAN
  BY <1>1, AtTop
<1>4. MovesBy(Field, Writing, Field.bits)
  BY <1>1, <1>3, ScalarMoves
<1> DEFINE m == WithMember(Top, v)
           u == [m EXCEPT !.off = @ + Field.bits]
<1>5. Keeps(Top, m) /\ m.off = Top.off /\ m.err = Top.err
  BY <1>3, WithMemberIs
<1> HIDE DEF m
<1>6. Keeps(m, u) /\ u.off = m.off + Field.bits /\ u.err = m.err
  BY <1>5, MovedIs DEF Keeps
<1> HIDE DEF u
<1>7. Keeps(Top, u)
  BY <1>5, <1>6, KeepsOn
<1>8. AreFrames(WithTop(Past(u)), Writing)
  BY <1>1, <1>4, <1>5, <1>6, <1>7, TopMoved
<1> QED BY <1>2, <1>8 DEF u, m

LEMMA ZeroBitsKeeps ==
  ASSUME KInv, stack # << >>, Top.todo # << >>, NEW n, ZeroBits(n),
         Top.err = Ok => n \in Nat /\ Knows(Step.past, Top.off + n)
  PROVE  AreFrames(stack', Writing)
<1>1. IsFrame(Top) /\ (Top.err = Ok => Top.off \in Nat /\ Top.off + n \in Nat)
  BY AtTop
<1>2. CASE Writing
  <2> DEFINE u == Advanced(Top, n)
  <2>1. Keeps(Top, u) /\ u.obj = Top.obj /\ u.off = Top.off + n /\ (u.err = Ok => Top.err = Ok)
    BY <1>1, AdvancedIs
  <2>2. stack' = WithTop(Past(u))
    BY <1>2 DEF ZeroBits
  <2> HIDE DEF u
  <2> QED BY <1>1, <2>1, <2>2, TopPast
<1>3. CASE ~Writing
  <2> DEFINE u == [Top EXCEPT !.off = @ + n]
  <2>1. Keeps(Top, u) /\ u.off = Top.off + n /\ u.err = Top.err
    BY <1>1, MovedIs
  <2>2. stack' = WithTop(Past(u))
    BY <1>3 DEF ZeroBits
  <2> HIDE DEF u
  <2> QED BY <1>1, <1>3, <2>1, <2>2, TopPast
<1> QED BY <1>2, <1>3

LEMMA PaddingKeeps ==
  ASSUME KInv, Padding
  PROVE  AreFrames(stack', Writing)
<1>1. /\ stack # << >> /\ Top.todo # << >> /\ Step.kind = "field" /\ Field.cat = "void"
      /\ ZeroBits(Field.bits)
  BY DEF Padding, AtField, AtStep
<1>2. /\ IsFieldOf(Field) /\ Writing \in BOOLEAN /\ Step.known \in Knowns
      /\ Top.err = Ok => Top.off \in Nat /\ Knows(Step.known, Top.off)
      /\ Step.past = KnownPastField(Step.known, Field, Writing)
  BY <1>1, AtTop
<1>3. ~IsArray(Field) /\ ~IsComposite(Field)
  BY <1>1, <1>2, FieldOf DEF IsComposite
<1>4. Field.bits \in Nat /\ MovesBy(Field, Writing, Field.bits)
  BY <1>2, <1>3, ScalarMoves
<1>5. Top.err = Ok => Knows(Step.past, Top.off + Field.bits)
  BY <1>2, <1>3, <1>4, KnowsPastOne
<1> QED BY <1>1, <1>4, <1>5, ZeroBitsKeeps

LEMMA AlignKeeps ==
  ASSUME KInv, Align
  PROVE  AreFrames(stack', Writing)
<1> DEFINE from == IF Step.known.residue = Unknown THEN Top.off ELSE Step.known.residue
           n == PadTo(from, ByteBits) - from
<1>1. stack # << >> /\ Top.todo # << >> /\ Step.kind = "align" /\ ZeroBits(n)
  BY DEF Align, AtStep
<1>2. /\ Writing \in BOOLEAN /\ Step.known \in Knowns /\ Top.type \in TypeIds
      /\ IsStep(Top.type, Writing, Step)
      /\ Top.err = Ok => Top.off \in Nat /\ Knows(Step.known, Top.off)
  BY <1>1, AtTop
<1>3. Step.past = KnownAligned(Step.known)
  BY <1>1, <1>2, StepIs
<1>4. Top.err = Ok => n \in Nat /\ Knows(Step.past, Top.off + n)
  BY <1>2, <1>3, KnowsAligned
<1> HIDE DEF n
<1> QED BY <1>1, <1>4, ZeroBitsKeeps

LEMMA ImageKeeps ==
  ASSUME KInv, WriteImage \/ ReadImage
  PROVE  AreFrames(stack', Writing)
<1>1. stack # << >> /\ Top.todo # << >> /\ Step.kind = "move"
  BY DEF WriteImage, ReadImage, AtStep
<1>2. /\ Writing \in BOOLEAN /\ Step.known \in Knowns /\ Top.type \in TypeIds /\ IsFrame(Top)
      /\ IsStep(Top.type, Writing, Step)
      /\ Top.err = Ok => Top.off \in Nat /\ Knows(Step.known, Top.off)
  BY <1>1, AtTop
<1>3. Step.bits \in Nat /\ Step.past = KnownPast(Step.known, Step.bits)
  BY <1>1, <1>2, StepIs
<1>4. Top.err = Ok => Top.off + Step.bits \in Nat /\ Knows(Step.past, Top.off + Step.bits)
  BY <1>2, <1>3, KnowsPast
<1>5. CASE WriteImage
  <2> DEFINE u == [Top EXCEPT !.off = @ + Step.bits]
  <2>1. Keeps(Top, u) /\ u.obj = Top.obj /\ u.off = Top.off + Step.bits /\ u.err = Top.err
    BY <1>2, MovedIs
  <2>2. stack' = WithTop(Past(u))
    BY <1>5 DEF WriteImage
  <2> HIDE DEF u
  <2> QED BY <1>1, <1>4, <2>1, <2>2, TopPast
<1>6. CASE ReadImage
  <2>1. PICK obj : stack' = WithTop(Past([Top EXCEPT !.off = @ + Step.bits, !.obj = obj]))
    BY <1>6 DEF ReadImage
  <2> DEFINE u == [Top EXCEPT !.off = @ + Step.bits, !.obj = obj]
  <2>2. Keeps(Top, u) /\ u.off = Top.off + Step.bits /\ u.err = Top.err
    BY <1>2 DEF Keeps, IsFrame
  <2>3. ~Writing
    BY <1>6 DEF ReadImage
  <2> HIDE DEF u
  <2>4. AreFrames(WithTop(Past(u)), Writing)
    BY <1>1, <1>4, <2>2, <2>3, TopPast
  <2> QED BY <2>1, <2>4 DEF u
<1> QED BY <1>5, <1>6

LEMMA SkipKeeps ==
  ASSUME KInv, Skip
  PROVE  AreFrames(stack', Writing)
<1>1. /\ stack # << >> /\ Top.todo # << >> /\ Top.err # Ok
      /\ stack' = WithTop(Past(Top))
  BY DEF Skip, Healthy
<1>2. Keeps(Top, Top)
  BY <1>1, AtTop DEF Keeps
<1> QED BY <1>1, <1>2, TopPast


LEMMA EndArrayKeeps ==
  ASSUME KInv, EndArray
  PROVE  AreFrames(stack', Writing)
<1>1. /\ stack # << >> /\ Top.todo # << >> /\ Step.kind = "elements"
      /\ Top.err = Ok => Top.loop.at = Top.loop.count
      /\ stack' = WithTop(Past(Top))
  BY DEF EndArray, AtStep, Healthy
<1>2. /\ Writing \in BOOLEAN /\ AreFrames(stack, Writing) /\ FrameOK(Top, Writing)
      /\ Step = Top.todo[1]
  BY <1>1, AtTop
<1>3. FrameOK(Past(Top), Writing) /\ SameBody(Top, Past(Top), Writing)
  BY <1>1, <1>2, FrameEndsLoop
<1> QED BY <1>1, <1>2, <1>3, FrameReplaced DEF SameBody

(* The tag of a union is behind.                                           *)
LEMMA SelectedIs ==
  ASSUME NEW t, NEW u, Keeps(t, u), NEW arms, NEW tag
  PROVE  LET v == Selected(u, arms, tag) IN
         /\ IsFrame(v) /\ v.type = t.type /\ v.cap = t.cap /\ v.loop = t.loop
         /\ v.obj = u.obj /\ v.off = u.off /\ v.err = u.err
         /\ v.todo = (IF tag + 1 \in DOMAIN arms THEN arms[tag + 1] ELSE << >>) \o Tail(t.todo)
BY DEF Selected, Keeps, IsFrame

LEMMA TopSelects ==
  ASSUME KInv, stack # << >>, Top.todo # << >>, Step.kind = "tag",
         NEW tag, Writing => tag = TagValue(Top.obj.tag, Step.bits),
         NEW u, Keeps(Top, u), Writing => u.obj = Top.obj,
         u.err = Ok => Top.err = Ok /\ u.off = Top.off + Step.bits /\ tag + 1 \in DOMAIN Step.arms
  PROVE  AreFrames(WithTop(Selected(u, Step.arms, tag)), Writing)
<1>1. /\ Writing \in BOOLEAN /\ AreFrames(stack, Writing) /\ FrameOK(Top, Writing)
      /\ Step = Top.todo[1]
  BY AtTop
<1> DEFINE v == Selected(u, Step.arms, tag)
<1>2. /\ IsFrame(v) /\ v.type = Top.type /\ v.cap = Top.cap /\ v.loop = Top.loop
      /\ v.obj = u.obj /\ v.off = u.off /\ v.err = u.err
      /\ v.todo = (IF tag + 1 \in DOMAIN Step.arms THEN Step.arms[tag + 1] ELSE << >>) \o Tail(Top.todo)
  BY DEF Selected, Keeps, IsFrame
<1> HIDE DEF v
<1>3. SameBody(Top, v, Writing)
  BY <1>2 DEF SameBody
<1>4. FrameOK(v, Writing)
  BY <1>1, <1>2, <1>3, FrameSelects
<1> QED BY <1>1, <1>2, <1>4, FrameReplaced DEF v

LEMMA CheckedTagIs ==
  ASSUME NEW t, NEW arms, NEW tag, CheckedTag(t, arms, tag) = Ok
  PROVE  t.err = Ok /\ tag + 1 \in DOMAIN arms
BY DEF CheckedTag, FoldError, BadUnionTag, Ok

LEMMA WriteTagKeeps ==
  ASSUME KInv, WriteTag
  PROVE  AreFrames(stack', Writing)
<1>1. stack # << >> /\ Top.todo # << >> /\ Step.kind = "tag"
  BY DEF WriteTag, AtStep
<1>2. IsFrame(Top)
  BY <1>1, AtTop
<1> DEFINE tag == TagValue(Top.obj.tag, Step.bits)
           t == [Top EXCEPT !.err = CheckedTag(Top, Step.arms, tag)]
           u == Advanced(t, Step.bits)
<1>3. stack' = IF t.err = Ok THEN WithTop(Selected(u, Step.arms, tag))
               ELSE WithTop(Selected(t, Step.arms, tag))
  BY DEF WriteTag
<1>4. Keeps(Top, t) /\ t.obj = Top.obj /\ t.off = Top.off /\ t.err = CheckedTag(Top, Step.arms, tag)
  BY <1>2, FailedIs
<1>5. t.err = Ok => Top.err = Ok /\ tag + 1 \in DOMAIN Step.arms
  <2> HIDE DEF t, tag
  <2> QED BY <1>4, CheckedTagIs
<1> HIDE DEF t
<1>6. Keeps(t, u) /\ u.obj = t.obj /\ u.off = t.off + Step.bits /\ (u.err = Ok => t.err = Ok)
  BY <1>4, AdvancedIs DEF Keeps
<1> HIDE DEF u
<1>7. Keeps(Top, u)
  BY <1>4, <1>6, KeepsOn
<1>8. tag = TagValue(Top.obj.tag, Step.bits)
  OBVIOUS
<1> HIDE DEF tag
<1>9. AreFrames(WithTop(Selected(u, Step.arms, tag)), Writing)
  BY <1>1, <1>4, <1>5, <1>6, <1>7, <1>8, TopSelects
<1>10. t.err # Ok => AreFrames(WithTop(Selected(t, Step.arms, tag)), Writing)
  BY <1>1, <1>4, <1>8, TopSelects
<1> QED BY <1>3, <1>9, <1>10

LEMMA ReadTagKeeps ==
  ASSUME KInv, ReadTag
  PROVE  AreFrames(stack', Writing)
<1>1. stack # << >> /\ Top.todo # << >> /\ Step.kind = "tag" /\ ~Writing
  BY DEF ReadTag, AtStep
<1>2. IsFrame(Top)
  BY <1>1, AtTop
<1> DEFINE tag == ReadAt(Top, Top.off, Step.bits)
           t == [Top EXCEPT !.err = CheckedTag(Top, Step.arms, tag)]
           obj == [tag |-> tag, value |-> StaleMember(Fields[t.type][tag + 1])]
           u == [t EXCEPT !.off = @ + Step.bits, !.obj = obj]
<1>3. stack' = IF t.err = Ok THEN WithTop(Selected(u, Step.arms, tag))
               ELSE WithTop(Selected(t, Step.arms, tag))
  BY DEF ReadTag
<1>4. Keeps(Top, t) /\ t.off = Top.off /\ t.err = CheckedTag(Top, Step.arms, tag)
  BY <1>2, FailedIs
<1>5. t.err = Ok => Top.err = Ok /\ tag + 1 \in DOMAIN Step.arms
  <2> HIDE DEF t, tag
  <2> QED BY <1>4, CheckedTagIs
<1> HIDE DEF t, obj, tag
<1>6. Keeps(t, u) /\ u.off = t.off + Step.bits /\ u.err = t.err
  BY <1>4 DEF Keeps, IsFrame
<1> HIDE DEF u
<1>7. Keeps(Top, u)
  BY <1>4, <1>6, KeepsOn
<1>8. AreFrames(WithTop(Selected(u, Step.arms, tag)), Writing)
  BY <1>1, <1>4, <1>5, <1>6, <1>7, TopSelects
<1>9. t.err # Ok => AreFrames(WithTop(Selected(t, Step.arms, tag)), Writing)
  BY <1>1, <1>4, TopSelects
<1> QED BY <1>3, <1>8, <1>9

(* The count of an array is behind.                                        *)
LEMMA TopCounts ==
  ASSUME KInv, stack # << >>, Top.todo # << >>, Step.kind = "field", IsArray(Field), Top.err = Ok,
         NEW count, Field.array = "fixed" => count = Field.cap,
         Writing /\ Field.array = "variable" => count = Len(Member(Top)),
         NEW u, Keeps(Top, u), Writing => u.obj = Top.obj,
         u.err = Ok => u.off = Top.off + LengthPrefixBits(Field)
  PROVE  AreFrames(WithTop([u EXCEPT !.loop = [at |-> 0, count |-> count],
                                     !.todo = <<[Step EXCEPT !.kind = "elements"]>> \o Tail(@)]), Writing)
<1>1. /\ Writing \in BOOLEAN /\ AreFrames(stack, Writing) /\ FrameOK(Top, Writing)
      /\ Step = Top.todo[1] /\ Field = Top.todo[1].f
  BY AtTop DEF Field
<1> DEFINE e == <<[Step EXCEPT !.kind = "elements"]>>
<1>2. e = <<Elements(Top.todo[1])>>
  BY <1>1 DEF Elements
<1> HIDE DEF e
<1> DEFINE v == [u EXCEPT !.loop = [at |-> 0, count |-> count], !.todo = e \o Tail(@)]
<1>3. /\ IsFrame(v) /\ v.type = Top.type /\ v.cap = Top.cap /\ v.obj = u.obj
      /\ v.todo = e \o Tail(Top.todo) /\ v.loop.at = 0 /\ v.loop.count = count
      /\ v.off = u.off /\ v.err = u.err
  BY DEF Keeps, IsFrame
<1> HIDE DEF v
<1>4. SameBody(Top, v, Writing)
  BY <1>3 DEF SameBody
<1>5. FrameOK(v, Writing)
  BY <1>1, <1>2, <1>3, <1>4, FrameStartsLoop
<1>6. AreFrames(WithTop(v), Writing)
  BY <1>1, <1>3, <1>5, FrameReplaced
<1> QED BY <1>6 DEF v, e

(* The run of a bool array is behind.                                      *)
LEMMA TopPastBools ==
  ASSUME KInv, stack # << >>, Top.todo # << >>, Step.kind = "field", IsArray(Field), Top.err = Ok,
         Field.cat = "bool", NEW count \in Nat, Field.array = "fixed" => count = Field.cap,
         NEW u, Keeps(Top, u), Writing => u.obj = Top.obj,
         u.err = Ok => u.off = (Top.off + LengthPrefixBits(Field)) + count
  PROVE  AreFrames(WithTop(Past(u)), Writing)
<1>1. /\ Writing \in BOOLEAN /\ Step.known \in Knowns /\ Top.off \in Nat /\ Knows(Step.known, Top.off)
      /\ IsFieldOf(Field) /\ Step.past = KnownPastField(Step.known, Field, Writing)
  BY AtTop
<1>2. LengthPrefixBits(Field) \in Nat
  BY <1>1, FieldOf
<1>3. Knows(Step.past, (Top.off + LengthPrefixBits(Field)) + count)
  BY <1>1, KnowsPastBits
<1>4. u.err = Ok => u.off \in Nat /\ Knows(Step.past, u.off)
  BY <1>1, <1>2, <1>3
<1> QED BY <1>4, TopPast

(* An array that is longer than it may be.                                 *)
LEMMA TopTooLong ==
  ASSUME KInv, stack # << >>, Top.todo # << >>,
         NEW u, Keeps(Top, u), Writing => u.obj = Top.obj, u.err = BadArrayLength
  PROVE  AreFrames(WithTop(Past(u)), Writing)
<1>1. u.err # Ok
  BY DEF BadArrayLength, Ok
<1> QED BY <1>1, TopPast

LEMMA WriteArrayKeeps ==
  ASSUME KInv, WriteArray
  PROVE  AreFrames(stack', Writing)
<1>1. /\ stack # << >> /\ Top.todo # << >> /\ Step.kind = "field" /\ Writing /\ Top.err = Ok
      /\ IsArray(Field)
  BY DEF WriteArray, AtField, AtStep, Healthy
<1> DEFINE count == IF Field.array = "fixed" THEN Field.cap ELSE Len(Member(Top))
           t == Advanced(Top, LengthPrefixBits(Field))
           b == [t EXCEPT !.off = @ + count]
           e == [Top EXCEPT !.err = BadArrayLength]
<1>2. stack' = IF TooLong(Field, count) THEN WithTop(Past(e))
               ELSE IF Field.cat = "bool" THEN WithTop(Past(b))
               ELSE WithTop([t EXCEPT !.loop = [at |-> 0, count |-> count],
                                      !.todo = <<[Step EXCEPT !.kind = "elements"]>> \o Tail(@)])
  BY DEF WriteArray
<1>3. IsFrame(Top) /\ FrameOK(Top, TRUE) /\ IsFieldOf(Field) /\ Step = Top.todo[1]
  BY <1>1, AtTop
<1>4. IsField(Field)
  BY <1>3, FieldOf
<1>5. count \in Nat
  <2>1. IsValue(Field, Member(Top))
    BY <1>1, <1>3, MemberIs DEF FrameOK, Field
  <2> QED BY <1>1, <1>4, <2>1 DEF IsValue, IsSequence, IsField, IsArray
<1>6. /\ Field.array = "fixed" => count = Field.cap
      /\ Field.array = "variable" => count = Len(Member(Top))
  OBVIOUS
<1> HIDE DEF count
<1>7. /\ Keeps(Top, t) /\ t.obj = Top.obj /\ t.off = Top.off + LengthPrefixBits(Field)
  BY <1>3, AdvancedIs
<1>8. Keeps(Top, e) /\ e.obj = Top.obj /\ e.err = BadArrayLength
  BY <1>3, FailedIs
<1> HIDE DEF t, e
<1>9. Keeps(t, b) /\ b.obj = t.obj /\ b.off = t.off + count
  BY <1>7, MovedIs DEF Keeps
<1> HIDE DEF b
<1>10. Keeps(Top, b)
  BY <1>7, <1>9, KeepsOn
<1>11. AreFrames(WithTop(Past(e)), Writing)
  BY <1>1, <1>8, TopTooLong
<1>12. ASSUME Field.cat = "bool" PROVE AreFrames(WithTop(Past(b)), Writing)
  BY <1>1, <1>5, <1>6, <1>7, <1>9, <1>10, <1>12, TopPastBools
<1>13. AreFrames(WithTop([t EXCEPT !.loop = [at |-> 0, count |-> count],
                                   !.todo = <<[Step EXCEPT !.kind = "elements"]>> \o Tail(@)]), Writing)
  BY <1>1, <1>6, <1>7, TopCounts
<1> QED BY <1>2, <1>11, <1>12, <1>13

LEMMA ReadArrayKeeps ==
  ASSUME KInv, ReadArray
  PROVE  AreFrames(stack', Writing)
<1>1. /\ stack # << >> /\ Top.todo # << >> /\ Step.kind = "field" /\ ~Writing /\ Top.err = Ok
      /\ IsArray(Field)
  BY DEF ReadArray, AtField, AtStep, Healthy
<1> DEFINE prefix == LengthPrefixBits(Field)
           count == IF Field.array = "fixed" THEN Field.cap ELSE ReadAt(Top, Top.off, prefix)
           t == [Top EXCEPT !.off = @ + prefix]
           e == [t EXCEPT !.err = BadArrayLength]
           sized == IF Field.array = "fixed" THEN t ELSE WithMember(t, StaleOfLength(Field, count))
<1>2. PICK bools :
        stack' = WithTop(
             IF TooLong(Field, count) THEN Past(e)
             ELSE IF Field.cat = "bool" THEN Past([WithMember(t, bools) EXCEPT !.off = @ + count])
             ELSE [sized EXCEPT !.loop = [at |-> 0, count |-> count],
                                !.todo = <<[Step EXCEPT !.kind = "elements"]>> \o Tail(@)])
  BY Zenon DEF ReadArray
<1>3. IsFrame(Top) /\ IsFieldOf(Field)
  BY <1>1, AtTop
<1>4. IsField(Field) /\ prefix \in Nat
  BY <1>3, FieldOf
<1> HIDE DEF prefix
<1>5. count \in Nat
  <2>1. ReadAt(Top, Top.off, prefix) \in Nat
    BY <1>4, BitsAtIs DEF ReadAt
  <2> QED BY <1>1, <1>4, <2>1 DEF IsField, IsArray
<1>6. Field.array = "fixed" => count = Field.cap
  OBVIOUS
<1> HIDE DEF count
<1>7. Keeps(Top, t) /\ t.off = Top.off + prefix /\ t.err = Top.err
  BY <1>3, MovedIs
<1> HIDE DEF t
<1>8. Keeps(t, e) /\ e.err = BadArrayLength
  BY <1>7, FailedIs DEF Keeps
<1>9. Keeps(t, sized) /\ sized.off = t.off
  BY <1>7, WithMemberIs DEF Keeps
<1> DEFINE m == WithMember(t, bools)
           b == [m EXCEPT !.off = @ + count]
<1>10. Keeps(t, m) /\ m.off = t.off
  BY <1>7, WithMemberIs DEF Keeps
<1> HIDE DEF e, sized, m
<1>11. Keeps(m, b) /\ b.off = m.off + count
  BY <1>10, MovedIs DEF Keeps
<1> HIDE DEF b
<1>12. Keeps(Top, e) /\ Keeps(Top, sized) /\ Keeps(Top, m)
  BY <1>7, <1>8, <1>9, <1>10, KeepsOn
<1>13. Keeps(Top, b)
  BY <1>11, <1>12, KeepsOn
<1>14. AreFrames(WithTop(Past(e)), Writing)
  BY <1>1, <1>8, <1>12, TopTooLong
<1>15. ASSUME Field.cat = "bool" PROVE AreFrames(WithTop(Past(b)), Writing)
  BY <1>1, <1>5, <1>6, <1>7, <1>10, <1>11, <1>13, <1>15, TopPastBools DEF prefix
<1>16. AreFrames(WithTop([sized EXCEPT !.loop = [at |-> 0, count |-> count],
                                       !.todo = <<[Step EXCEPT !.kind = "elements"]>> \o Tail(@)]), Writing)
  BY <1>1, <1>6, <1>7, <1>9, <1>12, TopCounts DEF prefix
<1> QED BY <1>2, <1>14, <1>15, <1>16 DEF b, m

(* The loop over elements is past one.                                     *)
LEMMA TopLoops ==
  ASSUME KInv, stack # << >>, Top.todo # << >>, Step.kind = "elements", Top.err = Ok,
         NEW n, MovesBy(Field, Writing, n),
         NEW u, Keeps(Top, u), Writing => u.obj = Top.obj, u.err = Ok => u.off = Top.off + n
  PROVE  AreFrames(WithTop([u EXCEPT !.loop.at = @ + 1]), Writing)
<1>1. /\ Writing \in BOOLEAN /\ AreFrames(stack, Writing) /\ FrameOK(Top, Writing)
      /\ Step = Top.todo[1] /\ Field = Top.todo[1].f /\ Top.off \in Nat /\ IsFrame(Top)
  BY AtTop DEF Field
<1> DEFINE v == [u EXCEPT !.loop.at = @ + 1]
<1>2. /\ IsFrame(v) /\ v.type = Top.type /\ v.cap = Top.cap /\ v.obj = u.obj
      /\ v.todo = Top.todo /\ v.loop.at = Top.loop.at + 1 /\ v.loop.count = Top.loop.count
      /\ v.off = u.off /\ v.err = u.err
  BY <1>1 DEF Keeps, IsFrame
<1> HIDE DEF v
<1>3. SameBody(Top, v, Writing)
  BY <1>2 DEF SameBody
<1>4. v.err = Ok => v.off \in Nat /\ MovesBy(Field, Writing, v.off - Top.off)
  <2>1. n \in Nat
    BY DEF MovesBy
  <2>2. v.err = Ok => v.off \in Nat /\ v.off - Top.off = n
    BY <1>1, <1>2, <2>1
  <2> QED BY <2>2
<1>5. FrameOK(v, Writing)
  BY <1>1, <1>2, <1>3, <1>4, FrameLoops
<1>6. AreFrames(WithTop(v), Writing)
  BY <1>1, <1>2, <1>5, FrameReplaced
<1> QED BY <1>6 DEF v

LEMMA WriteElementKeeps ==
  ASSUME KInv, WriteElement
  PROVE  AreFrames(stack', Writing)
<1>1. /\ stack # << >> /\ Top.todo # << >> /\ Step.kind = "elements" /\ Top.err = Ok
      /\ ~IsComposite(Field)
      /\ stack' = WithTop([Advanced(Top, Field.bits) EXCEPT !.loop.at = @ + 1])
  BY DEF WriteElement, AtElement, AtStep, Healthy
<1>2. IsFieldOf(Field) /\ IsFrame(Top) /\ Writing \in BOOLEAN
  BY <1>1, AtTop
<1>3. MovesBy(Field, Writing, Field.bits)
  BY <1>1, <1>2, ScalarMoves
<1> DEFINE u == Advanced(Top, Field.bits)
<1>4. Keeps(Top, u) /\ u.obj = Top.obj /\ u.off = Top.off + Field.bits
  BY <1>2, AdvancedIs
<1> HIDE DEF u
<1>5. AreFrames(WithTop([u EXCEPT !.loop.at = @ + 1]), Writing)
  BY <1>1, <1>3, <1>4, TopLoops
<1> QED BY <1>1, <1>5 DEF u

LEMMA ReadElementKeeps ==
  ASSUME KInv, ReadElement
  PROVE  AreFrames(stack', Writing)
<1>1. /\ stack # << >> /\ Top.todo # << >> /\ Step.kind = "elements" /\ Top.err = Ok
      /\ ~IsComposite(Field) /\ ~Writing
  BY DEF ReadElement, AtElement, AtStep, Healthy
<1>2. PICK v : stack' = WithTop([WithElement(Top, Field, v) EXCEPT
                           !.off = @ + Field.bits, !.loop.at = @ + 1])
  BY DEF ReadElement
<1>3. IsFieldOf(Field) /\ IsFrame(Top) /\ Writing \in BOOLEAN
  BY <1>1, AtTop
<1>4. MovesBy(Field, Writing, Field.bits)
  BY <1>1, <1>3, ScalarMoves
<1> DEFINE m == WithElement(Top, Field, v)
           u == [m EXCEPT !.off = @ + Field.bits]
<1>5. Keeps(Top, m) /\ m.off = Top.off
  BY <1>3, WithElementIs
<1> HIDE DEF m
<1>6. Keeps(m, u) /\ u.off = m.off + Field.bits
  BY <1>5, MovedIs DEF Keeps
<1>7. [m EXCEPT !.off = @ + Field.bits, !.loop.at = @ + 1] = [u EXCEPT !.loop.at = @ + 1]
  BY <1>5 DEF Keeps, IsFrame
<1> HIDE DEF u
<1>8. Keeps(Top, u)
  BY <1>5, <1>6, KeepsOn
<1>9. AreFrames(WithTop([u EXCEPT !.loop.at = @ + 1]), Writing)
  BY <1>1, <1>4, <1>5, <1>6, <1>8, TopLoops
<1> QED BY <1>2, <1>7, <1>9 DEF m

-----------------------------------------------------------------------------
(* Nested composites.                                                      *)

(* The body that meets a composite waits at it, with an object to write.   *)
LEMMA NestedIs ==
  ASSUME KInv, AtNested
  PROVE  /\ stack # << >> /\ Writing \in BOOLEAN /\ AreFrames(stack, Writing) /\ FrameOK(Top, Writing)
         /\ Field = Top.todo[1].f /\ IsComposite(Field) /\ Field.ref \in TypeIds
         /\ Waiting(Top, Field.ref) /\ IsFrame(Top)
         /\ Writing => Element(Top, Field) \in Objects(Field.ref)
<1>1. /\ stack # << >> /\ Top.todo # << >> /\ Top.err = Ok /\ IsComposite(Field)
      /\ \/ Step.kind = "field" /\ ~IsArray(Field)
         \/ Step.kind = "elements" /\ Top.loop.at < Top.loop.count
  BY DEF AtNested, AtField, AtStep, Healthy
<1>2. /\ Writing \in BOOLEAN /\ AreFrames(stack, Writing) /\ FrameOK(Top, Writing) /\ IsFrame(Top)
      /\ Step = Top.todo[1] /\ Field = Top.todo[1].f /\ IsFieldOf(Field)
  BY <1>1, AtTop DEF Field
<1>3. Field.ref \in TypeIds
  BY <1>1, <1>2, FieldOf
<1>4. Waiting(Top, Field.ref)
  BY <1>1, <1>2 DEF Waiting
<1>5. Writing => Element(Top, Field) \in Objects(Field.ref)
  BY <1>1, <1>2, ElementIs DEF FrameOK
<1> QED BY <1>1, <1>2, <1>3, <1>4, <1>5

LEMMA Called ==
  ASSUME KInv, AtNested, NEW body \in Bodies[Field.ref][Writing], NEW base,
         NEW cap, ~Writing => cap \in Nat
  PROVE  AreFrames(Append(stack, NewFrame(Field.ref, body, base, cap, Element(Top, Field), Writing)), Writing)
<1>1. /\ stack # << >> /\ Writing \in BOOLEAN /\ AreFrames(stack, Writing)
      /\ Field.ref \in TypeIds /\ Waiting(Top, Field.ref)
      /\ Writing => Element(Top, Field) \in Objects(Field.ref)
  BY NestedIs
<1> DEFINE t == NewFrame(Field.ref, body, base, cap, Element(Top, Field), Writing)
<1>2. FrameOK(t, Writing) /\ t.type = Field.ref
  BY <1>1, FrameStarts
<1> HIDE DEF t
<1>3. AreFrames(Append(stack, t), Writing)
  BY <1>1, <1>2, FramePushed
<1> QED BY <1>3 DEF t

(* What a reader has left is a size.                                       *)
LEMMA LeftIs ==
  ASSUME NEW cap \in Nat, NEW at \in Nat
  PROVE  /\ ~ (at \div ByteBits < cap) => cap - cap \in Nat
         /\ at \div ByteBits < cap => cap - at \div ByteBits \in Nat
<1>1. at \div ByteBits \in Nat
  BY DEF ByteBits
<1> QED BY <1>1

LEMMA RoomIs ==
  ASSUME KInv, AtNested, ~Writing, NEW at \in Nat
  PROVE  Top.cap - ByteAt(Top, at, Writing) \in Nat
<1>1. Top.cap \in Nat
  BY NestedIs DEF FrameOK, WellFormed
<1> QED BY <1>1, LeftIs DEF ByteAt

LEMMA EnterSealedKeeps ==
  ASSUME KInv, EnterSealed
  PROVE  AreFrames(stack', Writing)
<1>1. AtNested
  BY DEF EnterSealed
<1> DEFINE taken == ByteAt(Top, Top.off, Writing)
<1>2. PICK body \in Bodies[Field.ref][Writing] :
        stack' = Append(stack, NewFrame(Field.ref, body, Top.base + taken, Top.cap - taken,
                                        Element(Top, Field), Writing))
  BY DEF EnterSealed
<1>3. Top.off \in Nat
  BY <1>1, NestedIs DEF Waiting, FrameOK, WellFormed
<1>4. ~Writing => Top.cap - taken \in Nat
  BY <1>1, <1>3, RoomIs
<1> HIDE DEF taken
<1> QED BY <1>1, <1>2, <1>4, Called

LEMMA EnterDelimitedKeeps ==
  ASSUME KInv, EnterDelimited
  PROVE  AreFrames(stack', Writing)
<1>1. AtNested
  BY DEF EnterDelimited
<1> DEFINE at == Top.off + HeaderBits
           taken == ByteAt(Top, at, Writing)
           remaining == Top.cap - taken
           declared == ReadAt(Top, Top.off, HeaderBits)
           given == IF Writing THEN remaining ELSE declared
<1>2. PICK body \in Bodies[Field.ref][Writing] :
        stack' = IF BeyondBuffer(given, remaining) THEN WithTop(PastNested(Top, Field, at, BadHeader))
                 ELSE Append(stack, NewFrame(Field.ref, body, Top.base + taken, given,
                                             Element(Top, Field), Writing))
  BY DEF EnterDelimited
<1>3. declared \in Nat
  BY LayoutConstants, BitsAtIs DEF ReadAt
<1>4. ~Writing => given \in Nat
  BY <1>3
<1> HIDE DEF given, taken, at
<1>5. AreFrames(Append(stack, NewFrame(Field.ref, body, Top.base + taken, given,
                                       Element(Top, Field), Writing)), Writing)
  BY <1>1, <1>4, Called
<1>6. AreFrames(WithTop(PastNested(Top, Field, at, BadHeader)), Writing)
  <2> DEFINE p == PastNested(Top, Field, at, BadHeader)
  <2>1. /\ stack # << >> /\ Writing \in BOOLEAN /\ AreFrames(stack, Writing) /\ FrameOK(Top, Writing)
        /\ Field = Top.todo[1].f /\ Waiting(Top, Field.ref) /\ IsFrame(Top)
    BY <1>1, NestedIs
  <2>2. Keeps(Top, Top) /\ BadHeader # Ok
    BY <2>1 DEF Keeps, BadHeader, Ok
  <2>3. FrameOK(p, Writing) /\ SameBody(Top, p, Writing)
    BY <2>1, <2>2, NestedPast
  <2> HIDE DEF p
  <2>4. AreFrames(WithTop(p), Writing)
    BY <2>1, <2>3, FrameReplaced DEF SameBody
  <2> QED BY <2>4 DEF p
<1> QED BY <1>2, <1>5, <1>6

(* The caller of the body that ends.                                       *)
LEMMA OuterIs ==
  ASSUME KInv, AtReturn
  PROVE  /\ Writing \in BOOLEAN /\ AreFrames(stack, Writing) /\ Len(stack) > 1
         /\ FrameOK(Top, Writing) /\ FrameOK(Outer, Writing) /\ IsFrame(Outer)
         /\ Head(Outer.todo) = Outer.todo[1] /\ Outer.off \in Nat
         /\ Waiting(Outer, Outer.todo[1].f.ref) /\ IsFieldOf(Outer.todo[1].f)
         /\ IsComposite(Outer.todo[1].f) /\ Outer.todo[1].bits = FixedBits[Outer.todo[1].f.ref]
<1>1. Writing \in BOOLEAN /\ AreFrames(stack, Writing) /\ Len(stack) > 1
  BY DEF KInv, Writing, AtReturn
<1>2. stack # << >>
  BY <1>1, HeldNothing
<1>3. /\ FrameOK(Top, Writing) /\ FrameOK(Outer, Writing) /\ IsFrame(Outer) /\ Outer.type \in TypeIds
      /\ Waiting(Outer, Top.type)
  BY <1>1, <1>2, TopIs
<1>4. IsTodo(Outer.type, Writing, Outer.todo) /\ Outer.todo # << >> /\ Outer.err = Ok
  BY <1>3 DEF FrameOK, WellFormed, Waiting
<1>5. Head(Outer.todo) = Outer.todo[1] /\ IsStep(Outer.type, Writing, Outer.todo[1])
  BY <1>4, TodoHead
<1>6. /\ IsComposite(Outer.todo[1].f) /\ Outer.todo[1].f.ref = Top.type
      /\ Outer.todo[1].kind \in {"field", "elements"}
  BY <1>3 DEF Waiting
<1>7. IsOfField(Outer.type, Writing, Outer.todo[1])
  BY <1>1, <1>3, <1>5, <1>6, StepIs
<1>8. IsFieldOf(Outer.todo[1].f) /\ Outer.todo[1].bits = FixedBits[Outer.todo[1].f.ref]
  BY <1>3, <1>6, <1>7 DEF IsOfField, IsFieldOf
<1>9. Outer.off \in Nat
  BY <1>3, <1>4 DEF FrameOK, WellFormed
<1> QED BY <1>1, <1>3, <1>5, <1>6, <1>8, <1>9

LEMMA ReturnedIs ==
  ASSUME KInv, AtReturn, NEW f
  PROVE  Keeps(Outer, Returned(f)) /\ (Writing => Returned(f).obj = Outer.obj)
<1>1. IsFrame(Outer)
  BY OuterIs
<1>2. Keeps(Outer, Outer)
  BY <1>1 DEF Keeps
<1> QED BY <1>1, <1>2, WithElementIs DEF Returned

(* The container moves by what the composite takes of it.                  *)
LEMMA OuterPast ==
  ASSUME KInv, AtReturn, NEW off, NEW err,
         err = Ok => off \in Nat /\ MovesBy(Outer.todo[1].f, Writing, off - Outer.off)
  PROVE  AreFrames(Popped(PastNested(Returned(Outer.todo[1].f), Outer.todo[1].f, off, err)), Writing)
<1> DEFINE f == Outer.todo[1].f
           u == Returned(f)
           p == PastNested(u, f, off, err)
<1>1. /\ Writing \in BOOLEAN /\ AreFrames(stack, Writing) /\ Len(stack) > 1
      /\ FrameOK(Outer, Writing) /\ Waiting(Outer, f.ref)
  BY OuterIs
<1>2. Keeps(Outer, u) /\ (Writing => u.obj = Outer.obj)
  BY ReturnedIs
<1> HIDE DEF u
<1>3. FrameOK(p, Writing) /\ SameBody(Outer, p, Writing)
  BY <1>1, <1>2, NestedPast
<1> HIDE DEF p
<1>4. AreFrames(Popped(p), Writing)
  BY <1>1, <1>3, FramePopped DEF SameBody
<1> QED BY <1>4 DEF p, u

(* What a body that did not fail says it used.                             *)
LEMMA UsedIs ==
  ASSUME NEW t, t.err = Ok, t.off \in Nat, NEW w \in BOOLEAN, ~w => t.cap \in Nat
  PROVE  Used(t, w) \in Nat
<1>1. t.off \div ByteBits \in Nat
  BY DEF ByteBits
<1>2. PadTo(t.off, ByteBits) \in Nat
  BY DEF PadTo, ByteBits
<1> DEFINE a == PadTo(t.off, ByteBits)
<1> HIDE DEF a
<1>3. ~w => (IF a < t.cap * ByteBits THEN a ELSE t.cap * ByteBits) \div ByteBits \in Nat
  BY <1>2 DEF a, ByteBits
<1> QED BY <1>1, <1>3 DEF Used, a

LEMMA WholeBytes ==
  ASSUME NEW n \in Nat
  PROVE  n * ByteBits \in Nat /\ (n * ByteBits) % ByteBits = 0
BY DEF ByteBits

LEMMA LeaveSealedKeeps ==
  ASSUME KInv, LeaveSealed
  PROVE  AreFrames(stack', Writing)
<1>1. AtReturn
  BY DEF LeaveSealed
<1>2. /\ Writing \in BOOLEAN /\ FrameOK(Top, Writing) /\ Head(Outer.todo) = Outer.todo[1]
      /\ Outer.off \in Nat /\ IsFieldOf(Outer.todo[1].f) /\ IsComposite(Outer.todo[1].f)
      /\ Outer.todo[1].bits = FixedBits[Outer.todo[1].f.ref]
  BY <1>1, OuterIs
<1> DEFINE f == Outer.todo[1].f
           bits == Outer.todo[1].bits
           n == IF bits # Unknown THEN bits ELSE Used(Top, Writing) * ByteBits
<1>3. IsSealed[f.ref] /\ stack' = Popped(PastNested(Returned(f), f, Outer.off + n, Top.err))
  BY <1>2 DEF LeaveSealed
<1>4. ASSUME Top.err = Ok PROVE n \in Nat /\ MovesBy(f, Writing, n)
  <2>1. Top.off \in Nat /\ (~Writing => Top.cap \in Nat)
    BY <1>2, <1>4 DEF FrameOK, WellFormed
  <2>2. Used(Top, Writing) * ByteBits \in Nat /\ (Used(Top, Writing) * ByteBits) % ByteBits = 0
    BY <1>2, <1>4, <2>1, UsedIs, WholeBytes
  <2>3. FieldWidth(f, Writing) = bits /\ (bits # Unknown => bits \in Nat)
    BY <1>2, <1>3, WidthIs
  <2> HIDE DEF f, bits
  <2> QED BY <2>2, <2>3 DEF MovesBy
<1> DEFINE off == Outer.off + n
<1>5. Top.err = Ok => off \in Nat /\ off - Outer.off = n
  <2> HIDE DEF n
  <2> QED BY <1>2, <1>4
<1> HIDE DEF n, off
<1>6. Top.err = Ok => off \in Nat /\ MovesBy(f, Writing, off - Outer.off)
  BY <1>4, <1>5
<1>7. AreFrames(Popped(PastNested(Returned(f), f, off, Top.err)), Writing)
  BY <1>1, <1>6, OuterPast
<1> QED BY <1>3, <1>7 DEF off

LEMMA LeaveDelimitedKeeps ==
  ASSUME KInv, LeaveDelimited
  PROVE  AreFrames(stack', Writing)
<1>1. AtReturn
  BY DEF LeaveDelimited
<1>2. /\ Writing \in BOOLEAN /\ FrameOK(Top, Writing) /\ Head(Outer.todo) = Outer.todo[1]
      /\ Outer.off \in Nat /\ IsFieldOf(Outer.todo[1].f) /\ IsComposite(Outer.todo[1].f)
      /\ Outer.todo[1].bits = FixedBits[Outer.todo[1].f.ref]
  BY <1>1, OuterIs
<1> DEFINE step == Outer.todo[1]
           f == step.f
           at == Outer.off + HeaderBits
           span == Span(step, Top, Writing)
           valid == FoldError(Top.err, IF Writing /\ BeyondBuffer(span, Top.cap) THEN BadHeader ELSE Ok)
           err == IF Fits(Outer, Outer.off, HeaderBits) \/ ~Writing THEN Ok ELSE TooSmall
           off == at + span * ByteBits
<1>3. ~IsSealed[f.ref]
  BY <1>2 DEF LeaveDelimited
<1>4. stack' = IF valid = Ok THEN Popped(PastNested(Returned(f), f, off, err))
               ELSE Popped(PastNested(Returned(f), f, at, valid))
  BY <1>2 DEF LeaveDelimited
<1>5. valid # Ok => AreFrames(Popped(PastNested(Returned(f), f, at, valid)), Writing)
  <2> HIDE DEF at, valid
  <2> QED BY <1>1, OuterPast
<1>6. ASSUME valid = Ok PROVE off \in Nat /\ MovesBy(f, Writing, off - Outer.off)
  <2>1. Top.err = Ok
    <3> DEFINE next == IF Writing /\ BeyondBuffer(span, Top.cap) THEN BadHeader ELSE Ok
    <3> HIDE DEF next
    <3> QED BY <1>6 DEF FoldError, next
  <2>2. Top.off \in Nat /\ (~Writing => Top.cap \in Nat)
    BY <1>2, <2>1 DEF FrameOK, WellFormed
  <2>3. Used(Top, TRUE) \in Nat
    BY <2>1, <2>2, UsedIs
  <2>4. /\ HeaderBits \in Nat /\ HeaderBits % ByteBits = 0
        /\ FixedBits[f.ref] \in Nat \cup {Unknown}
        /\ FixedBits[f.ref] # Unknown => FixedBits[f.ref] \in Nat /\ FixedBits[f.ref] % ByteBits = 0
        /\ FieldWidth(f, Writing) = IF Writing /\ FixedBits[f.ref] # Unknown
                                    THEN HeaderBits + FixedBits[f.ref] ELSE Unknown
    BY <1>2, <1>3, WidthIs, LayoutConstants
  <2> DEFINE bits == FixedBits[f.ref]
             used == Used(Top, TRUE)
  <2>5. span = IF ~Writing THEN Top.cap ELSE IF bits # Unknown THEN bits \div ByteBits ELSE used
    BY <1>2 DEF Span
  <2> HIDE DEF bits, used, f, span
  <2>6. span \in Nat /\ (Writing /\ bits # Unknown => span * ByteBits = bits)
    <3>1. bits # Unknown => bits \in Nat /\ bits % ByteBits = 0
      BY <2>4 DEF bits
    <3>2. bits # Unknown => bits \div ByteBits \in Nat /\ (bits \div ByteBits) * ByteBits = bits
      BY <3>1 DEF ByteBits
    <3>3. used \in Nat
      BY <2>3 DEF used
    <3> QED BY <2>2, <2>5, <3>2, <3>3
  <2>7. span * ByteBits \in Nat /\ (span * ByteBits) % ByteBits = 0
    BY <2>6, WholeBytes
  <2>8. off \in Nat /\ off - Outer.off = HeaderBits + span * ByteBits
    BY <1>2, <2>4, <2>7
  <2> DEFINE n == HeaderBits + span * ByteBits
  <2>9. n \in Nat /\ n % ByteBits = 0
    BY <2>4, <2>7 DEF ByteBits
  <2>10. Writing /\ bits # Unknown => n = HeaderBits + bits
    BY <2>6
  <2>11. off - Outer.off = n
    BY <2>8
  <2>12. FieldWidth(f, Writing) # Unknown => Writing /\ bits # Unknown /\ FieldWidth(f, Writing) = HeaderBits + bits
    BY <2>4 DEF bits
  <2> HIDE DEF n
  <2>13. MovesBy(f, Writing, n)
    BY <2>9, <2>10, <2>12 DEF MovesBy
  <2> QED BY <2>8, <2>11, <2>13
<1>7. valid = Ok => AreFrames(Popped(PastNested(Returned(f), f, off, err)), Writing)
  <2> HIDE DEF off, valid, err
  <2> QED BY <1>1, <1>6, OuterPast
<1> HIDE DEF valid
<1> QED BY <1>4, <1>5, <1>7

-----------------------------------------------------------------------------
(* The invariant.                                                          *)

LEMMA InitKeeps == Init => KInv
<1> SUFFICES ASSUME Init PROVE KInv
  OBVIOUS
<1>1. size \in Nat
  BY PlanConstants DEF Init
<1>2. AreFrames(stack, Writing)
  BY NoFrames DEF Init
<1> QED BY <1>1, <1>2 DEF Init, KInv

(* A step inside a body leaves what the caller knows alone.                *)
LEMMA BodyKeeps ==
  ASSUME KInv, UNCHANGED callerVars, AreFrames(stack', Writing), stack # << >>
  PROVE  KInv'
<1>1. /\ phase' = phase /\ writer' = writer /\ reader' = reader /\ source' = source
      /\ size' = size /\ length' = length
  BY DEF callerVars
<1>2. phase \in {"writing", "reading"}
  BY DEF KInv
<1>3. AreFrames(stack', Writing')
  BY <1>1 DEF Writing
<1> QED BY <1>1, <1>2, <1>3 DEF KInv

LEMMA ReturnKeeps ==
  ASSUME KInv, Return
  PROVE  KInv'
<1>1. /\ stack' = << >> /\ UNCHANGED <<writer, source, size, reader>> /\ Len(stack) = 1
      /\ Writing => length' = Used(Top, TRUE)
      /\ ~Writing => length' = length
  BY DEF Return
<1>2. AreFrames(stack', Writing')
  BY <1>1, NoFrames
<1>3. ASSUME Writing PROVE Used(Top, TRUE) \in Nat
  <2>1. AreFrames(stack, Writing) /\ stack # << >>
    BY <1>1, HeldNothing DEF KInv
  <2>2. FrameOK(Top, Writing) /\ Top.cap \in Nat
    BY <1>1, <2>1, TopIs
  <2>3. Top.err = Ok => Top.off \in Nat
    BY <2>2 DEF FrameOK, WellFormed
  <2>4. Top.err = Ok => Used(Top, TRUE) \in Nat
    BY <2>3, UsedIs
  <2>5. Top.err # Ok => Used(Top, TRUE) = Top.cap
    BY DEF Used
  <2> QED BY <2>2, <2>4, <2>5
<1>4. length' \in Nat
  BY <1>1, <1>3 DEF KInv
<1> QED BY <1>1, <1>2, <1>4 DEF KInv

LEMMA SerializeKeeps ==
  ASSUME KInv, Serialize
  PROVE  KInv'
<1>1. phase' = "writing" /\ UNCHANGED <<writer, source, size, length, reader>>
  BY DEF Serialize
<1>2. PICK w \in BOOLEAN : w = TRUE
  OBVIOUS
<1>3. PICK body \in Bodies[writer][w] : stack' = <<NewFrame(writer, body, 0, size, source, w)>>
  BY <1>2 DEF Serialize
<1> DEFINE t == NewFrame(writer, body, 0, size, source, w)
<1>4. FrameOK(t, w) /\ t.cap = size
  <2>1. writer \in TypeIds /\ (w => source \in Objects(writer)) /\ (~w => size \in Nat)
    BY DEF KInv
  <2> QED BY <2>1, FrameStarts
<1>5. stack' = <<t>>
  BY <1>3
<1> HIDE DEF t
<1>6. AreFrames(<<t>>, w)
  BY <1>4, FrameAlone DEF KInv
<1>7. Writing' = w
  BY <1>1, <1>2 DEF Writing
<1>8. AreFrames(stack', Writing')
  BY <1>5, <1>6, <1>7
<1> QED BY <1>1, <1>8 DEF KInv

LEMMA DeserializeKeeps ==
  ASSUME KInv, Deserialize
  PROVE  KInv'
<1>1. phase' = "reading" /\ UNCHANGED <<writer, source, size, length, reader>>
  BY DEF Deserialize
<1>2. PICK w \in BOOLEAN : w = FALSE
  OBVIOUS
<1>3. PICK body \in Bodies[reader][w] : stack' = <<NewFrame(reader, body, 0, size, Stale[reader], w)>>
  BY <1>2 DEF Deserialize
<1> DEFINE t == NewFrame(reader, body, 0, size, Stale[reader], w)
<1>4. FrameOK(t, w) /\ t.cap = size
  <2>1. reader \in TypeIds /\ size \in Nat
    BY DEF KInv
  <2> QED BY <1>2, <2>1, FrameStarts
<1>5. stack' = <<t>>
  BY <1>3
<1> HIDE DEF t
<1>6. AreFrames(<<t>>, w)
  BY <1>4, FrameAlone DEF KInv
<1>7. Writing' = w
  BY <1>1, <1>2 DEF Writing
<1>8. AreFrames(stack', Writing')
  BY <1>5, <1>6, <1>7
<1> QED BY <1>1, <1>8 DEF KInv

LEMMA DeliverKeeps ==
  ASSUME KInv, Deliver
  PROVE  KInv'
<1>1. /\ phase' = "delivered" /\ UNCHANGED <<writer, source, length, stack>>
      /\ reader' \in TypeIds /\ size' \in Nat
  BY PlanConstants DEF Deliver, KInv
<1>2. stack' = << >>
  BY <1>1 DEF KInv, Deliver
<1>3. AreFrames(stack', Writing')
  BY <1>2, NoFrames
<1> QED BY <1>1, <1>2, <1>3 DEF KInv

LEMMA PadKeeps ==
  ASSUME KInv, Pad
  PROVE  KInv'
<1>1. /\ phase' = "delivered" /\ UNCHANGED <<writer, source, length, stack, reader>>
      /\ size' = length /\ phase = "read"
  BY DEF Pad
<1>2. stack' = << >>
  BY <1>1 DEF KInv
<1>3. AreFrames(stack', Writing')
  BY <1>2, NoFrames
<1> QED BY <1>1, <1>2, <1>3 DEF KInv

LEMMA StaysKeeps ==
  ASSUME KInv, UNCHANGED vars
  PROVE  KInv'
<1>1. UNCHANGED <<phase, writer, source, size, length, stack, reader>>
  BY DEF vars
<1>2. AreFrames(stack', Writing')
  BY <1>1 DEF KInv, Writing
<1> QED BY <1>1, <1>2 DEF KInv

LEMMA NextKeeps == KInv /\ [Next]_vars => KInv'
<1> SUFFICES ASSUME KInv, [Next]_vars PROVE KInv'
  OBVIOUS
<1>1. CASE Serialize
  BY <1>1, SerializeKeeps
<1>2. CASE Deliver
  BY <1>2, DeliverKeeps
<1>3. CASE Deserialize
  BY <1>3, DeserializeKeeps
<1>4. CASE Pad
  BY <1>4, PadKeeps
<1>5. CASE Stopped \/ UNCHANGED vars
  BY <1>5, StaysKeeps DEF Stopped
<1>6. CASE WriteTag
  BY <1>6, WriteTagKeeps, BodyKeeps DEF WriteTag, AtStep
<1>7. CASE ReadTag
  BY <1>7, ReadTagKeeps, BodyKeeps DEF ReadTag, AtStep
<1>8. CASE WriteScalar
  BY <1>8, WriteScalarKeeps, BodyKeeps DEF WriteScalar, AtField, AtStep
<1>9. CASE ReadScalar
  BY <1>9, ReadScalarKeeps, BodyKeeps DEF ReadScalar, AtField, AtStep
<1>10. CASE Padding
  BY <1>10, PaddingKeeps, BodyKeeps DEF Padding, AtField, AtStep
<1>11. CASE Align
  BY <1>11, AlignKeeps, BodyKeeps DEF Align, AtStep
<1>12. CASE WriteArray
  BY <1>12, WriteArrayKeeps, BodyKeeps DEF WriteArray, AtField, AtStep
<1>13. CASE ReadArray
  BY <1>13, ReadArrayKeeps, BodyKeeps DEF ReadArray, AtField, AtStep
<1>14. CASE WriteElement
  BY <1>14, WriteElementKeeps, BodyKeeps DEF WriteElement, AtElement, AtStep
<1>15. CASE ReadElement
  BY <1>15, ReadElementKeeps, BodyKeeps DEF ReadElement, AtElement, AtStep
<1>16. CASE EndArray
  BY <1>16, EndArrayKeeps, BodyKeeps DEF EndArray, AtStep
<1>17. CASE WriteImage \/ ReadImage
  BY <1>17, ImageKeeps, BodyKeeps DEF WriteImage, ReadImage, AtStep
<1>18. CASE EnterSealed
  BY <1>18, EnterSealedKeeps, NestedIs, BodyKeeps DEF EnterSealed
<1>19. CASE EnterDelimited
  BY <1>19, EnterDelimitedKeeps, NestedIs, BodyKeeps DEF EnterDelimited
<1>20. CASE LeaveSealed
  <2>1. stack # << >>
    BY <1>20, HeldNothing DEF LeaveSealed, AtReturn
  <2> QED BY <1>20, <2>1, LeaveSealedKeeps, BodyKeeps DEF LeaveSealed
<1>21. CASE LeaveDelimited
  <2>1. stack # << >>
    BY <1>21, HeldNothing DEF LeaveDelimited, AtReturn
  <2> QED BY <1>21, <2>1, LeaveDelimitedKeeps, BodyKeeps DEF LeaveDelimited
<1>22. CASE Skip
  BY <1>22, SkipKeeps, BodyKeeps DEF Skip
<1>23. CASE Return
  BY <1>23, ReturnKeeps
<1> QED
  BY <1>1, <1>2, <1>3, <1>4, <1>5, <1>6, <1>7, <1>8, <1>9, <1>10, <1>11, <1>12, <1>13, <1>14,
     <1>15, <1>16, <1>17, <1>18, <1>19, <1>20, <1>21, <1>22, <1>23 DEF Next, Body

LEMMA KeepsKnowledge == KInv => KnowledgeIsSound
<1> SUFFICES ASSUME KInv, NEW d \in DOMAIN stack, stack[d].err = Ok, stack[d].todo # << >>,
                    Head(stack[d].todo).kind # "elements"
             PROVE  Knows(Head(stack[d].todo).known, stack[d].off)
  BY DEF KnowledgeIsSound, Knows
<1>1. d \in 1 .. Len(stack)
  BY HeldIs DEF KInv, AreFrames
<1>2. WellFormed(stack[d], Writing) /\ Knowing(stack[d], Writing)
  BY <1>1 DEF KInv, AreFrames
<1>3. Head(stack[d].todo) = stack[d].todo[1]
  BY <1>2, TodoHead DEF WellFormed
<1> QED BY <1>2, <1>3 DEF Knowing

(* Whatever the definitions, objects and buffers, every frame of the       *)
(* bodies is where the plan says: its steps are steps of the definition's  *)
(* body, its loop has the array's bound, its caller waits at the composite *)
(* it is for, and what the builder put in the step is true of the offset.  *)
THEOREM FramesAreSound == Spec => []KInv
<1>1. Init => KInv
  BY InitKeeps
<1>2. KInv /\ [Next]_vars => KInv'
  BY NextKeeps
<1> QED BY <1>1, <1>2, PTL DEF Spec

(* The constants the builder spells from a PlanCursor are right at every   *)
(* step a body takes while nothing has failed.                             *)
THEOREM KnowledgeCorrect == Spec => []KnowledgeIsSound
<1>1. KInv => KnowledgeIsSound
  BY KeepsKnowledge
<1> QED BY <1>1, FramesAreSound, PTL

(* computeWireFlat and computeHostImage, and verifyPlan after them, for    *)
(* whatever definitions the analyser accepts: no body is reached whose     *)
(* definition has a verdict that the compiler's own layout denies.         *)
THEOREM ImageCorrect == Spec => []ImageIsTheStructure
<1>1. KInv => ImageIsTheStructure
  <2> SUFFICES ASSUME writer \in TypeIds PROVE ImageIsTheStructure
    BY DEF KInv
  <2>1. IsTheStructure(writer, WireFlat[writer], HostImage[writer].holds)
    BY AllAccepted, VerdictsAreRight
  <2> QED BY <2>1, Zenon DEF ImageIsTheStructure
<1> QED BY <1>1, FramesAreSound, PTL

-----------------------------------------------------------------------------
(* What a body has left, as the plan has it.                               *)

IsCopy(body, steps) ==
    /\ Len(body) = Len(steps)
    /\ \A n \in 1 .. Len(steps) : body[n].kind = steps[n].kind /\ body[n].field = steps[n].field

(* The builder put the step where the offset is a multiple of eight, ...   *)
StartsOnByte(s) == s.kind \in {"field", "elements"} /\ IsComposite(s.f) => s.known.residue = 0

(* ... also the steps of a union's options, which are the plan's.          *)
IsPlanned(i, s) ==
    /\ StartsOnByte(s)
    /\ s.kind = "tag" =>
          \A k \in DOMAIN Fields[i] :
            /\ IsCopy(s.arms[k], FieldSteps(Fields[i][k], k))
            /\ \A n \in 1 .. Len(s.arms[k]) : StartsOnByte(s.arms[k][n])

InLoop(t) == t.todo # << >> /\ t.todo[1].kind = "elements"

LEMMA FrameIs ==
  ASSUME NEW w \in BOOLEAN, NEW t, FrameOK(t, w)
  PROVE  /\ IsFrame(t) /\ t.type \in TypeIds /\ IsTodo(t.type, w, t.todo) /\ t.loop.at \in Nat
         /\ t.err = Ok => t.off \in Nat
         /\ t.todo # << >> => IsStep(t.type, w, t.todo[1])
         /\ t.err = Ok /\ t.todo # << >> /\ t.todo[1].kind # "elements" => Knows(t.todo[1].known, t.off)
BY TodoHead DEF FrameOK, WellFormed, Knowing

(* What is left past a step.                                               *)
LEMMA RestIs ==
  ASSUME NEW i \in TypeIds, NEW w \in BOOLEAN, NEW todo, IsTodo(i, w, todo), todo # << >>
  PROVE  /\ Len(todo) \in Nat /\ Len(todo) > 0 /\ Len(Tail(todo)) = Len(todo) - 1
         /\ \A n \in 1 .. Len(Tail(todo)) : Tail(todo)[n] = todo[n + 1]
         /\ Tail(todo) # << >> => Tail(todo)[1].kind # "elements"
         /\ Tail(todo) \in Seq(Held(Tail(todo)))
         /\ (\A n \in 1 .. Len(todo) : IsPlanned(i, todo[n]))
              => \A n \in 1 .. Len(Tail(todo)) : IsPlanned(i, Tail(todo)[n])
<1>1. todo \in Seq(Held(todo)) /\ Len(todo) \in Nat /\ Len(todo) > 0
  BY HeldIs DEF IsTodo
<1>2. /\ Tail(todo) \in Seq(Held(Tail(todo))) /\ Len(Tail(todo)) = Len(todo) - 1
      /\ \A n \in 1 .. Len(Tail(todo)) : Tail(todo)[n] = todo[n + 1]
  BY <1>1, HeldTail
<1>3. Tail(todo) # << >> => Tail(todo)[1].kind # "elements"
  BY TodoPast
<1>4. ASSUME \A n \in 1 .. Len(todo) : IsPlanned(i, todo[n])
      PROVE  \A n \in 1 .. Len(Tail(todo)) : IsPlanned(i, Tail(todo)[n])
  <2>1. \A n \in 1 .. Len(Tail(todo)) : n + 1 \in 1 .. Len(todo)
    BY <1>1, <1>2
  <2> QED BY <1>2, <1>4, <2>1
<1> QED BY <1>1, <1>2, <1>3, <1>4

-----------------------------------------------------------------------------
(* A plan has a step for every field but one that is only padding.         *)

Covers(steps, k) == \E n \in 1 .. Len(steps) : steps[n].kind = "field" /\ steps[n].field = k

LEMMA CoversBoth ==
  ASSUME NEW a, a \in Seq(Held(a)), NEW b, b \in Seq(Held(b)), NEW k, Covers(a, k) \/ Covers(b, k)
  PROVE  Covers(a \o b, k)
<1> DEFINE r == a \o b
<1>1. /\ Len(a) \in Nat /\ Len(b) \in Nat /\ Len(r) = Len(a) + Len(b)
      /\ \A n \in 1 .. Len(a) : r[n] = a[n]
      /\ \A n \in 1 .. Len(b) : r[Len(a) + n] = b[n]
  BY HeldJoins DEF Joins
<1> HIDE DEF r
<1>2. /\ \A n \in 1 .. Len(a) : n \in 1 .. Len(r)
      /\ \A n \in 1 .. Len(b) : Len(a) + n \in 1 .. Len(r)
  BY <1>1
<1>3. ASSUME Covers(a, k) PROVE Covers(r, k)
  BY <1>1, <1>2, <1>3 DEF Covers
<1>4. ASSUME Covers(b, k) PROVE Covers(r, k)
  <2>1. PICK n \in 1 .. Len(b) : b[n].kind = "field" /\ b[n].field = k
    BY <1>4 DEF Covers
  <2>2. PICK m : m = Len(a) + n
    OBVIOUS
  <2>3. m \in 1 .. Len(r) /\ r[m] = b[n]
    BY <1>1, <1>2, <2>2
  <2> QED BY <2>1, <2>3 DEF Covers
<1> QED BY <1>3, <1>4 DEF r

LEMMA FieldCovers ==
  ASSUME NEW i \in TypeIds, NEW k \in DOMAIN Fields[i], Fields[i][k].cat # "void"
  PROVE  Covers(FieldSteps(Fields[i][k], k), k)
<1> DEFINE f == Fields[i][k]
           first == IF AlignmentOf(f) > 1 THEN <<AlignStep>> ELSE << >>
           then == IF f.cat = "void" /\ f.bits = 0 THEN << >> ELSE <<FieldStep(k)>>
           s == FieldStep(k)
           one == <<s>>
<1>1. FieldSteps(f, k) = first \o then
  BY Zenon DEF FieldSteps
<1>2. then = one
  OBVIOUS
<1>3. s.kind = "field" /\ s.field = k
  BY DEF FieldStep
<1> HIDE DEF f, then, s
<1>4. one \in Seq(Held(one)) /\ Len(one) = 1 /\ one[1] = s
  BY HeldOne
<1>5. first \in Seq(Held(first))
  <2>1. CASE AlignmentOf(f) > 1
    BY <2>1, HeldOne
  <2>2. CASE ~(AlignmentOf(f) > 1)
    BY <2>2, HeldNothing
  <2> QED BY <2>1, <2>2
<1> HIDE DEF one, first
<1>6. 1 \in 1 .. Len(one)
  BY <1>4
<1>7. Covers(one, k)
  BY <1>3, <1>4, <1>6 DEF Covers
<1> QED BY <1>1, <1>2, <1>4, <1>5, <1>7, CoversBoth DEF f

LEMMA StepsCover ==
  ASSUME NEW i \in TypeIds, ~IsUnion[i]
  PROVE  \A k \in DOMAIN Fields[i] : Fields[i][k].cat # "void" => Covers(Steps[i], k)
<1> DEFINE n == Len(Fields[i])
<1>1. /\ Types[i].fields = Fields[i] /\ n \in Nat /\ DOMAIN Fields[i] = 1 .. n /\ ~Types[i].union
      /\ Len(Types[i].fields) = n
  BY Definitions
<1>2. PICK from : FromUpTo(Fields[i], from) /\ Steps[i] = from[1]
  <2> DEFINE g == CHOOSE f : FromUpTo(Fields[i], f)
  <2>1. PICK f : FromUpTo(Fields[i], f) /\ f[1] \in Seq(PlanSteps(i))
    BY FromExists
  <2>2. FromUpTo(Fields[i], g)
    BY <2>1
  <2>3. Steps[i] = StepsOf(Types[i])
    BY DEF Steps
  <2>4. Steps[i] = g[1]
    BY <1>1, <2>3, Zenon DEF StepsOf, FromUpTo
  <2> QED BY <2>2, <2>4
<1>3. \A k \in 1 .. (n + 1) : from[k] = IF k > n THEN << >> ELSE FieldSteps(Fields[i][k], k) \o from[k + 1]
  BY <1>2, Zenon DEF FromUpTo
<1> HIDE DEF n
<1> DEFINE Good(k) == /\ from[k + 1] \in Seq(PlanSteps(i))
                      /\ \A j \in 1 .. n : j > k /\ Fields[i][j].cat # "void" => Covers(from[k + 1], j)
           N == {m \in Nat : m <= n => Good(n - m)}
<1>4. Good(n)
  <2>1. n + 1 \in 1 .. (n + 1) /\ n + 1 > n /\ \A j \in 1 .. n : ~(j > n)
    BY <1>1
  <2>2. from[n + 1] = << >>
    BY <1>3, <2>1
  <2>3. << >> \in Seq(PlanSteps(i))
    BY EmptySeq
  <2> QED BY <2>1, <2>2, <2>3
<1>5. ASSUME NEW k \in 0 .. (n - 1), Good(k + 1) PROVE Good(k)
  <2> DEFINE j == k + 1
             s == FieldSteps(Fields[i][j], j)
             b == from[j + 1]
             r == s \o b
  <2>1. j \in 1 .. (n + 1) /\ j \in 1 .. n /\ ~ (j > n) /\ j \in DOMAIN Fields[i]
    BY <1>1
  <2>2. from[j] = r
    BY <1>3, <2>1
  <2>3. s \in Seq(PlanSteps(i))
    BY <2>1, FieldStepsAre
  <2>4. /\ b \in Seq(PlanSteps(i))
        /\ \A h \in 1 .. n : h > j /\ Fields[i][h].cat # "void" => Covers(b, h)
    BY <1>5
  <2>5. Fields[i][j].cat # "void" => Covers(s, j)
    BY <2>1, FieldCovers
  <2>6. \A h \in 1 .. n : h > k => h > j \/ h = j
    BY <1>1
  <2> HIDE DEF j
  <2> HIDE DEF s, b
  <2>7. s \in Seq(Held(s)) /\ b \in Seq(Held(b))
    BY <2>3, <2>4, SequenceOfHeld
  <2>8. r \in Seq(PlanSteps(i))
    BY <2>3, <2>4, ConcatProperties
  <2>9. ASSUME NEW h \in 1 .. n, h > k, Fields[i][h].cat # "void" PROVE Covers(r, h)
    <3>1. Covers(s, h) \/ Covers(b, h)
      BY <2>4, <2>5, <2>6, <2>9
    <3> QED BY <2>7, <3>1, CoversBoth
  <2> HIDE DEF r
  <2>10. from[k + 1] = r
    BY <2>2 DEF j
  <2> QED BY <2>8, <2>9, <2>10
<1> HIDE DEF Good
<1>6. 0 \in N
  <2>1. n - 0 = n
    BY <1>1
  <2> QED BY <1>4, <2>1
<1>7. ASSUME NEW m \in Nat, m \in N PROVE m + 1 \in N
  <2> SUFFICES ASSUME m + 1 <= n PROVE Good(n - (m + 1))
    OBVIOUS
  <2>1. n - (m + 1) \in 0 .. (n - 1) /\ (n - (m + 1)) + 1 = n - m /\ m <= n
    BY <1>1
  <2>2. Good(n - m)
    BY <1>7, <2>1
  <2> QED BY <1>5, <2>1, <2>2
<1> HIDE DEF N
<1>8. n \in N
  BY <1>1, <1>6, <1>7, Induction
<1>9. Good(0)
  <2>1. n - n = 0 /\ n <= n
    BY <1>1
  <2> QED BY <1>8, <2>1 DEF N
<1>10. \A j \in 1 .. n : Fields[i][j].cat # "void" => Covers(from[1], j)
  <2>1. 0 + 1 = 1 /\ \A j \in 1 .. n : j > 0
    BY <1>1
  <2> QED BY <1>9, <2>1 DEF Good
<1> QED BY <1>1, <1>2, <1>10

-----------------------------------------------------------------------------
(* The wire primitives.                                                    *)

(* The memory "out" is "dst" but for "n" bits from "to" on, which are the  *)
(* ones of "src" from "from" on.                                           *)
Copied(dst, out, to, n, src, from) ==
    \A p : p \in out <=> IF p \in Positions(to, n) THEN from + (p - to) \in src ELSE p \in dst

LEMMA CopiedNothing ==
  ASSUME NEW dst, NEW to \in Nat, NEW src, NEW from
  PROVE  Copied(dst, dst, to, 0, src, from)
<1>1. Positions(to, 0) = {}
  BY DEF Positions
<1> QED BY <1>1 DEF Copied

(* A byte of a memory that is 8 * n + b is the place "b" of the byte "n".  *)
LEMMA PlaceIs ==
  ASSUME NEW at \in Nat, NEW n, n = at \div ByteBits
  PROVE  /\ n \in Nat /\ at % ByteBits \in 0 .. 7
         /\ at = ByteBits * n + (at % ByteBits)
BY DEF ByteBits

(* What masking in a byte makes of a memory: "w" bits from "at" on are   *)
(* those of "in".                                                         *)
LEMMA MaskedTo ==
  ASSUME NEW bits, NEW at \in Nat, NEW w \in Nat, (at % ByteBits) + w <= ByteBits,
         NEW in, NEW p
  PROVE  p \in Masked(bits, at, Positions(at % ByteBits, w), in)
           <=> IF p \in Positions(at, w) THEN (at % ByteBits) + (p - at) \in in ELSE p \in bits
<1> DEFINE n == at \div ByteBits
           r == at % ByteBits
           mask == Positions(r, w)
           byte == (ByteOf(bits, n) \ mask) \cup (in \cap mask)
<1>1. Masked(bits, at, mask, in) = WithByte(bits, n, byte)
  BY DEF Masked
<1>2. n \in Nat /\ r \in 0 .. 7 /\ at = 8 * n + r /\ r + w <= 8
  BY PlaceIs DEF ByteBits
<1>3. mask \subseteq 0 .. 7
  <2> HIDE DEF n, r
  <2> QED BY <1>2 DEF Positions
<1>4. byte \subseteq 0 .. 7
      /\ \A b \in 0 .. 7 : b \in byte <=> IF b \in mask THEN b \in in ELSE 8 * n + b \in bits
  <2>1. ByteOf(bits, n) = {b \in 0 .. 7 : 8 * n + b \in bits}
    BY DEF ByteOf, ByteBits
  <2> HIDE DEF n, mask
  <2> QED BY <1>3, <2>1
<1>5. WithByte(bits, n, byte) = (bits \ (8 * n .. (8 * n + 7))) \cup {8 * n + b : b \in byte}
  BY <1>2 DEF WithByte, Positions, ByteBits
<1>6. \A b : b \in mask <=> b \in Int /\ r <= b /\ b < r + w
  BY <1>2 DEF Positions
<1>7. \A q : q \in Positions(at, w) <=> q \in Int /\ at <= q /\ q < at + w
  BY DEF Positions
<1> HIDE DEF byte, n, r, mask
<1>8. CASE p \in 8 * n .. (8 * n + 7)
  <2>1. PICK b \in 0 .. 7 : p = 8 * n + b
    <3>1. p - 8 * n \in 0 .. 7 /\ p = 8 * n + (p - 8 * n)
      BY <1>2, <1>8
    <3> QED BY <3>1
  <2>2. p \in WithByte(bits, n, byte) <=> b \in byte
    <3>1. \A c \in byte : 8 * n + c = p => c = b
      BY <1>2, <1>4, <2>1
    <3>2. p \in WithByte(bits, n, byte) <=> \E c \in byte : p = 8 * n + c
      BY <1>5, <1>8
    <3> QED BY <2>1, <3>1, <3>2
  <2>3. b \in mask <=> p \in Positions(at, w)
    BY <1>2, <1>6, <1>7, <2>1
  <2>4. b = r + (p - at)
    BY <1>2, <2>1
  <2> QED BY <1>1, <1>4, <2>1, <2>2, <2>3, <2>4 DEF mask, r
<1>9. CASE p \notin 8 * n .. (8 * n + 7)
  <2>1. p \notin Positions(at, w)
    BY <1>2, <1>7, <1>9
  <2>2. \A b \in byte : 8 * n + b \in 8 * n .. (8 * n + 7)
    BY <1>2, <1>4
  <2>3. p \in WithByte(bits, n, byte) <=> p \in bits
    BY <1>5, <1>9, <2>2
  <2> QED BY <1>1, <2>1, <2>3 DEF mask, r
<1> QED BY <1>8, <1>9

(* A copy that goes on where another has ended.                            *)
LEMMA CopiedOn ==
  ASSUME NEW a, NEW b, NEW c, NEW to \in Nat, NEW from \in Nat, NEW src,
         NEW k \in Nat, NEW w \in Nat,
         Copied(a, b, to, k, src, from), Copied(b, c, to + k, w, src, from + k)
  PROVE  Copied(a, c, to, k + w, src, from)
<1>1. ASSUME NEW p
      PROVE  p \in c <=> IF p \in Positions(to, k + w) THEN from + (p - to) \in src ELSE p \in a
  <2>1. p \in c <=> IF p \in Positions(to + k, w) THEN (from + k) + (p - (to + k)) \in src ELSE p \in b
    BY Zenon DEF Copied
  <2>2. p \in b <=> IF p \in Positions(to, k) THEN from + (p - to) \in src ELSE p \in a
    BY Zenon DEF Copied
  <2>3. p \in Positions(to, k + w) <=> p \in Positions(to, k) \/ p \in Positions(to + k, w)
    BY DEF Positions
  <2>4. p \in Positions(to + k, w) => (from + k) + (p - (to + k)) = from + (p - to)
    BY DEF Positions
  <2> QED BY <2>1, <2>2, <2>3, <2>4
<1> QED BY <1>1, Zenon DEF Copied

(* The fast path, by bytes, with what is left of the last one masked in.   *)
LEMMA CopiedBytesAre ==
  ASSUME NEW dst, NEW to \in Nat, to % ByteBits = 0, NEW n \in Nat, NEW src,
         NEW from \in Nat, from % ByteBits = 0
  PROVE  Copied(dst, CopiedBytes(dst, to, n, src, from), to, n, src, from)
<1> DEFINE bytes == n \div ByteBits
           moved == (dst \ Positions(to, ByteBits * bytes))
                      \cup {to + (p - from) : p \in src \cap Positions(from, ByteBits * bytes)}
           rest == n % ByteBits
           byte == ByteOf(src, from \div ByteBits + bytes)
           end == to + ByteBits * bytes
<1>1. CopiedBytes(dst, to, n, src, from)
        = IF rest = 0 THEN moved ELSE Masked(moved, end, 0 .. (rest - 1), byte)
  BY Zenon DEF CopiedBytes
<1>2. /\ bytes \in Nat /\ rest \in 0 .. 7 /\ n = 8 * bytes + rest /\ end \in Nat
      /\ end = to + 8 * bytes /\ end % ByteBits = 0
  BY DEF ByteBits
<1>3. PICK m \in Nat : m = ByteBits * bytes
  BY <1>2 DEF ByteBits
<1>4. n = m + rest /\ end = to + m
  BY <1>2, <1>3 DEF ByteBits
<1>5. PICK u \in Nat : u = from \div ByteBits /\ from = 8 * u
  BY DEF ByteBits
<1>6. byte = {b \in 0 .. 7 : (from + m) + b \in src}
  <2>1. 8 * (u + bytes) = from + m
    BY <1>2, <1>3, <1>5 DEF ByteBits
  <2>2. byte = {b \in 0 .. 7 : 8 * (u + bytes) + b \in src}
    BY <1>5 DEF ByteOf, ByteBits
  <2> QED BY <2>1, <2>2
<1>7. moved = (dst \ Positions(to, m)) \cup {to + (p - from) : p \in src \cap Positions(from, m)}
  BY <1>3
<1> HIDE DEF moved, bytes, rest, end, byte
<1>8. Copied(dst, moved, to, m, src, from)
  <2>1. ASSUME NEW p
        PROVE  p \in moved <=> IF p \in Positions(to, m) THEN from + (p - to) \in src ELSE p \in dst
    <3>1. ASSUME NEW q \in Positions(from, m)
          PROVE  to + (q - from) \in Positions(to, m) /\ from + ((to + (q - from)) - to) = q
      BY DEF Positions
    <3>2. CASE p \in Positions(to, m)
      <4>1. from + (p - to) \in Positions(from, m) /\ to + ((from + (p - to)) - from) = p
        BY <3>2 DEF Positions
      <4>2. p \in moved <=> \E q \in src \cap Positions(from, m) : p = to + (q - from)
        BY <1>7, <3>2
      <4> QED BY <3>1, <3>2, <4>1, <4>2
    <3>3. CASE p \notin Positions(to, m)
      BY <1>7, <3>1, <3>3
    <3> QED BY <3>2, <3>3
  <2> QED BY <2>1, Zenon DEF Copied
<1>9. CASE rest = 0
  BY <1>1, <1>4, <1>8, <1>9
<1>10. CASE rest # 0
  <2> DEFINE out == Masked(moved, end, 0 .. (rest - 1), byte)
  <2>1. 0 .. (rest - 1) = Positions(end % ByteBits, rest)
    BY <1>2 DEF Positions
  <2>2. (end % ByteBits) + rest <= ByteBits
    BY <1>2 DEF ByteBits
  <2>3. ASSUME NEW p
        PROVE  p \in out <=> IF p \in Positions(to + m, rest)
                             THEN (from + m) + (p - (to + m)) \in src ELSE p \in moved
    <3>1. p \in out <=> IF p \in Positions(end, rest) THEN (end % ByteBits) + (p - end) \in byte
                        ELSE p \in moved
      BY <1>2, <2>1, <2>2, MaskedTo
    <3>2. p \in Positions(end, rest) => (end % ByteBits) + (p - end) = p - (to + m)
                                        /\ p - (to + m) \in 0 .. 7
      BY <1>2, <1>4 DEF Positions
    <3> QED BY <1>4, <1>6, <3>1, <3>2
  <2> HIDE DEF out
  <2>4. Copied(moved, out, to + m, rest, src, from + m)
    BY <2>3, Zenon DEF Copied
  <2>5. rest \in Nat
    BY <1>2
  <2>6. Copied(dst, out, to, m + rest, src, from)
    BY <1>8, <2>4, <2>5, CopiedOn
  <2> QED BY <1>1, <1>4, <1>10, <2>6 DEF out
<1> QED BY <1>9, <1>10

-----------------------------------------------------------------------------
(* Bits copied a fragment of a byte at a time.  A fragment lies in one byte *)
(* of either memory, and is never empty.                                   *)
LEMMA FragmentFits ==
  ASSUME NEW from \in Nat, NEW to \in Nat, NEW left \in Nat, left > 0
  PROVE  /\ Fragment(from, to, left) \in 1 .. left
         /\ (to % ByteBits) + Fragment(from, to, left) <= ByteBits
         /\ (from % ByteBits) + Fragment(from, to, left) <= ByteBits
<1> DEFINE a == from % ByteBits
           b == to % ByteBits
<1>1. a \in 0 .. 7 /\ b \in 0 .. 7
  BY DEF ByteBits
<1>2. Fragment(from, to, left) = LeastOfTwo(left, LeastOfTwo(8 - a, 8 - b))
  BY DEF Fragment, ByteBits
<1> HIDE DEF a, b
<1>3. LeastOfTwo(left, LeastOfTwo(8 - a, 8 - b)) \in 1 .. left
      /\ b + LeastOfTwo(left, LeastOfTwo(8 - a, 8 - b)) <= 8
      /\ a + LeastOfTwo(left, LeastOfTwo(8 - a, 8 - b)) <= 8
  BY <1>1 DEF LeastOfTwo
<1> QED BY <1>2, <1>3 DEF a, b, ByteBits

(* What a turn of the loop leaves: the first "done" bits are copied.       *)
TurnedFrom(dst, to, n, src, from) ==
    {t \in [done : 0 .. n, out : SUBSET (dst \cup Nat)] : Copied(dst, t.out, to, t.done, src, from)}

LEMMA FragmentMoreCopies ==
  ASSUME NEW dst, NEW to \in Nat, NEW n \in Nat, NEW src, NEW from \in Nat,
         NEW was \in TurnedFrom(dst, to, n, src, from)
  PROVE  /\ FragmentMore(was, to, n, src, from) \in TurnedFrom(dst, to, n, src, from)
         /\ was.done < n => FragmentMore(was, to, n, src, from).done > was.done
         /\ was.done = n => FragmentMore(was, to, n, src, from).done = n
<1> DEFINE k == was.done
           w == Fragment(from + k, to + k, n - k)
           at == (to + k) % ByteBits
           out == Masked(was.out, to + k, Positions(at, w), Shifted(src, from + k, at))
           more == [done |-> k + w, out |-> out]
<1>1. k \in 0 .. n /\ was.out \subseteq dst \cup Nat /\ Copied(dst, was.out, to, k, src, from)
  BY DEF TurnedFrom
<1>2. CASE k = n
  BY <1>2 DEF FragmentMore
<1>3. CASE k # n
  <2>1. from + k \in Nat /\ to + k \in Nat /\ n - k \in Nat /\ n - k > 0 /\ k \in Nat /\ k < n
    BY <1>1, <1>3
  <2>2. w \in 1 .. (n - k) /\ at + w <= ByteBits /\ ((from + k) % ByteBits) + w <= ByteBits
    BY <2>1, FragmentFits
  <2>3. FragmentMore(was, to, n, src, from) = more
    BY <1>3, Zenon DEF FragmentMore
  <2> HIDE DEF w
  <2>4. w \in Nat /\ w > 0 /\ k + w \in 0 .. n
    BY <1>1, <2>2
  <2>5. PICK u : u = (from + k) \div ByteBits
    OBVIOUS
  <2>6. PICK r : r = (from + k) % ByteBits
    OBVIOUS
  <2>7. u \in Nat /\ r \in 0 .. 7 /\ from + k = 8 * u + r /\ r + w <= 8
    BY <2>1, <2>2, <2>5, <2>6, PlaceIs DEF ByteBits
  <2>8. PICK a \in 0 .. 7 : a = at /\ a + w <= 8
    <3>1. at \in 0 .. 7
      BY <2>1, PlaceIs
    <3>2. at + w <= 8
      BY <2>2 DEF ByteBits
    <3> HIDE DEF at
    <3> QED BY <3>1, <3>2
  <2>9. ASSUME NEW b \in Positions(a, w)
        PROVE  b \in Shifted(src, from + k, a) <=> (from + k) + (b - a) \in src
    <3>1. Shifted(src, from + k, a)
            = {c \in a .. 7 : (c - a) + r \in {d \in 0 .. 7 : 8 * u + d \in src}}
      BY <2>5, <2>6 DEF Shifted, ByteOf, ByteBits
    <3>2. b \in a .. 7 /\ (b - a) + r \in 0 .. 7 /\ 8 * u + ((b - a) + r) = (from + k) + (b - a)
      BY <2>4, <2>7, <2>8 DEF Positions
    <3> QED BY <3>1, <3>2
  <2>10. ASSUME NEW p
         PROVE  p \in out <=> IF p \in Positions(to + k, w)
                              THEN (from + k) + (p - (to + k)) \in src ELSE p \in was.out
    <3>1. p \in out <=> IF p \in Positions(to + k, w)
                        THEN at + (p - (to + k)) \in Shifted(src, from + k, at) ELSE p \in was.out
      BY <2>1, <2>2, <2>4, MaskedTo
    <3>2. p \in Positions(to + k, w) => a + (p - (to + k)) \in Positions(a, w)
                                        /\ (a + (p - (to + k))) - a = p - (to + k)
      BY <2>1, <2>4, <2>8 DEF Positions
    <3> HIDE DEF out, at
    <3> QED BY <2>8, <2>9, <3>1, <3>2
  <2> HIDE DEF out
  <2>11. Copied(was.out, out, to + k, w, src, from + k)
    BY <2>10, Zenon DEF Copied
  <2>12. Copied(dst, out, to, k + w, src, from)
    BY <1>1, <2>1, <2>4, <2>11, CopiedOn
  <2>13. out \subseteq dst \cup Nat
    <3>1. Positions(to + k, w) \subseteq Nat
      BY <2>1, <2>4 DEF Positions
    <3> QED BY <1>1, <2>10, <3>1
  <2> HIDE DEF k
  <2>14. more \in [done : 0 .. n, out : SUBSET (dst \cup Nat)]
    BY <2>4, <2>13
  <2>15. more.out = out /\ more.done = k + w
    OBVIOUS
  <2> HIDE DEF more
  <2>16. more \in TurnedFrom(dst, to, n, src, from)
    BY <2>12, <2>14, <2>15 DEF TurnedFrom
  <2>17. more.done > k
    BY <2>1, <2>4, <2>15
  <2> QED BY <1>3, <2>3, <2>16, <2>17 DEF k
<1> QED BY <1>2, <1>3

TurnsOf(dst, to, n, src, from, turn) ==
    turn = [k \in 0 .. n |->
              IF k = 0 THEN [done |-> 0, out |-> dst] ELSE FragmentMore(turn[k - 1], to, n, src, from)]

LEMMA TurnsExist ==
  ASSUME NEW dst, NEW to \in Nat, NEW n \in Nat, NEW src, NEW from \in Nat
  PROVE  \E turn : TurnsOf(dst, to, n, src, from, turn)
<1> DEFINE V == TurnedFrom(dst, to, n, src, from)
           start == [done |-> 0, out |-> dst]
<1>1. start \in V
  <2>1. Copied(dst, dst, to, 0, src, from)
    BY CopiedNothing
  <2> QED BY <2>1 DEF TurnedFrom
<1>2. PICK next \in [1 .. n -> [V -> V]] :
        \A k \in 1 .. n : \A was \in V : next[k][was] = FragmentMore(was, to, n, src, from)
  <2>1. \A was \in V : FragmentMore(was, to, n, src, from) \in V
    BY FragmentMoreCopies
  <2> HIDE DEF V
  <2>2. [k \in 1 .. n |-> [was \in V |-> FragmentMore(was, to, n, src, from)]]
          \in [1 .. n -> [V -> V]]
    BY <2>1
  <2> QED BY <2>2
<1> HIDE DEF V, start
<1>3. PICK turn \in [0 .. n -> V] : StepsUp(n, start, next, turn)
  BY <1>1, <1>2, Recursion, Zenon
<1>4. ASSUME NEW k \in 0 .. n
      PROVE  turn[k] = IF k = 0 THEN start ELSE FragmentMore(turn[k - 1], to, n, src, from)
  <2>1. k # 0 => k \in 1 .. n /\ turn[k - 1] \in V
    OBVIOUS
  <2> QED BY <1>2, <1>3, <2>1, SMT DEF StepsUp
<1>5. TurnsOf(dst, to, n, src, from, turn)
  BY <1>4, Zenon DEF TurnsOf, start
<1> QED BY <1>5

(* Every turn copies a bit or more, so that after "n" all are copied.      *)
LEMMA CopiedFragmentsAre ==
  ASSUME NEW dst, NEW to \in Nat, NEW n \in Nat, NEW src, NEW from \in Nat
  PROVE  Copied(dst, CopiedFragments(dst, to, n, src, from), to, n, src, from)
<1> DEFINE turn == CHOOSE f : TurnsOf(dst, to, n, src, from, f)
           V == TurnedFrom(dst, to, n, src, from)
           counted == [k \in 0 .. n |-> [at |-> k, turn |-> turn[k]]]
           W == {c \in [at : 0 .. n, turn : V] : c.at <= c.turn.done}
<1>1. TurnsOf(dst, to, n, src, from, turn)
  BY TurnsExist, Zenon
<1>2. CopiedFragments(dst, to, n, src, from) = turn[n].out
  BY Zenon DEF CopiedFragments, TurnsOf
<1> HIDE DEF turn
<1>3. \A t \in V : t.done \in 0 .. n /\ Copied(dst, t.out, to, t.done, src, from)
  BY DEF TurnedFrom
<1>4. turn[0] \in V /\ turn[0].done = 0
  <2>1. turn[0] = [done |-> 0, out |-> dst]
    BY <1>1 DEF TurnsOf
  <2>2. Copied(dst, dst, to, 0, src, from)
    BY CopiedNothing
  <2> QED BY <2>1, <2>2 DEF TurnedFrom
<1>5. ASSUME NEW k \in 1 .. n, turn[k - 1] \in V, k - 1 <= turn[k - 1].done
      PROVE  turn[k] \in V /\ k <= turn[k].done
  <2>1. k \in 0 .. n /\ k # 0
    OBVIOUS
  <2>2. turn[k] = FragmentMore(turn[k - 1], to, n, src, from)
    BY <1>1, <2>1, Zenon DEF TurnsOf
  <2>3. turn[k] \in V
    BY <1>5, <2>2, FragmentMoreCopies
  <2>4. turn[k - 1].done < n => turn[k].done > turn[k - 1].done
    BY <1>5, <2>2, FragmentMoreCopies
  <2>5. turn[k - 1].done = n => turn[k].done = n
    BY <1>5, <2>2, FragmentMoreCopies
  <2>6. turn[k - 1].done \in 0 .. n /\ turn[k].done \in 0 .. n
    BY <1>3, <1>5, <2>3
  <2> HIDE DEF V
  <2> QED BY <1>5, <2>3, <2>4, <2>5, <2>6
<1> HIDE DEF V
<1>6. counted[0] \in W
  BY <1>4
<1>7. ASSUME NEW k \in 1 .. n, counted[k - 1] \in W PROVE counted[k] \in W
  <2>1. k - 1 \in 0 .. n /\ k \in 0 .. n
    OBVIOUS
  <2>2. counted[k - 1] = [at |-> k - 1, turn |-> turn[k - 1]]
        /\ counted[k] = [at |-> k, turn |-> turn[k]]
    BY <2>1
  <2>3. turn[k - 1] \in V /\ k - 1 <= turn[k - 1].done
    BY <1>7, <2>2
  <2>4. turn[k] \in V /\ k <= turn[k].done
    BY <1>5, <2>3
  <2> QED BY <2>1, <2>2, <2>4
<1> HIDE DEF counted
<1>8. counted[n] \in W
  <2> HIDE DEF W
  <2>1. \A k \in 0 .. n : counted[k] \in W
    BY <1>6, <1>7, Stays
  <2> QED BY <2>1
<1>9. turn[n] \in V /\ n <= turn[n].done
  BY <1>8 DEF counted
<1>10. turn[n].done = n
  BY <1>3, <1>9
<1> QED BY <1>2, <1>3, <1>9, <1>10

(* dsdl_runtime_copy_bits copies: at any alignment of the two memories, and *)
(* for any number of bits, the bits asked for become those of the source   *)
(* and every other stays as it was, by bytes or a fragment at a time.      *)
THEOREM CopiesAreExact ==
  ASSUME NEW dst, NEW to \in Nat, NEW n \in Nat, NEW src, NEW from \in Nat
  PROVE  Copied(dst, CopyBits(dst, to, n, src, from), to, n, src, from)
BY CopiedBytesAre, CopiedFragmentsAre DEF CopyBits

LEMMA SaturatedIs ==
  ASSUME NEW at \in Nat, NEW n \in Nat, NEW end \in Nat
  PROVE  /\ Saturated(at, n, end) \in 0 .. n
         /\ \A k \in 0 .. (n - 1) : k < Saturated(at, n, end) <=> at + k < end
BY DEF Saturated, LeastOfTwo

LEMMA PaddedIs ==
  ASSUME NEW n \in Nat
  PROVE  PadTo(n, ByteBits) \in Nat /\ n <= PadTo(n, ByteBits)
<1>1. PICK q \in Nat : q = (n + 8 - 1) \div 8 /\ n <= q * 8
  OBVIOUS
<1> QED BY <1>1 DEF PadTo, ByteBits

(* dsdl_runtime_get_bits extends with zeros: a bit of the output is the one *)
(* of the buffer, or 0 where that ends or where the last byte has more bits *)
(* than were asked for; what lies behind the last byte stays.              *)
THEOREM ReadsPastTheEndAreZeros ==
  ASSUME NEW out, NEW bits, NEW at \in Nat, NEW n \in Nat, NEW end \in Nat, NEW p \in Nat
  PROVE  p \in GetBits(out, bits, at, n, end)
           <=> IF p < PadTo(n, ByteBits) THEN p < n /\ at + p < end /\ at + p \in bits
               ELSE p \in out
<1> DEFINE there == Saturated(at, n, end)
           kept == ByteBits * (there \div ByteBits)
           pad == PadTo(n, ByteBits)
           clear == Positions(kept, pad - kept)
           got == CopyBits(out \ clear, 0, there, bits, at)
<1>1. there \in 0 .. n /\ \A k \in 0 .. (n - 1) : k < there <=> at + k < end
  BY SaturatedIs
<1>2. pad \in Nat /\ n <= pad
  BY PaddedIs
<1>3. GetBits(out, bits, at, n, end) = got
  BY Zenon DEF GetBits
<1> HIDE DEF there, pad
<1>4. there \in Nat
  BY <1>1
<1>5. kept \in Nat /\ kept <= there
  BY <1>4 DEF ByteBits
<1>6. Copied(out \ clear, got, 0, there, bits, at)
  BY <1>4, CopiesAreExact
<1> HIDE DEF got, kept
<1>7. p \in got <=> IF p \in Positions(0, there) THEN at + (p - 0) \in bits ELSE p \in out \ clear
  BY <1>6, Zenon DEF Copied
<1>8. (p \in Positions(0, there) <=> p < there) /\ at + (p - 0) = at + p
  BY <1>4 DEF Positions
<1>9. p \in clear <=> kept <= p /\ p < pad
  BY <1>2, <1>5 DEF Positions
<1>10. p < n => (p < there <=> at + p < end)
  BY <1>1
<1> HIDE DEF clear
<1>11. CASE p < there
  BY <1>1, <1>2, <1>7, <1>8, <1>10, <1>11, <1>3 DEF pad
<1>12. CASE ~(p < there)
  <2>1. p \in got <=> p \in out /\ p \notin clear
    BY <1>7, <1>8, <1>12
  <2>2. p \in clear <=> p < pad
    BY <1>4, <1>5, <1>9, <1>12
  <2> QED BY <1>3, <1>10, <1>12, <2>1, <2>2 DEF pad
<1> QED BY <1>11, <1>12

(* dsdl_runtime_set_uxx and dsdl_runtime_get_u64 agree: what is written at  *)
(* any alignment, into any memory, is read from there as the low bits of   *)
(* its holder.                                                             *)
THEOREM WhatIsWrittenIsRead ==
  ASSUME NEW bits, NEW at \in Nat, NEW n \in Nat, NEW v, NEW end \in Nat, at + n <= end
  PROVE  BitsAt(WithBits(bits, at, n, v), at, n, end) = BitsAt(BitsOf(v, n), 0, n, n)
<1> DEFINE held == BitsOf(v, n)
           wire == CopyBits(bits, at, n, held, 0)
           one == CopyBits({}, 0, n, wire, at)
           other == CopyBits({}, 0, n, held, 0)
<1>1. Saturated(at, n, end) = n /\ Saturated(0, n, n) = n
  BY DEF Saturated, LeastOfTwo
<1>2. WithBits(bits, at, n, v) = wire
  BY DEF WithBits
<1> HIDE DEF held
<1>3. Copied(bits, wire, at, n, held, 0)
  BY CopiesAreExact
<1> HIDE DEF wire
<1>4. Copied({}, one, 0, n, wire, at) /\ Copied({}, other, 0, n, held, 0)
  BY CopiesAreExact
<1>5. ASSUME NEW p PROVE p \in one <=> p \in other
  <2>1. p \in one <=> IF p \in Positions(0, n) THEN at + (p - 0) \in wire ELSE p \in {}
    BY <1>4, Zenon DEF Copied
  <2>2. p \in other <=> IF p \in Positions(0, n) THEN 0 + (p - 0) \in held ELSE p \in {}
    BY <1>4, Zenon DEF Copied
  <2>3. \A q : q \in wire <=> IF q \in Positions(at, n) THEN 0 + (q - at) \in held ELSE q \in bits
    BY <1>3, Zenon DEF Copied
  <2>4. p \in Positions(0, n) => at + (p - 0) \in Positions(at, n)
                                 /\ (at + (p - 0)) - at = p - 0
    BY DEF Positions
  <2> HIDE DEF one, other
  <2> QED BY <2>1, <2>2, <2>3, <2>4
<1>6. one = other
  <2> HIDE DEF one, other
  <2> QED BY <1>5
<1> QED BY <1>1, <1>2, <1>6, Zenon DEF BitsAt, wire, one, other, held

-----------------------------------------------------------------------------
(* Where the getters look for a field.                                     *)

LEMMA FieldOfOneLayout ==
  ASSUME NEW i \in TypeIds, HasFixedOffsets(i), NEW k \in DOMAIN Fields[i]
  PROVE  /\ FixedWidth(Fields[i][k]) \in Nat
         /\ CountOf(Fields[i][k]) \in Nat
         /\ Fields[i][k].array \in {"none", "fixed"}
         /\ IsFieldOf(Fields[i][k])
         /\ FieldWidth(Fields[i][k], FALSE) = FixedWidth(Fields[i][k])
<1> DEFINE f == Fields[i][k]
<1>1. IsFieldOf(f)
  BY DEF IsFieldOf
<1>2. IsField(f)
  BY FieldsAre
<1>3. f.array # "variable" /\ (IsComposite(f) => IsSealed[f.ref] /\ FixedBits[f.ref] # Unknown)
  BY DEF HasFixedOffsets
<1> HIDE DEF f
<1>4. FieldWidth(f, FALSE) = FixedWidth(f)
  BY <1>1, <1>3, WidthIs DEF FixedWidth
<1>5. FixedWidth(f) \in Nat
  BY <1>1, <1>2, <1>3, WidthIs DEF FixedWidth, IsField
<1>6. CountOf(f) \in Nat /\ f.array \in {"none", "fixed"}
  BY <1>2, <1>3 DEF CountOf, IsField
<1> QED BY <1>1, <1>4, <1>5, <1>6 DEF f

LEMMA EndAfterIs ==
  ASSUME NEW i \in TypeIds, HasFixedOffsets(i), NEW k \in DOMAIN Fields[i], NEW at \in Nat
  PROVE  /\ EndAfter(at, Fields[i][k])
              = PadTo(at, AlignmentOf(Fields[i][k])) + FixedWidth(Fields[i][k]) * CountOf(Fields[i][k])
         /\ PadTo(at, AlignmentOf(Fields[i][k])) \in Nat
         /\ EndAfter(at, Fields[i][k]) \in Nat
<1> DEFINE f == Fields[i][k]
<1>1. FixedWidth(f) \in Nat /\ CountOf(f) \in Nat
  BY FieldOfOneLayout
<1>2. AlignmentOf(f) \in {1, ByteBits}
  BY DEF AlignmentOf
<1> HIDE DEF f
<1>3. PadTo(at, AlignmentOf(f)) \in Nat
  BY <1>2, PadToIs
<1>4. EndAfter(at, f) = PadTo(at, AlignmentOf(f)) + FixedWidth(f) * CountOf(f)
  BY DEF EndAfter, CountOf
<1>5. FixedWidth(f) * CountOf(f) \in Nat
  BY <1>1
<1> QED BY <1>3, <1>4, <1>5 DEF f

LEMMA OffsetsOfOneLayout ==
  ASSUME NEW i \in TypeIds, HasFixedOffsets(i)
  PROVE  \E ends \in [0 .. Len(Fields[i]) -> Nat] :
           /\ ends[0] = 0
           /\ \A k \in 1 .. Len(Fields[i]) :
                /\ FixedFieldOffset(i, k) = PadTo(ends[k - 1], AlignmentOf(Fields[i][k]))
                /\ ends[k] = FixedFieldOffset(i, k) + FixedWidth(Fields[i][k]) * CountOf(Fields[i][k])
<1> DEFINE n == Len(Fields[i])
           More(k, T) == EndAfter(T, Fields[i][k])
<1>1. n \in Nat /\ DOMAIN Fields[i] = 1 .. n
  BY Definitions
<1>2. ASSUME NEW k \in 1 .. n, NEW T \in Nat PROVE More(k, T) \in Nat
  BY <1>1, EndAfterIs
<1> HIDE DEF n, More
<1>3. PICK next \in [1 .. n -> [Nat -> Nat]] : \A k \in 1 .. n : \A T \in Nat : next[k][T] = More(k, T)
  <2>1. [k \in 1 .. n |-> [T \in Nat |-> More(k, T)]] \in [1 .. n -> [Nat -> Nat]]
    BY <1>2
  <2> QED BY <2>1
<1>4. PICK up \in [0 .. n -> Nat] : StepsUp(n, 0, next, up)
  BY <1>1, Recursion, Zenon
<1>5. ASSUME NEW k \in 0 .. n PROVE up[k] = IF k = 0 THEN 0 ELSE More(k, up[k - 1])
  <2>1. k # 0 => k \in 1 .. n /\ k - 1 \in 0 .. n
    BY <1>1
  <2>2. k # 0 => up[k - 1] \in Nat
    BY <2>1
  <2> QED BY <1>3, <1>4, <2>1, <2>2, SMT DEF StepsUp
<1>6. EndsUpTo(i, up)
  BY <1>5, Zenon DEF EndsUpTo, n, More
<1> DEFINE ends == CHOOSE g : EndsUpTo(i, g)
<1>7. EndsUpTo(i, ends)
  BY <1>6, Zenon
<1>8. ASSUME NEW k \in 1 .. n
      PROVE  FixedFieldOffset(i, k) = PadTo(ends[k - 1], AlignmentOf(Fields[i][k]))
  BY Zenon DEF FixedFieldOffset, EndsUpTo, EndAfter, FixedWidth
<1> HIDE DEF ends
<1>9. \A k \in 0 .. n : ends[k] = IF k = 0 THEN 0 ELSE More(k, ends[k - 1])
  BY <1>7, Zenon DEF EndsUpTo, More, n
<1>10. \A k \in 0 .. n : ends[k] \in Nat
  <2>0. PICK V : V = Nat
    OBVIOUS
  <2>1. ends[0] \in V
    BY <1>1, <1>9, <2>0
  <2>2. ASSUME NEW k \in 1 .. n, ends[k - 1] \in V PROVE ends[k] \in V
    <3>1. k \in 0 .. n /\ k # 0
      BY <1>1
    <3> QED BY <1>2, <1>9, <2>0, <2>2, <3>1
  <2>3. \A k \in 0 .. n : ends[k] \in V
    BY <1>1, <2>1, <2>2, Stays
  <2> QED BY <2>0, <2>3
<1>11. ends \in [0 .. n -> Nat]
  <2>1. ends = [k \in 0 .. n |-> IF k = 0 THEN 0 ELSE More(k, ends[k - 1])]
    BY <1>7, Zenon DEF EndsUpTo, More, n
  <2>2. DOMAIN ends = 0 .. n /\ ends = [k \in 0 .. n |-> ends[k]]
    BY <2>1
  <2> QED BY <1>10, <2>2
<1>12. ASSUME NEW k \in 1 .. n
       PROVE  ends[k] = FixedFieldOffset(i, k) + FixedWidth(Fields[i][k]) * CountOf(Fields[i][k])
  <2>1. k \in 0 .. n /\ k # 0 /\ k - 1 \in 0 .. n
    BY <1>1
  <2>2. ends[k] = EndAfter(ends[k - 1], Fields[i][k]) /\ ends[k - 1] \in Nat
    BY <1>9, <1>10, <2>1 DEF More
  <2>3. EndAfter(ends[k - 1], Fields[i][k])
          = PadTo(ends[k - 1], AlignmentOf(Fields[i][k])) + FixedWidth(Fields[i][k]) * CountOf(Fields[i][k])
    BY <1>1, <2>2, EndAfterIs
  <2> QED BY <1>8, <2>2, <2>3
<1>13. ends[0] = 0
  BY <1>1, <1>9
<1> QED BY <1>8, <1>11, <1>12, <1>13 DEF n

-----------------------------------------------------------------------------
(* The steps of a plan walk from field to field, each where the getters    *)
(* look for it.                                                            *)

SizeOf(i, k) == FixedWidth(Fields[i][k]) * CountOf(Fields[i][k])

IsWalk(i, steps, e, last, E) ==
    /\ E \in [0 .. Len(steps) -> Nat]
    /\ E[0] = e /\ E[Len(steps)] = last
    /\ \A n \in 1 .. Len(steps) :
         /\ steps[n].kind = "align" => E[n] = PadTo(E[n - 1], ByteBits)
         /\ steps[n].kind = "field" => /\ E[n - 1] = FixedFieldOffset(i, steps[n].field)
                                       /\ E[n] = E[n - 1] + SizeOf(i, steps[n].field)

Walks(i, steps, e, last) == \E E : IsWalk(i, steps, e, last, E)

LEMMA WalksThen ==
  ASSUME NEW i, NEW a, Len(a) \in Nat, NEW b, Len(b) \in Nat, NEW r, Len(r) = Len(a) + Len(b),
         \A n \in 1 .. Len(a) : r[n] = a[n], \A n \in 1 .. Len(b) : r[Len(a) + n] = b[n],
         NEW e, NEW m, NEW last, Walks(i, a, e, m), Walks(i, b, m, last)
  PROVE  Walks(i, r, e, last)
<1>1. PICK A : IsWalk(i, a, e, m, A)
  BY DEF Walks
<1>2. PICK B : IsWalk(i, b, m, last, B)
  BY DEF Walks
<1> DEFINE l == Len(a)
           D == [n \in 0 .. Len(r) |-> IF n < l THEN A[n] ELSE B[n - l]]
<1>3. ASSUME NEW n \in 0 .. Len(r)
      PROVE  /\ n < l => n \in 0 .. Len(a)
             /\ ~ (n < l) => n - l \in 0 .. Len(b)
  OBVIOUS
<1>4. A \in [0 .. Len(a) -> Nat] /\ B \in [0 .. Len(b) -> Nat]
      /\ A[0] = e /\ A[Len(a)] = m /\ B[0] = m /\ B[Len(b)] = last
  BY <1>1, <1>2 DEF IsWalk
<1>5. D \in [0 .. Len(r) -> Nat]
  <2>1. \A n \in 0 .. Len(r) : D[n] \in Nat
    BY <1>3, <1>4
  <2> QED BY <2>1
<1>6. \A n \in 0 .. Len(r) : D[n] = IF n < l THEN A[n] ELSE B[n - l]
  OBVIOUS
<1> HIDE DEF D
<1>7. \A n \in 0 .. l : D[n] = A[n]
  <2> SUFFICES ASSUME NEW n \in 0 .. l PROVE D[n] = A[n]
    OBVIOUS
  <2>1. n \in 0 .. Len(r) /\ (~ (n < l) => n = l /\ n - l = 0)
    OBVIOUS
  <2> QED BY <1>4, <1>6, <2>1
<1>8. \A n \in 0 .. Len(b) : D[l + n] = B[n]
  <2> SUFFICES ASSUME NEW n \in 0 .. Len(b) PROVE D[l + n] = B[n]
    OBVIOUS
  <2>1. l + n \in 0 .. Len(r) /\ ~ (l + n < l) /\ (l + n) - l = n
    OBVIOUS
  <2> QED BY <1>6, <2>1
<1>9. D[0] = e /\ D[Len(r)] = last
  <2>1. 0 \in 0 .. l /\ Len(b) \in 0 .. Len(b)
    OBVIOUS
  <2> QED BY <1>4, <1>7, <1>8, <2>1
<1>10. ASSUME NEW n \in 1 .. Len(r)
       PROVE  /\ r[n].kind = "align" => D[n] = PadTo(D[n - 1], ByteBits)
              /\ r[n].kind = "field" => /\ D[n - 1] = FixedFieldOffset(i, r[n].field)
                                        /\ D[n] = D[n - 1] + SizeOf(i, r[n].field)
  <2>1. CASE n <= l
    <3>1. n \in 1 .. Len(a) /\ n \in 0 .. l /\ n - 1 \in 0 .. l
      BY <2>1
    <3>2. D[n] = A[n] /\ D[n - 1] = A[n - 1] /\ r[n] = a[n]
      BY <1>7, <3>1
    <3> QED BY <1>1, <3>1, <3>2 DEF IsWalk
  <2>2. CASE ~ (n <= l)
    <3>0. n - l \in 1 .. Len(b)
      BY <2>2
    <3>1. PICK j \in 1 .. Len(b) : j = n - l
      BY <3>0
    <3>2. n = l + j /\ n - 1 = l + (j - 1) /\ j \in 0 .. Len(b) /\ j - 1 \in 0 .. Len(b)
      BY <2>2, <3>1
    <3>3. D[n] = B[j] /\ D[n - 1] = B[j - 1] /\ r[n] = b[j]
      BY <1>8, <3>1, <3>2
    <3> QED BY <1>2, <3>1, <3>3 DEF IsWalk
  <2> QED BY <2>1, <2>2
<1> QED BY <1>5, <1>9, <1>10 DEF IsWalk, Walks

LEMMA WalksNowhere ==
  ASSUME NEW i, NEW steps, Len(steps) = 0, NEW e \in Nat
  PROVE  Walks(i, steps, e, e)
<1> DEFINE E == [n \in 0 .. 0 |-> e]
<1>1. E \in [0 .. 0 -> Nat] /\ E[0] = e
  OBVIOUS
<1> HIDE DEF E
<1>2. IsWalk(i, steps, e, e, E)
  BY <1>1 DEF IsWalk
<1> QED BY <1>2 DEF Walks

LEMMA WalksOne ==
  ASSUME NEW i, NEW steps, Len(steps) = 1, NEW e \in Nat, NEW last \in Nat,
         \/ steps[1].kind = "align" /\ last = PadTo(e, ByteBits)
         \/ /\ steps[1].kind = "field" /\ e = FixedFieldOffset(i, steps[1].field)
            /\ last = e + SizeOf(i, steps[1].field)
  PROVE  Walks(i, steps, e, last)
<1> DEFINE E == [n \in 0 .. 1 |-> IF n = 0 THEN e ELSE last]
<1>1. E \in [0 .. 1 -> Nat] /\ E[0] = e /\ E[1] = last
  OBVIOUS
<1> HIDE DEF E
<1>2. \A n \in 1 .. 1 : n = 1 /\ n - 1 = 0
  OBVIOUS
<1>3. IsWalk(i, steps, e, last, E)
  BY <1>1, <1>2 DEF IsWalk
<1> QED BY <1>3 DEF Walks

LEMMA FieldStepsWalk ==
  ASSUME NEW i \in TypeIds, HasFixedOffsets(i), NEW k \in DOMAIN Fields[i], NEW e \in Nat,
         FixedFieldOffset(i, k) = PadTo(e, AlignmentOf(Fields[i][k]))
  PROVE  Walks(i, FieldSteps(Fields[i][k], k), e, FixedFieldOffset(i, k) + SizeOf(i, k))
<1> DEFINE f == Fields[i][k]
           first == IF AlignmentOf(f) > 1 THEN <<AlignStep>> ELSE << >>
           then == IF f.cat = "void" /\ f.bits = 0 THEN << >> ELSE <<FieldStep(k)>>
           o == FixedFieldOffset(i, k)
           z == SizeOf(i, k)
           a == AlignmentOf(f)
<1>1. a \in {1, ByteBits}
  BY DEF AlignmentOf
<1>2. o \in Nat /\ z \in Nat
  <2>1. FixedWidth(f) \in Nat /\ CountOf(f) \in Nat
    BY FieldOfOneLayout
  <2>2. z = FixedWidth(f) * CountOf(f)
    BY DEF SizeOf
  <2> HIDE DEF a, f, z
  <2> QED BY <1>1, <2>1, <2>2, PadToIs DEF a, f
<1>3. Walks(i, first, e, o) /\ Len(first) \in Nat
  <2>1. CASE a > 1
    <3>1. a = ByteBits
      BY <1>1, <2>1
    <3>2. first = <<AlignStep>> /\ Len(first) = 1 /\ first[1] = AlignStep
      BY <2>1
    <3>3. first[1].kind = "align"
      BY <3>2 DEF AlignStep
    <3>4. o = PadTo(e, ByteBits)
      BY <3>1
    <3> HIDE DEF first, o
    <3> QED BY <1>2, <3>2, <3>3, <3>4, WalksOne
  <2>2. CASE ~ (a > 1)
    <3>1. a = 1
      BY <1>1, <2>2 DEF ByteBits
    <3>2. first = << >> /\ Len(first) = 0
      BY <2>2
    <3>3. o = e
      BY <3>1 DEF PadTo
    <3> HIDE DEF first, o
    <3> QED BY <3>2, <3>3, WalksNowhere
  <2> QED BY <2>1, <2>2
<1>4. Walks(i, then, o, o + z) /\ Len(then) \in Nat
  <2>1. CASE f.cat = "void" /\ f.bits = 0
    <3>1. ~IsComposite(f)
      BY <2>1 DEF IsComposite
    <3>2. then = << >> /\ Len(then) = 0
      BY <2>1
    <3>3. CountOf(f) \in Nat /\ f.bits = 0
      BY <2>1, FieldOfOneLayout
    <3>4. z = 0
      <4>1. z = f.bits * CountOf(f)
        BY <3>1, Zenon DEF SizeOf, FixedWidth
      <4> HIDE DEF f, z
      <4> QED BY <3>3, <4>1
    <3> HIDE DEF then, o, z
    <3> QED BY <1>2, <3>2, <3>4, WalksNowhere
  <2>2. CASE ~ (f.cat = "void" /\ f.bits = 0)
    <3>1. then = <<FieldStep(k)>> /\ Len(then) = 1 /\ then[1] = FieldStep(k)
      BY <2>2
    <3>2. then[1].kind = "field" /\ then[1].field = k
      BY <3>1 DEF FieldStep
    <3> HIDE DEF then
    <3> QED BY <1>2, <3>1, <3>2, WalksOne
  <2> QED BY <2>1, <2>2
<1> DEFINE r == first \o then
<1>5. FieldSteps(f, k) = r
  BY Zenon DEF FieldSteps
<1>6. first \in Seq(Held(first)) /\ then \in Seq(Held(then))
  <2>1. /\ first = <<AlignStep>> \/ first = << >>
        /\ then = <<FieldStep(k)>> \/ then = << >>
    OBVIOUS
  <2> HIDE DEF first, then
  <2> QED BY <2>1, HeldOne, HeldNothing
<1> HIDE DEF first, then, f, o, z
<1>7. /\ Len(r) = Len(first) + Len(then)
      /\ \A n \in 1 .. Len(first) : r[n] = first[n]
      /\ \A n \in 1 .. Len(then) : r[Len(first) + n] = then[n]
  BY <1>6, HeldConcat
<1> HIDE DEF r
<1>8. Walks(i, r, e, o + z)
  BY <1>3, <1>4, <1>7, WalksThen
<1> QED BY <1>5, <1>8 DEF f, o, z

LEMMA StepsWalk ==
  ASSUME NEW i \in TypeIds, HasFixedOffsets(i)
  PROVE  \E last : Walks(i, Steps[i], 0, last)
<1> DEFINE n == Len(Fields[i])
<1>1. /\ Types[i].fields = Fields[i] /\ n \in Nat /\ DOMAIN Fields[i] = 1 .. n /\ ~Types[i].union
      /\ Len(Types[i].fields) = n
  BY Definitions DEF HasFixedOffsets
<1>2. PICK from : FromUpTo(Fields[i], from) /\ Steps[i] = from[1]
  <2> DEFINE g == CHOOSE f : FromUpTo(Fields[i], f)
  <2>1. PICK f : FromUpTo(Fields[i], f) /\ f[1] \in Seq(PlanSteps(i))
    BY FromExists
  <2>2. FromUpTo(Fields[i], g)
    BY <2>1
  <2>3. Steps[i] = StepsOf(Types[i])
    BY DEF Steps
  <2>4. Steps[i] = g[1]
    BY <1>1, <2>3, Zenon DEF StepsOf, FromUpTo
  <2> QED BY <2>2, <2>4
<1>3. \A k \in 1 .. (n + 1) : from[k] = IF k > n THEN << >> ELSE FieldSteps(Fields[i][k], k) \o from[k + 1]
  BY <1>2, Zenon DEF FromUpTo
<1>4. PICK ends \in [0 .. n -> Nat] :
         /\ ends[0] = 0
         /\ \A k \in 1 .. n : /\ FixedFieldOffset(i, k) = PadTo(ends[k - 1], AlignmentOf(Fields[i][k]))
                              /\ ends[k] = FixedFieldOffset(i, k) + SizeOf(i, k)
  BY OffsetsOfOneLayout, Zenon DEF SizeOf
<1> HIDE DEF n
<1> DEFINE Good(k) == from[k + 1] \in Seq(PlanSteps(i)) /\ Walks(i, from[k + 1], ends[k], ends[n])
           N == {m \in Nat : m <= n => Good(n - m)}
<1>5. Good(n)
  <2>1. n + 1 \in 1 .. (n + 1) /\ n + 1 > n /\ ends[n] \in Nat
    BY <1>1
  <2>2. from[n + 1] = << >>
    BY <1>3, <2>1
  <2>3. << >> \in Seq(PlanSteps(i)) /\ Len(<< >>) = 0
    BY EmptySeq
  <2> QED BY <2>1, <2>2, <2>3, WalksNowhere
<1>6. ASSUME NEW k \in 0 .. (n - 1), Good(k + 1) PROVE Good(k)
  <2> DEFINE j == k + 1
             s == FieldSteps(Fields[i][j], j)
             b == from[j + 1]
             r == s \o b
  <2>1. j \in 1 .. (n + 1) /\ j \in 1 .. n /\ ~ (j > n) /\ j - 1 = k /\ j \in DOMAIN Fields[i] /\ k \in 0 .. n
    BY <1>1
  <2>2. from[j] = r
    BY <1>3, <2>1
  <2>3. s \in Seq(PlanSteps(i))
    BY <2>1, FieldStepsAre
  <2>4. b \in Seq(PlanSteps(i)) /\ Walks(i, b, ends[j], ends[n])
    BY <1>6
  <2>5. ends[k] \in Nat /\ FixedFieldOffset(i, j) = PadTo(ends[k], AlignmentOf(Fields[i][j]))
        /\ ends[j] = FixedFieldOffset(i, j) + SizeOf(i, j)
    BY <1>4, <2>1
  <2> HIDE DEF j
  <2>6. Walks(i, s, ends[k], ends[j])
    BY <2>1, <2>5, FieldStepsWalk
  <2> HIDE DEF s, b
  <2>7. s \in Seq(Held(s)) /\ b \in Seq(Held(b)) /\ Len(s) \in Nat /\ Len(b) \in Nat
    BY <2>3, <2>4, SequenceOfHeld, HeldIs
  <2>8. /\ Len(r) = Len(s) + Len(b)
        /\ \A m \in 1 .. Len(s) : r[m] = s[m]
        /\ \A m \in 1 .. Len(b) : r[Len(s) + m] = b[m]
    BY <2>7, HeldConcat
  <2>9. r \in Seq(PlanSteps(i))
    BY <2>3, <2>4, ConcatProperties
  <2> HIDE DEF r
  <2>10. Walks(i, r, ends[k], ends[n])
    BY <2>4, <2>6, <2>7, <2>8, WalksThen
  <2>11. from[k + 1] = r
    BY <2>2 DEF j
  <2> QED BY <2>9, <2>10, <2>11
<1> HIDE DEF Good
<1>7. 0 \in N
  <2>1. n - 0 = n
    BY <1>1
  <2> QED BY <1>5, <2>1
<1>8. ASSUME NEW m \in Nat, m \in N PROVE m + 1 \in N
  <2> SUFFICES ASSUME m + 1 <= n PROVE Good(n - (m + 1))
    OBVIOUS
  <2>1. n - (m + 1) \in 0 .. (n - 1) /\ (n - (m + 1)) + 1 = n - m /\ m <= n
    BY <1>1
  <2>2. Good(n - m)
    BY <1>8, <2>1
  <2> QED BY <1>6, <2>1, <2>2
<1> HIDE DEF N
<1>9. n \in N
  BY <1>1, <1>7, <1>8, Induction
<1>10. Good(0)
  <2>1. n - n = 0 /\ n <= n
    BY <1>1
  <2> QED BY <1>9, <2>1 DEF N
<1>11. Walks(i, from[1], 0, ends[n])
  <2>1. 0 + 1 = 1
    OBVIOUS
  <2> QED BY <1>4, <1>10, <2>1 DEF Good
<1> QED BY <1>2, <1>11

-----------------------------------------------------------------------------
(* The builder knows the whole of the offset at every step of such a body, *)
(* and has the field there.                                                *)

(* All there is to know of the offset "e".                                 *)
Here(e) == [bits |-> e, residue |-> e % ByteBits]

LEMMA HerePast ==
  ASSUME NEW e \in Nat, NEW n \in Nat
  PROVE  KnownPast(Here(e), n) = Here(e + n)
BY DEF KnownPast, Here, Unknown, ByteBits

LEMMA HereAligned ==
  ASSUME NEW e \in Nat
  PROVE  KnownAligned(Here(e)) = Here(PadTo(e, ByteBits))
<1> DEFINE n == (ByteBits - (e % ByteBits)) % ByteBits
<1>1. n \in Nat /\ e + n = PadTo(e, ByteBits)
  BY DEF PadTo, ByteBits
<1>2. KnownAligned(Here(e)) = KnownPast(Here(e), n)
  BY DEF KnownAligned, Here, Unknown, ByteBits
<1> HIDE DEF n
<1> QED BY <1>1, <1>2, HerePast

LEMMA HerePastField ==
  ASSUME NEW i \in TypeIds, HasFixedOffsets(i), NEW k \in DOMAIN Fields[i], NEW e \in Nat
  PROVE  KnownPastField(Here(e), Fields[i][k], FALSE) = Here(e + SizeOf(i, k))
<1> DEFINE f == Fields[i][k]
<1>1. /\ FixedWidth(f) \in Nat /\ CountOf(f) \in Nat /\ f.array \in {"none", "fixed"} /\ IsFieldOf(f)
      /\ FieldWidth(f, FALSE) = FixedWidth(f)
  BY FieldOfOneLayout
<1>2. SizeOf(i, k) = FixedWidth(f) * CountOf(f)
  BY DEF SizeOf
<1> HIDE DEF f
<1>3. LengthPrefixBits(f) = 0
  BY <1>1, FieldOf
<1>4. Prefixed(Here(e), f) = Here(e)
  <2>1. KnownPast(Here(e), 0) = Here(e + 0) /\ e + 0 = e
    BY HerePast
  <2> QED BY <1>3, <2>1 DEF Prefixed
<1>5. Here(e) \in Knowns
  BY DEF Here, Knowns, ByteBits
<1>6. FixedWidth(f) # Unknown
  BY <1>1 DEF Unknown
<1>7. KnownPastField(Here(e), f, FALSE) = KnownPast(Here(e), FixedWidth(f) * CountOf(f))
  <2>1. f.array = "none" => CountOf(f) = 1 /\ FixedWidth(f) * CountOf(f) = FixedWidth(f)
    BY <1>1 DEF CountOf, IsArray
  <2>2. f.array = "fixed" => CountOf(f) = f.cap
    BY DEF CountOf, IsArray
  <2>3. KnownPastField(Here(e), f, FALSE) =
              IF FieldWidth(f, FALSE) = Unknown THEN KnownModulo(Prefixed(Here(e), f))
              ELSE IF f.array = "none" THEN KnownPast(Prefixed(Here(e), f), FieldWidth(f, FALSE))
              ELSE IF f.array = "fixed" THEN KnownPast(Prefixed(Here(e), f), FieldWidth(f, FALSE) * f.cap)
              ELSE IF FieldWidth(f, FALSE) % ByteBits = 0 THEN KnownModulo(Prefixed(Here(e), f))
              ELSE KnownNothing
    BY <1>1, <1>5, PastFieldIs, Zenon
  <2>4. CASE f.array = "none"
    BY <1>1, <1>4, <1>6, <2>1, <2>3, <2>4, Zenon
  <2>5. CASE f.array = "fixed"
    <3>1. f.array # "none"
      BY <2>5
    <3> QED BY <1>1, <1>4, <1>6, <2>2, <2>3, <2>5, <3>1, Zenon
  <2> QED BY <1>1, <2>4, <2>5
<1>8. FixedWidth(f) * CountOf(f) \in Nat
  BY <1>1
<1> QED BY <1>2, <1>7, <1>8, HerePast DEF f

(* A step about a field is at the offset its getter uses.                  *)
IsThere(i, s) ==
    s.kind \in {"field", "elements"} => s.known.bits = FixedFieldOffset(i, s.field)

LEMMA ChainIsThere ==
  ASSUME NEW i \in TypeIds, HasFixedOffsets(i), NEW body, IsChain(i, FALSE, body, Start),
         NEW steps, IsCopy(body, steps), NEW last, Walks(i, steps, 0, last)
  PROVE  \A n \in 1 .. Len(body) : IsThere(i, body[n])
<1>1. PICK E : IsWalk(i, steps, 0, last, E)
  BY DEF Walks
<1> DEFINE l == Len(body)
           N == {m \in Nat : m + 1 <= l => body[m + 1].known = Here(E[m])}
<1>2. l \in Nat /\ l = Len(steps) /\ \A n \in 0 .. l : E[n] \in Nat
  BY <1>1, HeldIs DEF IsChain, IsCopy, IsWalk
<1>3. ASSUME NEW n \in 1 .. l
      PROVE  /\ IsPlain(i, FALSE, body[n])
             /\ body[n].known = IF n = 1 THEN Start ELSE body[n - 1].past
             /\ body[n].kind = steps[n].kind /\ body[n].field = steps[n].field
  BY <1>2 DEF IsChain, IsCopy
<1>4. ASSUME NEW n \in 1 .. l
      PROVE  /\ steps[n].kind = "align" => E[n] = PadTo(E[n - 1], ByteBits)
             /\ steps[n].kind = "field" => /\ E[n - 1] = FixedFieldOffset(i, steps[n].field)
                                           /\ E[n] = E[n - 1] + SizeOf(i, steps[n].field)
  BY <1>1, <1>2 DEF IsWalk
<1> HIDE DEF l
<1>5. 0 \in N
  <2>1. E[0] = 0
    BY <1>1 DEF IsWalk
  <2>2. Start = Here(0)
    BY DEF Start, Here, ByteBits
  <2>3. 0 + 1 = 1 /\ (0 + 1 <= l => 1 \in 1 .. l)
    OBVIOUS
  <2> QED BY <1>3, <2>1, <2>2, <2>3
<1>6. ASSUME NEW m \in Nat, m \in N PROVE m + 1 \in N
  <2> SUFFICES ASSUME (m + 1) + 1 <= l PROVE body[(m + 1) + 1].known = Here(E[m + 1])
    OBVIOUS
  <2> DEFINE n == m + 1
             s == body[n]
  <2>1. n \in 1 .. l /\ n + 1 \in 1 .. l /\ n + 1 # 1 /\ (n + 1) - 1 = n /\ n - 1 = m /\ m \in 0 .. l /\ n \in 0 .. l
    BY <1>2
  <2>2. s.known = Here(E[m]) /\ E[m] \in Nat /\ E[n] \in Nat
    BY <1>2, <1>6, <2>1
  <2>3. body[n + 1].known = s.past
    BY <1>3, <2>1
  <2>4. IsPlain(i, FALSE, s) /\ s.kind = steps[n].kind /\ s.field = steps[n].field
    BY <1>3, <2>1
  <2>5. IsStep(i, FALSE, s) /\ s.kind \in {"align", "field"}
    BY <2>4, PlainIs
  <2> HIDE DEF s, n
  <2>6. CASE s.kind = "align"
    <3>1. s.past = KnownAligned(s.known)
      BY <2>5, <2>6, StepIs
    <3>2. E[n] = PadTo(E[m], ByteBits)
      BY <1>4, <2>1, <2>4, <2>6
    <3> QED BY <2>2, <2>3, <3>1, <3>2, HereAligned DEF n
  <2>7. CASE s.kind = "field"
    <3>1. IsOfField(i, FALSE, s)
      BY <2>5, <2>7, StepIs
    <3>2. s.field \in DOMAIN Fields[i] /\ s.past = KnownPastField(s.known, Fields[i][s.field], FALSE)
      BY <3>1 DEF IsOfField
    <3>3. E[n] = E[m] + SizeOf(i, s.field)
      BY <1>4, <2>1, <2>4, <2>7
    <3> QED BY <2>2, <2>3, <3>2, <3>3, HerePastField DEF n
  <2> QED BY <2>5, <2>6, <2>7
<1> HIDE DEF N
<1>7. \A m \in Nat : m \in N
  BY <1>5, <1>6, Induction
<1>8. ASSUME NEW n \in 1 .. l PROVE IsThere(i, body[n])
  <2>1. n - 1 \in Nat /\ (n - 1) + 1 = n
    OBVIOUS
  <2>2. n - 1 \in N
    BY <1>7, <2>1
  <2>3. body[n].known = Here(E[n - 1])
    BY <2>1, <2>2 DEF N
  <2>4. body[n].kind \in {"align", "field"}
    BY <1>3, PlainIs
  <2>5. body[n].kind = "field" => E[n - 1] = FixedFieldOffset(i, body[n].field)
    BY <1>3, <1>4
  <2> QED BY <2>3, <2>4, <2>5 DEF IsThere, Here
<1> QED BY <1>8 DEF l

LEMMA BodyIsThere ==
  ASSUME NEW i \in TypeIds, HasFixedOffsets(i)
  PROVE  LET body == BodyOf(Types[i], Steps[i], FALSE) IN
         /\ body \in Seq(Held(body))
         /\ \A n \in 1 .. Len(body) : IsThere(i, body[n]) /\ body[n].kind \in {"align", "field"}
         /\ \A k \in DOMAIN Fields[i] : Fields[i][k].cat # "void" => Covers(body, k)
<1> DEFINE b == Built(Fields[i], Steps[i], Start, FALSE)
<1>1. ~IsUnion[i]
  BY DEF HasFixedOffsets
<1>2. BodyOf(Types[i], Steps[i], FALSE) = b
  BY <1>1, Definitions, Zenon DEF BodyOf, Ended
<1>3. IsChain(i, FALSE, b, Start) /\ IsCopy(b, Steps[i])
  BY <1>1, StepsAre, BuiltIs, KnowsStart DEF IsCopy
<1> HIDE DEF b
<1>4. \A n \in 1 .. Len(b) : IsThere(i, b[n])
  BY <1>3, StepsWalk, ChainIsThere
<1>5. b \in Seq(Held(b)) /\ \A n \in 1 .. Len(b) : b[n].kind \in {"align", "field"}
  BY <1>3, PlainIs DEF IsChain
<1>6. \A k \in DOMAIN Fields[i] : Fields[i][k].cat # "void" => Covers(b, k)
  BY <1>1, <1>3, StepsCover DEF Covers, IsCopy
<1> QED BY <1>2, <1>4, <1>5, <1>6

-----------------------------------------------------------------------------
(* What a body that reads has got.                                         *)

(* The step is to fill the field, or all of them.                          *)
IsAbout(s, k) == s.kind = "move" \/ (s.kind \in {"field", "elements"} /\ s.field = k)

Ahead(todo, k) == \E n \in 1 .. Len(todo) : IsAbout(todo[n], k)

HoldsArrays(obj) ==
    /\ DOMAIN obj = DOMAIN Fields[reader]
    /\ \A k \in DOMAIN Fields[reader] :
          IsArray(Fields[reader][k]) => DOMAIN obj[k] = 1 .. Fields[reader][k].cap

(* The elements behind a loop are what their getters answer.               *)
GetsElements(t) ==
    LET s == t.todo[1] IN
    ~IsComposite(s.f) => \A n \in 1 .. t.loop.at : t.obj[s.field][n] = Getter(reader, s.field, n)

(* A body that read its definition's fields, of one layout, so far ...     *)
Getting(t) ==
    /\ t.type = reader /\ t.base = 0 /\ t.cap = size /\ HoldsArrays(t.obj)
    /\ \A n \in 1 .. Len(t.todo) : IsThere(reader, t.todo[n])
    /\ t.err = Ok =>
         /\ \A k \in DOMAIN Fields[reader] : Ahead(t.todo, k) \/ IsWhatIsGot(reader, k, t.obj[k])
         /\ InLoop(t) => GetsElements(t)

(* ... which is the outermost one: those it calls read the composites.     *)
FirstGets(frames) == frames # << >> => Getting(frames[1])

GInv ==
    /\ KInv
    /\ reads \in Seq(Held(reads))
    /\ phase = "reading" /\ HasFixedOffsets(reader) => FirstGets(stack)
    /\ GettersAgree

LEMMA AheadRest ==
  ASSUME NEW i \in TypeIds, NEW w \in BOOLEAN, NEW todo, IsTodo(i, w, todo), todo # << >>, NEW k
  PROVE  Ahead(todo, k) <=> IsAbout(todo[1], k) \/ Ahead(Tail(todo), k)
<1>1. /\ Len(todo) \in Nat /\ Len(todo) > 0 /\ Len(Tail(todo)) = Len(todo) - 1
      /\ \A n \in 1 .. Len(Tail(todo)) : Tail(todo)[n] = todo[n + 1]
  BY RestIs
<1>2. ASSUME NEW n \in 1 .. Len(todo), IsAbout(todo[n], k), ~IsAbout(todo[1], k)
      PROVE  Ahead(Tail(todo), k)
  <2>1. n # 1
    BY <1>2
  <2>2. n - 1 \in 1 .. Len(Tail(todo)) /\ (n - 1) + 1 = n
    BY <1>1, <2>1
  <2>3. Tail(todo)[n - 1] = todo[n]
    BY <1>1, <2>2
  <2> QED BY <1>2, <2>2, <2>3 DEF Ahead
<1>3. ASSUME NEW n \in 1 .. Len(Tail(todo)), IsAbout(Tail(todo)[n], k)
      PROVE  Ahead(todo, k)
  <2>1. n + 1 \in 1 .. Len(todo) /\ IsAbout(todo[n + 1], k)
    BY <1>1, <1>3
  <2> QED BY <2>1 DEF Ahead
<1>4. 1 \in 1 .. Len(todo)
  BY <1>1
<1> QED BY <1>2, <1>3, <1>4 DEF Ahead

(* What a body that reads has left past a step.                            *)
LEMMA RestToRead ==
  ASSUME NEW t, FrameOK(t, FALSE), t.todo # << >>
  PROVE  /\ Len(t.todo) \in Nat /\ Len(t.todo) > 0 /\ Len(Tail(t.todo)) = Len(t.todo) - 1
         /\ \A n \in 1 .. Len(Tail(t.todo)) : Tail(t.todo)[n] = t.todo[n + 1]
         /\ Tail(t.todo) # << >> => Tail(t.todo)[1].kind # "elements"
         /\ Tail(t.todo) \in Seq(Held(Tail(t.todo)))
<1>1. PICK w \in BOOLEAN : w = FALSE
  OBVIOUS
<1>2. FrameOK(t, w)
  BY <1>1
<1>3. t.type \in TypeIds /\ IsTodo(t.type, w, t.todo)
  BY <1>2, Zenon DEF FrameOK, WellFormed
<1> QED BY <1>3, RestIs

(* A step fills what it is about and nothing else.                         *)
LEMMA GetsPast ==
  ASSUME reader \in TypeIds, NEW t, FrameOK(t, FALSE), t.todo # << >>, Getting(t),
         NEW u, Keeps(t, u), HoldsArrays(u.obj), u.err = Ok => t.err = Ok,
         u.err = Ok => \A k \in DOMAIN Fields[reader] :
                          \/ IsWhatIsGot(reader, k, u.obj[k])
                          \/ u.obj[k] = t.obj[k] /\ ~IsAbout(t.todo[1], k)
  PROVE  Getting(Past(u))
<1> DEFINE p == Past(u)
<1>1. /\ p.type = t.type /\ p.base = t.base /\ p.cap = t.cap /\ p.obj = u.obj /\ p.err = u.err
      /\ p.todo = Tail(t.todo)
  BY PastIs DEF Keeps
<1> HIDE DEF p
<1>2. t.type = reader /\ IsTodo(t.type, FALSE, t.todo)
  BY FrameIs DEF Getting
<1>3. ~InLoop(p)
  BY <1>1, RestToRead DEF InLoop
<1>4. ASSUME NEW n \in 1 .. Len(p.todo) PROVE IsThere(reader, p.todo[n])
  <2>1. /\ Len(t.todo) \in Nat /\ Len(t.todo) > 0 /\ Len(p.todo) = Len(t.todo) - 1
        /\ p.todo[n] = t.todo[n + 1]
    BY <1>1, RestToRead
  <2>2. n + 1 \in 1 .. Len(t.todo)
    BY <2>1
  <2> QED BY <2>1, <2>2 DEF Getting
<1>5. ASSUME p.err = Ok, NEW k \in DOMAIN Fields[reader], ~IsWhatIsGot(reader, k, p.obj[k])
      PROVE  Ahead(p.todo, k)
  <2>1. u.obj[k] = t.obj[k] /\ ~IsAbout(t.todo[1], k) /\ t.err = Ok
    BY <1>1, <1>5
  <2>2. Ahead(t.todo, k)
    BY <1>1, <1>5, <2>1 DEF Getting
  <2>3. IsTodo(reader, FALSE, t.todo) /\ FALSE \in BOOLEAN
    BY <1>2
  <2>4. Ahead(t.todo, k) <=> IsAbout(t.todo[1], k) \/ Ahead(Tail(t.todo), k)
    BY <2>3, AheadRest
  <2> QED BY <1>1, <2>1, <2>2, <2>4
<1>6. p.type = reader /\ p.base = 0 /\ p.cap = size /\ HoldsArrays(p.obj)
  BY <1>1 DEF Getting
<1> QED BY <1>3, <1>4, <1>5, <1>6 DEF Getting, p

(* The step behind filled one field.                                       *)
LEMMA GetsField ==
  ASSUME reader \in TypeIds, NEW t, FrameOK(t, FALSE), t.todo # << >>, Getting(t),
         t.todo[1].kind \in {"field", "elements"},
         NEW v, IsArray(t.todo[1].f) => DOMAIN v = 1 .. t.todo[1].f.cap,
         NEW u, Keeps(t, u), u.obj = [t.obj EXCEPT ![t.todo[1].field] = v], u.err = Ok => t.err = Ok,
         u.err = Ok => IsWhatIsGot(reader, t.todo[1].field, v)
  PROVE  Getting(Past(u))
<1> DEFINE s == t.todo[1]
<1>1. t.type = reader /\ IsStep(t.type, FALSE, s) /\ HoldsArrays(t.obj)
  BY FrameIs DEF Getting
<1>2. s.field \in DOMAIN Fields[reader] /\ s.f = Fields[reader][s.field]
  BY <1>1, StepIs DEF IsOfField
<1>3. DOMAIN u.obj = DOMAIN t.obj
      /\ \A k \in DOMAIN Fields[reader] : u.obj[k] = IF k = s.field THEN v ELSE t.obj[k]
  <2>1. DOMAIN t.obj = DOMAIN Fields[reader]
    BY <1>1 DEF HoldsArrays
  <2> QED BY <2>1
<1>4. HoldsArrays(u.obj)
  BY <1>1, <1>2, <1>3 DEF HoldsArrays
<1>5. ASSUME u.err = Ok, NEW k \in DOMAIN Fields[reader]
      PROVE  \/ IsWhatIsGot(reader, k, u.obj[k])
             \/ u.obj[k] = t.obj[k] /\ ~IsAbout(s, k)
  BY <1>3, <1>5 DEF IsAbout
<1> HIDE DEF s
<1> QED BY <1>4, <1>5, GetsPast DEF s

(* A loop begins on the field it is about.                                 *)
LEMMA GetsStartsLoop ==
  ASSUME reader \in TypeIds, NEW t, FrameOK(t, FALSE), t.todo # << >>, Getting(t),
         t.todo[1].kind = "field", NEW u, IsFrame(u),
         u.type = t.type /\ u.base = t.base /\ u.cap = t.cap /\ u.obj = t.obj /\ u.err = t.err,
         u.loop.at = 0, u.todo = <<Elements(t.todo[1])>> \o Tail(t.todo)
  PROVE  Getting(u)
<1> DEFINE s == t.todo[1]
           e == Elements(s)
<1>1. t.type = reader /\ IsTodo(t.type, FALSE, t.todo) /\ IsStep(t.type, FALSE, s)
  BY FrameIs DEF Getting
<1>2. e.kind = "elements" /\ e.field = s.field /\ e.known = s.known /\ e.f = s.f
  <2>1. IsFieldStep(t.type, FALSE, s)
    BY <1>1, StepIs
  <2> QED BY <2>1 DEF Elements, IsFieldStep, FieldStepAt
<1> HIDE DEF s, e
<1>3. /\ Len(t.todo) \in Nat /\ Len(t.todo) > 0 /\ Len(Tail(t.todo)) = Len(t.todo) - 1
      /\ \A n \in 1 .. Len(Tail(t.todo)) : Tail(t.todo)[n] = t.todo[n + 1]
      /\ Tail(t.todo) \in Seq(Held(Tail(t.todo)))
  BY RestToRead
<1>4. <<e>> \in Seq(Held(<<e>>)) /\ Len(<<e>>) = 1 /\ <<e>>[1] = e
  BY HeldOne
<1>5. /\ Len(u.todo) = 1 + Len(Tail(t.todo))
      /\ \A n \in 1 .. 1 : u.todo[n] = <<e>>[n]
      /\ \A n \in 1 .. Len(Tail(t.todo)) : u.todo[1 + n] = Tail(t.todo)[n]
  BY <1>3, <1>4, HeldConcat DEF e, s
<1>6. Len(u.todo) = Len(t.todo) /\ u.todo[1] = e
  BY <1>3, <1>4, <1>5
<1>7. \A n \in 1 .. Len(t.todo) : n # 1 => u.todo[n] = t.todo[n]
  <2> SUFFICES ASSUME NEW n \in 1 .. Len(t.todo), n # 1 PROVE u.todo[n] = t.todo[n]
    OBVIOUS
  <2>1. n - 1 \in 1 .. Len(Tail(t.todo)) /\ 1 + (n - 1) = n /\ (n - 1) + 1 = n
    BY <1>3
  <2> QED BY <1>3, <1>5, <2>1
<1>8. ASSUME NEW n \in 1 .. Len(t.todo) PROVE IsThere(reader, u.todo[n])
  <2>1. IsThere(reader, t.todo[n])
    BY DEF Getting
  <2>2. CASE n = 1
    BY <1>2, <1>6, <2>1, <2>2 DEF IsThere, s
  <2> QED BY <1>7, <2>1, <2>2
<1>9. ASSUME NEW k, Ahead(t.todo, k) PROVE Ahead(u.todo, k)
  <2>1. PICK n \in 1 .. Len(t.todo) : IsAbout(t.todo[n], k)
    BY <1>9 DEF Ahead
  <2>2. IsAbout(u.todo[n], k)
    <3>1. CASE n = 1
      BY <1>2, <1>6, <2>1, <3>1 DEF IsAbout, s
    <3> QED BY <1>7, <2>1, <3>1
  <2> QED BY <1>6, <2>2 DEF Ahead
<1>10. GetsElements(u)
  <2>1. \A n \in 1 .. 0 : FALSE
    OBVIOUS
  <2> QED BY <2>1 DEF GetsElements
<1> QED BY <1>6, <1>8, <1>9, <1>10 DEF Getting

(* ... and goes on.                                                        *)
IsElementOn(t, v, u) ==
    /\ IsFrame(u) /\ u.type = t.type /\ u.base = t.base /\ u.cap = t.cap /\ u.todo = t.todo
    /\ u.loop.at = t.loop.at + 1
    /\ u.obj = [t.obj EXCEPT ![t.todo[1].field] = [t.obj[t.todo[1].field] EXCEPT ![t.loop.at + 1] = v]]

LEMMA GetsLoops ==
  ASSUME reader \in TypeIds, NEW t, FrameOK(t, FALSE), t.todo # << >>, Getting(t),
         t.todo[1].kind = "elements", t.err = Ok,
         NEW v, NEW u, IsElementOn(t, v, u),
         u.err = Ok /\ ~IsComposite(t.todo[1].f) /\ t.loop.at + 1 \in 1 .. t.todo[1].f.cap
            => v = Getter(reader, t.todo[1].field, t.loop.at + 1)
  PROVE  IsComposite(t.todo[1].f) \/ t.loop.at + 1 \in 1 .. t.todo[1].f.cap => Getting(u)
<1> DEFINE s == t.todo[1]
           at == t.loop.at
           was == t.obj[s.field]
           is == [was EXCEPT ![at + 1] = v]
<1> SUFFICES ASSUME IsComposite(s.f) \/ at + 1 \in 1 .. s.f.cap PROVE Getting(u)
  OBVIOUS
<1>0. /\ IsFrame(u) /\ u.type = t.type /\ u.base = t.base /\ u.cap = t.cap /\ u.todo = t.todo
      /\ u.loop.at = at + 1 /\ u.obj = [t.obj EXCEPT ![s.field] = is]
  BY DEF IsElementOn
<1>1. t.type = reader /\ IsStep(t.type, FALSE, s) /\ HoldsArrays(t.obj) /\ at \in Nat
  BY FrameIs DEF Getting
<1>2. s.field \in DOMAIN Fields[reader] /\ s.f = Fields[reader][s.field] /\ IsArray(s.f) /\ IsFieldOf(s.f)
  BY <1>1, StepIs DEF IsOfField
<1>3. DOMAIN was = 1 .. s.f.cap /\ DOMAIN t.obj = DOMAIN Fields[reader]
  BY <1>1, <1>2 DEF HoldsArrays
<1> HIDE DEF was, s, at
<1>4. DOMAIN is = 1 .. s.f.cap /\ \A n \in 1 .. s.f.cap : is[n] = IF n = at + 1 THEN v ELSE was[n]
  BY <1>3
<1>a. u.obj = [t.obj EXCEPT ![s.field] = is]
  BY <1>0
<1> HIDE DEF is
<1>5. DOMAIN u.obj = DOMAIN Fields[reader]
      /\ \A k \in DOMAIN Fields[reader] : u.obj[k] = IF k = s.field THEN is ELSE t.obj[k]
  BY <1>a, <1>3
<1>6. HoldsArrays(u.obj)
  <2>1. ASSUME NEW k \in DOMAIN Fields[reader], IsArray(Fields[reader][k])
        PROVE  DOMAIN u.obj[k] = 1 .. Fields[reader][k].cap
    BY <1>1, <1>2, <1>4, <1>5, <2>1 DEF HoldsArrays
  <2> QED BY <1>5, <2>1 DEF HoldsArrays
<1>7. \A k : k # s.field => (Ahead(u.todo, k) <=> Ahead(t.todo, k))
  BY <1>0
<1>8. Ahead(u.todo, s.field)
  <2>1. 1 \in 1 .. Len(t.todo)
    BY RestToRead
  <2> QED BY <1>0, <2>1 DEF Ahead, IsAbout, s
<1>9. ASSUME NEW k \in DOMAIN Fields[reader]
      PROVE  Ahead(u.todo, k) \/ IsWhatIsGot(reader, k, u.obj[k])
  <2>1. Ahead(t.todo, k) \/ IsWhatIsGot(reader, k, t.obj[k])
    BY DEF Getting
  <2> QED BY <1>5, <1>7, <1>8, <2>1
<1>10. ASSUME u.err = Ok PROVE GetsElements(u)
  <2> SUFFICES ASSUME ~IsComposite(s.f), NEW n \in 1 .. (at + 1) PROVE is[n] = Getter(reader, s.field, n)
    <3>1. u.todo[1] = s /\ u.loop.at = at + 1 /\ u.obj[s.field] = is
      BY <1>0, <1>2, <1>5 DEF s
    <3> QED BY <3>1 DEF GetsElements
  <2>1. n \in 1 .. s.f.cap
    <3>1. s.f.cap \in Nat
      BY <1>2, FieldOf DEF IsField
    <3> QED BY <1>1, <3>1
  <2>2. CASE n = at + 1
    BY <1>4, <1>10, <2>1, <2>2 DEF s, at
  <2>3. CASE n # at + 1
    <3>1. n \in 1 .. at
      BY <1>1, <2>3
    <3>2. InLoop(t) /\ GetsElements(t)
      BY DEF Getting, InLoop
    <3>3. was[n] = Getter(reader, s.field, n)
      BY <3>1, <3>2 DEF GetsElements, s, at, was
    <3> QED BY <1>4, <2>1, <2>3, <3>3
  <2> QED BY <2>2, <2>3
<1>11. \A n \in 1 .. Len(u.todo) : IsThere(reader, u.todo[n])
  BY <1>0 DEF Getting
<1> QED BY <1>0, <1>6, <1>9, <1>10, <1>11 DEF Getting

-----------------------------------------------------------------------------
(* The outermost frame.                                                    *)

LEMMA TopGets ==
  ASSUME NEW w, AreFrames(stack, w), stack # << >>, FirstGets(stack),
         NEW t, Len(stack) = 1 => Getting(t)
  PROVE  FirstGets(WithTop(t))
<1> DEFINE r == [stack EXCEPT ![Len(stack)] = t]
<1>1. stack \in Seq(Held(stack)) /\ Len(stack) \in Nat /\ Len(stack) > 0
  BY HeldIs DEF AreFrames
<1>2. \A n \in 1 .. Len(stack) : r[n] = IF n = Len(stack) THEN t ELSE stack[n]
  BY <1>1, HeldReplaced
<1> HIDE DEF r
<1>3. r[1] = IF Len(stack) = 1 THEN t ELSE stack[1]
  <2>1. 1 \in 1 .. Len(stack)
    BY <1>1
  <2> QED BY <1>2, <2>1
<1> QED BY <1>3 DEF FirstGets, WithTop, r

LEMMA CalledGets ==
  ASSUME NEW w, AreFrames(stack, w), stack # << >>, FirstGets(stack), NEW t
  PROVE  FirstGets(Append(stack, t))
<1>1. stack \in Seq(Held(stack)) /\ Len(stack) \in Nat /\ Len(stack) > 0
  BY HeldIs DEF AreFrames
<1>2. \A n \in 1 .. Len(stack) : Append(stack, t)[n] = stack[n]
  BY <1>1, HeldAppend
<1>3. Append(stack, t)[1] = stack[1]
  BY <1>1, <1>2
<1> QED BY <1>3 DEF FirstGets

LEMMA ReturnedGets ==
  ASSUME NEW w, AreFrames(stack, w), Len(stack) > 1, FirstGets(stack),
         NEW t, Len(stack) = 2 => Getting(t)
  PROVE  FirstGets(Popped(t))
<1> DEFINE r == Append(SubSeq(stack, 1, Len(stack) - 2), t)
<1>0. stack \in Seq(Held(stack))
  BY DEF AreFrames
<1>1. Len(stack) \in Nat /\ stack # << >>
  BY <1>0, HeldIs
<1>2. /\ \A m \in 1 .. (Len(stack) - 2) : r[m] = stack[m]
      /\ r[Len(stack) - 1] = t
  BY <1>0, HeldPopped, ZenonT(40)
<1> HIDE DEF r
<1>3. r[1] = IF Len(stack) = 2 THEN t ELSE stack[1]
  <2>1. CASE Len(stack) = 2
    <3>1. Len(stack) - 1 = 1
      BY <2>1
    <3> QED BY <1>2, <2>1, <3>1
  <2>2. CASE Len(stack) # 2
    <3>0. PICK n \in Nat : n = Len(stack)
      BY <1>1
    <3>1. 1 \in 1 .. (Len(stack) - 2)
      BY <2>2, <3>0
    <3> QED BY <1>2, <2>2, <3>1
  <2> QED BY <2>1, <2>2
<1> QED BY <1>1, <1>3 DEF FirstGets, Popped, r

(* Where a body of one layout is.                                          *)
LEMMA AtFirst ==
  ASSUME GInv, phase = "reading", HasFixedOffsets(reader), stack # << >>
  PROVE  /\ reader \in TypeIds /\ size \in Nat /\ ~Writing /\ ~IsUnion[reader]
         /\ AreFrames(stack, FALSE) /\ FirstGets(stack) /\ KInv
         /\ FrameOK(Top, FALSE) /\ IsFrame(Top) /\ Top.type \in TypeIds
         /\ Top.todo # << >> => Step = Top.todo[1] /\ IsStep(Top.type, FALSE, Step)
         /\ Len(stack) = 1 =>
              /\ Getting(Top) /\ Top.type = reader /\ Top.base = 0 /\ Top.cap = size
<1>1. reader \in TypeIds /\ size \in Nat /\ AreFrames(stack, Writing) /\ KInv /\ FirstGets(stack)
  BY DEF GInv, KInv
<1>2. ~Writing /\ Writing = FALSE
  BY DEF Writing
<1>3. AreFrames(stack, FALSE)
  <2>1. ASSUME NEW w, w = FALSE, AreFrames(stack, w) PROVE AreFrames(stack, FALSE)
    BY <2>1
  <2> QED BY <1>1, <1>2, <2>1
<1>4. FrameOK(Top, FALSE) /\ IsFrame(Top) /\ Top.type \in TypeIds
  BY <1>3, TopIs
<1>5. Top.todo # << >> => Step = Top.todo[1] /\ IsStep(Top.type, FALSE, Step)
  <2>1. IsTodo(Top.type, FALSE, Top.todo)
    BY <1>4 DEF FrameOK, WellFormed
  <2> QED BY <2>1, TodoHead DEF Step
<1>6. Len(stack) = 1 => Getting(Top)
  BY <1>1 DEF FirstGets, Top
<1>7. Getting(Top) => Top.type = reader /\ Top.base = 0 /\ Top.cap = size
  BY DEF Getting
<1> QED BY <1>1, <1>2, <1>3, <1>4, <1>5, <1>6, <1>7 DEF HasFixedOffsets

LEMMA OffsetIsNumber ==
  ASSUME NEW i \in TypeIds, HasFixedOffsets(i), NEW k \in DOMAIN Fields[i]
  PROVE  FixedFieldOffset(i, k) \in Nat /\ FixedFieldOffset(i, k) # Unknown
<1>1. PICK ends \in [0 .. Len(Fields[i]) -> Nat] :
         \A j \in 1 .. Len(Fields[i]) : FixedFieldOffset(i, j) = PadTo(ends[j - 1], AlignmentOf(Fields[i][j]))
  BY OffsetsOfOneLayout
<1>2. k \in 1 .. Len(Fields[i]) /\ Len(Fields[i]) \in Nat
  BY Definitions
<1>3. k - 1 \in 0 .. Len(Fields[i])
  BY <1>2
<1>4. ends[k - 1] \in Nat
  BY <1>3
<1>5. AlignmentOf(Fields[i][k]) \in {1, ByteBits}
  BY DEF AlignmentOf
<1>6. FixedFieldOffset(i, k) \in Nat
  BY <1>1, <1>2, <1>4, <1>5, PadToIs
<1> QED BY <1>6 DEF Unknown

(* The field a step of it is about.                                        *)
LEMMA FieldAtFirst ==
  ASSUME GInv, phase = "reading", HasFixedOffsets(reader), stack # << >>, Len(stack) = 1,
         Top.todo # << >>, Step.kind \in {"field", "elements"}
  PROVE  /\ Step.field \in DOMAIN Fields[reader] /\ Field = Fields[reader][Step.field]
         /\ Step.f = Field /\ IsFieldOf(Field) /\ Field.array \in {"none", "fixed"}
         /\ IsComposite(Field) => IsSealed[Field.ref] /\ FixedBits[Field.ref] # Unknown
         /\ Step.bits = IF IsComposite(Field) THEN FixedBits[Field.ref] ELSE Field.bits
         /\ Step.known.bits = FixedFieldOffset(reader, Step.field)
         /\ FixedFieldOffset(reader, Step.field) \in Nat
         /\ Step.known.bits # Unknown
         /\ Step.known \in Knowns
<1>1. reader \in TypeIds /\ Top.type = reader /\ Getting(Top) /\ Step = Top.todo[1]
      /\ IsStep(reader, FALSE, Step) /\ FrameOK(Top, FALSE)
  BY AtFirst
<1>2. IsOfField(reader, FALSE, Step) /\ Step.known \in Knowns
  BY <1>1, StepIs
<1>3. 1 \in 1 .. Len(Top.todo)
  BY <1>1, FrameIs, RestIs
<1>4. Step.known.bits = FixedFieldOffset(reader, Step.field)
  BY <1>1, <1>3 DEF Getting, IsThere
<1>5. Step.field \in DOMAIN Fields[reader] /\ Step.f = Fields[reader][Step.field] /\ IsFieldOf(Step.f)
      /\ Step.bits = IF IsComposite(Step.f) THEN FixedBits[Step.f.ref] ELSE Step.f.bits
  BY <1>2 DEF IsOfField
<1>6. FixedFieldOffset(reader, Step.field) \in Nat /\ FixedFieldOffset(reader, Step.field) # Unknown
  BY <1>1, <1>5, OffsetIsNumber
<1>7. Step.f.array \in {"none", "fixed"}
  BY <1>1, <1>5, FieldOfOneLayout
<1>8. IsComposite(Step.f) => IsSealed[Step.f.ref] /\ FixedBits[Step.f.ref] # Unknown
  BY <1>5 DEF HasFixedOffsets
<1>9. Field = Step.f
  BY DEF Field
<1> QED BY <1>2, <1>4, <1>5, <1>6, <1>7, <1>8, <1>9

(* A field that is read at the offset of its getter is what that answers.  *)
LEMMA ReadIsGot ==
  ASSUME GInv, phase = "reading", HasFixedOffsets(reader), stack # << >>, Len(stack) = 1,
         NEW k \in DOMAIN Fields[reader], NEW n \in Nat,
         NEW off, off = FixedFieldOffset(reader, k) + (n - 1) * Fields[reader][k].bits,
         IsArray(Fields[reader][k]) => n <= Fields[reader][k].cap
  PROVE  ReadValue(Fields[reader][k], ReadAt(Top, off, Fields[reader][k].bits)) = Getter(reader, k, n)
<1> DEFINE f == Fields[reader][k]
<1>1. reader \in TypeIds /\ Top.base = 0 /\ Top.cap = size /\ size \in Nat
  BY AtFirst
<1>2. FixedFieldOffset(reader, k) \in Nat
  BY <1>1, OffsetIsNumber
<1>3. f.bits \in Nat /\ f.cap \in Nat
  BY <1>1, FieldsAre DEF IsField
<1> DEFINE at == FixedFieldOffset(reader, k)
<1> HIDE DEF f, at
<1>4. off \in Int /\ off = at + (n - 1) * f.bits
  BY <1>2, <1>3 DEF f, at
<1>5. Top.base * ByteBits + off = off /\ (Top.base + Top.cap) * ByteBits = size * ByteBits
  BY <1>1, <1>4 DEF ByteBits
<1>6. ReadAt(Top, off, f.bits) = BitsAt(ones, at + (n - 1) * f.bits, f.bits, size * ByteBits)
  BY <1>4, <1>5, Zenon DEF ReadAt
<1>7. ~ (IsArray(f) /\ n > f.cap)
  BY <1>3 DEF f
<1>8. Getter(reader, k, n) = ReadValue(f, BitsAt(ones, at + (n - 1) * f.bits, f.bits, size * ByteBits))
  BY <1>7, Zenon DEF Getter, f, at
<1> QED BY <1>6, <1>8 DEF f

LEMMA MemberWith ==
  ASSUME NEW t, IsFrame(t), ~IsUnion[t.type], NEW v
  PROVE  /\ Member(t) = t.obj[Head(t.todo).field]
         /\ WithMember(t, v).obj = [t.obj EXCEPT ![Head(t.todo).field] = v]
BY DEF Member, WithMember, IsFrame

LEMMA ReadScalarGets ==
  ASSUME GInv, phase = "reading", HasFixedOffsets(reader), ReadScalar
  PROVE  FirstGets(stack')
<1>1. /\ stack # << >> /\ Top.todo # << >> /\ Step.kind = "field" /\ ~IsArray(Field) /\ ~IsComposite(Field)
  BY DEF ReadScalar, AtField, AtStep, IsComposite
<1> DEFINE v == ReadValue(Field, ReadAt(Top, Top.off, Field.bits))
           m == WithMember(Top, v)
           u == [m EXCEPT !.off = @ + Field.bits]
<1>2. stack' = WithTop(Past(u))
  BY Zenon DEF ReadScalar
<1>3. AreFrames(stack, FALSE) /\ FirstGets(stack) /\ FrameOK(Top, FALSE) /\ IsFrame(Top)
      /\ Step = Top.todo[1] /\ reader \in TypeIds /\ ~IsUnion[reader]
  BY <1>1, AtFirst
<1>4. ASSUME Len(stack) = 1 PROVE Getting(Past(u))
  <2>1. Getting(Top) /\ Top.type = reader
    BY <1>1, <1>4, AtFirst
  <2>2. Step.field \in DOMAIN Fields[reader] /\ Field = Fields[reader][Step.field] /\ Field = Top.todo[1].f
        /\ IsFieldOf(Field) /\ Step.known.bits = FixedFieldOffset(reader, Step.field) /\ Step.known.bits # Unknown
        /\ Step.known.bits \in Nat
    BY <1>1, <1>3, <1>4, FieldAtFirst
  <2>3. ASSUME Top.err = Ok PROVE v = Getter(reader, Step.field, 1)
    <3>1. Top.off = FixedFieldOffset(reader, Step.field)
      BY <1>1, <1>3, <2>2, <2>3, FrameIs DEF Knows
    <3>2. Field.bits \in Nat
      BY <2>2, FieldOf DEF IsField
    <3>3. Top.off = FixedFieldOffset(reader, Step.field) + (1 - 1) * Field.bits
      BY <2>2, <3>1, <3>2
    <3> QED BY <1>1, <1>4, <2>2, <3>3, ReadIsGot
  <2> HIDE DEF v
  <2>4. Keeps(Top, m) /\ m.off = Top.off /\ m.err = Top.err
    BY <1>3, WithMemberIs
  <2>5. m.obj = [Top.obj EXCEPT ![Step.field] = v]
    BY <1>3, <2>1, MemberWith DEF Step
  <2> HIDE DEF m
  <2>6. Keeps(m, u) /\ u.obj = m.obj /\ u.err = m.err
    BY <2>4, MovedIs DEF Keeps
  <2>7. Keeps(Top, u)
    BY <2>4, <2>6, KeepsOn
  <2> HIDE DEF u
  <2>8. u.err = Ok => IsWhatIsGot(reader, Step.field, v)
    BY <1>1, <2>2, <2>3, <2>4, <2>6 DEF IsWhatIsGot
  <2> QED BY <1>1, <1>3, <2>1, <2>2, <2>4, <2>5, <2>6, <2>7, <2>8, GetsField
<1> HIDE DEF u
<1> QED BY <1>1, <1>2, <1>3, <1>4, TopGets

-----------------------------------------------------------------------------
(* A step behind which the object is as it was: what it was about is       *)
(* nothing a getter answers, or got already.                               *)
LEMMA SameGets ==
  ASSUME GInv, phase = "reading", HasFixedOffsets(reader), stack # << >>, Top.todo # << >>,
         NEW u, Keeps(Top, u), u.obj = Top.obj, u.err = Top.err,
         Len(stack) = 1 /\ Top.err = Ok =>
           \A k \in DOMAIN Fields[reader] :
              IsAbout(Step, k) => IsWhatIsGot(reader, k, Top.obj[k])
  PROVE  FirstGets(WithTop(Past(u)))
<1>1. AreFrames(stack, FALSE) /\ FirstGets(stack) /\ FrameOK(Top, FALSE)
      /\ Step = Top.todo[1] /\ reader \in TypeIds
  BY AtFirst
<1>2. ASSUME Len(stack) = 1 PROVE Getting(Past(u))
  <2>1. Getting(Top)
    BY <1>2, AtFirst
  <2>2. HoldsArrays(u.obj)
    BY <2>1 DEF Getting
  <2>3. u.err = Ok => \A k \in DOMAIN Fields[reader] :
                         \/ IsWhatIsGot(reader, k, u.obj[k])
                         \/ u.obj[k] = Top.obj[k] /\ ~IsAbout(Top.todo[1], k)
    BY <1>1, <1>2
  <2> QED BY <1>1, <2>1, <2>2, <2>3, GetsPast
<1> QED BY <1>1, <1>2, TopGets

LEMMA ZeroBitsGet ==
  ASSUME GInv, phase = "reading", HasFixedOffsets(reader), stack # << >>, Top.todo # << >>,
         NEW n, ZeroBits(n),
         Len(stack) = 1 /\ Top.err = Ok =>
           \A k \in DOMAIN Fields[reader] :
              IsAbout(Step, k) => IsWhatIsGot(reader, k, Top.obj[k])
  PROVE  FirstGets(stack')
<1>1. ~Writing /\ IsFrame(Top)
  BY AtFirst
<1> DEFINE u == [Top EXCEPT !.off = @ + n]
<1>2. Keeps(Top, u) /\ u.obj = Top.obj /\ u.err = Top.err
  BY <1>1, MovedIs
<1>3. stack' = WithTop(Past(u))
  BY <1>1 DEF ZeroBits
<1> HIDE DEF u
<1> QED BY <1>2, <1>3, SameGets

LEMMA PaddingGets ==
  ASSUME GInv, phase = "reading", HasFixedOffsets(reader), Padding
  PROVE  FirstGets(stack')
<1>1. /\ stack # << >> /\ Top.todo # << >> /\ Step.kind = "field" /\ Field.cat = "void"
      /\ ZeroBits(Field.bits)
  BY DEF Padding, AtField, AtStep
<1>2. ASSUME Len(stack) = 1, NEW k \in DOMAIN Fields[reader], IsAbout(Step, k)
      PROVE  IsWhatIsGot(reader, k, Top.obj[k])
  <2>1. Step.field = k /\ Field = Fields[reader][Step.field]
    BY <1>1, <1>2, FieldAtFirst DEF IsAbout
  <2> QED BY <1>1, <2>1 DEF IsWhatIsGot
<1> QED BY <1>1, <1>2, ZeroBitsGet

LEMMA AlignGets ==
  ASSUME GInv, phase = "reading", HasFixedOffsets(reader), Align
  PROVE  FirstGets(stack')
<1>1. stack # << >> /\ Top.todo # << >> /\ Step.kind = "align"
  BY DEF Align, AtStep
<1>2. PICK n : ZeroBits(n)
  BY DEF Align
<1>3. \A k : ~IsAbout(Step, k)
  BY <1>1 DEF IsAbout
<1> QED BY <1>1, <1>2, <1>3, ZeroBitsGet

LEMMA SkipGets ==
  ASSUME GInv, phase = "reading", HasFixedOffsets(reader), Skip
  PROVE  FirstGets(stack')
<1>1. /\ stack # << >> /\ Top.todo # << >> /\ Top.err # Ok /\ stack' = WithTop(Past(Top))
  BY DEF Skip, Healthy
<1>2. Keeps(Top, Top)
  BY <1>1, AtFirst DEF Keeps
<1> QED BY <1>1, <1>2, SameGets

LEMMA EndArrayGets ==
  ASSUME GInv, phase = "reading", HasFixedOffsets(reader), EndArray
  PROVE  FirstGets(stack')
<1>1. /\ stack # << >> /\ Top.todo # << >> /\ Step.kind = "elements"
      /\ Top.err = Ok => Top.loop.at = Top.loop.count
      /\ stack' = WithTop(Past(Top))
  BY DEF EndArray, AtStep, Healthy
<1>2. Keeps(Top, Top) /\ FrameOK(Top, FALSE) /\ Step = Top.todo[1] /\ reader \in TypeIds
  BY <1>1, AtFirst DEF Keeps
<1>3. ASSUME Len(stack) = 1, Top.err = Ok, NEW k \in DOMAIN Fields[reader], IsAbout(Step, k)
      PROVE  IsWhatIsGot(reader, k, Top.obj[k])
  <2>1. Step.field = k /\ Field = Fields[reader][k] /\ Field = Step.f /\ Field.array \in {"none", "fixed"}
    BY <1>1, <1>3, FieldAtFirst DEF IsAbout
  <2>2. IsArray(Field)
    BY <1>1, AtTop DEF GInv
  <2>3. Field.array = "fixed"
    BY <2>1, <2>2 DEF IsArray
  <2>4. Top.loop.at = Field.cap
    BY <1>1, <1>2, <1>3, <2>1, <2>3 DEF FrameOK, WellFormed, LoopIsBound
  <2>5. GetsElements(Top)
    BY <1>1, <1>2, <1>3, AtFirst DEF Getting, InLoop
  <2>6. ~IsComposite(Field) => \A n \in 1 .. Field.cap : Top.obj[k][n] = Getter(reader, k, n)
    BY <1>2, <2>1, <2>4, <2>5 DEF GetsElements
  <2> QED BY <2>1, <2>2, <2>6 DEF IsWhatIsGot
<1> QED BY <1>1, <1>2, <1>3, SameGets

LEMMA ReadElementGets ==
  ASSUME GInv, phase = "reading", HasFixedOffsets(reader), ReadElement
  PROVE  FirstGets(stack')
<1>1. /\ stack # << >> /\ Top.todo # << >> /\ Step.kind = "elements" /\ Top.err = Ok
      /\ ~IsComposite(Field) /\ Top.loop.at < Top.loop.count
  BY DEF ReadElement, AtElement, AtStep, Healthy
<1> DEFINE v == ReadValue(Field, ReadAt(Top, Top.off, Field.bits))
           m == WithElement(Top, Field, v)
           u == [m EXCEPT !.off = @ + Field.bits, !.loop.at = @ + 1]
<1>2. stack' = WithTop(u)
  BY Zenon DEF ReadElement
<1>3. AreFrames(stack, FALSE) /\ FirstGets(stack) /\ FrameOK(Top, FALSE) /\ IsFrame(Top)
      /\ Step = Top.todo[1] /\ reader \in TypeIds /\ ~IsUnion[reader]
  BY <1>1, AtFirst
<1>4. ASSUME Len(stack) = 1 PROVE Getting(u)
  <2>1. Getting(Top) /\ Top.type = reader
    BY <1>1, <1>4, AtFirst
  <2> DEFINE k == Step.field
             at == Top.loop.at
  <2>2. /\ k \in DOMAIN Fields[reader] /\ Field = Fields[reader][k] /\ Field = Top.todo[1].f
        /\ IsFieldOf(Field) /\ Step.known.bits = FixedFieldOffset(reader, k) /\ Step.known.bits # Unknown
        /\ Step.known.bits \in Nat /\ Field.array \in {"none", "fixed"} /\ Step.known \in Knowns
    BY <1>1, <1>3, <1>4, FieldAtFirst
  <2>3. IsArray(Field) /\ Field.array = "fixed"
    BY <1>1, <2>2, AtTop DEF GInv, IsArray
  <2>4. Top.loop.count = Field.cap /\ at \in Nat /\ Top.off \in Nat
        /\ KnowsInLoop(Step.known, Field, FALSE, Top.off, at)
    BY <1>1, <1>3, <2>2, <2>3 DEF FrameOK, WellFormed, LoopIsBound, Knowing
  <2>5. IsField(Field) /\ Field.bits \in Nat /\ Field.cap \in Nat
    BY <2>2, FieldOf DEF IsField
  <2>6. at + 1 \in 1 .. Field.cap
    BY <1>1, <2>4, <2>5
  <2>7. v = Getter(reader, k, at + 1)
    <3>1. Top.off = FixedFieldOffset(reader, k) + ((at + 1) - 1) * Field.bits
      <4>1. LengthPrefixBits(Field) = 0
        BY <2>2, <2>3, FieldOf
      <4>2. FieldWidth(Field, FALSE) = Field.bits /\ Field.bits # Unknown
        <5>1. PICK w \in BOOLEAN : w = FALSE
          OBVIOUS
        <5>2. FieldWidth(Field, w) = Field.bits
          BY <1>1, <2>2, WidthIs
        <5>3. FieldWidth(Field, FALSE) = FieldWidth(Field, w)
          BY <5>1
        <5>4. Field.bits # Unknown
          BY <2>5 DEF Unknown
        <5> QED BY <5>2, <5>3, <5>4
      <4>3. PICK o \in Nat : o = FixedFieldOffset(reader, k)
        BY <2>2
      <4>4. Top.off - at * Field.bits = o
        <5> DEFINE p == Prefixed(Step.known, Field)
        <5>1. p.bits = o
          BY <2>2, <4>1, <4>3 DEF Prefixed, KnownPast
        <5>2. Knows(p, Top.off - at * Field.bits)
          BY <2>4, <4>2, Zenon DEF KnowsInLoop
        <5> HIDE DEF p
        <5>3. p.bits # Unknown
          BY <2>2, <4>3, <5>1
        <5> QED BY <5>1, <5>2, <5>3 DEF Knows
      <4>5. at * Field.bits \in Nat /\ (at + 1) - 1 = at
        BY <2>4, <2>5
      <4> QED BY <2>4, <4>3, <4>4, <4>5
    <3>2. at + 1 \in Nat /\ at + 1 <= Fields[reader][k].cap
      BY <2>2, <2>4, <2>5, <2>6
    <3> QED BY <1>1, <1>4, <2>2, <3>1, <3>2, ReadIsGot
  <2> HIDE DEF v
  <2>8. Keeps(Top, m) /\ m.err = Top.err
    BY <1>3, WithElementIs
  <2>9. m.obj = [Top.obj EXCEPT ![k] = [Top.obj[k] EXCEPT ![at + 1] = v]]
    <3>1. Member(Top) = Top.obj[k]
      BY <1>3, <2>1, MemberWith DEF Step
    <3>2. PICK r : r = [Member(Top) EXCEPT ![at + 1] = v]
      OBVIOUS
    <3>3. m = WithMember(Top, r)
      BY <2>3, <3>2, Zenon DEF WithElement
    <3>4. m.obj = [Top.obj EXCEPT ![k] = r]
      BY <1>3, <2>1, <3>3, MemberWith DEF Step
    <3> QED BY <3>1, <3>2, <3>4
  <2> HIDE DEF m
  <2>10. /\ IsFrame(u) /\ u.type = m.type /\ u.base = m.base /\ u.cap = m.cap /\ u.todo = m.todo
         /\ u.loop.at = m.loop.at + 1 /\ u.obj = m.obj /\ u.err = m.err
    BY <2>8 DEF Keeps, IsFrame
  <2>11. /\ u.type = Top.type /\ u.base = Top.base /\ u.cap = Top.cap /\ u.todo = Top.todo
         /\ u.loop.at = Top.loop.at + 1
    BY <2>8, <2>10 DEF Keeps
  <2> HIDE DEF u
  <2>12. Step.field = Top.todo[1].field
    BY <1>3
  <2>13. Top.todo[1].kind = "elements" /\ Top.err = Ok
    BY <1>1, <1>3
  <2>14. u.obj = [Top.obj EXCEPT ![Top.todo[1].field] = [Top.obj[Top.todo[1].field] EXCEPT ![Top.loop.at + 1] = v]]
    BY <2>9, <2>10, <2>12
  <2>15. v = Getter(reader, Top.todo[1].field, Top.loop.at + 1) /\ Top.loop.at + 1 \in 1 .. Top.todo[1].f.cap
    BY <2>2, <2>6, <2>7, <2>12
  <2>16. IsElementOn(Top, v, u)
    BY <2>10, <2>11, <2>14, Zenon DEF IsElementOn
  <2>17. FrameOK(Top, FALSE) /\ Getting(Top) /\ reader \in TypeIds /\ Top.todo # << >>
    BY <1>1, <1>3, <2>1
  <2> QED BY <2>13, <2>15, <2>16, <2>17, GetsLoops
<1> HIDE DEF u
<1> QED BY <1>1, <1>2, <1>3, <1>4, TopGets

-----------------------------------------------------------------------------
(* One bit is read as it is, and as 0 past the end.                        *)
LEMMA OneBitIs ==
  ASSUME NEW bits, NEW at \in Nat, NEW end \in Nat
  PROVE  BitsAt(bits, at, 1, end) = IF at < end /\ at \in bits THEN 1 ELSE 0
<1> DEFINE there == Saturated(at, 1, end)
<1>1. PICK got : got = CopyBits({}, 0, there, bits, at)
  OBVIOUS
<1>2. there \in 0 .. 1 /\ (0 < there <=> at + 0 < end)
  <2>1. 0 \in 0 .. (1 - 1)
    OBVIOUS
  <2>2. there \in 0 .. 1 /\ \A k \in 0 .. (1 - 1) : k < there <=> at + k < end
    BY SaturatedIs
  <2> HIDE DEF there
  <2> QED BY <2>1, <2>2
<1> DEFINE from == CHOOSE f : NumberUpTo(got, 1, f)
<1>3. NumberUpTo(got, 1, from)
  BY NumberExists
<1>4. BitsAt(bits, at, 1, end) = from[0]
  BY <1>1, Zenon DEF BitsAt, NumberUpTo
<1> HIDE DEF from, there
<1>5. from[0] = (IF 0 \in got THEN 1 ELSE 0) + 2 * from[0 + 1] /\ from[1] = 0
  <2>1. 0 \in 0 .. 1 /\ 1 \in 0 .. 1 /\ 0 # 1 /\ 1 = 1
    OBVIOUS
  <2> QED BY <1>3, <2>1, Zenon DEF NumberUpTo
<1>6. from[0] = IF 0 \in got THEN 1 ELSE 0
  <2>1. 0 + 1 = 1
    OBVIOUS
  <2> QED BY <1>5, <2>1
<1>7. Copied({}, got, 0, there, bits, at)
  <2>1. there \in Nat
    BY <1>2
  <2> QED BY <1>1, <2>1, CopiesAreExact
<1>8. 0 \in got <=> IF 0 \in Positions(0, there) THEN at + (0 - 0) \in bits ELSE FALSE
  BY <1>7 DEF Copied
<1>9. (0 \in Positions(0, there) <=> 0 < there) /\ at + (0 - 0) = at /\ at + 0 = at
  BY <1>2 DEF Positions
<1> QED BY <1>2, <1>4, <1>6, <1>8, <1>9

(* The bits of a bool array that are moved at once are what is got of them *)
(* one by one.                                                             *)
LEMMA BoolsAreGot ==
  ASSUME NEW i \in TypeIds, NEW k \in DOMAIN Fields[i], NEW f, f = Fields[i][k], f.cat = "bool", IsArray(f),
         NEW at \in Nat, at = FixedFieldOffset(i, k), size \in Nat, NEW was, NEW packed,
         packed = GetBits(was, ones, at, f.cap, size * ByteBits),
         NEW n \in 1 .. f.cap
  PROVE  (IF n - 1 \in packed THEN 1 ELSE 0) = Getter(i, k, n)
<1>1. f.cap \in Nat /\ f.bits = 1
  BY FieldsAre DEF IsField
<1>2. n \in Nat /\ n - 1 \in Nat /\ n - 1 < f.cap /\ ~ (n > f.cap) /\ size * ByteBits \in Nat
      /\ at + (n - 1) \in Nat
  BY <1>1 DEF ByteBits
<1>3. n - 1 \in packed <=> at + (n - 1) < size * ByteBits /\ at + (n - 1) \in ones
  <2>1. PadTo(f.cap, ByteBits) \in Nat /\ f.cap <= PadTo(f.cap, ByteBits)
    BY <1>1, PaddedIs
  <2>2. n - 1 < PadTo(f.cap, ByteBits)
    BY <1>1, <1>2, <2>1
  <2>3. PICK end \in Nat : end = size * ByteBits
    BY <1>2
  <2>4. PICK p \in Nat : p = n - 1
    BY <1>2
  <2>5. p \in GetBits(was, ones, at, f.cap, end)
          <=> IF p < PadTo(f.cap, ByteBits) THEN p < f.cap /\ at + p < end /\ at + p \in ones ELSE p \in was
    BY <1>1, ReadsPastTheEndAreZeros
  <2> QED BY <1>2, <2>2, <2>3, <2>4, <2>5
<1>4. Getter(i, k, n) = BitsAt(ones, at + (n - 1), 1, size * ByteBits)
  <2>1. FixedFieldOffset(i, k) + (n - 1) * f.bits = at + (n - 1)
    BY <1>1, <1>2
  <2>2. \A raw : ReadValue(f, raw) = raw
    BY DEF ReadValue
  <2>3. Getter(i, k, n) = ReadValue(f, BitsAt(ones, at + (n - 1), 1, size * ByteBits))
    BY <1>1, <1>2, <2>1, Zenon DEF Getter
  <2> QED BY <2>2, <2>3
<1>5. Getter(i, k, n) = IF at + (n - 1) < size * ByteBits /\ at + (n - 1) \in ones THEN 1 ELSE 0
  BY <1>2, <1>4, OneBitIs
<1> QED BY <1>3, <1>5

LEMMA ReadArrayGets ==
  ASSUME GInv, phase = "reading", HasFixedOffsets(reader), ReadArray
  PROVE  FirstGets(stack')
<1>1. /\ stack # << >> /\ Top.todo # << >> /\ Step.kind = "field" /\ ~Writing /\ Top.err = Ok
      /\ IsArray(Field)
  BY DEF ReadArray, AtField, AtStep, Healthy
<1>2. AreFrames(stack, FALSE) /\ FirstGets(stack) /\ FrameOK(Top, FALSE) /\ IsFrame(Top)
      /\ Step = Top.todo[1] /\ reader \in TypeIds /\ ~IsUnion[reader]
  BY <1>1, AtFirst
<1>3. PICK u : stack' = WithTop(u) /\ (Len(stack) = 1 => Getting(u))
  <2>1. CASE Len(stack) # 1
    BY <2>1 DEF ReadArray
  <2>2. CASE Len(stack) = 1
    <3> DEFINE f == Field
               k == Step.field
               t == [Top EXCEPT !.off = @ + LengthPrefixBits(f)]
               packed == GetBits(Packed(Member(t)), ones, t.base * ByteBits + t.off, f.cap,
                                 (t.base + t.cap) * ByteBits)
               bools == [n \in 1 .. f.cap |-> IF n - 1 \in packed THEN 1 ELSE 0]
               m == WithMember(t, bools)
               b == [m EXCEPT !.off = @ + f.cap]
               l == [t EXCEPT !.loop = [at |-> 0, count |-> f.cap],
                              !.todo = <<[Step EXCEPT !.kind = "elements"]>> \o Tail(@)]
    <3>1. Getting(Top) /\ Top.type = reader /\ Top.base = 0 /\ Top.cap = size /\ size \in Nat
      BY <1>1, <2>2, AtFirst
    <3>2. /\ k \in DOMAIN Fields[reader] /\ f = Fields[reader][k] /\ f = Top.todo[1].f /\ k = Top.todo[1].field
          /\ IsFieldOf(f) /\ Step.known.bits = FixedFieldOffset(reader, k) /\ Step.known.bits # Unknown
          /\ Step.known.bits \in Nat /\ f.array \in {"none", "fixed"} /\ Step.known \in Knowns
      BY <1>1, <1>2, <2>2, FieldAtFirst
    <3>3. f.array = "fixed" /\ f.array # "variable"
      BY <1>1, <3>2 DEF IsArray
    <3>4. LengthPrefixBits(f) = 0 /\ Top.off \in Nat /\ Top.off = FixedFieldOffset(reader, k)
          /\ f.cap \in Nat
      <4>1. Knows(Step.known, Top.off) /\ Top.off \in Nat
        BY <1>1, <1>2, FrameIs
      <4>2. LengthPrefixBits(f) = 0 /\ IsField(f)
        BY <3>2, <3>3, FieldOf
      <4> QED BY <3>2, <4>1, <4>2 DEF Knows, IsField
    <3>5. stack' = WithTop(IF f.cat = "bool" THEN Past(b) ELSE l)
      BY <3>3, Zenon DEF ReadArray, TooLong
    <3>6. Keeps(Top, t) /\ t.obj = Top.obj /\ t.off = Top.off /\ t.err = Top.err
      <4>1. Keeps(Top, t) /\ t.obj = Top.obj /\ t.off = Top.off + LengthPrefixBits(f) /\ t.err = Top.err
        BY <1>2, MovedIs
      <4> HIDE DEF t, f
      <4> QED BY <3>4, <4>1
    <3>7. IsFrame(t) /\ t.type = reader /\ t.base = 0 /\ t.cap = size /\ t.todo = Top.todo
      BY <3>1, <3>6 DEF Keeps
    <3> HIDE DEF t, f, k
    <3>8. ASSUME f.cat = "bool" PROVE Getting(Past(b))
      <4>1. t.base * ByteBits + t.off = Top.off /\ (t.base + t.cap) * ByteBits = size * ByteBits
        BY <3>1, <3>4, <3>6, <3>7 DEF ByteBits
      <4>2. packed = GetBits(Packed(Member(t)), ones, Top.off, f.cap, size * ByteBits)
        BY <4>1
      <4>3. \A n \in 1 .. f.cap : bools[n] = IF n - 1 \in packed THEN 1 ELSE 0
        OBVIOUS
      <4>4. DOMAIN bools = 1 .. f.cap
        OBVIOUS
      <4> HIDE DEF packed
      <4>5. ASSUME NEW n \in 1 .. f.cap PROVE bools[n] = Getter(reader, k, n)
        <5>1. (IF n - 1 \in packed THEN 1 ELSE 0) = Getter(reader, k, n)
          <6>1. IsArray(f)
            BY <1>1 DEF f
          <6>2. PICK at \in Nat : at = Top.off
            BY <3>4
          <6>3. at = FixedFieldOffset(reader, k) /\ packed = GetBits(Packed(Member(t)), ones, at, f.cap, size * ByteBits)
            BY <3>4, <4>2, <6>2
          <6>4. f = Fields[reader][k] /\ k \in DOMAIN Fields[reader] /\ reader \in TypeIds /\ size \in Nat
            BY <1>2, <3>1, <3>2
          <6>5. PICK was : was = Packed(Member(t))
            OBVIOUS
          <6> QED BY <3>8, <6>1, <6>3, <6>4, <6>5, BoolsAreGot
        <5> QED BY <4>3, <5>1
      <4> HIDE DEF bools
      <4>6. IsWhatIsGot(reader, k, bools)
        BY <1>1, <3>2, <4>5 DEF IsWhatIsGot, f
      <4>7. Keeps(t, m) /\ m.err = t.err
        BY <3>7, WithMemberIs
      <4>8. m.obj = [Top.obj EXCEPT ![k] = bools]
        <5>1. m.obj = [t.obj EXCEPT ![Head(t.todo).field] = bools]
          BY <1>2, <3>7, MemberWith
        <5>2. Head(t.todo) = Step
          BY <3>7 DEF Step
        <5> QED BY <3>6, <5>1, <5>2 DEF k
      <4> HIDE DEF m
      <4>9. Keeps(m, b) /\ b.obj = m.obj /\ b.err = m.err
        BY <4>7, MovedIs DEF Keeps
      <4> HIDE DEF b
      <4>10. Keeps(Top, b)
        BY <3>6, <4>7, <4>9, KeepsOn
      <4>11. b.err = Top.err /\ b.obj = [Top.obj EXCEPT ![Top.todo[1].field] = bools]
        BY <3>2, <3>6, <4>7, <4>8, <4>9
      <4>12. Top.todo[1].kind \in {"field", "elements"}
             /\ (IsArray(Top.todo[1].f) => DOMAIN bools = 1 .. Top.todo[1].f.cap)
             /\ IsWhatIsGot(reader, Top.todo[1].field, bools)
        BY <1>1, <1>2, <3>2, <4>4, <4>6 DEF f
      <4> QED BY <1>1, <1>2, <3>1, <4>10, <4>11, <4>12, GetsField
    <3>9. Getting(l)
      <4> DEFINE e == <<[Step EXCEPT !.kind = "elements"]>>
      <4>1. e = <<Elements(Top.todo[1])>>
        BY <1>2 DEF Elements
      <4> HIDE DEF e
      <4> DEFINE j == [t EXCEPT !.loop = [at |-> 0, count |-> f.cap], !.todo = e \o Tail(@)]
      <4>2. /\ IsFrame(j) /\ j.type = t.type /\ j.base = t.base /\ j.cap = t.cap /\ j.obj = t.obj /\ j.err = t.err
            /\ j.todo = e \o Tail(Top.todo) /\ j.loop.at = 0
        BY <3>7 DEF IsFrame
      <4>3. j = l
        BY DEF e
      <4> HIDE DEF j, l
      <4>4. /\ IsFrame(j) /\ j.type = Top.type /\ j.base = Top.base /\ j.cap = Top.cap /\ j.obj = Top.obj
            /\ j.err = Top.err /\ j.todo = <<Elements(Top.todo[1])>> \o Tail(Top.todo) /\ j.loop.at = 0
        BY <3>1, <3>6, <3>7, <4>1, <4>2
      <4>5. Top.todo[1].kind = "field"
        BY <1>1, <1>2
      <4>6. Getting(j)
        BY <1>1, <1>2, <3>1, <4>4, <4>5, GetsStartsLoop
      <4> QED BY <4>3, <4>6
    <3> HIDE DEF b, l
    <3> QED BY <3>5, <3>8, <3>9
  <2> QED BY <2>1, <2>2
<1> QED BY <1>1, <1>2, <1>3, TopGets

-----------------------------------------------------------------------------
(* A composite that was read is nothing a getter answers.                  *)
LEMMA GetsNested ==
  ASSUME reader \in TypeIds, ~IsUnion[reader], NEW t, FrameOK(t, FALSE), Getting(t), NEW i, Waiting(t, i),
         NEW v, NEW off, NEW err
  PROVE  Getting(PastNested(WithElement(t, t.todo[1].f, v), t.todo[1].f, off, err))
<1> DEFINE s == t.todo[1]
           f == s.f
           u == WithElement(t, f, v)
           moved == [u EXCEPT !.off = off, !.err = err]
<1>1. /\ t.err = Ok /\ t.todo # << >> /\ IsComposite(f) /\ IsFrame(t) /\ t.type = reader
      /\ s.kind \in {"field", "elements"} /\ (s.kind = "field" => ~IsArray(f))
      /\ IsStep(t.type, FALSE, s) /\ Head(t.todo) = s
  <2>1. t.err = Ok /\ t.todo # << >> /\ IsComposite(f)
        /\ s.kind \in {"field", "elements"} /\ (s.kind = "field" => ~IsArray(f))
    BY DEF Waiting
  <2>2. IsFrame(t) /\ t.type = reader /\ IsTodo(t.type, FALSE, t.todo)
    BY FrameIs DEF Getting
  <2>3. IsStep(t.type, FALSE, s) /\ Head(t.todo) = s
    BY <2>1, <2>2, TodoHead
  <2> QED BY <2>1, <2>2, <2>3
<1>2. s.field \in DOMAIN Fields[reader] /\ f = Fields[reader][s.field] /\ (s.kind = "elements" => IsArray(f))
  BY <1>1, StepIs DEF IsOfField
<1>3. Member(t) = t.obj[s.field]
      /\ \A r : WithMember(t, r).obj = [t.obj EXCEPT ![s.field] = r]
  BY <1>1, MemberWith
<1>4. Keeps(t, u) /\ u.err = t.err
  BY <1>1, WithElementIs
<1> HIDE DEF s, f
<1>5. CASE ~IsArray(f)
  <2>1. u = WithMember(t, v)
    BY <1>5, Zenon DEF WithElement
  <2>2. u.obj = [t.obj EXCEPT ![s.field] = v]
    BY <1>3, <2>1
  <2> HIDE DEF u
  <2>3. Keeps(t, moved) /\ moved.obj = u.obj
    BY <1>4 DEF Keeps, IsFrame
  <2>4. PastNested(u, f, off, err) = Past(moved)
    BY <1>5, Zenon DEF PastNested
  <2> HIDE DEF moved
  <2>5. IsWhatIsGot(reader, s.field, v)
    BY <1>1, <1>2 DEF IsWhatIsGot
  <2>6. moved.obj = [t.obj EXCEPT ![t.todo[1].field] = v]
    BY <2>2, <2>3 DEF s
  <2>7. t.todo[1].kind \in {"field", "elements"} /\ ~IsArray(t.todo[1].f)
        /\ IsWhatIsGot(reader, t.todo[1].field, v)
    BY <1>1, <1>5, <2>5 DEF s, f
  <2>8. Getting(Past(moved))
    BY <1>1, <2>3, <2>6, <2>7, GetsField
  <2> QED BY <2>4, <2>8 DEF u, f, s
<1>6. CASE IsArray(f)
  <2> DEFINE n == t.loop.at + 1
             w == [moved EXCEPT !.loop.at = @ + 1]
  <2>1. PICK r : r = [Member(t) EXCEPT ![n] = v]
    OBVIOUS
  <2>2. u = WithMember(t, r)
    BY <1>6, <2>1, Zenon DEF WithElement
  <2>3. u.obj = [t.obj EXCEPT ![s.field] = [t.obj[s.field] EXCEPT ![n] = v]]
    <3>1. u.obj = [t.obj EXCEPT ![s.field] = r]
      BY <1>3, <2>2
    <3> QED BY <1>3, <2>1, <3>1
  <2> HIDE DEF u
  <2>4. /\ IsFrame(w) /\ w.type = u.type /\ w.base = u.base /\ w.cap = u.cap /\ w.todo = u.todo
        /\ w.loop.at = u.loop.at + 1 /\ w.obj = u.obj
    BY <1>4 DEF Keeps, IsFrame
  <2>5. PastNested(u, f, off, err) = w
    BY <1>6, Zenon DEF PastNested
  <2> HIDE DEF w
  <2>6. /\ w.type = t.type /\ w.base = t.base /\ w.cap = t.cap /\ w.todo = t.todo
        /\ w.loop.at = t.loop.at + 1
    BY <1>4, <2>4 DEF Keeps
  <2>7. w.obj = [t.obj EXCEPT ![t.todo[1].field] = [t.obj[t.todo[1].field] EXCEPT ![t.loop.at + 1] = v]]
    BY <2>3, <2>4 DEF s
  <2>8. t.todo[1].kind = "elements" /\ IsComposite(t.todo[1].f)
    BY <1>1, <1>6 DEF s, f
  <2>9. IsElementOn(t, v, w)
    BY <2>4, <2>6, <2>7, Zenon DEF IsElementOn
  <2>10. Getting(w)
    BY <1>1, <2>8, <2>9, GetsLoops
  <2> QED BY <2>5, <2>10 DEF u, f, s
<1> QED BY <1>5, <1>6

LEMMA EnterSealedGets ==
  ASSUME GInv, phase = "reading", HasFixedOffsets(reader), EnterSealed
  PROVE  FirstGets(stack')
<1>1. stack # << >>
  BY DEF EnterSealed, AtNested, AtField, AtStep
<1>2. PICK t : stack' = Append(stack, t)
  BY DEF EnterSealed
<1> QED BY <1>1, <1>2, AtFirst, CalledGets

LEMMA EnterDelimitedGets ==
  ASSUME GInv, phase = "reading", HasFixedOffsets(reader), EnterDelimited
  PROVE  FirstGets(stack')
<1>1. /\ stack # << >> /\ Top.todo # << >> /\ Step.kind \in {"field", "elements"}
      /\ IsComposite(Field) /\ ~IsSealed[Field.ref]
  BY DEF EnterDelimited, AtNested, AtField, AtStep
<1>2. AreFrames(stack, FALSE) /\ FirstGets(stack)
  BY <1>1, AtFirst
<1>3. Len(stack) # 1
  BY <1>1, FieldAtFirst
<1>4. PICK t : stack' = WithTop(t) \/ stack' = Append(stack, t)
  BY Zenon DEF EnterDelimited
<1> QED BY <1>1, <1>2, <1>3, <1>4, TopGets, CalledGets

(* The first body is the one called last but one, and got what it asked.   *)
LEMMA CallerIsFirst ==
  ASSUME GInv, phase = "reading", HasFixedOffsets(reader), AtReturn
  PROVE  /\ AreFrames(stack, FALSE) /\ FirstGets(stack) /\ Len(stack) > 1 /\ ~Writing
         /\ Head(Outer.todo) = Outer.todo[1]
         /\ Len(stack) = 2 =>
              /\ Getting(Outer) /\ FrameOK(Outer, FALSE)
              /\ Waiting(Outer, Outer.todo[1].f.ref) /\ IsSealed[Outer.todo[1].f.ref]
<1>1. KInv /\ stack # << >> /\ Len(stack) > 1
  BY HeldNothing DEF GInv, AtReturn
<1>2. AreFrames(stack, FALSE) /\ FirstGets(stack) /\ ~Writing /\ reader \in TypeIds
  BY <1>1, AtFirst
<1>3. Head(Outer.todo) = Outer.todo[1] /\ Waiting(Outer, Outer.todo[1].f.ref)
  BY <1>1, OuterIs
<1>4. FrameOK(Outer, FALSE)
  BY <1>1, <1>2, TopIs
<1>5. ASSUME Len(stack) = 2
      PROVE  Getting(Outer) /\ IsSealed[Outer.todo[1].f.ref]
  <2>1. Len(stack) - 1 = 1
    BY <1>5
  <2>2. Outer = stack[1]
    BY <2>1 DEF Outer
  <2>3. Getting(Outer)
    BY <1>1, <1>2, <2>2 DEF FirstGets
  <2>4. Outer.type = reader
    BY <2>3 DEF Getting
  <2>5. Outer.todo # << >> /\ IsComposite(Outer.todo[1].f) /\ Outer.todo[1].kind \in {"field", "elements"}
    BY <1>3 DEF Waiting
  <2>6. IsStep(reader, FALSE, Outer.todo[1])
    BY <1>4, <2>4, <2>5, FrameIs
  <2>7. Outer.todo[1].field \in DOMAIN Fields[reader] /\ Outer.todo[1].f = Fields[reader][Outer.todo[1].field]
    BY <1>2, <2>5, <2>6, StepIs DEF IsOfField
  <2> QED BY <2>3, <2>5, <2>7 DEF HasFixedOffsets
<1> QED BY <1>1, <1>2, <1>3, <1>4, <1>5

LEMMA LeaveSealedGets ==
  ASSUME GInv, phase = "reading", HasFixedOffsets(reader), LeaveSealed
  PROVE  FirstGets(stack')
<1>1. AtReturn
  BY DEF LeaveSealed
<1>2. /\ AreFrames(stack, FALSE) /\ FirstGets(stack) /\ Len(stack) > 1 /\ ~Writing
      /\ Head(Outer.todo) = Outer.todo[1]
  BY <1>1, CallerIsFirst
<1> DEFINE f == Outer.todo[1].f
<1>3. PICK off : stack' = Popped(PastNested(Returned(f), f, off, Top.err))
  BY <1>2 DEF LeaveSealed
<1>4. Returned(f) = WithElement(Outer, f, Top.obj)
  BY <1>2 DEF Returned
<1>5. reader \in TypeIds /\ ~IsUnion[reader]
  <2>1. stack # << >>
    BY <1>2, HeldNothing
  <2> QED BY <2>1, AtFirst
<1>6. Len(stack) = 2 => Getting(PastNested(Returned(f), f, off, Top.err))
  BY <1>1, <1>4, <1>5, CallerIsFirst, GetsNested
<1> HIDE DEF f
<1> QED BY <1>2, <1>3, <1>6, ReturnedGets

LEMMA LeaveDelimitedGets ==
  ASSUME GInv, phase = "reading", HasFixedOffsets(reader), LeaveDelimited
  PROVE  FirstGets(stack')
<1>1. AtReturn
  BY DEF LeaveDelimited
<1>2. /\ AreFrames(stack, FALSE) /\ FirstGets(stack) /\ Len(stack) > 1
      /\ Head(Outer.todo) = Outer.todo[1]
  BY <1>1, CallerIsFirst
<1>3. ~IsSealed[Outer.todo[1].f.ref]
  BY <1>2 DEF LeaveDelimited
<1>4. Len(stack) # 2
  BY <1>1, <1>3, CallerIsFirst
<1>5. PICK t : stack' = Popped(t)
  BY Zenon DEF LeaveDelimited
<1> QED BY <1>2, <1>4, <1>5, ReturnedGets

LEMMA ReadTagGets ==
  ASSUME GInv, phase = "reading", HasFixedOffsets(reader), ReadTag
  PROVE  FirstGets(stack')
<1>1. stack # << >> /\ Top.todo # << >> /\ Step.kind = "tag"
  BY DEF ReadTag, AtStep
<1>2. /\ AreFrames(stack, FALSE) /\ FirstGets(stack) /\ Top.type \in TypeIds /\ ~IsUnion[reader]
      /\ IsStep(Top.type, FALSE, Step)
  BY <1>1, AtFirst
<1>3. Len(stack) # 1
  <2>1. IsTag(Top.type, FALSE, Step)
    BY <1>1, <1>2, StepIs DEF IsStep, IsPlain, IsAlign, IsFieldStep, IsElements, IsMove
  <2>2. IsUnion[Top.type]
    BY <2>1 DEF IsTag
  <2> QED BY <1>1, <1>2, <2>2, AtFirst
<1>4. PICK t : stack' = WithTop(t)
  BY Zenon DEF ReadTag
<1> QED BY <1>1, <1>2, <1>3, <1>4, TopGets

-----------------------------------------------------------------------------
(* The scalars of an image, field by field.                                *)

(* The indices that lead to a scalar.                                      *)
IsPath(p) == p \in Seq(Held(p)) /\ Len(p) >= 1

Repeats(f) == 0 .. (IF IsArray(f) THEN f.cap - 1 ELSE 0)

PathOf(f, k, n) == IF IsArray(f) THEN <<k, n + 1>> ELSE <<k>>

OfMember(f, k, at, w, scalars, n) ==
    IF IsComposite(f)
    THEN {[path |-> PathOf(f, k, n) \o s.path, f |-> s.f, at |-> s.at + at + n * w] : s \in scalars[f.ref]}
    ELSE {[path |-> PathOf(f, k, n), f |-> f, at |-> at + n * w]}

LEMMA MemberScalarsBy ==
  ASSUME NEW f, NEW k, NEW at, NEW w, NEW scalars
  PROVE  MemberScalars(f, k, at, w, scalars) = UNION {OfMember(f, k, at, w, scalars, n) : n \in Repeats(f)}
BY Zenon DEF MemberScalars, OfMember, PathOf, Repeats

LEMMA FiniteImage ==
  ASSUME NEW S, IsFiniteSet(S), NEW f, DOMAIN f = S
  PROVE  IsFiniteSet({f[x] : x \in S})
<1> DEFINE T == {f[x] : x \in S}
           g == [x \in S |-> f[x]]
<1>1. g \in Surjection(S, T)
  BY DEF Surjection
<1> QED BY <1>1, FS_Surjection

LEMMA PathOfIs ==
  ASSUME NEW f, NEW k, NEW n
  PROVE  /\ IsPath(PathOf(f, k, n)) /\ PathOf(f, k, n)[1] = k
         /\ IsArray(f) => Len(PathOf(f, k, n)) = 2 /\ PathOf(f, k, n)[2] = n + 1
         /\ ~IsArray(f) => Len(PathOf(f, k, n)) = 1
<1>1. CASE IsArray(f)
  <2> DEFINE p == <<k, n + 1>>
  <2>1. p \in Seq({k, n + 1}) /\ Len(p) = 2 /\ p[1] = k /\ p[2] = n + 1
    OBVIOUS
  <2>2. PathOf(f, k, n) = p
    BY <1>1 DEF PathOf
  <2> HIDE DEF p
  <2>3. p \in Seq(Held(p))
    BY <2>1, SequenceOfHeld
  <2> QED BY <1>1, <2>1, <2>2, <2>3 DEF IsPath
<1>2. CASE ~IsArray(f)
  BY <1>2, HeldOne DEF IsPath, PathOf
<1> QED BY <1>1, <1>2

LEMMA PathPast ==
  ASSUME NEW a, IsPath(a), NEW p, IsPath(p)
  PROVE  IsPath(a \o p) /\ Len(a \o p) >= 2 /\ (a \o p)[1] = a[1]
<1> DEFINE q == a \o p
<1>1. /\ q \in Seq(Held(q)) /\ Len(q) = Len(a) + Len(p)
      /\ \A m \in 1 .. Len(a) : q[m] = a[m]
      /\ Len(a) \in Nat /\ Len(p) \in Nat
  BY HeldConcat, HeldIs DEF IsPath
<1>2. 1 \in 1 .. Len(a) /\ Len(p) >= 1 /\ Len(a) >= 1
  BY <1>1 DEF IsPath
<1> HIDE DEF q
<1>3. q[1] = a[1] /\ Len(q) >= 2
  BY <1>1, <1>2
<1>4. IsPath(q)
  BY <1>1, <1>3 DEF IsPath
<1> QED BY <1>3, <1>4 DEF q

(* What is so of the scalars of a member.                                  *)
OfField(i, k, s) ==
    LET f == Fields[i][k] IN
    /\ IsPath(s.path) /\ s.path[1] = k
    /\ IsArray(f) => Len(s.path) >= 2
    /\ IsComposite(f) => Len(s.path) >= 2
    /\ ~IsComposite(f) =>
         \E n \in Repeats(f) :
            /\ s.path = PathOf(f, k, n) /\ s.f = f
            /\ s.at = FixedFieldOffset(i, k) + n * f.bits

LEMMA OfMemberIs ==
  ASSUME NEW i, NEW k, NEW f, f = Fields[i][k], NEW at, at = FixedFieldOffset(i, k),
         NEW w, ~IsComposite(f) => w = f.bits, NEW scalars,
         IsComposite(f) => IsFiniteSet(scalars[f.ref]) /\ \A s \in scalars[f.ref] : IsPath(s.path),
         NEW n \in Repeats(f)
  PROVE  /\ IsFiniteSet(OfMember(f, k, at, w, scalars, n))
         /\ \A s \in OfMember(f, k, at, w, scalars, n) : OfField(i, k, s)
         /\ ~IsComposite(f) => OfMember(f, k, at, w, scalars, n) # {}
<1>1. CASE IsComposite(f)
  <2> DEFINE under(s) == [path |-> PathOf(f, k, n) \o s.path, f |-> s.f, at |-> s.at + at + n * w]
             of == scalars[f.ref]
             S == OfMember(f, k, at, w, scalars, n)
             g == [s \in of |-> under(s)]
  <2>1. S = {under(s) : s \in of}
    BY <1>1, Zenon DEF OfMember
  <2>2. S = {g[s] : s \in of}
    BY <2>1
  <2>3. DOMAIN g = of
    OBVIOUS
  <2> HIDE DEF g
  <2>4. IsFiniteSet(S)
    BY <1>1, <2>2, <2>3, FiniteImage
  <2>5. ASSUME NEW s \in of PROVE OfField(i, k, under(s))
    <3> DEFINE a == PathOf(f, k, n)
               p == s.path
               q == a \o p
    <3>1. IsPath(a) /\ a[1] = k /\ IsPath(p)
      BY <1>1, PathOfIs
    <3> HIDE DEF a, p
    <3>3. IsPath(q) /\ Len(q) >= 2 /\ q[1] = k
      BY <3>1, PathPast
    <3> USE DEF a, p
    <3>2. under(s).path = q
      OBVIOUS
    <3> HIDE DEF q, under, a, p
    <3> QED BY <1>1, <3>3, <3>2 DEF OfField
  <2> HIDE DEF under, S
  <2> QED BY <1>1, <2>1, <2>4, <2>5 DEF S
<1>2. CASE ~IsComposite(f)
  <2> DEFINE s == [path |-> PathOf(f, k, n), f |-> f, at |-> at + n * w]
             S == OfMember(f, k, at, w, scalars, n)
  <2>1. S = {s}
    BY <1>2, Zenon DEF OfMember
  <2>2. s.path = PathOf(f, k, n) /\ s.f = f /\ s.at = at + n * f.bits
    BY <1>2
  <2> HIDE DEF s
  <2>3. IsFiniteSet(S)
    BY <2>1, FS_Singleton
  <2>4. OfField(i, k, s)
    <3>1. /\ IsPath(s.path) /\ s.path[1] = k /\ (IsArray(f) => Len(s.path) = 2)
      BY <2>2, PathOfIs
    <3>2. IsArray(f) => Len(s.path) >= 2
      <4>1. ASSUME Len(s.path) = 2 PROVE Len(s.path) >= 2
        BY <4>1
      <4> QED BY <3>1, <4>1, Zenon
    <3>3. \E m \in Repeats(f) : /\ s.path = PathOf(f, k, m) /\ s.f = f
                                /\ s.at = FixedFieldOffset(i, k) + m * f.bits
      BY <2>2
    <3> QED BY <1>2, <3>1, <3>2, <3>3, Zenon DEF OfField
  <2> QED BY <2>1, <2>3, <2>4
<1> QED BY <1>1, <1>2

HasScalars(M, f, k) == \A n \in Repeats(f) : \E s \in M : s.path = PathOf(f, k, n)

LEMMA MemberScalarsOf ==
  ASSUME NEW i, NEW k, NEW f, f = Fields[i][k], f.cap \in Nat, NEW at, at = FixedFieldOffset(i, k),
         NEW w, ~IsComposite(f) => w = f.bits, NEW scalars,
         IsComposite(f) => IsFiniteSet(scalars[f.ref]) /\ \A s \in scalars[f.ref] : IsPath(s.path)
  PROVE  /\ IsFiniteSet(MemberScalars(f, k, at, w, scalars))
         /\ \A s \in MemberScalars(f, k, at, w, scalars) : OfField(i, k, s)
         /\ ~IsComposite(f) => HasScalars(MemberScalars(f, k, at, w, scalars), f, k)
<1> DEFINE one(n) == OfMember(f, k, at, w, scalars, n)
           L == Repeats(f)
           M == MemberScalars(f, k, at, w, scalars)
           g == [n \in L |-> one(n)]
<1>1. M = UNION {one(n) : n \in L}
  BY MemberScalarsBy
<1>2. \A n \in L : IsFiniteSet(one(n)) /\ (\A s \in one(n) : OfField(i, k, s))
  BY OfMemberIs
<1>3. IsFiniteSet(L)
  <2>1. 0 \in Int /\ (IF IsArray(f) THEN f.cap - 1 ELSE 0) \in Int
    OBVIOUS
  <2> QED BY <2>1, FS_Interval DEF Repeats
<1>4. {g[n] : n \in L} = {one(n) : n \in L} /\ DOMAIN g = L
  OBVIOUS
<1>5. ASSUME NEW n \in L, ~IsComposite(f)
      PROVE  \E s \in M : s.path = PathOf(f, k, n)
  <2> DEFINE s == [path |-> PathOf(f, k, n), f |-> f, at |-> at + n * w]
  <2>1. one(n) = {s}
    BY <1>5, Zenon DEF OfMember
  <2>2. s.path = PathOf(f, k, n)
    OBVIOUS
  <2> HIDE DEF s, one, M
  <2>3. s \in M
    BY <1>1, <2>1
  <2> QED BY <2>2, <2>3
<1> HIDE DEF one, L, g
<1>6. IsFiniteSet({one(n) : n \in L})
  BY <1>3, <1>4, FiniteImage
<1>7. IsFiniteSet(M)
  <2>1. \A T \in {one(n) : n \in L} : IsFiniteSet(T)
    BY <1>2
  <2> QED BY <1>1, <1>6, <2>1, FS_UNION
<1>8. \A s \in M : OfField(i, k, s)
  BY <1>1, <1>2
<1>9. ~IsComposite(f) => HasScalars(M, f, k)
  BY <1>5 DEF HasScalars, L
<1> QED BY <1>7, <1>8, <1>9

(* The scalars of the field "k" of an image, as ImageScalarsAre has them.  *)
FieldScalars(i, k, structures) ==
    MemberScalars(Fields[i][k], k, ByteBits * structures[i].offsets[k],
                  ByteBits * StructureMember(Fields[i][k], structures).size, ImageScalars)

HasPaths(i) == IsFiniteSet(ImageScalars[i]) /\ \A s \in ImageScalars[i] : IsPath(s.path)

LEMMA FieldScalarsAre ==
  ASSUME NEW i \in Images, NEW structures, \A j \in Images : SameAsImage(j, structures[j]),
         \A j \in TypeIds : j < i => HasPaths(j), NEW k \in DOMAIN Fields[i]
  PROVE  /\ IsFiniteSet(FieldScalars(i, k, structures))
         /\ \A s \in FieldScalars(i, k, structures) : OfField(i, k, s)
         /\ ~IsComposite(Fields[i][k]) => HasScalars(FieldScalars(i, k, structures), Fields[i][k], k)
<1> DEFINE f == Fields[i][k]
           at == ByteBits * structures[i].offsets[k]
           w == ByteBits * StructureMember(f, structures).size
<1>0. \A j \in TypeIds : Accepted(j)
  BY PlanConstants
<1>1. i \in TypeIds /\ Imaged(i) /\ k \in 1 .. Len(Fields[i])
  BY Definitions DEF Images, Imaged
<1>2. at = FixedFieldOffset(i, k)
  BY <1>1 DEF SameAsImage
<1>3. \A j \in TypeIds : j < i /\ Imaged(j) => SameAsImage(j, structures[j]) /\ Whole(j)
  BY <1>0, ImagesAreWhole DEF Images, Imaged
<1>4. StructureMember(f, structures).size = ElementAt(i, k).size
  BY <1>0, <1>1, <1>3, MemberIsElement
<1>5. WidthOf(f) = ByteBits * ElementAt(i, k).size
  BY <1>0, <1>1, <1>3, ImageElementIs
<1>6. w = WidthOf(f)
  BY <1>4, <1>5
<1>7. IsComposite(f) => f.ref \in TypeIds /\ f.ref < i
  BY <1>1, FieldsAre
<1>8. f.cap \in Nat
  BY <1>1, FieldsAre DEF IsField
<1>9. FieldScalars(i, k, structures) = MemberScalars(f, k, at, w, ImageScalars)
  BY Zenon DEF FieldScalars
<1> HIDE DEF w, at, f
<1>10. ~IsComposite(f) => w = f.bits
  BY <1>6 DEF WidthOf
<1>11. IsComposite(f) => IsFiniteSet(ImageScalars[f.ref]) /\ \A s \in ImageScalars[f.ref] : IsPath(s.path)
  BY <1>7 DEF HasPaths
<1>12. f = Fields[i][k]
  BY DEF f
<1>13. /\ IsFiniteSet(MemberScalars(f, k, at, w, ImageScalars))
       /\ \A s \in MemberScalars(f, k, at, w, ImageScalars) : OfField(i, k, s)
       /\ ~IsComposite(f) => HasScalars(MemberScalars(f, k, at, w, ImageScalars), f, k)
  BY <1>2, <1>8, <1>10, <1>11, <1>12, MemberScalarsOf
<1> QED BY <1>9, <1>13, Zenon DEF f

LEMMA ImagesHavePaths ==
  ASSUME NEW i \in TypeIds
  PROVE  HasPaths(i)
<1> DEFINE N == {m \in Nat : \A j \in TypeIds : j <= m => HasPaths(j)}
<1>0. TypeIds = 1 .. Len(Types) /\ Len(Types) \in Nat /\ \A j \in TypeIds : Accepted(j)
  BY LayoutConstants, PlanConstants DEF TypeIds, IsSequence
<1>1. 0 \in N
  BY <1>0
<1>2. PICK structures :
        /\ \A j \in Images : SameAsImage(j, structures[j])
        /\ \A j \in Images : ImageScalars[j] = Scalars(j, structures, ImageScalars)
  BY <1>0, ImageScalarsAre
<1>3. \A j \in TypeIds \ Images : HasPaths(j)
  BY <1>0, ImageScalarsAre, FS_EmptySet DEF HasPaths
<1>4. ASSUME NEW m \in Nat, m \in N PROVE m + 1 \in N
  <2> SUFFICES ASSUME NEW j \in TypeIds, j = m + 1, j \in Images PROVE HasPaths(j)
    BY <1>0, <1>3, <1>4
  <2>1. \A h \in TypeIds : h < j => HasPaths(h)
    BY <1>0, <1>4
  <2> DEFINE one(k) == FieldScalars(j, k, structures)
             D == DOMAIN Fields[j]
             g == [k \in D |-> one(k)]
  <2>2. ASSUME NEW k \in D PROVE IsFiniteSet(one(k)) /\ \A s \in one(k) : OfField(j, k, s)
    BY <1>2, <2>1, FieldScalarsAre
  <2>3. ImageScalars[j] = UNION {one(k) : k \in D}
    BY <1>2, Zenon DEF Scalars, FieldScalars
  <2>4. IsFiniteSet(D)
    <3>1. D = 1 .. Len(Fields[j]) /\ Len(Fields[j]) \in Int /\ 1 \in Int
      BY Definitions
    <3> QED BY <3>1, FS_Interval
  <2>5. {g[k] : k \in D} = {one(k) : k \in D} /\ DOMAIN g = D
    OBVIOUS
  <2> HIDE DEF one, D, g
  <2>6. IsFiniteSet({one(k) : k \in D})
    <3>1. DOMAIN g = D
      BY <2>5
    <3>2. IsFiniteSet({g[k] : k \in D})
      BY <2>4, <3>1, FiniteImage, Zenon
    <3> QED BY <2>5, <3>2, Zenon
  <2>7. \A T \in {one(k) : k \in D} : IsFiniteSet(T)
    BY <2>2
  <2>8. IsFiniteSet(ImageScalars[j])
    BY <2>3, <2>6, <2>7, FS_UNION
  <2>9. ASSUME NEW s \in ImageScalars[j] PROVE IsPath(s.path)
    <3>1. PICK k \in D : s \in one(k)
      BY <2>3
    <3> QED BY <2>2, <3>1 DEF OfField
  <2> QED BY <2>8, <2>9 DEF HasPaths
<1> HIDE DEF N
<1>5. Len(Types) \in N
  BY <1>0, <1>1, <1>4, Induction
<1> QED BY <1>0, <1>5 DEF N

LEMMA ImageFields ==
  ASSUME NEW i \in TypeIds, ImageScalars[i] # {}
  PROVE  /\ \A s \in ImageScalars[i] : \E k \in DOMAIN Fields[i] : OfField(i, k, s)
         /\ \A k \in DOMAIN Fields[i] :
              ~IsComposite(Fields[i][k]) => HasScalars(ImageScalars[i], Fields[i][k], k)
<1>0. \A j \in TypeIds : Accepted(j)
  BY PlanConstants
<1>1. i \in Images
  BY <1>0, ImageScalarsAre
<1>2. PICK structures :
        /\ \A j \in Images : SameAsImage(j, structures[j])
        /\ \A j \in Images : ImageScalars[j] = Scalars(j, structures, ImageScalars)
  BY <1>0, ImageScalarsAre
<1>3. ImageScalars[i] = UNION {FieldScalars(i, k, structures) : k \in DOMAIN Fields[i]}
  BY <1>1, <1>2, Zenon DEF Scalars, FieldScalars
<1>4. ASSUME NEW k \in DOMAIN Fields[i]
      PROVE  /\ \A s \in FieldScalars(i, k, structures) : OfField(i, k, s)
             /\ ~IsComposite(Fields[i][k]) => HasScalars(FieldScalars(i, k, structures), Fields[i][k], k)
  BY <1>1, <1>2, ImagesHavePaths, FieldScalarsAre
<1>5. ASSUME NEW k \in DOMAIN Fields[i], ~IsComposite(Fields[i][k])
      PROVE  HasScalars(ImageScalars[i], Fields[i][k], k)
  <2>1. FieldScalars(i, k, structures) \subseteq ImageScalars[i]
    BY <1>3
  <2>2. HasScalars(FieldScalars(i, k, structures), Fields[i][k], k)
    BY <1>4, <1>5
  <2> QED BY <2>1, <2>2, Zenon DEF HasScalars
<1> QED BY <1>3, <1>4, <1>5

-----------------------------------------------------------------------------
(* An object with one value in it replaced.                                *)

IsWith(obj, path, v, with) ==
    with = [n \in 1 .. (Len(path) + 1) |->
              IF n > Len(path) THEN v
              ELSE [ValueAt(obj, SubSeq(path, 1, n - 1)) EXCEPT ![path[n]] = with[n + 1]]]

LEMMA WithExists ==
  ASSUME NEW obj, NEW path, IsPath(path), NEW v
  PROVE  \E with : IsWith(obj, path, v, with)
<1> DEFINE L == Len(path)
           Here1(n, x) == [ValueAt(obj, SubSeq(path, 1, n - 1)) EXCEPT ![path[n]] = x]
           Is(n, g, x) == x = IF n > L THEN v ELSE Here1(n, g[n + 1])
           IsTo(m, g) == \A n \in 1 .. (L + 1) : n > L - m => Is(n, g, g[n])
           N == {m \in Nat : m <= L => \E g : DOMAIN g = 1 .. (L + 1) /\ g = [n \in 1 .. (L + 1) |-> g[n]] /\ IsTo(m, g)}
<1>0. L \in Nat
  BY HeldIs DEF IsPath
<1> HIDE DEF L, Here1
<1>1. 0 \in N
  <2> DEFINE g == [n \in 1 .. (L + 1) |-> v]
  <2>1. IsTo(0, g)
    BY <1>0
  <2>2. DOMAIN g = 1 .. (L + 1) /\ g = [n \in 1 .. (L + 1) |-> g[n]]
    OBVIOUS
  <2> HIDE DEF g
  <2> QED BY <2>1, <2>2
<1>2. ASSUME NEW m \in Nat, m \in N PROVE m + 1 \in N
  <2> SUFFICES ASSUME m + 1 <= L
               PROVE  \E g : DOMAIN g = 1 .. (L + 1) /\ g = [n \in 1 .. (L + 1) |-> g[n]] /\ IsTo(m + 1, g)
    OBVIOUS
  <2>1. PICK g : DOMAIN g = 1 .. (L + 1) /\ IsTo(m, g)
    BY <1>0, <1>2
  <2>2. PICK j \in 1 .. L : j = L - m
    BY <1>0
  <2> DEFINE h == [n \in 1 .. (L + 1) |-> IF n = j THEN Here1(j, g[j + 1]) ELSE g[n]]
  <2>3. ASSUME NEW n \in 1 .. (L + 1), n > L - (m + 1) PROVE Is(n, h, h[n])
    <3>1. n >= j /\ (n # j => n > L - m) /\ (n <= L => n + 1 \in 1 .. (L + 1) /\ n + 1 # j)
      BY <1>0, <2>2, <2>3
    <3>2. n <= L => h[n + 1] = g[n + 1]
      BY <3>1
    <3>3. h[n] = IF n = j THEN Here1(j, g[j + 1]) ELSE g[n]
      OBVIOUS
    <3> HIDE DEF h
    <3>4. CASE n = j
      <4>1. n <= L /\ ~(n > L)
        BY <1>0, <3>4
      <4> QED BY <3>2, <3>3, <3>4, <4>1
    <3>5. CASE n # j
      <4>1. Is(n, g, g[n]) /\ h[n] = g[n]
        BY <2>1, <3>1, <3>3, <3>5
      <4>2. n > L \/ n <= L
        BY <1>0
      <4> QED BY <3>2, <4>1, <4>2
    <3> QED BY <3>4, <3>5
  <2>4. DOMAIN h = 1 .. (L + 1) /\ h = [n \in 1 .. (L + 1) |-> h[n]]
    OBVIOUS
  <2> HIDE DEF h
  <2>5. IsTo(m + 1, h)
    BY <2>3
  <2> QED BY <2>4, <2>5
<1> HIDE DEF N
<1>3. L \in N
  BY <1>0, <1>1, <1>2, Induction
<1>4. PICK g : g = [n \in 1 .. (L + 1) |-> g[n]] /\ IsTo(L, g)
  BY <1>0, <1>3 DEF N
<1>5. ASSUME NEW n \in 1 .. (L + 1) PROVE Is(n, g, g[n])
  <2>1. n > L - L
    BY <1>0
  <2> QED BY <1>4, <2>1
<1>6. [n \in 1 .. (L + 1) |-> g[n]] = [n \in 1 .. (L + 1) |-> IF n > L THEN v ELSE Here1(n, g[n + 1])]
  BY <1>5, Zenon
<1>7. g = [n \in 1 .. (L + 1) |-> IF n > L THEN v ELSE Here1(n, g[n + 1])]
  BY <1>4, <1>6, Zenon
<1> QED BY <1>7, Zenon DEF IsWith, L, Here1

LEMMA FirstOf ==
  ASSUME NEW obj, NEW path, IsPath(path)
  PROVE  /\ ValueAt(obj, SubSeq(path, 1, 0)) = obj
         /\ ValueAt(obj, SubSeq(path, 1, 1)) = obj[path[1]]
<1>0. Len(path) \in Nat /\ Len(path) >= 1
  BY HeldIs DEF IsPath
<1>1. SubSeq(path, 1, 0) = << >> /\ Len(SubSeq(path, 1, 0)) = 0
  BY DEF IsPath
<1>2. Len(SubSeq(path, 1, 1)) = 1 /\ SubSeq(path, 1, 1)[1] = path[1]
  BY <1>0, SubSeqProperties DEF IsPath
<1>3. ASSUME NEW p, Len(p) = 0 PROVE ValueAt(obj, p) = obj
  <2> DEFINE IsAt(at) == at = [n \in 0 .. Len(p) |-> IF n = 0 THEN obj ELSE at[n - 1][p[n]]]
             g == [n \in 0 .. 0 |-> obj]
             at == CHOOSE a : IsAt(a)
  <2>1. g = [n \in 0 .. Len(p) |-> IF n = 0 THEN obj ELSE g[n - 1][p[n]]]
    BY <1>3
  <2>2. IsAt(at)
    BY <2>1, Zenon
  <2>3. ValueAt(obj, p) = at[Len(p)]
    BY Zenon DEF ValueAt
  <2> HIDE DEF at
  <2> QED BY <1>3, <2>2, <2>3
<1>4. ASSUME NEW p, Len(p) = 1 PROVE ValueAt(obj, p) = obj[p[1]]
  <2> DEFINE IsAt(at) == at = [n \in 0 .. Len(p) |-> IF n = 0 THEN obj ELSE at[n - 1][p[n]]]
             g == [n \in 0 .. 1 |-> IF n = 0 THEN obj ELSE obj[p[1]]]
             at == CHOOSE a : IsAt(a)
  <2>1. g = [n \in 0 .. Len(p) |-> IF n = 0 THEN obj ELSE g[n - 1][p[n]]]
    <3>1. \A n \in 0 .. 1 : (IF n = 0 THEN obj ELSE obj[p[1]]) = (IF n = 0 THEN obj ELSE g[n - 1][p[n]])
      OBVIOUS
    <3> QED BY <1>4, <3>1
  <2>2. IsAt(at)
    BY <2>1, Zenon
  <2>3. ValueAt(obj, p) = at[Len(p)]
    BY Zenon DEF ValueAt
  <2> HIDE DEF at
  <2>4. at[1] = at[0][p[1]] /\ at[0] = obj
    BY <1>4, <2>2
  <2> QED BY <1>4, <2>3, <2>4
<1> QED BY <1>1, <1>2, <1>3, <1>4

(* "w" is what the member the path leads to first becomes.                 *)
Becomes(obj, path, v, w) ==
    /\ WithValueAt(obj, path, v) = [obj EXCEPT ![path[1]] = w]
    /\ Len(path) = 1 => w = v
    /\ Len(path) >= 2 =>
         \E x : w = [obj[path[1]] EXCEPT ![path[2]] = x] /\ (Len(path) = 2 => x = v)

LEMMA WithValueIs ==
  ASSUME NEW obj, NEW path, IsPath(path), NEW v
  PROVE  \E w : Becomes(obj, path, v, w)
<1> DEFINE with == CHOOSE g : IsWith(obj, path, v, g)
<1>0. Len(path) \in Nat /\ Len(path) >= 1
  BY HeldIs DEF IsPath
<1>1. IsWith(obj, path, v, with)
  BY WithExists, Zenon
<1>2. WithValueAt(obj, path, v) = with[1]
  BY Zenon DEF WithValueAt, IsWith
<1> HIDE DEF with
<1>3. ASSUME NEW n \in 1 .. (Len(path) + 1)
      PROVE  with[n] = IF n > Len(path) THEN v
                       ELSE [ValueAt(obj, SubSeq(path, 1, n - 1)) EXCEPT ![path[n]] = with[n + 1]]
  BY <1>1, Zenon DEF IsWith
<1>4. with[1] = [obj EXCEPT ![path[1]] = with[2]]
  <2>1. 1 \in 1 .. (Len(path) + 1) /\ ~(1 > Len(path)) /\ 1 - 1 = 0 /\ 1 + 1 = 2
    BY <1>0
  <2>2. with[1] = [ValueAt(obj, SubSeq(path, 1, 0)) EXCEPT ![path[1]] = with[2]]
    BY <1>3, <2>1
  <2> QED BY <2>2, FirstOf
<1>5. ASSUME Len(path) = 1 PROVE with[2] = v
  <2>1. 2 \in 1 .. (Len(path) + 1) /\ 2 > Len(path)
    BY <1>5
  <2> QED BY <1>3, <2>1
<1>6. ASSUME Len(path) >= 2 PROVE with[2] = [obj[path[1]] EXCEPT ![path[2]] = with[3]]
  <2>1. 2 \in 1 .. (Len(path) + 1) /\ ~(2 > Len(path)) /\ 2 - 1 = 1 /\ 2 + 1 = 3
    BY <1>0, <1>6
  <2>2. with[2] = [ValueAt(obj, SubSeq(path, 1, 1)) EXCEPT ![path[2]] = with[3]]
    BY <1>3, <2>1
  <2> QED BY <2>2, FirstOf
<1>7. ASSUME Len(path) = 2 PROVE with[3] = v
  <2>1. 3 \in 1 .. (Len(path) + 1) /\ 3 > Len(path)
    BY <1>7
  <2> QED BY <1>3, <2>1
<1>8. Becomes(obj, path, v, with[2])
  BY <1>2, <1>4, <1>5, <1>6, <1>7 DEF Becomes
<1> QED BY <1>8

-----------------------------------------------------------------------------
(* An object moved scalar by scalar.                                       *)

OneMoved(s, obj, bits, from, end) ==
    WithValueAt(obj, s.path, ReadValue(s.f, BitsAt(bits, from + s.at, s.f.bits, end)))

AnyOf(left) == CHOOSE s \in left : TRUE

IsMoved(scalars, obj, bits, from, end, moved) ==
    moved = [left \in SUBSET scalars |->
               IF left = {} THEN obj
               ELSE OneMoved(AnyOf(left), moved[left \ {AnyOf(left)}], bits, from, end)]

LEMMA LessByOne ==
  ASSUME NEW S, IsFiniteSet(S), NEW left \in SUBSET S, left # {}
  PROVE  /\ AnyOf(left) \in left /\ left \ {AnyOf(left)} \in SUBSET S
         /\ Cardinality(left) \in Nat /\ Cardinality(left) > 0
         /\ Cardinality(left \ {AnyOf(left)}) = Cardinality(left) - 1
<1>1. AnyOf(left) \in left
  BY DEF AnyOf
<1>2. IsFiniteSet(left)
  BY FS_Subset
<1>3. Cardinality(left) \in Nat /\ Cardinality(left) # 0
  BY <1>2, FS_CardinalityType, FS_EmptySet
<1>4. Cardinality(left \ {AnyOf(left)}) = Cardinality(left) - 1
  BY <1>1, <1>2, FS_RemoveElement
<1>5. left \ {AnyOf(left)} \in SUBSET S
  OBVIOUS
<1> QED BY <1>1, <1>3, <1>4, <1>5

LEMMA MovesExist ==
  ASSUME NEW scalars, IsFiniteSet(scalars), NEW obj, NEW bits, NEW from, NEW end
  PROVE  \E moved : IsMoved(scalars, obj, bits, from, end, moved)
<1> DEFINE All == SUBSET scalars
           More(left, x) == OneMoved(AnyOf(left), x, bits, from, end)
           less(left) == left \ {AnyOf(left)}
           Is(left, g, x) == x = IF left = {} THEN obj ELSE More(left, g[less(left)])
           IsTo(m, g) == \A left \in All : Cardinality(left) <= m => Is(left, g, g[left])
           N == {m \in Nat : \E g : g = [left \in All |-> g[left]] /\ IsTo(m, g)}
<1>0. \A left \in All : Cardinality(left) \in Nat /\ (Cardinality(left) = 0 => left = {})
  BY FS_Subset, FS_CardinalityType, FS_EmptySet
<1>a. \A left \in All : left # {} => less(left) \in All /\ Cardinality(less(left)) = Cardinality(left) - 1
  BY LessByOne
<1> HIDE DEF All, More, less
<1>1. 0 \in N
  <2> DEFINE g == [left \in All |-> obj]
  <2>1. g = [left \in All |-> g[left]] /\ \A left \in All : g[left] = obj
    OBVIOUS
  <2> HIDE DEF g
  <2>2. IsTo(0, g)
    <3> SUFFICES ASSUME NEW left \in All, Cardinality(left) <= 0 PROVE Is(left, g, g[left])
      OBVIOUS
    <3>1. left = {}
      BY <1>0
    <3> QED BY <2>1, <3>1
  <2> QED BY <2>1, <2>2
<1>2. ASSUME NEW m \in Nat, m \in N PROVE m + 1 \in N
  <2>1. PICK g : IsTo(m, g)
    BY <1>2
  <2> DEFINE h == [left \in All |-> IF Cardinality(left) <= m THEN g[left] ELSE More(left, g[less(left)])]
  <2>2. h = [left \in All |-> h[left]]
        /\ \A left \in All : h[left] = IF Cardinality(left) <= m THEN g[left] ELSE More(left, g[less(left)])
    OBVIOUS
  <2> HIDE DEF h
  <2>3. ASSUME NEW left \in All, Cardinality(left) <= m + 1 PROVE Is(left, h, h[left])
    <3>1. left # {} => less(left) \in All /\ Cardinality(less(left)) <= m
      BY <1>0, <1>a, <2>3
    <3>2. left # {} => h[less(left)] = g[less(left)]
      BY <2>2, <3>1
    <3>3. CASE Cardinality(left) <= m
      <4>1. h[left] = g[left] /\ Is(left, g, g[left])
        BY <2>1, <2>2, <3>3
      <4> QED BY <3>2, <4>1, Zenon
    <3>4. CASE ~(Cardinality(left) <= m)
      <4>1. left # {}
        <5>1. {} \in All /\ Cardinality({}) = 0
          BY FS_EmptySet DEF All
        <5> QED BY <3>4, <5>1
      <4>2. h[left] = More(left, g[less(left)])
        BY <2>2, <3>4
      <4> QED BY <3>2, <4>1, <4>2, Zenon
    <3> QED BY <3>3, <3>4
  <2> QED BY <2>2, <2>3
<1> HIDE DEF N
<1>3. Cardinality(scalars) \in N
  BY <1>1, <1>2, FS_CardinalityType, Induction
<1>4. PICK g : g = [left \in All |-> g[left]] /\ IsTo(Cardinality(scalars), g)
  BY <1>3 DEF N
<1>5. ASSUME NEW left \in All PROVE Is(left, g, g[left])
  <2>1. Cardinality(left) <= Cardinality(scalars)
    BY FS_Subset DEF All
  <2> QED BY <1>4, <2>1
<1>6. [left \in All |-> g[left]] = [left \in All |-> IF left = {} THEN obj ELSE More(left, g[less(left)])]
  BY <1>5, Zenon
<1>7. g = [left \in All |-> IF left = {} THEN obj ELSE More(left, g[less(left)])]
  BY <1>4, <1>6, Zenon
<1> QED BY <1>7, Zenon DEF IsMoved, All, More, less

(* The element "n" of a field is what its getter answers.                  *)
GotAt(obj, k, n) ==
    (IF IsArray(Fields[reader][k]) THEN obj[k][n + 1] ELSE obj[k]) = Getter(reader, k, n + 1)

LEMMA MovesOne ==
  ASSUME reader \in TypeIds, HasFixedOffsets(reader), NEW k \in DOMAIN Fields[reader],
         NEW s, OfField(reader, k, s), NEW obj, HoldsArrays(obj)
  PROVE  LET u == OneMoved(s, obj, ones, 0, size * ByteBits) IN
         /\ HoldsArrays(u)
         /\ \A j \in DOMAIN Fields[reader] : ~IsComposite(Fields[reader][j]) =>
              \A n \in Repeats(Fields[reader][j]) :
                s.path = PathOf(Fields[reader][j], j, n) \/ GotAt(obj, j, n) => GotAt(u, j, n)
<1> DEFINE f == Fields[reader][k]
           v == ReadValue(s.f, BitsAt(ones, 0 + s.at, s.f.bits, size * ByteBits))
           u == OneMoved(s, obj, ones, 0, size * ByteBits)
<1>1. IsPath(s.path) /\ s.path[1] = k /\ (IsArray(f) => Len(s.path) >= 2)
  BY DEF OfField
<1>2. f.cap \in Nat /\ f.bits \in Nat
  <2>1. IsField(f) /\ f.bits \in 0 .. 64
    BY FieldsAre, BitsOfField
  <2> HIDE DEF f
  <2> QED BY <2>1 DEF IsField
<1>3. PICK w : /\ u = [obj EXCEPT ![s.path[1]] = w]
               /\ Len(s.path) = 1 => w = v
               /\ Len(s.path) >= 2 =>
                    \E x : w = [obj[s.path[1]] EXCEPT ![s.path[2]] = x] /\ (Len(s.path) = 2 => x = v)
  <2>1. u = WithValueAt(obj, s.path, v)
    BY DEF OneMoved
  <2>2. PICK p, y : p = s.path /\ y = v
    OBVIOUS
  <2> HIDE DEF u, v
  <2>3. IsPath(p)
    BY <1>1, <2>2
  <2>4. PICK w : Becomes(obj, p, y, w)
    BY <2>3, WithValueIs
  <2> QED BY <2>1, <2>2, <2>4 DEF Becomes
<1> HIDE DEF u
<1>4. DOMAIN obj = DOMAIN Fields[reader]
      /\ \A j \in DOMAIN Fields[reader] : IsArray(Fields[reader][j]) => DOMAIN obj[j] = 1 .. Fields[reader][j].cap
  BY DEF HoldsArrays
<1>5. /\ DOMAIN u = DOMAIN obj /\ u[k] = w
      /\ \A j \in DOMAIN Fields[reader] : j # k => u[j] = obj[j]
  BY <1>1, <1>3, <1>4
<1>6. IsArray(f) => \E x : w = [obj[k] EXCEPT ![s.path[2]] = x] /\ (Len(s.path) = 2 => x = v)
  BY <1>1, <1>3
<1> HIDE DEF v
<1>7. HoldsArrays(u)
  <2>1. IsArray(f) => DOMAIN w = DOMAIN obj[k]
    BY <1>6
  <2> QED BY <1>4, <1>5, <2>1 DEF HoldsArrays
<1>8. ASSUME NEW j \in DOMAIN Fields[reader], ~IsComposite(Fields[reader][j]),
             NEW n \in Repeats(Fields[reader][j]),
             s.path = PathOf(Fields[reader][j], j, n) \/ GotAt(obj, j, n)
      PROVE  GotAt(u, j, n)
  <2>1. CASE j # k
    <3>1. s.path # PathOf(Fields[reader][j], j, n)
      BY <1>1, <2>1, PathOfIs
    <3> QED BY <1>5, <1>8, <2>1, <3>1 DEF GotAt
  <2>2. CASE j = k
    <3>1. ~IsComposite(f) /\ n \in Repeats(f)
      BY <1>8, <2>2
    <3>2. PICK m \in Repeats(f) : /\ s.path = PathOf(f, k, m) /\ s.f = f
                                  /\ s.at = FixedFieldOffset(reader, k) + m * f.bits
      BY <3>1 DEF OfField
    <3>3. m \in Nat /\ n \in Nat /\ (IsArray(f) => m + 1 \in 1 .. f.cap /\ n + 1 \in 1 .. f.cap) /\ (~IsArray(f) => m = 0 /\ n = 0)
      <4>1. PICK c \in Nat : c = f.cap
        BY <1>2
      <4>2. m \in 0 .. (IF IsArray(f) THEN c - 1 ELSE 0) /\ n \in 0 .. (IF IsArray(f) THEN c - 1 ELSE 0)
        BY <3>1, <4>1 DEF Repeats
      <4> HIDE DEF f
      <4> QED BY <4>1, <4>2
    <3>4. v = Getter(reader, k, m + 1)
      <4>1. FixedFieldOffset(reader, k) \in Nat
        BY OffsetIsNumber
      <4>2. (m + 1) - 1 = m /\ ~(IsArray(f) /\ m + 1 > f.cap)
        BY <1>2, <3>3
      <4>3. PICK e \in Nat : e = m * f.bits
        BY <1>2, <3>3
      <4>4. 0 + s.at = FixedFieldOffset(reader, k) + m * f.bits
        BY <3>2, <4>1, <4>3
      <4>5. Getter(reader, k, m + 1)
              = ReadValue(f, BitsAt(ones, FixedFieldOffset(reader, k) + m * f.bits, f.bits, size * ByteBits))
        BY <4>2, Zenon DEF Getter
      <4> QED BY <3>2, <4>4, <4>5, Zenon DEF v
    <3>5. CASE IsArray(f)
      <4>1. Len(s.path) = 2 /\ s.path[2] = m + 1
        BY <3>2, <3>5, PathOfIs
      <4>2. w = [obj[k] EXCEPT ![m + 1] = v]
        BY <1>6, <3>5, <4>1
      <4>3. m + 1 \in DOMAIN obj[k] /\ n + 1 \in DOMAIN obj[k]
        BY <1>4, <3>3, <3>5
      <4>4. n + 1 = m + 1 => n = m
        BY <3>3
      <4>5. CASE n = m
        <5>1. u[k][n + 1] = v
          BY <1>5, <4>2, <4>3, <4>5
        <5> QED BY <2>2, <3>4, <3>5, <4>5, <5>1 DEF GotAt
      <4>6. CASE n # m
        <5>1. s.path # PathOf(f, k, n)
          BY <3>5, <4>1, <4>4, <4>6, PathOfIs
        <5>2. GotAt(obj, k, n)
          BY <1>8, <2>2, <5>1
        <5>3. u[k][n + 1] = obj[k][n + 1]
          BY <1>5, <4>2, <4>3, <4>4, <4>6
        <5> QED BY <2>2, <3>5, <5>2, <5>3 DEF GotAt
      <4> QED BY <4>5, <4>6
    <3>6. CASE ~IsArray(f)
      <4>1. Len(s.path) = 1 /\ n = m
        BY <3>2, <3>3, <3>6, PathOfIs
      <4>2. u[k] = v
        BY <1>3, <1>5, <4>1
      <4> QED BY <2>2, <3>4, <3>6, <4>1, <4>2 DEF GotAt
    <3> QED BY <3>5, <3>6
  <2> QED BY <2>1, <2>2
<1> QED BY <1>7, <1>8 DEF u

FilledBy(left, obj) ==
    /\ HoldsArrays(obj)
    /\ \A j \in DOMAIN Fields[reader] : ~IsComposite(Fields[reader][j]) =>
         \A n \in Repeats(Fields[reader][j]) :
           (\E s \in left : s.path = PathOf(Fields[reader][j], j, n)) => GotAt(obj, j, n)

LEMMA FillsMore ==
  ASSUME reader \in TypeIds, HasFixedOffsets(reader), NEW k \in DOMAIN Fields[reader],
         NEW s, OfField(reader, k, s), NEW left, NEW obj, FilledBy(left \ {s}, obj)
  PROVE  FilledBy(left, OneMoved(s, obj, ones, 0, size * ByteBits))
<1> DEFINE u == OneMoved(s, obj, ones, 0, size * ByteBits)
<1>1. HoldsArrays(obj)
  BY DEF FilledBy
<1>2. /\ HoldsArrays(u)
      /\ \A j \in DOMAIN Fields[reader] : ~IsComposite(Fields[reader][j]) =>
           \A n \in Repeats(Fields[reader][j]) :
             s.path = PathOf(Fields[reader][j], j, n) \/ GotAt(obj, j, n) => GotAt(u, j, n)
  BY <1>1, MovesOne
<1> HIDE DEF u
<1>3. ASSUME NEW j \in DOMAIN Fields[reader], ~IsComposite(Fields[reader][j]),
             NEW n \in Repeats(Fields[reader][j]),
             NEW z \in left, z.path = PathOf(Fields[reader][j], j, n)
      PROVE  GotAt(u, j, n)
  <2>1. CASE z = s
    BY <1>2, <1>3, <2>1
  <2>2. CASE z # s
    <3>1. z \in left \ {s}
      BY <2>2
    <3>2. GotAt(obj, j, n)
      BY <1>3, <3>1 DEF FilledBy
    <3> QED BY <1>2, <1>3, <3>2
  <2> QED BY <2>1, <2>2
<1> QED BY <1>2, <1>3 DEF FilledBy, u

LEMMA MemoryFills ==
  ASSUME reader \in TypeIds, HasFixedOffsets(reader), ImageScalars[reader] # {},
         NEW obj, HoldsArrays(obj)
  PROVE  FilledBy(ImageScalars[reader], FromMemory(ImageScalars[reader], obj, ones, 0, size * ByteBits))
<1> DEFINE scalars == ImageScalars[reader]
           end == size * ByteBits
           moved == CHOOSE f : IsMoved(scalars, obj, ones, 0, end, f)
<1>1. IsFiniteSet(scalars)
  BY ImagesHavePaths DEF HasPaths
<1>2. IsMoved(scalars, obj, ones, 0, end, moved)
  <2>1. \E f : IsMoved(scalars, obj, ones, 0, end, f)
    BY <1>1, MovesExist
  <2> QED BY <2>1, Zenon
<1>3. FromMemory(scalars, obj, ones, 0, end) = moved[scalars]
  BY Zenon DEF FromMemory, IsMoved, AnyOf, OneMoved
<1> HIDE DEF moved
<1>4. ASSUME NEW left \in SUBSET scalars
      PROVE  moved[left] = IF left = {} THEN obj
                           ELSE OneMoved(AnyOf(left), moved[left \ {AnyOf(left)}], ones, 0, end)
  BY <1>2, Zenon DEF IsMoved
<1>5. \A s \in scalars : \E k \in DOMAIN Fields[reader] : OfField(reader, k, s)
  BY ImageFields
<1> DEFINE N == {m \in Nat : \A left \in SUBSET scalars : Cardinality(left) <= m => FilledBy(left, moved[left])}
<1> HIDE DEF scalars, end
<1>6. FilledBy({}, moved[{}])
  <2>1. moved[{}] = obj
    BY <1>4
  <2> QED BY <2>1 DEF FilledBy
<1>7. 0 \in N
  <2>1. ASSUME NEW left \in SUBSET scalars, Cardinality(left) <= 0, left # {} PROVE FALSE
    <3>1. Cardinality(left) \in Nat /\ Cardinality(left) > 0
      BY <1>1, <2>1, LessByOne
    <3> QED BY <2>1, <3>1
  <2> QED BY <1>6, <2>1
<1>8. ASSUME NEW m \in Nat, m \in N PROVE m + 1 \in N
  <2> SUFFICES ASSUME NEW left \in SUBSET scalars, left # {}, Cardinality(left) <= m + 1
               PROVE  FilledBy(left, moved[left])
    BY <1>6
  <2> DEFINE s == AnyOf(left)
             less == left \ {s}
  <2>1. s \in left /\ less \in SUBSET scalars /\ Cardinality(less) <= m
    BY <1>1, LessByOne
  <2>2. FilledBy(less, moved[less])
    BY <1>8, <2>1
  <2>3. PICK k \in DOMAIN Fields[reader] : OfField(reader, k, s)
    BY <1>5, <2>1
  <2>4. moved[left] = OneMoved(s, moved[less], ones, 0, size * ByteBits)
    BY <1>4, Zenon DEF end
  <2>5. PICK z, o : z = s /\ o = moved[less]
    OBVIOUS
  <2>6. FilledBy(left \ {z}, o) /\ OfField(reader, k, z)
    BY <2>2, <2>3, <2>5
  <2>7. FilledBy(left, OneMoved(z, o, ones, 0, size * ByteBits))
    BY <2>6, FillsMore
  <2> QED BY <2>4, <2>5, <2>7
<1> HIDE DEF N
<1>9. Cardinality(scalars) \in Nat
  BY <1>1, FS_CardinalityType
<1>10. Cardinality(scalars) \in N
  BY <1>7, <1>8, <1>9, Induction
<1>11. FilledBy(scalars, moved[scalars])
  BY <1>9, <1>10 DEF N
<1> QED BY <1>3, <1>11 DEF scalars, end

LEMMA FilledIsGot ==
  ASSUME reader \in TypeIds, ImageScalars[reader] # {}, NEW obj, FilledBy(ImageScalars[reader], obj),
         NEW k \in DOMAIN Fields[reader]
  PROVE  IsWhatIsGot(reader, k, obj[k])
<1> DEFINE f == Fields[reader][k]
<1> SUFFICES ASSUME ~IsComposite(f)
             PROVE  IF IsArray(f) THEN \A n \in 1 .. f.cap : obj[k][n] = Getter(reader, k, n)
                    ELSE obj[k] = Getter(reader, k, 1)
  BY Zenon DEF IsWhatIsGot
<1>1. HasScalars(ImageScalars[reader], f, k)
  BY ImageFields
<1>2. ASSUME NEW n \in Repeats(f) PROVE GotAt(obj, k, n)
  BY <1>1 DEF HasScalars, FilledBy
<1>3. f.cap \in Nat
  BY FieldsAre DEF IsField
<1>4. CASE IsArray(f)
  <2> SUFFICES ASSUME NEW n \in 1 .. f.cap PROVE obj[k][n] = Getter(reader, k, n)
    BY <1>4
  <2>1. n - 1 \in Repeats(f) /\ (n - 1) + 1 = n
    <3>1. PICK c \in Nat : c = f.cap
      BY <1>3
    <3> HIDE DEF f
    <3> QED BY <1>4, <3>1 DEF Repeats
  <2>2. GotAt(obj, k, n - 1)
    BY <1>2, <2>1
  <2> QED BY <1>4, <2>1, <2>2 DEF GotAt
<1>5. CASE ~IsArray(f)
  <2>1. 0 \in Repeats(f) /\ 0 + 1 = 1
    <3> HIDE DEF f
    <3> QED BY <1>5 DEF Repeats
  <2>2. GotAt(obj, k, 0)
    BY <1>2, <2>1
  <2> QED BY <1>5, <2>1, <2>2 DEF GotAt
<1> QED BY <1>4, <1>5

LEMMA ReadImageGets ==
  ASSUME GInv, phase = "reading", HasFixedOffsets(reader), ReadImage
  PROVE  FirstGets(stack')
<1>1. stack # << >> /\ Top.todo # << >> /\ Step.kind = "move"
  BY DEF ReadImage, AtStep
<1> DEFINE o == FromMemory(Step.scalars, Top.obj, ones, Top.base * ByteBits, (Top.base + Top.cap) * ByteBits)
           u == [Top EXCEPT !.off = Top.off + Step.bits, !.obj = o]
<1>2. stack' = WithTop(Past(u))
  BY Zenon DEF ReadImage
<1>3. AreFrames(stack, FALSE) /\ FirstGets(stack) /\ FrameOK(Top, FALSE) /\ IsFrame(Top)
      /\ Step = Top.todo[1] /\ reader \in TypeIds /\ size \in Nat /\ IsStep(Top.type, FALSE, Step)
  BY <1>1, AtFirst
<1>4. ASSUME Len(stack) = 1 PROVE Getting(Past(u))
  <2>1. Getting(Top) /\ Top.type = reader /\ Top.base = 0 /\ Top.cap = size
    BY <1>1, <1>4, AtFirst
  <2>2. ImageScalars[reader] # {} /\ Step.scalars = ImageScalars[reader]
    <3>1. IsMove(reader, Step)
      BY <1>1, <1>3, <2>1, PlainIs DEF IsStep, IsElements, IsTag
    <3> QED BY <3>1 DEF IsMove, Moved
  <2>3. Top.base * ByteBits = 0 /\ (Top.base + Top.cap) * ByteBits = size * ByteBits
    BY <1>3, <2>1 DEF ByteBits
  <2>4. o = FromMemory(ImageScalars[reader], Top.obj, ones, 0, size * ByteBits)
    BY <2>2, <2>3
  <2>5. HoldsArrays(Top.obj)
    BY <2>1 DEF Getting
  <2> HIDE DEF o
  <2>6. FilledBy(ImageScalars[reader], o)
    BY <1>3, <2>2, <2>4, <2>5, MemoryFills
  <2>7. HoldsArrays(o) /\ \A k \in DOMAIN Fields[reader] : IsWhatIsGot(reader, k, o[k])
    BY <1>3, <2>2, <2>6, FilledIsGot DEF FilledBy
  <2>8. Keeps(Top, u) /\ u.obj = o /\ u.err = Top.err
    BY <1>3 DEF IsFrame, Keeps
  <2> HIDE DEF u
  <2> QED BY <1>1, <1>3, <2>1, <2>7, <2>8, GetsPast
<1> HIDE DEF u
<1> QED BY <1>1, <1>2, <1>3, <1>4, TopGets

-----------------------------------------------------------------------------
(* The storage a reader is handed.                                         *)

StaleOne(f, stale) == IF IsComposite(f) THEN stale[f.ref] ELSE IF f.cat = "void" THEN 0 ELSE 1

StaleAll(f, stale) ==
    IF IsArray(f) THEN [n \in 1 .. f.cap |-> StaleOne(f, stale)] ELSE StaleOne(f, stale)

StaleFrom(i, stale) ==
    IF IsUnion[i]
    THEN [tag |-> Len(Fields[i]) - 1, value |-> StaleAll(Fields[i][Len(Fields[i])], stale)]
    ELSE [k \in DOMAIN Fields[i] |-> StaleAll(Fields[i][k], stale)]

StalesFrom(stale) == stale = [i \in TypeIds |-> StaleFrom(i, stale)]

LEMMA StaleOfEarlier ==
  ASSUME NEW i \in TypeIds, NEW stale, NEW more, \A j \in TypeIds : j < i => stale[j] = more[j]
  PROVE  StaleFrom(i, stale) = StaleFrom(i, more)
<1>1. ASSUME NEW k \in DOMAIN Fields[i]
      PROVE  StaleAll(Fields[i][k], stale) = StaleAll(Fields[i][k], more)
  <2>1. IsComposite(Fields[i][k]) => stale[Fields[i][k].ref] = more[Fields[i][k].ref]
    BY FieldsAre
  <2>2. StaleOne(Fields[i][k], stale) = StaleOne(Fields[i][k], more)
    BY <2>1, Zenon DEF StaleOne
  <2> QED BY <2>2, Zenon DEF StaleAll
<1>2. CASE IsUnion[i]
  <2>1. Len(Fields[i]) \in DOMAIN Fields[i]
    <3>1. Len(Fields[i]) >= 2
      BY <1>2, AllAccepted DEF Accepted
    <3>2. DOMAIN Fields[i] = 1 .. Len(Fields[i]) /\ Len(Fields[i]) \in Nat
      BY Definitions
    <3> QED BY <3>1, <3>2
  <2>2. StaleAll(Fields[i][Len(Fields[i])], stale) = StaleAll(Fields[i][Len(Fields[i])], more)
    BY <1>1, <2>1
  <2> QED BY <1>2, <2>2, Zenon DEF StaleFrom
<1>3. CASE ~IsUnion[i]
  <2>1. [k \in DOMAIN Fields[i] |-> StaleAll(Fields[i][k], stale)]
          = [k \in DOMAIN Fields[i] |-> StaleAll(Fields[i][k], more)]
    BY <1>1, Zenon
  <2> QED BY <1>3, <2>1, Zenon DEF StaleFrom
<1> QED BY <1>2, <1>3

LEMMA StalesExist == \E stale : StalesFrom(stale)
<1> DEFINE IsTo(m, f) == /\ DOMAIN f = TypeIds
                         /\ f = [j \in TypeIds |-> f[j]]
                         /\ \A i \in TypeIds : i <= m => f[i] = StaleFrom(i, f)
           N == {m \in Nat : \E f : IsTo(m, f)}
<1>0. TypeIds = 1 .. Len(Types) /\ Len(Types) \in Nat
  BY LayoutConstants DEF TypeIds, IsSequence
<1>1. 0 \in N
  <2>1. IsTo(0, [i \in TypeIds |-> {}])
    BY <1>0
  <2> QED BY <2>1
<1>2. ASSUME NEW m \in Nat, m \in N PROVE m + 1 \in N
  <2>1. PICK f : IsTo(m, f)
    BY <1>2
  <2> DEFINE more == [i \in TypeIds |-> IF i = m + 1 THEN StaleFrom(m + 1, f) ELSE f[i]]
  <2>2. ASSUME NEW i \in TypeIds, i <= m + 1 PROVE more[i] = StaleFrom(i, more)
    <3>1. \A j \in TypeIds : j < i => f[j] = more[j]
      BY <1>0, <2>2
    <3>2. StaleFrom(i, more) = StaleFrom(i, f)
      <4> HIDE DEF more
      <4> QED BY <3>1, StaleOfEarlier
    <3>3. i # m + 1 => i <= m
      BY <1>0, <2>2
    <3>4. CASE i = m + 1
      <4>1. more[i] = StaleFrom(m + 1, f)
        BY <3>4
      <4> QED BY <3>2, <3>4, <4>1, Zenon
    <3>5. CASE i # m + 1
      <4>1. more[i] = f[i]
        BY <3>5
      <4>2. f[i] = StaleFrom(i, f)
        BY <2>1, <3>3, <3>5
      <4> QED BY <3>2, <4>1, <4>2, Zenon
    <3> QED BY <3>4, <3>5
  <2>3. DOMAIN more = TypeIds /\ more = [j \in TypeIds |-> more[j]]
    OBVIOUS
  <2> HIDE DEF more
  <2>4. IsTo(m + 1, more)
    BY <2>2, <2>3
  <2> QED BY <2>4
<1> HIDE DEF N
<1>3. Len(Types) \in N
  BY <1>0, <1>1, <1>2, Induction
<1>4. PICK f : IsTo(Len(Types), f)
  BY <1>3 DEF N
<1>5. ASSUME NEW i \in TypeIds PROVE f[i] = StaleFrom(i, f)
  <2>1. i <= Len(Types)
    BY <1>0
  <2> QED BY <1>4, <2>1
<1>6. [j \in TypeIds |-> f[j]] = [j \in TypeIds |-> StaleFrom(j, f)]
  BY <1>5, Zenon
<1>7. StalesFrom(f)
  BY <1>4, <1>6, Zenon DEF StalesFrom
<1> QED BY <1>7

LEMMA StaleHoldsArrays ==
  ASSUME reader \in TypeIds, ~IsUnion[reader]
  PROVE  HoldsArrays(Stale[reader])
<1> DEFINE stale == CHOOSE f : StalesFrom(f)
<1>1. StalesFrom(stale)
  BY StalesExist, Zenon
<1>2. Stale = [j \in TypeIds |-> stale[j]]
  BY Zenon DEF Stale, StalesFrom, StaleFrom, StaleAll, StaleOne
<1> HIDE DEF stale
<1>3. Stale[reader] = stale[reader]
  BY <1>2
<1>4. stale[reader] = StaleFrom(reader, stale)
  BY <1>1, Zenon DEF StalesFrom
<1>5. Stale[reader] = [k \in DOMAIN Fields[reader] |-> StaleAll(Fields[reader][k], stale)]
  BY <1>3, <1>4, Zenon DEF StaleFrom
<1>6. ASSUME NEW k \in DOMAIN Fields[reader], IsArray(Fields[reader][k])
      PROVE  DOMAIN Stale[reader][k] = 1 .. Fields[reader][k].cap
  <2>1. Stale[reader][k] = StaleAll(Fields[reader][k], stale)
    BY <1>5
  <2>2. StaleAll(Fields[reader][k], stale) = [n \in 1 .. Fields[reader][k].cap |-> StaleOne(Fields[reader][k], stale)]
    BY <1>6, Zenon DEF StaleAll
  <2> QED BY <2>1, <2>2
<1> QED BY <1>5, <1>6 DEF HoldsArrays

-----------------------------------------------------------------------------
(* The caller of a reader.                                                 *)

LEMMA BodiesHaveAll ==
  ASSUME NEW i \in TypeIds, HasFixedOffsets(i), NEW body \in Bodies[i][FALSE]
  PROVE  /\ \A n \in 1 .. Len(body) : IsThere(i, body[n]) /\ body[n].kind # "elements"
         /\ \A k \in DOMAIN Fields[i] : Fields[i][k].cat # "void" => Ahead(body, k)
<1>1. body \in BodiesFor(BodyOf(Types[i], Steps[i], FALSE), MaxBits[i], ImageScalars[i])
  BY DEF Bodies
<1>2. \/ body = BodyOf(Types[i], Steps[i], FALSE)
      \/ body = Moved(MaxBits[i], ImageScalars[i])
  BY <1>1, Zenon DEF BodiesFor
<1>3. CASE body = BodyOf(Types[i], Steps[i], FALSE)
  <2>1. /\ \A n \in 1 .. Len(body) : IsThere(i, body[n]) /\ body[n].kind \in {"align", "field"}
        /\ \A k \in DOMAIN Fields[i] : Fields[i][k].cat # "void" => Covers(body, k)
    BY <1>3, BodyIsThere
  <2> QED BY <2>1 DEF Covers, Ahead, IsAbout
<1>4. CASE body = Moved(MaxBits[i], ImageScalars[i])
  <2>1. PICK scalars : scalars = ImageScalars[i]
    OBVIOUS
  <2> DEFINE s == [kind |-> "move", scalars |-> scalars, bits |-> MaxBits[i],
                   known |-> Start, past |-> KnownPast(Start, MaxBits[i])]
             one == <<s>>
  <2>2. body = one
    BY <1>4, <2>1 DEF Moved
  <2>3. s.kind = "move"
    OBVIOUS
  <2> HIDE DEF s
  <2>4. Len(one) = 1 /\ one[1] = s
    BY HeldOne
  <2> HIDE DEF one
  <2>5. \A n \in 1 .. Len(one) : n = 1
    BY <2>4
  <2>6. 1 \in 1 .. Len(one)
    BY <2>4
  <2> QED BY <2>2, <2>3, <2>4, <2>5, <2>6 DEF IsThere, Ahead, IsAbout
<1> QED BY <1>2, <1>3, <1>4

LEMMA FirstFrameGets ==
  ASSUME reader \in TypeIds, HasFixedOffsets(reader), NEW body \in Bodies[reader][FALSE]
  PROVE  Getting(NewFrame(reader, body, 0, size, Stale[reader], FALSE))
<1> DEFINE t == NewFrame(reader, body, 0, size, Stale[reader], FALSE)
<1>1. /\ t.type = reader /\ t.todo = body /\ t.obj = Stale[reader] /\ t.cap = size /\ t.base = 0
  BY DEF NewFrame
<1> HIDE DEF t
<1>2. HoldsArrays(t.obj)
  BY <1>1, StaleHoldsArrays DEF HasFixedOffsets
<1>3. /\ \A n \in 1 .. Len(body) : IsThere(reader, body[n]) /\ body[n].kind # "elements"
      /\ \A k \in DOMAIN Fields[reader] : Fields[reader][k].cat # "void" => Ahead(body, k)
  BY BodiesHaveAll
<1>4. ~InLoop(t)
  <2>1. body # << >> => body[1].kind # "elements"
    <3>1. PICK w \in BOOLEAN : w = FALSE
      OBVIOUS
    <3>2. body \in Bodies[reader][w]
      BY <3>1
    <3> QED BY <3>2, BodiesAre DEF IsBody
  <2> QED BY <1>1, <2>1 DEF InLoop
<1>5. \A k \in DOMAIN Fields[reader] : Ahead(t.todo, k) \/ IsWhatIsGot(reader, k, t.obj[k])
  BY <1>1, <1>3 DEF IsWhatIsGot
<1> QED BY <1>1, <1>2, <1>3, <1>4, <1>5 DEF Getting, t

-----------------------------------------------------------------------------
(* The invariant GInv.                                                     *)

(* The first body got as much in the state after as it did in this one.    *)
LEMMA StillGets ==
  ASSUME ones' = ones, size' = size, reader' = reader, FirstGets(stack')
  PROVE  FirstGets(stack)'
BY DEF FirstGets, Getting, HoldsArrays, GetsElements, IsWhatIsGot, Getter

LEMMA InitGets == Init => GInv
<1> SUFFICES ASSUME Init PROVE GInv
  OBVIOUS
<1>1. KInv
  BY InitKeeps
<1>2. phase = "idle" /\ reads = << >>
  BY DEF Init
<1>3. reads \in Seq(Held(reads))
  BY <1>2, HeldNothing
<1> QED BY <1>1, <1>2, <1>3 DEF GInv, GettersAgree

LEMMA CallerGets ==
  ASSUME GInv, KInv', Serialize \/ Deliver \/ Pad \/ UNCHANGED vars
  PROVE  GInv'
<1>1. CASE Serialize \/ Deliver \/ Pad
  <2>1. phase' \notin {"reading", "read"} /\ reads' = reads
    BY <1>1 DEF Serialize, Deliver, Pad
  <2>2. (reads \in Seq(Held(reads)))'
    BY <2>1 DEF GInv, Held
  <2> QED BY <2>1, <2>2 DEF GInv, GettersAgree
<1>2. CASE UNCHANGED vars
  <2>1. /\ phase' = phase /\ ones' = ones /\ size' = size /\ reader' = reader
        /\ reads' = reads /\ stack' = stack /\ error' = error
    BY <1>2 DEF vars
  <2>2. (reads \in Seq(Held(reads)))'
    BY <2>1 DEF GInv, Held
  <2>3. (phase = "reading" /\ HasFixedOffsets(reader) => FirstGets(stack))'
    BY <2>1, StillGets DEF GInv
  <2>4. GettersAgree'
    BY <2>1 DEF GInv, GettersAgree, IsWhatIsGot, Getter
  <2> QED BY <2>2, <2>3, <2>4 DEF GInv
<1> QED BY <1>1, <1>2

LEMMA DeserializeGets ==
  ASSUME GInv, KInv', Deserialize
  PROVE  GInv'
<1>1. /\ phase' = "reading" /\ ones' = ones /\ size' = size /\ reader' = reader /\ reads' = reads
  BY DEF Deserialize
<1>2. PICK body \in Bodies[reader][FALSE] : stack' = <<NewFrame(reader, body, 0, size, Stale[reader], FALSE)>>
  BY DEF Deserialize
<1> DEFINE t == NewFrame(reader, body, 0, size, Stale[reader], FALSE)
<1>3. reader \in TypeIds
  BY DEF GInv, KInv
<1>4. HasFixedOffsets(reader) => Getting(t)
  BY <1>3, FirstFrameGets
<1>5. stack' = <<t>>
  BY <1>2
<1> HIDE DEF t
<1>6. <<t>>[1] = t
  BY HeldOne
<1>7. HasFixedOffsets(reader) => FirstGets(stack')
  BY <1>4, <1>5, <1>6 DEF FirstGets
<1>8. (phase = "reading" /\ HasFixedOffsets(reader) => FirstGets(stack))'
  BY <1>1, <1>7, StillGets
<1>9. (reads \in Seq(Held(reads)))'
  BY <1>1 DEF GInv, Held
<1> QED BY <1>1, <1>8, <1>9 DEF GInv, GettersAgree

LEMMA BodyGets ==
  ASSUME GInv, KInv', UNCHANGED callerVars, stack # << >>,
         phase = "reading" => ones' = ones,
         phase = "reading" /\ HasFixedOffsets(reader) => FirstGets(stack')
  PROVE  GInv'
<1>1. phase' = phase /\ size' = size /\ reader' = reader /\ reads' = reads
  BY DEF callerVars
<1>2. phase # "read"
  BY DEF GInv, KInv
<1>3. (phase = "reading" /\ HasFixedOffsets(reader) => FirstGets(stack))'
  BY <1>1, StillGets
<1>4. (reads \in Seq(Held(reads)))'
  BY <1>1 DEF GInv, Held
<1> QED BY <1>1, <1>2, <1>3, <1>4 DEF GInv, GettersAgree

(* Where nothing is left to do, all the fields are what their getters      *)
(* answer, and the object is the one that the caller is given.             *)
LEMMA ReturnGets ==
  ASSUME GInv, KInv', Return
  PROVE  GInv'
<1>1. /\ Len(stack) = 1 /\ Top.todo = << >> /\ error' = Top.err
      /\ ones' = ones /\ size' = size /\ reader' = reader
      /\ phase' = IF Writing THEN "written" ELSE "read"
  BY DEF Return
<1>2. phase' # "reading"
  BY <1>1
<1>3. CASE Writing
  <2>1. phase' = "written" /\ reads' = reads
    BY <1>3 DEF Return
  <2>2. (reads \in Seq(Held(reads)))'
    BY <2>1 DEF GInv, Held
  <2> QED BY <2>1, <2>2 DEF GInv, GettersAgree
<1>4. CASE ~Writing
  <2> DEFINE r == [err |-> Top.err, given |-> size, used |-> Used(Top, FALSE), obj |-> Top.obj]
  <2>1. reads' = Append(reads, r) /\ r.obj = Top.obj
    BY <1>4 DEF Return
  <2> HIDE DEF r
  <2>2. /\ Append(reads, r) \in Seq(Held(Append(reads, r)))
        /\ Len(Append(reads, r)) = Len(reads) + 1
        /\ Append(reads, r)[Len(reads) + 1] = r
    BY HeldAppend DEF GInv
  <2>3. (reads \in Seq(Held(reads)))'
    BY <2>1, <2>2 DEF Held
  <2>4. reads'[Len(reads')] = r
    BY <2>1, <2>2
  <2>5. stack # << >>
    BY <1>1, HeldNothing
  <2>6. phase = "reading"
    BY <1>4, <2>5 DEF GInv, KInv, Writing
  <2>7. ASSUME HasFixedOffsets(reader), Top.err = Ok, NEW k \in DOMAIN Fields[reader]
        PROVE  IsWhatIsGot(reader, k, r.obj[k])
    <3>1. FirstGets(stack)
      BY <2>6, <2>7 DEF GInv
    <3>2. Getting(Top)
      BY <1>1, <2>5, <3>1 DEF FirstGets, Top
    <3>3. ~Ahead(Top.todo, k)
      <4>1. Len(Top.todo) = 0
        BY <1>1, HeldNothing
      <4> QED BY <4>1 DEF Ahead
    <3> QED BY <2>1, <2>7, <3>2, <3>3 DEF Getting
  <2>8. GettersAgree'
    BY <1>1, <2>4, <2>7 DEF GettersAgree, IsWhatIsGot, Getter
  <2> QED BY <1>2, <2>3, <2>8 DEF GInv
<1> QED BY <1>3, <1>4

LEMMA NextGets == GInv /\ [Next]_vars => GInv'
<1> SUFFICES ASSUME GInv, [Next]_vars PROVE GInv'
  OBVIOUS
<1>0. KInv'
  BY NextKeeps DEF GInv
<1>1. CASE Serialize \/ Deliver \/ Pad \/ Stopped \/ UNCHANGED vars
  BY <1>0, <1>1, CallerGets DEF Stopped
<1>2. CASE Deserialize
  BY <1>0, <1>2, DeserializeGets
<1>3. CASE Return
  BY <1>0, <1>3, ReturnGets
<1>4. CASE WriteTag \/ WriteScalar \/ WriteArray \/ WriteElement \/ WriteImage
  <2>1. phase # "reading" /\ stack # << >> /\ UNCHANGED callerVars
    BY <1>4 DEF WriteTag, WriteScalar, WriteArray, WriteElement, WriteImage, AtField, AtElement, AtStep,
                Writing
  <2> QED BY <1>0, <2>1, BodyGets
<1>5. CASE ReadTag \/ ReadScalar \/ ReadArray \/ ReadElement \/ ReadImage
  <2>1. ones' = ones /\ stack # << >> /\ UNCHANGED callerVars
    BY <1>5 DEF ReadTag, ReadScalar, ReadArray, ReadElement, ReadImage, AtField, AtElement, AtStep
  <2> QED BY <1>0, <1>5, <2>1, BodyGets, ReadTagGets, ReadScalarGets, ReadArrayGets, ReadElementGets,
             ReadImageGets
<1>6. CASE Padding
  <2>1. phase = "reading" => ones' = ones
    BY <1>6, Zenon DEF Padding, ZeroBits, Writing
  <2> QED BY <1>0, <1>6, <2>1, PaddingGets, BodyGets DEF Padding, AtField, AtStep
<1>7. CASE Align
  <2>1. phase = "reading" => ones' = ones
    BY <1>7, Zenon DEF Align, ZeroBits, Writing
  <2> QED BY <1>0, <1>7, <2>1, AlignGets, BodyGets DEF Align, AtStep
<1>8. CASE EndArray \/ Skip
  <2>1. ones' = ones /\ stack # << >> /\ UNCHANGED callerVars
    BY <1>8 DEF EndArray, Skip, AtStep
  <2> QED BY <1>0, <1>8, <2>1, EndArrayGets, SkipGets, BodyGets
<1>9. CASE EnterSealed \/ EnterDelimited
  <2>1. ones' = ones /\ stack # << >> /\ UNCHANGED callerVars
    BY <1>9 DEF EnterSealed, EnterDelimited, AtNested, AtField, AtStep
  <2> QED BY <1>0, <1>9, <2>1, EnterSealedGets, EnterDelimitedGets, BodyGets
<1>10. CASE LeaveSealed
  <2>1. ones' = ones /\ stack # << >> /\ UNCHANGED callerVars
    BY <1>10, HeldNothing DEF LeaveSealed, AtReturn
  <2> QED BY <1>0, <1>10, <2>1, LeaveSealedGets, BodyGets
<1>11. CASE LeaveDelimited
  <2>1. stack # << >> /\ UNCHANGED callerVars
    BY <1>11, HeldNothing DEF LeaveDelimited, AtReturn
  <2>2. phase = "reading" => ones' = ones
    BY <1>11, Zenon DEF LeaveDelimited, Writing
  <2> QED BY <1>0, <1>11, <2>1, <2>2, LeaveDelimitedGets, BodyGets
<1> QED
  BY <1>1, <1>2, <1>3, <1>4, <1>5, <1>6, <1>7, <1>8, <1>9, <1>10, <1>11 DEF Next, Body

(* Where a definition has one layout, a getter answers what deserialising  *)
(* puts in the field: for all definitions, messages and lengths of them,   *)
(* the offsets that buildFieldAccessors works out are those the steps of   *)
(* the body reach, whether field by field, element by element, in a run of *)
(* bools or as an image of the whole object, past the end of a short       *)
(* buffer too.                                                             *)
THEOREM GettersCorrect == Spec => []GettersAgree
<1>1. GInv => GettersAgree
  BY DEF GInv
<1> QED BY InitGets, NextGets, <1>1, PTL DEF Spec

=============================================================================
