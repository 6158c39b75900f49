-------------------------- MODULE PlanCourseProofs --------------------------
(***************************************************************************)
(* Proofs about what the bodies of PlanBodies do, for any definitions,     *)
(* objects and buffers.  They end at a length the analyser gave the        *)
(* definition, and within the buffer the first capacity check let in; what *)
(* they write stays inside it; and an object is written exactly when it    *)
(* fits its definition and the buffer holds the longest one.               *)
(*                                                                         *)
(* The steps that are left of a body lead from an offset to the lengths    *)
(* its definition has, if each takes what the analyser counted for it      *)
(* (Leads).  LInv says that every body that writes is on such a course.    *)
(*                                                                         *)
(* A body has part of its object behind it and part of it ahead: the       *)
(* object fits just when no check has failed behind and all of what is     *)
(* ahead passes (Judged).  VInv says so of every body on the stack, and    *)
(* that each body's object is the element its container is at.             *)
(***************************************************************************)
EXTENDS PlanBodiesProofs

-----------------------------------------------------------------------------
(* Where the steps of a body lead.                                         *)

(* The lengths of each field of a definition.                              *)
LengthsOf(i) ==
    [k \in DOMAIN Fields[i] |-> FieldLengths(Fields[i][k], ScalarLengths(Fields[i][k], OffsetAtEnd))]

(* What a step of the definition "i" that is no alignment takes of the     *)
(* wire, by the analyser, ...                                              *)
Takes(i, s) ==
    IF s.kind = "field" THEN LengthsOf(i)[s.field]
    ELSE IF s.kind = "tag"
    THEN SumOf({UnionTagBits(Types[i])}, UNION {LengthsOf(i)[k] : k \in DOMAIN Fields[i]})
    ELSE IF s.kind = "move" THEN {MaxBits[i]} ELSE {}

(* ... the offsets it ends at, from those in "S" ...                       *)
Beyond(i, s, S) == IF s.kind = "align" THEN PaddedTo(S, ByteBits) ELSE SumOf(S, Takes(i, s))

(* ... and those that all the steps end at: they are in "E", and none on   *)
(* the way there is past the longest object.                               *)
IsCourse(i, todo, E, C) ==
    /\ C \in [0 .. Len(todo) -> SUBSET (0 .. MaxBits[i])]
    /\ \A n \in 1 .. Len(todo) : Beyond(i, todo[n], C[n - 1]) \subseteq C[n]
    /\ C[Len(todo)] \subseteq E

Leads(i, todo, S, E) == \E C : IsCourse(i, todo, E, C) /\ S \subseteq C[0]

LEMMA MoreBeyond ==
  ASSUME NEW i, NEW s, NEW S, NEW T, S \subseteq T
  PROVE  Beyond(i, s, S) \subseteq Beyond(i, s, T)
BY DEF Beyond, PaddedTo, SumOf

LEMMA LeadsFewer ==
  ASSUME NEW i, NEW todo, NEW S, NEW T, NEW E, Leads(i, todo, T, E), S \subseteq T
  PROVE  Leads(i, todo, S, E)
BY DEF Leads

LEMMA LeadsInto ==
  ASSUME NEW i, NEW todo, NEW S, NEW E, NEW F, Leads(i, todo, S, E), E \subseteq F
  PROVE  Leads(i, todo, S, F)
BY DEF Leads, IsCourse

LEMMA LeadsFar ==
  ASSUME NEW i, NEW todo, Len(todo) \in Nat, NEW S, NEW E, Leads(i, todo, S, E)
  PROVE  S \subseteq 0 .. MaxBits[i]
BY DEF Leads, IsCourse

LEMMA LeadsNowhere ==
  ASSUME NEW i, NEW todo, Len(todo) = 0, NEW S, NEW E
  PROVE  /\ Leads(i, todo, S, E) => S \subseteq E
         /\ S \subseteq E /\ S \subseteq 0 .. MaxBits[i] => Leads(i, todo, S, E)
<1>1. Leads(i, todo, S, E) => S \subseteq E
  BY DEF Leads, IsCourse
<1>2. ASSUME S \subseteq E, S \subseteq 0 .. MaxBits[i] PROVE Leads(i, todo, S, E)
  <2> DEFINE C == [n \in 0 .. 0 |-> S]
  <2>1. C \in [0 .. Len(todo) -> SUBSET (0 .. MaxBits[i])] /\ C[0] = S
    BY <1>2
  <2> HIDE DEF C
  <2>2. IsCourse(i, todo, E, C)
    BY <1>2, <2>1 DEF IsCourse
  <2> QED BY <2>1, <2>2 DEF Leads
<1> QED BY <1>1, <1>2

(* The same steps, told by another sequence.                               *)
LEMMA LeadsAlike ==
  ASSUME NEW i, NEW todo, NEW r, Len(r) = Len(todo),
         \A n \in 1 .. Len(todo) : r[n].kind = todo[n].kind /\ r[n].field = todo[n].field,
         NEW S, NEW E, Leads(i, todo, S, E)
  PROVE  Leads(i, r, S, E)
<1>1. PICK C : IsCourse(i, todo, E, C) /\ S \subseteq C[0]
  BY DEF Leads
<1>2. ASSUME NEW n \in 1 .. Len(todo)
      PROVE  Beyond(i, r[n], C[n - 1]) = Beyond(i, todo[n], C[n - 1])
  BY Zenon DEF Beyond, Takes
<1>3. IsCourse(i, r, E, C)
  BY <1>1, <1>2 DEF IsCourse
<1> QED BY <1>1, <1>3 DEF Leads

(* One step less, ...                                                      *)
LEMMA LeadsPast ==
  ASSUME NEW i, NEW todo, Len(todo) \in Nat, Len(todo) > 0,
         NEW r, Len(r) = Len(todo) - 1, \A n \in 1 .. Len(r) : r[n] = todo[n + 1],
         NEW S, NEW E, Leads(i, todo, S, E)
  PROVE  Leads(i, r, Beyond(i, todo[1], S), E)
<1>1. PICK C : IsCourse(i, todo, E, C) /\ S \subseteq C[0]
  BY DEF Leads
<1> DEFINE D == [n \in 0 .. Len(r) |-> C[n + 1]]
<1>2. \A n \in 0 .. Len(r) : n + 1 \in 0 .. Len(todo)
  OBVIOUS
<1>3. D \in [0 .. Len(r) -> SUBSET (0 .. MaxBits[i])]
  BY <1>1, <1>2 DEF IsCourse
<1>4. \A n \in 0 .. Len(r) : D[n] = C[n + 1]
  OBVIOUS
<1> HIDE DEF D
<1>5. ASSUME NEW n \in 1 .. Len(r) PROVE Beyond(i, r[n], D[n - 1]) \subseteq D[n]
  <2>1. n + 1 \in 1 .. Len(todo) /\ (n + 1) - 1 = n /\ n - 1 \in 0 .. Len(r) /\ (n - 1) + 1 = n /\ n \in 0 .. Len(r)
    OBVIOUS
  <2>2. Beyond(i, todo[n + 1], C[n]) \subseteq C[n + 1]
    BY <1>1, <2>1 DEF IsCourse
  <2> QED BY <1>4, <2>1, <2>2
<1>6. D[Len(r)] \subseteq E
  <2>1. Len(r) \in 0 .. Len(r) /\ Len(r) + 1 = Len(todo)
    OBVIOUS
  <2> QED BY <1>1, <1>4, <2>1 DEF IsCourse
<1>7. Beyond(i, todo[1], S) \subseteq D[0]
  <2>1. 1 \in 1 .. Len(todo) /\ 1 - 1 = 0 /\ 0 \in 0 .. Len(r) /\ 0 + 1 = 1
    OBVIOUS
  <2>2. Beyond(i, todo[1], C[0]) \subseteq C[1]
    BY <1>1, <2>1 DEF IsCourse
  <2>3. Beyond(i, todo[1], S) \subseteq Beyond(i, todo[1], C[0])
    BY <1>1, MoreBeyond
  <2> QED BY <1>4, <2>1, <2>2, <2>3
<1>8. IsCourse(i, r, E, D)
  BY <1>3, <1>5, <1>6 DEF IsCourse
<1> QED BY <1>7, <1>8 DEF Leads

(* ... and some steps more.                                                *)
LEMMA LeadsThen ==
  ASSUME NEW i, NEW a, Len(a) \in Nat, NEW b, Len(b) \in Nat, NEW r, Len(r) = Len(a) + Len(b),
         \A n \in 1 .. Len(a) : r[n] = a[n], \A n \in 1 .. Len(b) : r[Len(a) + n] = b[n],
         NEW S, NEW M, NEW E, Leads(i, a, S, M), Leads(i, b, M, E)
  PROVE  Leads(i, r, S, E)
<1>1. PICK A : IsCourse(i, a, M, A) /\ S \subseteq A[0]
  BY DEF Leads
<1>2. PICK B : IsCourse(i, b, E, B) /\ M \subseteq B[0]
  BY DEF Leads
<1> DEFINE m == Len(a)
           D == [n \in 0 .. Len(r) |-> IF n < m THEN A[n] ELSE B[n - m]]
<1>3. ASSUME NEW n \in 0 .. Len(r)
      PROVE  /\ n < m => n \in 0 .. Len(a)
             /\ ~ (n < m) => n - m \in 0 .. Len(b)
  OBVIOUS
<1>4. D \in [0 .. Len(r) -> SUBSET (0 .. MaxBits[i])]
  <2>1. \A n \in 0 .. Len(r) : D[n] \in SUBSET (0 .. MaxBits[i])
    BY <1>1, <1>2, <1>3 DEF IsCourse
  <2> QED BY <2>1
<1>5. \A n \in 0 .. Len(r) : D[n] = IF n < m THEN A[n] ELSE B[n - m]
  OBVIOUS
<1> HIDE DEF D
<1>6. A[m] \subseteq B[0]
  BY <1>1, <1>2 DEF IsCourse
<1>7. \A n \in 0 .. m : A[n] \subseteq D[n]
  <2> TAKE n \in 0 .. m
  <2>1. n \in 0 .. Len(r) /\ (~ (n < m) => n = m /\ n - m = 0)
    OBVIOUS
  <2> QED BY <1>5, <1>6, <2>1
<1>8. ASSUME NEW n \in 1 .. Len(r) PROVE Beyond(i, r[n], D[n - 1]) \subseteq D[n]
  <2>1. n - 1 \in 0 .. Len(r) /\ n \in 0 .. Len(r)
    OBVIOUS
  <2>2. CASE n <= m
    <3>1. n \in 1 .. Len(a) /\ n - 1 < m /\ n \in 0 .. m
      BY <2>2
    <3>2. D[n - 1] = A[n - 1] /\ r[n] = a[n]
      BY <1>5, <2>1, <3>1
    <3>3. Beyond(i, a[n], A[n - 1]) \subseteq A[n]
      BY <1>1, <3>1 DEF IsCourse
    <3> QED BY <1>7, <3>1, <3>2, <3>3
  <2>3. CASE ~ (n <= m)
    <3>1. n - m \in 1 .. Len(b) /\ m + (n - m) = n /\ ~ (n - 1 < m) /\ ~ (n < m) /\ (n - 1) - m = (n - m) - 1
      BY <2>3
    <3>2. D[n - 1] = B[(n - m) - 1] /\ D[n] = B[n - m] /\ r[n] = b[n - m]
      BY <1>5, <2>1, <3>1
    <3>3. Beyond(i, b[n - m], B[(n - m) - 1]) \subseteq B[n - m]
      BY <1>2, <3>1 DEF IsCourse
    <3> QED BY <3>2, <3>3
  <2> QED BY <2>2, <2>3
<1>9. D[Len(r)] \subseteq E
  <2>1. Len(r) \in 0 .. Len(r) /\ ~ (Len(r) < m) /\ Len(r) - m = Len(b)
    OBVIOUS
  <2> QED BY <1>2, <1>5, <2>1 DEF IsCourse
<1>10. S \subseteq D[0]
  BY <1>1, <1>7
<1>11. IsCourse(i, r, E, D)
  BY <1>4, <1>8, <1>9 DEF IsCourse
<1> QED BY <1>10, <1>11 DEF Leads

LEMMA JoinsLead ==
  ASSUME NEW i, NEW r, NEW a, NEW b, Joins(r, a, b),
         NEW S, NEW M, NEW E, Leads(i, a, S, M), Leads(i, b, M, E)
  PROVE  Leads(i, r, S, E)
BY LeadsThen DEF Joins

(* A single step.                                                          *)
LEMMA LeadsOne ==
  ASSUME NEW i, NEW r, Len(r) = 1, NEW S, NEW E, S \subseteq 0 .. MaxBits[i],
         Beyond(i, r[1], S) \subseteq E, Beyond(i, r[1], S) \subseteq 0 .. MaxBits[i]
  PROVE  Leads(i, r, S, E)
<1>0. PICK T : T = Beyond(i, r[1], S)
  OBVIOUS
<1> DEFINE D == [n \in 0 .. 1 |-> IF n = 0 THEN S ELSE T]
<1>b. PICK V : V = SUBSET (0 .. MaxBits[i])
  OBVIOUS
<1>a. S \in V /\ T \in V
  BY <1>0, <1>b
<1>c. D \in [0 .. 1 -> V] /\ D[0] = S /\ D[1] = T
  BY <1>a
<1>1. D \in [0 .. Len(r) -> SUBSET (0 .. MaxBits[i])] /\ D[0] = S /\ D[1] = T
  BY <1>b, <1>c
<1> HIDE DEF D
<1>2. \A n \in 1 .. Len(r) : n = 1 /\ n - 1 = 0
  OBVIOUS
<1>3. IsCourse(i, r, E, D)
  BY <1>0, <1>1, <1>2 DEF IsCourse
<1> QED BY <1>1, <1>3 DEF Leads

-----------------------------------------------------------------------------
(* The lengths the steps take.                                             *)

LEMMA LengthsOfIs ==
  ASSUME NEW i \in TypeIds
  PROVE  /\ \A k \in DOMAIN Fields[i] :
              /\ IsLengths(ScalarLengths(Fields[i][k], OffsetAtEnd))
              /\ IsLengths(LengthsOf(i)[k])
              /\ LengthsOf(i)[k] = FieldLengths(Fields[i][k], ScalarLengths(Fields[i][k], OffsetAtEnd))
         /\ OffsetAtEnd[i] = SectionLengths(Types[i], LengthsOf(i))
<1>1. ASSUME NEW k \in DOMAIN Fields[i]
      PROVE  /\ IsLengths(ScalarLengths(Fields[i][k], OffsetAtEnd))
             /\ IsLengths(FieldLengths(Fields[i][k], ScalarLengths(Fields[i][k], OffsetAtEnd)))
  <2>1. IsComposite(Fields[i][k]) => IsLengths(OffsetAtEnd[Fields[i][k].ref])
    BY FieldsAre, OffsetAtEndIsLengths, AllAccepted
  <2>2. IsLengths(ScalarLengths(Fields[i][k], OffsetAtEnd))
    BY <2>1, ScalarIsLengths
  <2> QED BY <2>2, FieldIsLengths
<1>2. \A k \in DOMAIN Fields[i] :
        LengthsOf(i)[k] = FieldLengths(Fields[i][k], ScalarLengths(Fields[i][k], OffsetAtEnd))
  BY Zenon DEF LengthsOf
<1>3. OffsetAtEnd[i] = SectionLengths(Types[i], LengthsOf(i))
  BY LengthsUnfold, Zenon DEF LengthsOf
<1> QED BY <1>1, <1>2, <1>3

LEMMA EndsAre ==
  ASSUME NEW i \in TypeIds
  PROVE  /\ MaxBits[i] \in Nat /\ MaxBits[i] \in OffsetAtEnd[i]
         /\ OffsetAtEnd[i] \subseteq Nat /\ OffsetAtEnd[i] \subseteq 0 .. MaxBits[i]
         /\ \A n \in OffsetAtEnd[i] : n % ByteBits = 0
<1>1. /\ MaxBits[i] \in OffsetAtEnd[i] /\ OffsetAtEnd[i] \subseteq Nat
      /\ \A n \in OffsetAtEnd[i] : n <= MaxBits[i] /\ n % ByteBits = 0
  BY LengthsAreWholeBytes, AllAccepted
<1> QED BY <1>1

(* A width of no bits at all, and of one element more.                     *)
LEMMA RepeatedNone ==
  ASSUME NEW S, S \subseteq Nat
  PROVE  Repeated(S, 0) = {0}
<1>1. PICK times : TimesUpTo(S, 0, times) /\ Repeated(S, 0) = times[0]
  BY RepeatedIs
<1>2. times[0] = {0}
  <2>1. 0 \in 0 .. 0
    OBVIOUS
  <2> QED BY <1>1, <2>1, Zenon DEF TimesUpTo
<1> QED BY <1>1, <1>2

LEMMA RepeatedMore ==
  ASSUME NEW S, S \subseteq Nat, NEW n \in Nat
  PROVE  Repeated(S, n + 1) = SumOf(Repeated(S, n), S)
<1>0. n + 1 \in Nat
  OBVIOUS
<1>1. PICK f : TimesUpTo(S, n + 1, f) /\ Repeated(S, n + 1) = f[n + 1]
  BY <1>0, RepeatedIs
<1>2. PICK g : TimesUpTo(S, n, g) /\ Repeated(S, n) = g[n]
  BY RepeatedIs
<1>3. \A k \in 0 .. (n + 1) : f[k] = IF k = 0 THEN {0} ELSE SumOf(f[k - 1], S)
  BY <1>1, Zenon DEF TimesUpTo
<1>4. \A k \in 0 .. n : g[k] = IF k = 0 THEN {0} ELSE SumOf(g[k - 1], S)
  BY <1>2, Zenon DEF TimesUpTo
<1> DEFINE N == {k \in Nat : k <= n => f[k] = g[k]}
<1>5. 0 \in N
  <2>1. 0 \in 0 .. (n + 1) /\ 0 \in 0 .. n
    OBVIOUS
  <2> QED BY <1>3, <1>4, <2>1
<1>6. ASSUME NEW k \in Nat, k \in N PROVE k + 1 \in N
  <2> SUFFICES ASSUME k + 1 <= n PROVE f[k + 1] = g[k + 1]
    OBVIOUS
  <2>1. k + 1 \in 0 .. (n + 1) /\ k + 1 \in 0 .. n /\ k + 1 # 0 /\ (k + 1) - 1 = k /\ f[k] = g[k]
    BY <1>6
  <2> QED BY <1>3, <1>4, <2>1
<1> HIDE DEF N
<1>7. n \in N
  BY <1>5, <1>6, Induction
<1>8. f[n] = g[n]
  BY <1>7 DEF N
<1>9. n + 1 \in 0 .. (n + 1) /\ n + 1 # 0 /\ (n + 1) - 1 = n
  OBVIOUS
<1>10. f[n + 1] = SumOf(f[n], S)
  BY <1>3, <1>9
<1> QED BY <1>1, <1>2, <1>8, <1>10

(* As many bits as there are bools.                                        *)
LEMMA RepeatedBits ==
  ASSUME NEW n \in Nat
  PROVE  n \in Repeated({1}, n)
<1> DEFINE N == {k \in Nat : k \in Repeated({1}, k)}
<1>1. 0 \in N
  BY RepeatedNone
<1>2. ASSUME NEW k \in Nat, k \in N PROVE k + 1 \in N
  <2>1. Repeated({1}, k + 1) = SumOf(Repeated({1}, k), {1})
    BY RepeatedMore
  <2> QED BY <1>2, <2>1 DEF SumOf
<1> HIDE DEF N
<1>3. n \in N
  BY <1>1, <1>2, Induction
<1> QED BY <1>3 DEF N

(* Elements some of which are behind.                                      *)
LEMMA RepeatedLessOne ==
  ASSUME NEW S, IsLengths(S), NEW n \in Nat, n > 0, NEW off \in Nat, NEW one \in S
  PROVE  SumOf({off + one}, Repeated(S, n - 1)) \subseteq SumOf({off}, Repeated(S, n))
<1>1. S \subseteq Nat /\ n - 1 \in Nat /\ (n - 1) + 1 = n
  BY DEF IsLengths
<1>2. Repeated(S, n) = SumOf(Repeated(S, n - 1), S)
  <2>1. Repeated(S, (n - 1) + 1) = SumOf(Repeated(S, n - 1), S)
    BY <1>1, RepeatedMore
  <2> QED BY <1>1, <2>1
<1>3. Repeated(S, n - 1) \subseteq Nat
  BY <1>1, RepeatedIsLengths DEF IsLengths
<1>4. ASSUME NEW r \in Repeated(S, n - 1)
      PROVE  /\ (off + one) + r = off + (r + one)
             /\ r + one \in Repeated(S, n)
  BY <1>1, <1>2, <1>3 DEF SumOf
<1> QED BY <1>4 DEF SumOf

LEMMA SumBounds ==
  ASSUME NEW S, NEW T, NEW b \in Nat, S \subseteq Nat, IsLengths(T), SumOf(S, T) \subseteq 0 .. b
  PROVE  S \subseteq 0 .. b
<1>1. PICK t \in T : t \in Nat
  BY DEF IsLengths
<1>2. ASSUME NEW s \in S PROVE s \in 0 .. b
  <2>1. s + t \in 0 .. b
    BY <1>1 DEF SumOf
  <2> QED BY <1>1, <2>1
<1> QED BY <1>2

LEMMA PaddedBounds ==
  ASSUME NEW S, NEW a \in {1, ByteBits}, NEW b \in Nat, S \subseteq Nat, PaddedTo(S, a) \subseteq 0 .. b
  PROVE  S \subseteq 0 .. b
<1>1. ASSUME NEW s \in S PROVE s \in 0 .. b
  <2>1. PadTo(s, a) \in 0 .. b
    BY DEF PaddedTo
  <2>2. s <= PadTo(s, a) /\ PadTo(s, a) \in Nat
    BY PadToIs
  <2> QED BY <2>1, <2>2
<1> QED BY <1>1

LEMMA PaddedToBits ==
  ASSUME NEW S, S \subseteq Nat
  PROVE  PaddedTo(S, 1) = S
<1>1. \A s \in S : PadTo(s, 1) = s
  BY DEF PadTo
<1> QED BY <1>1 DEF PaddedTo

LEMMA PadToWhole ==
  ASSUME NEW n \in Nat, n % ByteBits = 0
  PROVE  PadTo(n, ByteBits) = n
BY DEF PadTo, ByteBits

-----------------------------------------------------------------------------
(* The steps of a field lead where the analyser says it ends.              *)

FieldEnds(i, k, S) == SumOf(PaddedTo(S, AlignmentOf(Fields[i][k])), LengthsOf(i)[k])

LEMMA FieldStepsLead ==
  ASSUME NEW i \in TypeIds, NEW k \in DOMAIN Fields[i], NEW S, S \subseteq Nat,
         FieldEnds(i, k, S) \subseteq 0 .. MaxBits[i]
  PROVE  Leads(i, FieldSteps(Fields[i][k], k), S, FieldEnds(i, k, S))
<1> DEFINE f == Fields[i][k]
           first == IF AlignmentOf(f) > 1 THEN <<AlignStep>> ELSE << >>
           then == IF f.cat = "void" /\ f.bits = 0 THEN << >> ELSE <<FieldStep(k)>>
           P == PaddedTo(S, AlignmentOf(f))
           E == FieldEnds(i, k, S)
           most == MaxBits[i]
<1>1. AlignmentOf(f) \in {1, ByteBits} /\ most \in Nat /\ IsLengths(LengthsOf(i)[k])
  BY EndsAre, LengthsOfIs DEF AlignmentOf
<1>2. P \subseteq Nat /\ E = SumOf(P, LengthsOf(i)[k])
  BY <1>1, PadToIs DEF PaddedTo, FieldEnds
<1>3. P \subseteq 0 .. most
  <2> HIDE DEF P, E
  <2> QED BY <1>1, <1>2, SumBounds DEF E
<1>4. S \subseteq 0 .. most
  <2> HIDE DEF most
  <2> QED BY <1>1, <1>3, PaddedBounds
<1>5. Leads(i, first, S, P) /\ Len(first) \in Nat
  <2>1. CASE AlignmentOf(f) > 1
    <3>1. AlignmentOf(f) = ByteBits
      BY <1>1, <2>1
    <3>2. first = <<AlignStep>> /\ Len(first) = 1 /\ first[1] = AlignStep
      BY <2>1
    <3>3. Beyond(i, first[1], S) = P
      BY <3>1, <3>2 DEF Beyond, AlignStep
    <3> HIDE DEF first, P, most
    <3> QED BY <1>3, <1>4, <3>2, <3>3, LeadsOne DEF most
  <2>2. CASE ~ (AlignmentOf(f) > 1)
    <3>1. AlignmentOf(f) = 1
      BY <1>1, <2>2 DEF ByteBits
    <3>2. first = << >> /\ Len(first) = 0
      BY <2>2
    <3>3. S = P
      BY <3>1, PaddedToBits
    <3> HIDE DEF first, P
    <3> QED BY <1>4, <3>2, <3>3, LeadsNowhere
  <2> QED BY <2>1, <2>2
<1>6. Leads(i, then, P, E) /\ Len(then) \in Nat
  <2>1. CASE f.cat = "void" /\ f.bits = 0
    <3>1. ~IsComposite(f) /\ f.array = "none"
      <4>1. IsFieldOf(f) /\ ~IsComposite(f)
        BY <2>1 DEF IsFieldOf, IsComposite
      <4>2. ~IsArray(f)
        BY <2>1, <4>1, FieldOf
      <4> QED BY <4>1, <4>2 DEF IsArray
    <3>2. LengthsOf(i)[k] = {0}
      BY <2>1, <3>1, LengthsOfIs DEF FieldLengths, ScalarLengths
    <3>3. E = P
      BY <1>2, <3>2 DEF SumOf
    <3>4. then = << >> /\ Len(then) = 0
      BY <2>1
    <3> HIDE DEF then, P, E
    <3> QED BY <1>3, <3>3, <3>4, LeadsNowhere
  <2>2. CASE ~ (f.cat = "void" /\ f.bits = 0)
    <3>1. then = <<FieldStep(k)>> /\ Len(then) = 1 /\ then[1] = FieldStep(k)
      BY <2>2
    <3>2. Beyond(i, then[1], P) = E
      BY <1>2, <3>1 DEF Beyond, Takes, FieldStep
    <3> HIDE DEF then, P
    <3> QED BY <1>3, <3>1, <3>2, LeadsOne
  <2> QED BY <2>1, <2>2
<1> DEFINE r == first \o then
<1>7. FieldSteps(f, k) = r
  BY Zenon DEF FieldSteps
<1>8. first \in Seq(Held(first)) /\ then \in Seq(Held(then))
  <2>1. /\ first = <<AlignStep>> \/ first = << >>
        /\ then = <<FieldStep(k)>> \/ then = << >>
    OBVIOUS
  <2> HIDE DEF first, then
  <2> QED BY <2>1, HeldOne, HeldNothing
<1> HIDE DEF first, then, P, E, f
<1>9. /\ Len(r) = Len(first) + Len(then)
      /\ \A n \in 1 .. Len(first) : r[n] = first[n]
      /\ \A n \in 1 .. Len(then) : r[Len(first) + n] = then[n]
  BY <1>8, HeldConcat
<1> HIDE DEF r
<1>10. Leads(i, r, S, E)
  BY <1>5, <1>6, <1>9, LeadsThen
<1> QED BY <1>7, <1>10 DEF f, E

(* Before a composite comes an alignment.                                  *)
AlignsFirst(i, steps) ==
    \A n \in 1 .. Len(steps) :
      steps[n].kind = "field" /\ IsComposite(Fields[i][steps[n].field])
        => n > 1 /\ steps[n - 1].kind = "align"

LEMMA AlignsThen ==
  ASSUME NEW i, NEW a, Len(a) \in Nat, NEW b, Len(b) \in Nat, NEW r, Len(r) = Len(a) + Len(b),
         \A n \in 1 .. Len(a) : r[n] = a[n], \A n \in 1 .. Len(b) : r[Len(a) + n] = b[n],
         AlignsFirst(i, a), AlignsFirst(i, b)
  PROVE  AlignsFirst(i, r)
<1> SUFFICES ASSUME NEW n \in 1 .. Len(r), r[n].kind = "field", IsComposite(Fields[i][r[n].field])
             PROVE  n > 1 /\ r[n - 1].kind = "align"
  BY DEF AlignsFirst
<1>1. CASE n \in 1 .. Len(a)
  <2>1. n > 1 /\ a[n - 1].kind = "align"
    BY <1>1 DEF AlignsFirst
  <2>2. n - 1 \in 1 .. Len(a)
    BY <1>1, <2>1
  <2> QED BY <2>1, <2>2
<1>2. CASE ~ (n \in 1 .. Len(a))
  <2>1. PICK m : m = n - Len(a)
    OBVIOUS
  <2>2. m \in 1 .. Len(b) /\ n = Len(a) + m
    BY <1>2, <2>1
  <2>3. r[n] = b[m]
    BY <2>2
  <2>4. m > 1 /\ b[m - 1].kind = "align"
    BY <2>2, <2>3 DEF AlignsFirst
  <2>5. m - 1 \in 1 .. Len(b) /\ Len(a) + (m - 1) = n - 1 /\ n > 1
    BY <2>2, <2>4
  <2>6. r[n - 1] = b[m - 1]
    BY <2>5
  <2> QED BY <2>4, <2>5, <2>6
<1> QED BY <1>1, <1>2

LEMMA FieldAlignsFirst ==
  ASSUME NEW i \in TypeIds, NEW k \in DOMAIN Fields[i]
  PROVE  AlignsFirst(i, FieldSteps(Fields[i][k], k))
<1> DEFINE f == Fields[i][k]
           first == IF AlignmentOf(f) > 1 THEN <<AlignStep>> ELSE << >>
           then == IF f.cat = "void" /\ f.bits = 0 THEN << >> ELSE <<FieldStep(k)>>
           r == first \o then
<1>1. FieldSteps(f, k) = r
  BY Zenon DEF FieldSteps
<1>2. CASE IsComposite(f)
  <2>1. first = <<AlignStep>> /\ then = <<FieldStep(k)>>
    BY <1>2 DEF AlignmentOf, ByteBits, IsComposite
  <2> HIDE DEF first, then
  <2>a. /\ first \in Seq(Held(first)) /\ Len(first) = 1 /\ first[1] = AlignStep
        /\ then \in Seq(Held(then)) /\ Len(then) = 1
    BY <2>1, HeldOne
  <2>2. Len(r) = 2 /\ r[1] = AlignStep
    <3>1. Len(r) = Len(first) + Len(then)
      BY <2>a, HeldConcat
    <3>2. \A n \in 1 .. Len(first) : r[n] = first[n]
      BY <2>a, HeldConcat
    <3> HIDE DEF r
    <3> QED BY <2>a, <3>1, <3>2
  <2> HIDE DEF r
  <2>3. r[1].kind = "align"
    BY <2>2 DEF AlignStep
  <2>4. \A n \in 1 .. Len(r) : n = 1 \/ n = 2
    BY <2>2
  <2>5. \A n \in 1 .. Len(r) : r[n].kind = "field" => n > 1 /\ n - 1 = 1
    BY <2>3, <2>4
  <2>6. AlignsFirst(i, r)
    BY <2>3, <2>5 DEF AlignsFirst
  <2> QED BY <1>1, <2>6
<1>3. CASE ~IsComposite(f)
  <2>1. \A n \in 1 .. Len(r) : r[n].kind = "field" => r[n].field = k
    BY <1>1, FieldStepsAre
  <2> HIDE DEF r, first, then
  <2>2. AlignsFirst(i, r)
    BY <1>3, <2>1 DEF AlignsFirst
  <2> QED BY <1>1, <2>2
<1> QED BY <1>2, <1>3

(* The steps of a structure lead where it ends.                            *)
LEMMA StepsLead ==
  ASSUME NEW i \in TypeIds, ~IsUnion[i]
  PROVE  \E E : /\ OffsetAtEnd[i] = PaddedTo(E, ByteBits) /\ E \subseteq Nat
                /\ Leads(i, Steps[i], {0}, E) /\ AlignsFirst(i, Steps[i])
<1> DEFINE n == Len(Fields[i])
           lengths == LengthsOf(i)
<1>1. /\ Types[i].fields = Fields[i] /\ n \in Nat /\ DOMAIN Fields[i] = 1 .. n /\ ~Types[i].union
      /\ Len(Types[i].fields) = n
  BY Definitions
<1>2. \A k \in 1 .. n : IsLengths(lengths[k])
  BY <1>1, LengthsOfIs
<1>3. PICK after : /\ AfterUpTo(Types[i].fields, lengths, n, after)
                   /\ SectionLengths(Types[i], lengths)
                        = PaddedTo(ContentLengths(Types[i], lengths, after), ByteBits)
  BY <1>1, <1>2, SectionIs
<1> DEFINE E == after[n]
<1>4. OffsetAtEnd[i] = PaddedTo(E, ByteBits)
  <2>1. ContentLengths(Types[i], lengths, after) = E
    BY <1>1, Zenon DEF ContentLengths
  <2> QED BY <1>3, <2>1, LengthsOfIs
<1>5. \A k \in 0 .. n : IsLengths(after[k])
  BY <1>1, <1>2, <1>3, AfterIsLengths
<1>6. after[0] = {0} /\ \A k \in 1 .. n : after[k] = FieldEnds(i, k, after[k - 1])
  <2>1. \A k \in 0 .. n : after[k] =
          IF k = 0 THEN {0} ELSE SumOf(PaddedTo(after[k - 1], AlignmentOf(Fields[i][k])), lengths[k])
    BY <1>1, <1>3, Zenon DEF AfterUpTo
  <2>2. 0 \in 0 .. n /\ \A k \in 1 .. n : k \in 0 .. n /\ k # 0
    BY <1>1
  <2> QED BY <2>1, <2>2 DEF FieldEnds
<1>7. E \subseteq Nat /\ E \subseteq 0 .. MaxBits[i]
  <2>1. n \in 0 .. n
    BY <1>1
  <2>2. E \subseteq Nat
    BY <1>5, <2>1 DEF IsLengths
  <2> HIDE DEF E
  <2>3. PaddedTo(E, ByteBits) \subseteq 0 .. MaxBits[i] /\ MaxBits[i] \in Nat
    BY <1>4, EndsAre
  <2> QED BY <2>2, <2>3, PaddedBounds
<1>8. PICK from : FromUpTo(Fields[i], from) /\ Steps[i] = from[1]
  <2> DEFINE g == CHOOSE f : FromUpTo(Fields[i], f)
  <2>1. PICK f : FromUpTo(Fields[i], f) /\ f[1] \in Seq(PlanSteps(i))
    BY FromExists
  <2>2. FromUpTo(Fields[i], g)
    BY <2>1
  <2>3. Steps[i] = StepsOf(Types[i])
    BY DEF Steps
  <2>4. Steps[i] = g[1]
    BY <1>1, <2>3, Zenon DEF StepsOf, FromUpTo
  <2> QED BY <2>2, <2>4
<1>9. \A k \in 1 .. (n + 1) : from[k] = IF k > n THEN << >> ELSE FieldSteps(Fields[i][k], k) \o from[k + 1]
  BY <1>8, Zenon DEF FromUpTo
<1> HIDE DEF n, E, lengths
<1> DEFINE Good(k) == /\ from[k + 1] \in Seq(PlanSteps(i)) /\ after[k] \subseteq 0 .. MaxBits[i]
                      /\ Leads(i, from[k + 1], after[k], E) /\ AlignsFirst(i, from[k + 1])
           N == {m \in Nat : m <= n => Good(n - m)}
<1>10. Good(n)
  <2>1. n + 1 \in 1 .. (n + 1) /\ n + 1 > n
    BY <1>1
  <2>2. from[n + 1] = << >>
    BY <1>9, <2>1
  <2>3. << >> \in Seq(PlanSteps(i)) /\ Len(<< >>) = 0
    BY EmptySeq
  <2>4. Leads(i, << >>, E, E)
    BY <1>7, <2>3, LeadsNowhere
  <2>5. AlignsFirst(i, << >>)
    BY <2>3 DEF AlignsFirst
  <2> QED BY <1>7, <2>2, <2>3, <2>4, <2>5 DEF E
<1>11. ASSUME NEW k \in 0 .. (n - 1), Good(k + 1) PROVE Good(k)
  <2> DEFINE j == k + 1
             s == FieldSteps(Fields[i][j], j)
             b == from[j + 1]
  <2>1. j \in 1 .. (n + 1) /\ j \in 1 .. n /\ ~ (j > n) /\ j - 1 = k /\ j \in DOMAIN Fields[i] /\ k \in 0 .. n
    BY <1>1
  <2>2. from[j] = s \o b
    BY <1>9, <2>1
  <2>3. s \in Seq(PlanSteps(i))
    BY <2>1, FieldStepsAre
  <2>4. /\ b \in Seq(PlanSteps(i)) /\ Leads(i, b, after[j], E) /\ after[j] \subseteq 0 .. MaxBits[i]
        /\ AlignsFirst(i, b)
    BY <1>11
  <2>5. after[j] = FieldEnds(i, j, after[k]) /\ after[k] \subseteq Nat
    BY <1>5, <1>6, <2>1 DEF IsLengths
  <2> HIDE DEF j
  <2>6. Leads(i, s, after[k], after[j]) /\ AlignsFirst(i, s)
    BY <2>1, <2>4, <2>5, FieldStepsLead, FieldAlignsFirst
  <2> HIDE DEF s, b
  <2>7. s \in Seq(Held(s)) /\ b \in Seq(Held(b)) /\ Len(s) \in Nat /\ Len(b) \in Nat
    BY <2>3, <2>4, SequenceOfHeld, HeldIs
  <2> DEFINE r == s \o b
  <2>8. /\ Len(r) = Len(s) + Len(b)
        /\ \A m \in 1 .. Len(s) : r[m] = s[m]
        /\ \A m \in 1 .. Len(b) : r[Len(s) + m] = b[m]
    BY <2>7, HeldConcat
  <2>9. r \in Seq(PlanSteps(i))
    BY <2>3, <2>4, ConcatProperties
  <2> HIDE DEF r
  <2>10. Leads(i, r, after[k], E) /\ AlignsFirst(i, r)
    BY <2>4, <2>6, <2>7, <2>8, LeadsThen, AlignsThen
  <2>11. after[k] \subseteq 0 .. MaxBits[i]
    <3>1. Len(s) \in Nat
      BY <2>7
    <3> QED BY <2>6, <3>1, LeadsFar
  <2>12. from[k + 1] = r
    BY <2>2 DEF j, r
  <2> QED BY <2>9, <2>10, <2>11, <2>12
<1> HIDE DEF Good
<1>12. 0 \in N
  <2>1. n - 0 = n
    BY <1>1
  <2> QED BY <1>10, <2>1
<1>13. ASSUME NEW m \in Nat, m \in N PROVE m + 1 \in N
  <2> SUFFICES ASSUME m + 1 <= n PROVE Good(n - (m + 1))
    OBVIOUS
  <2>1. n - (m + 1) \in 0 .. (n - 1) /\ (n - (m + 1)) + 1 = n - m /\ m <= n
    BY <1>1
  <2>2. Good(n - m)
    BY <1>13, <2>1
  <2> QED BY <1>11, <2>1, <2>2
<1> HIDE DEF N
<1>14. n \in N
  BY <1>1, <1>12, <1>13, Induction
<1>15. Good(0)
  <2>1. n - n = 0 /\ n <= n
    BY <1>1
  <2> QED BY <1>14, <2>1 DEF N
<1>16. Leads(i, from[1], {0}, E) /\ AlignsFirst(i, from[1])
  <2>1. 0 + 1 = 1
    OBVIOUS
  <2> QED BY <1>6, <1>15, <2>1 DEF Good
<1> QED BY <1>4, <1>7, <1>8, <1>16

-----------------------------------------------------------------------------
(* The bodies lead where their definition ends, and know that a composite  *)
(* starts on a byte.                                                       *)

LEMMA AlignedIsOnByte ==
  ASSUME NEW known \in Knowns
  PROVE  KnownAligned(known).residue = 0
<1>1. CASE known.residue = Unknown
  BY <1>1 DEF KnownAligned
<1>2. CASE known.residue # Unknown
  <2>1. KnownAligned(known) = KnownPast(known, (ByteBits - known.residue) % ByteBits)
    BY <1>2 DEF KnownAligned
  <2>2. KnownAligned(known).residue = (known.residue + ((ByteBits - known.residue) % ByteBits)) % ByteBits
    BY <1>2, <2>1 DEF KnownPast
  <2>3. known.residue \in Int
    BY DEF Knowns
  <2> QED BY <2>2, <2>3 DEF ByteBits
<1> QED BY <1>1, <1>2

LEMMA ChainStartsOnBytes ==
  ASSUME NEW i \in TypeIds, NEW w \in BOOLEAN, NEW body, NEW start, IsChain(i, w, body, start),
         NEW steps, IsCopy(body, steps), AlignsFirst(i, steps)
  PROVE  \A n \in 1 .. Len(body) : StartsOnByte(body[n])
<1> SUFFICES ASSUME NEW n \in 1 .. Len(body), body[n].kind \in {"field", "elements"}, IsComposite(body[n].f)
             PROVE  body[n].known.residue = 0
  BY DEF StartsOnByte
<1>1. IsPlain(i, w, body[n])
  BY DEF IsChain
<1>2. body[n].kind = "field" /\ IsFieldStep(i, w, body[n])
  BY <1>1, PlainIs, StepIs
<1>3. body[n].f = Fields[i][body[n].field]
  BY <1>2, FieldStepIs DEF IsOfField
<1>4. n > 1 /\ steps[n - 1].kind = "align"
  <2>1. n \in 1 .. Len(steps) /\ steps[n].kind = "field" /\ steps[n].field = body[n].field
    BY <1>2 DEF IsCopy
  <2> QED BY <1>3, <2>1 DEF AlignsFirst
<1>5. Len(body) \in Nat
  BY HeldIs DEF IsChain
<1>6. n - 1 \in 1 .. Len(body) /\ n # 1
  BY <1>4, <1>5
<1>7. body[n - 1].kind = "align" /\ IsPlain(i, w, body[n - 1]) /\ body[n].known = body[n - 1].past
  BY <1>4, <1>6 DEF IsChain, IsCopy
<1>8. body[n - 1].known \in Knowns /\ body[n - 1].past = KnownAligned(body[n - 1].known)
  BY <1>7, PlainIs, StepIs
<1> QED BY <1>7, <1>8, AlignedIsOnByte

LEMMA CopyLeads ==
  ASSUME NEW i, NEW body, NEW steps, IsCopy(body, steps), NEW S, NEW E, Leads(i, steps, S, E)
  PROVE  Leads(i, body, S, E)
BY LeadsAlike DEF IsCopy

LEMMA BuiltIsPlanned ==
  ASSUME NEW i \in TypeIds, NEW w \in BOOLEAN, NEW steps \in Seq(PlanSteps(i)), NEW start \in Knowns,
         AlignsFirst(i, steps)
  PROVE  LET b == Built(Fields[i], steps, start, w) IN
         /\ IsCopy(b, steps) /\ b \in Seq(Held(b))
         /\ \A n \in 1 .. Len(b) : StartsOnByte(b[n]) /\ IsPlanned(i, b[n])
<1> DEFINE b == Built(Fields[i], steps, start, w)
<1>1. IsChain(i, w, b, start) /\ IsCopy(b, steps)
  BY BuiltIs DEF IsCopy
<1> HIDE DEF b
<1>2. \A n \in 1 .. Len(b) : StartsOnByte(b[n])
  BY <1>1, ChainStartsOnBytes
<1>3. \A n \in 1 .. Len(b) : b[n].kind # "tag"
  BY <1>1, PlainIs DEF IsChain
<1>4. \A n \in 1 .. Len(b) : IsPlanned(i, b[n])
  BY <1>2, <1>3 DEF IsPlanned
<1>5. b \in Seq(Held(b))
  BY <1>1 DEF IsChain
<1> QED BY <1>1, <1>2, <1>4, <1>5 DEF b

LEMMA UnionStepIsPlanned ==
  ASSUME NEW i \in TypeIds, IsUnion[i], NEW w \in BOOLEAN
  PROVE  /\ IsPlanned(i, UnionStep(Fields[i], UnionTagBits(Types[i]), w))
         /\ UnionStep(Fields[i], UnionTagBits(Types[i]), w).kind = "tag"
<1> DEFINE width == UnionTagBits(Types[i])
           start == KnownPast(Start, width)
           arms == [k \in DOMAIN Fields[i] |-> Built(Fields[i], FieldSteps(Fields[i][k], k), start, w)]
<1>0. width \in Nat
  BY TagBits
<1>1. start \in Knowns
  BY <1>0, KnowsStart, KnowsPast
<1>2. UnionStep(Fields[i], width, w) = TagStepAt(width, arms)
  BY DEF UnionStep
<1> HIDE DEF start, width
<1>3. ASSUME NEW k \in DOMAIN Fields[i]
      PROVE  /\ IsCopy(arms[k], FieldSteps(Fields[i][k], k))
             /\ \A n \in 1 .. Len(arms[k]) : StartsOnByte(arms[k][n])
  <2> DEFINE s == FieldSteps(Fields[i][k], k)
             b == Built(Fields[i], s, start, w)
  <2>1. arms[k] = b
    OBVIOUS
  <2>2. s \in Seq(PlanSteps(i)) /\ AlignsFirst(i, s)
    BY FieldStepsAre, FieldAlignsFirst
  <2> HIDE DEF s, arms
  <2>3. IsCopy(b, s) /\ \A n \in 1 .. Len(b) : StartsOnByte(b[n])
    BY <1>1, <2>2, BuiltIsPlanned
  <2> QED BY <2>1, <2>3 DEF s
<1> HIDE DEF arms
<1>4. TagStepAt(width, arms).kind = "tag" /\ TagStepAt(width, arms).arms = arms
  BY DEF TagStepAt
<1>5. IsPlanned(i, TagStepAt(width, arms))
  BY <1>3, <1>4 DEF IsPlanned, StartsOnByte
<1> QED BY <1>2, <1>4, <1>5 DEF width

LEMMA SumOfNone ==
  ASSUME NEW S, S \subseteq Nat
  PROVE  SumOf({0}, S) = S
<1>1. \A s \in S : 0 + s = s
  OBVIOUS
<1>2. \A x : x \in SumOf({0}, S) => x \in S
  BY <1>1 DEF SumOf
<1>3. \A x : x \in S => x \in SumOf({0}, S)
  BY <1>1 DEF SumOf
<1>4. SumOf({0}, S) \subseteq S /\ S \subseteq SumOf({0}, S)
  BY <1>2, <1>3
<1> QED BY <1>4

LEMMA TagLeads ==
  ASSUME NEW i \in TypeIds, IsUnion[i], NEW s, s.kind = "tag"
  PROVE  \E E : /\ OffsetAtEnd[i] = PaddedTo(E, ByteBits) /\ E \subseteq Nat
                /\ Leads(i, <<s>>, {0}, E)
<1> DEFINE lengths == LengthsOf(i)
           all == UNION {lengths[k] : k \in DOMAIN Fields[i]}
           E == SumOf({UnionTagBits(Types[i])}, all)
<1>1. /\ Types[i].fields = Fields[i] /\ Len(Types[i].fields) \in Nat /\ Types[i].union
      /\ DOMAIN Fields[i] = 1 .. Len(Types[i].fields)
  BY Definitions
<1>2. \A k \in DOMAIN Fields[i] : IsLengths(lengths[k])
  BY LengthsOfIs
<1>3. PICK after : SectionLengths(Types[i], lengths)
                     = PaddedTo(ContentLengths(Types[i], lengths, after), ByteBits)
  BY <1>1, <1>2, SectionIs
<1>4. ContentLengths(Types[i], lengths, after) = E
  BY <1>1, Zenon DEF ContentLengths
<1>5. OffsetAtEnd[i] = PaddedTo(E, ByteBits)
  BY <1>3, <1>4, LengthsOfIs
<1>6. UnionTagBits(Types[i]) \in Nat
  BY TagBits
<1>7. all \subseteq Nat
  <2> HIDE DEF lengths
  <2> QED BY <1>2 DEF IsLengths
<1> HIDE DEF all
<1>8. E \subseteq Nat
  BY <1>6, <1>7 DEF SumOf
<1>9. MaxBits[i] \in Nat /\ E \subseteq 0 .. MaxBits[i]
  <2> HIDE DEF E
  <2>1. PaddedTo(E, ByteBits) \subseteq 0 .. MaxBits[i] /\ MaxBits[i] \in Nat
    BY <1>5, EndsAre
  <2> QED BY <1>8, <2>1, PaddedBounds
<1>10. Beyond(i, s, {0}) = E
  <2>1. Takes(i, s) = E
    BY DEF Takes, all
  <2> HIDE DEF E
  <2>2. Beyond(i, s, {0}) = SumOf({0}, E)
    BY <2>1 DEF Beyond
  <2>3. SumOf({0}, E) = E
    BY <1>8, SumOfNone
  <2> QED BY <2>2, <2>3
<1>11. Len(<<s>>) = 1 /\ <<s>>[1] = s
  BY HeldOne
<1> DEFINE r == <<s>>
<1> HIDE DEF E, r
<1>12. Leads(i, r, {0}, E)
  <2>1. Len(r) = 1 /\ Beyond(i, r[1], {0}) = E /\ {0} \subseteq 0 .. MaxBits[i]
    BY <1>9, <1>10, <1>11 DEF r
  <2> QED BY <1>9, <2>1, LeadsOne
<1> QED BY <1>5, <1>8, <1>12 DEF r

(* What ends in an alignment ends at the lengths of the definition.        *)
LEMMA EndedLeads ==
  ASSUME NEW i \in TypeIds, NEW all, all \in Seq(Held(all)), NEW E, E \subseteq Nat,
         OffsetAtEnd[i] = PaddedTo(E, ByteBits), Leads(i, all, {0}, E), NEW s, s.kind = "align"
  PROVE  Leads(i, Append(all, s), {0}, OffsetAtEnd[i])
<1> DEFINE r == Append(all, s)
           b == <<s>>
<1>1. Len(all) \in Nat /\ Len(r) = Len(all) + 1 /\ r[Len(all) + 1] = s
  BY HeldIs, HeldAppend
<1>2. \A n \in 1 .. Len(all) : r[n] = all[n]
  BY HeldAppend
<1>3. Len(b) = 1 /\ b[1] = s
  BY HeldOne
<1> HIDE DEF r, b
<1>4. MaxBits[i] \in Nat /\ E \subseteq 0 .. MaxBits[i] /\ OffsetAtEnd[i] \subseteq 0 .. MaxBits[i]
  <2>1. MaxBits[i] \in Nat /\ PaddedTo(E, ByteBits) \subseteq 0 .. MaxBits[i]
    BY EndsAre
  <2> QED BY <2>1, PaddedBounds
<1>5. Beyond(i, b[1], E) = OffsetAtEnd[i]
  BY <1>3 DEF Beyond
<1>6. Leads(i, b, E, OffsetAtEnd[i])
  BY <1>3, <1>4, <1>5, LeadsOne
<1>7. \A n \in 1 .. Len(b) : r[Len(all) + n] = b[n]
  <2>1. \A n \in 1 .. Len(b) : n = 1
    BY <1>3
  <2> QED BY <1>1, <1>3, <2>1
<1>8. Len(r) = Len(all) + Len(b) /\ Len(b) \in Nat
  BY <1>1, <1>3
<1>9. Leads(i, r, {0}, OffsetAtEnd[i])
  BY <1>1, <1>2, <1>3, <1>6, <1>7, <1>8, LeadsThen
<1> QED BY <1>9 DEF r

(* Whatever body runs, it is the plan's.                                   *)
LEMMA BodiesLead ==
  ASSUME NEW i \in TypeIds, NEW w \in BOOLEAN, NEW body \in Bodies[i][w]
  PROVE  /\ \A n \in 1 .. Len(body) : IsPlanned(i, body[n])
         /\ w => Leads(i, body, {0}, OffsetAtEnd[i])
<1>1. body \in BodiesFor(BodyOf(Types[i], Steps[i], w), MaxBits[i], ImageScalars[i])
  BY DEF Bodies
<1>2. body = BodyOf(Types[i], Steps[i], w) \/ body = Moved(MaxBits[i], ImageScalars[i])
  BY <1>1, Zenon DEF BodiesFor
<1>3. CASE body = Moved(MaxBits[i], ImageScalars[i])
  <2>1. PICK scalars : scalars = ImageScalars[i]
    OBVIOUS
  <2> DEFINE s == [kind |-> "move", scalars |-> scalars, bits |-> MaxBits[i],
                   known |-> Start, past |-> KnownPast(Start, MaxBits[i])]
             r == <<s>>
  <2>2. body = r
    BY <1>3, <2>1 DEF Moved
  <2>3. s.kind = "move"
    OBVIOUS
  <2> HIDE DEF s
  <2>4. Len(r) = 1 /\ r[1] = s
    BY HeldOne
  <2> HIDE DEF r
  <2>5. IsPlanned(i, s)
    BY <2>3 DEF IsPlanned, StartsOnByte
  <2>6. \A n \in 1 .. Len(r) : n = 1
    BY <2>4
  <2>7. MaxBits[i] \in Nat /\ MaxBits[i] \in OffsetAtEnd[i]
    BY EndsAre
  <2>8. Beyond(i, r[1], {0}) = {MaxBits[i]}
    <3>1. Takes(i, s) = {MaxBits[i]}
      BY <2>3 DEF Takes
    <3>2. Beyond(i, s, {0}) = SumOf({0}, {MaxBits[i]})
      BY <2>3, <3>1 DEF Beyond
    <3>3. SumOf({0}, {MaxBits[i]}) = {MaxBits[i]}
      BY <2>7 DEF SumOf
    <3> QED BY <2>4, <3>2, <3>3
  <2>9. Leads(i, r, {0}, OffsetAtEnd[i])
    BY <2>4, <2>7, <2>8, LeadsOne
  <2> QED BY <2>2, <2>4, <2>5, <2>6, <2>9
<1>4. CASE body = BodyOf(Types[i], Steps[i], w)
  <2> DEFINE tag == UnionStep(Fields[i], UnionTagBits(Types[i]), w)
             plain == Built(Fields[i], Steps[i], Start, w)
             all == IF IsUnion[i] THEN <<tag>> ELSE plain
             end == AlignStepAt(PastAll(all, Start))
  <2>1. body = IF w THEN Append(all, end) ELSE all
    BY <1>4, Definitions, Zenon DEF BodyOf, Ended
  <2>2. /\ all \in Seq(Held(all)) /\ \A n \in 1 .. Len(all) : IsPlanned(i, all[n])
        /\ \E E : /\ OffsetAtEnd[i] = PaddedTo(E, ByteBits) /\ E \subseteq Nat
                  /\ Leads(i, all, {0}, E)
    <3>1. CASE IsUnion[i]
      <4>1. IsPlanned(i, tag) /\ tag.kind = "tag"
        BY <3>1, UnionStepIsPlanned
      <4> DEFINE r == <<tag>>
      <4>2. all = r
        BY <3>1
      <4> HIDE DEF tag, all
      <4>3. r \in Seq(Held(r)) /\ Len(r) = 1 /\ r[1] = tag
        BY HeldOne
      <4>4. \E E : /\ OffsetAtEnd[i] = PaddedTo(E, ByteBits) /\ E \subseteq Nat /\ Leads(i, r, {0}, E)
        BY <3>1, <4>1, TagLeads
      <4> HIDE DEF r
      <4>5. \A n \in 1 .. Len(r) : n = 1
        BY <4>3
      <4> QED BY <4>1, <4>2, <4>3, <4>4, <4>5
    <3>2. CASE ~IsUnion[i]
      <4>1. all = plain
        BY <3>2
      <4>2. Steps[i] \in Seq(PlanSteps(i))
        BY <3>2, StepsAre
      <4>3. PICK E : /\ OffsetAtEnd[i] = PaddedTo(E, ByteBits) /\ E \subseteq Nat
                     /\ Leads(i, Steps[i], {0}, E) /\ AlignsFirst(i, Steps[i])
        BY <3>2, StepsLead
      <4>4. /\ IsCopy(plain, Steps[i]) /\ plain \in Seq(Held(plain))
            /\ \A n \in 1 .. Len(plain) : IsPlanned(i, plain[n])
        BY <4>2, <4>3, BuiltIsPlanned, KnowsStart
      <4> HIDE DEF plain, all
      <4>5. Leads(i, plain, {0}, E)
        BY <4>3, <4>4, CopyLeads
      <4> QED BY <4>1, <4>3, <4>4, <4>5
    <3> QED BY <3>1, <3>2
  <2>3. end.kind = "align"
    BY DEF AlignStepAt
  <2> HIDE DEF all, end
  <2> DEFINE r == Append(all, end)
  <2>4. Len(all) \in Nat /\ Len(r) = Len(all) + 1 /\ r[Len(all) + 1] = end
    BY <2>2, HeldIs, HeldAppend
  <2>5. \A n \in 1 .. Len(all) : r[n] = all[n]
    BY <2>2, HeldAppend
  <2>6. Leads(i, r, {0}, OffsetAtEnd[i])
    BY <2>2, <2>3, EndedLeads
  <2> HIDE DEF r
  <2>7. \A n \in 1 .. Len(r) : n \in 1 .. Len(all) \/ n = Len(all) + 1
    BY <2>4
  <2>8. IsPlanned(i, end)
    BY <2>3 DEF IsPlanned, StartsOnByte
  <2>9. \A n \in 1 .. Len(r) : IsPlanned(i, r[n])
    BY <2>2, <2>4, <2>5, <2>7, <2>8
  <2> QED BY <2>1, <2>2, <2>6, <2>9 DEF r
<1> QED BY <1>2, <1>3, <1>4

-----------------------------------------------------------------------------
(* What a field takes.                                                     *)

LEMMA MoreSum ==
  ASSUME NEW A, NEW S, NEW T, S \subseteq T
  PROVE  SumOf(A, S) \subseteq SumOf(A, T)
BY DEF SumOf

LEMMA SumOfSums ==
  ASSUME NEW a \in Nat, NEW b \in Nat, NEW S, S \subseteq Nat
  PROVE  SumOf({a}, SumOf({b}, S)) = SumOf({a + b}, S)
<1>1. \A s \in S : a + (b + s) = (a + b) + s
  OBVIOUS
<1>2. PICK T : T = SumOf({b}, S)
  OBVIOUS
<1>3. \A y : y \in T <=> \E s \in S : y = b + s
  BY <1>2 DEF SumOf
<1>4. \A x : x \in SumOf({a}, T) <=> \E y \in T : x = a + y
  BY DEF SumOf
<1>5. ASSUME NEW x PROVE x \in SumOf({a}, T) <=> \E s \in S : x = a + (b + s)
  <2>1. ASSUME NEW y \in T, x = a + y PROVE \E s \in S : x = a + (b + s)
    BY <1>3, <2>1
  <2>2. ASSUME NEW s \in S, x = a + (b + s) PROVE \E y \in T : x = a + y
    <3>1. b + s \in T
      BY <1>3
    <3> QED BY <2>2, <3>1
  <2> QED BY <1>4, <2>1, <2>2
<1>6. \A x : x \in SumOf({a + b}, S) <=> \E s \in S : x = (a + b) + s
  BY DEF SumOf
<1>7. \A x : x \in SumOf({a}, T) <=> x \in SumOf({a + b}, S)
  BY <1>1, <1>5, <1>6
<1> QED BY <1>2, <1>7

LEMMA TakesIs ==
  ASSUME NEW i \in TypeIds, NEW w \in BOOLEAN, NEW s, IsStep(i, w, s), s.kind \in {"field", "elements"}
  PROVE  LET one == ScalarLengths(s.f, OffsetAtEnd) IN
         /\ IsLengths(one)
         /\ ~IsComposite(s.f) => one = {s.f.bits}
         /\ IsComposite(s.f) /\ IsSealed[s.f.ref] => one = OffsetAtEnd[s.f.ref]
         /\ IsComposite(s.f) /\ ~IsSealed[s.f.ref] =>
               one = {HeaderBits + ByteBits * n : n \in 0 .. (Types[s.f.ref].extent \div ByteBits)}
         /\ s.kind = "field" => \A S : Beyond(i, s, S) = SumOf(S, FieldLengths(s.f, one))
<1>1. s.field \in DOMAIN Fields[i] /\ s.f = Fields[i][s.field]
  BY StepIs DEF IsOfField
<1>2. /\ IsLengths(ScalarLengths(s.f, OffsetAtEnd))
      /\ LengthsOf(i)[s.field] = FieldLengths(s.f, ScalarLengths(s.f, OffsetAtEnd))
  BY <1>1, LengthsOfIs
<1>3. s.kind = "field" => \A S : Beyond(i, s, S) = SumOf(S, LengthsOf(i)[s.field])
  BY DEF Beyond, Takes
<1>4. /\ ~IsComposite(s.f) => ScalarLengths(s.f, OffsetAtEnd) = {s.f.bits}
      /\ IsComposite(s.f) /\ IsSealed[s.f.ref] => ScalarLengths(s.f, OffsetAtEnd) = OffsetAtEnd[s.f.ref]
      /\ IsComposite(s.f) /\ ~IsSealed[s.f.ref] =>
            ScalarLengths(s.f, OffsetAtEnd)
              = {HeaderBits + ByteBits * n : n \in 0 .. (Types[s.f.ref].extent \div ByteBits)}
  BY Zenon DEF ScalarLengths
<1> QED BY <1>2, <1>3, <1>4

LEMMA SomeRepeated ==
  ASSUME NEW S, IsLengths(S), NEW n \in Nat
  PROVE  /\ Repeated(S, n) \subseteq Nat
         /\ \E r \in Repeated(S, n) : r \in Nat
<1>1. PICK b \in Nat : \A s \in S : s <= b
  BY DEF IsLengths
<1>2. IsLengths(Repeated(S, n))
  BY <1>1, RepeatedIsLengths
<1> QED BY <1>2 DEF IsLengths

(* A count that is not too long is one the analyser counted with.          *)
LEMMA CountedTakes ==
  ASSUME NEW f, IsFieldOf(f), IsArray(f), NEW one, IsLengths(one), NEW count \in Nat,
         f.array = "fixed" => count = f.cap, ~TooLong(f, count)
  PROVE  SumOf({LengthPrefixBits(f)}, Repeated(one, count)) \subseteq FieldLengths(f, one)
<1>1. f.array \in {"fixed", "variable"} /\ f.cap \in Nat
  BY FieldOf DEF IsField, IsArray
<1>2. CASE f.array = "fixed"
  <2>1. LengthPrefixBits(f) = 0 /\ FieldLengths(f, one) = Repeated(one, count)
    BY <1>2, FieldOf DEF FieldLengths
  <2> QED BY <2>1, SomeRepeated, SumOfNone
<1>3. CASE f.array = "variable"
  <2>1. count \in 0 .. f.cap
    BY <1>1, <1>3 DEF TooLong
  <2>2. Repeated(one, count) \subseteq RepeatedUpTo(one, f.cap)
    BY <2>1 DEF RepeatedUpTo
  <2>3. FieldLengths(f, one) = SumOf({LengthPrefixBits(f)}, RepeatedUpTo(one, f.cap))
    BY <1>3 DEF FieldLengths
  <2> QED BY <2>2, <2>3, MoreSum
<1> QED BY <1>1, <1>2, <1>3

-----------------------------------------------------------------------------
(* Where a frame is.                                                       *)

(* The offsets the elements still to come may end at.                      *)
ToCome(t) ==
    SumOf({t.off}, Repeated(ScalarLengths(t.todo[1].f, OffsetAtEnd), t.loop.count - t.loop.at))

(* What is left of the body leads where the definition ends.               *)
OnCourse(t) ==
    IF InLoop(t)
    THEN /\ t.loop.count \in Nat /\ t.loop.at =< t.loop.count
         /\ Leads(t.type, Tail(t.todo), ToCome(t), OffsetAtEnd[t.type])
    ELSE Leads(t.type, t.todo, {t.off}, OffsetAtEnd[t.type])

(* A frame has a part of the caller's buffer; one that writes holds its    *)
(* longest object and is on its course.                                    *)
Placed(t, w) ==
    /\ t.cap \in Nat /\ t.base \in Nat /\ t.base + t.cap <= size
    /\ \A n \in 1 .. Len(t.todo) : IsPlanned(t.type, t.todo[n])
    /\ t.err = Ok /\ InLoop(t) /\ IsComposite(t.todo[1].f) => t.off % ByteBits = 0
    /\ t.err = TooSmall => w /\ t.cap * ByteBits < MaxBits[t.type]
    /\ w /\ t.err = Ok => t.cap * ByteBits >= MaxBits[t.type] /\ OnCourse(t)

(* A body that was called is not refused its buffer, and a loop that       *)
(* called one has its element ahead.                                       *)
Placing(frames, w) ==
    /\ \A d \in 1 .. Len(frames) :
          /\ Placed(frames[d], w)
          /\ d > 1 => frames[d].err # TooSmall
          /\ d < Len(frames) /\ InLoop(frames[d]) => frames[d].loop.at < frames[d].loop.count
    /\ w /\ frames # << >> => frames[1].type = writer

LInv == KInv /\ Placing(stack, Writing) /\ LengthIsAnalysed

(* The rest leads on from behind the step.                                 *)
LEMMA RestLeads ==
  ASSUME NEW w \in BOOLEAN, NEW t, FrameOK(t, w), t.todo # << >>, ~InLoop(t), t.err = Ok,
         Placed(t, w), w
  PROVE  /\ Leads(t.type, Tail(t.todo), Beyond(t.type, t.todo[1], {t.off}), OffsetAtEnd[t.type])
         /\ Beyond(t.type, t.todo[1], {t.off}) \subseteq 0 .. MaxBits[t.type]
<1>1. Leads(t.type, t.todo, {t.off}, OffsetAtEnd[t.type])
  BY DEF Placed, OnCourse
<1>2. t.type \in TypeIds /\ IsTodo(t.type, w, t.todo)
  BY FrameIs
<1> DEFINE rest == Tail(t.todo)
<1>3. /\ Len(t.todo) \in Nat /\ Len(t.todo) > 0 /\ Len(rest) = Len(t.todo) - 1
      /\ \A n \in 1 .. Len(rest) : rest[n] = t.todo[n + 1]
  BY <1>2, RestIs
<1> HIDE DEF rest
<1>4. Leads(t.type, rest, Beyond(t.type, t.todo[1], {t.off}), OffsetAtEnd[t.type])
  BY <1>1, <1>3, LeadsPast
<1>5. Len(rest) \in Nat
  BY <1>3
<1>6. Beyond(t.type, t.todo[1], {t.off}) \subseteq 0 .. MaxBits[t.type]
  BY <1>4, <1>5, LeadsFar
<1> QED BY <1>4, <1>6 DEF rest

(* There is room for what a step writes, and what follows is on course.    *)
LEMMA RoomFor ==
  ASSUME NEW w \in BOOLEAN, NEW t, FrameOK(t, w), t.todo # << >>, ~InLoop(t), t.err = Ok,
         Placed(t, w), w, NEW n \in Nat, NEW past \in Beyond(t.type, t.todo[1], {t.off}), t.off + n <= past
  PROVE  Fits(t, t.off, n)
<1>1. past \in 0 .. MaxBits[t.type]
  BY RestLeads
<1>2. /\ t.cap * ByteBits >= MaxBits[t.type] /\ t.cap * ByteBits \in Nat /\ MaxBits[t.type] \in Nat
      /\ t.off \in Nat
  <2>1. t.type \in TypeIds /\ t.off \in Nat /\ t.cap \in Nat
    BY FrameIs DEF Placed
  <2> QED BY <2>1, EndsAre, WholeBytes DEF Placed
<1> DEFINE room == t.cap * ByteBits
<1> HIDE DEF room
<1>3. t.off + n <= room
  BY <1>1, <1>2 DEF room
<1> QED BY <1>3 DEF Fits, room

LEMMA PlacedPast ==
  ASSUME NEW w \in BOOLEAN, NEW t, FrameOK(t, w), Placed(t, w), t.todo # << >>,
         NEW u, Keeps(t, u), u.err = TooSmall => t.err = TooSmall,
         w /\ u.err = Ok => t.err = Ok,
         w /\ u.err = Ok /\ ~InLoop(t) => u.off \in Beyond(t.type, t.todo[1], {t.off}),
         w /\ u.err = Ok /\ InLoop(t) => u.off = t.off /\ t.loop.at = t.loop.count
  PROVE  Placed(Past(u), w)
<1> DEFINE p == Past(u)
           rest == Tail(t.todo)
<1>1. /\ IsFrame(p) /\ p.todo = rest /\ p.type = t.type /\ p.off = u.off /\ p.err = u.err /\ p.cap = t.cap
      /\ p.base = t.base
  BY PastIs DEF Keeps
<1> HIDE DEF p
<1>2. /\ t.type \in TypeIds /\ IsTodo(t.type, w, t.todo)
      /\ \A n \in 1 .. Len(t.todo) : IsPlanned(t.type, t.todo[n])
  BY FrameIs DEF Placed
<1>3. /\ \A n \in 1 .. Len(rest) : IsPlanned(t.type, rest[n])
      /\ rest # << >> => rest[1].kind # "elements"
  BY <1>2, RestIs
<1>4. ~InLoop(p)
  BY <1>1, <1>3 DEF InLoop
<1>5. ASSUME w, u.err = Ok PROVE Leads(t.type, rest, {u.off}, OffsetAtEnd[t.type])
  <2>1. CASE ~InLoop(t)
    <3>1. Leads(t.type, rest, Beyond(t.type, t.todo[1], {t.off}), OffsetAtEnd[t.type])
      BY <1>5, <2>1, RestLeads
    <3> HIDE DEF rest
    <3>2. {u.off} \subseteq Beyond(t.type, t.todo[1], {t.off})
      BY <1>5, <2>1
    <3> QED BY <3>1, <3>2, LeadsFewer
  <2>2. CASE InLoop(t)
    <3>1. /\ Leads(t.type, rest, ToCome(t), OffsetAtEnd[t.type])
          /\ t.loop.count \in Nat /\ t.loop.at = t.loop.count /\ u.off = t.off
      BY <1>5, <2>2 DEF Placed, OnCourse
    <3> DEFINE one == ScalarLengths(t.todo[1].f, OffsetAtEnd)
    <3>2. IsLengths(one)
      BY <1>2, <2>2, FrameIs, TakesIs DEF InLoop
    <3>3. t.off \in Nat
      BY <1>5, FrameIs
    <3> HIDE DEF one
    <3>4. Repeated(one, 0) = {0} /\ t.loop.count - t.loop.at = 0
      <4>1. one \subseteq Nat
        BY <3>2 DEF IsLengths
      <4>2. t.loop.count - t.loop.at = 0
        BY <3>1
      <4> QED BY <4>1, <4>2, RepeatedNone
    <3>5. ToCome(t) = SumOf({t.off}, {0})
      BY <3>4 DEF ToCome, one
    <3>6. u.off \in ToCome(t)
      <4>1. t.off + 0 = t.off
        BY <3>3
      <4>2. t.off + 0 \in SumOf({t.off}, {0})
        BY DEF SumOf
      <4> QED BY <3>1, <3>5, <4>1, <4>2
    <3>7. {u.off} \subseteq ToCome(t)
      BY <3>6
    <3> HIDE DEF rest
    <3> QED BY <3>1, <3>7, LeadsFewer
  <2> QED BY <2>1, <2>2
<1>6. w /\ p.err = Ok => p.cap * ByteBits >= MaxBits[p.type] /\ OnCourse(p)
  BY <1>1, <1>4, <1>5 DEF OnCourse, Placed
<1>7. p.err = TooSmall => w /\ p.cap * ByteBits < MaxBits[p.type]
  BY <1>1 DEF Placed
<1>8. /\ p.cap \in Nat /\ p.base \in Nat /\ p.base + p.cap <= size
      /\ \A n \in 1 .. Len(p.todo) : IsPlanned(p.type, p.todo[n])
  BY <1>1, <1>3 DEF Placed
<1>9. Placed(p, w)
  BY <1>4, <1>6, <1>7, <1>8 DEF Placed
<1> QED BY <1>9 DEF p

(* What an element takes leaves room for the others.                       *)
LEMMA LoopLess ==
  ASSUME NEW w \in BOOLEAN, NEW t, FrameOK(t, w), Placed(t, w), InLoop(t), t.err = Ok, w,
         t.loop.at < t.loop.count, NEW n \in ScalarLengths(t.todo[1].f, OffsetAtEnd)
  PROVE  LET one == ScalarLengths(t.todo[1].f, OffsetAtEnd) IN
         /\ SumOf({t.off + n}, Repeated(one, t.loop.count - (t.loop.at + 1))) \subseteq ToCome(t)
         /\ Fits(t, t.off, n) /\ n \in Nat
<1> DEFINE one == ScalarLengths(t.todo[1].f, OffsetAtEnd)
           most == MaxBits[t.type]
           room == t.cap * ByteBits
<1>1. /\ t.type \in TypeIds /\ IsTodo(t.type, w, t.todo) /\ t.off \in Nat /\ t.loop.at \in Nat
      /\ t.todo # << >> /\ t.todo[1].kind = "elements" /\ IsStep(t.type, w, t.todo[1])
  BY FrameIs DEF InLoop
<1>2. IsLengths(one)
  BY <1>1, TakesIs
<1>3. /\ t.loop.count \in Nat /\ Leads(t.type, Tail(t.todo), ToCome(t), OffsetAtEnd[t.type])
      /\ room >= most /\ t.cap \in Nat
  BY DEF Placed, OnCourse
<1>4. most \in Nat /\ room \in Nat
  BY <1>1, <1>3, EndsAre, WholeBytes
<1>5. Len(Tail(t.todo)) \in Nat
  BY <1>1, RestIs, HeldIs
<1>6. ToCome(t) \subseteq 0 .. most
  BY <1>3, <1>5, LeadsFar
<1>7. PICK m \in Nat : m = t.loop.count - t.loop.at
  BY <1>1, <1>3
<1>8. m > 0 /\ m - 1 = t.loop.count - (t.loop.at + 1) /\ m - 1 \in Nat
  BY <1>1, <1>3, <1>7
<1>9. ToCome(t) = SumOf({t.off}, Repeated(one, m))
  BY <1>7 DEF ToCome
<1> HIDE DEF one
<1>10. n \in one /\ n \in Nat
  BY <1>2 DEF one, IsLengths
<1>11. SumOf({t.off + n}, Repeated(one, m - 1)) \subseteq ToCome(t)
  BY <1>1, <1>2, <1>8, <1>9, <1>10, RepeatedLessOne
<1>12. PICK r \in Repeated(one, m - 1) : r \in Nat
  BY <1>2, <1>8, SomeRepeated
<1>13. (t.off + n) + r \in ToCome(t)
  BY <1>11, <1>12 DEF SumOf
<1> HIDE DEF most, room
<1>14. t.off + n <= room
  BY <1>1, <1>3, <1>4, <1>6, <1>10, <1>12, <1>13
<1> QED BY <1>8, <1>10, <1>11, <1>14 DEF Fits, one, room

LEMMA WholeAndWhole ==
  ASSUME NEW a \in Nat, NEW b \in Nat, a % ByteBits = 0, b % ByteBits = 0
  PROVE  (a + b) % ByteBits = 0
BY DEF ByteBits

(* The loop goes on behind an element.                                     *)
LEMMA PlacedLoops ==
  ASSUME NEW w \in BOOLEAN, NEW t, FrameOK(t, w), Placed(t, w), InLoop(t), t.err = Ok,
         NEW n \in Nat, IsComposite(t.todo[1].f) => n % ByteBits = 0,
         NEW u, u.type = t.type, u.cap = t.cap, u.base = t.base, u.todo = t.todo,
         u.loop.at = t.loop.at + 1, u.loop.count = t.loop.count, t.loop.at < t.loop.count,
         u.err # TooSmall, u.err = Ok => u.off = t.off + n,
         w /\ u.err = Ok => n \in ScalarLengths(t.todo[1].f, OffsetAtEnd)
  PROVE  Placed(u, w)
<1>1. InLoop(u) /\ t.off \in Nat /\ t.loop.at \in Nat
  BY FrameIs DEF InLoop
<1>2. ASSUME u.err = Ok, IsComposite(t.todo[1].f) PROVE u.off % ByteBits = 0
  <2>1. t.off % ByteBits = 0 /\ n % ByteBits = 0 /\ u.off = t.off + n
    BY <1>2 DEF Placed
  <2> QED BY <1>1, <2>1 DEF ByteBits
<1>3. ASSUME w, u.err = Ok PROVE OnCourse(u)
  <2> DEFINE one == ScalarLengths(t.todo[1].f, OffsetAtEnd)
  <2>1. t.loop.count \in Nat /\ Leads(t.type, Tail(t.todo), ToCome(t), OffsetAtEnd[t.type])
    BY <1>3 DEF Placed, OnCourse
  <2>2. SumOf({t.off + n}, Repeated(one, t.loop.count - (t.loop.at + 1))) \subseteq ToCome(t)
    BY <1>3, LoopLess
  <2>3. ToCome(u) = SumOf({t.off + n}, Repeated(one, t.loop.count - (t.loop.at + 1)))
    BY <1>3 DEF ToCome
  <2>4. Leads(t.type, Tail(t.todo), ToCome(u), OffsetAtEnd[t.type])
    BY <2>1, <2>2, <2>3, LeadsFewer
  <2>5. u.loop.at =< u.loop.count
    BY <1>1, <2>1
  <2> QED BY <1>1, <2>1, <2>4, <2>5 DEF OnCourse
<1> QED BY <1>1, <1>2, <1>3 DEF Placed

LEMMA PrefixIsWhole ==
  ASSUME NEW f, IsFieldOf(f)
  PROVE  LengthPrefixBits(f) \in Nat /\ LengthPrefixBits(f) % ByteBits = 0
<1>1. LengthPrefixBits(f) \in {0, 8, 16, 32, 64}
  BY PrefixBits DEF IsFieldOf
<1> QED BY <1>1 DEF ByteBits

(* A composite starts on a byte.                                           *)
LEMMA PlacedOnByte ==
  ASSUME NEW w \in BOOLEAN, NEW t, FrameOK(t, w), Placed(t, w), t.todo # << >>, t.err = Ok,
         t.todo[1].kind \in {"field", "elements"}, IsComposite(t.todo[1].f)
  PROVE  t.off \in Nat /\ t.off % ByteBits = 0
<1>1. t.off \in Nat
  BY FrameIs
<1>2. CASE t.todo[1].kind = "elements"
  BY <1>1, <1>2 DEF Placed, InLoop
<1>3. CASE t.todo[1].kind = "field"
  <2>1. Knows(t.todo[1].known, t.off)
    BY <1>3, FrameIs
  <2>2. 1 \in 1 .. Len(t.todo)
    BY FrameIs, TodoHead
  <2>3. t.todo[1].known.residue = 0
    BY <1>3, <2>2 DEF Placed, IsPlanned, StartsOnByte
  <2> QED BY <1>1, <2>1, <2>3 DEF Knows, Unknown
<1> QED BY <1>2, <1>3

(* What an array takes whose elements are counted.                         *)
LEMMA CountedPast ==
  ASSUME NEW w \in BOOLEAN, NEW t, FrameOK(t, w), t.todo # << >>, t.err = Ok,
         t.todo[1].kind = "field", IsArray(t.todo[1].f), NEW count \in Nat,
         t.todo[1].f.array = "fixed" => count = t.todo[1].f.cap, ~TooLong(t.todo[1].f, count)
  PROVE  LET f == t.todo[1].f IN
         SumOf({t.off + LengthPrefixBits(f)}, Repeated(ScalarLengths(f, OffsetAtEnd), count))
           \subseteq Beyond(t.type, t.todo[1], {t.off})
<1> DEFINE s == t.todo[1]
           f == s.f
           one == ScalarLengths(f, OffsetAtEnd)
           prefix == LengthPrefixBits(f)
<1>1. t.type \in TypeIds /\ t.off \in Nat /\ IsStep(t.type, w, s)
  BY FrameIs
<1>2. IsFieldOf(f)
  BY <1>1, StepIs DEF IsOfField
<1>3. IsLengths(one) /\ \A S : Beyond(t.type, s, S) = SumOf(S, FieldLengths(f, one))
  BY <1>1, TakesIs
<1>4. prefix \in Nat
  BY <1>2, PrefixIsWhole
<1> HIDE DEF one, f
<1>5. SumOf({prefix}, Repeated(one, count)) \subseteq FieldLengths(f, one)
  BY <1>2, <1>3, CountedTakes DEF f
<1>6. Repeated(one, count) \subseteq Nat
  BY <1>3, SomeRepeated
<1> HIDE DEF prefix
<1>7. SumOf({t.off}, SumOf({prefix}, Repeated(one, count))) = SumOf({t.off + prefix}, Repeated(one, count))
  <2>1. PICK a \in Nat : a = t.off
    BY <1>1
  <2>2. PICK S : S = Repeated(one, count)
    OBVIOUS
  <2>3. SumOf({a}, SumOf({prefix}, S)) = SumOf({a + prefix}, S)
    BY <1>4, <1>6, <2>2, SumOfSums
  <2> QED BY <2>1, <2>2, <2>3
<1>8. SumOf({t.off}, SumOf({prefix}, Repeated(one, count))) \subseteq SumOf({t.off}, FieldLengths(f, one))
  BY <1>5, MoreSum
<1> QED BY <1>3, <1>7, <1>8 DEF one, f, prefix

(* There is room for the count.                                            *)
LEMMA RoomForCount ==
  ASSUME NEW w \in BOOLEAN, NEW t, FrameOK(t, w), Placed(t, w), t.todo # << >>, t.err = Ok, w,
         t.todo[1].kind = "field", IsArray(t.todo[1].f), NEW count \in Nat,
         t.todo[1].f.array = "fixed" => count = t.todo[1].f.cap, ~TooLong(t.todo[1].f, count)
  PROVE  Fits(t, t.off, LengthPrefixBits(t.todo[1].f))
<1> DEFINE s == t.todo[1]
           f == s.f
           one == ScalarLengths(f, OffsetAtEnd)
           prefix == LengthPrefixBits(f)
<1>1. t.type \in TypeIds /\ t.off \in Nat /\ IsStep(t.type, w, s)
  BY FrameIs
<1>2. IsFieldOf(f)
  BY <1>1, StepIs DEF IsOfField
<1>3. IsLengths(one) /\ prefix \in Nat
  BY <1>1, <1>2, TakesIs, PrefixIsWhole
<1>4. SumOf({t.off + prefix}, Repeated(one, count)) \subseteq Beyond(t.type, s, {t.off})
  BY CountedPast
<1> HIDE DEF one, prefix
<1>5. PICK r \in Repeated(one, count) : r \in Nat
  BY <1>3, SomeRepeated
<1>6. (t.off + prefix) + r \in Beyond(t.type, s, {t.off})
  <2>1. (t.off + prefix) + r \in SumOf({t.off + prefix}, Repeated(one, count))
    BY <1>5 DEF SumOf
  <2> QED BY <1>4, <2>1
<1>7. t.off + prefix <= (t.off + prefix) + r
  BY <1>1, <1>3, <1>5
<1>8. ~InLoop(t)
  BY DEF InLoop
<1>9. Fits(t, t.off, prefix)
  BY <1>3, <1>6, <1>7, <1>8, RoomFor
<1> QED BY <1>9 DEF prefix

(* The loop over the elements starts.                                      *)
LEMMA PlacedStartsLoop ==
  ASSUME NEW w \in BOOLEAN, NEW t, FrameOK(t, w), Placed(t, w), t.todo # << >>, t.err = Ok,
         t.todo[1].kind = "field", IsArray(t.todo[1].f), NEW count \in Nat,
         t.todo[1].f.array = "fixed" => count = t.todo[1].f.cap, ~TooLong(t.todo[1].f, count),
         NEW u, u.type = t.type, u.cap = t.cap, u.base = t.base,
         u.todo = <<Elements(t.todo[1])>> \o Tail(t.todo), u.loop.at = 0, u.loop.count = count, u.err = Ok,
         u.off = t.off + LengthPrefixBits(t.todo[1].f)
  PROVE  Placed(u, w)
<1> DEFINE s == t.todo[1]
           e == Elements(s)
           rest == Tail(t.todo)
           one == <<e>>
           r == one \o rest
<1>1. t.type \in TypeIds /\ IsTodo(t.type, w, t.todo) /\ t.off \in Nat /\ IsStep(t.type, w, s) /\ ~InLoop(t)
  BY FrameIs DEF InLoop
<1>2. IsFieldOf(s.f) /\ IsFieldStep(t.type, w, s)
  BY <1>1, StepIs DEF IsOfField
<1>3. e.kind = "elements" /\ e.f = s.f /\ e.known = s.known
  BY <1>1, <1>2, ElementsOf
<1>4. /\ rest \in Seq(Held(rest))
      /\ \A n \in 1 .. Len(rest) : IsPlanned(t.type, rest[n])
  BY <1>1, RestIs DEF Placed
<1>5. one \in Seq(Held(one)) /\ Len(one) = 1 /\ one[1] = e
  BY HeldOne
<1> HIDE DEF e, rest, one, s
<1>9. u.todo = r
  BY DEF r, one, e, rest, s
<1>p. Joins(r, one, rest)
  BY <1>4, <1>5, HeldJoins
<1> HIDE DEF r
<1>a. r \in Seq(Held(r)) /\ Len(r) = Len(one) + Len(rest)
  BY <1>p DEF Joins
<1>b. \A n \in 1 .. Len(one) : r[n] = one[n]
  BY <1>p DEF Joins
<1>c. \A n \in 1 .. Len(rest) : r[Len(one) + n] = rest[n]
  BY <1>p DEF Joins
<1>6. Len(r) = 1 + Len(rest) /\ r \in Seq(Held(r)) /\ Len(rest) \in Nat
  BY <1>4, <1>5, <1>a, HeldIs
<1>7. r[1] = e
  <2>1. 1 \in 1 .. Len(one)
    BY <1>5
  <2> QED BY <1>5, <1>b, <2>1
<1>8. \A n \in 1 .. Len(rest) : r[1 + n] = rest[n]
  BY <1>5, <1>c
<1>10. r # << >>
  BY <1>6, HeldIs
<1>11. /\ Tail(r) \in Seq(Held(Tail(r))) /\ Len(Tail(r)) = Len(rest)
       /\ \A n \in 1 .. Len(rest) : Tail(r)[n] = rest[n]
  <2>1. Len(Tail(r)) = Len(r) - 1 /\ Tail(r) \in Seq(Held(Tail(r)))
        /\ \A n \in 1 .. Len(Tail(r)) : Tail(r)[n] = r[n + 1]
    BY <1>6, <1>10, HeldTail
  <2>2. Len(Tail(r)) = Len(rest)
    BY <1>6, <2>1
  <2>3. \A n \in 1 .. Len(rest) : n + 1 = 1 + n
    OBVIOUS
  <2> QED BY <1>8, <2>1, <2>2, <2>3
<1>12. InLoop(u) /\ u.todo[1] = e
  BY <1>3, <1>7, <1>9, <1>10 DEF InLoop
<1>13. \A n \in 1 .. Len(u.todo) : IsPlanned(u.type, u.todo[n])
  <2>1. IsPlanned(t.type, e)
    <3>1. IsPlanned(t.type, s)
      BY <1>1, TodoHead DEF Placed, s
    <3>2. s.kind = "field"
      BY DEF s
    <3> QED BY <1>3, <3>1, <3>2 DEF IsPlanned, StartsOnByte
  <2>2. ASSUME NEW n \in 1 .. Len(r) PROVE IsPlanned(t.type, r[n])
    <3>1. CASE n = 1
      BY <1>7, <2>1, <3>1
    <3>2. CASE n # 1
      <4>1. n - 1 \in 1 .. Len(rest) /\ 1 + (n - 1) = n
        BY <1>6, <3>2
      <4> QED BY <1>4, <1>8, <4>1
    <3> QED BY <3>1, <3>2
  <2> QED BY <1>9, <2>2
<1>14. ASSUME IsComposite(e.f) PROVE u.off % ByteBits = 0
  <2>1. t.off % ByteBits = 0
    BY <1>3, <1>14, PlacedOnByte DEF s
  <2>2. LengthPrefixBits(s.f) \in Nat /\ LengthPrefixBits(s.f) % ByteBits = 0
    BY <1>2, PrefixIsWhole
  <2>3. u.off = t.off + LengthPrefixBits(s.f)
    BY DEF s
  <2> QED BY <1>1, <2>1, <2>2, <2>3, WholeAndWhole
<1>15. ASSUME w PROVE OnCourse(u)
  <2> DEFINE takes == ScalarLengths(s.f, OffsetAtEnd)
  <2>1. SumOf({t.off + LengthPrefixBits(s.f)}, Repeated(takes, count)) \subseteq Beyond(t.type, s, {t.off})
    BY CountedPast DEF s
  <2>2. Leads(t.type, rest, Beyond(t.type, s, {t.off}), OffsetAtEnd[t.type])
    BY <1>1, <1>15, RestLeads DEF rest, s
  <2>3. ToCome(u) = SumOf({t.off + LengthPrefixBits(s.f)}, Repeated(takes, count))
    <3>1. count - 0 = count
      OBVIOUS
    <3>2. u.todo[1].f = s.f /\ u.off = t.off + LengthPrefixBits(s.f)
      BY <1>3, <1>12 DEF s
    <3> QED BY <3>1, <3>2 DEF ToCome
  <2>4. Leads(t.type, rest, ToCome(u), OffsetAtEnd[t.type])
    BY <2>1, <2>2, <2>3, LeadsFewer
  <2>5. Leads(t.type, Tail(r), ToCome(u), OffsetAtEnd[t.type])
    BY <1>11, <2>4, LeadsAlike
  <2>6. 0 =< count
    OBVIOUS
  <2> QED BY <1>9, <1>12, <2>5, <2>6 DEF OnCourse
<1>16. w => u.cap * ByteBits >= MaxBits[u.type]
  BY DEF Placed
<1>17. u.cap \in Nat /\ u.base \in Nat /\ u.base + u.cap <= size /\ u.err # TooSmall
  BY DEF Placed, Ok, TooSmall
<1> QED BY <1>12, <1>13, <1>14, <1>15, <1>16, <1>17 DEF Placed

(* There is room for a nested composite.                                   *)
LEMMA NestedRoom ==
  ASSUME NEW w \in BOOLEAN, NEW t, FrameOK(t, w), Placed(t, w), NEW i, Waiting(t, i), w,
         InLoop(t) => t.loop.at < t.loop.count, NEW n \in ScalarLengths(t.todo[1].f, OffsetAtEnd)
  PROVE  /\ Fits(t, t.off, n) /\ n \in Nat
         /\ ~InLoop(t) => t.off + n \in Beyond(t.type, t.todo[1], {t.off})
<1> DEFINE s == t.todo[1]
           one == ScalarLengths(s.f, OffsetAtEnd)
<1>1. /\ t.err = Ok /\ t.todo # << >> /\ t.type \in TypeIds /\ IsStep(t.type, w, s) /\ t.off \in Nat
      /\ \/ s.kind = "field" /\ ~IsArray(s.f)
         \/ s.kind = "elements"
  BY FrameIs DEF Waiting
<1>2. IsLengths(one) /\ (s.kind = "field" => \A S : Beyond(t.type, s, S) = SumOf(S, FieldLengths(s.f, one)))
  BY <1>1, TakesIs
<1>3. CASE InLoop(t)
  BY <1>1, <1>3, LoopLess
<1>4. CASE ~InLoop(t)
  <2>1. s.kind = "field" /\ ~IsArray(s.f)
    BY <1>1, <1>4 DEF InLoop
  <2>2. FieldLengths(s.f, one) = one
    BY <2>1 DEF FieldLengths, IsArray
  <2> HIDE DEF one
  <2>3. n \in one /\ n \in Nat
    BY <1>2 DEF one, IsLengths
  <2>4. t.off + n \in Beyond(t.type, s, {t.off})
    <3>1. t.off + n \in SumOf({t.off}, one)
      BY <2>3 DEF SumOf
    <3> QED BY <1>2, <2>1, <2>2, <3>1
  <2> HIDE DEF s
  <2>5. t.off + n <= t.off + n
    BY <1>1, <2>3
  <2>6. Fits(t, t.off, n)
    BY <1>1, <1>4, <2>3, <2>4, <2>5, RoomFor DEF s
  <2> QED BY <2>3, <2>4, <2>6 DEF s
<1> QED BY <1>3, <1>4

(* The body behind a nested composite.                                     *)
LEMMA NestedPlaced ==
  ASSUME NEW w \in BOOLEAN, NEW t, FrameOK(t, w), Placed(t, w), NEW i, Waiting(t, i),
         InLoop(t) => t.loop.at < t.loop.count,
         NEW u, Keeps(t, u), NEW n, NEW off, NEW err, err # TooSmall,
         err = Ok => n \in Nat /\ n % ByteBits = 0 /\ off = t.off + n,
         w /\ err = Ok => n \in ScalarLengths(t.todo[1].f, OffsetAtEnd)
  PROVE  Placed(PastNested(u, t.todo[1].f, off, err), w)
<1> DEFINE s == t.todo[1]
           f == s.f
           moved == [u EXCEPT !.off = off, !.err = err]
           p == PastNested(u, f, off, err)
<1>1. Keeps(t, moved) /\ moved.off = off /\ moved.err = err
  BY DEF Keeps, IsFrame
<1>2. /\ t.err = Ok /\ t.todo # << >> /\ t.type \in TypeIds /\ IsStep(t.type, w, s) /\ t.off \in Nat
      /\ IsFrame(t) /\ t.loop.at \in Nat
      /\ \/ s.kind = "field" /\ ~IsArray(f)
         \/ s.kind = "elements"
  BY FrameIs DEF Waiting
<1>3. s.kind = "elements" => IsArray(f)
  BY <1>2, StepIs
<1>4. p = IF IsArray(f) THEN [moved EXCEPT !.loop.at = @ + 1] ELSE Past(moved)
  BY Zenon DEF PastNested
<1> HIDE DEF p, f, s, moved
<1>5. CASE s.kind = "field"
  <2>1. p = Past(moved) /\ ~InLoop(t)
    BY <1>2, <1>4, <1>5 DEF InLoop, s
  <2>2. w /\ err = Ok => off \in Beyond(t.type, t.todo[1], {t.off})
    BY <2>1, NestedRoom
  <2>3. Placed(Past(moved), w)
    BY <1>1, <1>2, <2>1, <2>2, PlacedPast
  <2> QED BY <2>1, <2>3 DEF p, f, s
<1>6. CASE s.kind = "elements"
  <2> DEFINE q == [moved EXCEPT !.loop.at = @ + 1]
  <2>1. p = q /\ InLoop(t)
    BY <1>2, <1>3, <1>4, <1>6 DEF InLoop, s
  <2>2. /\ q.type = t.type /\ q.cap = t.cap /\ q.base = t.base /\ q.todo = t.todo
        /\ q.loop.at = t.loop.at + 1 /\ q.loop.count = t.loop.count /\ q.off = off /\ q.err = err
    BY <1>1, <1>2 DEF Keeps, IsFrame
  <2> HIDE DEF q
  <2> DEFINE m == IF err = Ok THEN n ELSE 0
  <2>3. m \in Nat /\ m % ByteBits = 0 /\ (err = Ok => m = n)
    BY DEF ByteBits
  <2> HIDE DEF m
  <2>4. q.err = Ok => q.off = t.off + m
    BY <2>2, <2>3
  <2>5. w /\ q.err = Ok => m \in ScalarLengths(t.todo[1].f, OffsetAtEnd)
    BY <2>2, <2>3
  <2>6. Placed(q, w)
    BY <1>2, <2>1, <2>2, <2>3, <2>4, <2>5, PlacedLoops
  <2> QED BY <2>1, <2>6 DEF p, f, s
<1> QED BY <1>2, <1>5, <1>6 DEF p, f, s

(* The steps of an option lead where the union's steps do.                 *)
LEMMA ArmLeads ==
  ASSUME NEW i \in TypeIds, IsUnion[i], NEW s, s.kind = "tag", IsPlanned(i, s), NEW k \in DOMAIN Fields[i],
         Beyond(i, s, {0}) \subseteq 0 .. MaxBits[i]
  PROVE  Leads(i, s.arms[k], {UnionTagBits(Types[i])}, Beyond(i, s, {0}))
<1> DEFINE tag == UnionTagBits(Types[i])
           A == AlignmentOf(Fields[i][k])
           lengths == LengthsOf(i)
           all == UNION {lengths[j] : j \in DOMAIN Fields[i]}
           S == {tag}
           B == Beyond(i, s, {0})
           E == FieldEnds(i, k, S)
<1>1. tag \in Nat /\ tag % ByteBits = 0
  BY TagBits DEF ByteBits
<1>2. IsLengths(lengths[k]) /\ \A j \in DOMAIN Fields[i] : lengths[j] \subseteq Nat
  BY LengthsOfIs DEF IsLengths
<1>3. A \in {1, ByteBits}
  BY DEF AlignmentOf
<1>4. PaddedTo(S, A) = S
  <2>1. S \subseteq Nat
    BY <1>1
  <2>2. A = 1 => PaddedTo(S, A) = S
    BY <2>1, PaddedToBits
  <2>3. PadTo(tag, ByteBits) = tag
    BY <1>1, PadToWhole
  <2>4. A = ByteBits => PaddedTo(S, A) = S
    BY <2>3 DEF PaddedTo
  <2> QED BY <1>3, <2>2, <2>4
<1>5. B = SumOf({0}, SumOf(S, all))
  BY Zenon DEF Beyond, Takes
<1> HIDE DEF tag, lengths, A, B, E
<1>6. SumOf(S, all) \subseteq Nat
  BY <1>1, <1>2 DEF SumOf
<1>7. B = SumOf(S, all)
  BY <1>5, <1>6, SumOfNone
<1>8. E = SumOf(S, lengths[k])
  BY <1>4 DEF E, FieldEnds, A, lengths
<1>9. lengths[k] \subseteq all
  OBVIOUS
<1>10. E \subseteq B
  BY <1>7, <1>8, <1>9, MoreSum
<1>11. E \subseteq 0 .. MaxBits[i]
  BY <1>10 DEF B
<1>12. S \subseteq Nat
  BY <1>1
<1>13. Leads(i, FieldSteps(Fields[i][k], k), S, E)
  BY <1>11, <1>12, FieldStepsLead DEF E
<1>14. Leads(i, FieldSteps(Fields[i][k], k), S, B)
  BY <1>10, <1>13, LeadsInto
<1>15. IsCopy(s.arms[k], FieldSteps(Fields[i][k], k))
  BY DEF IsPlanned
<1> HIDE DEF S
<1>16. Leads(i, s.arms[k], S, B)
  BY <1>14, <1>15, CopyLeads
<1> QED BY <1>16 DEF S, B, tag

(* The steps of an option are planned.                                     *)
LEMMA ArmIsPlanned ==
  ASSUME NEW i \in TypeIds, NEW w \in BOOLEAN, NEW s, IsTag(i, w, s), IsPlanned(i, s), NEW k \in DOMAIN Fields[i]
  PROVE  /\ s.arms[k] \in Seq(Held(s.arms[k]))
         /\ \A n \in 1 .. Len(s.arms[k]) : IsPlanned(i, s.arms[k][n]) /\ s.arms[k][n].kind # "elements"
<1> DEFINE arm == s.arms[k]
<1>1. /\ s.kind = "tag"
      /\ IsChain(i, w, arm, KnownPast(Start, UnionTagBits(Types[i])))
  BY DEF IsTag, IsArm
<1>2. \A n \in 1 .. Len(arm) : StartsOnByte(arm[n])
  BY <1>1 DEF IsPlanned
<1> HIDE DEF arm
<1>3. arm \in Seq(Held(arm))
  BY <1>1 DEF IsChain
<1>4. \A n \in 1 .. Len(arm) : arm[n].kind \in {"align", "field"}
  BY <1>1, PlainIs DEF IsChain
<1>5. \A n \in 1 .. Len(arm) : IsPlanned(i, arm[n]) /\ arm[n].kind # "elements"
  BY <1>2, <1>4 DEF IsPlanned
<1> QED BY <1>3, <1>5 DEF arm

(* A union's tag is at the start of its body.                              *)
LEMMA TagIsFirst ==
  ASSUME NEW w \in BOOLEAN, NEW t, FrameOK(t, w), Placed(t, w), t.todo # << >>, t.todo[1].kind = "tag"
  PROVE  /\ t.type \in TypeIds /\ IsTag(t.type, w, t.todo[1]) /\ IsPlanned(t.type, t.todo[1])
         /\ IsUnion[t.type] /\ t.todo[1].bits = UnionTagBits(Types[t.type]) /\ t.todo[1].bits \in Nat
         /\ DOMAIN t.todo[1].arms = DOMAIN Fields[t.type]
         /\ t.err = Ok => t.off = 0
         /\ t.err = Ok /\ w => Beyond(t.type, t.todo[1], {0}) \subseteq 0 .. MaxBits[t.type]
<1> DEFINE s == t.todo[1]
<1>1. t.type \in TypeIds /\ IsTodo(t.type, w, t.todo) /\ IsStep(t.type, w, s)
      /\ (t.err = Ok => Knows(s.known, t.off))
  BY FrameIs
<1>2. IsTag(t.type, w, s)
  BY <1>1, StepIs
<1>3. /\ IsUnion[t.type] /\ s.bits = UnionTagBits(Types[t.type]) /\ s.bits \in Nat /\ s.known = Start
      /\ DOMAIN s.arms = DOMAIN Fields[t.type]
  BY <1>1, <1>2, TagIs DEF IsTag
<1>4. IsPlanned(t.type, s)
  BY <1>1, TodoHead DEF Placed
<1>5. t.err = Ok => t.off = 0
  BY <1>1, <1>3 DEF Knows, Start, Unknown
<1>6. t.err = Ok /\ w => Beyond(t.type, s, {t.off}) \subseteq 0 .. MaxBits[t.type]
  BY RestLeads DEF InLoop
<1> QED BY <1>1, <1>2, <1>3, <1>4, <1>5, <1>6

LEMMA RoomForTag ==
  ASSUME NEW w \in BOOLEAN, NEW t, FrameOK(t, w), Placed(t, w), t.todo # << >>, t.todo[1].kind = "tag",
         t.err = Ok, w, NEW k \in DOMAIN Fields[t.type]
  PROVE  Fits(t, t.off, t.todo[1].bits)
<1> DEFINE s == t.todo[1]
           tag == UnionTagBits(Types[t.type])
           most == MaxBits[t.type]
           room == t.cap * ByteBits
<1>1. /\ t.type \in TypeIds /\ IsTag(t.type, w, s) /\ IsPlanned(t.type, s) /\ IsUnion[t.type]
      /\ s.bits = tag /\ tag \in Nat /\ t.off = 0 /\ Beyond(t.type, s, {0}) \subseteq 0 .. most
  BY TagIsFirst
<1>2. s.arms[k] \in Seq(Held(s.arms[k]))
  BY <1>1, ArmIsPlanned
<1>3. Len(s.arms[k]) \in Nat
  BY <1>2, HeldIs
<1>4. Leads(t.type, s.arms[k], {tag}, Beyond(t.type, s, {0}))
  BY <1>1, ArmLeads
<1> HIDE DEF tag
<1>5. tag \in 0 .. most
  BY <1>3, <1>4, LeadsFar
<1>6. room >= most /\ most \in Nat /\ room \in Nat
  BY <1>1, EndsAre, WholeBytes DEF Placed
<1> HIDE DEF room, most
<1>7. t.off + tag <= room
  BY <1>1, <1>5, <1>6
<1> QED BY <1>1, <1>7 DEF Fits, room, tag

(* The option's steps come next.                                           *)
LEMMA PlacedSelects ==
  ASSUME NEW w \in BOOLEAN, NEW t, FrameOK(t, w), Placed(t, w), t.todo # << >>, t.todo[1].kind = "tag",
         NEW tag, NEW u, u.type = t.type, u.cap = t.cap, u.base = t.base,
         u.todo = (IF tag + 1 \in DOMAIN t.todo[1].arms THEN t.todo[1].arms[tag + 1] ELSE << >>)
                    \o Tail(t.todo),
         u.err = TooSmall => t.err = TooSmall,
         u.err = Ok => t.err = Ok /\ u.off = t.off + t.todo[1].bits /\ tag + 1 \in DOMAIN t.todo[1].arms
  PROVE  Placed(u, w)
<1> DEFINE s == t.todo[1]
           rest == Tail(t.todo)
           first == IF tag + 1 \in DOMAIN s.arms THEN s.arms[tag + 1] ELSE << >>
           r == first \o rest
<1>1. /\ t.type \in TypeIds /\ IsTag(t.type, w, s) /\ IsPlanned(t.type, s) /\ IsUnion[t.type]
      /\ s.bits = UnionTagBits(Types[t.type]) /\ s.bits \in Nat
      /\ DOMAIN s.arms = DOMAIN Fields[t.type]
      /\ t.err = Ok => t.off = 0
      /\ t.err = Ok /\ w => Beyond(t.type, s, {0}) \subseteq 0 .. MaxBits[t.type]
  BY TagIsFirst
<1>2. /\ rest \in Seq(Held(rest)) /\ (rest # << >> => rest[1].kind # "elements")
      /\ \A n \in 1 .. Len(rest) : IsPlanned(t.type, rest[n])
  BY FrameIs, RestIs DEF Placed
<1> HIDE DEF rest, s
<1>3. /\ first \in Seq(Held(first))
      /\ \A n \in 1 .. Len(first) : IsPlanned(t.type, first[n]) /\ first[n].kind # "elements"
  <2>1. CASE tag + 1 \in DOMAIN s.arms
    <3>1. first = s.arms[tag + 1] /\ tag + 1 \in DOMAIN Fields[t.type]
      BY <1>1, <2>1
    <3> HIDE DEF first
    <3>2. /\ s.arms[tag + 1] \in Seq(Held(s.arms[tag + 1]))
          /\ \A n \in 1 .. Len(s.arms[tag + 1]) : /\ IsPlanned(t.type, s.arms[tag + 1][n])
                                                 /\ s.arms[tag + 1][n].kind # "elements"
      BY <1>1, <3>1, ArmIsPlanned, Zenon
    <3> QED BY <3>1, <3>2
  <2>2. CASE ~ (tag + 1 \in DOMAIN s.arms)
    <3>1. first = << >>
      BY <2>2
    <3> HIDE DEF first
    <3>2. first \in Seq(Held(first)) /\ Len(first) = 0
      BY <3>1, HeldNothing
    <3>3. \A n \in 1 .. 0 : FALSE
      OBVIOUS
    <3> QED BY <3>2, <3>3
  <2> QED BY <2>1, <2>2
<1>4. u.todo = r
  BY DEF r, first, rest, s
<1>5. ASSUME u.err = Ok PROVE first = s.arms[tag + 1] /\ tag + 1 \in DOMAIN Fields[t.type]
  BY <1>1, <1>5 DEF first, s
<1> HIDE DEF first
<1>6. Len(first) \in Nat /\ Len(rest) \in Nat /\ (rest # << >> <=> Len(rest) > 0)
  BY <1>2, <1>3, HeldIs
<1>p. Joins(r, first, rest)
  BY <1>2, <1>3, HeldJoins
<1> HIDE DEF r
<1>7. r \in Seq(Held(r)) /\ Len(r) = Len(first) + Len(rest)
  BY <1>p DEF Joins
<1>8. \A n \in 1 .. Len(first) : r[n] = first[n]
  BY <1>p DEF Joins
<1>9. \A n \in 1 .. Len(rest) : r[Len(first) + n] = rest[n]
  BY <1>p DEF Joins
<1>10. ASSUME NEW n \in 1 .. Len(r) PROVE IsPlanned(t.type, r[n])
  <2>1. CASE n <= Len(first)
    BY <1>3, <1>6, <1>8, <2>1
  <2>2. CASE ~ (n <= Len(first))
    <3>1. n - Len(first) \in 1 .. Len(rest) /\ Len(first) + (n - Len(first)) = n
      BY <1>6, <1>7, <2>2
    <3> QED BY <1>2, <1>9, <3>1
  <2> QED BY <2>1, <2>2
<1>11. ASSUME r # << >> PROVE r[1].kind # "elements"
  <2>1. Len(r) > 0
    BY <1>7, <1>11, HeldIs
  <2>2. CASE Len(first) > 0
    <3>1. 1 \in 1 .. Len(first)
      BY <1>6, <2>2
    <3> QED BY <1>3, <1>8, <3>1
  <2>3. CASE ~ (Len(first) > 0)
    <3>1. 1 \in 1 .. Len(rest) /\ Len(first) + 1 = 1 /\ Len(rest) > 0
      BY <1>6, <1>7, <2>1, <2>3
    <3>2. r[Len(first) + 1] = rest[1]
      BY <1>9, <3>1
    <3> QED BY <1>2, <1>6, <3>1, <3>2
  <2> QED BY <2>2, <2>3
<1>12. ~InLoop(u)
  BY <1>4, <1>11 DEF InLoop
<1>13. ASSUME w, u.err = Ok PROVE Leads(t.type, r, {u.off}, OffsetAtEnd[t.type])
  <2> DEFINE k == tag + 1
             width == UnionTagBits(Types[t.type])
             B == Beyond(t.type, s, {0})
  <2>1. t.err = Ok /\ t.off = 0 /\ u.off = width /\ k \in DOMAIN Fields[t.type]
    <3>1. t.err = Ok /\ u.off = t.off + s.bits
      BY <1>13 DEF s
    <3> QED BY <1>1, <1>5, <1>13, <3>1
  <2>2. Leads(t.type, rest, B, OffsetAtEnd[t.type])
    <3>1. Leads(t.type, rest, Beyond(t.type, s, {t.off}), OffsetAtEnd[t.type])
      BY <1>13, <2>1, RestLeads DEF InLoop, rest, s
    <3> QED BY <2>1, <3>1
  <2>3. s.kind = "tag"
    BY DEF s
  <2>4. Leads(t.type, s.arms[k], {width}, B)
    BY <1>1, <1>13, <2>1, <2>3, ArmLeads
  <2>5. first = s.arms[k]
    BY <1>5, <1>13
  <2>6. Leads(t.type, first, {width}, B)
    BY <2>4, <2>5
  <2> HIDE DEF B, width
  <2>7. Leads(t.type, r, {width}, OffsetAtEnd[t.type])
    BY <1>p, <2>2, <2>6, JoinsLead
  <2> QED BY <2>1, <2>7
<1>14. w /\ u.err = Ok => u.cap * ByteBits >= MaxBits[u.type]
  BY DEF Placed
<1>15. u.err = TooSmall => w /\ u.cap * ByteBits < MaxBits[u.type]
  BY DEF Placed
<1>16. /\ u.cap \in Nat /\ u.base \in Nat /\ u.base + u.cap <= size
       /\ \A n \in 1 .. Len(u.todo) : IsPlanned(u.type, u.todo[n])
  BY <1>4, <1>10 DEF Placed
<1>17. w /\ u.err = Ok => OnCourse(u)
  BY <1>4, <1>12, <1>13 DEF OnCourse
<1> QED BY <1>12, <1>14, <1>15, <1>16, <1>17 DEF Placed

-----------------------------------------------------------------------------
(* The frames on the stack.                                                *)

LEMMA PlacedTop ==
  ASSUME NEW w, AreFrames(stack, w), stack # << >>, Placing(stack, w)
  PROVE  /\ Len(stack) \in Nat /\ Len(stack) > 0 /\ Placed(Top, w)
         /\ Len(stack) > 1 => /\ Top.err # TooSmall /\ Placed(Outer, w)
                              /\ InLoop(Outer) => Outer.loop.at < Outer.loop.count
<1>1. Len(stack) \in Nat /\ Len(stack) > 0
  BY TopIs
<1>2. Len(stack) \in 1 .. Len(stack) /\ (Len(stack) > 1 => Len(stack) - 1 \in 1 .. Len(stack))
  BY <1>1
<1> QED BY <1>1, <1>2 DEF Placing, Top, Outer

LEMMA TopPlaced ==
  ASSUME NEW w, AreFrames(stack, w), stack # << >>, Placing(stack, w),
         NEW t, Placed(t, w), t.type = Top.type, t.err = TooSmall => Top.err = TooSmall
  PROVE  Placing(WithTop(t), w)
<1> DEFINE r == [stack EXCEPT ![Len(stack)] = t]
<1>1. stack \in Seq(Held(stack)) /\ Len(stack) \in Nat /\ Len(stack) > 0
  BY HeldIs DEF AreFrames
<1>2. Len(r) = Len(stack) /\ \A n \in 1 .. Len(stack) : r[n] = IF n = Len(stack) THEN t ELSE stack[n]
  BY <1>1, HeldReplaced
<1> HIDE DEF r
<1>3. ASSUME NEW d \in 1 .. Len(r)
      PROVE  /\ Placed(r[d], w)
             /\ d > 1 => r[d].err # TooSmall
             /\ d < Len(r) /\ InLoop(r[d]) => r[d].loop.at < r[d].loop.count
  <2>1. /\ Placed(stack[d], w) /\ (d > 1 => stack[d].err # TooSmall)
        /\ d < Len(stack) /\ InLoop(stack[d]) => stack[d].loop.at < stack[d].loop.count
    BY <1>2 DEF Placing
  <2>2. CASE d = Len(stack)
    <3>1. r[d] = t /\ stack[d] = Top /\ ~ (d < Len(r))
      BY <1>1, <1>2, <2>2 DEF Top
    <3> QED BY <2>1, <3>1
  <2>3. CASE d # Len(stack)
    <3>1. r[d] = stack[d] /\ (d < Len(r) => d < Len(stack))
      BY <1>2, <2>3
    <3> QED BY <2>1, <3>1
  <2> QED BY <2>2, <2>3
<1>4. w => r[1].type = writer
  <2>1. 1 \in 1 .. Len(stack) /\ (1 = Len(stack) => stack[1] = Top)
    BY <1>1 DEF Top
  <2>2. r[1].type = stack[1].type
    BY <1>2, <2>1
  <2> QED BY <2>2 DEF Placing
<1> QED BY <1>3, <1>4 DEF Placing, WithTop, r

LEMMA CalledPlaced ==
  ASSUME NEW w, AreFrames(stack, w), stack # << >>, Placing(stack, w),
         InLoop(Top) => Top.loop.at < Top.loop.count, NEW t, Placed(t, w), t.err # TooSmall
  PROVE  Placing(Append(stack, t), w)
<1> DEFINE r == Append(stack, t)
<1>1. stack \in Seq(Held(stack)) /\ Len(stack) \in Nat /\ Len(stack) > 0
  BY HeldIs DEF AreFrames
<1>2. Len(r) = Len(stack) + 1 /\ r[Len(stack) + 1] = t /\ \A n \in 1 .. Len(stack) : r[n] = stack[n]
  BY <1>1, HeldAppend
<1> HIDE DEF r
<1>3. ASSUME NEW d \in 1 .. Len(r)
      PROVE  /\ Placed(r[d], w)
             /\ d > 1 => r[d].err # TooSmall
             /\ d < Len(r) /\ InLoop(r[d]) => r[d].loop.at < r[d].loop.count
  <2>1. CASE d = Len(stack) + 1
    <3>1. r[d] = t /\ ~ (d < Len(r))
      BY <1>1, <1>2, <2>1
    <3> QED BY <3>1
  <2>2. CASE d # Len(stack) + 1
    <3>1. d \in 1 .. Len(stack) /\ r[d] = stack[d]
      BY <1>1, <1>2, <2>2
    <3>2. /\ Placed(stack[d], w) /\ (d > 1 => stack[d].err # TooSmall)
          /\ d < Len(stack) /\ InLoop(stack[d]) => stack[d].loop.at < stack[d].loop.count
      BY <3>1 DEF Placing
    <3>3. d < Len(stack) \/ stack[d] = Top
      BY <1>1, <3>1 DEF Top
    <3> QED BY <3>1, <3>2, <3>3
  <2> QED BY <2>1, <2>2
<1>4. w => r[1].type = writer
  <2>1. 1 \in 1 .. Len(stack)
    BY <1>1
  <2>2. r[1] = stack[1]
    BY <1>2, <2>1
  <2> QED BY <2>2 DEF Placing
<1> QED BY <1>3, <1>4 DEF Placing, r

LEMMA ReturnedPlaced ==
  ASSUME NEW w, AreFrames(stack, w), Len(stack) > 1, Placing(stack, w),
         NEW t, Placed(t, w), t.type = Outer.type, t.err # TooSmall
  PROVE  Placing(Popped(t), w)
<1> DEFINE r == Append(SubSeq(stack, 1, Len(stack) - 2), t)
           n == Len(stack) - 1
<1>1. stack \in Seq(Held(stack)) /\ Len(stack) \in Nat /\ n \in Nat /\ n > 0 /\ n - 1 = Len(stack) - 2
      /\ Len(stack) = n + 1
  BY HeldIs DEF AreFrames
<1>p. /\ r \in Seq(Held(r))
      /\ Len(r) = Len(stack) - 1
      /\ \A m \in 1 .. (Len(stack) - 2) : r[m] = stack[m]
      /\ r[Len(stack) - 1] = t
  BY <1>1, HeldPopped, Zenon
<1> HIDE DEF r
<1>2. Len(r) = n
  BY <1>1, <1>p
<1>3. r[n] = t /\ \A m \in 1 .. (n - 1) : r[m] = stack[m]
  BY <1>1, <1>p
<1>a. stack[n] = Outer
  BY DEF Outer
<1> HIDE DEF n
<1>4. ASSUME NEW d \in 1 .. Len(r)
      PROVE  /\ Placed(r[d], w)
             /\ d > 1 => r[d].err # TooSmall
             /\ d < Len(r) /\ InLoop(r[d]) => r[d].loop.at < r[d].loop.count
  <2>1. CASE d = n
    BY <1>1, <1>2, <1>3, <2>1
  <2>2. CASE d # n
    <3>1. d \in 1 .. Len(stack) /\ r[d] = stack[d] /\ d < Len(stack)
      BY <1>1, <1>2, <1>3, <2>2
    <3> QED BY <3>1 DEF Placing
  <2> QED BY <2>1, <2>2
<1>5. w => r[1].type = writer
  <2>1. r[1].type = stack[1].type
    <3>1. CASE n = 1
      BY <1>3, <1>a, <3>1
    <3>2. CASE n # 1
      <4>1. 1 \in 1 .. (n - 1)
        BY <1>1, <3>2
      <4> QED BY <1>3, <4>1
    <3> QED BY <3>1, <3>2
  <2>2. w => stack[1].type = writer
    BY <1>1, EmptySeq DEF Placing
  <2> QED BY <2>1, <2>2
<1> QED BY <1>4, <1>5 DEF Placing, Popped, r

LEMMA AlonePlaced ==
  ASSUME NEW w, NEW t, Placed(t, w), w => t.type = writer
  PROVE  Placing(<<t>>, w)
<1> DEFINE r == <<t>>
<1>1. Len(r) = 1 /\ r[1] = t
  BY HeldOne
<1> HIDE DEF r
<1>2. \A d \in 1 .. Len(r) : d = 1
  BY <1>1
<1>3. Placing(r, w)
  BY <1>1, <1>2 DEF Placing
<1> QED BY <1>3 DEF r

LEMMA NonePlaced ==
  ASSUME NEW w
  PROVE  Placing(<< >>, w)
BY HeldNothing DEF Placing

LEMMA StartPlaced ==
  ASSUME NEW i \in TypeIds, NEW w \in BOOLEAN, NEW body \in Bodies[i][w],
         NEW base \in Nat, NEW cap \in Nat, base + cap <= size, NEW obj
  PROVE  LET t == NewFrame(i, body, base, cap, obj, w) IN
         /\ Placed(t, w) /\ t.type = i
         /\ w /\ cap * ByteBits >= MaxBits[i] => t.err # TooSmall
         /\ ~w => t.err # TooSmall
<1> DEFINE t == NewFrame(i, body, base, cap, obj, w)
           room == cap * ByteBits
           most == MaxBits[i]
<1>1. /\ t.type = i /\ t.todo = body /\ t.off = 0 /\ t.cap = cap /\ t.base = base
      /\ t.err = IF w /\ room < most THEN TooSmall ELSE Ok
  BY DEF NewFrame
<1>2. IsBody(i, w, body) /\ (\A n \in 1 .. Len(body) : IsPlanned(i, body[n]))
      /\ (w => Leads(i, body, {0}, OffsetAtEnd[i]))
  BY BodiesAre, BodiesLead
<1>3. most \in Nat /\ room \in Nat
  BY EndsAre, WholeBytes
<1> HIDE DEF t
<1>4. ~InLoop(t)
  BY <1>1, <1>2 DEF InLoop, IsBody
<1>5. Ok # TooSmall
  BY DEF Ok, TooSmall
<1>6. w => OnCourse(t)
  BY <1>1, <1>2, <1>4 DEF OnCourse
<1>7. t.err = TooSmall => w /\ room < most
  BY <1>1, <1>5
<1>8. t.err = Ok => (w => room >= most)
  <2> HIDE DEF room, most
  <2> QED BY <1>1, <1>3, <1>5
<1>9. Placed(t, w)
  BY <1>1, <1>2, <1>4, <1>6, <1>7, <1>8 DEF Placed
<1>10. w /\ room >= most => t.err # TooSmall
  <2> HIDE DEF room, most
  <2> QED BY <1>3, <1>7
<1> QED BY <1>1, <1>7, <1>9, <1>10 DEF t

-----------------------------------------------------------------------------
(* The steps of a body keep it on its course.                              *)

(* A step inside a body leaves what the caller knows alone.                *)
LEMMA BodyPlaces ==
  ASSUME LInv, KInv', UNCHANGED callerVars, stack # << >>, Placing(stack', Writing)
  PROVE  LInv'
<1>1. phase' = phase /\ writer' = writer /\ size' = size
  BY DEF callerVars
<1>2. phase # "written"
  BY DEF LInv, KInv
<1>3. Placing(stack, Writing)'
  BY <1>1 DEF Placing, Placed, Writing
<1>4. LengthIsAnalysed'
  BY <1>1, <1>2 DEF LengthIsAnalysed
<1> QED BY <1>3, <1>4 DEF LInv

LEMMA AtPlaced ==
  ASSUME LInv, stack # << >>
  PROVE  /\ Writing \in BOOLEAN /\ AreFrames(stack, Writing) /\ FrameOK(Top, Writing)
         /\ Placing(stack, Writing) /\ Placed(Top, Writing) /\ IsFrame(Top) /\ Top.type \in TypeIds
         /\ Top.err = Ok => Top.off \in Nat
         /\ Top.todo # << >> => /\ Step = Top.todo[1] /\ IsStep(Top.type, Writing, Step)
                                /\ Step.kind \in {"field", "elements"} => IsFieldOf(Field)
<1>1. KInv /\ Placing(stack, Writing)
  BY DEF LInv
<1>2. Writing \in BOOLEAN /\ AreFrames(stack, Writing)
  BY <1>1 DEF Writing, KInv
<1>3. FrameOK(Top, Writing) /\ IsFrame(Top) /\ Top.type \in TypeIds
  BY <1>2, TopIs
<1>4. Placed(Top, Writing)
  BY <1>1, <1>2, PlacedTop
<1>5. Top.err = Ok => Top.off \in Nat
  BY <1>2, <1>3, FrameIs
<1>6. Top.todo # << >> => /\ Step = Top.todo[1] /\ IsStep(Top.type, Writing, Step)
                          /\ Step.kind \in {"field", "elements"} => IsFieldOf(Field)
  BY <1>1, AtTop
<1> QED BY <1>1, <1>2, <1>3, <1>4, <1>5, <1>6

(* The top frame is behind its step.                                       *)
LEMMA TopGoesPast ==
  ASSUME LInv, stack # << >>, Top.todo # << >>, NEW u, Keeps(Top, u),
         u.err = TooSmall => Top.err = TooSmall,
         Writing /\ u.err = Ok => Top.err = Ok,
         Writing /\ u.err = Ok /\ ~InLoop(Top) => u.off \in Beyond(Top.type, Step, {Top.off}),
         Writing /\ u.err = Ok /\ InLoop(Top) => u.off = Top.off /\ Top.loop.at = Top.loop.count
  PROVE  Placing(WithTop(Past(u)), Writing)
<1>1. /\ Writing \in BOOLEAN /\ AreFrames(stack, Writing) /\ FrameOK(Top, Writing)
      /\ Placing(stack, Writing) /\ Placed(Top, Writing) /\ Step = Top.todo[1]
  BY AtPlaced
<1>2. Placed(Past(u), Writing)
  BY <1>1, PlacedPast
<1>3. Past(u).type = Top.type /\ Past(u).err = u.err
  BY PastIs DEF Keeps
<1> QED BY <1>1, <1>2, <1>3, TopPlaced

LEMMA AdvancedFits ==
  ASSUME NEW t, IsFrame(t), NEW n, Fits(t, t.off, n)
  PROVE  Advanced(t, n).err = t.err
BY DEF IsFrame, Advanced

(* What the step ends at fits.                                             *)
LEMMA TopFits ==
  ASSUME LInv, stack # << >>, Top.todo # << >>, ~InLoop(Top), Top.err = Ok, Writing, NEW n \in Nat,
         Top.off + n \in Beyond(Top.type, Step, {Top.off})
  PROVE  Fits(Top, Top.off, n)
<1>1. /\ Writing \in BOOLEAN /\ FrameOK(Top, Writing) /\ Placed(Top, Writing)
      /\ Step = Top.todo[1] /\ Top.off \in Nat
  BY AtPlaced
<1>2. Top.off + n <= Top.off + n
  BY <1>1
<1> QED BY <1>1, <1>2, RoomFor

LEMMA TopAdvances ==
  ASSUME LInv, stack # << >>, Top.todo # << >>, ~InLoop(Top), Top.err = Ok, Writing, NEW n \in Nat,
         Top.off + n \in Beyond(Top.type, Step, {Top.off})
  PROVE  Placing(WithTop(Past(Advanced(Top, n))), Writing)
<1> DEFINE u == Advanced(Top, n)
<1>1. IsFrame(Top)
  BY AtPlaced
<1>2. Fits(Top, Top.off, n)
  BY TopFits
<1>3. Keeps(Top, u) /\ u.off = Top.off + n /\ u.err = Top.err
  BY <1>1, <1>2, AdvancedIs, AdvancedFits
<1> HIDE DEF u
<1>4. Placing(WithTop(Past(u)), Writing)
  BY <1>3, TopGoesPast
<1> QED BY <1>4 DEF u

(* A field that is neither an array nor a composite takes its bits.        *)
LEMMA ScalarPast ==
  ASSUME LInv, stack # << >>, Top.todo # << >>, Step.kind = "field", Top.err = Ok,
         ~IsArray(Field), ~IsComposite(Field)
  PROVE  Field.bits \in Nat /\ Top.off + Field.bits \in Beyond(Top.type, Step, {Top.off})
<1>1. /\ Writing \in BOOLEAN /\ Top.type \in TypeIds /\ Top.off \in Nat
      /\ IsStep(Top.type, Writing, Step) /\ IsFieldOf(Field)
  BY AtPlaced
<1>2. Field.bits \in Nat
  BY <1>1, ScalarMoves
<1> DEFINE one == ScalarLengths(Step.f, OffsetAtEnd)
<1>3. one = {Field.bits} /\ Beyond(Top.type, Step, {Top.off}) = SumOf({Top.off}, FieldLengths(Step.f, one))
  BY <1>1, TakesIs DEF Field
<1> HIDE DEF one
<1>4. FieldLengths(Step.f, one) = {Field.bits}
  BY <1>3 DEF FieldLengths, IsArray, Field
<1>5. Top.off + Field.bits \in SumOf({Top.off}, {Field.bits})
  BY DEF SumOf
<1> QED BY <1>2, <1>3, <1>4, <1>5

LEMMA WriteScalarPlaces ==
  ASSUME LInv, WriteScalar
  PROVE  Placing(stack', Writing)
<1>1. /\ stack # << >> /\ Top.todo # << >> /\ Step.kind = "field" /\ ~IsArray(Field) /\ ~IsComposite(Field)
      /\ stack' = WithTop(Past(Advanced(Top, Field.bits))) /\ Top.err = Ok /\ Writing
  BY DEF WriteScalar, AtField, AtStep, IsComposite, Healthy
<1>2. ~InLoop(Top)
  BY <1>1, AtPlaced DEF InLoop
<1> QED BY <1>1, <1>2, ScalarPast, TopAdvances

LEMMA ReadScalarPlaces ==
  ASSUME LInv, ReadScalar
  PROVE  Placing(stack', Writing)
<1>1. stack # << >> /\ Top.todo # << >> /\ ~Writing
  BY DEF ReadScalar, AtField, AtStep
<1>2. PICK v : stack' = WithTop(Past([WithMember(Top, v) EXCEPT !.off = @ + Field.bits]))
  BY DEF ReadScalar
<1>3. IsFrame(Top)
  BY <1>1, AtPlaced
<1> DEFINE m == WithMember(Top, v)
           u == [m EXCEPT !.off = @ + Field.bits]
<1>4. Keeps(Top, m) /\ m.err = Top.err
  BY <1>3, WithMemberIs
<1> HIDE DEF m
<1>5. Keeps(m, u) /\ u.err = m.err
  BY <1>4, MovedIs DEF Keeps
<1> HIDE DEF u
<1>6. Keeps(Top, u)
  BY <1>4, <1>5, KeepsOn
<1>7. Placing(WithTop(Past(u)), Writing)
  BY <1>1, <1>4, <1>5, <1>6, TopGoesPast
<1> QED BY <1>2, <1>7 DEF u, m

LEMMA ZeroBitsPlace ==
  ASSUME LInv, stack # << >>, Top.todo # << >>, ~InLoop(Top), NEW n, ZeroBits(n),
         Writing => Top.err = Ok /\ n \in Nat /\ Top.off + n \in Beyond(Top.type, Step, {Top.off})
  PROVE  Placing(stack', Writing)
<1>1. CASE Writing
  <2>1. stack' = WithTop(Past(Advanced(Top, n)))
    BY <1>1 DEF ZeroBits
  <2> QED BY <1>1, <2>1, TopAdvances
<1>2. CASE ~Writing
  <2> DEFINE u == [Top EXCEPT !.off = @ + n]
  <2>1. Keeps(Top, u) /\ u.err = Top.err
    BY AtPlaced, MovedIs
  <2>2. stack' = WithTop(Past(u))
    BY <1>2 DEF ZeroBits
  <2> HIDE DEF u
  <2> QED BY <1>2, <2>1, <2>2, TopGoesPast
<1> QED BY <1>1, <1>2

LEMMA PaddingPlaces ==
  ASSUME LInv, Padding
  PROVE  Placing(stack', Writing)
<1>1. /\ stack # << >> /\ Top.todo # << >> /\ Step.kind = "field" /\ Field.cat = "void"
      /\ ZeroBits(Field.bits) /\ (Writing => Top.err = Ok)
  BY DEF Padding, AtField, AtStep, Healthy, Unguarded
<1>2. IsFieldOf(Field) /\ ~InLoop(Top)
  BY <1>1, AtPlaced DEF InLoop
<1>3. ~IsArray(Field) /\ ~IsComposite(Field)
  BY <1>1, <1>2, FieldOf DEF IsComposite
<1>4. Writing => Field.bits \in Nat /\ Top.off + Field.bits \in Beyond(Top.type, Step, {Top.off})
  BY <1>1, <1>3, ScalarPast
<1> QED BY <1>1, <1>2, <1>4, ZeroBitsPlace

LEMMA PadFromResidue ==
  ASSUME NEW off \in Nat
  PROVE  /\ PadTo(off, ByteBits) - off \in Nat /\ off + (PadTo(off, ByteBits) - off) = PadTo(off, ByteBits)
         /\ PadTo(off % ByteBits, ByteBits) - (off % ByteBits) \in Nat
         /\ off + (PadTo(off % ByteBits, ByteBits) - (off % ByteBits)) = PadTo(off, ByteBits)
BY DEF PadTo, ByteBits

LEMMA AlignPlaces ==
  ASSUME LInv, Align
  PROVE  Placing(stack', Writing)
<1> DEFINE from == IF Step.known.residue = Unknown THEN Top.off ELSE Step.known.residue
           n == PadTo(from, ByteBits) - from
<1>1. /\ stack # << >> /\ Top.todo # << >> /\ Step.kind = "align" /\ ZeroBits(n)
      /\ Writing => Top.err = Ok
  BY DEF Align, AtStep, Healthy, Unguarded
<1>2. /\ ~InLoop(Top) /\ (Top.err = Ok => Top.off \in Nat)
      /\ Top.err = Ok => Knows(Step.known, Top.off)
  BY <1>1, AtPlaced, AtTop DEF InLoop, LInv
<1>3. ASSUME Writing PROVE n \in Nat /\ Top.off + n \in Beyond(Top.type, Step, {Top.off})
  <2>1. PICK off \in Nat : off = Top.off
    BY <1>1, <1>2, <1>3
  <2>2. from = off \/ from = off % ByteBits
    BY <1>1, <1>2, <1>3, <2>1 DEF Knows
  <2> HIDE DEF from
  <2>3. n \in Nat /\ off + n = PadTo(off, ByteBits)
    <3>1. CASE from = off
      BY <3>1, PadFromResidue, Zenon
    <3>2. CASE from = off % ByteBits
      BY <3>2, PadFromResidue, Zenon
    <3> QED BY <2>2, <3>1, <3>2
  <2>4. Beyond(Top.type, Step, {Top.off}) = {PadTo(off, ByteBits)}
    BY <1>1, <2>1 DEF Beyond, PaddedTo
  <2> QED BY <2>1, <2>3, <2>4
<1> HIDE DEF n
<1> QED BY <1>1, <1>2, <1>3, ZeroBitsPlace

LEMMA ImagePlaces ==
  ASSUME LInv, WriteImage \/ ReadImage
  PROVE  Placing(stack', Writing)
<1>1. stack # << >> /\ Top.todo # << >> /\ Step.kind = "move"
  BY DEF WriteImage, ReadImage, AtStep
<1>2. IsFrame(Top) /\ IsStep(Top.type, Writing, Step) /\ ~InLoop(Top) /\ Top.type \in TypeIds
  BY <1>1, AtPlaced DEF InLoop
<1>3. CASE WriteImage
  <2> DEFINE u == [Top EXCEPT !.off = @ + Step.bits]
  <2>1. Keeps(Top, u) /\ u.off = Top.off + Step.bits /\ u.err = Top.err
    BY <1>2, MovedIs
  <2>2. stack' = WithTop(Past(u))
    BY <1>3 DEF WriteImage
  <2> HIDE DEF u
  <2>3. Step.bits = MaxBits[Top.type]
    <3>1. IsMove(Top.type, Step)
      BY <1>1, <1>2, AtPlaced, PlainIs DEF IsStep, IsElements, IsTag
    <3> QED BY <3>1 DEF IsMove, Moved
  <2>4. Top.off + Step.bits \in Beyond(Top.type, Step, {Top.off})
    BY <1>1, <2>3 DEF Beyond, Takes, SumOf
  <2> QED BY <1>1, <1>2, <2>1, <2>2, <2>4, TopGoesPast
<1>4. CASE ReadImage
  <2>1. PICK obj : stack' = WithTop(Past([Top EXCEPT !.off = @ + Step.bits, !.obj = obj]))
    BY <1>4 DEF ReadImage
  <2> DEFINE u == [Top EXCEPT !.off = @ + Step.bits, !.obj = obj]
  <2>2. Keeps(Top, u) /\ u.err = Top.err
    BY <1>2 DEF Keeps, IsFrame
  <2>3. ~Writing
    BY <1>4 DEF ReadImage
  <2> HIDE DEF u
  <2>4. Placing(WithTop(Past(u)), Writing)
    BY <1>1, <2>2, <2>3, TopGoesPast
  <2> QED BY <2>1, <2>4 DEF u
<1> QED BY <1>3, <1>4

LEMMA SkipPlaces ==
  ASSUME LInv, Skip
  PROVE  Placing(stack', Writing)
<1>1. /\ stack # << >> /\ Top.todo # << >> /\ Top.err # Ok
      /\ stack' = WithTop(Past(Top))
  BY DEF Skip, Healthy
<1>2. Keeps(Top, Top)
  BY <1>1, AtPlaced DEF Keeps
<1> QED BY <1>1, <1>2, TopGoesPast

LEMMA EndArrayPlaces ==
  ASSUME LInv, EndArray
  PROVE  Placing(stack', Writing)
<1>1. /\ stack # << >> /\ Top.todo # << >> /\ Step.kind = "elements"
      /\ Top.err = Ok => Top.loop.at = Top.loop.count
      /\ stack' = WithTop(Past(Top))
  BY DEF EndArray, AtStep, Healthy
<1>2. Keeps(Top, Top) /\ InLoop(Top)
  BY <1>1, AtPlaced DEF Keeps, InLoop
<1> QED BY <1>1, <1>2, TopGoesPast

LEMMA TopSelectsPlaced ==
  ASSUME LInv, stack # << >>, Top.todo # << >>, Step.kind = "tag", NEW tag,
         NEW u, Keeps(Top, u), u.err = TooSmall => Top.err = TooSmall,
         u.err = Ok => Top.err = Ok /\ u.off = Top.off + Step.bits /\ tag + 1 \in DOMAIN Step.arms
  PROVE  Placing(WithTop(Selected(u, Step.arms, tag)), Writing)
<1>1. /\ Writing \in BOOLEAN /\ AreFrames(stack, Writing) /\ FrameOK(Top, Writing)
      /\ Placing(stack, Writing) /\ Placed(Top, Writing) /\ Step = Top.todo[1]
  BY AtPlaced
<1> DEFINE v == Selected(u, Step.arms, tag)
<1>2. /\ v.type = Top.type /\ v.cap = Top.cap /\ v.base = Top.base /\ v.off = u.off /\ v.err = u.err
      /\ v.todo = (IF tag + 1 \in DOMAIN Step.arms THEN Step.arms[tag + 1] ELSE << >>) \o Tail(Top.todo)
  BY DEF Selected, Keeps, IsFrame
<1> HIDE DEF v
<1>3. Placed(v, Writing)
  BY <1>1, <1>2, PlacedSelects
<1> QED BY <1>1, <1>2, <1>3, TopPlaced DEF v

LEMMA CheckedTagFails ==
  ASSUME NEW t, NEW arms, NEW tag, CheckedTag(t, arms, tag) = TooSmall
  PROVE  t.err = TooSmall
BY DEF CheckedTag, FoldError, BadUnionTag, TooSmall, Ok

LEMMA WriteTagPlaces ==
  ASSUME LInv, WriteTag
  PROVE  Placing(stack', Writing)
<1>1. stack # << >> /\ Top.todo # << >> /\ Step.kind = "tag" /\ Writing
  BY DEF WriteTag, AtStep
<1>2. IsFrame(Top) /\ FrameOK(Top, Writing) /\ Placed(Top, Writing) /\ Step = Top.todo[1] /\ Writing \in BOOLEAN
  BY <1>1, AtPlaced
<1> DEFINE tag == TagValue(Top.obj.tag, Step.bits)
           t == [Top EXCEPT !.err = CheckedTag(Top, Step.arms, tag)]
           u == Advanced(t, Step.bits)
<1>3. stack' = IF t.err = Ok THEN WithTop(Selected(u, Step.arms, tag))
               ELSE WithTop(Selected(t, Step.arms, tag))
  BY DEF WriteTag
<1>4. Keeps(Top, t) /\ t.off = Top.off /\ t.err = CheckedTag(Top, Step.arms, tag)
  BY <1>2, FailedIs
<1> HIDE DEF tag
<1>5. /\ t.err = Ok => Top.err = Ok /\ tag + 1 \in DOMAIN Step.arms
      /\ t.err = TooSmall => Top.err = TooSmall
  <2> HIDE DEF t
  <2> QED BY <1>4, CheckedTagIs, CheckedTagFails
<1> HIDE DEF t
<1>6. Keeps(t, u) /\ u.off = t.off + Step.bits
  BY <1>4, AdvancedIs DEF Keeps
<1>7. t.err = Ok => u.err = Ok
  <2>1. ASSUME t.err = Ok PROVE Fits(Top, Top.off, Step.bits)
    <3>1. DOMAIN Step.arms = DOMAIN Fields[Top.type]
      BY <1>1, <1>2, TagIsFirst
    <3>2. tag + 1 \in DOMAIN Fields[Top.type]
      BY <1>5, <2>1, <3>1
    <3> QED BY <1>1, <1>2, <1>5, <2>1, <3>2, RoomForTag
  <2>2. t.err = Ok => Fits(t, t.off, Step.bits)
    BY <1>4, <2>1 DEF Fits, Keeps
  <2> QED BY <1>4, <2>2, AdvancedFits DEF Keeps
<1> HIDE DEF u
<1>8. Keeps(Top, u)
  BY <1>4, <1>6, KeepsOn
<1>9. ASSUME t.err = Ok PROVE Placing(WithTop(Selected(u, Step.arms, tag)), Writing)
  <2>1. u.err # TooSmall
    BY <1>7, <1>9 DEF Ok, TooSmall
  <2>2. Top.err = Ok /\ u.off = Top.off + Step.bits /\ tag + 1 \in DOMAIN Step.arms
    BY <1>4, <1>5, <1>6, <1>9
  <2> QED BY <1>1, <1>8, <2>1, <2>2, TopSelectsPlaced
<1>10. t.err # Ok => Placing(WithTop(Selected(t, Step.arms, tag)), Writing)
  BY <1>1, <1>4, <1>5, TopSelectsPlaced
<1> QED BY <1>3, <1>9, <1>10

LEMMA ReadTagPlaces ==
  ASSUME LInv, ReadTag
  PROVE  Placing(stack', Writing)
<1>1. stack # << >> /\ Top.todo # << >> /\ Step.kind = "tag" /\ ~Writing
  BY DEF ReadTag, AtStep
<1>2. IsFrame(Top)
  BY <1>1, AtPlaced
<1> DEFINE tag == ReadAt(Top, Top.off, Step.bits)
           t == [Top EXCEPT !.err = CheckedTag(Top, Step.arms, tag)]
           obj == [tag |-> tag, value |-> StaleMember(Fields[t.type][tag + 1])]
           u == [t EXCEPT !.off = @ + Step.bits, !.obj = obj]
<1>3. stack' = IF t.err = Ok THEN WithTop(Selected(u, Step.arms, tag))
               ELSE WithTop(Selected(t, Step.arms, tag))
  BY DEF ReadTag
<1>4. Keeps(Top, t) /\ t.off = Top.off /\ t.err = CheckedTag(Top, Step.arms, tag)
  BY <1>2, FailedIs
<1> HIDE DEF tag
<1>5. /\ t.err = Ok => Top.err = Ok /\ tag + 1 \in DOMAIN Step.arms
      /\ t.err = TooSmall => Top.err = TooSmall
  <2> HIDE DEF t
  <2> QED BY <1>4, CheckedTagIs, CheckedTagFails
<1> HIDE DEF t, obj
<1>6. Keeps(t, u) /\ u.off = t.off + Step.bits /\ u.err = t.err
  BY <1>4 DEF Keeps, IsFrame
<1> HIDE DEF u
<1>7. Keeps(Top, u)
  BY <1>4, <1>6, KeepsOn
<1>8. Placing(WithTop(Selected(u, Step.arms, tag)), Writing)
  BY <1>1, <1>4, <1>5, <1>6, <1>7, TopSelectsPlaced
<1>9. t.err # Ok => Placing(WithTop(Selected(t, Step.arms, tag)), Writing)
  BY <1>1, <1>4, <1>5, TopSelectsPlaced
<1> QED BY <1>3, <1>8, <1>9

(* An array that is longer than it may be.                                 *)
LEMMA TooLongPlaces ==
  ASSUME LInv, stack # << >>, Top.todo # << >>, NEW u, Keeps(Top, u), u.err = BadArrayLength
  PROVE  Placing(WithTop(Past(u)), Writing)
<1>1. u.err # Ok /\ u.err # TooSmall
  BY DEF BadArrayLength, Ok, TooSmall
<1> QED BY <1>1, TopGoesPast

(* The count of an array is behind.                                        *)
LEMMA CountPlaces ==
  ASSUME LInv, stack # << >>, Top.todo # << >>, Step.kind = "field", IsArray(Field), Top.err = Ok,
         NEW count \in Nat, Field.array = "fixed" => count = Field.cap, ~TooLong(Field, count),
         NEW u, Keeps(Top, u), u.err = Ok, u.off = Top.off + LengthPrefixBits(Field)
  PROVE  Placing(WithTop([u EXCEPT !.loop = [at |-> 0, count |-> count],
                                   !.todo = <<[Step EXCEPT !.kind = "elements"]>> \o Tail(@)]), Writing)
<1>1. /\ Writing \in BOOLEAN /\ AreFrames(stack, Writing) /\ FrameOK(Top, Writing)
      /\ Placing(stack, Writing) /\ Placed(Top, Writing) /\ Step = Top.todo[1] /\ Field = Top.todo[1].f
  BY AtPlaced DEF Field
<1> DEFINE e == <<[Step EXCEPT !.kind = "elements"]>>
<1>2. e = <<Elements(Top.todo[1])>>
  BY <1>1 DEF Elements
<1> HIDE DEF e
<1> DEFINE v == [u EXCEPT !.loop = [at |-> 0, count |-> count], !.todo = e \o Tail(@)]
<1>3. /\ v.type = Top.type /\ v.cap = Top.cap /\ v.base = Top.base
      /\ v.todo = e \o Tail(Top.todo) /\ v.loop.at = 0 /\ v.loop.count = count
      /\ v.off = u.off /\ v.err = u.err
  BY DEF Keeps, IsFrame
<1> HIDE DEF v
<1>4. Placed(v, Writing)
  BY <1>1, <1>2, <1>3, PlacedStartsLoop
<1>5. v.err # TooSmall
  BY <1>3 DEF Ok, TooSmall
<1>6. Placing(WithTop(v), Writing)
  BY <1>1, <1>3, <1>4, <1>5, TopPlaced
<1> QED BY <1>6 DEF v, e

(* What the run of a bool array takes.                                     *)
LEMMA BoolsTake ==
  ASSUME LInv, stack # << >>, Top.todo # << >>, Step.kind = "field", IsArray(Field), Top.err = Ok,
         Field.cat = "bool", NEW count \in Nat, Field.array = "fixed" => count = Field.cap,
         ~TooLong(Field, count)
  PROVE  (Top.off + LengthPrefixBits(Field)) + count \in Beyond(Top.type, Step, {Top.off})
<1>1. /\ Writing \in BOOLEAN /\ FrameOK(Top, Writing) /\ Step = Top.todo[1] /\ Field = Top.todo[1].f
      /\ IsFieldOf(Field) /\ IsStep(Top.type, Writing, Step) /\ Top.type \in TypeIds
  BY AtPlaced DEF Field
<1>2. Field.bits = 1 /\ ~IsComposite(Field)
  BY <1>1, FieldOf DEF IsField, IsComposite
<1> DEFINE one == ScalarLengths(Field, OffsetAtEnd)
           past == Top.off + LengthPrefixBits(Field)
<1>3. one = {1}
  BY <1>1, <1>2, TakesIs
<1>4. SumOf({past}, Repeated(one, count)) \subseteq Beyond(Top.type, Step, {Top.off})
  BY <1>1, CountedPast
<1> HIDE DEF one, past
<1>5. count \in Repeated(one, count)
  BY <1>3, RepeatedBits
<1>6. past + count \in SumOf({past}, Repeated(one, count))
  BY <1>5 DEF SumOf
<1> QED BY <1>4, <1>6 DEF past

(* The run of a bool array is behind.                                      *)
LEMMA BoolsPlace ==
  ASSUME LInv, stack # << >>, Top.todo # << >>, Step.kind = "field", IsArray(Field), Top.err = Ok,
         Field.cat = "bool", NEW count \in Nat, Field.array = "fixed" => count = Field.cap,
         ~TooLong(Field, count), NEW u, Keeps(Top, u), u.err = Ok,
         u.off = (Top.off + LengthPrefixBits(Field)) + count
  PROVE  Placing(WithTop(Past(u)), Writing)
<1>1. u.off \in Beyond(Top.type, Step, {Top.off})
  BY BoolsTake
<1>2. ~InLoop(Top) /\ u.err # TooSmall
  BY AtPlaced DEF InLoop, Ok, TooSmall
<1> QED BY <1>1, <1>2, TopGoesPast

(* The count a writer announces.                                           *)
LEMMA CountIs ==
  ASSUME LInv, stack # << >>, Top.todo # << >>, Step.kind = "field", Writing, IsArray(Field)
  PROVE  (IF Field.array = "fixed" THEN Field.cap ELSE Len(Member(Top))) \in Nat
<1>1. FrameOK(Top, TRUE) /\ IsFieldOf(Field) /\ Step = Top.todo[1]
  BY AtPlaced
<1>2. IsField(Field)
  BY <1>1, FieldOf
<1>3. IsValue(Field, Member(Top))
  BY <1>1, MemberIs DEF FrameOK, Field
<1> QED BY <1>2, <1>3 DEF IsValue, IsSequence, IsField, IsArray

LEMMA WriteArrayPlaces ==
  ASSUME LInv, WriteArray
  PROVE  Placing(stack', Writing)
<1>1. /\ stack # << >> /\ Top.todo # << >> /\ Step.kind = "field" /\ Writing /\ Top.err = Ok
      /\ IsArray(Field)
  BY DEF WriteArray, AtField, AtStep, Healthy
<1> DEFINE count == IF Field.array = "fixed" THEN Field.cap ELSE Len(Member(Top))
           t == Advanced(Top, LengthPrefixBits(Field))
           b == [t EXCEPT !.off = @ + count]
           e == [Top EXCEPT !.err = BadArrayLength]
<1>2. stack' = IF TooLong(Field, count) THEN WithTop(Past(e))
               ELSE IF Field.cat = "bool" THEN WithTop(Past(b))
               ELSE WithTop([t EXCEPT !.loop = [at |-> 0, count |-> count],
                                      !.todo = <<[Step EXCEPT !.kind = "elements"]>> \o Tail(@)])
  BY DEF WriteArray
<1>3. /\ IsFrame(Top) /\ Step = Top.todo[1]
      /\ Writing \in BOOLEAN /\ FrameOK(Top, Writing) /\ Placed(Top, Writing)
  BY <1>1, AtPlaced
<1>5. count \in Nat
  BY <1>1, CountIs
<1>6. Field.array = "fixed" => count = Field.cap
  OBVIOUS
<1> HIDE DEF count
<1>7. Keeps(Top, t) /\ t.off = Top.off + LengthPrefixBits(Field)
  BY <1>3, AdvancedIs
<1>8. ~TooLong(Field, count) => t.err = Ok
  <2>1. ~TooLong(Field, count) => Fits(Top, Top.off, LengthPrefixBits(Field))
    BY <1>1, <1>3, <1>5, <1>6, RoomForCount DEF Field
  <2> QED BY <1>1, <1>3, <2>1, AdvancedFits
<1>9. Keeps(Top, e) /\ e.err = BadArrayLength
  BY <1>3, FailedIs
<1> HIDE DEF t, e
<1>10. Keeps(t, b) /\ b.off = t.off + count /\ b.err = t.err
  BY <1>7, MovedIs DEF Keeps
<1> HIDE DEF b
<1>11. Keeps(Top, b)
  BY <1>7, <1>10, KeepsOn
<1>12. Placing(WithTop(Past(e)), Writing)
  BY <1>1, <1>9, TooLongPlaces
<1>13. ASSUME Field.cat = "bool", ~TooLong(Field, count) PROVE Placing(WithTop(Past(b)), Writing)
  BY <1>1, <1>5, <1>6, <1>7, <1>8, <1>10, <1>11, <1>13, BoolsPlace
<1>14. ASSUME ~TooLong(Field, count)
       PROVE  Placing(WithTop([t EXCEPT !.loop = [at |-> 0, count |-> count],
                                        !.todo = <<[Step EXCEPT !.kind = "elements"]>> \o Tail(@)]), Writing)
  BY <1>1, <1>5, <1>6, <1>7, <1>8, <1>14, CountPlaces
<1> QED BY <1>2, <1>12, <1>13, <1>14

LEMMA ReadArrayPlaces ==
  ASSUME LInv, ReadArray
  PROVE  Placing(stack', Writing)
<1>1. /\ stack # << >> /\ Top.todo # << >> /\ Step.kind = "field" /\ ~Writing /\ Top.err = Ok
      /\ IsArray(Field)
  BY DEF ReadArray, AtField, AtStep, Healthy
<1> DEFINE prefix == LengthPrefixBits(Field)
           count == IF Field.array = "fixed" THEN Field.cap ELSE ReadAt(Top, Top.off, prefix)
           t == [Top EXCEPT !.off = @ + prefix]
           e == [t EXCEPT !.err = BadArrayLength]
           sized == IF Field.array = "fixed" THEN t ELSE WithMember(t, StaleOfLength(Field, count))
<1>2. PICK bools :
        stack' = WithTop(
             IF TooLong(Field, count) THEN Past(e)
             ELSE IF Field.cat = "bool" THEN Past([WithMember(t, bools) EXCEPT !.off = @ + count])
             ELSE [sized EXCEPT !.loop = [at |-> 0, count |-> count],
                                !.todo = <<[Step EXCEPT !.kind = "elements"]>> \o Tail(@)])
  BY Zenon DEF ReadArray
<1>3. IsFrame(Top) /\ IsFieldOf(Field)
  BY <1>1, AtPlaced
<1>4. IsField(Field) /\ prefix \in Nat
  BY <1>3, FieldOf
<1> HIDE DEF prefix
<1>5. count \in Nat
  <2>1. ReadAt(Top, Top.off, prefix) \in Nat
    BY <1>4, BitsAtIs DEF ReadAt
  <2> QED BY <1>1, <1>4, <2>1 DEF IsField, IsArray
<1>6. Field.array = "fixed" => count = Field.cap
  OBVIOUS
<1> HIDE DEF count
<1>7. Keeps(Top, t) /\ t.off = Top.off + prefix /\ t.err = Top.err
  BY <1>3, MovedIs
<1> HIDE DEF t
<1>8. Keeps(t, e) /\ e.err = BadArrayLength
  BY <1>7, FailedIs DEF Keeps
<1>9. Keeps(t, sized) /\ sized.off = t.off /\ sized.err = t.err
  BY <1>7, WithMemberIs DEF Keeps
<1> DEFINE m == WithMember(t, bools)
           b == [m EXCEPT !.off = @ + count]
<1>10. Keeps(t, m) /\ m.err = t.err
  BY <1>7, WithMemberIs DEF Keeps
<1> HIDE DEF e, sized, m
<1>11. Keeps(m, b) /\ b.err = m.err
  BY <1>10, MovedIs DEF Keeps
<1> HIDE DEF b
<1>12. Keeps(Top, e) /\ Keeps(Top, sized) /\ Keeps(Top, m)
  BY <1>7, <1>8, <1>9, <1>10, KeepsOn
<1>13. Keeps(Top, b)
  BY <1>11, <1>12, KeepsOn
<1>14. Placing(WithTop(Past(e)), Writing)
  BY <1>1, <1>8, <1>12, TooLongPlaces
<1>15. Placing(WithTop(Past(b)), Writing)
  BY <1>1, <1>7, <1>10, <1>11, <1>13, TopGoesPast
<1>16. ASSUME ~TooLong(Field, count)
       PROVE  Placing(WithTop([sized EXCEPT !.loop = [at |-> 0, count |-> count],
                                            !.todo = <<[Step EXCEPT !.kind = "elements"]>> \o Tail(@)]), Writing)
  BY <1>1, <1>5, <1>6, <1>7, <1>9, <1>12, <1>16, CountPlaces DEF prefix
<1> QED BY <1>2, <1>14, <1>15, <1>16 DEF b, m

(* The loop over elements is past one.                                     *)
LEMMA TopLoopsPlaced ==
  ASSUME LInv, stack # << >>, Top.todo # << >>, Step.kind = "elements", Top.err = Ok,
         Top.loop.at < Top.loop.count, ~IsComposite(Field),
         NEW u, Keeps(Top, u), u.err = Ok, u.off = Top.off + Field.bits
  PROVE  Placing(WithTop([u EXCEPT !.loop.at = @ + 1]), Writing)
<1>1. /\ Writing \in BOOLEAN /\ AreFrames(stack, Writing) /\ FrameOK(Top, Writing) /\ IsFrame(Top)
      /\ Placing(stack, Writing) /\ Placed(Top, Writing) /\ Step = Top.todo[1] /\ Field = Top.todo[1].f
      /\ IsFieldOf(Field) /\ IsStep(Top.type, Writing, Step) /\ Top.type \in TypeIds
  BY AtPlaced DEF Field
<1> DEFINE v == [u EXCEPT !.loop.at = @ + 1]
<1>2. /\ v.type = Top.type /\ v.cap = Top.cap /\ v.base = Top.base
      /\ v.todo = Top.todo /\ v.loop.at = Top.loop.at + 1 /\ v.loop.count = Top.loop.count
      /\ v.off = u.off /\ v.err = u.err
  BY <1>1 DEF Keeps, IsFrame
<1> HIDE DEF v
<1>3. Field.bits \in Nat
  BY <1>1, ScalarMoves
<1>4. Field.bits \in ScalarLengths(Field, OffsetAtEnd)
  BY DEF ScalarLengths
<1>5. InLoop(Top) /\ v.err = Ok /\ v.err # TooSmall
  BY <1>1, <1>2 DEF InLoop, Ok, TooSmall
<1>6. Placed(v, Writing)
  BY <1>1, <1>2, <1>3, <1>4, <1>5, PlacedLoops
<1>7. Placing(WithTop(v), Writing)
  BY <1>1, <1>2, <1>5, <1>6, TopPlaced
<1> QED BY <1>7 DEF v

LEMMA WriteElementPlaces ==
  ASSUME LInv, WriteElement
  PROVE  Placing(stack', Writing)
<1>1. /\ stack # << >> /\ Top.todo # << >> /\ Step.kind = "elements" /\ Top.err = Ok /\ Writing
      /\ ~IsComposite(Field) /\ Top.loop.at < Top.loop.count
      /\ stack' = WithTop([Advanced(Top, Field.bits) EXCEPT !.loop.at = @ + 1])
  BY DEF WriteElement, AtElement, AtStep, Healthy
<1>2. /\ IsFrame(Top) /\ Writing \in BOOLEAN /\ FrameOK(Top, Writing) /\ Placed(Top, Writing)
      /\ Step = Top.todo[1] /\ Field = Top.todo[1].f
  BY <1>1, AtPlaced DEF Field
<1>3. Fits(Top, Top.off, Field.bits)
  <2>1. Field.bits \in ScalarLengths(Field, OffsetAtEnd)
    BY <1>1 DEF ScalarLengths
  <2>2. InLoop(Top)
    BY <1>1, <1>2 DEF InLoop
  <2> QED BY <1>1, <1>2, <2>1, <2>2, LoopLess
<1> DEFINE u == Advanced(Top, Field.bits)
<1>4. Keeps(Top, u) /\ u.off = Top.off + Field.bits /\ u.err = Top.err
  BY <1>2, <1>3, AdvancedIs, AdvancedFits
<1> HIDE DEF u
<1>5. Placing(WithTop([u EXCEPT !.loop.at = @ + 1]), Writing)
  BY <1>1, <1>4, TopLoopsPlaced
<1> QED BY <1>1, <1>5 DEF u

LEMMA ReadElementPlaces ==
  ASSUME LInv, ReadElement
  PROVE  Placing(stack', Writing)
<1>1. /\ stack # << >> /\ Top.todo # << >> /\ Step.kind = "elements" /\ Top.err = Ok
      /\ ~IsComposite(Field) /\ Top.loop.at < Top.loop.count
  BY DEF ReadElement, AtElement, AtStep, Healthy
<1>2. PICK v : stack' = WithTop([WithElement(Top, Field, v) EXCEPT
                           !.off = @ + Field.bits, !.loop.at = @ + 1])
  BY DEF ReadElement
<1>3. IsFrame(Top)
  BY <1>1, AtPlaced
<1> DEFINE m == WithElement(Top, Field, v)
           u == [m EXCEPT !.off = @ + Field.bits]
<1>4. Keeps(Top, m) /\ m.off = Top.off /\ m.err = Top.err
  BY <1>3, WithElementIs
<1> HIDE DEF m
<1>5. Keeps(m, u) /\ u.off = m.off + Field.bits /\ u.err = m.err
  BY <1>4, MovedIs DEF Keeps
<1>6. [m EXCEPT !.off = @ + Field.bits, !.loop.at = @ + 1] = [u EXCEPT !.loop.at = @ + 1]
  BY <1>4 DEF Keeps, IsFrame
<1> HIDE DEF u
<1>7. Keeps(Top, u)
  BY <1>4, <1>5, KeepsOn
<1>8. Placing(WithTop([u EXCEPT !.loop.at = @ + 1]), Writing)
  BY <1>1, <1>4, <1>5, <1>7, TopLoopsPlaced
<1> QED BY <1>2, <1>6, <1>8 DEF m

-----------------------------------------------------------------------------
(* Nested composites have a buffer that holds them.                        *)

(* What a composite takes of its container.                                *)
LEMMA CompositeTakes ==
  ASSUME NEW i \in TypeIds, NEW w \in BOOLEAN, NEW s, IsStep(i, w, s), s.kind \in {"field", "elements"},
         IsComposite(s.f)
  PROVE  /\ s.f.ref \in TypeIds
         /\ IsSealed[s.f.ref] => ScalarLengths(s.f, OffsetAtEnd) = OffsetAtEnd[s.f.ref]
         /\ ~IsSealed[s.f.ref] =>
               \A n \in Nat : n * ByteBits <= Types[s.f.ref].extent
                                => HeaderBits + n * ByteBits \in ScalarLengths(s.f, OffsetAtEnd)
<1>1. s.f.ref \in TypeIds
  BY StepIs, FieldOf DEF IsOfField
<1>2. IsSealed[s.f.ref] => ScalarLengths(s.f, OffsetAtEnd) = OffsetAtEnd[s.f.ref]
  BY TakesIs
<1>3. ASSUME ~IsSealed[s.f.ref], NEW n \in Nat, n * ByteBits <= Types[s.f.ref].extent
      PROVE  HeaderBits + n * ByteBits \in ScalarLengths(s.f, OffsetAtEnd)
  <2> DEFINE most == Types[s.f.ref].extent \div ByteBits
  <2>1. ScalarLengths(s.f, OffsetAtEnd) = {HeaderBits + ByteBits * m : m \in 0 .. most}
    BY <1>3, TakesIs
  <2>2. Types[s.f.ref].extent \in Nat
    BY <1>1, LayoutConstants
  <2>3. n \in 0 .. most
    BY <1>3, <2>2 DEF ByteBits
  <2> HIDE DEF most
  <2>4. n * ByteBits = ByteBits * n
    BY DEF ByteBits
  <2> QED BY <2>1, <2>3, <2>4
<1> QED BY <1>1, <1>2, <1>3

(* Behind a nested composite a frame is still of its definition.           *)
LEMMA PastNestedIs ==
  ASSUME NEW t, NEW u, Keeps(t, u), NEW f, NEW off, NEW err
  PROVE  PastNested(u, f, off, err).type = t.type /\ PastNested(u, f, off, err).err = err
<1> DEFINE moved == [u EXCEPT !.off = off, !.err = err]
<1>1. IsFrame(moved) /\ moved.type = t.type /\ moved.err = err
  BY DEF Keeps, IsFrame
<1>2. PastNested(u, f, off, err) = IF IsArray(f) THEN [moved EXCEPT !.loop.at = @ + 1] ELSE Past(moved)
  BY Zenon DEF PastNested
<1> HIDE DEF moved
<1>3. Past(moved).type = t.type /\ Past(moved).err = err
  BY <1>1, PastIs
<1>4. [moved EXCEPT !.loop.at = @ + 1].type = t.type /\ [moved EXCEPT !.loop.at = @ + 1].err = err
  BY <1>1 DEF IsFrame
<1> QED BY <1>2, <1>3, <1>4

(* The body that meets a composite, and the loop it is in.                 *)
LEMMA NestedAt ==
  ASSUME LInv, AtNested
  PROVE  /\ KInv /\ stack # << >> /\ Writing \in BOOLEAN /\ AreFrames(stack, Writing)
         /\ FrameOK(Top, Writing) /\ Placing(stack, Writing) /\ Placed(Top, Writing)
         /\ Field = Top.todo[1].f /\ IsComposite(Field) /\ Field.ref \in TypeIds
         /\ Waiting(Top, Field.ref) /\ IsFrame(Top) /\ Top.type \in TypeIds
         /\ IsStep(Top.type, Writing, Top.todo[1]) /\ Top.todo[1].kind \in {"field", "elements"}
         /\ Top.off \in Nat /\ Top.off % ByteBits = 0
         /\ Top.cap \in Nat /\ Top.base \in Nat /\ Top.base + Top.cap <= size
         /\ InLoop(Top) => Top.loop.at < Top.loop.count
<1>1. /\ KInv /\ stack # << >> /\ Writing \in BOOLEAN /\ AreFrames(stack, Writing) /\ FrameOK(Top, Writing)
      /\ Field = Top.todo[1].f /\ IsComposite(Field) /\ Field.ref \in TypeIds
      /\ Waiting(Top, Field.ref) /\ IsFrame(Top)
  BY NestedIs DEF LInv
<1>2. /\ Placing(stack, Writing) /\ Placed(Top, Writing) /\ Top.type \in TypeIds
      /\ Top.todo # << >> /\ Step = Top.todo[1] /\ IsStep(Top.type, Writing, Top.todo[1])
  BY <1>1, AtPlaced DEF Waiting
<1>3. Top.todo[1].kind \in {"field", "elements"} /\ Top.err = Ok
  BY <1>1 DEF Waiting
<1>4. Top.off \in Nat /\ Top.off % ByteBits = 0
  BY <1>1, <1>2, <1>3, PlacedOnByte
<1>5. InLoop(Top) => Top.loop.at < Top.loop.count
  BY <1>2 DEF AtNested, AtField, AtStep, InLoop
<1> QED BY <1>1, <1>2, <1>3, <1>4, <1>5 DEF Placed

(* What is left of a buffer behind whole bytes.                            *)
LEMMA LeftOf ==
  ASSUME NEW cap \in Nat, NEW at \in Nat, at % ByteBits = 0, NEW n \in Nat, at + n <= cap * ByteBits
  PROVE  cap - at \div ByteBits \in Nat /\ (cap - at \div ByteBits) * ByteBits >= n
<1>1. PICK b \in Nat : at = ByteBits * b /\ at \div ByteBits = b
  BY DEF ByteBits
<1>2. ByteBits * b + n <= cap * ByteBits
  BY <1>1
<1>3. cap - b \in Nat /\ (cap - b) * ByteBits >= n
  BY <1>2 DEF ByteBits
<1> QED BY <1>1, <1>3

(* Where a composite starts in its container.                              *)
LEMMA StartsAtAByte ==
  ASSUME NEW t, t.cap \in Nat, NEW at \in Nat, NEW w \in BOOLEAN
  PROVE  ByteAt(t, at, w) \in Nat
<1>1. at \div ByteBits \in Nat
  BY DEF ByteBits
<1> QED BY <1>1 DEF ByteAt

(* The composite's own body starts with room for it.                       *)
LEMMA CallPlaces ==
  ASSUME LInv, AtNested, NEW body \in Bodies[Field.ref][Writing], NEW base \in Nat, NEW cap \in Nat,
         base + cap <= size, Writing => cap * ByteBits >= MaxBits[Field.ref]
  PROVE  Placing(Append(stack, NewFrame(Field.ref, body, base, cap, Element(Top, Field), Writing)), Writing)
<1>1. /\ stack # << >> /\ Writing \in BOOLEAN /\ AreFrames(stack, Writing) /\ Placing(stack, Writing)
      /\ Field.ref \in TypeIds /\ (InLoop(Top) => Top.loop.at < Top.loop.count)
  BY NestedAt
<1> DEFINE t == NewFrame(Field.ref, body, base, cap, Element(Top, Field), Writing)
<1>2. Placed(t, Writing) /\ t.err # TooSmall
  BY <1>1, StartPlaced
<1> HIDE DEF t
<1>3. Placing(Append(stack, t), Writing)
  BY <1>1, <1>2, CalledPlaced
<1> QED BY <1>3 DEF t

(* What a writer leaves to the composite it calls holds the longest one.   *)
LEMMA RoomLeft ==
  ASSUME LInv, AtNested, Writing, NEW h \in Nat, h % ByteBits = 0, NEW n \in Nat,
         h + n \in ScalarLengths(Field, OffsetAtEnd)
  PROVE  /\ Top.cap - (Top.off + h) \div ByteBits \in Nat
         /\ (Top.cap - (Top.off + h) \div ByteBits) * ByteBits >= n
<1>1. /\ FrameOK(Top, Writing) /\ Placed(Top, Writing) /\ Writing \in BOOLEAN
      /\ Field = Top.todo[1].f /\ Waiting(Top, Field.ref)
      /\ Top.off \in Nat /\ Top.off % ByteBits = 0 /\ Top.cap \in Nat
      /\ InLoop(Top) => Top.loop.at < Top.loop.count
  BY NestedAt
<1>2. h + n \in ScalarLengths(Top.todo[1].f, OffsetAtEnd)
  BY <1>1
<1>3. Fits(Top, Top.off, h + n)
  BY <1>1, <1>2, NestedRoom
<1>4. PICK off \in Nat : off = Top.off
  BY <1>1
<1>5. PICK cap \in Nat : cap = Top.cap
  BY <1>1
<1>6. off + (h + n) <= cap * ByteBits
  BY <1>3, <1>4, <1>5 DEF Fits
<1>7. off + h \in Nat /\ (off + h) % ByteBits = 0
  BY <1>1, <1>4, WholeAndWhole
<1>8. cap * ByteBits \in Nat
  BY WholeBytes
<1>9. (off + h) + n <= cap * ByteBits
  BY <1>6, <1>8
<1>10. cap - (off + h) \div ByteBits \in Nat /\ (cap - (off + h) \div ByteBits) * ByteBits >= n
  BY <1>7, <1>9, LeftOf
<1> QED BY <1>4, <1>5, <1>10

LEMMA EnterSealedPlaces ==
  ASSUME LInv, EnterSealed
  PROVE  Placing(stack', Writing)
<1>1. AtNested /\ IsSealed[Field.ref]
  BY DEF EnterSealed
<1> DEFINE taken == ByteAt(Top, Top.off, Writing)
           cap == Top.cap - taken
<1>2. PICK body \in Bodies[Field.ref][Writing] :
        stack' = Append(stack, NewFrame(Field.ref, body, Top.base + taken, cap,
                                        Element(Top, Field), Writing))
  BY DEF EnterSealed
<1>3. /\ KInv /\ Writing \in BOOLEAN /\ Field = Top.todo[1].f /\ IsComposite(Field)
      /\ Field.ref \in TypeIds /\ Top.off \in Nat /\ Top.type \in TypeIds
      /\ IsStep(Top.type, Writing, Top.todo[1]) /\ Top.todo[1].kind \in {"field", "elements"}
  BY <1>1, NestedAt
<1>4. ~Writing => cap \in Nat
  BY <1>1, <1>3, RoomIs
<1>5. ASSUME Writing PROVE cap \in Nat /\ cap * ByteBits >= MaxBits[Field.ref]
  <2>1. cap = Top.cap - (Top.off + 0) \div ByteBits
    BY <1>3, <1>5 DEF ByteAt
  <2>2. MaxBits[Field.ref] \in Nat /\ 0 + MaxBits[Field.ref] \in ScalarLengths(Field, OffsetAtEnd)
    <3>1. MaxBits[Field.ref] \in Nat /\ MaxBits[Field.ref] \in OffsetAtEnd[Field.ref]
      BY <1>3, EndsAre
    <3>2. ScalarLengths(Field, OffsetAtEnd) = OffsetAtEnd[Field.ref]
      BY <1>1, <1>3, CompositeTakes
    <3> QED BY <3>1, <3>2
  <2>3. 0 % ByteBits = 0
    BY DEF ByteBits
  <2> HIDE DEF cap
  <2> QED BY <1>1, <1>5, <2>1, <2>2, <2>3, RoomLeft
<1>6. cap \in Nat
  BY <1>3, <1>4, <1>5
<1>7. taken \in Nat
  BY <1>1, <1>3, NestedAt, StartsAtAByte
<1>8. Top.base + taken \in Nat /\ (Top.base + taken) + cap <= size
  <2>1. PICK base \in Nat : base = Top.base /\ base + Top.cap <= size
    BY <1>1, NestedAt
  <2>2. PICK all \in Nat : all = Top.cap /\ size \in Nat
    BY <1>1, NestedAt DEF KInv
  <2>3. cap \in Nat /\ cap = all - taken
    BY <1>6, <2>2
  <2> HIDE DEF taken, cap
  <2>4. base + taken \in Nat /\ (base + taken) + cap <= size
    BY <1>7, <2>1, <2>2, <2>3
  <2> QED BY <2>1, <2>4
<1> HIDE DEF taken, cap
<1> QED BY <1>1, <1>2, <1>5, <1>6, <1>8, CallPlaces

(* The header of a delimited composite, and the longest one behind it.     *)
LEMMA ExtentTakes ==
  ASSUME LInv, AtNested, ~IsSealed[Field.ref]
  PROVE  LET extent == Types[Field.ref].extent IN
         /\ extent \in Nat /\ extent >= MaxBits[Field.ref]
         /\ HeaderBits \in Nat /\ HeaderBits % ByteBits = 0
         /\ HeaderBits + extent \in ScalarLengths(Field, OffsetAtEnd)
<1>1. /\ Writing \in BOOLEAN /\ Field = Top.todo[1].f /\ IsComposite(Field)
      /\ Field.ref \in TypeIds /\ Top.type \in TypeIds
      /\ IsStep(Top.type, Writing, Top.todo[1]) /\ Top.todo[1].kind \in {"field", "elements"}
  BY NestedAt
<1> DEFINE extent == Types[Field.ref].extent
<1>2. extent \in Nat
  BY <1>1, LayoutConstants
<1>3. extent >= MaxBits[Field.ref] /\ extent % ByteBits = 0
  BY <1>1, AllAccepted DEF Accepted
<1>4. HeaderBits \in Nat /\ HeaderBits % ByteBits = 0
  BY LayoutConstants
<1>5. HeaderBits + extent \in ScalarLengths(Field, OffsetAtEnd)
  <2>1. PICK e \in Nat : e = extent
    BY <1>2
  <2>2. PICK n \in Nat : n * ByteBits = e
    <3>1. e % ByteBits = 0
      BY <1>3, <2>1
    <3>2. e \div ByteBits \in Nat /\ (e \div ByteBits) * ByteBits = e
      BY <3>1 DEF ByteBits
    <3> QED BY <3>2
  <2>3. n * ByteBits <= extent
    BY <2>1, <2>2
  <2>4. HeaderBits + n * ByteBits \in ScalarLengths(Field, OffsetAtEnd)
    BY <1>1, <2>3, CompositeTakes
  <2> QED BY <2>1, <2>2, <2>4
<1> QED BY <1>2, <1>3, <1>4, <1>5

LEMMA EnterDelimitedPlaces ==
  ASSUME LInv, EnterDelimited
  PROVE  Placing(stack', Writing)
<1>1. AtNested /\ ~IsSealed[Field.ref]
  BY DEF EnterDelimited
<1> DEFINE at == Top.off + HeaderBits
           taken == ByteAt(Top, at, Writing)
           remaining == Top.cap - taken
           declared == ReadAt(Top, Top.off, HeaderBits)
           given == IF Writing THEN remaining ELSE declared
<1>2. PICK body \in Bodies[Field.ref][Writing] :
        stack' = IF BeyondBuffer(given, remaining) THEN WithTop(PastNested(Top, Field, at, BadHeader))
                 ELSE Append(stack, NewFrame(Field.ref, body, Top.base + taken, given,
                                             Element(Top, Field), Writing))
  BY DEF EnterDelimited
<1>3. /\ stack # << >> /\ Writing \in BOOLEAN /\ AreFrames(stack, Writing)
      /\ FrameOK(Top, Writing) /\ Placing(stack, Writing) /\ Placed(Top, Writing)
      /\ Field = Top.todo[1].f /\ Field.ref \in TypeIds
      /\ Waiting(Top, Field.ref) /\ IsFrame(Top) /\ Top.off \in Nat /\ Top.cap \in Nat
      /\ InLoop(Top) => Top.loop.at < Top.loop.count
  BY <1>1, NestedAt
<1>4. declared \in Nat
  BY LayoutConstants, BitsAtIs DEF ReadAt
<1>5. ASSUME Writing PROVE remaining \in Nat /\ remaining * ByteBits >= MaxBits[Field.ref]
  <2>1. remaining = Top.cap - (Top.off + HeaderBits) \div ByteBits
    BY <1>5 DEF ByteAt
  <2> HIDE DEF remaining
  <2>2. PICK extent \in Nat : /\ extent >= MaxBits[Field.ref]
                              /\ HeaderBits \in Nat /\ HeaderBits % ByteBits = 0
                              /\ HeaderBits + extent \in ScalarLengths(Field, OffsetAtEnd)
    BY <1>1, ExtentTakes
  <2>3. remaining \in Nat /\ remaining * ByteBits >= extent
    BY <1>1, <1>5, <2>1, <2>2, RoomLeft
  <2>4. MaxBits[Field.ref] \in Nat /\ remaining * ByteBits \in Nat
    BY <1>3, <2>3, EndsAre, WholeBytes
  <2> DEFINE room == remaining * ByteBits
             most == MaxBits[Field.ref]
  <2>5. most \in Nat /\ room \in Nat /\ room >= extent /\ extent >= most
    BY <2>2, <2>3, <2>4
  <2> HIDE DEF room, most
  <2>6. room >= most
    BY <2>5
  <2> QED BY <2>3, <2>6 DEF room, most
<1>6. given \in Nat /\ (Writing => given * ByteBits >= MaxBits[Field.ref])
  <2> HIDE DEF remaining, declared
  <2> QED BY <1>3, <1>4, <1>5
<1>b. taken \in Nat
  <2>1. at \in Nat
    BY <1>3, LayoutConstants
  <2> HIDE DEF at
  <2> QED BY <1>3, <2>1, StartsAtAByte
<1>c. ASSUME ~BeyondBuffer(given, remaining)
      PROVE  Top.base + taken \in Nat /\ (Top.base + taken) + given <= size
  <2>1. PICK base \in Nat : base = Top.base /\ base + Top.cap <= size
    BY <1>1, NestedAt
  <2>2. given <= remaining
    <3>1. ~(given > remaining)
      BY <1>c DEF BeyondBuffer
    <3>2. given \in Nat /\ remaining \in Int
      <4> HIDE DEF taken, given
      <4> QED BY <1>3, <1>6, <1>b
    <3> HIDE DEF given, remaining
    <3> QED BY <3>1, <3>2
  <2>3. PICK cap \in Nat : cap = Top.cap
    BY <1>3
  <2>4. given <= cap - taken
    BY <2>2, <2>3
  <2>5. size \in Nat
    BY <1>1, NestedAt DEF KInv
  <2>6. given \in Nat /\ taken \in Nat
    BY <1>6, <1>b
  <2> HIDE DEF remaining, taken, given
  <2>7. base + taken \in Nat /\ (base + taken) + given <= size
    BY <2>1, <2>3, <2>4, <2>5, <2>6
  <2> QED BY <2>1, <2>7
<1> HIDE DEF given, remaining, taken, at
<1>7. ~BeyondBuffer(given, remaining) =>
        Placing(Append(stack, NewFrame(Field.ref, body, Top.base + taken, given,
                                       Element(Top, Field), Writing)), Writing)
  BY <1>1, <1>6, <1>c, CallPlaces
<1>8. Placing(WithTop(PastNested(Top, Field, at, BadHeader)), Writing)
  <2> DEFINE p == PastNested(Top, Field, at, BadHeader)
  <2>1. Keeps(Top, Top)
    BY <1>3 DEF Keeps
  <2>2. BadHeader # Ok /\ BadHeader # TooSmall
    BY DEF BadHeader, Ok, TooSmall
  <2>3. Placed(p, Writing)
    BY <1>3, <2>1, <2>2, NestedPlaced
  <2>4. p.type = Top.type /\ p.err = BadHeader
    BY <2>1, PastNestedIs
  <2> HIDE DEF p
  <2>5. Placing(WithTop(p), Writing)
    BY <1>3, <2>2, <2>3, <2>4, TopPlaced
  <2> QED BY <2>5 DEF p
<1> QED BY <1>2, <1>7, <1>8

-----------------------------------------------------------------------------
(* What a body that ends has written.                                      *)

(* It is a length the analyser gave its definition.                        *)
LEMMA EndsAtItsLength ==
  ASSUME NEW w \in BOOLEAN, NEW t, FrameOK(t, w), Placed(t, w), t.todo = << >>, t.err = Ok, w
  PROVE  t.off \in OffsetAtEnd[t.type] /\ (t.off \div ByteBits) * ByteBits = t.off
<1>1. ~InLoop(t)
  BY DEF InLoop
<1>2. Leads(t.type, t.todo, {t.off}, OffsetAtEnd[t.type]) /\ t.type \in TypeIds
  BY <1>1, FrameIs DEF Placed, OnCourse
<1>3. Len(t.todo) = 0
  BY HeldNothing
<1>4. {t.off} \subseteq OffsetAtEnd[t.type]
  BY <1>2, <1>3, LeadsNowhere
<1>5. t.off \in OffsetAtEnd[t.type]
  BY <1>4
<1>6. PICK off \in Nat : off = t.off /\ off % ByteBits = 0
  BY <1>2, <1>5, EndsAre
<1>7. (off \div ByteBits) * ByteBits = off
  BY <1>6 DEF ByteBits
<1> QED BY <1>5, <1>6, <1>7

(* The body that ends, and the one that waits for it.                      *)
LEMMA ReturnAt ==
  ASSUME LInv, AtReturn
  PROVE  /\ KInv /\ Writing \in BOOLEAN /\ AreFrames(stack, Writing) /\ Len(stack) > 1
         /\ FrameOK(Top, Writing) /\ FrameOK(Outer, Writing) /\ Placing(stack, Writing)
         /\ Placed(Top, Writing) /\ Placed(Outer, Writing)
         /\ Head(Outer.todo) = Outer.todo[1] /\ Outer.off \in Nat /\ Outer.type \in TypeIds
         /\ Waiting(Outer, Outer.todo[1].f.ref) /\ IsFieldOf(Outer.todo[1].f)
         /\ IsComposite(Outer.todo[1].f) /\ Outer.todo[1].f.ref \in TypeIds
         /\ IsStep(Outer.type, Writing, Outer.todo[1]) /\ Outer.todo[1].kind \in {"field", "elements"}
         /\ Outer.todo[1].bits = FixedBits[Outer.todo[1].f.ref]
         /\ InLoop(Outer) => Outer.loop.at < Outer.loop.count
         /\ Top.err # TooSmall
         /\ Top.type = Outer.todo[1].f.ref
         /\ Top.err = Ok => Top.off \in Nat
         /\ Writing /\ Top.err = Ok => /\ Top.off \in OffsetAtEnd[Top.type]
                                       /\ Used(Top, TRUE) * ByteBits = Top.off
<1>1. /\ KInv /\ Writing \in BOOLEAN /\ AreFrames(stack, Writing) /\ Len(stack) > 1
      /\ FrameOK(Top, Writing) /\ FrameOK(Outer, Writing) /\ Placing(stack, Writing)
      /\ Head(Outer.todo) = Outer.todo[1] /\ Outer.off \in Nat
      /\ Waiting(Outer, Outer.todo[1].f.ref) /\ IsFieldOf(Outer.todo[1].f)
      /\ IsComposite(Outer.todo[1].f)
      /\ Outer.todo[1].bits = FixedBits[Outer.todo[1].f.ref]
  BY OuterIs DEF LInv
<1>2. stack # << >> /\ Top.todo = << >>
  BY <1>1, HeldNothing DEF AtReturn
<1>3. /\ Placed(Top, Writing) /\ Placed(Outer, Writing) /\ Top.err # TooSmall
      /\ InLoop(Outer) => Outer.loop.at < Outer.loop.count
  BY <1>1, <1>2, PlacedTop
<1>4. Waiting(Outer, Top.type) /\ Outer.type \in TypeIds
  BY <1>1, <1>2, TopIs
<1>5. Top.type = Outer.todo[1].f.ref
  BY <1>4 DEF Waiting
<1>6. /\ Outer.todo # << >> /\ Outer.todo[1].kind \in {"field", "elements"}
      /\ Outer.todo[1].f.ref \in TypeIds
  BY <1>1, FieldOf DEF Waiting
<1>7. IsStep(Outer.type, Writing, Outer.todo[1])
  BY <1>1, <1>6, FrameIs
<1>8. Top.err = Ok => Top.off \in Nat
  BY <1>1, FrameIs
<1>9. ASSUME Writing, Top.err = Ok
      PROVE  Top.off \in OffsetAtEnd[Top.type] /\ Used(Top, TRUE) * ByteBits = Top.off
  <2>1. Top.off \in OffsetAtEnd[Top.type] /\ (Top.off \div ByteBits) * ByteBits = Top.off
    BY <1>1, <1>2, <1>3, <1>9, EndsAtItsLength
  <2> QED BY <1>9, <2>1 DEF Used
<1> QED BY <1>1, <1>3, <1>4, <1>5, <1>6, <1>7, <1>8, <1>9

(* The container goes on behind what the composite took.                   *)
LEMMA ReturnsPlaced ==
  ASSUME LInv, AtReturn, NEW n, NEW off, NEW err, err # TooSmall,
         err = Ok => n \in Nat /\ n % ByteBits = 0 /\ off = Outer.off + n,
         Writing /\ err = Ok => n \in ScalarLengths(Outer.todo[1].f, OffsetAtEnd)
  PROVE  Placing(Popped(PastNested(Returned(Outer.todo[1].f), Outer.todo[1].f, off, err)), Writing)
<1> DEFINE f == Outer.todo[1].f
           u == Returned(f)
           p == PastNested(u, f, off, err)
<1>1. /\ KInv /\ Writing \in BOOLEAN /\ AreFrames(stack, Writing) /\ Len(stack) > 1
      /\ FrameOK(Outer, Writing) /\ Placing(stack, Writing) /\ Placed(Outer, Writing)
      /\ Waiting(Outer, f.ref) /\ (InLoop(Outer) => Outer.loop.at < Outer.loop.count)
  BY ReturnAt
<1>2. Keeps(Outer, u)
  BY <1>1, ReturnedIs
<1> HIDE DEF u
<1>3. Placed(p, Writing)
  BY <1>1, <1>2, NestedPlaced
<1>4. p.type = Outer.type /\ p.err = err
  BY <1>2, PastNestedIs
<1> HIDE DEF p
<1>5. Placing(Popped(p), Writing)
  BY <1>1, <1>3, <1>4, ReturnedPlaced
<1> QED BY <1>5 DEF p, u

LEMMA LeaveSealedPlaces ==
  ASSUME LInv, LeaveSealed
  PROVE  Placing(stack', Writing)
<1>1. AtReturn
  BY DEF LeaveSealed
<1>2. /\ Writing \in BOOLEAN /\ FrameOK(Top, Writing) /\ Head(Outer.todo) = Outer.todo[1]
      /\ Outer.off \in Nat /\ Outer.type \in TypeIds /\ IsFieldOf(Outer.todo[1].f)
      /\ IsComposite(Outer.todo[1].f) /\ Outer.todo[1].f.ref \in TypeIds
      /\ IsStep(Outer.type, Writing, Outer.todo[1]) /\ Outer.todo[1].kind \in {"field", "elements"}
      /\ Outer.todo[1].bits = FixedBits[Outer.todo[1].f.ref]
      /\ Top.err # TooSmall /\ Top.type = Outer.todo[1].f.ref
      /\ Writing /\ Top.err = Ok => /\ Top.off \in OffsetAtEnd[Top.type]
                                    /\ Used(Top, TRUE) * ByteBits = Top.off
  BY <1>1, ReturnAt
<1> DEFINE f == Outer.todo[1].f
           bits == Outer.todo[1].bits
           n == IF bits # Unknown THEN bits ELSE Used(Top, Writing) * ByteBits
           off == Outer.off + n
<1>3. IsSealed[f.ref] /\ stack' = Popped(PastNested(Returned(f), f, off, Top.err))
  BY <1>2 DEF LeaveSealed
<1>4. ASSUME Top.err = Ok PROVE n \in Nat /\ n % ByteBits = 0
  <2>1. Top.off \in Nat /\ (~Writing => Top.cap \in Nat)
    BY <1>2, <1>4 DEF FrameOK, WellFormed
  <2>2. Used(Top, Writing) * ByteBits \in Nat /\ (Used(Top, Writing) * ByteBits) % ByteBits = 0
    BY <1>2, <1>4, <2>1, UsedIs, WholeBytes
  <2>3. bits # Unknown => bits \in Nat /\ bits % ByteBits = 0
    BY <1>2, WidthIs
  <2> DEFINE used == Used(Top, Writing) * ByteBits
  <2> HIDE DEF bits, used
  <2> QED BY <2>2, <2>3 DEF used
<1>5. ASSUME Writing, Top.err = Ok PROVE n \in ScalarLengths(f, OffsetAtEnd)
  <2>1. ScalarLengths(f, OffsetAtEnd) = OffsetAtEnd[f.ref]
    BY <1>2, <1>3, CompositeTakes
  <2>2. bits # Unknown => bits \in OffsetAtEnd[f.ref]
    BY <1>2, AllAccepted, FixedBitsAreTheOnly
  <2>3. Used(Top, Writing) * ByteBits \in OffsetAtEnd[f.ref]
    BY <1>2, <1>5
  <2> QED BY <2>1, <2>2, <2>3
<1> HIDE DEF n
<1>6. Placing(Popped(PastNested(Returned(f), f, off, Top.err)), Writing)
  BY <1>1, <1>2, <1>4, <1>5, ReturnsPlaced
<1> QED BY <1>3, <1>6

LEMMA LeaveDelimitedPlaces ==
  ASSUME LInv, LeaveDelimited
  PROVE  Placing(stack', Writing)
<1>1. AtReturn
  BY DEF LeaveDelimited
<1>2. /\ Writing \in BOOLEAN /\ FrameOK(Top, Writing) /\ FrameOK(Outer, Writing) /\ Placed(Outer, Writing)
      /\ Head(Outer.todo) = Outer.todo[1]
      /\ Outer.off \in Nat /\ Outer.type \in TypeIds /\ IsFieldOf(Outer.todo[1].f)
      /\ Waiting(Outer, Outer.todo[1].f.ref)
      /\ IsComposite(Outer.todo[1].f) /\ Outer.todo[1].f.ref \in TypeIds
      /\ IsStep(Outer.type, Writing, Outer.todo[1]) /\ Outer.todo[1].kind \in {"field", "elements"}
      /\ Outer.todo[1].bits = FixedBits[Outer.todo[1].f.ref]
      /\ InLoop(Outer) => Outer.loop.at < Outer.loop.count
      /\ Top.err # TooSmall /\ Top.type = Outer.todo[1].f.ref
      /\ Writing /\ Top.err = Ok => /\ Top.off \in OffsetAtEnd[Top.type]
                                    /\ Used(Top, TRUE) * ByteBits = Top.off
  BY <1>1, ReturnAt
<1> DEFINE step == Outer.todo[1]
           f == step.f
           at == Outer.off + HeaderBits
           span == Span(step, Top, Writing)
           next == IF Writing /\ BeyondBuffer(span, Top.cap) THEN BadHeader ELSE Ok
           valid == FoldError(Top.err, next)
           err == IF Fits(Outer, Outer.off, HeaderBits) \/ ~Writing THEN Ok ELSE TooSmall
           off == at + span * ByteBits
<1>3. ~IsSealed[f.ref]
  BY <1>2 DEF LeaveDelimited
<1>4. stack' = IF valid = Ok THEN Popped(PastNested(Returned(f), f, off, err))
               ELSE Popped(PastNested(Returned(f), f, at, valid))
  BY <1>2 DEF LeaveDelimited
<1>5. valid # TooSmall /\ (valid = Ok => Top.err = Ok)
  <2>1. next # TooSmall
    BY DEF BadHeader, Ok, TooSmall
  <2> HIDE DEF next
  <2> QED BY <1>2, <2>1 DEF FoldError
<1>6. valid # Ok => Placing(Popped(PastNested(Returned(f), f, at, valid)), Writing)
  <2> HIDE DEF at, valid
  <2> QED BY <1>1, <1>5, ReturnsPlaced
<1>7. HeaderBits \in Nat /\ HeaderBits % ByteBits = 0
  BY LayoutConstants
<1>8. \A n \in Nat : n * ByteBits <= Types[f.ref].extent
                       => HeaderBits + n * ByteBits \in ScalarLengths(f, OffsetAtEnd)
  BY <1>2, <1>3, CompositeTakes
<1>9. /\ Types[f.ref].extent \in Nat /\ Types[f.ref].extent >= MaxBits[f.ref]
      /\ OffsetAtEnd[f.ref] \subseteq 0 .. MaxBits[f.ref] /\ MaxBits[f.ref] \in Nat
  BY <1>2, <1>3, LayoutConstants, AllAccepted, EndsAre DEF Accepted
<1>10. err = Ok
  <2>1. HeaderBits + 0 * ByteBits = HeaderBits /\ 0 * ByteBits <= Types[f.ref].extent
    BY <1>7, <1>9 DEF ByteBits
  <2>2. HeaderBits \in ScalarLengths(f, OffsetAtEnd)
    BY <1>8, <2>1
  <2>3. Writing => Fits(Outer, Outer.off, HeaderBits)
    BY <1>2, <2>2, NestedRoom
  <2> QED BY <2>3
<1> HIDE DEF err
<1>11. ASSUME Top.err = Ok PROVE span \in Nat
  <2>1. Top.off \in Nat /\ (~Writing => Top.cap \in Nat)
    BY <1>2, <1>11 DEF FrameOK, WellFormed
  <2>2. Used(Top, TRUE) \in Nat
    BY <1>11, <2>1, UsedIs
  <2>3. step.bits # Unknown => step.bits \in Nat
    BY <1>2, WidthIs
  <2>4. step.bits # Unknown => step.bits \div ByteBits \in Nat
    BY <2>3 DEF ByteBits
  <2> HIDE DEF step
  <2> QED BY <2>1, <2>2, <2>4 DEF Span
<1>12. ASSUME Top.err = Ok, Writing PROVE span * ByteBits \in OffsetAtEnd[f.ref]
  <2>1. CASE step.bits # Unknown
    <3>1. step.bits \in Nat /\ step.bits % ByteBits = 0 /\ step.bits \in OffsetAtEnd[f.ref]
      BY <1>2, <2>1, WidthIs, AllAccepted, FixedBitsAreTheOnly
    <3>2. PICK bits \in Nat : bits = step.bits /\ bits % ByteBits = 0
      BY <3>1
    <3>3. (bits \div ByteBits) * ByteBits = bits
      BY <3>2 DEF ByteBits
    <3>4. span = bits \div ByteBits
      BY <1>12, <2>1, <3>2 DEF Span
    <3> HIDE DEF span, step
    <3> QED BY <3>1, <3>2, <3>3, <3>4
  <2>2. CASE step.bits = Unknown
    <3>1. span = Used(Top, TRUE)
      BY <1>12, <2>2 DEF Span
    <3> HIDE DEF span
    <3> QED BY <1>2, <1>12, <3>1
  <2> QED BY <2>1, <2>2
<1> DEFINE n == HeaderBits + span * ByteBits
<1>13. Top.err = Ok => n \in Nat /\ n % ByteBits = 0 /\ off = Outer.off + n
  <2> SUFFICES ASSUME Top.err = Ok PROVE n \in Nat /\ n % ByteBits = 0 /\ off = Outer.off + n
    OBVIOUS
  <2>1. span * ByteBits \in Nat /\ (span * ByteBits) % ByteBits = 0
    BY <1>11, WholeBytes
  <2> DEFINE bits == span * ByteBits
  <2>2. bits \in Nat /\ bits % ByteBits = 0
    BY <2>1
  <2> HIDE DEF bits, span
  <2>3. HeaderBits + bits \in Nat /\ (HeaderBits + bits) % ByteBits = 0
    BY <1>7, <2>2, WholeAndWhole
  <2>4. (Outer.off + HeaderBits) + bits = Outer.off + (HeaderBits + bits)
    BY <1>2, <1>7, <2>2
  <2> QED BY <2>3, <2>4 DEF bits
<1>14. ASSUME Top.err = Ok, Writing PROVE n \in ScalarLengths(f, OffsetAtEnd)
  <2>1. span \in Nat /\ span * ByteBits \in OffsetAtEnd[f.ref]
    BY <1>11, <1>12, <1>14
  <2> DEFINE bits == span * ByteBits
  <2>2. bits <= Types[f.ref].extent
    <3>1. bits \in 0 .. MaxBits[f.ref]
      BY <1>9, <2>1
    <3> HIDE DEF bits
    <3> QED BY <1>9, <3>1
  <2> QED BY <1>8, <2>1, <2>2
<1>15. valid = Ok => Placing(Popped(PastNested(Returned(f), f, off, err)), Writing)
  <2>1. err # TooSmall
    BY <1>10 DEF Ok, TooSmall
  <2> HIDE DEF n, off, valid
  <2> QED BY <1>1, <1>5, <1>13, <1>14, <2>1, ReturnsPlaced
<1> HIDE DEF valid
<1> QED BY <1>4, <1>6, <1>15

-----------------------------------------------------------------------------
(* The invariant LInv.                                                     *)

LEMMA InitPlaces == Init => LInv
<1> SUFFICES ASSUME Init PROVE LInv
  OBVIOUS
<1>1. KInv /\ stack = << >> /\ phase = "idle"
  BY InitKeeps DEF Init
<1>2. Placing(stack, Writing)
  BY <1>1, NonePlaced
<1> QED BY <1>1, <1>2 DEF LInv, LengthIsAnalysed

LEMMA SerializePlaces ==
  ASSUME LInv, Serialize, KInv'
  PROVE  LInv'
<1>1. phase' = "writing" /\ writer' = writer /\ size' = size
  BY DEF Serialize
<1>2. PICK w \in BOOLEAN : w = TRUE
  OBVIOUS
<1>3. PICK body \in Bodies[writer][w] : stack' = <<NewFrame(writer, body, 0, size, source, w)>>
  BY <1>2 DEF Serialize
<1> DEFINE t == NewFrame(writer, body, 0, size, source, w)
<1>4. writer \in TypeIds /\ size \in Nat
  BY DEF LInv, KInv
<1>e. 0 \in Nat /\ 0 + size <= size
  BY <1>4
<1>5. Placed(t, w) /\ t.type = writer
  BY <1>4, <1>e, StartPlaced
<1>6. stack' = <<t>>
  BY <1>3
<1> HIDE DEF t
<1>7. Placing(<<t>>, w)
  BY <1>5, AlonePlaced
<1>8. Writing' = w
  BY <1>1, <1>2 DEF Writing
<1>9. Placing(stack, Writing)'
  BY <1>1, <1>6, <1>7, <1>8 DEF Placing, Placed
<1> QED BY <1>1, <1>9 DEF LInv, LengthIsAnalysed

LEMMA DeserializePlaces ==
  ASSUME LInv, Deserialize, KInv'
  PROVE  LInv'
<1>1. phase' = "reading" /\ writer' = writer /\ size' = size
  BY DEF Deserialize
<1>2. PICK w \in BOOLEAN : w = FALSE
  OBVIOUS
<1>3. PICK body \in Bodies[reader][w] : stack' = <<NewFrame(reader, body, 0, size, Stale[reader], w)>>
  BY <1>2 DEF Deserialize
<1> DEFINE t == NewFrame(reader, body, 0, size, Stale[reader], w)
<1>4. reader \in TypeIds /\ size \in Nat
  BY DEF LInv, KInv
<1>e. 0 \in Nat /\ 0 + size <= size
  BY <1>4
<1>5. Placed(t, w)
  BY <1>4, <1>e, StartPlaced
<1>6. stack' = <<t>>
  BY <1>3
<1> HIDE DEF t
<1>7. Placing(<<t>>, w)
  BY <1>2, <1>5, AlonePlaced
<1>8. Writing' = w
  BY <1>1, <1>2 DEF Writing
<1>9. Placing(stack, Writing)'
  BY <1>1, <1>6, <1>7, <1>8 DEF Placing, Placed
<1> QED BY <1>1, <1>9 DEF LInv, LengthIsAnalysed

(* Nothing runs between a body's answer and the next call.                 *)
LEMMA CallerPlaces ==
  ASSUME LInv, KInv', Deliver \/ Pad \/ UNCHANGED vars
  PROVE  LInv'
<1>1. CASE Deliver \/ Pad
  <2>1. phase' = "delivered" /\ stack' = << >>
    BY <1>1 DEF LInv, KInv, Deliver, Pad
  <2>2. Placing(stack, Writing)'
    <3>1. Placing(<< >>, Writing')
      BY NonePlaced
    <3> QED BY <2>1, <3>1 DEF Placing
  <2> QED BY <2>1, <2>2 DEF LInv, LengthIsAnalysed
<1>2. CASE UNCHANGED vars
  <2>1. /\ phase' = phase /\ writer' = writer /\ stack' = stack /\ error' = error /\ length' = length
        /\ size' = size
    BY <1>2 DEF vars
  <2>2. Placing(stack, Writing)'
    BY <2>1 DEF LInv, Placing, Placed, Writing
  <2> QED BY <2>1, <2>2 DEF LInv, LengthIsAnalysed
<1> QED BY <1>1, <1>2

(* The length answered is where the body ended.                            *)
LEMMA ReturnPlaces ==
  ASSUME LInv, Return, KInv'
  PROVE  LInv'
<1>1. /\ stack' = << >> /\ Len(stack) = 1 /\ Top.todo = << >> /\ writer' = writer /\ error' = Top.err
      /\ Writing => length' = Used(Top, TRUE)
      /\ ~Writing => phase' = "read"
  BY DEF Return
<1>2. Placing(stack, Writing)'
  <2>1. Placing(<< >>, Writing')
    BY NonePlaced
  <2> QED BY <1>1, <2>1 DEF Placing
<1>3. ASSUME Writing, Top.err = Ok PROVE length' * ByteBits \in OffsetAtEnd[writer]
  <2>1. stack # << >>
    BY <1>1, HeldNothing
  <2>2. FrameOK(Top, Writing) /\ Placed(Top, Writing) /\ Placing(stack, Writing) /\ Writing \in BOOLEAN
    BY <2>1, AtPlaced
  <2>3. Top.off \in OffsetAtEnd[Top.type] /\ (Top.off \div ByteBits) * ByteBits = Top.off
    BY <1>1, <1>3, <2>2, EndsAtItsLength
  <2>4. Top.type = writer
    BY <1>1, <1>3, <2>1, <2>2 DEF Placing, Top
  <2>5. length' = Top.off \div ByteBits
    BY <1>1, <1>3 DEF Used
  <2> QED BY <2>3, <2>4, <2>5
<1>4. LengthIsAnalysed'
  <2> SUFFICES ASSUME phase' = "written", error' = Ok PROVE length' * ByteBits \in OffsetAtEnd[writer']
    BY DEF LengthIsAnalysed
  <2>1. Writing /\ Top.err = Ok
    BY <1>1
  <2> QED BY <1>1, <1>3, <2>1
<1> QED BY <1>2, <1>4 DEF LInv

LEMMA NextPlaces == LInv /\ [Next]_vars => LInv'
<1> SUFFICES ASSUME LInv, [Next]_vars PROVE LInv'
  OBVIOUS
<1>0. KInv'
  BY NextKeeps DEF LInv
<1>1. CASE Serialize
  BY <1>0, <1>1, SerializePlaces
<1>2. CASE Deliver \/ Pad
  BY <1>0, <1>2, CallerPlaces
<1>3. CASE Deserialize
  BY <1>0, <1>3, DeserializePlaces
<1>4. CASE Stopped \/ UNCHANGED vars
  BY <1>0, <1>4, CallerPlaces DEF Stopped
<1>5. CASE Return
  BY <1>0, <1>5, ReturnPlaces
<1>6. CASE WriteTag
  BY <1>0, <1>6, WriteTagPlaces, BodyPlaces DEF WriteTag, AtStep
<1>7. CASE ReadTag
  BY <1>0, <1>7, ReadTagPlaces, BodyPlaces DEF ReadTag, AtStep
<1>8. CASE WriteScalar
  BY <1>0, <1>8, WriteScalarPlaces, BodyPlaces DEF WriteScalar, AtField, AtStep
<1>9. CASE ReadScalar
  BY <1>0, <1>9, ReadScalarPlaces, BodyPlaces DEF ReadScalar, AtField, AtStep
<1>10. CASE Padding
  BY <1>0, <1>10, PaddingPlaces, BodyPlaces DEF Padding, AtField, AtStep
<1>11. CASE Align
  BY <1>0, <1>11, AlignPlaces, BodyPlaces DEF Align, AtStep
<1>12. CASE WriteArray
  BY <1>0, <1>12, WriteArrayPlaces, BodyPlaces DEF WriteArray, AtField, AtStep
<1>13. CASE ReadArray
  BY <1>0, <1>13, ReadArrayPlaces, BodyPlaces DEF ReadArray, AtField, AtStep
<1>14. CASE WriteElement
  BY <1>0, <1>14, WriteElementPlaces, BodyPlaces DEF WriteElement, AtElement, AtStep
<1>15. CASE ReadElement
  BY <1>0, <1>15, ReadElementPlaces, BodyPlaces DEF ReadElement, AtElement, AtStep
<1>16. CASE EndArray
  BY <1>0, <1>16, EndArrayPlaces, BodyPlaces DEF EndArray, AtStep
<1>17. CASE WriteImage \/ ReadImage
  BY <1>0, <1>17, ImagePlaces, BodyPlaces DEF WriteImage, ReadImage, AtStep
<1>18. CASE EnterSealed
  BY <1>0, <1>18, EnterSealedPlaces, NestedIs, BodyPlaces DEF LInv, EnterSealed
<1>19. CASE EnterDelimited
  BY <1>0, <1>19, EnterDelimitedPlaces, NestedIs, BodyPlaces DEF LInv, EnterDelimited
<1>20. CASE LeaveSealed
  <2>1. stack # << >>
    BY <1>20, HeldNothing DEF LeaveSealed, AtReturn
  <2> QED BY <1>0, <1>20, <2>1, LeaveSealedPlaces, BodyPlaces DEF LeaveSealed
<1>21. CASE LeaveDelimited
  <2>1. stack # << >>
    BY <1>21, HeldNothing DEF LeaveDelimited, AtReturn
  <2> QED BY <1>0, <1>21, <2>1, LeaveDelimitedPlaces, BodyPlaces DEF LeaveDelimited
<1>22. CASE Skip
  BY <1>0, <1>22, SkipPlaces, BodyPlaces DEF Skip
<1> QED
  BY <1>1, <1>2, <1>3, <1>4, <1>5, <1>6, <1>7, <1>8, <1>9, <1>10, <1>11, <1>12, <1>13, <1>14,
     <1>15, <1>16, <1>17, <1>18, <1>19, <1>20, <1>21, <1>22 DEF Next, Body

LEMMA RefusesFirst == LInv => OnlyTheFirstCheckRefuses
<1> SUFFICES ASSUME LInv, NEW d \in DOMAIN stack
             PROVE  /\ d > 1 => stack[d].err # TooSmall
                    /\ d < Len(stack) =>
                         \/ (stack[d].off + (IF IsSealed[stack[d + 1].type] THEN 0 ELSE HeaderBits)) % ByteBits = 0
                         \/ stack[d].err # Ok
                    /\ stack[d].err = TooSmall => stack[d].cap * ByteBits < MaxBits[stack[d].type]
  BY DEF OnlyTheFirstCheckRefuses
<1>1. Writing \in BOOLEAN /\ AreFrames(stack, Writing) /\ Placing(stack, Writing)
  BY DEF LInv, KInv, Writing
<1>2. d \in 1 .. Len(stack) /\ Len(stack) \in Nat
  BY <1>1, HeldIs DEF AreFrames
<1>3. Placed(stack[d], Writing) /\ (d > 1 => stack[d].err # TooSmall)
  BY <1>1, <1>2 DEF Placing
<1>4. ASSUME d < Len(stack)
      PROVE  (stack[d].off + (IF IsSealed[stack[d + 1].type] THEN 0 ELSE HeaderBits)) % ByteBits = 0
  <2>1. d + 1 \in 1 .. Len(stack) /\ d + 1 > 1 /\ (d + 1) - 1 = d
    BY <1>2, <1>4
  <2>2. Waiting(stack[d], stack[d + 1].type)
    BY <1>1, <2>1 DEF AreFrames
  <2>3. FrameOK(stack[d], Writing)
    BY <1>1, <1>2 DEF AreFrames, FrameOK
  <2>4. /\ stack[d].todo # << >> /\ stack[d].err = Ok
        /\ stack[d].todo[1].kind \in {"field", "elements"} /\ IsComposite(stack[d].todo[1].f)
    BY <2>2 DEF Waiting
  <2>5. stack[d].off \in Nat /\ stack[d].off % ByteBits = 0
    BY <1>1, <1>3, <2>3, <2>4, PlacedOnByte
  <2>6. PICK off \in Nat : off = stack[d].off /\ off % ByteBits = 0
    BY <2>5
  <2>7. HeaderBits \in Nat /\ HeaderBits % ByteBits = 0 /\ 0 % ByteBits = 0
    BY LayoutConstants DEF ByteBits
  <2>8. (off + 0) % ByteBits = 0 /\ (off + HeaderBits) % ByteBits = 0
    BY <2>6, <2>7, WholeAndWhole
  <2> QED BY <2>6, <2>8
<1>5. stack[d].err = TooSmall => stack[d].cap * ByteBits < MaxBits[stack[d].type]
  BY <1>3 DEF Placed
<1> QED BY <1>3, <1>4, <1>5

(* Whatever the definitions, objects and buffers, a body that writes is on *)
(* a course the analyser laid: from where it is, the steps left lead to a  *)
(* length its definition has and stay within MaxBits of it, the buffer of  *)
(* every body that was let in holds that much, and what it calls is called *)
(* on a byte with the room of its own longest object.                      *)
THEOREM FramesArePlaced == Spec => []LInv
<1>1. Init => LInv
  BY InitPlaces
<1>2. LInv /\ [Next]_vars => LInv'
  BY NextPlaces
<1> QED BY <1>1, <1>2, PTL DEF Spec

(* The length a serialise body answers is one the analyser said its        *)
(* definition has: for every object, the steps of the plan take what       *)
(* analyzeSection counted in its bit-length sets.                          *)
THEOREM LengthCorrect == Spec => []LengthIsAnalysed
<1>1. LInv => LengthIsAnalysed
  BY DEF LInv
<1> QED BY <1>1, FramesArePlaced, PTL

(* The one capacity check before a body (createPlanCapacityCheckFunction)  *)
(* is enough for everything nested in it: no write, and no check of a      *)
(* nested body, is refused once the outermost one has passed.              *)
THEOREM RefusalCorrect == Spec => []OnlyTheFirstCheckRefuses
<1>1. LInv => OnlyTheFirstCheckRefuses
  BY RefusesFirst
<1> QED BY <1>1, FramesArePlaced, PTL

-----------------------------------------------------------------------------
(* The wire primitives change no bit but those they are asked for.         *)

(* Two memories that differ, if at all, in "n" bits from "at" on.          *)
Alike(bits, more, at, n) ==
    \A p : p \notin Positions(at, n) => (p \in bits <=> p \in more)

LEMMA CopyBitsIs ==
  ASSUME NEW dst, NEW to \in Nat, NEW n \in Nat, NEW src
  PROVE  Alike(dst, CopyBits(dst, to, n, src, 0), to, n)
<1>1. Copied(dst, CopyBits(dst, to, n, src, 0), to, n, src, 0)
  BY CopiesAreExact
<1> QED BY <1>1, Zenon DEF Copied, Alike

LEMMA WithBitsIs ==
  ASSUME NEW bits, NEW at \in Nat, NEW n \in Nat, NEW v
  PROVE  Alike(bits, WithBits(bits, at, n, v), at, n)
BY CopyBitsIs DEF WithBits

-----------------------------------------------------------------------------
(* What a step that writes changes of the wire.                            *)

(* No bit past the end of the buffer differs.                              *)
Inside(bits, more) == \A p \in (bits \ more) \cup (more \ bits) : p < size * ByteBits

LEMMA NothingChanges ==
  ASSUME NEW bits
  PROVE  Inside(bits, bits)
BY DEF Inside

LEMMA OneAfterAnother ==
  ASSUME NEW a, NEW b, NEW c, Inside(a, b), Inside(b, c)
  PROVE  Inside(a, c)
BY DEF Inside

LEMMA AlikeInside ==
  ASSUME NEW bits, NEW more, NEW at \in Nat, NEW n \in Nat, Alike(bits, more, at, n),
         size \in Nat, at + n <= size * ByteBits
  PROVE  Inside(bits, more)
<1>1. PICK room \in Nat : room = size * ByteBits
  BY WholeBytes
<1>2. ASSUME NEW p \in Positions(at, n) PROVE p < room
  BY <1>1 DEF Positions
<1>3. ASSUME NEW p \in (bits \ more) \cup (more \ bits) PROVE p < size * ByteBits
  <2>1. p \in Positions(at, n)
    BY DEF Alike
  <2> QED BY <1>1, <1>2, <2>1
<1> QED BY <1>3 DEF Inside

(* What is inside a frame's buffer is inside the caller's.                 *)
LEMMA FitsInside ==
  ASSUME NEW t, t.base \in Nat, t.cap \in Nat, t.base + t.cap <= size, size \in Nat,
         NEW at \in Nat, NEW n \in Nat, Fits(t, at, n)
  PROVE  t.base * ByteBits + at \in Nat /\ (t.base * ByteBits + at) + n <= size * ByteBits
<1>1. PICK base \in Nat, cap \in Nat, all \in Nat : base = t.base /\ cap = t.cap /\ all = size
  OBVIOUS
<1>2. base + cap <= all /\ at + n <= cap * ByteBits
  BY <1>1 DEF Fits
<1>3. base * ByteBits + at \in Nat /\ (base * ByteBits + at) + n <= all * ByteBits
  BY <1>2 DEF ByteBits
<1> QED BY <1>1, <1>3

LEMMA EmittedInside ==
  ASSUME NEW bits, NEW t, t.base \in Nat, t.cap \in Nat, t.base + t.cap <= size, size \in Nat,
         NEW at \in Nat, NEW n \in Nat, NEW v
  PROVE  Inside(bits, Emitted(bits, t, at, n, v))
<1>1. CASE Fits(t, at, n)
  <2>1. Emitted(bits, t, at, n, v) = WithBits(bits, t.base * ByteBits + at, n, v)
    BY <1>1 DEF Emitted
  <2>2. t.base * ByteBits + at \in Nat /\ (t.base * ByteBits + at) + n <= size * ByteBits
    BY <1>1, FitsInside
  <2>3. Alike(bits, WithBits(bits, t.base * ByteBits + at, n, v), t.base * ByteBits + at, n)
    BY <2>2, WithBitsIs
  <2> QED BY <2>1, <2>2, <2>3, AlikeInside
<1>2. CASE ~Fits(t, at, n)
  BY <1>2, NothingChanges DEF Emitted
<1> QED BY <1>1, <1>2

(* The buffer of the body that runs.                                       *)
LEMMA TopBuffer ==
  ASSUME LInv, stack # << >>
  PROVE  /\ Top.base \in Nat /\ Top.cap \in Nat /\ Top.base + Top.cap <= size /\ size \in Nat
         /\ Top.err = Ok => Top.off \in Nat
BY AtPlaced DEF Placed, LInv, KInv

LEMMA TopEmits ==
  ASSUME LInv, stack # << >>, Top.err = Ok, NEW n \in Nat, NEW v
  PROVE  Inside(ones, Emitted(ones, Top, Top.off, n, v))
BY TopBuffer, EmittedInside

LEMMA WriteScalarInside ==
  ASSUME LInv, WriteScalar
  PROVE  Inside(ones, ones')
<1>1. /\ stack # << >> /\ Top.todo # << >> /\ Step.kind = "field" /\ ~IsArray(Field) /\ ~IsComposite(Field)
      /\ Top.err = Ok
      /\ ones' = Emitted(ones, Top, Top.off, Field.bits, WrittenValue(Field, Member(Top)))
  BY DEF WriteScalar, AtField, AtStep, IsComposite, Healthy
<1> QED BY <1>1, ScalarPast, TopEmits

LEMMA ZeroBitsInside ==
  ASSUME LInv, stack # << >>, NEW n, ZeroBits(n), Writing => Top.err = Ok /\ n \in Nat
  PROVE  Inside(ones, ones')
BY TopEmits, NothingChanges DEF ZeroBits

LEMMA PaddingInside ==
  ASSUME LInv, Padding
  PROVE  Inside(ones, ones')
<1>1. /\ stack # << >> /\ Top.todo # << >> /\ Step.kind = "field" /\ Field.cat = "void"
      /\ ZeroBits(Field.bits) /\ (Writing => Top.err = Ok)
  BY DEF Padding, AtField, AtStep, Healthy, Unguarded
<1>2. IsFieldOf(Field)
  BY <1>1, AtPlaced
<1>3. ~IsArray(Field) /\ ~IsComposite(Field)
  BY <1>1, <1>2, FieldOf DEF IsComposite
<1>4. Writing => Field.bits \in Nat
  BY <1>1, <1>3, ScalarPast
<1> QED BY <1>1, <1>4, ZeroBitsInside

(* The bits to the next byte.                                              *)
LEMMA AlignBits ==
  ASSUME LInv, Align, Writing
  PROVE  PadTo(IF Step.known.residue = Unknown THEN Top.off ELSE Step.known.residue, ByteBits)
           - (IF Step.known.residue = Unknown THEN Top.off ELSE Step.known.residue) \in Nat
<1> DEFINE from == IF Step.known.residue = Unknown THEN Top.off ELSE Step.known.residue
<1>1. /\ stack # << >> /\ Top.todo # << >> /\ Step.kind = "align" /\ Top.err = Ok
  BY DEF Align, AtStep, Healthy, Unguarded
<1>2. Top.off \in Nat /\ Knows(Step.known, Top.off)
  BY <1>1, AtPlaced, AtTop DEF InLoop, LInv
<1>3. PICK off \in Nat : off = Top.off
  BY <1>2
<1>4. from = off \/ from = off % ByteBits
  BY <1>2, <1>3 DEF Knows
<1> HIDE DEF from
<1>5. PadTo(from, ByteBits) - from \in Nat
  <2>1. CASE from = off
    BY <2>1, PadFromResidue, Zenon
  <2>2. CASE from = off % ByteBits
    BY <2>2, PadFromResidue, Zenon
  <2> QED BY <1>4, <2>1, <2>2
<1> QED BY <1>5 DEF from

LEMMA AlignInside ==
  ASSUME LInv, Align
  PROVE  Inside(ones, ones')
<1> DEFINE from == IF Step.known.residue = Unknown THEN Top.off ELSE Step.known.residue
           n == PadTo(from, ByteBits) - from
<1>1. stack # << >> /\ ZeroBits(n) /\ (Writing => Top.err = Ok)
  BY DEF Align, AtStep, Healthy, Unguarded
<1>2. Writing => n \in Nat
  BY AlignBits
<1> HIDE DEF n
<1> QED BY <1>1, <1>2, ZeroBitsInside

LEMMA WriteTagInside ==
  ASSUME LInv, WriteTag
  PROVE  Inside(ones, ones')
<1> DEFINE tag == TagValue(Top.obj.tag, Step.bits)
           t == [Top EXCEPT !.err = CheckedTag(Top, Step.arms, tag)]
<1>1. /\ stack # << >> /\ Top.todo # << >> /\ Step.kind = "tag"
      /\ ones' = IF t.err = Ok THEN Emitted(ones, t, t.off, Step.bits, tag) ELSE ones
  BY DEF WriteTag, AtStep
<1>2. IsFrame(Top) /\ Step.bits \in Nat
  BY <1>1, AtPlaced, StepIs, TagIs
<1>3. /\ t.off = Top.off /\ t.base = Top.base /\ t.cap = Top.cap
      /\ t.err = CheckedTag(Top, Step.arms, tag)
  BY <1>2 DEF IsFrame
<1> HIDE DEF t
<1>4. t.err = Ok => Top.err = Ok
  BY <1>3 DEF CheckedTag, FoldError, Ok
<1>5. ASSUME t.err = Ok PROVE Inside(ones, Emitted(ones, t, t.off, Step.bits, tag))
  <2>1. /\ t.base \in Nat /\ t.cap \in Nat /\ t.base + t.cap <= size /\ size \in Nat
        /\ t.off \in Nat
    BY <1>1, <1>3, <1>4, <1>5, TopBuffer
  <2> HIDE DEF tag
  <2> QED BY <1>2, <2>1, EmittedInside
<1> QED BY <1>1, <1>5, NothingChanges

LEMMA WriteElementInside ==
  ASSUME LInv, WriteElement
  PROVE  Inside(ones, ones')
<1>1. /\ stack # << >> /\ Top.todo # << >> /\ Step.kind = "elements" /\ Top.err = Ok
      /\ ~IsComposite(Field)
      /\ ones' = Emitted(ones, Top, Top.off, Field.bits, WrittenValue(Field, Element(Top, Field)))
  BY DEF WriteElement, AtElement, AtStep, Healthy
<1>2. Field.bits \in Nat
  BY <1>1, AtPlaced, ScalarMoves
<1> QED BY <1>1, <1>2, TopEmits

LEMMA LeaveDelimitedInside ==
  ASSUME LInv, LeaveDelimited
  PROVE  Inside(ones, ones')
<1>1. AtReturn
  BY DEF LeaveDelimited
<1>2. PICK v : ones' = Emitted(ones, Outer, Outer.off, HeaderBits, v) \/ ones' = ones
  BY DEF LeaveDelimited
<1>3. Outer.base \in Nat /\ Outer.cap \in Nat /\ Outer.base + Outer.cap <= size /\ Outer.off \in Nat
  BY <1>1, ReturnAt DEF Placed
<1>4. size \in Nat /\ HeaderBits \in Nat
  BY LayoutConstants DEF LInv, KInv
<1>5. Inside(ones, Emitted(ones, Outer, Outer.off, HeaderBits, v))
  BY <1>3, <1>4, EmittedInside
<1> QED BY <1>2, <1>5, NothingChanges

(* The run of a bool array is moved without a check of the buffer: what    *)
(* the body was let in with is enough for it.                              *)
LEMMA WriteArrayInside ==
  ASSUME LInv, WriteArray
  PROVE  Inside(ones, ones')
<1>1. /\ stack # << >> /\ Top.todo # << >> /\ Step.kind = "field" /\ Writing /\ Top.err = Ok
      /\ IsArray(Field)
  BY DEF WriteArray, AtField, AtStep, Healthy
<1> DEFINE count == IF Field.array = "fixed" THEN Field.cap ELSE Len(Member(Top))
           prefix == LengthPrefixBits(Field)
           t == Advanced(Top, prefix)
           wire == Emitted(ones, Top, Top.off, prefix, PrefixValue(Field, count))
           from == t.base * ByteBits + t.off
           moved == CopyBits(wire, from, count, Packed(Member(t)), 0)
<1>2. ones' = IF TooLong(Field, count) THEN ones ELSE IF Field.cat = "bool" THEN moved ELSE wire
  BY DEF WriteArray
<1>3. IsFrame(Top) /\ IsFieldOf(Field)
  BY <1>1, AtPlaced
<1>4. prefix \in Nat
  BY <1>3, FieldOf
<1>5. count \in Nat
  BY <1>1, CountIs
<1>6. Field.array = "fixed" => count = Field.cap
  OBVIOUS
<1>7. Inside(ones, wire)
  BY <1>1, <1>4, TopEmits
<1>8. t.base = Top.base /\ t.off = Top.off + prefix
  BY <1>3, AdvancedIs DEF Keeps
<1> HIDE DEF count, wire, t
<1>9. ASSUME Field.cat = "bool", ~TooLong(Field, count) PROVE Inside(wire, moved)
  <2>1. (Top.off + prefix) + count \in Beyond(Top.type, Step, {Top.off})
    BY <1>1, <1>5, <1>6, <1>9, BoolsTake
  <2>2. /\ Top.base \in Nat /\ Top.cap \in Nat /\ Top.base + Top.cap <= size /\ size \in Nat
        /\ Top.off \in Nat
    BY <1>1, TopBuffer
  <2> HIDE DEF prefix
  <2>3. PICK off \in Nat : off = Top.off
    BY <2>2
  <2>4. off + prefix \in Nat /\ prefix + count \in Nat /\ off + (prefix + count) = (off + prefix) + count
    BY <1>4, <1>5
  <2>5. ~InLoop(Top)
    BY <1>1, AtPlaced DEF InLoop
  <2>6. Fits(Top, Top.off, prefix + count)
    BY <1>1, <2>1, <2>3, <2>4, <2>5, TopFits
  <2>7. Fits(Top, off + prefix, count)
    BY <2>3, <2>4, <2>6 DEF Fits
  <2>8. from = Top.base * ByteBits + (off + prefix)
    BY <1>8, <2>3
  <2>9. from \in Nat /\ from + count <= size * ByteBits
    BY <1>5, <2>2, <2>4, <2>7, <2>8, FitsInside
  <2> HIDE DEF from
  <2>10. Alike(wire, moved, from, count)
    BY <1>5, <2>9, CopyBitsIs
  <2> HIDE DEF moved
  <2> QED BY <1>5, <2>2, <2>9, <2>10, AlikeInside
<1> QED BY <1>2, <1>7, <1>9, NothingChanges, OneAfterAnother

(* A body that is one move is of a definition that has an image.           *)
LEMMA MovesImage ==
  ASSUME LInv, stack # << >>, Top.todo # << >>, Step.kind = "move"
  PROVE  /\ Top.type \in TypeIds /\ ImageScalars[Top.type] # {}
         /\ Step.bits = MaxBits[Top.type] /\ Step.scalars = ImageScalars[Top.type]
<1>1. IsStep(Top.type, Writing, Step) /\ Top.type \in TypeIds /\ Writing \in BOOLEAN
  BY AtPlaced
<1>2. IsMove(Top.type, Step)
  BY <1>1, PlainIs DEF IsStep, IsElements, IsTag
<1> QED BY <1>1, <1>2 DEF IsMove, Moved

(* The object's memory is no longer than the longest message.              *)
LEMMA MemoryIs ==
  ASSUME NEW i \in TypeIds, NEW obj
  PROVE  \A p \in Memory(ImageScalars[i], obj) : p \in Nat /\ p < MaxBits[i]
<1> SUFFICES ASSUME NEW p \in Memory(ImageScalars[i], obj)
             PROVE  p \in Nat /\ p < MaxBits[i]
  OBVIOUS
<1>1. PICK s \in ImageScalars[i] : p \in WithBits({}, s.at, s.f.bits, ValueAt(obj, s.path))
  BY DEF Memory
<1>2. LiesIn(s, MaxBits[i]) /\ MaxBits[i] \in Nat
  BY AllAccepted, ScalarsLieInside, EndsAre
<1>3. PICK at \in Nat, n \in Nat, most \in Nat :
        at = s.at /\ n = s.f.bits /\ most = MaxBits[i] /\ at + n <= most
  BY <1>2 DEF LiesIn
<1>4. Alike({}, WithBits({}, at, n, ValueAt(obj, s.path)), at, n)
  BY WithBitsIs
<1>5. p \in Positions(at, n)
  BY <1>1, <1>3, <1>4 DEF Alike
<1>6. p \in Nat /\ p < most
  BY <1>3, <1>5 DEF Positions
<1> QED BY <1>3, <1>6

LEMMA WriteImageInside ==
  ASSUME LInv, WriteImage
  PROVE  Inside(ones, ones')
<1>1. /\ stack # << >> /\ Top.todo # << >> /\ Step.kind = "move" /\ Writing /\ Top.err = Ok
  BY DEF WriteImage, AtStep, Healthy
<1> DEFINE at == Top.base * ByteBits
           bits == Step.bits
           held == Memory(Step.scalars, Top.obj)
<1>2. ones' = (ones \ Positions(at, bits)) \cup {at + p : p \in held}
  BY DEF WriteImage
<1>3. /\ Top.type \in TypeIds /\ bits = MaxBits[Top.type]
      /\ \A p \in held : p \in Nat /\ p < bits
  BY <1>1, MovesImage, MemoryIs
<1>4. /\ Top.base \in Nat /\ Top.cap \in Nat /\ Top.base + Top.cap <= size /\ size \in Nat
      /\ Top.cap * ByteBits >= MaxBits[Top.type] /\ bits \in Nat
  BY <1>1, <1>3, TopBuffer, AtPlaced, EndsAre DEF Placed
<1>5. Fits(Top, 0, bits)
  <2> DEFINE room == Top.cap * ByteBits
  <2>1. room \in Nat /\ room >= bits
    BY <1>3, <1>4, WholeBytes
  <2> HIDE DEF room, bits
  <2>2. 0 + bits <= room
    BY <1>4, <2>1
  <2> QED BY <2>2 DEF Fits, room
<1> HIDE DEF bits, held
<1>6. at + 0 \in Nat /\ (at + 0) + bits <= size * ByteBits
  BY <1>4, <1>5, FitsInside
<1>7. PICK base \in Nat : base = at
  BY <1>4, WholeBytes
<1>8. PICK room \in Nat : room = size * ByteBits
  BY <1>4, WholeBytes
<1>9. base + bits <= room
  BY <1>4, <1>6, <1>7, <1>8
<1>10. ASSUME NEW p \in (ones \ ones') \cup (ones' \ ones) PROVE p < room
  <2>1. p \in Positions(base, bits) \/ \E q \in held : p = base + q
    BY <1>2, <1>7
  <2>2. CASE p \in Positions(base, bits)
    BY <1>4, <1>9, <2>2 DEF Positions
  <2>3. ASSUME NEW q \in held, p = base + q PROVE p < room
    BY <1>3, <1>4, <1>9, <2>3
  <2> QED BY <2>1, <2>2, <2>3
<1> QED BY <1>8, <1>10 DEF Inside

(* Nothing past the end of the buffer changes while a body writes.         *)
LEMMA NextInside ==
  ASSUME LInv, Next, Writing
  PROVE  Inside(ones, ones')
<1>1. CASE WriteTag \/ WriteScalar \/ Padding \/ Align
  BY <1>1, WriteTagInside, WriteScalarInside, PaddingInside, AlignInside
<1>2. CASE WriteArray \/ WriteElement \/ WriteImage \/ LeaveDelimited
  BY <1>2, WriteArrayInside, WriteElementInside, WriteImageInside, LeaveDelimitedInside
<1>3. CASE ReadTag \/ ReadScalar \/ ReadArray \/ ReadElement \/ EndArray \/ ReadImage
  BY <1>3, NothingChanges DEF ReadTag, ReadScalar, ReadArray, ReadElement, EndArray, ReadImage
<1>4. CASE EnterSealed \/ EnterDelimited \/ LeaveSealed \/ Skip \/ Return
  BY <1>4, NothingChanges DEF EnterSealed, EnterDelimited, LeaveSealed, Skip, Return
<1>5. CASE Serialize \/ Deliver \/ Deserialize \/ Pad \/ Stopped
  BY <1>5, NothingChanges DEF Writing, Serialize, Deliver, Deserialize, Pad, Stopped, vars
<1> QED BY <1>1, <1>2, <1>3, <1>4, <1>5 DEF Next, Body

(* Whatever is written, and however the bodies are made, no bit past the   *)
(* end of the caller's buffer changes: every value is written under a      *)
(* check of the buffer, a run of bools and the image of an object without  *)
(* one (buildArrayWrite, ImageWriteLowering), where the capacity check at  *)
(* the entry of the outermost body (createPlanCapacityCheckFunction) has   *)
(* to be enough for all of them; and dsdl_runtime_copy_bits changes no bit *)
(* but those it is asked for.                                              *)
THEOREM StaysInsideCorrect == Spec => StaysInside
<1>1. LInv /\ [Next]_vars
        => [phase = "writing" =>
              \A p \in (ones \ ones') \cup (ones' \ ones) : p < size * ByteBits]_vars
  BY NextInside DEF Inside, Writing
<1> QED BY <1>1, FramesArePlaced, PTL DEF Spec, StaysInside

-----------------------------------------------------------------------------
(* The objects that fit their definition.                                  *)

ValidFrom(i, valid) == {obj \in Objects(i) : FittingObject(i, obj, valid)}

ValidsFrom(valid) == valid = [i \in TypeIds |-> ValidFrom(i, valid)]

LEMMA ValidOfEarlier ==
  ASSUME NEW i \in TypeIds, NEW valid, NEW more, \A j \in TypeIds : j < i => valid[j] = more[j]
  PROVE  ValidFrom(i, valid) = ValidFrom(i, more)
<1>1. ASSUME NEW k \in DOMAIN Fields[i], NEW v
      PROVE  Fitting(Fields[i][k], v, valid) <=> Fitting(Fields[i][k], v, more)
  <2>1. IsComposite(Fields[i][k]) => valid[Fields[i][k].ref] = more[Fields[i][k].ref]
    BY FieldsAre
  <2> QED BY <2>1, Zenon DEF Fitting
<1>2. ASSUME NEW obj PROVE FittingObject(i, obj, valid) <=> FittingObject(i, obj, more)
  BY <1>1, Zenon DEF FittingObject
<1> QED BY <1>2, Zenon DEF ValidFrom

LEMMA ValidsExist == \E valid : ValidsFrom(valid)
<1> DEFINE IsTo(m, f) == /\ DOMAIN f = TypeIds
                         /\ f = [j \in TypeIds |-> f[j]]
                         /\ \A i \in TypeIds : i <= m => f[i] = ValidFrom(i, f)
           N == {m \in Nat : \E f : IsTo(m, f)}
<1>0. TypeIds = 1 .. Len(Types) /\ Len(Types) \in Nat
  BY LayoutConstants DEF TypeIds, IsSequence
<1>1. 0 \in N
  <2>1. IsTo(0, [i \in TypeIds |-> {}])
    BY <1>0
  <2> QED BY <2>1
<1>2. ASSUME NEW m \in Nat, m \in N PROVE m + 1 \in N
  <2>1. PICK f : IsTo(m, f)
    BY <1>2
  <2> DEFINE more == [i \in TypeIds |-> IF i = m + 1 THEN ValidFrom(m + 1, f) ELSE f[i]]
  <2>2. ASSUME NEW i \in TypeIds, i <= m + 1 PROVE more[i] = ValidFrom(i, more)
    <3>1. \A j \in TypeIds : j < i => f[j] = more[j]
      BY <1>0, <2>2
    <3>2. ValidFrom(i, more) = ValidFrom(i, f)
      <4> HIDE DEF more
      <4> QED BY <3>1, ValidOfEarlier
    <3>3. i # m + 1 => i <= m
      BY <1>0, <2>2
    <3>4. CASE i = m + 1
      <4>1. more[i] = ValidFrom(m + 1, f)
        BY <3>4
      <4> QED BY <3>2, <3>4, <4>1, Zenon
    <3>5. CASE i # m + 1
      <4>1. more[i] = f[i]
        BY <3>5
      <4>2. f[i] = ValidFrom(i, f)
        BY <2>1, <3>3, <3>5
      <4> QED BY <3>2, <4>1, <4>2, Zenon
    <3> QED BY <3>4, <3>5
  <2>3. DOMAIN more = TypeIds /\ more = [j \in TypeIds |-> more[j]]
    OBVIOUS
  <2> HIDE DEF more
  <2>4. IsTo(m + 1, more)
    BY <2>2, <2>3
  <2> QED BY <2>4
<1> HIDE DEF N
<1>3. Len(Types) \in N
  BY <1>0, <1>1, <1>2, Induction
<1>4. PICK f : IsTo(Len(Types), f)
  BY <1>3 DEF N
<1>5. ASSUME NEW i \in TypeIds PROVE f[i] = ValidFrom(i, f)
  <2>1. i <= Len(Types)
    BY <1>0
  <2> QED BY <1>4, <2>1
<1>6. [j \in TypeIds |-> f[j]] = [j \in TypeIds |-> ValidFrom(j, f)]
  BY <1>5, Zenon
<1>7. ValidsFrom(f)
  BY <1>4, <1>6, Zenon DEF ValidsFrom
<1> QED BY <1>7

LEMMA ValidObjectsAre ==
  ASSUME NEW i \in TypeIds
  PROVE  ValidObjects[i] = {obj \in Objects(i) : FittingObject(i, obj, ValidObjects)}
<1> DEFINE valid == CHOOSE f : ValidsFrom(f)
<1>1. ValidsFrom(valid)
  BY ValidsExist, Zenon
<1>2. ValidObjects = [j \in TypeIds |-> valid[j]]
  BY Zenon DEF ValidObjects, ValidsFrom, ValidFrom
<1> HIDE DEF valid
<1>3. \A j \in TypeIds : ValidObjects[j] = valid[j]
  BY <1>2
<1>4. ValidFrom(i, valid) = ValidFrom(i, ValidObjects)
  BY <1>3, ValidOfEarlier
<1>5. valid[i] = ValidFrom(i, valid)
  BY <1>1, Zenon DEF ValidsFrom
<1>6. ValidObjects[i] = ValidFrom(i, ValidObjects)
  BY <1>3, <1>4, <1>5, Zenon
<1> QED BY <1>6, Zenon DEF ValidFrom

(* An object in memory that is the image of its message always fits.       *)
LEMMA ImagesFit ==
  ASSUME NEW i \in TypeIds, Imaged(i)
  PROVE  ValidObjects[i] = Objects(i)
<1> DEFINE N == {m \in Nat : \A j \in TypeIds : j <= m /\ Imaged(j) => ValidObjects[j] = Objects(j)}
<1>0. TypeIds = 1 .. Len(Types) /\ Len(Types) \in Nat
  BY LayoutConstants DEF TypeIds, IsSequence
<1>1. 0 \in N
  BY <1>0
<1>2. ASSUME NEW m \in Nat, m \in N PROVE m + 1 \in N
  <2> SUFFICES ASSUME NEW j \in TypeIds, j = m + 1, Imaged(j)
               PROVE  ValidObjects[j] = Objects(j)
    BY <1>0, <1>2
  <2> SUFFICES ASSUME NEW obj \in Objects(j) PROVE FittingObject(j, obj, ValidObjects)
    BY ValidObjectsAre, Zenon
  <2>1. \A h \in TypeIds : h < j /\ Imaged(h) => ValidObjects[h] = Objects(h)
    BY <1>0, <1>2
  <2>2. /\ ~IsUnion[j] /\ DOMAIN Fields[j] = 1 .. Len(Fields[j])
        /\ \A k \in 1 .. Len(Fields[j]) :
              /\ Fields[j][k].array # "variable"
              /\ IsComposite(Fields[j][k]) => Imaged(Fields[j][k].ref)
    BY ImageIsFlat, AllAccepted, Definitions
  <2>3. \A k \in DOMAIN Fields[j] : IsValue(Fields[j][k], obj[k])
    BY <2>2, PlanConstants DEF IsObject
  <2>4. ASSUME NEW k \in DOMAIN Fields[j] PROVE Fitting(Fields[j][k], obj[k], ValidObjects)
    <3> DEFINE f == Fields[j][k]
    <3>1. IsValue(f, obj[k]) /\ f.array # "variable" /\ f.array \in {"none", "fixed", "variable"}
      BY <2>2, <2>3, FieldsAre DEF IsField
    <3>2. IsComposite(f) => ValidObjects[f.ref] = Objects(f.ref)
      BY <2>1, <2>2, FieldsAre
    <3> HIDE DEF f
    <3>3. Fitting(f, obj[k], ValidObjects)
      BY <3>1, <3>2 DEF Fitting, IsValue
    <3> QED BY <3>3 DEF f
  <2> QED BY <2>2, <2>4 DEF FittingObject
<1> HIDE DEF N
<1>3. Len(Types) \in N
  BY <1>0, <1>1, <1>2, Induction
<1> QED BY <1>0, <1>3 DEF N

-----------------------------------------------------------------------------
(* What a body has found out of its object, and what is left to find out.  *)

MemberOf(i, obj, k) == IF IsUnion[i] THEN obj.value ELSE obj[k]

Chosen(i, obj) == TagValue(obj.tag, UnionTagBits(Types[i])) + 1

(* The step finds nothing wrong with the object, nor does what it calls.   *)
Passes(i, obj, s) ==
    /\ s.kind = "field" => Fitting(s.f, MemberOf(i, obj, s.field), ValidObjects)
    /\ s.kind = "tag" =>
          /\ Chosen(i, obj) \in DOMAIN Fields[i]
          /\ Fitting(Fields[i][Chosen(i, obj)], obj.value, ValidObjects)

PassesAll(i, obj, todo) == \A n \in 1 .. Len(todo) : Passes(i, obj, todo[n])

(* Nor do the elements that a loop has ahead.                              *)
PassesLoop(t) ==
    IsComposite(t.todo[1].f) =>
      \A n \in 1 .. t.loop.count : t.loop.at < n => Member(t)[n] \in ValidObjects[t.todo[1].f.ref]

Passing(t) == PassesAll(t.type, t.obj, t.todo) /\ (InLoop(t) => PassesLoop(t))

(* A body that found nothing wrong has all of it ahead that could be, one  *)
(* that did had an object that does not fit; and only a buffer that holds  *)
(* the longest object is let in.                                           *)
Judged(t) ==
    /\ t.err = Ok => (Passing(t) <=> t.obj \in ValidObjects[t.type])
    /\ t.err \notin {Ok, TooSmall} => t.obj \notin ValidObjects[t.type]
    /\ t.err # TooSmall => t.cap * ByteBits >= MaxBits[t.type]

Judging(frames) ==
    \A d \in 1 .. Len(frames) :
      /\ Judged(frames[d])
      /\ d > 1 => frames[d].obj = Element(frames[d - 1], frames[d - 1].todo[1].f)
      /\ d = 1 => frames[d].obj = source /\ frames[d].cap = size

VInv == LInv /\ (Writing => Judging(stack)) /\ WrittenIffValid

LEMMA PassesRest ==
  ASSUME NEW i \in TypeIds, NEW w \in BOOLEAN, NEW todo, IsTodo(i, w, todo), todo # << >>, NEW obj
  PROVE  PassesAll(i, obj, todo) <=> Passes(i, obj, todo[1]) /\ PassesAll(i, obj, Tail(todo))
<1>1. /\ Len(todo) \in Nat /\ Len(todo) > 0 /\ Len(Tail(todo)) = Len(todo) - 1
      /\ \A n \in 1 .. Len(Tail(todo)) : Tail(todo)[n] = todo[n + 1]
  BY RestIs
<1>2. ASSUME PassesAll(i, obj, todo)
      PROVE  Passes(i, obj, todo[1]) /\ PassesAll(i, obj, Tail(todo))
  <2>1. 1 \in 1 .. Len(todo) /\ \A n \in 1 .. Len(Tail(todo)) : n + 1 \in 1 .. Len(todo)
    BY <1>1
  <2> QED BY <1>1, <1>2, <2>1 DEF PassesAll
<1>3. ASSUME Passes(i, obj, todo[1]), PassesAll(i, obj, Tail(todo)), NEW n \in 1 .. Len(todo)
      PROVE  Passes(i, obj, todo[n])
  <2>1. CASE n = 1
    BY <1>3, <2>1
  <2>2. CASE n # 1
    <3>1. n - 1 \in 1 .. Len(Tail(todo)) /\ (n - 1) + 1 = n
      BY <1>1, <2>2
    <3>2. Tail(todo)[n - 1] = todo[n]
      BY <1>1, <3>1
    <3> QED BY <1>3, <3>1, <3>2 DEF PassesAll
  <2> QED BY <2>1, <2>2
<1> QED BY <1>2, <1>3 DEF PassesAll

LEMMA PassesNothing ==
  ASSUME NEW t, t.todo = << >>
  PROVE  Passing(t)
BY HeldNothing DEF Passing, PassesAll, InLoop

(* A step finds out what it is about.                                      *)
LEMMA JudgedPast ==
  ASSUME NEW w \in BOOLEAN, NEW t, FrameOK(t, w), t.todo # << >>, Judged(t),
         NEW u, Keeps(t, u), u.obj = t.obj,
         u.err = Ok => t.err = Ok /\ Passes(t.type, t.obj, t.todo[1]) /\ (InLoop(t) => PassesLoop(t)),
         u.err \notin {Ok, TooSmall} =>
           t.err = u.err \/ (t.err = Ok /\ ~(Passes(t.type, t.obj, t.todo[1]) /\ (InLoop(t) => PassesLoop(t))))
  PROVE  Judged(Past(u)) /\ Past(u).obj = t.obj /\ Past(u).cap = t.cap
<1> DEFINE p == Past(u)
<1>1. /\ p.type = t.type /\ p.obj = t.obj /\ p.cap = t.cap /\ p.err = u.err /\ p.todo = Tail(t.todo)
  BY PastIs DEF Keeps
<1> HIDE DEF p
<1>2. t.type \in TypeIds /\ IsTodo(t.type, w, t.todo)
  BY FrameIs
<1>3. ~InLoop(p)
  BY <1>1, <1>2, RestIs DEF InLoop
<1>4. Passing(p) <=> PassesAll(t.type, t.obj, Tail(t.todo))
  BY <1>1, <1>3 DEF Passing
<1>5. Passing(t) <=> /\ Passes(t.type, t.obj, t.todo[1]) /\ (InLoop(t) => PassesLoop(t))
                     /\ PassesAll(t.type, t.obj, Tail(t.todo))
  BY <1>2, PassesRest DEF Passing
<1>6. p.err = Ok => (Passing(p) <=> p.obj \in ValidObjects[p.type])
  BY <1>1, <1>4, <1>5 DEF Judged
<1>7. p.err \notin {Ok, TooSmall} => p.obj \notin ValidObjects[p.type]
  BY <1>1, <1>5 DEF Judged
<1>8. p.err # TooSmall => p.cap * ByteBits >= MaxBits[p.type]
  <2>1. p.err # TooSmall => t.err # TooSmall
    BY <1>1 DEF Ok, TooSmall
  <2> QED BY <1>1, <2>1 DEF Judged
<1> QED BY <1>1, <1>6, <1>7, <1>8 DEF Judged, p

(* Where a frame says the same and there is the same ahead.                *)
LEMMA JudgedAlike ==
  ASSUME NEW t, Judged(t), NEW u, u.type = t.type, u.cap = t.cap, u.obj = t.obj,
         u.err = Ok => t.err = Ok /\ (Passing(u) <=> Passing(t)),
         u.err \notin {Ok, TooSmall} => t.err = u.err \/ (t.err = Ok /\ ~Passing(t))
  PROVE  Judged(u)
<1>1. u.err # TooSmall => t.err # TooSmall
  BY DEF Ok, TooSmall
<1> QED BY <1>1 DEF Judged

-----------------------------------------------------------------------------
(* The frames on the stack.                                                *)

LEMMA TopJudged ==
  ASSUME NEW w, AreFrames(stack, w), stack # << >>, Judging(stack),
         NEW t, Judged(t), t.obj = Top.obj, t.cap = Top.cap
  PROVE  Judging(WithTop(t))
<1> DEFINE r == [stack EXCEPT ![Len(stack)] = t]
<1>1. stack \in Seq(Held(stack)) /\ Len(stack) \in Nat /\ Len(stack) > 0
  BY HeldIs DEF AreFrames
<1>2. Len(r) = Len(stack) /\ \A n \in 1 .. Len(stack) : r[n] = IF n = Len(stack) THEN t ELSE stack[n]
  BY <1>1, HeldReplaced
<1> HIDE DEF r
<1>3. ASSUME NEW d \in 1 .. Len(r)
      PROVE  /\ Judged(r[d])
             /\ d > 1 => r[d].obj = Element(r[d - 1], r[d - 1].todo[1].f)
             /\ d = 1 => r[d].obj = source /\ r[d].cap = size
  <2>1. /\ Judged(stack[d])
        /\ d > 1 => stack[d].obj = Element(stack[d - 1], stack[d - 1].todo[1].f)
        /\ d = 1 => stack[d].obj = source /\ stack[d].cap = size
    BY <1>2 DEF Judging
  <2>2. Judged(r[d]) /\ r[d].obj = stack[d].obj /\ r[d].cap = stack[d].cap
    BY <1>2, <2>1 DEF Top
  <2>3. d > 1 => r[d - 1] = stack[d - 1]
    BY <1>1, <1>2
  <2> QED BY <2>1, <2>2, <2>3
<1>4. Judging(r)
  BY <1>3 DEF Judging
<1> QED BY <1>4 DEF WithTop, r

LEMMA CalledJudged ==
  ASSUME NEW w, AreFrames(stack, w), stack # << >>, Judging(stack),
         NEW t, Judged(t), t.obj = Element(Top, Top.todo[1].f)
  PROVE  Judging(Append(stack, t))
<1> DEFINE r == Append(stack, t)
<1>1. stack \in Seq(Held(stack)) /\ Len(stack) \in Nat /\ Len(stack) > 0
  BY HeldIs DEF AreFrames
<1>2. Len(r) = Len(stack) + 1 /\ r[Len(stack) + 1] = t /\ \A n \in 1 .. Len(stack) : r[n] = stack[n]
  BY <1>1, HeldAppend
<1> HIDE DEF r
<1>3. ASSUME NEW d \in 1 .. Len(r)
      PROVE  /\ Judged(r[d])
             /\ d > 1 => r[d].obj = Element(r[d - 1], r[d - 1].todo[1].f)
             /\ d = 1 => r[d].obj = source /\ r[d].cap = size
  <2>1. CASE d = Len(stack) + 1
    <3>1. r[d] = t /\ d - 1 = Len(stack) /\ r[d - 1] = Top /\ d # 1
      BY <1>1, <1>2, <2>1 DEF Top
    <3> QED BY <3>1
  <2>2. CASE d # Len(stack) + 1
    <3>1. d \in 1 .. Len(stack) /\ r[d] = stack[d]
      BY <1>1, <1>2, <2>2
    <3>2. d > 1 => r[d - 1] = stack[d - 1]
      BY <1>1, <1>2, <3>1
    <3>3. /\ Judged(stack[d])
          /\ d > 1 => stack[d].obj = Element(stack[d - 1], stack[d - 1].todo[1].f)
          /\ d = 1 => stack[d].obj = source /\ stack[d].cap = size
      BY <3>1 DEF Judging
    <3> QED BY <3>1, <3>2, <3>3
  <2> QED BY <2>1, <2>2
<1>4. Judging(r)
  BY <1>3 DEF Judging
<1> QED BY <1>4 DEF r

LEMMA ReturnedJudged ==
  ASSUME NEW w, AreFrames(stack, w), Len(stack) > 1, Judging(stack),
         NEW t, Judged(t), t.obj = Outer.obj, t.cap = Outer.cap
  PROVE  Judging(Popped(t))
<1> DEFINE r == Append(SubSeq(stack, 1, Len(stack) - 2), t)
           n == Len(stack) - 1
<1>1. stack \in Seq(Held(stack)) /\ Len(stack) \in Nat /\ n \in Nat /\ n > 0 /\ n - 1 = Len(stack) - 2
      /\ Len(stack) = n + 1
  BY HeldIs DEF AreFrames
<1>0. stack \in Seq(Held(stack))
  BY DEF AreFrames
<1>2. /\ r \in Seq(Held(r))
      /\ Len(r) = Len(stack) - 1
      /\ \A m \in 1 .. (Len(stack) - 2) : r[m] = stack[m]
      /\ r[Len(stack) - 1] = t
  BY <1>0, HeldPopped, ZenonT(40)
<1> HIDE DEF r
<1>3. Len(r) = n /\ r[n] = t /\ \A m \in 1 .. (n - 1) : r[m] = stack[m]
  BY <1>1, <1>2
<1>4. stack[n] = Outer
  BY DEF Outer
<1> HIDE DEF n
<1>5. ASSUME NEW d \in 1 .. Len(r)
      PROVE  /\ Judged(r[d])
             /\ d > 1 => r[d].obj = Element(r[d - 1], r[d - 1].todo[1].f)
             /\ d = 1 => r[d].obj = source /\ r[d].cap = size
  <2>1. /\ Judged(stack[d])
        /\ d > 1 => stack[d].obj = Element(stack[d - 1], stack[d - 1].todo[1].f)
        /\ d = 1 => stack[d].obj = source /\ stack[d].cap = size
    BY <1>1, <1>3 DEF Judging
  <2>2. Judged(r[d]) /\ r[d].obj = stack[d].obj /\ r[d].cap = stack[d].cap
    <3>1. d = n \/ d \in 1 .. (n - 1)
      BY <1>1, <1>3
    <3> QED BY <1>3, <1>4, <2>1, <3>1
  <2>3. d > 1 => r[d - 1] = stack[d - 1]
    BY <1>1, <1>3
  <2> QED BY <2>1, <2>2, <2>3
<1>6. Judging(r)
  BY <1>5 DEF Judging
<1> QED BY <1>6 DEF Popped, r

-----------------------------------------------------------------------------
(* The steps of a body that writes.                                        *)

LEMMA AtJudged ==
  ASSUME VInv, Writing, stack # << >>
  PROVE  /\ LInv /\ Writing \in BOOLEAN /\ AreFrames(stack, Writing) /\ FrameOK(Top, Writing)
         /\ Judging(stack) /\ Judged(Top) /\ IsFrame(Top) /\ Top.type \in TypeIds
         /\ Top.obj \in Objects(Top.type) /\ IsTodo(Top.type, Writing, Top.todo)
         /\ Top.todo # << >> => /\ Step = Top.todo[1] /\ IsStep(Top.type, Writing, Step)
                                /\ Step.kind \in {"field", "elements"} => IsFieldOf(Field)
<1>1. LInv /\ Judging(stack)
  BY DEF VInv
<1>2. /\ Writing \in BOOLEAN /\ AreFrames(stack, Writing) /\ FrameOK(Top, Writing)
      /\ IsFrame(Top) /\ Top.type \in TypeIds
      /\ Top.todo # << >> => /\ Step = Top.todo[1] /\ IsStep(Top.type, Writing, Step)
                             /\ Step.kind \in {"field", "elements"} => IsFieldOf(Field)
  BY <1>1, AtPlaced
<1>3. Len(stack) \in 1 .. Len(stack)
  BY <1>2, HeldIs DEF AreFrames
<1>4. Judged(Top)
  BY <1>1, <1>3 DEF Judging, Top
<1>5. Top.obj \in Objects(Top.type) /\ IsTodo(Top.type, Writing, Top.todo)
  BY <1>2 DEF FrameOK, WellFormed
<1> QED BY <1>1, <1>2, <1>4, <1>5

LEMMA TopJudgedPast ==
  ASSUME VInv, Writing, stack # << >>, Top.todo # << >>, NEW u, Keeps(Top, u), u.obj = Top.obj,
         u.err = Ok => /\ Top.err = Ok /\ Passes(Top.type, Top.obj, Step)
                       /\ InLoop(Top) => PassesLoop(Top),
         u.err \notin {Ok, TooSmall} =>
           \/ Top.err = u.err
           \/ Top.err = Ok /\ ~(Passes(Top.type, Top.obj, Step) /\ (InLoop(Top) => PassesLoop(Top)))
  PROVE  Judging(WithTop(Past(u)))
<1>1. /\ Writing \in BOOLEAN /\ AreFrames(stack, Writing) /\ FrameOK(Top, Writing)
      /\ Judging(stack) /\ Judged(Top) /\ Step = Top.todo[1]
  BY AtJudged
<1>2. Judged(Past(u)) /\ Past(u).obj = Top.obj /\ Past(u).cap = Top.cap
  BY <1>1, JudgedPast
<1> QED BY <1>1, <1>2, TopJudged

(* A step that no object fails.                                            *)
LEMMA JudgedAdvances ==
  ASSUME VInv, Writing, stack # << >>, Top.todo # << >>, ~InLoop(Top), Top.err = Ok, NEW n,
         Passes(Top.type, Top.obj, Step)
  PROVE  Judging(WithTop(Past(Advanced(Top, n))))
<1> DEFINE u == Advanced(Top, n)
<1>1. IsFrame(Top)
  BY AtJudged
<1>2. Keeps(Top, u) /\ u.obj = Top.obj /\ u.err \in {Ok, TooSmall}
  <2>1. u.err = IF Fits(Top, Top.off, n) THEN Top.err ELSE TooSmall
    BY <1>1 DEF Advanced, IsFrame
  <2> QED BY <1>1, <2>1, AdvancedIs
<1> HIDE DEF u
<1>3. Judging(WithTop(Past(u)))
  BY <1>2, TopJudgedPast
<1> QED BY <1>3 DEF u

(* A field that is neither an array nor a composite has nothing to find.   *)
LEMMA ScalarPasses ==
  ASSUME NEW i, NEW obj, NEW s, s.kind # "tag", ~IsArray(s.f), ~IsComposite(s.f)
  PROVE  Passes(i, obj, s)
BY DEF Passes, Fitting, IsArray

LEMMA WriteScalarJudges ==
  ASSUME VInv, WriteScalar
  PROVE  Judging(stack')
<1>1. /\ stack # << >> /\ Top.todo # << >> /\ Step.kind = "field" /\ ~IsArray(Field) /\ ~IsComposite(Field)
      /\ stack' = WithTop(Past(Advanced(Top, Field.bits))) /\ Top.err = Ok /\ Writing
  BY DEF WriteScalar, AtField, AtStep, IsComposite, Healthy
<1>2. ~InLoop(Top)
  BY <1>1, AtJudged DEF InLoop
<1>3. Passes(Top.type, Top.obj, Step)
  BY <1>1, ScalarPasses DEF Field
<1> QED BY <1>1, <1>2, <1>3, JudgedAdvances

LEMMA PaddingJudges ==
  ASSUME VInv, Writing, Padding
  PROVE  Judging(stack')
<1>1. /\ stack # << >> /\ Top.todo # << >> /\ Step.kind = "field" /\ Field.cat = "void"
      /\ ZeroBits(Field.bits) /\ Top.err = Ok
  BY DEF Padding, AtField, AtStep, Healthy, Unguarded
<1>2. IsFieldOf(Field) /\ ~InLoop(Top)
  BY <1>1, AtJudged DEF InLoop
<1>3. ~IsArray(Field) /\ ~IsComposite(Field)
  BY <1>1, <1>2, FieldOf DEF IsComposite
<1>4. Passes(Top.type, Top.obj, Step)
  BY <1>1, <1>3, ScalarPasses DEF Field
<1>5. stack' = WithTop(Past(Advanced(Top, Field.bits)))
  BY <1>1 DEF ZeroBits
<1> QED BY <1>1, <1>2, <1>4, <1>5, JudgedAdvances

LEMMA AlignJudges ==
  ASSUME VInv, Writing, Align
  PROVE  Judging(stack')
<1> DEFINE from == IF Step.known.residue = Unknown THEN Top.off ELSE Step.known.residue
           n == PadTo(from, ByteBits) - from
<1>1. stack # << >> /\ Top.todo # << >> /\ Step.kind = "align" /\ ZeroBits(n) /\ Top.err = Ok
  BY DEF Align, AtStep, Healthy, Unguarded
<1> HIDE DEF n
<1>2. ~InLoop(Top)
  BY <1>1, AtJudged DEF InLoop
<1>3. Passes(Top.type, Top.obj, Step)
  BY <1>1 DEF Passes
<1>4. stack' = WithTop(Past(Advanced(Top, n)))
  BY <1>1 DEF ZeroBits
<1> QED BY <1>1, <1>2, <1>3, <1>4, JudgedAdvances

LEMMA WriteImageJudges ==
  ASSUME VInv, WriteImage
  PROVE  Judging(stack')
<1> DEFINE u == [Top EXCEPT !.off = @ + Step.bits]
<1>1. /\ stack # << >> /\ Top.todo # << >> /\ Step.kind = "move" /\ Top.err = Ok /\ Writing
      /\ stack' = WithTop(Past(u))
  BY DEF WriteImage, AtStep, Healthy
<1>2. IsFrame(Top) /\ ~InLoop(Top)
  BY <1>1, AtJudged DEF InLoop
<1>3. Keeps(Top, u) /\ u.obj = Top.obj /\ u.err = Top.err
  BY <1>2, MovedIs
<1> HIDE DEF u
<1>4. Passes(Top.type, Top.obj, Step)
  BY <1>1 DEF Passes
<1> QED BY <1>1, <1>2, <1>3, <1>4, TopJudgedPast

LEMMA SkipJudges ==
  ASSUME VInv, Writing, Skip
  PROVE  Judging(stack')
<1>1. /\ stack # << >> /\ Top.todo # << >> /\ Top.err # Ok
      /\ stack' = WithTop(Past(Top))
  BY DEF Skip, Healthy
<1>2. Keeps(Top, Top)
  BY <1>1, AtJudged DEF Keeps
<1> QED BY <1>1, <1>2, TopJudgedPast

LEMMA EndArrayJudges ==
  ASSUME VInv, Writing, EndArray
  PROVE  Judging(stack')
<1>1. /\ stack # << >> /\ Top.todo # << >> /\ Step.kind = "elements"
      /\ Top.err = Ok => Top.loop.at = Top.loop.count
      /\ stack' = WithTop(Past(Top))
  BY DEF EndArray, AtStep, Healthy
<1>2. Keeps(Top, Top) /\ InLoop(Top) /\ Step = Top.todo[1] /\ Placed(Top, Writing) /\ FrameOK(Top, Writing)
  BY <1>1, AtJudged, AtPlaced DEF Keeps, InLoop
<1>3. Passes(Top.type, Top.obj, Step)
  BY <1>1 DEF Passes
<1>4. ASSUME Top.err = Ok PROVE PassesLoop(Top)
  <2>1. PICK m \in Nat : m = Top.loop.at
    BY <1>2, FrameIs DEF Writing
  <2>2. Top.loop.count = m
    BY <1>1, <1>4, <2>1
  <2>3. \A n \in 1 .. m : ~ (m < n)
    BY <2>1
  <2> QED BY <2>1, <2>2, <2>3 DEF PassesLoop
<1> QED BY <1>1, <1>2, <1>3, <1>4, TopJudgedPast

LEMMA PassesBoth ==
  ASSUME NEW i, NEW obj, NEW a, a \in Seq(Held(a)), NEW b, b \in Seq(Held(b))
  PROVE  PassesAll(i, obj, a \o b) <=> PassesAll(i, obj, a) /\ PassesAll(i, obj, b)
<1> DEFINE r == a \o b
<1>1. /\ Len(a) \in Nat /\ Len(b) \in Nat /\ Len(r) = Len(a) + Len(b)
      /\ \A n \in 1 .. Len(a) : r[n] = a[n]
      /\ \A n \in 1 .. Len(b) : r[Len(a) + n] = b[n]
  BY HeldJoins DEF Joins
<1> HIDE DEF r
<1>2. ASSUME PassesAll(i, obj, r) PROVE PassesAll(i, obj, a) /\ PassesAll(i, obj, b)
  <2>1. /\ \A n \in 1 .. Len(a) : n \in 1 .. Len(r)
        /\ \A n \in 1 .. Len(b) : Len(a) + n \in 1 .. Len(r)
    BY <1>1
  <2> QED BY <1>1, <1>2, <2>1 DEF PassesAll
<1>3. ASSUME PassesAll(i, obj, a), PassesAll(i, obj, b), NEW n \in 1 .. Len(r)
      PROVE  Passes(i, obj, r[n])
  <2>1. CASE n \in 1 .. Len(a)
    BY <1>1, <1>3, <2>1 DEF PassesAll
  <2>2. CASE n \notin 1 .. Len(a)
    <3>1. n - Len(a) \in 1 .. Len(b) /\ Len(a) + (n - Len(a)) = n
      BY <1>1, <2>2
    <3> QED BY <1>1, <1>3, <3>1 DEF PassesAll
  <2> QED BY <2>1, <2>2
<1> QED BY <1>2, <1>3 DEF PassesAll, r

LEMMA PassesOne ==
  ASSUME NEW i, NEW obj, NEW s
  PROVE  PassesAll(i, obj, <<s>>) <=> Passes(i, obj, s)
<1> DEFINE r == <<s>>
<1>1. Len(r) = 1 /\ r[1] = s
  OBVIOUS
<1> HIDE DEF r
<1>2. \A n \in 1 .. Len(r) : n = 1
  BY <1>1
<1>3. 1 \in 1 .. Len(r)
  BY <1>1
<1> QED BY <1>1, <1>2, <1>3 DEF PassesAll, r

(* A loop has ahead what its field had.                                    *)
LEMMA LoopPasses ==
  ASSUME NEW f, IsField(f), IsArray(f), NEW m, IsValue(f, m),
         NEW count, count = IF f.array = "fixed" THEN f.cap ELSE Len(m)
  PROVE  /\ TooLong(f, count) => ~Fitting(f, m, ValidObjects)
         /\ ~TooLong(f, count) =>
              (Fitting(f, m, ValidObjects) <=>
                (IsComposite(f) => \A n \in 1 .. count : 0 < n => m[n] \in ValidObjects[f.ref]))
<1>1. f.array \in {"fixed", "variable"} /\ f.cap \in Nat
  BY DEF IsField, IsArray
<1>2. CASE f.array = "fixed"
  <2>1. count = f.cap
    BY <1>2
  <2>2. \A n \in 1 .. count : 0 < n
    BY <1>1, <2>1
  <2> QED BY <1>2, <2>1, <2>2 DEF TooLong, Fitting
<1>3. CASE f.array = "variable"
  <2>1. count = Len(m) /\ IsSequence(m)
    BY <1>3 DEF IsValue
  <2>2. DOMAIN m = 1 .. count
    BY <2>1 DEF IsSequence
  <2>5. count \in Nat
    BY <2>1 DEF IsSequence
  <2>3. \A n \in 1 .. count : 0 < n
    BY <2>5
  <2>4. TooLong(f, count) <=> ~(Len(m) <= f.cap)
    BY <1>1, <1>3, <2>1, <2>5 DEF TooLong
  <2> QED BY <1>3, <2>1, <2>2, <2>3, <2>4 DEF Fitting
<1> QED BY <1>1, <1>2, <1>3

LEMMA StartJudged ==
  ASSUME VInv, Writing, stack # << >>, Top.todo # << >>, Step.kind = "field", IsArray(Field), Top.err = Ok,
         NEW count, count = IF Field.array = "fixed" THEN Field.cap ELSE Len(Member(Top)),
         ~TooLong(Field, count), NEW u, Keeps(Top, u), u.obj = Top.obj, u.err \in {Ok, TooSmall}
  PROVE  Judging(WithTop([u EXCEPT !.loop = [at |-> 0, count |-> count],
                                   !.todo = <<[Step EXCEPT !.kind = "elements"]>> \o Tail(@)]))
<1>1. /\ Writing \in BOOLEAN /\ AreFrames(stack, Writing) /\ FrameOK(Top, Writing) /\ IsFrame(Top)
      /\ Judging(stack) /\ Judged(Top) /\ Step = Top.todo[1] /\ Field = Top.todo[1].f
      /\ IsTodo(Top.type, Writing, Top.todo) /\ IsFieldOf(Field) /\ IsStep(Top.type, Writing, Step)
      /\ Top.type \in TypeIds
  BY AtJudged DEF Field
<1> DEFINE e == Elements(Step)
           rest == Tail(Top.todo)
           r == <<e>> \o rest
           v == [u EXCEPT !.loop = [at |-> 0, count |-> count],
                          !.todo = <<[Step EXCEPT !.kind = "elements"]>> \o Tail(@)]
<1>2. IsFieldStep(Top.type, Writing, Step)
  BY <1>1, StepIs
<1>3. e.kind = "elements" /\ e.f = Field /\ e.field = Step.field
  BY <1>1, <1>2, ElementsOf DEF Field
<1>4. /\ v.type = Top.type /\ v.cap = Top.cap /\ v.obj = Top.obj /\ v.err = u.err
      /\ v.todo = r /\ v.loop.at = 0 /\ v.loop.count = count
  BY DEF Keeps, IsFrame, Elements
<1>5. rest \in Seq(Held(rest)) /\ <<e>> \in Seq(Held(<<e>>))
  BY <1>1, RestIs, HeldOne
<1>6. IsTodo(Top.type, Writing, r) /\ r # << >> /\ r[1] = e
  BY <1>1, TodoLoops
<1>7. Head(r) = e
  BY <1>6, TodoHead
<1>8. PassesAll(Top.type, Top.obj, r) <=> PassesAll(Top.type, Top.obj, rest)
  <2>1. PassesAll(Top.type, Top.obj, r) <=>
          PassesAll(Top.type, Top.obj, <<e>>) /\ PassesAll(Top.type, Top.obj, rest)
    BY <1>5, PassesBoth
  <2>2. Passes(Top.type, Top.obj, e)
    <3> HIDE DEF e
    <3> QED BY <1>3 DEF Passes
  <2> QED BY <2>1, <2>2, PassesOne
<1> HIDE DEF v, e, r
<1>9. Member(v) = Member(Top)
  BY <1>1, <1>3, <1>4, <1>7, TodoHead DEF Member
<1>10. Passing(Top) <=> /\ Fitting(Field, Member(Top), ValidObjects)
                        /\ PassesAll(Top.type, Top.obj, rest)
  <2>1. ~InLoop(Top)
    BY <1>1 DEF InLoop
  <2>2. Passing(Top) <=> /\ Passes(Top.type, Top.obj, Step)
                         /\ PassesAll(Top.type, Top.obj, rest)
    BY <1>1, <2>1, PassesRest DEF Passing
  <2>3. Passes(Top.type, Top.obj, Step) <=> Fitting(Field, Member(Top), ValidObjects)
    <3>1. Member(Top) = MemberOf(Top.type, Top.obj, Step.field)
      BY <1>1, TodoHead DEF Member, MemberOf
    <3> QED BY <1>1, <3>1 DEF Passes, Field
  <2> QED BY <2>2, <2>3
<1>11. PassesLoop(v) <=> (IsComposite(Field) => \A n \in 1 .. count : 0 < n => Member(Top)[n] \in ValidObjects[Field.ref])
  BY <1>3, <1>4, <1>6, <1>9, Zenon DEF PassesLoop
<1>12. Fitting(Field, Member(Top), ValidObjects) <=> PassesLoop(v)
  <2>1. IsValue(Field, Member(Top))
    BY <1>1, MemberIs DEF FrameOK, Field
  <2> QED BY <1>1, <1>11, <2>1, FieldOf, LoopPasses
<1>13. Passing(v) <=> Passing(Top)
  <2>1. InLoop(v)
    BY <1>3, <1>4, <1>6 DEF InLoop
  <2> QED BY <1>4, <1>8, <1>10, <1>12, <2>1 DEF Passing
<1>14. Judged(v)
  BY <1>1, <1>4, <1>13, JudgedAlike
<1>15. Judging(WithTop(v))
  BY <1>1, <1>4, <1>14, TopJudged
<1> QED BY <1>15 DEF v

LEMMA WriteArrayJudges ==
  ASSUME VInv, WriteArray
  PROVE  Judging(stack')
<1>1. /\ stack # << >> /\ Top.todo # << >> /\ Step.kind = "field" /\ Writing /\ Top.err = Ok
      /\ IsArray(Field)
  BY DEF WriteArray, AtField, AtStep, Healthy
<1> DEFINE count == IF Field.array = "fixed" THEN Field.cap ELSE Len(Member(Top))
           t == Advanced(Top, LengthPrefixBits(Field))
           b == [t EXCEPT !.off = @ + count]
           e == [Top EXCEPT !.err = BadArrayLength]
<1>2. stack' = IF TooLong(Field, count) THEN WithTop(Past(e))
               ELSE IF Field.cat = "bool" THEN WithTop(Past(b))
               ELSE WithTop([t EXCEPT !.loop = [at |-> 0, count |-> count],
                                      !.todo = <<[Step EXCEPT !.kind = "elements"]>> \o Tail(@)])
  BY DEF WriteArray
<1>3. /\ IsFrame(Top) /\ Step = Top.todo[1] /\ IsFieldOf(Field) /\ FrameOK(Top, TRUE) /\ ~InLoop(Top)
  BY <1>1, AtJudged DEF InLoop
<1>4. count = IF Field.array = "fixed" THEN Field.cap ELSE Len(Member(Top))
  OBVIOUS
<1> HIDE DEF count
<1>5. Keeps(Top, t) /\ t.obj = Top.obj /\ t.err \in {Ok, TooSmall}
  <2>1. t.err = IF Fits(Top, Top.off, LengthPrefixBits(Field)) THEN Top.err ELSE TooSmall
    BY <1>3 DEF Advanced, IsFrame
  <2> QED BY <1>1, <1>3, <2>1, AdvancedIs
<1>6. Keeps(Top, e) /\ e.obj = Top.obj /\ e.err = BadArrayLength
  BY <1>3, FailedIs
<1> HIDE DEF t, e
<1>7. Keeps(t, b) /\ b.obj = t.obj /\ b.err = t.err
  BY <1>5, MovedIs DEF Keeps
<1> HIDE DEF b
<1>8. Keeps(Top, b)
  BY <1>5, <1>7, KeepsOn
<1>9. IsField(Field) /\ IsValue(Field, Member(Top))
  BY <1>1, <1>3, FieldOf, MemberIs DEF FrameOK, Field
<1>10. Passes(Top.type, Top.obj, Step) <=> Fitting(Field, Member(Top), ValidObjects)
  <2>1. Member(Top) = MemberOf(Top.type, Top.obj, Step.field)
    BY DEF Member, MemberOf, Step
  <2> QED BY <1>1, <2>1 DEF Passes, Field
<1>11. ASSUME TooLong(Field, count) PROVE Judging(WithTop(Past(e)))
  <2>1. ~Passes(Top.type, Top.obj, Step)
    BY <1>1, <1>4, <1>9, <1>10, <1>11, LoopPasses
  <2>2. e.err # Ok
    BY <1>6 DEF Ok, BadArrayLength
  <2> QED BY <1>1, <1>3, <1>6, <2>1, <2>2, TopJudgedPast
<1>12. ASSUME Field.cat = "bool", ~TooLong(Field, count) PROVE Judging(WithTop(Past(b)))
  <2>1. ~IsComposite(Field)
    BY <1>12 DEF IsComposite
  <2>2. Passes(Top.type, Top.obj, Step)
    BY <1>1, <1>4, <1>9, <1>10, <1>12, <2>1, LoopPasses
  <2> QED BY <1>1, <1>3, <1>5, <1>7, <1>8, <2>2, TopJudgedPast
<1>13. ASSUME ~TooLong(Field, count)
       PROVE  Judging(WithTop([t EXCEPT !.loop = [at |-> 0, count |-> count],
                                        !.todo = <<[Step EXCEPT !.kind = "elements"]>> \o Tail(@)]))
  BY <1>1, <1>4, <1>5, <1>13, StartJudged
<1> QED BY <1>2, <1>11, <1>12, <1>13

LEMMA WriteElementJudges ==
  ASSUME VInv, WriteElement
  PROVE  Judging(stack')
<1>1. /\ stack # << >> /\ Top.todo # << >> /\ Step.kind = "elements" /\ Top.err = Ok /\ Writing
      /\ ~IsComposite(Field)
      /\ stack' = WithTop([Advanced(Top, Field.bits) EXCEPT !.loop.at = @ + 1])
  BY DEF WriteElement, AtElement, AtStep, Healthy
<1>2. /\ AreFrames(stack, Writing) /\ Judging(stack) /\ Judged(Top) /\ IsFrame(Top)
      /\ Step = Top.todo[1] /\ Field = Top.todo[1].f
  BY <1>1, AtJudged DEF Field
<1> DEFINE u == Advanced(Top, Field.bits)
           v == [u EXCEPT !.loop.at = @ + 1]
<1>3. Keeps(Top, u) /\ u.obj = Top.obj /\ u.err \in {Ok, TooSmall}
  <2>1. u.err = IF Fits(Top, Top.off, Field.bits) THEN Top.err ELSE TooSmall
    BY <1>2 DEF Advanced, IsFrame
  <2> QED BY <1>1, <1>2, <2>1, AdvancedIs
<1> HIDE DEF u
<1>4. /\ v.type = Top.type /\ v.cap = Top.cap /\ v.obj = Top.obj /\ v.err = u.err /\ v.todo = Top.todo
  BY <1>3 DEF Keeps, IsFrame
<1> HIDE DEF v
<1>5. Passing(v) <=> Passing(Top)
  BY <1>1, <1>2, <1>4 DEF Passing, InLoop, PassesLoop
<1>6. Judged(v)
  BY <1>1, <1>2, <1>3, <1>4, <1>5, JudgedAlike
<1>7. Judging(WithTop(v))
  BY <1>1, <1>2, <1>4, <1>6, TopJudged
<1> QED BY <1>1, <1>7 DEF u, v

-----------------------------------------------------------------------------
(* A body that has all of its plan ahead finds out all there is.           *)

(* Padding has nothing to find.                                            *)
LEMMA PaddingFits ==
  ASSUME NEW i \in TypeIds, NEW k \in DOMAIN Fields[i], Fields[i][k].cat = "void", NEW v
  PROVE  Fitting(Fields[i][k], v, ValidObjects)
<1> DEFINE f == Fields[i][k]
<1>1. IsFieldOf(f)
  BY DEF IsFieldOf
<1>2. f.cat = "void"
  OBVIOUS
<1> HIDE DEF f
<1>3. ~IsArray(f) /\ ~IsComposite(f)
  BY <1>1, <1>2, FieldOf DEF IsComposite
<1>4. Fitting(f, v, ValidObjects)
  BY <1>3 DEF Fitting, IsArray
<1> QED BY <1>4 DEF f

(* What a chain of steps finds out is whether the fields fit that it is    *)
(* about.                                                                  *)
LEMMA ChainPasses ==
  ASSUME NEW i \in TypeIds, NEW w \in BOOLEAN, NEW body, NEW start, IsChain(i, w, body, start),
         NEW steps, IsCopy(body, steps), NEW obj
  PROVE  PassesAll(i, obj, body) <=>
           \A k \in DOMAIN Fields[i] :
              Covers(steps, k) => Fitting(Fields[i][k], MemberOf(i, obj, k), ValidObjects)
<1>1. ASSUME NEW n \in 1 .. Len(body)
      PROVE  /\ body[n].kind = steps[n].kind /\ body[n].field = steps[n].field
             /\ body[n].kind \in {"align", "field"}
             /\ body[n].kind = "field" => /\ body[n].field \in DOMAIN Fields[i]
                                          /\ body[n].f = Fields[i][body[n].field]
  <2>1. IsPlain(i, w, body[n]) /\ body[n].kind = steps[n].kind /\ body[n].field = steps[n].field
    BY <1>1 DEF IsChain, IsCopy
  <2>2. CASE IsAlign(body[n])
    BY <2>1, <2>2 DEF IsAlign
  <2>3. CASE IsFieldStep(i, w, body[n])
    <3>1. body[n].f = Fields[i][body[n].field]
      BY <2>3, FieldStepIs DEF IsOfField
    <3> QED BY <2>1, <2>3, <3>1 DEF IsFieldStep
  <2> QED BY <2>1, <2>2, <2>3 DEF IsPlain
<1>2. Len(steps) = Len(body)
  BY DEF IsCopy
<1>3. ASSUME PassesAll(i, obj, body), NEW k \in DOMAIN Fields[i], Covers(steps, k)
      PROVE  Fitting(Fields[i][k], MemberOf(i, obj, k), ValidObjects)
  <2>1. PICK n \in 1 .. Len(body) : steps[n].kind = "field" /\ steps[n].field = k
    BY <1>2, <1>3 DEF Covers
  <2>2. Passes(i, obj, body[n])
    BY <1>3 DEF PassesAll
  <2> QED BY <1>1, <2>1, <2>2 DEF Passes
<1>4. ASSUME \A k \in DOMAIN Fields[i] :
               Covers(steps, k) => Fitting(Fields[i][k], MemberOf(i, obj, k), ValidObjects),
             NEW n \in 1 .. Len(body)
      PROVE  Passes(i, obj, body[n])
  <2>1. body[n].kind # "tag"
    BY <1>1
  <2>2. ASSUME body[n].kind = "field"
        PROVE  Fitting(body[n].f, MemberOf(i, obj, body[n].field), ValidObjects)
    <3>1. PICK k \in DOMAIN Fields[i] : k = body[n].field
      BY <1>1, <2>2
    <3>2. Covers(steps, k)
      BY <1>1, <1>2, <2>2, <3>1 DEF Covers
    <3> QED BY <1>1, <1>4, <2>2, <3>1, <3>2
  <2> QED BY <2>1, <2>2 DEF Passes
<1> QED BY <1>3, <1>4 DEF PassesAll

LEMMA ArmPasses ==
  ASSUME NEW i \in TypeIds, NEW w \in BOOLEAN, NEW s, IsTag(i, w, s), IsPlanned(i, s),
         NEW k \in DOMAIN Fields[i], NEW obj
  PROVE  PassesAll(i, obj, s.arms[k]) <=> Fitting(Fields[i][k], obj.value, ValidObjects)
<1> DEFINE arm == s.arms[k]
           steps == FieldSteps(Fields[i][k], k)
<1>1. IsUnion[i] /\ IsChain(i, w, arm, KnownPast(Start, UnionTagBits(Types[i])))
  BY DEF IsTag, IsArm
<1>2. IsCopy(arm, steps)
  BY DEF IsPlanned, IsTag
<1>3. Covers(steps, k)
  <2>1. Fields[i][k].cat # "void"
    BY <1>1, AllAccepted DEF Accepted
  <2> QED BY <2>1, FieldCovers
<1>4. \A j : Covers(steps, j) => j = k
  BY FieldStepsAre DEF Covers
<1> HIDE DEF arm, steps
<1>5. PassesAll(i, obj, arm) <=>
        \A j \in DOMAIN Fields[i] :
           Covers(steps, j) => Fitting(Fields[i][j], MemberOf(i, obj, j), ValidObjects)
  BY <1>1, <1>2, ChainPasses
<1>6. \A j : MemberOf(i, obj, j) = obj.value
  BY <1>1 DEF MemberOf
<1> QED BY <1>3, <1>4, <1>5, <1>6 DEF arm

(* At its start a body has all of it ahead.                                *)
LEMMA StepwisePasses ==
  ASSUME NEW i \in TypeIds, NEW obj \in Objects(i)
  PROVE  PassesAll(i, obj, BodyOf(Types[i], Steps[i], TRUE)) <=> FittingObject(i, obj, ValidObjects)
<1> DEFINE tag == UnionStep(Fields[i], UnionTagBits(Types[i]), TRUE)
           plain == Built(Fields[i], Steps[i], Start, TRUE)
           all == IF IsUnion[i] THEN <<tag>> ELSE plain
           end == AlignStepAt(PastAll(all, Start))
<1>1. BodyOf(Types[i], Steps[i], TRUE) = Append(all, end)
  BY Definitions, Zenon DEF BodyOf, Ended
<1>2. ASSUME IsUnion[i]
      PROVE  all \in Seq(Held(all)) /\ (PassesAll(i, obj, all) <=> FittingObject(i, obj, ValidObjects))
  <2>1. IsTag(i, TRUE, tag) /\ tag.kind = "tag"
    BY <1>2, UnionStepIs, UnionStepIsPlanned
  <2> DEFINE one == <<tag>>
  <2>2. all = one
    BY <1>2
  <2> HIDE DEF tag, all
  <2>3. one \in Seq(Held(one)) /\ (PassesAll(i, obj, one) <=> Passes(i, obj, tag))
    BY HeldOne, PassesOne
  <2> HIDE DEF one
  <2>4. Chosen(i, obj) = obj.tag + 1
    <3>1. IsObject(i, obj)
      BY PlanConstants
    <3> QED BY <1>2, <3>1 DEF Chosen, IsObject
  <2>5. Passes(i, obj, tag) <=> FittingObject(i, obj, ValidObjects)
    BY <1>2, <2>1, <2>4 DEF Passes, FittingObject
  <2> QED BY <2>2, <2>3, <2>5
<1>3. ASSUME ~IsUnion[i]
      PROVE  all \in Seq(Held(all)) /\ (PassesAll(i, obj, all) <=> FittingObject(i, obj, ValidObjects))
  <2>1. /\ IsChain(i, TRUE, plain, Start) /\ IsCopy(plain, Steps[i])
    <3>1. Steps[i] \in Seq(PlanSteps(i))
      BY <1>3, StepsAre
    <3> QED BY <3>1, BuiltIs, KnowsStart DEF IsCopy
  <2>2. all = plain
    BY <1>3
  <2> HIDE DEF plain, all
  <2>3. PassesAll(i, obj, plain) <=>
          \A k \in DOMAIN Fields[i] :
             Covers(Steps[i], k) => Fitting(Fields[i][k], MemberOf(i, obj, k), ValidObjects)
    BY <2>1, ChainPasses
  <2>4. \A k \in DOMAIN Fields[i] :
          Covers(Steps[i], k) \/ Fitting(Fields[i][k], MemberOf(i, obj, k), ValidObjects)
    BY <1>3, StepsCover, PaddingFits
  <2>5. \A k : MemberOf(i, obj, k) = obj[k]
    BY <1>3 DEF MemberOf
  <2>6. PassesAll(i, obj, plain) <=> FittingObject(i, obj, ValidObjects)
    BY <1>3, <2>3, <2>4, <2>5 DEF FittingObject
  <2>7. plain \in Seq(Held(plain))
    BY <2>1 DEF IsChain
  <2> QED BY <2>2, <2>6, <2>7
<1>4. end.kind = "align"
  BY DEF AlignStepAt
<1> HIDE DEF all, end
<1> DEFINE r == Append(all, end)
<1>5. all \in Seq(Held(all)) /\ (PassesAll(i, obj, all) <=> FittingObject(i, obj, ValidObjects))
  BY <1>2, <1>3
<1>6. /\ Len(all) \in Nat /\ Len(r) = Len(all) + 1 /\ r[Len(all) + 1] = end
      /\ \A n \in 1 .. Len(all) : r[n] = all[n]
  BY <1>5, HeldIs, HeldAppend
<1> HIDE DEF r
<1>7. Passes(i, obj, end)
  BY <1>4 DEF Passes
<1>8. \A n \in 1 .. Len(r) : n \in 1 .. Len(all) \/ n = Len(all) + 1
  BY <1>6
<1>9. \A n \in 1 .. Len(all) : n \in 1 .. Len(r)
  BY <1>6
<1>10. PassesAll(i, obj, r) <=> PassesAll(i, obj, all)
  BY <1>6, <1>7, <1>8, <1>9 DEF PassesAll
<1> QED BY <1>1, <1>5, <1>10 DEF r

LEMMA BodyPasses ==
  ASSUME NEW i \in TypeIds, NEW obj \in Objects(i), NEW body \in Bodies[i][TRUE]
  PROVE  PassesAll(i, obj, body) <=> obj \in ValidObjects[i]
<1>1. body \in BodiesFor(BodyOf(Types[i], Steps[i], TRUE), MaxBits[i], ImageScalars[i])
  BY DEF Bodies
<1>2. \/ body = BodyOf(Types[i], Steps[i], TRUE)
      \/ ImageScalars[i] # {} /\ body = Moved(MaxBits[i], ImageScalars[i])
  BY <1>1, Zenon DEF BodiesFor
<1>3. obj \in ValidObjects[i] <=> FittingObject(i, obj, ValidObjects)
  BY ValidObjectsAre, Zenon
<1>4. ASSUME ImageScalars[i] # {}, body = Moved(MaxBits[i], ImageScalars[i])
      PROVE  PassesAll(i, obj, body) /\ obj \in ValidObjects[i]
  <2>1. PICK scalars : scalars = ImageScalars[i]
    OBVIOUS
  <2> DEFINE s == [kind |-> "move", scalars |-> scalars, bits |-> MaxBits[i],
                   known |-> Start, past |-> KnownPast(Start, MaxBits[i])]
             one == <<s>>
  <2>2. body = one
    BY <1>4, <2>1 DEF Moved
  <2>3. s.kind = "move"
    OBVIOUS
  <2> HIDE DEF s
  <2>4. PassesAll(i, obj, one)
    BY <2>3, PassesOne DEF Passes
  <2> HIDE DEF one
  <2>5. Imaged(i)
    BY <1>4, ImageScalarsAre, AllAccepted DEF Images, Imaged
  <2>6. ValidObjects[i] = Objects(i)
    BY <2>5, ImagesFit
  <2> QED BY <2>2, <2>4, <2>6
<1> QED BY <1>2, <1>3, <1>4, StepwisePasses

LEMMA JudgedStart ==
  ASSUME NEW i \in TypeIds, NEW obj \in Objects(i), NEW body \in Bodies[i][TRUE], NEW base, NEW cap \in Nat
  PROVE  Judged(NewFrame(i, body, base, cap, obj, TRUE))
<1> DEFINE t == NewFrame(i, body, base, cap, obj, TRUE)
<1>1. /\ t.type = i /\ t.todo = body /\ t.obj = obj /\ t.cap = cap
      /\ t.err = IF cap * ByteBits < MaxBits[i] THEN TooSmall ELSE Ok
  BY DEF NewFrame
<1> HIDE DEF t
<1>2. body # << >> => body[1].kind # "elements"
  BY BodiesAre DEF IsBody
<1>3. Passing(t) <=> obj \in ValidObjects[i]
  BY <1>1, <1>2, BodyPasses DEF Passing, InLoop
<1>4. t.err # TooSmall => t.cap * ByteBits >= MaxBits[i]
  <2>1. MaxBits[i] \in Nat
    BY EndsAre
  <2> QED BY <1>1, <2>1 DEF ByteBits
<1>5. t.err \in {Ok, TooSmall}
  BY <1>1
<1> QED BY <1>1, <1>3, <1>4, <1>5 DEF Judged, t

(* A tag leaves the steps of the option it selects, if it selects one.     *)
LEMMA TagJudged ==
  ASSUME VInv, Writing, stack # << >>, Top.todo # << >>, Step.kind = "tag",
         NEW tag, tag = TagValue(Top.obj.tag, Step.bits),
         NEW u, Keeps(Top, u), u.obj = Top.obj,
         u.err = Ok => Top.err = Ok /\ tag + 1 \in DOMAIN Step.arms,
         u.err \notin {Ok, TooSmall} =>
           Top.err = u.err \/ (Top.err = Ok /\ tag + 1 \notin DOMAIN Step.arms)
  PROVE  Judging(WithTop(Selected(u, Step.arms, tag)))
<1>1. /\ Writing \in BOOLEAN /\ AreFrames(stack, Writing) /\ FrameOK(Top, Writing)
      /\ Judging(stack) /\ Judged(Top) /\ Step = Top.todo[1] /\ Top.type \in TypeIds
      /\ IsTodo(Top.type, Writing, Top.todo) /\ Placed(Top, Writing)
  BY AtJudged, AtPlaced
<1>2. /\ IsTag(Top.type, Writing, Step) /\ IsPlanned(Top.type, Step)
      /\ Step.bits = UnionTagBits(Types[Top.type]) /\ DOMAIN Step.arms = DOMAIN Fields[Top.type]
  BY <1>1, TagIsFirst
<1> DEFINE v == Selected(u, Step.arms, tag)
           k == tag + 1
           rest == Tail(Top.todo)
           r == Step.arms[k] \o rest
<1>3. /\ v.type = Top.type /\ v.cap = Top.cap /\ v.obj = Top.obj /\ v.err = u.err
      /\ v.todo = (IF k \in DOMAIN Step.arms THEN Step.arms[k] ELSE << >>) \o rest
  BY DEF Selected, Keeps, IsFrame
<1>4. Passes(Top.type, Top.obj, Step) <=>
        /\ k \in DOMAIN Fields[Top.type]
        /\ Fitting(Fields[Top.type][k], Top.obj.value, ValidObjects)
  <2>1. Chosen(Top.type, Top.obj) = k
    BY <1>2 DEF Chosen
  <2> HIDE DEF k
  <2> QED BY <2>1 DEF Passes
<1> HIDE DEF v, k
<1>5. Passing(Top) <=> Passes(Top.type, Top.obj, Step) /\ PassesAll(Top.type, Top.obj, rest)
  <2>1. ~InLoop(Top)
    BY <1>1 DEF InLoop
  <2> QED BY <1>1, <2>1, PassesRest DEF Passing
<1>6. ASSUME k \in DOMAIN Step.arms PROVE Passing(v) <=> Passing(Top)
  <2>1. v.todo = r
    BY <1>3, <1>6
  <2>2. IsOption(Top.type, Writing, Top.todo, k, r)
    BY <1>1, <1>2, <1>6, TodoOption
  <2>3. Step.arms[k] \in Seq(Held(Step.arms[k]))
    BY <1>1, <1>2, <1>6, ArmIsPlanned
  <2>4. rest \in Seq(Held(rest))
    BY <1>1, RestIs
  <2>5. PassesAll(Top.type, Top.obj, r) <=>
          PassesAll(Top.type, Top.obj, Step.arms[k]) /\ PassesAll(Top.type, Top.obj, rest)
    BY <2>3, <2>4, PassesBoth
  <2>6. PassesAll(Top.type, Top.obj, Step.arms[k]) <=>
          Fitting(Fields[Top.type][k], Top.obj.value, ValidObjects)
    BY <1>1, <1>2, <1>6, ArmPasses
  <2> HIDE DEF r
  <2>7. ~InLoop(v)
    BY <2>1, <2>2 DEF InLoop, IsOption
  <2>8. Passing(v) <=> PassesAll(Top.type, Top.obj, r)
    BY <1>3, <2>1, <2>7 DEF Passing
  <2> QED BY <1>2, <1>4, <1>5, <1>6, <2>5, <2>6, <2>8
<1>7. k \notin DOMAIN Step.arms => ~Passing(Top)
  BY <1>2, <1>4, <1>5
<1>8. Judged(v)
  <2>1. u.err = Ok => Top.err = Ok /\ k \in DOMAIN Step.arms
    BY DEF k
  <2>2. u.err \notin {Ok, TooSmall} => Top.err = u.err \/ (Top.err = Ok /\ k \notin DOMAIN Step.arms)
    BY DEF k
  <2> QED BY <1>1, <1>3, <1>6, <1>7, <2>1, <2>2, JudgedAlike
<1>9. Judging(WithTop(v))
  BY <1>1, <1>3, <1>8, TopJudged
<1> QED BY <1>9 DEF v

LEMMA WriteTagJudges ==
  ASSUME VInv, WriteTag
  PROVE  Judging(stack')
<1>1. stack # << >> /\ Top.todo # << >> /\ Step.kind = "tag" /\ Writing
  BY DEF WriteTag, AtStep
<1>2. IsFrame(Top)
  BY <1>1, AtJudged
<1> DEFINE tag == TagValue(Top.obj.tag, Step.bits)
           t == [Top EXCEPT !.err = CheckedTag(Top, Step.arms, tag)]
           u == Advanced(t, Step.bits)
<1>3. stack' = IF t.err = Ok THEN WithTop(Selected(u, Step.arms, tag))
               ELSE WithTop(Selected(t, Step.arms, tag))
  BY DEF WriteTag
<1>4. Keeps(Top, t) /\ t.obj = Top.obj /\ t.err = CheckedTag(Top, Step.arms, tag)
  BY <1>2, FailedIs
<1>5. tag = TagValue(Top.obj.tag, Step.bits)
  OBVIOUS
<1> HIDE DEF tag, t
<1>6. /\ t.err = Ok => Top.err = Ok /\ tag + 1 \in DOMAIN Step.arms
      /\ t.err # Ok => Top.err = t.err \/ (Top.err = Ok /\ tag + 1 \notin DOMAIN Step.arms)
  BY <1>4 DEF CheckedTag, FoldError, BadUnionTag, Ok
<1>7. Keeps(t, u) /\ u.obj = t.obj
  BY <1>4, AdvancedIs DEF Keeps
<1>8. t.err = Ok => u.err \in {Ok, TooSmall}
  <2>1. IsFrame(t)
    BY <1>4 DEF Keeps
  <2> QED BY <2>1 DEF Advanced, IsFrame
<1> HIDE DEF u
<1>9. Keeps(Top, u)
  BY <1>4, <1>7, KeepsOn
<1>10. ASSUME t.err = Ok PROVE Judging(WithTop(Selected(u, Step.arms, tag)))
  <2>1. Top.err = Ok /\ tag + 1 \in DOMAIN Step.arms /\ u.err \in {Ok, TooSmall} /\ u.obj = Top.obj
    BY <1>4, <1>6, <1>7, <1>8, <1>10
  <2> QED BY <1>1, <1>5, <1>9, <2>1, TagJudged
<1>11. ASSUME t.err # Ok PROVE Judging(WithTop(Selected(t, Step.arms, tag)))
  BY <1>1, <1>4, <1>5, <1>6, <1>11, TagJudged
<1> QED BY <1>3, <1>10, <1>11

-----------------------------------------------------------------------------
(* The calls.                                                              *)

LEMMA CalledIsPlaced ==
  ASSUME NEW w, AreFrames(stack, w), NEW t, Placing(Append(stack, t), w)
  PROVE  Placed(t, w)
<1> DEFINE r == Append(stack, t)
<1>1. stack \in Seq(Held(stack)) /\ Len(stack) \in Nat
  BY HeldIs DEF AreFrames
<1>2. Len(r) = Len(stack) + 1 /\ r[Len(stack) + 1] = t
  BY <1>1, HeldAppend
<1>3. Placing(r, w)
  OBVIOUS
<1> HIDE DEF r
<1>4. Len(stack) + 1 \in 1 .. Len(r)
  BY <1>1, <1>2
<1>5. Placed(r[Len(stack) + 1], w)
  BY <1>3, <1>4 DEF Placing
<1> QED BY <1>2, <1>5

LEMMA CallJudges ==
  ASSUME VInv, Writing, AtNested, NEW body \in Bodies[Field.ref][Writing], NEW base, NEW cap,
         Placing(Append(stack, NewFrame(Field.ref, body, base, cap, Element(Top, Field), Writing)), Writing)
  PROVE  Judging(Append(stack, NewFrame(Field.ref, body, base, cap, Element(Top, Field), Writing)))
<1> DEFINE t == NewFrame(Field.ref, body, base, cap, Element(Top, Field), Writing)
<1>1. /\ KInv /\ Judging(stack) /\ stack # << >> /\ AreFrames(stack, Writing)
      /\ Field = Top.todo[1].f /\ Field.ref \in TypeIds
      /\ Element(Top, Field) \in Objects(Field.ref)
  BY NestedIs DEF VInv, LInv
<1>2. Placed(t, Writing) /\ t.cap = cap /\ t.obj = Element(Top, Field)
  BY <1>1, CalledIsPlaced DEF NewFrame
<1>3. cap \in Nat
  <2> HIDE DEF t
  <2> QED BY <1>2 DEF Placed
<1>4. Writing = TRUE
  BY DEF Writing
<1>5. Judged(t)
  BY <1>1, <1>3, <1>4, JudgedStart
<1> HIDE DEF t
<1>6. Judging(Append(stack, t))
  BY <1>1, <1>2, <1>5, CalledJudged
<1> QED BY <1>6 DEF t

LEMMA EnterSealedJudges ==
  ASSUME VInv, Writing, EnterSealed
  PROVE  Judging(stack')
<1>1. AtNested /\ Placing(stack', Writing)
  BY EnterSealedPlaces DEF EnterSealed, VInv
<1> DEFINE taken == ByteAt(Top, Top.off, Writing)
<1>2. PICK body \in Bodies[Field.ref][Writing] :
        stack' = Append(stack, NewFrame(Field.ref, body, Top.base + taken, Top.cap - taken,
                                        Element(Top, Field), Writing))
  BY DEF EnterSealed
<1> HIDE DEF taken
<1> QED BY <1>1, <1>2, CallJudges

LEMMA EnterDelimitedJudges ==
  ASSUME VInv, Writing, EnterDelimited
  PROVE  Judging(stack')
<1>1. AtNested /\ Placing(stack', Writing)
  BY EnterDelimitedPlaces DEF EnterDelimited, VInv
<1> DEFINE at == Top.off + HeaderBits
           taken == ByteAt(Top, at, Writing)
           remaining == Top.cap - taken
<1>2. PICK body \in Bodies[Field.ref][Writing] :
        stack' = IF BeyondBuffer(remaining, remaining)
                 THEN WithTop(PastNested(Top, Field, at, BadHeader))
                 ELSE Append(stack, NewFrame(Field.ref, body, Top.base + taken, remaining,
                                             Element(Top, Field), Writing))
  BY DEF EnterDelimited
<1>3. Top.cap \in Nat /\ Top.off \in Nat /\ Writing \in BOOLEAN
  BY <1>1, NestedAt DEF VInv
<1>4. taken \in Nat
  <2>1. at \in Nat
    BY <1>3, LayoutConstants
  <2> HIDE DEF at
  <2> QED BY <1>3, <2>1, StartsAtAByte
<1> HIDE DEF at, taken
<1>5. remaining \in Int
  BY <1>3, <1>4
<1> HIDE DEF remaining
<1>6. ~BeyondBuffer(remaining, remaining)
  BY <1>5 DEF BeyondBuffer
<1> QED BY <1>1, <1>2, <1>6, CallJudges

-----------------------------------------------------------------------------
(* The returns: what a composite's body found out, its container did.      *)

(* The element a loop was at is behind it.                                 *)
LEMMA LoopJudges ==
  ASSUME NEW t, InLoop(t), IsComposite(t.todo[1].f), IsArray(t.todo[1].f), Head(t.todo) = t.todo[1],
         t.loop.at \in Nat, t.loop.count \in Nat, t.loop.at < t.loop.count,
         NEW u, u.type = t.type, u.obj = t.obj, u.todo = t.todo,
         u.loop.at = t.loop.at + 1, u.loop.count = t.loop.count
  PROVE  Passing(t) <=> Element(t, t.todo[1].f) \in ValidObjects[t.todo[1].f.ref] /\ Passing(u)
<1> DEFINE good == ValidObjects[t.todo[1].f.ref]
<1>1. PICK at \in Nat : at = t.loop.at
  OBVIOUS
<1>2. PICK count \in Nat : count = t.loop.count
  OBVIOUS
<1>3. Member(u) = Member(t) /\ Element(t, t.todo[1].f) = Member(t)[at + 1]
  BY <1>1 DEF Member, Element
<1>4. PassesLoop(t) <=> \A n \in 1 .. count : at < n => Member(t)[n] \in good
  BY <1>1, <1>2 DEF PassesLoop
<1>5. PassesLoop(u) <=> \A n \in 1 .. count : at + 1 < n => Member(t)[n] \in good
  BY <1>1, <1>2, <1>3 DEF PassesLoop
<1> HIDE DEF good
<1>6. /\ at + 1 \in 1 .. count /\ at < at + 1
      /\ \A n \in 1 .. count : at + 1 < n => at < n
      /\ \A n \in 1 .. count : at < n => n = at + 1 \/ at + 1 < n
  BY <1>1, <1>2
<1>7. PassesLoop(t) <=> Member(t)[at + 1] \in good /\ PassesLoop(u)
  BY <1>4, <1>5, <1>6
<1>8. InLoop(u)
  BY DEF InLoop
<1> QED BY <1>3, <1>7, <1>8 DEF Passing, good

LEMMA LeftJudges ==
  ASSUME VInv, Writing, AtReturn, NEW off, NEW err, err = Ok => Top.err = Ok,
         err \notin {Ok, TooSmall} => Top.err = err
  PROVE  Judging(Popped(PastNested(Returned(Outer.todo[1].f), Outer.todo[1].f, off, err)))
<1> DEFINE s == Outer.todo[1]
           f == s.f
           elem == Element(Outer, f)
           moved == [Outer EXCEPT !.off = off, !.err = err]
           p == PastNested(Outer, f, off, err)
<1>1. /\ KInv /\ Writing \in BOOLEAN /\ AreFrames(stack, Writing) /\ Len(stack) > 1
      /\ FrameOK(Outer, Writing) /\ Placed(Outer, Writing)
      /\ Head(Outer.todo) = s /\ Outer.type \in TypeIds
      /\ Waiting(Outer, f.ref) /\ IsFieldOf(f) /\ IsComposite(f)
      /\ IsStep(Outer.type, Writing, s) /\ s.kind \in {"field", "elements"}
      /\ InLoop(Outer) => Outer.loop.at < Outer.loop.count
      /\ Top.err # TooSmall /\ Top.type = f.ref
  BY ReturnAt DEF VInv
<1>2. Judging(stack) /\ Len(stack) \in Nat /\ Len(stack) \in 1 .. Len(stack) /\ Len(stack) - 1 \in 1 .. Len(stack)
  <2>1. Len(stack) \in Nat
    BY <1>1, HeldIs DEF AreFrames
  <2> QED BY <1>1, <2>1 DEF VInv
<1>3. Judged(Top) /\ Judged(Outer) /\ Top.obj = elem
  <2>1. Top.obj = Element(stack[Len(stack) - 1], stack[Len(stack) - 1].todo[1].f)
    BY <1>1, <1>2 DEF Judging, Top
  <2>2. Judged(stack[Len(stack)]) /\ Judged(stack[Len(stack) - 1])
    BY <1>2 DEF Judging
  <2> QED BY <2>1, <2>2 DEF Top, Outer
<1>4. Outer.err = Ok /\ Outer.todo # << >> /\ Top.todo = << >>
      /\ \/ s.kind = "field" /\ ~IsArray(f)
         \/ s.kind = "elements"
  BY <1>1 DEF Waiting, AtReturn
<1>5. /\ Top.err = Ok => elem \in ValidObjects[f.ref]
      /\ Top.err # Ok => elem \notin ValidObjects[f.ref]
  <2>1. Passing(Top)
    BY <1>4, PassesNothing
  <2> HIDE DEF f, elem
  <2> QED BY <1>1, <1>3, <2>1 DEF Judged
<1>6. Returned(f) = Outer
  BY DEF Returned
<1>7. /\ Keeps(Outer, moved) /\ moved.obj = Outer.obj /\ moved.err = err
  BY <1>1, FrameIs DEF Keeps, IsFrame
<1>8. p = IF IsArray(f) THEN [moved EXCEPT !.loop.at = @ + 1] ELSE Past(moved)
  BY Zenon DEF PastNested
<1>9. s.kind = "elements" => IsArray(f)
  BY <1>1, StepIs
<1> HIDE DEF moved, elem, p
<1>10. CASE s.kind = "field"
  <2>1. ~InLoop(Outer) /\ ~IsArray(f) /\ p = Past(moved)
    BY <1>4, <1>8, <1>10 DEF InLoop
  <2>2. Passes(Outer.type, Outer.obj, s) <=> elem \in ValidObjects[f.ref]
    <3>1. f.array = "none"
      BY <1>1, <2>1, FieldOf DEF IsField, IsArray
    <3>2. elem = MemberOf(Outer.type, Outer.obj, s.field)
      BY <1>1, <2>1 DEF elem, Element, Member, MemberOf
    <3>3. Fitting(f, elem, ValidObjects) <=> elem \in ValidObjects[f.ref]
      BY <1>1, <3>1 DEF Fitting
    <3> QED BY <1>10, <3>2, <3>3 DEF Passes
  <2>3. Judged(Past(moved)) /\ Past(moved).obj = Outer.obj /\ Past(moved).cap = Outer.cap
    <3>1. err = Ok => Outer.err = Ok /\ Passes(Outer.type, Outer.obj, Outer.todo[1]) /\ (InLoop(Outer) => PassesLoop(Outer))
      BY <1>4, <1>5, <2>1, <2>2
    <3>2. err \notin {Ok, TooSmall} =>
            Outer.err = err \/ (Outer.err = Ok /\ ~(Passes(Outer.type, Outer.obj, Outer.todo[1]) /\ (InLoop(Outer) => PassesLoop(Outer))))
      BY <1>4, <1>5, <2>1, <2>2
    <3> QED BY <1>1, <1>3, <1>4, <1>7, <3>1, <3>2, JudgedPast
  <2> QED BY <2>1, <2>3, <1>1, <1>2, <1>6, ReturnedJudged DEF p
<1>11. CASE s.kind = "elements"
  <2> DEFINE q == [moved EXCEPT !.loop.at = @ + 1]
  <2>1. InLoop(Outer) /\ IsArray(f) /\ p = q
    BY <1>4, <1>8, <1>9, <1>11 DEF InLoop
  <2>2. /\ q.type = Outer.type /\ q.cap = Outer.cap /\ q.obj = Outer.obj /\ q.err = err /\ q.todo = Outer.todo
        /\ q.loop.at = Outer.loop.at + 1 /\ q.loop.count = Outer.loop.count
    BY <1>1, <1>7, FrameIs DEF Keeps, IsFrame
  <2> HIDE DEF q
  <2>3. Outer.loop.at \in Nat /\ Outer.loop.count \in Nat /\ Outer.loop.at < Outer.loop.count
    BY <1>1, <1>4, <2>1, FrameIs DEF Placed, OnCourse
  <2>4. Passing(Outer) <=> elem \in ValidObjects[f.ref] /\ Passing(q)
    BY <1>1, <2>1, <2>2, <2>3, LoopJudges DEF elem
  <2>5. Judged(q)
    <3>1. err = Ok => Outer.err = Ok /\ (Passing(q) <=> Passing(Outer))
      BY <1>4, <1>5, <2>4
    <3>2. err \notin {Ok, TooSmall} => Outer.err = err \/ (Outer.err = Ok /\ ~Passing(Outer))
      BY <1>4, <1>5, <2>4
    <3> QED BY <1>3, <2>2, <3>1, <3>2, JudgedAlike
  <2> QED BY <1>1, <1>2, <1>6, <2>1, <2>2, <2>5, ReturnedJudged DEF p
<1> QED BY <1>1, <1>10, <1>11

LEMMA LeaveSealedJudges ==
  ASSUME VInv, Writing, LeaveSealed
  PROVE  Judging(stack')
<1>1. AtReturn
  BY DEF LeaveSealed
<1>2. Head(Outer.todo) = Outer.todo[1]
  BY <1>1, ReturnAt DEF VInv
<1> DEFINE f == Outer.todo[1].f
           bits == Outer.todo[1].bits
           n == IF bits # Unknown THEN bits ELSE Used(Top, Writing) * ByteBits
           off == Outer.off + n
<1>3. stack' = Popped(PastNested(Returned(f), f, off, Top.err))
  BY <1>2 DEF LeaveSealed
<1> HIDE DEF off
<1>4. Judging(Popped(PastNested(Returned(f), f, off, Top.err)))
  BY <1>1, LeftJudges
<1> QED BY <1>3, <1>4

(* What a writer announces is a length of the composite.                   *)
LEMMA SpanIs ==
  ASSUME LInv, AtReturn, Writing, Top.err = Ok
  PROVE  LET span == Span(Outer.todo[1], Top, Writing) IN
         span \in Nat /\ span * ByteBits \in OffsetAtEnd[Top.type]
<1> DEFINE step == Outer.todo[1]
           f == step.f
           span == Span(step, Top, Writing)
<1>1. /\ Writing \in BOOLEAN /\ IsFieldOf(f) /\ IsComposite(f) /\ f.ref \in TypeIds
      /\ step.bits = FixedBits[f.ref] /\ Top.type = f.ref /\ Top.off \in Nat
      /\ Top.off \in OffsetAtEnd[Top.type] /\ Used(Top, TRUE) * ByteBits = Top.off
  BY ReturnAt
<1>2. ASSUME step.bits # Unknown PROVE span \in Nat /\ span * ByteBits \in OffsetAtEnd[Top.type]
  <2>1. step.bits \in Nat /\ step.bits % ByteBits = 0 /\ step.bits \in OffsetAtEnd[f.ref]
    BY <1>1, <1>2, WidthIs, AllAccepted, FixedBitsAreTheOnly
  <2>2. PICK bits \in Nat : bits = step.bits /\ bits % ByteBits = 0
    BY <2>1
  <2>3. (bits \div ByteBits) * ByteBits = bits /\ bits \div ByteBits \in Nat
    BY <2>2 DEF ByteBits
  <2>4. span = bits \div ByteBits
    BY <1>2, <2>2 DEF Span
  <2> HIDE DEF span, step
  <2> QED BY <1>1, <2>1, <2>2, <2>3, <2>4
<1>3. ASSUME step.bits = Unknown PROVE span \in Nat /\ span * ByteBits \in OffsetAtEnd[Top.type]
  <2>1. span = Used(Top, TRUE)
    BY <1>3 DEF Span
  <2>2. Used(Top, TRUE) \in Nat
    BY <1>1, UsedIs
  <2> HIDE DEF span
  <2> QED BY <1>1, <2>1, <2>2
<1> QED BY <1>2, <1>3

LEMMA LeaveDelimitedJudges ==
  ASSUME VInv, Writing, LeaveDelimited
  PROVE  Judging(stack')
<1>1. AtReturn /\ LInv
  BY DEF LeaveDelimited, VInv
<1>2. /\ Head(Outer.todo) = Outer.todo[1] /\ AreFrames(stack, Writing) /\ Placed(Top, Writing)
      /\ Top.type \in TypeIds
  BY <1>1, ReturnAt
<1> DEFINE step == Outer.todo[1]
           f == step.f
           at == Outer.off + HeaderBits
           span == Span(step, Top, Writing)
           next == IF BeyondBuffer(span, Top.cap) THEN BadHeader ELSE Ok
           valid == FoldError(Top.err, next)
           err == IF ~Writing \/ Fits(Outer, Outer.off, HeaderBits) THEN Ok ELSE TooSmall
           off == at + span * ByteBits
<1>3. stack' = IF valid = Ok THEN Popped(PastNested(Returned(f), f, off, err))
               ELSE Popped(PastNested(Returned(f), f, at, valid))
  BY <1>2, Zenon DEF LeaveDelimited
<1>4. ASSUME Top.err = Ok PROVE next = Ok
  <2>1. span \in Nat /\ span * ByteBits \in OffsetAtEnd[Top.type]
    BY <1>1, <1>4, SpanIs
  <2>2. OffsetAtEnd[Top.type] \subseteq 0 .. MaxBits[Top.type] /\ MaxBits[Top.type] \in Nat
    BY <1>2, EndsAre
  <2>3. PICK most \in Nat : most = MaxBits[Top.type]
    BY <2>2
  <2>4. PICK cap \in Nat : cap = Top.cap
    BY <1>2 DEF Placed
  <2>5. cap * ByteBits >= most
    BY <1>2, <1>4, <2>3, <2>4 DEF Placed
  <2> DEFINE bits == span * ByteBits
  <2>b. bits \in OffsetAtEnd[Top.type]
    BY <2>1
  <2>6. bits <= most
    <3> HIDE DEF bits
    <3> QED BY <2>b, <2>2, <2>3
  <2> HIDE DEF span
  <2>7. ~(span > cap)
    BY <2>1, <2>4, <2>5, <2>6 DEF ByteBits
  <2> QED BY <2>4, <2>7 DEF BeyondBuffer
<1> HIDE DEF next, off, at
<1>5. /\ valid = Ok => Top.err = Ok
      /\ valid # Ok => Top.err = valid
  BY <1>4 DEF FoldError
<1>6. valid = Ok => Judging(Popped(PastNested(Returned(f), f, off, err)))
  <2>1. err \in {Ok, TooSmall}
    OBVIOUS
  <2> HIDE DEF err, valid
  <2> QED BY <1>1, <1>5, <2>1, LeftJudges
<1>7. valid # Ok => Judging(Popped(PastNested(Returned(f), f, at, valid)))
  <2> HIDE DEF valid
  <2> QED BY <1>1, <1>5, LeftJudges
<1> QED BY <1>3, <1>6, <1>7

-----------------------------------------------------------------------------
(* The invariant VInv.                                                     *)

LEMMA InitJudges == Init => VInv
<1> SUFFICES ASSUME Init PROVE VInv
  OBVIOUS
<1>1. LInv
  BY InitPlaces
<1>2. phase = "idle"
  BY DEF Init
<1> QED BY <1>1, <1>2 DEF VInv, Writing, WrittenIffValid

LEMMA SerializeJudges ==
  ASSUME VInv, Serialize, LInv'
  PROVE  VInv'
<1>1. phase' = "writing" /\ size' = size /\ source' = source
  BY DEF Serialize
<1>2. PICK body \in Bodies[writer][TRUE] : stack' = <<NewFrame(writer, body, 0, size, source, TRUE)>>
  BY DEF Serialize
<1> DEFINE t == NewFrame(writer, body, 0, size, source, TRUE)
           r == <<t>>
<1>3. writer \in TypeIds /\ size \in Nat /\ source \in Objects(writer)
  BY DEF VInv, LInv, KInv
<1>4. Judged(t)
  BY <1>3, JudgedStart
<1>5. t.obj = source /\ t.cap = size
  BY DEF NewFrame
<1>6. stack' = r
  BY <1>2
<1> HIDE DEF t
<1>7. Len(r) = 1 /\ r[1] = t
  BY HeldOne
<1> HIDE DEF r
<1>8. \A d \in 1 .. Len(r) : d = 1
  BY <1>7
<1>9. Judging(stack)'
  BY <1>1, <1>4, <1>5, <1>6, <1>7, <1>8 DEF Judging
<1> QED BY <1>1, <1>9 DEF VInv, WrittenIffValid

LEMMA CallerJudges ==
  ASSUME VInv, LInv', Deliver \/ Pad \/ Deserialize \/ UNCHANGED vars
  PROVE  VInv'
<1>1. CASE Deliver \/ Pad \/ Deserialize
  <2>1. phase' # "written" /\ phase' # "writing"
    BY <1>1 DEF Deliver, Pad, Deserialize
  <2> QED BY <2>1 DEF VInv, Writing, WrittenIffValid
<1>2. CASE UNCHANGED vars
  <2>1. /\ phase' = phase /\ writer' = writer /\ stack' = stack /\ error' = error
        /\ size' = size /\ source' = source
    BY <1>2 DEF vars
  <2>2. (Writing => Judging(stack))'
    BY <2>1 DEF VInv, Writing, Judging
  <2>3. WrittenIffValid'
    BY <2>1 DEF VInv, WrittenIffValid
  <2> QED BY <2>2, <2>3 DEF VInv
<1> QED BY <1>1, <1>2

LEMMA BodyJudges ==
  ASSUME VInv, LInv', UNCHANGED callerVars, stack # << >>, Writing => Judging(stack')
  PROVE  VInv'
<1>1. phase' = phase /\ size' = size /\ source' = source
  BY DEF callerVars
<1>2. phase # "written"
  BY DEF VInv, LInv, KInv
<1>3. (Writing => Judging(stack))'
  BY <1>1 DEF Judging, Writing
<1>4. WrittenIffValid'
  BY <1>1, <1>2 DEF WrittenIffValid
<1> QED BY <1>3, <1>4 DEF VInv

(* What the outermost body found out is what the caller is told.           *)
LEMMA ReturnJudges ==
  ASSUME VInv, Return, LInv'
  PROVE  VInv'
<1>1. /\ Len(stack) = 1 /\ Top.todo = << >> /\ error' = Top.err
      /\ writer' = writer /\ source' = source /\ size' = size
      /\ phase' = IF Writing THEN "written" ELSE "read"
  BY DEF Return
<1>2. ~Writing'
  BY <1>1 DEF Writing
<1>3. ASSUME Writing
      PROVE  IF size * ByteBits < MaxBits[writer] THEN Top.err = TooSmall
             ELSE Top.err = Ok <=> source \in ValidObjects[writer]
  <2>1. stack # << >>
    BY <1>1, HeldNothing
  <2>2. Judging(stack) /\ Judged(Top) /\ LInv
    BY <1>3, <2>1, AtJudged
  <2>3. Placing(stack, Writing) /\ Placed(Top, Writing)
    BY <2>1, <2>2, AtPlaced
  <2>4. Top = stack[1] /\ 1 \in 1 .. Len(stack)
    BY <1>1 DEF Top
  <2>5. Top.obj = source /\ Top.cap = size
    BY <2>2, <2>4 DEF Judging
  <2>6. Top.type = writer
    BY <1>3, <2>1, <2>3, <2>4 DEF Placing
  <2>7. Passing(Top)
    BY <1>1, PassesNothing
  <2>8. Top.err = Ok => source \in ValidObjects[writer]
    BY <2>2, <2>5, <2>6, <2>7 DEF Judged
  <2>9. Top.err \notin {Ok, TooSmall} => source \notin ValidObjects[writer]
    BY <2>2, <2>5, <2>6 DEF Judged
  <2>10. Top.err # TooSmall => size * ByteBits >= MaxBits[writer]
    BY <2>2, <2>5, <2>6 DEF Judged
  <2>11. Top.err = TooSmall => size * ByteBits < MaxBits[writer]
    BY <2>3, <2>5, <2>6 DEF Placed
  <2>12. size * ByteBits \in Nat /\ MaxBits[writer] \in Nat
    BY <2>2, EndsAre, WholeBytes DEF LInv, KInv
  <2> DEFINE room == size * ByteBits
  <2>13. ~(room < MaxBits[writer] /\ room >= MaxBits[writer])
    <3> HIDE DEF room
    <3> QED BY <2>12 DEF room
  <2> QED BY <2>8, <2>9, <2>10, <2>11, <2>13 DEF Ok, TooSmall
<1>4. WrittenIffValid'
  BY <1>1, <1>3 DEF WrittenIffValid
<1> QED BY <1>2, <1>4 DEF VInv

LEMMA NextJudges == VInv /\ [Next]_vars => VInv'
<1> SUFFICES ASSUME VInv, [Next]_vars PROVE VInv'
  OBVIOUS
<1>0. LInv'
  BY NextPlaces DEF VInv
<1>1. CASE Serialize
  BY <1>0, <1>1, SerializeJudges
<1>2. CASE Deliver \/ Pad \/ Deserialize
  BY <1>0, <1>2, CallerJudges
<1>3. CASE Stopped \/ UNCHANGED vars
  BY <1>0, <1>3, CallerJudges DEF Stopped
<1>4. CASE Return
  BY <1>0, <1>4, ReturnJudges
<1>5. CASE WriteTag
  BY <1>0, <1>5, WriteTagJudges, BodyJudges DEF WriteTag, AtStep
<1>6. CASE WriteScalar
  BY <1>0, <1>6, WriteScalarJudges, BodyJudges DEF WriteScalar, AtField, AtStep
<1>7. CASE Padding
  BY <1>0, <1>7, PaddingJudges, BodyJudges DEF Padding, AtField, AtStep
<1>8. CASE Align
  BY <1>0, <1>8, AlignJudges, BodyJudges DEF Align, AtStep
<1>9. CASE WriteArray
  BY <1>0, <1>9, WriteArrayJudges, BodyJudges DEF WriteArray, AtField, AtStep
<1>10. CASE WriteElement
  BY <1>0, <1>10, WriteElementJudges, BodyJudges DEF WriteElement, AtElement, AtStep
<1>11. CASE EndArray
  BY <1>0, <1>11, EndArrayJudges, BodyJudges DEF EndArray, AtStep
<1>12. CASE WriteImage
  BY <1>0, <1>12, WriteImageJudges, BodyJudges DEF WriteImage, AtStep
<1>13. CASE ReadTag \/ ReadScalar \/ ReadArray \/ ReadElement \/ ReadImage
  <2>1. ~Writing /\ stack # << >> /\ UNCHANGED callerVars
    BY <1>13 DEF ReadTag, ReadScalar, ReadArray, ReadElement, ReadImage, AtField, AtElement, AtStep
  <2> QED BY <1>0, <2>1, BodyJudges
<1>14. CASE EnterSealed
  <2>1. stack # << >>
    BY <1>14 DEF EnterSealed, AtNested, AtField, AtStep
  <2> QED BY <1>0, <1>14, <2>1, EnterSealedJudges, BodyJudges DEF EnterSealed
<1>15. CASE EnterDelimited
  <2>1. stack # << >>
    BY <1>15 DEF EnterDelimited, AtNested, AtField, AtStep
  <2> QED BY <1>0, <1>15, <2>1, EnterDelimitedJudges, BodyJudges DEF EnterDelimited
<1>16. CASE LeaveSealed
  <2>1. stack # << >>
    BY <1>16, HeldNothing DEF LeaveSealed, AtReturn
  <2> QED BY <1>0, <1>16, <2>1, LeaveSealedJudges, BodyJudges DEF LeaveSealed
<1>17. CASE LeaveDelimited
  <2>1. stack # << >>
    BY <1>17, HeldNothing DEF LeaveDelimited, AtReturn
  <2> QED BY <1>0, <1>17, <2>1, LeaveDelimitedJudges, BodyJudges DEF LeaveDelimited
<1>18. CASE Skip
  BY <1>0, <1>18, SkipJudges, BodyJudges DEF Skip
<1> QED
  BY <1>1, <1>2, <1>3, <1>4, <1>5, <1>6, <1>7, <1>8, <1>9, <1>10, <1>11, <1>12, <1>13, <1>14,
     <1>15, <1>16, <1>17, <1>18 DEF Next, Body

(* An object is written exactly when it fits its definition and the buffer *)
(* holds the longest object: for all definitions, objects and buffers, the *)
(* checks that the bodies make on their way (array lengths, union tags,    *)
(* headers, the room at the entry) refuse what does not fit, whatever step *)
(* of whatever nested body meets it, and refuse nothing else.              *)
THEOREM WrittenCorrect == Spec => []WrittenIffValid
<1>1. VInv => WrittenIffValid
  BY DEF VInv
<1> QED BY InitJudges, NextJudges, <1>1, PTL DEF Spec

=============================================================================
