--------------------------- MODULE TypeLayoutProofs ---------------------------
(***************************************************************************)
(* Proofs about the lengths the analyser gives any definitions: what the   *)
(* recursions of TypeLayout compute, and that a length is always a number  *)
(* of whole bytes.  Then the alias layout: a host image is the structure a *)
(* compiler lays out, and its scalars lie within the bytes of the wire.    *)
(***************************************************************************)
EXTENDS TypeLayout, WellFoundedInduction, TLAPS

-----------------------------------------------------------------------------
(* Induction over the natural numbers, for sets of them.  The induction    *)
(* theorems of the library are about an operator, which the provers cannot *)
(* instantiate; a set they can.                                            *)

(* Numbers have a least one among them.                                    *)
LEMMA LeastNumber ==
  ASSUME NEW S, S \subseteq Nat, S # {}
  PROVE  \E m \in S : \A k \in S : m <= k
<1> DEFINE Less == OpToRel(<, Nat)
<1>1. IsWellFoundedOn(Less, Nat)
  BY NatLessThanWellFounded
<1>2. ASSUME NEW m \in Nat, NEW k \in Nat, k < m PROVE <<k, m>> \in Less
  BY <1>2 DEF OpToRel
<1> HIDE DEF Less
<1>3. PICK m \in S : \A k \in S : ~ (<<k, m>> \in Less)
  BY <1>1, WFMin, Zenon
<1>4. ASSUME NEW k \in S PROVE m <= k
  <2>1. k \in Nat /\ m \in Nat /\ ~ (k < m)
    BY <1>2, <1>3
  <2> QED BY <2>1
<1> QED BY <1>4

(* Bounded numbers have a greatest one among them.                         *)
LEMMA GreatestNumber ==
  ASSUME NEW S, S \subseteq Nat, S # {}, NEW b \in Nat, \A s \in S : s <= b
  PROVE  \E m \in S : \A k \in S : m >= k
<1> DEFINE T == {n \in Nat : \E s \in S : n = b - s}
<1>1. T \subseteq Nat /\ T # {}
  <2>1. PICK s \in S : TRUE
    OBVIOUS
  <2>2. b - s \in Nat
    BY <2>1
  <2> QED BY <2>2
<1> HIDE DEF T
<1>2. PICK n \in T : \A k \in T : n <= k
  BY <1>1, LeastNumber
<1>3. PICK m \in S : n = b - m
  BY <1>2 DEF T
<1>4. ASSUME NEW k \in S PROVE m >= k
  <2>1. b - k \in Nat
    OBVIOUS
  <2>2. b - k \in T
    BY <2>1 DEF T
  <2>3. b - m <= b - k
    BY <1>2, <1>3, <2>2
  <2> QED BY <2>3
<1> QED BY <1>4

(* What holds of zero, and of each number's successor if it holds of the   *)
(* number, holds of all.                                                   *)
LEMMA Induction ==
  ASSUME NEW S, 0 \in S, \A n \in Nat : n \in S => n + 1 \in S
  PROVE  Nat \subseteq S
<1> SUFFICES ASSUME Nat \ S # {} PROVE FALSE
  OBVIOUS
<1>1. PICK m \in Nat \ S : \A k \in Nat \ S : m <= k
  BY LeastNumber
<1>2. m - 1 \in Nat /\ m - 1 < m
  BY <1>1
<1>3. m - 1 \in S
  BY <1>1, <1>2
<1>4. (m - 1) + 1 = m
  BY <1>1
<1> QED BY <1>1, <1>2, <1>3, <1>4

-----------------------------------------------------------------------------
(* Functions defined by recursion.                                         *)

(* What holds of a function's first value, and of each one if it holds of  *)
(* the one before, holds of all.                                           *)
LEMMA Stays ==
  ASSUME NEW n \in Nat, NEW f, NEW V, f[0] \in V,
         \A k \in 1 .. n : f[k - 1] \in V => f[k] \in V
  PROVE  \A k \in 0 .. n : f[k] \in V
<1> DEFINE S == {k \in Nat : k <= n => f[k] \in V}
<1>1. 0 \in S
  OBVIOUS
<1>2. ASSUME NEW k \in Nat, k \in S PROVE k + 1 \in S
  <2>1. k + 1 <= n => k + 1 \in 1 .. n /\ (k + 1) - 1 = k /\ k <= n
    OBVIOUS
  <2> QED BY <1>2, <2>1
<1> HIDE DEF S
<1>3. Nat \subseteq S
  BY <1>1, <1>2, Induction
<1> QED BY <1>3 DEF S

(* A function whose first value is "a" and each other what "next" makes of *)
(* the one before ...                                                      *)
StepsUp(n, a, next, f) == f[0] = a /\ \A k \in 1 .. n : f[k] = next[k][f[k - 1]]

(* ... and one whose last is "a" and each other what "next" makes of the   *)
(* one after.                                                              *)
StepsDown(n, a, next, f) == f[n] = a /\ \A k \in 0 .. (n - 1) : f[k] = next[k][f[k + 1]]

(* There are such functions.                                               *)
LEMMA Recursion ==
  ASSUME NEW n \in Nat, NEW V, NEW a \in V, NEW next \in [1 .. n -> [V -> V]]
  PROVE  \E f \in [0 .. n -> V] : StepsUp(n, a, next, f)
<1> USE DEF StepsUp
<1> DEFINE S == {m \in Nat : m <= n => \E f \in [0 .. m -> V] : StepsUp(m, a, next, f)}
<1>1. 0 \in S
  <2>1. [k \in 0 .. 0 |-> a] \in [0 .. 0 -> V] /\ StepsUp(0, a, next, [k \in 0 .. 0 |-> a])
    OBVIOUS
  <2> QED BY <2>1
<1>2. ASSUME NEW m \in Nat, m \in S PROVE m + 1 \in S
  <2> SUFFICES ASSUME m + 1 <= n PROVE \E f \in [0 .. (m + 1) -> V] : StepsUp(m + 1, a, next, f)
    OBVIOUS
  <2>1. PICK f \in [0 .. m -> V] : StepsUp(m, a, next, f)
    BY <1>2
  <2> DEFINE more == [k \in 0 .. (m + 1) |-> IF k = m + 1 THEN next[m + 1][f[m]] ELSE f[k]]
  <2>2. next[m + 1] \in [V -> V] /\ f[m] \in V
    OBVIOUS
  <2>3. more \in [0 .. (m + 1) -> V]
    BY <2>2
  <2>4. more[0] = a
    BY <2>1
  <2>5. ASSUME NEW k \in 1 .. (m + 1) PROVE more[k] = next[k][more[k - 1]]
    <3>1. CASE k = m + 1
      <4>1. k - 1 = m /\ m \in 0 .. (m + 1) /\ m # m + 1
        BY <3>1
      <4> QED BY <3>1, <4>1
    <3>2. CASE k # m + 1
      <4>1. k \in 1 .. m /\ k \in 0 .. (m + 1) /\ k - 1 \in 0 .. (m + 1) /\ k - 1 # m + 1
        BY <3>2
      <4>2. more[k] = f[k] /\ more[k - 1] = f[k - 1]
        BY <3>2, <4>1
      <4> QED BY <2>1, <4>1, <4>2
    <3> QED BY <3>1, <3>2
  <2> HIDE DEF more
  <2> QED BY <2>3, <2>4, <2>5
<1> HIDE DEF S
<1>3. n \in S
  BY <1>1, <1>2, Induction
<1> QED BY <1>3 DEF S

(* The same from the last value down.                                      *)
LEMMA StaysDown ==
  ASSUME NEW n \in Nat, NEW f, NEW V, f[n] \in V,
         \A k \in 0 .. (n - 1) : f[k + 1] \in V => f[k] \in V
  PROVE  \A k \in 0 .. n : f[k] \in V
<1> DEFINE g == [j \in 0 .. n |-> f[n - j]]
<1>1. g[0] \in V
  OBVIOUS
<1>2. ASSUME NEW j \in 1 .. n, g[j - 1] \in V PROVE g[j] \in V
  <2>1. /\ j \in 0 .. n /\ j - 1 \in 0 .. n /\ n - j \in 0 .. (n - 1)
        /\ n - (j - 1) = (n - j) + 1
    OBVIOUS
  <2>2. g[j] = f[n - j] /\ g[j - 1] = f[(n - j) + 1]
    BY <2>1
  <2> QED BY <1>2, <2>1, <2>2
<1> HIDE DEF g
<1>3. \A j \in 0 .. n : g[j] \in V
  BY <1>1, <1>2, Stays
<1>4. ASSUME NEW k \in 0 .. n PROVE f[k] \in V
  <2>1. n - k \in 0 .. n /\ n - (n - k) = k
    OBVIOUS
  <2>2. g[n - k] = f[n - (n - k)]
    BY <2>1 DEF g
  <2> QED BY <1>3, <2>1, <2>2
<1> QED BY <1>4

LEMMA RecursionDown ==
  ASSUME NEW n \in Nat, NEW V, NEW a \in V, NEW next \in [0 .. (n - 1) -> [V -> V]]
  PROVE  \E f \in [0 .. n -> V] : StepsDown(n, a, next, f)
<1>1. PICK up \in [1 .. n -> [V -> V]] : \A j \in 1 .. n : up[j] = next[n - j]
  <2>1. \A j \in 1 .. n : n - j \in 0 .. (n - 1)
    OBVIOUS
  <2>2. [j \in 1 .. n |-> next[n - j]] \in [1 .. n -> [V -> V]]
    BY <2>1
  <2> QED BY <2>2
<1>2. PICK g \in [0 .. n -> V] : StepsUp(n, a, up, g)
  BY Recursion, Zenon
<1> USE DEF StepsUp, StepsDown
<1> DEFINE f == [k \in 0 .. n |-> g[n - k]]
<1>3. f \in [0 .. n -> V] /\ f[n] = a
  <2>1. \A k \in 0 .. n : n - k \in 0 .. n
    OBVIOUS
  <2> QED BY <1>2, <2>1
<1>4. ASSUME NEW k \in 0 .. (n - 1) PROVE f[k] = next[k][f[k + 1]]
  <2>1. /\ n - k \in 1 .. n /\ n - (n - k) = k /\ (n - k) - 1 = n - (k + 1)
        /\ k \in 0 .. n /\ k + 1 \in 0 .. n
    OBVIOUS
  <2>2. f[k] = g[n - k] /\ f[k + 1] = g[n - (k + 1)] /\ up[n - k] = next[k]
    BY <1>1, <2>1
  <2>3. g[n - k] = up[n - k][g[(n - k) - 1]]
    BY <1>2, <2>1
  <2> QED BY <2>1, <2>2, <2>3
<1> HIDE DEF f
<1> QED BY <1>3, <1>4

-----------------------------------------------------------------------------
(* Definitions and fields.                                                 *)

IsField(f) ==
    /\ f.cat \in Categories
    /\ f.bits \in Nat /\ f.cap \in Nat
    /\ f.cat = "bool" => f.bits = 1
    /\ f.array \in {"none", "fixed", "variable"}

LEMMA Definitions ==
  ASSUME NEW i \in TypeIds
  PROVE  /\ Len(Types) \in Nat /\ TypeIds = 1 .. Len(Types) /\ i \in Nat /\ i > 0
         /\ Types[i].extent \in Nat /\ IsUnion[i] = Types[i].union /\ IsSealed[i] = Types[i].sealed
         /\ IsUnion[i] \in BOOLEAN /\ IsSealed[i] \in BOOLEAN
         /\ Fields[i] = Types[i].fields
         /\ Len(Fields[i]) \in Nat /\ DOMAIN Fields[i] = 1 .. Len(Fields[i])
BY LayoutConstants DEF TypeIds, IsSequence, IsUnion, IsSealed, Fields

LEMMA FieldsAre ==
  ASSUME NEW i \in TypeIds, NEW k \in DOMAIN Fields[i]
  PROVE  /\ IsField(Fields[i][k])
         /\ IsComposite(Fields[i][k]) => /\ Fields[i][k].ref \in TypeIds
                                         /\ Fields[i][k].ref < i
<1>1. /\ i \in Nat /\ TypeIds = 1 .. Len(Types) /\ Len(Types) \in Nat
      /\ Fields[i] = Types[i].fields
  BY Definitions
<1> DEFINE f == Types[i].fields[k]
<1>2. /\ f.cat \in Categories
      /\ f.bits \in 0 .. 64 /\ f.cap \in Nat
      /\ f.cat = "bool" => f.bits = 1
      /\ f.array \in {"none", "fixed", "variable"}
      /\ f.cat = "composite" => f.ref \in 1 .. (i - 1)
  <2>1. k \in DOMAIN Types[i].fields
    BY <1>1, Zenon
  <2> QED BY <2>1, LayoutConstants, Zenon
<1> HIDE DEF f
<1>3. f.bits \in Nat
  BY <1>2
<1>4. IsField(f)
  BY <1>2, <1>3, Zenon DEF IsField
<1>5. IsComposite(f) => f.ref \in TypeIds /\ f.ref < i
  BY <1>1, <1>2 DEF IsComposite
<1>6. Fields[i][k] = f
  BY <1>1, Zenon DEF f
<1> QED BY <1>4, <1>5, <1>6, Zenon

-----------------------------------------------------------------------------
(* Lengths: numbers of which there are some, and bounded.                  *)

IsLengths(S) ==
    /\ S \subseteq Nat /\ S # {}
    /\ \E b \in Nat : \A s \in S : s <= b

LEMMA OneIsLengths ==
  ASSUME NEW n \in Nat
  PROVE  IsLengths({n})
<1>1. \A s \in {n} : s <= n
  OBVIOUS
<1> QED BY <1>1 DEF IsLengths

LEMMA LeastOfLengths ==
  ASSUME NEW S, S \subseteq Nat, S # {}
  PROVE  /\ LeastOf(S) \in S
         /\ \A s \in S : LeastOf(S) <= s
BY LeastNumber DEF LeastOf

LEMMA GreatestOfLengths ==
  ASSUME NEW S, IsLengths(S)
  PROVE  /\ GreatestOf(S) \in S
         /\ \A s \in S : s <= GreatestOf(S)
<1>1. PICK b \in Nat : \A s \in S : s <= b
  BY DEF IsLengths
<1>2. \E m \in S : \A k \in S : m >= k
  BY <1>1, GreatestNumber DEF IsLengths
<1>3. GreatestOf(S) \in S /\ \A k \in S : GreatestOf(S) >= k
  BY <1>2 DEF GreatestOf
<1> QED BY <1>3 DEF IsLengths

LEMMA SumIsLengths ==
  ASSUME NEW S, NEW T, IsLengths(S), IsLengths(T)
  PROVE  IsLengths(SumOf(S, T))
<1>1. PICK b \in Nat : \A s \in S : s <= b
  BY DEF IsLengths
<1>2. PICK c \in Nat : \A t \in T : t <= c
  BY DEF IsLengths
<1>3. SumOf(S, T) # {}
  BY SMT DEF IsLengths, SumOf
<1>4. SumOf(S, T) \subseteq Nat
  BY DEF IsLengths, SumOf
<1>5. b + c \in Nat /\ \A n \in SumOf(S, T) : n <= b + c
  BY <1>1, <1>2 DEF IsLengths, SumOf
<1> QED BY <1>3, <1>4, <1>5 DEF IsLengths

-----------------------------------------------------------------------------
(* The lengths of some elements.                                           *)

TimesUpTo(S, n, times) ==
    times = [k \in 0 .. n |-> IF k = 0 THEN {0} ELSE SumOf(times[k - 1], S)]

LEMMA TimesExists ==
  ASSUME NEW S, S \subseteq Nat, NEW n \in Nat
  PROVE  \E times : TimesUpTo(S, n, times)
<1>0. PICK V : V = SUBSET Nat
  OBVIOUS
<1>1. PICK next \in [1 .. n -> [V -> V]] :
        \A k \in 1 .. n : \A T \in SUBSET Nat : next[k][T] = SumOf(T, S)
  <2>1. [k \in 1 .. n |-> [T \in SUBSET Nat |-> SumOf(T, S)]] \in [1 .. n -> [V -> V]]
    BY <1>0 DEF SumOf
  <2> QED BY <2>1
<1>2. {0} \in V
  BY <1>0
<1>3. PICK times \in [0 .. n -> V] : StepsUp(n, {0}, next, times)
  BY <1>2, Recursion, Zenon
<1>4. ASSUME NEW k \in 0 .. n
      PROVE  times[k] = IF k = 0 THEN {0} ELSE SumOf(times[k - 1], S)
  <2>1. k # 0 => k \in 1 .. n /\ times[k - 1] \in SUBSET Nat
    BY <1>0
  <2> QED BY <1>1, <1>3, <2>1, SMT DEF StepsUp
<1>5. TimesUpTo(S, n, times)
  BY <1>4, Zenon DEF TimesUpTo
<1> QED BY <1>5

LEMMA RepeatedIs ==
  ASSUME NEW S, S \subseteq Nat, NEW n \in Nat
  PROVE  \E times : TimesUpTo(S, n, times) /\ Repeated(S, n) = times[n]
<1> DEFINE times == CHOOSE f : TimesUpTo(S, n, f)
<1>1. TimesUpTo(S, n, times)
  BY TimesExists
<1>2. Repeated(S, n) = times[n]
  BY Zenon DEF Repeated, TimesUpTo
<1> QED BY <1>1, <1>2

(* "n" elements of at most "b" bits have at most n * b.                    *)
LEMMA RepeatedIsLengths ==
  ASSUME NEW S, NEW n \in Nat, IsLengths(S), NEW b \in Nat, \A s \in S : s <= b
  PROVE  /\ IsLengths(Repeated(S, n))
         /\ \A s \in Repeated(S, n) : s <= n * b
<1>1. PICK times : TimesUpTo(S, n, times) /\ Repeated(S, n) = times[n]
  BY RepeatedIs DEF IsLengths
<1> DEFINE V(k) == {T \in SUBSET Nat : IsLengths(T) /\ \A s \in T : s <= k * b}
           N == {k \in Nat : k <= n => times[k] \in V(k)}
<1>2. 0 \in N
  <2>1. times[0] = {0}
    BY <1>1 DEF TimesUpTo
  <2> QED BY <2>1, OneIsLengths
<1>3. ASSUME NEW k \in Nat, k \in N PROVE k + 1 \in N
  <2> SUFFICES ASSUME k + 1 <= n PROVE times[k + 1] \in V(k + 1)
    OBVIOUS
  <2>1. times[k] \in V(k)
    BY <1>3
  <2>2. k + 1 \in 0 .. n /\ k + 1 # 0 /\ (k + 1) - 1 = k
    BY <1>3
  <2>3. times[k + 1] = SumOf(times[k], S)
    <3>1. times[k + 1] = IF k + 1 = 0 THEN {0} ELSE SumOf(times[(k + 1) - 1], S)
      BY <1>1, <2>2, Zenon DEF TimesUpTo
    <3> QED BY <2>2, <3>1, Zenon
  <2>4. IsLengths(times[k + 1])
    BY <2>1, <2>3, SumIsLengths
  <2>5. ASSUME NEW x \in times[k + 1] PROVE x <= (k + 1) * b
    <3>1. PICK s \in times[k], t \in S : x = s + t
      BY <2>3, <2>5 DEF SumOf
    <3>2. s \in Nat /\ t \in Nat /\ s <= k * b /\ t <= b
      BY <2>1, <3>1 DEF IsLengths
    <3>3. (k + 1) * b = k * b + b /\ k * b \in Nat
      OBVIOUS
    <3> QED BY <3>1, <3>2, <3>3
  <2> QED BY <2>4, <2>5 DEF IsLengths
<1> HIDE DEF N
<1>4. n \in N
  BY <1>2, <1>3, Induction
<1> QED BY <1>1, <1>4 DEF N

LEMMA RepeatedUpToIsLengths ==
  ASSUME NEW S, NEW n \in Nat, IsLengths(S)
  PROVE  IsLengths(RepeatedUpTo(S, n))
<1>1. PICK b \in Nat : \A s \in S : s <= b
  BY DEF IsLengths
<1>2. ASSUME NEW k \in 0 .. n
      PROVE  /\ IsLengths(Repeated(S, k))
             /\ \A s \in Repeated(S, k) : s <= n * b
  <2>1. k \in Nat /\ IsLengths(Repeated(S, k)) /\ \A s \in Repeated(S, k) : s <= k * b
    BY <1>1, RepeatedIsLengths
  <2>2. n * b = k * b + (n - k) * b /\ n - k \in Nat
    OBVIOUS
  <2>3. (n - k) * b \in Nat /\ k * b \in Nat
    BY <2>2
  <2> QED BY <2>1, <2>2, <2>3 DEF IsLengths
<1>3. RepeatedUpTo(S, n) \subseteq Nat
  BY <1>2 DEF RepeatedUpTo, IsLengths
<1>4. n * b \in Nat /\ \A s \in RepeatedUpTo(S, n) : s <= n * b
  BY <1>2 DEF RepeatedUpTo
<1>5. 0 \in 0 .. n
  OBVIOUS
<1>6. RepeatedUpTo(S, n) # {}
  BY <1>2, <1>5 DEF RepeatedUpTo, IsLengths
<1> QED BY <1>3, <1>4, <1>6 DEF IsLengths

-----------------------------------------------------------------------------
(* What is padded ends at its alignment.                                   *)

LEMMA PadToIs ==
  ASSUME NEW n \in Nat, NEW a \in {1, ByteBits}
  PROVE  /\ PadTo(n, a) \in Nat /\ n <= PadTo(n, a) /\ PadTo(n, a) < n + a
         /\ PadTo(n, a) % a = 0
<1>1. CASE a = 1
  BY <1>1 DEF PadTo
<1>2. CASE a = ByteBits
  BY <1>2 DEF PadTo, ByteBits
<1> QED BY <1>1, <1>2

LEMMA PaddedIsLengths ==
  ASSUME NEW S, IsLengths(S), NEW a \in {1, ByteBits}
  PROVE  /\ IsLengths(PaddedTo(S, a))
         /\ \A n \in PaddedTo(S, a) : n % a = 0
<1>1. PICK b \in Nat : \A s \in S : s <= b
  BY DEF IsLengths
<1>2. a \in Nat
  BY DEF ByteBits
<1>3. \A n \in S : n \in Nat /\ PadTo(n, a) \in Nat /\ PadTo(n, a) <= b + a /\ PadTo(n, a) % a = 0
  BY <1>1, <1>2, PadToIs DEF IsLengths
<1>4. b + a \in Nat
  BY <1>2
<1>5. PaddedTo(S, a) # {}
  BY DEF IsLengths, PaddedTo
<1> QED BY <1>3, <1>4, <1>5 DEF IsLengths, PaddedTo

-----------------------------------------------------------------------------
(* The widths of prefixes, and the lengths of fields.                      *)

LEMMA HeldInIs ==
  ASSUME NEW n \in 0 .. 64
  PROVE  HeldIn(n) \in {8, 16, 32, 64} /\ n <= HeldIn(n)
<1> DEFINE W == {w \in {8, 16, 32, 64} : n <= w}
<1>1. W \subseteq Nat /\ W # {}
  OBVIOUS
<1>2. LeastOf(W) \in W
  BY <1>1, LeastOfLengths
<1> QED BY <1>2 DEF HeldIn

LEMMA PrefixBits ==
  ASSUME NEW i \in TypeIds, NEW k \in DOMAIN Fields[i]
  PROVE  LengthPrefixBits(Fields[i][k]) \in {0, 8, 16, 32, 64}
<1> DEFINE f == Fields[i][k]
<1>1. f.array = "variable" => BitWidth(f.cap) \in 0 .. 64
  BY CountsAreOf64Bits, Zenon
<1> HIDE DEF f
<1>2. f.array = "variable" => HeldIn(BitWidth(f.cap)) \in {8, 16, 32, 64}
  BY <1>1, HeldInIs, Zenon
<1>3. LengthPrefixBits(f) \in {0, 8, 16, 32, 64}
  BY <1>2 DEF LengthPrefixBits
<1> QED BY <1>3 DEF f

LEMMA TagBits ==
  ASSUME NEW i \in TypeIds, IsUnion[i]
  PROVE  UnionTagBits(Types[i]) \in {8, 16, 32, 64}
<1>1. Types[i].fields = Fields[i]
  BY Definitions
<1>2. BitWidth(Len(Fields[i]) - 1) \in 0 .. 64
  BY CountsAreOf64Bits
<1> QED BY <1>1, <1>2, HeldInIs DEF UnionTagBits

LEMMA FieldIsLengths ==
  ASSUME NEW i \in TypeIds, NEW k \in DOMAIN Fields[i], NEW one, IsLengths(one)
  PROVE  IsLengths(FieldLengths(Fields[i][k], one))
<1> DEFINE f == Fields[i][k]
<1>1. IsField(f) /\ LengthPrefixBits(f) \in Nat
  BY FieldsAre, PrefixBits
<1> HIDE DEF f
<1>2. ASSUME f.array = "none" PROVE IsLengths(FieldLengths(f, one))
  BY <1>2 DEF FieldLengths
<1>3. ASSUME f.array = "fixed" PROVE IsLengths(FieldLengths(f, one))
  <2>1. \E b \in Nat : \A s \in one : s <= b
    BY DEF IsLengths
  <2>2. IsLengths(Repeated(one, f.cap))
    BY <1>1, <2>1, RepeatedIsLengths DEF IsField
  <2> QED BY <1>3, <2>2 DEF FieldLengths
<1>4. ASSUME f.array = "variable" PROVE IsLengths(FieldLengths(f, one))
  <2>1. IsLengths(RepeatedUpTo(one, f.cap)) /\ IsLengths({LengthPrefixBits(f)})
    BY <1>1, RepeatedUpToIsLengths, OneIsLengths DEF IsField
  <2>2. IsLengths(SumOf({LengthPrefixBits(f)}, RepeatedUpTo(one, f.cap)))
    BY <2>1, SumIsLengths
  <2> QED BY <1>4, <2>2 DEF FieldLengths
<1>5. IsLengths(FieldLengths(f, one))
  BY <1>1, <1>2, <1>3, <1>4 DEF IsField
<1> QED BY <1>5 DEF f

LEMMA ScalarIsLengths ==
  ASSUME NEW i \in TypeIds, NEW k \in DOMAIN Fields[i], NEW sealed,
         IsComposite(Fields[i][k]) => IsLengths(sealed[Fields[i][k].ref])
  PROVE  IsLengths(ScalarLengths(Fields[i][k], sealed))
<1> DEFINE f == Fields[i][k]
<1>1. IsField(f) /\ (IsComposite(f) => f.ref \in TypeIds /\ IsLengths(sealed[f.ref]))
  BY FieldsAre
<1> HIDE DEF f
<1>2. ASSUME ~IsComposite(f) PROVE IsLengths(ScalarLengths(f, sealed))
  BY <1>1, <1>2, OneIsLengths DEF ScalarLengths, IsField
<1>3. ASSUME IsComposite(f) /\ IsSealed[f.ref] PROVE IsLengths(ScalarLengths(f, sealed))
  BY <1>1, <1>3 DEF ScalarLengths
<1>4. ASSUME IsComposite(f) /\ ~IsSealed[f.ref] PROVE IsLengths(ScalarLengths(f, sealed))
  <2> DEFINE most == Types[f.ref].extent \div ByteBits
             L == {HeaderBits + ByteBits * n : n \in 0 .. most}
  <2>1. most \in Nat /\ HeaderBits \in Nat /\ ByteBits = 8
    BY <1>1, <1>4, Definitions, LayoutConstants DEF ByteBits
  <2>2. ScalarLengths(f, sealed) = L
    BY <1>4 DEF ScalarLengths
  <2> HIDE DEF most
  <2>3. HeaderBits + ByteBits * 0 \in L
    BY <2>1
  <2>4. L \subseteq Nat /\ \A n \in L : n <= HeaderBits + ByteBits * most
    BY <2>1
  <2>5. HeaderBits + ByteBits * most \in Nat
    BY <2>1
  <2> HIDE DEF L
  <2> QED BY <2>2, <2>3, <2>4, <2>5 DEF IsLengths
<1> QED BY <1>2, <1>3, <1>4 DEF f

-----------------------------------------------------------------------------
(* The lengths of a section.                                               *)

AfterUpTo(fields, lengths, n, after) ==
    after = [k \in 0 .. n |->
               IF k = 0 THEN {0}
               ELSE SumOf(PaddedTo(after[k - 1], AlignmentOf(fields[k])), lengths[k])]

LEMMA AfterExists ==
  ASSUME NEW fields, NEW n \in Nat, NEW lengths, \A k \in 1 .. n : IsLengths(lengths[k])
  PROVE  \E after : AfterUpTo(fields, lengths, n, after)
<1>1. ASSUME NEW k \in 1 .. n, NEW T \in SUBSET Nat
      PROVE  SumOf(PaddedTo(T, AlignmentOf(fields[k])), lengths[k]) \in SUBSET Nat
  <2>1. AlignmentOf(fields[k]) \in {1, ByteBits}
    BY DEF AlignmentOf
  <2>2. PaddedTo(T, AlignmentOf(fields[k])) \subseteq Nat
    BY <2>1, PadToIs DEF PaddedTo
  <2> QED BY <2>2 DEF SumOf, IsLengths
<1>0. PICK V : V = SUBSET Nat
  OBVIOUS
<1>2. PICK next \in [1 .. n -> [V -> V]] :
        \A k \in 1 .. n : \A T \in SUBSET Nat :
          next[k][T] = SumOf(PaddedTo(T, AlignmentOf(fields[k])), lengths[k])
  <2>1. [k \in 1 .. n |->
           [T \in SUBSET Nat |-> SumOf(PaddedTo(T, AlignmentOf(fields[k])), lengths[k])]]
          \in [1 .. n -> [V -> V]]
    BY <1>0, <1>1
  <2> QED BY <2>1
<1>3. {0} \in V
  BY <1>0
<1>4. PICK after \in [0 .. n -> V] : StepsUp(n, {0}, next, after)
  BY <1>3, Recursion, Zenon
<1>5. ASSUME NEW k \in 0 .. n
      PROVE  after[k] = IF k = 0 THEN {0}
                        ELSE SumOf(PaddedTo(after[k - 1], AlignmentOf(fields[k])), lengths[k])
  <2>1. k # 0 => k \in 1 .. n /\ after[k - 1] \in SUBSET Nat
    BY <1>0
  <2> QED BY <1>2, <1>4, <2>1, SMT DEF StepsUp
<1>6. AfterUpTo(fields, lengths, n, after)
  BY <1>5, Zenon DEF AfterUpTo
<1> QED BY <1>6

(* The content of a section, before it is padded to a byte.                *)
ContentLengths(d, lengths, after) ==
    IF d.union
    THEN SumOf({UnionTagBits(d)}, UNION {lengths[k] : k \in DOMAIN d.fields})
    ELSE after[Len(d.fields)]

LEMMA SectionIs ==
  ASSUME NEW d, Len(d.fields) \in Nat, NEW lengths,
         \A k \in 1 .. Len(d.fields) : IsLengths(lengths[k])
  PROVE  \E after : /\ AfterUpTo(d.fields, lengths, Len(d.fields), after)
                    /\ SectionLengths(d, lengths) = PaddedTo(ContentLengths(d, lengths, after), ByteBits)
<1> DEFINE after == CHOOSE f : AfterUpTo(d.fields, lengths, Len(d.fields), f)
<1>1. AfterUpTo(d.fields, lengths, Len(d.fields), after)
  BY AfterExists
<1>2. SectionLengths(d, lengths) = PaddedTo(ContentLengths(d, lengths, after), ByteBits)
  BY Zenon DEF SectionLengths, ContentLengths, AfterUpTo
<1> QED BY <1>1, <1>2

LEMMA AfterIsLengths ==
  ASSUME NEW fields, NEW n \in Nat, NEW lengths, \A k \in 1 .. n : IsLengths(lengths[k]),
         NEW after, AfterUpTo(fields, lengths, n, after)
  PROVE  \A k \in 0 .. n : IsLengths(after[k])
<1> DEFINE V == {T \in SUBSET Nat : IsLengths(T)}
<1>1. after[0] \in V
  <2>1. after[0] = {0}
    BY DEF AfterUpTo
  <2> QED BY <2>1, OneIsLengths
<1>2. ASSUME NEW k \in 1 .. n, after[k - 1] \in V PROVE after[k] \in V
  <2>1. k \in 0 .. n /\ k # 0
    OBVIOUS
  <2>2. after[k] = SumOf(PaddedTo(after[k - 1], AlignmentOf(fields[k])), lengths[k])
    BY <2>1, Zenon DEF AfterUpTo
  <2>3. AlignmentOf(fields[k]) \in {1, ByteBits}
    BY DEF AlignmentOf
  <2>4. IsLengths(PaddedTo(after[k - 1], AlignmentOf(fields[k])))
    BY <1>2, <2>3, PaddedIsLengths
  <2>5. IsLengths(after[k])
    BY <2>2, <2>4, SumIsLengths
  <2> QED BY <2>5 DEF IsLengths
<1>3. \A k \in 0 .. n : after[k] \in V
  <2> HIDE DEF V
  <2> QED BY <1>1, <1>2, Stays
<1> QED BY <1>3

LEMMA UnionIsLengths ==
  ASSUME NEW n \in Nat, n > 0, NEW lengths, \A k \in 1 .. n : IsLengths(lengths[k])
  PROVE  IsLengths(UNION {lengths[k] : k \in 1 .. n})
<1> DEFINE All(m) == UNION {lengths[k] : k \in 1 .. m}
           N == {m \in Nat : m + 1 <= n => IsLengths(All(m + 1))}
<1>1. 0 \in N
  <2>1. 1 \in 1 .. n /\ \A k \in 1 .. 1 : k = 1
    OBVIOUS
  <2>2. All(1) = lengths[1]
    BY <2>1
  <2> QED BY <2>1, <2>2
<1>2. ASSUME NEW m \in Nat, m \in N PROVE m + 1 \in N
  <2> SUFFICES ASSUME (m + 1) + 1 <= n PROVE IsLengths(All((m + 1) + 1))
    OBVIOUS
  <2>1. IsLengths(All(m + 1)) /\ IsLengths(lengths[m + 2])
    BY <1>2
  <2>2. \A k : k \in 1 .. ((m + 1) + 1) <=> k \in 1 .. (m + 1) \/ k = m + 2
    OBVIOUS
  <2>3. All((m + 1) + 1) = All(m + 1) \cup lengths[m + 2]
    BY <2>2
  <2> HIDE DEF All
  <2>4. PICK b \in Nat : \A s \in All(m + 1) : s <= b
    BY <2>1 DEF IsLengths
  <2>5. PICK c \in Nat : \A s \in lengths[m + 2] : s <= c
    BY <2>1 DEF IsLengths
  <2>6. b + c \in Nat /\ \A s \in All(m + 1) \cup lengths[m + 2] : s <= b + c
    BY <2>1, <2>4, <2>5 DEF IsLengths
  <2> QED BY <2>1, <2>3, <2>6 DEF IsLengths
<1> HIDE DEF N
<1>3. n - 1 \in N /\ (n - 1) + 1 = n
  BY <1>1, <1>2, Induction
<1> HIDE DEF All
<1>4. IsLengths(All((n - 1) + 1))
  BY <1>3 DEF N
<1>5. IsLengths(All(n))
  BY <1>3, <1>4
<1> QED BY <1>5, Zenon DEF All

LEMMA ContentIsLengths ==
  ASSUME NEW i \in TypeIds, Accepted(i),
         NEW lengths, \A k \in DOMAIN Fields[i] : IsLengths(lengths[k]),
         NEW after, AfterUpTo(Types[i].fields, lengths, Len(Types[i].fields), after)
  PROVE  IsLengths(ContentLengths(Types[i], lengths, after))
<1>1. /\ Types[i].fields = Fields[i] /\ Len(Fields[i]) \in Nat /\ DOMAIN Fields[i] = 1 .. Len(Fields[i])
      /\ Types[i].union = IsUnion[i]
  BY Definitions
<1>2. CASE ~IsUnion[i]
  <2>1. \A k \in 0 .. Len(Fields[i]) : IsLengths(after[k])
    BY <1>1, AfterIsLengths
  <2>2. Len(Fields[i]) \in 0 .. Len(Fields[i])
    BY <1>1
  <2>3. ContentLengths(Types[i], lengths, after) = after[Len(Fields[i])]
    BY <1>1, <1>2, Zenon DEF ContentLengths
  <2> QED BY <2>1, <2>2, <2>3
<1>3. CASE IsUnion[i]
  <2>1. Len(Fields[i]) > 0
    BY <1>1, <1>3 DEF Accepted
  <2>2. IsLengths(UNION {lengths[k] : k \in DOMAIN Fields[i]})
    BY <1>1, <2>1, UnionIsLengths
  <2>3. UnionTagBits(Types[i]) \in Nat
    BY <1>3, TagBits
  <2>4. IsLengths(SumOf({UnionTagBits(Types[i])}, UNION {lengths[k] : k \in DOMAIN Fields[i]}))
    BY <2>2, <2>3, OneIsLengths, SumIsLengths
  <2> QED BY <1>1, <1>3, <2>4 DEF ContentLengths
<1> QED BY <1>2, <1>3

LEMMA SectionIsLengths ==
  ASSUME NEW i \in TypeIds, Accepted(i),
         NEW lengths, \A k \in DOMAIN Fields[i] : IsLengths(lengths[k])
  PROVE  /\ IsLengths(SectionLengths(Types[i], lengths))
         /\ \A n \in SectionLengths(Types[i], lengths) : n % ByteBits = 0
<1>1. Types[i].fields = Fields[i] /\ Len(Fields[i]) \in Nat /\ DOMAIN Fields[i] = 1 .. Len(Fields[i])
  BY Definitions
<1>2. PICK after : /\ AfterUpTo(Types[i].fields, lengths, Len(Types[i].fields), after)
                   /\ SectionLengths(Types[i], lengths)
                        = PaddedTo(ContentLengths(Types[i], lengths, after), ByteBits)
  BY <1>1, SectionIs
<1>3. IsLengths(ContentLengths(Types[i], lengths, after))
  BY <1>2, ContentIsLengths
<1> QED BY <1>2, <1>3, PaddedIsLengths

-----------------------------------------------------------------------------
(* The lengths of a definition.                                            *)

LayoutOf(i, ends) ==
    SectionLengths(Types[i],
                   [k \in DOMAIN Fields[i] |->
                      FieldLengths(Fields[i][k], ScalarLengths(Fields[i][k], ends))])

Ends(ends) == ends = [i \in TypeIds |-> LayoutOf(i, ends)]

(* They are made of the lengths of definitions before it.                  *)
LEMMA LayoutOfEarlier ==
  ASSUME NEW i \in TypeIds, NEW ends, NEW more, \A j \in TypeIds : j < i => ends[j] = more[j]
  PROVE  LayoutOf(i, ends) = LayoutOf(i, more)
<1>1. ASSUME NEW k \in DOMAIN Fields[i]
      PROVE  ScalarLengths(Fields[i][k], ends) = ScalarLengths(Fields[i][k], more)
  <2>1. IsComposite(Fields[i][k]) => ends[Fields[i][k].ref] = more[Fields[i][k].ref]
    BY FieldsAre
  <2> QED BY <2>1, Zenon DEF ScalarLengths
<1>2. [k \in DOMAIN Fields[i] |-> FieldLengths(Fields[i][k], ScalarLengths(Fields[i][k], ends))]
        = [k \in DOMAIN Fields[i] |-> FieldLengths(Fields[i][k], ScalarLengths(Fields[i][k], more))]
  BY <1>1, Zenon
<1> QED BY <1>2, Zenon DEF LayoutOf

LEMMA EndsExist == \E ends : Ends(ends)
<1> DEFINE IsTo(m, ends) == /\ DOMAIN ends = TypeIds
                            /\ ends = [j \in TypeIds |-> ends[j]]
                            /\ \A i \in TypeIds : i <= m => ends[i] = LayoutOf(i, ends)
           N == {m \in Nat : \E ends : IsTo(m, ends)}
<1>0. TypeIds = 1 .. Len(Types) /\ Len(Types) \in Nat
  BY LayoutConstants DEF TypeIds, IsSequence
<1>1. 0 \in N
  <2>1. IsTo(0, [i \in TypeIds |-> {}])
    BY <1>0
  <2> QED BY <2>1
<1>2. ASSUME NEW m \in Nat, m \in N PROVE m + 1 \in N
  <2>1. PICK ends : IsTo(m, ends)
    BY <1>2
  <2> DEFINE more == [i \in TypeIds |-> IF i = m + 1 THEN LayoutOf(m + 1, ends) ELSE ends[i]]
  <2>2. ASSUME NEW i \in TypeIds, i <= m + 1 PROVE more[i] = LayoutOf(i, more)
    <3>1. \A j \in TypeIds : j < i => ends[j] = more[j]
      BY <1>0, <2>2
    <3>2. LayoutOf(i, more) = LayoutOf(i, ends)
      <4> HIDE DEF more
      <4> QED BY <3>1, LayoutOfEarlier
    <3>3. i # m + 1 => i <= m
      BY <1>0, <2>2
    <3>4. CASE i = m + 1
      <4>1. more[i] = LayoutOf(m + 1, ends)
        BY <3>4
      <4> QED BY <3>2, <3>4, <4>1, Zenon
    <3>5. CASE i # m + 1
      <4>1. more[i] = ends[i]
        BY <3>5
      <4>2. ends[i] = LayoutOf(i, ends)
        BY <2>1, <3>3, <3>5
      <4> QED BY <3>2, <4>1, <4>2, Zenon
    <3> QED BY <3>4, <3>5
  <2>3. DOMAIN more = TypeIds /\ more = [j \in TypeIds |-> more[j]]
    OBVIOUS
  <2> HIDE DEF more
  <2>4. IsTo(m + 1, more)
    BY <2>2, <2>3
  <2> QED BY <2>4
<1> HIDE DEF N
<1>3. Len(Types) \in N
  BY <1>0, <1>1, <1>2, Induction
<1>4. PICK ends : IsTo(Len(Types), ends)
  BY <1>3 DEF N
<1>5. ASSUME NEW i \in TypeIds PROVE ends[i] = LayoutOf(i, ends)
  <2>1. i <= Len(Types)
    BY <1>0
  <2> QED BY <1>4, <2>1
<1>6. [j \in TypeIds |-> ends[j]] = [j \in TypeIds |-> LayoutOf(j, ends)]
  BY <1>5, Zenon
<1>7. Ends(ends)
  BY <1>4, <1>6, Zenon DEF Ends
<1> QED BY <1>7

(* OffsetAtEnd is what it is defined by: the lengths of each definition    *)
(* come from its fields, and those of composite fields from OffsetAtEnd.   *)
LEMMA OffsetAtEndIs ==
  ASSUME NEW i \in TypeIds
  PROVE  OffsetAtEnd[i] = LayoutOf(i, OffsetAtEnd)
<1> DEFINE ends == CHOOSE f : Ends(f)
<1>1. Ends(ends)
  BY EndsExist
<1>2. OffsetAtEnd = [j \in TypeIds |-> ends[j]]
  BY Zenon DEF OffsetAtEnd, Ends, LayoutOf
<1> HIDE DEF ends
<1>3. \A j \in TypeIds : OffsetAtEnd[j] = ends[j]
  BY <1>2
<1>4. LayoutOf(i, ends) = LayoutOf(i, OffsetAtEnd)
  BY <1>3, LayoutOfEarlier
<1>5. ends[i] = LayoutOf(i, ends)
  BY <1>1, Zenon DEF Ends
<1> QED BY <1>3, <1>4, <1>5, Zenon

LEMMA OffsetAtEndIsLengths ==
  ASSUME NEW i \in TypeIds, \A j \in TypeIds : Accepted(j)
  PROVE  /\ IsLengths(OffsetAtEnd[i])
         /\ \A n \in OffsetAtEnd[i] : n % ByteBits = 0
<1> DEFINE Good(S) == IsLengths(S) /\ \A n \in S : n % ByteBits = 0
           N == {m \in Nat : \A j \in TypeIds : j <= m => Good(OffsetAtEnd[j])}
<1>0. TypeIds = 1 .. Len(Types) /\ Len(Types) \in Nat
  BY LayoutConstants DEF TypeIds, IsSequence
<1>1. 0 \in N
  BY <1>0
<1>2. ASSUME NEW m \in Nat, m \in N PROVE m + 1 \in N
  <2> SUFFICES ASSUME NEW j \in TypeIds, j = m + 1 PROVE Good(OffsetAtEnd[j])
    BY <1>0, <1>2
  <2> DEFINE lengths == [k \in DOMAIN Fields[j] |->
                           FieldLengths(Fields[j][k], ScalarLengths(Fields[j][k], OffsetAtEnd))]
  <2>1. ASSUME NEW k \in DOMAIN Fields[j] PROVE IsLengths(lengths[k])
    <3>1. IsComposite(Fields[j][k]) => /\ Fields[j][k].ref \in TypeIds
                                       /\ Fields[j][k].ref < j
      BY FieldsAre
    <3>2. IsComposite(Fields[j][k]) => IsLengths(OffsetAtEnd[Fields[j][k].ref])
      BY <1>0, <1>2, <3>1
    <3>3. IsLengths(ScalarLengths(Fields[j][k], OffsetAtEnd))
      BY <3>2, ScalarIsLengths
    <3>4. IsLengths(FieldLengths(Fields[j][k], ScalarLengths(Fields[j][k], OffsetAtEnd)))
      BY <3>3, FieldIsLengths
    <3> QED BY <3>4
  <2>2. OffsetAtEnd[j] = SectionLengths(Types[j], lengths)
    BY OffsetAtEndIs, Zenon DEF LayoutOf
  <2> HIDE DEF lengths
  <2> QED BY <2>1, <2>2, SectionIsLengths
<1> HIDE DEF N
<1>3. Len(Types) \in N
  BY <1>0, <1>1, <1>2, Induction
<1> QED BY <1>0, <1>3 DEF N

(* A definition of one length is of whole bytes.                           *)
LEMMA FixedBitsAre ==
  ASSUME NEW i \in TypeIds, \A j \in TypeIds : Accepted(j)
  PROVE  /\ MaxBits[i] \in Nat
         /\ \A n \in OffsetAtEnd[i] : n <= MaxBits[i]
         /\ FixedBits[i] \in Nat \cup {Unknown}
         /\ FixedBits[i] # Unknown =>
               /\ FixedBits[i] \in Nat /\ FixedBits[i] % ByteBits = 0
               /\ OffsetAtEnd[i] = {FixedBits[i]}
<1> DEFINE S == OffsetAtEnd[i]
<1>1. IsLengths(S) /\ \A n \in S : n % ByteBits = 0
  BY OffsetAtEndIsLengths
<1>2. S \subseteq Nat
  BY <1>1 DEF IsLengths
<1>3. /\ GreatestOf(S) \in S /\ \A n \in S : n <= GreatestOf(S)
      /\ LeastOf(S) \in S /\ \A n \in S : LeastOf(S) <= n
  BY <1>1, GreatestOfLengths, LeastOfLengths DEF IsLengths
<1>4. MaxBits[i] = GreatestOf(S) /\ FixedBits[i] = OneLength(S)
  BY DEF MaxBits, FixedBits
<1> HIDE DEF S
<1>5. ASSUME LeastOf(S) = GreatestOf(S) PROVE S = {GreatestOf(S)}
  <2>1. ASSUME NEW n \in S PROVE n = GreatestOf(S)
    <3>1. n \in Nat /\ GreatestOf(S) \in Nat
      BY <1>2, <1>3
    <3>2. n <= GreatestOf(S) /\ GreatestOf(S) <= n
      BY <1>3, <1>5
    <3> QED BY <3>1, <3>2
  <2> QED BY <1>3, <2>1
<1> QED BY <1>1, <1>2, <1>3, <1>4, <1>5 DEF S, OneLength, Unknown

-----------------------------------------------------------------------------
(* What a reader may go by.                                                *)

(* OffsetAtEnd is defined by a function of itself: whatever the            *)
(* definitions, there is one, and the lengths of a definition are what     *)
(* analyzeSection makes of its fields and of the lengths of the            *)
(* definitions before it.                                                  *)
THEOREM LengthsUnfold ==
  \A i \in TypeIds :
    OffsetAtEnd[i] =
      SectionLengths(Types[i],
                     [k \in DOMAIN Fields[i] |->
                        FieldLengths(Fields[i][k], ScalarLengths(Fields[i][k], OffsetAtEnd))])
BY OffsetAtEndIs, Zenon DEF LayoutOf

(* The lengths the analyser gives the definitions it accepts: there are    *)
(* some, all of whole bytes, and MaxBits is the longest of them, so the    *)
(* capacity check (createPlanCapacityCheckFunction) asks for no more than  *)
(* an object can need.                                                     *)
THEOREM LengthsAreWholeBytes ==
  ASSUME \A j \in TypeIds : Accepted(j), NEW i \in TypeIds
  PROVE  /\ OffsetAtEnd[i] \subseteq Nat
         /\ MaxBits[i] \in OffsetAtEnd[i]
         /\ \A n \in OffsetAtEnd[i] : n <= MaxBits[i] /\ n % ByteBits = 0
<1>1. IsLengths(OffsetAtEnd[i]) /\ \A n \in OffsetAtEnd[i] : n % ByteBits = 0
  BY OffsetAtEndIsLengths
<1>2. MaxBits[i] \in OffsetAtEnd[i]
  BY <1>1, GreatestOfLengths DEF MaxBits
<1> QED BY <1>1, <1>2, FixedBitsAre DEF IsLengths

(* Where nestedFixedBits answers a length, the definition has no other: a  *)
(* body may step over the composite by that constant.                      *)
THEOREM FixedBitsAreTheOnly ==
  ASSUME \A j \in TypeIds : Accepted(j), NEW i \in TypeIds, FixedBits[i] # Unknown
  PROVE  OffsetAtEnd[i] = {FixedBits[i]} /\ FixedBits[i] % ByteBits = 0
BY FixedBitsAre

-----------------------------------------------------------------------------
(* The alias layout.                                                       *)

LEMMA BitsOfField ==
  ASSUME NEW i \in TypeIds, NEW k \in DOMAIN Fields[i]
  PROVE  Fields[i][k].bits \in 0 .. 64
<1>1. Fields[i] = Types[i].fields
  BY Definitions
<1> QED BY <1>1, LayoutConstants

(* How many scalars or composites a field holds at most.                   *)
CountOf(f) == IF IsArray(f) THEN f.cap ELSE 1

WidthOf(f) == IF IsComposite(f) THEN MaxBits[f.ref] ELSE f.bits

LEMMA RunBitsAre ==
  ASSUME NEW i \in TypeIds, NEW k \in DOMAIN Fields[i], \A j \in TypeIds : Accepted(j)
  PROVE  /\ RunBits(Fields[i][k], MaxBits) = WidthOf(Fields[i][k]) * CountOf(Fields[i][k])
         /\ CountOf(Fields[i][k]) \in Nat /\ WidthOf(Fields[i][k]) \in Nat
         /\ RunBits(Fields[i][k], MaxBits) \in Nat
<1> DEFINE f == Fields[i][k]
<1>1. IsField(f) /\ (IsComposite(f) => f.ref \in TypeIds)
  BY FieldsAre
<1>2. IsComposite(f) => MaxBits[f.ref] \in Nat
  BY <1>1, FixedBitsAre
<1> HIDE DEF f
<1>3. RunBits(f, MaxBits) = WidthOf(f) * CountOf(f)
  BY DEF RunBits, WidthOf, CountOf
<1>4. CountOf(f) \in Nat /\ WidthOf(f) \in Nat
  BY <1>1, <1>2 DEF IsField, WidthOf, CountOf
<1>5. WidthOf(f) * CountOf(f) \in Nat
  BY <1>4
<1> QED BY <1>3, <1>4, <1>5 DEF f

RunsUpTo(fields, most, run) ==
    run = [n \in 0 .. Len(fields) |-> IF n = 0 THEN 0 ELSE run[n - 1] + RunBits(fields[n], most)]

(* RunBefore adds up the widths of the fields before.                      *)
LEMMA RunBeforeIs ==
  ASSUME NEW i \in TypeIds, \A j \in TypeIds : Accepted(j)
  PROVE  /\ RunBefore(Fields[i], MaxBits, 1) = 0
         /\ \A k \in 1 .. Len(Fields[i]) :
               RunBefore(Fields[i], MaxBits, k + 1)
                 = RunBefore(Fields[i], MaxBits, k) + RunBits(Fields[i][k], MaxBits)
<1> DEFINE fields == Fields[i]
           n == Len(fields)
           run == CHOOSE f : RunsUpTo(fields, MaxBits, f)
<1>1. n \in Nat /\ DOMAIN fields = 1 .. n
  BY Definitions
<1>2. \A k \in 1 .. n : RunBits(fields[k], MaxBits) \in Nat
  BY <1>1, RunBitsAre
<1> HIDE DEF n, fields
<1>3. PICK V : V = Nat
  OBVIOUS
<1>4. PICK next \in [1 .. n -> [V -> V]] :
        \A k \in 1 .. n : \A was \in V : next[k][was] = was + RunBits(fields[k], MaxBits)
  <2>1. [k \in 1 .. n |-> [was \in V |-> was + RunBits(fields[k], MaxBits)]] \in [1 .. n -> [V -> V]]
    BY <1>2, <1>3
  <2> QED BY <2>1
<1>5. PICK f \in [0 .. n -> V] : StepsUp(n, 0, next, f)
  <2>1. 0 \in V
    BY <1>3
  <2> QED BY <1>1, <2>1, Recursion, Zenon
<1>6. ASSUME NEW k \in 0 .. n
      PROVE  f[k] = IF k = 0 THEN 0 ELSE f[k - 1] + RunBits(fields[k], MaxBits)
  <2>1. k # 0 => k \in 1 .. n /\ f[k - 1] \in V
    BY <1>1
  <2> QED BY <1>4, <1>5, <2>1, SMT DEF StepsUp
<1>7. RunsUpTo(fields, MaxBits, f)
  BY <1>6, Zenon DEF RunsUpTo, n
<1>8. RunsUpTo(fields, MaxBits, run)
  BY <1>7, Zenon
<1>9. \A k : RunBefore(fields, MaxBits, k) = run[k - 1]
  BY Zenon DEF RunBefore, RunsUpTo
<1> HIDE DEF run
<1>10. run[0] = 0 /\ \A k \in 1 .. n : run[k] = run[k - 1] + RunBits(fields[k], MaxBits)
  <2>1. run = [k \in 0 .. n |-> IF k = 0 THEN 0 ELSE run[k - 1] + RunBits(fields[k], MaxBits)]
    BY <1>8, Zenon DEF RunsUpTo, n
  <2>2. \A k \in 1 .. n : k \in 0 .. n /\ k # 0
    BY <1>1
  <2>3. 0 \in 0 .. n
    BY <1>1
  <2> QED BY <2>1, <2>2, <2>3
<1>11. 1 - 1 = 0 /\ \A k \in 1 .. n : (k + 1) - 1 = k
  BY <1>1
<1> QED BY <1>9, <1>10, <1>11 DEF fields, n

(* Whatever is flat is sealed, of one length and of fields of one length.  *)
FlatOf(i, flat) == IsFlat(Types[i], MaxBits, FixedBits[i], flat)

Flats(flat) == flat = [i \in TypeIds |-> FlatOf(i, flat)]

LEMMA FlatOfEarlier ==
  ASSUME NEW i \in TypeIds, NEW flat, NEW more, \A j \in TypeIds : j < i => flat[j] = more[j]
  PROVE  FlatOf(i, flat) = FlatOf(i, more)
<1>1. Types[i].fields = Fields[i]
  BY Definitions
<1>2. \A k \in DOMAIN Types[i].fields :
        IsComposite(Types[i].fields[k]) => flat[Types[i].fields[k].ref] = more[Types[i].fields[k].ref]
  BY <1>1, FieldsAre
<1> QED BY <1>2, Zenon DEF FlatOf, IsFlat

LEMMA FlatsExist == \E flat : Flats(flat)
<1> DEFINE IsTo(m, f) == /\ DOMAIN f = TypeIds
                         /\ f = [j \in TypeIds |-> f[j]]
                         /\ \A i \in TypeIds : i <= m => f[i] = FlatOf(i, f)
           N == {m \in Nat : \E f : IsTo(m, f)}
<1>0. TypeIds = 1 .. Len(Types) /\ Len(Types) \in Nat
  BY LayoutConstants DEF TypeIds, IsSequence
<1>1. 0 \in N
  <2>1. IsTo(0, [i \in TypeIds |-> {}])
    BY <1>0
  <2> QED BY <2>1
<1>2. ASSUME NEW m \in Nat, m \in N PROVE m + 1 \in N
  <2>1. PICK f : IsTo(m, f)
    BY <1>2
  <2> DEFINE more == [i \in TypeIds |-> IF i = m + 1 THEN FlatOf(m + 1, f) ELSE f[i]]
  <2>2. ASSUME NEW i \in TypeIds, i <= m + 1 PROVE more[i] = FlatOf(i, more)
    <3>1. \A j \in TypeIds : j < i => f[j] = more[j]
      BY <1>0, <2>2
    <3>2. FlatOf(i, more) = FlatOf(i, f)
      <4> HIDE DEF more
      <4> QED BY <3>1, FlatOfEarlier
    <3>3. i # m + 1 => i <= m
      BY <1>0, <2>2
    <3>4. CASE i = m + 1
      <4>1. more[i] = FlatOf(m + 1, f)
        BY <3>4
      <4> QED BY <3>2, <3>4, <4>1, Zenon
    <3>5. CASE i # m + 1
      <4>1. more[i] = f[i]
        BY <3>5
      <4>2. f[i] = FlatOf(i, f)
        BY <2>1, <3>3, <3>5
      <4> QED BY <3>2, <4>1, <4>2, Zenon
    <3> QED BY <3>4, <3>5
  <2>3. DOMAIN more = TypeIds /\ more = [j \in TypeIds |-> more[j]]
    OBVIOUS
  <2> HIDE DEF more
  <2>4. IsTo(m + 1, more)
    BY <2>2, <2>3
  <2> QED BY <2>4
<1> HIDE DEF N
<1>3. Len(Types) \in N
  BY <1>0, <1>1, <1>2, Induction
<1>4. PICK f : IsTo(Len(Types), f)
  BY <1>3 DEF N
<1>5. ASSUME NEW i \in TypeIds PROVE f[i] = FlatOf(i, f)
  <2>1. i <= Len(Types)
    BY <1>0
  <2> QED BY <1>4, <2>1
<1>6. [j \in TypeIds |-> f[j]] = [j \in TypeIds |-> FlatOf(j, f)]
  BY <1>5, Zenon
<1>7. Flats(f)
  BY <1>4, <1>6, Zenon DEF Flats
<1> QED BY <1>7

LEMMA WireFlatIs ==
  ASSUME NEW i \in TypeIds
  PROVE  WireFlat[i] = IsFlat(Types[i], MaxBits, FixedBits[i], WireFlat)
<1> DEFINE flat == CHOOSE f : Flats(f)
<1>1. Flats(flat)
  BY FlatsExist, Zenon
<1>2. WireFlat = [j \in TypeIds |-> flat[j]]
  BY Zenon DEF WireFlat, Flats, FlatOf
<1> HIDE DEF flat
<1>3. \A j \in TypeIds : WireFlat[j] = flat[j]
  BY <1>2
<1>4. FlatOf(i, flat) = FlatOf(i, WireFlat)
  BY <1>3, FlatOfEarlier
<1>5. flat[i] = FlatOf(i, flat)
  BY <1>1, Zenon DEF Flats
<1> QED BY <1>3, <1>4, <1>5, Zenon DEF FlatOf

-----------------------------------------------------------------------------
(* What the lowering derives from the steps of a flat plan.                *)

(* A flat plan has one length, and so has every composite in it.           *)
LEMMA FlatIs ==
  ASSUME NEW i \in TypeIds, WireFlat[i], \A j \in TypeIds : Accepted(j)
  PROVE  /\ IsSealed[i] /\ ~IsUnion[i] /\ Types[i].sealed /\ ~Types[i].union
         /\ FixedBits[i] # Unknown /\ FixedBits[i] = MaxBits[i] /\ OffsetAtEnd[i] = {MaxBits[i]}
         /\ MaxBits[i] \in Nat
         /\ \E k \in 1 .. Len(Fields[i]) : Fields[i][k].cat # "void"
         /\ RunBefore(Fields[i], MaxBits, Len(Fields[i]) + 1) % ByteBits = 0
         /\ \A k \in 1 .. Len(Fields[i]) :
               /\ Fields[i][k].array # "variable"
               /\ IsComposite(Fields[i][k]) => WireFlat[Fields[i][k].ref]
               /\ IsArray(Fields[i][k]) => Fields[i][k].cap >= 1
               /\ Fields[i][k].cat # "void" =>
                     /\ RunBefore(Fields[i], MaxBits, k) % ByteBits = 0
                     /\ ~IsComposite(Fields[i][k]) =>
                           /\ Fields[i][k].bits > 0
                           /\ RunBits(Fields[i][k], MaxBits) % ByteBits = 0
<1>1. /\ Types[i].fields = Fields[i] /\ DOMAIN Fields[i] = 1 .. Len(Fields[i])
      /\ IsSealed[i] = Types[i].sealed /\ IsUnion[i] = Types[i].union
  BY Definitions
<1>2. IsFlat(Types[i], MaxBits, FixedBits[i], WireFlat)
  BY WireFlatIs
<1>3. /\ FixedBits[i] # Unknown
      /\ RunBefore(Fields[i], MaxBits, Len(Fields[i]) + 1) % ByteBits = 0
      /\ Types[i].sealed /\ ~Types[i].union
      /\ \E k \in 1 .. Len(Fields[i]) : Fields[i][k].cat # "void"
  BY <1>1, <1>2, Zenon DEF IsFlat
<1>4. OffsetAtEnd[i] = {FixedBits[i]} /\ MaxBits[i] \in OffsetAtEnd[i]
  BY <1>3, FixedBitsAreTheOnly, LengthsAreWholeBytes
<1>5. MaxBits[i] \in Nat
  BY FixedBitsAre
<1>6. ASSUME NEW k \in 1 .. Len(Fields[i]), Fields[i][k].cat # "void"
      PROVE  /\ Fields[i][k].array # "variable"
             /\ RunBefore(Fields[i], MaxBits, k) % ByteBits = 0
             /\ IsComposite(Fields[i][k]) => WireFlat[Fields[i][k].ref]
             /\ ~IsComposite(Fields[i][k]) => /\ Fields[i][k].bits > 0
                                              /\ RunBits(Fields[i][k], MaxBits) % ByteBits = 0
  BY <1>1, <1>2, <1>6, Zenon DEF IsFlat
<1>7. ASSUME NEW k \in 1 .. Len(Fields[i])
      PROVE  IsArray(Fields[i][k]) => Fields[i][k].cat # "void" /\ Fields[i][k].cap >= 1
  BY <1>1, Zenon DEF Accepted
<1>8. \A k \in 1 .. Len(Fields[i]) : IsComposite(Fields[i][k]) => Fields[i][k].cat # "void"
  BY DEF IsComposite
<1>9. \A k \in 1 .. Len(Fields[i]) : Fields[i][k].array = "variable" => IsArray(Fields[i][k])
  BY DEF IsArray
<1> QED BY <1>1, <1>3, <1>4, <1>5, <1>6, <1>7, <1>8, <1>9

(* Elements of one length, and only of that, take that many times it.      *)
LEMMA RepeatedOne ==
  ASSUME NEW w \in Nat, NEW n \in Nat
  PROVE  Repeated({w}, n) = {w * n}
<1>1. PICK times : TimesUpTo({w}, n, times) /\ Repeated({w}, n) = times[n]
  BY RepeatedIs
<1> DEFINE K == {k \in Nat : k <= n => times[k] = {w * k}}
<1>2. 0 \in K
  <2>1. times[0] = {0} /\ w * 0 = 0
    BY <1>1 DEF TimesUpTo
  <2> QED BY <2>1
<1>3. ASSUME NEW k \in Nat, k \in K PROVE k + 1 \in K
  <2> SUFFICES ASSUME k + 1 <= n PROVE times[k + 1] = {w * (k + 1)}
    OBVIOUS
  <2>1. times[k] = {w * k}
    BY <1>3
  <2>2. k + 1 \in 0 .. n /\ k + 1 # 0 /\ (k + 1) - 1 = k
    OBVIOUS
  <2>3. times[k + 1] = SumOf(times[k], {w})
    BY <1>1, <2>2 DEF TimesUpTo
  <2>4. w * (k + 1) = w * k + w
    OBVIOUS
  <2> QED BY <2>1, <2>3, <2>4 DEF SumOf
<1> HIDE DEF K
<1>4. n \in K
  BY <1>2, <1>3, Induction
<1>5. times[n] = {w * n}
  BY <1>4 DEF K
<1> QED BY <1>1, <1>5

LEMMA LeastOfOne ==
  ASSUME NEW n \in Nat
  PROVE  LeastOf({n}) = n
BY OneIsLengths, LeastOfLengths

(* What a step states is what the analyser counted for the field.          *)
LEMMA StepsOfFlat ==
  ASSUME NEW i \in TypeIds, WireFlat[i], \A j \in TypeIds : Accepted(j), NEW k \in 1 .. Len(Fields[i])
  PROVE  /\ StepWidth(Fields[i][k], FieldLengths(Fields[i][k], ScalarLengths(Fields[i][k], OffsetAtEnd)))
              = RunBits(Fields[i][k], MaxBits)
         /\ IsComposite(Fields[i][k]) => /\ IsSealed[Fields[i][k].ref]
                                         /\ FixedBits[Fields[i][k].ref] = MaxBits[Fields[i][k].ref]
                                         /\ FixedBits[Fields[i][k].ref] # Unknown
         /\ RunBits(Fields[i][k], MaxBits) \in FieldLengths(Fields[i][k], ScalarLengths(Fields[i][k], OffsetAtEnd))
<1> DEFINE f == Fields[i][k]
           one == ScalarLengths(f, OffsetAtEnd)
<1>1. k \in DOMAIN Fields[i]
  BY Definitions
<1>2. IsField(f) /\ (IsComposite(f) => f.ref \in TypeIds)
  BY <1>1, FieldsAre
<1>3. f.array # "variable" /\ (IsComposite(f) => WireFlat[f.ref])
  BY FlatIs
<1>4. /\ RunBits(f, MaxBits) = WidthOf(f) * CountOf(f)
      /\ WidthOf(f) \in Nat /\ CountOf(f) \in Nat
  BY <1>1, RunBitsAre
<1>5. IsComposite(f) => /\ IsSealed[f.ref] /\ FixedBits[f.ref] = MaxBits[f.ref] /\ FixedBits[f.ref] # Unknown
                        /\ OffsetAtEnd[f.ref] = {MaxBits[f.ref]}
  BY <1>2, <1>3, FlatIs
<1>6. one = {WidthOf(f)}
  BY <1>5 DEF ScalarLengths, WidthOf
<1> HIDE DEF one, f
<1>7. FieldLengths(f, one) = {RunBits(f, MaxBits)}
  <2>1. CASE f.array = "none"
    <3>1. FieldLengths(f, one) = one /\ CountOf(f) = 1
      BY <2>1 DEF FieldLengths, CountOf, IsArray
    <3>2. RunBits(f, MaxBits) = WidthOf(f)
      BY <1>4, <3>1
    <3> QED BY <1>6, <3>1, <3>2
  <2>2. CASE f.array = "fixed"
    <3>1. FieldLengths(f, one) = Repeated(one, f.cap) /\ CountOf(f) = f.cap
      BY <2>2 DEF FieldLengths, CountOf, IsArray
    <3> QED BY <1>4, <1>6, <3>1, RepeatedOne
  <2> QED BY <1>2, <1>3, <2>1, <2>2 DEF IsField
<1>8. LeastOf(FieldLengths(f, one)) = RunBits(f, MaxBits)
  <2>1. RunBits(f, MaxBits) \in Nat
    BY <1>1, RunBitsAre DEF f
  <2> QED BY <1>7, <2>1, LeastOfOne
<1>9. ~IsComposite(f) => f.bits * (IF IsArray(f) THEN f.cap ELSE 1) = RunBits(f, MaxBits)
  BY DEF RunBits
<1>10. StepWidth(f, FieldLengths(f, one)) = RunBits(f, MaxBits)
  BY <1>8, <1>9 DEF StepWidth
<1>11. RunBits(f, MaxBits) \in FieldLengths(f, one)
  BY <1>7
<1> QED BY <1>5, <1>10, <1>11 DEF f, one

(* The fields of a flat plan, one right after the other: numbers that      *)
(* start at none, and stay on a byte but for padding in between.           *)
LEMMA FlatRuns ==
  ASSUME NEW i \in TypeIds, WireFlat[i], \A j \in TypeIds : Accepted(j)
  PROVE  /\ RunBefore(Fields[i], MaxBits, 1) = 0
         /\ \A n \in 0 .. Len(Fields[i]) : RunBefore(Fields[i], MaxBits, n + 1) \in Nat
         /\ \A k \in 1 .. Len(Fields[i]) :
               /\ RunBefore(Fields[i], MaxBits, k) \in Nat
               /\ RunBits(Fields[i][k], MaxBits) \in Nat
               /\ RunBefore(Fields[i], MaxBits, k + 1)
                     = RunBefore(Fields[i], MaxBits, k) + RunBits(Fields[i][k], MaxBits)
               /\ PadTo(RunBefore(Fields[i], MaxBits, k), AlignmentOf(Fields[i][k]))
                     = RunBefore(Fields[i], MaxBits, k)
<1> DEFINE N == Len(Fields[i])
           run(n) == RunBefore(Fields[i], MaxBits, n + 1)
           K == {n \in Nat : n <= N => run(n) \in Nat}
<1>1. N \in Nat /\ DOMAIN Fields[i] = 1 .. N
  BY Definitions
<1>2. run(0) = 0 /\ \A k \in 1 .. N : run(k) = run(k - 1) + RunBits(Fields[i][k], MaxBits)
  BY <1>1, RunBeforeIs
<1>3. \A k \in 1 .. N : RunBits(Fields[i][k], MaxBits) \in Nat
  BY <1>1, RunBitsAre
<1> HIDE DEF run
<1>4. 0 \in K
  BY <1>2
<1>5. ASSUME NEW n \in Nat, n \in K PROVE n + 1 \in K
  <2>1. n + 1 <= N => n + 1 \in 1 .. N /\ (n + 1) - 1 = n
    OBVIOUS
  <2> QED BY <1>2, <1>3, <1>5, <2>1
<1> HIDE DEF K
<1>6. \A n \in Nat : n \in K
  BY <1>4, <1>5, Induction
<1>7. \A n \in 0 .. N : run(n) \in Nat
  BY <1>1, <1>6 DEF K
<1>8. ASSUME NEW k \in 1 .. N
      PROVE  PadTo(run(k - 1), AlignmentOf(Fields[i][k])) = run(k - 1)
  <2>1. run(k - 1) \in Nat
    BY <1>1, <1>7
  <2>2. CASE IsComposite(Fields[i][k])
    <3>1. AlignmentOf(Fields[i][k]) = ByteBits
      BY <2>2 DEF AlignmentOf
    <3>2. RunBefore(Fields[i], MaxBits, k) % ByteBits = 0
      BY <2>2, FlatIs DEF IsComposite
    <3>3. run(k - 1) = RunBefore(Fields[i], MaxBits, k)
      BY DEF run
    <3> QED BY <2>1, <3>1, <3>2, <3>3 DEF PadTo, ByteBits
  <2>3. CASE ~IsComposite(Fields[i][k])
    <3>1. AlignmentOf(Fields[i][k]) = 1
      BY <2>3 DEF AlignmentOf
    <3> QED BY <2>1, <3>1 DEF PadTo
  <2> QED BY <2>2, <2>3
<1>9. RunBefore(Fields[i], MaxBits, 1) = 0 /\ \A n \in 0 .. N : RunBefore(Fields[i], MaxBits, n + 1) \in Nat
  <2>1. RunBefore(Fields[i], MaxBits, 1) = run(0)
    BY DEF run
  <2>2. \A n \in 0 .. N : run(n) = RunBefore(Fields[i], MaxBits, n + 1)
    BY DEF run
  <2> QED BY <1>2, <1>7, <2>1, <2>2
<1>10. ASSUME NEW k \in 1 .. N
       PROVE  /\ RunBefore(Fields[i], MaxBits, k) = run(k - 1)
              /\ RunBefore(Fields[i], MaxBits, k + 1) = run(k)
              /\ k - 1 \in 0 .. N
  <2>1. k \in Nat /\ (k - 1) + 1 = k /\ k - 1 \in 0 .. N
    BY <1>1
  <2> QED BY <2>1 DEF run
<1>11. ASSUME NEW k \in 1 .. N
       PROVE  /\ RunBefore(Fields[i], MaxBits, k) \in Nat
              /\ RunBits(Fields[i][k], MaxBits) \in Nat
              /\ RunBefore(Fields[i], MaxBits, k + 1)
                    = RunBefore(Fields[i], MaxBits, k) + RunBits(Fields[i][k], MaxBits)
              /\ PadTo(RunBefore(Fields[i], MaxBits, k), AlignmentOf(Fields[i][k]))
                    = RunBefore(Fields[i], MaxBits, k)
  BY <1>2, <1>3, <1>7, <1>8, <1>10
<1> QED BY <1>9, <1>11

(* One of the lengths of a flat section, and so the only one, is that of   *)
(* its fields one right after the other.                                   *)
LEMMA FlatRunIsLength ==
  ASSUME NEW i \in TypeIds, WireFlat[i], \A j \in TypeIds : Accepted(j)
  PROVE  MaxBits[i] = RunBefore(Fields[i], MaxBits, Len(Fields[i]) + 1)
<1> DEFINE fields == Fields[i]
           N == Len(fields)
           run(n) == RunBefore(Fields[i], MaxBits, n + 1)
           lengths == [k \in DOMAIN Fields[i] |->
                         FieldLengths(Fields[i][k], ScalarLengths(Fields[i][k], OffsetAtEnd))]
<1>1. N \in Nat /\ DOMAIN fields = 1 .. N /\ Types[i].fields = fields
  BY Definitions
<1>2. OffsetAtEnd[i] = SectionLengths(Types[i], lengths)
  BY LengthsUnfold
<1>3. ASSUME NEW k \in 1 .. N
      PROVE  IsLengths(lengths[k]) /\ RunBits(fields[k], MaxBits) \in lengths[k]
  <2>1. k \in DOMAIN Fields[i] /\ (IsComposite(fields[k]) => IsLengths(OffsetAtEnd[fields[k].ref]))
    BY <1>1, FieldsAre, OffsetAtEndIsLengths
  <2>2. IsLengths(lengths[k])
    BY <2>1, ScalarIsLengths, FieldIsLengths
  <2> QED BY <2>1, <2>2, StepsOfFlat
<1> HIDE DEF lengths
<1>4. PICK after : /\ AfterUpTo(fields, lengths, N, after)
                   /\ SectionLengths(Types[i], lengths)
                        = PaddedTo(ContentLengths(Types[i], lengths, after), ByteBits)
  BY <1>1, <1>3, SectionIs
<1>5. \A k \in 1 .. N : /\ run(k) = run(k - 1) + RunBits(fields[k], MaxBits)
                        /\ PadTo(run(k - 1), AlignmentOf(fields[k])) = run(k - 1)
  BY <1>1, FlatRuns
<1>6. run(0) = 0 /\ run(N) \in Nat /\ run(N) % ByteBits = 0
  BY <1>1, FlatRuns, FlatIs
<1> HIDE DEF run, fields, N
<1>7. run(N) \in after[N]
  <2> DEFINE K == {n \in Nat : n <= N => run(n) \in after[n]}
  <2>1. 0 \in K
    <3>1. after[0] = {0}
      BY <1>1, <1>4 DEF AfterUpTo
    <3> QED BY <1>6, <3>1
  <2>2. ASSUME NEW n \in Nat, n \in K PROVE n + 1 \in K
    <3> SUFFICES ASSUME n + 1 <= N PROVE run(n + 1) \in after[n + 1]
      OBVIOUS
    <3>1. n + 1 \in 1 .. N /\ (n + 1) - 1 = n /\ n + 1 \in 0 .. N /\ n + 1 # 0
      BY <1>1
    <3>2. run(n) \in after[n]
      BY <1>1, <2>2
    <3>3. run(n) \in PaddedTo(after[n], AlignmentOf(fields[n + 1]))
      BY <1>5, <3>1, <3>2 DEF PaddedTo
    <3>4. after[n + 1] = SumOf(PaddedTo(after[n], AlignmentOf(fields[n + 1])), lengths[n + 1])
      BY <1>4, <3>1 DEF AfterUpTo
    <3>5. run(n + 1) = run(n) + RunBits(fields[n + 1], MaxBits) /\ RunBits(fields[n + 1], MaxBits) \in lengths[n + 1]
      BY <1>3, <1>5, <3>1
    <3> QED BY <3>3, <3>4, <3>5 DEF SumOf
  <2> HIDE DEF K
  <2>3. N \in K
    BY <1>1, <2>1, <2>2, Induction
  <2> QED BY <1>1, <2>3 DEF K
<1>8. ContentLengths(Types[i], lengths, after) = after[N]
  BY <1>1, FlatIs DEF ContentLengths, fields, N
<1>9. PadTo(run(N), ByteBits) = run(N)
  BY <1>6 DEF PadTo, ByteBits
<1>10. run(N) \in OffsetAtEnd[i]
  BY <1>2, <1>4, <1>7, <1>8, <1>9 DEF PaddedTo
<1>11. run(N) = RunBefore(Fields[i], MaxBits, Len(Fields[i]) + 1)
  BY DEF run, N, fields
<1> QED BY <1>10, <1>11, FlatIs

(* A flat plan has a named field, and a named field takes some of the wire.*)
LEMMA NamedTakes ==
  ASSUME NEW i \in TypeIds, WireFlat[i], \A j \in TypeIds : Accepted(j),
         \A j \in TypeIds : j < i /\ WireFlat[j] => MaxBits[j] > 0,
         NEW k \in 1 .. Len(Fields[i]), Fields[i][k].cat # "void"
  PROVE  RunBits(Fields[i][k], MaxBits) > 0 /\ RunBits(Fields[i][k], MaxBits) % ByteBits = 0
<1> DEFINE f == Fields[i][k]
<1>1. k \in DOMAIN Fields[i]
  BY Definitions
<1>2. IsComposite(f) => f.ref \in TypeIds /\ f.ref < i /\ WireFlat[f.ref]
  BY <1>1, FieldsAre, FlatIs
<1>3. /\ RunBits(f, MaxBits) = WidthOf(f) * CountOf(f)
      /\ WidthOf(f) \in Nat /\ CountOf(f) \in Nat
  BY <1>1, RunBitsAre
<1>4. ~IsComposite(f) => f.bits > 0 /\ RunBits(f, MaxBits) % ByteBits = 0
  BY FlatIs
<1>5. IsComposite(f) => MaxBits[f.ref] \in Nat /\ MaxBits[f.ref] > 0 /\ MaxBits[f.ref] % ByteBits = 0
  BY <1>2, LengthsAreWholeBytes
<1>6. CountOf(f) > 0
  <2>1. IsArray(f) => f.cap >= 1
    BY FlatIs
  <2> QED BY <1>3, <2>1 DEF CountOf
<1> HIDE DEF f
<1>7. WidthOf(f) > 0 /\ (IsComposite(f) => WidthOf(f) % ByteBits = 0)
  BY <1>4, <1>5 DEF WidthOf
<1>8. WidthOf(f) * CountOf(f) > 0
  BY <1>3, <1>6, <1>7
<1>9. ASSUME IsComposite(f) PROVE RunBits(f, MaxBits) % ByteBits = 0
  <2>1. PICK w \in Nat : WidthOf(f) = ByteBits * w
    BY <1>3, <1>7, <1>9 DEF ByteBits
  <2>2. RunBits(f, MaxBits) = ByteBits * (w * CountOf(f)) /\ w * CountOf(f) \in Nat
    BY <1>3, <2>1 DEF ByteBits
  <2> QED BY <2>2 DEF ByteBits
<1> QED BY <1>3, <1>4, <1>8, <1>9 DEF f

LEMMA RunsGrow ==
  ASSUME NEW i \in TypeIds, WireFlat[i], \A j \in TypeIds : Accepted(j),
         NEW k \in 1 .. Len(Fields[i])
  PROVE  RunBefore(Fields[i], MaxBits, k + 1) <= RunBefore(Fields[i], MaxBits, Len(Fields[i]) + 1)
<1> DEFINE N == Len(Fields[i])
           run(n) == RunBefore(Fields[i], MaxBits, n + 1)
           K == {n \in Nat : k + n <= N => run(k) <= run(k + n)}
<1>1. N \in Nat /\ k \in 1 .. N
  BY Definitions
<1>2. \A n \in 1 .. N : /\ run(n - 1) \in Nat /\ run(n) \in Nat
                        /\ RunBits(Fields[i][n], MaxBits) \in Nat
                        /\ run(n) = run(n - 1) + RunBits(Fields[i][n], MaxBits)
  <2>1. ASSUME NEW n \in 1 .. N PROVE (n - 1) + 1 = n /\ n \in 0 .. N
    BY <1>1
  <2> QED BY <2>1, FlatRuns
<1>3. run(k) = RunBefore(Fields[i], MaxBits, k + 1) /\ run(N) = RunBefore(Fields[i], MaxBits, N + 1)
  OBVIOUS
<1> HIDE DEF run
<1>4. 0 \in K
  BY <1>1, <1>2
<1>5. ASSUME NEW n \in Nat, n \in K PROVE n + 1 \in K
  <2> SUFFICES ASSUME k + (n + 1) <= N PROVE run(k) <= run(k + (n + 1))
    OBVIOUS
  <2>1. k + (n + 1) \in 1 .. N /\ (k + (n + 1)) - 1 = k + n /\ k + n <= N
    BY <1>1
  <2>2. run(k) <= run(k + n)
    BY <1>5, <2>1
  <2> QED BY <1>1, <1>2, <2>1, <2>2
<1> HIDE DEF K, N
<1>6. N - k \in K
  BY <1>1, <1>4, <1>5, Induction
<1>7. run(k) <= run(k + (N - k))
  BY <1>1, <1>6 DEF K
<1>8. k + (N - k) = N
  BY <1>1
<1> QED BY <1>3, <1>7, <1>8 DEF N

LEMMA FlatsTakeSome ==
  ASSUME \A j \in TypeIds : Accepted(j)
  PROVE  \A j \in TypeIds : WireFlat[j] => MaxBits[j] > 0
<1> DEFINE N == {m \in Nat : \A j \in TypeIds : j <= m /\ WireFlat[j] => MaxBits[j] > 0}
<1>0. TypeIds = 1 .. Len(Types) /\ Len(Types) \in Nat
  BY LayoutConstants DEF TypeIds, IsSequence
<1>1. 0 \in N
  BY <1>0
<1>2. ASSUME NEW m \in Nat, m \in N PROVE m + 1 \in N
  <2> SUFFICES ASSUME NEW j \in TypeIds, j = m + 1, WireFlat[j] PROVE MaxBits[j] > 0
    BY <1>0, <1>2
  <2>1. \A h \in TypeIds : h < j /\ WireFlat[h] => MaxBits[h] > 0
    BY <1>0, <1>2
  <2>2. PICK k \in 1 .. Len(Fields[j]) : Fields[j][k].cat # "void"
    BY FlatIs
  <2>3. RunBits(Fields[j][k], MaxBits) > 0
    BY <2>1, <2>2, NamedTakes
  <2>4. /\ RunBefore(Fields[j], MaxBits, k) \in Nat
        /\ RunBits(Fields[j][k], MaxBits) \in Nat
        /\ RunBefore(Fields[j], MaxBits, k + 1)
              = RunBefore(Fields[j], MaxBits, k) + RunBits(Fields[j][k], MaxBits)
    BY FlatRuns
  <2>5. RunBefore(Fields[j], MaxBits, k + 1) > 0
    BY <2>3, <2>4
  <2>6. /\ RunBefore(Fields[j], MaxBits, k + 1) <= MaxBits[j]
        /\ MaxBits[j] \in Nat
    BY RunsGrow, FlatRunIsLength, FixedBitsAre
  <2> QED BY <2>4, <2>5, <2>6
<1> HIDE DEF N
<1>3. Len(Types) \in N
  BY <1>0, <1>1, <1>2, Induction
<1> QED BY <1>0, <1>3 DEF N

(* The lowering's sum over the steps is the analyser's over the fields.    *)
WidthsFrom(i, ends) ==
    ends = [n \in 0 .. Len(Fields[i]) |->
              IF n = 0 THEN 0
              ELSE ends[n - 1]
                     + StepWidth(Fields[i][n],
                                 FieldLengths(Fields[i][n], ScalarLengths(Fields[i][n], OffsetAtEnd)))]

LEMMA WidthsAreRuns ==
  ASSUME NEW i \in TypeIds, WireFlat[i], \A j \in TypeIds : Accepted(j)
  PROVE  \A n \in 0 .. Len(Fields[i]) :
           WidthsUpTo(Fields[i], OffsetAtEnd)[n] = RunBefore(Fields[i], MaxBits, n + 1)
<1> DEFINE N == Len(Fields[i])
           width(n) == StepWidth(Fields[i][n],
                                 FieldLengths(Fields[i][n], ScalarLengths(Fields[i][n], OffsetAtEnd)))
           run == [n \in 0 .. N |-> RunBefore(Fields[i], MaxBits, n + 1)]
           ends == CHOOSE g : WidthsFrom(i, g)
<1>1. N \in Nat
  BY Definitions
<1>2. run[0] = 0 /\ \A n \in 1 .. N : run[n] = run[n - 1] + width(n)
  <2>1. ASSUME NEW n \in 1 .. N PROVE (n - 1) + 1 = n /\ n \in 0 .. N /\ n - 1 \in 0 .. N
    BY <1>1
  <2>2. 0 \in 0 .. N /\ 0 + 1 = 1
    BY <1>1
  <2>3. run[0] = RunBefore(Fields[i], MaxBits, 1)
    BY <2>2
  <2>4. ASSUME NEW n \in 1 .. N
        PROVE  /\ run[n] = RunBefore(Fields[i], MaxBits, n + 1)
               /\ run[n - 1] = RunBefore(Fields[i], MaxBits, n)
    BY <2>1
  <2> HIDE DEF run
  <2> QED BY <2>3, <2>4, FlatRuns, StepsOfFlat
<1>3. run = [n \in 0 .. N |-> run[n]]
  OBVIOUS
<1>4. ASSUME NEW n \in 0 .. N PROVE run[n] = IF n = 0 THEN 0 ELSE run[n - 1] + width(n)
  <2>1. n # 0 => n \in 1 .. N
    BY <1>1
  <2> HIDE DEF run, width
  <2> QED BY <1>2, <2>1
<1>5. WidthsFrom(i, run)
  <2> HIDE DEF run
  <2> QED BY <1>3, <1>4, Zenon DEF WidthsFrom
<1>6. WidthsFrom(i, ends)
  <2> HIDE DEF run
  <2> QED BY <1>5, Zenon
<1>7. WidthsUpTo(Fields[i], OffsetAtEnd) = ends
  BY Zenon DEF WidthsUpTo, WidthsFrom
<1> HIDE DEF ends
<1>8. ends[0] = 0 /\ \A n \in 1 .. N : ends[n] = ends[n - 1] + width(n)
  <2>1. 0 \in 0 .. N /\ \A n \in 1 .. N : n \in 0 .. N /\ n # 0
    BY <1>1
  <2> QED BY <1>6, <2>1 DEF WidthsFrom
<1>9. \A n \in 0 .. N : ends[n] = run[n]
  <2> DEFINE K == {n \in Nat : n <= N => ends[n] = run[n]}
  <2> HIDE DEF run, width
  <2>1. 0 \in K
    BY <1>2, <1>8
  <2>2. ASSUME NEW n \in Nat, n \in K PROVE n + 1 \in K
    <3>1. n + 1 <= N => n + 1 \in 1 .. N /\ (n + 1) - 1 = n
      BY <1>1
    <3> QED BY <1>2, <1>8, <2>2, <3>1
  <2> HIDE DEF K
  <2>3. \A n \in Nat : n \in K
    BY <2>1, <2>2, Induction
  <2> QED BY <1>1, <2>3 DEF K
<1> QED BY <1>7, <1>9

FixedWidth(f) == IF IsComposite(f) THEN FixedBits[f.ref] ELSE f.bits

EndAfter(at, f) == PadTo(at, AlignmentOf(f)) + FixedWidth(f) * (IF IsArray(f) THEN f.cap ELSE 1)

EndsUpTo(i, ends) ==
    ends = [n \in 0 .. Len(Fields[i]) |-> IF n = 0 THEN 0 ELSE EndAfter(ends[n - 1], Fields[i][n])]

(* The getters' walk over the steps ends where the analyser's sum does.    *)
LEMMA FlatOffsetIs ==
  ASSUME NEW i \in TypeIds, WireFlat[i], \A j \in TypeIds : Accepted(j)
  PROVE  \A k \in 1 .. Len(Fields[i]) : FixedFieldOffset(i, k) = RunBefore(Fields[i], MaxBits, k)
<1> DEFINE N == Len(Fields[i])
           run == [n \in 0 .. N |-> RunBefore(Fields[i], MaxBits, n + 1)]
           ends == CHOOSE g : EndsUpTo(i, g)
<1>1. N \in Nat /\ DOMAIN Fields[i] = 1 .. N
  BY Definitions
<1>2. \A n \in 1 .. N : /\ run[n] = RunBefore(Fields[i], MaxBits, n + 1)
                        /\ run[n - 1] = RunBefore(Fields[i], MaxBits, n)
  <2>1. ASSUME NEW n \in 1 .. N PROVE (n - 1) + 1 = n /\ n \in 0 .. N /\ n - 1 \in 0 .. N
    BY <1>1
  <2> QED BY <2>1
<1>3. run[0] = 0
  <2>1. 0 \in 0 .. N /\ 0 + 1 = 1
    BY <1>1
  <2>2. run[0] = RunBefore(Fields[i], MaxBits, 1)
    BY <2>1
  <2> QED BY <2>2, FlatRuns
<1>4. ASSUME NEW n \in 1 .. N
      PROVE  /\ run[n] = EndAfter(run[n - 1], Fields[i][n])
             /\ PadTo(run[n - 1], AlignmentOf(Fields[i][n])) = run[n - 1]
  <2> DEFINE f == Fields[i][n]
  <2>1. /\ run[n] = run[n - 1] + RunBits(f, MaxBits)
        /\ PadTo(run[n - 1], AlignmentOf(f)) = run[n - 1]
    <3> HIDE DEF run
    <3> QED BY <1>2, FlatRuns
  <2>2. IsComposite(f) => FixedBits[f.ref] = MaxBits[f.ref]
    BY StepsOfFlat
  <2> HIDE DEF f, run
  <2>3. RunBits(f, MaxBits) = FixedWidth(f) * (IF IsArray(f) THEN f.cap ELSE 1)
    BY <2>2 DEF RunBits, FixedWidth
  <2>4. run[n] = EndAfter(run[n - 1], f)
    BY <2>1, <2>3 DEF EndAfter
  <2> QED BY <2>1, <2>4 DEF f
<1>5. ASSUME NEW n \in 0 .. N
      PROVE  run[n] = IF n = 0 THEN 0 ELSE EndAfter(run[n - 1], Fields[i][n])
  <2>1. n # 0 => n \in 1 .. N
    BY <1>1
  <2> HIDE DEF run
  <2> QED BY <1>3, <1>4, <2>1
<1>6. run = [n \in 0 .. N |-> run[n]]
  OBVIOUS
<1>7. EndsUpTo(i, run)
  <2> HIDE DEF run
  <2> QED BY <1>5, <1>6, Zenon DEF EndsUpTo
<1>8. EndsUpTo(i, ends)
  <2> HIDE DEF run
  <2> QED BY <1>7, Zenon
<1>9. ASSUME NEW k \in 1 .. N
      PROVE  FixedFieldOffset(i, k) = PadTo(ends[k - 1], AlignmentOf(Fields[i][k]))
  BY Zenon DEF FixedFieldOffset, EndsUpTo, EndAfter, FixedWidth
<1> HIDE DEF ends
<1>10. ends[0] = 0 /\ \A n \in 1 .. N : ends[n] = EndAfter(ends[n - 1], Fields[i][n])
  <2>1. 0 \in 0 .. N /\ \A n \in 1 .. N : n \in 0 .. N /\ n # 0
    BY <1>1
  <2> QED BY <1>8, <2>1 DEF EndsUpTo
<1>11. \A n \in 0 .. N : ends[n] = run[n]
  <2> DEFINE K == {n \in Nat : n <= N => ends[n] = run[n]}
  <2> HIDE DEF run
  <2>1. 0 \in K
    BY <1>3, <1>10
  <2>2. ASSUME NEW n \in Nat, n \in K PROVE n + 1 \in K
    <3>1. n + 1 <= N => n + 1 \in 1 .. N /\ (n + 1) - 1 = n
      BY <1>1
    <3> QED BY <1>4, <1>10, <2>2, <3>1
  <2> HIDE DEF K
  <2>3. \A n \in Nat : n \in K
    BY <2>1, <2>2, Induction
  <2> QED BY <1>1, <2>3 DEF K
<1>12. \A k \in 1 .. N : k - 1 \in 0 .. N
  BY <1>1
<1> HIDE DEF run
<1> QED BY <1>2, <1>4, <1>9, <1>11, <1>12

(* computeWireFlat and the lowering never disagree: what the analyser says *)
(* is one image of bytes on the wire, verifyPlan derives to be one from    *)
(* the steps and fixedFieldOffsets gives every field a place, on a byte.   *)
THEOREM FlatsAreVerified ==
  ASSUME \A j \in TypeIds : Accepted(j), NEW i \in TypeIds, WireFlat[i]
  PROVE  /\ VerifiedFlat(i)
         /\ HasFixedOffsets(i)
         /\ \A k \in DOMAIN Fields[i] :
               Fields[i][k].cat # "void" => FixedFieldOffset(i, k) % ByteBits = 0
<1> DEFINE N == Len(Fields[i])
           ends == WidthsUpTo(Fields[i], OffsetAtEnd)
<1>1. /\ N \in Nat /\ DOMAIN Fields[i] = 1 .. N /\ Types[i].fields = Fields[i]
  BY Definitions
<1>2. \A j \in TypeIds : j < i /\ WireFlat[j] => MaxBits[j] > 0
  BY FlatsTakeSome
<1>3. \A k \in 1 .. N : /\ ends[k] = RunBefore(Fields[i], MaxBits, k + 1)
                        /\ ends[k - 1] = RunBefore(Fields[i], MaxBits, k)
  <2>1. ASSUME NEW k \in 1 .. N PROVE (k - 1) + 1 = k /\ k \in 0 .. N /\ k - 1 \in 0 .. N
    BY <1>1
  <2> QED BY <2>1, WidthsAreRuns
<1>4. ends[N] = RunBefore(Fields[i], MaxBits, N + 1)
  <2>1. N \in 0 .. N
    BY <1>1
  <2> QED BY <2>1, WidthsAreRuns
<1> HIDE DEF ends
<1>5. ASSUME NEW k \in 1 .. N, Fields[i][k].cat # "void"
      PROVE  /\ ends[k - 1] % ByteBits = 0
             /\ ends[k] > ends[k - 1] /\ (ends[k] - ends[k - 1]) % ByteBits = 0
  <2>1. ends[k - 1] \in Nat /\ ends[k] = ends[k - 1] + RunBits(Fields[i][k], MaxBits)
    BY <1>3, FlatRuns
  <2>2. /\ RunBits(Fields[i][k], MaxBits) > 0 /\ RunBits(Fields[i][k], MaxBits) % ByteBits = 0
        /\ RunBits(Fields[i][k], MaxBits) \in Nat
    BY <1>2, <1>5, NamedTakes, FlatRuns
  <2>3. ends[k] - ends[k - 1] = RunBits(Fields[i][k], MaxBits) /\ ends[k] > ends[k - 1]
    BY <2>1, <2>2
  <2>4. ends[k - 1] % ByteBits = 0
    BY <1>3, <1>5, FlatIs
  <2> QED BY <2>2, <2>3, <2>4
<1>6. FlatByItsSteps(Fields[i], ends, WireFlat)
  <2>1. ends[N] % ByteBits = 0 /\ \E k \in 1 .. N : Fields[i][k].cat # "void"
    BY <1>4, FlatIs
  <2>2. \A k \in 1 .. N : /\ Fields[i][k].array # "variable"
                          /\ IsComposite(Fields[i][k]) => WireFlat[Fields[i][k].ref]
    BY FlatIs
  <2> QED BY <1>1, <1>5, <2>1, <2>2, Zenon DEF FlatByItsSteps
<1>7. FixedBits[i] = ends[N] /\ Types[i].sealed /\ ~Types[i].union /\ IsSealed[i] /\ ~IsUnion[i]
  BY <1>4, FlatIs, FlatRunIsLength
<1>8. VerifiedFlat(i)
  BY <1>1, <1>6, <1>7, Zenon DEF VerifiedFlat, FlatVerified, ends
<1>9. HasFixedOffsets(i)
  BY <1>1, <1>7, FlatIs, StepsOfFlat DEF HasFixedOffsets
<1>10. \A k \in 1 .. N : Fields[i][k].cat # "void" => FixedFieldOffset(i, k) % ByteBits = 0
  BY FlatOffsetIs, FlatIs
<1> QED BY <1>1, <1>8, <1>9, <1>10

-----------------------------------------------------------------------------
(* Host images.                                                            *)

ElementsFrom(i, images) == [k \in DOMAIN Fields[i] |-> ElementImage(Fields[i][k], images)]

ImageFrom(i, images) == ImageOf(Fields[i], WireFlat[i], ElementsFrom(i, images))

ImagesFrom(images) == images = [i \in TypeIds |-> ImageFrom(i, images)]

LEMMA ImageOfEarlier ==
  ASSUME NEW i \in TypeIds, NEW images, NEW more, \A j \in TypeIds : j < i => images[j] = more[j]
  PROVE  ImageFrom(i, images) = ImageFrom(i, more)
<1>1. \A k \in DOMAIN Fields[i] :
        ElementImage(Fields[i][k], images) = ElementImage(Fields[i][k], more)
  BY FieldsAre DEF ElementImage
<1>2. ElementsFrom(i, images) = ElementsFrom(i, more)
  BY <1>1, Zenon DEF ElementsFrom
<1> QED BY <1>2, Zenon DEF ImageFrom

LEMMA ImagesExist == \E images : ImagesFrom(images)
<1> DEFINE IsTo(m, f) == /\ DOMAIN f = TypeIds
                         /\ f = [j \in TypeIds |-> f[j]]
                         /\ \A i \in TypeIds : i <= m => f[i] = ImageFrom(i, f)
           N == {m \in Nat : \E f : IsTo(m, f)}
<1>0. TypeIds = 1 .. Len(Types) /\ Len(Types) \in Nat
  BY LayoutConstants DEF TypeIds, IsSequence
<1>1. 0 \in N
  <2>1. IsTo(0, [i \in TypeIds |-> {}])
    BY <1>0
  <2> QED BY <2>1
<1>2. ASSUME NEW m \in Nat, m \in N PROVE m + 1 \in N
  <2>1. PICK f : IsTo(m, f)
    BY <1>2
  <2> DEFINE more == [i \in TypeIds |-> IF i = m + 1 THEN ImageFrom(m + 1, f) ELSE f[i]]
  <2>2. ASSUME NEW i \in TypeIds, i <= m + 1 PROVE more[i] = ImageFrom(i, more)
    <3>1. \A j \in TypeIds : j < i => f[j] = more[j]
      BY <1>0, <2>2
    <3>2. ImageFrom(i, more) = ImageFrom(i, f)
      <4> HIDE DEF more
      <4> QED BY <3>1, ImageOfEarlier
    <3>3. i # m + 1 => i <= m
      BY <1>0, <2>2
    <3>4. CASE i = m + 1
      <4>1. more[i] = ImageFrom(m + 1, f)
        BY <3>4
      <4> QED BY <3>2, <3>4, <4>1, Zenon
    <3>5. CASE i # m + 1
      <4>1. more[i] = f[i]
        BY <3>5
      <4>2. f[i] = ImageFrom(i, f)
        BY <2>1, <3>3, <3>5
      <4> QED BY <3>2, <4>1, <4>2, Zenon
    <3> QED BY <3>4, <3>5
  <2>3. DOMAIN more = TypeIds /\ more = [j \in TypeIds |-> more[j]]
    OBVIOUS
  <2> HIDE DEF more
  <2>4. IsTo(m + 1, more)
    BY <2>2, <2>3
  <2> QED BY <2>4
<1> HIDE DEF N
<1>3. Len(Types) \in N
  BY <1>0, <1>1, <1>2, Induction
<1>4. PICK f : IsTo(Len(Types), f)
  BY <1>3 DEF N
<1>5. ASSUME NEW i \in TypeIds PROVE f[i] = ImageFrom(i, f)
  <2>1. i <= Len(Types)
    BY <1>0
  <2> QED BY <1>4, <2>1
<1>6. [j \in TypeIds |-> f[j]] = [j \in TypeIds |-> ImageFrom(j, f)]
  BY <1>5, Zenon
<1>7. ImagesFrom(f)
  BY <1>4, <1>6, Zenon DEF ImagesFrom
<1> QED BY <1>7

LEMMA HostImageIs ==
  ASSUME NEW i \in TypeIds
  PROVE  HostImage[i] = ImageFrom(i, HostImage)
<1> DEFINE image == CHOOSE f : ImagesFrom(f)
<1>1. ImagesFrom(image)
  BY ImagesExist, Zenon
<1>2. HostImage = [j \in TypeIds |-> image[j]]
  BY Zenon DEF HostImage, ImagesFrom, ImageFrom, ElementsFrom
<1> HIDE DEF image
<1>3. \A j \in TypeIds : HostImage[j] = image[j]
  BY <1>2
<1>4. ImageFrom(i, image) = ImageFrom(i, HostImage)
  BY <1>3, ImageOfEarlier
<1>5. image[i] = ImageFrom(i, image)
  BY <1>1, Zenon DEF ImagesFrom
<1> QED BY <1>3, <1>4, <1>5, Zenon

(* The images of members so far, and of whole definitions.                 *)
AnImage == {r \in [holds : BOOLEAN, size : Nat, align : Nat] : r.holds => r.align \in {1, 2, 4, 8}}

LEMMA ScalarImageIs ==
  ASSUME NEW f, f.bits \in 0 .. 64
  PROVE  /\ ScalarImage(f) \in AnImage
         /\ ScalarImage(f).holds => /\ f.bits \in {8, 16, 32, 64} /\ HeldIn(f.bits) = f.bits
                                    /\ 8 * ScalarImage(f).size = f.bits
<1>1. PICK b \in 0 .. 64 : b = f.bits
  OBVIOUS
<1>2. HeldIn(b) \in {8, 16, 32, 64}
  BY HeldInIs
<1>3. ScalarImage(f) = [holds |-> HeldIn(b) = b, size |-> b \div 8, align |-> b \div 8]
  BY <1>1 DEF ScalarImage, ByteBits
<1>4. b \div 8 \in Nat /\ (b \in {8, 16, 32, 64} => b \div 8 \in {1, 2, 4, 8} /\ 8 * (b \div 8) = b)
  OBVIOUS
<1>5. HeldIn(b) = b => b \in {8, 16, 32, 64}
  BY <1>2
<1> DEFINE holds == HeldIn(b) = b
           size == b \div 8
<1>6. ScalarImage(f) = [holds |-> holds, size |-> size, align |-> size]
  BY <1>3
<1>7. /\ holds \in BOOLEAN /\ size \in Nat
      /\ holds => b \in {8, 16, 32, 64} /\ size \in {1, 2, 4, 8} /\ 8 * size = b /\ HeldIn(b) = b
  BY <1>4, <1>5
<1> HIDE DEF holds, size
<1>8. CASE holds
  <2>1. holds = TRUE
    BY <1>8, <1>7
  <2>2. ScalarImage(f) = [holds |-> TRUE, size |-> size, align |-> size]
    BY <1>6, <2>1, Zenon
  <2> QED BY <1>1, <1>7, <1>8, <2>2 DEF AnImage
<1>9. CASE ~ holds
  <2>1. holds = FALSE
    BY <1>9, <1>7
  <2>2. ScalarImage(f) = [holds |-> FALSE, size |-> size, align |-> size]
    BY <1>6, <2>1, Zenon
  <2> QED BY <1>7, <2>2 DEF AnImage
<1> QED BY <1>8, <1>9

Larger(a, b) == IF a > b THEN a ELSE b

Goes(more, at, f, element) ==
    /\ at.holds /\ f.cat # "void" /\ element.holds /\ at.size % element.align = 0
    /\ more.size = at.size + element.size * CountOf(f)
    /\ more.align = Larger(at.align, element.align)

LEMMA ImageWithIs ==
  ASSUME NEW at \in AnImage, NEW element \in AnImage, NEW f, f.cap \in Nat
  PROVE  /\ ImageWith(at, f, element) \in AnImage
         /\ ImageWith(at, f, element).holds => Goes(ImageWith(at, f, element), at, f, element)
<1> DEFINE size == at.size + element.size * CountOf(f)
           align == Larger(at.align, element.align)
           more == [holds |-> TRUE, size |-> size, align |-> align]
<1>1. ImageWith(at, f, element)
        = IF at.holds /\ f.cat # "void" /\ element.holds /\ at.size % element.align = 0 THEN more ELSE NoImage
  BY DEF ImageWith, CountOf, Larger
<1>2. NoImage \in AnImage /\ ~ NoImage.holds
  BY DEF NoImage, AnImage
<1>3. size \in Nat
  <2>1. at.size \in Nat /\ element.size \in Nat /\ CountOf(f) \in Nat
    BY DEF AnImage, CountOf
  <2> QED BY <2>1
<1>4. at.holds /\ element.holds => align \in {1, 2, 4, 8}
  BY DEF AnImage, Larger
<1>5. at.holds /\ element.holds => more \in AnImage
  <2> HIDE DEF size, align
  <2> QED BY <1>3, <1>4 DEF AnImage
<1>6. more.size = size /\ more.align = align
  BY Zenon
<1> HIDE DEF more
<1>7. CASE at.holds /\ f.cat # "void" /\ element.holds /\ at.size % element.align = 0
  <2>1. ImageWith(at, f, element) = more
    BY <1>1, <1>7
  <2>2. Goes(more, at, f, element)
    BY <1>6, <1>7, Zenon DEF Goes, size, align
  <2> QED BY <1>5, <1>7, <2>1, <2>2, Zenon
<1>8. CASE ~ (at.holds /\ f.cat # "void" /\ element.holds /\ at.size % element.align = 0)
  <2>1. ImageWith(at, f, element) = NoImage
    BY <1>1, <1>8
  <2> QED BY <1>2, <2>1
<1> QED BY <1>7, <1>8

(* The images of the first members of a definition.                        *)
MembersUpTo(fields, flat, elements, members) ==
    members = [n \in 0 .. Len(fields) |->
                 IF n = 0 THEN [holds |-> flat, size |-> 0, align |-> 1]
                 ELSE ImageWith(members[n - 1], fields[n], elements[n])]

GoesOn(i, elements, members) ==
    /\ members[0] = [holds |-> WireFlat[i], size |-> 0, align |-> 1]
    /\ \A n \in 0 .. Len(Fields[i]) : members[n] \in AnImage
    /\ \A n \in 1 .. Len(Fields[i]) : members[n] = ImageWith(members[n - 1], Fields[i][n], elements[n])

LEMMA ImageOfIs ==
  ASSUME NEW i \in TypeIds, NEW elements, \A k \in DOMAIN Fields[i] : elements[k] \in AnImage
  PROVE  \E members : /\ GoesOn(i, elements, members)
                      /\ ImageOf(Fields[i], WireFlat[i], elements) = WholeImage(members[Len(Fields[i])])
<1> DEFINE fields == Fields[i]
           flat == WireFlat[i]
           n == Len(fields)
           start == [holds |-> flat, size |-> 0, align |-> 1]
           members == CHOOSE f : MembersUpTo(fields, flat, elements, f)
<1>1. n \in Nat /\ DOMAIN fields = 1 .. n
  BY Definitions
<1>2. flat \in BOOLEAN
  BY WireFlatIs DEF IsFlat
<1>3. start \in AnImage
  BY <1>2 DEF AnImage
<1>4. \A k \in 1 .. n : \A at \in AnImage : ImageWith(at, fields[k], elements[k]) \in AnImage
  <2>1. \A k \in 1 .. n : elements[k] \in AnImage /\ fields[k].cap \in Nat
    BY <1>1, FieldsAre DEF IsField
  <2> QED BY <2>1, ImageWithIs
<1>5. ImageOf(fields, flat, elements) = WholeImage(members[n])
  BY Zenon DEF ImageOf, MembersUpTo
<1> HIDE DEF n, fields, flat, start
<1>6. PICK next \in [1 .. n -> [AnImage -> AnImage]] :
        \A k \in 1 .. n : \A at \in AnImage : next[k][at] = ImageWith(at, fields[k], elements[k])
  <2>1. [k \in 1 .. n |-> [at \in AnImage |-> ImageWith(at, fields[k], elements[k])]]
          \in [1 .. n -> [AnImage -> AnImage]]
    BY <1>4
  <2> QED BY <2>1
<1>7. PICK f \in [0 .. n -> AnImage] : StepsUp(n, start, next, f)
  BY <1>1, <1>3, Recursion, Zenon
<1>8. ASSUME NEW k \in 0 .. n
      PROVE  f[k] = IF k = 0 THEN start ELSE ImageWith(f[k - 1], fields[k], elements[k])
  <2>1. k # 0 => k \in 1 .. n /\ f[k - 1] \in AnImage
    BY <1>1
  <2> QED BY <1>6, <1>7, <2>1, SMT DEF StepsUp
<1>9. MembersUpTo(fields, flat, elements, f)
  BY <1>8, Zenon DEF MembersUpTo, n, start
<1>10. MembersUpTo(fields, flat, elements, members)
  BY <1>9, Zenon
<1> HIDE DEF members
<1>11. members = [k \in 0 .. n |-> IF k = 0 THEN start ELSE ImageWith(members[k - 1], fields[k], elements[k])]
  BY <1>10, Zenon DEF MembersUpTo, n, start
<1>12. members[0] = start /\ \A k \in 1 .. n : members[k] = ImageWith(members[k - 1], fields[k], elements[k])
  <2>1. \A k \in 1 .. n : k \in 0 .. n /\ k # 0
    BY <1>1
  <2>2. 0 \in 0 .. n
    BY <1>1
  <2> QED BY <1>11, <2>1, <2>2
<1>13. \A k \in 0 .. n : members[k] \in AnImage
  <2>1. members[0] \in AnImage
    BY <1>3, <1>12
  <2>2. \A k \in 1 .. n : members[k - 1] \in AnImage => members[k] \in AnImage
    BY <1>4, <1>12
  <2> QED BY <1>1, <2>1, <2>2, Stays
<1>14. GoesOn(i, elements, members)
  BY <1>12, <1>13, Zenon DEF GoesOn, n, start, fields, flat
<1> QED BY <1>5, <1>14, Zenon DEF n, fields, flat

LEMMA WholeImageIs ==
  ASSUME NEW last \in AnImage
  PROVE  /\ WholeImage(last) \in AnImage
         /\ WholeImage(last).holds =>
              WholeImage(last) = last /\ last.holds /\ last.size % last.align = 0
BY DEF WholeImage, NoImage, AnImage

(* Every definition has an image, if one that does not hold.               *)
LEMMA ElementsAre ==
  ASSUME NEW i \in TypeIds
  PROVE  /\ HostImage[i] \in AnImage
         /\ \A k \in DOMAIN Fields[i] : ElementImage(Fields[i][k], HostImage) \in AnImage
<1> DEFINE N == {m \in Nat : \A j \in TypeIds : j <= m => HostImage[j] \in AnImage}
<1>0. TypeIds = 1 .. Len(Types) /\ Len(Types) \in Nat
  BY LayoutConstants DEF TypeIds, IsSequence
<1>e. ASSUME NEW j \in TypeIds, \A h \in TypeIds : h < j => HostImage[h] \in AnImage,
             NEW k \in DOMAIN Fields[j]
      PROVE  ElementImage(Fields[j][k], HostImage) \in AnImage
  <2> DEFINE f == Fields[j][k]
  <2>1. f.bits \in 0 .. 64 /\ (IsComposite(f) => f.ref \in TypeIds /\ f.ref < j)
    BY FieldsAre, BitsOfField
  <2>2. ScalarImage(f) \in AnImage
    BY <2>1, ScalarImageIs
  <2> HIDE DEF f
  <2>3. ElementImage(f, HostImage) \in AnImage
    BY <1>e, <2>1, <2>2 DEF ElementImage
  <2> QED BY <2>3 DEF f
<1>1. 0 \in N
  BY <1>0
<1>2. ASSUME NEW m \in Nat, m \in N PROVE m + 1 \in N
  <2> SUFFICES ASSUME NEW j \in TypeIds, j = m + 1 PROVE HostImage[j] \in AnImage
    BY <1>0, <1>2
  <2> DEFINE elements == ElementsFrom(j, HostImage)
  <2>1. \A h \in TypeIds : h < j => HostImage[h] \in AnImage
    BY <1>0, <1>2
  <2>2. \A k \in DOMAIN Fields[j] : elements[k] \in AnImage
    BY <1>e, <2>1 DEF ElementsFrom
  <2>3. HostImage[j] = ImageOf(Fields[j], WireFlat[j], elements)
    BY HostImageIs, Zenon DEF ImageFrom
  <2> HIDE DEF elements
  <2>4. PICK members : /\ GoesOn(j, elements, members)
                       /\ ImageOf(Fields[j], WireFlat[j], elements) = WholeImage(members[Len(Fields[j])])
    BY <2>2, ImageOfIs
  <2>5. members[Len(Fields[j])] \in AnImage
    BY <2>4, Definitions DEF GoesOn
  <2> QED BY <2>3, <2>4, <2>5, WholeImageIs
<1> HIDE DEF N
<1>3. Len(Types) \in N
  BY <1>0, <1>1, <1>2, Induction
<1>4. \A j \in TypeIds : HostImage[j] \in AnImage
  BY <1>0, <1>3 DEF N
<1> QED BY <1>4, <1>e

-----------------------------------------------------------------------------
ElementAt(i, k) == ElementImage(Fields[i][k], HostImage)

(* The members of an image lie one right after the other.                  *)
Stacked(i, members) ==
    /\ \A n \in 0 .. Len(Fields[i]) : members[n].size \in Nat /\ members[n].align \in {1, 2, 4, 8}
    /\ members[0].size = 0 /\ members[0].align = 1
    /\ \A n \in 1 .. Len(Fields[i]) :
          /\ members[n - 1].size % ElementAt(i, n).align = 0
          /\ members[n].size = members[n - 1].size + ElementAt(i, n).size * CountOf(Fields[i][n])
          /\ members[n].align = Larger(members[n - 1].align, ElementAt(i, n).align)
    /\ HostImage[i] = members[Len(Fields[i])]
    /\ HostImage[i].size % HostImage[i].align = 0

Imaged(i) == HostImage[i].holds

LEMMA ImageIs ==
  ASSUME NEW i \in TypeIds, Imaged(i)
  PROVE  /\ WireFlat[i]
         /\ \A n \in 1 .. Len(Fields[i]) : /\ Fields[i][n].cat # "void"
                                           /\ ElementAt(i, n).holds /\ ElementAt(i, n) \in AnImage
         /\ \E members : Stacked(i, members)
<1> DEFINE elements == ElementsFrom(i, HostImage)
           N == Len(Fields[i])
<1>1. N \in Nat /\ DOMAIN Fields[i] = 1 .. N
  BY Definitions
<1>2. \A k \in 1 .. N : elements[k] = ElementAt(i, k) /\ ElementAt(i, k) \in AnImage
                        /\ Fields[i][k].cap \in Nat
  BY <1>1, ElementsAre, FieldsAre DEF ElementsFrom, ElementAt, IsField
<1>3. HostImage[i] = ImageOf(Fields[i], WireFlat[i], elements)
  BY HostImageIs, Zenon DEF ImageFrom
<1> HIDE DEF elements
<1>4. PICK members : /\ GoesOn(i, elements, members)
                     /\ ImageOf(Fields[i], WireFlat[i], elements) = WholeImage(members[N])
  BY <1>1, <1>2, ImageOfIs
<1>5. \A n \in 0 .. N : members[n] \in AnImage
  BY <1>4 DEF GoesOn
<1>6. \A n \in 1 .. N : members[n] = ImageWith(members[n - 1], Fields[i][n], elements[n])
  BY <1>4 DEF GoesOn
<1>7. members[0] = [holds |-> WireFlat[i], size |-> 0, align |-> 1]
  BY <1>4 DEF GoesOn
<1>8. N \in 0 .. N
  BY <1>1
<1>9. /\ HostImage[i] = members[N] /\ members[N].holds
      /\ HostImage[i].size % HostImage[i].align = 0
  <2>1. WholeImage(members[N]).holds
    BY <1>3, <1>4 DEF Imaged
  <2>2. /\ WholeImage(members[N]) = members[N] /\ members[N].holds
        /\ members[N].size % members[N].align = 0
    BY <1>5, <1>8, <2>1, WholeImageIs
  <2> QED BY <1>3, <1>4, <2>2
<1>10. ASSUME NEW n \in 1 .. N, members[n].holds
       PROVE  /\ members[n - 1].holds /\ Fields[i][n].cat # "void" /\ ElementAt(i, n).holds
              /\ members[n - 1].size % ElementAt(i, n).align = 0
              /\ members[n].size = members[n - 1].size + ElementAt(i, n).size * CountOf(Fields[i][n])
              /\ members[n].align = Larger(members[n - 1].align, ElementAt(i, n).align)
  <2>1. n - 1 \in 0 .. N
    BY <1>1
  <2>2. members[n] = ImageWith(members[n - 1], Fields[i][n], ElementAt(i, n))
    BY <1>2, <1>6
  <2>3. members[n - 1] \in AnImage /\ ElementAt(i, n) \in AnImage /\ Fields[i][n].cap \in Nat
    BY <1>2, <1>5, <2>1
  <2>4. ImageWith(members[n - 1], Fields[i][n], ElementAt(i, n)).holds
    BY <1>10, <2>2
  <2> HIDE DEF N
  <2>5. Goes(members[n], members[n - 1], Fields[i][n], ElementAt(i, n))
    BY <2>2, <2>3, <2>4, ImageWithIs, Zenon
  <2> QED BY <2>5, Zenon DEF Goes
<1>11. \A n \in 0 .. N : members[n].holds
  <2> DEFINE V == {r \in AnImage : r.holds}
  <2>1. members[N] \in V
    BY <1>5, <1>8, <1>9
  <2>2. ASSUME NEW k \in 0 .. (N - 1), members[k + 1] \in V PROVE members[k] \in V
    <3>1. k + 1 \in 1 .. N /\ (k + 1) - 1 = k /\ k \in 0 .. N
      BY <1>1
    <3>2. members[k + 1].holds
      BY <2>2
    <3>3. members[(k + 1) - 1].holds
      BY <1>10, <3>1, <3>2
    <3> QED BY <1>5, <3>1, <3>3
  <2> HIDE DEF V
  <2>3. \A n \in 0 .. N : members[n] \in V
    BY <1>1, <2>1, <2>2, StaysDown
  <2> QED BY <2>3 DEF V
<1>12. WireFlat[i] /\ members[0].size = 0 /\ members[0].align = 1
  <2>1. members[0].holds
    BY <1>1, <1>11
  <2>2. WireFlat[i] \in BOOLEAN
    BY WireFlatIs DEF IsFlat
  <2>3. CASE WireFlat[i] = TRUE
    <3>1. members[0] = [holds |-> TRUE, size |-> 0, align |-> 1]
      BY <1>7, <2>3, Zenon
    <3> QED BY <2>3, <3>1
  <2>4. CASE WireFlat[i] = FALSE
    <3>1. members[0] = [holds |-> FALSE, size |-> 0, align |-> 1]
      BY <1>7, <2>4, Zenon
    <3> QED BY <2>1, <3>1
  <2> QED BY <2>2, <2>3, <2>4
<1>13. \A n \in 0 .. N : members[n].size \in Nat /\ members[n].align \in {1, 2, 4, 8}
  BY <1>5, <1>11 DEF AnImage
<1>14. Stacked(i, members)
  BY <1>9, <1>10, <1>11, <1>12, <1>13 DEF Stacked
<1> QED BY <1>2, <1>10, <1>11, <1>12, <1>14

(* What is flat is sealed and of one length, and no field of an image of   *)
(* a variable number of elements.                                          *)
LEMMA ImageIsFlat ==
  ASSUME NEW i \in TypeIds, Imaged(i), \A j \in TypeIds : Accepted(j)
  PROVE  /\ IsSealed[i] /\ ~ IsUnion[i] /\ FixedBits[i] # Unknown
         /\ OffsetAtEnd[i] = {MaxBits[i]} /\ FixedBits[i] = MaxBits[i]
         /\ \A k \in 1 .. Len(Fields[i]) :
               /\ RunBefore(Fields[i], MaxBits, k) % ByteBits = 0
               /\ Fields[i][k].array # "variable"
               /\ IsComposite(Fields[i][k]) => Imaged(Fields[i][k].ref)
         /\ RunBefore(Fields[i], MaxBits, Len(Fields[i]) + 1) % ByteBits = 0
<1>1. /\ Types[i].fields = Fields[i] /\ DOMAIN Fields[i] = 1 .. Len(Fields[i])
      /\ IsSealed[i] = Types[i].sealed /\ IsUnion[i] = Types[i].union
  BY Definitions
<1>2. IsFlat(Types[i], MaxBits, FixedBits[i], WireFlat)
  BY ImageIs, WireFlatIs
<1>3. \A k \in 1 .. Len(Fields[i]) : /\ Fields[i][k].cat # "void"
                                     /\ ElementAt(i, k).holds
  BY ImageIs
<1>4. FixedBits[i] # Unknown
  BY <1>2, Zenon DEF IsFlat
<1>5. OffsetAtEnd[i] = {FixedBits[i]} /\ MaxBits[i] \in OffsetAtEnd[i]
  BY <1>4, FixedBitsAreTheOnly, LengthsAreWholeBytes
<1>6. \A k \in 1 .. Len(Fields[i]) : IsComposite(Fields[i][k]) => Imaged(Fields[i][k].ref)
  BY <1>3, Zenon DEF ElementAt, ElementImage, Imaged
<1>7. /\ Types[i].sealed /\ ~ Types[i].union
      /\ \A k \in 1 .. Len(Fields[i]) : /\ RunBefore(Fields[i], MaxBits, k) % ByteBits = 0
                                        /\ Fields[i][k].array # "variable"
      /\ RunBefore(Fields[i], MaxBits, Len(Fields[i]) + 1) % ByteBits = 0
  BY <1>1, <1>2, <1>3, Zenon DEF IsFlat
<1> QED BY <1>1, <1>4, <1>5, <1>6, <1>7

-----------------------------------------------------------------------------
(* The widths of the elements of an image, where those of the composites   *)
(* in it are known.                                                        *)
Whole(i) == ByteBits * HostImage[i].size = MaxBits[i]

LEMMA ImageElementIs ==
  ASSUME NEW i \in TypeIds, Imaged(i), \A j \in TypeIds : Accepted(j),
         \A j \in TypeIds : j < i /\ Imaged(j) => Whole(j),
         NEW k \in 1 .. Len(Fields[i])
  PROVE  /\ WidthOf(Fields[i][k]) = ByteBits * ElementAt(i, k).size
         /\ ElementAt(i, k).size \in Nat /\ ElementAt(i, k).align \in {1, 2, 4, 8}
         /\ ~ IsComposite(Fields[i][k]) =>
               /\ HeldIn(Fields[i][k].bits) = Fields[i][k].bits
               /\ Fields[i][k].bits \in {8, 16, 32, 64}
               /\ ElementAt(i, k).align = ElementAt(i, k).size
<1> DEFINE f == Fields[i][k]
<1>1. k \in DOMAIN Fields[i]
  BY Definitions
<1>2. /\ f.bits \in 0 .. 64 /\ (IsComposite(f) => f.ref \in TypeIds /\ f.ref < i)
      /\ (IsComposite(f) => Imaged(f.ref))
  BY <1>1, FieldsAre, BitsOfField, ImageIsFlat
<1>3. ElementAt(i, k) \in AnImage /\ ElementAt(i, k).holds
  BY ImageIs
<1>4. ElementAt(i, k).size \in Nat /\ ElementAt(i, k).align \in {1, 2, 4, 8}
  BY <1>3 DEF AnImage
<1>5. CASE IsComposite(f)
  <2>1. ElementAt(i, k) = HostImage[f.ref] /\ WidthOf(f) = MaxBits[f.ref]
    BY <1>5 DEF ElementAt, ElementImage, WidthOf
  <2>2. Whole(f.ref)
    BY <1>2, <1>5
  <2> QED BY <1>4, <1>5, <2>1, <2>2 DEF Whole
<1>6. CASE ~ IsComposite(f)
  <2>1. ElementAt(i, k) = ScalarImage(f) /\ WidthOf(f) = f.bits
    BY <1>6 DEF ElementAt, ElementImage, WidthOf
  <2>2. /\ f.bits \in {8, 16, 32, 64} /\ HeldIn(f.bits) = f.bits
        /\ 8 * ElementAt(i, k).size = f.bits
    BY <1>2, <1>3, <2>1, ScalarImageIs
  <2>3. ElementAt(i, k).align = ElementAt(i, k).size
    BY <2>1 DEF ScalarImage
  <2> QED BY <1>4, <1>6, <2>1, <2>2, <2>3 DEF ByteBits
<1> QED BY <1>5, <1>6

(* The members lie where the fields do.                                    *)
LEMMA MembersLie ==
  ASSUME NEW i \in TypeIds, Imaged(i), \A j \in TypeIds : Accepted(j),
         \A j \in TypeIds : j < i /\ Imaged(j) => Whole(j),
         NEW members, Stacked(i, members)
  PROVE  \A n \in 0 .. Len(Fields[i]) : RunBefore(Fields[i], MaxBits, n + 1) = ByteBits * members[n].size
<1> DEFINE N == Len(Fields[i])
           run(n) == RunBefore(Fields[i], MaxBits, n + 1)
           K == {n \in Nat : n <= N => run(n) = ByteBits * members[n].size}
<1>1. N \in Nat /\ DOMAIN Fields[i] = 1 .. N
  BY Definitions
<1>2. run(0) = 0 /\ members[0].size = 0
  BY RunBeforeIs DEF Stacked
<1>3. 0 \in K
  BY <1>2 DEF ByteBits
<1>4. ASSUME NEW n \in Nat, n \in K PROVE n + 1 \in K
  <2> SUFFICES ASSUME n + 1 <= N PROVE run(n + 1) = ByteBits * members[n + 1].size
    OBVIOUS
  <2> DEFINE f == Fields[i][n + 1]
             c == CountOf(f)
             s == ElementAt(i, n + 1).size
  <2>1. n + 1 \in 1 .. N /\ (n + 1) - 1 = n /\ n \in 0 .. N
    BY <1>1
  <2>2. run(n + 1) = run(n) + RunBits(f, MaxBits)
    BY <2>1, RunBeforeIs
  <2>3. RunBits(f, MaxBits) = WidthOf(f) * c /\ c \in Nat
    BY <1>1, <2>1, RunBitsAre
  <2>4. WidthOf(f) = ByteBits * s /\ s \in Nat
    BY <2>1, ImageElementIs
  <2>5. members[n + 1].size = members[n].size + s * c /\ members[n].size \in Nat
    <3> HIDE DEF f
    <3> QED BY <2>1 DEF Stacked, f
  <2>6. run(n) = ByteBits * members[n].size
    BY <1>4, <2>1
  <2> HIDE DEF run, f, c, s
  <2>7. (ByteBits * s) * c = ByteBits * (s * c) /\ s * c \in Nat
    BY <2>3, <2>4 DEF ByteBits
  <2> QED BY <2>2, <2>3, <2>4, <2>5, <2>6, <2>7 DEF ByteBits
<1> HIDE DEF K
<1>5. \A n \in Nat : n \in K
  BY <1>3, <1>4, Induction
<1> QED BY <1>1, <1>5 DEF K

(* An image is as long as the wire form.                                   *)
LEMMA ImagesAreWhole ==
  ASSUME \A j \in TypeIds : Accepted(j)
  PROVE  \A j \in TypeIds : Imaged(j) => Whole(j)
<1> DEFINE N == {m \in Nat : \A j \in TypeIds : j <= m /\ Imaged(j) => Whole(j)}
<1>0. TypeIds = 1 .. Len(Types) /\ Len(Types) \in Nat
  BY LayoutConstants DEF TypeIds, IsSequence
<1>1. 0 \in N
  BY <1>0
<1>2. ASSUME NEW m \in Nat, m \in N PROVE m + 1 \in N
  <2> SUFFICES ASSUME NEW j \in TypeIds, j = m + 1, Imaged(j) PROVE Whole(j)
    BY <1>0, <1>2
  <2>1. \A h \in TypeIds : h < j /\ Imaged(h) => Whole(h)
    BY <1>0, <1>2
  <2>2. PICK members : Stacked(j, members)
    BY ImageIs
  <2>3. Len(Fields[j]) \in 0 .. Len(Fields[j])
    BY Definitions
  <2>4. RunBefore(Fields[j], MaxBits, Len(Fields[j]) + 1) = ByteBits * members[Len(Fields[j])].size
    BY <2>1, <2>2, <2>3, MembersLie
  <2>5. HostImage[j] = members[Len(Fields[j])]
    BY <2>2 DEF Stacked
  <2>6. WireFlat[j]
    BY ImageIs
  <2> QED BY <2>4, <2>5, <2>6, FlatRunIsLength DEF Whole
<1> HIDE DEF N
<1>3. Len(Types) \in N
  BY <1>0, <1>1, <1>2, Induction
<1> QED BY <1>0, <1>3 DEF N

-----------------------------------------------------------------------------
(* Where the lowering lays the fields of an image.                         *)

LEMMA FixedOffsetIs ==
  ASSUME NEW i \in TypeIds, Imaged(i), \A j \in TypeIds : Accepted(j),
         NEW members, Stacked(i, members)
  PROVE  \A k \in 1 .. Len(Fields[i]) : FixedFieldOffset(i, k) = ByteBits * members[k - 1].size
<1>1. WireFlat[i]
  BY ImageIs
<1>2. ASSUME NEW k \in 1 .. Len(Fields[i])
      PROVE  k - 1 \in 0 .. Len(Fields[i]) /\ (k - 1) + 1 = k
  BY Definitions
<1>3. \A j \in TypeIds : j < i /\ Imaged(j) => Whole(j)
  BY ImagesAreWhole
<1>4. ASSUME NEW k \in 1 .. Len(Fields[i])
      PROVE  RunBefore(Fields[i], MaxBits, k) = ByteBits * members[k - 1].size
  BY <1>2, <1>3, MembersLie
<1> QED BY <1>1, <1>4, FlatOffsetIs

-----------------------------------------------------------------------------
(* The structures a compiler lays out.                                     *)

MembersFrom(i, structures) == [k \in DOMAIN Fields[i] |-> StructureMember(Fields[i][k], structures)]

StructureFrom(i, structures) == StructureOf(Fields[i], MembersFrom(i, structures))

StructuresFrom(structures) == structures = [i \in TypeIds |-> StructureFrom(i, structures)]

LEMMA StructureOfEarlier ==
  ASSUME NEW i \in TypeIds, NEW structures, NEW more, \A j \in TypeIds : j < i => structures[j] = more[j]
  PROVE  StructureFrom(i, structures) = StructureFrom(i, more)
<1>1. ASSUME NEW k \in DOMAIN Fields[i]
      PROVE  StructureMember(Fields[i][k], structures) = StructureMember(Fields[i][k], more)
  <2>1. IsComposite(Fields[i][k]) => structures[Fields[i][k].ref] = more[Fields[i][k].ref]
    BY FieldsAre
  <2> QED BY <2>1, Zenon DEF StructureMember
<1>2. MembersFrom(i, structures) = MembersFrom(i, more)
  BY <1>1, Zenon DEF MembersFrom
<1> QED BY <1>2, Zenon DEF StructureFrom

LEMMA StructuresExist == \E structures : StructuresFrom(structures)
<1> DEFINE IsTo(m, f) == /\ DOMAIN f = TypeIds
                         /\ f = [j \in TypeIds |-> f[j]]
                         /\ \A i \in TypeIds : i <= m => f[i] = StructureFrom(i, f)
           N == {m \in Nat : \E f : IsTo(m, f)}
<1>0. TypeIds = 1 .. Len(Types) /\ Len(Types) \in Nat
  BY LayoutConstants DEF TypeIds, IsSequence
<1>1. 0 \in N
  <2>1. IsTo(0, [i \in TypeIds |-> {}])
    BY <1>0
  <2> QED BY <2>1
<1>2. ASSUME NEW m \in Nat, m \in N PROVE m + 1 \in N
  <2>1. PICK f : IsTo(m, f)
    BY <1>2
  <2> DEFINE more == [i \in TypeIds |-> IF i = m + 1 THEN StructureFrom(m + 1, f) ELSE f[i]]
  <2>2. ASSUME NEW i \in TypeIds, i <= m + 1 PROVE more[i] = StructureFrom(i, more)
    <3>1. \A j \in TypeIds : j < i => f[j] = more[j]
      BY <1>0, <2>2
    <3>2. StructureFrom(i, more) = StructureFrom(i, f)
      <4> HIDE DEF more
      <4> QED BY <3>1, StructureOfEarlier
    <3>3. i # m + 1 => i <= m
      BY <1>0, <2>2
    <3>4. CASE i = m + 1
      <4>1. more[i] = StructureFrom(m + 1, f)
        BY <3>4
      <4> QED BY <3>2, <3>4, <4>1, Zenon
    <3>5. CASE i # m + 1
      <4>1. more[i] = f[i]
        BY <3>5
      <4>2. f[i] = StructureFrom(i, f)
        BY <2>1, <3>3, <3>5
      <4> QED BY <3>2, <4>1, <4>2, Zenon
    <3> QED BY <3>4, <3>5
  <2>3. DOMAIN more = TypeIds /\ more = [j \in TypeIds |-> more[j]]
    OBVIOUS
  <2> HIDE DEF more
  <2>4. IsTo(m + 1, more)
    BY <2>2, <2>3
  <2> QED BY <2>4
<1> HIDE DEF N
<1>3. Len(Types) \in N
  BY <1>0, <1>1, <1>2, Induction
<1>4. PICK f : IsTo(Len(Types), f)
  BY <1>3 DEF N
<1>5. ASSUME NEW i \in TypeIds PROVE f[i] = StructureFrom(i, f)
  <2>1. i <= Len(Types)
    BY <1>0
  <2> QED BY <1>4, <2>1
<1>6. [j \in TypeIds |-> f[j]] = [j \in TypeIds |-> StructureFrom(j, f)]
  BY <1>5, Zenon
<1>7. StructuresFrom(f)
  BY <1>4, <1>6, Zenon DEF StructuresFrom
<1> QED BY <1>7

LEMMA StructuresOfAre ==
  ASSUME NEW these, these \subseteq TypeIds
  PROVE  \E structures : /\ \A i \in TypeIds : structures[i] = StructureFrom(i, structures)
                         /\ StructuresOf(these) = [i \in these |-> structures[i]]
<1> DEFINE structure == CHOOSE f : StructuresFrom(f)
<1>1. StructuresFrom(structure)
  BY StructuresExist, Zenon
<1>2. StructuresOf(these) = [i \in these |-> structure[i]]
  BY Zenon DEF StructuresOf, StructuresFrom, StructureFrom, MembersFrom
<1> HIDE DEF structure
<1>3. \A i \in TypeIds : structure[i] = StructureFrom(i, structure)
  BY <1>1, Zenon DEF StructuresFrom
<1> QED BY <1>2, <1>3

-----------------------------------------------------------------------------
AStructure == [size : Nat, align : {1, 2, 4, 8}, offsets : Seq(Nat)]

LEMMA PadToNone ==
  ASSUME NEW n \in Nat, NEW a \in {1, 2, 4, 8}
  PROVE  PadTo(n, a) \in Nat /\ (n % a = 0 => PadTo(n, a) = n)
<1>1. CASE a = 1
  BY <1>1 DEF PadTo
<1>2. CASE a = 2
  BY <1>2 DEF PadTo
<1>3. CASE a = 4
  BY <1>3 DEF PadTo
<1>4. CASE a = 8
  BY <1>4 DEF PadTo
<1> QED BY <1>1, <1>2, <1>3, <1>4

LEMMA GreatestOfTwo ==
  ASSUME NEW a \in Nat, NEW b \in Nat
  PROVE  GreatestOf({a, b}) = Larger(a, b)
<1>1. \A s \in {a, b} : s <= Larger(a, b)
  BY DEF Larger
<1>2. Larger(a, b) \in {a, b}
  BY DEF Larger
<1>3. IsLengths({a, b})
  BY <1>1, <1>2 DEF IsLengths
<1>4. GreatestOf({a, b}) \in {a, b} /\ \A s \in {a, b} : s <= GreatestOf({a, b})
  BY <1>3, GreatestOfLengths
<1> QED BY <1>1, <1>2, <1>4

LEMMA StructureWithIs ==
  ASSUME NEW at \in AStructure, NEW f, f.cap \in Nat, NEW one, one.size \in Nat, one.align \in {1, 2, 4, 8}
  PROVE  /\ StructureWith(at, f, one) \in AStructure
         /\ StructureWith(at, f, one).align = Larger(at.align, one.align)
         /\ at.size % one.align = 0 =>
               /\ StructureWith(at, f, one).size = at.size + one.size * CountOf(f)
               /\ StructureWith(at, f, one).offsets = Append(at.offsets, at.size)
<1> DEFINE start == PadTo(at.size, one.align)
           size == start + one.size * CountOf(f)
           align == GreatestOf({at.align, one.align})
           offsets == Append(at.offsets, start)
<1>1. StructureWith(at, f, one) = [size |-> size, align |-> align, offsets |-> offsets]
  BY DEF StructureWith, CountOf
<1>2. at.size \in Nat /\ at.align \in {1, 2, 4, 8} /\ at.offsets \in Seq(Nat)
  BY DEF AStructure
<1>3. start \in Nat /\ (at.size % one.align = 0 => start = at.size)
  BY <1>2, PadToNone
<1>4. CountOf(f) \in Nat
  BY DEF CountOf
<1>5. align = Larger(at.align, one.align) /\ align \in {1, 2, 4, 8}
  <2>1. at.align \in Nat /\ one.align \in Nat
    BY <1>2
  <2>2. align = Larger(at.align, one.align)
    BY <2>1, GreatestOfTwo
  <2> HIDE DEF align
  <2> QED BY <1>2, <2>2 DEF Larger
<1> HIDE DEF start
<1>6. size \in Nat
  <2>1. one.size * CountOf(f) \in Nat
    BY <1>4
  <2> QED BY <1>3, <2>1
<1>7. offsets \in Seq(Nat)
  BY <1>2, <1>3
<1>8. at.size % one.align = 0 =>
        size = at.size + one.size * CountOf(f) /\ offsets = Append(at.offsets, at.size)
  BY <1>3
<1> HIDE DEF size, align, offsets
<1> QED BY <1>1, <1>5, <1>6, <1>7, <1>8 DEF AStructure

(* The structure of a definition, member by member.                        *)
StructuresUpTo(fields, members, upTo) ==
    upTo = [n \in 0 .. Len(fields) |->
              IF n = 0 THEN [size |-> 0, align |-> 1, offsets |-> << >>]
              ELSE StructureWith(upTo[n - 1], fields[n], members[n])]

Laid(i, members, upTo) ==
    /\ upTo[0] = [size |-> 0, align |-> 1, offsets |-> << >>]
    /\ \A n \in 0 .. Len(Fields[i]) : upTo[n] \in AStructure
    /\ \A n \in 1 .. Len(Fields[i]) : upTo[n] = StructureWith(upTo[n - 1], Fields[i][n], members[n])

LEMMA StructureOfIs ==
  ASSUME NEW i \in TypeIds, NEW members,
         \A k \in 1 .. Len(Fields[i]) : members[k].size \in Nat /\ members[k].align \in {1, 2, 4, 8}
  PROVE  \E upTo : /\ Laid(i, members, upTo)
                   /\ StructureOf(Fields[i], members)
                        = [upTo[Len(Fields[i])] EXCEPT !.size = PadTo(@, upTo[Len(Fields[i])].align)]
<1> DEFINE fields == Fields[i]
           n == Len(fields)
           start == [size |-> 0, align |-> 1, offsets |-> << >>]
           upTo == CHOOSE f : StructuresUpTo(fields, members, f)
<1>1. n \in Nat /\ DOMAIN fields = 1 .. n
  BY Definitions
<1>3. start \in AStructure
  BY DEF AStructure
<1>4. \A k \in 1 .. n : \A at \in AStructure : StructureWith(at, fields[k], members[k]) \in AStructure
  <2>1. \A k \in 1 .. n : fields[k].cap \in Nat
    BY <1>1, FieldsAre DEF IsField
  <2> QED BY <2>1, StructureWithIs
<1>5. StructureOf(fields, members) = [upTo[n] EXCEPT !.size = PadTo(@, upTo[n].align)]
  BY Zenon DEF StructureOf, StructuresUpTo
<1> HIDE DEF n, fields, start
<1>6. PICK next \in [1 .. n -> [AStructure -> AStructure]] :
        \A k \in 1 .. n : \A at \in AStructure : next[k][at] = StructureWith(at, fields[k], members[k])
  <2>1. [k \in 1 .. n |-> [at \in AStructure |-> StructureWith(at, fields[k], members[k])]]
          \in [1 .. n -> [AStructure -> AStructure]]
    BY <1>4
  <2> QED BY <2>1
<1>7. PICK f \in [0 .. n -> AStructure] : StepsUp(n, start, next, f)
  BY <1>1, <1>3, Recursion, Zenon
<1>8. ASSUME NEW k \in 0 .. n
      PROVE  f[k] = IF k = 0 THEN start ELSE StructureWith(f[k - 1], fields[k], members[k])
  <2>1. k # 0 => k \in 1 .. n /\ f[k - 1] \in AStructure
    BY <1>1
  <2> QED BY <1>6, <1>7, <2>1, SMT DEF StepsUp
<1>9. StructuresUpTo(fields, members, f)
  BY <1>8, Zenon DEF StructuresUpTo, n, start
<1>10. StructuresUpTo(fields, members, upTo)
  BY <1>9, Zenon
<1> HIDE DEF upTo
<1>11. upTo = [k \in 0 .. n |-> IF k = 0 THEN start ELSE StructureWith(upTo[k - 1], fields[k], members[k])]
  BY <1>10, Zenon DEF StructuresUpTo, n, start
<1>12. upTo[0] = start /\ \A k \in 1 .. n : upTo[k] = StructureWith(upTo[k - 1], fields[k], members[k])
  <2>1. \A k \in 1 .. n : k \in 0 .. n /\ k # 0
    BY <1>1
  <2>2. 0 \in 0 .. n
    BY <1>1
  <2> QED BY <1>11, <2>1, <2>2
<1>13. \A k \in 0 .. n : upTo[k] \in AStructure
  <2>1. upTo[0] \in AStructure
    BY <1>3, <1>12
  <2>2. \A k \in 1 .. n : upTo[k - 1] \in AStructure => upTo[k] \in AStructure
    BY <1>4, <1>12
  <2> QED BY <1>1, <2>1, <2>2, Stays
<1>14. Laid(i, members, upTo)
  BY <1>12, <1>13, Zenon DEF Laid, n, start, fields
<1> QED BY <1>5, <1>14, Zenon DEF n, fields

-----------------------------------------------------------------------------
(* An image is its structure.                                              *)

SameAsImage(i, c) ==
    /\ c.size = HostImage[i].size /\ c.align = HostImage[i].align
    /\ \A k \in 1 .. Len(Fields[i]) : /\ c.offsets[k] \in Nat
                                      /\ ByteBits * c.offsets[k] = FixedFieldOffset(i, k)

Structured(structures) == \A i \in TypeIds : structures[i] = StructureFrom(i, structures)

LEMMA MemberIsElement ==
  ASSUME NEW i \in TypeIds, Imaged(i), \A j \in TypeIds : Accepted(j),
         NEW structures, \A j \in TypeIds : j < i /\ Imaged(j) => SameAsImage(j, structures[j]),
         NEW k \in 1 .. Len(Fields[i])
  PROVE  LET one == StructureMember(Fields[i][k], structures) IN
         /\ one.size = ElementAt(i, k).size /\ one.align = ElementAt(i, k).align
         /\ one.size \in Nat /\ one.align \in {1, 2, 4, 8}
<1> DEFINE f == Fields[i][k]
           one == StructureMember(f, structures)
<1>1. k \in DOMAIN Fields[i]
  BY Definitions
<1>2. \A j \in TypeIds : j < i /\ Imaged(j) => Whole(j)
  BY ImagesAreWhole
<1>3. /\ ElementAt(i, k).size \in Nat /\ ElementAt(i, k).align \in {1, 2, 4, 8}
      /\ ~ IsComposite(f) => /\ HeldIn(f.bits) = f.bits /\ f.bits \in {8, 16, 32, 64}
                             /\ ElementAt(i, k).align = ElementAt(i, k).size
                             /\ f.bits = ByteBits * ElementAt(i, k).size
  BY <1>2, ImageElementIs DEF WidthOf
<1>4. f.cat # "void" /\ (IsComposite(f) => f.ref \in TypeIds /\ f.ref < i /\ Imaged(f.ref))
  BY <1>1, FieldsAre, ImageIs, ImageIsFlat
<1>5. CASE IsComposite(f)
  <2>1. ElementAt(i, k) = HostImage[f.ref] /\ one = structures[f.ref]
    BY <1>5 DEF ElementAt, ElementImage, StructureMember
  <2> QED BY <1>3, <1>4, <1>5, <2>1 DEF SameAsImage
<1>6. CASE ~ IsComposite(f)
  <2> DEFINE bytes == f.bits \div ByteBits
  <2>1. bytes = ElementAt(i, k).size /\ bytes # 0
    BY <1>3, <1>6 DEF ByteBits
  <2>2. one = [size |-> bytes, align |-> IF bytes = 0 THEN 1 ELSE bytes, offsets |-> << >>]
    BY <1>3, <1>4, <1>6, Zenon DEF StructureMember
  <2> HIDE DEF bytes
  <2> QED BY <1>3, <1>6, <2>1, <2>2
<1> QED BY <1>5, <1>6

LEMMA AppendIs ==
  ASSUME NEW s \in Seq(Nat), NEW m \in Nat
  PROVE  /\ Len(Append(s, m)) = Len(s) + 1
         /\ \A k \in 1 .. Len(s) : Append(s, m)[k] = s[k]
         /\ Append(s, m)[Len(s) + 1] = m
OBVIOUS

LEMMA StructureIsImage ==
  ASSUME NEW i \in TypeIds, Imaged(i), \A j \in TypeIds : Accepted(j),
         NEW structures, \A j \in TypeIds : j < i /\ Imaged(j) => SameAsImage(j, structures[j])
  PROVE  SameAsImage(i, StructureFrom(i, structures))
<1> DEFINE N == Len(Fields[i])
           own == MembersFrom(i, structures)
<1>1. N \in Nat /\ DOMAIN Fields[i] = 1 .. N
  BY Definitions
<1>2. PICK members : Stacked(i, members)
  BY ImageIs
<1>3. \A k \in DOMAIN Fields[i] : own[k] = StructureMember(Fields[i][k], structures)
  BY Zenon DEF MembersFrom
<1> HIDE DEF own
<1>4. ASSUME NEW k \in 1 .. N
      PROVE  /\ own[k].size = ElementAt(i, k).size /\ own[k].align = ElementAt(i, k).align
             /\ own[k].size \in Nat /\ own[k].align \in {1, 2, 4, 8}
  <2>1. own[k] = StructureMember(Fields[i][k], structures)
    BY <1>1, <1>3, Zenon
  <2> QED BY <2>1, MemberIsElement
<1>5. PICK upTo : /\ Laid(i, own, upTo)
                  /\ StructureOf(Fields[i], own) = [upTo[N] EXCEPT !.size = PadTo(@, upTo[N].align)]
  <2>1. \A k \in 1 .. Len(Fields[i]) : own[k].size \in Nat /\ own[k].align \in {1, 2, 4, 8}
    BY <1>4, Zenon
  <2> QED BY <2>1, StructureOfIs, Zenon
<1> DEFINE Same(n) == /\ upTo[n].size = members[n].size /\ upTo[n].align = members[n].align
                      /\ Len(upTo[n].offsets) = n
                      /\ \A k \in 1 .. n : upTo[n].offsets[k] = members[k - 1].size
           K == {n \in Nat : n <= N => Same(n)}
<1>6. 0 \in K
  BY <1>2, <1>5 DEF Laid, Stacked
<1>7. ASSUME NEW n \in Nat, n \in K PROVE n + 1 \in K
  <2> SUFFICES ASSUME n + 1 <= N PROVE Same(n + 1)
    OBVIOUS
  <2> DEFINE f == Fields[i][n + 1]
             at == upTo[n]
             one == own[n + 1]
  <2>1. n + 1 \in 1 .. N /\ (n + 1) - 1 = n /\ n \in 0 .. N
    BY <1>1
  <2>2. Same(n)
    BY <1>7, <2>1
  <2>3. at \in AStructure /\ upTo[n + 1] = StructureWith(at, f, one)
    <3> HIDE DEF f, one
    <3> QED BY <1>5, <2>1 DEF Laid, f, one
  <2>4. /\ members[n].size % one.align = 0
        /\ members[n + 1].size = members[n].size + one.size * CountOf(f)
        /\ members[n + 1].align = Larger(members[n].align, one.align)
        /\ one.size \in Nat /\ one.align \in {1, 2, 4, 8}
        /\ members[n].size \in Nat
    <3> HIDE DEF f
    <3> QED BY <1>2, <1>4, <2>1 DEF Stacked, f
  <2>5. f.cap \in Nat
    BY <1>1, <2>1, FieldsAre DEF IsField
  <2> HIDE DEF f, one
  <2>6. /\ upTo[n + 1].align = Larger(at.align, one.align)
        /\ upTo[n + 1].size = at.size + one.size * CountOf(f)
        /\ upTo[n + 1].offsets = Append(at.offsets, at.size)
    <3>1. at.size % one.align = 0
      BY <2>2, <2>4, Zenon
    <3>2. at.size = members[n].size
      BY <2>2, Zenon
    <3> HIDE DEF at
    <3>3. one.size \in Nat /\ one.align \in {1, 2, 4, 8}
      BY <2>4, Zenon
    <3>4. StructureWith(at, f, one).align = Larger(at.align, one.align)
      BY <2>3, <2>5, <3>3, StructureWithIs
    <3>5. /\ StructureWith(at, f, one).size = at.size + one.size * CountOf(f)
          /\ StructureWith(at, f, one).offsets = Append(at.offsets, at.size)
      BY <2>3, <2>5, <3>1, <3>3, StructureWithIs
    <3> QED BY <2>3, <3>4, <3>5, Zenon
  <2>7. at.offsets \in Seq(Nat) /\ Len(at.offsets) = n
    BY <2>2, <2>3 DEF AStructure
  <2>8. /\ Len(upTo[n + 1].offsets) = n + 1
        /\ \A k \in 1 .. n : upTo[n + 1].offsets[k] = at.offsets[k]
        /\ upTo[n + 1].offsets[n + 1] = at.size
    <3> HIDE DEF at
    <3>1. at.size \in Nat
      BY <2>3 DEF AStructure
    <3> QED BY <2>6, <2>7, <3>1, AppendIs
  <2>9. ASSUME NEW k \in 1 .. (n + 1) PROVE upTo[n + 1].offsets[k] = members[k - 1].size
    <3>1. CASE k = n + 1
      <4>1. k - 1 = n
        BY <3>1
      <4> QED BY <2>2, <2>8, <3>1, <4>1, Zenon
    <3>2. CASE k # n + 1
      <4>1. k \in 1 .. n
        BY <3>2
      <4> QED BY <2>2, <2>8, <4>1, Zenon
    <3> QED BY <3>1, <3>2
  <2>10. upTo[n + 1].size = members[n + 1].size /\ upTo[n + 1].align = members[n + 1].align
    BY <2>2, <2>4, <2>6, Zenon
  <2> QED BY <2>8, <2>9, <2>10, Zenon
<1> HIDE DEF K
<1>8. \A n \in Nat : n \in K
  BY <1>6, <1>7, Induction
<1>9. Same(N)
  BY <1>1, <1>8 DEF K
<1>10. upTo[N] \in AStructure
  BY <1>1, <1>5 DEF Laid
<1>11. /\ HostImage[i] = members[N] /\ HostImage[i].size % HostImage[i].align = 0
       /\ HostImage[i].size \in Nat /\ HostImage[i].align \in {1, 2, 4, 8}
  BY <1>1, <1>2 DEF Stacked
<1>12. PadTo(upTo[N].size, upTo[N].align) = upTo[N].size
  <2>1. upTo[N].size = HostImage[i].size /\ upTo[N].align = HostImage[i].align
    BY <1>9, <1>11, Zenon
  <2> QED BY <1>11, <2>1, PadToNone
<1>13. [upTo[N] EXCEPT !.size = PadTo(@, upTo[N].align)] = upTo[N]
  BY <1>10, <1>12 DEF AStructure
<1>14. StructureFrom(i, structures) = upTo[N]
  BY <1>5, <1>13 DEF StructureFrom, own
<1>15. \A k \in 1 .. N : FixedFieldOffset(i, k) = ByteBits * members[k - 1].size
  BY <1>2, FixedOffsetIs
<1>16. \A k \in 1 .. N : members[k - 1].size \in Nat
  <2>1. \A k \in 1 .. N : k - 1 \in 0 .. N
    BY <1>1
  <2> QED BY <1>2, <2>1 DEF Stacked
<1>17. \A k \in 1 .. N : ByteBits * upTo[N].offsets[k] = FixedFieldOffset(i, k)
  BY <1>9, <1>15
<1>18. \A k \in 1 .. N : upTo[N].offsets[k] \in Nat
  BY <1>9, <1>16
<1>19. upTo[N].size = HostImage[i].size /\ upTo[N].align = HostImage[i].align
  BY <1>9, <1>11
<1> QED BY <1>14, <1>17, <1>18, <1>19, Zenon DEF SameAsImage

LEMMA StructuresAreImages ==
  ASSUME \A j \in TypeIds : Accepted(j), NEW structures, Structured(structures)
  PROVE  \A i \in TypeIds : Imaged(i) => SameAsImage(i, structures[i])
<1> DEFINE N == {m \in Nat : \A j \in TypeIds : j <= m /\ Imaged(j) => SameAsImage(j, structures[j])}
<1>0. TypeIds = 1 .. Len(Types) /\ Len(Types) \in Nat
  BY LayoutConstants DEF TypeIds, IsSequence
<1>1. 0 \in N
  BY <1>0
<1>2. ASSUME NEW m \in Nat, m \in N PROVE m + 1 \in N
  <2> SUFFICES ASSUME NEW j \in TypeIds, j = m + 1, Imaged(j) PROVE SameAsImage(j, structures[j])
    BY <1>0, <1>2
  <2>1. \A h \in TypeIds : h < j /\ Imaged(h) => SameAsImage(h, structures[h])
    BY <1>0, <1>2
  <2>2. SameAsImage(j, StructureFrom(j, structures))
    BY <2>1, StructureIsImage
  <2> QED BY <2>2, Zenon DEF Structured
<1> HIDE DEF N
<1>3. Len(Types) \in N
  BY <1>0, <1>1, <1>2, Induction
<1> QED BY <1>0, <1>3 DEF N

(* computeHostImage against the compiler: what it calls a host image is    *)
(* flat on the wire, every field lies at the one offset fixedFieldOffsets  *)
(* finds for it, and the structure a compiler lays out has its members     *)
(* there, with no padding between or after them: copying the structure is  *)
(* writing the plan.                                                       *)
THEOREM ImagesAreStructures ==
  ASSUME \A j \in TypeIds : Accepted(j), NEW i \in TypeIds, HostImage[i].holds
  PROVE  WireFlat[i] /\ HasFixedOffsets(i) /\ Agrees(i, Structure[i])
<1>0. Imaged(i)
  BY DEF Imaged
<1>1. WireFlat[i]
  BY <1>0, ImageIs
<1>2. HasFixedOffsets(i)
  <2>1. DOMAIN Fields[i] = 1 .. Len(Fields[i])
    BY Definitions
  <2>2. \A k \in 1 .. Len(Fields[i]) :
          IsComposite(Fields[i][k]) => /\ IsSealed[Fields[i][k].ref]
                                       /\ FixedBits[Fields[i][k].ref] # Unknown
    BY <1>0, <2>1, FieldsAre, ImageIsFlat
  <2> QED BY <1>0, <2>1, <2>2, ImageIsFlat, Zenon DEF HasFixedOffsets
<1>3. PICK structures : /\ Structured(structures)
                        /\ Structure = [j \in {h \in TypeIds : WireFlat[h]} |-> structures[j]]
  BY StructuresOfAre DEF Structure, Structured
<1>4. SameAsImage(i, structures[i])
  BY <1>0, <1>3, StructuresAreImages
<1>5. Structure[i] = structures[i]
  BY <1>1, <1>3
<1>6. Whole(i)
  BY <1>0, ImagesAreWhole
<1>7. DOMAIN Fields[i] = 1 .. Len(Fields[i])
  BY Definitions
<1>9. HostImage[i].size \in Nat
  BY ElementsAre DEF AnImage
<1>8. Agrees(i, structures[i])
  <2>1. \A k \in DOMAIN Fields[i] : structures[i].offsets[k] * ByteBits = FixedFieldOffset(i, k)
    BY <1>4, <1>7 DEF SameAsImage, ByteBits
  <2>2. structures[i].size * ByteBits = MaxBits[i]
    BY <1>4, <1>6, <1>9 DEF SameAsImage, Whole, ByteBits
  <2> QED BY <2>1, <2>2 DEF Agrees
<1> QED BY <1>1, <1>2, <1>5, <1>8

-----------------------------------------------------------------------------
(* What the structure has a member for.                                    *)

PlainOf(i, plain) ==
    \A k \in DOMAIN Fields[i] :
      /\ Fields[i][k].cat # "void"
      /\ Fields[i][k].cat = "bool" => ~IsArray(Fields[i][k])
      /\ IsComposite(Fields[i][k]) => plain[Fields[i][k].ref]

PlainFrom(plain) == plain = [i \in TypeIds |-> PlainOf(i, plain)]

LEMMA PlainOfEarlier ==
  ASSUME NEW i \in TypeIds, NEW plain, NEW more, \A j \in TypeIds : j < i => plain[j] = more[j]
  PROVE  PlainOf(i, plain) = PlainOf(i, more)
<1>1. \A k \in DOMAIN Fields[i] :
        IsComposite(Fields[i][k]) => plain[Fields[i][k].ref] = more[Fields[i][k].ref]
  BY FieldsAre
<1> QED BY <1>1, Zenon DEF PlainOf

LEMMA PlainExists == \E plain : PlainFrom(plain)
<1> DEFINE IsTo(m, f) == /\ DOMAIN f = TypeIds
                         /\ f = [j \in TypeIds |-> f[j]]
                         /\ \A i \in TypeIds : i <= m => f[i] = PlainOf(i, f)
           N == {m \in Nat : \E f : IsTo(m, f)}
<1>0. TypeIds = 1 .. Len(Types) /\ Len(Types) \in Nat
  BY LayoutConstants DEF TypeIds, IsSequence
<1>1. 0 \in N
  <2>1. IsTo(0, [i \in TypeIds |-> {}])
    BY <1>0
  <2> QED BY <2>1
<1>2. ASSUME NEW m \in Nat, m \in N PROVE m + 1 \in N
  <2>1. PICK f : IsTo(m, f)
    BY <1>2
  <2> DEFINE more == [i \in TypeIds |-> IF i = m + 1 THEN PlainOf(m + 1, f) ELSE f[i]]
  <2>2. ASSUME NEW i \in TypeIds, i <= m + 1 PROVE more[i] = PlainOf(i, more)
    <3>1. \A j \in TypeIds : j < i => f[j] = more[j]
      BY <1>0, <2>2
    <3>2. PlainOf(i, more) = PlainOf(i, f)
      <4> HIDE DEF more
      <4> QED BY <3>1, PlainOfEarlier
    <3>3. i # m + 1 => i <= m
      BY <1>0, <2>2
    <3>4. CASE i = m + 1
      <4>1. more[i] = PlainOf(m + 1, f)
        BY <3>4
      <4> QED BY <3>2, <3>4, <4>1, Zenon
    <3>5. CASE i # m + 1
      <4>1. more[i] = f[i]
        BY <3>5
      <4>2. f[i] = PlainOf(i, f)
        BY <2>1, <3>3, <3>5
      <4> QED BY <3>2, <4>1, <4>2, Zenon
    <3> QED BY <3>4, <3>5
  <2>3. DOMAIN more = TypeIds /\ more = [j \in TypeIds |-> more[j]]
    OBVIOUS
  <2> HIDE DEF more
  <2>4. IsTo(m + 1, more)
    BY <2>2, <2>3
  <2> QED BY <2>4
<1> HIDE DEF N
<1>3. Len(Types) \in N
  BY <1>0, <1>1, <1>2, Induction
<1>4. PICK f : IsTo(Len(Types), f)
  BY <1>3 DEF N
<1>5. ASSUME NEW i \in TypeIds PROVE f[i] = PlainOf(i, f)
  <2>1. i <= Len(Types)
    BY <1>0
  <2> QED BY <1>4, <2>1
<1>6. [j \in TypeIds |-> f[j]] = [j \in TypeIds |-> PlainOf(j, f)]
  BY <1>5, Zenon
<1>7. PlainFrom(f)
  BY <1>4, <1>6, Zenon DEF PlainFrom
<1> QED BY <1>7

LEMMA PlainUnfolds ==
  ASSUME NEW i \in TypeIds
  PROVE  /\ Plain[i] = PlainOf(i, Plain)
         /\ Plain[i] \in BOOLEAN
<1> DEFINE plain == CHOOSE f : PlainFrom(f)
<1>1. PlainFrom(plain)
  BY PlainExists, Zenon
<1>2. Plain = [j \in TypeIds |-> plain[j]]
  BY Zenon DEF Plain, PlainFrom, PlainOf
<1> HIDE DEF plain
<1>3. \A j \in TypeIds : Plain[j] = plain[j]
  BY <1>2
<1>4. PlainOf(i, plain) = PlainOf(i, Plain)
  BY <1>3, PlainOfEarlier
<1>5. plain[i] = PlainOf(i, plain)
  BY <1>1, Zenon DEF PlainFrom
<1>6. Plain[i] = PlainOf(i, Plain)
  BY <1>3, <1>4, <1>5, Zenon
<1>7. PlainOf(i, Plain) \in BOOLEAN
  BY Zenon DEF PlainOf
<1> QED BY <1>6, <1>7, Zenon

(* An image is plain.                                                      *)
LEMMA ImagesArePlain ==
  ASSUME \A j \in TypeIds : Accepted(j)
  PROVE  \A j \in TypeIds : Imaged(j) => Plain[j]
<1> DEFINE N == {m \in Nat : \A j \in TypeIds : j <= m /\ Imaged(j) => Plain[j]}
<1>0. TypeIds = 1 .. Len(Types) /\ Len(Types) \in Nat
  BY LayoutConstants DEF TypeIds, IsSequence
<1>1. 0 \in N
  BY <1>0
<1>2. ASSUME NEW m \in Nat, m \in N PROVE m + 1 \in N
  <2> SUFFICES ASSUME NEW j \in TypeIds, j = m + 1, Imaged(j) PROVE Plain[j]
    BY <1>0, <1>2
  <2>1. \A h \in TypeIds : h < j /\ Imaged(h) => Plain[h]
    BY <1>0, <1>2
  <2>2. ASSUME NEW k \in DOMAIN Fields[j]
        PROVE  /\ Fields[j][k].cat # "void"
               /\ Fields[j][k].cat # "bool"
               /\ IsComposite(Fields[j][k]) => Plain[Fields[j][k].ref]
    <3>1. k \in 1 .. Len(Fields[j])
      BY Definitions
    <3>2. Fields[j][k].cat # "void" /\ ElementAt(j, k).holds
      BY <3>1, ImageIs
    <3>3. IsComposite(Fields[j][k]) => /\ Fields[j][k].ref \in TypeIds /\ Fields[j][k].ref < j
                                       /\ Imaged(Fields[j][k].ref)
      BY <3>1, FieldsAre, ImageIsFlat
    <3>4. ASSUME Fields[j][k].cat = "bool" PROVE FALSE
      <4>1. Fields[j][k].bits = 1 /\ ~IsComposite(Fields[j][k]) /\ Fields[j][k].bits \in 0 .. 64
        BY <3>4, FieldsAre, BitsOfField DEF IsField, IsComposite
      <4>2. ScalarImage(Fields[j][k]).holds
        BY <3>2, <4>1 DEF ElementAt, ElementImage
      <4>3. Fields[j][k].bits \in {8, 16, 32, 64}
        BY <4>1, <4>2, ScalarImageIs
      <4> QED BY <4>1, <4>3
    <3> QED BY <2>1, <3>2, <3>3, <3>4
  <2>3. PlainOf(j, Plain)
    BY <2>2, Zenon DEF PlainOf
  <2> QED BY <2>3, PlainUnfolds
<1> HIDE DEF N
<1>3. Len(Types) \in N
  BY <1>0, <1>1, <1>2, Induction
<1> QED BY <1>0, <1>3 DEF N

-----------------------------------------------------------------------------
(* What is flat and plain the compiler never packs tighter than the wire;  *)
(* and if it is no looser, the structure is the image.                     *)

LEMMA MoreOfMore ==
  ASSUME NEW a \in Nat, NEW b \in Nat, NEW c \in Nat, a >= b, c >= 1
  PROVE  /\ a * c \in Nat /\ b * c \in Nat /\ a * c >= b * c
         /\ a * c = b * c => a = b
<1>1. PICK d \in Nat : a = b + d
  <2>1. a - b \in Nat /\ a = b + (a - b)
    OBVIOUS
  <2> QED BY <2>1
<1>2. PICK e \in Nat : c = e + 1
  <2>1. c - 1 \in Nat /\ c = (c - 1) + 1
    OBVIOUS
  <2> QED BY <2>1
<1>3. a * c = b * c + d * c
  BY <1>1
<1>4. d * c = d * e + d /\ d * e \in Nat
  BY <1>2
<1>5. a * c \in Nat /\ b * c \in Nat
  OBVIOUS
<1> QED BY <1>1, <1>3, <1>4, <1>5

LEMMA PadToMore ==
  ASSUME NEW n \in Nat, NEW a \in {1, 2, 4, 8}
  PROVE  PadTo(n, a) >= n /\ (PadTo(n, a) = n => n % a = 0)
<1>1. CASE a = 1
  BY <1>1 DEF PadTo
<1>2. CASE a = 2
  BY <1>2 DEF PadTo
<1>3. CASE a = 4
  BY <1>3 DEF PadTo
<1>4. CASE a = 8
  BY <1>4 DEF PadTo
<1> QED BY <1>1, <1>2, <1>3, <1>4

(* The storage of a scalar is no narrower than the scalar.                 *)
LEMMA ScalarMemberIs ==
  ASSUME NEW f, f.bits \in 1 .. 64, ~IsComposite(f), f.cat # "void", NEW structures
  PROVE  LET one == StructureMember(f, structures) IN
         /\ one.size \in Nat /\ one.align \in {1, 2, 4, 8}
         /\ ByteBits * one.size >= f.bits
         /\ ByteBits * one.size = f.bits =>
              ScalarImage(f).holds /\ ScalarImage(f).size = one.size /\ ScalarImage(f).align = one.align
<1>1. PICK b \in 1 .. 64 : b = f.bits
  OBVIOUS
<1>2. HeldIn(b) \in {8, 16, 32, 64} /\ b <= HeldIn(b)
  BY HeldInIs
<1> DEFINE bytes == HeldIn(b) \div 8
<1>3. bytes \in {1, 2, 4, 8} /\ 8 * bytes = HeldIn(b)
  BY <1>2
<1>4. StructureMember(f, structures)
        = [size |-> bytes, align |-> IF bytes = 0 THEN 1 ELSE bytes, offsets |-> << >>]
  BY <1>1 DEF StructureMember, ByteBits
<1>5. ScalarImage(f) = [holds |-> HeldIn(b) = b, size |-> b \div 8, align |-> b \div 8]
  BY <1>1 DEF ScalarImage, ByteBits
<1>6. ASSUME 8 * bytes = b
      PROVE  /\ ScalarImage(f).holds
             /\ ScalarImage(f).size = bytes /\ ScalarImage(f).align = bytes
  <2>1. HeldIn(b) = b /\ b \div 8 = bytes
    BY <1>3, <1>6
  <2> HIDE DEF bytes
  <2>2. (HeldIn(b) = b) = TRUE
    BY <2>1
  <2>3. ScalarImage(f) = [holds |-> TRUE, size |-> bytes, align |-> bytes]
    BY <1>5, <2>1, <2>2, Zenon
  <2> QED BY <2>3
<1> HIDE DEF bytes
<1>7. /\ StructureMember(f, structures).size = bytes
      /\ StructureMember(f, structures).align = bytes
  <2>1. bytes # 0
    BY <1>3
  <2> QED BY <1>4, <2>1
<1> QED BY <1>1, <1>2, <1>3, <1>6, <1>7 DEF ByteBits

LEMMA StructureWithStarts ==
  ASSUME NEW at, NEW f, NEW one
  PROVE  StructureWith(at, f, one).size = PadTo(at.size, one.align) + one.size * CountOf(f)
BY Zenon DEF StructureWith, CountOf

LEMMA ImageGoes ==
  ASSUME NEW at, NEW f, NEW element,
         at.holds, f.cat # "void", element.holds, at.size % element.align = 0
  PROVE  /\ ImageWith(at, f, element).holds
         /\ ImageWith(at, f, element).size = at.size + element.size * CountOf(f)
         /\ ImageWith(at, f, element).align = Larger(at.align, element.align)
<1> DEFINE size == at.size + element.size * CountOf(f)
           align == Larger(at.align, element.align)
           more == [holds |-> TRUE, size |-> size, align |-> align]
<1>1. ImageWith(at, f, element) = more
  BY DEF ImageWith, CountOf, Larger
<1> HIDE DEF size, align
<1>2. more.holds /\ more.size = size /\ more.align = align
  OBVIOUS
<1> QED BY <1>1, <1>2, Zenon DEF size, align

IsTight(i) == WireFlat[i] /\ Plain[i]

(* As long as the wire form or longer, and an image if it is as long.      *)
IsNoShorter(i, c) ==
    /\ c.size \in Nat /\ c.align \in {1, 2, 4, 8}
    /\ ByteBits * c.size >= MaxBits[i]
    /\ ByteBits * c.size = MaxBits[i] => Imaged(i) /\ SameAsImage(i, c)

LEMMA MemberIsNoShorter ==
  ASSUME NEW i \in TypeIds, IsTight(i), \A j \in TypeIds : Accepted(j),
         NEW structures, \A j \in TypeIds : j < i /\ IsTight(j) => IsNoShorter(j, structures[j]),
         NEW k \in 1 .. Len(Fields[i])
  PROVE  LET one == StructureMember(Fields[i][k], structures) IN
         /\ one.size \in Nat /\ one.align \in {1, 2, 4, 8}
         /\ ByteBits * one.size >= WidthOf(Fields[i][k])
         /\ ByteBits * one.size = WidthOf(Fields[i][k]) =>
              ElementAt(i, k).holds /\ ElementAt(i, k).size = one.size /\ ElementAt(i, k).align = one.align
<1> DEFINE f == Fields[i][k]
           one == StructureMember(f, structures)
<1>1. k \in DOMAIN Fields[i] /\ Plain[i] = TRUE /\ WireFlat[i]
  BY Definitions, PlainUnfolds DEF IsTight
<1>2. /\ f.cat # "void"
      /\ IsComposite(f) => Plain[f.ref]
  <2>1. PlainOf(i, Plain)
    BY <1>1, PlainUnfolds
  <2> QED BY <1>1, <2>1, Zenon DEF PlainOf
<1>3. IsComposite(f) => f.ref \in TypeIds /\ f.ref < i /\ IsTight(f.ref)
  BY <1>1, <1>2, FieldsAre, FlatIs DEF IsTight
<1>4. ~IsComposite(f) => f.bits \in 1 .. 64
  <2>1. f.bits \in 0 .. 64 /\ (~IsComposite(f) => f.bits > 0)
    BY <1>1, <1>2, BitsOfField, FlatIs
  <2> HIDE DEF f
  <2> QED BY <2>1
<1>5. CASE IsComposite(f)
  <2>1. one = structures[f.ref] /\ ElementAt(i, k) = HostImage[f.ref] /\ WidthOf(f) = MaxBits[f.ref]
    BY <1>5 DEF StructureMember, ElementAt, ElementImage, WidthOf
  <2>2. IsNoShorter(f.ref, structures[f.ref])
    BY <1>3, <1>5
  <2> QED BY <2>1, <2>2 DEF IsNoShorter, Imaged, SameAsImage
<1>6. CASE ~IsComposite(f)
  <2>1. ElementAt(i, k) = ScalarImage(f) /\ WidthOf(f) = f.bits
    BY <1>6 DEF ElementAt, ElementImage, WidthOf
  <2>2. f.bits \in 1 .. 64 /\ f.cat # "void"
    BY <1>2, <1>4, <1>6
  <2> HIDE DEF f
  <2>3. /\ one.size \in Nat /\ one.align \in {1, 2, 4, 8}
        /\ ByteBits * one.size >= f.bits
        /\ ByteBits * one.size = f.bits =>
             ScalarImage(f).holds /\ ScalarImage(f).size = one.size /\ ScalarImage(f).align = one.align
    BY <1>6, <2>2, ScalarMemberIs, Zenon
  <2> QED BY <2>1, <2>3, Zenon DEF f
<1> QED BY <1>5, <1>6

LEMMA StructureIsNoShorter ==
  ASSUME NEW i \in TypeIds, IsTight(i), \A j \in TypeIds : Accepted(j),
         NEW structures, \A j \in TypeIds : j < i /\ IsTight(j) => IsNoShorter(j, structures[j])
  PROVE  /\ StructureFrom(i, structures).size \in Nat
         /\ StructureFrom(i, structures).align \in {1, 2, 4, 8}
         /\ ByteBits * StructureFrom(i, structures).size >= MaxBits[i]
         /\ ByteBits * StructureFrom(i, structures).size = MaxBits[i] => Imaged(i)
<1> DEFINE N == Len(Fields[i])
           own == MembersFrom(i, structures)
           run(n) == RunBefore(Fields[i], MaxBits, n + 1)
           c(n) == CountOf(Fields[i][n])
           width(n) == WidthOf(Fields[i][n])
<1>1. N \in Nat /\ DOMAIN Fields[i] = 1 .. N /\ WireFlat[i] /\ Plain[i]
  BY Definitions DEF IsTight
<1>2. \A k \in DOMAIN Fields[i] : own[k] = StructureMember(Fields[i][k], structures)
  BY Zenon DEF MembersFrom
<1> HIDE DEF own
<1>3. ASSUME NEW k \in 1 .. N
      PROVE  /\ own[k].size \in Nat /\ own[k].align \in {1, 2, 4, 8}
             /\ ByteBits * own[k].size >= width(k)
             /\ ByteBits * own[k].size = width(k) => /\ ElementAt(i, k).holds
                                                     /\ ElementAt(i, k).size = own[k].size
                                                     /\ ElementAt(i, k).align = own[k].align
  <2>1. own[k] = StructureMember(Fields[i][k], structures)
    BY <1>1, <1>2
  <2> DEFINE one == StructureMember(Fields[i][k], structures)
  <2>2. /\ one.size \in Nat /\ one.align \in {1, 2, 4, 8}
        /\ ByteBits * one.size >= WidthOf(Fields[i][k])
        /\ ByteBits * one.size = WidthOf(Fields[i][k]) =>
             ElementAt(i, k).holds /\ ElementAt(i, k).size = one.size /\ ElementAt(i, k).align = one.align
    BY MemberIsNoShorter
  <2> HIDE DEF one
  <2>3. own[k] = one
    BY <2>1 DEF one
  <2> QED BY <2>2, <2>3, Zenon
<1>4. PICK upTo : /\ Laid(i, own, upTo)
                  /\ StructureOf(Fields[i], own) = [upTo[N] EXCEPT !.size = PadTo(@, upTo[N].align)]
  <2>1. \A k \in 1 .. Len(Fields[i]) : own[k].size \in Nat /\ own[k].align \in {1, 2, 4, 8}
    BY <1>3, Zenon
  <2> QED BY <2>1, StructureOfIs, Zenon
<1>5. /\ upTo[0].size = 0 /\ upTo[0].align = 1
      /\ \A n \in 0 .. N : upTo[n] \in AStructure /\ upTo[n].size \in Nat /\ upTo[n].align \in {1, 2, 4, 8}
  BY <1>4 DEF Laid, AStructure
<1>6. ASSUME NEW n \in 1 .. N
      PROVE  /\ run(n) = run(n - 1) + width(n) * c(n)
             /\ run(n - 1) \in Nat /\ width(n) \in Nat /\ c(n) \in Nat /\ c(n) >= 1
             /\ n - 1 \in 0 .. N /\ Fields[i][n].cap \in Nat
  <2>1. (n - 1) + 1 = n /\ n - 1 \in 0 .. N /\ n \in DOMAIN Fields[i]
    BY <1>1
  <2>2. /\ RunBefore(Fields[i], MaxBits, n) \in Nat
        /\ RunBefore(Fields[i], MaxBits, n + 1)
             = RunBefore(Fields[i], MaxBits, n) + RunBits(Fields[i][n], MaxBits)
    BY <1>1, FlatRuns
  <2>3. RunBits(Fields[i][n], MaxBits) = width(n) * c(n) /\ c(n) \in Nat /\ width(n) \in Nat
    BY <2>1, RunBitsAre
  <2>4. c(n) >= 1
    BY <1>1, FlatIs DEF CountOf
  <2>5. Fields[i][n].cap \in Nat
    BY <2>1, FieldsAre DEF IsField
  <2> QED BY <2>1, <2>2, <2>3, <2>4, <2>5
<1>7. run(0) = 0 /\ run(N) = MaxBits[i]
  BY <1>1, FlatRuns, FlatRunIsLength
<1> HIDE DEF run, c, width
\* One more member adds to the structure no less than to the wire.
<1>8. ASSUME NEW n \in 1 .. N, ByteBits * upTo[n - 1].size >= run(n - 1)
      PROVE  /\ ByteBits * upTo[n].size >= run(n)
             /\ ByteBits * upTo[n].size = run(n) =>
                  /\ ByteBits * upTo[n - 1].size = run(n - 1)
                  /\ ByteBits * own[n].size = width(n)
                  /\ upTo[n - 1].size % own[n].align = 0
                  /\ upTo[n].size = upTo[n - 1].size + own[n].size * c(n)
                  /\ upTo[n].align = Larger(upTo[n - 1].align, own[n].align)
  <2> DEFINE s == upTo[n - 1].size
             start == PadTo(s, own[n].align)
  <2>1. upTo[n] = StructureWith(upTo[n - 1], Fields[i][n], own[n])
    BY <1>4 DEF Laid
  <2>2. s \in Nat /\ start \in Nat /\ start >= s /\ (start = s => s % own[n].align = 0)
    <3>1. upTo[n - 1].size \in Nat /\ own[n].align \in {1, 2, 4, 8}
      BY <1>3, <1>5, <1>6
    <3> QED BY <3>1, PadToMore, PadToNone
  <2>3. upTo[n].size = start + own[n].size * c(n)
    BY <2>1, StructureWithStarts DEF c
  <2>4. upTo[n].align = Larger(upTo[n - 1].align, own[n].align)
    <3>1. upTo[n - 1] \in AStructure /\ Fields[i][n].cap \in Nat
      BY <1>5, <1>6
    <3> QED BY <1>3, <2>1, <3>1, StructureWithIs
  <2> HIDE DEF start, s
  <2>5. PICK a \in Nat : a = own[n].size
    BY <1>3
  <2>6. ByteBits * a \in Nat /\ ByteBits * a >= width(n)
    BY <1>3, <2>5 DEF ByteBits
  <2>7. /\ (ByteBits * a) * c(n) \in Nat /\ width(n) * c(n) \in Nat
        /\ (ByteBits * a) * c(n) >= width(n) * c(n)
        /\ (ByteBits * a) * c(n) = width(n) * c(n) => ByteBits * a = width(n)
    BY <1>6, <2>6, MoreOfMore
  <2>8. (ByteBits * a) * c(n) = ByteBits * (a * c(n)) /\ a * c(n) \in Nat
    BY <1>6 DEF ByteBits
  <2>9. PICK x \in Nat, y \in Nat : x = a * c(n) /\ y = width(n) * c(n)
    BY <2>7, <2>8
  <2>10. ByteBits * s >= run(n - 1) /\ run(n - 1) \in Nat /\ run(n) = run(n - 1) + y
    BY <1>6, <1>8, <2>9 DEF s
  <2>11. upTo[n].size = start + x /\ ByteBits * x >= y
    BY <2>3, <2>5, <2>7, <2>8, <2>9
  <2>12. ByteBits * upTo[n].size >= run(n)
    BY <2>2, <2>10, <2>11 DEF ByteBits
  <2>13. ASSUME ByteBits * upTo[n].size = run(n)
         PROVE  start = s /\ ByteBits * s = run(n - 1) /\ ByteBits * x = y
    BY <2>2, <2>10, <2>11, <2>13 DEF ByteBits
  <2>14. ByteBits * x = y => ByteBits * own[n].size = width(n)
    BY <2>5, <2>7, <2>8, <2>9
  <2> QED BY <2>2, <2>3, <2>4, <2>12, <2>13, <2>14 DEF s
<1>9. \A n \in 0 .. N : ByteBits * upTo[n].size >= run(n)
  <2> DEFINE K == {n \in Nat : n <= N => ByteBits * upTo[n].size >= run(n)}
  <2>1. 0 \in K
    BY <1>5, <1>7 DEF ByteBits
  <2>2. ASSUME NEW n \in Nat, n \in K PROVE n + 1 \in K
    <3>1. n + 1 <= N => n + 1 \in 1 .. N /\ (n + 1) - 1 = n
      BY <1>1
    <3> QED BY <1>8, <2>2, <3>1
  <2> HIDE DEF K
  <2>3. \A n \in Nat : n \in K
    BY <2>1, <2>2, Induction
  <2> QED BY <1>1, <2>3 DEF K
<1> DEFINE S == StructureFrom(i, structures)
<1>10. upTo[N] \in AStructure /\ upTo[N].size \in Nat /\ upTo[N].align \in {1, 2, 4, 8} /\ N \in 0 .. N
  BY <1>1, <1>5
<1>11. /\ S.size = PadTo(upTo[N].size, upTo[N].align)
       /\ S.align = upTo[N].align
  <2>1. S = [upTo[N] EXCEPT !.size = PadTo(upTo[N].size, upTo[N].align)]
    BY <1>4, Zenon DEF StructureFrom, own
  <2> HIDE DEF S
  <2> QED BY <1>10, <2>1 DEF AStructure
<1> HIDE DEF S
<1>12. S.size \in Nat /\ S.size >= upTo[N].size /\ (S.size = upTo[N].size => upTo[N].size % upTo[N].align = 0)
  <2>1. PICK n \in Nat, a \in {1, 2, 4, 8} : n = upTo[N].size /\ a = upTo[N].align
    BY <1>10
  <2>2. PadTo(n, a) \in Nat /\ PadTo(n, a) >= n /\ (PadTo(n, a) = n => n % a = 0)
    BY PadToMore, PadToNone
  <2> QED BY <1>11, <2>1, <2>2, Zenon
<1>13. ByteBits * upTo[N].size >= MaxBits[i] /\ MaxBits[i] \in Nat
  BY <1>7, <1>9, <1>10, FixedBitsAre
<1>14. ByteBits * S.size >= MaxBits[i]
  BY <1>10, <1>12, <1>13 DEF ByteBits
<1>15. ASSUME ByteBits * S.size = MaxBits[i] PROVE Imaged(i)
  <2>1. ByteBits * upTo[N].size = run(N) /\ upTo[N].size % upTo[N].align = 0
    BY <1>7, <1>10, <1>12, <1>13, <1>15 DEF ByteBits
  <2>2. \A n \in 0 .. N : ByteBits * upTo[n].size = run(n)
    <3> DEFINE K == {n \in Nat : n <= N => ByteBits * upTo[N - n].size = run(N - n)}
    <3>1. 0 \in K
      BY <1>1, <2>1
    <3>2. ASSUME NEW n \in Nat, n \in K PROVE n + 1 \in K
      <4>1. n + 1 <= N => N - n \in 1 .. N /\ (N - n) - 1 = N - (n + 1) /\ (N - n) - 1 \in 0 .. N
        BY <1>1
      <4> QED BY <1>8, <1>9, <3>2, <4>1
    <3> HIDE DEF K
    <3>3. \A n \in Nat : n \in K
      BY <3>1, <3>2, Induction
    <3>4. ASSUME NEW n \in 0 .. N PROVE N - n \in Nat /\ N - n <= N /\ N - (N - n) = n
      BY <1>1
    <3> QED BY <3>3, <3>4 DEF K
  <2> DEFINE elements == ElementsFrom(i, HostImage)
  <2>3. \A k \in 1 .. N : elements[k] = ElementAt(i, k) /\ elements[k] \in AnImage
    BY <1>1, ElementsAre DEF ElementsFrom, ElementAt
  <2>4. HostImage[i] = ImageOf(Fields[i], WireFlat[i], elements)
    BY HostImageIs, Zenon DEF ImageFrom
  <2> HIDE DEF elements
  <2>5. PICK members : /\ GoesOn(i, elements, members)
                       /\ ImageOf(Fields[i], WireFlat[i], elements) = WholeImage(members[N])
    BY <1>1, <2>3, ImageOfIs
  <2> DEFINE Same(n) == /\ members[n].holds
                        /\ members[n].size = upTo[n].size /\ members[n].align = upTo[n].align
             J == {n \in Nat : n <= N => Same(n)}
  <2>6. 0 \in J
    <3>1. WireFlat[i] = TRUE
      BY <1>1, WireFlatIs DEF IsFlat
    <3>2. members[0] = [holds |-> TRUE, size |-> 0, align |-> 1]
      BY <2>5, <3>1, Zenon DEF GoesOn
    <3> QED BY <1>5, <3>2
  <2>7. ASSUME NEW n \in Nat, n \in J PROVE n + 1 \in J
    <3> SUFFICES ASSUME n + 1 <= N PROVE Same(n + 1)
      OBVIOUS
    <3>1. n + 1 \in 1 .. N /\ (n + 1) - 1 = n /\ n \in 0 .. N /\ n + 1 \in 0 .. N
      BY <1>1
    <3>2. Same(n)
      BY <2>7, <3>1
    <3>3. members[n + 1] = ImageWith(members[n], Fields[i][n + 1], ElementAt(i, n + 1))
      BY <2>3, <2>5, <3>1 DEF GoesOn
    <3>4. /\ ByteBits * own[n + 1].size = width(n + 1)
          /\ upTo[n].size % own[n + 1].align = 0
          /\ upTo[n + 1].size = upTo[n].size + own[n + 1].size * c(n + 1)
          /\ upTo[n + 1].align = Larger(upTo[n].align, own[n + 1].align)
      BY <1>8, <1>9, <2>2, <3>1
    <3>5. /\ ElementAt(i, n + 1).holds
          /\ ElementAt(i, n + 1).size = own[n + 1].size
          /\ ElementAt(i, n + 1).align = own[n + 1].align
      BY <1>3, <3>1, <3>4
    <3>6. Fields[i][n + 1].cat # "void"
      <4>1. PlainOf(i, Plain)
        BY <1>1, PlainUnfolds
      <4> QED BY <1>1, <3>1, <4>1, Zenon DEF PlainOf
    <3>7. members[n].size % ElementAt(i, n + 1).align = 0
      BY <3>2, <3>4, <3>5, Zenon
    <3>8. /\ ImageWith(members[n], Fields[i][n + 1], ElementAt(i, n + 1)).holds
          /\ ImageWith(members[n], Fields[i][n + 1], ElementAt(i, n + 1)).size
               = members[n].size + ElementAt(i, n + 1).size * c(n + 1)
          /\ ImageWith(members[n], Fields[i][n + 1], ElementAt(i, n + 1)).align
               = Larger(members[n].align, ElementAt(i, n + 1).align)
      <4>1. c(n + 1) = CountOf(Fields[i][n + 1])
        BY DEF c
      <4>2. members[n].holds
        BY <3>2
      <4> QED BY <3>5, <3>6, <3>7, <4>1, <4>2, ImageGoes
    <3> QED BY <3>2, <3>3, <3>4, <3>5, <3>8, Zenon
  <2> HIDE DEF J
  <2>8. \A n \in Nat : n \in J
    BY <2>6, <2>7, Induction
  <2>9. Same(N)
    BY <1>1, <2>8 DEF J
  <2>10. members[N].size % members[N].align = 0
    BY <2>1, <2>9, Zenon
  <2>11. WholeImage(members[N]) = members[N]
    BY <2>9, <2>10 DEF WholeImage
  <2> QED BY <2>4, <2>5, <2>9, <2>11, Zenon DEF Imaged
<1> QED BY <1>10, <1>11, <1>12, <1>14, <1>15 DEF S

LEMMA StructuresAreNoShorter ==
  ASSUME \A j \in TypeIds : Accepted(j), NEW structures, Structured(structures)
  PROVE  \A i \in TypeIds : IsTight(i) => IsNoShorter(i, structures[i])
<1> DEFINE N == {m \in Nat : \A j \in TypeIds : j <= m /\ IsTight(j) => IsNoShorter(j, structures[j])}
<1>0. TypeIds = 1 .. Len(Types) /\ Len(Types) \in Nat
  BY LayoutConstants DEF TypeIds, IsSequence
<1>1. 0 \in N
  BY <1>0
<1>2. ASSUME NEW m \in Nat, m \in N PROVE m + 1 \in N
  <2> SUFFICES ASSUME NEW j \in TypeIds, j = m + 1, IsTight(j) PROVE IsNoShorter(j, structures[j])
    BY <1>0, <1>2
  <2>1. \A h \in TypeIds : h < j /\ IsTight(h) => IsNoShorter(h, structures[h])
    BY <1>0, <1>2
  <2>2. structures[j] = StructureFrom(j, structures)
    BY Zenon DEF Structured
  <2>3. Imaged(j) => SameAsImage(j, structures[j])
    BY StructuresAreImages
  <2>4. /\ StructureFrom(j, structures).size \in Nat
        /\ StructureFrom(j, structures).align \in {1, 2, 4, 8}
        /\ ByteBits * StructureFrom(j, structures).size >= MaxBits[j]
        /\ ByteBits * StructureFrom(j, structures).size = MaxBits[j] => Imaged(j)
    BY <2>1, StructureIsNoShorter
  <2> QED BY <2>2, <2>3, <2>4, Zenon DEF IsNoShorter
<1> HIDE DEF N
<1>3. Len(Types) \in N
  BY <1>0, <1>1, <1>2, Induction
<1> QED BY <1>0, <1>3 DEF N

(* The verdicts of every definition the analyser accepts, against the      *)
(* compiler: what is flat the lowering derives to be flat and gives places *)
(* on bytes, and computeHostImage calls an image exactly the plain ones    *)
(* whose structure lies in memory as on the wire.  A structure is never    *)
(* shorter than the wire form, so one of its length has no padding.        *)
THEOREM VerdictsAreRight ==
  ASSUME \A j \in TypeIds : Accepted(j), NEW i \in TypeIds
  PROVE  IsTheStructure(i, WireFlat[i], HostImage[i].holds)
<1>1. WireFlat[i] => /\ VerifiedFlat(i) /\ HasFixedOffsets(i)
                     /\ \A k \in DOMAIN Fields[i] :
                           Fields[i][k].cat # "void" => FixedFieldOffset(i, k) % ByteBits = 0
  BY FlatsAreVerified, Zenon
<1>2. Imaged(i) => WireFlat[i] /\ Plain[i] /\ Agrees(i, Structure[i])
  BY ImagesAreStructures, ImagesArePlain, Zenon DEF Imaged
<1>3. ASSUME WireFlat[i], Plain[i], Agrees(i, Structure[i]) PROVE Imaged(i)
  <2>1. PICK structures : /\ Structured(structures)
                          /\ Structure = [j \in {h \in TypeIds : WireFlat[h]} |-> structures[j]]
    BY StructuresOfAre DEF Structure, Structured
  <2>2. Structure[i] = structures[i]
    BY <1>3, <2>1
  <2>3. IsNoShorter(i, structures[i])
    BY <1>3, <2>1, StructuresAreNoShorter DEF IsTight
  <2>4. ByteBits * structures[i].size = MaxBits[i]
    BY <1>3, <2>2, <2>3 DEF Agrees, IsNoShorter, ByteBits
  <2> QED BY <2>3, <2>4, Zenon DEF IsNoShorter
<1>4. HostImage[i].holds <=> WireFlat[i] /\ Plain[i] /\ Agrees(i, Structure[i])
  BY <1>2, <1>3, Zenon DEF Imaged
<1> QED BY <1>1, <1>4, Zenon DEF IsTheStructure

-----------------------------------------------------------------------------
(* The scalars of an image.                                                *)

Images == {i \in TypeIds : HostImage[i].holds}

Scalars(i, structures, scalars) ==
    UNION {MemberScalars(Fields[i][k], k, ByteBits * structures[i].offsets[k],
                         ByteBits * StructureMember(Fields[i][k], structures).size, scalars)
             : k \in DOMAIN Fields[i]}

ScalarsFrom(structures, scalars) ==
    scalars = [i \in DOMAIN structures |-> Scalars(i, structures, scalars)]

LEMMA MemberScalarsAre ==
  ASSUME NEW f, NEW k, NEW at, NEW size, NEW scalars, NEW more,
         IsComposite(f) => scalars[f.ref] = more[f.ref]
  PROVE  MemberScalars(f, k, at, size, scalars) = MemberScalars(f, k, at, size, more)
<1> DEFINE path(n) == IF IsArray(f) THEN <<k, n + 1>> ELSE <<k>>
           in(of, n) == {[path |-> path(n) \o s.path, f |-> s.f, at |-> s.at + at + n * size] : s \in of}
           one(of, n) == IF IsComposite(f) THEN in(of[f.ref], n)
                         ELSE {[path |-> path(n), f |-> f, at |-> at + n * size]}
           L == 0 .. (IF IsArray(f) THEN f.cap - 1 ELSE 0)
<1>1. /\ MemberScalars(f, k, at, size, scalars) = UNION {one(scalars, n) : n \in L}
      /\ MemberScalars(f, k, at, size, more) = UNION {one(more, n) : n \in L}
  BY Zenon DEF MemberScalars
<1> HIDE DEF in
<1>2. \A n \in L : one(scalars, n) = one(more, n)
  OBVIOUS
<1> HIDE DEF one, L
<1> QED BY <1>1, <1>2

LEMMA ScalarsOfEarlier ==
  ASSUME NEW i \in Images, \A j \in TypeIds : Accepted(j), NEW structures,
         NEW scalars, NEW more, \A j \in Images : j < i => scalars[j] = more[j]
  PROVE  Scalars(i, structures, scalars) = Scalars(i, structures, more)
<1>1. i \in TypeIds /\ Imaged(i) /\ DOMAIN Fields[i] = 1 .. Len(Fields[i])
  BY Definitions DEF Images, Imaged
<1>2. ASSUME NEW k \in DOMAIN Fields[i], NEW at, NEW size
      PROVE  MemberScalars(Fields[i][k], k, at, size, scalars)
               = MemberScalars(Fields[i][k], k, at, size, more)
  <2>1. IsComposite(Fields[i][k]) => Fields[i][k].ref \in Images /\ Fields[i][k].ref < i
    BY <1>1, FieldsAre, ImageIsFlat DEF Images, Imaged
  <2>2. IsComposite(Fields[i][k]) => scalars[Fields[i][k].ref] = more[Fields[i][k].ref]
    BY <2>1
  <2> QED BY <2>2, MemberScalarsAre
<1> QED BY <1>2, Zenon DEF Scalars

LEMMA ScalarsExist ==
  ASSUME \A j \in TypeIds : Accepted(j), NEW structures, DOMAIN structures = Images
  PROVE  \E scalars : ScalarsFrom(structures, scalars)
<1> DEFINE From(i, f) == Scalars(i, structures, f)
           IsTo(m, f) == /\ DOMAIN f = Images
                         /\ f = [j \in Images |-> f[j]]
                         /\ \A i \in Images : i <= m => f[i] = From(i, f)
           N == {m \in Nat : \E f : IsTo(m, f)}
<1>0. Images \subseteq 1 .. Len(Types) /\ Len(Types) \in Nat
  BY LayoutConstants DEF TypeIds, IsSequence, Images
<1> HIDE DEF From
<1>1. 0 \in N
  <2>1. IsTo(0, [i \in Images |-> {}])
    BY <1>0
  <2> QED BY <2>1
<1>2. ASSUME NEW m \in Nat, m \in N PROVE m + 1 \in N
  <2>1. PICK f : IsTo(m, f)
    BY <1>2
  <2> DEFINE more == [i \in Images |-> IF i = m + 1 THEN From(m + 1, f) ELSE f[i]]
  <2>2. ASSUME NEW i \in Images, i <= m + 1 PROVE more[i] = From(i, more)
    <3>1. \A j \in Images : j < i => f[j] = more[j]
      BY <1>0, <2>2
    <3>2. From(i, more) = From(i, f)
      <4> HIDE DEF more
      <4> QED BY <3>1, ScalarsOfEarlier DEF From
    <3>3. i # m + 1 => i <= m
      BY <1>0, <2>2
    <3>4. CASE i = m + 1
      <4>1. more[i] = From(m + 1, f)
        BY <3>4
      <4> QED BY <3>2, <3>4, <4>1, Zenon
    <3>5. CASE i # m + 1
      <4>1. more[i] = f[i]
        BY <3>5
      <4>2. f[i] = From(i, f)
        BY <2>1, <3>3, <3>5
      <4> QED BY <3>2, <4>1, <4>2, Zenon
    <3> QED BY <3>4, <3>5
  <2>3. DOMAIN more = Images /\ more = [j \in Images |-> more[j]]
    OBVIOUS
  <2> HIDE DEF more
  <2>4. IsTo(m + 1, more)
    BY <2>2, <2>3
  <2> QED BY <2>4
<1> HIDE DEF N
<1>3. Len(Types) \in N
  BY <1>0, <1>1, <1>2, Induction
<1>4. PICK f : IsTo(Len(Types), f)
  BY <1>3 DEF N
<1>5. ASSUME NEW i \in Images PROVE f[i] = From(i, f)
  <2>1. i <= Len(Types)
    BY <1>0
  <2> QED BY <1>4, <2>1
<1>6. [j \in Images |-> f[j]] = [j \in Images |-> From(j, f)]
  BY <1>5, Zenon
<1>7. f = [j \in DOMAIN structures |-> Scalars(j, structures, f)]
  BY <1>4, <1>6, Zenon DEF From
<1> QED BY <1>7, Zenon DEF ScalarsFrom

(* The structures the scalars are found in, and the scalars.               *)
LEMMA ImageScalarsAre ==
  ASSUME \A j \in TypeIds : Accepted(j)
  PROVE  /\ \A i \in TypeIds \ Images : ImageScalars[i] = {}
         /\ \E structures :
              /\ \A i \in Images : SameAsImage(i, structures[i])
              /\ \A i \in Images : ImageScalars[i] = Scalars(i, structures, ImageScalars)
<1> DEFINE structures == StructuresOf(Images)
           scalars == CHOOSE f : ScalarsFrom(structures, f)
<1>1. PICK all : /\ \A i \in TypeIds : all[i] = StructureFrom(i, all)
                 /\ structures = [i \in Images |-> all[i]]
  BY StructuresOfAre DEF Images
<1>2. \A i \in Images : SameAsImage(i, all[i])
  BY <1>1, StructuresAreImages DEF Structured, Images, Imaged
<1>3. DOMAIN structures = Images /\ \A i \in Images : structures[i] = all[i]
  BY <1>1
<1>4. ScalarsIn(structures) = scalars
  BY Zenon DEF ScalarsIn, ScalarsFrom, Scalars
<1>5. ImageScalars = [i \in TypeIds |-> IF i \in Images THEN ScalarsIn(structures)[i] ELSE {}]
  BY Zenon DEF ImageScalars, ScalarsOf, Images
<1> HIDE DEF structures
<1>6. ScalarsFrom(structures, scalars)
  BY <1>3, ScalarsExist, Zenon
<1> HIDE DEF scalars
<1>7. \A i \in Images : scalars[i] = Scalars(i, structures, scalars)
  BY <1>3, <1>6, Zenon DEF ScalarsFrom
<1>8. /\ \A i \in TypeIds \ Images : ImageScalars[i] = {}
      /\ \A i \in Images : ImageScalars[i] = scalars[i]
  BY <1>4, <1>5 DEF Images
<1>9. \A i \in Images : Scalars(i, structures, scalars) = Scalars(i, structures, ImageScalars)
  BY <1>8, ScalarsOfEarlier
<1>10. \A i \in Images : ImageScalars[i] = Scalars(i, structures, ImageScalars)
  BY <1>7, <1>8, <1>9, Zenon
<1>11. \A i \in Images : SameAsImage(i, structures[i])
  BY <1>2, <1>3
<1> QED BY <1>8, <1>10, <1>11

(* A scalar that lies within so many bits.                                 *)
LiesIn(s, most) ==
    /\ s.at \in Nat /\ s.f.bits \in Nat
    /\ s.at + s.f.bits <= most

LEMMA OneOfMany ==
  ASSUME NEW n \in Nat, NEW c \in Nat, n + 1 <= c, NEW w \in Nat
  PROVE  n * w + w <= w * c /\ n * w \in Nat
<1> DEFINE d == c - (n + 1)
<1>1. d \in Nat /\ c = (n + 1) + d
  OBVIOUS
<1> HIDE DEF d
<1>2. w * ((n + 1) + d) = (n * w + w) + w * d /\ w * d \in Nat /\ n * w \in Nat
  BY <1>1
<1> QED BY <1>1, <1>2

LEMMA MemberScalarsLie ==
  ASSUME NEW f, f.bits \in Nat, NEW c \in Nat, c = CountOf(f), c > 0, NEW k, NEW at \in Nat,
         NEW w \in Nat, NEW scalars, NEW most \in Nat, at + w * c <= most,
         IsComposite(f) => \A s \in scalars[f.ref] : LiesIn(s, w),
         ~ IsComposite(f) => f.bits = w
  PROVE  \A s \in MemberScalars(f, k, at, w, scalars) : LiesIn(s, most)
<1> DEFINE path(n) == IF IsArray(f) THEN <<k, n + 1>> ELSE <<k>>
           one(n) == IF IsComposite(f)
                     THEN {[path |-> path(n) \o s.path, f |-> s.f, at |-> s.at + at + n * w] : s \in scalars[f.ref]}
                     ELSE {[path |-> path(n), f |-> f, at |-> at + n * w]}
           L == 0 .. (IF IsArray(f) THEN f.cap - 1 ELSE 0)
<1>1. MemberScalars(f, k, at, w, scalars) = UNION {one(n) : n \in L}
  BY Zenon DEF MemberScalars
<1>2. \A n \in L : n \in Nat /\ n + 1 <= c
  BY DEF CountOf
<1> HIDE DEF path
<1>3. ASSUME NEW n \in L PROVE \A s \in one(n) : LiesIn(s, most)
  <2>1. n \in Nat /\ n * w + w <= w * c /\ n * w \in Nat /\ w * c \in Nat
    BY <1>2, OneOfMany
  <2>2. PICK start \in Nat : start = n * w
    BY <2>1
  <2>3. at + start + w <= most
    BY <2>1, <2>2
  <2>4. CASE IsComposite(f)
    <3> SUFFICES ASSUME NEW s \in scalars[f.ref]
                 PROVE  LiesIn([path |-> path(n) \o s.path, f |-> s.f, at |-> s.at + at + n * w], most)
      BY <2>4
    <3> DEFINE moved == [path |-> path(n) \o s.path, f |-> s.f, at |-> s.at + at + n * w]
    <3>1. s.at \in Nat /\ s.f.bits \in Nat /\ s.at + s.f.bits <= w
      BY <2>4 DEF LiesIn
    <3>2. PICK to \in Nat : to = s.at + at + n * w /\ to + s.f.bits <= most
      BY <2>2, <2>3, <3>1
    <3>3. moved.f = s.f /\ moved.at = to
      BY <3>2
    <3> HIDE DEF moved
    <3>4. LiesIn(moved, most)
      BY <3>1, <3>2, <3>3 DEF LiesIn
    <3> QED BY <3>4 DEF moved
  <2>5. CASE ~ IsComposite(f)
    <3> DEFINE s == [path |-> path(n), f |-> f, at |-> at + start]
    <3>1. LiesIn(s, most)
      BY <2>3, <2>5 DEF LiesIn
    <3> QED BY <2>2, <2>5, <3>1
  <2> QED BY <2>4, <2>5
<1> HIDE DEF one, L
<1> QED BY <1>1, <1>3

-----------------------------------------------------------------------------
(* Where a field of an image starts, and that it ends before the whole.    *)
LEMMA FieldLies ==
  ASSUME NEW i \in TypeIds, Imaged(i), \A j \in TypeIds : Accepted(j), NEW k \in 1 .. Len(Fields[i])
  PROVE  /\ MaxBits[i] \in Nat /\ FixedFieldOffset(i, k) \in Nat
         /\ FixedFieldOffset(i, k) + WidthOf(Fields[i][k]) * CountOf(Fields[i][k]) <= MaxBits[i]
<1>1. WireFlat[i] /\ k \in DOMAIN Fields[i]
  BY ImageIs, Definitions
<1>2. /\ FixedFieldOffset(i, k) = RunBefore(Fields[i], MaxBits, k)
      /\ MaxBits[i] = RunBefore(Fields[i], MaxBits, Len(Fields[i]) + 1)
  BY <1>1, FlatOffsetIs, FlatRunIsLength
<1>3. /\ RunBefore(Fields[i], MaxBits, k) \in Nat
      /\ RunBits(Fields[i][k], MaxBits) = WidthOf(Fields[i][k]) * CountOf(Fields[i][k])
      /\ RunBefore(Fields[i], MaxBits, k + 1)
            = RunBefore(Fields[i], MaxBits, k) + RunBits(Fields[i][k], MaxBits)
  BY <1>1, FlatRuns, RunBitsAre
<1>4. RunBefore(Fields[i], MaxBits, k + 1) <= RunBefore(Fields[i], MaxBits, Len(Fields[i]) + 1)
  BY <1>1, RunsGrow
<1>5. MaxBits[i] \in Nat
  BY FixedBitsAre
<1> QED BY <1>2, <1>3, <1>4, <1>5

(* The scalars of an image lie within its bytes.                           *)
THEOREM ScalarsLieInside ==
  ASSUME \A j \in TypeIds : Accepted(j), NEW i \in TypeIds
  PROVE  \A s \in ImageScalars[i] : LiesIn(s, MaxBits[i])
<1> DEFINE Good(j) == \A s \in ImageScalars[j] : LiesIn(s, MaxBits[j])
           N == {m \in Nat : \A j \in TypeIds : j <= m => Good(j)}
<1>0. TypeIds = 1 .. Len(Types) /\ Len(Types) \in Nat
  BY LayoutConstants DEF TypeIds, IsSequence
<1>1. 0 \in N
  BY <1>0
<1>2. PICK structures :
        /\ \A j \in Images : SameAsImage(j, structures[j])
        /\ \A j \in Images : ImageScalars[j] = Scalars(j, structures, ImageScalars)
  BY ImageScalarsAre
<1>3. \A j \in TypeIds \ Images : Good(j)
  BY ImageScalarsAre
<1>4. ASSUME NEW m \in Nat, m \in N PROVE m + 1 \in N
  <2> SUFFICES ASSUME NEW j \in TypeIds, j = m + 1, j \in Images PROVE Good(j)
    BY <1>0, <1>3, <1>4
  <2>1. \A h \in TypeIds : h < j => Good(h)
    BY <1>0, <1>4
  <2>2. Imaged(j) /\ DOMAIN Fields[j] = 1 .. Len(Fields[j])
    BY Definitions DEF Images, Imaged
  <2>3. \A h \in TypeIds : h < j /\ Imaged(h) => SameAsImage(h, structures[h]) /\ Whole(h)
    BY <1>2, ImagesAreWhole DEF Images, Imaged
  <2>4. ASSUME NEW k \in DOMAIN Fields[j]
        PROVE  \A s \in MemberScalars(Fields[j][k], k, ByteBits * structures[j].offsets[k],
                                      ByteBits * StructureMember(Fields[j][k], structures).size,
                                      ImageScalars) : LiesIn(s, MaxBits[j])
    <3> DEFINE f == Fields[j][k]
               c == CountOf(f)
               at == ByteBits * structures[j].offsets[k]
               w == ByteBits * StructureMember(f, structures).size
    <3>1. k \in 1 .. Len(Fields[j])
      BY <2>2
    <3>2. at = FixedFieldOffset(j, k)
      BY <1>2, <3>1 DEF SameAsImage
    <3>3. StructureMember(f, structures).size = ElementAt(j, k).size
      BY <2>2, <2>3, <3>1, MemberIsElement
    <3>4. WidthOf(f) = ByteBits * ElementAt(j, k).size
      BY <2>2, <2>3, <3>1, ImageElementIs
    <3>5. w = WidthOf(f)
      BY <3>3, <3>4
    <3>6. c \in Nat /\ WidthOf(f) \in Nat /\ f.bits \in Nat
      BY RunBitsAre, BitsOfField
    <3>7. c > 0
      <4>1. IsArray(f) => f.cap >= 1
        BY DEF Accepted
      <4>2. f.cap \in Nat
        BY FieldsAre DEF IsField
      <4> HIDE DEF f
      <4> QED BY <4>1, <4>2 DEF CountOf
    <3>8. MaxBits[j] \in Nat /\ at \in Nat /\ at + w * c <= MaxBits[j]
      BY <2>2, <3>1, <3>2, <3>5, FieldLies
    <3>9. IsComposite(f) => w = MaxBits[f.ref] /\ Good(f.ref)
      <4>1. IsComposite(f) => f.ref \in TypeIds /\ f.ref < j
        BY FieldsAre
      <4> HIDE DEF w, f
      <4> QED BY <2>1, <3>5, <4>1 DEF WidthOf
    <3>10. ~ IsComposite(f) => f.bits = w
      <4> HIDE DEF w, f
      <4> QED BY <3>5 DEF WidthOf
    <3>11. w \in Nat
      BY <3>5, <3>6
    <3>12. IsComposite(f) => \A s \in ImageScalars[f.ref] : LiesIn(s, w)
      BY <3>9
    <3> HIDE DEF w, at, f
    <3>13. \A s \in MemberScalars(f, k, at, w, ImageScalars) : LiesIn(s, MaxBits[j])
      BY <3>6, <3>7, <3>8, <3>10, <3>11, <3>12, MemberScalarsLie
    <3> QED BY <3>13 DEF w, at, f
  <2>5. ImageScalars[j] = Scalars(j, structures, ImageScalars)
    BY <1>2
  <2> QED BY <2>4, <2>5 DEF Scalars
<1> HIDE DEF N
<1>5. Len(Types) \in N
  BY <1>0, <1>1, <1>4, Induction
<1> QED BY <1>0, <1>5 DEF N

=============================================================================
