---------------------- MODULE DefinitionAnalysisProofs ----------------------
(***************************************************************************)
(* Proofs about the walk of the analyser, for any modules and any limits:  *)
(* its order and its depth, whom it blames, and what it accepts.           *)
(***************************************************************************)
EXTENDS DefinitionAnalysis, SequenceTheorems, FiniteSetTheorems, WellFoundedInduction, TLAPS

-----------------------------------------------------------------------------
(* Induction over the natural numbers, for a set of them, which the        *)
(* provers can instantiate as they cannot the library's operators.         *)

(* Numbers have a least one among them.                                    *)
LEMMA LeastNumber ==
  ASSUME NEW S, S \subseteq Nat, S # {}
  PROVE  \E m \in S : \A k \in S : m <= k
<1> DEFINE Less == OpToRel(<, Nat)
<1>1. IsWellFoundedOn(Less, Nat)
  BY NatLessThanWellFounded
<1>2. ASSUME NEW m \in Nat, NEW k \in Nat, k < m PROVE <<k, m>> \in Less
  BY <1>2 DEF OpToRel
<1> HIDE DEF Less
<1>3. PICK m \in S : \A k \in S : ~ (<<k, m>> \in Less)
  BY <1>1, WFMin, Zenon
<1>4. ASSUME NEW k \in S PROVE m <= k
  <2>1. k \in Nat /\ m \in Nat /\ ~ (k < m)
    BY <1>2, <1>3
  <2> QED BY <2>1
<1> QED BY <1>4

(* What holds of zero, and of each number's successor if it holds of the   *)
(* number, holds of all.                                                   *)
LEMMA Induction ==
  ASSUME NEW S, 0 \in S, \A n \in Nat : n \in S => n + 1 \in S
  PROVE  Nat \subseteq S
<1> SUFFICES ASSUME Nat \ S # {} PROVE FALSE
  OBVIOUS
<1>1. PICK m \in Nat \ S : \A k \in Nat \ S : m <= k
  BY LeastNumber
<1>2. m - 1 \in Nat /\ m - 1 < m
  BY <1>1
<1>3. m - 1 \in S
  BY <1>1, <1>2
<1>4. (m - 1) + 1 = m
  BY <1>1
<1> QED BY <1>1, <1>2, <1>3, <1>4

(* What a sequence holds, and the sequence it then is. *)
Held(s) == {s[n] : n \in DOMAIN s}

LEMMA SequenceOfHeld ==
  ASSUME NEW S, NEW s \in Seq(S)
  PROVE  s \in Seq(Held(s))
<1>1. DOMAIN s = 1 .. Len(s) /\ Len(s) \in Nat /\ s \in [1 .. Len(s) -> S]
  BY LenProperties
<1>2. s \in [1 .. Len(s) -> Held(s)]
  BY <1>1 DEF Held
<1> QED
  BY <1>1, <1>2, SMT

LEMMA Pushed ==
  ASSUME NEW s, s \in Seq(Held(s)), NEW e
  PROVE  /\ Append(s, e) \in Seq(Held(Append(s, e)))
         /\ Len(Append(s, e)) = Len(s) + 1
         /\ \A j \in 1 .. Len(s) : Append(s, e)[j] = s[j]
         /\ Append(s, e)[Len(s) + 1] = e
<1> DEFINE S == Held(s) \cup {e}
<1>1. s \in Seq(S)
  BY SeqMonotonic
<1>2. /\ Append(s, e) \in Seq(S)
      /\ Len(Append(s, e)) = Len(s) + 1
      /\ \A j \in 1 .. Len(s) : Append(s, e)[j] = s[j]
      /\ Append(s, e)[Len(s) + 1] = e
  BY <1>1, SMT
<1> QED
  BY <1>2, SequenceOfHeld

LEMMA Longer ==
  ASSUME NEW S, NEW s \in Seq(S), NEW e \in S
  PROVE  /\ Len(s) \in Nat
         /\ DOMAIN s = 1 .. Len(s)
         /\ DOMAIN Append(s, e) = 1 .. (Len(s) + 1)
         /\ \A n \in 1 .. Len(s) : Append(s, e)[n] = s[n]
         /\ Append(s, e)[Len(s) + 1] = e
<1>1. Append(s, e) \in Seq(S) /\ Len(Append(s, e)) = Len(s) + 1
  OBVIOUS
<1>2. DOMAIN Append(s, e) = 1 .. Len(Append(s, e))
  BY <1>1, LenProperties
<1>3. DOMAIN Append(s, e) = 1 .. (Len(s) + 1)
  BY <1>1, <1>2, Zenon
<1>4. Len(s) \in Nat /\ DOMAIN s = 1 .. Len(s)
  BY LenProperties
<1>5. \A n \in 1 .. Len(s) : Append(s, e)[n] = s[n]
  OBVIOUS
<1>6. Append(s, e)[Len(s) + 1] = e
  OBVIOUS
<1> QED
  BY <1>3, <1>4, <1>5, <1>6

LEMMA Replaced ==
  ASSUME NEW s, s \in Seq(Held(s)), NEW i \in 1 .. Len(s), NEW e
  PROVE  /\ [s EXCEPT ![i] = e] \in Seq(Held([s EXCEPT ![i] = e]))
         /\ Len([s EXCEPT ![i] = e]) = Len(s)
         /\ \A j \in 1 .. Len(s) : [s EXCEPT ![i] = e][j] = IF j = i THEN e ELSE s[j]
<1> DEFINE S == Held(s) \cup {e}
<1>1. s \in Seq(S)
  BY SeqMonotonic
<1>2. e \in S
  OBVIOUS
<1> HIDE DEF S
<1>3. /\ [s EXCEPT ![i] = e] \in Seq(S)
      /\ Len([s EXCEPT ![i] = e]) = Len(s)
      /\ \A j \in 1 .. Len(s) : [s EXCEPT ![i] = e][j] = IF j = i THEN e ELSE s[j]
  BY <1>1, <1>2, ExceptSeq
<1> QED
  BY <1>3, SequenceOfHeld

LEMMA Popped ==
  ASSUME NEW s, s \in Seq(Held(s)), s # << >>
  PROVE  /\ SubSeq(s, 1, Len(s) - 1) \in Seq(Held(SubSeq(s, 1, Len(s) - 1)))
         /\ Len(SubSeq(s, 1, Len(s) - 1)) = Len(s) - 1
         /\ Len(s) - 1 \in Nat
         /\ \A j \in 1 .. (Len(s) - 1) : SubSeq(s, 1, Len(s) - 1)[j] = s[j]
<1> DEFINE n == Len(s) - 1
<1>1. n \in Nat /\ n \in Int /\ 1 \in Int
  BY EmptySeq
<1>2. \A i \in 1 .. n : s[i] \in Held(s)
  BY <1>1, ElementOfSeq
<1> HIDE DEF n
<1>3. /\ SubSeq(s, 1, n) \in Seq(Held(s))
      /\ Len(SubSeq(s, 1, n)) = IF 1 <= n THEN n - 1 + 1 ELSE 0
      /\ \A i \in 1 .. n - 1 + 1 : SubSeq(s, 1, n)[i] = s[1 + i - 1]
  BY <1>1, <1>2, SubSeqProperties
<1>4. (IF 1 <= n THEN n - 1 + 1 ELSE 0) = n /\ n - 1 + 1 = n
  BY <1>1
<1>5. \A i \in 1 .. n : 1 + i - 1 = i
  BY <1>1
<1>6. SubSeq(s, 1, n) \in Seq(Held(SubSeq(s, 1, n)))
  BY <1>3, SequenceOfHeld
<1>7. Len(SubSeq(s, 1, n)) = n
  BY <1>3, <1>4
<1>8. \A j \in 1 .. n : SubSeq(s, 1, n)[j] = s[j]
  BY <1>3, <1>4, <1>5
<1> QED
  BY <1>1, <1>6, <1>7, <1>8 DEF n

-----------------------------------------------------------------------------
(* Type correctness of the walk: what it computes of a section stays out   *)
(* of it.                                                                  *)

IsFrame(f) ==
    /\ DOMAIN f = {"def", "part", "at", "called", "section", "closed"}
    /\ f.def \in Ids
    /\ f.part \in DOMAIN module[f.def].sections
    /\ f.at \in Nat \ {0}
    /\ f.called \in Nat

AreFrames(s) == s \in Seq(Held(s)) /\ \A j \in 1 .. Len(s) : IsFrame(s[j])

TInv ==
    /\ module \in Modules
    /\ state \in [Ids -> {"unvisited", "visiting", "done"}]
    /\ AreFrames(stack)
    /\ finished \in Seq(Ids)
    /\ next \in Nat

LEMMA Definitions ==
  ASSUME TInv
  PROVE  /\ Len(module) \in Nat
         /\ \A d \in Ids : IsDefinition(module[d])
BY AnalysisConstants DEF TInv, IsSequence, Ids

(* The sections, statements and references of a definition are counted     *)
(* from one.                                                               *)
LEMMA Places ==
  ASSUME TInv, NEW d \in Ids
  PROVE  /\ Len(module[d].sections) \in {1, 2}
         /\ DOMAIN module[d].sections = 1 .. Len(module[d].sections)
         /\ \A p \in DOMAIN module[d].sections :
              /\ Len(Statements(d, p)) \in Nat
              /\ DOMAIN Statements(d, p) = 1 .. Len(Statements(d, p))
              /\ \A n \in DOMAIN Statements(d, p) :
                   /\ Len(Statements(d, p)[n].refs) \in Nat
                   /\ DOMAIN Statements(d, p)[n].refs = 1 .. Len(Statements(d, p)[n].refs)
BY Definitions DEF IsDefinition, IsSequence, Statements

LEMMA TopFrame ==
  ASSUME TInv, stack # << >>
  PROVE  /\ Len(stack) \in Nat \ {0}
         /\ Len(stack) \in 1 .. Len(stack)
         /\ stack \in Seq(Held(stack))
         /\ IsFrame(Top)
<1>1. Len(stack) \in Nat \ {0} /\ stack \in Seq(Held(stack))
  BY EmptySeq DEF TInv, AreFrames
<1>2. Len(stack) \in 1 .. Len(stack)
  BY <1>1
<1> QED
  BY <1>1, <1>2 DEF TInv, AreFrames, Top

LEMMA NewFrameIsOne ==
  ASSUME TInv, NEW d \in Ids
  PROVE  IsFrame(NewFrame(d))
BY Places DEF IsFrame, NewFrame

(* Replacing, pushing and popping keep the stack one of frames.            *)
LEMMA FrameReplaced ==
  ASSUME TInv, stack # << >>, NEW f, IsFrame(f)
  PROVE  AreFrames(WithTop(f))
BY SMTT(40), TopFrame, Replaced DEF TInv, AreFrames, WithTop

LEMMA FramePushed ==
  ASSUME NEW s, AreFrames(s), NEW f, IsFrame(f)
  PROVE  AreFrames(Append(s, f))
<1>1. Len(s) \in Nat
  BY LenProperties DEF AreFrames
<1>2. Append(s, f) \in Seq(Held(Append(s, f)))
  BY Pushed DEF AreFrames
<1>3. ASSUME NEW j \in 1 .. Len(Append(s, f)) PROVE IsFrame(Append(s, f)[j])
  BY <1>1, Pushed DEF AreFrames
<1> QED
  BY <1>2, <1>3 DEF AreFrames

LEMMA FramePopped ==
  ASSUME TInv, stack # << >>
  PROVE  AreFrames(SubSeq(stack, 1, Len(stack) - 1))
BY TopFrame, Popped DEF TInv, AreFrames

-----------------------------------------------------------------------------
(* What a step makes of the top frame.                                     *)

Called(f)     == [f EXCEPT !.called = @ + 1]
Past(f, sec)  == [f EXCEPT !.at = @ + 1, !.called = 0, !.section = sec]
Response(f, closed) == [f EXCEPT !.part = @ + 1, !.at = 1, !.called = 0,
                                 !.section = NewSection, !.closed = closed]

LEMMA CalledFrame ==
  ASSUME NEW f, IsFrame(f)
  PROVE  /\ IsFrame(Called(f))
         /\ Called(f).def = f.def /\ Called(f).part = f.part /\ Called(f).at = f.at
         /\ Called(f).called = f.called + 1
BY DEF IsFrame, Called

LEMMA PastFrame ==
  ASSUME NEW f, IsFrame(f), NEW sec
  PROVE  /\ IsFrame(Past(f, sec))
         /\ Past(f, sec).def = f.def /\ Past(f, sec).part = f.part
         /\ Past(f, sec).at = f.at + 1 /\ Past(f, sec).called = 0
BY DEF IsFrame, Past

LEMMA ResponseFrame ==
  ASSUME TInv, NEW f, IsFrame(f), f.part < Len(module[f.def].sections), NEW closed
  PROVE  /\ IsFrame(Response(f, closed))
         /\ Response(f, closed).def = f.def /\ Response(f, closed).part = f.part + 1
         /\ Response(f, closed).at = 1 /\ Response(f, closed).called = 0
BY Places DEF IsFrame, Response

(* A call of analyzeOne keeps the types, and never takes a complaint back. *)
LEMMA VisitTyped ==
  ASSUME TInv, NEW d \in Ids, NEW callers, AreFrames(callers), Visit(d, callers),
         UNCHANGED <<module, finished>>, next' \in Nat
  PROVE  TInv' /\ errors \subseteq errors'
<1>a. AreFrames(Append(callers, NewFrame(d)))
  BY NewFrameIsOne, FramePushed
<1>b. stack' = callers \/ stack' = Append(callers, NewFrame(d))
  BY Zenon DEF Visit
<1>c. errors \subseteq errors'
  BY Zenon DEF Visit
<1>1. AreFrames(stack') /\ errors \subseteq errors'
  BY <1>a, <1>b, <1>c
<1>2. state' \in [Ids -> {"unvisited", "visiting", "done"}]
  BY DEF Visit, TInv
<1>3. AreFrames(stack)'
  BY <1>1 DEF AreFrames, IsFrame, Ids
<1> QED
  BY <1>1, <1>2, <1>3 DEF TInv, Ids

LEMMA Typed ==
  ASSUME TInv, [Next]_vars
  PROVE  TInv' /\ errors \subseteq errors'
<1>0. CASE UNCHANGED vars \/ Stopped
  BY <1>0 DEF vars, Stopped, TInv, AreFrames, IsFrame, Ids
<1>1. CASE Start
  <2>1. AreFrames(<< >>) /\ next \in Ids /\ next' \in Nat
    BY <1>1, EmptySeq DEF Start, AreFrames, TInv
  <2> QED
    BY <1>1, <2>1, VisitTyped DEF Start
<1>2. CASE Refer
  <2>1. IsFrame(Called(Top)) /\ AreFrames(WithTop(Called(Top)))
    BY <1>2, TopFrame, CalledFrame, FrameReplaced DEF Refer, AtStatement
  <2> DEFINE i == Resolved(module, Top.def, References(Top.section, Statement)[Top.called + 1])
  <2>2. CASE i \in Ids
    <3>1. Visit(i, WithTop(Called(Top))) /\ UNCHANGED <<module, finished>> /\ next' \in Nat
      BY <1>2, <2>2 DEF Refer, Called, TInv
    <3> HIDE DEF i
    <3> QED
      BY <2>1, <2>2, <3>1, VisitTyped
  <2>3. CASE i \notin Ids
    <3>1. stack' = WithTop(Called(Top)) /\ errors \subseteq errors'
          /\ UNCHANGED <<module, state, next, finished>>
      BY <1>2, <2>3 DEF Refer, Called
    <3> QED
      BY <2>1, <3>1 DEF TInv, AreFrames, IsFrame, Ids
  <2> QED
    BY <2>2, <2>3
<1>3. CASE Take
  <2>1. PICK sec : /\ stack' = WithTop(Past(Top, sec)) /\ errors \subseteq errors'
                   /\ UNCHANGED <<module, state, next, finished>>
    BY <1>3 DEF Take, Past
  <2>2. AreFrames(WithTop(Past(Top, sec)))
    BY <1>3, TopFrame, PastFrame, FrameReplaced DEF Take, AtStatement
  <2> QED
    BY <2>1, <2>2 DEF TInv, AreFrames, IsFrame, Ids
<1>4. CASE EndRequest
  <2>1. /\ stack' = WithTop(Response(Top, Sections)) /\ errors \subseteq errors'
        /\ UNCHANGED <<module, state, next, finished>>
    BY <1>4 DEF EndRequest, Response
  <2>2. AreFrames(WithTop(Response(Top, Sections)))
    BY <1>4, TopFrame, ResponseFrame, FrameReplaced DEF EndRequest, AtEnd
  <2> QED
    BY <2>1, <2>2 DEF TInv, AreFrames, IsFrame, Ids
<1>5. CASE Finish
  <2>1. /\ AreFrames(SubSeq(stack, 1, Len(stack) - 1)) /\ Top.def \in Ids
    BY <1>5, TopFrame, FramePopped DEF Finish, AtEnd, IsFrame
  <2>2. /\ stack' = SubSeq(stack, 1, Len(stack) - 1) /\ errors \subseteq errors'
        /\ finished' = Append(finished, Top.def) /\ state' = [state EXCEPT ![Top.def] = "done"]
        /\ UNCHANGED <<module, next>>
    BY <1>5 DEF Finish
  <2>3. AreFrames(stack)'
    BY <2>1, <2>2 DEF AreFrames, IsFrame, Ids
  <2> QED
    BY <2>1, <2>2, <2>3 DEF TInv, Ids
<1>6. CASE CheckVersionRules \/ LowerAndVerify
  <2>1. UNCHANGED <<module, state, stack, next, finished>> /\ errors \subseteq errors'
    BY <1>6 DEF CheckVersionRules, LowerAndVerify
  <2> QED
    BY <2>1 DEF TInv, AreFrames, IsFrame, Ids
<1> QED
  BY <1>0, <1>1, <1>2, <1>3, <1>4, <1>5, <1>6 DEF Next

-----------------------------------------------------------------------------
(* What was referred to so far: whether a frame is past a reference, and   *)
(* where the definitions of those references are.                          *)

IsPast(f, p, n, k) ==
    p < f.part \/ (p = f.part /\ (n < f.at \/ (n = f.at /\ k <= f.called)))

RefersTo(d, p, n, k) == Resolved(module, d, Statements(d, p)[n].refs[k])

Answered(f, S) ==
    \A p \in DOMAIN module[f.def].sections :
      \A n \in DOMAIN Statements(f.def, p) :
        \A k \in DOMAIN Statements(f.def, p)[n].refs :
          IsPast(f, p, n, k) => RefersTo(f.def, p, n, k) \in S

(* What the references of a frame may be to: what is finished and, while a *)
(* call runs, what was called.                                             *)
Below(s, j, S) == IF j < Len(s) THEN S \cup {s[j + 1].def} ELSE S

WalkInv ==
    errors = {} =>
      /\ \A i \in Ids : state[i] = "done" => i \in Held(finished)
      /\ ReferencesFinishFirst
      /\ \A j \in 1 .. Len(stack) : Answered(stack[j], Below(stack, j, Held(finished)))

(* Each definition is visited at most once, the calls that run are those   *)
(* of different definitions, and there are never more than the limit.      *)
StackInv ==
    /\ Len(stack) <= MaxAnalysisDepth
    /\ \A j \in 1 .. Len(stack) : state[stack[j].def] = "visiting"
    /\ \A j, k \in 1 .. Len(stack) : stack[j].def = stack[k].def => j = k
    /\ \A n \in DOMAIN finished : state[finished[n]] = "done"
    /\ \A m, n \in DOMAIN finished : finished[m] = finished[n] => m = n

(* Nothing was asked by a frame that was just pushed.                      *)
LEMMA NothingAsked ==
  ASSUME TInv, NEW d \in Ids, NEW S
  PROVE  Answered(NewFrame(d), S)
BY Places DEF Answered, IsPast, NewFrame

LEMMA MoreAnswered ==
  ASSUME NEW f, NEW S, NEW T, Answered(f, S), S \subseteq T
  PROVE  Answered(f, T)
BY DEF Answered

LEMMA OneMoreAnswered ==
  ASSUME TInv, NEW f, IsFrame(f), NEW g, NEW S, NEW T,
         g.def = f.def, g.part = f.part, g.at = f.at, g.called = f.called + 1,
         Answered(f, S), S \subseteq T, RefersTo(f.def, f.part, f.at, f.called + 1) \in T
  PROVE  Answered(g, T)
<1> SUFFICES ASSUME NEW p \in DOMAIN module[f.def].sections,
                    NEW n \in DOMAIN Statements(f.def, p),
                    NEW k \in DOMAIN Statements(f.def, p)[n].refs,
                    IsPast(g, p, n, k)
             PROVE  RefersTo(f.def, p, n, k) \in T
  BY DEF Answered
<1>1. k \in Nat /\ f.called \in Nat
  BY Places DEF IsFrame
<1>2. CASE IsPast(f, p, n, k)
  BY <1>2 DEF Answered
<1>3. CASE p = f.part /\ n = f.at /\ k = f.called + 1
  BY <1>3
<1> QED
  BY <1>1, <1>2, <1>3 DEF IsPast

LEMMA StatementAnswered ==
  ASSUME TInv, NEW f, IsFrame(f), NEW g, NEW S,
         g.def = f.def, g.part = f.part, g.at = f.at + 1, g.called = 0,
         f.at =< Len(Statements(f.def, f.part)),
         f.called = Len(Statements(f.def, f.part)[f.at].refs),
         Answered(f, S)
  PROVE  Answered(g, S)
<1> SUFFICES ASSUME NEW p \in DOMAIN module[f.def].sections,
                    NEW n \in DOMAIN Statements(f.def, p),
                    NEW k \in DOMAIN Statements(f.def, p)[n].refs,
                    IsPast(g, p, n, k)
             PROVE  IsPast(f, p, n, k)
  BY DEF Answered
<1>1. k \in 1 .. Len(Statements(f.def, p)[n].refs) /\ n \in Nat /\ f.at \in Nat
  BY Places DEF IsFrame
<1> QED
  BY <1>1 DEF IsPast

LEMMA SectionAnswered ==
  ASSUME TInv, NEW f, IsFrame(f), NEW g, NEW S,
         g.def = f.def, g.part = f.part + 1, g.at = 1, g.called = 0,
         f.at > Len(Statements(f.def, f.part)),
         Answered(f, S)
  PROVE  Answered(g, S)
<1> SUFFICES ASSUME NEW p \in DOMAIN module[f.def].sections,
                    NEW n \in DOMAIN Statements(f.def, p),
                    NEW k \in DOMAIN Statements(f.def, p)[n].refs,
                    IsPast(g, p, n, k)
             PROVE  IsPast(f, p, n, k)
  BY DEF Answered
<1>1. /\ k \in 1 .. Len(Statements(f.def, p)[n].refs) /\ f.at \in Nat
      /\ Len(Statements(f.def, p)[n].refs) \in Nat
      /\ n \in 1 .. Len(Statements(f.def, p)) /\ Len(Statements(f.def, p)) \in Nat
      /\ p \in Nat /\ f.part \in Nat
  BY SMTT(40), Places DEF IsFrame
<1> QED
  BY <1>1 DEF IsPast

(* A frame at its end is past all its references.                          *)
LEMMA AllAnswered ==
  ASSUME TInv, NEW f, IsFrame(f), NEW S,
         f.at > Len(Statements(f.def, f.part)), f.part = Len(module[f.def].sections),
         Answered(f, S)
  PROVE  Dependencies(f.def) \subseteq S
<1> SUFFICES ASSUME NEW p \in DOMAIN module[f.def].sections,
                    NEW n \in DOMAIN Statements(f.def, p),
                    NEW k \in DOMAIN Statements(f.def, p)[n].refs
             PROVE  RefersTo(f.def, p, n, k) \in S
  BY DEF Dependencies, RefersTo
<1>1. /\ n \in 1 .. Len(Statements(f.def, p)) /\ Len(Statements(f.def, p)) \in Nat
      /\ p \in 1 .. Len(module[f.def].sections) /\ Len(module[f.def].sections) \in Nat
      /\ f.at \in Nat
  BY SMTT(40), Places DEF IsFrame
<1>2. IsPast(f, p, n, k)
  BY <1>1 DEF IsPast
<1> QED
  BY <1>2 DEF Answered

-----------------------------------------------------------------------------
(* The invariant is kept.                                                  *)

(* The module never changes, so it is enough to look at what does.         *)
LEMMA Transferred ==
  ASSUME UNCHANGED module,
         errors' = {} =>
           /\ \A i \in Ids : state'[i] = "done" => i \in Held(finished')
           /\ \A n \in DOMAIN finished' :
                Dependencies(finished'[n]) \subseteq {finished'[m] : m \in 1 .. (n - 1)}
           /\ \A j \in 1 .. Len(stack') : Answered(stack'[j], Below(stack', j, Held(finished')))
  PROVE  WalkInv'
<1>1. Ids' = Ids
  BY DEF Ids
<1>2. ReferencesFinishFirst'
      <=> (errors' = {} => \A n \in DOMAIN finished' :
             Dependencies(finished'[n]) \subseteq {finished'[m] : m \in 1 .. (n - 1)})
  BY DEF ReferencesFinishFirst, Dependencies, Statements
<1>3. (\A j \in 1 .. Len(stack) : Answered(stack[j], Below(stack, j, Held(finished))))'
      <=> \A j \in 1 .. Len(stack') : Answered(stack'[j], Below(stack', j, Held(finished')))
  BY DEF Answered, RefersTo, Statements, Below, Held
<1> QED
  BY <1>1, <1>2, <1>3 DEF WalkInv, Held

LEMMA VisitKeepsWalk ==
  ASSUME TInv, WalkInv, NEW d \in Ids, NEW callers, AreFrames(callers), Visit(d, callers),
         UNCHANGED <<module, finished>>,
         errors = {} =>
           \A j \in 1 .. Len(callers) :
             Answered(callers[j],
                      Held(finished) \cup {IF j < Len(callers) THEN callers[j + 1].def ELSE d})
  PROVE  WalkInv'
<1> SUFFICES ASSUME errors' = {}
             PROVE  /\ \A i \in Ids : state'[i] = "done" => i \in Held(finished)
                    /\ \A j \in 1 .. Len(stack') :
                         Answered(stack'[j], Below(stack', j, Held(finished)))
  <2>1. errors' = {} => errors = {}
    BY Zenon DEF Visit
  <2> QED
    BY <2>1, Transferred DEF WalkInv, ReferencesFinishFirst
<1>1. errors = {}
  BY Zenon DEF Visit
<1>2. Len(callers) \in Nat
  BY LenProperties DEF AreFrames
<1>3. CASE state[d] = "done" /\ stack' = callers /\ UNCHANGED state
  <2>1. d \in Held(finished)
    BY <1>1, <1>3 DEF WalkInv
  <2>2. ASSUME NEW j \in 1 .. Len(callers)
        PROVE  Answered(callers[j], Below(callers, j, Held(finished)))
    <3>1. Held(finished) \cup {IF j < Len(callers) THEN callers[j + 1].def ELSE d}
            = Below(callers, j, Held(finished))
      BY <2>1 DEF Below
    <3> QED
      BY <1>1, <3>1
  <2> QED
    BY <1>1, <1>3, <2>2 DEF WalkInv
<1>4. CASE /\ state[d] = "unvisited" /\ stack' = Append(callers, NewFrame(d))
           /\ state' = [state EXCEPT ![d] = "visiting"]
  <2>1. /\ Len(stack') = Len(callers) + 1
        /\ \A j \in 1 .. Len(callers) : stack'[j] = callers[j]
        /\ stack'[Len(callers) + 1] = NewFrame(d)
    BY <1>4, Pushed DEF AreFrames
  <2>2. NewFrame(d).def = d
    BY DEF NewFrame
  <2>3. ASSUME NEW j \in 1 .. Len(callers)
        PROVE  Answered(stack'[j], Below(stack', j, Held(finished)))
    <3>1. Below(stack', j, Held(finished))
            = Held(finished) \cup {IF j < Len(callers) THEN callers[j + 1].def ELSE d}
      BY <1>2, <2>1, <2>2 DEF Below
    <3> QED
      BY <1>1, <2>1, <3>1
  <2>4. Answered(stack'[Len(callers) + 1], Below(stack', Len(callers) + 1, Held(finished)))
    BY <2>1, NothingAsked
  <2>5. \A i \in Ids : state'[i] = "done" => i \in Held(finished)
    BY <1>1, <1>4 DEF WalkInv, TInv
  <2> QED
    BY <1>2, <2>1, <2>3, <2>4, <2>5
<1>5. ASSUME NEW what PROVE errors \cup Reported(d, {what}) # {}
  BY DEF Reported
<1> QED
  BY <1>3, <1>4, <1>5, Zenon DEF Visit

LEMMA WalkKept ==
  ASSUME TInv, WalkInv, [Next]_vars
  PROVE  WalkInv'
<1>t. TInv' /\ errors \subseteq errors'
  BY Typed
<1>0. CASE UNCHANGED <<module, state, stack, finished>> /\ errors \subseteq errors'
  <2>1. errors' = {} => errors = {}
    BY <1>0
  <2> QED
    BY <1>0, <2>1, Transferred DEF WalkInv, ReferencesFinishFirst
<1>1. CASE Start
  <2>1. AreFrames(<< >>) /\ Len(<< >>) = 0
    BY EmptySeq DEF AreFrames
  <2>2. next \in Ids /\ Visit(next, << >>) /\ UNCHANGED <<module, finished>>
    BY <1>1 DEF Start
  <2> QED
    BY <2>1, <2>2, VisitKeepsWalk
<1>2. CASE Refer
  <2> DEFINE g == Called(Top)
             i == Resolved(module, Top.def, References(Top.section, Statement)[Top.called + 1])
  <2>1. /\ IsFrame(Top) /\ IsFrame(g) /\ AreFrames(WithTop(g))
        /\ Len(stack) \in Nat \ {0} /\ stack \in Seq(Held(stack))
        /\ g.def = Top.def /\ g.part = Top.part /\ g.at = Top.at /\ g.called = Top.called + 1
    BY <1>2, TopFrame, CalledFrame, FrameReplaced DEF Refer, AtStatement
  <2>2. /\ Len(WithTop(g)) = Len(stack)
        /\ \A j \in 1 .. Len(stack) : WithTop(g)[j] = IF j = Len(stack) THEN g ELSE stack[j]
    BY <2>1, Replaced DEF WithTop
  <2>3. i = RefersTo(Top.def, Top.part, Top.at, Top.called + 1)
    <3>1. References(Top.section, Statement) = Statement.refs
      <4>1. Top.called \in Nat /\ Top.called < Len(References(Top.section, Statement))
        BY <1>2, <2>1 DEF Refer, IsFrame
      <4>2. Len(<< >>) = 0
        BY EmptySeq
      <4> QED
        BY <4>1, <4>2 DEF References
    <3> QED
      BY <3>1 DEF RefersTo, Statement
  <2>4. CASE i \in Ids
    <3>1. Visit(i, WithTop(g)) /\ UNCHANGED <<module, finished>>
      BY <1>2, <2>4 DEF Refer, Called
    <3>2. ASSUME errors = {}, NEW j \in 1 .. Len(WithTop(g))
          PROVE  Answered(WithTop(g)[j],
                   Held(finished) \cup {IF j < Len(WithTop(g)) THEN WithTop(g)[j + 1].def ELSE i})
      <4>1. Answered(stack[j], Below(stack, j, Held(finished)))
        BY <2>2, <3>2 DEF WalkInv
      <4>2. CASE j < Len(stack)
        <5>1. /\ WithTop(g)[j] = stack[j]
              /\ WithTop(g)[j + 1].def = stack[j + 1].def
          BY <2>1, <2>2, <4>2 DEF Top
        <5> QED
          BY <2>2, <4>1, <4>2, <5>1 DEF Below
      <4>3. CASE j = Len(stack)
        <5>1. Answered(Top, Held(finished))
          BY <2>1, <4>1, <4>3 DEF Below, Top
        <5> HIDE DEF g, i
        <5>2. Answered(g, Held(finished) \cup {i})
          BY <2>1, <2>3, <5>1, OneMoreAnswered
        <5>3. WithTop(g)[j] = g /\ ~ (j < Len(WithTop(g)))
          BY <2>1, <2>2, <4>3
        <5> QED
          BY <5>2, <5>3
      <4> QED
        BY <2>1, <2>2, <4>2, <4>3
    <3> HIDE DEF g, i
    <3> QED
      BY <2>1, <2>4, <3>1, <3>2, VisitKeepsWalk
  <2>5. CASE i \notin Ids
    <3>1. errors' = errors \cup Reported(Top.def, {"unresolved"}) /\ UNCHANGED module
      BY <1>2, <2>5 DEF Refer
    <3>2. errors' # {}
      BY <3>1 DEF Reported
    <3> QED
      BY <3>1, <3>2, Transferred
  <2> QED
    BY <2>4, <2>5
<1>3. CASE Take
  <2>1. PICK sec, value, result :
          /\ stack' = WithTop(Past(Top, sec))
          /\ errors' = errors \cup Reported(Top.def,
                          StatementErrors(Top.section, Statement, Top.part, value, result))
          /\ UNCHANGED <<module, state, finished>>
    BY <1>3 DEF Take, Past
  <2> DEFINE g == Past(Top, sec)
  <2>2. /\ IsFrame(Top) /\ Len(stack) \in Nat \ {0} /\ stack \in Seq(Held(stack))
        /\ g.def = Top.def /\ g.part = Top.part /\ g.at = Top.at + 1 /\ g.called = 0
        /\ Top.at =< Len(Statements(Top.def, Top.part))
    BY <1>3, TopFrame, PastFrame DEF Take, AtStatement
  <2> HIDE DEF g
  <2>3. ASSUME errors' = {}
        PROVE  Top.called = Len(Statements(Top.def, Top.part)[Top.at].refs)
    <3>1. ASSUME Dropped(Top.section, Statement)
          PROVE  "dropped" \in StatementErrors(Top.section, Statement, Top.part, value, result)
      BY <3>1 DEF StatementErrors
    <3>2. ~ Dropped(Top.section, Statement)
      BY <2>1, <2>3, <3>1 DEF Reported
    <3> QED
      BY <1>3, <3>2 DEF Take, References, Statement
  <2>4. /\ Len(WithTop(g)) = Len(stack)
        /\ \A j \in 1 .. Len(stack) : WithTop(g)[j] = IF j = Len(stack) THEN g ELSE stack[j]
    BY <2>2, Replaced DEF WithTop
  <2>5. ASSUME errors' = {}, NEW j \in 1 .. Len(stack')
        PROVE  Answered(stack'[j], Below(stack', j, Held(finished)))
    <3>1. stack' = WithTop(g) /\ errors = {}
      BY <1>t, <2>1, <2>5 DEF g
    <3>2. Answered(stack[j], Below(stack, j, Held(finished)))
      BY <2>4, <2>5, <3>1 DEF WalkInv
    <3>3. CASE j < Len(stack)
      <4>1. /\ Len(stack') = Len(stack) /\ stack'[j] = stack[j]
            /\ stack'[j + 1].def = stack[j + 1].def
        BY <2>2, <2>4, <3>1, <3>3 DEF Top
      <4>2. Below(stack', j, Held(finished)) = Below(stack, j, Held(finished))
        BY <4>1 DEF Below
      <4> QED
        BY <3>2, <4>1, <4>2
    <3>4. CASE j = Len(stack)
      <4>1. Answered(Top, Held(finished))
        BY <2>2, <3>2, <3>4 DEF Below, Top
      <4>2. Answered(g, Held(finished))
        BY <2>2, <2>3, <2>5, <4>1, StatementAnswered
      <4> QED
        BY <2>2, <2>4, <3>1, <3>4, <4>2 DEF Below
    <3> QED
      BY <2>2, <2>4, <3>1, <3>3, <3>4
  <2>6. errors' = {} => errors = {}
    BY <1>t
  <2> QED
    BY <2>1, <2>5, <2>6, Transferred DEF WalkInv, ReferencesFinishFirst
<1>4. CASE EndRequest
  <2> DEFINE g == Response(Top, Sections)
  <2>1. /\ stack' = WithTop(g) /\ UNCHANGED <<module, state, finished>>
    BY <1>4 DEF EndRequest, Response
  <2>2. /\ IsFrame(Top) /\ Len(stack) \in Nat \ {0} /\ stack \in Seq(Held(stack))
        /\ g.def = Top.def /\ g.part = Top.part + 1 /\ g.at = 1 /\ g.called = 0
        /\ Top.at > Len(Statements(Top.def, Top.part))
    BY <1>4, TopFrame, ResponseFrame DEF EndRequest, AtEnd
  <2> HIDE DEF g
  <2>4. /\ Len(WithTop(g)) = Len(stack)
        /\ \A j \in 1 .. Len(stack) : WithTop(g)[j] = IF j = Len(stack) THEN g ELSE stack[j]
    BY <2>2, Replaced DEF WithTop
  <2>5. ASSUME errors' = {}, NEW j \in 1 .. Len(stack')
        PROVE  Answered(stack'[j], Below(stack', j, Held(finished)))
    <3>1. stack' = WithTop(g) /\ errors = {}
      BY <1>t, <2>1, <2>5
    <3>2. Answered(stack[j], Below(stack, j, Held(finished)))
      BY <2>4, <2>5, <3>1 DEF WalkInv
    <3>3. CASE j < Len(stack)
      <4>1. /\ Len(stack') = Len(stack) /\ stack'[j] = stack[j]
            /\ stack'[j + 1].def = stack[j + 1].def
        BY <2>2, <2>4, <3>1, <3>3 DEF Top
      <4>2. Below(stack', j, Held(finished)) = Below(stack, j, Held(finished))
        BY <4>1 DEF Below
      <4> QED
        BY <3>2, <4>1, <4>2
    <3>4. CASE j = Len(stack)
      <4>1. Answered(Top, Held(finished))
        BY <2>2, <3>2, <3>4 DEF Below, Top
      <4>2. Answered(g, Held(finished))
        BY <2>2, <4>1, SectionAnswered
      <4> QED
        BY <2>2, <2>4, <3>1, <3>4, <4>2 DEF Below
    <3> QED
      BY <2>2, <2>4, <3>1, <3>3, <3>4
  <2>6. errors' = {} => errors = {}
    BY <1>t
  <2> QED
    BY <2>1, <2>5, <2>6, Transferred DEF WalkInv, ReferencesFinishFirst
<1>5. CASE Finish
  <2>1. /\ stack' = SubSeq(stack, 1, Len(stack) - 1)
        /\ finished' = Append(finished, Top.def) /\ state' = [state EXCEPT ![Top.def] = "done"]
        /\ UNCHANGED module
        /\ Top.at > Len(Statements(Top.def, Top.part))
        /\ Top.part = Len(module[Top.def].sections)
    BY <1>5 DEF Finish, AtEnd
  <2>2. /\ IsFrame(Top) /\ Top.def \in Ids /\ stack # << >>
        /\ Len(stack) \in Nat \ {0} /\ stack \in Seq(Held(stack))
    BY <1>5, TopFrame DEF Finish, AtEnd, IsFrame
  <2>3. /\ Len(stack') = Len(stack) - 1
        /\ \A j \in 1 .. (Len(stack) - 1) : stack'[j] = stack[j]
    BY <2>1, <2>2, Popped
  <2>4. /\ Len(finished) \in Nat /\ DOMAIN finished = 1 .. Len(finished)
        /\ DOMAIN finished' = 1 .. (Len(finished) + 1)
        /\ \A n \in 1 .. Len(finished) : finished'[n] = finished[n]
        /\ finished'[Len(finished) + 1] = Top.def
    <3>1. finished \in Seq(Ids) /\ Top.def \in Ids /\ finished' = Append(finished, Top.def)
      BY <2>1, <2>2 DEF TInv
    <3> QED
      BY <3>1, Longer
  <2>5. Held(finished') = Held(finished) \cup {Top.def}
    BY <2>4 DEF Held
  <2>6. Held(finished) = {finished[m] : m \in 1 .. Len(finished)}
    BY <2>4 DEF Held
  <2>7. ASSUME errors' = {} PROVE errors = {}
    BY <1>t, <2>7
  <2>8. ASSUME errors' = {}, NEW n \in DOMAIN finished'
        PROVE  Dependencies(finished'[n]) \subseteq {finished'[m] : m \in 1 .. (n - 1)}
    <3>1. CASE n \in DOMAIN finished
      <4>1. Dependencies(finished[n]) \subseteq {finished[m] : m \in 1 .. (n - 1)}
        BY <2>7, <2>8, <3>1 DEF WalkInv, ReferencesFinishFirst
      <4>2. {finished[m] : m \in 1 .. (n - 1)} = {finished'[m] : m \in 1 .. (n - 1)}
        BY <2>4, <3>1
      <4> QED
        BY <2>4, <3>1, <4>1, <4>2
    <3>2. CASE n = Len(finished) + 1
      <4>1. Answered(Top, Held(finished))
        <5>1. Answered(stack[Len(stack)], Below(stack, Len(stack), Held(finished)))
          BY <2>2, <2>7, <2>8 DEF WalkInv
        <5> QED
          BY <2>2, <5>1 DEF Below, Top
      <4>2. Dependencies(Top.def) \subseteq Held(finished)
        BY <2>1, <2>2, <4>1, AllAnswered
      <4>3. {finished'[m] : m \in 1 .. (n - 1)} = {finished[m] : m \in 1 .. Len(finished)}
        BY <2>4, <3>2
      <4> QED
        BY <2>4, <2>6, <3>2, <4>2, <4>3
    <3> QED
      BY <2>4, <2>8, <3>1, <3>2
  <2>9. ASSUME errors' = {}, NEW j \in 1 .. Len(stack')
        PROVE  Answered(stack'[j], Below(stack', j, Held(finished')))
    <3>1. j \in 1 .. Len(stack) /\ j < Len(stack) /\ stack'[j] = stack[j]
      BY <2>2, <2>3
    <3>2. Answered(stack[j], Held(finished) \cup {stack[j + 1].def})
      BY <2>7, <2>9, <3>1 DEF WalkInv, Below
    <3>3. Held(finished) \cup {stack[j + 1].def} \subseteq Below(stack', j, Held(finished'))
      <4>1. CASE j < Len(stack')
        BY <2>2, <2>3, <2>5, <4>1 DEF Below
      <4>2. CASE j = Len(stack')
        <5>1. stack[j + 1] = Top
          BY <2>2, <2>3, <4>2 DEF Top
        <5> QED
          BY <2>5, <5>1 DEF Below
      <4> QED
        BY <2>2, <2>3, <4>1, <4>2
    <3> QED
      BY <3>1, <3>2, <3>3, MoreAnswered
  <2>10. ASSUME errors' = {}, NEW i \in Ids, state'[i] = "done"
         PROVE  i \in Held(finished')
    BY <2>1, <2>2, <2>5, <2>7, <2>10 DEF WalkInv, TInv
  <2> QED
    BY <2>1, <2>8, <2>9, <2>10, Transferred
<1>6. CASE CheckVersionRules \/ LowerAndVerify \/ Stopped \/ UNCHANGED vars
  BY <1>0, <1>6, <1>t DEF CheckVersionRules, LowerAndVerify, Stopped, vars
<1> QED
  BY <1>1, <1>2, <1>3, <1>4, <1>5, <1>6 DEF Next

(* The stack of calls.                                                     *)
LEMMA VisitKeepsStack ==
  ASSUME TInv, NEW d \in Ids, NEW callers, AreFrames(callers), Visit(d, callers),
         UNCHANGED finished,
         Len(callers) <= MaxAnalysisDepth,
         \A j \in 1 .. Len(callers) : state[callers[j].def] = "visiting",
         \A j, k \in 1 .. Len(callers) : callers[j].def = callers[k].def => j = k,
         \A n \in DOMAIN finished : state[finished[n]] = "done",
         \A m, n \in DOMAIN finished : finished[m] = finished[n] => m = n
  PROVE  StackInv'
<1>1. Len(callers) \in Nat /\ \A j \in 1 .. Len(callers) : callers[j].def \in Ids
  BY LenProperties DEF AreFrames, IsFrame
<1>2. \A n \in DOMAIN finished : finished[n] \in Ids
  BY ElementOfSeq, LenProperties DEF TInv
<1>3. CASE stack' = callers /\ (UNCHANGED state \/ (state[d] = "unvisited"
                                                  /\ state' = [state EXCEPT ![d] = "done"]))
  <2>1. \A j \in 1 .. Len(callers) : state'[callers[j].def] = "visiting"
    BY <1>1, <1>3 DEF TInv
  <2>2. \A n \in DOMAIN finished : state'[finished[n]] = "done"
    BY <1>2, <1>3 DEF TInv
  <2> QED
    BY <1>3, <2>1, <2>2 DEF StackInv
<1>4. CASE /\ state[d] = "unvisited" /\ stack' = Append(callers, NewFrame(d))
           /\ state' = [state EXCEPT ![d] = "visiting"] /\ Len(callers) < MaxAnalysisDepth
  <2>1. /\ Len(stack') = Len(callers) + 1
        /\ \A j \in 1 .. Len(callers) : stack'[j] = callers[j]
        /\ stack'[Len(callers) + 1] = NewFrame(d)
    BY <1>4, Pushed DEF AreFrames
  <2>2. NewFrame(d).def = d
    BY DEF NewFrame
  <2>3. Len(stack') <= MaxAnalysisDepth
    BY <1>1, <1>4, <2>1, AnalysisConstants
  <2>4. \A j \in 1 .. Len(callers) : callers[j].def # d /\ state'[callers[j].def] = "visiting"
    BY <1>1, <1>4 DEF TInv
  <2>5. state'[d] = "visiting"
    BY <1>4 DEF TInv
  <2>6. ASSUME NEW j \in 1 .. Len(stack') PROVE state'[stack'[j].def] = "visiting"
    BY <1>1, <2>1, <2>2, <2>4, <2>5
  <2>7. ASSUME NEW j \in 1 .. Len(stack'), NEW k \in 1 .. Len(stack'), stack'[j].def = stack'[k].def
        PROVE  j = k
    BY <1>1, <2>1, <2>2, <2>4, <2>7
  <2>8. \A n \in DOMAIN finished : state'[finished[n]] = "done"
    BY <1>2, <1>4 DEF TInv
  <2> QED
    BY <2>3, <2>6, <2>7, <2>8 DEF StackInv
<1> QED
  BY <1>3, <1>4, Zenon DEF Visit

LEMMA StackKept ==
  ASSUME TInv, StackInv, [Next]_vars
  PROVE  StackInv'
<1>0. ASSUME UNCHANGED <<state, finished>>, Len(stack') = Len(stack),
             \A j \in 1 .. Len(stack) : stack'[j].def = stack[j].def
      PROVE  StackInv'
  BY <1>0 DEF StackInv
<1>1. CASE Start
  <2>1. AreFrames(<< >>) /\ Len(<< >>) = 0 /\ 0 <= MaxAnalysisDepth
    BY EmptySeq, AnalysisConstants DEF AreFrames
  <2>2. next \in Ids /\ Visit(next, << >>) /\ UNCHANGED finished
    BY <1>1 DEF Start
  <2> QED
    BY <2>1, <2>2, VisitKeepsStack DEF StackInv
<1>2. CASE Refer
  <2> DEFINE g == Called(Top)
             i == Resolved(module, Top.def, References(Top.section, Statement)[Top.called + 1])
  <2>1. /\ AreFrames(WithTop(g)) /\ stack \in Seq(Held(stack)) /\ g.def = Top.def
        /\ Len(stack) \in 1 .. Len(stack)
    BY <1>2, TopFrame, CalledFrame, FrameReplaced DEF Refer, AtStatement
  <2> HIDE DEF g
  <2>2. /\ Len(WithTop(g)) = Len(stack)
        /\ \A j \in 1 .. Len(stack) : WithTop(g)[j] = IF j = Len(stack) THEN g ELSE stack[j]
    BY <2>1, Replaced DEF WithTop
  <2>3. \A j \in 1 .. Len(stack) : WithTop(g)[j].def = stack[j].def
    BY <2>1, <2>2 DEF Top
  <2>4. CASE i \in Ids
    <3>1. Visit(i, WithTop(g)) /\ UNCHANGED finished
      BY <1>2, <2>4 DEF Refer, Called, g
    <3> HIDE DEF i
    <3>2. /\ Len(WithTop(g)) <= MaxAnalysisDepth
          /\ \A j \in 1 .. Len(WithTop(g)) : state[WithTop(g)[j].def] = "visiting"
      BY <2>2, <2>3 DEF StackInv
    <3>3. \A j, k \in 1 .. Len(WithTop(g)) : WithTop(g)[j].def = WithTop(g)[k].def => j = k
      BY <2>2, <2>3 DEF StackInv
    <3>4. /\ \A n \in DOMAIN finished : state[finished[n]] = "done"
          /\ \A m, n \in DOMAIN finished : finished[m] = finished[n] => m = n
      BY DEF StackInv
    <3> QED
      BY <2>1, <2>4, <3>1, <3>2, <3>3, <3>4, VisitKeepsStack
  <2>5. CASE i \notin Ids
    <3>1. stack' = WithTop(g) /\ UNCHANGED <<state, finished>>
      BY <1>2, <2>5 DEF Refer, Called, g
    <3> QED
      BY <1>0, <2>2, <2>3, <3>1
  <2> QED
    BY <2>4, <2>5
<1>3. CASE Take \/ EndRequest
  <2>1. PICK g : stack' = WithTop(g) /\ g.def = Top.def /\ UNCHANGED <<state, finished>>
    <3>1. CASE Take
      <4>1. PICK sec : stack' = WithTop(Past(Top, sec)) /\ UNCHANGED <<state, finished>>
        BY <3>1 DEF Take, Past
      <4> QED
        BY <3>1, <4>1, TopFrame, PastFrame DEF Take, AtStatement
    <3>2. CASE EndRequest
      <4>1. stack' = WithTop(Response(Top, Sections)) /\ UNCHANGED <<state, finished>>
        BY <3>2 DEF EndRequest, Response
      <4> QED
        BY <3>2, <4>1, TopFrame, ResponseFrame DEF EndRequest, AtEnd
    <3> QED
      BY <1>3, <3>1, <3>2
  <2>2. stack \in Seq(Held(stack)) /\ Len(stack) \in 1 .. Len(stack)
    BY <1>3, TopFrame DEF Take, EndRequest, AtStatement, AtEnd
  <2>3. /\ Len(WithTop(g)) = Len(stack)
        /\ \A j \in 1 .. Len(stack) : WithTop(g)[j] = IF j = Len(stack) THEN g ELSE stack[j]
    BY <2>2, Replaced DEF WithTop
  <2> QED
    BY <1>0, <2>1, <2>2, <2>3 DEF Top
<1>4. CASE Finish
  <2>1. /\ stack' = SubSeq(stack, 1, Len(stack) - 1)
        /\ finished' = Append(finished, Top.def) /\ state' = [state EXCEPT ![Top.def] = "done"]
    BY <1>4 DEF Finish
  <2>2. /\ Top.def \in Ids /\ stack # << >> /\ Len(stack) \in Nat \ {0}
        /\ stack \in Seq(Held(stack)) /\ Top = stack[Len(stack)]
        /\ \A j \in 1 .. Len(stack) : stack[j].def \in Ids
    BY <1>4, TopFrame DEF Finish, AtEnd, IsFrame, Top, TInv, AreFrames
  <2>3. /\ Len(stack') = Len(stack) - 1
        /\ \A j \in 1 .. (Len(stack) - 1) : stack'[j] = stack[j]
    BY <2>1, <2>2, Popped
  <2>4. \A n \in DOMAIN finished : finished[n] \in Ids /\ finished[n] # Top.def
    <3>1. \A n \in DOMAIN finished : finished[n] \in Ids
      BY ElementOfSeq, LenProperties DEF TInv
    <3>2. state[Top.def] = "visiting"
      BY <2>2 DEF StackInv
    <3> QED
      BY <3>1, <3>2 DEF StackInv
  <2>5. /\ Len(finished) \in Nat /\ DOMAIN finished = 1 .. Len(finished)
        /\ DOMAIN finished' = 1 .. (Len(finished) + 1)
        /\ \A n \in 1 .. Len(finished) : finished'[n] = finished[n]
        /\ finished'[Len(finished) + 1] = Top.def
    <3>1. finished \in Seq(Ids) /\ Top.def \in Ids /\ finished' = Append(finished, Top.def)
      BY <2>1, <2>2 DEF TInv
    <3> QED
      BY <3>1, Longer
  <2>6. Len(stack') <= MaxAnalysisDepth
    BY <2>2, <2>3, AnalysisConstants DEF StackInv
  <2>7. ASSUME NEW j \in 1 .. Len(stack') PROVE state'[stack'[j].def] = "visiting"
    <3>1. j \in 1 .. Len(stack) /\ j # Len(stack) /\ Len(stack) \in 1 .. Len(stack)
          /\ stack'[j] = stack[j]
      BY <2>2, <2>3
    <3>2. stack[j].def # Top.def /\ state[stack[j].def] = "visiting" /\ stack[j].def \in Ids
      BY <2>2, <3>1 DEF StackInv
    <3> QED
      BY <2>1, <3>1, <3>2 DEF TInv
  <2>8. \A j, k \in 1 .. Len(stack') : stack'[j].def = stack'[k].def => j = k
    BY <2>2, <2>3 DEF StackInv
  <2>9. ASSUME NEW n \in DOMAIN finished' PROVE state'[finished'[n]] = "done"
    <3>1. CASE n \in DOMAIN finished
      BY <2>1, <2>4, <2>5, <3>1 DEF StackInv, TInv
    <3>2. CASE n = Len(finished) + 1
      BY <2>1, <2>2, <2>5, <3>2 DEF TInv
    <3> QED
      BY <2>5, <3>1, <3>2
  <2>10. ASSUME NEW m \in DOMAIN finished', NEW n \in DOMAIN finished', finished'[m] = finished'[n]
         PROVE  m = n
    BY <2>4, <2>5, <2>10 DEF StackInv
  <2> QED
    BY <2>6, <2>7, <2>8, <2>9, <2>10 DEF StackInv
<1>5. CASE CheckVersionRules \/ LowerAndVerify \/ Stopped \/ UNCHANGED vars
  <2>1. UNCHANGED <<state, finished, stack>>
    BY <1>5 DEF CheckVersionRules, LowerAndVerify, Stopped, vars
  <2> QED
    BY <2>1, <1>0
<1> QED
  BY <1>1, <1>2, <1>3, <1>4, <1>5 DEF Next

-----------------------------------------------------------------------------

WalkInvariant == TInv /\ WalkInv /\ StackInv

LEMMA Initially ==
  ASSUME Init
  PROVE  WalkInvariant
<1>1. /\ << >> \in Seq(Held(<< >>)) /\ << >> \in Seq(Ids) /\ Len(<< >>) = 0
      /\ DOMAIN << >> = {}
  BY EmptySeq, LenProperties
<1>2. TInv
  BY <1>1 DEF Init, TInv, AreFrames
<1>3. WalkInv
  BY <1>1 DEF Init, WalkInv, ReferencesFinishFirst
<1>4. StackInv
  BY <1>1, AnalysisConstants DEF Init, StackInv
<1> QED
  BY <1>2, <1>3, <1>4 DEF WalkInvariant

(* The walk keeps to its types, its order and its depth (analyzeOne).      *)
THEOREM Walks == Spec => []WalkInvariant
<1>1. Init => WalkInvariant
  BY Initially
<1>2. WalkInvariant /\ [Next]_vars => WalkInvariant'
  BY Typed, WalkKept, StackKept DEF WalkInvariant
<1> QED
  BY <1>1, <1>2, PTL DEF Spec

(* While nothing was reported, a definition gets its result after every    *)
(* one it refers to (analyzeOne).                                          *)
THEOREM FinishesInOrder == Spec => []ReferencesFinishFirst
<1>1. WalkInvariant => ReferencesFinishFirst
  BY DEF WalkInvariant, WalkInv, ReferencesFinishFirst
<1> QED
  BY <1>1, Walks, PTL

(* However definitions refer to each other, the walk is never deeper than  *)
(* kMaxAnalysisDepth calls of analyzeOne.                                  *)
THEOREM DepthIsBounded == Spec => [](Len(stack) <= MaxAnalysisDepth)
<1>1. WalkInvariant => Len(stack) <= MaxAnalysisDepth
  BY DEF WalkInvariant, StackInv
<1> QED
  BY <1>1, Walks, PTL

(* No definition is analysed twice (analyzeOne, state_).                   *)
THEOREM AnalysedOnce ==
  Spec => [](\A m, n \in DOMAIN finished : finished[m] = finished[n] => m = n)
<1>1. WalkInvariant => \A m, n \in DOMAIN finished : finished[m] = finished[n] => m = n
  BY DEF WalkInvariant, StackInv
<1> QED
  BY <1>1, Walks, PTL

-----------------------------------------------------------------------------
(* Chains of references.                                                   *)

(* The definitions one reference away from those of a set.                 *)
OneAway(S) == UNION {Dependencies(i) \ {0} : i \in S}

AwayTo(from, n, away) ==
    away = [k \in 0 .. n |-> IF k = 0 THEN from ELSE OneAway(away[k - 1])]

(* There is a function as Away describes it.                               *)
LEMMA AwayExists ==
  ASSUME NEW from, NEW n \in Nat
  PROVE  \E away : AwayTo(from, n, away)
<1> DEFINE S == {m \in Nat : \E away : AwayTo(from, m, away)}
<1>1. 0 \in S
  <2>1. AwayTo(from, 0, [k \in 0 .. 0 |-> from])
    BY DEF AwayTo
  <2> QED BY <2>1
<1>2. ASSUME NEW m \in Nat, m \in S PROVE m + 1 \in S
  <2>1. PICK away : AwayTo(from, m, away)
    BY <1>2
  <2> DEFINE more == [k \in 0 .. (m + 1) |-> IF k = m + 1 THEN OneAway(away[m]) ELSE away[k]]
  <2>2. ASSUME NEW k \in 0 .. (m + 1)
        PROVE  more[k] = IF k = 0 THEN from ELSE OneAway(more[k - 1])
    <3>1. CASE k = 0
      BY <2>1, <3>1 DEF AwayTo
    <3>2. CASE k \in 1 .. m
      <4>1. k \in 0 .. m /\ k - 1 \in 0 .. m /\ k - 1 \in 0 .. (m + 1) /\ k # m + 1 /\ k - 1 # m + 1
            /\ k # 0
        BY <3>2
      <4>2. more[k] = away[k] /\ more[k - 1] = away[k - 1]
        BY <4>1
      <4>3. away[k] = OneAway(away[k - 1])
        BY <2>1, <4>1 DEF AwayTo
      <4> QED BY <4>1, <4>2, <4>3, Zenon
    <3>3. CASE k = m + 1
      <4>1. k - 1 = m /\ m \in 0 .. (m + 1) /\ m # m + 1 /\ k # 0
        BY <3>3
      <4>2. more[k] = OneAway(away[m]) /\ more[m] = away[m]
        BY <3>3, <4>1
      <4> QED BY <4>1, <4>2, Zenon
    <3> QED BY <3>1, <3>2, <3>3
  <2>3. AwayTo(from, m + 1, more)
    BY <2>2, Zenon DEF AwayTo
  <2> HIDE DEF more
  <2> QED BY <2>3
<1> HIDE DEF S
<1>3. Nat \subseteq S
  BY <1>1, <1>2, Induction
<1> QED
  BY <1>3 DEF S

(* So Away is what it describes.                                           *)
LEMMA AwayIsLast ==
  ASSUME NEW from, NEW n \in Nat
  PROVE  \E away : AwayTo(from, n, away) /\ Away(from, n) = away[n]
<1> DEFINE away == CHOOSE f : AwayTo(from, n, f)
<1>1. AwayTo(from, n, away)
  BY AwayExists
<1>2. Away(from, n) = away[n]
  BY Zenon DEF Away, AwayTo, OneAway
<1> QED BY <1>1, <1>2

IsChain(c, n) == \A k \in 0 .. (n - 1) : c[k + 1] \in Dependencies(c[k]) \ {0}

(* What a chain of references leads to is as far away as the chain is long. *)
LEMMA ChainLeadsAway ==
  ASSUME NEW from, NEW n \in Nat, NEW c, c[0] \in from, IsChain(c, n)
  PROVE  c[n] \in Away(from, n)
<1>1. PICK away : AwayTo(from, n, away) /\ Away(from, n) = away[n]
  BY AwayIsLast
<1> DEFINE S == {k \in Nat : k <= n => c[k] \in away[k]}
<1>2. 0 \in S
  BY <1>1 DEF AwayTo
<1>3. ASSUME NEW k \in Nat, k \in S PROVE k + 1 \in S
  <2> SUFFICES ASSUME k + 1 <= n PROVE c[k + 1] \in away[k + 1]
    OBVIOUS
  <2>1. c[k] \in away[k]
    BY <1>3
  <2>2. k \in 0 .. (n - 1) /\ k + 1 \in 0 .. n /\ k + 1 # 0 /\ (k + 1) - 1 = k
    BY <1>3
  <2>3. c[k + 1] \in Dependencies(c[k]) \ {0}
    BY <2>2 DEF IsChain
  <2>4. away[k + 1] = OneAway(away[k])
    <3>1. away[k + 1] = IF k + 1 = 0 THEN from ELSE OneAway(away[(k + 1) - 1])
      BY <1>1, <2>2, Zenon DEF AwayTo
    <3> QED BY <2>2, <3>1, Zenon
  <2> QED BY <2>1, <2>3, <2>4 DEF OneAway
<1> HIDE DEF S
<1>4. n \in S
  BY <1>2, <1>3, Induction
<1> QED
  BY <1>1, <1>4 DEF S

-----------------------------------------------------------------------------
(* Whom the walk blames.                                                   *)

(* What is being visited is on the stack, each call is for a reference of  *)
(* its caller, and no definition before the next one was left out.         *)
CallInv ==
    /\ \A i \in Ids : state[i] = "visiting" => \E j \in 1 .. Len(stack) : stack[j].def = i
    /\ \A j \in 1 .. (Len(stack) - 1) : stack[j + 1].def \in Dependencies(stack[j].def) \ {0}
    /\ \A i \in Ids : i < next => state[i] # "unvisited"

(* Behind a complaint is a chain of references.                            *)
HasCycle(d) == \E n \in Ids : \E c : IsChain(c, n) /\ c[0] = d /\ c[n] = d
IsDeep(d)   == \E c : IsChain(c, MaxAnalysisDepth) /\ c[0] \in Ids /\ c[MaxAnalysisDepth] = d

ChainInv ==
    \A e \in errors :
      /\ e.what = "circular" => HasCycle(e.def)
      /\ e.what = "too deep" => IsDeep(e.def)

(* Accepted is only what the whole walk had no complaint about.            *)
AcceptInv ==
    phase \in {"accepted", "lowered", "rejected"} =>
      errors = {} /\ stack = << >> /\ next > Len(module)

VerdictInv == WalkInvariant /\ CallInv /\ ChainInv /\ AcceptInv

-----------------------------------------------------------------------------
(* The steps of the walk, as far as calls and complaints go.               *)

WalkComplaints == {"circular", "too deep"}

SameCalls(s, t) == Len(s) = Len(t) /\ \A j \in 1 .. Len(t) : s[j].def = t[j].def

Unblamed == \A e \in errors' \ errors : e.what \notin WalkComplaints

(* A call of analyzeOne for "d", from the top of the stack or from run().  *)
CallStep(d, callers) ==
    /\ AreFrames(callers) /\ SameCalls(callers, stack)
    /\ Visit(d, callers)
    /\ stack # << >> => d \in Dependencies(Top.def) /\ next' = next
    /\ stack = << >> => d = next /\ next' = next + 1 /\ phase = "walking"
    /\ UNCHANGED <<module, phase, finished>>

(* The definition at hand goes on.                                         *)
OwnStep ==
    /\ stack # << >> /\ SameCalls(stack', stack)
    /\ Unblamed
    /\ UNCHANGED <<module, state, next, phase>>

LEMMA ReportedOf ==
  ASSUME NEW d, NEW whats, NEW e \in Reported(d, whats)
  PROVE  e.def = d /\ e.what \in whats
BY DEF Reported

LEMMA TopReplaced ==
  ASSUME TInv, stack # << >>, NEW g, g.def = Top.def
  PROVE  SameCalls(WithTop(g), stack)
<1>1. stack \in Seq(Held(stack)) /\ Len(stack) \in 1 .. Len(stack)
  BY TopFrame
<1>2. /\ Len(WithTop(g)) = Len(stack)
      /\ \A j \in 1 .. Len(stack) : WithTop(g)[j] = IF j = Len(stack) THEN g ELSE stack[j]
  BY <1>1, Replaced DEF WithTop
<1> QED
  BY <1>2 DEF SameCalls, Top

(* None of the rules for statements, sections and versions blames the walk. *)
LEMMA RulesUnblamed ==
  /\ \A sec, stmt, part, value, result :
       StatementErrors(sec, stmt, part, value, result) \cap WalkComplaints = {}
  /\ \A sec : SectionErrors(sec) \cap WalkComplaints = {}
  /\ \A i : (MinorErrors(i) \cup PortErrors(i)) \cap WalkComplaints = {}
<1>1. ASSUME NEW sec, NEW stmt, NEW part, NEW value, NEW result
      PROVE  StatementErrors(sec, stmt, part, value, result) \subseteq
               {"dropped", "after mode", "after offset", "service type", "no value",
                "capacity", "assertion", "union", "deprecated"}
  BY Zenon DEF StatementErrors
<1>2. ASSUME NEW sec PROVE SectionErrors(sec) \subseteq {"options", "no mode", "extent"}
  BY Zenon DEF SectionErrors
<1>3. ASSUME NEW i PROVE MinorErrors(i) \subseteq {"sealing", "extent of minor"}
  BY Zenon DEF MinorErrors
<1>4. ASSUME NEW i
      PROVE  PortErrors(i) \subseteq
               {"port removed", "port changed", "port collides", "port too wide", "port unregulated"}
  BY Zenon DEF PortErrors
<1>5. \A sec, stmt, part, value, result :
        StatementErrors(sec, stmt, part, value, result) \cap WalkComplaints = {}
  BY <1>1 DEF WalkComplaints
<1>6. \A sec : SectionErrors(sec) \cap WalkComplaints = {}
  BY <1>2 DEF WalkComplaints
<1>7. \A i : (MinorErrors(i) \cup PortErrors(i)) \cap WalkComplaints = {}
  BY <1>3, <1>4 DEF WalkComplaints
<1> QED BY <1>5, <1>6, <1>7

(* A reference a frame makes is one of its definition's.                   *)
LEMMA CalledIsDependency ==
  ASSUME TInv, AtStatement, Top.called < Len(References(Top.section, Statement))
  PROVE  Resolved(module, Top.def, References(Top.section, Statement)[Top.called + 1])
           \in Dependencies(Top.def)
<1>1. /\ Top.called \in Nat /\ Top.def \in Ids /\ Top.at \in Nat \ {0}
      /\ Top.part \in DOMAIN module[Top.def].sections
  BY TopFrame DEF AtStatement, IsFrame
<1>2. References(Top.section, Statement) = Statement.refs
  <2>1. Len(<< >>) = 0
    BY EmptySeq
  <2> QED BY <1>1, <2>1 DEF References
<1>3. Top.at \in DOMAIN Statements(Top.def, Top.part)
  BY <1>1, Places DEF AtStatement
<1>4. Top.called + 1 \in DOMAIN Statement.refs
  BY <1>1, <1>2, <1>3, Places DEF Statement
<1> QED
  BY <1>1, <1>2, <1>3, <1>4 DEF Dependencies, Statement

LEMMA StepShape ==
  ASSUME TInv, [Next]_vars
  PROVE  \/ \E d \in Ids : \E callers : CallStep(d, callers)
         \/ OwnStep
         \/ Finish
         \/ CheckVersionRules
         \/ LowerAndVerify
         \/ UNCHANGED vars
<1>1. CASE Start
  <2>1. AreFrames(<< >>) /\ SameCalls(<< >>, << >>)
    BY EmptySeq DEF AreFrames, SameCalls
  <2>2. CallStep(next, << >>) /\ next \in Ids
    BY <1>1, <2>1, Zenon DEF Start, CallStep
  <2> QED BY <2>2
<1>2. CASE Refer
  <2> DEFINE i == Resolved(module, Top.def, References(Top.section, Statement)[Top.called + 1])
  <2>1. /\ stack # << >> /\ IsFrame(Called(Top)) /\ AreFrames(WithTop(Called(Top)))
        /\ SameCalls(WithTop(Called(Top)), stack)
    BY <1>2, TopFrame, CalledFrame, FrameReplaced, TopReplaced DEF Refer, AtStatement
  <2>2. i \in Dependencies(Top.def)
    BY <1>2, CalledIsDependency DEF Refer
  <2>3. CASE i \in Ids
    <3>1. /\ Visit(i, WithTop(Called(Top)))
          /\ UNCHANGED <<module, phase, finished, next>>
      BY <1>2, <2>3 DEF Refer, Called
    <3> HIDE DEF i
    <3>2. CallStep(i, WithTop(Called(Top)))
      BY <2>1, <2>2, <3>1, Zenon DEF CallStep
    <3> QED BY <2>3, <3>2
  <2>4. CASE i \notin Ids
    <3>1. /\ stack' = WithTop(Called(Top)) /\ errors' = errors \cup Reported(Top.def, {"unresolved"})
          /\ UNCHANGED <<module, state, next, phase>>
      BY <1>2, <2>4 DEF Refer, Called
    <3>2. Unblamed
      BY <3>1, ReportedOf DEF Unblamed, WalkComplaints
    <3> QED BY <2>1, <3>1, <3>2 DEF OwnStep
  <2> QED BY <2>3, <2>4
<1>3. CASE Take
  <2>1. PICK sec, value, result :
          /\ stack' = WithTop(Past(Top, sec))
          /\ errors' = errors \cup Reported(Top.def,
                          StatementErrors(Top.section, Statement, Top.part, value, result))
          /\ UNCHANGED <<module, state, next, phase>>
    BY <1>3 DEF Take, Past
  <2>2. stack # << >> /\ SameCalls(stack', stack)
    BY <1>3, <2>1, TopFrame, PastFrame, TopReplaced DEF Take, AtStatement
  <2>3. Unblamed
    BY <2>1, ReportedOf, RulesUnblamed DEF Unblamed
  <2> QED BY <2>1, <2>2, <2>3 DEF OwnStep
<1>4. CASE EndRequest
  <2>1. /\ stack' = WithTop(Response(Top, Sections))
        /\ errors' = errors \cup Reported(Top.def, SectionErrors(Top.section))
        /\ UNCHANGED <<module, state, next, phase>>
    BY <1>4 DEF EndRequest, Response
  <2>2. stack # << >> /\ SameCalls(stack', stack)
    BY <1>4, <2>1, TopFrame, ResponseFrame, TopReplaced DEF EndRequest, AtEnd
  <2>3. Unblamed
    BY <2>1, ReportedOf, RulesUnblamed DEF Unblamed
  <2> QED BY <2>1, <2>2, <2>3 DEF OwnStep
<1> QED
  BY <1>1, <1>2, <1>3, <1>4 DEF Next, Stopped

-----------------------------------------------------------------------------
(* The steps keep the invariant.                                           *)

LEMMA SameReferences ==
  ASSUME UNCHANGED module
  PROVE  Ids' = Ids /\ \A d : Dependencies(d)' = Dependencies(d)
BY DEF Ids, Dependencies, Statements

(* There are no more calls than definitions.                               *)
LEMMA StackIsShort ==
  ASSUME TInv, StackInv
  PROVE  Len(stack) <= Len(module)
<1>1. /\ Len(stack) \in Nat /\ Len(module) \in Nat
      /\ \A j \in 1 .. Len(stack) : stack[j].def \in 1 .. Len(module)
  BY LenProperties, Definitions DEF TInv, AreFrames, IsFrame, Ids
<1> DEFINE f == [j \in 1 .. Len(stack) |-> stack[j].def]
<1>2. /\ IsFiniteSet(1 .. Len(stack)) /\ Cardinality(1 .. Len(stack)) = Len(stack)
      /\ IsFiniteSet(1 .. Len(module)) /\ Cardinality(1 .. Len(module)) = Len(module)
  <2>1. ASSUME NEW n \in Nat PROVE IsFiniteSet(1 .. n) /\ Cardinality(1 .. n) = n
    <3>1. IsFiniteSet(1 .. n) /\ Cardinality(1 .. n) = IF 1 > n THEN 0 ELSE n - 1 + 1
      <4>1. 1 \in Int /\ n \in Int
        OBVIOUS
      <4> QED BY <4>1, FS_Interval
    <3>2. (IF 1 > n THEN 0 ELSE n - 1 + 1) = n
      OBVIOUS
    <3> QED BY <3>1, <3>2
  <2> QED BY <1>1, <2>1
<1>3. f \in [1 .. Len(stack) -> 1 .. Len(module)]
  BY <1>1
<1>4. \A j, k \in 1 .. Len(stack) : f[j] = f[k] => j = k
  BY DEF StackInv
<1> HIDE DEF f
<1>5. ~ (Len(module) < Len(stack))
  BY <1>2, <1>3, <1>4, FS_PigeonHole
<1> QED BY <1>1, <1>5

(* The calls from the "j"th on, and the reference the last of them makes,  *)
(* are a chain.                                                            *)
LEMMA CallsAreChain ==
  ASSUME TInv, CallInv, stack # << >>, NEW d \in Ids, d \in Dependencies(Top.def),
         NEW j \in 1 .. Len(stack)
  PROVE  \E c : /\ IsChain(c, Len(stack) - j + 1)
                /\ c[0] = stack[j].def /\ c[Len(stack) - j + 1] = d
<1> DEFINE n == Len(stack) - j + 1
           c == [k \in 0 .. n |-> IF k = n THEN d ELSE stack[j + k].def]
<1>1. Len(stack) \in Nat /\ n \in Nat /\ n > 0 /\ j \in Nat
  BY TopFrame
<1>2. c[0] = stack[j].def /\ c[n] = d
  <2>1. 0 \in 0 .. n /\ n \in 0 .. n /\ 0 # n /\ j + 0 = j
    BY <1>1
  <2> QED BY <2>1
<1>3. ASSUME NEW k \in 0 .. (n - 1) PROVE c[k + 1] \in Dependencies(c[k]) \ {0}
  <2>1. /\ k \in 0 .. n /\ k + 1 \in 0 .. n /\ k # n
        /\ j + k \in 1 .. Len(stack) /\ j + (k + 1) = (j + k) + 1
    BY <1>1
  <2>2. c[k] = stack[j + k].def
    BY <2>1
  <2>3. CASE k + 1 = n
    <3>1. j + k = Len(stack) /\ c[k + 1] = d
      BY <1>1, <2>1, <2>3
    <3>2. d # 0
      BY DEF Ids
    <3> QED BY <2>2, <3>1, <3>2 DEF Top
  <2>4. CASE k + 1 # n
    <3>1. j + k \in 1 .. (Len(stack) - 1)
      BY <1>1, <2>1, <2>4
    <3>2. c[k + 1] = stack[(j + k) + 1].def
      BY <2>1, <2>4
    <3>3. stack[(j + k) + 1].def \in Dependencies(stack[j + k].def) \ {0}
      BY <3>1 DEF CallInv
    <3> QED BY <2>2, <3>2, <3>3
  <2> QED BY <2>3, <2>4
<1> HIDE DEF c
<1>4. IsChain(c, n)
  BY <1>3 DEF IsChain
<1> QED BY <1>2, <1>4

(* A definition that is called while it is visited refers to itself.       *)
LEMMA CircularHasCycle ==
  ASSUME TInv, StackInv, CallInv, NEW d \in Ids, NEW callers, CallStep(d, callers),
         state[d] = "visiting"
  PROVE  HasCycle(d)
<1>1. PICK j \in 1 .. Len(stack) : stack[j].def = d
  BY DEF CallInv
<1>2. stack # << >>
  BY <1>1, EmptySeq
<1>3. d \in Dependencies(Top.def)
  BY <1>2 DEF CallStep
<1>4. Len(stack) \in Nat /\ Len(stack) <= Len(module) /\ Len(module) \in Nat
  BY <1>2, TopFrame, StackIsShort, Definitions
<1>5. Len(stack) - j + 1 \in Ids
  BY <1>4 DEF Ids
<1>6. \E c : /\ IsChain(c, Len(stack) - j + 1)
             /\ c[0] = stack[j].def /\ c[Len(stack) - j + 1] = d
  BY <1>2, <1>3, CallsAreChain
<1> QED BY <1>1, <1>5, <1>6 DEF HasCycle

(* A definition called at the limit ends a chain as long as the limit.     *)
LEMMA TooDeepIsDeep ==
  ASSUME TInv, StackInv, CallInv, NEW d \in Ids, NEW callers, CallStep(d, callers),
         Len(callers) >= MaxAnalysisDepth
  PROVE  IsDeep(d)
<1>1. Len(callers) = Len(stack) /\ MaxAnalysisDepth \in Nat /\ Len(stack) <= MaxAnalysisDepth
  BY AnalysisConstants DEF CallStep, SameCalls, StackInv
<1>2. CASE stack = << >>
  <2>1. MaxAnalysisDepth = 0
    BY <1>1, <1>2, EmptySeq
  <2> DEFINE c == [k \in 0 .. 0 |-> d]
  <2>2. IsChain(c, 0) /\ c[0] = d
    BY DEF IsChain
  <2> HIDE DEF c
  <2> QED BY <2>1, <2>2 DEF IsDeep
<1>3. CASE stack # << >>
  <2>1. Len(stack) \in Nat \ {0} /\ 1 \in 1 .. Len(stack) /\ Len(stack) = MaxAnalysisDepth
        /\ Len(stack) - 1 + 1 = MaxAnalysisDepth
    BY <1>1, <1>3, TopFrame
  <2>2. d \in Dependencies(Top.def)
    BY <1>3 DEF CallStep
  <2>3. \E c : /\ IsChain(c, Len(stack) - 1 + 1)
               /\ c[0] = stack[1].def /\ c[Len(stack) - 1 + 1] = d
    BY <1>3, <2>1, <2>2, CallsAreChain
  <2>4. stack[1].def \in Ids
    BY <2>1 DEF TInv, AreFrames, IsFrame
  <2> QED BY <2>1, <2>3, <2>4 DEF IsDeep
<1> QED BY <1>2, <1>3

(* The complaints of a step that blames nobody, or only those who deserve  *)
(* it.                                                                     *)
LEMMA ChainKept ==
  ASSUME ChainInv, UNCHANGED module,
         \A e \in errors' \ errors : /\ e.what = "circular" => HasCycle(e.def)
                                     /\ e.what = "too deep" => IsDeep(e.def)
  PROVE  ChainInv'
<1>1. \A e \in errors' : /\ e.what = "circular" => HasCycle(e.def)
                         /\ e.what = "too deep" => IsDeep(e.def)
  BY DEF ChainInv
<1>2. \A d : (HasCycle(d) => HasCycle(d)') /\ (IsDeep(d) => IsDeep(d)')
  BY SameReferences DEF HasCycle, IsDeep, IsChain
<1> QED BY <1>1, <1>2 DEF ChainInv

LEMMA CallKeepsCallInv ==
  ASSUME TInv, CallInv, NEW d \in Ids, NEW callers, CallStep(d, callers)
  PROVE  CallInv'
<1>1. /\ Len(callers) = Len(stack) /\ Len(stack) \in Nat
      /\ \A j \in 1 .. Len(stack) : callers[j].def = stack[j].def
  BY LenProperties DEF CallStep, SameCalls, TInv, AreFrames
<1>2. /\ Ids' = Ids /\ \A i : Dependencies(i)' = Dependencies(i)
  BY SameReferences DEF CallStep
<1>3. \A i \in Ids : i < next' => i < next \/ i = d
  BY DEF CallStep, TInv, Ids
<1>4. CASE /\ stack' = callers
           /\ \/ state[d] # "unvisited" /\ UNCHANGED state
              \/ state' = [state EXCEPT ![d] = "done"]
  <2>1. \A i \in Ids : state'[i] = "visiting" => state[i] = "visiting"
    BY <1>4 DEF TInv
  <2>2. \A i \in Ids : i < next' => state'[i] # "unvisited"
    BY <1>3, <1>4 DEF CallInv, TInv
  <2>3. \A j \in 1 .. (Len(stack) - 1) : j \in 1 .. Len(stack) /\ j + 1 \in 1 .. Len(stack)
    BY <1>1
  <2>4. \A j \in 1 .. (Len(stack') - 1) :
          stack'[j + 1].def \in Dependencies(stack'[j].def) \ {0}
    BY <1>1, <1>4, <2>3 DEF CallInv
  <2>5. \A i \in Ids : state'[i] = "visiting" => \E j \in 1 .. Len(stack') : stack'[j].def = i
    BY <1>1, <1>4, <2>1 DEF CallInv
  <2> QED BY <1>2, <2>2, <2>4, <2>5 DEF CallInv
<1>5. CASE /\ stack' = Append(callers, NewFrame(d))
           /\ state' = [state EXCEPT ![d] = "visiting"]
  <2>1. /\ Len(stack') = Len(stack) + 1
        /\ \A j \in 1 .. Len(stack) : stack'[j].def = stack[j].def
        /\ stack'[Len(stack) + 1].def = d
    <3>1. /\ Len(stack') = Len(callers) + 1
          /\ \A j \in 1 .. Len(callers) : stack'[j] = callers[j]
          /\ stack'[Len(callers) + 1] = NewFrame(d)
      BY <1>5, Pushed DEF CallStep, AreFrames
    <3> QED BY <1>1, <3>1 DEF NewFrame
  <2>2. \A i \in Ids : i < next' => state'[i] # "unvisited"
    BY <1>3, <1>5 DEF CallInv, TInv
  <2>3. ASSUME NEW j \in 1 .. (Len(stack') - 1)
        PROVE  stack'[j + 1].def \in Dependencies(stack'[j].def) \ {0}
    <3>1. CASE j < Len(stack)
      <4>1. j \in 1 .. (Len(stack) - 1) /\ j \in 1 .. Len(stack) /\ j + 1 \in 1 .. Len(stack)
        BY <1>1, <3>1
      <4> QED BY <2>1, <4>1 DEF CallInv
    <3>2. CASE j = Len(stack)
      <4>1. stack # << >> /\ j \in 1 .. Len(stack)
        BY <1>1, <2>1, <3>2, EmptySeq
      <4>2. d \in Dependencies(Top.def) \ {0}
        BY <4>1 DEF CallStep, Ids
      <4> QED BY <2>1, <3>2, <4>1, <4>2 DEF Top
    <3> QED BY <1>1, <2>1, <3>1, <3>2
  <2>4. ASSUME NEW i \in Ids, state'[i] = "visiting"
        PROVE  \E j \in 1 .. Len(stack') : stack'[j].def = i
    <3>1. CASE i = d
      <4>1. Len(stack) + 1 \in 1 .. Len(stack')
        BY <1>1, <2>1
      <4> QED BY <2>1, <3>1, <4>1
    <3>2. CASE i # d
      <4>1. state[i] = "visiting"
        BY <1>5, <2>4, <3>2 DEF TInv
      <4>2. PICK j \in 1 .. Len(stack) : stack[j].def = i
        BY <4>1 DEF CallInv
      <4>3. j \in 1 .. Len(stack')
        BY <1>1, <2>1
      <4> QED BY <2>1, <4>2, <4>3
    <3> QED BY <3>1, <3>2
  <2> QED BY <1>2, <2>2, <2>3, <2>4 DEF CallInv
<1> QED
  BY <1>4, <1>5, Zenon DEF CallStep, Visit

LEMMA OwnKeepsCallInv ==
  ASSUME TInv, CallInv, SameCalls(stack', stack), UNCHANGED <<module, state, next>>
  PROVE  CallInv'
<1>1. /\ Ids' = Ids /\ \A i : Dependencies(i)' = Dependencies(i)
  BY SameReferences
<1>2. \A j \in 1 .. (Len(stack) - 1) : j \in 1 .. Len(stack) /\ j + 1 \in 1 .. Len(stack)
  BY LenProperties DEF TInv, AreFrames
<1> QED BY <1>1, <1>2 DEF CallInv, SameCalls

LEMMA FinishKeepsCallInv ==
  ASSUME TInv, StackInv, CallInv, Finish
  PROVE  CallInv'
<1>1. /\ stack' = SubSeq(stack, 1, Len(stack) - 1) /\ stack # << >>
      /\ state' = [state EXCEPT ![Top.def] = "done"] /\ UNCHANGED <<module, next>>
  BY DEF Finish, AtEnd
<1>2. /\ Len(stack) \in Nat \ {0} /\ Top.def \in Ids
      /\ Len(stack') = Len(stack) - 1
      /\ \A j \in 1 .. (Len(stack) - 1) : stack'[j] = stack[j]
  BY <1>1, TopFrame, Popped DEF IsFrame
<1>3. /\ Ids' = Ids /\ \A i : Dependencies(i)' = Dependencies(i)
  BY <1>1, SameReferences
<1>4. \A i \in Ids : i < next => state'[i] # "unvisited"
  BY <1>1, <1>2 DEF CallInv, TInv
<1>5. ASSUME NEW i \in Ids, state'[i] = "visiting"
      PROVE  \E j \in 1 .. Len(stack') : stack'[j].def = i
  <2>1. i # Top.def /\ state[i] = "visiting"
    BY <1>1, <1>2, <1>5 DEF TInv
  <2>2. PICK j \in 1 .. Len(stack) : stack[j].def = i
    BY <2>1 DEF CallInv
  <2>3. j \in 1 .. (Len(stack) - 1)
    BY <1>2, <2>1, <2>2 DEF Top
  <2> QED BY <1>2, <2>2, <2>3
<1>6. ASSUME NEW j \in 1 .. (Len(stack') - 1)
      PROVE  stack'[j + 1].def \in Dependencies(stack'[j].def) \ {0}
  <2>1. j \in 1 .. (Len(stack) - 1) /\ j + 1 \in 1 .. (Len(stack) - 1)
    BY <1>2
  <2> QED BY <1>2, <2>1 DEF CallInv
<1> QED BY <1>1, <1>3, <1>4, <1>5, <1>6 DEF CallInv

(* Only calls of analyzeOne blame the walk.                                *)
LEMMA CallKeepsChainInv ==
  ASSUME TInv, StackInv, CallInv, ChainInv, NEW d \in Ids, NEW callers, CallStep(d, callers)
  PROVE  ChainInv'
<1>1. ASSUME NEW e \in errors' \ errors
      PROVE  /\ e.what = "circular" => HasCycle(e.def)
             /\ e.what = "too deep" => IsDeep(e.def)
  <2>1. \/ state[d] = "visiting" /\ errors' = errors \cup Reported(d, {"circular"})
        \/ Len(callers) >= MaxAnalysisDepth /\ errors' = errors \cup Reported(d, {"too deep"})
        \/ errors' = errors \cup Reported(d, IF module[d].markers > 1 THEN {"markers"} ELSE {})
        \/ errors' = errors
    BY Zenon DEF CallStep, Visit
  <2>2. CASE state[d] = "visiting" /\ errors' = errors \cup Reported(d, {"circular"})
    <3>1. e.def = d /\ e.what = "circular"
      BY <1>1, <2>2, ReportedOf
    <3> QED BY <2>2, <3>1, CircularHasCycle
  <2>3. CASE Len(callers) >= MaxAnalysisDepth /\ errors' = errors \cup Reported(d, {"too deep"})
    <3>1. e.def = d /\ e.what = "too deep"
      BY <1>1, <2>3, ReportedOf
    <3> QED BY <2>3, <3>1, TooDeepIsDeep
  <2>4. CASE errors' = errors \cup Reported(d, IF module[d].markers > 1 THEN {"markers"} ELSE {})
    <3>1. e.what = "markers"
      BY <1>1, <2>4, ReportedOf
    <3> QED BY <3>1
  <2> QED BY <1>1, <2>1, <2>2, <2>3, <2>4
<1>2. UNCHANGED module
  BY DEF CallStep
<1> QED BY <1>1, <1>2, ChainKept

LEMMA UnblamedKeepsChainInv ==
  ASSUME ChainInv, Unblamed, UNCHANGED module
  PROVE  ChainInv'
BY ChainKept DEF Unblamed, WalkComplaints

LEMMA VerdictKept ==
  ASSUME VerdictInv, [Next]_vars
  PROVE  VerdictInv'
<1>0. TInv /\ StackInv /\ CallInv /\ ChainInv /\ AcceptInv
  BY DEF VerdictInv, WalkInvariant
<1>1. WalkInvariant'
  BY Typed, WalkKept, StackKept DEF VerdictInv, WalkInvariant
<1>2. ASSUME NEW d \in Ids, NEW callers, CallStep(d, callers)
      PROVE  CallInv' /\ ChainInv' /\ AcceptInv'
  <2>1. CallInv' /\ ChainInv'
    BY <1>0, <1>2, CallKeepsCallInv, CallKeepsChainInv
  <2>2. AcceptInv'
    BY <1>0, <1>2 DEF CallStep, AcceptInv
  <2> QED BY <2>1, <2>2
<1>3. CASE OwnStep
  <2>1. CallInv' /\ ChainInv'
    BY <1>0, <1>3, OwnKeepsCallInv, UnblamedKeepsChainInv DEF OwnStep
  <2>2. AcceptInv'
    BY <1>0, <1>3 DEF OwnStep, AcceptInv
  <2> QED BY <1>1, <2>1, <2>2 DEF VerdictInv
<1>4. CASE Finish
  <2>1. CallInv'
    BY <1>0, <1>4, FinishKeepsCallInv
  <2>2. errors' = errors \cup Reported(Top.def, SectionErrors(Top.section)
                     \cup (IF Top.part = 2 /\ Top.section.deprecated THEN {"deprecated"} ELSE {}))
        /\ UNCHANGED <<module, phase>> /\ stack # << >>
    BY <1>4 DEF Finish, AtEnd
  <2>3. ASSUME NEW e \in errors' \ errors PROVE e.what \notin WalkComplaints
    <3>1. e.what \in SectionErrors(Top.section) \cup {"deprecated"}
      BY <2>2, <2>3, ReportedOf
    <3> QED BY <3>1, RulesUnblamed DEF WalkComplaints
  <2>4. ChainInv'
    BY <1>0, <2>2, <2>3, UnblamedKeepsChainInv DEF Unblamed
  <2>5. AcceptInv'
    BY <1>0, <2>2 DEF AcceptInv
  <2> QED BY <1>1, <2>1, <2>4, <2>5 DEF VerdictInv
<1>5. CASE CheckVersionRules
  <2>1. /\ errors' = errors \cup UNION {Reported(i, MinorErrors(i) \cup PortErrors(i)) : i \in Analysed}
        /\ phase' = IF errors' = {} THEN "accepted" ELSE "refused"
        /\ stack = << >> /\ next > Len(module)
        /\ UNCHANGED <<module, state, stack, next>>
    BY <1>5 DEF CheckVersionRules
  <2>2. CallInv'
    BY <1>0, <2>1, OwnKeepsCallInv DEF SameCalls
  <2>3. ASSUME NEW e \in errors' \ errors PROVE e.what \notin WalkComplaints
    <3>1. PICK i \in Analysed : e \in Reported(i, MinorErrors(i) \cup PortErrors(i))
      BY <2>1, <2>3
    <3>2. e.what \in MinorErrors(i) \cup PortErrors(i)
      BY <3>1, ReportedOf
    <3> QED BY <3>2, RulesUnblamed
  <2>4. ChainInv'
    BY <1>0, <2>1, <2>3, UnblamedKeepsChainInv DEF Unblamed
  <2>5. AcceptInv'
    BY <2>1 DEF AcceptInv
  <2> QED BY <1>1, <2>2, <2>4, <2>5 DEF VerdictInv
<1>6. CASE LowerAndVerify \/ UNCHANGED vars
  <2>1. /\ UNCHANGED <<module, state, stack, next, errors>>
        /\ UNCHANGED phase \/ phase = "accepted"
    BY <1>6 DEF LowerAndVerify, vars
  <2>2. CallInv'
    BY <1>0, <2>1, OwnKeepsCallInv DEF SameCalls
  <2>3. ChainInv'
    BY <1>0, <2>1, UnblamedKeepsChainInv DEF Unblamed
  <2>4. AcceptInv'
    BY <1>0, <2>1 DEF AcceptInv
  <2> QED BY <1>1, <2>2, <2>3, <2>4 DEF VerdictInv
<1> QED
  BY <1>0, <1>1, <1>2, <1>3, <1>4, <1>5, <1>6, StepShape DEF VerdictInv

LEMMA VerdictInitially ==
  ASSUME Init
  PROVE  VerdictInv
<1>1. WalkInvariant
  BY Initially
<1>2. Len(<< >>) = 0
  BY EmptySeq
<1>3. CallInv
  BY <1>2 DEF Init, CallInv, Ids
<1>4. ChainInv /\ AcceptInv
  BY DEF Init, ChainInv, AcceptInv
<1> QED BY <1>1, <1>3, <1>4 DEF VerdictInv

LEMMA Judged == Spec => []VerdictInv
BY VerdictInitially, VerdictKept, PTL DEF Spec

(* Every complaint about the walk is deserved: what is said to be circular *)
(* refers to itself, and what is said to be too deep ends a chain of more  *)
(* references than the limit allows (analyzeOne).                          *)
THEOREM BlamesWhoDeservesIt == Spec => []BlameIsDeserved
<1>1. ASSUME VerdictInv PROVE BlameIsDeserved
  <2>1. ASSUME NEW e \in errors, e.what = "circular"
        PROVE  \E n \in Ids : e.def \in Away({e.def}, n)
    <3>0. PICK n \in Ids : \E c : IsChain(c, n) /\ c[0] = e.def /\ c[n] = e.def
      BY <1>1, <2>1 DEF VerdictInv, ChainInv, HasCycle
    <3>1. PICK c : IsChain(c, n) /\ c[0] = e.def /\ c[n] = e.def
      BY <3>0
    <3>2. c[n] \in Away({e.def}, n)
      BY <3>1, ChainLeadsAway DEF Ids
    <3> QED BY <3>1, <3>2
  <2>2. ASSUME NEW e \in errors, e.what = "too deep"
        PROVE  e.def \in Away(Ids, MaxAnalysisDepth)
    <3>1. PICK c : IsChain(c, MaxAnalysisDepth) /\ c[0] \in Ids /\ c[MaxAnalysisDepth] = e.def
      BY <1>1, <2>2 DEF VerdictInv, ChainInv, IsDeep
    <3>2. c[MaxAnalysisDepth] \in Away(Ids, MaxAnalysisDepth)
      BY <3>1, AnalysisConstants, ChainLeadsAway
    <3> QED BY <3>1, <3>2
  <2> QED BY <2>1, <2>2, Zenon DEF BlameIsDeserved
<1> QED BY <1>1, Judged, PTL

(* An accepted module has every definition analysed, and none that refers  *)
(* to itself, directly or not: no cycle gets past the walk, wherever it    *)
(* starts and however it goes (analyzeOne, run).                           *)
AcceptedHasNoCycle ==
    phase \in {"accepted", "lowered", "rejected"} =>
      \A i \in Ids : /\ i \in Held(finished)
                    /\ \A n \in Nat \ {0} : i \notin Away({i}, n)

(* What a finished definition leads to was finished before it.             *)
LEMMA AwayIsBefore ==
  ASSUME TInv, ReferencesFinishFirst, errors = {},
         NEW p \in DOMAIN finished, NEW n \in Nat \ {0}
  PROVE  Away({finished[p]}, n) \subseteq {finished[m] : m \in 1 .. (p - 1)}
<1>1. PICK away : AwayTo({finished[p]}, n, away) /\ Away({finished[p]}, n) = away[n]
  BY AwayIsLast
<1>2. DOMAIN finished = 1 .. Len(finished) /\ Len(finished) \in Nat
  BY LenProperties DEF TInv
<1> DEFINE Before == {finished[m] : m \in 1 .. (p - 1)}
           S == {k \in Nat : k + 1 <= n => away[k + 1] \subseteq Before}
<1>3. ASSUME NEW k \in Nat, k + 1 <= n PROVE away[k + 1] = OneAway(away[k])
  <2>1. k + 1 \in 0 .. n /\ k + 1 # 0 /\ (k + 1) - 1 = k
    BY <1>3
  <2>2. away[k + 1] = IF k + 1 = 0 THEN {finished[p]} ELSE OneAway(away[(k + 1) - 1])
    BY <1>1, <2>1, Zenon DEF AwayTo
  <2> QED BY <2>1, <2>2, Zenon
<1>4. 0 \in S
  <2>1. away[0] = {finished[p]}
    BY <1>1 DEF AwayTo
  <2>2. Dependencies(finished[p]) \subseteq Before
    BY DEF ReferencesFinishFirst
  <2>3. OneAway(away[0]) \subseteq Before
    BY <2>1, <2>2 DEF OneAway
  <2> QED BY <1>3, <2>3
<1>5. ASSUME NEW k \in Nat, k \in S PROVE k + 1 \in S
  <2> SUFFICES ASSUME (k + 1) + 1 <= n, NEW x \in away[(k + 1) + 1] PROVE x \in Before
    OBVIOUS
  <2>1. away[k + 1] \subseteq Before
    BY <1>5
  <2>2. away[(k + 1) + 1] = OneAway(away[k + 1])
    BY <1>3
  <2>3. PICK m \in 1 .. (p - 1) : x \in Dependencies(finished[m])
    BY <2>1, <2>2 DEF OneAway
  <2>4. m \in DOMAIN finished /\ \A l \in 1 .. (m - 1) : l \in 1 .. (p - 1)
    BY <1>2
  <2>5. Dependencies(finished[m]) \subseteq {finished[l] : l \in 1 .. (m - 1)}
    BY <2>4 DEF ReferencesFinishFirst
  <2> QED BY <2>3, <2>4, <2>5
<1> HIDE DEF S
<1>6. n - 1 \in S /\ (n - 1) + 1 = n
  BY <1>4, <1>5, Induction
<1> QED BY <1>1, <1>6 DEF S

(* No module with a definition that refers to itself, through however many *)
(* others, is accepted (analyzeOne, the state "visiting").                  *)
THEOREM AcceptsNoCycle == Spec => []AcceptedHasNoCycle
<1>1. ASSUME VerdictInv, phase \in {"accepted", "lowered", "rejected"}, NEW i \in Ids
      PROVE  i \in Held(finished) /\ \A n \in Nat \ {0} : i \notin Away({i}, n)
  <2>0. /\ TInv /\ WalkInv /\ StackInv /\ CallInv
        /\ errors = {} /\ stack = << >> /\ next > Len(module)
    BY <1>1 DEF VerdictInv, WalkInvariant, AcceptInv
  <2>1. Len(stack) = 0 /\ i < next
    BY <2>0, EmptySeq, Definitions DEF Ids, TInv
  <2>2. state[i] = "done"
    BY <2>0, <2>1 DEF TInv, CallInv
  <2>3. PICK p \in DOMAIN finished : finished[p] = i
    BY <2>0, <2>2 DEF WalkInv, Held
  <2>4. DOMAIN finished = 1 .. Len(finished) /\ Len(finished) \in Nat
    BY <2>0, LenProperties DEF TInv
  <2>5. ASSUME NEW n \in Nat \ {0}, i \in Away({i}, n) PROVE FALSE
    <3>1. PICK m \in 1 .. (p - 1) : i = finished[m]
      BY <2>0, <2>3, <2>5, AwayIsBefore DEF WalkInv
    <3>2. m \in DOMAIN finished /\ m # p
      BY <2>4, <3>1
    <3> QED BY <2>0, <2>3, <3>1, <3>2 DEF StackInv
  <2> QED BY <2>3, <2>5 DEF Held
<1>2. VerdictInv => AcceptedHasNoCycle
  BY <1>1 DEF AcceptedHasNoCycle
<1> QED BY <1>2, Judged, PTL

=============================================================================
