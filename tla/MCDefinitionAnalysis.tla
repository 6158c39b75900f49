------------------------ MODULE MCDefinitionAnalysis ------------------------
(***************************************************************************)
(* The analyser on whole families of modules, each judged once more by the *)
(* rules of the language stated over all of a module at once: no walk, no  *)
(* order, no section so far.                                               *)
(***************************************************************************)
EXTENDS DefinitionAnalysis, FiniteSetsExt

----------------------------------------------------------------------------
(* How statements and definitions are written here                         *)

Statement0 == [kind |-> "field", name |-> "", refs |-> << >>, value |-> 0,
               offset |-> FALSE, array |-> FALSE]

Plain(kind)           == [Statement0 EXCEPT !.kind = kind]
Scalar(name)          == [Statement0 EXCEPT !.name = name]
Constant(name, value) == [Statement0 EXCEPT !.kind = "constant", !.name = name, !.value = value]
Extent(value)         == [Statement0 EXCEPT !.kind = "extent", !.value = value]
OfOffset(kind)        == [Statement0 EXCEPT !.kind = kind, !.offset = TRUE]

To(role, path, minor, attribute) ==
    [role |-> role, path |-> path, major |-> 1, minor |-> minor, attribute |-> attribute]

\* A field of the type "path", and an array of as many as an attribute of "path" says.
Nested(name, path) == [Statement0 EXCEPT !.name = name, !.refs = <<To("type", path, 0, "")>>]
Counted(name, paths, attribute) ==
    [Statement0 EXCEPT !.name = name, !.array = TRUE,
        !.refs = [k \in DOMAIN paths |->
                    IF k < Len(paths) THEN To("type", paths[k], 0, "")
                                      ELSE To("attribute", paths[k], 0, attribute)]]

Type(space, short, major, minor, port, sections) ==
    [space |-> space, short |-> short, major |-> major, minor |-> minor, port |-> port,
     markers |-> Len(sections) - 1, sections |-> sections]

Message(short, section) == Type(<<"a">>, short, 1, 0, NoPort, <<section>>)

UpTo(S, n) == UNION {[1 .. k -> S] : k \in 0 .. n}

----------------------------------------------------------------------------
(* The modules                                                             *)

\* Three definitions that refer to each other, to themselves and to one there is
\* not, in a type, in a capacity or in both.
Shorts == <<"A", "B", "C">>
Paths == {<<"A">>, <<"B">>, <<"C">>}
Bodies ==
    LET one(w)  == <<Nested("x", w)>>
        two(w)  == <<Nested("x", w[1]), Nested("y", w[2])>>
        len(w)  == <<Counted("x", <<w>>, "N")>>
        both(w) == <<Counted("x", w, "_extent_")>>
    IN  {<<Scalar("x")>>, one(<<"X">>), <<Counted("x", <<<<"A">>>>, "M")>>}
          \cup {one(w) : w \in Paths} \cup {len(w) : w \in Paths}
          \cup {two(w) : w \in {v \in Paths \X Paths : v[2] # <<"C">>}}
          \cup {both(w) : w \in {<<<<"B">>, <<"C">>>>, <<<<"C">>, <<"B">>>>}}
Walks == {[k \in 1 .. 3 |-> Message(Shorts[k], <<Constant("N", k)>> \o b[k]
                                                 \o <<IF k = 2 THEN Extent(6) ELSE Plain("sealed")>>)]
            : b \in [1 .. 3 -> Bodies]}

\* One definition of up to four statements, and of unions of up to five.
Some == {Plain("union"), Plain("deprecated"), Plain("sealed"), Extent(1), OfOffset("extent"),
         OfOffset("assert"), Scalar("x"), Scalar("y"), Plain("padding"), Constant("x", 1)}
Texts == UpTo(Some, 3)
           \cup {Append(t, Plain("sealed")) : t \in [1 .. 3 -> Some]}
           \cup {<<Plain("union")>> \o t \o <<m>> : t \in [1 .. 3 -> Some], m \in {Plain("sealed"), Extent(2)}}
Written == {<<Message("A", t)>> : t \in Texts}

\* Services, and a message that takes one for a type or asks it for an attribute.
Halves == {<<Scalar("x"), Plain("sealed")>>, <<Plain("deprecated"), Scalar("x"), Extent(2)>>,
           <<Scalar("x"), Extent(2)>>, <<Plain("sealed"), Scalar("x")>>,
           <<Plain("union"), Scalar("x"), Plain("sealed")>>}
Services == {<<Type(<<"a">>, "S", 1, 0, NoPort, <<p, q>>), Message("A", <<t, Plain("sealed")>>)>>
               : p \in Halves, q \in Halves,
                 t \in {Nested("x", <<"S">>), Counted("x", <<<<"S">>>>, "_extent_"), Scalar("x")}}
            \cup {<<[Type(<<"a">>, "S", 1, 0, NoPort, <<p, p>>) EXCEPT !.markers = 2]>> : p \in Halves}

\* Minor versions of one major, and a third definition that may be another minor,
\* another major or another type; ports at the ends of their ranges.
Shapes == {<<Scalar("x"), Plain("sealed")>>, <<Scalar("x"), Scalar("y"), Plain("sealed")>>,
           <<Scalar("x"), Extent(1)>>, <<Scalar("x"), Extent(2)>>}
Ports == {NoPort, 6200, 6201}
Of(short, major, minor, port, shape) == Type(<<"a">>, short, major, minor, port, <<shape>>)
OneField == <<Scalar("x"), Plain("sealed")>>
Versions ==
    {<<Of("T", major, n, 6200, s), Of("T", major, 1, p, t)>>
       : major \in {0, 1}, n \in {0, 2}, p \in Ports, s \in Shapes, t \in Shapes}
    \cup {<<Of("T", 1, n[1], p[1], OneField), Of("T", 1, n[2], p[2], OneField), third>>
            : n \in {<<0, 1>>, <<1, 0>>}, p \in Ports \X Ports,
              third \in {Of(u, 1, 2, q, OneField) : u \in {"T", "U"}, q \in Ports}
                          \cup {Of("T", major, 0, 6200, OneField) : major \in {0, 2}}}
    \cup {<<Type(<<space>>, "T", 1, 0, p, [k \in 1 .. n |-> OneField])>>
            : space \in {"a", "uavcan"}, n \in 1 .. 2,
              p \in {255, 256, 383, 384, 511, 512, 6143, 6144, 7167, 7168, 8191, 8192}}
    \cup {<<Type(<<"a">>, "T", 1, 0, 300, <<OneField, OneField>>),
            Type(<<"a">>, "U", 1, 0, 300, [k \in 1 .. n |-> OneField])>> : n \in 1 .. 2}

\* One name with several meanings, told apart by the lengths of what it may mean.
Spaces == <<<<"a">>, <<"b">>, <<"a", "b">>, <<"a", "b", "b">>>>
Scalars(n) == [k \in 1 .. n |-> Scalar(<<"x", "y", "z", "w">>[k])]
Names ==
    {[k \in 1 .. 5 |->
        IF k = 5 THEN Type(<<"a", "b">>, "Z", 1, 0, NoPort, <<<<Nested("x", path), OfOffset("extent")>>>>)
        ELSE Type(Spaces[k], IF k \in meant THEN "T" ELSE "U", 1, 0, NoPort,
                  <<Append(Scalars(k), Plain("sealed"))>>)]
       : meant \in SUBSET (1 .. 4),
         path \in {<<"T">>, <<"b", "T">>, <<"a", "T">>, <<"a", "b", "T">>, <<"b", "b", "T">>}}

\* A chain of definitions of one field each, from its head or from its leaf.
Level(k, last) ==
    Type(<<"a">>, "T", 1, k, NoPort,
         <<<<IF k = last THEN Scalar("x") ELSE [Nested("x", <<"T">>) EXCEPT !.refs[1].minor = k + 1],
             Plain("sealed")>>>>)
Chain(length) ==
    {[k \in 1 .. length |-> Level(k, length)], [k \in 1 .. length |-> Level(length + 1 - k, length)]}
Chains == Chain(65) \cup Chain(66)

AllModules == Walks \cup Written \cup Services \cup Versions \cup Names

----------------------------------------------------------------------------
(* The rules of the language, of a whole module "m" at once                *)

\* The definition meant by a reference: what the name says in full, or below the
\* owner's root, or next to the owner; a bare name is only looked for next to it.
Meant(m, i, r) ==
    LET are(name) == {j \in DOMAIN m : /\ Append(m[j].space, m[j].short) = name
                                       /\ m[j].major = r.major /\ m[j].minor = r.minor}
        beside    == are(m[i].space \o r.path)
        below     == are(<<m[i].space[1]>> \o r.path)
        one(S)    == IF S = {} THEN 0 ELSE CHOOSE j \in S : TRUE
    IN  IF Len(r.path) = 1 THEN one(beside)
        ELSE IF are(r.path) # {} THEN one(are(r.path))
        ELSE IF below # {} THEN one(below) ELSE one(beside)

Places(m) == UNION {UNION {{<<i, p, n>> : n \in DOMAIN m[i].sections[p]}
                             : p \in DOMAIN m[i].sections} : i \in DOMAIN m}
Text(m, i, p) == m[i].sections[p]
At(m, x) == m[x[1]].sections[x[2]][x[3]]
Uses(m, x) == {[role |-> r.role, of |-> Meant(m, x[1], r), attribute |-> r.attribute]
                 : r \in {At(m, x).refs[k] : k \in DOMAIN At(m, x).refs}}

\* Who refers to whom has no cycle: taking away, again and again, those that refer
\* to none of the others leaves nobody.
RECURSIVE WellFounded(_, _)
WellFounded(m, S) ==
    LET leaves == {i \in S : \A x \in Places(m) : x[1] = i => \A u \in Uses(m, x) : u.of \notin S}
    IN  S = {} \/ (leaves # {} /\ WellFounded(m, S \ leaves))

\* Lengths, offsets and values, each in terms of the others.
IsUnionText(t) == \E n \in DOMAIN t : t[n].kind = "union"
FieldsOf(t) == {n \in DOMAIN t : t[n].kind \in {"field", "padding"}}

RECURSIVE LengthUpTo(_, _, _), ExtentOf(_, _), ValueAt(_, _)
LengthUpTo(m, i, before) ==   \* before: the place of a statement
    LET t == Text(m, i, before[2])
        length(n) ==
          LET x == <<i, before[2], n>>
              of == {u.of : u \in {v \in Uses(m, x) : v.role = "type"}}
              one == IF of = {} THEN 1
                     ELSE LET j == CHOOSE j \in of : TRUE
                          IN  ExtentOf(m, j) + (IF \E k \in DOMAIN Text(m, j, 1) : Text(m, j, 1)[k].kind = "extent"
                                                THEN HeaderBytes ELSE 0)
          IN  IF t[n].array THEN one * ValueAt(m, x) ELSE one
        fields == {n \in FieldsOf(t) : n < before[3]}
    IN  IF fields = {} THEN 0
        ELSE IF IsUnionText(t) THEN 1 + Max({length(n) : n \in fields})
        ELSE MapThenSumSet(length, fields)

ExtentOf(m, j) ==
    LET t == Text(m, j, 1)
        given == {n \in DOMAIN t : t[n].kind = "extent"}
    IN  IF given = {} THEN LengthUpTo(m, j, <<j, 1, Len(t) + 1>>)
        ELSE ValueAt(m, <<j, 1, CHOOSE n \in given : TRUE>>)

ValueAt(m, x) ==
    LET asked == {u \in Uses(m, x) : u.role = "attribute"} IN
    IF asked # {}
    THEN LET u == CHOOSE u \in asked : TRUE
             c == {n \in DOMAIN Text(m, u.of, 1) : /\ Text(m, u.of, 1)[n].kind = "constant"
                                                   /\ Text(m, u.of, 1)[n].name = u.attribute}
         IN  IF u.attribute = "_extent_" THEN ExtentOf(m, u.of)
             ELSE ValueAt(m, <<u.of, 1, CHOOSE n \in c : TRUE>>)
    ELSE IF At(m, x).offset THEN LengthUpTo(m, x[1], x) ELSE At(m, x).value

Attributes == {"field", "constant", "padding"}

\* What is written in a section, before anything is computed.
WellWritten(t, part) ==
    LET are(kinds) == {n \in DOMAIN t : t[n].kind \in kinds}
        named      == are({"field", "constant"})
        first      == are({"union", "deprecated"})
    IN  /\ Cardinality(are({"sealed", "extent"})) = 1
        /\ \A n \in are({"sealed", "extent"}), k \in are(Attributes) : k < n
        /\ \A n \in first, k \in are(Attributes) : n < k
        /\ \A n, k \in first : t[n].kind = t[k].kind => n = k
        /\ \A n, k \in named : t[n].name = t[k].name => n = k
        /\ \A n \in named : t[n].name # Reserved
        /\ part = 2 => are({"deprecated"}) = {}
        /\ IsUnionText(t) =>
             /\ Cardinality(are({"field"})) >= 2 /\ are({"padding"}) = {}
             /\ \A n \in are({"extent", "assert"}), k \in are({"field"}) : t[n].offset => k < n

\* What a statement refers to is there, of the right sort and has what is asked.
WellReferred(m, x) ==
    \A u \in Uses(m, x) :
      /\ u.of # 0
      /\ Len(m[u.of].sections) = 1
      /\ u.role = "attribute" /\ u.attribute # "_extent_" =>
           \E n \in DOMAIN Text(m, u.of, 1) :
             Text(m, u.of, 1)[n].kind = "constant" /\ Text(m, u.of, 1)[n].name = u.attribute

WellValued(m, x) ==
    CASE At(m, x).kind = "assert" -> ValueAt(m, x) # 0
      [] At(m, x).kind = "extent" -> ValueAt(m, x) >= LengthUpTo(m, x[1], <<x[1], x[2], Len(Text(m, x[1], x[2])) + 1>>)
      [] At(m, x).array           -> ValueAt(m, x) >= 1
      [] OTHER                    -> TRUE

\* Any two definitions of a module, whichever comes first in it.
Sealed(d) == \E n \in DOMAIN d.sections[1] : d.sections[1][n].kind = "sealed"
Compatible(m, i, j) ==
    LET same == m[i].space = m[j].space /\ m[i].short = m[j].short /\ m[i].major = m[j].major
    IN  /\ same /\ m[i].major > 0 => Sealed(m[i]) = Sealed(m[j]) /\ ExtentOf(m, i) = ExtentOf(m, j)
        /\ same /\ m[i].minor < m[j].minor /\ m[i].port # NoPort => m[j].port = m[i].port
        /\ ~same /\ m[i].port # NoPort /\ m[i].port = m[j].port /\ Len(m[i].sections) = Len(m[j].sections)
             => m[i].major = 0 \/ m[j].major = 0

WellNumbered(d) ==
    LET standard == d.space[1] = "uavcan" IN
    d.port # NoPort =>
      IF Len(d.sections) = 2 THEN d.port \in (IF standard THEN 384 .. 511 ELSE 256 .. 383)
      ELSE d.port \in (IF standard THEN 7168 .. 8191 ELSE 6144 .. 7167)

Valid(m) ==
    /\ \A i \in DOMAIN m : m[i].markers =< 1 /\ WellNumbered(m[i])
    /\ \A i \in DOMAIN m : \A p \in DOMAIN m[i].sections : WellWritten(Text(m, i, p), p)
    /\ \A x \in Places(m) : WellReferred(m, x)
    /\ WellFounded(m, DOMAIN m)
    /\ \A x \in Places(m) : WellValued(m, x)
    /\ \A i, j \in DOMAIN m : i # j => Compatible(m, i, j)

----------------------------------------------------------------------------

\* The walk, the sections it fills and the pairs it compares come to the verdict
\* and the lengths that the rules give, in whatever order a module names its
\* definitions; only the depth limit refuses more (AnalyzerImpl::run).
VerdictIsJust ==
    CASE phase = "walking" -> TRUE
      [] phase = "refused" -> ~Valid(module) \/ \E e \in errors : e.what = "too deep"
      [] OTHER -> /\ Valid(module)
                  /\ \A i \in Ids :
                       /\ results[i].sections[1].extent = ExtentOf(module, i)
                       /\ \A p \in DOMAIN results[i].sections :
                            results[i].sections[p].most
                              = LengthUpTo(module, i, <<i, p, Len(Text(module, i, p)) + 1>>)
=============================================================================
