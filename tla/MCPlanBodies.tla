---------------------------- MODULE MCPlanBodies ----------------------------
(***************************************************************************)
(* PlanBodies over a catalogue of definitions: seven that are nested in      *)
(* others, every structure of two of the field kinds below, every union of *)
(* two of them, and structures of whole-byte fields for the alias layout.  *)
(* Structures and unions of one minor version have counterparts that hold  *)
(* the other minor version of the same delimited definition.               *)
(***************************************************************************)
EXTENDS PlanBodies, SequencesExt

\* A field: category, bits, saturated, definition, array and capacity.
FieldOf(row) == [cat |-> row[1], bits |-> row[2], sat |-> row[3],
                 ref |-> row[4], array |-> row[5], cap |-> row[6]]

\* A definition: a union?, sealed?, extent and fields.
DefinitionOf(row, fields) == [union |-> row[1], sealed |-> row[2], extent |-> row[3], fields |-> fields]

\* Nested definitions.  The third and fourth are minor versions of one.
Nested ==
  << <<FALSE, TRUE, 0,   << <<"unsigned", 3, TRUE, 0, "none", 0>> >> >>,
     <<FALSE, TRUE, 0,   << <<"unsigned", 2, FALSE, 0, "variable", 2>> >> >>,
     <<FALSE, FALSE, 16, << <<"unsigned", 8, TRUE, 0, "none", 0>> >> >>,
     <<FALSE, FALSE, 16, << <<"unsigned", 8, TRUE, 0, "none", 0>>,
                            <<"bool", 1, FALSE, 0, "none", 0>> >> >>,
     <<TRUE, TRUE, 0,    << <<"unsigned", 5, TRUE, 0, "none", 0>>,
                            <<"bool", 1, FALSE, 0, "variable", 2>> >> >>,
     <<FALSE, TRUE, 0,   << <<"unsigned", 16, TRUE, 0, "none", 0>>,
                            <<"unsigned", 8, TRUE, 0, "none", 0>>,
                            <<"unsigned", 8, TRUE, 0, "none", 0>> >> >>,
     <<FALSE, TRUE, 0,   << <<"bool", 1, FALSE, 0, "none", 0>>,
                            <<"composite", 0, FALSE, 1, "none", 0>>,
                            <<"signed", 4, TRUE, 0, "none", 0>> >> >> >>

Kinds ==
  << <<"bool", 1, FALSE, 0, "none", 0>>,
     <<"signed", 4, FALSE, 0, "none", 0>>,
     <<"signed", 3, TRUE, 0, "none", 0>>,
     <<"bool", 1, FALSE, 0, "fixed", 3>>,
     <<"unsigned", 5, TRUE, 0, "variable", 2>>,
     <<"composite", 0, FALSE, 1, "none", 0>>,
     <<"composite", 0, FALSE, 2, "none", 0>>,
     <<"composite", 0, FALSE, 3, "none", 0>>,
     <<"composite", 0, FALSE, 4, "none", 0>>,
     <<"composite", 0, FALSE, 5, "none", 0>>,
     <<"composite", 0, FALSE, 1, "fixed", 2>>,
     <<"composite", 0, FALSE, 2, "variable", 2>>,
     <<"composite", 0, FALSE, 3, "variable", 2>>,
     <<"void", 3, FALSE, 0, "none", 0>> >>

WholeBytes ==
  << <<"unsigned", 8, TRUE, 0, "none", 0>>,
     <<"unsigned", 16, TRUE, 0, "none", 0>>,
     <<"unsigned", 8, TRUE, 0, "fixed", 2>>,
     <<"composite", 0, FALSE, 6, "none", 0>>,
     <<"void", 8, FALSE, 0, "none", 0>> >>

\* Every sequence of two, and of three, of the first "m" members of "kinds".
Pairs(kinds, m) == [n \in 1 .. m * m |-> <<kinds[((n - 1) \div m) + 1], kinds[((n - 1) % m) + 1]>>]

Triples(kinds, m) ==
    [n \in 1 .. m * m * m |-> <<kinds[((n - 1) \div (m * m)) + 1],
                               kinds[(((n - 1) \div m) % m) + 1], kinds[((n - 1) % m) + 1]>>]

Rows(nested, kinds, bytes, Struct(_), Union(_)) ==
    nested
      \o [n \in DOMAIN Pairs(kinds, Len(kinds)) |-> Struct(Pairs(kinds, Len(kinds))[n])]
      \o [n \in DOMAIN Pairs(kinds, Len(kinds) - 1) |-> Union(Pairs(kinds, Len(kinds) - 1)[n])]
      \o [n \in DOMAIN Triples(bytes, Len(bytes)) |-> Struct(Triples(bytes, Len(bytes))[n])]

Definitions(rows) ==
    [n \in DOMAIN rows |-> DefinitionOf(rows[n], [k \in DOMAIN rows[n][4] |-> FieldOf(rows[n][4][k])])]

Catalogue ==
    Definitions(Rows(Nested, Kinds, WholeBytes,
                     LAMBDA fields : <<FALSE, TRUE, 0, fields>>,
                     LAMBDA fields : <<TRUE, TRUE, 0, fields>>))

----------------------------------------------------------------------------
(* Objects: two values of each scalar, one of them out of its range where  *)
(* its holder can be, and arrays that are empty, full and too long.        *)

RECURSIVE ObjectsOf(_)
ObjectsOf(i) ==
    LET scalars(f) ==
          CASE f.cat = "void"      -> {0}
            [] f.cat = "bool"      -> {0, 1}
            [] f.cat = "unsigned"  -> IF f.bits < 8 THEN {1, 2 ^ f.bits + 2} ELSE {165}
            [] f.cat = "signed"    -> {-3, 2 ^ f.bits - 2}
            [] f.cat = "composite" -> ObjectsOf(f.ref)
        some(f) == CHOOSE v \in scalars(f) : f.cat = "bool" => v = 1
        values(f) ==
          CASE f.array = "none"     -> scalars(f)
            [] f.array = "fixed"    -> {[n \in 1 .. f.cap |-> IF n = 1 THEN some(f) ELSE v] : v \in scalars(f)}
            [] f.array = "variable" -> {[k \in 1 .. n |-> some(f)] : n \in {0, f.cap, f.cap + 1}}
    IN  IF IsUnion[i]
        THEN UNION {{[tag |-> k - 1, value |-> v] : v \in values(Fields[i][k])} : k \in DOMAIN Fields[i]}
               \cup {[tag |-> Len(Fields[i]), value |-> 0]}
        ELSE IF Len(Fields[i]) = 1 THEN {<<v>> : v \in values(Fields[i][1])}
        ELSE IF Len(Fields[i]) = 2
        THEN {<<v, w>> : v \in values(Fields[i][1]), w \in values(Fields[i][2])}
        ELSE {[k \in DOMAIN Fields[i] |-> CHOOSE v \in values(Fields[i][k]) : TRUE]}

MCObjects(i) == ObjectsOf(i)

\* A buffer of just the longest length, and one a byte short of it.
MCCapacities(i) ==
    LET most == MaxBits[i] \div ByteBits IN IF most = 0 THEN {0} ELSE {most, most - 1}

MCGarbage == {0 .. 127}

\* The same definition, or the one with the other minor version in its place.
MCReaders(i) ==
    {i} \cup {j \in TypeIds :
                /\ IsUnion[j] = IsUnion[i] /\ Len(Fields[j]) = Len(Fields[i])
                /\ j > Len(Nested) /\ i > Len(Nested)
                /\ \A k \in DOMAIN Fields[i] :
                      LET f == Fields[i][k] g == Fields[j][k] IN
                      \/ f = g
                      \/ f.ref \in {3, 4} /\ g.ref \in {3, 4} /\ g = [f EXCEPT !.ref = g.ref]}

----------------------------------------------------------------------------
(* What a reader should get, told without the wire                         *)

InRange(f, v) ==
    CASE f.cat \in {"void", "bool"} -> v
      [] f.cat = "unsigned" ->
            IF f.sat THEN Clamped(v, 0, 2 ^ f.bits - 1)
            ELSE CHOOSE w \in 0 .. 2 ^ f.bits - 1 : (v - w) % 2 ^ f.bits = 0
      [] f.cat = "signed" ->
            IF f.sat THEN Clamped(v, -(2 ^ (f.bits - 1)), 2 ^ (f.bits - 1) - 1)
            ELSE CHOOSE w \in -(2 ^ (f.bits - 1)) .. 2 ^ (f.bits - 1) - 1 : (v - w) % 2 ^ f.bits = 0

RECURSIVE Expected(_, _, _)
Expected(w, r, obj) ==
    LET scalar(f, g, v) == IF IsComposite(f) THEN Expected(f.ref, g.ref, v) ELSE InRange(f, v)
        value(f, g, v)  == IF IsArray(f) THEN [n \in DOMAIN v |-> scalar(f, g, v[n])] ELSE scalar(f, g, v)
    IN  IF IsUnion[w]
        THEN [tag |-> obj.tag, value |-> value(Fields[w][obj.tag + 1], Fields[r][obj.tag + 1], obj.value)]
        ELSE [k \in DOMAIN Fields[r] |->
                IF k \in DOMAIN Fields[w] THEN value(Fields[w][k], Fields[r][k], obj[k])
                ELSE Initialized[r][k]]

\* The whole message reads as the object it was written from, each scalar in
\* its range, and the reader takes all of it; so it does for a reader of the
\* other minor version of what is nested in it: fields it does not know are
\* skipped, fields the writer did not have are zero, and what follows is in its
\* place.
ReadsAsWritten ==
    \A k \in DOMAIN reads :
      reads[k].given = length /\ k = 1 =>
        /\ reads[k].err = Ok
        /\ reads[k].obj = Expected(writer, reader, source)
        /\ reader = writer => reads[k].used = length

=============================================================================
