----------------------------- MODULE MCLspServer -----------------------------
(* Small instances of LspServer for TLC: two files, a text without         *)
(* references, one that refers to the first file and one that does not     *)
(* parse, each file under its canonical URI.                               *)
EXTENDS LspServer, TLC

CONSTANTS a, b, leaf, usesA, broken

MCPaths    == {a, b}
MCTextsOf  == (a :> {leaf, broken}) @@ (b :> {leaf, usesA, broken})
MCParses   == {leaf, usesA}
MCRefs     == (leaf :> {}) @@ (usesA :> {a})
MCUriPath  == [p \in MCPaths |-> p]
MCRootSets == {{a, b}, {b}}
MCIndexDir == ({a, b} :> {a}) @@ ({b} :> {b})

=============================================================================
