---------------------------- MODULE MCBitLengths ----------------------------
(* OffsetQueries with integers that end at 63 and limits small enough to   *)
(* be met by the sums of four operations.                                  *)
EXTENDS OffsetQueries

MCLeaves == {{}, {1}, {3}, {2, 5}, {5, 6}, {0, 3}, {1, 2, 4, 7}, {0, 8, 9, 14}}

MCAlignments == {0, 2, 6}

MCCounts == {-1, 1, 2, 3, 5, 8}

MCDivisors == {1, 2, 3, 4, 8, 15}

\* In halves: a part, a superset and a neighbour of several sums, one with
\* an element that is no integer, and the empty one.
MCLiterals ==
    {{}, {0}, {0, 6, 12}, {4, 7, 10}, {0, 4, 8, 10}, {2, 4, 8, 14}, {0, 126},
     {12 * n : n \in 0 .. 7}, {2 * n : n \in 0 .. 14}, {2 * n : n \in 0 .. 63},
     {2 * n : n \in (0 .. 63) \ {22, 23}}}
=============================================================================
