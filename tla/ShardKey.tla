------------------------------- MODULE ShardKey -------------------------------
(***************************************************************************)
(* The name of a shard file: encodeShardKey of lib/LSP/Index.cpp, on paths *)
(* given as sequences of characters.  Letters, digits and "-", "_", "."    *)
(* stand for themselves, every other character for "_" and two hexadecimal *)
(* digits.                                                                 *)
(***************************************************************************)
EXTENDS Naturals, Sequences, SequencesExt

CONSTANTS
    PlainChars,  \* the characters the alphabet check lets through
    HexOf        \* the two hexadecimal digits of every other character

Escape(c) == <<"_", HexOf[c][1], HexOf[c][2]>>

EncodeChar(c) == IF c \in PlainChars THEN <<c>> ELSE Escape(c)

encodeShardKey(path) ==
    IF path = <<>> THEN <<"e", "m", "p", "t", "y">>
                   ELSE FlattenSeq([i \in DOMAIN path |-> EncodeChar(path[i])])

=============================================================================
