--------------------------- MODULE MCRequestProtocol ---------------------------
(* A small instance of RequestProtocol for TLC.                            *)
EXTENDS RequestProtocol, TLC

CONSTANTS s1, s2, s3, q1

MCSleepRequests == {s1, s2, s3}

(* The second request uses the id of the first again; the id of the third  *)
(* is a string that reads like that number; the fourth reuses it as well.  *)
Integer7 == [type |-> "integer", text |-> "7"]
String7  == [type |-> "string", text |-> "7"]
MCIdOf   == (s1 :> Integer7) @@ (s2 :> Integer7) @@ (s3 :> String7) @@ (q1 :> Integer7)

=============================================================================
