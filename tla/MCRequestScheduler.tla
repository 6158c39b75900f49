-------------------------- MODULE MCRequestScheduler --------------------------
(* Small instances of RequestScheduler for TLC.                            *)
EXTENDS RequestScheduler, TLC

CONSTANTS r1, r2, r3, r4, k1, k2, k3

(* The first key is reused, and there is a key more than the queue may hold. *)
MCRequests == {r1, r2, r3, r4}
MCKeyOf == (r1 :> k1) @@ (r2 :> k1) @@ (r3 :> k2) @@ (r4 :> k3)

=============================================================================
