--------------------------- MODULE MCTransBuffer ---------------------------
(* Constants for TransBuffer: k1, k2 and k3 collide in bucket b1, so that  *)
(* a node can leave the middle of a chain of three; k4 is alone in b2.     *)
EXTENDS TransBuffer, TLC

CONSTANTS k1, k2, k3, k4, b1, b2

MCKeys == {k1, k2, k3, k4}
MCBuckets == {b1, b2}
MCHash == k1 :> b1 @@ k2 :> b1 @@ k3 :> b1 @@ k4 :> b2

Symmetry == Permutations(Threads) \cup Permutations(Handles) \cup Permutations({k1, k2, k3})
=============================================================================
