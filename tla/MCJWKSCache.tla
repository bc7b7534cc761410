---------------------------- MODULE MCJWKSCache -----------------------------
(* JWKSCache for TLC: the calls are interchangeable. *)
EXTENDS JWKSCache, TLC

CallSymmetry == Permutations(Calls)

=============================================================================
