---------------------------- MODULE MCIdempotency ----------------------------
(***************************************************************************)
(* Model-checking instance of Idempotency.  Workers, keys and payloads are *)
(* model values; none of the properties tells two of a kind apart.         *)
(***************************************************************************)
EXTENDS Idempotency, TLC

MCSymmetry == Permutations(Workers) \cup Permutations(Keys) \cup Permutations(Payloads)
=============================================================================
