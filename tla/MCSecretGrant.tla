--------------------------- MODULE MCSecretGrant ---------------------------
(* Model-checking instance of SecretGrant: requests and calls are           *)
(* interchangeable.                                                         *)
EXTENDS SecretGrant, TLC

Symmetry == Permutations(Requests) \cup Permutations(Consumers)
=============================================================================
