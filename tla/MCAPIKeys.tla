------------------------------- MODULE MCAPIKeys -------------------------------
(* Instances of APIKeys for TLC. *)
EXTENDS APIKeys, TLC

\* No action orders the keys, or the requests.
Symmetry == Permutations(Key) \cup Permutations(Request)
=============================================================================
