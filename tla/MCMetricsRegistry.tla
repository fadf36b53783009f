--------------------------- MODULE MCMetricsRegistry ---------------------------
(* Instances of MetricsRegistry for TLC. *)
EXTENDS MetricsRegistry, TLC

\* No action orders the sandboxes, or the requests.
Symmetry == Permutations(Sandbox) \cup Permutations(Caller)
=============================================================================
