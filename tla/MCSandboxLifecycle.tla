-------------------------- MODULE MCSandboxLifecycle --------------------------
(* Instances of SandboxLifecycle for TLC. *)
EXTENDS SandboxRefinement, TLC

\* Sandboxes, and addresses, are interchangeable: no action orders them.
Symmetry == Permutations(Sandbox) \cup Permutations(IP)

\* Every failure but one: a database that refuses every status update for
\* ever would leave nothing to say of liveness.
AnyFault == (UndoneFault \cup LeakyFault \cup OtherFault) \ {"update"}
=============================================================================
