----------------------------- MODULE MCSnapshots ------------------------------
(* Instances of Snapshots for TLC. *)
EXTENDS Snapshots

\* Every failure the module knows, so that each path of an error is taken.
AllFaults == {"pause", "dump", "resume", "copy", "start", "insert", "crash", "mkdir"}
=============================================================================
