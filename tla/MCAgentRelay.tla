----------------------------- MODULE MCAgentRelay -----------------------------
(* Instances of AgentRelay for TLC. *)
EXTENDS StreamRefinement

AllKinds == {"pty", "watch", "sse", "download", "chunked", "attach", "ndjson"}
=============================================================================
