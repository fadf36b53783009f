----------------------------- MODULE MCAgentCalls -----------------------------
(* Instances of AgentCalls for TLC; a unit of time is 30 seconds. *)
EXTENDS AgentCalls

\* No positive timeout, one within the limits, one above.
AskedTimeouts == {-1, 1, 3}

=============================================================================
