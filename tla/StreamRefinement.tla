--------------------------- MODULE StreamRefinement ---------------------------
(***************************************************************************)
(* How AgentRelay keeps the promise of StreamContract: a message is passed *)
(* on when it is written, whether or not its destination has read it, and  *)
(* the stream ends when the handler returns.                               *)
(***************************************************************************)
EXTENDS AgentRelay

PassedOn == [d \in Dir |-> Passed(d)]

There == {e \in End : up[e] = "open"}

\* A WebSocket, a file of unknown length and a session's output may end without a
\* word and not be whole.
Honest == ~WebSocket /\ kind # "chunked" /\ ~Unframed

\* How the stream ended: with an error text, with the end of the agent's that the
\* loop saw, or, which a client cannot tell from it, for another reason.
HowEnded ==
    IF stage # "done" THEN "open"
    ELSE IF told THEN "error"
    ELSE IF pump["out"] = "eof" /\ up["agent"] = "closed" THEN "whole" ELSE "closed"

Contract == INSTANCE StreamContract
                WITH given <- sent, passed <- PassedOn, there <- There,
                     honest <- Honest, verdict <- HowEnded

\* Every step of the two loops, of the handler and of the two ends is one the
\* contract allows: messages are passed on one at a time and in order, only to
\* an end that is there, never again after the handler has returned; a stream
\* that ends with the agent's own end is whole, and of the honest kinds every
\* other one ends with an error (pty.go:66-128, exec.go:202-246, fs.go:166-188,
\* session_exec.go:137-151).
StreamContractKept == Contract!Spec
=============================================================================
