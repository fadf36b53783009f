---------------------------- MODULE StreamContract ----------------------------
(***************************************************************************)
(* What the server promises of one stream, whatever its two ends do.       *)
(*                                                                         *)
(* Messages are numbered as they are given to a direction, and passed on   *)
(* one by one, in that order, none skipped and none twice, to an end that  *)
(* is there.  The stream ends once: nothing comes after its end.  What     *)
(* ends without an error is whole for a client that is still there; only a *)
(* dishonest stream may end without saying whether it is.                  *)
(***************************************************************************)
EXTENDS Naturals, Sequences

VARIABLES
    given,    \* how many messages each direction was given
    passed,   \* the messages passed on to where each direction leads
    there,    \* the ends that have not left
    honest,   \* the kind of stream can tell that something is missing
    verdict   \* how the stream ended for its client, or "open"

vars == <<given, passed, there, honest, verdict>>

Leads == [in |-> [from |-> "client", to |-> "agent"],
          out |-> [from |-> "agent", to |-> "client"]]

Init ==
    /\ given = [d \in DOMAIN Leads |-> 0]
    /\ passed = [d \in DOMAIN Leads |-> <<>>]
    /\ there = {"client", "agent"}
    /\ honest \in BOOLEAN
    /\ verdict = "open"

Give(d) ==
    /\ verdict = "open" /\ Leads[d].from \in there
    /\ given' = [given EXCEPT ![d] = @ + 1]
    /\ UNCHANGED <<passed, there, honest, verdict>>

Pass(d) ==
    /\ verdict = "open" /\ Leads[d].to \in there
    /\ Len(passed[d]) < given[d]
    /\ passed' = [passed EXCEPT ![d] = Append(@, Len(@) + 1)]
    /\ UNCHANGED <<given, there, honest, verdict>>

Leave(e) ==
    /\ e \in there
    /\ there' = there \ {e}
    /\ UNCHANGED <<given, passed, honest, verdict>>

\* With an error, as a whole, or, for a dishonest stream, just so.
Finish(v) ==
    /\ verdict = "open"
    /\ v = "whole" /\ "client" \in there => Len(passed["out"]) = given["out"]
    /\ v = "closed" => ~honest
    /\ verdict' = v
    /\ UNCHANGED <<given, passed, there, honest>>

Next ==
    \/ \E d \in DOMAIN Leads : Give(d) \/ Pass(d)
    \/ \E e \in {"client", "agent"} : Leave(e)
    \/ \E v \in {"error", "whole", "closed"} : Finish(v)

Spec == Init /\ [][Next]_vars
=============================================================================
