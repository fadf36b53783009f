---------------------------- MODULE SandboxContract ----------------------------
(***************************************************************************)
(* What the server promises of sandboxes, whatever goes wrong on the way.  *)
(*                                                                         *)
(* An id becomes known with a VM that was started, and only once.  A known *)
(* sandbox has a status that the server may get wrong for a while.  When   *)
(* it is gone it is gone for good, and a DELETE is confirmed when the VM   *)
(* is off, which no VM comes back from.                                    *)
(***************************************************************************)
CONSTANTS
    Sandbox,   \* ids
    Verdict    \* values of the status field

VARIABLES
    said,      \* what a client reads of each sandbox
    vm,        \* what is true of its VM
    confirmed  \* ids for which a DELETE was answered with 200

vars == <<said, vm, confirmed>>

Init ==
    /\ said = [s \in Sandbox |-> "unknown"]
    /\ vm = [s \in Sandbox |-> "none"]
    /\ confirmed = {}

Start(s) ==
    /\ vm[s] = "none" /\ said[s] = "unknown"
    /\ vm' = [vm EXCEPT ![s] = "on"]
    /\ UNCHANGED <<said, confirmed>>

\* By order of the server or by itself.
End(s) ==
    /\ vm[s] = "on"
    /\ vm' = [vm EXCEPT ![s] = "off"]
    /\ UNCHANGED <<said, confirmed>>

Announce(s) ==
    /\ said[s] = "unknown" /\ vm[s] # "none"
    /\ said' = [said EXCEPT ![s] = "running"]
    /\ UNCHANGED <<vm, confirmed>>

Report(s) ==
    /\ said[s] \in Verdict
    /\ \E v \in Verdict : said' = [said EXCEPT ![s] = v]
    /\ UNCHANGED <<vm, confirmed>>

\* The answer of a DELETE, or its effect without an answer.
Delete(s) ==
    /\ said[s] # "unknown" /\ vm[s] = "off"
    /\ said' = [said EXCEPT ![s] = "gone"]
    /\ confirmed' = confirmed \/ confirmed' = confirmed \cup {s}
    /\ UNCHANGED vm

Next == \E s \in Sandbox : Start(s) \/ End(s) \/ Announce(s) \/ Report(s) \/ Delete(s)

Spec == Init /\ [][Next]_vars
=============================================================================
