--------------------------- MODULE SandboxRefinement ---------------------------
(***************************************************************************)
(* How SandboxLifecycle keeps the promise of SandboxContract: clients know *)
(* of the document, and the VM is the hypervisor process.                  *)
(***************************************************************************)
EXTENDS SandboxLifecycle

\* What GET /sandboxes/:id answers.
Said == [s \in Sandbox |->
            IF s \notin listed THEN "unknown"
            ELSE IF status[s] = "absent" THEN "gone" ELSE status[s]]

\* A process that got SIGTERM counts as off: nothing brings it back.
VM == [s \in Sandbox |->
            IF proc[s] = "none" THEN "none" ELSE IF proc[s] \in Alive THEN "on" ELSE "off"]

Contract == INSTANCE SandboxContract
                WITH Verdict <- DBStatus, said <- Said, vm <- VM, confirmed <- deleted

\* Every behaviour of Create, Delete, the health monitor and Restart keeps the
\* contract: no sandbox is known before its VM was started or known again after
\* it was deleted, and DELETE is answered 200 when the VM is off, not before
\* (service/sandbox.go:224-242, 313-327, 480-491).
ContractKept == Contract!Spec
=============================================================================
