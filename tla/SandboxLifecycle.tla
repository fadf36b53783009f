--------------------------- MODULE SandboxLifecycle ---------------------------
(***************************************************************************)
(* Life of a sandbox in the routes the server registers: POST /sandboxes   *)
(* (SandboxService.Create), DELETE /sandboxes/:id (SandboxService.Delete), *)
(* POST /sandboxes/:id/session-exec (its log file), the health monitor     *)
(* (RefreshStatuses) and a restart of the server.                          *)
(*                                                                         *)
(* Four places keep state about one sandbox and no transaction spans them: *)
(* the server's memory (IPs handed out, metrics registration), the host    *)
(* (instance directory, TAP device, hypervisor process), the database      *)
(* document, and the handler that is half way through.  Each action is     *)
(* one call on one of these places, so that requests interleave and the    *)
(* server can stop between any two of them.                                *)
(***************************************************************************)
EXTENDS Naturals

CONSTANTS
    Sandbox,     \* ObjectIDs the server will generate (fresh for each Create)
    IP,          \* addresses of NetworkCIDR
    NoIP,        \* no address chosen yet
    Deleter,     \* DELETE requests for one sandbox that can be in progress together
    Fault,       \* the failures of the environment this instance allows
    SessionExec, \* whether session-exec requests are made
    HealthEnabled, \* cfg.Health.Enabled: whether the health monitor runs
    MaxRestart   \* bound: how many times the server is restarted

\* Failures after which Create has code that undoes every earlier step.
UndoneFault == {"base", "tap", "api", "bridge", "agent", "insert", "insertlost"}

\* Failures after which something of the sandbox can stay on the host.
LeakyFault == {"overlay", "linkget", "tapfile", "spawn", "pidfile", "linkdel", "rmdir"}

\* Failures of calls made by Delete and by the health monitor.
OtherFault == {"dbdelete", "dbdeletelost", "unresponsive", "update"}

ASSUME ConstantsAssumption ==
    /\ NoIP \notin IP
    /\ Fault \subseteq UndoneFault \cup LeakyFault \cup OtherFault
    /\ SessionExec \in BOOLEAN
    /\ HealthEnabled \in BOOLEAN
    /\ MaxRestart \in Nat

VARIABLES
    epoch,         \* which run of the server process this is
    allocatedIPs,  \* SandboxRepository.allocatedIPs, a map in memory
    registered,    \* ids in metrics.Manager.alloc
    create,        \* how far the Create that generated the id has come
    ip,            \* address in the spec, the VM's kernel line and the document
    born,          \* epoch in which the address was handed out
    host,          \* files and devices of the sandbox on the host
    proc,          \* the process whose pid was written to vm.pid
    status,        \* status field of the document, or "absent"
    listed,        \* ids that were in the database, so that clients know them
    del,           \* DELETE requests in progress
    deleted,       \* ids for which a DELETE answered 200
    seen,          \* the health monitor's copy of the status fields
    worker,        \* the health monitor's work on each document
    session,       \* ids with a session-exec answer still to be logged
    mishap         \* what happened to each sandbox that the code does not undo

serverVars == <<epoch, allocatedIPs, registered>>
createVars == <<create, ip, born>>
hostVars   == <<host, proc, mishap>>
dbVars     == <<status, listed>>
delVars    == <<del, deleted>>
monVars    == <<seen, worker>>
vars == <<serverVars, createVars, hostVars, dbVars, delVars, monVars, session>>

-----------------------------------------------------------------------------
\* Steps of Create that have been done, in order, then those of its rollback.
Forward  == {"allocated", "prepared", "tapped", "spawned", "recorded", "socket",
             "created", "booted", "attached", "ready", "saved"}
Teardown == {"kill", "untap", "rmdir"}
Finished == {"idle", "done", "failed", "crashed"}
DelStage == Teardown \cup {"idle", "unregister", "dbdelete"}

Artifact  == {"dir", "tapfile", "pidfile", "sock", "tap"}
Alive     == {"starting", "created", "running", "paused"}
ProcState == Alive \cup {"none", "terminating", "exited"}
DBStatus  == {"running", "paused", "stopped"}

TypeOK ==
    /\ epoch \in 0..MaxRestart
    /\ allocatedIPs \in SUBSET IP
    /\ registered \in SUBSET Sandbox
    /\ create \in [Sandbox -> Forward \cup Teardown \cup Finished]
    /\ ip \in [Sandbox -> IP \cup {NoIP}]
    /\ born \in [Sandbox -> 0..MaxRestart]
    /\ host \in [Sandbox -> SUBSET Artifact]
    /\ proc \in [Sandbox -> ProcState]
    /\ mishap \in [Sandbox -> SUBSET (LeakyFault \cup {"latelog"})]
    /\ status \in [Sandbox -> DBStatus \cup {"absent"}]
    /\ listed \in SUBSET Sandbox
    /\ del \in [Sandbox -> [Deleter -> DelStage]]
    /\ deleted \in SUBSET Sandbox
    /\ seen \in [Sandbox -> DBStatus \cup {"absent"}]
    /\ worker \in [Sandbox -> DBStatus \cup {"none", "listed", "query"}]
    /\ session \in SUBSET Sandbox

Init ==
    /\ epoch = 0
    /\ allocatedIPs = {}
    /\ registered = {}
    /\ create = [s \in Sandbox |-> "idle"]
    /\ ip = [s \in Sandbox |-> NoIP]
    /\ born = [s \in Sandbox |-> 0]
    /\ host = [s \in Sandbox |-> {}]
    /\ proc = [s \in Sandbox |-> "none"]
    /\ mishap = [s \in Sandbox |-> {}]
    /\ status = [s \in Sandbox |-> "absent"]
    /\ listed = {}
    /\ del = [s \in Sandbox |-> [d \in Deleter |-> "idle"]]
    /\ deleted = {}
    /\ seen = [s \in Sandbox |-> "absent"]
    /\ worker = [s \in Sandbox |-> "none"]
    /\ session = {}

-----------------------------------------------------------------------------
(* Calls on the host, shared by Create's rollback and by Delete.           *)

Lose(s, files) == host' = [host EXCEPT ![s] = @ \ files]

Note(s, what) == mishap' = [mishap EXCEPT ![s] = @ \cup {what}]
Befalls(s, f) == f \in Fault /\ Note(s, f)

\* Mutant of Kill: vm.pid is removed before it is read.
KillForgets(s) ==
    /\ Lose(s, {"pidfile"})
    /\ UNCHANGED <<proc, mishap>>

\* First half of machine.Stop: signal the pid in vm.pid and remove the file.
\* The server never waits for its children, so while it runs a dead one keeps
\* its pid.  An error of the signal is dropped: that of a process that is gone
\* is harmless, and no other is assumed.
Kill(s) ==
    IF "pidfile" \in host[s]
      THEN /\ Lose(s, {"pidfile"})
           /\ proc' = [proc EXCEPT ![s] = IF @ \in Alive THEN "terminating" ELSE @]
           /\ UNCHANGED mishap
      ELSE UNCHANGED hostVars

\* Second half of machine.Stop: delete the device vm.tap names and the file.
\* The file goes even when the deletion of the link failed.
Untap(s) ==
    /\ IF "tapfile" \in host[s]
         THEN \/ Lose(s, {"tap", "tapfile"}) /\ UNCHANGED mishap
              \/ Befalls(s, "linkdel") /\ Lose(s, {"tapfile"})
         ELSE UNCHANGED <<host, mishap>>
    /\ UNCHANGED proc

\* os.RemoveAll of the instance directory.
Rmdir(s) ==
    /\ Lose(s, {"dir", "tapfile", "pidfile", "sock"})
    /\ UNCHANGED <<proc, mishap>>

\* os.RemoveAll that stopped half way.
RmdirFails(s) ==
    /\ Befalls(s, "rmdir")
    /\ \E files \in SUBSET {"tapfile", "pidfile", "sock"} : Lose(s, files)
    /\ UNCHANGED proc

-----------------------------------------------------------------------------
(* POST /sandboxes: SandboxService.Create and what it calls.               *)

At(s, from, to) == create[s] = from /\ create' = [create EXCEPT ![s] = to]

OnlyCreate == UNCHANGED <<serverVars, ip, born, hostVars, dbVars, delVars, monVars, session>>

\* Mutant of AllocateIP: the address is not marked in the map.
AllocateUnmarked(s) ==
    /\ At(s, "idle", "allocated")
    /\ \E a \in IP \ allocatedIPs : ip' = [ip EXCEPT ![s] = a]
    /\ born' = [born EXCEPT ![s] = epoch]
    /\ UNCHANGED <<serverVars, hostVars, dbVars, delVars, monVars, session>>

\* NextAvailableIP: any free address, marked under the mutex.  The hundred
\* random draws can also all hit taken addresses; the request then fails
\* before it has changed anything.
AllocateIP(s) ==
    /\ At(s, "idle", "allocated")
    /\ \E a \in IP \ allocatedIPs :
        /\ allocatedIPs' = allocatedIPs \cup {a}
        /\ ip' = [ip EXCEPT ![s] = a]
    /\ born' = [born EXCEPT ![s] = epoch]
    /\ UNCHANGED <<epoch, registered, hostVars, dbVars, delVars, monVars, session>>

\* Steps of Create that change the host, and how each one fails.
Gain(s, files) == host' = [host EXCEPT ![s] = @ \cup files]
OnHost == UNCHANGED <<serverVars, ip, born, dbVars, delVars, monVars, session>>

\* storage.PrepareInstance: the directory, then qemu-img; the error of the
\* latter is returned by Create before its cleanup function exists.
PrepareInstance(s) ==
    /\ \/ At(s, "allocated", "prepared") /\ UNCHANGED mishap
       \/ At(s, "allocated", "failed") /\ Befalls(s, "overlay")
    /\ Gain(s, {"dir"})
    /\ OnHost /\ UNCHANGED proc

\* network.CreateRandomTap and the write of vm.tap, whose error is ignored.  The
\* device stays when LinkByName fails ("linkget"), and so it does when its MAC is
\* refused and LinkDel fails as well.  A refused MAC whose device is deleted, or
\* a LinkAdd that never succeeds, leaves nothing: fault "tap" of CreateError.
CreateTap(s) ==
    /\ \/ At(s, "prepared", "tapped") /\ Gain(s, {"tap", "tapfile"}) /\ UNCHANGED mishap
       \/ At(s, "prepared", "tapped") /\ Gain(s, {"tap"}) /\ Befalls(s, "tapfile")
       \/ At(s, "prepared", "rmdir") /\ Gain(s, {"tap"}) /\ Befalls(s, "linkget")
    /\ OnHost /\ UNCHANGED proc

\* cmd.Start of cloud-hypervisor.  When it fails, Start returns and does not
\* look at the TAP device again; Create only removes the directory.
Spawn(s) ==
    /\ \/ /\ At(s, "tapped", "spawned")
          /\ proc' = [proc EXCEPT ![s] = "starting"]
          /\ UNCHANGED mishap
       \/ At(s, "tapped", "rmdir") /\ Befalls(s, "spawn") /\ UNCHANGED proc
    /\ OnHost /\ UNCHANGED host

\* The write of vm.pid; if it fails the process is killed and Start returns.
RecordPID(s) ==
    /\ \/ At(s, "spawned", "recorded") /\ Gain(s, {"pidfile"}) /\ UNCHANGED <<proc, mishap>>
       \/ /\ At(s, "spawned", "rmdir") /\ Befalls(s, "pidfile")
          /\ proc' = [proc EXCEPT ![s] = IF @ \in Alive THEN "terminating" ELSE @]
          /\ UNCHANGED host
    /\ OnHost

\* WaitForSocket only looks at the file.
WaitForSocket(s) ==
    /\ "sock" \in host[s]
    /\ At(s, "recorded", "socket")
    /\ OnlyCreate

\* vm.create, then vm.boot, over the API socket.
Request(s, from, before, to) ==
    /\ proc[s] = before
    /\ At(s, from, to)
    /\ proc' = [proc EXCEPT ![s] = IF to = "created" THEN "created" ELSE "running"]
    /\ OnHost /\ UNCHANGED <<host, mishap>>

VMCreate(s) == Request(s, "socket", "starting", "created")
VMBoot(s)   == Request(s, "created", "created", "booted")

EnableTap(s) == At(s, "booted", "attached") /\ OnlyCreate

\* waitForAgent, or no wait when the request says sync=false; then the
\* environment variables, whose failure is only logged.
WaitForAgent(s) == At(s, "attached", "ready") /\ OnlyCreate

\* Mutant of Insert: an insert that seemed to fail is tried again.
InsertAgain(s) ==
    /\ \/ At(s, "ready", "saved")
       \/ "insertlost" \in Fault /\ At(s, "ready", "ready")
    /\ status' = [status EXCEPT ![s] = "running"]
    /\ listed' = listed \cup {s}
    /\ UNCHANGED <<serverVars, ip, born, hostVars, delVars, monVars, session>>

\* SandboxRepository.Create.  The insert can also take effect although the
\* handler is told that it failed (its context ended, the answer was lost).
Insert(s) ==
    /\ \/ At(s, "ready", "saved")
       \/ "insertlost" \in Fault /\ At(s, "ready", "kill")
    /\ status' = [status EXCEPT ![s] = "running"]
    /\ listed' = listed \cup {s}
    /\ UNCHANGED <<serverVars, ip, born, hostVars, delVars, monVars, session>>

\* RegisterSandbox, the last step; then 201 is answered.
Register(s) ==
    /\ At(s, "saved", "done")
    /\ registered' = registered \cup {s}
    /\ UNCHANGED <<epoch, allocatedIPs, ip, born, hostVars, dbVars, delVars, monVars, session>>

\* Mutant of Blocked: WaitForSocket has no timeout.
BlockedButSocket(s) ==
    \/ create[s] = "socket"   /\ proc[s] # "starting"
    \/ create[s] = "created"  /\ proc[s] # "created"
    \/ create[s] = "attached" /\ proc[s] # "running"

\* The step Create is at cannot succeed any more: it times out.
Blocked(s) ==
    \/ create[s] = "recorded" /\ "sock" \notin host[s]
    \/ create[s] = "socket"   /\ proc[s] # "starting"
    \/ create[s] = "created"  /\ proc[s] # "created"
    \/ create[s] = "attached" /\ proc[s] # "running"

\* Mutant of ErrorPath: Start forgets Stop when vm.boot fails.
ErrorPathNoStop == {<<"allocated", "base",   "failed">>,
                    <<"prepared",  "tap",    "rmdir">>,
                    <<"recorded",  "socket", "kill">>,
                    <<"socket",    "api",    "kill">>,
                    <<"created",   "api",    "rmdir">>,
                    <<"booted",    "bridge", "kill">>,
                    <<"attached",  "agent",  "kill">>,
                    <<"ready",     "insert", "kill">>}

\* Errors that change nothing by themselves: where Create is, what failed,
\* and where its error path starts.  Start itself stops the VM once vm.pid is
\* written; before that only the directory is removed.
ErrorPath == {<<"allocated", "base",   "failed">>,
              <<"prepared",  "tap",    "rmdir">>,
              <<"recorded",  "socket", "kill">>,
              <<"socket",    "api",    "kill">>,
              <<"created",   "api",    "kill">>,
              <<"booted",    "bridge", "kill">>,
              <<"attached",  "agent",  "kill">>,
              <<"ready",     "insert", "kill">>}

CreateError(s) ==
    /\ \E e \in ErrorPath : At(s, e[1], e[3]) /\ (e[2] \in Fault \/ Blocked(s))
    /\ OnlyCreate

\* Mutant of Rollback: cleanup() comes before machine.Stop.
RollbackDirFirst(s) ==
    /\ \/ At(s, "kill", "rmdir") /\ Kill(s)
       \/ At(s, "rmdir", "untap") /\ (Rmdir(s) \/ RmdirFails(s))
       \/ At(s, "untap", "failed") /\ Untap(s)
    /\ UNCHANGED <<serverVars, ip, born, dbVars, delVars, monVars, session>>

\* machine.Stop and cleanup(), whose own errors nobody looks at.
Rollback(s) ==
    /\ \/ At(s, "kill", "untap") /\ Kill(s)
       \/ At(s, "untap", "rmdir") /\ Untap(s)
       \/ At(s, "rmdir", "failed") /\ (Rmdir(s) \/ RmdirFails(s))
    /\ UNCHANGED <<serverVars, ip, born, dbVars, delVars, monVars, session>>

CreateStep(s) ==
    \/ PrepareInstance(s) \/ CreateTap(s) \/ Spawn(s) \/ RecordPID(s)
    \/ WaitForSocket(s) \/ VMCreate(s) \/ VMBoot(s) \/ EnableTap(s)
    \/ WaitForAgent(s) \/ Insert(s) \/ Register(s)
    \/ CreateError(s) \/ Rollback(s)

-----------------------------------------------------------------------------
(* DELETE /sandboxes/:id: machine.Delete, UnregisterSandbox, repo.Delete.  *)
(* The document is not read first, so a DELETE can be repeated.            *)

Stage(s, d, from, to) == del[s][d] = from /\ del' = [del EXCEPT ![s][d] = to]

OffHost == UNCHANGED <<serverVars, createVars, dbVars, deleted, monVars, session>>

DeleteRequest(s, d) ==
    /\ s \in listed
    /\ Stage(s, d, "idle", "kill")
    /\ OffHost /\ UNCHANGED hostVars

\* machine.Delete; when the directory stays, the error is answered.
DeleteOnHost(s, d) ==
    /\ \/ Stage(s, d, "kill", "untap") /\ Kill(s)
       \/ Stage(s, d, "untap", "rmdir") /\ Untap(s)
       \/ Stage(s, d, "rmdir", "unregister") /\ Rmdir(s)
       \/ Stage(s, d, "rmdir", "idle") /\ RmdirFails(s)
    /\ OffHost

Unregister(s, d) ==
    /\ Stage(s, d, "unregister", "dbdelete")
    /\ registered' = registered \ {s}
    /\ UNCHANGED <<epoch, allocatedIPs, createVars, hostVars, dbVars, deleted, monVars, session>>

\* DeleteOne, answered 200; or its error is answered, and the document may
\* nevertheless be gone.
DeleteDocument(s, d) ==
    /\ Stage(s, d, "dbdelete", "idle")
    /\ \/ status' = [status EXCEPT ![s] = "absent"] /\ deleted' = deleted \cup {s}
       \/ "dbdeletelost" \in Fault /\ status' = [status EXCEPT ![s] = "absent"] /\ UNCHANGED deleted
       \/ "dbdelete" \in Fault /\ UNCHANGED <<status, deleted>>
    /\ UNCHANGED <<serverVars, createVars, hostVars, listed, monVars, session>>

DeleteStep(s, d) == DeleteOnHost(s, d) \/ Unregister(s, d) \/ DeleteDocument(s, d)

-----------------------------------------------------------------------------
(* RefreshStatuses, run by one goroutine for each tick: a pass starts when  *)
(* the previous one has ended (wg.Wait), and each document has its worker. *)

OnlyMonitor == UNCHANGED <<serverVars, createVars, hostVars, listed, delVars, session>>
Works(s, from, to) == worker[s] = from /\ worker' = [worker EXCEPT ![s] = to]
Rests(s) ==
    /\ worker' = [worker EXCEPT ![s] = "none"]
    /\ seen' = [seen EXCEPT ![s] = "absent"]

\* The Find of all documents, projected on their status.
RefreshStart ==
    /\ HealthEnabled
    /\ \A s \in Sandbox : worker[s] = "none"
    /\ \E s \in Sandbox : status[s] # "absent"
    /\ seen' = status
    /\ worker' = [s \in Sandbox |-> IF status[s] = "absent" THEN "none" ELSE "listed"]
    /\ OnlyMonitor /\ UNCHANGED status

\* Mutant of RefreshStat: a document without socket is always skipped.
RefreshStatSkip(s) ==
    /\ worker[s] = "listed"
    /\ \/ "sock" \notin host[s] /\ Rests(s)
       \/ "sock" \in host[s] /\ Works(s, "listed", "query") /\ UNCHANGED seen
    /\ OnlyMonitor /\ UNCHANGED status

\* The stat of vm.sock in the loop: nothing to do, stopped, or ask the VM.
RefreshStat(s) ==
    /\ worker[s] = "listed"
    /\ \/ "sock" \notin host[s] /\ seen[s] = "stopped" /\ Rests(s)
       \/ /\ "sock" \notin host[s] /\ seen[s] # "stopped"
          /\ Works(s, "listed", "stopped") /\ UNCHANGED seen
       \/ "sock" \in host[s] /\ Works(s, "listed", "query") /\ UNCHANGED seen
    /\ OnlyMonitor /\ UNCHANGED status

\* Mutant of Answers: the hypervisor's own state is kept where it is unknown.
AnswersRaw(s) ==
    IF "sock" \notin host[s] THEN {"stopped"}
    ELSE {proc[s], "stopped"}

\* What vm.info is taken to mean: anything but running and paused, errors
\* and the two-second timeout included, is stopped.
Answers(s) ==
    IF "sock" \notin host[s] THEN {"stopped"}
    ELSE CASE proc[s] \in {"running", "paused"} ->
                {proc[s]} \cup {v \in {"stopped"} : "unresponsive" \in Fault}
           [] proc[s] = "terminating" -> DBStatus
           [] OTHER -> {"stopped"}

RefreshQuery(s) ==
    /\ \E v \in Answers(s) : Works(s, "query", v)
    /\ OnlyMonitor /\ UNCHANGED <<seen, status>>

\* Mutant of RefreshWrite: the update is an upsert.
RefreshUpsert(s) ==
    /\ worker[s] \in DBStatus
    /\ status' = [status EXCEPT ![s] = IF seen[s] # worker[s] THEN worker[s] ELSE @]
    /\ Rests(s)
    /\ OnlyMonitor

\* UpdateStatus without upsert, only if the verdict differs from the copy.
RefreshWrite(s) ==
    /\ worker[s] \in DBStatus
    /\ \/ /\ seen[s] # worker[s] /\ status[s] # "absent"
          /\ status' = [status EXCEPT ![s] = worker[s]]
       \/ seen[s] = worker[s] /\ UNCHANGED status
       \/ (status[s] = "absent" \/ "update" \in Fault) /\ UNCHANGED status
    /\ Rests(s)
    /\ OnlyMonitor

RefreshStep(s) == RefreshStat(s) \/ RefreshQuery(s) \/ RefreshWrite(s)

-----------------------------------------------------------------------------
(* session-exec: the sandbox is looked up and its agent answers; the event *)
(* is logged below the instance directory afterwards (MkdirAll).           *)

SessionAnswer(s) ==
    /\ SessionExec
    /\ status[s] # "absent" /\ proc[s] = "running"
    /\ session' = session \cup {s}
    /\ UNCHANGED <<serverVars, createVars, hostVars, dbVars, delVars, monVars>>

LogSessionEvent(s) ==
    /\ s \in session
    /\ session' = session \ {s}
    /\ Gain(s, {"dir"})
    /\ IF "dir" \in host[s] THEN UNCHANGED mishap ELSE Note(s, "latelog")
    /\ UNCHANGED <<serverVars, createVars, proc, dbVars, delVars, monVars>>

-----------------------------------------------------------------------------
(* The hypervisor process, the kernel, and the end of the server process.  *)

OnlyProc == UNCHANGED <<serverVars, createVars, mishap, dbVars, delVars, monVars, session>>

OpenSocket(s) ==
    /\ proc[s] = "starting" /\ "dir" \in host[s]
    /\ Gain(s, {"sock"})
    /\ OnlyProc /\ UNCHANGED proc

\* It crashed, its guest powered off, or it obeys SIGTERM.  The socket file
\* may stay.
ProcExit(s) ==
    /\ proc[s] \in Alive \cup {"terminating"}
    /\ proc' = [proc EXCEPT ![s] = "exited"]
    /\ host' = host \/ Lose(s, {"sock"})
    /\ OnlyProc

\* What RegisterMetricsForExisting finds.
RunningDocuments == {s \in Sandbox : status[s] = "running"}

\* The server dies and New runs again: memory and handlers are gone, the
\* hypervisors live on, NewSandboxRepository makes an empty allocatedIPs
\* (nothing calls Init), RegisterMetricsForExisting registers the documents
\* that say running.
Restart ==
    /\ epoch < MaxRestart
    /\ epoch' = epoch + 1
    /\ allocatedIPs' = {}
    /\ registered' = RunningDocuments
    /\ create' = [s \in Sandbox |-> IF create[s] \in Finished THEN create[s] ELSE "crashed"]
    /\ del' = [s \in Sandbox |-> [d \in Deleter |-> "idle"]]
    /\ seen' = [s \in Sandbox |-> "absent"]
    /\ worker' = [s \in Sandbox |-> "none"]
    /\ session' = {}
    /\ UNCHANGED <<ip, born, hostVars, dbVars, deleted>>

-----------------------------------------------------------------------------
Next ==
    \/ \E s \in Sandbox :
        \/ AllocateIP(s) \/ CreateStep(s) \/ RefreshStep(s)
        \/ SessionAnswer(s) \/ LogSessionEvent(s)
        \/ OpenSocket(s) \/ ProcExit(s)
        \/ \E d \in Deleter : DeleteRequest(s, d) \/ DeleteStep(s, d)
    \/ RefreshStart
    \/ Restart

Spec == Init /\ [][Next]_vars

\* Handlers run to their end (every wait in them has a timeout), the ticker
\* ticks, and a process that got SIGTERM goes away.
Fairness ==
    /\ \A s \in Sandbox :
        /\ WF_vars(CreateStep(s))
        /\ WF_vars(RefreshStep(s))
        /\ WF_vars(proc[s] = "terminating" /\ ProcExit(s))
        /\ \A d \in Deleter : WF_vars(DeleteStep(s, d))
    /\ WF_vars(RefreshStart)

FairSpec == Spec /\ Fairness

-----------------------------------------------------------------------------
(* Safety.                                                                 *)

\* No Create of the id runs and no DELETE of it either.
Settled(s) == create[s] \in Finished /\ \A d \in Deleter : del[s][d] = "idle"

\* NextAvailableIP never hands out an address twice while the server runs,
\* whatever the interleaving of Creates, rollbacks and DELETEs.
UniqueIPInEpoch ==
    \A s, t \in Sandbox :
        (s # t /\ ip[s] # NoIP /\ born[s] = born[t]) => ip[s] # ip[t]

\* Two stored sandboxes never have the same address.
UniqueStoredIP ==
    \A s, t \in Sandbox :
        (s # t /\ status[s] # "absent" /\ status[t] # "absent") => ip[s] # ip[t]

\* The mishaps that can leave each thing on the host.  The name of the TAP
\* device is only in vm.tap: where that was not written, or goes with the
\* directory before Stop has read it, the device is lost.
Cause(a) ==
    CASE a = "tap"                -> {"tapfile", "linkget", "spawn", "pidfile", "linkdel"}
      [] a = "dir"                -> {"overlay", "rmdir", "latelog"}
      [] a \in {"tapfile", "sock"} -> {"rmdir"}
      [] a = "pidfile"            -> {}

Excused(s, a) == Cause(a) \cap mishap[s] # {}

\* When Create failed, or the document was deleted, no process of the sandbox
\* runs that nobody has signalled, whatever failed; and of directory, files and
\* TAP device nothing is left but what a failure without cleanup, of this very
\* sandbox, has left there.  A Create that a restart cut short before its
\* insert is nobody's to clean up.
NothingLeftBehind ==
    \A s \in Sandbox :
        (Settled(s) /\ (create[s] = "crashed" => s \in listed) /\ status[s] = "absent")
            => proc[s] \notin Alive /\ \A a \in host[s] : Excused(s, a)

\* After a DELETE answered 200 the sandbox does not come back: the document
\* is not written again by the health monitor or by the Create that is still
\* in progress, and its VM is gone, and its TAP device unless its name was
\* lost, even if the server was restarted during an earlier attempt.
DeletedStaysDeleted ==
    \A s \in deleted :
        /\ status[s] = "absent" /\ proc[s] \notin Alive
        /\ "tap" \in host[s] => Excused(s, "tap")

-----------------------------------------------------------------------------
(* Liveness under Fairness.                                                *)

\* POST /sandboxes is always answered.
CreateEnds ==
    \A s \in Sandbox : create[s] = "allocated" ~> create[s] \in Finished

\* A VM that died, or that a rollback took down although its document was
\* stored, ends up and stays "stopped" in the database.
DeadBecomesStopped ==
    \A s \in Sandbox :
        (status[s] # "absent" /\ proc[s] \notin Alive \cup {"none"})
            ~> [](status[s] \in {"stopped", "absent"})

=============================================================================
