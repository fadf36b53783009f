------------------------ MODULE SandboxLifecycleProofs ------------------------
(***************************************************************************)
(* Theorems about SandboxLifecycle, for every number of sandboxes,         *)
(* addresses, concurrent DELETEs and restarts.                             *)
(***************************************************************************)
EXTENDS SandboxLifecycle, TLAPS

\* Removing or adding files of one sandbox keeps the type of host.
LEMMA HostType ==
    ASSUME NEW s \in Sandbox, NEW files \in SUBSET Artifact,
           host \in [Sandbox -> SUBSET Artifact],
           Gain(s, files) \/ Lose(s, files)
    PROVE  host' \in [Sandbox -> SUBSET Artifact]
BY DEF Gain, Lose

\* Noting a mishap of one sandbox keeps the type of mishap.
LEMMA MishapType ==
    ASSUME NEW s \in Sandbox, NEW what \in LeakyFault \cup {"latelog"},
           mishap \in [Sandbox -> SUBSET (LeakyFault \cup {"latelog"})],
           Note(s, what)
    PROVE  mishap' \in [Sandbox -> SUBSET (LeakyFault \cup {"latelog"})]
BY DEF Note

\* So do the calls that tear a sandbox down.
LEMMA TeardownType ==
    ASSUME NEW s \in Sandbox, TypeOK,
           Kill(s) \/ Untap(s) \/ Rmdir(s) \/ RmdirFails(s)
    PROVE  /\ host' \in [Sandbox -> SUBSET Artifact]
           /\ proc' \in [Sandbox -> ProcState]
           /\ mishap' \in [Sandbox -> SUBSET (LeakyFault \cup {"latelog"})]
<1> USE DEF Artifact
<1>0. {"linkdel", "rmdir"} \subseteq LeakyFault
  BY DEF LeakyFault
<1>1. CASE Kill(s)
  <2>1. host' \in [Sandbox -> SUBSET Artifact]
    BY <1>1, HostType DEF Kill, TypeOK, hostVars
  <2>2. proc' \in [Sandbox -> ProcState]
    BY <1>1 DEF Kill, TypeOK, hostVars, ProcState
  <2>3. mishap' = mishap
    BY <1>1 DEF Kill, hostVars
  <2> QED
    BY <2>1, <2>2, <2>3 DEF TypeOK
<1>2. CASE Untap(s)
  <2>1. host' \in [Sandbox -> SUBSET Artifact]
    BY <1>2, HostType DEF Untap, TypeOK
  <2>2. mishap' \in [Sandbox -> SUBSET (LeakyFault \cup {"latelog"})]
    BY <1>0, <1>2, MishapType DEF Untap, Befalls, TypeOK
  <2> QED
    BY <1>2, <2>1, <2>2 DEF Untap, TypeOK
<1>3. CASE Rmdir(s)
  <2>1. host' \in [Sandbox -> SUBSET Artifact]
    BY <1>3, HostType DEF Rmdir, TypeOK
  <2> QED
    BY <1>3, <2>1 DEF Rmdir, TypeOK
<1>4. CASE RmdirFails(s)
  <2>1. host' \in [Sandbox -> SUBSET Artifact]
    BY <1>4, HostType DEF RmdirFails, TypeOK
  <2>2. mishap' \in [Sandbox -> SUBSET (LeakyFault \cup {"latelog"})]
    BY <1>0, <1>4, MishapType DEF RmdirFails, Befalls, TypeOK
  <2> QED
    BY <1>4, <2>1, <2>2 DEF RmdirFails, TypeOK
<1> QED
  BY <1>1, <1>2, <1>3, <1>4

\* The state functions of the specification have their types in every
\* reachable state.
THEOREM TypeCorrect == Spec => []TypeOK
<1> USE ConstantsAssumption DEF Forward, Teardown, Finished, DelStage, Artifact,
                                Alive, ProcState, DBStatus
<1>1. Init => TypeOK
  BY DEF Init, TypeOK
<1>2. TypeOK /\ [Next]_vars => TypeOK'
  <2> SUFFICES ASSUME TypeOK, [Next]_vars PROVE TypeOK'
    OBVIOUS
  <2> USE DEF TypeOK, serverVars, createVars, hostVars, dbVars, delVars, monVars,
              At, OnHost, OnlyCreate, OffHost, OnlyMonitor, OnlyProc
  <2>1. ASSUME NEW s \in Sandbox, AllocateIP(s) PROVE TypeOK'
    BY <2>1 DEF AllocateIP
  <2>2. ASSUME NEW s \in Sandbox, CreateStep(s) PROVE TypeOK'
    <3>1. CASE PrepareInstance(s)
      <4>1. host' \in [Sandbox -> SUBSET Artifact]
        BY <3>1, HostType DEF PrepareInstance
      <4>2. mishap' \in [Sandbox -> SUBSET (LeakyFault \cup {"latelog"})]
        BY <3>1, MishapType DEF PrepareInstance, Befalls, LeakyFault
      <4> QED
        BY <3>1, <4>1, <4>2 DEF PrepareInstance
    <3>2. CASE CreateTap(s)
      <4>1. host' \in [Sandbox -> SUBSET Artifact]
        BY <3>2, HostType DEF CreateTap
      <4>2. mishap' \in [Sandbox -> SUBSET (LeakyFault \cup {"latelog"})]
        BY <3>2, MishapType DEF CreateTap, Befalls, LeakyFault
      <4> QED
        BY <3>2, <4>1, <4>2 DEF CreateTap
    <3>3. CASE Spawn(s)
      <4>1. mishap' \in [Sandbox -> SUBSET (LeakyFault \cup {"latelog"})]
        BY <3>3, MishapType DEF Spawn, Befalls, LeakyFault
      <4> QED
        BY <3>3, <4>1 DEF Spawn
    <3>4. CASE RecordPID(s)
      <4>1. host' \in [Sandbox -> SUBSET Artifact]
        BY <3>4, HostType DEF RecordPID
      <4>2. proc' \in [Sandbox -> ProcState]
        BY <3>4 DEF RecordPID
      <4>3. mishap' \in [Sandbox -> SUBSET (LeakyFault \cup {"latelog"})]
        BY <3>4, MishapType DEF RecordPID, Befalls, LeakyFault
      <4> QED
        BY <3>4, <4>1, <4>2, <4>3 DEF RecordPID
    <3>5. CASE WaitForSocket(s) \/ EnableTap(s) \/ WaitForAgent(s)
      BY <3>5, ZenonT(40) DEF WaitForSocket, EnableTap, WaitForAgent
    <3>6. CASE VMCreate(s) \/ VMBoot(s)
      BY <3>6 DEF VMCreate, VMBoot, Request
    <3>7. CASE Insert(s)
      BY <3>7 DEF Insert
    <3>8. CASE Register(s)
      BY <3>8 DEF Register
    <3>9. CASE CreateError(s)
      BY <3>9 DEF CreateError, ErrorPath
    <3>10. CASE Rollback(s)
      <4>1. /\ host' \in [Sandbox -> SUBSET Artifact]
            /\ proc' \in [Sandbox -> ProcState]
            /\ mishap' \in [Sandbox -> SUBSET (LeakyFault \cup {"latelog"})]
        BY <3>10, TeardownType DEF Rollback
      <4> QED
        BY <3>10, <4>1 DEF Rollback
    <3> QED
      BY <2>2, <3>1, <3>2, <3>3, <3>4, <3>5, <3>6, <3>7, <3>8, <3>9, <3>10 DEF CreateStep
  <2>3. ASSUME NEW s \in Sandbox, RefreshStep(s) PROVE TypeOK'
    <3>1. CASE RefreshStat(s)
      BY <3>1 DEF RefreshStat, Works, Rests
    <3>2. CASE RefreshQuery(s)
      BY <3>2 DEF RefreshQuery, Works, Answers
    <3>3. CASE RefreshWrite(s)
      BY <3>3 DEF RefreshWrite, Rests
    <3> QED
      BY <2>3, <3>1, <3>2, <3>3 DEF RefreshStep
  <2>4. ASSUME NEW s \in Sandbox, SessionAnswer(s) \/ LogSessionEvent(s) PROVE TypeOK'
    <3>1. host' \in [Sandbox -> SUBSET Artifact]
      BY <2>4, HostType DEF SessionAnswer, LogSessionEvent
    <3>2. mishap' \in [Sandbox -> SUBSET (LeakyFault \cup {"latelog"})]
      BY <2>4, MishapType DEF SessionAnswer, LogSessionEvent
    <3> QED
      BY <2>4, <3>1, <3>2 DEF SessionAnswer, LogSessionEvent
  <2>5. ASSUME NEW s \in Sandbox, OpenSocket(s) \/ ProcExit(s) PROVE TypeOK'
    <3>1. host' \in [Sandbox -> SUBSET Artifact]
      BY <2>5, HostType DEF OpenSocket, ProcExit
    <3> QED
      BY <2>5, <3>1 DEF OpenSocket, ProcExit
  <2>6. ASSUME NEW s \in Sandbox, NEW d \in Deleter, DeleteRequest(s, d) \/ DeleteStep(s, d)
        PROVE TypeOK'
    <3>1. CASE DeleteRequest(s, d)
      BY <3>1 DEF DeleteRequest, Stage
    <3>2. CASE DeleteOnHost(s, d)
      <4>1. /\ host' \in [Sandbox -> SUBSET Artifact]
            /\ proc' \in [Sandbox -> ProcState]
            /\ mishap' \in [Sandbox -> SUBSET (LeakyFault \cup {"latelog"})]
        BY <3>2, TeardownType DEF DeleteOnHost
      <4>2. PICK from, to \in DelStage : Stage(s, d, from, to)
        BY <3>2 DEF DeleteOnHost
      <4>3. UNCHANGED <<serverVars, createVars, dbVars, deleted, monVars, session>>
        BY <3>2 DEF DeleteOnHost
      <4> QED
        BY <4>1, <4>2, <4>3 DEF Stage
    <3>3. CASE Unregister(s, d)
      BY <3>3 DEF Unregister, Stage
    <3>4. CASE DeleteDocument(s, d)
      BY <3>4 DEF DeleteDocument, Stage
    <3> QED
      BY <2>6, <3>1, <3>2, <3>3, <3>4 DEF DeleteStep
  <2>7. CASE RefreshStart
    BY <2>7 DEF RefreshStart
  <2>8. CASE Restart
    BY <2>8 DEF Restart, RunningDocuments
  <2>9. CASE UNCHANGED vars
    BY <2>9 DEF vars
  <2> QED
    BY <2>1, <2>2, <2>3, <2>4, <2>5, <2>6, <2>7, <2>8, <2>9 DEF Next
<1> QED
  BY <1>1, <1>2, PTL DEF Spec

-----------------------------------------------------------------------------
(* Addresses.  Within one run of the server the map in memory remembers     *)
(* every address handed out; nothing but NextAvailableIP touches it.        *)

\* An address handed out by this run of the server is in the map, and none
\* was handed out by a later run.
AddressesRemembered ==
    \A s \in Sandbox :
        ip[s] # NoIP => born[s] <= epoch /\ (born[s] = epoch => ip[s] \in allocatedIPs)

\* Only two actions have to do with addresses.
LEMMA AddressSteps ==
    ASSUME [Next]_vars
    PROVE  \/ \E s \in Sandbox : AllocateIP(s)
           \/ Restart
           \/ UNCHANGED <<epoch, allocatedIPs, ip, born>>
<1> USE DEF serverVars, createVars
<1>1. ASSUME NEW s \in Sandbox, CreateStep(s)
      PROVE  UNCHANGED <<epoch, allocatedIPs, ip, born>>
  BY <1>1 DEF CreateStep, PrepareInstance, CreateTap, Spawn, RecordPID, WaitForSocket, VMCreate,
       VMBoot, Request, EnableTap, WaitForAgent, Insert, Register, CreateError, Rollback,
       OnHost, OnlyCreate
<1>2. ASSUME NEW s \in Sandbox, RefreshStep(s)
      PROVE  UNCHANGED <<epoch, allocatedIPs, ip, born>>
  BY <1>2 DEF RefreshStep, RefreshStat, RefreshQuery, RefreshWrite, OnlyMonitor
<1>3. ASSUME NEW s \in Sandbox, NEW d \in Deleter, DeleteRequest(s, d) \/ DeleteStep(s, d)
      PROVE  UNCHANGED <<epoch, allocatedIPs, ip, born>>
  BY <1>3 DEF DeleteRequest, DeleteStep, DeleteOnHost, Unregister, DeleteDocument, OffHost
<1>4. ASSUME NEW s \in Sandbox,
             SessionAnswer(s) \/ LogSessionEvent(s) \/ OpenSocket(s) \/ ProcExit(s)
      PROVE  UNCHANGED <<epoch, allocatedIPs, ip, born>>
  BY <1>4 DEF SessionAnswer, LogSessionEvent, OpenSocket, ProcExit, OnlyProc
<1>5. CASE RefreshStart
  BY <1>5 DEF RefreshStart, OnlyMonitor
<1>6. CASE UNCHANGED vars
  BY <1>6 DEF vars
<1> QED
  BY <1>1, <1>2, <1>3, <1>4, <1>5, <1>6 DEF Next

\* NextAvailableIP never hands out an address twice while the server runs:
\* not after a rollback, not after a DELETE, not to concurrent requests.
THEOREM AddressesUnique == Spec => []UniqueIPInEpoch
<1> DEFINE Inv == UniqueIPInEpoch /\ AddressesRemembered
<1>1. Init => Inv
  BY DEF Init, UniqueIPInEpoch, AddressesRemembered
<1>2. TypeOK /\ Inv /\ [Next]_vars => Inv'
  <2> SUFFICES ASSUME TypeOK, Inv, [Next]_vars PROVE Inv'
    OBVIOUS
  <2> USE DEF TypeOK, UniqueIPInEpoch, AddressesRemembered
  <2>1. ASSUME NEW s \in Sandbox, AllocateIP(s) PROVE Inv'
    BY <2>1, ConstantsAssumption DEF AllocateIP
  <2>2. CASE Restart
    BY <2>2, ConstantsAssumption DEF Restart
  <2>3. CASE UNCHANGED <<epoch, allocatedIPs, ip, born>>
    BY <2>3
  <2> QED
    BY <2>1, <2>2, <2>3, AddressSteps
<1> QED
  BY <1>1, <1>2, TypeCorrect, PTL DEF Spec

-----------------------------------------------------------------------------
(* Deletion.                                                               *)

\* Create is past its insert: nothing it still does adds to the host.
Late == {"saved", "done", "failed", "crashed"} \cup Teardown

\* A handler has called Kill, and Untap, on the sandbox.
Killed(s) ==
    \/ create[s] \in {"untap", "rmdir"}
    \/ \E d \in Deleter : del[s][d] \in {"untap", "rmdir", "unregister", "dbdelete"}
Untapped(s) ==
    \/ create[s] = "rmdir"
    \/ \E d \in Deleter : del[s][d] \in {"rmdir", "unregister", "dbdelete"}

\* Before the id is in the database nobody else works on the sandbox, and its
\* files of record are there when the document is inserted, unless the write of
\* vm.tap failed.
BeforeInsert(s) ==
    /\ s \notin listed =>
          s \notin deleted /\ status[s] = "absent" /\ \A d \in Deleter : del[s][d] = "idle"
    /\ s \in listed => create[s] \in Late
    /\ create[s] \in {"tapped", "spawned", "recorded", "socket", "created", "booted",
                      "attached", "ready"} => "tapfile" \in host[s] \/ Excused(s, "tap")
    /\ create[s] \in {"recorded", "socket", "created", "booted", "attached", "ready"} =>
          "pidfile" \in host[s]

\* From then on vm.pid and vm.tap are there for as long as what they name, or
\* it is on record that the TAP device was lost.
AfterInsert(s) ==
    s \in listed =>
        /\ proc[s] \in Alive => "pidfile" \in host[s]
        /\ "tap" \in host[s] => "tapfile" \in host[s] \/ Excused(s, "tap")
        /\ Killed(s) => proc[s] \notin Alive
        /\ Untapped(s) => "tap" \notin host[s] \/ Excused(s, "tap")

StaysDeleted(s) ==
    s \in deleted => /\ status[s] = "absent" /\ proc[s] \notin Alive
                     /\ "tap" \in host[s] => Excused(s, "tap")

DeleteInv(s) == BeforeInsert(s) /\ AfterInsert(s) /\ StaysDeleted(s)

\* What the invariant reads of a sandbox.
Same(s) ==
    /\ UNCHANGED <<create[s], host[s], proc[s], mishap[s], status[s], del[s]>>
    /\ (s \in listed') = (s \in listed)
    /\ (s \in deleted') = (s \in deleted)

\* A step that leaves alone what the invariant reads of a sandbox keeps it.
LEMMA SameInv ==
    ASSUME NEW s \in Sandbox, Same(s), DeleteInv(s) PROVE DeleteInv(s)'
BY DEF Same, DeleteInv, BeforeInsert, AfterInsert, StaysDeleted, Killed, Untapped, Excused

\* A mishap that was noted stays noted, and excuses what it can have left.
LEMMA Excuses ==
    ASSUME NEW s \in Sandbox, TypeOK,
           mishap' = mishap \/ \E w \in LeakyFault \cup {"latelog"} : Note(s, w)
    PROVE  /\ \A t \in Sandbox \ {s} : mishap'[t] = mishap[t]
           /\ \A a : Excused(s, a) => Excused(s, a)'
           /\ \A w, a : (Note(s, w) /\ w \in Cause(a)) => Excused(s, a)'
BY DEF TypeOK, Note, Excused

\* Where Create, or the log of a session, meets a mishap it is noted with what it
\* can leave behind.
LEMMA MishapSteps ==
    ASSUME NEW s \in Sandbox, TypeOK,
           \/ PrepareInstance(s) \/ CreateTap(s) \/ Spawn(s) \/ RecordPID(s)
           \/ LogSessionEvent(s)
    PROVE  /\ \A t \in Sandbox \ {s} : mishap'[t] = mishap[t]
           /\ \A a : Excused(s, a) => Excused(s, a)'
           /\ CreateTap(s) => "tapfile" \in host'[s] \/ Excused(s, "tap")'
           /\ (CreateTap(s) \/ Spawn(s) \/ RecordPID(s)) /\ create'[s] = "rmdir"
                  => Excused(s, "tap")'
           /\ PrepareInstance(s) /\ create'[s] = "failed" => Excused(s, "dir")'
           /\ LogSessionEvent(s) => "dir" \in host[s] \/ Excused(s, "dir")'
<1>1. mishap' = mishap \/ \E w \in LeakyFault \cup {"latelog"} : Note(s, w)
  BY DEF PrepareInstance, CreateTap, Spawn, RecordPID, LogSessionEvent, Befalls, LeakyFault
<1>2. /\ \A t \in Sandbox \ {s} : mishap'[t] = mishap[t]
      /\ \A a : Excused(s, a) => Excused(s, a)'
      /\ \A w, a : (Note(s, w) /\ w \in Cause(a)) => Excused(s, a)'
  BY <1>1, Excuses
<1>3. /\ {"tapfile", "linkget", "spawn", "pidfile"} \subseteq Cause("tap")
      /\ {"overlay", "latelog"} \subseteq Cause("dir")
  BY DEF Cause
<1>4. CreateTap(s) => /\ "tapfile" \in host'[s] \/ Note(s, "tapfile") \/ Note(s, "linkget")
                      /\ create'[s] = "rmdir" => Note(s, "linkget")
  BY DEF CreateTap, Gain, At, Befalls, TypeOK
<1>5. Spawn(s) /\ create'[s] = "rmdir" => Note(s, "spawn")
  BY DEF Spawn, At, Befalls, TypeOK
<1>6. RecordPID(s) /\ create'[s] = "rmdir" => Note(s, "pidfile")
  BY DEF RecordPID, At, Befalls, TypeOK
<1>7. PrepareInstance(s) /\ create'[s] = "failed" => Note(s, "overlay")
  BY DEF PrepareInstance, At, Befalls, TypeOK
<1>8. LogSessionEvent(s) => "dir" \in host[s] \/ Note(s, "latelog")
  BY DEF LogSessionEvent
<1> QED
  BY <1>2, <1>3, <1>4, <1>5, <1>6, <1>7, <1>8

\* The calls on the host, made by Create's rollback and by Delete, touch one
\* sandbox.  After Kill its hypervisor is not alive, after Untap its TAP device
\* is gone, provided that the files of record were there; else it was lost, and
\* a mishap says why.
LEMMA TeardownEffect ==
    ASSUME NEW s \in Sandbox, TypeOK,
           s \in listed => (proc[s] \in Alive => "pidfile" \in host[s]),
           s \in listed => ("tap" \in host[s] => "tapfile" \in host[s] \/ Excused(s, "tap")),
           \/ Kill(s)
           \/ Untap(s)
           \/ /\ ("tap" \notin host[s] \/ Excused(s, "tap")) /\ proc[s] \notin Alive
              /\ Rmdir(s) \/ RmdirFails(s)
    PROVE  /\ \A t \in Sandbox \ {s} :
                  host'[t] = host[t] /\ proc'[t] = proc[t] /\ mishap'[t] = mishap[t]
           /\ host'[s] \subseteq host[s]
           /\ proc'[s] \in Alive => proc'[s] = proc[s]
           /\ \A a : Excused(s, a) => Excused(s, a)'
           /\ s \in listed => /\ Kill(s) => proc'[s] \notin Alive
                              /\ Untap(s) => "tap" \notin host'[s] \/ Excused(s, "tap")'
                              /\ proc'[s] \in Alive => "pidfile" \in host'[s]
                              /\ "tap" \in host'[s] => "tapfile" \in host'[s] \/ Excused(s, "tap")'
<1>1. mishap' = mishap \/ \E w \in LeakyFault \cup {"latelog"} : Note(s, w)
  BY DEF Kill, Untap, Rmdir, RmdirFails, hostVars, Befalls, LeakyFault
<1>2. /\ \A t \in Sandbox \ {s} : mishap'[t] = mishap[t]
      /\ \A a : Excused(s, a) => Excused(s, a)'
      /\ Note(s, "linkdel") => Excused(s, "tap")'
  BY <1>1, Excuses DEF Cause
<1>3. CASE Kill(s)
  BY <1>2, <1>3 DEF Kill, hostVars, Untap, TypeOK, Alive, Lose
<1>4. CASE Untap(s)
  BY <1>2, <1>4 DEF Untap, Befalls, Kill, hostVars, TypeOK, Alive, Lose
<1>5. CASE /\ "tap" \notin host[s] \/ Excused(s, "tap")
           /\ proc[s] \notin Alive
           /\ Rmdir(s) \/ RmdirFails(s)
  BY <1>2, <1>5 DEF Rmdir, RmdirFails, Kill, Untap, hostVars, TypeOK, Alive, Lose
<1> QED
  BY <1>3, <1>4, <1>5

\* Rollback of a Create preserves the invariant.
LEMMA RollbackDeleteInv ==
    ASSUME NEW s \in Sandbox, TypeOK, DeleteInv(s), Rollback(s)
    PROVE  DeleteInv(s)' /\ \A t \in Sandbox \ {s} : Same(t)
<1>1. /\ \A t \in Sandbox \ {s} : create'[t] = create[t]
      /\ create[s] \in Teardown
      /\ create'[s] \in {"untap", "rmdir", "failed"}
      /\ create'[s] = "untap" => Kill(s)
      /\ create'[s] = "rmdir" => create[s] = "untap" /\ Untap(s)
      /\ create'[s] = "failed" => create[s] = "rmdir" /\ (Rmdir(s) \/ RmdirFails(s))
  BY DEF Rollback, At, TypeOK, Teardown
<1>2. UNCHANGED <<status, listed, del, deleted>>
  BY DEF Rollback, dbVars, delVars
<1>3. CASE s \notin listed
  <2>1. \A t \in Sandbox \ {s} :
            host'[t] = host[t] /\ proc'[t] = proc[t] /\ mishap'[t] = mishap[t]
    BY <1>1 DEF Kill, Untap, Rmdir, RmdirFails, Lose, Befalls, Note, hostVars, TypeOK
  <2> QED
    BY <1>1, <1>2, <1>3, <2>1 DEF DeleteInv, BeforeInsert, AfterInsert, StaysDeleted, Same
<1>4. CASE s \in listed
  <2>1. AfterInsert(s)
    BY DEF DeleteInv
  <2>2. create[s] = "rmdir" =>
            ("tap" \notin host[s] \/ Excused(s, "tap")) /\ proc[s] \notin Alive
    BY <1>4, <2>1 DEF AfterInsert, Killed, Untapped
  <2>3. /\ \A t \in Sandbox \ {s} :
              host'[t] = host[t] /\ proc'[t] = proc[t] /\ mishap'[t] = mishap[t]
        /\ host'[s] \subseteq host[s]
        /\ proc'[s] \in Alive => proc'[s] = proc[s]
        /\ Excused(s, "tap") => Excused(s, "tap")'
        /\ Kill(s) => proc'[s] \notin Alive
        /\ Untap(s) => "tap" \notin host'[s] \/ Excused(s, "tap")'
        /\ proc'[s] \in Alive => "pidfile" \in host'[s]
        /\ "tap" \in host'[s] => "tapfile" \in host'[s] \/ Excused(s, "tap")'
    BY <1>1, <1>4, <2>1, <2>2, TeardownEffect DEF AfterInsert
  <2> QED
    BY <1>1, <1>2, <1>4, <2>3
       DEF DeleteInv, BeforeInsert, AfterInsert, StaysDeleted, Same, Killed, Untapped, Late,
           Teardown
<1> QED
  BY <1>3, <1>4

\* The host part of a DELETE preserves the invariant.
LEMMA DeleteOnHostDeleteInv ==
    ASSUME NEW s \in Sandbox, NEW d \in Deleter, TypeOK, DeleteInv(s), DeleteOnHost(s, d)
    PROVE  DeleteInv(s)' /\ \A t \in Sandbox \ {s} : Same(t)
<1>1. /\ \A t \in Sandbox \ {s} : del'[t] = del[t]
      /\ \A e \in Deleter \ {d} : del'[s][e] = del[s][e]
      /\ del[s][d] \in Teardown
      /\ del'[s][d] \in {"untap", "rmdir", "unregister", "idle"}
      /\ del'[s][d] = "untap" => Kill(s)
      /\ del'[s][d] = "rmdir" => del[s][d] = "untap" /\ Untap(s)
      /\ del'[s][d] \in {"unregister", "idle"} =>
            del[s][d] = "rmdir" /\ (Rmdir(s) \/ RmdirFails(s))
  BY DEF DeleteOnHost, Stage, TypeOK, Teardown
<1>2. UNCHANGED <<status, listed, create, deleted>>
  BY DEF DeleteOnHost, OffHost, dbVars, createVars
<1>3. s \in listed
  BY <1>1 DEF DeleteInv, BeforeInsert, Teardown
<1>4. AfterInsert(s)
  BY DEF DeleteInv
<1>5. del[s][d] = "rmdir" =>
          ("tap" \notin host[s] \/ Excused(s, "tap")) /\ proc[s] \notin Alive
  BY <1>3, <1>4 DEF AfterInsert, Killed, Untapped
<1>6. /\ \A t \in Sandbox \ {s} :
            host'[t] = host[t] /\ proc'[t] = proc[t] /\ mishap'[t] = mishap[t]
      /\ host'[s] \subseteq host[s]
      /\ proc'[s] \in Alive => proc'[s] = proc[s]
      /\ Excused(s, "tap") => Excused(s, "tap")'
      /\ Kill(s) => proc'[s] \notin Alive
      /\ Untap(s) => "tap" \notin host'[s] \/ Excused(s, "tap")'
      /\ proc'[s] \in Alive => "pidfile" \in host'[s]
      /\ "tap" \in host'[s] => "tapfile" \in host'[s] \/ Excused(s, "tap")'
  BY <1>1, <1>3, <1>4, <1>5, TeardownEffect DEF AfterInsert
<1>7. /\ Killed(s)' => Killed(s) \/ Kill(s)
      /\ Untapped(s)' => Untapped(s) \/ Untap(s)
  BY <1>1, <1>2 DEF Killed, Untapped
<1>8. AfterInsert(s)'
  BY <1>3, <1>4, <1>6, <1>7 DEF AfterInsert
<1>9. BeforeInsert(s)'
  BY <1>2, <1>3 DEF DeleteInv, BeforeInsert, Late, Teardown
<1>10. StaysDeleted(s)'
  BY <1>2, <1>6 DEF DeleteInv, StaysDeleted
<1> QED
  BY <1>1, <1>2, <1>6, <1>8, <1>9, <1>10 DEF DeleteInv, Same

\* Every step preserves the invariant of each sandbox.
LEMMA DeleteInvariant == Spec => [](\A s \in Sandbox : DeleteInv(s))
<1> DEFINE Inv == \A s \in Sandbox : DeleteInv(s)
<1>1. Init => Inv
  <2> SUFFICES ASSUME Init, NEW s \in Sandbox PROVE DeleteInv(s)
    OBVIOUS
  <2>1. s \notin listed /\ s \notin deleted /\ status[s] = "absent" /\ create[s] = "idle"
    BY DEF Init
  <2>2. \A d \in Deleter : del[s][d] = "idle"
    BY DEF Init
  <2> QED
    BY <2>1, <2>2 DEF DeleteInv, BeforeInsert, AfterInsert, StaysDeleted
<1>2. TypeOK /\ Inv /\ [Next]_vars => Inv'
  <2> SUFFICES ASSUME TypeOK, Inv, [Next]_vars PROVE Inv'
    OBVIOUS
  <2>1. ASSUME NEW s \in Sandbox, DeleteInv(s)', \A t \in Sandbox \ {s} : Same(t) PROVE Inv'
    BY <2>1, SameInv
  <2>2. ASSUME NEW s \in Sandbox, AllocateIP(s) PROVE Inv'
    <3>0. Excused(s, "tap")' <=> Excused(s, "tap")
      BY <2>2 DEF AllocateIP, hostVars, Excused
    <3>1. DeleteInv(s)' /\ \A t \in Sandbox \ {s} : Same(t)
      BY <2>2, <3>0 DEF AllocateIP, At, TypeOK, hostVars, dbVars, delVars, DeleteInv, BeforeInsert,
           AfterInsert, StaysDeleted, Killed, Untapped, Same, Late, Teardown
    <3> QED
      BY <3>1, <2>1
  <2>3. ASSUME NEW s \in Sandbox, CreateStep(s) PROVE Inv'
    <3> DEFINE Kept == /\ \A t \in Sandbox \ {s} : mishap'[t] = mishap[t]
                       /\ Excused(s, "tap") => Excused(s, "tap")'
    <3>a. PrepareInstance(s) \/ CreateTap(s) \/ Spawn(s) \/ RecordPID(s) => Kept
      BY MishapSteps
    <3>b. CreateTap(s) => "tapfile" \in host'[s] \/ Excused(s, "tap")'
      BY MishapSteps
    <3>c. ASSUME CreateTap(s)
          PROVE  /\ UNCHANGED <<status, listed, del, deleted, proc>>
                 /\ create[s] = "prepared" /\ create'[s] \in {"tapped", "rmdir"}
                 /\ \A t \in Sandbox \ {s} : create'[t] = create[t] /\ host'[t] = host[t]
      <4>1. At(s, "prepared", "tapped") \/ At(s, "prepared", "rmdir")
        BY <3>c DEF CreateTap
      <4>2. \E files : Gain(s, files)
        BY <3>c DEF CreateTap
      <4>3. UNCHANGED <<status, listed, del, deleted, proc>>
        BY <3>c DEF CreateTap, OnHost, dbVars, delVars
      <4> QED
        BY <4>1, <4>2, <4>3 DEF At, Gain, TypeOK
    <3>d. ASSUME Spawn(s)
          PROVE  /\ UNCHANGED <<host, status, listed, del, deleted>>
                 /\ create[s] = "tapped" /\ create'[s] \in {"spawned", "rmdir"}
                 /\ \A t \in Sandbox \ {s} : create'[t] = create[t] /\ proc'[t] = proc[t]
      <4>1. At(s, "tapped", "spawned") \/ At(s, "tapped", "rmdir")
        BY <3>d DEF Spawn
      <4>2. proc' = proc \/ proc' = [proc EXCEPT ![s] = "starting"]
        BY <3>d DEF Spawn
      <4>3. UNCHANGED <<host, status, listed, del, deleted>>
        BY <3>d DEF Spawn, OnHost, dbVars, delVars
      <4> QED
        BY <4>1, <4>2, <4>3 DEF At, TypeOK
    <3>e. ASSUME RecordPID(s)
          PROVE  /\ UNCHANGED <<status, listed, del, deleted>>
                 /\ create[s] = "spawned" /\ create'[s] \in {"recorded", "rmdir"}
                 /\ host[s] \subseteq host'[s] /\ host'[s] \subseteq host[s] \cup {"pidfile"}
                 /\ create'[s] = "recorded" => "pidfile" \in host'[s]
                 /\ \A t \in Sandbox \ {s} : /\ create'[t] = create[t] /\ host'[t] = host[t]
                                             /\ proc'[t] = proc[t]
      <4>1. \/ At(s, "spawned", "recorded") /\ Gain(s, {"pidfile"}) /\ proc' = proc
            \/ /\ At(s, "spawned", "rmdir") /\ host' = host
               /\ proc' = [proc EXCEPT ![s] = IF @ \in Alive THEN "terminating" ELSE @]
        BY <3>e DEF RecordPID
      <4>2. UNCHANGED <<status, listed, del, deleted>>
        BY <3>e DEF RecordPID, OnHost, dbVars, delVars
      <4> QED
        BY <4>1, <4>2 DEF At, Gain, TypeOK
    <3> USE DEF At, OnHost, OnlyCreate, TypeOK, hostVars, dbVars, delVars, DeleteInv,
                BeforeInsert, AfterInsert, StaysDeleted, Killed, Untapped, Same, Late, Teardown,
                Gain, Alive
    <3>1. CASE PrepareInstance(s)
      <4>1. DeleteInv(s)' /\ \A t \in Sandbox \ {s} : Same(t)
        BY <3>1, <3>a, SMTT(20) DEF PrepareInstance
      <4> QED
        BY <4>1, <2>1
    <3>2. CASE CreateTap(s)
      <4>0. /\ s \notin listed /\ UNCHANGED <<status, listed, del, deleted, proc>>
            /\ create[s] = "prepared" /\ create'[s] \in {"tapped", "rmdir"}
            /\ \A t \in Sandbox \ {s} : create'[t] = create[t] /\ host'[t] = host[t]
        BY <3>2, <3>c
      <4>1. \A t \in Sandbox \ {s} : Same(t)
        <5> HIDE DEF TypeOK, DeleteInv
        <5> QED
          BY <3>2, <3>a, <4>0
      <4>2. DeleteInv(s)
        OBVIOUS
      <4>3. DeleteInv(s)'
        <5> HIDE DEF TypeOK
        <5> QED
          BY <3>2, <3>b, <4>0, <4>2
      <4> QED
        BY <4>1, <4>3, <2>1
    <3>3. CASE Spawn(s)
      <4>0. s \notin listed /\ ("tapfile" \in host[s] \/ Excused(s, "tap"))
        BY <3>3, <3>d
      <4>1. \A t \in Sandbox \ {s} : Same(t)
        <5> HIDE DEF TypeOK, DeleteInv
        <5> QED
          BY <3>3, <3>a, <3>d
      <4>2. DeleteInv(s)
        OBVIOUS
      <4>3. DeleteInv(s)'
        <5> HIDE DEF TypeOK
        <5> QED
          BY <3>3, <3>a, <3>d, <4>0, <4>2
      <4> QED
        BY <4>1, <4>3, <2>1
    <3>4. CASE RecordPID(s)
      <4>0. s \notin listed /\ ("tapfile" \in host[s] \/ Excused(s, "tap"))
        BY <3>4, <3>e
      <4>1. \A t \in Sandbox \ {s} : Same(t)
        <5> HIDE DEF TypeOK, DeleteInv
        <5> QED
          BY <3>4, <3>a, <3>e
      <4>2. DeleteInv(s)
        OBVIOUS
      <4>3. DeleteInv(s)'
        <5> HIDE DEF TypeOK
        <5> QED
          BY <3>4, <3>a, <3>e, <4>0, <4>2
      <4> QED
        BY <4>1, <4>3, <2>1
    <3>5. CASE WaitForSocket(s) \/ EnableTap(s) \/ WaitForAgent(s)
      <4>1. DeleteInv(s)' /\ \A t \in Sandbox \ {s} : Same(t)
        BY <3>5 DEF WaitForSocket, EnableTap, WaitForAgent, Excused
      <4> QED
        BY <4>1, <2>1
    <3>6. CASE VMCreate(s) \/ VMBoot(s)
      <4>1. DeleteInv(s)' /\ \A t \in Sandbox \ {s} : Same(t)
        BY <3>6 DEF VMCreate, VMBoot, Request, Excused
      <4> QED
        BY <4>1, <2>1
    <3>7. CASE Insert(s)
      <4>0. Excused(s, "tap")' <=> Excused(s, "tap")
        BY <3>7 DEF Insert, Excused
      <4>1. DeleteInv(s)' /\ \A t \in Sandbox \ {s} : Same(t)
        BY <3>7, <4>0, SMTT(20) DEF Insert
      <4> QED
        BY <4>1, <2>1
    <3>8. CASE Register(s)
      <4>1. DeleteInv(s)' /\ \A t \in Sandbox \ {s} : Same(t)
        BY <3>8 DEF Register, Excused
      <4> QED
        BY <4>1, <2>1
    <3>9. CASE CreateError(s)
      <4>0. Excused(s, "tap")' <=> Excused(s, "tap")
        BY <3>9 DEF CreateError, Excused
      <4>1. DeleteInv(s)' /\ \A t \in Sandbox \ {s} : Same(t)
        BY <3>9, <4>0, SMTT(20) DEF CreateError, ErrorPath
      <4> QED
        BY <4>1, <2>1
    <3>10. CASE Rollback(s)
      BY <3>10, <2>1, RollbackDeleteInv, ZenonT(40)
    <3> QED
      BY <2>3, <3>1, <3>2, <3>3, <3>4, <3>5, <3>6, <3>7, <3>8, <3>9, <3>10 DEF CreateStep
  <2>4. ASSUME NEW s \in Sandbox, RefreshStep(s) PROVE Inv'
    <3>1. DeleteInv(s)' /\ \A t \in Sandbox \ {s} : Same(t)
      BY <2>4 DEF RefreshStep, RefreshStat, RefreshQuery, RefreshWrite, OnlyMonitor, TypeOK,
           createVars, hostVars, delVars, DeleteInv, BeforeInsert, AfterInsert, StaysDeleted,
           Killed, Untapped, Excused, Same
    <3> QED
      BY <3>1, <2>1
  <2>5. ASSUME NEW s \in Sandbox,
               SessionAnswer(s) \/ LogSessionEvent(s) \/ OpenSocket(s) \/ ProcExit(s)
        PROVE  Inv'
    <3>a. /\ \A t \in Sandbox \ {s} : mishap'[t] = mishap[t]
          /\ Excused(s, "tap") => Excused(s, "tap")'
      <4>1. CASE LogSessionEvent(s)
        BY <4>1, MishapSteps
      <4>2. CASE UNCHANGED mishap
        BY <4>2 DEF Excused
      <4> QED
        BY <2>5, <4>1, <4>2 DEF SessionAnswer, OpenSocket, ProcExit, OnlyProc, hostVars
    <3>1. DeleteInv(s)' /\ \A t \in Sandbox \ {s} : Same(t)
      BY <2>5, <3>a DEF SessionAnswer, LogSessionEvent, OpenSocket, ProcExit, OnlyProc,
           Gain, Lose, TypeOK, createVars, hostVars, dbVars, delVars, Alive, DeleteInv,
           BeforeInsert, AfterInsert, StaysDeleted, Killed, Untapped, Same
    <3> QED
      BY <3>1, <2>1
  <2>6. ASSUME NEW s \in Sandbox, NEW d \in Deleter, DeleteRequest(s, d) \/ DeleteStep(s, d)
        PROVE  Inv'
    <3> USE DEF Stage, TypeOK, createVars, hostVars, dbVars, OffHost, DeleteInv, BeforeInsert,
                AfterInsert, StaysDeleted, Killed, Untapped, Same
    <3>1. CASE DeleteRequest(s, d)
      <4>1. DeleteInv(s)' /\ \A t \in Sandbox \ {s} : Same(t)
        BY <3>1 DEF DeleteRequest, Excused
      <4> QED
        BY <4>1, <2>1
    <3>2. CASE DeleteOnHost(s, d)
      BY <3>2, <2>1, DeleteOnHostDeleteInv
    <3>3. CASE Unregister(s, d)
      <4>1. DeleteInv(s)' /\ \A t \in Sandbox \ {s} : Same(t)
        BY <3>3 DEF Unregister, Excused
      <4> QED
        BY <4>1, <2>1
    <3>4. CASE DeleteDocument(s, d)
      <4>1. DeleteInv(s)' /\ \A t \in Sandbox \ {s} : Same(t)
        BY <3>4, SMTT(20) DEF DeleteDocument, Excused
      <4> QED
        BY <4>1, <2>1
    <3> QED
      BY <2>6, <3>1, <3>2, <3>3, <3>4 DEF DeleteStep
  <2>7. CASE RefreshStart
    <3>1. \A s \in Sandbox : Same(s)
      BY <2>7 DEF RefreshStart, OnlyMonitor, createVars, hostVars, delVars, Same
    <3> QED
      BY <3>1, SameInv
  <2>8. CASE Restart
    BY <2>8 DEF Restart, hostVars, dbVars, TypeOK, Finished, Forward, Teardown, Late, Alive, DeleteInv,
         BeforeInsert, AfterInsert, StaysDeleted, Killed, Untapped, Excused
  <2>9. CASE UNCHANGED vars
    BY <2>9, SameInv DEF vars, createVars, hostVars, dbVars, delVars, Same
  <2> QED
    BY <2>2, <2>3, <2>4, <2>5, <2>6, <2>7, <2>8, <2>9 DEF Next
<1> QED
  BY <1>1, <1>2, TypeCorrect, PTL DEF Spec

\* A DELETE that answered 200 is final: the document is not written again, by
\* the health monitor or by the Create that is still at work, and the VM and its
\* TAP device are gone, whatever the interleaving of requests, failed attempts
\* and restarts before it.  Where the write of vm.tap or the deletion of the link
\* failed, whose errors nobody looks at, the device stays.
THEOREM DeletedForGood == Spec => []DeletedStaysDeleted
<1> DEFINE Inv == \A s \in Sandbox : DeleteInv(s)
<1>1. TypeOK /\ Inv => DeletedStaysDeleted
  BY DEF TypeOK, DeleteInv, StaysDeleted, DeletedStaysDeleted
<1> QED
  BY <1>1, TypeCorrect, DeleteInvariant, PTL

-----------------------------------------------------------------------------
(* What a failed Create and a completed DELETE leave on the host: no        *)
(* process, and no more than a mishap of this very sandbox explains.       *)

\* Before the TAP device exists there is at most the directory, and vm.pid is
\* not written before there is a process.
Early(s) ==
    /\ create[s] \in {"idle", "allocated"} => host[s] = {}
    /\ create[s] = "prepared" => host[s] \subseteq {"dir"}
    /\ create[s] \in {"tapped", "spawned"} => "pidfile" \notin host[s]
    /\ create[s] \in {"idle", "allocated", "prepared", "tapped"} => proc[s] = "none"

\* What has to be torn down is on record, except for a process whose pid was
\* about to be written, by this Create or by one that a restart cut short, and
\* for a TAP device whose name was lost.
OnRecord(s) ==
    /\ "tap" \in host[s] => "tapfile" \in host[s] \/ Excused(s, "tap")
    /\ proc[s] \in Alive =>
          \/ "pidfile" \in host[s]
          \/ create[s] = "spawned"
          \/ create[s] = "crashed" /\ s \notin listed
    /\ Killed(s) => proc[s] \notin Alive /\ "pidfile" \notin host[s]
    /\ Untapped(s) => "tap" \notin host[s] \/ Excused(s, "tap")

\* All that is left is explained, and nothing runs.
Explained(s) == proc[s] \notin Alive /\ \A a \in host[s] : Excused(s, a)

\* So it is once the directory was to be removed, for the last time.
Gone(s) ==
    \/ create[s] = "failed"
    \/ s \in listed /\ status[s] = "absent"
    \/ \E d \in Deleter : del[s][d] \in {"unregister", "dbdelete"}

Swept(s) ==
    /\ Gone(s) => Explained(s)
    /\ create[s] \in {"saved", "done"} => s \in listed

CleanInv(s) == Early(s) /\ OnRecord(s) /\ Swept(s)

\* The sandboxes with an event to be logged were in the database.
SessionsKnown == session \subseteq listed

\* A step that leaves alone what the invariant reads of a sandbox keeps it.
LEMMA SameCleanInv ==
    ASSUME NEW s \in Sandbox, Same(s), CleanInv(s) PROVE CleanInv(s)'
BY DEF Same, CleanInv, Early, OnRecord, Swept, Gone, Explained, Killed, Untapped, Excused

\* What the calls on the host do to what is left: Kill and Untap see to what is
\* on record, and what stays when the directory was to be removed is explained.
LEMMA TeardownClean ==
    ASSUME NEW s \in Sandbox, TypeOK, OnRecord(s),
           create[s] # "spawned", create[s] = "crashed" => s \in listed,
           \/ Kill(s)
           \/ Untap(s)
           \/ Killed(s) /\ Untapped(s) /\ (Rmdir(s) \/ RmdirFails(s))
    PROVE  /\ \A t \in Sandbox \ {s} :
                  host'[t] = host[t] /\ proc'[t] = proc[t] /\ mishap'[t] = mishap[t]
           /\ host'[s] \subseteq host[s]
           /\ proc'[s] \in Alive => proc[s] \in Alive /\ "pidfile" \in host'[s]
           /\ \A a : Excused(s, a) => Excused(s, a)'
           /\ "tap" \in host'[s] => "tapfile" \in host'[s] \/ Excused(s, "tap")'
           /\ Kill(s) => proc'[s] \notin Alive /\ "pidfile" \notin host'[s]
           /\ Untap(s) => "tap" \notin host'[s] \/ Excused(s, "tap")'
           /\ Killed(s) /\ Untapped(s) /\ (Rmdir(s) \/ RmdirFails(s)) => Explained(s)'
<1>1. mishap' = mishap \/ \E w \in LeakyFault \cup {"latelog"} : Note(s, w)
  BY DEF Kill, Untap, Rmdir, RmdirFails, hostVars, Befalls, LeakyFault
<1>2. /\ \A t \in Sandbox \ {s} : mishap'[t] = mishap[t]
      /\ \A a : Excused(s, a) => Excused(s, a)'
      /\ \A w, a : (Note(s, w) /\ w \in Cause(a)) => Excused(s, a)'
  BY <1>1, Excuses
<1>3. proc[s] \in Alive => "pidfile" \in host[s]
  BY DEF OnRecord
<1>4. Kill(s) => proc'[s] \notin Alive /\ "pidfile" \notin host'[s]
  BY <1>3 DEF Kill, Lose, hostVars, TypeOK, Alive
<1>5. Untap(s) => "tap" \notin host'[s] \/ Excused(s, "tap")'
  <2>1. "linkdel" \in Cause("tap")
    BY DEF Cause
  <2> QED
    BY <1>2, <2>1 DEF Untap, Befalls, Lose, TypeOK, OnRecord
<1>6. ASSUME Killed(s), Untapped(s), Rmdir(s) \/ RmdirFails(s) PROVE Explained(s)'
  <2>1. /\ proc'[s] = proc[s] /\ proc[s] \notin Alive /\ "pidfile" \notin host[s]
        /\ "tap" \notin host[s] \/ Excused(s, "tap")
    BY <1>6 DEF OnRecord, Rmdir, RmdirFails
  <2>2. host[s] \subseteq Artifact
    BY DEF TypeOK
  <2>3. CASE Rmdir(s)
    <3>1. host'[s] \subseteq {"tap"} \cap host[s]
      BY <2>2, <2>3 DEF Rmdir, Lose, TypeOK, Artifact
    <3> QED
      BY <1>2, <2>1, <3>1 DEF Explained
  <2>4. CASE RmdirFails(s)
    <3>1. host'[s] \subseteq host[s] /\ Note(s, "rmdir")
      BY <2>4 DEF RmdirFails, Befalls, Lose, TypeOK
    <3>2. \A a \in {"dir", "tapfile", "sock"} : "rmdir" \in Cause(a)
      BY DEF Cause
    <3>3. \A a \in host'[s] : a \in {"dir", "tapfile", "sock"} \/ a = "tap"
      BY <2>1, <2>2, <3>1 DEF Artifact
    <3> QED
      BY <1>2, <2>1, <3>1, <3>2, <3>3 DEF Explained
  <2> QED
    BY <1>6, <2>3, <2>4
<1>7. CASE Kill(s)
  <2>1. /\ \A t \in Sandbox \ {s} : host'[t] = host[t] /\ proc'[t] = proc[t]
        /\ host'[s] \subseteq host[s] /\ host[s] \subseteq host'[s] \cup {"pidfile"}
    BY <1>7 DEF Kill, Lose, hostVars, TypeOK
  <2> QED
    BY <1>2, <1>4, <1>5, <1>6, <1>7, <2>1 DEF OnRecord
<1>8. CASE Untap(s)
  <2>1. /\ \A t \in Sandbox \ {s} : host'[t] = host[t]
        /\ proc' = proc
        /\ host'[s] \subseteq host[s] /\ host[s] \subseteq host'[s] \cup {"tap", "tapfile"}
    BY <1>8 DEF Untap, Lose, TypeOK
  <2> QED
    BY <1>2, <1>3, <1>4, <1>5, <1>6, <1>8, <2>1
<1>9. CASE Killed(s) /\ Untapped(s) /\ (Rmdir(s) \/ RmdirFails(s))
  <2>1. /\ \A t \in Sandbox \ {s} : host'[t] = host[t]
        /\ proc' = proc
        /\ host'[s] \subseteq host[s]
    BY <1>9 DEF Rmdir, RmdirFails, Lose, TypeOK
  <2>2. proc[s] \notin Alive /\ ("tap" \notin host[s] \/ Excused(s, "tap"))
    BY <1>9 DEF OnRecord
  <2> QED
    BY <1>2, <1>4, <1>5, <1>6, <2>1, <2>2
<1> QED
  BY <1>7, <1>8, <1>9

\* Rollback of a Create preserves the invariant.
LEMMA RollbackClean ==
    ASSUME NEW s \in Sandbox, TypeOK, DeleteInv(s), CleanInv(s), Rollback(s)
    PROVE  CleanInv(s)' /\ \A t \in Sandbox \ {s} : Same(t)
<1>1. /\ \A t \in Sandbox \ {s} : create'[t] = create[t]
      /\ \/ create[s] = "kill" /\ create'[s] = "untap" /\ Kill(s)
         \/ create[s] = "untap" /\ create'[s] = "rmdir" /\ Untap(s)
         \/ create[s] = "rmdir" /\ create'[s] = "failed" /\ (Rmdir(s) \/ RmdirFails(s))
  BY DEF Rollback, At, TypeOK
<1>2. UNCHANGED <<status, listed, del, deleted>>
  BY DEF Rollback, dbVars, delVars
<1>3. create[s] = "rmdir" => Killed(s) /\ Untapped(s)
  BY DEF Killed, Untapped
<1>4. /\ \A t \in Sandbox \ {s} :
            host'[t] = host[t] /\ proc'[t] = proc[t] /\ mishap'[t] = mishap[t]
      /\ host'[s] \subseteq host[s]
      /\ proc'[s] \in Alive => proc[s] \in Alive /\ "pidfile" \in host'[s]
      /\ \A a : Excused(s, a) => Excused(s, a)'
      /\ "tap" \in host'[s] => "tapfile" \in host'[s] \/ Excused(s, "tap")'
      /\ Kill(s) => proc'[s] \notin Alive /\ "pidfile" \notin host'[s]
      /\ Untap(s) => "tap" \notin host'[s] \/ Excused(s, "tap")'
      /\ Killed(s) /\ Untapped(s) /\ (Rmdir(s) \/ RmdirFails(s)) => Explained(s)'
  BY <1>1, <1>3, TeardownClean DEF CleanInv
<1>5. Early(s)'
  BY <1>1 DEF Early
<1>6. OnRecord(s)'
  <2>1. Killed(s)' => Killed(s) \/ Kill(s)
    BY <1>1, <1>2 DEF Killed
  <2>2. Untapped(s)' => Untapped(s) \/ Untap(s)
    BY <1>1, <1>2 DEF Untapped
  <2> QED
    BY <1>4, <2>1, <2>2 DEF CleanInv, OnRecord
<1>7. Swept(s)'
  <2>1. Gone(s)' => Gone(s) \/ create'[s] = "failed"
    BY <1>1, <1>2 DEF Gone
  <2>2. create'[s] = "failed" => Explained(s)'
    BY <1>1, <1>3, <1>4
  <2>3. Explained(s) => Explained(s)'
    BY <1>4 DEF Explained
  <2> QED
    BY <1>1, <2>1, <2>2, <2>3 DEF CleanInv, Swept
<1> QED
  BY <1>1, <1>2, <1>4, <1>5, <1>6, <1>7 DEF Same, CleanInv

\* The host part of a DELETE preserves the invariant.
LEMMA DeleteOnHostClean ==
    ASSUME NEW s \in Sandbox, NEW d \in Deleter, TypeOK, DeleteInv(s), CleanInv(s),
           DeleteOnHost(s, d)
    PROVE  CleanInv(s)' /\ \A t \in Sandbox \ {s} : Same(t)
<1>1. /\ \A t \in Sandbox \ {s} : del'[t] = del[t]
      /\ \A e \in Deleter \ {d} : del'[s][e] = del[s][e]
      /\ \/ del[s][d] = "kill" /\ del'[s][d] = "untap" /\ Kill(s)
         \/ del[s][d] = "untap" /\ del'[s][d] = "rmdir" /\ Untap(s)
         \/ /\ del[s][d] = "rmdir" /\ del'[s][d] \in {"unregister", "idle"}
            /\ Rmdir(s) \/ RmdirFails(s)
  BY DEF DeleteOnHost, Stage, TypeOK
<1>2. UNCHANGED <<status, listed, create, deleted>>
  BY DEF DeleteOnHost, OffHost, dbVars, createVars
<1>3. s \in listed /\ create[s] \in Late
  BY <1>1 DEF DeleteInv, BeforeInsert
<1>4. del[s][d] = "rmdir" => Killed(s) /\ Untapped(s)
  BY DEF Killed, Untapped
<1>5. /\ \A t \in Sandbox \ {s} :
            host'[t] = host[t] /\ proc'[t] = proc[t] /\ mishap'[t] = mishap[t]
      /\ host'[s] \subseteq host[s]
      /\ proc'[s] \in Alive => proc[s] \in Alive /\ "pidfile" \in host'[s]
      /\ \A a : Excused(s, a) => Excused(s, a)'
      /\ "tap" \in host'[s] => "tapfile" \in host'[s] \/ Excused(s, "tap")'
      /\ Kill(s) => proc'[s] \notin Alive /\ "pidfile" \notin host'[s]
      /\ Untap(s) => "tap" \notin host'[s] \/ Excused(s, "tap")'
      /\ Killed(s) /\ Untapped(s) /\ (Rmdir(s) \/ RmdirFails(s)) => Explained(s)'
  BY <1>1, <1>3, <1>4, TeardownClean DEF CleanInv, Late, Teardown
<1>6. Early(s)'
  BY <1>2, <1>3 DEF Early, Late, Teardown
<1>7. OnRecord(s)'
  <2>1. Killed(s)' => Killed(s) \/ Kill(s)
    BY <1>1, <1>2 DEF Killed
  <2>2. Untapped(s)' => Untapped(s) \/ Untap(s)
    BY <1>1, <1>2 DEF Untapped
  <2> QED
    BY <1>5, <2>1, <2>2 DEF CleanInv, OnRecord
<1>8. Swept(s)'
  <2>1. Gone(s)' => Gone(s) \/ del'[s][d] = "unregister"
    BY <1>1, <1>2 DEF Gone
  <2>2. del'[s][d] = "unregister" => Explained(s)'
    BY <1>1, <1>4, <1>5
  <2>3. Explained(s) => Explained(s)'
    BY <1>5 DEF Explained
  <2> QED
    BY <1>2, <2>1, <2>2, <2>3 DEF CleanInv, Swept
<1> QED
  BY <1>1, <1>2, <1>5, <1>6, <1>7, <1>8 DEF Same, CleanInv

\* Every step preserves the invariant of each sandbox.
LEMMA CleanInvariant == Spec => [](\A s \in Sandbox : CleanInv(s))
<1> DEFINE Deletes == \A s \in Sandbox : DeleteInv(s)
           Inv == \A s \in Sandbox : CleanInv(s)
<1>1. Init => Inv /\ SessionsKnown
  <2> SUFFICES ASSUME Init, NEW s \in Sandbox PROVE CleanInv(s)
    BY DEF SessionsKnown, Init
  <2>1. /\ s \notin listed /\ create[s] = "idle" /\ host[s] = {} /\ proc[s] = "none"
    BY DEF Init
  <2>2. \A d \in Deleter : del[s][d] = "idle"
    BY DEF Init
  <2> QED
    BY <2>1, <2>2 DEF CleanInv, Early, OnRecord, Swept, Gone, Killed, Untapped, Alive
<1>2. TypeOK /\ Deletes /\ SessionsKnown /\ [Next]_vars => SessionsKnown'
  <2> SUFFICES ASSUME TypeOK, Deletes, SessionsKnown, [Next]_vars PROVE SessionsKnown'
    OBVIOUS
  <2>1. ASSUME NEW s \in Sandbox, SessionAnswer(s) PROVE SessionsKnown'
    BY <2>1 DEF SessionAnswer, SessionsKnown, DeleteInv, BeforeInsert, dbVars
  <2>2. \/ session' \subseteq session /\ listed \subseteq listed'
        \/ \E s \in Sandbox : SessionAnswer(s)
    BY DEF Next, vars, AllocateIP, CreateStep, PrepareInstance, CreateTap, Spawn, RecordPID,
       WaitForSocket, VMCreate, VMBoot, Request, EnableTap, WaitForAgent, Insert, Register,
       CreateError, Rollback, RefreshStep, RefreshStat, RefreshQuery, RefreshWrite,
       LogSessionEvent, OpenSocket, ProcExit, DeleteRequest,
       DeleteStep, DeleteOnHost, Unregister, DeleteDocument, RefreshStart, Restart, OnHost,
       OnlyCreate, OffHost, OnlyMonitor, OnlyProc, dbVars
  <2> QED
    BY <2>1, <2>2 DEF SessionsKnown
<1>3. TypeOK /\ Deletes /\ Inv /\ SessionsKnown /\ [Next]_vars => Inv'
  <2> SUFFICES ASSUME TypeOK, Deletes, Inv, SessionsKnown, [Next]_vars PROVE Inv'
    OBVIOUS
  <2>1. ASSUME NEW s \in Sandbox, CleanInv(s)', \A t \in Sandbox \ {s} : Same(t) PROVE Inv'
    BY <2>1, SameCleanInv
  <2>2. ASSUME NEW s \in Sandbox, AllocateIP(s) \/ CreateStep(s) PROVE Inv'
    <3>0. /\ s \notin listed => \A d \in Deleter : del[s][d] = "idle"
          /\ s \in listed => create[s] \in Late
          /\ Early(s) /\ OnRecord(s) /\ Swept(s)
      BY DEF DeleteInv, BeforeInsert, CleanInv
    <3> DEFINE Host == UNCHANGED <<host, mishap, del>>
               Frame == \A t \in Sandbox \ {s} : Same(t)
    <3>1. CASE AllocateIP(s)
      <4>1. /\ Frame /\ Host /\ UNCHANGED <<proc, listed, status>>
            /\ create[s] = "idle" /\ create'[s] = "allocated"
        BY <3>1 DEF AllocateIP, At, TypeOK, hostVars, dbVars, delVars, Same
      <4>2. CleanInv(s)'
        BY <3>0, <4>1 DEF CleanInv, Late, Teardown, Early, OnRecord, Swept, Gone, Explained,
           Killed, Untapped, Excused
      <4> QED
        BY <4>1, <4>2, <2>1
    <3>2. CASE PrepareInstance(s) \/ CreateTap(s) \/ RecordPID(s) \/ Spawn(s)
      <4>1. /\ create[s] \in {"allocated", "prepared", "tapped", "spawned"} /\ s \notin listed
            /\ UNCHANGED <<listed, status, del, deleted>>
            /\ \A t \in Sandbox \ {s} :
                  create'[t] = create[t] /\ host'[t] = host[t] /\ proc'[t] = proc[t]
        BY <3>0, <3>2 DEF PrepareInstance, CreateTap, RecordPID, Spawn, At, Gain, OnHost,
           dbVars, delVars, TypeOK, Late, Teardown
      <4>2. /\ \A t \in Sandbox \ {s} : mishap'[t] = mishap[t]
            /\ \A a : Excused(s, a) => Excused(s, a)'
            /\ CreateTap(s) => "tapfile" \in host'[s] \/ Excused(s, "tap")'
            /\ (CreateTap(s) \/ Spawn(s) \/ RecordPID(s)) /\ create'[s] = "rmdir"
                  => Excused(s, "tap")'
            /\ PrepareInstance(s) /\ create'[s] = "failed" => Excused(s, "dir")'
        BY <3>2, MishapSteps
      <4>3. Frame
        BY <4>1, <4>2 DEF Same
      <4>4. \A d \in Deleter : del'[s][d] = "idle"
        BY <3>0, <4>1
      <4>5. CASE PrepareInstance(s)
        <5>1. /\ create[s] = "allocated" /\ create'[s] \in {"prepared", "failed"}
              /\ host'[s] = {"dir"} /\ proc'[s] = "none"
          BY <3>0, <4>5 DEF PrepareInstance, At, Gain, TypeOK, Early
        <5>2. Early(s)' /\ OnRecord(s)'
          BY <4>4, <5>1 DEF Early, OnRecord, Killed, Untapped, Alive
        <5>3. Swept(s)'
          BY <4>1, <4>2, <4>4, <4>5, <5>1 DEF Swept, Explained, Gone, Alive
        <5> QED
          BY <4>3, <5>2, <5>3, <2>1 DEF CleanInv
      <4>6. CASE CreateTap(s)
        <5>1. /\ create[s] = "prepared" /\ create'[s] \in {"tapped", "rmdir"}
              /\ host'[s] \subseteq {"dir", "tap", "tapfile"} /\ proc'[s] = "none"
          BY <3>0, <4>6 DEF CreateTap, At, Gain, TypeOK, Early
        <5>2. Early(s)' /\ Swept(s)'
          BY <4>1, <4>4, <5>1 DEF Early, Swept, Gone
        <5>3. OnRecord(s)'
          BY <4>2, <4>4, <4>6, <5>1 DEF OnRecord, Killed, Untapped, Alive
        <5> QED
          BY <4>3, <5>2, <5>3, <2>1 DEF CleanInv
      <4>7. CASE Spawn(s)
        <5>1. /\ create[s] = "tapped" /\ host' = host /\ "pidfile" \notin host[s]
              /\ \/ create'[s] = "spawned"
                 \/ create'[s] = "rmdir" /\ proc'[s] = "none"
          BY <3>0, <4>7 DEF Spawn, At, TypeOK, Early
        <5>2. Early(s)' /\ Swept(s)'
          BY <4>1, <4>4, <5>1 DEF Early, Swept, Gone
        <5>3. OnRecord(s)'
          BY <3>0, <4>2, <4>4, <4>7, <5>1 DEF OnRecord, Killed, Untapped, Alive
        <5> QED
          BY <4>3, <5>2, <5>3, <2>1 DEF CleanInv
      <4>8. CASE RecordPID(s)
        <5>1. /\ create[s] = "spawned"
              /\ \/ create'[s] = "recorded" /\ host'[s] = host[s] \cup {"pidfile"}
                 \/ create'[s] = "rmdir" /\ host' = host /\ proc'[s] \notin Alive
          BY <4>8 DEF RecordPID, At, Gain, TypeOK, Alive
        <5>2. Early(s)' /\ Swept(s)'
          BY <4>1, <4>4, <5>1 DEF Early, Swept, Gone
        <5>3. OnRecord(s)'
          BY <3>0, <4>2, <4>4, <4>8, <5>1 DEF OnRecord, Early, Killed, Untapped
        <5> QED
          BY <4>3, <5>2, <5>3, <2>1 DEF CleanInv
      <4> QED
        BY <3>2, <4>3, <4>5, <4>6, <4>7, <4>8, <2>1
    <3>3. CASE WaitForSocket(s) \/ EnableTap(s) \/ WaitForAgent(s) \/ VMCreate(s) \/ VMBoot(s)
      <4>1. /\ Frame /\ Host /\ UNCHANGED <<listed, status>>
            /\ proc'[s] \in Alive => proc'[s] = proc[s] \/ proc[s] \in Alive
            /\ create[s] \in {"recorded", "socket", "created", "booted", "attached"}
            /\ create'[s] \in {"socket", "created", "booted", "attached", "ready"}
        BY <3>3 DEF WaitForSocket, EnableTap, WaitForAgent, VMCreate, VMBoot, Request, At, TypeOK,
           OnHost, OnlyCreate, hostVars, dbVars, delVars, Same, Alive
      <4>2. s \notin listed
        BY <3>0, <4>1 DEF Late, Teardown
      <4>3. Early(s)' /\ Swept(s)'
        BY <3>0, <4>1, <4>2 DEF Early, Swept, Gone
      <4>4. OnRecord(s)'
        BY <3>0, <4>1, <4>2 DEF OnRecord, Killed, Untapped, Excused
      <4> QED
        BY <4>1, <4>3, <4>4, <2>1 DEF CleanInv
    <3>4. CASE Insert(s) \/ Register(s)
      <4>1. /\ Frame /\ Host /\ UNCHANGED proc
            /\ \/ /\ create[s] = "ready" /\ create'[s] \in {"saved", "kill"}
                  /\ s \in listed' /\ status'[s] = "running"
               \/ /\ create[s] = "saved" /\ create'[s] = "done"
                  /\ UNCHANGED <<listed, status>>
        BY <3>4 DEF Insert, Register, At, TypeOK, hostVars, dbVars, delVars, Same
      <4>2. Early(s)'
        BY <4>1 DEF Early
      <4>3. OnRecord(s)'
        BY <3>0, <4>1 DEF OnRecord, Killed, Untapped, Excused
      <4>4. create[s] = "ready" => \A d \in Deleter : del[s][d] = "idle"
        BY <3>0 DEF Late, Teardown
      <4>5. Swept(s)'
        BY <3>0, <4>1, <4>4 DEF Swept, Gone, Explained, Excused
      <4> QED
        BY <4>1, <4>2, <4>3, <4>5, <2>1 DEF CleanInv
    <3>5. CASE CreateError(s)
      <4>1. /\ Frame /\ Host /\ UNCHANGED <<proc, listed, status>>
            /\ \/ create[s] = "allocated" /\ create'[s] = "failed"
               \/ create[s] = "prepared" /\ create'[s] = "rmdir"
               \/ /\ create[s] \in {"recorded", "socket", "created", "booted", "attached", "ready"}
                  /\ create'[s] = "kill"
        BY <3>5 DEF CreateError, ErrorPath, At, TypeOK, OnlyCreate, hostVars, dbVars, delVars, Same
      <4>2. s \notin listed /\ \A d \in Deleter : del[s][d] = "idle"
        BY <3>0, <4>1 DEF Late, Teardown
      <4>3. Early(s)'
        BY <4>1 DEF Early
      <4>4. OnRecord(s)'
        BY <3>0, <4>1, <4>2 DEF OnRecord, Early, Killed, Untapped, Excused, Alive
      <4>5. Swept(s)'
        BY <3>0, <4>1, <4>2 DEF Swept, Early, Gone, Explained, Alive
      <4> QED
        BY <4>1, <4>3, <4>4, <4>5, <2>1 DEF CleanInv
    <3>6. CASE Rollback(s)
      BY <3>6, <2>1, RollbackClean
    <3> QED
      BY <2>2, <3>1, <3>2, <3>3, <3>4, <3>5, <3>6 DEF CreateStep
  <2>3. ASSUME NEW s \in Sandbox, RefreshStep(s) PROVE Inv'
    <3>1. /\ \A t \in Sandbox \ {s} : Same(t)
          /\ UNCHANGED <<create, host, proc, mishap, listed, del, deleted>>
          /\ status'[s] = "absent" <=> status[s] = "absent"
      BY <2>3 DEF RefreshStep, RefreshStat, RefreshQuery, RefreshWrite, OnlyMonitor, TypeOK,
           createVars, hostVars, delVars, Same, DBStatus
    <3>2. CleanInv(s)'
      BY <3>1 DEF CleanInv, Early, OnRecord, Swept, Gone, Explained, Killed, Untapped, Excused
    <3> QED
      BY <3>1, <3>2, <2>1
  <2>4. ASSUME NEW s \in Sandbox,
               SessionAnswer(s) \/ LogSessionEvent(s) \/ OpenSocket(s) \/ ProcExit(s)
        PROVE  Inv'
    <3>0. Early(s) /\ OnRecord(s) /\ Swept(s)
      BY DEF CleanInv
    <3>1. CASE SessionAnswer(s)
      <4>1. \A t \in Sandbox : Same(t)
        BY <3>1 DEF SessionAnswer, Same, createVars, hostVars, dbVars, delVars
      <4> QED
        BY <4>1, SameCleanInv
    <3>2. CASE LogSessionEvent(s)
      <4>1. /\ s \in listed /\ create[s] \in Late
            /\ UNCHANGED <<create, proc, status, listed, del, deleted>>
            /\ host'[s] = host[s] \cup {"dir"}
            /\ \A t \in Sandbox \ {s} : host'[t] = host[t]
        BY <3>2 DEF LogSessionEvent, SessionsKnown, DeleteInv, BeforeInsert, Gain, TypeOK,
           createVars, dbVars, delVars
      <4>2. /\ \A t \in Sandbox \ {s} : mishap'[t] = mishap[t]
            /\ \A a : Excused(s, a) => Excused(s, a)'
            /\ "dir" \in host[s] \/ Excused(s, "dir")'
        BY <3>2, MishapSteps
      <4>3. \A t \in Sandbox \ {s} : Same(t)
        BY <4>1, <4>2 DEF Same
      <4>4. Early(s)'
        BY <4>1 DEF Early, Late, Teardown
      <4>5. OnRecord(s)'
        BY <3>0, <4>1, <4>2 DEF OnRecord, Killed, Untapped
      <4>6. Swept(s)'
        BY <3>0, <4>1, <4>2 DEF Swept, Gone, Explained
      <4> QED
        BY <4>3, <4>4, <4>5, <4>6, <2>1 DEF CleanInv
    <3>3. CASE OpenSocket(s) \/ ProcExit(s)
      <4>1. /\ UNCHANGED <<create, status, listed, del, deleted, mishap>>
            /\ \A t \in Sandbox \ {s} : host'[t] = host[t] /\ proc'[t] = proc[t]
            /\ proc[s] # "none"
            /\ proc'[s] \in Alive => proc[s] = "starting"
            /\ \/ host'[s] \subseteq host[s] /\ host[s] \subseteq host'[s] \cup {"sock"}
               \/ /\ host'[s] = host[s] \cup {"sock"}
                  /\ proc[s] \in Alive /\ proc'[s] = proc[s]
        BY <3>3 DEF OpenSocket, ProcExit, OnlyProc, Gain, Lose, TypeOK, createVars,
           dbVars, delVars, Alive
      <4>2. \A t \in Sandbox \ {s} : Same(t)
        BY <4>1 DEF Same
      <4>3. Early(s)'
        BY <3>0, <4>1 DEF Early
      <4>4. OnRecord(s)'
        BY <3>0, <4>1 DEF OnRecord, Killed, Untapped, Excused, Alive
      <4>5. Swept(s)'
        BY <3>0, <4>1 DEF Swept, Gone, Explained, Excused, Alive
      <4> QED
        BY <4>2, <4>3, <4>4, <4>5, <2>1 DEF CleanInv
    <3> QED
      BY <2>4, <3>1, <3>2, <3>3
  <2>5. ASSUME NEW s \in Sandbox, NEW d \in Deleter, DeleteRequest(s, d) \/ DeleteStep(s, d)
        PROVE  Inv'
    <3>1. CASE DeleteRequest(s, d) \/ Unregister(s, d) \/ DeleteDocument(s, d)
      <4>1. /\ UNCHANGED <<create, host, proc, mishap, listed>>
            /\ \A t \in Sandbox \ {s} : Same(t)
            /\ \A e \in Deleter \ {d} : del'[s][e] = del[s][e]
            /\ \/ del'[s][d] = "kill" /\ status'[s] = status[s]
               \/ del'[s][d] = "dbdelete" /\ del[s][d] = "unregister" /\ status'[s] = status[s]
               \/ del'[s][d] = "idle" /\ del[s][d] = "dbdelete"
        BY <3>1 DEF DeleteRequest, Unregister, DeleteDocument, Stage, TypeOK, OffHost, createVars,
           hostVars, dbVars, Same
      <4>2. /\ Killed(s)' => Killed(s)
            /\ Untapped(s)' => Untapped(s)
            /\ Gone(s)' => Gone(s)
        BY <4>1 DEF Killed, Untapped, Gone
      <4>3. CleanInv(s)'
        BY <4>1, <4>2 DEF CleanInv, Early, OnRecord, Swept, Explained, Excused
      <4> QED
        BY <4>1, <4>3, <2>1
    <3>2. CASE DeleteOnHost(s, d)
      BY <3>2, <2>1, DeleteOnHostClean
    <3> QED
      BY <2>5, <3>1, <3>2 DEF DeleteStep
  <2>6. CASE RefreshStart
    <3>1. \A s \in Sandbox : Same(s)
      BY <2>6 DEF RefreshStart, OnlyMonitor, createVars, hostVars, delVars, Same
    <3> QED
      BY <3>1, SameCleanInv
  <2>7. CASE Restart
    <3> SUFFICES ASSUME NEW s \in Sandbox PROVE CleanInv(s)'
      OBVIOUS
    <3>1. /\ UNCHANGED <<host, mishap, status, listed>>
          /\ create'[s] = IF create[s] \in Finished THEN create[s] ELSE "crashed"
          /\ \A d \in Deleter : del'[s][d] = "idle"
          /\ proc'[s] \in Alive <=> proc[s] \in Alive
          /\ proc[s] = "none" => proc'[s] = "none"
      BY <2>7 DEF Restart, hostVars, dbVars, TypeOK, Alive
    <3>2. s \in listed => create[s] \in Late
      BY DEF DeleteInv, BeforeInsert
    <3>3. Early(s) /\ OnRecord(s) /\ Swept(s)
      BY DEF CleanInv
    <3>4. Early(s)'
      BY <3>1, <3>3 DEF Early, Finished
    <3>5. Swept(s)'
      BY <3>1, <3>3 DEF Swept, Gone, Explained, Excused, Finished
    <3>6. OnRecord(s)'
      BY <3>1, <3>2, <3>3 DEF OnRecord, Finished, Late, Teardown, Killed, Untapped, Excused
    <3> QED
      BY <3>4, <3>5, <3>6 DEF CleanInv
  <2>8. CASE UNCHANGED vars
    BY <2>8, SameCleanInv DEF vars, createVars, hostVars, dbVars, delVars, Same
  <2> QED
    BY <2>2, <2>3, <2>4, <2>5, <2>6, <2>7, <2>8 DEF Next
<1> QED
  BY <1>1, <1>2, <1>3, TypeCorrect, DeleteInvariant, PTL DEF Spec

\* A Create that failed, at whatever step, and a DELETE that got as far as the
\* document leave no process, and on the host no more than a mishap of that
\* sandbox explains, whatever ran at the same time, whatever failed and however
\* often the server was restarted.
THEOREM NothingLeft == Spec => []NothingLeftBehind
<1> DEFINE Inv == \A s \in Sandbox : CleanInv(s)
<1>1. TypeOK /\ Inv => NothingLeftBehind
  <2> SUFFICES ASSUME TypeOK, Inv, NEW s \in Sandbox, Settled(s),
                      create[s] = "crashed" => s \in listed, status[s] = "absent"
               PROVE  Explained(s)
    BY DEF NothingLeftBehind, Explained
  <2>1. Early(s) /\ Swept(s)
    BY DEF CleanInv
  <2>2. CASE create[s] = "idle"
    BY <2>1, <2>2 DEF Early, Explained, Alive
  <2>3. CASE create[s] # "idle"
    BY <2>1, <2>3 DEF Settled, Finished, Swept, Gone
  <2> QED
    BY <2>2, <2>3
<1> QED
  BY <1>1, TypeCorrect, CleanInvariant, PTL

=============================================================================
