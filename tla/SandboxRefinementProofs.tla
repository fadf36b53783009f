------------------------ MODULE SandboxRefinementProofs ------------------------
(***************************************************************************)
(* The proof that SandboxLifecycle implements SandboxContract.             *)
(***************************************************************************)
EXTENDS SandboxRefinement, SandboxLifecycleProofs

\* A hypervisor is spawned once for each id, and before the document is stored.
Before == {"idle", "allocated", "prepared", "tapped"}
Between == {"spawned", "recorded", "socket", "created", "booted", "attached", "ready"}

SpawnInv(s) ==
    /\ create[s] \in Before => proc[s] = "none"
    /\ create[s] \in Between => proc[s] # "none"
    /\ s \in listed => proc[s] # "none"

\* What a single call does to the process of a sandbox: nothing, a step of its
\* life, or its end.
Lives(s) ==
    \/ proc[s] \in Alive /\ proc'[s] \in Alive
    \/ proc[s] \in Alive /\ proc'[s] \in ProcState \ (Alive \cup {"none"})
    \/ proc[s] \notin Alive \cup {"none"} /\ proc'[s] \in ProcState \ (Alive \cup {"none"})
    \/ proc'[s] = proc[s]

Others(s) == \A t \in Sandbox \ {s} : create'[t] = create[t] /\ proc'[t] = proc[t]

\* Create is on the same side of Spawn and of Insert as before, or leaves.
Stays(s) ==
    /\ create'[s] \in Before => create[s] \in Before
    /\ create'[s] \in Between => create[s] \in Between

\* Every step but Spawn and those on the database leaves alone what clients are
\* told, and is a step in the life of one process.
Private(s) == UNCHANGED <<status, listed, deleted>> /\ Others(s) /\ Lives(s) /\ Stays(s)

\* Kill, on the way of a rollback or of a DELETE, ends a process or none.
LEMMA KillLives ==
    ASSUME NEW s \in Sandbox, TypeOK, Kill(s) \/ Untap(s) \/ Rmdir(s) \/ RmdirFails(s)
    PROVE  Lives(s) /\ \A t \in Sandbox \ {s} : proc'[t] = proc[t]
BY DEF TypeOK, Kill, Untap, Rmdir, RmdirFails, hostVars, Lives, Alive, ProcState

\* A private step is the end of the VM in the contract, or nothing.
LEMMA PrivateStep ==
    ASSUME NEW s \in Sandbox, TypeOK, Private(s)
    PROVE  [Contract!Next]_(Contract!vars)
<1> USE DEF Private, Others, Lives, Alive
<1>1. Said' = Said /\ deleted' = deleted
  BY DEF Said
<1>2. CASE proc[s] \in Alive /\ proc'[s] \notin Alive
  <2>1. VM[s] = "on" /\ VM' = [VM EXCEPT ![s] = "off"]
    BY <1>2 DEF VM
  <2> QED
    BY <1>1, <2>1 DEF Contract!Next, Contract!End
<1>3. CASE ~(proc[s] \in Alive /\ proc'[s] \notin Alive)
  <2>1. VM' = VM
    BY <1>3 DEF VM
  <2> QED
    BY <1>1, <2>1 DEF Contract!vars
<1> QED
  BY <1>2, <1>3

\* The one step that makes a process.
Started(s) == Spawn(s) /\ create'[s] = "spawned"

\* The steps of Create that clients see nothing of, a spawn that failed included.
LEMMA CreatePrivate ==
    ASSUME NEW s \in Sandbox, TypeOK, AllocateIP(s) \/ CreateStep(s)
    PROVE  Started(s) \/ Insert(s) \/ Private(s)
<1> USE DEF At, OnHost, OnlyCreate, TypeOK, hostVars, dbVars, delVars, Private, Others, Stays,
            Before, Between
<1>1. CASE \/ AllocateIP(s) \/ PrepareInstance(s) \/ CreateTap(s)
           \/ WaitForSocket(s) \/ EnableTap(s) \/ WaitForAgent(s) \/ Register(s) \/ CreateError(s)
  BY <1>1 DEF AllocateIP, PrepareInstance, CreateTap, WaitForSocket, EnableTap, WaitForAgent,
     Register, CreateError, ErrorPath, Lives
<1>2. CASE RecordPID(s) \/ VMCreate(s) \/ VMBoot(s)
  BY <1>2 DEF RecordPID, VMCreate, VMBoot, Request, Lives, Alive, ProcState
<1>3. CASE Rollback(s)
  BY <1>3, KillLives, ZenonT(40) DEF Rollback
<1>4. CASE Spawn(s)
  BY <1>4 DEF Spawn, Started, Lives
<1> QED
  BY <1>1, <1>2, <1>3, <1>4 DEF CreateStep

\* The steps of a DELETE before the document.
LEMMA DeletePrivate ==
    ASSUME NEW s \in Sandbox, NEW d \in Deleter, TypeOK, DeleteRequest(s, d) \/ DeleteStep(s, d)
    PROVE  DeleteDocument(s, d) \/ Private(s)
<1> USE DEF OffHost, createVars, hostVars, dbVars, Private, Others, Stays
<1>1. CASE DeleteRequest(s, d) \/ Unregister(s, d)
  BY <1>1 DEF DeleteRequest, Unregister, Lives
<1>2. CASE DeleteOnHost(s, d)
  BY <1>2, KillLives DEF DeleteOnHost
<1>3. CASE DeleteDocument(s, d)
  BY <1>3 DEF DeleteDocument
<1> QED
  BY <1>1, <1>2, <1>3 DEF DeleteStep

\* Steps of the process, and of a session's log.
LEMMA ProcessPrivate ==
    ASSUME NEW s \in Sandbox, TypeOK,
           SessionAnswer(s) \/ LogSessionEvent(s) \/ OpenSocket(s) \/ ProcExit(s)
    PROVE  Private(s)
BY DEF SessionAnswer, LogSessionEvent, OpenSocket, ProcExit, OnlyProc, TypeOK,
   createVars, hostVars, dbVars, delVars, Private, Others, Lives, Stays, Alive, ProcState

\* A restart of the server ends no process.
LEMMA RestartPrivate ==
    ASSUME TypeOK, Restart
    PROVE  /\ UNCHANGED <<status, listed, deleted>>
           /\ proc' = proc
           /\ \A s \in Sandbox : /\ create'[s] \in Finished
                                 /\ create'[s] = "idle" => create[s] = "idle"
BY DEF Restart, hostVars, dbVars, Finished

\* A private step keeps the invariant.
LEMMA PrivateSpawnInv ==
    ASSUME NEW s \in Sandbox, \A t \in Sandbox : SpawnInv(t), Private(s)
    PROVE  \A t \in Sandbox : SpawnInv(t)'
BY DEF Private, Others, Lives, Stays, SpawnInv, Alive

\* The database calls leave processes and Creates alone.
LEMMA DatabaseStep ==
    ASSUME NEW s \in Sandbox, TypeOK,
           RefreshStep(s) \/ RefreshStart \/ \E d \in Deleter : DeleteDocument(s, d)
    PROVE  UNCHANGED <<create, proc, listed>>
BY DEF RefreshStep, RefreshStat, RefreshQuery, RefreshWrite, RefreshStart, DeleteDocument,
   OnlyMonitor, createVars, hostVars

\* A sandbox had a process exactly from its start on, in every state.
LEMMA SpawnInvariant == Spec => [](\A s \in Sandbox : SpawnInv(s))
<1> DEFINE Deletes == \A s \in Sandbox : DeleteInv(s)
           Inv == \A s \in Sandbox : SpawnInv(s)
<1>1. Init => Inv
  BY DEF Init, SpawnInv, Between
<1>2. TypeOK /\ Deletes /\ Inv /\ [Next]_vars => Inv'
  <2> SUFFICES ASSUME TypeOK, Deletes, Inv, [Next]_vars PROVE Inv'
    OBVIOUS
  <2>1. ASSUME NEW s \in Sandbox, AllocateIP(s) \/ CreateStep(s) PROVE Inv'
    <3>1. CASE Started(s)
      <4>1. s \notin listed
        BY <3>1 DEF Started, Spawn, At, SpawnInv, Before
      <4> QED
        BY <3>1, <4>1 DEF Started, Spawn, At, OnHost, dbVars, TypeOK, SpawnInv, Before
    <3>2. CASE Insert(s)
      <4>1. proc[s] # "none"
        BY <3>2 DEF Insert, At, SpawnInv, Between
      <4>2. UNCHANGED proc /\ \A t \in Sandbox \ {s} : create'[t] = create[t]
        BY <3>2 DEF Insert, At, hostVars, TypeOK
      <4>3. create'[s] \notin Before \cup Between /\ listed' = listed \cup {s}
        BY <3>2 DEF Insert, At, TypeOK, Before, Between
      <4> QED
        BY <4>1, <4>2, <4>3 DEF SpawnInv
    <3> QED
      BY <2>1, <3>1, <3>2, CreatePrivate, PrivateSpawnInv
  <2>2. ASSUME NEW s \in Sandbox,
               SessionAnswer(s) \/ LogSessionEvent(s) \/ OpenSocket(s) \/ ProcExit(s)
        PROVE  Inv'
    BY <2>2, ProcessPrivate, PrivateSpawnInv
  <2>3. ASSUME NEW s \in Sandbox, NEW d \in Deleter, DeleteRequest(s, d) \/ DeleteStep(s, d)
        PROVE  Inv'
    BY <2>3, DeletePrivate, PrivateSpawnInv, DatabaseStep DEF SpawnInv
  <2>4. ASSUME NEW s \in Sandbox, RefreshStep(s) PROVE Inv'
    BY <2>4, DatabaseStep DEF SpawnInv
  <2>5. CASE RefreshStart
    BY <2>5 DEF RefreshStart, OnlyMonitor, createVars, hostVars, SpawnInv
  <2>6. CASE Restart
    BY <2>6, RestartPrivate DEF SpawnInv, Before, Between, Finished
  <2>7. CASE UNCHANGED vars
    BY <2>7 DEF vars, createVars, hostVars, dbVars, SpawnInv
  <2> QED
    BY <2>1, <2>2, <2>3, <2>4, <2>5, <2>6, <2>7 DEF Next
<1> QED
  BY <1>1, <1>2, TypeCorrect, DeleteInvariant, PTL DEF Spec

\* Whatever is interleaved, fails or is restarted, SandboxLifecycle takes only
\* steps that SandboxContract allows: a sandbox is known once and with a VM that
\* was started, and a DELETE takes it away only when the VM is off.
THEOREM Implements == Spec => ContractKept
<1> DEFINE Inv == (\A s \in Sandbox : DeleteInv(s)) /\ (\A s \in Sandbox : SpawnInv(s))
<1>1. Init => Contract!Init
  BY DEF Init, Contract!Init, Said, VM
<1>2. TypeOK /\ Inv /\ [Next]_vars => [Contract!Next]_(Contract!vars)
  <2> SUFFICES ASSUME TypeOK, Inv, [Next]_vars PROVE [Contract!Next]_(Contract!vars)
    OBVIOUS
  <2>1. ASSUME NEW s \in Sandbox, AllocateIP(s) \/ CreateStep(s)
        PROVE  [Contract!Next]_(Contract!vars)
    <3>1. CASE Started(s)
      <4>1. Said[s] = "unknown" /\ VM[s] = "none"
        BY <3>1 DEF Started, Spawn, At, SpawnInv, Before, Said, VM
      <4>2. Said' = Said /\ deleted' = deleted
        BY <3>1 DEF Started, Spawn, OnHost, dbVars, delVars, Said
      <4>3. VM' = [VM EXCEPT ![s] = "on"]
        BY <3>1 DEF Started, Spawn, At, TypeOK, VM, Alive
      <4> QED
        BY <4>1, <4>2, <4>3 DEF Contract!Next, Contract!Start
    <3>2. CASE Insert(s)
      <4>1. Said[s] = "unknown" /\ VM[s] # "none"
        BY <3>2 DEF Insert, At, SpawnInv, Between, DeleteInv, BeforeInsert, Late, Teardown, Said, VM
      <4>2. VM' = VM /\ deleted' = deleted
        BY <3>2 DEF Insert, hostVars, delVars, VM
      <4>3. Said' = [Said EXCEPT ![s] = "running"]
        BY <3>2 DEF Insert, TypeOK, Said
      <4> QED
        BY <4>1, <4>2, <4>3 DEF Contract!Next, Contract!Announce
    <3> QED
      BY <2>1, <3>1, <3>2, CreatePrivate, PrivateStep
  <2>2. ASSUME NEW s \in Sandbox,
               SessionAnswer(s) \/ LogSessionEvent(s) \/ OpenSocket(s) \/ ProcExit(s)
        PROVE  [Contract!Next]_(Contract!vars)
    BY <2>2, ProcessPrivate, PrivateStep
  <2>3. ASSUME NEW s \in Sandbox, NEW d \in Deleter, DeleteRequest(s, d) \/ DeleteStep(s, d)
        PROVE  [Contract!Next]_(Contract!vars)
    <3>1. CASE DeleteDocument(s, d)
      <4>1. s \in listed /\ proc[s] \notin Alive /\ proc[s] # "none"
        BY <3>1 DEF DeleteDocument, Stage, DeleteInv, BeforeInsert, AfterInsert, Killed, SpawnInv
      <4>2. VM' = VM /\ listed' = listed
        BY <3>1 DEF DeleteDocument, hostVars, VM
      <4>3. CASE status' = [status EXCEPT ![s] = "absent"]
        <5>1. Said' = [Said EXCEPT ![s] = "gone"]
          BY <4>1, <4>2, <4>3 DEF TypeOK, Said
        <5>2. deleted' = deleted \/ deleted' = deleted \cup {s}
          BY <3>1 DEF DeleteDocument
        <5>3. Said[s] # "unknown" /\ VM[s] = "off"
          BY <4>1 DEF TypeOK, DBStatus, Said, VM
        <5> QED
          BY <4>2, <5>1, <5>2, <5>3 DEF Contract!Next, Contract!Delete
      <4>4. CASE UNCHANGED <<status, deleted>>
        BY <4>2, <4>4 DEF Said, Contract!vars
      <4> QED
        BY <3>1, <4>3, <4>4 DEF DeleteDocument
    <3> QED
      BY <2>3, <3>1, DeletePrivate, PrivateStep
  <2>4. ASSUME NEW s \in Sandbox, RefreshStep(s) PROVE [Contract!Next]_(Contract!vars)
    <3>1. VM' = VM /\ deleted' = deleted /\ listed' = listed
      BY <2>4, DatabaseStep DEF RefreshStep, RefreshStat, RefreshQuery, RefreshWrite,
         OnlyMonitor, delVars, VM
    <3>2. CASE UNCHANGED status
      BY <3>1, <3>2 DEF Said, Contract!vars
    <3>3. CASE /\ RefreshWrite(s) /\ worker[s] \in DBStatus /\ status[s] # "absent"
               /\ status' = [status EXCEPT ![s] = worker[s]]
      <4>1. s \in listed
        BY <3>3 DEF DeleteInv, BeforeInsert
      <4>2. Said[s] \in DBStatus
        BY <3>3, <4>1 DEF TypeOK, Said
      <4>3. Said' = [Said EXCEPT ![s] = worker[s]]
        BY <3>1, <3>3, <4>1 DEF TypeOK, DBStatus, Said
      <4> QED
        BY <3>1, <3>3, <4>2, <4>3 DEF Contract!Next, Contract!Report
    <3> QED
      BY <2>4, <3>2, <3>3 DEF RefreshStep, RefreshStat, RefreshQuery, RefreshWrite
  <2>5. ASSUME UNCHANGED <<status, listed, deleted>>, \/ UNCHANGED proc
                                                     \/ Restart
        PROVE  UNCHANGED Contract!vars
    BY <2>5, RestartPrivate DEF Said, VM, Alive, Contract!vars
  <2>6. CASE RefreshStart
    BY <2>5, <2>6 DEF RefreshStart, OnlyMonitor, hostVars, delVars
  <2>7. CASE Restart
    BY <2>5, <2>7, RestartPrivate
  <2>8. CASE UNCHANGED vars
    BY <2>5, <2>8 DEF vars, hostVars, dbVars, delVars
  <2> QED
    BY <2>1, <2>2, <2>3, <2>4, <2>6, <2>7, <2>8 DEF Next
<1> QED
  BY <1>1, <1>2, TypeCorrect, DeleteInvariant, SpawnInvariant, PTL
     DEF Spec, ContractKept, Contract!Spec
=============================================================================
