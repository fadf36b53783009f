------------------------------ MODULE Snapshots -------------------------------
(***************************************************************************)
(* The snapshots of one sandbox as SandboxService offers them: snapshot,   *)
(* pause, resume, restore and delete, called in any order and at the same  *)
(* time.  CreateSnapshot pauses the VM, has the hypervisor write its       *)
(* memory to snapshot_temp, resumes the VM, answers, and leaves the copy   *)
(* of the disk and the move of the memory to a goroutine.  Restore copies  *)
(* a snapshot to the directory of a new sandbox and starts it.             *)
(*                                                                         *)
(* What the guest has written is a number, its version: the disk and the   *)
(* memory of one moment have the same.  DELETE walks the instance directory *)
(* while all this goes on; what it does besides is in SandboxLifecycle.    *)
(***************************************************************************)
EXTENDS Integers, FiniteSets

CONSTANTS
    Request,   \* calls of CreateSnapshot
    MaxTime,   \* bound: seconds that pass
    MaxWrite,  \* bound: writes of the guest
    MaxCalls,  \* bound: of calls of CreateSnapshot, a Restore and DELETE, how many
    Fault      \* which failures of the environment happen

\* "mkdir": the directory of the snapshot cannot be made; "pause", "resume": the
\* call of the hypervisor fails, or takes effect and its answer is lost; "dump",
\* "copy", "start", "insert": the call fails; "crash": the server is restarted.
ASSUME SnapshotsAssumption ==
    /\ MaxTime \in Nat /\ MaxWrite \in Nat /\ MaxCalls \in Nat
    /\ Fault \subseteq {"pause", "mkdir", "dump", "resume", "copy", "start", "insert", "crash"}

VARIABLES
    vm,       \* state of the VM; "Off" when no hypervisor answers at vm.sock
    version,  \* writes of the guest so far
    files,    \* which of overlay.qcow2 and vm.sock the instance directory has
    snaps,    \* for each second, the snapshot directory named after it
    temp,     \* what snapshot_temp holds
    job,      \* the calls of CreateSnapshot, with their goroutines
    clock,    \* the second it is
    restore,  \* a call of Restore and the sandbox it makes
    deletion, \* DELETE: not asked for, at its walk, or answered
    deleted,  \* history: a DELETE was answered with success
    held      \* history: what a pause of the VM that nobody will end is owed to

vars == <<vm, version, files, snaps, temp, job, clock, restore, deletion, deleted, held>>

Time == 0..MaxTime

\* What a file or directory holds besides a version.
Missing == -1
Torn == -2      \* unfinished, or of more than one moment
Empty == -3
Version == 0..MaxWrite

NoSnap == [dir |-> FALSE, disk |-> Missing, state |-> Missing]
\* Of a call, three histories: no one wrote to what its cp reads or writes
\* (clean); since its dump no other call and no DELETE came across (alone), and
\* the guest wrote nothing until the end of its cp (calm).
NewJob == [at |-> "new", saw |-> "Off", stamp |-> 0,
           clean |-> FALSE, alone |-> FALSE, calm |-> FALSE]
\* sound, a history: what is restored is the snapshot of a finished call that
\* was alone and calm, and is so still.
NoRestore == [at |-> "none", stamp |-> 0, cold |-> FALSE, sound |-> FALSE,
              disk |-> Missing, state |-> Missing, vm |-> "Off"]

Holding == {"mkdir", "dump", "undo", "resume"}
Finalizing == {"copy", "copying", "rename"}
JobStage == {"new", "pause", "done", "failed"} \cup Holding \cup Finalizing

Disk == Version \cup {Missing, Torn}
Memory == Version \cup {Missing, Torn, Empty}
VMState == {"Running", "Paused", "Off"}

JobRec == [at : JobStage, saw : VMState, stamp : Time,
           clean : BOOLEAN, alone : BOOLEAN, calm : BOOLEAN]
SnapRec == [dir : BOOLEAN, disk : Disk, state : Memory]
RestoreStage ==
    {"none", "disk", "state", "start", "resume", "insert", "done", "failed"}
RestoreRec == [at : RestoreStage, stamp : Time, cold : BOOLEAN, sound : BOOLEAN,
               disk : Disk, state : Memory, vm : VMState]

\* Besides the types: nothing is in a directory that is not there, and a call
\* beyond its check of the state found a VM.
TypeOK ==
    /\ vm \in VMState /\ version \in Version /\ clock \in Time
    /\ files \subseteq {"overlay", "sock"}
    /\ snaps \in [Time -> SnapRec]
    /\ \A t \in Time : ~snaps[t].dir => snaps[t] = NoSnap
    /\ temp \in Memory
    /\ job \in [Request -> JobRec]
    /\ \A r \in Request : job[r].at \in {"pause"} \cup Holding => job[r].saw # "Off"
    /\ restore \in RestoreRec
    /\ deletion \in {"none", "walk", "answered"} /\ deleted \in BOOLEAN
    /\ held \in {"nothing", "client", "failure"}

Init ==
    /\ vm = "Running" /\ version = 0
    /\ files = {"overlay", "sock"}
    /\ snaps = [t \in Time |-> NoSnap] /\ temp = Missing
    /\ job = [r \in Request |-> NewJob]
    /\ clock = 0
    /\ restore = NoRestore
    /\ deletion = "none" /\ deleted = FALSE
    /\ held = "nothing"

-----------------------------------------------------------------------------
(* The hypervisor and its guest.  It refuses vm.pause and vm.resume in the *)
(* state that they lead to, which request answers as a success             *)
(* ("InvalidStateTransition"); the refusal of vm.snapshot is an error.     *)

\* The hypervisor can be called: its process is there, and its socket file.
Answers == vm # "Off" /\ "sock" \in files

\* Another call or a DELETE came across what the call reads or writes.
Disturb(j) == [j EXCEPT !.clean = FALSE, !.alone = FALSE, !.calm = FALSE]

Written(j) == [j EXCEPT !.clean = FALSE,
                        !.calm = @ /\ j.at \notin {"resume", "copy", "copying"}]

GuestWrites ==
    /\ vm = "Running" /\ version < MaxWrite
    /\ version' = version + 1
    /\ job' = [r \in Request |-> Written(job[r])]
    /\ UNCHANGED <<vm, files, snaps, temp, clock, restore, deletion, deleted, held>>

\* Stop, or its own end.
VMEnds ==
    /\ vm # "Off"
    /\ vm' = "Off" /\ held' = "nothing"
    /\ UNCHANGED <<version, files, snaps, temp, job, clock, restore, deletion, deleted>>

Tick ==
    /\ clock < MaxTime
    /\ clock' = clock + 1
    /\ UNCHANGED <<vm, version, files, snaps, temp, job, restore, deletion, deleted, held>>

\* Pause and Resume, which succeed of a VM that is already so.
ClientSets(state) ==
    /\ Answers
    /\ vm' = state /\ held' = IF state = "Paused" THEN "client" ELSE "nothing"
    /\ UNCHANGED <<version, files, snaps, temp, job, clock, restore, deletion, deleted>>

Pause == ClientSets("Paused")
Resume == ClientSets("Running")

-----------------------------------------------------------------------------
(* CreateSnapshot, for call r.                                             *)

Begun == Cardinality({r \in Request : job[r].at # "new"})
         + (IF restore.at = "none" THEN 0 ELSE 1) + (IF deletion = "none" THEN 0 ELSE 1)

\* Call r found the VM running and has not come to resume it.
Holds(r) == job[r].saw = "Running" /\ job[r].at \in Holding

\* Call r becomes new, and the calls in S are disturbed.
Become(r, new, S) ==
    job' = [q \in Request |-> IF q = r THEN new ELSE IF q \in S THEN Disturb(job[q]) ELSE job[q]]

\* held after a failure to resume the VM, which it leaves in this state.
Left(state) == IF state = "Paused" /\ held = "nothing" THEN "failure" ELSE held

Goto(r, stage) == Become(r, [job[r] EXCEPT !.at = stage], {})

\* What a call that is over has read no longer matters.
Failed == [NewJob EXCEPT !.at = "failed"]
Fail(r) == Become(r, Failed, {})

OnlyJob == UNCHANGED <<version, files, clock, deletion, deleted>>

\* Mutant: the state is not looked at.
GetStateUnchecked(r) ==
    /\ job[r].at = "new" /\ Begun < MaxCalls
    /\ Become(r, [job[r] EXCEPT !.saw = vm, !.at = IF vm = "Running" THEN "pause" ELSE "mkdir"], {})
    /\ OnlyJob /\ UNCHANGED <<vm, snaps, temp, restore, held>>

GetState(r) ==
    /\ job[r].at = "new" /\ Begun < MaxCalls
    /\ IF Answers
       THEN Become(r, [job[r] EXCEPT !.saw = vm, !.at = IF vm = "Running" THEN "pause" ELSE "mkdir"], {})
       ELSE Fail(r)
    /\ OnlyJob /\ UNCHANGED <<vm, snaps, temp, restore, held>>

\* A VM that another call or a client has paused since is no failure: the call
\* goes on, and is one that will resume it.
PauseVM(r) ==
    /\ job[r].at = "pause"
    /\ IF Answers
       THEN \/ vm' = "Paused" /\ Goto(r, "mkdir") /\ UNCHANGED held
            \/ /\ "pause" \in Fault /\ Fail(r)
               /\ \/ UNCHANGED <<vm, held>>
                  \/ vm' = "Paused" /\ held' = Left("Paused")
       ELSE Fail(r) /\ UNCHANGED <<vm, held>>
    /\ OnlyJob /\ UNCHANGED <<snaps, temp, restore>>

\* Calls that something else in snapshot_temp harms.
TempUsers == {q \in Request : job[q].at \in {"resume"} \cup Finalizing}

\* MkdirAll makes the instance directory again when a DELETE has removed it.
\* Its error is returned without resuming the VM.
PrepareDirs(r) ==
    /\ job[r].at = "mkdir"
    /\ \/ /\ snaps' = [snaps EXCEPT ![clock].dir = TRUE]
          /\ temp' = Empty
          /\ Become(r, [job[r] EXCEPT !.at = "dump", !.stamp = clock], TempUsers)
          /\ UNCHANGED held
       \/ /\ "mkdir" \in Fault
          /\ Fail(r) /\ held' = IF job[r].saw = "Running" THEN Left(vm) ELSE held
          /\ UNCHANGED <<snaps, temp>>
    /\ OnlyJob /\ UNCHANGED <<vm, restore>>

\* vm.snapshot, which the hypervisor does of a paused VM only.
CanDump == Answers /\ vm = "Paused" /\ temp # Missing

Dumped(r) ==
    /\ temp' = version
    /\ Become(r, [job[r] EXCEPT !.at = IF job[r].saw = "Running" THEN "resume" ELSE "copy",
                               !.alone = TRUE, !.calm = TRUE], TempUsers)

\* Mutant: the error of vm.snapshot is returned at once.
DumpNoUndo(r) ==
    /\ job[r].at = "dump"
    /\ \/ CanDump /\ Dumped(r)
       \/ Fail(r) /\ UNCHANGED temp
    /\ OnlyJob /\ UNCHANGED <<vm, snaps, restore, held>>

\* A directory that is not empty may make vm.snapshot fail, in part done.
Dump(r) ==
    /\ job[r].at = "dump"
    /\ \/ CanDump /\ Dumped(r)
       \/ /\ ~CanDump \/ temp # Empty \/ "dump" \in Fault
          /\ temp' \in {temp} \cup (IF CanDump THEN {Torn} ELSE {})
          /\ Become(r, IF job[r].saw = "Running" THEN [job[r] EXCEPT !.at = "undo"] ELSE Failed,
                    IF temp' = temp THEN {} ELSE TempUsers)
    /\ OnlyJob /\ UNCHANGED <<vm, snaps, restore, held>>

\* vm.resume, after a failure or a success.  Of a VM that runs already it is a
\* success, and the snapshot is finished; it also undoes a client's pause.
ResumeVM(r) ==
    /\ job[r].at \in {"undo", "resume"}
    /\ \/ /\ Answers
          /\ vm' = "Running" /\ held' = "nothing"
          /\ IF job[r].at = "undo" THEN Fail(r) ELSE Goto(r, "copy")
       \/ /\ ~Answers
          /\ Fail(r) /\ UNCHANGED <<vm, held>>
       \/ /\ Answers /\ "resume" \in Fault
          /\ Fail(r)
          /\ \/ UNCHANGED vm /\ held' = Left(vm)
             \/ vm' = "Running" /\ held' = "nothing"
    /\ OnlyJob /\ UNCHANGED <<snaps, temp, restore>>

\* finalizeSnapshot runs after the answer "Snapshot created".  cp opens its
\* source and creates its file, then fills it; two calls in one second share the
\* directory.
SameDir(r) == {q \in Request \ {r} : job[q].stamp = job[r].stamp}

CopyBegins(r) ==
    /\ job[r].at = "copy"
    /\ IF "overlay" \in files /\ snaps[job[r].stamp].dir
       THEN /\ snaps' = [snaps EXCEPT ![job[r].stamp].disk = Torn]
            /\ LET free == \A q \in SameDir(r) : job[q].at # "copying"
               IN Become(r, [job[r] EXCEPT !.at = "copying", !.saw = "Off", !.clean = free,
                                           !.alone = @ /\ free], SameDir(r))
            /\ restore' = [restore EXCEPT !.sound = @ /\ restore.stamp # job[r].stamp]
       ELSE Fail(r) /\ UNCHANGED <<snaps, restore>>
    /\ OnlyJob /\ UNCHANGED <<vm, temp, held>>

\* Mutant: the exit status of cp is ignored.
CopyEndsUnchecked(r) ==
    /\ job[r].at = "copying"
    /\ Goto(r, "rename")
    /\ snaps' \in {snaps} \cup (IF snaps[job[r].stamp].disk = Missing THEN {}
                               ELSE {[snaps EXCEPT ![job[r].stamp].disk = version]})
    /\ OnlyJob /\ UNCHANGED <<vm, temp, restore, held>>

\* A file that a DELETE has unlinked is filled in vain.
CopyEnds(r) ==
    /\ job[r].at = "copying"
    /\ \/ /\ Goto(r, "rename")
          /\ snaps' = IF snaps[job[r].stamp].disk = Missing THEN snaps
                      ELSE [snaps EXCEPT ![job[r].stamp].disk =
                                            IF job[r].clean THEN version ELSE Torn]
       \/ "copy" \in Fault /\ Fail(r) /\ UNCHANGED snaps
    /\ OnlyJob /\ UNCHANGED <<vm, temp, restore, held>>

\* os.Rename does not replace a directory.
CanRename(r) ==
    temp # Missing /\ snaps[job[r].stamp].dir /\ snaps[job[r].stamp].state = Missing

Rename(r) ==
    /\ job[r].at = "rename"
    /\ IF CanRename(r)
       THEN /\ snaps' = [snaps EXCEPT ![job[r].stamp].state = temp]
            /\ temp' = Missing
            /\ Become(r, [job[r] EXCEPT !.at = "done", !.clean = FALSE], TempUsers)
       ELSE Fail(r) /\ UNCHANGED <<snaps, temp>>
    /\ OnlyJob /\ UNCHANGED <<vm, restore, held>>

Snapshot(r) ==
    \/ GetState(r) \/ PauseVM(r) \/ PrepareDirs(r) \/ Dump(r) \/ ResumeVM(r)
    \/ CopyBegins(r) \/ CopyEnds(r) \/ Rename(r)

-----------------------------------------------------------------------------
(* Restore, of a snapshot that ListSnapshots named.                        *)

Listed == {t \in Time : snaps[t].dir}

OnlyRestore ==
    UNCHANGED <<vm, version, files, snaps, temp, job, clock, deletion, deleted, held>>

Sound(t) ==
    \E r \in Request : job[r].at = "done" /\ job[r].stamp = t /\ job[r].alone /\ job[r].calm

\* What a restore that is over had copied no longer matters.
Over(end) == [NoRestore EXCEPT !.at = end, !.vm = restore.vm]

RestoreBegins ==
    /\ restore.at = "none" /\ Begun < MaxCalls
    /\ \/ \E t \in Listed, cold \in BOOLEAN :
             restore' = [NoRestore EXCEPT !.at = "disk", !.stamp = t, !.cold = cold, !.sound = Sound(t)]
       \/ "mkdir" \in Fault /\ restore' = Over("failed")
    /\ OnlyRestore

\* Mutant: the exit status of cp is ignored.
CopiedUnchecked(next, field, source) ==
    \E copy \in {source} \cup (IF "copy" \in Fault THEN {Torn} ELSE {}) :
        restore' = [restore EXCEPT ![field] = copy, !.at = next]

\* cp, of a source that may be missing; one that fails is cleaned up.
Copied(next, field, source) ==
    \/ source # Missing /\ restore' = [restore EXCEPT ![field] = source, !.at = next]
    \/ (source = Missing \/ "copy" \in Fault) /\ restore' = Over("failed")

RestoreDisk ==
    /\ restore.at = "disk"
    /\ Copied(IF restore.cold THEN "start" ELSE "state", "disk", snaps[restore.stamp].disk)
    /\ OnlyRestore

RestoreState ==
    /\ restore.at = "state"
    /\ Copied("start", "state", snaps[restore.stamp].state)
    /\ OnlyRestore

\* Start with vm.restore, or a fresh boot; its failure stops the VM and leaves
\* the directory.
StartRestored ==
    /\ restore.at = "start"
    /\ \/ restore' = [restore EXCEPT !.at = IF restore.cold THEN "insert" ELSE "resume",
                                     !.vm = IF restore.cold THEN "Running" ELSE "Paused"]
       \/ "start" \in Fault /\ restore' = Over("failed")
    /\ OnlyRestore

\* A resume that fails is only a warning; a socket that does not answer is not.
ResumeRestored ==
    /\ restore.at = "resume"
    /\ \/ restore' = [restore EXCEPT !.at = "insert", !.vm = "Running"]
       \/ "start" \in Fault /\ restore' = Over("failed")
       \/ "resume" \in Fault /\ restore' = [restore EXCEPT !.at = "insert"]
    /\ OnlyRestore

\* The insert's failure leaves a VM without document.
InsertRestored ==
    /\ restore.at = "insert"
    /\ \/ restore' = Over("done")
       \/ "insert" \in Fault /\ restore' = Over("failed")
    /\ OnlyRestore

Restore ==
    \/ RestoreBegins \/ RestoreDisk \/ RestoreState
    \/ StartRestored \/ ResumeRestored \/ InsertRestored

-----------------------------------------------------------------------------
(* Delete and the server.                                                  *)

\* Stop has the hypervisor told to end, which it may be slow to do; its failure
\* is only logged.  A DELETE that runs beside another one adds nothing to what
\* the two remove, and one may be asked for again.
DeleteBegins ==
    /\ deletion # "walk" /\ (deletion = "none" => Begun < MaxCalls)
    /\ deletion' = "walk"
    /\ job' = [r \in Request |-> Disturb(job[r])]
    /\ restore' = [restore EXCEPT !.sound = FALSE]
    /\ UNCHANGED <<vm, version, files, snaps, temp, clock, deleted, held>>

\* What is left of the contents of a directory after one more removal.
Fewer(contents) == IF contents \in Version THEN Torn ELSE Missing

\* RemoveAll takes the entries of the tree one by one, in an order of its own,
\* and a directory when it is empty.
RemoveOne ==
    /\ deletion = "walk"
    /\ \/ /\ \E f \in files : files' = files \ {f}
          /\ UNCHANGED <<snaps, temp>>
       \/ /\ temp # Missing /\ temp' = Fewer(temp)
          /\ UNCHANGED <<files, snaps>>
       \/ /\ \E t \in Listed :
                \/ /\ snaps[t].disk # Missing
                   /\ snaps' = [snaps EXCEPT ![t].disk = Missing]
                \/ /\ snaps[t].state # Missing
                   /\ snaps' = [snaps EXCEPT ![t].state = Fewer(@)]
                \/ /\ snaps[t].disk = Missing /\ snaps[t].state = Missing
                   /\ snaps' = [snaps EXCEPT ![t] = NoSnap]
          /\ UNCHANGED <<files, temp>>
    /\ job' = [r \in Request |-> Disturb(job[r])]
    /\ restore' = [restore EXCEPT !.sound = FALSE]
    /\ UNCHANGED <<vm, version, clock, deletion, deleted, held>>

Gone == files = {} /\ temp = Missing /\ \A t \in Time : snaps[t] = NoSnap

\* Mutant: the error of RemoveAll is not looked at.
DeleteEndsUnchecked ==
    /\ deletion = "walk"
    /\ deletion' = "answered" /\ deleted' = TRUE
    /\ UNCHANGED <<vm, version, files, snaps, temp, job, clock, restore, held>>

\* RemoveAll fails when the directory is not empty at its end: something was put
\* into it behind the walk, or could not be removed.
DeleteEnds ==
    /\ deletion = "walk"
    /\ deletion' = "answered" /\ deleted' = (deleted \/ Gone)
    /\ UNCHANGED <<vm, version, files, snaps, temp, job, clock, restore, held>>

Delete == DeleteBegins \/ RemoveOne \/ DeleteEnds

\* Nothing of a call survives the server, and nothing is resumed at its start.
Restart ==
    /\ "crash" \in Fault
    /\ job' = [r \in Request |-> IF job[r].at \in {"new", "done"} THEN job[r] ELSE Failed]
    /\ restore' = IF restore.at \in {"none", "done", "failed"} THEN restore
                  ELSE Over("failed")
    /\ deletion' = IF deletion = "walk" THEN "answered" ELSE deletion
    /\ held' = IF \E r \in Request : Holds(r) THEN Left(vm) ELSE held
    /\ UNCHANGED <<vm, version, files, snaps, temp, clock, deleted>>

Next ==
    \/ GuestWrites \/ VMEnds \/ Tick \/ Pause \/ Resume
    \/ \E r \in Request : Snapshot(r)
    \/ Restore
    \/ Delete \/ Restart

Spec == Init /\ [][Next]_vars

\* Calls of the hypervisor have a timeout of 5 s and cp ends, so that a call of
\* CreateSnapshot, once begun, goes on; a hypervisor that got SIGTERM ends.
FairSpec ==
    /\ Spec
    /\ \A r \in Request : WF_vars(job[r].at # "new" /\ Snapshot(r))
    /\ WF_vars(deletion # "none" /\ VMEnds)

-----------------------------------------------------------------------------
(* Properties.                                                             *)

\* However snapshots, pauses and resumes of clients interleave, a VM is paused
\* because a client's pause holds it, because a call that found it running will
\* still resume it, or because a DELETE has told it to end (snapshot.go:34-73,
\* client.go:141-146).
NeverLeftPaused ==
    vm = "Paused" =>
        \/ held # "nothing" \/ deletion # "none"
        \/ \E r \in Request : Holds(r)

\* The snapshot of a call that no other call and no DELETE came across has the
\* memory of the moment of its dump and a disk no older, whatever the guest wrote
\* meanwhile; where that is nothing, the two are of one moment.  Only writes that
\* cp itself met can make its disk unusable (snapshot.go:59-98).
LoneSnapshotSound ==
    \A r \in Request : job[r].at = "done" /\ job[r].alone =>
        LET s == snaps[job[r].stamp] IN
        /\ s.state \in Version
        /\ s.disk = Torn \/ (s.disk \in Version /\ s.disk >= s.state)
        /\ job[r].calm => s.disk = s.state

\* After a DELETE that was answered with success, what the goroutines of
\* CreateSnapshot still do puts no disk and no memory of the sandbox back
\* (actions.go:17-22, snapshot.go:82-98).
DeletedLeavesNoData ==
    deleted => /\ temp \in {Missing, Empty}
               /\ \A t \in Time : snaps[t].disk = Missing /\ snaps[t].state \in {Missing, Empty}

\* A restored VM never lacks a part, though of an unsound snapshot it may have a
\* torn one; from a snapshot that was sound until the copies were made, it starts
\* with the disk and the memory of one moment, whatever snapshots, DELETEs and
\* failures come between the two cp (restore.go:26-63).
RestoredVMWhole ==
    restore.at \in {"resume", "insert"} =>
        /\ restore.disk # Missing /\ (restore.cold \/ restore.state # Missing)
        /\ restore.sound => restore.disk \in Version /\ (restore.cold \/ restore.state = restore.disk)

\* The pause of a snapshot ends, unless a failure prevents it (snapshot.go:49-73).
PauseIsShort ==
    (vm = "Paused" /\ held = "nothing") ~> (vm # "Paused" \/ held # "nothing")
=============================================================================
