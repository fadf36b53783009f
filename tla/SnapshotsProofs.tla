--------------------------- MODULE SnapshotsProofs ----------------------------
(***************************************************************************)
(* What Snapshots promises for any number of concurrent calls, seconds and *)
(* writes, and for every set of faults.                                    *)
(***************************************************************************)
EXTENDS Snapshots, TLAPS

SnapsOK == snaps \in [Time -> SnapRec] /\ \A t \in Time : ~snaps[t].dir => snaps[t] = NoSnap
TempOK == temp \in Memory
SawVM == \A r \in Request : job[r].at \in {"pause"} \cup Holding => job[r].saw # "Off"

\* The constants, and that the three marks of an unusable file are no version.
LEMMA Constants ==
    /\ MaxTime \in Nat /\ MaxWrite \in Nat
    /\ 0 \in Time /\ 0 \in Version
    /\ Missing \notin Version /\ Torn \notin Version /\ Empty \notin Version
    /\ Missing # Torn /\ Missing # Empty /\ Torn # Empty
  BY SnapshotsAssumption DEF Time, Version, Missing, Torn, Empty

\* The stages CreateSnapshot is at, by name.
LEMMA Stages ==
    /\ {"new", "pause", "done", "failed", "mkdir", "dump", "undo", "resume",
        "copy", "copying", "rename"} = JobStage
    /\ NewJob \in JobRec /\ Failed \in JobRec
    /\ NewJob.at = "new" /\ Failed.at = "failed" /\ ~NewJob.alone /\ ~Failed.alone
  BY Constants DEF NewJob, Failed, JobRec, JobStage, VMState, Holding, Finalizing

\* TypeOK in the parts the proofs use.
LEMMA TypeParts ==
    TypeOK => /\ job \in [Request -> JobRec] /\ SnapsOK /\ TempOK /\ SawVM
              /\ clock \in Time /\ version \in Version /\ vm \in VMState /\ restore \in RestoreRec
  BY DEF TypeOK, SnapsOK, TempOK, SawVM

\* Disturb changes the flags and nothing else.
LEMMA DisturbOnlyFlags ==
    ASSUME NEW j \in JobRec
    PROVE  /\ Disturb(j) \in JobRec
           /\ Disturb(j).at = j.at /\ Disturb(j).saw = j.saw /\ Disturb(j).stamp = j.stamp
           /\ ~Disturb(j).alone
  BY DEF Disturb, JobRec

\* What a write of the guest changes of a call.
LEMMA WrittenOnlyFlags ==
    ASSUME NEW j \in JobRec
    PROVE  /\ Written(j) \in JobRec
           /\ Written(j).at = j.at /\ Written(j).saw = j.saw /\ Written(j).stamp = j.stamp
           /\ Written(j).alone = j.alone
           /\ Written(j).calm => j.calm /\ j.at \notin {"resume", "copy", "copying"}
           /\ j.calm /\ j.at \notin {"resume", "copy", "copying"} => Written(j).calm
  BY DEF Written, JobRec

\* How Become changes the calls.
LEMMA BecomeViews ==
    ASSUME job \in [Request -> JobRec], NEW r \in Request, NEW new, NEW S, Become(r, new, S)
    PROVE  /\ job'[r] = new
           /\ \A q \in Request \ {r} : /\ job'[q] \in JobRec
                                       /\ job'[q].at = job[q].at /\ job'[q].saw = job[q].saw
                                       /\ job'[q].stamp = job[q].stamp
                                       /\ job'[q].alone => job[q].alone /\ q \notin S
                                       /\ q \notin S => job'[q] = job[q]
           /\ new \in JobRec => job' \in [Request -> JobRec]
  BY DisturbOnlyFlags DEF Become

\* How a DELETE changes the calls.
LEMMA DeleteViews ==
    ASSUME job \in [Request -> JobRec], DeleteBegins \/ RemoveOne
    PROVE  /\ job' \in [Request -> JobRec]
           /\ \A q \in Request : /\ job'[q].at = job[q].at /\ job'[q].saw = job[q].saw
                                 /\ job'[q].stamp = job[q].stamp /\ ~job'[q].alone
  BY DisturbOnlyFlags DEF DeleteBegins, RemoveOne

\* What each step of CreateSnapshot makes of its call.
LEMMA Moves ==
    ASSUME job \in [Request -> JobRec], clock \in Time, vm \in VMState, NEW r \in Request
    PROVE  LET new == job'[r]
               old == job[r]
               over == new = Failed
               same == new.saw = old.saw /\ new.stamp = old.stamp /\ new.clean = old.clean
                       /\ new.alone = old.alone /\ new.calm = old.calm
           IN /\ Snapshot(r) => new \in JobRec
              /\ GetState(r) => over \/ /\ vm # "Off" /\ new.saw = vm
                                        /\ new.at = IF vm = "Running" THEN "pause" ELSE "mkdir"
              /\ PauseVM(r) => over \/ (new.at = "mkdir" /\ same)
              /\ PrepareDirs(r) => over \/ (new.at = "dump" /\ new.saw = old.saw)
              /\ Dump(r) =>
                    \/ /\ CanDump /\ temp' = version /\ new.saw = old.saw /\ new.calm
                       /\ new.at = IF old.saw = "Running" THEN "resume" ELSE "copy"
                    \/ over /\ old.saw # "Running"
                    \/ new.at = "undo" /\ new.saw = old.saw /\ old.saw = "Running"
              /\ ResumeVM(r) => over \/ (old.at = "resume" /\ new.at = "copy" /\ same)
              /\ CopyBegins(r) =>
                    over \/ /\ new.at = "copying" /\ new.stamp = old.stamp /\ new.calm = old.calm
                            /\ new.alone => /\ old.alone /\ new.clean
                                            /\ \A q \in SameDir(r) : job[q].at # "copying"
              /\ CopyEnds(r) => over \/ (new.at = "rename" /\ same)
              /\ Rename(r) => over \/ /\ new.at = "done" /\ new.stamp = old.stamp
                                      /\ new.alone = old.alone /\ new.calm = old.calm
<1> DEFINE old == job[r]
           same(new) == new.saw = old.saw /\ new.stamp = old.stamp /\ new.clean = old.clean
                        /\ new.alone = old.alone /\ new.calm = old.calm
<1>0. old \in JobRec
  OBVIOUS
<1>a. \A a \in JobStage : LET new == [old EXCEPT !.at = a]
                          IN new \in JobRec /\ new.at = a /\ same(new)
  BY <1>0 DEF JobRec
<1>b. ASSUME NEW new, NEW S, Become(r, new, S)
      PROVE  job'[r] = new
  BY <1>b DEF Become
<1>c. ASSUME NEW a \in JobStage, Goto(r, a)
      PROVE  job'[r] \in JobRec /\ job'[r].at = a /\ same(job'[r])
  <2>1. job'[r] = [old EXCEPT !.at = a]
    BY <1>c, <1>b DEF Goto
  <2> QED BY <2>1, <1>a
<1>d. Fail(r) => job'[r] = Failed /\ job'[r] \in JobRec
  BY <1>b, Stages DEF Fail
<1>1. ASSUME GetState(r)
      PROVE  /\ job'[r] \in JobRec
             /\ job'[r] = Failed \/ /\ vm # "Off" /\ job'[r].saw = vm
                                    /\ job'[r].at = IF vm = "Running" THEN "pause" ELSE "mkdir"
  <2> DEFINE new == [old EXCEPT !.saw = vm, !.at = IF vm = "Running" THEN "pause" ELSE "mkdir"]
  <2>1. /\ new \in JobRec /\ new.saw = vm
        /\ new.at = IF vm = "Running" THEN "pause" ELSE "mkdir"
    BY <1>0, Stages DEF JobRec
  <2>2. CASE Answers /\ Become(r, new, {})
    BY <2>1, <2>2, <1>b DEF Answers
  <2> QED BY <1>1, <2>2, <1>d DEF GetState
<1>2. ASSUME PauseVM(r)
      PROVE  job'[r] \in JobRec /\ (job'[r] = Failed \/ (job'[r].at = "mkdir" /\ same(job'[r])))
  BY <1>2, <1>c, <1>d, Stages DEF PauseVM
<1>3. ASSUME PrepareDirs(r)
      PROVE  /\ job'[r] \in JobRec
             /\ job'[r] = Failed \/ (job'[r].at = "dump" /\ job'[r].saw = old.saw)
  <2> DEFINE new == [old EXCEPT !.at = "dump", !.stamp = clock]
  <2>1. new \in JobRec /\ new.at = "dump" /\ new.saw = old.saw
    BY <1>0, Stages DEF JobRec
  <2> QED BY <1>3, <2>1, <1>b, <1>d DEF PrepareDirs
<1>4. ASSUME Dump(r)
      PROVE  /\ job'[r] \in JobRec
             /\ \/ /\ CanDump /\ temp' = version /\ job'[r].saw = old.saw /\ job'[r].calm
                   /\ job'[r].at = IF old.saw = "Running" THEN "resume" ELSE "copy"
                \/ job'[r] = Failed /\ old.saw # "Running"
                \/ job'[r].at = "undo" /\ job'[r].saw = old.saw /\ old.saw = "Running"
  <2> DEFINE new == [old EXCEPT !.at = IF old.saw = "Running" THEN "resume" ELSE "copy",
                                !.alone = TRUE, !.calm = TRUE]
  <2>1. /\ new \in JobRec /\ new.saw = old.saw /\ new.calm
        /\ new.at = IF old.saw = "Running" THEN "resume" ELSE "copy"
    BY <1>0, Stages DEF JobRec
  <2>2. CASE CanDump /\ Dumped(r)
    <3>1. Become(r, new, TempUsers) /\ temp' = version
      BY <2>2 DEF Dumped
    <3>2. job'[r] = new
      BY <3>1, <1>b
    <3>3. job'[r] \in JobRec /\ job'[r].saw = old.saw /\ job'[r].calm
          /\ job'[r].at = IF old.saw = "Running" THEN "resume" ELSE "copy"
      BY <2>1, <3>2, Zenon
    <3> QED BY <2>2, <3>1, <3>3
  <2>3. CASE \E S : Become(r, IF old.saw = "Running" THEN [old EXCEPT !.at = "undo"] ELSE Failed, S)
    <3> DEFINE new2 == IF old.saw = "Running" THEN [old EXCEPT !.at = "undo"] ELSE Failed
    <3>1. job'[r] = new2
      BY <2>3, <1>b
    <3>2. CASE old.saw = "Running"
      BY <3>1, <3>2, <1>a, Stages
    <3>3. CASE old.saw # "Running"
      BY <3>1, <3>3, Stages
    <3> QED BY <3>2, <3>3
  <2> QED BY <1>4, <2>2, <2>3 DEF Dump
<1>5. ASSUME ResumeVM(r)
      PROVE  /\ job'[r] \in JobRec
             /\ job'[r] = Failed \/ (old.at = "resume" /\ job'[r].at = "copy" /\ same(job'[r]))
  BY <1>5, <1>c, <1>d, Stages DEF ResumeVM
<1>6. ASSUME CopyBegins(r)
      PROVE  /\ job'[r] \in JobRec
             /\ job'[r] = Failed \/ /\ job'[r].at = "copying" /\ job'[r].stamp = old.stamp
                                    /\ job'[r].calm = old.calm
                                    /\ job'[r].alone => /\ old.alone /\ job'[r].clean
                                                        /\ \A q \in SameDir(r) : job[q].at # "copying"
  <2> DEFINE free == \A q \in SameDir(r) : job[q].at # "copying"
             new == [old EXCEPT !.at = "copying", !.saw = "Off", !.clean = free, !.alone = @ /\ free]
  <2>0. free \in BOOLEAN
    OBVIOUS
  <2>1. /\ new \in JobRec /\ new.at = "copying" /\ new.stamp = old.stamp /\ new.calm = old.calm
        /\ new.clean = free /\ new.alone = (old.alone /\ free)
    <3> HIDE DEF free
    <3> QED BY <1>0, <2>0, Stages, ZenonT(40) DEF JobRec, VMState
  <2>2. CASE Become(r, new, SameDir(r))
    <3>1. job'[r] = new
      BY <2>2, <1>b
    <3> QED BY <2>1, <3>1
  <2> QED BY <1>6, <2>2, <1>d DEF CopyBegins
<1>7. ASSUME CopyEnds(r)
      PROVE  job'[r] \in JobRec /\ (job'[r] = Failed \/ (job'[r].at = "rename" /\ same(job'[r])))
  BY <1>7, <1>c, <1>d, Stages DEF CopyEnds
<1>8. ASSUME Rename(r)
      PROVE  /\ job'[r] \in JobRec
             /\ job'[r] = Failed \/ /\ job'[r].at = "done" /\ job'[r].stamp = old.stamp
                                    /\ job'[r].alone = old.alone /\ job'[r].calm = old.calm
  <2> DEFINE new == [old EXCEPT !.at = "done", !.clean = FALSE]
  <2>1. /\ new \in JobRec /\ new.at = "done" /\ new.stamp = old.stamp
        /\ new.alone = old.alone /\ new.calm = old.calm
    BY <1>0, Stages DEF JobRec
  <2> QED BY <1>8, <2>1, <1>b, <1>d DEF Rename
<1> QED BY <1>1, <1>2, <1>3, <1>4, <1>5, <1>6, <1>7, <1>8 DEF Snapshot

\* What a step of CreateSnapshot changes of the other calls.
LEMMA OtherCalls ==
    ASSUME job \in [Request -> JobRec], NEW r \in Request, Snapshot(r)
    PROVE  \A q \in Request \ {r} :
               /\ job'[q] \in JobRec
               /\ job'[q].at = job[q].at /\ job'[q].saw = job[q].saw /\ job'[q].stamp = job[q].stamp
               /\ job'[q].alone => job[q].alone /\ job'[q] = job[q]
<1> DEFINE Views == \E new, S : Become(r, new, S)
<1>1. Views
  BY DEF Snapshot, GetState, PauseVM, PrepareDirs, Dump, Dumped, ResumeVM, CopyBegins, CopyEnds,
         Rename, Fail, Goto
<1> QED BY <1>1, BecomeViews

-----------------------------------------------------------------------------
(* Types.                                                                  *)

\* One step of CreateSnapshot keeps the types.
LEMMA SnapshotTypes ==
    ASSUME TypeOK, NEW r \in Request, Snapshot(r)
    PROVE  TypeOK'
<1>0. /\ job \in [Request -> JobRec] /\ SnapsOK /\ TempOK /\ SawVM
      /\ clock \in Time /\ version \in Version /\ vm \in VMState /\ restore \in RestoreRec
      /\ job[r] \in JobRec /\ job[r].stamp \in Time
  BY TypeParts DEF JobRec
<1>1. job' \in [Request -> JobRec]
  <2>1. PICK new, S : Become(r, new, S)
    BY DEF Snapshot, GetState, PauseVM, PrepareDirs, Dump, Dumped, ResumeVM, CopyBegins,
       CopyEnds, Rename, Fail, Goto
  <2> QED BY <1>0, <2>1, BecomeViews, Moves
<1>2. SawVM'
  <2>1. ASSUME job'[r].at \in {"pause"} \cup Holding PROVE job'[r].saw # "Off"
    <3>1. job'[r] # Failed
      BY <2>1, Stages DEF Holding
    <3>2. CASE GetState(r)
      BY <1>0, <3>1, <3>2, Moves
    <3>3. CASE PauseVM(r) \/ PrepareDirs(r) \/ Dump(r)
      <4>1. job[r].saw # "Off"
        BY <1>0, <3>3 DEF PauseVM, PrepareDirs, Dump, SawVM, Holding
      <4>2. job'[r].saw = job[r].saw
        BY <1>0, <3>1, <3>3, Moves
      <4> QED BY <4>1, <4>2
    <3>4. CASE ResumeVM(r) \/ CopyBegins(r) \/ CopyEnds(r) \/ Rename(r)
      BY <1>0, <2>1, <3>1, <3>4, Moves DEF Holding
    <3> QED BY <3>2, <3>3, <3>4 DEF Snapshot
  <2> QED BY <1>0, <2>1, OtherCalls DEF SawVM
<1>3. SnapsOK' /\ TempOK'
  <2>1. CASE GetState(r) \/ PauseVM(r) \/ ResumeVM(r)
    BY <1>0, <2>1 DEF GetState, PauseVM, ResumeVM, SnapsOK, TempOK
  <2>3. CASE PrepareDirs(r)
    BY <1>0, <2>3 DEF PrepareDirs, SnapsOK, TempOK, SnapRec, Memory
  <2>4. CASE Dump(r)
    BY <1>0, <2>4 DEF Dump, Dumped, SnapsOK, TempOK, Memory
  <2>6. CASE CopyBegins(r)
    BY <1>0, <2>6 DEF CopyBegins, SnapsOK, TempOK, SnapRec, Disk
  <2>7. CASE CopyEnds(r)
    <3> DEFINE t == job[r].stamp
    <3>1. snaps[t].disk # Missing => snaps[t].dir
      BY <1>0 DEF SnapsOK, NoSnap
    <3>2. \A x \in Disk : [snaps[t] EXCEPT !.disk = x] \in SnapRec
      BY <1>0 DEF SnapsOK, SnapRec
    <3>3. version \in Disk /\ Torn \in Disk
      BY <1>0 DEF Disk
    <3>4. CASE snaps' = snaps
      BY <1>0, <2>7, <3>4 DEF CopyEnds, SnapsOK, TempOK
    <3>5. ASSUME NEW x \in Disk, snaps' = [snaps EXCEPT ![t].disk = x], snaps[t].dir PROVE SnapsOK'
      <4>1. [snaps[t] EXCEPT !.disk = x].dir
        BY <1>0, <3>5 DEF SnapsOK, SnapRec
      <4> QED BY <1>0, <3>2, <3>5, <4>1 DEF SnapsOK
    <3>6. TempOK'
      BY <1>0, <2>7 DEF CopyEnds, TempOK
    <3>7. \/ snaps' = snaps
          \/ snaps[t].disk # Missing /\ (\/ snaps' = [snaps EXCEPT ![t].disk = version]
                                        \/ snaps' = [snaps EXCEPT ![t].disk = Torn])
      BY <2>7 DEF CopyEnds
    <3>8. CASE snaps[t].disk # Missing /\ snaps' = [snaps EXCEPT ![t].disk = version]
      BY <3>1, <3>3, <3>5, <3>6, <3>8
    <3>9. CASE snaps[t].disk # Missing /\ snaps' = [snaps EXCEPT ![t].disk = Torn]
      BY <3>1, <3>3, <3>5, <3>6, <3>9
    <3> QED BY <3>4, <3>6, <3>7, <3>8, <3>9
  <2>8. CASE Rename(r)
    <3> DEFINE t == job[r].stamp
    <3>1. CASE UNCHANGED <<snaps, temp>>
      BY <1>0, <3>1 DEF SnapsOK, TempOK
    <3>2. CASE snaps[t].dir /\ snaps' = [snaps EXCEPT ![t].state = temp] /\ temp' = Missing
      <4>1. [snaps[t] EXCEPT !.state = temp] \in SnapRec /\ [snaps[t] EXCEPT !.state = temp].dir
        BY <1>0, <3>2 DEF SnapsOK, TempOK, SnapRec
      <4>2. SnapsOK'
        BY <1>0, <3>2, <4>1 DEF SnapsOK
      <4> QED BY <3>2, <4>2 DEF TempOK, Memory
    <3> QED BY <2>8, <3>1, <3>2 DEF Rename, CanRename
  <2> QED BY <2>1, <2>3, <2>4, <2>6, <2>7, <2>8 DEF Snapshot
<1>4. /\ vm' \in VMState /\ held' \in {"nothing", "client", "failure"}
      /\ UNCHANGED <<version, files, clock, deletion, deleted>>
  BY <1>0 DEF Snapshot, GetState, PauseVM, PrepareDirs, Dump, ResumeVM, CopyBegins, CopyEnds, Rename,
         OnlyJob, TypeOK, Left, VMState
<1>5. restore' \in RestoreRec
  <2>1. restore' = restore \/ \E b \in BOOLEAN : restore' = [restore EXCEPT !.sound = b]
    <3>1. CASE CopyBegins(r)
      <4>1. (restore.sound /\ restore.stamp # job[r].stamp) \in BOOLEAN
        OBVIOUS
      <4> QED BY <3>1, <4>1 DEF CopyBegins
    <3> QED BY <3>1 DEF Snapshot, GetState, PauseVM, PrepareDirs, Dump, ResumeVM, CopyEnds, Rename
  <2> QED BY <1>0, <2>1 DEF RestoreRec
<1> QED BY <1>1, <1>2, <1>3, <1>4, <1>5 DEF TypeOK, SnapsOK, TempOK, SawVM

\* A step of Restore keeps the types.
LEMMA RestoreTypes ==
    ASSUME restore \in RestoreRec, SnapsOK, Restore
    PROVE  restore' \in RestoreRec
<1>o. \A e \in {"done", "failed"} : Over(e) \in RestoreRec
  BY Constants DEF Over, NoRestore, RestoreRec, RestoreStage, Disk, Memory, VMState
<1>r. \A a \in RestoreStage, v \in VMState :
        [restore EXCEPT !.at = a] \in RestoreRec /\ [restore EXCEPT !.at = a, !.vm = v] \in RestoreRec
  BY DEF RestoreRec
<1>s. {"none", "disk", "state", "start", "resume", "insert", "done", "failed"} = RestoreStage
      /\ {"Running", "Paused", "Off"} = VMState
  BY DEF RestoreStage, VMState
<1>1. CASE RestoreBegins
  <2>1. ASSUME NEW t \in Time, NEW cold \in BOOLEAN, NEW b \in BOOLEAN
        PROVE  [NoRestore EXCEPT !.at = "disk", !.stamp = t, !.cold = cold, !.sound = b] \in RestoreRec
    BY Constants DEF NoRestore, RestoreRec, RestoreStage, Disk, Memory, VMState
  <2>2. \A t : Sound(t) \in BOOLEAN
    BY DEF Sound
  <2> QED BY <1>1, <1>o, <2>1, <2>2 DEF RestoreBegins, Listed
<1>2. CASE RestoreDisk
  <2>1. snaps[restore.stamp].disk \in Disk
    BY DEF SnapsOK, SnapRec, RestoreRec
  <2>2. \A a \in RestoreStage, d \in Disk : [restore EXCEPT !.disk = d, !.at = a] \in RestoreRec
    BY DEF RestoreRec
  <2> QED BY <1>2, <1>o, <1>s, <2>1, <2>2 DEF RestoreDisk, Copied
<1>3. CASE RestoreState
  <2>1. snaps[restore.stamp].state \in Memory
    BY DEF SnapsOK, SnapRec, RestoreRec
  <2>2. \A a \in RestoreStage, d \in Memory : [restore EXCEPT !.state = d, !.at = a] \in RestoreRec
    BY DEF RestoreRec
  <2> QED BY <1>3, <1>o, <1>s, <2>1, <2>2 DEF RestoreState, Copied
<1>4. CASE StartRestored
  BY <1>4, <1>o, <1>r, <1>s DEF StartRestored
<1>5. CASE ResumeRestored
  BY <1>5, <1>o, <1>r, <1>s DEF ResumeRestored
<1>6. CASE InsertRestored
  BY <1>6, <1>o DEF InsertRestored
<1> QED BY <1>1, <1>2, <1>3, <1>4, <1>5, <1>6 DEF Restore

\* A step of DELETE keeps the types of what is on disk.
LEMMA RemoveTypes ==
    ASSUME SnapsOK, TempOK, RemoveOne
    PROVE  SnapsOK' /\ TempOK'
<1>f. \A x \in Memory : Fewer(x) \in Memory
  BY DEF Fewer, Memory
<1>1. CASE UNCHANGED <<snaps, temp>>
  BY <1>1 DEF SnapsOK, TempOK
<1>2. CASE temp' = Fewer(temp) /\ UNCHANGED snaps
  BY <1>2, <1>f DEF SnapsOK, TempOK
<1>3. ASSUME temp' = temp, NEW t \in Time, snaps[t].dir,
             \/ snaps' = [snaps EXCEPT ![t].disk = Missing]
             \/ snaps' = [snaps EXCEPT ![t].state = Fewer(@)]
             \/ snaps' = [snaps EXCEPT ![t] = NoSnap]
      PROVE  SnapsOK' /\ TempOK'
  <2>1. NoSnap \in SnapRec /\ [snaps[t] EXCEPT !.disk = Missing] \in SnapRec
        /\ [snaps[t] EXCEPT !.state = Fewer(@)] \in SnapRec
    BY <1>f DEF NoSnap, SnapsOK, SnapRec, Disk, Memory
  <2>2. ~NoSnap.dir /\ [snaps[t] EXCEPT !.disk = Missing].dir
        /\ [snaps[t] EXCEPT !.state = Fewer(@)].dir
    BY <1>3 DEF NoSnap, SnapsOK, SnapRec
  <2> QED BY <1>3, <2>1, <2>2 DEF SnapsOK, TempOK
<1> QED BY <1>1, <1>2, <1>3 DEF RemoveOne, Listed

\* Every step keeps the types.
LEMMA StepTypes == TypeOK /\ [Next]_vars => TypeOK'
<1> SUFFICES ASSUME TypeOK, [Next]_vars PROVE TypeOK'
  OBVIOUS
<1>0. /\ job \in [Request -> JobRec] /\ SnapsOK /\ TempOK /\ SawVM
      /\ clock \in Time /\ version \in Version /\ vm \in VMState /\ restore \in RestoreRec
  BY TypeParts
<1>1. CASE GuestWrites
  <2>1. job' \in [Request -> JobRec] /\ SawVM'
    BY <1>0, <1>1, WrittenOnlyFlags DEF GuestWrites, SawVM
  <2>2. version' \in Version /\ UNCHANGED <<vm, files, snaps, temp, clock, restore, deletion, deleted, held>>
    BY <1>0, <1>1, Constants DEF GuestWrites, Version
  <2> QED BY <2>1, <2>2 DEF TypeOK, SawVM
<1>2. CASE VMEnds \/ Pause \/ Resume
  BY <1>2 DEF VMEnds, Pause, Resume, ClientSets, TypeOK, VMState
<1>3. CASE Tick
  BY <1>3, Constants DEF Tick, TypeOK, Time
<1>4. ASSUME NEW r \in Request, Snapshot(r) PROVE TypeOK'
  BY <1>4, SnapshotTypes
<1>5. CASE Restore
  <2>1. restore' \in RestoreRec /\ OnlyRestore
    BY <1>0, <1>5, RestoreTypes DEF Restore, RestoreBegins, RestoreDisk, RestoreState,
       StartRestored, ResumeRestored, InsertRestored
  <2> QED BY <2>1 DEF OnlyRestore, TypeOK
<1>6. CASE DeleteBegins \/ RemoveOne
  <2>1. job' \in [Request -> JobRec] /\ SawVM'
    BY <1>0, <1>6, DeleteViews DEF SawVM
  <2>2. SnapsOK' /\ TempOK'
    BY <1>0, <1>6, RemoveTypes DEF DeleteBegins, SnapsOK, TempOK
  <2>3. restore' \in RestoreRec
    BY <1>0, <1>6 DEF DeleteBegins, RemoveOne, RestoreRec
  <2>4. /\ files' \subseteq {"overlay", "sock"} /\ deletion' \in {"none", "walk", "answered"}
        /\ UNCHANGED <<vm, version, clock, deleted, held>>
    BY <1>6 DEF DeleteBegins, RemoveOne, TypeOK
  <2> QED BY <2>1, <2>2, <2>3, <2>4 DEF TypeOK, SnapsOK, TempOK, SawVM
<1>7. CASE DeleteEnds
  <2>1. Gone \in BOOLEAN
    BY DEF Gone
  <2> QED BY <1>7, <2>1 DEF DeleteEnds, TypeOK
<1>8. CASE Restart
  <2>1. job' \in [Request -> JobRec] /\ SawVM'
    BY <1>0, <1>8, Stages DEF Restart, SawVM, Holding
  <2>2. restore' \in RestoreRec
    BY <1>0, <1>8, Constants DEF Restart, Over, NoRestore, RestoreRec, RestoreStage, Disk, Memory,
       VMState
  <2>3. /\ deletion' \in {"none", "walk", "answered"} /\ held' \in {"nothing", "client", "failure"}
        /\ UNCHANGED <<vm, version, files, snaps, temp, clock, deleted>>
    BY <1>8 DEF Restart, Left, TypeOK
  <2> QED BY <2>1, <2>2, <2>3 DEF TypeOK, SawVM
<1>9. CASE UNCHANGED vars
  BY <1>9 DEF vars, TypeOK
<1> QED BY <1>1, <1>2, <1>3, <1>4, <1>5, <1>6, <1>7, <1>8, <1>9 DEF Next, Delete

\* The variables of Snapshots have their types, nothing is in a directory that is
\* not there, and a call goes on only after it found a VM (snapshot.go:18-32).
THEOREM TypeCorrect == Spec => []TypeOK
<1>1. Init => TypeOK
  <2> SUFFICES ASSUME Init PROVE TypeOK
    OBVIOUS
  <2>1. SnapsOK /\ TempOK
    BY Constants DEF Init, SnapsOK, TempOK, SnapRec, Disk, Memory, NoSnap
  <2>2. job \in [Request -> JobRec] /\ SawVM
    BY Stages DEF Init, SawVM, Holding
  <2>3. restore \in RestoreRec
    BY Constants DEF Init, NoRestore, RestoreRec, RestoreStage, Disk, Memory, VMState
  <2> QED BY <2>1, <2>2, <2>3, Constants DEF Init, TypeOK, VMState, SnapsOK, TempOK, SawVM
<1> QED BY <1>1, StepTypes, PTL DEF Spec

-----------------------------------------------------------------------------
(* NeverLeftPaused.                                                        *)

\* A call that sends vm.resume found the VM running.
SawRunning ==
    \A r \in Request : job[r].at \in {"pause", "undo", "resume"} => job[r].saw = "Running"

PauseInv ==
    /\ SawRunning
    /\ "sock" \notin files => deletion # "none"
    /\ NeverLeftPaused

\* A step of CreateSnapshot keeps PauseInv.
LEMMA SnapshotPause ==
    ASSUME TypeOK, PauseInv, NEW r \in Request, Snapshot(r)
    PROVE  PauseInv'
<1>0. /\ job \in [Request -> JobRec] /\ clock \in Time /\ vm \in VMState
      /\ job[r] \in JobRec
  BY TypeParts
<1>1. \A q \in Request \ {r} : job'[q].at = job[q].at /\ job'[q].saw = job[q].saw
  BY <1>0, OtherCalls
<1>2. UNCHANGED <<files, deletion>>
  BY DEF Snapshot, GetState, PauseVM, PrepareDirs, Dump, ResumeVM, CopyBegins, CopyEnds, Rename, OnlyJob
<1> DEFINE Saw == job'[r].at \in {"pause", "undo", "resume"} => job'[r].saw = "Running"
           Safe == vm' = "Paused" =>
                       \/ held' # "nothing" \/ deletion # "none" \/ Holds(r)'
                       \/ vm = "Paused" /\ held' = held /\ ~Holds(r)
<1>3. Saw /\ Safe
  <2>f. job'[r] = Failed => ~Holds(r)' /\ Saw
    BY Stages DEF Holds, Holding
  <2>1. CASE GetState(r)
    <3>1. vm' = vm /\ held' = held /\ ~Holds(r)
      BY <2>1 DEF GetState, Holds, Holding
    <3>2. Saw
      BY <1>0, <2>1, <2>f, Moves DEF VMState
    <3> QED BY <3>1, <3>2
  <2>2. CASE PauseVM(r)
    <3>1. job[r].at = "pause" /\ job[r].saw = "Running" /\ ~Holds(r)
      BY <2>2 DEF PauseVM, PauseInv, SawRunning, Holds, Holding
    <3>2. CASE job'[r].at = "mkdir" /\ job'[r].saw = job[r].saw
      BY <3>1, <3>2 DEF Holds, Holding
    <3>3. CASE job'[r] = Failed
      <4>1. job'[r].at # "mkdir"
        BY <3>3, Stages
      <4>2. ~Goto(r, "mkdir")
        <5>1. Goto(r, "mkdir") => job'[r] = [job[r] EXCEPT !.at = "mkdir"]
          BY <1>0, BecomeViews DEF Goto
        <5> QED BY <1>0, <4>1, <5>1 DEF JobRec
      <4>3. UNCHANGED <<vm, held>> \/ held' = Left("Paused")
        BY <2>2, <4>2 DEF PauseVM
      <4> QED BY <2>f, <3>1, <3>3, <4>3 DEF Left
    <3> QED BY <1>0, <2>2, <3>2, <3>3, Moves
  <2>3. CASE PrepareDirs(r)
    <3>1. vm' = vm /\ job[r].at = "mkdir"
      BY <2>3 DEF PrepareDirs
    <3>2. CASE job'[r].at = "dump" /\ job'[r].saw = job[r].saw
      <4>1. Holds(r) = Holds(r)'
        BY <3>1, <3>2 DEF Holds, Holding
      <4>2. held' = held
        <5>1. ~Fail(r)
          BY <1>0, <3>2, Stages, BecomeViews DEF Fail
        <5> QED BY <2>3, <5>1 DEF PrepareDirs
      <4> QED BY <3>1, <3>2, <4>1, <4>2
    <3>3. CASE job'[r] = Failed
      <4>1. held' = IF job[r].saw = "Running" THEN Left(vm) ELSE held
        <5> DEFINE new == [job[r] EXCEPT !.at = "dump", !.stamp = clock]
        <5>0. new.at = "dump"
          BY <1>0 DEF JobRec
        <5>1. ASSUME Become(r, new, TempUsers) PROVE FALSE
          <6>1. job'[r] = new
            BY <5>1 DEF Become
          <6>2. job'[r].at = "dump"
            BY <5>0, <6>1, Zenon
          <6> QED BY <3>3, <6>2, Stages
        <5> QED BY <2>3, <5>1 DEF PrepareDirs
      <4>2. CASE job[r].saw = "Running"
        BY <2>f, <3>1, <3>3, <4>1, <4>2 DEF Left
      <4>3. CASE job[r].saw # "Running"
        BY <2>f, <3>1, <3>3, <4>1, <4>3 DEF Holds
      <4> QED BY <4>2, <4>3
    <3> QED BY <1>0, <2>3, <3>2, <3>3, Moves
  <2>4. CASE Dump(r)
    <3>1. vm' = vm /\ held' = held /\ job[r].at = "dump"
      BY <2>4 DEF Dump
    <3>2. \/ job[r].saw = "Running" /\ job'[r].saw = "Running" /\ job'[r].at \in {"resume", "undo"}
          \/ job[r].saw # "Running" /\ (job'[r].at = "copy" \/ job'[r] = Failed)
      BY <1>0, <2>4, Moves
    <3>3. CASE job[r].saw = "Running" /\ job'[r].saw = "Running" /\ job'[r].at \in {"resume", "undo"}
      BY <3>3 DEF Holds, Holding
    <3>4. CASE job[r].saw # "Running" /\ (job'[r].at = "copy" \/ job'[r] = Failed)
      BY <2>f, <3>1, <3>4 DEF Holds
    <3> QED BY <3>2, <3>3, <3>4
  <2>5. CASE ResumeVM(r)
    <3>1. Saw
      BY <1>0, <2>5, <2>f, Moves
    <3>2. vm' = "Paused" => held' # "nothing" \/ deletion # "none"
      BY <1>0, <2>5 DEF ResumeVM, Answers, PauseInv, Left, VMState
    <3> QED BY <3>1, <3>2
  <2>6. CASE CopyBegins(r) \/ CopyEnds(r) \/ Rename(r)
    <3>1. vm' = vm /\ held' = held /\ job[r].at \notin Holding
      BY <2>6 DEF CopyBegins, CopyEnds, Rename, Holding
    <3>2. job'[r] = Failed \/ job'[r].at \in {"copying", "rename", "done"}
      BY <1>0, <2>6, Moves
    <3> QED BY <2>f, <3>1, <3>2 DEF Holds
  <2> QED BY <2>1, <2>2, <2>3, <2>4, <2>5, <2>6 DEF Snapshot
<1>4. SawRunning'
  BY <1>1, <1>3 DEF PauseInv, SawRunning
<1>5. ASSUME vm' = "Paused", held' = "nothing", deletion = "none"
      PROVE  \E q \in Request : Holds(q)'
  <2>1. CASE Holds(r)'
    BY <2>1
  <2>2. CASE vm = "Paused" /\ held' = held /\ ~Holds(r)
    <3>1. PICK q \in Request : Holds(q)
      BY <1>5, <2>2 DEF PauseInv, NeverLeftPaused
    <3> QED BY <1>1, <2>2, <3>1 DEF Holds
  <2> QED BY <1>3, <1>5, <2>1, <2>2
<1> QED BY <1>2, <1>4, <1>5 DEF PauseInv, NeverLeftPaused

\* Every step keeps PauseInv.
LEMMA PauseStep == TypeOK /\ PauseInv /\ [Next]_vars => PauseInv'
<1> SUFFICES ASSUME TypeOK, PauseInv, [Next]_vars PROVE PauseInv'
  OBVIOUS
<1>0. job \in [Request -> JobRec] /\ vm \in VMState
  BY TypeParts
<1>k. ASSUME \A q \in Request : job'[q].at = job[q].at /\ job'[q].saw = job[q].saw,
             UNCHANGED <<vm, held>>,
             deletion = "none" => deletion' # "none" \/ files' = files,
             deletion # "none" => deletion' # "none"
      PROVE  PauseInv'
  BY <1>k DEF PauseInv, SawRunning, NeverLeftPaused, Holds
<1>1. CASE GuestWrites
  <2>1. \A q \in Request : job'[q].at = job[q].at /\ job'[q].saw = job[q].saw
    BY <1>0, <1>1, WrittenOnlyFlags DEF GuestWrites
  <2> QED BY <1>1, <2>1, <1>k DEF GuestWrites
<1>2. CASE VMEnds \/ Pause \/ Resume
  <2>1. job' = job /\ files' = files /\ deletion' = deletion
    BY <1>2 DEF VMEnds, Pause, Resume, ClientSets
  <2>2. vm' = "Paused" => held' # "nothing"
    BY <1>2 DEF VMEnds, Pause, Resume, ClientSets
  <2> QED BY <2>1, <2>2 DEF PauseInv, SawRunning, NeverLeftPaused
<1>3. CASE Tick \/ Restore \/ UNCHANGED vars
  <2>1. UNCHANGED <<job, files, deletion, vm, held>>
    BY <1>3 DEF Tick, Restore, RestoreBegins, RestoreDisk, RestoreState, StartRestored,
       ResumeRestored, InsertRestored, OnlyRestore, vars
  <2> QED BY <2>1, <1>k
<1>4. ASSUME NEW r \in Request, Snapshot(r) PROVE PauseInv'
  BY <1>4, SnapshotPause
<1>5. CASE Delete
  <2>1. \A q \in Request : job'[q].at = job[q].at /\ job'[q].saw = job[q].saw
    BY <1>0, <1>5, DeleteViews DEF Delete, DeleteEnds
  <2>2. UNCHANGED <<vm, held>> /\ deletion' # "none"
    BY <1>5 DEF Delete, DeleteBegins, RemoveOne, DeleteEnds
  <2> QED BY <2>1, <2>2, <1>k
<1>6. CASE Restart
  <2>1. \A q \in Request : ~Holds(q)' /\ job'[q].at \notin {"pause", "undo", "resume"}
    BY <1>6, Stages DEF Restart, Holds, Holding
  <2>2. vm' = vm /\ files' = files /\ (deletion' = "none" <=> deletion = "none")
    BY <1>6 DEF Restart
  <2>3. vm = "Paused" /\ deletion = "none" => held' # "nothing"
    <3>1. CASE \E r \in Request : Holds(r)
      BY <1>6, <3>1 DEF Restart, Left
    <3>2. CASE ~\E r \in Request : Holds(r)
      BY <1>6, <3>2 DEF Restart, PauseInv, NeverLeftPaused
    <3> QED BY <3>1, <3>2
  <2> QED BY <2>1, <2>2, <2>3 DEF PauseInv, SawRunning, NeverLeftPaused
<1> QED BY <1>1, <1>2, <1>3, <1>4, <1>5, <1>6 DEF Next

\* A VM is paused because a client's pause holds it, while a call will still resume
\* it, by a failure or in a DELETE, for any number of calls and clients and also
\* where the hypervisor was already in the state asked for (client.go:141-146).
THEOREM PausesEnd == Spec => []NeverLeftPaused
<1>1. Init => PauseInv
  BY Stages DEF Init, PauseInv, SawRunning, NeverLeftPaused
<1>2. PauseInv => NeverLeftPaused
  BY DEF PauseInv
<1> QED BY <1>1, <1>2, PauseStep, TypeCorrect, PTL DEF Spec

-----------------------------------------------------------------------------
(* DeletedLeavesNoData.  The invariant adds that the files the hypervisor   *)
(* and cp need are gone for good.                                          *)

NoData == \A t \in Time : snaps[t].disk = Missing /\ snaps[t].state \in {Missing, Empty}

DeletedInv == deleted => files = {} /\ temp \in {Missing, Empty} /\ NoData

\* A step of CreateSnapshot keeps DeletedInv.
LEMMA SnapshotDeleted ==
    ASSUME TypeOK, DeletedInv, deleted, NEW r \in Request, Snapshot(r)
    PROVE  DeletedInv'
<1>0. /\ job \in [Request -> JobRec] /\ SnapsOK /\ clock \in Time /\ job[r].stamp \in Time
      /\ files = {} /\ temp \in {Missing, Empty} /\ NoData
  BY TypeParts DEF JobRec, DeletedInv
<1>1. CASE GetState(r) \/ PauseVM(r) \/ ResumeVM(r)
  BY <1>0, <1>1 DEF GetState, PauseVM, ResumeVM, OnlyJob, DeletedInv, NoData
<1>2. CASE PrepareDirs(r)
  BY <1>0, <1>2 DEF PrepareDirs, OnlyJob, DeletedInv, NoData, SnapsOK, SnapRec
<1>3. CASE Dump(r)
  <2>1. ~CanDump
    BY <1>0 DEF CanDump, Answers
  <2> QED BY <1>0, <1>3, <2>1 DEF Dump, OnlyJob, DeletedInv, NoData
<1>4. CASE CopyBegins(r)
  BY <1>0, <1>4 DEF CopyBegins, OnlyJob, DeletedInv, NoData
<1>5. CASE CopyEnds(r)
  BY <1>0, <1>5 DEF CopyEnds, OnlyJob, DeletedInv, NoData
<1>6. CASE Rename(r)
  BY <1>0, <1>6 DEF Rename, CanRename, OnlyJob, DeletedInv, NoData, SnapsOK, SnapRec
<1> QED BY <1>1, <1>2, <1>3, <1>4, <1>5, <1>6 DEF Snapshot

\* Every step keeps DeletedInv.
LEMMA DeletedStep == TypeOK /\ DeletedInv /\ [Next]_vars => DeletedInv'
<1> SUFFICES ASSUME TypeOK, DeletedInv, [Next]_vars, deleted' PROVE DeletedInv'
  BY DEF DeletedInv
<1>0. job \in [Request -> JobRec] /\ SnapsOK /\ clock \in Time
  BY TypeParts
<1>1. CASE DeleteEnds
  <2>1. deleted \/ Gone
    BY <1>1 DEF DeleteEnds
  <2>2. Gone => files = {} /\ temp \in {Missing, Empty} /\ NoData
    BY DEF Gone, NoSnap, NoData
  <2> QED BY <1>1, <2>1, <2>2 DEF DeleteEnds, DeletedInv, NoData
<1>2. CASE ~DeleteEnds /\ deleted
  <2>0. files = {} /\ temp \in {Missing, Empty} /\ NoData
    BY <1>2 DEF DeletedInv
  <2>1. CASE GuestWrites \/ VMEnds \/ Tick \/ Pause \/ Resume \/ Restore \/ Restart \/ DeleteBegins
             \/ UNCHANGED vars
    BY <2>0, <2>1 DEF GuestWrites, VMEnds, Tick, Pause, Resume, ClientSets, Restart, Restore,
       RestoreBegins, RestoreDisk, RestoreState, StartRestored, ResumeRestored, InsertRestored,
       OnlyRestore, DeleteBegins, vars, DeletedInv, NoData
  <2>2. ASSUME NEW r \in Request, Snapshot(r) PROVE DeletedInv'
    BY <1>2, <2>2, SnapshotDeleted
  <2>3. CASE RemoveOne
    <3>1. files' = {} /\ temp' \in {Missing, Empty}
      BY <2>0, <2>3, Constants DEF RemoveOne, Fewer
    <3>2. NoData'
      <4>1. CASE snaps' = snaps
        BY <2>0, <4>1 DEF NoData
      <4>2. ASSUME NEW t \in Time,
                   \/ snaps' = [snaps EXCEPT ![t].disk = Missing]
                   \/ snaps' = [snaps EXCEPT ![t].state = Fewer(@)]
                   \/ snaps' = [snaps EXCEPT ![t] = NoSnap]
            PROVE  NoData'
        <5>1. Fewer(snaps[t].state) = Missing
          BY <2>0, Constants DEF Fewer, NoData
        <5> QED BY <1>0, <2>0, <4>2, <5>1 DEF NoData, SnapsOK, SnapRec, NoSnap
      <4> QED BY <2>3, <4>1, <4>2 DEF RemoveOne, Listed
    <3> QED BY <3>1, <3>2 DEF DeletedInv
  <2> QED BY <1>2, <2>1, <2>2, <2>3 DEF Next, Delete
<1>3. CASE ~DeleteEnds /\ ~deleted
  BY <1>3 DEF Next, vars, GuestWrites, VMEnds, Tick, Pause, Resume, ClientSets, Restart, Restore,
     RestoreBegins, RestoreDisk, RestoreState, StartRestored, ResumeRestored, InsertRestored,
     OnlyRestore, Snapshot, GetState, PauseVM, PrepareDirs, Dump, ResumeVM, CopyBegins, CopyEnds,
     Rename, OnlyJob, Delete, DeleteBegins, RemoveOne
<1> QED BY <1>1, <1>2, <1>3

\* After a DELETE answered with success no goroutine of CreateSnapshot, of any
\* number of them and wherever the walk of RemoveAll found it, brings data of the
\* sandbox back (actions.go:17-22, snapshot.go:82-98).
THEOREM DeletedStaysDeleted == Spec => []DeletedLeavesNoData
<1>1. Init => DeletedInv
  BY DEF Init, DeletedInv
<1>2. DeletedInv => DeletedLeavesNoData
  BY DEF DeletedInv, DeletedLeavesNoData, NoData
<1> QED BY <1>1, <1>2, DeletedStep, TypeCorrect, PTL DEF Spec

-----------------------------------------------------------------------------
(* LoneSnapshotSound.  What a call that nothing came across has on disk at  *)
(* each of its stages; no other call copies into its directory.            *)

Whole(r) ==
    LET s == snaps[job[r].stamp]
        later(disk, state) == disk = Torn \/ (disk \in Version /\ disk >= state)
    IN
    /\ job[r].at \in {"resume", "copy", "copying", "rename"} => temp \in Version /\ temp <= version
    /\ job[r].at \in {"resume", "copy", "copying"} /\ job[r].calm => temp = version
    /\ job[r].at = "copying" => s.disk = Torn /\ (job[r].calm => job[r].clean)
    /\ job[r].at = "rename" => later(s.disk, temp) /\ (job[r].calm => s.disk = temp)
    /\ job[r].at = "done" =>
          s.state \in Version /\ later(s.disk, s.state) /\ (job[r].calm => s.disk = s.state)
    /\ job[r].at \in {"copying", "rename", "done"} =>
          \A q \in Request \ {r} : job[q].at = "copying" => job[q].stamp # job[r].stamp

LoneInv == \A r \in Request : job[r].alone => Whole(r)

\* A call stays whole while others leave its files alone.
LEMMA WholeKept ==
    ASSUME NEW q \in Request, Whole(q), job'[q] = job[q], version' = version,
           job[q].at \in {"resume"} \cup Finalizing => temp' = temp,
           job[q].at \in {"copying", "rename", "done"} =>
               /\ snaps'[job[q].stamp].disk = snaps[job[q].stamp].disk
               /\ snaps'[job[q].stamp].state = snaps[job[q].stamp].state,
           \A p \in Request \ {q} : job'[p].at = "copying" /\ job'[p].stamp = job[q].stamp =>
               job[p].at = "copying" /\ job[p].stamp = job[q].stamp
    PROVE  Whole(q)'
<1>1. job[q].at \in {"resume", "copy", "copying", "rename"} => temp' = temp
  BY DEF Finalizing
<1>2. Version' = Version
  BY DEF Version
<1> QED BY <1>1, <1>2 DEF Whole

\* A step of call r leaves another call that is still alone as it was.
LEMMA OthersWhole ==
    ASSUME TypeOK, LoneInv, NEW r \in Request, Snapshot(r), NEW q \in Request \ {r}, job'[q].alone
    PROVE  Whole(q)'
<1>0. /\ job \in [Request -> JobRec] /\ SnapsOK /\ TempOK /\ clock \in Time /\ vm \in VMState
      /\ job[r].stamp \in Time /\ job[q].stamp \in Time
  BY TypeParts DEF JobRec
<1>1. job[q].alone /\ job'[q] = job[q] /\ Whole(q)
  BY <1>0, OtherCalls DEF LoneInv
<1>2. \A p \in Request \ {r} : job'[p].at = job[p].at /\ job'[p].stamp = job[p].stamp
  BY <1>0, OtherCalls
<1>3. version' = version
  BY DEF Snapshot, GetState, PauseVM, PrepareDirs, Dump, ResumeVM, CopyBegins, CopyEnds, Rename, OnlyJob
<1>b. ASSUME NEW new, NEW S, Become(r, new, S) PROVE q \notin S
  BY <1>0, <1>1, <1>b, BecomeViews
<1>4. job[q].at \in {"resume"} \cup Finalizing => temp' = temp
  <2>1. CASE q \in TempUsers
    <3>1. ~\E new : Become(r, new, TempUsers)
      BY <1>b, <2>1
    <3> QED BY <3>1 DEF Snapshot, GetState, PauseVM, PrepareDirs, Dump, Dumped, ResumeVM, CopyBegins,
                 CopyEnds, Rename
  <2> QED BY <2>1 DEF TempUsers
<1>5. job[q].at \in {"copying", "rename", "done"} =>
          /\ snaps'[job[q].stamp].disk = snaps[job[q].stamp].disk
          /\ snaps'[job[q].stamp].state = snaps[job[q].stamp].state
  <2> SUFFICES ASSUME job[q].at \in {"copying", "rename", "done"}
               PROVE  /\ snaps'[job[q].stamp].disk = snaps[job[q].stamp].disk
                      /\ snaps'[job[q].stamp].state = snaps[job[q].stamp].state
    OBVIOUS
  <2>1. CASE UNCHANGED snaps
    BY <2>1
  <2>2. CASE PrepareDirs(r)
    <3>1. snaps' = snaps \/ snaps' = [snaps EXCEPT ![clock].dir = TRUE]
      BY <2>2 DEF PrepareDirs
    <3> QED BY <1>0, <3>1 DEF SnapsOK, SnapRec
  <2>3. CASE CopyBegins(r)
    <3>1. CASE job[q].stamp = job[r].stamp
      <4>1. q \in SameDir(r)
        BY <3>1 DEF SameDir
      <4>2. ~\E new : Become(r, new, SameDir(r))
        BY <1>b, <4>1
      <4> QED BY <2>1, <2>3, <4>2 DEF CopyBegins
    <3>2. CASE job[q].stamp # job[r].stamp
      <4>1. snaps' = snaps \/ snaps' = [snaps EXCEPT ![job[r].stamp].disk = Torn]
        BY <2>3 DEF CopyBegins
      <4> QED BY <1>0, <3>2, <4>1 DEF SnapsOK
    <3> QED BY <3>1, <3>2
  <2>4. CASE CopyEnds(r)
    <3>1. job[q].stamp # job[r].stamp
      BY <1>1, <2>4 DEF CopyEnds, Whole
    <3>2. \A t \in Time : t # job[r].stamp => snaps'[t] = snaps[t]
      BY <1>0, <2>4 DEF CopyEnds, SnapsOK
    <3> QED BY <1>0, <3>1, <3>2
  <2>5. CASE Rename(r)
    <3>1. CASE job[q].stamp = job[r].stamp
      <4>1. CASE job[q].at = "done"
        <5>1. snaps[job[r].stamp].state # Missing
          BY <1>1, <3>1, <4>1, Constants DEF Whole
        <5> QED BY <2>5, <5>1 DEF Rename, CanRename
      <4>2. CASE job[q].at # "done"
        <5>1. q \in TempUsers
          BY <4>2 DEF TempUsers, Finalizing
        <5>2. ~\E new : Become(r, new, TempUsers)
          BY <1>b, <5>1
        <5> QED BY <2>5, <5>2 DEF Rename
      <4> QED BY <4>1, <4>2
    <3>2. CASE job[q].stamp # job[r].stamp
      <4>1. snaps' = snaps \/ snaps' = [snaps EXCEPT ![job[r].stamp].state = temp]
        BY <2>5 DEF Rename
      <4> QED BY <1>0, <3>2, <4>1 DEF SnapsOK
    <3> QED BY <3>1, <3>2
  <2> QED BY <2>1, <2>2, <2>3, <2>4, <2>5 DEF Snapshot, GetState, PauseVM, Dump, ResumeVM
<1>6. ASSUME NEW p \in Request \ {q}, job'[p].at = "copying", job'[p].stamp = job[q].stamp,
             job[q].at \in {"copying", "rename", "done"}
      PROVE  job[p].at = "copying" /\ job[p].stamp = job[q].stamp
  <2>1. CASE p # r
    BY <1>2, <1>6, <2>1
  <2>2. CASE p = r
    <3>1. CopyBegins(r)
      BY <1>0, <1>6, <2>2, Moves, Stages DEF Snapshot, VMState
    <3>2. job'[r].stamp = job[r].stamp /\ \E new : Become(r, new, SameDir(r))
      <4>1. job'[r] # Failed
        BY <1>6, <2>2, Stages
      <4>2. ~Fail(r)
        BY <1>0, <4>1, BecomeViews DEF Fail
      <4> QED BY <1>0, <3>1, <4>1, <4>2, Moves DEF CopyBegins
    <3>3. q \in SameDir(r)
      BY <1>6, <2>2, <3>2 DEF SameDir
    <3> QED BY <1>b, <3>2, <3>3
  <2> QED BY <2>1, <2>2
<1>7. CASE job[q].at \in {"copying", "rename", "done"}
  BY <1>1, <1>3, <1>4, <1>5, <1>6, <1>7, WholeKept
<1>8. CASE job[q].at \notin {"copying", "rename", "done"}
  <2>1. job[q].at \in {"resume", "copy"} => temp' = temp
    BY <1>4 DEF Finalizing
  <2> QED BY <1>1, <1>3, <1>8, <2>1 DEF Whole, Version
<1> QED BY <1>7, <1>8

\* A step of call r, alone before and after it, keeps what is said of it.
LEMMA SelfWhole ==
    ASSUME TypeOK, LoneInv, NEW r \in Request, Snapshot(r), job'[r].alone
    PROVE  Whole(r)'
<1> DEFINE t == job[r].stamp
<1>0. /\ job \in [Request -> JobRec] /\ SnapsOK /\ TempOK /\ clock \in Time /\ vm \in VMState
      /\ t \in Time /\ version \in Version
  BY TypeParts DEF JobRec
<1>1. job'[r] # Failed
  BY Stages
<1>2. ~Fail(r)
  BY <1>0, <1>1, BecomeViews DEF Fail
<1>3. version' = version /\ Version' = Version
  BY DEF Snapshot, GetState, PauseVM, PrepareDirs, Dump, ResumeVM, CopyBegins, CopyEnds, Rename, OnlyJob,
         Version
<1>4. ASSUME job'[r].at \notin {"resume", "copy", "copying", "rename", "done"} PROVE Whole(r)'
  BY <1>4 DEF Whole
<1>5. \A q \in Request \ {r} : job'[q].at = job[q].at /\ job'[q].stamp = job[q].stamp
  BY <1>0, OtherCalls
<1>6. CASE GetState(r)
  BY <1>0, <1>1, <1>4, <1>6, Moves
<1>7. CASE PauseVM(r) \/ PrepareDirs(r)
  BY <1>0, <1>1, <1>4, <1>7, Moves
<1>8. CASE Dump(r)
  <2>1. CASE job'[r].at = "undo"
    BY <1>4, <2>1
  <2>2. CASE temp' = version /\ job'[r].at \in {"resume", "copy"}
    BY <1>0, <1>3, <2>2, SnapshotsAssumption DEF Whole, Version
  <2> QED BY <1>0, <1>1, <1>8, <2>1, <2>2, Moves
<1>9. CASE ResumeVM(r)
  <2>1. /\ job[r].at = "resume" /\ job'[r].at = "copy"
        /\ job'[r].alone = job[r].alone /\ job'[r].calm = job[r].calm /\ temp' = temp
    <3>1. temp' = temp
      BY <1>9 DEF ResumeVM
    <3> QED BY <1>0, <1>1, <1>9, <3>1, Moves
  <2>2. Whole(r)
    BY <2>1 DEF LoneInv
  <2>3. temp \in Version /\ temp <= version /\ (job[r].calm => temp = version)
    BY <2>1, <2>2 DEF Whole
  <2> QED BY <1>3, <2>1, <2>3 DEF Whole
<1>10. CASE CopyBegins(r)
  <2>1. /\ job[r].at = "copy" /\ job'[r].at = "copying" /\ job'[r].stamp = t
        /\ job[r].alone /\ job'[r].calm = job[r].calm /\ job'[r].clean
        /\ \A q \in SameDir(r) : job[q].at # "copying"
    <3>1. job[r].at = "copy"
      BY <1>10 DEF CopyBegins
    <3> QED BY <1>0, <1>1, <1>10, <3>1, Moves
  <2>2. temp' = temp /\ snaps' = [snaps EXCEPT ![t].disk = Torn]
    BY <1>2, <1>10 DEF CopyBegins
  <2>3. snaps'[t].disk = Torn
    BY <1>0, <2>2 DEF SnapsOK, SnapRec
  <2>4. temp \in Version /\ temp <= version /\ (job[r].calm => temp = version)
    <3>1. Whole(r)
      BY <2>1 DEF LoneInv
    <3> QED BY <2>1, <3>1 DEF Whole
  <2>5. \A q \in Request \ {r} : job'[q].at = "copying" => job'[q].stamp # job'[r].stamp
    BY <1>5, <2>1 DEF SameDir
  <2> QED BY <1>3, <2>1, <2>2, <2>3, <2>4, <2>5 DEF Whole
<1>11. CASE CopyEnds(r)
  <2>1. /\ job[r].at = "copying" /\ job'[r].at = "rename" /\ job'[r].stamp = t
        /\ job[r].alone /\ job'[r].calm = job[r].calm
    <3>1. job[r].at = "copying"
      BY <1>11 DEF CopyEnds
    <3> QED BY <1>0, <1>1, <1>11, <3>1, Moves
  <2>2. /\ temp \in Version /\ temp <= version /\ (job[r].calm => temp = version /\ job[r].clean)
        /\ snaps[t].disk = Torn
        /\ \A q \in Request \ {r} : job[q].at = "copying" => job[q].stamp # t
    <3>1. Whole(r)
      BY <2>1 DEF LoneInv
    <3> QED BY <2>1, <3>1 DEF Whole
  <2>3. temp' = temp /\ snaps'[t].disk = IF job[r].clean THEN version ELSE Torn
    <3>1. snaps' = [snaps EXCEPT ![t].disk = IF job[r].clean THEN version ELSE Torn]
      BY <1>2, <1>11, <2>2, Constants DEF CopyEnds
    <3>2. temp' = temp
      BY <1>11 DEF CopyEnds
    <3> QED BY <1>0, <3>1, <3>2 DEF SnapsOK, SnapRec
  <2>4. \A q \in Request \ {r} : job'[q].at = "copying" => job'[q].stamp # job'[r].stamp
    BY <1>5, <2>1, <2>2
  <2> QED BY <1>0, <1>3, <2>1, <2>2, <2>3, <2>4 DEF Whole
<1>12. CASE Rename(r)
  <2>1. /\ job[r].at = "rename" /\ job'[r].at = "done" /\ job'[r].stamp = t
        /\ job[r].alone /\ job'[r].calm = job[r].calm
    <3>1. job[r].at = "rename"
      BY <1>12 DEF Rename
    <3> QED BY <1>0, <1>1, <1>12, <3>1, Moves
  <2>2. /\ temp \in Version
        /\ snaps[t].disk = Torn \/ (snaps[t].disk \in Version /\ snaps[t].disk >= temp)
        /\ job[r].calm => snaps[t].disk = temp
        /\ \A q \in Request \ {r} : job[q].at = "copying" => job[q].stamp # t
    <3>1. Whole(r)
      BY <2>1 DEF LoneInv
    <3> QED BY <2>1, <3>1 DEF Whole
  <2>3. snaps'[t].state = temp /\ snaps'[t].disk = snaps[t].disk
    <3>1. snaps' = [snaps EXCEPT ![t].state = temp]
      BY <1>2, <1>12 DEF Rename
    <3> QED BY <1>0, <3>1 DEF SnapsOK, SnapRec
  <2>4. \A q \in Request \ {r} : job'[q].at = "copying" => job'[q].stamp # job'[r].stamp
    BY <1>5, <2>1, <2>2
  <2> QED BY <1>3, <2>1, <2>2, <2>3, <2>4 DEF Whole
<1> QED BY <1>6, <1>7, <1>8, <1>9, <1>10, <1>11, <1>12 DEF Snapshot

\* Every step keeps LoneInv.
LEMMA LoneStep == TypeOK /\ LoneInv /\ [Next]_vars => LoneInv'
<1> SUFFICES ASSUME TypeOK, LoneInv, [Next]_vars, NEW q \in Request, job'[q].alone PROVE Whole(q)'
  BY DEF LoneInv
<1>0. job \in [Request -> JobRec] /\ SnapsOK /\ TempOK /\ version \in Version
  BY TypeParts
<1>k. ASSUME UNCHANGED <<version, temp, snaps, job>> PROVE Whole(q)'
  BY <1>k DEF LoneInv, Whole, Version
<1>1. CASE GuestWrites
  <2>1. \A p \in Request : job'[p].at = job[p].at /\ job'[p].stamp = job[p].stamp
    BY <1>0, <1>1, WrittenOnlyFlags DEF GuestWrites
  <2>2. /\ job[q].alone /\ (job'[q].calm => job[q].calm /\ job[q].at \notin {"resume", "copy", "copying"})
    BY <1>0, <1>1, WrittenOnlyFlags DEF GuestWrites
  <2>3. UNCHANGED <<snaps, temp>> /\ version' = version + 1 /\ Version' = Version
    BY <1>1 DEF GuestWrites, Version
  <2>4. Whole(q)
    BY <2>2 DEF LoneInv
  <2>5. temp \in Version /\ temp <= version => temp <= version'
    BY <1>0, <2>3, SnapshotsAssumption DEF Version
  <2> QED BY <2>1, <2>2, <2>3, <2>4, <2>5 DEF Whole
<1>2. CASE VMEnds \/ Tick \/ Pause \/ Resume \/ Restore \/ DeleteEnds \/ UNCHANGED vars
  BY <1>2, <1>k DEF VMEnds, Tick, Pause, Resume, ClientSets, Restore, RestoreBegins, RestoreDisk,
     RestoreState, StartRestored, ResumeRestored, InsertRestored, OnlyRestore, DeleteEnds, vars
<1>3. ASSUME NEW r \in Request, Snapshot(r) PROVE Whole(q)'
  <2>1. CASE q = r
    BY <1>3, <2>1, SelfWhole
  <2>2. CASE q # r
    BY <1>3, <2>2, OthersWhole
  <2> QED BY <2>1, <2>2
<1>4. CASE DeleteBegins \/ RemoveOne
  BY <1>0, <1>4, DeleteViews
<1>5. CASE Restart
  <2>1. \A p \in Request : job'[p] = job[p] \/ job'[p] = Failed
    BY <1>0, <1>5 DEF Restart
  <2>2. job'[q] = job[q] /\ job[q].at \in {"new", "done"}
    BY <1>0, <1>5, <2>1, Stages DEF Restart
  <2>3. \A p \in Request : job'[p].at # "copying"
    BY <1>0, <1>5, Stages DEF Restart
  <2>4. UNCHANGED <<version, snaps, temp>> /\ Version' = Version
    BY <1>5 DEF Restart, Version
  <2>5. Whole(q)
    BY <2>2 DEF LoneInv
  <2> QED BY <2>2, <2>3, <2>4, <2>5 DEF Whole
<1> QED BY <1>1, <1>2, <1>3, <1>4, <1>5 DEF Next, Delete

\* The snapshot of a call that no other call and no DELETE came across has the
\* memory of its dump and a disk no older, and is of one moment where the guest wrote
\* nothing, however other calls in other seconds and clients' pauses and resumes
\* interleave with it (snapshot.go:59-98).
THEOREM LoneSnapshots == Spec => []LoneSnapshotSound
<1>1. Init => LoneInv
  BY Stages DEF Init, LoneInv
<1>2. LoneInv => LoneSnapshotSound
  BY DEF LoneInv, Whole, LoneSnapshotSound
<1> QED BY <1>1, <1>2, LoneStep, TypeCorrect, PTL DEF Spec

-----------------------------------------------------------------------------
(* RestoredVMWhole.  The invariant follows what was copied back to the      *)
(* snapshot, which stays as it is while it is sound.                        *)

\* What the restore has copied is there; of a sound snapshot, it is its parts.
RestoreInv ==
    /\ restore.at \in {"state", "start", "resume", "insert"} => restore.disk # Missing
    /\ restore.at \in {"start", "resume", "insert"} => restore.cold \/ restore.state # Missing
    /\ restore.sound =>
          /\ restore.at \in {"disk", "state"} => Sound(restore.stamp)
          /\ restore.at = "state" => restore.disk = snaps[restore.stamp].disk
          /\ restore.at \in {"start", "resume", "insert"} =>
                restore.disk \in Version /\ (restore.cold \/ restore.state = restore.disk)

\* A sound snapshot has the disk and the memory of one moment.
LEMMA SoundParts ==
    ASSUME LoneInv, NEW t, Sound(t)
    PROVE  snaps[t].state \in Version /\ snaps[t].disk = snaps[t].state
  BY DEF LoneInv, Whole, Sound

\* A step of CreateSnapshot leaves the sound snapshot that is being restored as it
\* is, or marks the restore as one of a snapshot that is sound no more.
LEMMA SoundKept ==
    ASSUME TypeOK, LoneInv, NEW r \in Request, Snapshot(r), restore'.sound, Sound(restore.stamp)
    PROVE  /\ Sound(restore.stamp)'
           /\ snaps'[restore.stamp].disk = snaps[restore.stamp].disk
<1> DEFINE t == restore.stamp
<1>0. /\ job \in [Request -> JobRec] /\ SnapsOK /\ clock \in Time
      /\ job[r].stamp \in Time /\ restore \in RestoreRec /\ t \in Time
  BY TypeParts DEF JobRec, RestoreRec
<1>1. PICK q \in Request : job[q].at = "done" /\ job[q].stamp = t /\ job[q].alone /\ job[q].calm
  BY DEF Sound
<1>2. q # r
  BY <1>1 DEF Snapshot, GetState, PauseVM, PrepareDirs, Dump, ResumeVM, CopyBegins, CopyEnds, Rename
<1>3. restore'.stamp = t
  BY <1>0 DEF Snapshot, GetState, PauseVM, PrepareDirs, Dump, ResumeVM, CopyBegins, CopyEnds, Rename,
         RestoreRec
<1>4. CopyBegins(r) => \/ Fail(r) /\ UNCHANGED snaps
                       \/ /\ job[r].stamp # t
                          /\ snaps' = [snaps EXCEPT ![job[r].stamp].disk = Torn]
                          /\ \E new : Become(r, new, SameDir(r))
  BY <1>0 DEF CopyBegins, RestoreRec
<1>5. \E new, S : Become(r, new, S) /\ q \notin S
  <2>1. q \notin TempUsers
    BY <1>1 DEF TempUsers, Finalizing
  <2>2. CASE CopyBegins(r)
    <3>1. CASE Fail(r)
      BY <3>1 DEF Fail
    <3>2. CASE job[r].stamp # t
      <4>1. q \notin SameDir(r)
        BY <1>1, <3>2 DEF SameDir
      <4> QED BY <1>4, <2>2, <3>1, <4>1
    <3> QED BY <1>4, <2>2, <3>1, <3>2
  <2> QED BY <2>1, <2>2 DEF Snapshot, GetState, PauseVM, PrepareDirs, Dump, Dumped, ResumeVM, CopyEnds,
              Rename, Fail, Goto
<1>6. job'[q] = job[q]
  BY <1>0, <1>2, <1>5, BecomeViews
<1>7. Sound(t)'
  BY <1>1, <1>3, <1>6 DEF Sound
<1>8. snaps'[t].disk = snaps[t].disk
  <2>1. CASE UNCHANGED snaps
    BY <2>1
  <2>2. CASE PrepareDirs(r)
    <3>1. snaps' = snaps \/ snaps' = [snaps EXCEPT ![clock].dir = TRUE]
      BY <2>2 DEF PrepareDirs
    <3> QED BY <1>0, <3>1 DEF SnapsOK, SnapRec
  <2>3. CASE CopyBegins(r)
    BY <1>0, <1>4, <2>3 DEF SnapsOK
  <2>4. CASE CopyEnds(r)
    <3>1. job[r].stamp # t
      BY <1>1, <1>2, <2>4 DEF CopyEnds, LoneInv, Whole
    <3>2. \A u \in Time : u # job[r].stamp => snaps'[u] = snaps[u]
      BY <1>0, <2>4 DEF CopyEnds, SnapsOK
    <3> QED BY <1>0, <3>1, <3>2
  <2>5. CASE Rename(r)
    <3>1. snaps' = snaps \/ snaps' = [snaps EXCEPT ![job[r].stamp].state = temp]
      BY <2>5 DEF Rename
    <3> QED BY <1>0, <3>1 DEF SnapsOK, SnapRec
  <2> QED BY <2>1, <2>2, <2>3, <2>4, <2>5 DEF Snapshot, GetState, PauseVM, Dump, ResumeVM
<1> QED BY <1>7, <1>8

\* A step of Restore keeps RestoreInv.
LEMMA RestoreKept ==
    ASSUME TypeOK, LoneInv, RestoreInv, Restore
    PROVE  RestoreInv'
<1> DEFINE t == restore.stamp
<1>0. restore \in RestoreRec /\ SnapsOK
  BY TypeParts
<1>1. UNCHANGED <<snaps, job>> /\ Version' = Version /\ \A u : Sound(u)' = Sound(u)
  BY DEF Restore, RestoreBegins, RestoreDisk, RestoreState, StartRestored, ResumeRestored, InsertRestored,
     OnlyRestore, Sound, Version
<1>2. ASSUME NEW e \in {"done", "failed"}, restore' = Over(e) PROVE RestoreInv'
  BY <1>2 DEF Over, NoRestore, RestoreInv
<1>3. CASE RestoreBegins
  <2>1. ASSUME NEW u \in Listed, NEW cold \in BOOLEAN,
               restore' = [NoRestore EXCEPT !.at = "disk", !.stamp = u, !.cold = cold, !.sound = Sound(u)]
        PROVE  RestoreInv'
    <3>1. restore'.at = "disk" /\ restore'.stamp = u /\ restore'.sound = Sound(u)
      BY <2>1 DEF NoRestore
    <3> QED BY <1>1, <3>1 DEF RestoreInv
  <2> QED BY <1>2, <1>3, <2>1 DEF RestoreBegins
<1>4. CASE RestoreDisk
  <2>1. ASSUME snaps[t].disk # Missing,
               restore' = [restore EXCEPT !.disk = snaps[t].disk,
                                          !.at = IF restore.cold THEN "start" ELSE "state"]
        PROVE  RestoreInv'
    <3>1. /\ restore'.at = IF restore.cold THEN "start" ELSE "state"
          /\ restore'.disk = snaps[t].disk /\ restore'.stamp = t
          /\ restore'.cold = restore.cold /\ restore'.sound = restore.sound
      BY <1>0, <2>1 DEF RestoreRec
    <3>2. restore.sound => Sound(t) /\ snaps[t].disk \in Version
      BY <1>4, SoundParts DEF RestoreDisk, RestoreInv
    <3> QED BY <1>1, <2>1, <3>1, <3>2 DEF RestoreInv
  <2> QED BY <1>2, <1>4, <2>1 DEF RestoreDisk, Copied
<1>5. CASE RestoreState
  <2>1. ASSUME snaps[t].state # Missing,
               restore' = [restore EXCEPT !.state = snaps[t].state, !.at = "start"]
        PROVE  RestoreInv'
    <3>1. /\ restore'.at = "start" /\ restore'.state = snaps[t].state
          /\ restore'.disk = restore.disk /\ restore'.sound = restore.sound
      BY <1>0, <2>1 DEF RestoreRec
    <3>2. restore.sound => restore.disk \in Version /\ snaps[t].state = restore.disk
      BY <1>5, SoundParts DEF RestoreState, RestoreInv
    <3>3. restore.disk # Missing
      BY <1>5 DEF RestoreState, RestoreInv
    <3> QED BY <1>1, <2>1, <3>1, <3>2, <3>3 DEF RestoreInv
  <2> QED BY <1>2, <1>5, <2>1 DEF RestoreState, Copied
<1>6. CASE StartRestored \/ ResumeRestored \/ InsertRestored
  <2>1. ASSUME restore.at \in {"start", "resume"}, restore'.at \in {"resume", "insert"},
               restore'.disk = restore.disk, restore'.state = restore.state,
               restore'.cold = restore.cold, restore'.sound = restore.sound
        PROVE  RestoreInv'
    BY <1>1, <2>1 DEF RestoreInv
  <2>2. \/ \E e \in {"done", "failed"} : restore' = Over(e)
        \/ /\ restore.at \in {"start", "resume"}
           /\ \E a \in {"resume", "insert"} :
                 \/ \E v \in VMState : restore' = [restore EXCEPT !.at = a, !.vm = v]
                 \/ restore' = [restore EXCEPT !.at = a]
    BY <1>6 DEF StartRestored, ResumeRestored, InsertRestored, VMState
  <2> QED BY <1>0, <1>2, <2>1, <2>2 DEF RestoreRec
<1> QED BY <1>3, <1>4, <1>5, <1>6 DEF Restore

\* Every step keeps RestoreInv.
LEMMA RestoreStep == TypeOK /\ LoneInv /\ RestoreInv /\ [Next]_vars => RestoreInv'
<1> SUFFICES ASSUME TypeOK, LoneInv, RestoreInv, [Next]_vars PROVE RestoreInv'
  OBVIOUS
<1>0. job \in [Request -> JobRec] /\ SnapsOK /\ restore \in RestoreRec
  BY TypeParts
<1>k. ASSUME restore' = restore, snaps' = snaps, \A u : Sound(u) => Sound(u)' PROVE RestoreInv'
  BY <1>k DEF RestoreInv, Version
<1>1. CASE GuestWrites
  <2>1. ASSUME NEW u, Sound(u) PROVE Sound(u)'
    BY <1>0, <1>1, <2>1, WrittenOnlyFlags DEF GuestWrites, Sound
  <2> QED BY <1>1, <2>1, <1>k DEF GuestWrites
<1>2. CASE VMEnds \/ Tick \/ Pause \/ Resume \/ DeleteEnds \/ UNCHANGED vars
  <2>1. UNCHANGED <<restore, snaps, job>>
    BY <1>2 DEF VMEnds, Tick, Pause, Resume, ClientSets, DeleteEnds, vars
  <2> QED BY <2>1, <1>k DEF Sound
<1>3. ASSUME NEW r \in Request, Snapshot(r) PROVE RestoreInv'
  <2>1. \/ restore' = restore
        \/ restore' = [restore EXCEPT !.sound = @ /\ restore.stamp # job[r].stamp]
    BY <1>3 DEF Snapshot, GetState, PauseVM, PrepareDirs, Dump, ResumeVM, CopyBegins, CopyEnds, Rename
  <2>2. /\ restore'.at = restore.at /\ restore'.stamp = restore.stamp /\ restore'.cold = restore.cold
        /\ restore'.disk = restore.disk /\ restore'.state = restore.state
        /\ restore'.sound => restore.sound
    BY <1>0, <2>1 DEF RestoreRec
  <2>3. CASE ~restore'.sound
    BY <2>2, <2>3 DEF RestoreInv
  <2>4. CASE restore'.sound /\ restore.at \in {"disk", "state"}
    <3>1. Sound(restore.stamp)
      BY <2>2, <2>4 DEF RestoreInv
    <3>2. Sound(restore.stamp)' /\ snaps'[restore.stamp].disk = snaps[restore.stamp].disk
      BY <1>3, <2>4, <3>1, SoundKept
    <3> QED BY <2>2, <2>4, <3>2 DEF RestoreInv, Version
  <2>5. CASE restore'.sound /\ restore.at \notin {"disk", "state"}
    BY <2>2, <2>5 DEF RestoreInv, Version
  <2> QED BY <2>3, <2>4, <2>5
<1>4. CASE Restore
  BY <1>4, RestoreKept
<1>5. CASE DeleteBegins \/ RemoveOne
  <2>1. restore' = [restore EXCEPT !.sound = FALSE]
    BY <1>5 DEF DeleteBegins, RemoveOne
  <2> QED BY <1>0, <2>1 DEF RestoreInv, RestoreRec
<1>6. CASE Restart
  <2>1. CASE restore.at \in {"none", "done", "failed"}
    BY <1>6, <2>1 DEF Restart, RestoreInv
  <2>2. CASE restore.at \notin {"none", "done", "failed"}
    BY <1>6, <2>2 DEF Restart, Over, NoRestore, RestoreInv
  <2> QED BY <2>1, <2>2
<1> QED BY <1>1, <1>2, <1>3, <1>4, <1>5, <1>6 DEF Next, Delete

\* A restored VM never lacks a part, though it may have a torn one; from a snapshot
\* that stayed sound until its copies were made it has the disk and the memory of one
\* moment, whatever snapshots, DELETEs, failures and restarts come between the two cp
\* (restore.go:26-63).
THEOREM RestoredWhole == Spec => []RestoredVMWhole
<1>1. Init => LoneInv /\ RestoreInv
  BY Stages DEF Init, LoneInv, RestoreInv, NoRestore
<1>2. TypeOK /\ LoneInv /\ RestoreInv /\ [Next]_vars => (LoneInv /\ RestoreInv)'
  BY LoneStep, RestoreStep
<1>3. RestoreInv => RestoredVMWhole
  BY DEF RestoreInv, RestoredVMWhole
<1> QED BY <1>1, <1>2, <1>3, TypeCorrect, PTL DEF Spec

=============================================================================
