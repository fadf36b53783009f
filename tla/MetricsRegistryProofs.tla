------------------------- MODULE MetricsRegistryProofs -------------------------
(***************************************************************************)
(* Theorems about MetricsRegistry, for every number of sandboxes, request  *)
(* handlers and workers.                                                   *)
(***************************************************************************)
EXTENDS MetricsRegistry, FiniteSetTheorems, TLAPS

\* Request handlers and workers change their own entries only.
LEMMA CallType ==
    ASSUME call \in [Caller -> CallState],
           NEW c \in Caller, NEW place \in CallAt \ {"idle"}, NEW s \in Sandbox,
           NEW n \in Int, NEW l \in Label, Goes(c, place, s, n, l)
    PROVE  call' \in [Caller -> CallState]
BY DEF Goes, CallState

\* The state functions have their types in every reachable state.
THEOREM TypeCorrect == Spec => []TypeOK
<1>1. Init => TypeOK
  <2>1. Idle \in CallState
    BY DEF Idle, CallState
  <2>2. NoWork \in WorkState
    BY DEF NoWork, WorkState, WorkAt, Label
  <2>3. Init => call \in [Caller -> CallState] /\ work \in [Sandbox -> WorkState]
    BY <2>1, <2>2 DEF Init
  <2>4. Init => polling \in BOOLEAN
    BY Zenon DEF Init
  <2> QED
    BY <2>3, <2>4 DEF Init, TypeOK
<1>2. TypeOK /\ [Next]_vars => TypeOK'
  <2> SUFFICES ASSUME TypeOK, [Next]_vars PROVE TypeOK'
    OBVIOUS
  <2> USE DEF TypeOK, registryVars, exportVars, pollVars, historyVars
  <2>1. ASSUME NEW c \in Caller, Request(c) PROVE TypeOK'
    <3> USE DEF CallAt, Label
    <3>1. ASSUME NEW s \in Sandbox, CallRegister(c, s) PROVE TypeOK'
      <4>1. call' \in [Caller -> CallState]
        BY <3>1, CallType DEF CallRegister
      <4> QED
        BY <3>1, <4>1 DEF CallRegister
    <3>2. ASSUME NEW s \in Sandbox, CallUnregister(c, s) PROVE TypeOK'
      <4>1. call' \in [Caller -> CallState]
        BY <3>2, CallType DEF CallUnregister
      <4> QED
        BY <3>2, <4>1 DEF CallUnregister
    <3>3. CASE RegisterLocked(c)
      <4>1. call[c].id \in Sandbox
        BY <3>3 DEF RegisterLocked, CallState
      <4>2. total' \in Int
        BY <3>3 DEF RegisterLocked
      <4>3. call' \in [Caller -> CallState]
        BY <3>3, <4>1, <4>2, CallType DEF RegisterLocked
      <4> QED
        BY <3>3, <4>1, <4>2, <4>3 DEF RegisterLocked
    <3>4. CASE RegisterGauge(c)
      BY <3>4 DEF RegisterGauge, CallState, Idle
    <3>5. CASE UnregisterLabels(c)
      <4>1. call[c].id \in Sandbox
        BY <3>5 DEF UnregisterLabels, CallState
      <4>2. call' \in [Caller -> CallState]
        BY <3>5, <4>1, CallType DEF UnregisterLabels, LabelOf
      <4> QED
        BY <3>5, <4>2 DEF UnregisterLabels
    <3>6. CASE UnregisterLocked(c)
      <4>1. call[c].id \in Sandbox /\ call[c].label \in Label
        BY <3>6 DEF UnregisterLocked, CallState
      <4>2. total' \in Int
        BY <3>6 DEF UnregisterLocked
      <4>3. call' \in [Caller -> CallState]
        BY <3>6, <4>1, <4>2, CallType DEF UnregisterLocked
      <4> QED
        BY <3>6, <4>1, <4>2, <4>3 DEF UnregisterLocked
    <3>7. CASE UnregisterGauge(c) \/ UnregisterSeries(c)
      <4>1. call[c].id \in Sandbox /\ call[c].sum \in Int /\ call[c].label \in Label
        BY <3>7 DEF UnregisterGauge, UnregisterSeries, CallState
      <4>2. call' \in [Caller -> CallState]
        BY <3>7, <4>1, CallType DEF UnregisterGauge, UnregisterSeries
      <4> QED
        BY <3>7, <4>1, <4>2 DEF UnregisterGauge, UnregisterSeries
    <3>8. CASE DeleteDeviceMetrics(c)
      BY <3>8 DEF DeleteDeviceMetrics, CallState, Idle
    <3> QED
      BY <2>1, <3>1, <3>2, <3>3, <3>4, <3>5, <3>6, <3>7, <3>8 DEF Request
  <2>2. CASE PollStart \/ PollEnd
    BY <2>2 DEF PollStart, PollEnd
  <2>3. ASSUME NEW s \in Sandbox, StartWorker(s) \/ Work(s) PROVE TypeOK'
    <3>1. work' \in [Sandbox -> WorkState]
      <4> USE DEF WorkState, WorkAt, Label
      <4>1. CASE StartWorker(s)
        <5>1. [NoWork EXCEPT !.at = "labels"] \in WorkState
          BY DEF NoWork
        <5> QED
          BY <4>1, <5>1 DEF StartWorker
      <4>2. CASE WorkLabels(s)
        BY <4>2, ZenonT(40) DEF WorkLabels, LabelOf
      <4>3. CASE WorkAgent(s)
        BY <4>3 DEF WorkAgent
      <4>4. CASE WorkCounters(s)
        BY <4>4 DEF WorkCounters
      <4>5. CASE WorkTrack(s) \/ WorkDevice(s) \/ WorkDisk(s) \/ WorkMark(s)
        BY <4>5 DEF WorkTrack, WorkDevice, WorkDisk, WorkMark
      <4>6. CASE WorkUp(s)
        BY <4>6 DEF WorkUp, NoWork
      <4> QED
        BY <2>3, <4>1, <4>2, <4>3, <4>4, <4>5, <4>6 DEF Work
    <3>2. series' \subseteq Kind \X Sandbox \X Label
      BY <2>3 DEF StartWorker, Work, WorkLabels, WorkAgent, WorkCounters, WorkTrack,
                  WorkDevice, WorkDisk, WorkMark, WorkUp, WorkState, Set, Kind, Removed
    <3> QED
      BY <2>3, <3>1, <3>2 DEF StartWorker, Work, WorkLabels, WorkAgent, WorkCounters,
                  WorkTrack, WorkDevice, WorkDisk, WorkMark, WorkUp
  <2>4. CASE UNCHANGED vars
    BY <2>4 DEF vars
  <2> QED
    BY <2>1, <2>2, <2>3, <2>4 DEF Next, Poller
<1> QED
  BY <1>1, <1>2, PTL DEF Spec

\* However often and early UnregisterSandbox is called, the running total is
\* that of the sandboxes registered (manager.go:432-440, 463-468).
THEOREM TotalCorrect == Spec => []TotalIsSum
<1>1. Init => TotalIsSum
  BY FS_EmptySet DEF Init, TotalIsSum
<1>2. TypeOK /\ TotalIsSum /\ [Next]_vars => TotalIsSum'
  <2> SUFFICES ASSUME TypeOK, TotalIsSum, [Next]_vars PROVE TotalIsSum'
    OBVIOUS
  <2>1. IsFiniteSet(registered)
    BY MetricsAssumption, FS_Subset DEF TypeOK
  <2>2. ASSUME NEW c \in Caller, RegisterLocked(c) PROVE TotalIsSum'
    <3>1. Cardinality(registered \cup {call[c].id}) =
            IF call[c].id \in registered THEN Cardinality(registered)
                                         ELSE Cardinality(registered) + 1
      BY <2>1, FS_AddElement
    <3> QED
      BY <2>1, <2>2, <3>1, FS_CardinalityType DEF RegisterLocked, TotalIsSum, TypeOK
  <2>3. ASSUME NEW c \in Caller, UnregisterLocked(c) PROVE TotalIsSum'
    <3>1. Cardinality(registered \ {call[c].id}) =
            IF call[c].id \in registered THEN Cardinality(registered) - 1
                                         ELSE Cardinality(registered)
      BY <2>1, FS_RemoveElement
    <3> QED
      BY <2>3, <3>1 DEF UnregisterLocked, TotalIsSum
  <2>4. ASSUME UNCHANGED <<registered, total>> PROVE TotalIsSum'
    BY <2>4 DEF TotalIsSum
  <2>5. \/ \E c \in Caller : RegisterLocked(c) \/ UnregisterLocked(c)
        \/ UNCHANGED <<registered, total>>
    BY DEF Next, Request, CallRegister, RegisterGauge, CallUnregister, UnregisterLabels,
           UnregisterGauge, UnregisterSeries, DeleteDeviceMetrics, Poller, PollStart,
           PollEnd, StartWorker, Work, WorkLabels, WorkAgent, WorkCounters, WorkTrack,
           WorkDevice, WorkDisk, WorkMark, WorkUp, vars, registryVars
  <2> QED
    BY <2>2, <2>3, <2>4, <2>5
<1> QED
  BY <1>1, <1>2, TypeCorrect, PTL DEF Spec
-----------------------------------------------------------------------------
(* SeriesGoWithSandbox is not inductive: what makes it so is that a removal *)
(* under way knows the label of whatever it still has to delete.            *)

\* Polls only know sandboxes that are registered, or were when they began.
PolledAreKnown ==
    \A s \in Sandbox : BeingPolled(s) => s \in registered \cup overlapped

\* Outside the races that overlapped records, every label read is the name.
LabelsAreNames ==
    \A s \in Sandbox \ overlapped :
        /\ work[s].at \notin {"none", "labels"} => work[s].label = "name"
        /\ \A k \in Removed : <<k, s, "unknown">> \notin series
        /\ \A c \in Caller :
              (s \in registered /\ call[c].at = "remove" /\ call[c].id = s)
                  => call[c].label = "name"

\* The request c has still to delete the series of s.
WillDelete(c, s) ==
    /\ call[c].at \in {"lowergauge", "series"}
    /\ call[c].id = s
    /\ call[c].label = "name"

\* Series of a sandbox that is no longer registered are about to be deleted.
RemovalUnderWay ==
    \A s \in Sandbox \ (registered \cup overlapped) :
        (\E k \in Removed : <<k, s, "name">> \in series)
            => \E c \in Caller : WillDelete(c, s)

SeriesInv == PolledAreKnown /\ LabelsAreNames /\ RemovalUnderWay
\* What a worker past its first step leaves alone: it exports under its label.
LEMMA WorkFrame ==
    ASSUME TypeOK, NEW s \in Sandbox, Work(s), work[s].at # "labels"
    PROVE  /\ work[s].at \notin {"none", "labels"}
           /\ \A r \in Sandbox \ {s} : work'[r] = work[r]
           /\ \/ work'[s].at = "none"
              \/ work'[s].at # "labels" /\ work'[s].label = work[s].label
           /\ \A k, r, l : <<k, r, l>> \in series' =>
                 <<k, r, l>> \in series \/ (r = s /\ l = work[s].label)
           /\ UNCHANGED <<registered, overlapped, todo, call>>
<1> USE DEF TypeOK, WorkState, registryVars, historyVars, Set
<1>1. CASE WorkAgent(s)
  BY <1>1 DEF WorkAgent
<1>2. CASE WorkCounters(s)
  BY <1>2 DEF WorkCounters
<1>3. CASE WorkTrack(s) \/ WorkMark(s)
  BY <1>3 DEF WorkTrack, WorkMark, exportVars
<1>4. CASE WorkDevice(s)
  BY <1>4 DEF WorkDevice
<1>5. CASE WorkDisk(s)
  BY <1>5 DEF WorkDisk
<1>6. CASE WorkUp(s)
  BY <1>6 DEF WorkUp, NoWork
<1>7. CASE WorkLabels(s)
  BY <1>7 DEF WorkLabels
<1> QED
  BY <1>1, <1>2, <1>3, <1>4, <1>5, <1>6, <1>7 DEF Work

\* The strengthening holds in every state.
LEMMA SeriesInvariant == Spec => []SeriesInv
<1>1. Init => SeriesInv
  BY DEF Init, SeriesInv, PolledAreKnown, BeingPolled, LabelsAreNames, RemovalUnderWay,
         NoWork, Idle
<1>2. TypeOK /\ SeriesInv /\ [Next]_vars => SeriesInv'
  <2> SUFFICES ASSUME TypeOK, SeriesInv, [Next]_vars PROVE SeriesInv'
    OBVIOUS
  <2> USE DEF TypeOK, SeriesInv, registryVars, exportVars, pollVars, historyVars,
              PolledAreKnown, BeingPolled, LabelsAreNames, RemovalUnderWay, WillDelete
  <2>1. ASSUME NEW c \in Caller, Request(c) PROVE SeriesInv'
    <3> USE DEF Goes, CallState
    <3>1. ASSUME NEW s \in Sandbox, CallRegister(c, s) \/ CallUnregister(c, s)
          PROVE  SeriesInv'
      <4>1. /\ call[c] = Idle /\ call'[c].at \in {"register", "labels"}
            /\ \A d \in Caller \ {c} : call'[d] = call[d]
            /\ UNCHANGED <<registered, overlapped, series, work, todo>>
        BY <3>1 DEF CallRegister, CallUnregister
      <4>2. \A r \in Sandbox : ~WillDelete(c, r)
        BY <4>1 DEF Idle
      <4> QED
        BY <4>1, <4>2
    <3>3. CASE RegisterLocked(c)
      <4>1. /\ call[c].at = "register" /\ call'[c].at = "setgauge"
            /\ \A d \in Caller \ {c} : call'[d] = call[d]
            /\ registered' = registered \cup {call[c].id}
            /\ overlapped \subseteq overlapped'
            /\ UNCHANGED <<series, work, todo>>
        BY <3>3 DEF RegisterLocked
      <4>2. \A d \in Caller : (call[d].at = "remove" /\ call[d].id = call[c].id)
                                  => call[c].id \in overlapped'
        BY <3>3 DEF RegisterLocked
      <4>3. PolledAreKnown' /\ LabelsAreNames'
        BY <4>1, <4>2
      <4>4. RemovalUnderWay'
        BY <4>1
      <4> QED
        BY <4>3, <4>4
    <3>4. CASE RegisterGauge(c) \/ DeleteDeviceMetrics(c)
      BY <3>4 DEF RegisterGauge, DeleteDeviceMetrics, Idle, Removed
    <3>5. CASE UnregisterLabels(c)
      BY <3>5, SMTT(20) DEF UnregisterLabels, LabelOf
    <3>6. CASE UnregisterLocked(c)
      BY <3>6 DEF UnregisterLocked, BeingPolled
    <3>7. CASE UnregisterGauge(c)
      BY <3>7 DEF UnregisterGauge
    <3>8. CASE UnregisterSeries(c)
      <4>1. /\ call'[c].at = "devices" /\ call[c].at = "series"
            /\ \A d \in Caller \ {c} : call'[d] = call[d]
            /\ UNCHANGED <<registered, overlapped, work, todo>>
            /\ series' \subseteq series
        BY <3>8 DEF UnregisterSeries
      <4>2. \A r \in Sandbox, k \in Removed :
              WillDelete(c, r) => <<k, r, "name">> \notin series'
        BY <3>8 DEF UnregisterSeries
      <4>3. PolledAreKnown' /\ LabelsAreNames'
        BY <4>1
      <4>4. RemovalUnderWay'
        BY <4>1, <4>2
      <4> QED
        BY <4>3, <4>4
    <3> QED
      BY <2>1, <3>1, <3>3, <3>4, <3>5, <3>6, <3>7, <3>8 DEF Request
  <2>2. CASE PollStart \/ PollEnd
    BY <2>2 DEF PollStart, PollEnd
  <2>3. ASSUME NEW s \in Sandbox, StartWorker(s) PROVE SeriesInv'
    <3>1. work'[s].at = "labels" /\ \A r \in Sandbox \ {s} : work'[r] = work[r]
      BY <2>3 DEF StartWorker, NoWork
    <3>2. UNCHANGED <<registered, overlapped, series, call>> /\ todo' = todo \ {s}
      BY <2>3 DEF StartWorker
    <3>3. PolledAreKnown' /\ s \in todo
      BY <2>3, <3>1, <3>2 DEF StartWorker
    <3>4. LabelsAreNames'
      BY <3>1, <3>2
    <3>5. RemovalUnderWay'
      BY <3>1, <3>2
    <3> QED
      BY <3>3, <3>4, <3>5
  <2>4. ASSUME NEW s \in Sandbox, WorkLabels(s) PROVE SeriesInv'
    <3>1. /\ work[s].at = "labels"
          /\ work'[s].at = "agent" /\ work'[s].label = LabelOf(s)
          /\ \A r \in Sandbox \ {s} : work'[r] = work[r]
          /\ UNCHANGED <<registered, overlapped, series, call, todo>>
      BY <2>4 DEF WorkLabels, WorkState
    <3>2. s \in registered \cup overlapped
      BY <3>1
    <3>3. PolledAreKnown'
      BY <3>1, <3>2
    <3>4. LabelsAreNames'
      BY <3>1, <3>2 DEF LabelOf
    <3> QED
      BY <3>1, <3>3, <3>4
  <2>5. ASSUME NEW s \in Sandbox, Work(s), work[s].at # "labels" PROVE SeriesInv'
    <3> DEFINE Frame ==
          /\ work[s].at \notin {"none", "labels"}
          /\ \A r \in Sandbox \ {s} : work'[r] = work[r]
          /\ \/ work'[s].at = "none"
             \/ work'[s].at # "labels" /\ work'[s].label = work[s].label
          /\ \A k, r, l : <<k, r, l>> \in series' =>
                <<k, r, l>> \in series \/ (r = s /\ l = work[s].label)
          /\ UNCHANGED <<registered, overlapped, todo, call>>
    <3>1. Frame
      BY <2>5, WorkFrame
    <3>2. s \in registered \cup overlapped
      BY <3>1
    <3>3. s \notin overlapped => work[s].label = "name"
      BY <3>1
    <3>4. PolledAreKnown'
      BY <3>1, <3>2
    <3>5. LabelsAreNames'
      BY <3>1, <3>3
    <3>6. RemovalUnderWay'
      BY <3>1, <3>2
    <3> QED
      BY <3>4, <3>5, <3>6
  <2>6. CASE UNCHANGED vars
    BY <2>6 DEF vars
  <2> QED
    BY <2>1, <2>2, <2>3, <2>4, <2>5, <2>6 DEF Next, Poller, Work, WorkAgent, WorkCounters,
       WorkTrack, WorkDevice, WorkDisk, WorkMark, WorkUp
<1> QED
  BY <1>1, <1>2, TypeCorrect, PTL DEF Spec

\* The series of a removed sandbox are gone once the removal is over, unless a
\* poll or its registration overlapped it (manager.go:455-481).
THEOREM SeriesGo == Spec => []SeriesGoWithSandbox
<1>1. TypeOK /\ SeriesInv => SeriesGoWithSandbox
  BY DEF SeriesInv, LabelsAreNames, RemovalUnderWay, WillDelete, SeriesGoWithSandbox,
         NoCall, Label, Idle
<1> QED
  BY <1>1, TypeCorrect, SeriesInvariant, PTL
=============================================================================
