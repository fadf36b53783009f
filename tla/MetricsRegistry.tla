---------------------------- MODULE MetricsRegistry ----------------------------
(***************************************************************************)
(* metrics.Manager: the registry of sandboxes whose resource usage the     *)
(* server exports, and the poller that scrapes them.                       *)
(*                                                                         *)
(* Three kinds of goroutine touch it.  Request handlers call               *)
(* RegisterSandbox (end of a Create) and UnregisterSandbox (start of a     *)
(* Delete); one poller takes a snapshot of the registry at every tick; a   *)
(* bounded number of workers scrape one sandbox each.  The maps are        *)
(* guarded by m.mu, the exported series and gauges by nothing that spans   *)
(* two calls, and every step below is one lock section or one such call.   *)
(*                                                                         *)
(* One unit stands for what a sandbox is allocated (vCPUs, memory and disk *)
(* are three copies of the same arithmetic), one device for the devices of *)
(* a VM, and "usage" for its CPU and memory series; which series exist is   *)
(* modelled, the numbers in them are not.                                  *)
(***************************************************************************)
EXTENDS Integers, FiniteSets

CONSTANTS
    Sandbox,      \* ids of sandboxes
    Caller,       \* request handlers that can be in the manager at once
    Concurrency   \* cfg.Concurrency: workers of one poll

ASSUME MetricsAssumption ==
    /\ IsFiniteSet(Sandbox)
    /\ Concurrency \in Nat \ {0}

VARIABLES
    registered,   \* keys of m.alloc, m.vms and m.sbxNames, always set together
    total,        \* m.allocVcpu (and its memory and disk counterparts)
    gauge,        \* the exported hostAllocVcpu
    devices,      \* keys of m.diskDevs and m.netDevs
    lastDisk,     \* keys of m.lastDisk
    series,       \* exported series <<kind, sandbox, name label>>
    call,         \* request handlers inside the manager
    polling,      \* whether a poll is under way
    todo,         \* sandboxes of the snapshot no worker was started for
    work,         \* the worker of each sandbox
    created,      \* ids a Create registered, so that none does so again
    overlapped    \* ids removed while a poll, or their registration, was under way

registryVars == <<registered, total, devices, lastDisk>>
exportVars   == <<gauge, series>>
pollVars     == <<polling, todo, work>>
historyVars  == <<created, overlapped>>
vars == <<registryVars, exportVars, call, pollVars, historyVars>>

Label    == {"name", "unknown"}
Removed  == {"usage", "disk", "up"}   \* kinds UnregisterSandbox deletes for certain
Kind     == Removed \cup {"device"}
CallAt   == {"idle", "register", "setgauge", "labels", "remove", "lowergauge",
             "series", "devices"}
WorkAt   == {"none", "labels", "agent", "counters", "track", "device", "disk",
             "mark", "up"}

\* A call in progress: its place, its sandbox, the value or label it carries.
Idle == [at |-> "idle"]
CallState ==
    [at : {"idle"}] \cup
    [at : CallAt \ {"idle"}, id : Sandbox, sum : Int, label : Label]

NoWork == [at |-> "none", label |-> "unknown"]
WorkState == [at : WorkAt, label : Label]

TypeOK ==
    /\ registered \subseteq Sandbox /\ devices \subseteq Sandbox
    /\ lastDisk \subseteq Sandbox
    /\ total \in Int /\ gauge \in Int
    /\ series \subseteq Kind \X Sandbox \X Label
    /\ call \in [Caller -> CallState]
    /\ polling \in BOOLEAN /\ todo \subseteq Sandbox
    /\ work \in [Sandbox -> WorkState]
    /\ created \subseteq Sandbox /\ overlapped \subseteq Sandbox

Init ==
    /\ registered = {} /\ devices = {} /\ lastDisk = {}
    /\ total = 0 /\ gauge = 0
    /\ series = {}
    /\ call = [c \in Caller |-> Idle]
    /\ polling = FALSE /\ todo = {} /\ work = [s \in Sandbox |-> NoWork]
    /\ created = {} /\ overlapped = {}

-----------------------------------------------------------------------------
(* Request handlers.                                                       *)

\* Mutant: a sandbox that is not registered has the map's zero value as its name.
LabelOfBare(s) == IF s \in registered THEN "name" ELSE ""

\* What sandboxLabels returns: the name while it is registered.
LabelOf(s) == IF s \in registered THEN "name" ELSE "unknown"

Goes(c, place, s, n, l) ==
    call' = [call EXCEPT ![c] = [at |-> place, id |-> s, sum |-> n, label |-> l]]

\* A Create, or the registration of running sandboxes at start-up, calls in.
CallRegister(c, s) ==
    /\ call[c] = Idle
    /\ s \notin created
    /\ created' = created \cup {s}
    /\ Goes(c, "register", s, 0, "name")
    /\ UNCHANGED <<registryVars, exportVars, pollVars, overlapped>>

\* The lock section of RegisterSandbox; the total leaves it in a local variable.
RegisterLocked(c) ==
    LET s == call[c].id IN
    /\ call[c].at = "register"
    /\ registered' = registered \cup {s}
    /\ total' = (IF s \in registered THEN total - 1 ELSE total) + 1
    /\ overlapped' = IF \E d \in Caller : call[d].at = "remove" /\ call[d].id = s
                     THEN overlapped \cup {s} ELSE overlapped
    /\ Goes(c, "setgauge", s, total', "name")
    /\ UNCHANGED <<devices, lastDisk, exportVars, pollVars, created>>

\* The gauge is set after the lock is released.
RegisterGauge(c) ==
    /\ call[c].at = "setgauge"
    /\ gauge' = call[c].sum
    /\ call' = [call EXCEPT ![c] = Idle]
    /\ UNCHANGED <<registryVars, series, pollVars, historyVars>>

\* A Delete calls in: nothing there checks that the sandbox is registered.
CallUnregister(c, s) ==
    /\ call[c] = Idle
    /\ Goes(c, "labels", s, 0, "unknown")
    /\ UNCHANGED <<registryVars, exportVars, pollVars, historyVars>>

\* Mutant: the labels are read when the name is gone.
UnregisterLabelsLate(c) ==
    /\ call[c].at = "labels"
    /\ Goes(c, "remove", call[c].id, 0, "unknown")
    /\ UNCHANGED <<registryVars, exportVars, pollVars, historyVars>>

\* The labels of the series are read first, while the name is still known.
UnregisterLabels(c) ==
    /\ call[c].at = "labels"
    /\ Goes(c, "remove", call[c].id, 0, LabelOf(call[c].id))
    /\ UNCHANGED <<registryVars, exportVars, pollVars, historyVars>>

\* The poll under way still has s to scrape, or is scraping it.
BeingPolled(s) == s \in todo \/ work[s].at # "none"

\* Mutant: what the sandbox was allocated is given back each time it is asked for.
UnregisterLockedUnchecked(c) ==
    LET s == call[c].id IN
    /\ call[c].at = "remove"
    /\ registered' = registered \ {s}
    /\ devices' = devices \ {s} /\ lastDisk' = lastDisk \ {s}
    /\ total' = total - 1
    /\ overlapped' = IF BeingPolled(s) THEN overlapped \cup {s} ELSE overlapped
    /\ Goes(c, "lowergauge", s, total', call[c].label)
    /\ UNCHANGED <<exportVars, pollVars, created>>

\* The lock section of UnregisterSandbox.
UnregisterLocked(c) ==
    LET s == call[c].id IN
    /\ call[c].at = "remove"
    /\ registered' = registered \ {s}
    /\ devices' = devices \ {s} /\ lastDisk' = lastDisk \ {s}
    /\ total' = IF s \in registered THEN total - 1 ELSE total
    /\ overlapped' = IF BeingPolled(s) THEN overlapped \cup {s} ELSE overlapped
    /\ Goes(c, "lowergauge", s, total', call[c].label)
    /\ UNCHANGED <<exportVars, pollVars, created>>

UnregisterGauge(c) ==
    /\ call[c].at = "lowergauge"
    /\ gauge' = call[c].sum
    /\ Goes(c, "series", call[c].id, call[c].sum, call[c].label)
    /\ UNCHANGED <<registryVars, series, pollVars, historyVars>>

\* The series under the label read at the start of the call are deleted.
UnregisterSeries(c) ==
    LET s == call[c].id IN
    /\ call[c].at = "series"
    /\ series' = series \ (Removed \X {s} \X {call[c].label})
    /\ Goes(c, "devices", s, call[c].sum, call[c].label)
    /\ UNCHANGED <<registryVars, gauge, pollVars, historyVars>>

\* deleteDeviceMetrics goes through the devices the map still holds: the lock
\* section above emptied it, so only a worker that refilled it leaves any.
DeleteDeviceMetrics(c) ==
    LET s == call[c].id IN
    /\ call[c].at = "devices"
    /\ series' = IF s \in devices THEN series \ ({"device"} \X {s} \X {call[c].label})
                                  ELSE series
    /\ call' = [call EXCEPT ![c] = Idle]
    /\ UNCHANGED <<registryVars, gauge, pollVars, historyVars>>

Request(c) ==
    \/ \E s \in Sandbox : CallRegister(c, s) \/ CallUnregister(c, s)
    \/ RegisterLocked(c)   \/ RegisterGauge(c)
    \/ UnregisterLabels(c) \/ UnregisterLocked(c) \/ UnregisterGauge(c)
    \/ UnregisterSeries(c) \/ DeleteDeviceMetrics(c)

-----------------------------------------------------------------------------
(* The poller and its workers.                                             *)

\* The ticker fires and pollOnce copies m.vms; an empty copy ends the poll.
PollStart ==
    /\ ~polling
    /\ registered # {}
    /\ polling' = TRUE
    /\ todo' = registered
    /\ UNCHANGED <<registryVars, exportVars, call, work, historyVars>>

Busy == {s \in Sandbox : work[s].at # "none"}

\* A place in the semaphore is taken and a worker started.
StartWorker(s) ==
    /\ s \in todo
    /\ Cardinality(Busy) < Concurrency
    /\ todo' = todo \ {s}
    /\ work' = [work EXCEPT ![s] = [NoWork EXCEPT !.at = "labels"]]
    /\ UNCHANGED <<registryVars, exportVars, call, polling, historyVars>>

WorkLabels(s) ==
    /\ work[s].at = "labels"
    /\ work' = [work EXCEPT ![s].at = "agent", ![s].label = LabelOf(s)]
    /\ UNCHANGED <<registryVars, exportVars, call, polling, todo, historyVars>>

Set(kind, s) == series' = series \cup {<<kind, s, work[s].label>>}

\* Mutant: a worker whose guest agent does not answer gives up.
WorkAgentGivesUp(s) ==
    /\ work[s].at = "agent"
    /\ \/ work' = [work EXCEPT ![s].at = "counters"] /\ Set("usage", s)
       \/ work' = [work EXCEPT ![s] = NoWork] /\ UNCHANGED series
    /\ UNCHANGED <<registryVars, gauge, call, polling, todo, historyVars>>

\* The guest agent answers and its numbers are exported, or it does not.
WorkAgent(s) ==
    /\ work[s].at = "agent"
    /\ work' = [work EXCEPT ![s].at = "counters"]
    /\ Set("usage", s) \/ UNCHANGED series
    /\ UNCHANGED <<registryVars, gauge, call, polling, todo, historyVars>>

\* The hypervisor's vm.counters answers, with devices, or it does not.
WorkCounters(s) ==
    /\ work[s].at = "counters"
    /\ \/ work' = [work EXCEPT ![s].at = "track"] /\ Set("usage", s)
       \/ work' = [work EXCEPT ![s].at = "disk"] /\ UNCHANGED series
    /\ UNCHANGED <<registryVars, gauge, call, polling, todo, historyVars>>

\* trackDiskDevice and trackNetDevice do not look whether s is registered.
WorkTrack(s) ==
    /\ work[s].at = "track"
    /\ devices' = devices \cup {s}
    /\ work' = [work EXCEPT ![s].at = "device"]
    /\ UNCHANGED <<registered, total, lastDisk, exportVars, call, polling, todo,
                   historyVars>>

WorkDevice(s) ==
    /\ work[s].at = "device"
    /\ Set("device", s)
    /\ work' = [work EXCEPT ![s].at = "disk"]
    /\ UNCHANGED <<registryVars, gauge, call, polling, todo, historyVars>>

\* shouldScrapeDisk: always due when never done before, else when it is time.
\* The overlay may be gone; the scrape is marked all the same.
WorkDisk(s) ==
    /\ work[s].at = "disk"
    /\ \/ /\ work' = [work EXCEPT ![s].at = "mark"]
          /\ Set("disk", s) \/ UNCHANGED series
       \/ /\ s \in lastDisk
          /\ work' = [work EXCEPT ![s].at = "up"]
          /\ UNCHANGED series
    /\ UNCHANGED <<registryVars, gauge, call, polling, todo, historyVars>>

WorkMark(s) ==
    /\ work[s].at = "mark"
    /\ lastDisk' = lastDisk \cup {s}
    /\ work' = [work EXCEPT ![s].at = "up"]
    /\ UNCHANGED <<registered, total, devices, exportVars, call, polling, todo,
                   historyVars>>

\* The up series is set, to 1 if either answered, and the place given back.
WorkUp(s) ==
    /\ work[s].at = "up"
    /\ Set("up", s)
    /\ work' = [work EXCEPT ![s] = NoWork]
    /\ UNCHANGED <<registryVars, gauge, call, polling, todo, historyVars>>

Work(s) ==
    \/ WorkLabels(s) \/ WorkAgent(s) \/ WorkCounters(s) \/ WorkTrack(s)
    \/ WorkDevice(s) \/ WorkDisk(s) \/ WorkMark(s) \/ WorkUp(s)

\* wg.Wait() returns when every worker is done.
PollEnd ==
    /\ polling
    /\ todo = {} /\ Busy = {}
    /\ polling' = FALSE
    /\ UNCHANGED <<registryVars, exportVars, call, todo, work, historyVars>>

Poller == PollStart \/ (\E s \in Sandbox : StartWorker(s) \/ Work(s)) \/ PollEnd

Next == (\E c \in Caller : Request(c)) \/ Poller

Spec == Init /\ [][Next]_vars

\* The ticker goes on firing and each scrape has a deadline of two seconds.
FairSpec ==
    /\ Spec
    /\ WF_vars(PollStart) /\ WF_vars(PollEnd)
    /\ \A s \in Sandbox : WF_vars(StartWorker(s)) /\ WF_vars(Work(s))

-----------------------------------------------------------------------------
(* Properties.                                                             *)

\* The running total is the sum over the map it was computed from, whatever
\* repeated or early calls to UnregisterSandbox (manager.go:463-468) happen.
TotalIsSum == total = Cardinality(registered)

NoCall(s) == \A c \in Caller : call[c] = Idle \/ call[c].id # s

\* A sandbox that was removed, while no poll had it to scrape and not in the
\* middle of its own registration, has none of its usage, disk or up series left
\* once the removal is over (manager.go:455, 478-481).
SeriesGoWithSandbox ==
    \A s \in Sandbox \ (registered \cup overlapped) :
        NoCall(s) => \A k \in Removed, l \in Label : <<k, s, l>> \notin series

\* Every registered sandbox is reported, however few workers there are and
\* however many scrapes fail (manager.go:505-587).
EachIsReported ==
    \A s \in Sandbox :
        s \in registered ~> \E l \in Label : <<"up", s, l>> \in series \/ s \notin registered
=============================================================================
