# A TLA+ model of voidrun

voidrun is a Go server that runs sandboxes, small virtual machines under cloud-hypervisor, for
organisations that authenticate with API keys. It keeps sandboxes, images, users, organisations
and keys in MongoDB, the files and devices of each VM on the host, and a few maps in memory. No
transaction spans these places, handlers run concurrently, and the server can stop anywhere. The
agent inside each guest is not in this repository; it is modelled from how the server uses it.

This directory holds the specifications, the instances TLC checks, and proofs for TLAPS.
Paths below are relative to `src/`.

## The system

| component | state | operations | interacts with | what is hard | what makes it correct |
|---|---|---|---|---|---|
| Sandbox lifecycle: `internal/service/sandbox.go`, `internal/repository/sandbox.go`, `pkg/machine`, `pkg/network`, `pkg/storage` | `allocatedIPs` (memory); instance directory with vm.pid, vm.tap, vm.sock; TAP device; hypervisor process; document | Create, Delete, Get, List; Stop, Pause, Resume, Restore, Snapshot exist without routes (see Snapshots) | hypervisor API, kernel, MongoDB, metrics | ten steps of Create each of which may fail; two DELETEs at once, DELETE during Create; lost answers of the database; restart between any two calls | addresses are unique; a failed Create and a DELETE leave nothing that a failure without cleanup does not explain; deleted is final; every POST is answered |
| Health monitor: `RefreshStatuses` | its copy of the documents | one pass for each tick | documents, hypervisors | it writes what it learnt up to seconds ago | a dead VM becomes `stopped`; it resurrects no document |
| Metrics: `internal/metrics/manager.go` | maps under `m.mu`; running totals; exported series | RegisterSandbox, UnregisterSandbox, poll with workers | called by Create, Delete and the start | series and gauges change outside the lock; workers use copies | totals follow the registry; series go with their sandbox; everybody is reported |
| API keys: `internal/service/apikey.go`, its repository and middleware | collection; `keyCache` | validate, generate, revoke, (de)activate | every request but registration | validation interleaves with revocation; entries expire | a revoked key stops working; a stored key is refused only when the database fails |
| Registration: `internal/handler/auth.go`, user and organisation services | three collections | register | API keys | four calls without transaction | one user per address |
| Streams: `internal/handler/pty.go`, `exec.go`, `fs.go`, `internal/service/wsdialer.go`, `pkg/machine/agent_client.go` | two connections, one or two goroutines | terminal, watch, exec-stream, attach, session-exec-stream, download | client, agent | ends that leave, vanish, fall silent or do not read | order; an honest end; a relay does not outlive both ends |
| Calls of the agent: `internal/service/exec.go`, `commands.go`, `pty_session.go`, `fs.go`, `internal/sandboxclient/client.go` | none; processes and PTY sessions live in the guest | exec, run, list, kill, wait, sessions, session-exec, file commands | agent over vsock | three clocks that do not know of each other; work goes on when a request has failed | commands are bounded; a create returns the right session; nobody waits for ever for a mute agent |
| Session commands: `internal/service/session_exec.go` | log files below the instance directory | session-exec and its stream | agent, Delete | the log directory is made again after a DELETE | see lifecycle, streams and calls |
| Snapshots: `pkg/machine/snapshot.go`, `restore.go`, `actions.go` | snapshot directories, one temporary directory per sandbox, the VM's pause | Snapshot, ListSnapshots, Pause, Resume, Restore; their routes are commented out, `internal/server/server.go:179-186` | hypervisor, Delete, each other | a goroutine copies the disk of a VM that runs again; two snapshots share one temporary directory and, in one second, one target; each decides by a state it read earlier | no VM stays paused unasked; an undisturbed snapshot is of one moment; an answered DELETE is final; a restored VM lacks no part, and has disk and memory of one moment if its snapshot had |
| Images: `internal/{handler,service,repository}/image.go` | one collection | create, list, get, delete, seeding | none | single calls | - |
| Command parsing: `pkg/util/parser.go`, the limits of `internal/service/exec.go` | none | exec-stream's decision to run a command | handlers | quotes, escapes and blanks in combination | the arguments are those that are meant; accepted exactly when usable |
| Configuration, start, routes: `internal/config`, `internal/server`, `cmd/server` | read once | New, Run | all | what is not reloaded after a restart | see Restart of the lifecycle |
| Host setup: `cmd/setup-net` | bridge, iptables | run by hand | - | sequential program | - |
| `pkg/timer`, `pkg/generic`, version, `model` | none | - | - | - | - |

`PROJECT.json` lists the hazards behind the fourth column line by line, with the properties that
would catch each of them.

## The modules

Every module is the specification of one component with its constants; `MC...` modules hold what
TLC needs to instantiate one (symmetry, named sets of faults); `...Proofs` modules hold theorems.
Definitions whose comment begins with "Mutant" are variants of the definition that follows them,
with one plausible error; no specification uses them. They show that each property can fail.

**SandboxLifecycle.** One action is one call on one of the four places that keep state, so that
requests interleave, and `Restart` can happen, between any two calls. `create[s]` says how far the
Create that generated the id has come; the error paths are the table `ErrorPath` (what failed, and
where the rollback starts), and the rollback is `Kill`, `Untap` (the two halves of
`machine.Stop`), `Rmdir`, which Delete shares. `host[s]` is what exists of instance directory,
vm.tap, vm.pid, vm.sock and TAP device. `proc[s]` is the process in vm.pid: the server never waits
for its children, so that while it runs one that ends (`exited`) keeps its pid. What happens to
pids after a restart is not modelled, see below. `CreateTap` fails in two ways: with the device
left ("linkget": LinkByName fails, or the MAC is refused and LinkDel fails too) and without (the
fault "tap" of `CreateError`: LinkAdd, or a refused MAC that LinkDel undoes). `Kill` drops the
error of its signal as the code does (`manager.go:238-244`); the only one assumed is that of a
process that is gone. The monitor's pass is `RefreshStart` and, for each document, `RefreshStat`,
`RefreshQuery`, `RefreshWrite`, from its copy `seen`. The constant `Fault` says which failures of
the environment an instance allows, among them inserts and deletes that take effect although they
are reported as failed. `ip`, `born`, `listed` and `deleted` are history for the
properties and for what clients can know. So is `mishap`: the failures of each sandbox after which
the code undoes less than it did, and the log entry that makes a deleted directory again. `Cause`
says which of them can leave which thing on the host, so that NothingLeftBehind and
DeletedStaysDeleted speak of every failure: what is left without such a cause is a leak.

**SandboxContract, SandboxRefinement.** The contract has what a client reads of a sandbox, what is
true of its VM, and the DELETEs that were confirmed; it knows no handlers, files or failures. The
mapping is `Said` (the answer of GET: 404 before the insert is "unknown", 404 after the removal is
"gone") and `VM` (the hypervisor process; one that was signalled counts as off).

**MetricsRegistry.** One action is one lock section of `m.mu` or one call that sets a gauge or a
series. `call` holds request handlers inside the manager, with the local copy of the total and the
label they carry from one step to the next; `todo` and `work` are the poll's snapshot and workers.
A sandbox has one unit of allocation and one device; values of series are left out.

**APIKeys.** A request is at the cache, at the query, or has found a document that may be out of
date; `Update` keeps the detail that decides it: it takes fields from an update of Go type
`bson.M` only. `Tick` is held back while a validation is older than `MaxLatency`: the properties
speak of TTL plus one validation, and that bound is an assumption about the database. A query
that fails is answered like an unknown key, 401 "Invalid or inactive API key"
(`middleware/auth.go:37-41`), so that the client cannot tell them apart: the outcome of both is
`rejected`, and only the history `failed` of a request knows which it was.

**Registration.** One action for each of the four database calls, each of which may fail.

**AgentRelay.** One stream of any of seven kinds, five streams and a download with or without
Content-Length: the handler's stages, a loop for each direction
(read, write, and for terminals the look at `shutdownChan` before each read), messages on the
wire, in the loop's hand, and buffered for an end that does not read (`Window`). Streams share
nothing, so that one is enough. `Refuse`, `Upgrade`, `Dial`, `DialFails` and `Return` are the
handler's code around the loops; `Loops` says which a kind has, `Again` and `Ends` what it does
after a message and after an error. The end of a connection is seen as the end of the stream
(`LooksClosed`) when the agent closed it; a session's output comes over the bare socket
(`Unframed`), where the death of the VM looks the same, and `session_exec.go:144-149` takes it for
the normal end: the client of session-exec-stream then has a 200 and output that is cut short.
HonestEnd excepts that case, and the contract counts it among the streams that cannot tell.

**StreamContract, StreamRefinement.** The contract has no loops, wires or buffers: messages are
given to a direction and passed on one by one, the two ends may leave, and the stream finishes
once, as whole, with an error or, if its kind cannot tell, just closed. In the mapping a message
is passed on when it is written (`PassedOn`), and the stream has finished when the handler has
returned (`HowEnded`, `Honest`).

**AgentCalls.** A call waits for headers for `left` units of time; the process it began has an
`age` and perhaps a `limit`. A request can be answered, answered only in part (`stalled`: headers
and no body, for which the client has no timeout), given up by the header timeout, or left by its
client if it runs under the request's context. What the agent does for a request it does while
the request waits, or never; what it began goes on afterwards. The agent starts one process for a
command and lists sessions in the order they were made: the repository relies on both. So that
bounds stay small, one unit of time is 30 s in the instances, the header timeout is one unit and
the largest exec timeout two (300 s in the code): what matters is which is larger. session-exec
has a deadline for its whole exchange, so that it alone cannot stall.

**Snapshots.** One action is one call of the hypervisor or of the file system. `job[r]` is one
CreateSnapshot: what it read of the VM (`saw`), the directory it named (`stamp`, the second its
name is made of), and, after the answer, its goroutine, which copies the disk (`CopyBegins`,
`CopyEnds`: cp creates the file and fills it) and moves the memory (`Rename`). Contents are
versions: a number counts the guest's writes, and what was read while they went on, or by two at
once, is `Torn`. Pause and Resume of clients, the VM's end, DELETE and a restart happen between
any two steps; `restore` is one Restore with the sandbox it makes. The hypervisor's refusal of a
pause of a paused VM, or of a resume of a running one, is a success of the call
(`client.go:141-146`): a snapshot that saw the VM running goes on when another call has paused it
meanwhile, finishes when another has resumed it, and its resume overrides a pause that a client
asked for. DELETE is `DeleteBegins` (Stop, whose SIGTERM the hypervisor obeys in its own time),
`RemoveOne` for each file that RemoveAll finds, in any order, and `DeleteEnds`, an error when
something was put back behind the walk; it can be asked for again. `held`, `deleted`, `alone`,
`calm`, `clean` and `sound` are history for the properties.
Simplified: vm.snapshot is one step, so that a dump that is still being written when a DELETE
ends, or when the client's timeout of five seconds has given it up, is left out; cp opens its two
files in one step; the three calls of `PrepareDirs` are one. The allocation of Restore's address
is that of Create.

**CommandParsing.** exec-stream's decision about a command: `Trim`, `Limits`, then ParseCommand
with one action for each branch of its loop, then `Decide`. A command is written mark by mark
(`Write`): a rune, the role its author means it to play (text, gap, quote, escape), and the quotes
it leaves the command in. The parser sees the runes only; what the arguments should be (`Meant`)
is said of the marks: text is divided at the gaps and nowhere else. The seven classes of runes
are those that ParseCommand and TrimSpace tell apart, and each counts as one byte.

## What TLC checks

Runs that must pass:

| run | bounds | shows |
|---|---|---|
| LifecycleRollback | 1 sandbox, 2 DELETEs at once, the monitor, every failure but `update`, no restart | NothingLeftBehind, DeletedStaysDeleted; CreateEnds and DeadBecomesStopped under FairSpec |
| LifecycleRestart | 2 sandboxes, 2 addresses, session-exec, a lost insert answer, 1 restart | UniqueIPInEpoch, NothingLeftBehind, DeletedStaysDeleted; ContractKept: every step is a step of SandboxContract or a stutter |
| MetricsPolled | 2 sandboxes, 1 handler at a time, 1 worker at a time | TotalIsSum, SeriesGoWithSandbox, EachIsReported |
| KeyValidation | 1 key, 3 requests, TTL 2, latency 1, time up to 5, 1 restart | RevokedKeyExpires, LiveKeyAccepted |
| StreamsRelayed | all seven kinds, 3 messages each way, window 1 | InOrder, HonestEnd, LastOutputArrives, BothGoneEnds, RequestStreamEnds; StreamContractKept: every step is a step of StreamContract or a stutter |
| CallsAnswered | 2 requests, 1 process, 2 sessions, asked timeouts below, within and above the bounds | ExecBounded, CreateAnswersNewest, CallsEnd |
| SnapshotsTaken | any 3 of 2 snapshots, 1 restore and DELETE, 2 seconds, 1 write of the guest, every failure and restarts | NeverLeftPaused, LoneSnapshotSound, DeletedLeavesNoData, RestoredVMWhole; PauseIsShort under FairSpec |
| CommandsParsed | every command of up to 6 runes, limits of 5 runes and 2 arguments | ParsedAsMeant, AcceptedIffUsable |

Runs that must find a counterexample, each a disagreement between the code and what the
repository says of it:

| run | property | what happens |
|---|---|---|
| AddressReusedAfterRestart | UniqueStoredIP | nothing calls `SandboxRepository.Init`, so after a restart the map of addresses is empty and the address of a stored sandbox is handed out again |
| DeactivatedKeyWorks | DeactivatedKeyExpires | DeactivateKey passes a `map[string]interface{}`, from which `Update` takes nothing: the key goes on working |
| EmailTakenTwice | OneUserPerEmail | the check for a duplicate and the insert are two calls, and no unique index backs them |
| WaitCutShort | WaitBlocks | the header timeout of 30 s answers a wait with an error while the process still runs; the same cuts an exec with a longer timeout |

Three more facts follow from the models without a run of their own: the goroutine of a terminal
that reads a silent agent does not notice `shutdownChan`, so that the handler of a client that has
left waits until the agent goes too; the metrics registration of a sandbox stays when its DELETE
comes between the insert and RegisterSandbox (`internal/service/sandbox.go:244` against 317); and
a session's output is cut short without a word when its VM dies.

Why the bounds are enough: sandboxes share only the map of addresses (two suffice to collide)
and the places of a poll (two sandboxes for one place); within one sandbox the hard cases need a Create,
two DELETEs, the monitor and a restart. The two lifecycle runs divide this because the product is
too large: the theorems below hold for all of it. A key is judged on its own, and a stale
validation, a revocation and a later use are three requests. A relay holds one message
in hand, one in the window and one behind. Two requests of AgentCalls are enough for one to come
between the two calls of another. Two snapshots are enough to share a temporary directory or a
second, two seconds to have two directories, and one write to tell two moments apart; a restore
takes from one snapshot, and restores share nothing with each other. `MaxCalls` is 3 because the
product of two snapshots, a restore and a DELETE is too large for TLC; the theorems are about any
number of snapshots with both. Six runes hold two words
and a gap, a quoted or an escaped rune within a word, and one rune more than the limit; the
theorems are about any number.

Bounds named as constants: `MaxRestart`, `MaxTime`, `MaxLatency`, `MaxMsg`, `Window`,
`MaxSession`, `MaxWrite`, `MaxCalls`, `MaxRunes`. `MaxLength` and `MaxArgs` are limits of the code, lowered so
that short commands reach them.

Deadlock is checked where the system never stops. It is not in the lifecycle (all ids used), in
relays (the stream is over), in registration (every request answered) and in command parsing (the
decision is made).

### Fairness

* Lifecycle: handlers and the monitor run to their end: every wait in them has a timeout (two seconds for the
  socket, a deadline for each API call, `waitForAgent`), which `Blocked` models; only the calls of MongoDB have none of
  their own, and are assumed to return; the ticker ticks;
  a process that got SIGTERM ends. Nothing is assumed of clients, of crashes, or of a process
  that was not signalled. The runs with liveness leave out `update`, a database that refuses
  every update of a status for ever.
* Metrics: the ticker ticks and each scrape has its deadline of two seconds.
* Relay: goroutines of the handler run. The two ends may be silent for ever.
* Calls: time passes, and the timers of server and agent go off.
* Snapshots: a CreateSnapshot that has begun goes on, because calls of the hypervisor have a
  timeout of five seconds and cp ends; a restart ends it. A hypervisor that a DELETE told to end
  does so. Nothing is assumed of clients, the guest
  and the clock.

## What is proved

TLAPS checks these for all values of the constants that satisfy the modules' ASSUMEs.

| theorem | statement | argument |
|---|---|---|
| SandboxLifecycleProofs!TypeCorrect | Spec => []TypeOK | inductive as it stands |
| AddressesUnique | Spec => []UniqueIPInEpoch | `AddressesRemembered`: an address handed out in this epoch is in `allocatedIPs`, and no epoch lies in the future. Uniqueness alone is not inductive: it does not see that the map remembers |
| DeletedForGood | Spec => []DeletedStaysDeleted | `BeforeInsert`, `AfterInsert`, `StaysDeleted`: what is true of Create before and after the document is stored, so that no step of it can bring a listed sandbox back |
| NothingLeft | Spec => []NothingLeftBehind | `Early`, `OnRecord`, `Swept`: what exists at each step of Create is on record in the directory, and what each step of the rollback has removed stays removed, unless a mishap explains it (`Explained`); `Gone` and `SessionsKnown` for a DELETE that ends while a restart or a late log entry comes between its calls |
| SandboxRefinementProofs!Implements | Spec => ContractKept | `SpawnInv`: a listed sandbox has a process, and one is spawned only before the insert. With `DeleteInv` it shows that a DELETE reaches the document when the VM is off. Each step is `Private` (at most the end of one VM), a Spawn that succeeds, or one write of the database |
| MetricsRegistryProofs!TypeCorrect, TotalCorrect, SeriesGo | TypeOK, TotalIsSum, SeriesGoWithSandbox | TotalIsSum by itself, with facts on cardinality; for the series `PolledAreKnown`, `LabelsAreNames`, `RemovalUnderWay`: who can still export a series, and under which label |
| APIKeysProofs!TypeCorrect, RevokedExpires, LiveAccepted | TypeOK, RevokedKeyExpires, LiveKeyAccepted | `OnTime`, `EntriesExpire`, `FoundBefore`, `RefusedDeleted`: a validation is at most MaxLatency old, a cached entry at most TTL younger than the last moment its key was found |
| AgentRelayProofs!TypeCorrect, StreamsInOrder, StreamsEndHonestly, LastOutput | TypeOK, InOrder, HonestEnd, LastOutputArrives | `OrderInv`: messages are numbered, and what was read, what is buffered, what is in hand and what is on the wire are consecutive runs of numbers, each beginning where the one before ends, up to the last one sent unless an end vanished. `EndInv`: how a loop ended tells what became of the end it read or wrote (`Settled`: an end that left does not come back, a loop that ended does not go on). A loop that saw the end of an orderly stream therefore has passed all of it |
| AgentRelayProofs!StreamsKeepContract | Spec => StreamContractKept | by `OrderInv` what was passed on is messages 1 up to their number (`PassedAre`), before and after every step, so that each step is judged by how that number and `sent` change; `EndInv` shows that loops are over when the handler has returned, and `EofIsWhole` that "whole" is true |
| AgentCallsProofs!TypeCorrect, ExecsBounded, CreatesAnswerNewest | TypeOK, ExecBounded, CreateAnswersNewest | `ProcInv`: a command carries a limit within bounds, from the request (`Sound`) to the process, and is no older than it, because time waits for a timer that is due. For creates: the list is in the order of making (`Removed`, `Added`), so its last session is the newest, and a session that has left the list does not return |
| SnapshotsProofs!TypeCorrect | TypeOK | `Moves` and `BecomeViews`: which part of a call each step changes; nothing is in a directory that is not there |
| SnapshotsProofs!PausesEnd | Spec => []NeverLeftPaused | `PauseInv` adds `SawRunning`, what a call that is about to pause or resume has read, and that the VM's files are there until a DELETE; whoever takes the VM from a call that holds it leaves a client, a failure or a DELETE in its place |
| SnapshotsProofs!DeletedStaysDeleted | Spec => []DeletedLeavesNoData | `DeletedInv`: the DELETE's success means that the walk found nothing left (`Gone`); without overlay.qcow2 and vm.sock no call can dump or copy again, and what was renamed is empty |
| SnapshotsProofs!LoneSnapshots | Spec => []LoneSnapshotSound | `LoneInv`, `Whole`: what the files of a lone call hold at each of its stages; `OthersWhole`, `SelfWhole`: another's step keeps that or ends the call's being alone |
| SnapshotsProofs!RestoredWhole | Spec => []RestoredVMWhole | `RestoreInv`: what each stage of Restore has copied when it begins. With LoneSnapshots a sound source is of one moment (`SoundParts`) until a step ends its soundness (`SoundKept`) |
| CommandParsingProofs!TypeCorrect, ParsesAsMeant, AcceptsUsable | TypeOK, ParsedAsMeant, AcceptedIffUsable | `WhenParsing`: the runes not yet read are those behind place p, the parser's state and the mark at p agree (`Lexed`), and `Split`: the arguments so far hold exactly the text of the words that have ended, `current` that of the open one. `Tells` shows that the parser's state and the next rune determine what the next mark is; `SplitText`, `SplitGap`, `SplitQuiet` and `SplitEnds` what each kind of mark does to the words |
| CommandParsingProofs!EveryCommand | every finite sequence of runes can be written as marks | by induction on its length: the theorems above leave no command out |

The metrics run has one handler at a time because the product of two handlers and a poll is too
large for TLC with liveness; the theorems are about any number of them.

Of the constant `Fault` nothing is assumed in any theorem: the lifecycle's hold for every set of
failures, in every order and number, with session-exec or without, and for any number of
restarts.

Only model-checked: everything temporal but safety (CreateEnds, DeadBecomesStopped,
EachIsReported, BothGoneEnds, RequestStreamEnds, CallsEnd, PauseIsShort), which is out of reach of
the prover here; and Registration, whose one property does not hold.

Induction over numbers is used where it is needed (`Induction` in CommandParsingProofs): every
non-empty set of natural numbers has a least element, by the library's `WFMin` and
`NatLessThanWellFounded`, which take no operator as a parameter. Marks carry the mode the
command is in, so that no property of CommandParsing needs a recursive definition.

## What is not modelled

* Arithmetic of addresses: which addresses of the range are drawn, and the MAC and CID derived
  from them. They are drawn from the whole range, with the network's, the broadcast's and the
  gateway's own among them, and the MAC is made of the last byte only; the hazards say so.
* Pids after a restart: init then reaps the hypervisors that end, the kernel can give their pid to
  another process, and Stop (`manager.go:242`) signals whatever vm.pid names. The code has no check
  that a property could state.
* What a snapshot's disk holds when the guest writes while cp runs, beyond that it may be torn; a
  restore whose failed start leaves its directory, or whose failed insert leaves a VM without a
  document (both are in Snapshots, and no property excludes them); the chmod of the copied files; several restores at once.
* Uploads: one call whose body net/http sends; the server adds nothing to it. The connection pool
  of the HTTP client. What session-exec's actions do to a session of the guest.
* Arguments after parsing: exec-stream drops them and sends the command as it was written
  (`internal/handler/exec.go:230`), so that parsing decides only whether it runs. Before that
  TrimSpace takes an escaped blank at the end, and empty quotes give no argument; `Solid` and
  `Texts` say so.
* The size of base images, which `pkg/storage` caches; entries of `keyCache` that have expired stay
  in memory, which no property speaks of. The device series of a sandbox, which
  `deleteDeviceMetrics` looks for after their sets are gone.
* Images: single calls on one collection. Configuration, host setup, utilities: pure data, or run
  once, before any request is served.
* Checks of names, ids and paths; the text of shell commands, log lines and answers.

## What could come next

1. `Addressing`: NextAvailableIP, GenerateMAC and getCidFromIP as functions on numbers, against a
   definition of usable and distinct addresses.
2. Several restores at once, with the addresses they allocate, composed with SandboxLifecycle.
3. Uploads as a kind of AgentRelay, with what the agent makes of a body that breaks off.
4. Proofs: one user per address for registrations that do not overlap.
