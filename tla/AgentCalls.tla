------------------------------ MODULE AgentCalls ------------------------------
(***************************************************************************)
(* Requests that a handler answers with one call of the agent in a         *)
(* sandbox, or two: exec and file operations, background processes, PTY    *)
(* sessions, and the one exchange over vsock of session-exec.              *)
(*                                                                         *)
(* The server keeps nothing: processes and sessions live in the guest.     *)
(* What makes it hard is time.  A call has three ends that do not know of  *)
(* each other: the client that can leave, the server that waits for the    *)
(* headers of an answer for HeaderTimeout and no longer, and the command   *)
(* in the guest, which has a limit of its own and outlives both.           *)
(***************************************************************************)
EXTENDS Integers, Sequences, SequencesExt

CONSTANTS
    Request,         \* requests that can be in progress at once
    Proc,            \* pids of the guest, positive numbers
    MaxSession,      \* bound: PTY sessions ever made
    Asked,           \* timeouts that clients ask for
    DefaultTimeout, MaxTimeout,  \* of a command
    HeaderTimeout,   \* ResponseHeaderTimeout of the shared http.Client
    ResizeTimeout,   \* of the context ResizeTerminal makes
    SessionTimeout,  \* of the dial and the whole exchange of session-exec
    AgentFails       \* the agent may be unreachable, or answer with an error

ASSUME AgentCallsAssumption ==
    /\ Proc \subseteq Nat \ {0}
    /\ MaxSession \in Nat
    /\ Asked \subseteq Int
    /\ DefaultTimeout \in Nat \ {0} /\ MaxTimeout \in Nat /\ DefaultTimeout <= MaxTimeout
    /\ HeaderTimeout \in Nat \ {0}
    /\ ResizeTimeout \in 1..HeaderTimeout /\ SessionTimeout \in 1..HeaderTimeout
    /\ AgentFails \in BOOLEAN

VARIABLES
    req,       \* the requests
    proc,      \* the processes of the guest
    sessions,  \* its PTY sessions, in the order of the agent's list
    made       \* how many sessions were ever made; they are numbered

vars == <<req, proc, sessions, made>>

\* Calls under the context of the request, which ends when the client leaves,
\* and calls under context.Background.
OwnContext == {"exec", "file", "create", "delete", "use", "resize"}
Background == {"run", "kill", "wait", "list", "session"}

\* "listing" is the second call of a create.  "arg" is the process or session
\* it is about, "limit" that of the command, "left" the time the server still
\* waits, "own" the session made for it, "answer" the one it was answered.
Nobody == [at |-> "idle", op |-> "list", arg |-> 0, limit |-> 0, left |-> 0,
           own |-> 0, answer |-> 0]
Free == [at |-> "none", by |-> "run", limit |-> 0, age |-> 0]
Ended == [Free EXCEPT !.at = "ended"]

Waiting == {"sent", "taken", "listing"}
Answered == {"ok", "failed"}

\* Ages above MaxTimeout are all alike.
TypeOK ==
    /\ req \in [Request -> [at : {"idle", "stalled"} \cup Waiting \cup Answered,
                            op : OwnContext \cup Background, arg : Nat, limit : Int,
                            left : 0..HeaderTimeout, own : 0..MaxSession,
                            answer : 0..MaxSession]]
    /\ proc \in [Proc -> [at : {"none", "running", "ended"}, by : {"exec", "file", "run"},
                          limit : Int, age : 0..(MaxTimeout + 1)]]
    /\ \A p \in Proc : proc[p].by = "exec" => proc[p].limit > 0
    /\ made \in 0..MaxSession
    /\ sessions \in Seq(1..made)
    /\ \A i, j \in 1..Len(sessions) : i < j => sessions[i] < sessions[j]

Init ==
    /\ req = [r \in Request |-> Nobody]
    /\ proc = [p \in Proc |-> Free]
    /\ sessions = <<>>
    /\ made = 0

-----------------------------------------------------------------------------
(* Requests, as the handlers forward them.                                 *)

\* Mutant: the upper bound is forgotten.
ClampBelow(t) == IF t <= 0 THEN DefaultTimeout ELSE t

\* Mutant: the lower bound is forgotten.
ClampAbove(t) == IF t > MaxTimeout THEN MaxTimeout ELSE t

Clamp(t) == IF t <= 0 THEN DefaultTimeout
            ELSE IF t > MaxTimeout THEN MaxTimeout ELSE t

\* How long the server waits for the headers of an answer.
Patience(op) == CASE op = "resize"  -> ResizeTimeout
                  [] op = "session" -> SessionTimeout
                  [] OTHER          -> HeaderTimeout

\* A payload without timeout, which the agent takes for no limit.
NoLimit == 0

\* AgentCommand: the call is on its way, and its time starts to run.
Call(r, op, arg, limit) ==
    /\ req[r] = Nobody
    /\ req' = [req EXCEPT ![r] =
            [Nobody EXCEPT !.at = "sent", !.op = op, !.arg = arg, !.limit = limit,
                           !.left = Patience(op)]]
    /\ UNCHANGED <<proc, sessions, made>>

Exec(r) == \E t \in Asked : Call(r, "exec", 0, Clamp(t))

\* exec with the flag background is a run, and its timeout is dropped.
ExecBackground(r) == Call(r, "run", 0, NoLimit)

\* The agent takes a timeout that is not positive for none.
Run(r) == \E t \in Asked : Call(r, "run", 0, t)

\* delete, mkdir, move, copy, stat and so on: a shell command without limit.
FileCommand(r) == Call(r, "file", 0, NoLimit)

Kill(r) == \E p \in Proc : Call(r, "kill", p, 0)
Wait(r) == \E p \in Proc : Call(r, "wait", p, 0)
List(r) == Call(r, "list", 0, 0)

CreateSession(r) == Call(r, "create", 0, 0)
DeleteSession(r) == \E s \in 1..MaxSession : Call(r, "delete", s, 0)

\* ExecuteCommand and GetBuffer.
UseSession(r) == \E s \in 1..MaxSession : Call(r, "use", s, 0)
ResizeTerminal(r) == \E s \in 1..MaxSession : Call(r, "resize", s, 0)

\* session-exec: create, exec, input, resize or close, under the client's id.
SessionExec(r) == Call(r, "session", 0, 0)

Arrive(r) ==
    \/ Exec(r) \/ ExecBackground(r) \/ Run(r) \/ FileCommand(r)
    \/ Kill(r) \/ Wait(r) \/ List(r)
    \/ CreateSession(r) \/ DeleteSession(r) \/ UseSession(r) \/ ResizeTerminal(r)
    \/ SessionExec(r)

-----------------------------------------------------------------------------
(* The agent acts, and the handler takes its answer.                       *)

Is(r, at, op) == req[r].at = at /\ req[r].op = op

Fail(r) == req' = [req EXCEPT ![r].at = "failed", ![r].limit = 0, ![r].left = 0]

\* The headers and the body of an answer, or only the headers: the wait for a
\* body has no limit.
Answer(r, how) ==
    \E at \in {how} \cup (IF AgentFails THEN {"stalled"} ELSE {}) :
        req' = [req EXCEPT ![r].at = at, ![r].limit = 0, ![r].left = 0]

\* A run is answered with the pid, a command when it ended.
AgentStarts(r) ==
    \E p \in Proc :
        /\ req[r].at = "sent" /\ req[r].op \in {"exec", "file", "run"}
        /\ proc[p].at = "none"
        /\ proc' = [proc EXCEPT ![p] = [at |-> "running", by |-> req[r].op,
                                        limit |-> req[r].limit, age |-> 0]]
        /\ IF req[r].op = "run" THEN Answer(r, "ok")
           ELSE req' = [req EXCEPT ![r].at = "taken", ![r].arg = p, ![r].limit = 0]
        /\ UNCHANGED <<sessions, made>>

\* exec, a file operation or wait: the process has ended.
AgentReports(r) ==
    /\ \/ req[r].at = "taken"
       \/ Is(r, "sent", "wait")
    /\ proc[req[r].arg].at = "ended"
    /\ Answer(r, "ok")
    /\ UNCHANGED <<proc, sessions, made>>

AgentKills(r) ==
    /\ Is(r, "sent", "kill")
    /\ IF proc[req[r].arg].at = "running"
       THEN Answer(r, "ok") /\ proc' = [proc EXCEPT ![req[r].arg] = Ended]
       ELSE Answer(r, "failed") /\ UNCHANGED proc
    /\ UNCHANGED <<sessions, made>>

AgentLists(r) ==
    /\ Is(r, "sent", "list")
    /\ Answer(r, "ok")
    /\ UNCHANGED <<proc, sessions, made>>

\* The agent makes a session.  When its answer has no id the handler asks for
\* the list, with a new wait.
AgentCreates(r) ==
    /\ Is(r, "sent", "create") /\ made < MaxSession
    /\ made' = made + 1
    /\ sessions' = Append(sessions, made + 1)
    /\ \/ req' = [req EXCEPT ![r].at = "ok", ![r].own = made + 1, ![r].answer = made + 1]
       \/ req' = [req EXCEPT ![r].at = "listing", ![r].own = made + 1,
                             ![r].left = HeaderTimeout]
       \/ AgentFails /\ req' = [req EXCEPT ![r].at = "stalled", ![r].own = made + 1,
                                           ![r].left = 0]
    /\ UNCHANGED proc

\* Mutant: the first session of the list is taken.
CreateListsFirst(r) ==
    /\ req[r].at = "listing"
    /\ IF sessions = <<>> THEN Fail(r)
       ELSE req' = [req EXCEPT ![r].at = "ok", ![r].left = 0, ![r].answer = Head(sessions)]
    /\ UNCHANGED <<proc, sessions, made>>

\* The last session of the list is taken for the one just made.
CreateLists(r) ==
    /\ req[r].at = "listing"
    /\ IF sessions = <<>> THEN Fail(r)
       ELSE req' = [req EXCEPT ![r].at = "ok", ![r].left = 0, ![r].answer = Last(sessions)]
    /\ UNCHANGED <<proc, sessions, made>>

\* A session that is gone is an error of the agent.
AgentUses(r) ==
    /\ req[r].at = "sent" /\ req[r].op \in {"delete", "use", "resize"}
    /\ Answer(r, IF Contains(sessions, req[r].arg) THEN "ok" ELSE "failed")
    /\ IF req[r].op = "delete" /\ Contains(sessions, req[r].arg)
       THEN \E i \in 1..Len(sessions) : /\ sessions[i] = req[r].arg
                                       /\ sessions' = RemoveAt(sessions, i)
       ELSE UNCHANGED sessions
    /\ UNCHANGED <<proc, made>>

\* The deadline of a session-exec covers its answer to the last byte; one
\* without success is an error.
AgentServes(r) ==
    /\ Is(r, "sent", "session")
    /\ \E at \in Answered : req' = [req EXCEPT ![r].at = at, ![r].left = 0]
    /\ UNCHANGED <<proc, sessions, made>>

Agent(r) ==
    \/ AgentStarts(r) \/ AgentReports(r) \/ AgentKills(r) \/ AgentLists(r)
    \/ AgentCreates(r) \/ CreateLists(r) \/ AgentUses(r)
    \/ AgentServes(r)

-----------------------------------------------------------------------------
(* Calls that end without an answer of the agent.                          *)

\* Mutant: the http.Client has no ResponseHeaderTimeout.
GiveUpNever(r) ==
    /\ Is(r, "sent", "resize") /\ req[r].left = 0
    /\ Fail(r)
    /\ UNCHANGED <<proc, sessions, made>>

\* The header timeout: what the call began in the guest goes on.
GiveUp(r) ==
    /\ req[r].at \in Waiting /\ req[r].left = 0
    /\ Fail(r)
    /\ UNCHANGED <<proc, sessions, made>>

ClientLeaves(r) ==
    /\ req[r].at \in Waiting \cup {"stalled"} /\ req[r].op \in OwnContext
    /\ Fail(r)
    /\ UNCHANGED <<proc, sessions, made>>

\* Not reachable, a status other than 200, or a body that cannot be decoded.
CallFails(r) ==
    /\ AgentFails
    /\ req[r].at \in Waiting \cup {"stalled"}
    /\ Fail(r)
    /\ UNCHANGED <<proc, sessions, made>>

Return(r) ==
    /\ req[r].at \in Answered
    /\ req' = [req EXCEPT ![r] = Nobody]
    /\ UNCHANGED <<proc, sessions, made>>

-----------------------------------------------------------------------------
(* The guest, and time.                                                    *)

AtLimit(p) == proc[p].at = "running" /\ proc[p].limit > 0 /\ proc[p].age >= proc[p].limit

\* Only the age of what has a limit, or should have one, is of interest.
Aging(p) ==
    /\ proc[p].at = "running" /\ proc[p].age <= MaxTimeout
    /\ proc[p].limit > 0 \/ proc[p].by = "exec"

\* It ends by itself, or the agent ends it at its limit.
ProcEnds(p) ==
    /\ proc[p].at = "running"
    /\ proc' = [proc EXCEPT ![p] = Ended]
    /\ UNCHANGED <<req, sessions, made>>

SessionEnds ==
    /\ \E i \in 1..Len(sessions) : sessions' = RemoveAt(sessions, i)
    /\ UNCHANGED <<req, proc, made>>

\* Timers are punctual: the server's, and those of the agent.
Tick ==
    /\ \A r \in Request : req[r].at \in Waiting => req[r].left > 0
    /\ \A p \in Proc : ~AtLimit(p)
    /\ req' = [r \in Request |-> IF req[r].at \in Waiting
                                 THEN [req[r] EXCEPT !.left = @ - 1] ELSE req[r]]
    /\ proc' = [p \in Proc |-> IF Aging(p) THEN [proc[p] EXCEPT !.age = @ + 1] ELSE proc[p]]
    /\ UNCHANGED <<sessions, made>>

Next ==
    \/ \E r \in Request :
        \/ Arrive(r) \/ Agent(r) \/ Return(r)
        \/ GiveUp(r) \/ ClientLeaves(r) \/ CallFails(r)
    \/ \E p \in Proc : ProcEnds(p)
    \/ SessionEnds
    \/ Tick

Spec == Init /\ [][Next]_vars

\* Time passes, and timers go off.
FairSpec ==
    /\ Spec
    /\ WF_vars(Tick)
    /\ \A r \in Request : WF_vars(GiveUp(r))
    /\ \A p \in Proc : WF_vars(AtLimit(p) /\ ProcEnds(p))

-----------------------------------------------------------------------------
(* Properties.                                                             *)

\* A command started by exec is gone from the guest MaxTimeout after it began,
\* whatever timeout was asked for and whatever became of the request
\* (exec.go:86-93 of the handler, exec.go:57-63 of the service).
ExecBounded ==
    \A p \in Proc : (proc[p].at = "running" /\ proc[p].by = "exec") => proc[p].age <= MaxTimeout

\* A create is answered with its own session or one that was made after it,
\* unless its own is already gone (pty_session.go:103-123).
CreateAnswersNewest ==
    \A r \in Request :
        Is(r, "ok", "create") => \/ req[r].answer >= req[r].own
                                 \/ ~Contains(sessions, req[r].own)

\* No request waits for ever for an agent that does not answer, although the
\* client has no timeout for a whole call (sandboxclient/client.go:34-41).  For
\* the body of an answer that began it does.
CallsEnd == \A r \in Request : req[r].at \in Waiting ~> req[r].at \notin Waiting

\* "Block until a background process completes and return its exit code"
\* (openapi.yml:1613): with an agent that answers, a wait is answered when the
\* process has ended and not before.
WaitBlocks ==
    \A r \in Request :
        (req[r].op = "wait" /\ req[r].at \in Answered) => proc[req[r].arg].at # "running"
=============================================================================
