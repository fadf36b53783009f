------------------------------ MODULE AgentRelay ------------------------------
(***************************************************************************)
(* One stream between a client and the agent in a sandbox, relayed by a    *)
(* handler of the server.  Streams share nothing, so one is enough.        *)
(*                                                                         *)
(*   pty     PTYHandler.Proxy, ConnectSession: a WebSocket at each end and *)
(*           a goroutine per direction, which forwards what it reads       *)
(*   watch   FSHandler.StreamWatchEvents: the same, but what the client    *)
(*           sends is read and dropped                                     *)
(*   sse     ExecStream: the body of the agent's answer is copied, under   *)
(*           the context of the request                                    *)
(*   download, chunked                                                     *)
(*           FSHandler.DownloadFile: the same for a file, of which the     *)
(*           agent gave the length or did not                              *)
(*   attach  Commands.Attach: as sse, under context.Background             *)
(*   ndjson  SessionExecStream: the bytes of a vsock connection are copied *)
(*           and failures to write them are ignored; io.EOF, which the     *)
(*           death of the VM gives as well, is its normal end              *)
(***************************************************************************)
EXTENDS Integers, Sequences, SequencesExt

CONSTANTS
    Kind,    \* the handlers to look at
    MaxMsg,  \* bound: messages that each end sends
    Window   \* bound: messages that fit between a write and an end that does not read

ASSUME AgentRelayAssumption ==
    /\ Kind \subseteq {"pty", "watch", "sse", "download", "chunked", "attach", "ndjson"}
    /\ MaxMsg \in Nat
    /\ Window \in Nat \ {0}

VARIABLES
    kind,      \* which handler it is
    stage,     \* where the handler is
    up,        \* the two ends: open, closed, or gone without a goodbye
    pump,      \* where the loop for each direction is, or how it ended
    shutdown,  \* shutdownChan is closed
    sent,      \* how many messages each direction was given
    wire,      \* messages on the way to the server
    hand,      \* msg: read and not yet written
    queue,     \* messages written that their destination has not read
    got,       \* what their destination has read
    told       \* the client got an error text

vars == <<kind, stage, up, pump, shutdown, sent, wire, hand, queue, got, told>>

End == {"client", "agent"}
Dir == {"in", "out"}
From(d) == IF d = "in" THEN "client" ELSE "agent"
To(d) == IF d = "in" THEN "agent" ELSE "client"

WebSocket == kind \in {"pty", "watch"}
UnderRequest == kind \in {"sse", "download", "chunked"}
None == 0
Each(x) == [d \in Dir |-> x]

\* "eof" and "failed": the read ended the loop; "broken": a write did;
\* "signalled": shutdownChan did.
Ended == {"eof", "failed", "broken", "signalled"}

TypeOK ==
    /\ kind \in Kind
    /\ stage \in {"new", "dialing", "running", "done"}
    /\ up \in [End -> {"open", "closed", "reset"}]
    /\ pump \in [Dir -> {"off", "check", "read", "write"} \cup Ended]
    /\ shutdown \in BOOLEAN
    /\ sent \in [Dir -> 0..MaxMsg]
    /\ \A d \in Dir : /\ wire[d] \in Seq(1..MaxMsg)
                      /\ queue[d] \in Seq(1..MaxMsg) /\ Len(queue[d]) <= Window
                      /\ got[d] \in Seq(1..MaxMsg)
                      /\ hand[d] \in 1..MaxMsg <=> pump[d] = "write"
    /\ told \in BOOLEAN

Init ==
    /\ kind \in Kind
    /\ stage = "new"
    /\ up = [e \in End |-> "open"]
    /\ pump = Each("off")
    /\ shutdown = FALSE
    /\ sent = Each(0) /\ hand = Each(None)
    /\ wire = Each(<<>>) /\ queue = Each(<<>>) /\ got = Each(<<>>)
    /\ told = FALSE

-----------------------------------------------------------------------------
(* The handler, before and after the loops.                                *)

OnlyStage == UNCHANGED <<kind, up, shutdown, sent, wire, hand, queue, got>>

\* The sandbox is unknown, the request invalid, or the upgrade fails.
Refuse ==
    /\ stage = "new"
    /\ stage' = "done" /\ told' = TRUE
    /\ UNCHANGED pump /\ OnlyStage

Upgrade ==
    /\ stage = "new"
    /\ stage' = "dialing"
    /\ UNCHANGED <<pump, told>> /\ OnlyStage

\* An HTTP stream has one loop, a WebSocket two.
Loops == CASE kind = "pty"   -> Each("check")
           [] kind = "watch" -> Each("read")
           [] OTHER          -> [in |-> "off", out |-> "read"]

\* The agent accepts.
Dial ==
    /\ stage = "dialing" /\ up["agent"] = "open"
    /\ stage' = "running"
    /\ pump' = Loops
    /\ UNCHANGED told /\ OnlyStage

\* 5 s for a PTY, 30 s for the headers of an HTTP answer, 10 s to take a
\* session-exec request; the dialer of a watch has no limit for the answer to
\* its upgrade request.
DialLimited == kind # "watch"

\* There is no agent, or it does not answer in time.
DialFails ==
    /\ stage = "dialing"
    /\ up["agent"] # "open" \/ DialLimited
    /\ stage' = "done"
    /\ told' = (kind # "pty")
    /\ UNCHANGED pump /\ OnlyStage

\* Mutant of Return: the handler waits for one of the loops only.
ReturnEarly ==
    /\ stage = "running"
    /\ \E d \in Dir : pump[d] \in Ended
    /\ stage' = "done"
    /\ told' = (~WebSocket /\ pump["out"] # "eof" /\ kind # "chunked")
    /\ UNCHANGED pump /\ OnlyStage

\* wg.Wait, or the end of the only loop; the deferred calls close both
\* connections.  An HTTP stream whose loop failed gets an error text.  A file
\* gets none: what is missing of its length tells the client, if it has one.
Return ==
    /\ stage = "running"
    /\ \A d \in Dir : pump[d] \in Ended \cup {"off"}
    /\ stage' = "done"
    /\ told' = (~WebSocket /\ pump["out"] # "eof" /\ kind # "chunked")
    /\ UNCHANGED pump /\ OnlyStage

-----------------------------------------------------------------------------
(* The loops.                                                              *)

OnlyPump == UNCHANGED <<kind, stage, up, sent, got, told>>

Ends(d, how) ==
    /\ pump' = [pump EXCEPT ![d] = how]
    /\ shutdown' = (shutdown \/ kind = "pty")

Again(d) ==
    /\ pump' = [pump EXCEPT ![d] = IF kind = "pty" THEN "check" ELSE "read"]
    /\ UNCHANGED shutdown

\* select on shutdownChan, with a default.
PumpCheck(d) ==
    /\ pump[d] = "check"
    /\ pump' = [pump EXCEPT ![d] = IF shutdown THEN "signalled" ELSE "read"]
    /\ OnlyPump /\ UNCHANGED <<shutdown, wire, hand, queue>>

\* The context of the request ends when the client leaves.
Cancelled == UnderRequest /\ up["client"] # "open"

\* Nothing in the bytes of a vsock connection tells an end in order from the
\* death of the VM, of which the read may also see an error.
Unframed == kind = "ndjson"
LooksClosed(e) == up[e] = "closed" \/ (Unframed /\ up[e] = "reset")

\* The loop goes on after a write that failed.
WriteErrorsIgnored == kind = "ndjson"

\* Mutant: the loops share the variable they read into.
PumpReadShared(d) ==
    /\ pump[d] = "read" /\ wire[d] # <<>>
    /\ wire' = [wire EXCEPT ![d] = Tail(@)]
    /\ hand' = [x \in Dir |-> IF x = d \/ pump[x] = "write" THEN Head(wire[d]) ELSE hand[x]]
    /\ pump' = [pump EXCEPT ![d] = "write"]
    /\ OnlyPump /\ UNCHANGED <<shutdown, queue>>

PumpRead(d) ==
    /\ pump[d] = "read" /\ wire[d] # <<>>
    /\ wire' = [wire EXCEPT ![d] = Tail(@)]
    /\ IF kind = "watch" /\ d = "in"
       THEN UNCHANGED <<pump, hand>>
       ELSE /\ hand' = [hand EXCEPT ![d] = Head(wire[d])]
            /\ pump' = [pump EXCEPT ![d] = "write"]
    /\ OnlyPump /\ UNCHANGED <<shutdown, queue>>

\* Mutant: a broken connection is taken for its end.
PumpReadFailsQuietly(d) ==
    /\ pump[d] = "read"
    /\ \/ (wire[d] = <<>> /\ up[From(d)] # "open" /\ Ends(d, "eof"))
       \/ (Cancelled /\ Ends(d, "failed"))
    /\ OnlyPump /\ UNCHANGED <<wire, hand, queue>>

\* Mutant: the deadline of the dial is still on the connection.
PumpReadDeadline(d) ==
    /\ pump[d] = "read"
    /\ wire[d] = <<>>
    /\ Ends(d, IF up[From(d)] = "closed" THEN "eof" ELSE "failed")
    /\ OnlyPump /\ UNCHANGED <<wire, hand, queue>>

\* Mutant: ExecStreamSSE and DownloadFile under context.Background.
PumpReadFailsBackground(d) ==
    /\ pump[d] = "read"
    /\ wire[d] = <<>> /\ up[From(d)] # "open"
    /\ Ends(d, IF up[From(d)] = "closed" THEN "eof" ELSE "failed")
    /\ OnlyPump /\ UNCHANGED <<wire, hand, queue>>

\* Mutant: an error of ReadMessage is logged and the loop goes on.
PumpReadFailsOn(d) ==
    /\ pump[d] = "read"
    /\ wire[d] = <<>> /\ up[From(d)] # "open"
    /\ IF WebSocket THEN Again(d) ELSE Ends(d, "eof")
    /\ OnlyPump /\ UNCHANGED <<wire, hand, queue>>

\* No message is left and the other side is gone, or the request is cancelled.
PumpReadFails(d) ==
    /\ pump[d] = "read"
    /\ \/ (wire[d] = <<>> /\ LooksClosed(From(d)) /\ Ends(d, "eof"))
       \/ (wire[d] = <<>> /\ up[From(d)] = "reset" /\ Ends(d, "failed"))
       \/ (Cancelled /\ Ends(d, "failed"))
    /\ OnlyPump /\ UNCHANGED <<wire, hand, queue>>

\* Mutant: the message is still in hand afterwards.
PumpWriteKeeps(d) ==
    /\ pump[d] = "write" /\ up[To(d)] = "open" /\ Len(queue[d]) < Window
    /\ queue' = [queue EXCEPT ![d] = Append(@, hand[d])]
    /\ Again(d)
    /\ OnlyPump /\ UNCHANGED <<wire, hand>>

\* No write has a deadline: it blocks while its destination does not read.
PumpWrite(d) ==
    /\ pump[d] = "write" /\ up[To(d)] = "open" /\ Len(queue[d]) < Window
    /\ queue' = [queue EXCEPT ![d] = Append(@, hand[d])]
    /\ hand' = [hand EXCEPT ![d] = None]
    /\ Again(d)
    /\ OnlyPump /\ UNCHANGED wire

\* A write to an end that is gone: the first ones may seem to succeed.
PumpWriteFails(d) ==
    /\ pump[d] = "write" /\ up[To(d)] # "open"
    /\ hand' = [hand EXCEPT ![d] = None]
    /\ \/ Again(d)
       \/ (~WriteErrorsIgnored /\ Ends(d, "broken"))
    /\ OnlyPump /\ UNCHANGED <<wire, queue>>

Pump(d) ==
    \/ PumpCheck(d) \/ PumpRead(d) \/ PumpReadFails(d)
    \/ PumpWrite(d) \/ PumpWriteFails(d)

-----------------------------------------------------------------------------
(* The two ends.                                                           *)

OnlyEnds == UNCHANGED <<kind, stage, pump, shutdown, hand, told>>

Send(d) ==
    /\ stage = "running" /\ up[From(d)] = "open"
    /\ WebSocket \/ d = "out"
    /\ sent[d] < MaxMsg
    /\ sent' = [sent EXCEPT ![d] = @ + 1]
    /\ wire' = [wire EXCEPT ![d] = Append(@, sent[d] + 1)]
    /\ OnlyEnds /\ UNCHANGED <<up, queue, got>>

Receive(d) ==
    /\ up[To(d)] = "open" /\ queue[d] # <<>>
    /\ queue' = [queue EXCEPT ![d] = Tail(@)]
    /\ got' = [got EXCEPT ![d] = Append(@, Head(queue[d]))]
    /\ OnlyEnds /\ UNCHANGED <<up, sent, wire>>

\* Closed in order, or gone with what was on the way.
Leave(e) ==
    /\ up[e] = "open" /\ stage # "new"
    /\ \/ up' = [up EXCEPT ![e] = "closed"] /\ UNCHANGED wire
       \/ /\ up' = [up EXCEPT ![e] = "reset"]
          /\ wire' = [d \in Dir |-> IF From(d) = e THEN <<>> ELSE wire[d]]
    /\ OnlyEnds /\ UNCHANGED <<sent, queue, got>>

Handler == Refuse \/ Upgrade \/ Dial \/ DialFails \/ Return

Next ==
    \/ Handler
    \/ \E d \in Dir : Pump(d) \/ Send(d) \/ Receive(d)
    \/ \E e \in End : Leave(e)

Spec == Init /\ [][Next]_vars

\* The handler's goroutines run.  Nothing is assumed of the two ends: they may
\* be silent, and need not read.
FairSpec ==
    /\ Spec
    /\ WF_vars(Refuse \/ Upgrade) /\ WF_vars(DialFails) /\ WF_vars(Return)
    /\ \A d \in Dir : WF_vars(Pump(d))

-----------------------------------------------------------------------------
(* Properties.                                                             *)

Given(d) == [i \in 1..sent[d] |-> i]
Passed(d) == got[d] \o queue[d]

\* No message is lost in the middle, repeated, reordered or sent the wrong
\* way, while the two loops run side by side (pty.go:67-124).
InOrder == \A d \in Dir : IsPrefix(Passed(d), Given(d))

\* A client of an HTTP stream or of a file of known length that is still there
\* when it ends has everything the agent sent, or can tell that it has not
\* (exec.go:183-200, fs.go:180-188).  Two streams may be cut short without a word:
\* a file without a length, where the error of io.Copy is dropped, and the output
\* of a session whose VM dies (session_exec.go:144-149).
HonestEnd ==
    (stage = "done" /\ ~WebSocket /\ kind # "chunked" /\ up["client"] = "open"
        /\ ~(Unframed /\ up["agent"] = "reset"))
        => told \/ Passed("out") = Given("out")

\* A client of a terminal or a watch that is still there when it ends has
\* everything an agent sent that closed in order, unless the loop for the
\* other direction failed to write and ended both (pty.go:89-92, 101-103).
LastOutputArrives ==
    (stage = "done" /\ WebSocket /\ up["client"] = "open" /\ up["agent"] = "closed")
        => told \/ pump["out"] = "off" \/ pump["in"] = "broken"
                \/ Passed("out") = Given("out")

Gone(e) == up[e] # "open"

\* When both ends are gone the handler returns and closes its connections.
BothGoneEnds == (stage = "running" /\ Gone("client") /\ Gone("agent")) ~> stage = "done"

\* A write that waits for a client that does not read.
Stalled == pump["out"] = "write" /\ up["client"] = "open" /\ Len(queue["out"]) = Window

\* A stream under the context of its request ends with either of its ends
\* (exec.go:155-203, fs.go:166-188), unless the client stays and does not read.
RequestStreamEnds ==
    (UnderRequest /\ stage = "running" /\ (Gone("client") \/ Gone("agent")))
        ~> stage = "done" \/ Stalled
=============================================================================
