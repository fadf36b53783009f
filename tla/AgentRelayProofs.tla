--------------------------- MODULE AgentRelayProofs ---------------------------
(***************************************************************************)
(* What AgentRelay promises for any number of messages and any window.     *)
(* Messages are numbered, so that "in order and complete" is a statement   *)
(* about the numbers that each sequence on the way holds.                  *)
(***************************************************************************)
EXTENDS StreamRefinement, SequenceTheorems, TLAPS

Upness == {"open", "closed", "reset"}
PumpState == {"off", "check", "read", "write"} \cup Ended
Msgs == Seq(1..MaxMsg)

\* The types, with the domains of the functions over Dir.
Typed ==
    /\ kind \in {"pty", "watch", "sse", "download", "chunked", "attach", "ndjson"}
    /\ kind \in Kind
    /\ stage \in {"new", "dialing", "running", "done"}
    /\ up \in [End -> Upness]
    /\ pump \in [Dir -> PumpState]
    /\ shutdown \in BOOLEAN /\ told \in BOOLEAN
    /\ sent \in [Dir -> 0..MaxMsg]
    /\ wire \in [Dir -> Msgs] /\ queue \in [Dir -> Msgs] /\ got \in [Dir -> Msgs]
    /\ hand \in [Dir -> 0..MaxMsg]
    /\ \A d \in Dir : /\ Len(queue[d]) <= Window
                      /\ hand[d] # None <=> pump[d] = "write"
    /\ stage \in {"new", "dialing"} => \A d \in Dir : pump[d] = "off"

\* The type the proofs carry along is at least TypeOK.
LEMMA TypedType == Typed => TypeOK
  BY AgentRelayAssumption DEF Typed, TypeOK, Upness, PumpState, Msgs, None

\* The constants, as the arithmetic below needs them.
LEMMA Bounds == MaxMsg \in Nat /\ Window \in Nat /\ Window > 0
  BY AgentRelayAssumption

\* The first message of a sequence and the ones behind it.
LEMMA First ==
    ASSUME NEW s \in Msgs, s # <<>>
    PROVE  /\ Head(s) \in 1..MaxMsg /\ Head(s) = s[1]
           /\ Tail(s) \in Msgs /\ Len(s) \in Nat /\ Len(Tail(s)) = Len(s) - 1
           /\ \A i \in 1..Len(Tail(s)) : Tail(s)[i] = s[i + 1]
<1>1. s \in Seq(1..MaxMsg)
  BY DEF Msgs
<1>2. Head(s) \in 1..MaxMsg /\ Tail(s) \in Seq(1..MaxMsg) /\ Len(Tail(s)) = Len(s) - 1
  BY <1>1, HeadTailProperties, Zenon
<1>3. \A i \in 1..Len(Tail(s)) : Tail(s)[i] = s[i + 1]
  BY <1>1, HeadTailProperties, Zenon
<1>4. Head(s) = s[1] /\ Len(s) \in Nat
  BY <1>1
<1> QED BY <1>2, <1>3, <1>4 DEF Msgs

\* The types hold at the start.
LEMMA TypedInit == Init => Typed
<1> SUFFICES ASSUME Init PROVE Typed
  OBVIOUS
<1>1. <<>> \in Msgs /\ Len(<<>>) = 0
  BY DEF Msgs
<1>2. Each(<<>>) \in [Dir -> Msgs] /\ Each(0) \in [Dir -> 0..MaxMsg] /\ Each("off") \in [Dir -> PumpState]
  BY <1>1, Bounds DEF Each, PumpState
<1>3. up \in [End -> Upness]
  BY DEF Init, Upness
<1>4. \A d \in Dir : Len(queue[d]) <= Window /\ hand[d] = None /\ pump[d] = "off"
  BY <1>1, Bounds DEF Init, Each
<1> QED BY <1>2, <1>3, <1>4, AgentRelayAssumption DEF Init, Typed, None

\* Every step keeps the types.
LEMMA TypedStep == Typed /\ [Next]_vars => Typed'
<1> SUFFICES ASSUME Typed, [Next]_vars PROVE Typed'
  OBVIOUS
<1> USE Bounds
<1>1. CASE Handler
  <2>1. pump' \in [Dir -> PumpState] /\ \A d \in Dir : pump'[d] = "write" <=> pump[d] = "write"
    <3>1. Loops \in [Dir -> {"off", "check", "read"}]
      <4>1. CASE kind = "pty"
        BY <4>1 DEF Loops, Each
      <4>2. CASE kind = "watch"
        BY <4>2 DEF Loops, Each
      <4>3. CASE kind # "pty" /\ kind # "watch"
        BY <4>3 DEF Loops, Dir
      <4> QED BY <4>1, <4>2, <4>3
    <3>2. CASE Dial
      <4>1. \A d \in Dir : pump[d] # "write"
        BY <3>2 DEF Dial, Typed
      <4> QED BY <3>1, <3>2, <4>1 DEF Dial, PumpState
    <3>3. CASE UNCHANGED pump
      BY <3>3 DEF Typed
    <3> QED BY <1>1, <3>2, <3>3 DEF Handler, Refuse, Upgrade, DialFails, Return
  <2> QED BY <1>1, <2>1 DEF Handler, Refuse, Upgrade, Dial, DialFails, Return, OnlyStage, Typed
<1>2. ASSUME NEW d \in Dir, PumpCheck(d) PROVE Typed'
  <2>1. pump' = [pump EXCEPT ![d] = "signalled"] \/ pump' = [pump EXCEPT ![d] = "read"]
    BY <1>2 DEF PumpCheck
  <2>2. pump' \in [Dir -> PumpState] /\ \A x \in Dir : pump'[x] = "write" <=> pump[x] = "write"
    BY <1>2, <2>1 DEF PumpCheck, Typed, PumpState, Ended
  <2>3. stage' \notin {"new", "dialing"}
    BY <1>2 DEF PumpCheck, OnlyPump, Typed
  <2> QED BY <1>2, <2>2, <2>3 DEF PumpCheck, OnlyPump, Typed
<1>3. ASSUME NEW d \in Dir, PumpRead(d) PROVE Typed'
  <2>1. Head(wire[d]) \in 1..MaxMsg /\ Tail(wire[d]) \in Msgs
    BY <1>3, HeadTailProperties DEF PumpRead, Typed, Msgs
  <2>2. wire' \in [Dir -> Msgs]
    BY <1>3, <2>1 DEF PumpRead, Typed
  <2>3. /\ pump' \in [Dir -> PumpState] /\ hand' \in [Dir -> 0..MaxMsg]
        /\ \A x \in Dir : hand'[x] # None <=> pump'[x] = "write"
    <3>1. CASE UNCHANGED <<pump, hand>>
      BY <3>1 DEF Typed
    <3>2. CASE hand' = [hand EXCEPT ![d] = Head(wire[d])] /\ pump' = [pump EXCEPT ![d] = "write"]
      BY <2>1, <3>2 DEF Typed, PumpState, None
    <3> QED BY <1>3, <3>1, <3>2 DEF PumpRead
  <2>4. stage' \notin {"new", "dialing"}
    BY <1>3 DEF PumpRead, OnlyPump, Typed
  <2> QED BY <1>3, <2>2, <2>3, <2>4 DEF PumpRead, OnlyPump, Typed
<1>4. ASSUME NEW d \in Dir, PumpReadFails(d) PROVE Typed'
  BY <1>4 DEF PumpReadFails, Ends, OnlyPump, Typed, PumpState, Ended
<1>5. ASSUME NEW d \in Dir, PumpWrite(d) PROVE Typed'
  <2>1. hand[d] \in 1..MaxMsg /\ queue[d] \in Msgs /\ Len(queue[d]) < Window
    BY <1>5 DEF PumpWrite, Typed, None
  <2>2. Append(queue[d], hand[d]) \in Msgs /\ Len(Append(queue[d], hand[d])) <= Window
    BY <2>1 DEF Msgs
  <2>3. queue' \in [Dir -> Msgs] /\ \A x \in Dir : Len(queue'[x]) <= Window
    BY <1>5, <2>2 DEF PumpWrite, Typed
  <2>4. /\ pump' \in [Dir -> PumpState] /\ hand' \in [Dir -> 0..MaxMsg]
        /\ \A x \in Dir : hand'[x] # None <=> pump'[x] = "write"
    BY <1>5 DEF PumpWrite, Again, Typed, PumpState, None
  <2>5. stage' \notin {"new", "dialing"}
    BY <1>5 DEF PumpWrite, OnlyPump, Typed
  <2> QED BY <1>5, <2>3, <2>4, <2>5 DEF PumpWrite, Again, OnlyPump, Typed
<1>6. ASSUME NEW d \in Dir, PumpWriteFails(d) PROVE Typed'
  <2>1. /\ pump' \in [Dir -> PumpState] /\ hand' \in [Dir -> 0..MaxMsg]
        /\ \A x \in Dir : hand'[x] # None <=> pump'[x] = "write"
    <3>1. hand' = [hand EXCEPT ![d] = None]
      BY <1>6 DEF PumpWriteFails
    <3>2. PICK v \in {"check", "read", "broken"} : pump' = [pump EXCEPT ![d] = v]
      BY <1>6 DEF PumpWriteFails, Again, Ends
    <3> QED BY <3>1, <3>2 DEF Typed, PumpState, Ended, None
  <2>2. stage' \notin {"new", "dialing"} /\ shutdown' \in BOOLEAN
    BY <1>6 DEF PumpWriteFails, Again, Ends, OnlyPump, Typed
  <2> QED BY <1>6, <2>1, <2>2 DEF PumpWriteFails, OnlyPump, Typed
<1>7. ASSUME NEW d \in Dir, Send(d) PROVE Typed'
  BY <1>7 DEF Send, OnlyEnds, Typed, Msgs
<1>8. ASSUME NEW d \in Dir, Receive(d) PROVE Typed'
  <2>1. queue[d] \in Msgs /\ got[d] \in Msgs /\ queue[d] # <<>>
    BY <1>8 DEF Receive, Typed
  <2>2. /\ Tail(queue[d]) \in Msgs /\ Len(Tail(queue[d])) <= Len(queue[d])
        /\ Append(got[d], Head(queue[d])) \in Msgs
    <3>1. Head(queue[d]) \in 1..MaxMsg /\ Tail(queue[d]) \in Msgs
          /\ Len(Tail(queue[d])) = Len(queue[d]) - 1 /\ Len(queue[d]) \in Nat
      BY <2>1, First
    <3>2. Append(got[d], Head(queue[d])) \in Msgs
      BY <2>1, <3>1, AppendProperties DEF Msgs
    <3> QED BY <3>1, <3>2
  <2>3. /\ queue' \in [Dir -> Msgs] /\ got' \in [Dir -> Msgs]
        /\ \A x \in Dir : Len(queue'[x]) <= Window
    BY <1>8, <2>1, <2>2 DEF Receive, Typed, Msgs
  <2> QED BY <1>8, <2>3 DEF Receive, OnlyEnds, Typed
<1>9. ASSUME NEW e \in End, Leave(e) PROVE Typed'
  <2>1. up' \in [End -> Upness]
    BY <1>9 DEF Leave, Typed, Upness
  <2>2. wire' \in [Dir -> Msgs]
    <3>1. <<>> \in Msgs
      BY DEF Msgs
    <3>2. CASE wire' = [d \in Dir |-> IF From(d) = e THEN <<>> ELSE wire[d]]
      BY <3>1, <3>2 DEF Typed
    <3> QED BY <1>9, <3>2 DEF Leave, Typed
  <2> QED BY <1>9, <2>1, <2>2 DEF Leave, OnlyEnds, Typed
<1>10. CASE UNCHANGED vars
  BY <1>10 DEF vars, Typed
<1> QED BY <1>1, <1>2, <1>3, <1>4, <1>5, <1>6, <1>7, <1>8, <1>9, <1>10 DEF Next, Pump

\* The types hold in every state.
LEMMA AlwaysTyped == Spec => []Typed
  BY TypedInit, TypedStep, PTL DEF Spec

\* The state functions of AgentRelay have their types.
THEOREM TypeCorrect == Spec => []TypeOK
  BY AlwaysTyped, TypedType, PTL

-----------------------------------------------------------------------------
(* InOrder.  Each sequence on the way holds consecutive numbers and begins   *)
(* where the one before it ends, as long as nothing was dropped.             *)

GotLen(d) == Len(got[d])
QueueLen(d) == Len(queue[d])
WireLen(d) == Len(wire[d])

Counts(s, len, n) == \A i \in 1..len : s[i] = n + i
Passing(d) == GotLen(d) + QueueLen(d)
Held(d) == IF pump[d] = "write" THEN 1 ELSE 0
Flows(d) == up[To(d)] = "open" /\ ~(kind = "watch" /\ d = "in")

OrderAt(d) ==
    /\ Counts(got[d], GotLen(d), 0) /\ Counts(queue[d], QueueLen(d), GotLen(d))
    /\ Passing(d) <= sent[d]
    /\ kind = "watch" /\ d = "in" => pump[d] # "write"
    /\ Flows(d) => /\ pump[d] = "write" => hand[d] = Passing(d) + 1
                   /\ Counts(wire[d], WireLen(d), Passing(d) + Held(d))
                   /\ Passing(d) + Held(d) + WireLen(d) <= sent[d]
                   /\ up[From(d)] # "reset" => Passing(d) + Held(d) + WireLen(d) = sent[d]

OrderInv == \A d \in Dir : OrderAt(d)

\* What Append makes of a sequence of messages: one entry more, those before it untouched.
LEMMA Added ==
    ASSUME NEW s \in Msgs, NEW e \in 1..MaxMsg
    PROVE  /\ Len(Append(s, e)) = Len(s) + 1
           /\ \A i \in 1..Len(s) : Append(s, e)[i] = s[i]
           /\ Append(s, e)[Len(s) + 1] = e
<1>1. s \in Seq(1..MaxMsg)
  BY DEF Msgs
<1> QED BY <1>1, AppendProperties

\* The length of a sequence of messages is a number.
LEMMA Lengths == ASSUME NEW s \in Msgs PROVE Len(s) \in Nat
  BY DEF Msgs

\* The three lengths, before and after a step.
LEMMA LengthsAre ==
    ASSUME NEW d
    PROVE  /\ GotLen(d) = Len(got[d]) /\ QueueLen(d) = Len(queue[d]) /\ WireLen(d) = Len(wire[d])
           /\ GotLen(d)' = Len(got'[d]) /\ QueueLen(d)' = Len(queue'[d])
           /\ WireLen(d)' = Len(wire'[d])
  BY DEF GotLen, QueueLen, WireLen

\* A sequence that stays keeps its length.
LEMMA LengthsKept ==
    ASSUME NEW d
    PROVE  /\ got'[d] = got[d] => GotLen(d)' = GotLen(d)
           /\ queue'[d] = queue[d] => QueueLen(d)' = QueueLen(d)
           /\ wire'[d] = wire[d] => WireLen(d)' = WireLen(d)
  BY DEF GotLen, QueueLen, WireLen

\* A loop holds a message exactly when it is about to write.
LEMMA HeldIs ==
    ASSUME NEW d
    PROVE  /\ Held(d) \in {0, 1} /\ Held(d)' \in {0, 1}
           /\ pump[d] = "write" <=> Held(d) = 1
           /\ pump'[d] = "write" <=> Held(d)' = 1
  BY DEF Held

\* Passing as a sum, before and after a step.
LEMMA PassingIs ==
    ASSUME NEW d
    PROVE  /\ Passing(d) = GotLen(d) + QueueLen(d)
           /\ Passing(d)' = GotLen(d)' + QueueLen(d)'
  BY DEF Passing

\* What OrderAt looks at.
LEMMA OrderKept ==
    ASSUME NEW d \in Dir, OrderAt(d),
           kind' = kind, up'[To(d)] = up[To(d)], up'[From(d)] = up[From(d)],
           pump'[d] = "write" <=> pump[d] = "write",
           sent'[d] = sent[d], wire'[d] = wire[d], hand'[d] = hand[d],
           queue'[d] = queue[d], got'[d] = got[d]
    PROVE  OrderAt(d)'
  BY DEF OrderAt, Counts, Passing, Held, Flows, GotLen, QueueLen, WireLen

\* Every step keeps OrderInv.
LEMMA OrderStep == Typed /\ OrderInv /\ [Next]_vars => OrderInv'
<1> SUFFICES ASSUME Typed, OrderInv, [Next]_vars, NEW x \in Dir PROVE OrderAt(x)'
  BY DEF OrderInv
<1> USE Bounds
<1>0. /\ OrderAt(x) /\ GotLen(x) \in Nat /\ QueueLen(x) \in Nat /\ WireLen(x) \in Nat
      /\ got[x] \in Msgs /\ queue[x] \in Msgs /\ wire[x] \in Msgs
      /\ sent[x] \in Nat /\ From(x) \in End /\ To(x) \in End
  BY Lengths DEF OrderInv, Typed, GotLen, QueueLen, WireLen, From, To, End
<1>p. Passing(x) \in Nat
  BY <1>0, PassingIs
<1>1. CASE Handler
  <2>1. pump'[x] = "write" <=> pump[x] = "write"
    <3>1. CASE Dial
      <4>1. pump[x] = "off"
        BY <3>1 DEF Dial, Typed
      <4>2. Loops[x] # "write"
        <5>1. CASE kind = "pty"
          BY <5>1 DEF Loops, Each
        <5>2. CASE kind = "watch"
          BY <5>2 DEF Loops, Each
        <5>3. CASE kind # "pty" /\ kind # "watch"
          BY <5>3 DEF Loops, Dir
        <5> QED BY <5>1, <5>2, <5>3
      <4> QED BY <3>1, <4>1, <4>2 DEF Dial
    <3> QED BY <1>1, <3>1 DEF Handler, Refuse, Upgrade, DialFails, Return
  <2>2. OnlyStage
    BY <1>1 DEF Handler, Refuse, Upgrade, Dial, DialFails, Return
  <2> QED BY <1>0, <2>1, <2>2, OrderKept DEF OnlyStage
<1>2. ASSUME NEW d \in Dir, Pump(d), d # x PROVE OrderAt(x)'
  <2>1. pump'[x] = pump[x]
    BY <1>2 DEF Typed, Pump, PumpCheck, PumpRead, PumpReadFails, PumpWrite, PumpWriteFails, Again, Ends
  <2>2. hand'[x] = hand[x] /\ wire'[x] = wire[x] /\ queue'[x] = queue[x]
    BY <1>2 DEF Typed, Pump, PumpCheck, PumpRead, PumpReadFails, PumpWrite, PumpWriteFails
  <2>3. OnlyPump
    BY <1>2 DEF Pump, PumpCheck, PumpRead, PumpReadFails, PumpWrite, PumpWriteFails
  <2> QED BY <1>0, <2>1, <2>2, <2>3, OrderKept DEF OnlyPump
<1>3. CASE PumpCheck(x) \/ PumpReadFails(x)
  <2>1. pump[x] # "write" /\ pump'[x] # "write" /\ OnlyPump /\ UNCHANGED <<wire, hand, queue>>
    BY <1>3 DEF PumpCheck, PumpReadFails, Ends, Typed
  <2> QED BY <1>0, <2>1, OrderKept DEF OnlyPump
<1>4. CASE PumpRead(x)
  <2>1. /\ pump[x] = "read" /\ wire[x] # <<>> /\ wire'[x] = Tail(wire[x])
        /\ UNCHANGED <<kind, up, sent, queue, got>>
    BY <1>4 DEF PumpRead, OnlyPump, Typed
  <2>2. /\ Head(wire[x]) = wire[x][1] /\ WireLen(x)' = WireLen(x) - 1
        /\ \A i \in 1..WireLen(x)' : wire'[x][i] = wire[x][i + 1]
    <3>1. /\ Head(wire[x]) = wire[x][1] /\ Len(Tail(wire[x])) = Len(wire[x]) - 1
          /\ \A i \in 1..Len(Tail(wire[x])) : Tail(wire[x])[i] = wire[x][i + 1]
      BY <1>0, <2>1, First, Zenon
    <3>2. WireLen(x)' = Len(Tail(wire[x])) /\ WireLen(x) = Len(wire[x])
      BY <2>1, LengthsAre
    <3> QED BY <2>1, <3>1, <3>2
  <2>k. GotLen(x)' = GotLen(x) /\ QueueLen(x)' = QueueLen(x)
    BY <2>1, LengthsKept
  <2>3. CASE kind = "watch" /\ x = "in"
    <3>1. pump'[x] = pump[x]
      BY <1>4, <2>3 DEF PumpRead
    <3> QED BY <1>0, <2>1, <2>k, <2>3, <3>1 DEF OrderAt, Counts, Passing, Flows
  <2>4. CASE ~(kind = "watch" /\ x = "in")
    <3>1. pump'[x] = "write" /\ hand'[x] = Head(wire[x])
      BY <1>4, <2>4 DEF PumpRead, Typed
    <3>2. WireLen(x) \in Nat \ {0}
      BY <1>0, <2>1, LengthsAre DEF Msgs
    <3>3. Passing(x)' = Passing(x) /\ Held(x) = 0 /\ Held(x)' = 1
      <4>1. Passing(x)' = Passing(x)
        BY <2>k, PassingIs
      <4>2. Held(x) = 0 /\ Held(x)' = 1
        BY <2>1, <3>1, HeldIs
      <4> QED BY <4>1, <4>2
    <3>4. Flows(x)' => Flows(x)
      BY <2>1 DEF Flows
    <3>5. Flows(x) => hand'[x] = Passing(x) + 1 /\ Counts(wire'[x], WireLen(x)', Passing(x) + 1)
      <4> SUFFICES ASSUME Flows(x) PROVE hand'[x] = Passing(x) + 1 /\ Counts(wire'[x], WireLen(x)', Passing(x) + 1)
        OBVIOUS
      <4>1. \A i \in 1..WireLen(x) : wire[x][i] = Passing(x) + i
        BY <1>0, <1>p, <3>3 DEF OrderAt, Counts
      <4>2. hand'[x] = Passing(x) + 1
        BY <2>2, <3>1, <3>2, <4>1
      <4>3. ASSUME NEW i \in 1..WireLen(x)' PROVE wire'[x][i] = Passing(x) + 1 + i
        <5>1. i + 1 \in 1..WireLen(x) /\ wire'[x][i] = wire[x][i + 1]
          <6>1. i + 1 \in 1..WireLen(x)
            BY <2>2, <3>2
          <6> QED BY <2>2, <6>1
        <5> QED BY <1>p, <4>1, <5>1
      <4> QED BY <4>2, <4>3 DEF Counts
    <3>6. Flows(x) => /\ Passing(x) + 1 + WireLen(x)' <= sent[x]
                      /\ up[From(x)] # "reset" => Passing(x) + 1 + WireLen(x)' = sent[x]
      BY <1>0, <1>p, <2>1, <2>2, <3>2, <3>3 DEF OrderAt
    <3> QED BY <1>0, <1>p, <2>1, <2>k, <2>4, <3>1, <3>3, <3>4, <3>5, <3>6 DEF OrderAt, Counts
  <2> QED BY <2>3, <2>4
<1>5. CASE PumpWrite(x)
  <2>1. /\ pump[x] = "write" /\ up[To(x)] = "open" /\ queue'[x] = Append(queue[x], hand[x])
        /\ pump'[x] # "write"
        /\ UNCHANGED <<kind, up, sent, wire, got>>
    BY <1>5 DEF PumpWrite, Again, OnlyPump, Typed
  <2>2. Flows(x) /\ hand[x] = Passing(x) + 1
    BY <1>0, <2>1 DEF OrderAt, Flows
  <2>h. Held(x) = 1 /\ Held(x)' = 0
    BY <2>1, HeldIs
  <2>3. hand[x] \in 1..MaxMsg
    BY <2>1 DEF Typed, None
  <2>4. /\ QueueLen(x)' = QueueLen(x) + 1
        /\ \A i \in 1..QueueLen(x) : queue'[x][i] = queue[x][i]
        /\ queue'[x][QueueLen(x) + 1] = hand[x]
    BY <1>0, <2>1, <2>3, AppendProperties, LengthsAre, SMTT(20) DEF Msgs
  <2>k. GotLen(x)' = GotLen(x) /\ WireLen(x)' = WireLen(x)
    BY <2>1, LengthsKept
  <2>5. Passing(x)' = Passing(x) + 1
    BY <1>0, <2>k, <2>4, PassingIs
  <2>6. Counts(queue'[x], QueueLen(x)', GotLen(x))
    <3> SUFFICES ASSUME NEW i \in 1..QueueLen(x)' PROVE queue'[x][i] = GotLen(x) + i
      BY DEF Counts
    <3>1. CASE i \in 1..QueueLen(x)
      BY <1>0, <2>4, <3>1 DEF OrderAt, Counts
    <3>2. CASE i = QueueLen(x) + 1
      BY <1>0, <2>2, <2>4, <3>2, PassingIs
    <3> QED BY <1>0, <2>4, <3>1, <3>2
  <2>7. Passing(x)' + Held(x)' = Passing(x) + Held(x) /\ Held(x) \in Nat
    BY <1>p, <2>h, <2>5
  <2>8. /\ Counts(wire[x], WireLen(x), Passing(x) + Held(x))
        /\ Passing(x) + Held(x) + WireLen(x) <= sent[x]
        /\ up[From(x)] # "reset" => Passing(x) + Held(x) + WireLen(x) = sent[x]
    BY <1>0, <2>2 DEF OrderAt
  <2>9. Passing(x)' <= sent[x]
    BY <1>0, <1>p, <2>h, <2>5, <2>8
  <2> QED BY <1>0, <2>1, <2>k, <2>6, <2>7, <2>8, <2>9 DEF OrderAt
<1>6. CASE PumpWriteFails(x)
  <2>1. /\ up[To(x)] # "open" /\ pump'[x] # "write"
        /\ UNCHANGED <<kind, up, sent, queue, got>>
    BY <1>6 DEF PumpWriteFails, Again, Ends, OnlyPump, Typed
  <2>k. GotLen(x)' = GotLen(x) /\ QueueLen(x)' = QueueLen(x)
    BY <2>1, LengthsKept
  <2>2. Passing(x)' = Passing(x)
    BY <2>k, PassingIs
  <2> QED BY <1>0, <2>1, <2>k, <2>2 DEF OrderAt, Counts, Flows
<1>7. ASSUME NEW d \in Dir, Send(d) PROVE OrderAt(x)'
  <2>1. CASE d # x
    <3>1. /\ sent'[x] = sent[x] /\ wire'[x] = wire[x]
          /\ UNCHANGED <<kind, up, pump, hand, queue, got>>
      BY <1>7, <2>1 DEF Send, OnlyEnds, Typed
    <3> QED BY <1>0, <3>1, OrderKept
  <2>2. CASE d = x
    <3>1. /\ up[From(x)] = "open" /\ sent'[x] = sent[x] + 1 /\ sent[x] + 1 \in 1..MaxMsg
          /\ wire'[x] = Append(wire[x], sent[x] + 1)
          /\ UNCHANGED <<kind, up, pump, hand, queue, got>>
      BY <1>0, <1>7, <2>2 DEF Send, OnlyEnds, Typed
    <3>2. /\ WireLen(x)' = WireLen(x) + 1
          /\ \A i \in 1..WireLen(x) : wire'[x][i] = wire[x][i]
          /\ wire'[x][WireLen(x) + 1] = sent[x] + 1
      BY <1>0, <3>1, AppendProperties, LengthsAre DEF Msgs
    <3>k. GotLen(x)' = GotLen(x) /\ QueueLen(x)' = QueueLen(x)
      BY <3>1, LengthsKept
    <3>3. Passing(x)' = Passing(x) /\ Held(x)' = Held(x) /\ Held(x) \in Nat
      BY <3>1, <3>k, HeldIs, PassingIs
    <3>4. Flows(x)' <=> Flows(x)
      BY <3>1 DEF Flows
    <3>f. Flows(x) => Passing(x) + Held(x) + WireLen(x) = sent[x]
      BY <1>0, <3>1 DEF OrderAt
    <3>5. Flows(x) => Counts(wire'[x], WireLen(x)', Passing(x) + Held(x))
      <4> SUFFICES ASSUME Flows(x), NEW i \in 1..WireLen(x)'
                   PROVE  wire'[x][i] = Passing(x) + Held(x) + i
        BY DEF Counts
      <4>1. CASE i \in 1..WireLen(x)
        BY <1>0, <3>2, <4>1 DEF OrderAt, Counts
      <4>2. CASE i = WireLen(x) + 1
        BY <1>0, <1>p, <3>f, <3>2, <3>3, <4>2
      <4> QED BY <1>0, <3>2, <4>1, <4>2
    <3>6. Flows(x) => Passing(x) + Held(x) + WireLen(x)' = sent'[x]
      BY <1>0, <1>p, <3>f, <3>1, <3>2, <3>3
    <3>7. Passing(x)' <= sent'[x] /\ Passing(x)' + Held(x)' = Passing(x) + Held(x)
      BY <1>0, <1>p, <3>1, <3>3 DEF OrderAt
    <3>8. Flows(x)' => Passing(x)' + Held(x)' + WireLen(x)' <= sent'[x]
      BY <1>0, <3>1, <3>4, <3>6, <3>7
    <3> QED BY <1>0, <3>1, <3>k, <3>3, <3>4, <3>5, <3>6, <3>7, <3>8 DEF OrderAt
  <2> QED BY <2>1, <2>2
<1>8. ASSUME NEW d \in Dir, Receive(d) PROVE OrderAt(x)'
  <2>1. CASE d # x
    <3>1. /\ queue'[x] = queue[x] /\ got'[x] = got[x]
          /\ UNCHANGED <<kind, up, pump, hand, wire, sent>>
      BY <1>8, <2>1 DEF Receive, OnlyEnds, Typed
    <3> QED BY <1>0, <3>1, OrderKept
  <2>2. CASE d = x
    <3>1. /\ queue[x] # <<>> /\ queue'[x] = Tail(queue[x])
          /\ got'[x] = Append(got[x], Head(queue[x]))
          /\ UNCHANGED <<kind, up, pump, hand, wire, sent>>
      BY <1>8, <2>2 DEF Receive, OnlyEnds, Typed
    <3>2. /\ Head(queue[x]) = queue[x][1] /\ Head(queue[x]) \in 1..MaxMsg
          /\ QueueLen(x)' = QueueLen(x) - 1
          /\ \A i \in 1..QueueLen(x)' : queue'[x][i] = queue[x][i + 1]
      <4>1. /\ Head(queue[x]) = queue[x][1] /\ Head(queue[x]) \in 1..MaxMsg
            /\ Len(Tail(queue[x])) = Len(queue[x]) - 1
            /\ \A i \in 1..Len(Tail(queue[x])) : Tail(queue[x])[i] = queue[x][i + 1]
        BY <1>0, <3>1, First, Zenon
      <4>2. QueueLen(x)' = Len(Tail(queue[x])) /\ QueueLen(x) = Len(queue[x])
        BY <3>1, LengthsAre
      <4> QED BY <3>1, <4>1, <4>2
    <3>3. /\ GotLen(x)' = GotLen(x) + 1
          /\ \A i \in 1..GotLen(x) : got'[x][i] = got[x][i]
          /\ got'[x][GotLen(x) + 1] = Head(queue[x])
      <4>1. got[x] \in Msgs /\ Head(queue[x]) \in 1..MaxMsg
        BY <1>0, <3>2
      <4>2. /\ Len(Append(got[x], Head(queue[x]))) = Len(got[x]) + 1
            /\ \A i \in 1..Len(got[x]) : Append(got[x], Head(queue[x]))[i] = got[x][i]
            /\ Append(got[x], Head(queue[x]))[Len(got[x]) + 1] = Head(queue[x])
        BY <4>1, Added, Zenon
      <4>3. GotLen(x) = Len(got[x]) /\ GotLen(x)' = Len(Append(got[x], Head(queue[x])))
        BY <3>1, LengthsAre
      <4> QED BY <3>1, <4>2, <4>3
    <3>k. WireLen(x)' = WireLen(x)
      BY <3>1, LengthsKept
    <3>4. QueueLen(x) \in Nat \ {0}
      BY <1>0, <3>1, LengthsAre DEF Msgs
    <3>5. Passing(x)' = Passing(x) /\ Held(x)' = Held(x) /\ (Flows(x)' <=> Flows(x))
      <4>1. Passing(x)' = Passing(x)
        BY <1>0, <3>2, <3>3, <3>4, PassingIs
      <4>2. Held(x)' = Held(x)
        BY <3>1 DEF Held
      <4>3. Flows(x)' <=> Flows(x)
        BY <3>1, <1>8 DEF Flows, Receive, OnlyEnds
      <4> QED BY <4>1, <4>2, <4>3
    <3>6. Counts(got'[x], GotLen(x)', 0)
      <4> SUFFICES ASSUME NEW i \in 1..GotLen(x)' PROVE got'[x][i] = 0 + i
        BY DEF Counts
      <4>1. CASE i \in 1..GotLen(x)
        BY <1>0, <3>3, <4>1 DEF OrderAt, Counts
      <4>2. CASE i = GotLen(x) + 1
        BY <1>0, <3>2, <3>3, <3>4, <4>2 DEF OrderAt, Counts
      <4> QED BY <1>0, <3>3, <4>1, <4>2
    <3>7. Counts(queue'[x], QueueLen(x)', GotLen(x)')
      <4> SUFFICES ASSUME NEW i \in 1..QueueLen(x)' PROVE queue'[x][i] = GotLen(x)' + i
        BY DEF Counts
      <4>1. i + 1 \in 1..QueueLen(x) /\ queue'[x][i] = queue[x][i + 1]
        BY <3>2, <3>4
      <4>2. queue[x][i + 1] = GotLen(x) + (i + 1)
        BY <1>0, <4>1 DEF OrderAt, Counts
      <4> QED BY <1>0, <3>3, <4>1, <4>2
    <3> QED BY <1>0, <3>1, <3>k, <3>5, <3>6, <3>7 DEF OrderAt, Counts
  <2> QED BY <2>1, <2>2
<1>9. ASSUME NEW e \in End, Leave(e) PROVE OrderAt(x)'
  <2>1. /\ UNCHANGED <<kind, pump, hand, sent, queue, got>>
    BY <1>9 DEF Leave, OnlyEnds
  <2>k. GotLen(x)' = GotLen(x) /\ QueueLen(x)' = QueueLen(x)
    BY <2>1, LengthsKept
  <2>h. Passing(x)' = Passing(x) /\ Held(x)' = Held(x) /\ Held(x) \in {0, 1}
    BY <2>1, <2>k, HeldIs, PassingIs
  <2>u. \A y \in End : up'[y] = up[y] \/ (up[y] = "open" /\ up'[y] \in {"closed", "reset"})
    <3>1. PICK v \in {"closed", "reset"} : up' = [up EXCEPT ![e] = v]
      BY <1>9 DEF Leave
    <3>2. up[e] = "open"
      BY <1>9 DEF Leave
    <3>3. ASSUME NEW y \in End, y # e PROVE up'[y] = up[y]
      BY <3>1, <3>3 DEF Typed
    <3>4. up'[e] = v
      BY <1>9, <3>1 DEF Typed
    <3> QED BY <3>2, <3>3, <3>4
  <2>2. CASE wire'[x] = wire[x]
    <3>1. Flows(x)' => Flows(x) /\ (up'[From(x)] # "reset" => up[From(x)] # "reset")
      BY <1>0, <2>1, <2>u DEF Flows
    <3>2. WireLen(x)' = WireLen(x)
      BY <2>2, LengthsKept
    <3> QED BY <1>0, <1>p, <2>1, <2>k, <2>h, <2>2, <3>1, <3>2 DEF OrderAt, Counts
  <2>3. CASE wire'[x] = <<>> /\ up'[From(x)] = "reset"
    <3>1. Flows(x)' => Flows(x)
      BY <1>0, <2>1, <2>u DEF Flows
    <3>2. WireLen(x)' = 0
      BY <2>3, LengthsAre
    <3> QED BY <1>0, <1>p, <2>1, <2>k, <2>h, <2>3, <3>1, <3>2 DEF OrderAt, Counts
  <2> QED BY <1>0, <1>9, <2>2, <2>3 DEF Leave, Typed
<1>10. CASE UNCHANGED vars
  BY <1>0, <1>10, OrderKept DEF vars
<1> QED BY <1>1, <1>2, <1>3, <1>4, <1>5, <1>6, <1>7, <1>8, <1>9, <1>10 DEF Next, Pump

\* OrderInv holds at the start, when nothing is on the way.
LEMMA OrderInit == Init => OrderInv
<1> SUFFICES ASSUME Init, NEW d \in Dir PROVE OrderAt(d)
  BY DEF OrderInv
<1>1. /\ got[d] = <<>> /\ queue[d] = <<>> /\ wire[d] = <<>> /\ sent[d] = 0
      /\ pump[d] = "off" /\ Len(<<>>) = 0
  BY DEF Init, Each
<1>2. GotLen(d) = 0 /\ QueueLen(d) = 0 /\ WireLen(d) = 0
  BY <1>1, LengthsAre
<1> QED BY <1>1, <1>2 DEF OrderAt, Counts, Passing, Held

\* Entry i of what was passed on, and of what was given, is message i.
LEMMA PassedIs ==
    ASSUME Typed, OrderInv, NEW d \in Dir
    PROVE  /\ Passing(d) \in Nat /\ Passing(d) <= sent[d] /\ sent[d] \in Nat
           /\ Passed(d) \in Seq(1..MaxMsg) /\ Len(Passed(d)) = Passing(d)
           /\ \A i \in 1..Passing(d) : Passed(d)[i] = i
           /\ Given(d) \in Seq(Nat) /\ Len(Given(d)) = sent[d] /\ \A i \in 1..sent[d] : Given(d)[i] = i
<1>1. /\ got[d] \in Seq(1..MaxMsg) /\ queue[d] \in Seq(1..MaxMsg) /\ sent[d] \in Nat
      /\ GotLen(d) \in Nat /\ QueueLen(d) \in Nat
  BY Bounds, LengthsAre DEF Typed, Msgs
<1>2. Passing(d) <= sent[d] /\ Counts(got[d], GotLen(d), 0) /\ Counts(queue[d], QueueLen(d), GotLen(d))
  BY DEF OrderInv, OrderAt
<1>3. /\ Passed(d) \in Seq(1..MaxMsg) /\ Len(Passed(d)) = Passing(d)
      /\ \A i \in 1..Passing(d) :
            Passed(d)[i] = IF i <= GotLen(d) THEN got[d][i] ELSE queue[d][i - GotLen(d)]
  <2> DEFINE g == got[d]
             q == queue[d]
  <2>1. /\ g \o q \in Seq(1..MaxMsg) /\ Len(g \o q) = Len(g) + Len(q)
        /\ \A i \in 1..Len(g) + Len(q) : (g \o q)[i] = IF i <= Len(g) THEN g[i] ELSE q[i - Len(g)]
    BY <1>1, ConcatProperties, Zenon
  <2>2. Passed(d) = g \o q /\ GotLen(d) = Len(g) /\ Passing(d) = Len(g) + Len(q)
    BY LengthsAre DEF Passed, Passing
  <2> QED BY <2>1, <2>2
<1>4. \A i \in 1..Passing(d) : Passed(d)[i] = i
  <2> SUFFICES ASSUME NEW i \in 1..Passing(d) PROVE Passed(d)[i] = i
    OBVIOUS
  <2>1. Passing(d) = GotLen(d) + QueueLen(d)
    BY PassingIs
  <2>2. CASE i <= GotLen(d)
    <3>1. i \in 1..GotLen(d)
      BY <1>1, <2>1, <2>2
    <3>2. got[d][i] = i
      BY <1>2, <3>1 DEF Counts
    <3> QED BY <1>3, <2>2, <3>2
  <2>3. CASE ~(i <= GotLen(d))
    <3>1. i - GotLen(d) \in 1..QueueLen(d)
      BY <1>1, <2>1, <2>3
    <3> QED BY <1>1, <1>2, <1>3, <2>3, <3>1 DEF Counts
  <2> QED BY <2>2, <2>3
<1>5. Given(d) \in Seq(Nat) /\ Len(Given(d)) = sent[d] /\ \A i \in 1..sent[d] : Given(d)[i] = i
  BY <1>1 DEF Given
<1>6. Passing(d) \in Nat
  BY <1>1, PassingIs
<1> QED BY <1>1, <1>2, <1>3, <1>4, <1>5, <1>6

\* OrderInv implies InOrder.
LEMMA OrderIsPrefix == Typed /\ OrderInv => InOrder
<1> SUFFICES ASSUME Typed, OrderInv, NEW d \in Dir PROVE IsPrefix(Passed(d), Given(d))
  BY DEF InOrder
<1>1. SubSeq(Passed(d), 1, Passing(d)) = SubSeq(Given(d), 1, Passing(d))
  <2>1. \A i \in 1..Passing(d) : Passed(d)[i] = Given(d)[i]
    BY PassedIs
  <2>2. /\ SubSeq(Passed(d), 1, Passing(d)) = [i \in 1..Passing(d) |-> Passed(d)[i]]
        /\ SubSeq(Given(d), 1, Passing(d)) = [i \in 1..Passing(d) |-> Given(d)[i]]
    BY PassedIs
  <2> QED BY <2>1, <2>2
<1> QED BY <1>1, PassedIs DEF IsPrefix

\* Whatever its two loops and its two ends do, a stream passes messages on in
\* order, without loss in the middle, repetition or invention.
THEOREM StreamsInOrder == Spec => []InOrder
<1>1. Spec => []OrderInv
  BY OrderInit, OrderStep, AlwaysTyped, PTL DEF Spec
<1> QED BY <1>1, AlwaysTyped, OrderIsPrefix, PTL

-----------------------------------------------------------------------------
(* HonestEnd and LastOutputArrives.  How a loop ended says what became of    *)
(* the end it read or wrote, and an end that has left does not come back;    *)
(* with OrderInv, a loop that read the end of its stream passed all of it.   *)

EndAt(d) ==
    /\ pump[d] = "eof" => LooksClosed(From(d)) /\ wire[d] = <<>>
    /\ pump[d] = "failed" => up[From(d)] = "reset" \/ (UnderRequest /\ up["client"] # "open")
    /\ pump[d] = "broken" => up[To(d)] # "open"
    /\ pump[d] = "signalled" => shutdown
    /\ stage = "done" => pump[d] \in Ended \cup {"off"}

OwnEnd == Ended \ {"signalled"}

EndInv ==
    /\ \A d \in Dir : EndAt(d)
    /\ shutdown => \E d \in Dir : pump[d] \in OwnEnd
    /\ stage = "done" /\ ~WebSocket /\ kind # "chunked" => told \/ pump["out"] = "eof"

\* What has ended stays as it is.
LEMMA Settled ==
    ASSUME Typed, [Next]_vars, NEW x \in Dir
    PROVE  /\ kind' = kind /\ (shutdown => shutdown')
           /\ \A e \in End : up[e] # "open" => up'[e] = up[e]
           /\ pump[x] \in Ended => pump'[x] = pump[x]
           /\ stage = "done" => /\ stage' = "done" /\ told' = told
                                /\ pump[x] = "off" => pump'[x] = "off"
           /\ up[From(x)] # "open" /\ wire[x] = <<>> => wire'[x] = <<>>
<1>0. From(x) \in End
  BY DEF From, End
<1>1. CASE Handler
  <2>1. pump[x] \in Ended => pump'[x] = pump[x]
    BY <1>1 DEF Handler, Refuse, Upgrade, Dial, DialFails, Return, Typed, Ended
  <2> QED BY <1>1, <2>1 DEF Handler, Refuse, Upgrade, Dial, DialFails, Return, OnlyStage
<1>2. ASSUME NEW d \in Dir, Pump(d)
      PROVE  /\ UNCHANGED <<kind, up, stage, told>> /\ (shutdown => shutdown')
             /\ pump[x] \in Ended \cup {"off"} => pump'[x] = pump[x]
             /\ wire[x] = <<>> => wire'[x] = <<>>
  <2>1. UNCHANGED <<kind, up, stage, told>> /\ (shutdown => shutdown')
    <3>1. UNCHANGED <<kind, up, stage, told>>
      BY <1>2 DEF Pump, PumpCheck, PumpRead, PumpReadFails, PumpWrite, PumpWriteFails, OnlyPump
    <3>2. \/ UNCHANGED shutdown
          \/ shutdown' = (shutdown \/ kind = "pty")
      BY <1>2 DEF Pump, PumpCheck, PumpRead, PumpReadFails, PumpWrite, PumpWriteFails, Ends, Again
    <3>3. CASE UNCHANGED shutdown
      BY <3>1, <3>3
    <3>4. CASE shutdown' = (shutdown \/ kind = "pty")
      BY <3>1, <3>4, Zenon
    <3> QED BY <3>2, <3>3, <3>4
  <2>2. pump[d] \in {"check", "read", "write"}
    BY <1>2 DEF Pump, PumpCheck, PumpRead, PumpReadFails, PumpWrite, PumpWriteFails
  <2>3. x # d => pump'[x] = pump[x]
    BY <1>2 DEF Typed, Pump, PumpCheck, PumpRead, PumpReadFails, PumpWrite, PumpWriteFails, Again, Ends
  <2>4. wire[x] = <<>> => wire'[x] = <<>>
    BY <1>2 DEF Typed, Pump, PumpCheck, PumpRead, PumpReadFails, PumpWrite, PumpWriteFails
  <2> QED BY <2>1, <2>2, <2>3, <2>4 DEF Ended
<1>3. ASSUME NEW d \in Dir, Send(d)
      PROVE  /\ UNCHANGED <<kind, up, stage, told, pump, shutdown>>
             /\ up[From(x)] # "open" => wire'[x] = wire[x]
  BY <1>3 DEF Send, OnlyEnds, Typed
<1>4. ASSUME NEW d \in Dir, Receive(d)
      PROVE  UNCHANGED <<kind, up, stage, told, pump, shutdown, wire>>
  BY <1>4 DEF Receive, OnlyEnds
<1>5. ASSUME NEW e \in End, Leave(e)
      PROVE  /\ UNCHANGED <<kind, stage, told, pump, shutdown>>
             /\ \A f \in End : up[f] # "open" => up'[f] = up[f]
             /\ wire[x] = <<>> => wire'[x] = <<>>
  BY <1>5 DEF Leave, OnlyEnds, Typed
<1>6. CASE UNCHANGED vars
  BY <1>6 DEF vars
<1> QED BY <1>1, <1>2, <1>3, <1>4, <1>5, <1>6 DEF Next, Ended

\* How a loop comes to its end, and how the handler does.
LEMMA Moves ==
    ASSUME Typed, [Next]_vars
    PROVE  /\ \A x \in Dir : pump'[x] = pump[x] \/ pump'[x] \notin Ended \/ Pump(x)
           /\ shutdown' => shutdown \/ \E d \in Dir : pump'[d] \in OwnEnd
           /\ stage' = "done" => stage = "done" \/ Refuse \/ DialFails \/ Return
<1>1. CASE Handler
  <2>1. ASSUME NEW x \in Dir PROVE Loops[x] \notin Ended
    <3>1. CASE kind = "pty"
      BY <3>1 DEF Loops, Each, Ended
    <3>2. CASE kind = "watch"
      BY <3>2 DEF Loops, Each, Ended
    <3>3. CASE kind # "pty" /\ kind # "watch"
      BY <3>3 DEF Loops, Dir, Ended
    <3> QED BY <3>1, <3>2, <3>3
  <2> QED BY <1>1, <2>1 DEF Handler, Refuse, Upgrade, Dial, DialFails, Return, OnlyStage
<1>2. ASSUME NEW d \in Dir, Pump(d)
      PROVE  /\ UNCHANGED stage
             /\ \A x \in Dir : pump'[x] = pump[x] \/ x = d
             /\ shutdown' => shutdown \/ pump'[d] \in OwnEnd
  <2>1. UNCHANGED stage
    BY <1>2 DEF Pump, PumpCheck, PumpRead, PumpReadFails, PumpWrite, PumpWriteFails, OnlyPump
  <2>2. \A x \in Dir : pump'[x] = pump[x] \/ x = d
    BY <1>2 DEF Typed, Pump, PumpCheck, PumpRead, PumpReadFails, PumpWrite, PumpWriteFails, Again, Ends
  <2>3. shutdown' => shutdown \/ pump'[d] \in OwnEnd
    BY <1>2 DEF Typed, Pump, PumpCheck, PumpRead, PumpReadFails, PumpWrite, PumpWriteFails,
                Again, Ends, OwnEnd, Ended
  <2> QED BY <2>1, <2>2, <2>3
<1>3. CASE (\E d \in Dir : Send(d) \/ Receive(d)) \/ (\E e \in End : Leave(e)) \/ UNCHANGED vars
  BY <1>3 DEF Send, Receive, Leave, OnlyEnds, vars
<1> QED BY <1>1, <1>2, <1>3 DEF Next

\* The one step of a loop that ends it.
LEMMA LoopEnds ==
    ASSUME Typed, NEW x \in Dir, Pump(x), pump'[x] \in Ended
    PROVE  /\ pump[x] \notin Ended \cup {"off"} /\ UNCHANGED <<kind, up, stage>>
           /\ pump'[x] = "eof" => LooksClosed(From(x)) /\ wire'[x] = <<>>
           /\ pump'[x] = "failed" => up[From(x)] = "reset" \/ (UnderRequest /\ up["client"] # "open")
           /\ pump'[x] = "broken" => up[To(x)] # "open"
           /\ pump'[x] = "signalled" => shutdown'
<1>0. up[From(x)] \in Upness
  BY DEF Typed, From, End
<1>1. CASE PumpCheck(x)
  BY <1>1 DEF PumpCheck, Typed, Ended, OnlyPump
<1>2. CASE PumpRead(x) \/ PumpWrite(x)
  BY <1>2 DEF PumpRead, PumpWrite, Again, Typed, Ended
<1>3. CASE PumpReadFails(x)
  BY <1>0, <1>3 DEF PumpReadFails, Ends, Typed, Ended, OnlyPump, Cancelled, Upness
<1>4. CASE PumpWriteFails(x)
  BY <1>4 DEF PumpWriteFails, Ends, Again, Typed, Ended, OnlyPump
<1> QED BY <1>1, <1>2, <1>3, <1>4 DEF Pump

\* Every step keeps EndInv.
LEMMA EndStep == Typed /\ EndInv /\ [Next]_vars => EndInv'
<1> SUFFICES ASSUME Typed, EndInv, [Next]_vars PROVE EndInv'
  OBVIOUS
<1>1. ASSUME NEW x \in Dir PROVE EndAt(x)'
  <2>0. EndAt(x) /\ From(x) \in End /\ To(x) \in End /\ "client" \in End
    BY DEF EndInv, From, To, End
  <2>1. stage' = "done" => pump'[x] \in Ended \cup {"off"}
    <3>1. CASE stage = "done"
      BY <2>0, <3>1, Settled DEF EndAt
    <3>2. CASE Refuse \/ DialFails
      BY <3>2 DEF Refuse, DialFails, Typed
    <3>3. CASE Return
      BY <3>3 DEF Return
    <3> QED BY <3>1, <3>2, <3>3, Moves
  <2>2. CASE pump'[x] = pump[x]
    <3>1. CASE pump[x] \in Ended
      BY <2>0, <2>1, <2>2, <3>1, Settled DEF EndAt, UnderRequest, LooksClosed, Unframed, Ended
    <3>2. CASE pump[x] \notin Ended
      BY <2>1, <2>2, <3>2 DEF EndAt, Ended
    <3> QED BY <3>1, <3>2
  <2>3. CASE pump'[x] \notin Ended
    BY <2>1, <2>3 DEF EndAt, Ended
  <2>4. CASE Pump(x) /\ pump'[x] \in Ended
    BY <2>1, <2>4, LoopEnds DEF EndAt, UnderRequest, LooksClosed, Unframed
  <2> QED BY <2>2, <2>3, <2>4, Moves
<1>2. shutdown' => \E d \in Dir : pump'[d] \in OwnEnd
  <2>1. CASE shutdown
    <3>1. PICK d \in Dir : pump[d] \in OwnEnd
      BY <2>1 DEF EndInv
    <3> QED BY <3>1, Settled DEF OwnEnd
  <2> QED BY <2>1, Moves
<1>3. ASSUME stage' = "done", ~WebSocket', kind' # "chunked" PROVE told' \/ pump'["out"] = "eof"
  <2>0. kind' = kind /\ "out" \in Dir
    BY Settled DEF Dir
  <2>1. CASE stage = "done"
    BY <1>3, <2>0, <2>1, Settled DEF EndInv, WebSocket, Ended
  <2>2. CASE Refuse \/ DialFails \/ Return
    BY <1>3, <2>0, <2>2 DEF Refuse, DialFails, Return, WebSocket
  <2> QED BY <1>3, <2>1, <2>2, Moves
<1> QED BY <1>1, <1>2, <1>3 DEF EndInv

\* EndInv holds at the start, when no loop runs.
LEMMA EndInit == Init => EndInv
  BY DEF Init, EndInv, EndAt, Each, Dir

\* A loop towards the client that saw the end of the stream has passed everything on.
LEMMA EofIsWhole ==
    ASSUME Typed, OrderInv, EndInv, up["client"] = "open", pump["out"] = "eof", up["agent"] = "closed"
    PROVE  Passed("out") = Given("out")
<1>0. "out" \in Dir /\ From("out") = "agent" /\ To("out") = "client"
  BY DEF Dir, From, To
<1>1. up["agent"] = "closed" /\ wire["out"] = <<>>
  BY <1>0 DEF EndInv, EndAt
<1>2. WireLen("out") = 0 /\ Held("out") = 0
  BY <1>1, LengthsAre, HeldIs
<1>3. Passing("out") + Held("out") + WireLen("out") = sent["out"]
  BY <1>0, <1>1 DEF OrderInv, OrderAt, Flows
<1>4. Passing("out") = sent["out"]
  BY <1>0, <1>2, <1>3, PassedIs
<1> QED BY <1>0, <1>4, PassedIs

\* The invariant implies HonestEnd.
LEMMA EndIsHonest == Typed /\ OrderInv /\ EndInv => HonestEnd
<1> SUFFICES ASSUME Typed, OrderInv, EndInv, stage = "done", ~WebSocket, kind # "chunked",
                    up["client"] = "open", ~(Unframed /\ up["agent"] = "reset"), ~told
             PROVE  Passed("out") = Given("out")
  BY DEF HonestEnd
<1>1. pump["out"] = "eof"
  BY DEF EndInv
<1>2. LooksClosed("agent")
  BY <1>1 DEF EndInv, EndAt, Dir, From
<1> QED BY <1>1, <1>2, EofIsWhole DEF LooksClosed

\* The invariant implies LastOutputArrives.
LEMMA LastArrives == Typed /\ OrderInv /\ EndInv => LastOutputArrives
<1> SUFFICES ASSUME Typed, OrderInv, EndInv, stage = "done", WebSocket,
                    up["client"] = "open", up["agent"] = "closed",
                    pump["out"] # "off", pump["in"] # "broken", pump["out"] # "eof"
             PROVE  FALSE
  BY EofIsWhole DEF LastOutputArrives
<1>0. /\ Dir = {"in", "out"} /\ From("out") = "agent" /\ From("in") = "client" /\ To("out") = "client"
      /\ ~UnderRequest /\ ~Unframed
  BY DEF Dir, From, To, UnderRequest, Unframed, WebSocket
<1>1. pump["out"] = "signalled" /\ shutdown
  BY <1>0 DEF EndInv, EndAt, Ended
<1>2. pump["in"] \in {"eof", "failed"}
  BY <1>0, <1>1 DEF EndInv, OwnEnd, Ended
<1> QED BY <1>0, <1>2 DEF EndInv, EndAt, LooksClosed

\* The inductive invariant holds in every state.
LEMMA Invariants == Spec => [](Typed /\ OrderInv /\ EndInv)
  BY OrderInit, OrderStep, EndInit, EndStep, AlwaysTyped, PTL DEF Spec

\* The client of an HTTP stream that is still there at its end has everything,
\* or can tell that it has not, whenever the two ends leave.
THEOREM StreamsEndHonestly == Spec => []HonestEnd
  BY Invariants, EndIsHonest, PTL

\* The client of a terminal or a watch gets the last output of an agent that
\* closed in order, unless what it typed could not be written.
THEOREM LastOutput == Spec => []LastOutputArrives
  BY Invariants, LastArrives, PTL

-----------------------------------------------------------------------------
(* AgentRelay implements StreamContract.  By OrderInv what was passed on is  *)
(* determined by its length, so that a step needs to be judged by numbers.   *)

\* What was passed on in each direction is messages 1, 2, ... up to Passing.
LEMMA PassedAre ==
    Typed /\ OrderInv => \A d \in Dir : /\ Passed(d) = [i \in 1..Passing(d) |-> i]
                                        /\ Passing(d) \in Nat /\ Passing(d) <= sent[d]
<1> SUFFICES ASSUME Typed, OrderInv, NEW d \in Dir
             PROVE  Passed(d) = [i \in 1..Passing(d) |-> i]
  BY PassedIs
<1> QED BY PassedIs

\* The same after a step.
LEMMA PassedAreNext ==
    (Typed /\ OrderInv => \A d \in Dir : /\ Passed(d) = [i \in 1..Passing(d) |-> i]
                                         /\ Passing(d) \in Nat /\ Passing(d) <= sent[d])'
  BY PassedAre, PTL

\* The two directions of the contract are those of the relay.
LEMMA LeadsAre ==
    /\ DOMAIN Contract!Leads = Dir
    /\ \A d \in Dir : Contract!Leads[d].from = From(d) /\ Contract!Leads[d].to = To(d)
  BY DEF Contract!Leads, Dir, From, To

\* A step that neither passes on nor takes back leaves the mapped sequences alone.
LEMMA PassedKept ==
    ASSUME Typed, OrderInv, Typed', OrderInv', \A d \in Dir : Passing(d)' = Passing(d)
    PROVE  PassedOn' = PassedOn
<1>1. \A d \in Dir : Passed(d)' = Passed(d)
  BY PassedAre, PassedAreNext
<1> QED BY <1>1 DEF PassedOn

\* One more message written is one message passed on.
LEMMA PassedOneMore ==
    ASSUME Typed, OrderInv, Typed', OrderInv', NEW d \in Dir, Passing(d)' = Passing(d) + 1,
           \A x \in Dir \ {d} : Passing(x)' = Passing(x), sent' = sent
    PROVE  /\ Len(PassedOn[d]) < sent[d]
           /\ PassedOn' = [PassedOn EXCEPT ![d] = Append(@, Len(@) + 1)]
<1> DEFINE n == Passing(d)
<1>1. /\ n \in Nat /\ n + 1 <= sent[d]
      /\ Passed(d) = [i \in 1..n |-> i] /\ Passed(d)' = [i \in 1..(n + 1) |-> i]
  BY PassedAre, PassedAreNext
<1>2. \A x \in Dir \ {d} : Passed(x)' = Passed(x)
  BY PassedAre, PassedAreNext
<1>3. Len(Passed(d)) = n /\ Append(Passed(d), n + 1) = [i \in 1..(n + 1) |-> i]
  <2> HIDE DEF n
  <2>1. [i \in 1..n |-> i] \in Seq(Nat) /\ Len([i \in 1..n |-> i]) = n
    BY <1>1
  <2>2. Append([i \in 1..n |-> i], n + 1) = [i \in 1..(n + 1) |-> i]
    BY <1>1, <2>1
  <2> QED BY <1>1, <2>1, <2>2
<1>4. sent[d] \in Nat
  BY Bounds DEF Typed
<1>5. Passed(d)' = Append(Passed(d), Len(Passed(d)) + 1)
  BY <1>1, <1>3
<1>6. PassedOn' = [PassedOn EXCEPT ![d] = Append(@, Len(@) + 1)]
  <2> DEFINE more == Append(Passed(d), Len(Passed(d)) + 1)
  <2>1. PassedOn' = [x \in Dir |-> IF x = d THEN more ELSE Passed(x)]
    BY <1>2, <1>5 DEF PassedOn
  <2> HIDE DEF more
  <2>2. [PassedOn EXCEPT ![d] = more] = [x \in Dir |-> IF x = d THEN more ELSE Passed(x)]
    BY DEF PassedOn
  <2>3. [PassedOn EXCEPT ![d] = Append(@, Len(@) + 1)] = [PassedOn EXCEPT ![d] = more]
    BY DEF PassedOn, more
  <2> QED BY <2>1, <2>2, <2>3
<1> QED BY <1>1, <1>3, <1>4, <1>6 DEF PassedOn

\* Every step of the relay is one of the contract, or none.
LEMMA ContractStep ==
    Typed /\ OrderInv /\ EndInv /\ [Next]_vars => [Contract!Next]_(Contract!vars)
<1> SUFFICES ASSUME Typed, OrderInv, EndInv, [Next]_vars
             PROVE  [Contract!Next]_(Contract!vars)
  OBVIOUS
<1>a. Typed' /\ OrderInv'
  BY TypedStep, OrderStep
<1>b. Honest' = Honest /\ "out" \in Dir
  BY Settled DEF Honest, WebSocket, Unframed, Dir
<1>c. ASSUME \A d \in Dir : got'[d] = got[d] /\ queue'[d] = queue[d] PROVE PassedOn' = PassedOn
  BY <1>c DEF PassedOn, Passed
<1>1. CASE Handler
  <2>0. UNCHANGED <<sent, PassedOn, There, Honest>>
    BY <1>1, <1>b, <1>c DEF Handler, Refuse, Upgrade, Dial, DialFails, Return, OnlyStage, There
  <2>1. ASSUME NEW v \in {"error", "whole", "closed"}, stage # "done", HowEnded' = v,
               v = "whole" /\ up["client"] = "open" => Passed("out") = Given("out"),
               v = "closed" => ~Honest
        PROVE  Contract!Finish(v)
    <3>1. v = "whole" /\ "client" \in There => Len(PassedOn["out"]) = sent["out"]
      BY <1>b, <2>1, PassedIs DEF PassedOn, There
    <3>2. HowEnded = "open"
      BY <2>1 DEF HowEnded
    <3> QED BY <2>0, <2>1, <3>1, <3>2 DEF Contract!Finish
  <2>2. CASE Refuse \/ DialFails
    <3>1. stage # "done" /\ stage' = "done" /\ pump'["out"] # "eof" /\ (told' \/ kind = "pty")
      BY <1>b, <2>2 DEF Refuse, DialFails, Typed
    <3>2. CASE told'
      <4>1. HowEnded' = "error"
        BY <3>1, <3>2 DEF HowEnded
      <4> QED BY <2>1, <3>1, <4>1 DEF Contract!Next
    <3>3. CASE ~told'
      <4>1. HowEnded' = "closed" /\ ~Honest
        BY <3>1, <3>3 DEF HowEnded, Honest, WebSocket
      <4> QED BY <2>1, <3>1, <4>1 DEF Contract!Next
    <3> QED BY <3>2, <3>3
  <2>3. CASE Upgrade \/ Dial
    <3>1. stage # "done" /\ stage' # "done"
      BY <2>3 DEF Upgrade, Dial
    <3> QED BY <2>0, <3>1 DEF HowEnded, Contract!vars
  <2>4. CASE Return
    <3>1. /\ stage # "done" /\ stage' = "done" /\ pump' = pump
          /\ up' = up /\ told' = (~WebSocket /\ pump["out"] # "eof" /\ kind # "chunked")
      BY <2>4 DEF Return, OnlyStage
    <3>2. CASE told'
      <4>1. HowEnded' = "error"
        BY <3>1, <3>2 DEF HowEnded
      <4> QED BY <2>1, <3>1, <4>1 DEF Contract!Next
    <3>3. CASE ~told' /\ pump["out"] = "eof" /\ up["agent"] = "closed"
      <4>1. HowEnded' = "whole"
        BY <3>1, <3>3 DEF HowEnded
      <4>2. up["client"] = "open" => Passed("out") = Given("out")
        BY <3>3, EofIsWhole
      <4> QED BY <2>1, <3>1, <4>1, <4>2 DEF Contract!Next
    <3>4. CASE ~told' /\ ~(pump["out"] = "eof" /\ up["agent"] = "closed")
      <4>1. HowEnded' = "closed"
        BY <3>1, <3>4 DEF HowEnded
      <4>2. ~Honest
        <5>1. CASE pump["out"] # "eof"
          BY <3>1, <3>4, <5>1 DEF Honest
        <5>2. CASE pump["out"] = "eof"
          <6>1. LooksClosed("agent")
            BY <1>b, <5>2 DEF EndInv, EndAt, From
          <6> QED BY <3>4, <5>2, <6>1 DEF LooksClosed, Honest
        <5> QED BY <5>1, <5>2
      <4> QED BY <2>1, <3>1, <4>1, <4>2 DEF Contract!Next
    <3> QED BY <3>2, <3>3, <3>4
  <2> QED BY <1>1, <2>2, <2>3, <2>4 DEF Handler
<1>2. ASSUME NEW d \in Dir, Pump(d) PROVE [Contract!Next]_(Contract!vars)
  <2>0. OnlyPump /\ stage # "done"
    <3>1. pump[d] \in {"check", "read", "write"} /\ OnlyPump
      BY <1>2 DEF Pump, PumpCheck, PumpRead, PumpReadFails, PumpWrite, PumpWriteFails
    <3> QED BY <3>1 DEF EndInv, EndAt, Ended
  <2>1. /\ UNCHANGED <<sent, There, Honest>>
        /\ HowEnded = "open" /\ HowEnded' = "open"
    BY <1>b, <2>0 DEF OnlyPump, There, HowEnded
  <2>2. CASE PumpWrite(d)
    <3>1. /\ up[To(d)] = "open" /\ UNCHANGED got
          /\ queue' = [queue EXCEPT ![d] = Append(@, hand[d])] /\ hand[d] \in 1..MaxMsg
      BY <2>2, Bounds DEF PumpWrite, OnlyPump, Typed, None
    <3>2. Passing(d)' = Passing(d) + 1 /\ \A x \in Dir \ {d} : Passing(x)' = Passing(x)
      <4>1. queue'[d] = Append(queue[d], hand[d]) /\ \A x \in Dir \ {d} : queue'[x] = queue[x]
        BY <3>1 DEF Typed
      <4>2. queue[d] \in Msgs /\ GotLen(d) \in Nat /\ QueueLen(d) \in Nat
        BY Lengths DEF Typed, GotLen, QueueLen
      <4>3. QueueLen(d)' = QueueLen(d) + 1 /\ GotLen(d)' = GotLen(d)
        BY <3>1, <4>1, <4>2, Added, LengthsAre
      <4>4. \A x \in Dir \ {d} : QueueLen(x)' = QueueLen(x) /\ GotLen(x)' = GotLen(x)
        BY <3>1, <4>1, LengthsKept
      <4> QED BY <4>2, <4>3, <4>4, PassingIs
    <3>3. /\ Len(PassedOn[d]) < sent[d]
          /\ PassedOn' = [PassedOn EXCEPT ![d] = Append(@, Len(@) + 1)]
      BY <1>a, <2>1, <3>2, PassedOneMore
    <3>4. Contract!Leads[d].to \in There /\ d \in DOMAIN Contract!Leads
      BY <3>1, LeadsAre DEF There, To, End
    <3> QED BY <2>1, <3>3, <3>4 DEF Contract!Next, Contract!Pass
  <2>3. CASE UNCHANGED queue
    BY <1>c, <2>0, <2>1, <2>3 DEF OnlyPump, Contract!vars
  <2> QED BY <1>2, <2>2, <2>3 DEF Pump, PumpCheck, PumpRead, PumpReadFails, PumpWriteFails
<1>3. ASSUME NEW d \in Dir, Send(d) PROVE [Contract!Next]_(Contract!vars)
  <2>1. /\ UNCHANGED <<PassedOn, There, Honest>> /\ HowEnded = "open" /\ HowEnded' = "open"
        /\ sent' = [sent EXCEPT ![d] = @ + 1] /\ up[From(d)] = "open"
    BY <1>3, <1>b, <1>c DEF Send, OnlyEnds, There, HowEnded
  <2>2. Contract!Leads[d].from \in There /\ d \in DOMAIN Contract!Leads
    BY <2>1, LeadsAre DEF There, From, End
  <2> QED BY <2>1, <2>2 DEF Contract!Next, Contract!Give
<1>4. ASSUME NEW d \in Dir, Receive(d) PROVE UNCHANGED Contract!vars
  <2>1. \A x \in Dir : Passing(x)' = Passing(x)
    <3>1. /\ queue'[d] = Tail(queue[d]) /\ got'[d] = Append(got[d], Head(queue[d]))
          /\ \A x \in Dir \ {d} : queue'[x] = queue[x] /\ got'[x] = got[x]
          /\ queue[d] \in Msgs /\ got[d] \in Msgs /\ queue[d] # <<>>
      BY <1>4 DEF Receive, Typed
    <3>2. /\ QueueLen(d)' = QueueLen(d) - 1 /\ GotLen(d)' = GotLen(d) + 1
          /\ QueueLen(d) \in Nat /\ GotLen(d) \in Nat
      <4>1. /\ Head(queue[d]) \in 1..MaxMsg /\ Len(Tail(queue[d])) = Len(queue[d]) - 1
            /\ Len(queue[d]) \in Nat /\ Len(got[d]) \in Nat
        BY <3>1, First, Lengths
      <4>2. Len(Append(got[d], Head(queue[d]))) = Len(got[d]) + 1
        BY <3>1, <4>1, Added
      <4> QED BY <3>1, <4>1, <4>2, LengthsAre
    <3>3. \A x \in Dir \ {d} : QueueLen(x)' = QueueLen(x) /\ GotLen(x)' = GotLen(x)
      BY <3>1, LengthsKept
    <3> QED BY <3>2, <3>3, PassingIs
  <2>2. PassedOn' = PassedOn
    BY <1>a, <2>1, PassedKept
  <2> QED BY <1>4, <1>b, <2>2 DEF Receive, OnlyEnds, There, HowEnded, Contract!vars
<1>5. ASSUME NEW e \in End, Leave(e) PROVE [Contract!Next]_(Contract!vars)
  <2>0. pump["out"] = "eof" => up'["agent"] = up["agent"]
    <3>1. pump["out"] = "eof" => up["agent"] # "open"
      BY <1>b DEF EndInv, EndAt, LooksClosed, From
    <3> QED BY <1>b, <3>1, Settled DEF End
  <2>1. UNCHANGED <<sent, PassedOn, Honest, HowEnded>>
    BY <1>5, <1>b, <1>c, <2>0 DEF Leave, OnlyEnds, HowEnded
  <2>2. e \in There /\ There' = There \ {e}
    <3>1. PICK v \in {"closed", "reset"} : up' = [up EXCEPT ![e] = v]
      BY <1>5 DEF Leave
    <3> QED BY <1>5, <3>1 DEF Leave, Typed, There
  <2> QED BY <2>1, <2>2 DEF Contract!Next, Contract!Leave, End
<1>6. CASE UNCHANGED vars
  BY <1>6, <1>b, <1>c DEF vars, There, HowEnded, Contract!vars
<1> QED BY <1>1, <1>2, <1>3, <1>4, <1>5, <1>6 DEF Next

\* At the start nothing was given and both ends are there.
LEMMA ContractInit == Init => Contract!Init
<1> SUFFICES ASSUME Init PROVE Contract!Init
  OBVIOUS
<1>1. PassedOn = [d \in Dir |-> <<>>]
  <2>1. \A d \in Dir : Passed(d) = <<>>
    BY DEF Init, Each, Passed
  <2> QED BY <2>1 DEF PassedOn
<1>2. sent = [d \in Dir |-> 0] /\ There = {"client", "agent"} /\ HowEnded = "open"
  BY DEF Init, Each, There, HowEnded, End
<1>3. Honest \in BOOLEAN
  BY DEF Honest
<1> QED BY <1>1, <1>2, <1>3, LeadsAre DEF Contract!Init

\* Whatever the two loops, the handler and the two ends do, in any order, for
\* any number of messages and any window, a stream takes only the steps that
\* StreamContract allows.
THEOREM StreamsKeepContract == Spec => StreamContractKept
  BY ContractInit, ContractStep, Invariants, PTL DEF Spec, StreamContractKept, Contract!Spec
=============================================================================
