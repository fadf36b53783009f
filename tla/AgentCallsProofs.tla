--------------------------- MODULE AgentCallsProofs ---------------------------
(***************************************************************************)
(* What AgentCalls promises for any number of requests, processes and      *)
(* sessions and for any of the timeouts.                                   *)
(***************************************************************************)
EXTENDS AgentCalls, SequenceTheorems, TLAPS

ReqType == [at : {"idle", "stalled"} \cup Waiting \cup Answered,
            op : OwnContext \cup Background, arg : Nat, limit : Int,
            left : 0..HeaderTimeout, own : 0..MaxSession, answer : 0..MaxSession]

ProcType == [at : {"none", "running", "ended"}, by : {"exec", "file", "run"},
             limit : Int, age : 0..(MaxTimeout + 1)]

Increasing(s) == \A i, j \in 1..Len(s) : i < j => s[i] < s[j]

Typed ==
    /\ req \in [Request -> ReqType]
    /\ proc \in [Proc -> ProcType]
    /\ made \in 0..MaxSession
    /\ sessions \in Seq(1..made)
    /\ Increasing(sessions)

\* What is known of a request, with the sessions ss of which n were made: an
\* exec carries a limit within bounds, and a create names no session older than
\* its own while that one is in the list.
Sound(q, n, ss) ==
    /\ q \in ReqType
    /\ q.op = "exec" /\ q.at = "sent" => q.limit \in 1..MaxTimeout
    /\ q.own <= n /\ (q.at = "taken" => q.op # "create")
    /\ q.op = "create" /\ q.at = "ok" => q.answer >= q.own \/ ~Contains(ss, q.own)

ReqInv == \A r \in Request : Sound(req[r], made, sessions)

\* The limit of a command of exec bounds its age.
ProcInv ==
    \A p \in Proc : proc[p].by = "exec" =>
        proc[p].limit \in 1..MaxTimeout /\ proc[p].age <= proc[p].limit

\* The constants, as the arithmetic below needs them.
LEMMA Bounds ==
    /\ Proc \subseteq Nat \ {0} /\ MaxSession \in Nat /\ Asked \subseteq Int
    /\ DefaultTimeout \in Nat \ {0} /\ MaxTimeout \in Nat /\ DefaultTimeout <= MaxTimeout
    /\ HeaderTimeout \in Nat \ {0} /\ ResizeTimeout \in 1..HeaderTimeout
    /\ SessionTimeout \in 1..HeaderTimeout
  BY AgentCallsAssumption

\* The type the proofs carry along is at least TypeOK.
LEMMA TypedType == Typed /\ ProcInv => TypeOK
  BY Bounds DEF Typed, ProcInv, TypeOK, ReqType, ProcType, Increasing

-----------------------------------------------------------------------------
(* Removing an element keeps the order of the others.                        *)

\* A removal keeps a list of sessions increasing and brings nothing in.
LEMMA Removed ==
    ASSUME NEW n \in Nat, NEW s \in Seq(1..n), Increasing(s), NEW i \in 1..Len(s)
    PROVE  /\ RemoveAt(s, i) \in Seq(1..n) /\ Increasing(RemoveAt(s, i))
           /\ \A e : Contains(RemoveAt(s, i), e) => Contains(s, e)
<1> DEFINE a == SubSeq(s, 1, i - 1)
           b == SubSeq(s, i + 1, Len(s))
           t == RemoveAt(s, i)
<1>0. Len(s) \in Nat /\ \A k \in 1..Len(s) : s[k] \in 1..n
  OBVIOUS
<1>1. /\ a \in Seq(1..n) /\ Len(a) = i - 1
      /\ \A j \in 1..(i - 1) : a[j] = s[j]
  BY <1>0, SubSeqProperties
<1>2. /\ b \in Seq(1..n) /\ Len(b) = Len(s) - i
      /\ \A j \in 1..(Len(s) - i) : b[j] = s[i + j]
  BY <1>0, SubSeqProperties
<1> HIDE DEF a, b
<1>3. /\ t \in Seq(1..n) /\ Len(t) = Len(s) - 1
      /\ \A j \in 1..(Len(s) - 1) : t[j] = IF j < i THEN s[j] ELSE s[j + 1]
  <2>1. /\ a \o b \in Seq(1..n) /\ Len(a \o b) = Len(a) + Len(b)
        /\ \A j \in 1..Len(a) + Len(b) : (a \o b)[j] = IF j <= Len(a) THEN a[j] ELSE b[j - Len(a)]
    BY <1>1, <1>2, ConcatProperties
  <2>2. t = a \o b
    BY DEF a, b, RemoveAt
  <2>3. ASSUME NEW j \in 1..(Len(s) - 1) PROVE t[j] = IF j < i THEN s[j] ELSE s[j + 1]
    <3>1. CASE j < i
      BY <1>0, <1>1, <1>2, <2>1, <2>2, <3>1
    <3>2. CASE ~(j < i)
      <4>1. j - Len(a) \in 1..(Len(s) - i) /\ i + (j - Len(a)) = j + 1
        BY <1>0, <1>1, <3>2
      <4>2. b[j - Len(a)] = s[j + 1]
        BY <1>2, <4>1
      <4>3. ~(j <= Len(a)) /\ j \in 1..Len(a) + Len(b)
        BY <1>0, <1>1, <1>2, <3>2
      <4>4. t[j] = b[j - Len(a)]
        BY <2>1, <2>2, <4>3
      <4> QED BY <3>2, <4>2, <4>4
    <3> QED BY <3>1, <3>2
  <2>4. Len(a) + Len(b) = Len(s) - 1
    BY <1>0, <1>1, <1>2
  <2> HIDE DEF t
  <2> QED BY <2>1, <2>2, <2>3, <2>4
<1> HIDE DEF t
<1>4. Increasing(t)
  <2> SUFFICES ASSUME NEW j \in 1..Len(t), NEW k \in 1..Len(t), j < k PROVE t[j] < t[k]
    BY DEF Increasing
  <2> DEFINE x == IF j < i THEN j ELSE j + 1
             y == IF k < i THEN k ELSE k + 1
  <2>1. x \in 1..Len(s) /\ y \in 1..Len(s) /\ x < y
    BY <1>0, <1>3, SMTT(20)
  <2>2. t[j] = s[x] /\ t[k] = s[y]
    BY <1>3
  <2> HIDE DEF x, y
  <2> QED BY <2>1, <2>2 DEF Increasing
<1>5. ASSUME NEW e, Contains(t, e) PROVE Contains(s, e)
  <2>1. PICK j \in 1..Len(t) : t[j] = e
    BY <1>5 DEF Contains
  <2>2. (IF j < i THEN j ELSE j + 1) \in 1..Len(s)
    BY <1>0, <1>3
  <2> QED BY <1>3, <2>1, <2>2 DEF Contains
<1> QED BY <1>3, <1>4, <1>5 DEF t

\* Appending the next number keeps a list of sessions increasing.
LEMMA Added ==
    ASSUME NEW n \in Nat, NEW s \in Seq(1..n), Increasing(s)
    PROVE  /\ Append(s, n + 1) \in Seq(1..(n + 1)) /\ Increasing(Append(s, n + 1))
           /\ \A e : Contains(Append(s, n + 1), e) => e = n + 1 \/ Contains(s, e)
<1> DEFINE t == Append(s, n + 1)
<1>0. Len(s) \in Nat /\ \A k \in 1..Len(s) : s[k] \in 1..n
  OBVIOUS
<1>1. s \in Seq(1..(n + 1))
  <2>1. \A k \in 1..Len(s) : s[k] \in 1..(n + 1)
    BY <1>0
  <2> QED BY <2>1
<1>2. /\ t \in Seq(1..(n + 1)) /\ Len(t) = Len(s) + 1
      /\ \A k \in 1..Len(s) : t[k] = s[k]
      /\ t[Len(s) + 1] = n + 1
  BY <1>1, AppendProperties
<1> HIDE DEF t
<1>3. Increasing(t)
  <2> SUFFICES ASSUME NEW j \in 1..Len(t), NEW k \in 1..Len(t), j < k PROVE t[j] < t[k]
    BY DEF Increasing
  <2>1. j \in 1..Len(s) /\ t[j] = s[j]
    BY <1>0, <1>2
  <2>2. CASE k \in 1..Len(s)
    BY <1>2, <2>1, <2>2 DEF Increasing
  <2>3. CASE k = Len(s) + 1
    BY <1>0, <1>2, <2>1, <2>3
  <2>4. k \in 1..Len(s) \/ k = Len(s) + 1
    BY <1>0, <1>2
  <2> QED BY <2>2, <2>3, <2>4
<1>4. ASSUME NEW e, Contains(t, e) PROVE e = n + 1 \/ Contains(s, e)
  <2>1. PICK j \in 1..Len(t) : t[j] = e
    BY <1>4 DEF Contains
  <2>2. CASE j \in 1..Len(s)
    BY <1>2, <2>1, <2>2 DEF Contains
  <2>3. CASE j = Len(s) + 1
    BY <1>2, <2>1, <2>3
  <2> QED BY <1>0, <1>2, <2>2, <2>3
<1> QED BY <1>2, <1>3, <1>4 DEF t

-----------------------------------------------------------------------------
(* The steps.                                                                *)

\* Every step keeps the list increasing, and no old session comes back to it.
LEMMA SessionsStep ==
    ASSUME Typed, [Next]_vars
    PROVE  /\ made' \in 0..MaxSession /\ made <= made'
           /\ sessions' \in Seq(1..made') /\ Increasing(sessions')
           /\ \A e \in 0..made : Contains(sessions', e) => Contains(sessions, e)
<1> USE Bounds
<1>0. made \in Nat /\ sessions \in Seq(1..made) /\ Increasing(sessions)
  BY DEF Typed
<1>1. CASE UNCHANGED <<sessions, made>>
  BY <1>1 DEF Typed
<1>2. CASE UNCHANGED made /\ \E i \in 1..Len(sessions) : sessions' = RemoveAt(sessions, i)
  BY <1>0, <1>2, Removed DEF Typed
<1>3. CASE made < MaxSession /\ made' = made + 1 /\ sessions' = Append(sessions, made + 1)
  <2>1. \A e \in 0..made : e # made + 1
    BY <1>0
  <2> QED BY <1>0, <1>3, <2>1, Added DEF Typed
<1>4. ASSUME NEW r \in Request, AgentUses(r)
      PROVE  /\ UNCHANGED made
             /\ UNCHANGED sessions \/ \E i \in 1..Len(sessions) : sessions' = RemoveAt(sessions, i)
  BY <1>4 DEF AgentUses
<1>5. ASSUME NEW r \in Request, Arrive(r) \/ Agent(r) \/ Return(r) \/ GiveUp(r) \/ ClientLeaves(r) \/ CallFails(r)
      PROVE  UNCHANGED <<sessions, made>> \/ AgentCreates(r) \/ AgentUses(r)
  BY <1>5 DEF Arrive, Exec, ExecBackground, Run, FileCommand, Kill, Wait, List, CreateSession,
              DeleteSession, UseSession, ResizeTerminal, SessionExec, Call,
              Agent, AgentStarts, AgentReports, AgentKills, AgentLists, CreateLists, AgentServes,
              Return, GiveUp, ClientLeaves, CallFails
<1>6. CASE \E r \in Request : AgentCreates(r)
  BY <1>3, <1>6 DEF AgentCreates
<1>7. CASE \E r \in Request : AgentUses(r)
  BY <1>1, <1>2, <1>4, <1>7
<1>8. CASE (\E p \in Proc : ProcEnds(p)) \/ Tick \/ UNCHANGED vars
  BY <1>1, <1>8 DEF ProcEnds, Tick, vars
<1>9. CASE SessionEnds
  BY <1>2, <1>9 DEF SessionEnds
<1> QED BY <1>1, <1>5, <1>6, <1>7, <1>8, <1>9 DEF Next

\* A request stays sound when only its time runs.
LEMMA StaysSound ==
    ASSUME Typed, [Next]_vars, NEW q, Sound(q, made, sessions), NEW n \in 0..HeaderTimeout
    PROVE  Sound([q EXCEPT !.left = n], made', sessions') /\ Sound(q, made', sessions')
<1>1. q \in ReqType /\ q.own \in 0..made
  BY Bounds DEF Sound, ReqType, Typed
<1>2. /\ [q EXCEPT !.left = n] \in ReqType
      /\ [q EXCEPT !.left = n].op = q.op /\ [q EXCEPT !.left = n].at = q.at
      /\ [q EXCEPT !.left = n].limit = q.limit /\ [q EXCEPT !.left = n].own = q.own
      /\ [q EXCEPT !.left = n].answer = q.answer
  BY <1>1 DEF ReqType
<1>3. q.own <= made' /\ (Contains(sessions', q.own) => Contains(sessions, q.own))
  BY <1>1, SessionsStep DEF Typed
<1> QED BY <1>1, <1>2, <1>3 DEF Sound

\* A request slot that is free.
LEMMA NobodyIs ==
    /\ Nobody \in ReqType /\ Nobody.own = 0 /\ Nobody.op = "list" /\ Nobody.at = "idle"
  BY Bounds DEF Nobody, ReqType, Background

\* A request that is neither an exec just sent nor a create just answered.
LEMMA OtherwiseSound ==
    ASSUME Typed, [Next]_vars, ReqInv, NEW x \in Request, NEW q \in ReqType,
           q.own = req[x].own, q.at \notin {"sent"}, q.at \in {"ok", "taken"} => q.op # "create"
    PROVE  Sound(q, made', sessions')
<1>1. q.own <= made /\ q.own \in Nat /\ made \in Nat /\ made' \in Nat /\ made <= made'
  BY SessionsStep, Bounds DEF ReqInv, Sound, Typed, ReqType
<1> QED BY <1>1 DEF Sound

\* What Fail leaves of a request.
LEMMA Failed ==
    ASSUME Typed, NEW x \in Request, Fail(x)
    PROVE  req'[x].at = "failed" /\ req'[x] \in ReqType /\ req'[x].own = req[x].own
<1>0. PICK z : z = 0
  OBVIOUS
<1>1. req'[x] = [req[x] EXCEPT !.at = "failed", !.limit = z, !.left = z]
  BY <1>0 DEF Fail, Typed
<1>2. req[x] \in ReqType /\ z \in Int /\ z \in 0..HeaderTimeout
  BY <1>0, Bounds DEF Typed
<1> QED BY <1>1, <1>2 DEF ReqType, Answered, Waiting

\* What Answer leaves of a request: the answer, or a body that stalls.
LEMMA AnsweredIs ==
    ASSUME Typed, NEW x \in Request, NEW how \in Answered, Answer(x, how)
    PROVE  /\ req'[x].at \in {how, "stalled"} /\ req'[x] \in ReqType
           /\ req'[x].own = req[x].own /\ req'[x].op = req[x].op
<1>0. PICK z : z = 0
  OBVIOUS
<1>1. PICK a \in {how, "stalled"} : req'[x] = [req[x] EXCEPT !.at = a, !.limit = z, !.left = z]
  BY <1>0, ZenonT(40) DEF Answer, Typed
<1>2. req[x] \in ReqType /\ z \in Int /\ z \in 0..HeaderTimeout
  BY <1>0, Bounds DEF Typed
<1> QED BY <1>1, <1>2 DEF ReqType, Answered, Waiting

\* The timeout of exec is put between 1 and MaxTimeout, whatever was asked for.
LEMMA Clamped == \A t \in Int : Clamp(t) \in 1..MaxTimeout
  BY Bounds DEF Clamp

\* A request is sound when it has just been sent to the agent.
LEMMA Called ==
    ASSUME Typed, [Next]_vars, NEW x \in Request,
           NEW op \in OwnContext \cup Background, NEW arg \in Nat, NEW limit \in Int,
           op = "exec" => limit \in 1..MaxTimeout, Call(x, op, arg, limit)
    PROVE  Sound(req'[x], made', sessions')
<1>1. PICK n : n = Patience(op)
  OBVIOUS
<1>2. n \in 0..HeaderTimeout
  BY <1>1, Bounds DEF Patience
<1>3. req'[x] = [Nobody EXCEPT !.at = "sent", !.op = op, !.arg = arg, !.limit = limit, !.left = n]
  BY <1>1 DEF Call, Typed
<1>4. /\ req'[x] \in ReqType /\ req'[x].at = "sent" /\ req'[x].op = op
      /\ req'[x].limit = limit /\ req'[x].own = Nobody.own
  BY <1>2, <1>3, NobodyIs, ZenonT(40) DEF ReqType, Waiting
<1>5. 0 <= made'
  BY SessionsStep, Bounds
<1> QED BY <1>4, <1>5, NobodyIs DEF Sound

\* A request is sound when its handler has begun.
LEMMA Arrived ==
    ASSUME Typed, [Next]_vars, NEW x \in Request, Arrive(x)
    PROVE  Sound(req'[x], made', sessions')
<1>0. /\ {"exec", "run", "file", "kill", "wait", "list", "create", "delete", "use", "resize", "session"}
            \subseteq OwnContext \cup Background
      /\ 0 \in Nat /\ 0 \in Int /\ NoLimit \in Int
  BY DEF OwnContext, Background, NoLimit
<1>1. CASE Exec(x)
  <2>1. PICK t \in Asked : Call(x, "exec", 0, Clamp(t))
    BY <1>1 DEF Exec
  <2>2. Clamp(t) \in 1..MaxTimeout /\ Clamp(t) \in Int
    BY Bounds, Clamped
  <2> QED BY <1>0, <2>1, <2>2, Called
<1>2. CASE Run(x)
  <2>1. PICK t \in Asked : Call(x, "run", 0, t)
    BY <1>2 DEF Run
  <2>2. t \in Int
    BY Bounds
  <2> QED BY <1>0, <2>1, <2>2, Called
<1>3. CASE ExecBackground(x) \/ FileCommand(x)
  BY <1>0, <1>3, Called DEF ExecBackground, FileCommand
<1>4. CASE List(x) \/ CreateSession(x) \/ SessionExec(x)
  BY <1>0, <1>4, Called DEF List, CreateSession, SessionExec
<1>5. CASE Kill(x) \/ Wait(x)
  <2>1. PICK p \in Proc : Call(x, "kill", p, 0) \/ Call(x, "wait", p, 0)
    BY <1>5 DEF Kill, Wait
  <2>2. p \in Nat
    BY Bounds
  <2> QED BY <1>0, <2>1, <2>2, Called
<1>6. CASE DeleteSession(x) \/ UseSession(x) \/ ResizeTerminal(x)
  <2>1. PICK s \in 1..MaxSession : \/ Call(x, "delete", s, 0) \/ Call(x, "use", s, 0)
                                   \/ Call(x, "resize", s, 0)
    BY <1>6 DEF DeleteSession, UseSession, ResizeTerminal
  <2>2. s \in Nat
    BY Bounds
  <2> QED BY <1>0, <2>1, <2>2, Called
<1> QED BY <1>1, <1>2, <1>3, <1>4, <1>5, <1>6 DEF Arrive

\* A create whose session the agent has just made is sound.
LEMMA Created ==
    ASSUME Typed, [Next]_vars, ReqInv, NEW x \in Request, AgentCreates(x)
    PROVE  Sound(req'[x], made', sessions')
<1>0. req[x] \in ReqType /\ req[x].op = "create" /\ made' = made + 1 /\ made \in Nat /\ made < MaxSession
  BY DEF AgentCreates, Is, Typed
<1>1. PICK o : o = made + 1
  OBVIOUS
<1>2. PICK z : z = 0
  OBVIOUS
<1>3. o \in 0..MaxSession /\ z \in 0..HeaderTimeout /\ HeaderTimeout \in 0..HeaderTimeout
  BY <1>0, <1>1, <1>2, Bounds
<1>4. \/ req'[x] = [req[x] EXCEPT !.at = "ok", !.own = o, !.answer = o]
      \/ req'[x] = [req[x] EXCEPT !.at = "listing", !.own = o, !.left = HeaderTimeout]
      \/ req'[x] = [req[x] EXCEPT !.at = "stalled", !.own = o, !.left = z]
  BY <1>1, <1>2 DEF AgentCreates, Typed
<1>5. CASE req'[x] = [req[x] EXCEPT !.at = "ok", !.own = o, !.answer = o]
  <2>1. /\ req'[x] \in ReqType /\ req'[x].at = "ok" /\ req'[x].own = o /\ req'[x].answer = o
    BY <1>0, <1>3, <1>5 DEF ReqType, Answered
  <2> QED BY <1>0, <1>1, <2>1 DEF Sound
<1>6. CASE req'[x] = [req[x] EXCEPT !.at = "listing", !.own = o, !.left = HeaderTimeout]
  <2>1. /\ req'[x] \in ReqType /\ req'[x].at = "listing" /\ req'[x].own = o
    BY <1>0, <1>3, <1>6 DEF ReqType, Waiting
  <2> QED BY <1>0, <1>1, <2>1 DEF Sound
<1>7. CASE req'[x] = [req[x] EXCEPT !.at = "stalled", !.own = o, !.left = z]
  <2>1. /\ req'[x] \in ReqType /\ req'[x].at = "stalled" /\ req'[x].own = o
    BY <1>0, <1>3, <1>7 DEF ReqType
  <2> QED BY <1>0, <1>1, <2>1 DEF Sound
<1> QED BY <1>4, <1>5, <1>6, <1>7

\* No session of the list is newer than the last.
LEMMA Listed ==
    ASSUME Typed, [Next]_vars, ReqInv, NEW x \in Request, CreateLists(x)
    PROVE  Sound(req'[x], made', sessions')
<1>0. req[x] \in ReqType /\ req[x].own \in Nat /\ made \in Nat /\ made' = made /\ sessions' = sessions
      /\ req[x].own <= made
  BY Bounds DEF CreateLists, Typed, ReqInv, Sound, ReqType
<1>1. CASE sessions = <<>>
  <2>1. Fail(x)
    BY <1>1 DEF CreateLists
  <2> QED BY <2>1, Failed, OtherwiseSound
<1>2. CASE sessions # <<>>
  <2>1. PICK w : w = Last(sessions)
    OBVIOUS
  <2>2. PICK z : z = 0
    OBVIOUS
  <2>3. /\ Len(sessions) \in Nat \ {0}
        /\ \A k \in 1..Len(sessions) : sessions[k] \in 1..made
    BY <1>2 DEF Typed
  <2>4. w \in 1..made /\ w \in 0..MaxSession /\ z \in 0..HeaderTimeout
    BY <1>0, <2>1, <2>2, <2>3, Bounds DEF Last, Typed
  <2>5. req'[x] = [req[x] EXCEPT !.at = "ok", !.left = z, !.answer = w]
    BY <1>2, <2>1, <2>2 DEF CreateLists, Typed
  <2>6. req'[x] \in ReqType /\ req'[x].at = "ok" /\ req'[x].own = req[x].own /\ req'[x].answer = w
    BY <1>0, <2>4, <2>5 DEF ReqType, Answered
  <2>7. ASSUME Contains(sessions, req[x].own) PROVE w >= req[x].own
    <3>1. PICK k \in 1..Len(sessions) : sessions[k] = req[x].own
      BY <2>7 DEF Contains
    <3>2. CASE k = Len(sessions)
      BY <1>0, <2>1, <2>4, <3>1, <3>2 DEF Last
    <3>3. CASE k < Len(sessions)
      BY <1>0, <2>1, <2>3, <2>4, <3>1, <3>3 DEF Last, Typed, Increasing
    <3> QED BY <2>3, <3>2, <3>3
  <2> QED BY <1>0, <2>6, <2>7 DEF Sound
<1> QED BY <1>1, <1>2

\* Every step keeps every request sound.
LEMMA ReqStep == Typed /\ ReqInv /\ [Next]_vars => ReqInv'
<1> SUFFICES ASSUME Typed, ReqInv, [Next]_vars, NEW x \in Request
             PROVE  Sound(req'[x], made', sessions')
  BY DEF ReqInv
<1>0. req[x] \in ReqType /\ Sound(req[x], made, sessions)
  BY DEF Typed, ReqInv
<1>u. req[x].left \in 0..HeaderTimeout
  BY <1>0 DEF ReqType
<1>1. CASE req'[x] = req[x]
  BY <1>0, <1>1, <1>u, StaysSound
<1>2. CASE Tick
  <2>1. CASE req[x].at \in Waiting
    <3>1. PICK n : n = req[x].left - 1
      OBVIOUS
    <3>2. n \in 0..HeaderTimeout
      BY <1>2, <1>u, <2>1, <3>1, Bounds DEF Tick
    <3>3. req'[x] = [req[x] EXCEPT !.left = n]
      BY <1>2, <2>1, <3>1 DEF Tick
    <3> QED BY <1>0, <3>2, <3>3, StaysSound
  <2>2. CASE req[x].at \notin Waiting
    BY <1>1, <1>2, <2>2 DEF Tick
  <2> QED BY <2>1, <2>2
<1>3. CASE Arrive(x)
  BY <1>3, Arrived
<1>4. CASE AgentStarts(x)
  <2>1. CASE req[x].op = "run"
    BY <1>4, <2>1, AnsweredIs, OtherwiseSound DEF AgentStarts, Answered
  <2>2. CASE req[x].op # "run"
    <3>1. PICK z : z = 0
      OBVIOUS
    <3>2. PICK p \in Proc : req'[x] = [req[x] EXCEPT !.at = "taken", !.arg = p, !.limit = z]
      BY <1>4, <2>2, <3>1 DEF AgentStarts, Typed
    <3>3. p \in Nat /\ z \in Int
      BY <3>1, Bounds
    <3>4. /\ req'[x] \in ReqType /\ req'[x].at = "taken" /\ req'[x].own = req[x].own
          /\ req'[x].op = req[x].op /\ req[x].op # "create"
      BY <1>0, <1>4, <3>2, <3>3 DEF ReqType, Waiting, AgentStarts
    <3> QED BY <3>4, OtherwiseSound
  <2> QED BY <2>1, <2>2
<1>5. CASE AgentReports(x)
  <2>1. req[x].op # "create"
    BY <1>0, <1>5 DEF AgentReports, Is, Sound
  <2> QED BY <1>5, <2>1, AnsweredIs, OtherwiseSound DEF AgentReports, Answered
<1>6. CASE AgentKills(x) \/ AgentLists(x) \/ AgentUses(x)
  <2>1. req[x].op \in {"kill", "list", "delete", "use", "resize"}
    BY <1>6 DEF AgentKills, AgentLists, AgentUses, Is
  <2>2. Answer(x, "ok") \/ Answer(x, "failed")
    BY <1>6 DEF AgentKills, AgentLists, AgentUses
  <2> QED BY <2>1, <2>2, AnsweredIs, OtherwiseSound DEF Answered
<1>7. CASE AgentCreates(x)
  BY <1>7, Created
<1>8. CASE CreateLists(x)
  BY <1>8, Listed
<1>9. CASE AgentServes(x)
  <2>1. PICK z : z = 0
    OBVIOUS
  <2>2. PICK a \in Answered : req'[x] = [req[x] EXCEPT !.at = a, !.left = z]
    BY <1>9, <2>1 DEF AgentServes, Typed
  <2>3. z \in 0..HeaderTimeout /\ req[x].op = "session"
    BY <1>9, <2>1, Bounds DEF AgentServes, Is
  <2>4. req'[x] \in ReqType /\ req'[x].at = a /\ req'[x].own = req[x].own /\ req'[x].op = "session"
    BY <1>0, <2>2, <2>3 DEF ReqType
  <2> QED BY <2>4, OtherwiseSound DEF Answered
<1>10. CASE GiveUp(x) \/ ClientLeaves(x) \/ CallFails(x)
  BY <1>10, Failed, OtherwiseSound DEF GiveUp, ClientLeaves, CallFails
<1>11. CASE Return(x)
  <2>1. req'[x] = Nobody
    BY <1>11 DEF Return, Typed
  <2>2. made' \in Nat
    BY SessionsStep, Bounds
  <2> QED BY <2>1, <2>2, NobodyIs DEF Sound
<1>12. ASSUME NEW r \in Request, r # x,
              Arrive(r) \/ Agent(r) \/ Return(r) \/ GiveUp(r) \/ ClientLeaves(r) \/ CallFails(r)
       PROVE  req'[x] = req[x]
  <2>1. CASE Arrive(r)
    BY <1>12, <2>1 DEF Arrive, Exec, ExecBackground, Run, FileCommand, Kill, Wait, List, CreateSession,
           DeleteSession, UseSession, ResizeTerminal, SessionExec, Call, Typed
  <2>2. CASE Agent(r)
    BY <1>12, <2>2 DEF Agent, AgentStarts, AgentReports, AgentKills, AgentLists, AgentCreates,
           CreateLists, AgentUses, AgentServes, Answer, Fail, Typed
  <2>3. CASE Return(r) \/ GiveUp(r) \/ ClientLeaves(r) \/ CallFails(r)
    BY <1>12, <2>3 DEF Return, GiveUp, ClientLeaves, CallFails, Fail, Typed
  <2> QED BY <1>12, <2>1, <2>2, <2>3
<1>13. CASE (\E p \in Proc : ProcEnds(p)) \/ SessionEnds \/ UNCHANGED vars
  BY <1>1, <1>13 DEF ProcEnds, SessionEnds, vars
<1> QED BY <1>1, <1>2, <1>3, <1>4, <1>5, <1>6, <1>7, <1>8, <1>9, <1>10, <1>11, <1>12, <1>13 DEF Next, Agent

\* A step changes the processes of the guest one by one and adds none.
LEMMA ProcFunction == Typed /\ [Next]_vars => proc' = [y \in Proc |-> proc'[y]]
<1> SUFFICES ASSUME Typed, [Next]_vars PROVE proc' = [y \in Proc |-> proc'[y]]
  OBVIOUS
<1>0. proc = [y \in Proc |-> proc[y]]
  BY DEF Typed
<1>1. ASSUME NEW r \in Request,
             Arrive(r) \/ Agent(r) \/ Return(r) \/ GiveUp(r) \/ ClientLeaves(r) \/ CallFails(r)
      PROVE  \/ UNCHANGED proc
             \/ \E y \in Proc : \E v : proc' = [proc EXCEPT ![y] = v]
             \/ AgentKills(r) /\ proc' = [proc EXCEPT ![req[r].arg] = Ended]
  BY <1>1 DEF Arrive, Exec, ExecBackground, Run, FileCommand, Kill, Wait, List, CreateSession,
         DeleteSession, UseSession, ResizeTerminal, SessionExec, Call, Return, GiveUp,
         ClientLeaves, CallFails, Agent, AgentStarts, AgentReports, AgentKills, AgentLists,
         AgentCreates, CreateLists, AgentUses, AgentServes
<1> QED BY <1>0, <1>1 DEF Next, ProcEnds, SessionEnds, Tick, vars

\* Every step keeps the processes of exec within their limits.
LEMMA ProcStep == Typed /\ ReqInv /\ ProcInv /\ [Next]_vars => ProcInv' /\ proc' \in [Proc -> ProcType]
<1> SUFFICES ASSUME Typed, ReqInv, ProcInv, [Next]_vars, NEW p \in Proc
             PROVE  /\ proc'[p] \in ProcType
                    /\ proc'[p].by = "exec" =>
                         proc'[p].limit \in 1..MaxTimeout /\ proc'[p].age <= proc'[p].limit
  BY ProcFunction DEF ProcInv
<1> USE Bounds
<1>0. /\ proc[p] \in ProcType
      /\ proc[p].by = "exec" => proc[p].limit \in 1..MaxTimeout /\ proc[p].age <= proc[p].limit
  BY DEF Typed, ProcInv
<1>1. CASE proc'[p] = proc[p]
  BY <1>0, <1>1
<1>2. CASE proc'[p] = Ended
  <2>1. Ended \in ProcType /\ Ended.by = "run"
    BY DEF Ended, Free, ProcType
  <2> QED BY <1>2, <2>1
<1>3. CASE Tick
  <2>1. CASE Aging(p)
    <3>1. PICK n : n = proc[p].age + 1
      OBVIOUS
    <3>2. proc'[p] = [proc[p] EXCEPT !.age = n]
      BY <1>3, <2>1, <3>1 DEF Tick
    <3>3. n \in 0..(MaxTimeout + 1)
      BY <1>0, <2>1, <3>1 DEF Aging, ProcType
    <3>4. /\ proc'[p] \in ProcType /\ proc'[p].by = proc[p].by /\ proc'[p].limit = proc[p].limit
          /\ proc'[p].age = n
      BY <1>0, <3>2, <3>3 DEF ProcType
    <3>5. ASSUME proc[p].by = "exec" PROVE n <= proc[p].limit
      <4>1. proc[p].at = "running" /\ proc[p].limit \in 1..MaxTimeout /\ proc[p].age \in Nat
        BY <1>0, <2>1, <3>5 DEF Aging, ProcType
      <4>2. ~(proc[p].age >= proc[p].limit)
        BY <1>3, <4>1 DEF Tick, AtLimit
      <4> QED BY <3>1, <4>1, <4>2
    <3> QED BY <1>0, <3>4, <3>5
  <2>2. CASE ~Aging(p)
    BY <1>1, <1>3, <2>2 DEF Tick
  <2> QED BY <2>1, <2>2
<1>4. ASSUME NEW r \in Request, AgentStarts(r), proc'[p] # proc[p]
      PROVE  /\ proc'[p] \in ProcType
             /\ proc'[p].by = "exec" =>
                  proc'[p].limit \in 1..MaxTimeout /\ proc'[p].age <= proc'[p].limit
  <2>1. PICK l : l = req[r].limit
    OBVIOUS
  <2>2. l \in Int /\ (req[r].op = "exec" => l \in 1..MaxTimeout) /\ req[r].op \in {"exec", "file", "run"}
    BY <1>4, <2>1 DEF Typed, ReqType, ReqInv, Sound, AgentStarts
  <2>3. proc'[p] = [at |-> "running", by |-> req[r].op, limit |-> l, age |-> 0]
    BY <1>4, <2>1 DEF AgentStarts, Typed
  <2>4. /\ proc'[p] \in ProcType /\ proc'[p].by = req[r].op /\ proc'[p].limit = l /\ proc'[p].age = 0
    BY <2>2, <2>3 DEF ProcType
  <2> QED BY <2>2, <2>4
<1>5. ASSUME NEW r \in Request,
             Arrive(r) \/ Agent(r) \/ Return(r) \/ GiveUp(r) \/ ClientLeaves(r) \/ CallFails(r)
      PROVE  UNCHANGED proc \/ AgentStarts(r) \/ proc'[p] = Ended \/ proc'[p] = proc[p]
  BY <1>5 DEF Arrive, Exec, ExecBackground, Run, FileCommand, Kill, Wait, List, CreateSession,
         DeleteSession, UseSession, ResizeTerminal, SessionExec, Call, Return, GiveUp,
         ClientLeaves, CallFails, Agent, AgentReports, AgentKills, AgentLists,
         AgentCreates, CreateLists, AgentUses, AgentServes, Typed
<1>6. CASE \E q \in Proc : ProcEnds(q)
  <2>1. proc'[p] = Ended \/ proc'[p] = proc[p]
    BY <1>6 DEF ProcEnds, Typed
  <2> QED BY <1>1, <1>2, <2>1
<1>7. CASE SessionEnds \/ UNCHANGED vars
  BY <1>1, <1>7 DEF SessionEnds, vars
<1> QED BY <1>1, <1>2, <1>3, <1>4, <1>5, <1>6, <1>7 DEF Next

\* Every step keeps the types.
LEMMA TypedStep == Typed /\ ReqInv /\ ProcInv /\ [Next]_vars => Typed'
<1> SUFFICES ASSUME Typed, ReqInv, ProcInv, [Next]_vars PROVE Typed'
  OBVIOUS
<1>1. req' = [r \in Request |-> req'[r]]
  <2>1. ASSUME NEW r \in Request,
               Arrive(r) \/ Agent(r) \/ Return(r) \/ GiveUp(r) \/ ClientLeaves(r) \/ CallFails(r)
        PROVE  \E v : req' = [req EXCEPT ![r] = v]
    BY <2>1, ZenonT(40) DEF Arrive, Exec, ExecBackground, Run, FileCommand, Kill, Wait, List, CreateSession,
           DeleteSession, UseSession, ResizeTerminal, SessionExec, Call, Return, GiveUp,
           ClientLeaves, CallFails, Agent, AgentStarts, AgentReports, AgentKills, AgentLists,
           AgentCreates, CreateLists, AgentUses, AgentServes, Answer, Fail
  <2> QED BY <2>1 DEF Typed, Next, ProcEnds, SessionEnds, Tick, vars
<1>2. \A r \in Request : req'[r] \in ReqType
  BY ReqStep DEF ReqInv, Sound
<1> QED BY <1>1, <1>2, ProcStep, SessionsStep DEF Typed

\* The initial state satisfies the three parts of the invariant.
LEMMA Start == Init => Typed /\ ReqInv /\ ProcInv
<1> SUFFICES ASSUME Init PROVE Typed /\ ReqInv /\ ProcInv
  OBVIOUS
<1>1. Free \in ProcType /\ Free.by = "run"
  BY Bounds DEF Free, ProcType
<1>2. sessions \in Seq(1..made) /\ Increasing(sessions) /\ made = 0
  BY DEF Init, Increasing
<1> QED BY <1>1, <1>2, NobodyIs, Bounds DEF Init, Typed, ReqInv, ProcInv, Sound

\* The inductive invariant holds in every state.
LEMMA Invariants == Spec => [](Typed /\ ReqInv /\ ProcInv)
  BY Start, TypedStep, ReqStep, ProcStep, PTL DEF Spec

\* The state functions of AgentCalls have their types.
THEOREM TypeCorrect == Spec => []TypeOK
  BY Invariants, TypedType, PTL

\* No command of exec outlives MaxTimeout in the guest, whatever was asked for
\* and whatever became of its request.
THEOREM ExecsBounded == Spec => []ExecBounded
<1>1. Typed /\ ReqInv /\ ProcInv => ExecBounded
  BY Bounds DEF Typed, ProcInv, ProcType, ExecBounded
<1> QED BY <1>1, Invariants, PTL

\* A create never returns a session older than its own while that one lives.
THEOREM CreatesAnswerNewest == Spec => []CreateAnswersNewest
<1>1. Typed /\ ReqInv /\ ProcInv => CreateAnswersNewest
  BY DEF ReqInv, Sound, CreateAnswersNewest, Is
<1> QED BY <1>1, Invariants, PTL
=============================================================================
