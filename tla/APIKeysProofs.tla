----------------------------- MODULE APIKeysProofs -----------------------------
(***************************************************************************)
(* Theorems about APIKeys, for every number of keys and requests and every *)
(* cache lifetime.                                                         *)
(***************************************************************************)
EXTENDS APIKeys, TLAPS

\* The state functions have their types in every reachable state.
THEOREM TypeCorrect == Spec => []TypeOK
<1> USE APIKeysAssumption DEF Stage, DocState, Idle
<1>1. Init => TypeOK
  BY DEF Init, TypeOK
<1>2. TypeOK /\ [Next]_vars => TypeOK'
  <2> SUFFICES ASSUME TypeOK, [Next]_vars PROVE TypeOK'
    OBVIOUS
  <2> USE DEF TypeOK, Moves
  <2>1. ASSUME NEW r \in Request, NEW k \in Key, Arrive(r, k) PROVE TypeOK'
    BY <2>1 DEF Arrive
  <2>2. ASSUME NEW r \in Request, LookUp(r) PROVE TypeOK'
    BY <2>2 DEF LookUp
  <2>3. ASSUME NEW r \in Request, FindActive(r) PROVE TypeOK'
    <3>1. CASE req' = [req EXCEPT ![r].at = "rejected", ![r].failed = TRUE]
      <4> DEFINE new == [req[r] EXCEPT !.at = "rejected", !.failed = TRUE]
                 Rec == [at : Stage, key : Key \cup {NoKey}, start : Nat,
                         before : DocState, failed : BOOLEAN]
      <4>0. req \in [Request -> Rec]
        OBVIOUS
      <4>1. new \in Rec
        <5>1. req[r] \in Rec
          BY <4>0
        <5>2. \A q \in Rec : [q EXCEPT !.at = "rejected", !.failed = TRUE] \in Rec
          <6> HIDE DEF TypeOK, Moves
          <6> QED OBVIOUS
        <5> HIDE DEF Rec
        <5> QED BY <5>1, <5>2
      <4>2. req' = [req EXCEPT ![r] = new]
        BY <3>1
      <4>3. req' \in [Request -> Rec]
        <5> HIDE DEF new, Rec
        <5> QED BY <4>0, <4>1, <4>2
      <4> QED
        BY <2>3, <4>3 DEF FindActive
    <3>2. ASSUME NEW place \in {"found", "rejected"}, Moves(r, place) PROVE TypeOK'
      BY <2>3, <3>2 DEF FindActive
    <3> QED
      BY <2>3, <3>1, <3>2 DEF FindActive
  <2>4. ASSUME NEW r \in Request, CacheKey(r) PROVE TypeOK'
    <3>1. now + TTL \in Nat
      OBVIOUS
    <3>2. cache' \in [Key -> Nat]
      BY <2>4, <3>1 DEF CacheKey
    <3>3. Moves(r, "accepted") /\ UNCHANGED <<now, restarts, docs, revokedAt, offAt>>
      BY <2>4 DEF CacheKey
    <3> QED
      BY <3>2, <3>3
  <2>5. ASSUME NEW r \in Request, Handle(r) PROVE TypeOK'
    <3>1. req' \in [Request -> [at : Stage, key : Key \cup {NoKey}, start : Nat,
                                before : DocState, failed : BOOLEAN]]
      BY <2>5 DEF Handle
    <3>2. /\ docs' \in [Key -> DocState]
          /\ revokedAt' \in [Key -> Nat \cup {Never}]
          /\ offAt' \in [Key -> Nat \cup {Never}]
      BY <2>5 DEF Handle, GenerateKey, Create, RevokeKey, Delete, DeactivateKey,
                  ActivateKey, Update
    <3> QED
      BY <2>5, <3>1, <3>2 DEF Handle
  <2>6. ASSUME NEW r \in Request, Refuse(r) PROVE TypeOK'
    BY <2>6 DEF Refuse
  <2>7. ASSUME NEW k \in Key, Register(k) PROVE TypeOK'
    BY <2>7 DEF Register, GenerateKey, Create
  <2>8. CASE Tick
    BY <2>8 DEF Tick
  <2>9. CASE Restart
    BY <2>9 DEF Restart
  <2>10. CASE UNCHANGED vars
    BY <2>10 DEF vars
  <2> QED
    BY <2>1, <2>2, <2>3, <2>4, <2>5, <2>6, <2>7, <2>8, <2>9, <2>10 DEF Next, Validate
<1> QED
  BY <1>1, <1>2, PTL DEF Spec

-----------------------------------------------------------------------------
(* Why a revoked key expires: a query that finds it ended before it was     *)
(* revoked, and the entry it leads to is made within one validation.        *)

\* A request is as old as its start says, and a validation is not overdue.
OnTime ==
    \A r \in Request :
        /\ req[r].start <= now
        /\ req[r].at # "idle" => req[r].key \in Key
        /\ req[r].at \in {"cache", "query", "found"} => now <= req[r].start + MaxLatency

\* Entries last for one TTL, those of a revoked key no longer than promised.
EntriesExpire ==
    \A k \in Key :
        /\ cache[k] <= now + TTL
        /\ revokedAt[k] # Never =>
              /\ docs[k] = "deleted"
              /\ revokedAt[k] <= now
              /\ cache[k] <= revokedAt[k] + MaxLatency + TTL

\* A request with the document of a revoked key in hand was there before that.
FoundBefore ==
    \A r \in Request :
        (req[r].at = "found" /\ revokedAt[req[r].key] # Never)
            => req[r].start <= revokedAt[req[r].key]

\* Documents are active until they are deleted; a key refused without a failure of
\* the database was deleted.
RefusedDeleted ==
    /\ \A k \in Key : docs[k] # "inactive"
    /\ \A r \in Request :
          (req[r].at # "idle" /\ req[r].before = "active")
             => /\ docs[req[r].key] \in {"active", "deleted"}
                /\ req[r].at = "rejected" /\ ~req[r].failed => docs[req[r].key] = "deleted"

KeyInv == OnTime /\ EntriesExpire /\ FoundBefore /\ RevokedKeyExpires /\ RefusedDeleted

\* Handlers and Register touch documents in one of these ways only.
LEMMA DocumentStep ==
    ASSUME TypeOK, RefusedDeleted, NEW k \in Key,
           \/ GenerateKey(k) \/ RevokeKey(k) \/ DeactivateKey(k) \/ ActivateKey(k)
           \/ UNCHANGED <<docs, revokedAt, offAt>>
    PROVE  /\ \A j \in Key : \/ docs'[j] = docs[j]
                             \/ docs[j] = "absent" /\ docs'[j] = "active"
                             \/ docs'[j] = "deleted" /\ docs[j] # "absent"
           /\ \A j \in Key : \/ revokedAt'[j] = revokedAt[j]
                             \/ revokedAt'[j] = now /\ docs'[j] = "deleted"
                                  /\ docs[j] # "deleted"
<1> USE DEF TypeOK, RefusedDeleted
<1>1. CASE GenerateKey(k)
  BY <1>1 DEF GenerateKey, Create
<1>2. CASE RevokeKey(k)
  BY <1>2 DEF RevokeKey, Delete
<1>3. CASE DeactivateKey(k) \/ ActivateKey(k)
  BY <1>3 DEF DeactivateKey, ActivateKey, Update
<1>4. CASE UNCHANGED <<docs, revokedAt, offAt>>
  BY <1>4
<1> QED
  BY <1>1, <1>2, <1>3, <1>4

\* The strengthening holds in every state.
LEMMA KeyInvariant == Spec => []KeyInv
<1> USE APIKeysAssumption
<1>1. Init => KeyInv
  BY DEF Init, KeyInv, OnTime, EntriesExpire, FoundBefore, RevokedKeyExpires,
         RefusedDeleted, Idle
<1>2. TypeOK /\ KeyInv /\ [Next]_vars => KeyInv'
  <2> SUFFICES ASSUME TypeOK, KeyInv, [Next]_vars PROVE KeyInv'
    OBVIOUS
  <2> USE DEF KeyInv, OnTime, EntriesExpire, FoundBefore, RevokedKeyExpires,
              RefusedDeleted, Moves
  <2>1. ASSUME NEW r \in Request, NEW k \in Key, Arrive(r, k) PROVE KeyInv'
    <3>1. /\ req'[r].at = "cache" /\ req'[r].key = k /\ req'[r].start = now
          /\ req'[r].before = docs[k]
          /\ \A q \in Request \ {r} : req'[q] = req[q]
          /\ UNCHANGED <<now, docs, cache, revokedAt>>
      BY <2>1 DEF Arrive, TypeOK
    <3> QED
      BY <3>1 DEF TypeOK
  <2>2. ASSUME NEW r \in Request, LookUp(r) PROVE KeyInv'
    BY <2>2 DEF LookUp, TypeOK
  <2>3. ASSUME NEW r \in Request, FindActive(r) PROVE KeyInv'
    <3>1. req[r].at = "query" /\ UNCHANGED <<now, restarts, docs, cache, revokedAt, offAt>>
      BY <2>3 DEF FindActive
    <3>2. ASSUME NEW place \in {"found", "rejected"}, Moves(r, place),
                 place = "found" => docs[req[r].key] = "active",
                 place = "rejected" => docs[req[r].key] # "active"
          PROVE  KeyInv'
      BY <3>1, <3>2 DEF TypeOK
    <3>3. CASE req' = [req EXCEPT ![r].at = "rejected", ![r].failed = TRUE]
      BY <3>1, <3>3 DEF TypeOK
    <3> QED
      BY <2>3, <3>2, <3>3 DEF FindActive
  <2>4. ASSUME NEW r \in Request, CacheKey(r) PROVE KeyInv'
    <3> DEFINE j == req[r].key
    <3>1. /\ req[r].at = "found" /\ j \in Key
          /\ cache'[j] = now + TTL /\ \A k \in Key \ {j} : cache'[k] = cache[k]
          /\ Moves(r, "accepted") /\ UNCHANGED <<now, docs, revokedAt>>
      BY <2>4 DEF CacheKey, TypeOK
    <3>2. revokedAt[j] # Never => now + TTL <= revokedAt[j] + MaxLatency + TTL
      BY <3>1 DEF TypeOK
    <3>3. EntriesExpire'
      BY <3>1, <3>2 DEF TypeOK
    <3>4. revokedAt[j] # Never => req[r].start < revokedAt[j] + MaxLatency + TTL
      <4>1. req[r].start \in Nat /\ revokedAt[j] \in Nat \cup {Never}
        BY <3>1 DEF TypeOK
      <4>2. revokedAt[j] # Never => req[r].start <= revokedAt[j]
        BY <3>1
      <4> QED
        BY <4>1, <4>2
    <3>5. RevokedKeyExpires'
      BY <3>1, <3>4 DEF TypeOK
    <3> QED
      BY <3>1, <3>3, <3>5 DEF TypeOK
  <2>5. ASSUME NEW r \in Request, Handle(r) PROVE KeyInv'
    BY <2>5, DocumentStep DEF Handle, TypeOK, Idle
  <2>6. ASSUME NEW r \in Request, Refuse(r) PROVE KeyInv'
    BY <2>6 DEF Refuse, TypeOK, Idle
  <2>7. ASSUME NEW k \in Key, Register(k) PROVE KeyInv'
    BY <2>7, DocumentStep DEF Register, TypeOK
  <2>8. CASE Tick
    BY <2>8 DEF Tick, TypeOK
  <2>9. CASE Restart
    BY <2>9 DEF Restart, TypeOK, Idle
  <2>10. CASE UNCHANGED vars
    BY <2>10 DEF vars
  <2> QED
    BY <2>1, <2>2, <2>3, <2>4, <2>5, <2>6, <2>7, <2>8, <2>9, <2>10 DEF Next, Validate
<1> QED
  BY <1>1, <1>2, TypeCorrect, PTL DEF Spec

\* A revoked key is accepted for one TTL and one validation at most
\* (apikey.go:195-218), for every TTL and every latency of a validation.
THEOREM RevokedExpires == Spec => []RevokedKeyExpires
BY KeyInvariant, PTL DEF KeyInv

\* No stored key is called invalid unless the database fails in that very request
\* (apikey.go:195-224, auth.go:37-41).
THEOREM LiveAccepted == Spec => []LiveKeyAccepted
<1>1. KeyInv => LiveKeyAccepted
  BY DEF KeyInv, RefusedDeleted, LiveKeyAccepted
<1> QED
  BY <1>1, KeyInvariant, PTL
=============================================================================
