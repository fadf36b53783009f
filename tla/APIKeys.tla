-------------------------------- MODULE APIKeys --------------------------------
(***************************************************************************)
(* API keys: the collection they are stored in, the in-memory cache of     *)
(* validations, the middleware every request passes, and the handlers that *)
(* generate, revoke and deactivate keys.                                   *)
(*                                                                         *)
(* ValidateKey looks in the cache, queries the active keys, compares their *)
(* hashes and caches the key that matches.  Other requests, among them one *)
(* that revokes the very key, run between any two of these steps, and time *)
(* passes.  Nothing removes a key from the cache when it is revoked.       *)
(***************************************************************************)
EXTENDS Integers

CONSTANTS
    Key,         \* plain keys, each of which names one document
    NoKey,
    Request,     \* HTTP requests that can be in progress at once
    TTL,         \* cacheTTL
    MaxLatency,  \* bound: how long the validation of one request takes at most
    Never,       \* no such time yet
    MaxTime,     \* bound: the clock stops here
    MaxRestart   \* bound: how many times the server is restarted

ASSUME APIKeysAssumption ==
    /\ NoKey \notin Key
    /\ TTL \in Nat \ {0}
    /\ MaxLatency \in Nat
    /\ MaxTime \in Nat
    /\ Never \notin Nat
    /\ MaxRestart \in Nat

VARIABLES
    now,        \* the clock
    restarts,   \* restarts of the server so far
    docs,       \* the documents of the collection apikeys
    cache,      \* keyCache: when the entry of each key expires, 0 for none
    req,        \* the requests in progress
    revokedAt,  \* when DELETE of the key took effect
    offAt       \* when deactivation of the key was answered with 200

vars == <<now, restarts, docs, cache, req, revokedAt, offAt>>

\* Where a request is in AuthMiddleware.  "found" has the document of its key
\* in hand, from a query that may be out of date by now.
Stage == {"idle", "cache", "query", "found", "accepted", "rejected"}

DocState == {"absent", "active", "inactive", "deleted"}

\* Two histories: "before" is the state of the document when the request came in,
\* "failed" that the database failed in this request.
Idle == [at |-> "idle", key |-> NoKey, start |-> 0, before |-> "absent", failed |-> FALSE]

TypeOK ==
    /\ now \in 0..MaxTime
    /\ restarts \in 0..MaxRestart
    /\ docs \in [Key -> DocState]
    /\ cache \in [Key -> Nat]
    /\ req \in [Request -> [at : Stage, key : Key \cup {NoKey}, start : Nat,
                            before : DocState, failed : BOOLEAN]]
    /\ revokedAt \in [Key -> Nat \cup {Never}]
    /\ offAt \in [Key -> Nat \cup {Never}]

Init ==
    /\ now = 0 /\ restarts = 0
    /\ docs = [k \in Key |-> "absent"]
    /\ cache = [k \in Key |-> 0]
    /\ req = [r \in Request |-> Idle]
    /\ revokedAt = [k \in Key |-> Never]
    /\ offAt = [k \in Key |-> Never]

-----------------------------------------------------------------------------
(* The repository.                                                         *)

\* Create stores a new key, whatever its field says, as active.
Create(k) ==
    /\ docs[k] = "absent"
    /\ docs' = [docs EXCEPT ![k] = "active"]

\* Delete succeeds whether or not the key is still there.
Delete(k) ==
    /\ docs' = [docs EXCEPT ![k] = "deleted"]
    /\ revokedAt' = IF docs[k] = "deleted" THEN revokedAt
                                           ELSE [revokedAt EXCEPT ![k] = now]

\* Update takes fields from an update of Go type bson.M and from no other.
Update(k, goType, field) ==
    docs' = IF goType = "bson.M" /\ docs[k] \in {"active", "inactive"}
            THEN [docs EXCEPT ![k] = field] ELSE docs

-----------------------------------------------------------------------------
(* ValidateKey, and the middleware around it.                              *)

Moves(r, place) == req' = [req EXCEPT ![r].at = place]

Arrive(r, k) ==
    /\ req[r] = Idle
    /\ req' = [req EXCEPT ![r] = [at |-> "cache", key |-> k, start |-> now,
                                  before |-> docs[k], failed |-> FALSE]]
    /\ UNCHANGED <<now, restarts, docs, cache, revokedAt, offAt>>

\* Mutant: an entry that has expired counts as an invalid key.
LookUpExpiredInvalid(r) ==
    /\ req[r].at = "cache"
    /\ IF now < cache[req[r].key] THEN Moves(r, "accepted")
       ELSE IF cache[req[r].key] > 0 THEN Moves(r, "rejected") ELSE Moves(r, "query")
    /\ UNCHANGED <<now, restarts, docs, cache, revokedAt, offAt>>

\* Mutant: a hit makes the entry last for another TTL.
LookUpSliding(r) ==
    /\ req[r].at = "cache"
    /\ IF now < cache[req[r].key]
       THEN Moves(r, "accepted") /\ cache' = [cache EXCEPT ![req[r].key] = now + TTL]
       ELSE Moves(r, "query") /\ UNCHANGED cache
    /\ UNCHANGED <<now, restarts, docs, revokedAt, offAt>>

\* A cached key is accepted as it was found, with no look at the collection.
LookUp(r) ==
    /\ req[r].at = "cache"
    /\ IF now < cache[req[r].key] THEN Moves(r, "accepted") ELSE Moves(r, "query")
    /\ UNCHANGED <<now, restarts, docs, cache, revokedAt, offAt>>

\* FindActive, and the comparison of the hashes of what it returned.  A failure of
\* the database gets the answer of a key that is not among them.
FindActive(r) ==
    /\ req[r].at = "query"
    /\ \/ Moves(r, IF docs[req[r].key] = "active" THEN "found" ELSE "rejected")
       \/ req' = [req EXCEPT ![r].at = "rejected", ![r].failed = TRUE]
    /\ UNCHANGED <<now, restarts, docs, cache, revokedAt, offAt>>

\* The key that was found is cached, revoked or not by now, and accepted.
CacheKey(r) ==
    /\ req[r].at = "found"
    /\ cache' = [cache EXCEPT ![req[r].key] = now + TTL]
    /\ Moves(r, "accepted")
    /\ UNCHANGED <<now, restarts, docs, revokedAt, offAt>>

Validate(r) == LookUp(r) \/ FindActive(r) \/ CacheKey(r)

-----------------------------------------------------------------------------
(* Handlers of accepted requests.                                          *)

GenerateKey(k) == Create(k) /\ UNCHANGED <<revokedAt, offAt>>

RevokeKey(k) == docs[k] # "absent" /\ Delete(k) /\ UNCHANGED offAt

\* Mutant: isActive is written, but as a text.
DeactivateKeyAsText(k) ==
    /\ docs[k] # "absent"
    /\ Update(k, "bson.M", "false")
    /\ offAt' = [offAt EXCEPT ![k] = now]
    /\ UNCHANGED revokedAt

\* ActivateKey and DeactivateKey pass a map[string]interface{}.
DeactivateKey(k) ==
    /\ docs[k] # "absent"
    /\ Update(k, "map[string]interface {}", "inactive")
    /\ offAt' = [offAt EXCEPT ![k] = now]
    /\ UNCHANGED revokedAt

ActivateKey(k) ==
    /\ docs[k] # "absent"
    /\ Update(k, "map[string]interface {}", "active")
    /\ offAt' = [offAt EXCEPT ![k] = Never]
    /\ UNCHANGED revokedAt

\* What the request is for, or something that has nothing to do with keys.
Handle(r) ==
    /\ req[r].at = "accepted"
    /\ \/ \E k \in Key :
            GenerateKey(k) \/ RevokeKey(k) \/ DeactivateKey(k) \/ ActivateKey(k)
       \/ UNCHANGED <<docs, revokedAt, offAt>>
    /\ req' = [req EXCEPT ![r] = Idle]
    /\ UNCHANGED <<now, restarts, cache>>

\* 401 "Invalid or inactive API key".
Refuse(r) ==
    /\ req[r].at = "rejected"
    /\ req' = [req EXCEPT ![r] = Idle]
    /\ UNCHANGED <<now, restarts, docs, cache, revokedAt, offAt>>

\* POST /api/register needs no key and generates one.
Register(k) ==
    /\ GenerateKey(k)
    /\ UNCHANGED <<now, restarts, cache, req>>

Tick ==
    /\ now < MaxTime
    /\ \A r \in Request :
          req[r].at \in {"cache", "query", "found"} => now < req[r].start + MaxLatency
    /\ now' = now + 1
    /\ UNCHANGED <<restarts, docs, cache, req, revokedAt, offAt>>

\* The cache is lost, and so are the requests in progress.
Restart ==
    /\ restarts < MaxRestart
    /\ restarts' = restarts + 1
    /\ cache' = [k \in Key |-> 0]
    /\ req' = [r \in Request |-> Idle]
    /\ UNCHANGED <<now, docs, revokedAt, offAt>>

Next ==
    \/ \E r \in Request :
        \/ \E k \in Key : Arrive(r, k)
        \/ Validate(r) \/ Handle(r) \/ Refuse(r)
    \/ \E k \in Key : Register(k)
    \/ Tick \/ Restart

Spec == Init /\ [][Next]_vars

-----------------------------------------------------------------------------
(* Properties.                                                             *)

\* A revoked key is accepted for one TTL and one validation at most, however
\* the requests that use it interleave with its revocation (apikey.go:195-218).
RevokedKeyExpires ==
    \A r \in Request :
        LET k == req[r].key IN
        (req[r].at = "accepted" /\ revokedAt[k] # Never)
            => req[r].start < revokedAt[k] + MaxLatency + TTL

\* A key that was stored when the request came in and still is, is called invalid
\* only if the database failed in that very request, which auth.go:37-41 answers
\* alike: never for an entry of the cache that expired or was left by another
\* request, for another's failure or for a restart (apikey.go:195-224).
LiveKeyAccepted ==
    \A r \in Request :
        (req[r].at = "rejected" /\ req[r].before = "active" /\ ~req[r].failed)
            => docs[req[r].key] # "active"

\* "DeactivateKey deactivates an API key (soft delete)" (apikey.go:162): after
\* that it is accepted no longer than a revoked one.
DeactivatedKeyExpires ==
    \A r \in Request :
        LET k == req[r].key IN
        (req[r].at = "accepted" /\ offAt[k] # Never)
            => req[r].start < offAt[k] + MaxLatency + TTL
=============================================================================
