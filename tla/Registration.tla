----------------------------- MODULE Registration -----------------------------
(***************************************************************************)
(* POST /api/register: a user, a default organization and a first API key, *)
(* in three collections and with no transaction around them.  Each step is *)
(* one call to the database, any of which may fail; what earlier steps     *)
(* stored stays.  A user is named by the request that stored it.           *)
(***************************************************************************)
CONSTANTS
    Request,   \* requests, each made once
    Email,     \* addresses, trimmed and in lower case
    Fault      \* calls that this instance lets fail

VARIABLES
    req,       \* progress of each request
    email,     \* the address it gives
    users,     \* collection users, by the request that stored them
    orgs,      \* collection organizations, by owner
    keys       \* collection apikeys, by owner of the organization

vars == <<req, email, users, orgs, keys>>

Stage == {"check", "insert", "findorg", "createorg", "key", "provisioned", "refused"}

TypeOK ==
    /\ req \in [Request -> Stage]
    /\ email \in [Request -> Email]
    /\ users \subseteq Request /\ orgs \subseteq Request /\ keys \subseteq Request

Init ==
    /\ req = [r \in Request |-> "check"]
    /\ email \in [Request -> Email]
    /\ users = {} /\ orgs = {} /\ keys = {}

Moves(r, from, to) == req[r] = from /\ req' = [req EXCEPT ![r] = to]

\* A user with the address is looked for; a failed query counts as none found.
CheckDuplicate(r) ==
    LET taken == \E u \in users : email[u] = email[r] IN
    /\ \/ taken /\ Moves(r, "check", "refused")
       \/ (~taken \/ "finduser" \in Fault) /\ Moves(r, "check", "insert")
    /\ UNCHANGED <<email, users, orgs, keys>>

\* The user is stored: the collection has no unique index on the address.
InsertUser(r) ==
    /\ \/ Moves(r, "insert", "findorg") /\ users' = users \cup {r}
       \/ "insertuser" \in Fault /\ Moves(r, "insert", "refused") /\ UNCHANGED users
    /\ UNCHANGED <<email, orgs, keys>>

\* EnsureDefaultOrg: the owner is new, so that it has none as a rule.
FindByOwner(r) ==
    /\ \/ Moves(r, "findorg", IF r \in orgs THEN "key" ELSE "createorg")
       \/ "findorg" \in Fault /\ Moves(r, "findorg", "refused")
    /\ UNCHANGED <<email, users, orgs, keys>>

CreateOrg(r) ==
    /\ \/ Moves(r, "createorg", "key") /\ orgs' = orgs \cup {r}
       \/ "createorg" \in Fault /\ Moves(r, "createorg", "refused") /\ UNCHANGED orgs
    /\ UNCHANGED <<email, users, keys>>

GenerateKey(r) ==
    /\ \/ Moves(r, "key", "provisioned") /\ keys' = keys \cup {r}
       \/ "createkey" \in Fault /\ Moves(r, "key", "refused") /\ UNCHANGED keys
    /\ UNCHANGED <<email, users, orgs>>

Register(r) ==
    CheckDuplicate(r) \/ InsertUser(r) \/ FindByOwner(r) \/ CreateOrg(r) \/ GenerateKey(r)

Next == \E r \in Request : Register(r)

Spec == Init /\ [][Next]_vars

\* "1. Check duplicate", "email already taken" (user.go:29-32): no address
\* belongs to two users.
OneUserPerEmail ==
    \A u, v \in users : email[u] = email[v] => u = v
=============================================================================
