------------------------------- MODULE AdminApi -------------------------------
(***************************************************************************)
(* A request through the layers of the admin API: the audit log outermost, *)
(* the rate limiter, the authentication middleware, and the handlers of    *)
(* the user store (users, API keys, access and refresh tokens). Every lock *)
(* the code takes and gives back is a step, other requests run in between. *)
(***************************************************************************)
EXTENDS Integers, Sequences, FiniteSets, SequencesExt

CONSTANTS AdmReqs,       \* ids of the requests under way
          AdmClients,    \* values of the client key (an address, or "unknown")
          AdmNames,      \* user names; "admin" is the one the store starts with
          AdmMax,        \* bound on the requests
          AdmEnd,        \* bound on the clock
          RateMax, RateWindow, RateKeep, RateBuckets, \* rate_limit_rpm (or 0: no limiter), 60 s, 120 s, 10 000
          AuditSize      \* events in the audit file at which it is rotated

\* A bucket is kept at least as long as its window is open.
ASSUME AdmAssumption ==
    /\ AdmMax \in Nat /\ AdmEnd \in Nat
    /\ RateMax \in Nat /\ RateWindow \in Nat \ {0} /\ RateKeep \in Nat /\ RateWindow <= RateKeep
    /\ RateBuckets \in Nat /\ AuditSize \in Nat

VARIABLES users, nameIndex, apiKeys, tokens, adm, admClock, admLimit, buckets, admAccepted, audit, admCount

admVars == <<users, nameIndex, apiKeys, tokens, adm, admClock, admLimit, buckets, admAccepted, audit, admCount>>
storeVars == <<users, nameIndex, apiKeys, tokens>>
rateVars == <<admLimit, buckets, admAccepted>>

Roles == {"admin", "editor", "viewer"}
ManageUsers(role) == role = "admin"
EmptyMap == [x \in {} |-> 0]
IdleAdm == [at |-> "idle", op |-> "none", client |-> "none", cred |-> [kind |-> "none"], user |-> 0, role |-> "none",
            target |-> 0, arg |-> "none", serial |-> 0, ok |-> TRUE, seen |-> {}]

AdmInit ==
    /\ users = [u \in {1} |-> [name |-> "admin", role |-> "admin"]]
    /\ nameIndex = [n \in {"admin"} |-> 1]
    /\ apiKeys = EmptyMap
    /\ tokens = {}
    /\ adm = [r \in AdmReqs |-> IdleAdm]
    /\ admClock = 0
    /\ admLimit \in {0, RateMax}
    /\ buckets = EmptyMap
    /\ admAccepted = [c \in AdmClients |-> <<>>]
    /\ audit = [size |-> 0, rotated |-> {}]
    /\ admCount = 0

AdmAt(r, at) == adm[r].at = at
AdmStep(r, rec) == adm' = [adm EXCEPT ![r] = rec]
Answer(r, ok) == AdmStep(r, [adm[r] EXCEPT !.at = "audit", !.ok = ok])
Drop(f, x) == [y \in DOMAIN f \ {x} |-> f[y]]
Bind(f, x, v) == [y \in DOMAIN f \union {x} |-> IF y = x THEN v ELSE f[y]]

\* What a request may carry, and what it may ask. What it asks is nothing to the limiter, so
\* only views are sent through it.
Creds2 == {[kind |-> "none"]} \cup {[kind |-> "key", key |-> k] : k \in DOMAIN apiKeys}
            \cup {[kind |-> t.kind, token |-> t] : t \in tokens}
Public(op) == op \in {"login", "refresh"}
AdmArrives(r) ==
    /\ AdmAt(r, "idle") /\ admCount < AdmMax
    /\ admCount' = admCount + 1
    /\ \E c \in IF admLimit = 0 THEN {"unknown"} ELSE AdmClients, cred \in Creds2, op \in {"login", "refresh", "create", "delete", "role", "key", "revoke", "view"} :
       \E target \in DOMAIN users, arg \in IF op = "role" THEN Roles ELSE IF op \in {"login", "create"} THEN AdmNames ELSE {"none"} :
          /\ op = "refresh" => cred.kind = "refresh"
          /\ admLimit > 0 => op = "view"
          /\ AdmStep(r, [IdleAdm EXCEPT !.at = IF admLimit = 0 THEN "auth" ELSE "rate", !.op = op, !.client = c, !.cred = cred, !.target = target, !.arg = arg,
                                       !.serial = admCount + 2])
    /\ UNCHANGED <<storeVars, admClock, rateVars, audit>>

\* RateLimiter::check: stale buckets go when there are many, a window that is over starts
\* again, the request is counted whether it is let in or not.
EvictSoon(b) == IF Cardinality(DOMAIN b) > RateBuckets
                THEN [c \in {x \in DOMAIN b : admClock - b[x].start < 1} |-> b[c]] ELSE b
Evict(b) == IF Cardinality(DOMAIN b) > RateBuckets
            THEN [c \in {x \in DOMAIN b : admClock - b[x].start < RateKeep} |-> b[c]] ELSE b
RateCheck(r) ==
    LET c == adm[r].client
        b == Evict(buckets)
        old == IF c \in DOMAIN b THEN b[c] ELSE [start |-> admClock, count |-> 0]
        new == IF admClock - old.start >= RateWindow THEN [start |-> admClock, count |-> 1] ELSE [old EXCEPT !.count = @ + 1]
    IN  /\ AdmAt(r, "rate") /\ admLimit > 0
        /\ buckets' = Bind(b, c, new)
        /\ IF new.count <= admLimit
           THEN /\ admAccepted' = [admAccepted EXCEPT ![c] = Append(@, admClock)]
                /\ AdmStep(r, [adm[r] EXCEPT !.at = "auth"])
           ELSE /\ Answer(r, TRUE) /\ UNCHANGED admAccepted
        /\ UNCHANGED <<storeVars, admClock, admLimit, audit, admCount>>

\* auth_middleware: public paths pass, an API key or an access token names a user, who must
\* still be there and whose role is read from the store now.
RoleClaimed(cred, u) == IF cred.kind = "access" THEN cred.token.role ELSE users[u].role
RoleFor(cred, u) == users[u].role
AuthMiddleware(r) ==
    LET q == adm[r]
        u == CASE q.cred.kind = "access" -> q.cred.token.user
               [] q.cred.kind = "key" /\ q.cred.key \in DOMAIN apiKeys -> apiKeys[q.cred.key]
               [] OTHER -> 0
    IN  /\ AdmAt(r, "auth")
        /\ IF Public(q.op) THEN AdmStep(r, [q EXCEPT !.at = "handle", !.role = "admin"])
           ELSE IF u \in DOMAIN users
                THEN AdmStep(r, [q EXCEPT !.at = "handle", !.user = u, !.role = RoleFor(q.cred, u), !.seen = {users[u].role}])
                ELSE Answer(r, FALSE)
        /\ UNCHANGED <<storeVars, admClock, rateVars, audit, admCount>>

Issue(u) == {[kind |-> "access", user |-> u, role |-> users[u].role], [kind |-> "refresh", user |-> u, role |-> "none"]}
Login(r) ==
    /\ \/ adm[r].op = "login" /\ adm[r].arg \in DOMAIN nameIndex /\ nameIndex[adm[r].arg] \in DOMAIN users
          /\ tokens' = tokens \cup Issue(nameIndex[adm[r].arg])
       \/ adm[r].op = "refresh" /\ adm[r].cred.token.user \in DOMAIN users
          /\ tokens' = tokens \cup Issue(adm[r].cred.token.user)
    /\ Answer(r, TRUE) /\ UNCHANGED <<users, nameIndex, apiKeys>>

\* The handlers that change users need ManageUsers; nobody deletes his own account.
CreateUser(r) ==
    /\ adm[r].op = "create" /\ ManageUsers(adm[r].role) /\ adm[r].arg \notin DOMAIN nameIndex
    /\ users' = Bind(users, adm[r].serial, [name |-> adm[r].arg, role |-> "viewer"])
    /\ nameIndex' = Bind(nameIndex, adm[r].arg, adm[r].serial)
    /\ Answer(r, TRUE) /\ UNCHANGED <<apiKeys, tokens>>
DeleteUser(r) ==
    LET t == adm[r].target
    IN  /\ adm[r].op = "delete" /\ ManageUsers(adm[r].role) /\ t # adm[r].user /\ t \in DOMAIN users
        /\ users' = Drop(users, t)
        /\ nameIndex' = Drop(nameIndex, users[t].name)
        /\ Answer(r, TRUE) /\ UNCHANGED <<apiKeys, tokens>>
SetRole(r) ==
    LET t == adm[r].target
    IN  /\ adm[r].op = "role" /\ ManageUsers(adm[r].role) /\ t \in DOMAIN users
        /\ users' = [users EXCEPT ![t].role = adm[r].arg]
        /\ adm' = [q \in AdmReqs |-> IF q = r THEN [adm[q] EXCEPT !.at = "audit"]
                                     ELSE IF adm[q].user = t THEN [adm[q] EXCEPT !.seen = @ \cup {adm[r].arg}] ELSE adm[q]]
        /\ UNCHANGED <<nameIndex, apiKeys, tokens>>
\* create_api_key looks the user up under one lock and inserts under the next.
CreateKey(r) ==
    /\ adm[r].op = "key" /\ adm[r].user \in DOMAIN users
    /\ AdmStep(r, [adm[r] EXCEPT !.at = "insert"])
    /\ UNCHANGED storeVars
InsertKey(r) ==
    /\ AdmAt(r, "insert")
    /\ apiKeys' = Bind(apiKeys, adm[r].serial, adm[r].user)
    /\ Answer(r, TRUE)
    /\ UNCHANGED <<users, nameIndex, tokens, admClock, rateVars, audit, admCount>>
RevokeKey(r) ==
    /\ adm[r].op = "revoke" /\ adm[r].cred.kind = "key" /\ adm[r].cred.key \in DOMAIN apiKeys
    /\ apiKeys' = Drop(apiKeys, adm[r].cred.key)
    /\ Answer(r, TRUE) /\ UNCHANGED <<users, nameIndex, tokens>>
Handled(r) == Login(r) \/ CreateUser(r) \/ DeleteUser(r) \/ SetRole(r) \/ CreateKey(r) \/ RevokeKey(r)
Handle(r) ==
    /\ AdmAt(r, "handle")
    /\ \/ Handled(r)
       \/ /\ ~ENABLED Handled(r) /\ Answer(r, adm[r].op = "view") /\ UNCHANGED storeVars
    /\ UNCHANGED <<admClock, rateVars, audit, admCount>>

\* The audit layer logs when the answer is there; a full file is first renamed after the
\* second it is in, over an older one renamed in the same second.
LogEvent(r) ==
    /\ AdmAt(r, "audit")
    /\ audit' = IF audit.size < AuditSize THEN [audit EXCEPT !.size = @ + 1]
                ELSE [size |-> 1, rotated |-> audit.rotated \cup {admClock}]
    /\ AdmStep(r, IdleAdm)
    /\ UNCHANGED <<storeVars, admClock, rateVars, admCount>>

AdmTick == admLimit > 0 /\ admClock < AdmEnd /\ admClock' = admClock + 1
           /\ UNCHANGED <<storeVars, adm, rateVars, audit, admCount>>

AdmNext ==
    \/ \E r \in AdmReqs : AdmArrives(r) \/ RateCheck(r) \/ AuthMiddleware(r) \/ Handle(r) \/ InsertKey(r) \/ LogEvent(r)
    \/ AdmTick

AdmSpec == AdmInit /\ [][AdmNext]_admVars

----------------------------------------------------------------------------
\* The role a request acts with is one its user has had since the request was admitted,
\* whatever an older token says, and the two maps of the user store agree: every user is
\* found by name, and no name leads to a user who is gone.
AccessCurrent ==
    /\ \A r \in AdmReqs : adm[r].user # 0 => adm[r].role \in adm[r].seen
    /\ \A n \in DOMAIN nameIndex : nameIndex[n] \in DOMAIN users /\ users[nameIndex[n]].name = n
    /\ \A u \in DOMAIN users : users[u].name \in DOMAIN nameIndex /\ nameIndex[users[u].name] = u

\* However requests fall on the windows, and whichever buckets were evicted when there
\* were too many, a client gets at most twice the limit within any span of one window.
RateBound ==
    \A c \in AdmClients : \A i, j \in DOMAIN admAccepted[c] :
        (i <= j /\ admAccepted[c][j] - admAccepted[c][i] < RateWindow) => j - i + 1 <= 2 * RateMax
=============================================================================
