------------------------------- MODULE Access -------------------------------
(***************************************************************************)
(* Accounts, sessions and API tokens (server/auth.py, routes/auth.py,      *)
(* routes/tokens.py and the guard of app.py).                              *)
(*                                                                         *)
(* A request of /api/users or /api/tokens resolves its caller, reads what  *)
(* its checks need, and commits later: requests run in threads, the        *)
(* database is READ COMMITTED and nothing but the advisory lock of setup   *)
(* orders two of them.  A commit that meets a row another request removed, *)
(* or a name another request took, fails and changes nothing.              *)
(*                                                                         *)
(* Passwords, e-mail addresses, last_used_at and last_login_at are left    *)
(* out, and so is STOKER_AUTH_DISABLED, under which none of this happens.  *)
(***************************************************************************)
EXTENDS Naturals, FiniteSets, FiniteSetsExt, Functions

CONSTANTS
    Names,           \* usernames
    Roles,           \* {"admin", "viewer"} or more
    TokenNames,
    Requests,        \* request threads
    AdminName,       \* STOKER_ADMIN_USER, or NoName
    ProxyNames,      \* names a trusted proxy asserts; {} without proxy trust
    ProxyRole,       \* STOKER_PROXY_DEFAULT_ROLE
    Dialect,         \* "postgresql" or "sqlite"
    Serial,          \* user management one request at a time
    MaxId, MaxCookies,
    NoName

ASSUME AccessAssumption == NoName \notin Requests

VARIABLES
    users,           \* id -> [name, role, active, source], the users table
    lastId,          \* the id sequence of that table
    tokens,          \* name -> [role, dead], the api_tokens table; dead: revoked or expired
    cookies,         \* sessions a browser holds that are younger than the TTL: [uid, owner]
    request,         \* request[r]: what thread r has read and will commit
    locked,          \* holder of setup's advisory lock, or NoName
    first            \* ids of the accounts setup created

AccessVars == <<users, lastId, tokens, cookies, request, locked, first>>

Idle == [op |-> "idle"]
Busy(r) == request[r] # Idle

AccessInit ==
    /\ users = [i \in {} |-> NoName]
    /\ lastId = 0
    /\ tokens = [t \in {} |-> NoName]
    /\ cookies = {}
    /\ request = [r \in Requests |-> Idle]
    /\ locked = NoName
    /\ first = {}

(***************************************************************************)
(* Accounts                                                                *)
(***************************************************************************)

\* The primary key: a sequence on Postgres, the largest in use plus one on
\* SQLite.
fresh_id(table) == IF Dialect = "sqlite" THEN Max(DOMAIN table \cup {0}) + 1 ELSE lastId + 1

Taken(name) == \E i \in DOMAIN users : users[i].name = name

Account(name, role, source) ==
    [name |-> name, role |-> role, active |-> TRUE, source |-> source]

\* INSERT, with the unique name.
insert_user(user) ==
    LET i == fresh_id(users) IN
    /\ ~Taken(user.name)
    /\ i <= MaxId
    /\ users' = [j \in DOMAIN users \cup {i} |-> IF j = i THEN user ELSE users[j]]
    /\ lastId' = Max({lastId, i})

Admins(table) == {i \in DOMAIN table : table[i].role = "admin" /\ table[i].active}

\* Mutant: accounts that were deactivated count as well.
_admin_count_All(i) == Cardinality({j \in DOMAIN users : users[j].role = "admin"} \ {i})

_admin_count(i) == Cardinality(Admins(users) \ {i})

(***************************************************************************)
(* Who a request is                                                        *)
(***************************************************************************)

\* read_session: the cookie names an id; the row must be there and active.
read_session(i) == users[i].active /\ \E c \in cookies : c.uid = i

_token_is_active(t) == ~tokens[t].dead

\* resolve_user: the proxy's word goes first, then a token, then the cookie; a
\* token that does not resolve is not made up for by a cookie.  The caller is
\* given by its role and, unless it is a token, its id.
Callers ==
    {[id |-> i, role |-> users[i].role] :
        i \in {j \in DOMAIN users : \/ users[j].active /\ users[j].name \in ProxyNames
                                    \/ read_session(j)}}
    \cup {[id |-> 0, role |-> tokens[t].role] : t \in {u \in DOMAIN tokens : _token_is_active(u)}}

\* The guard of the middleware, then require_admin, both on the same rows.
require_admin(caller) == caller \in Callers /\ caller.role = "admin"

\* A proxy-asserted name without an account gets one.
_get_or_create_proxy_user(name) ==
    /\ name \in ProxyNames
    /\ insert_user(Account(name, ProxyRole, "proxy"))
    /\ UNCHANGED <<tokens, cookies, request, locked, first>>

\* Startup, before anything is served.
bootstrap_admin ==
    /\ AdminName # NoName
    /\ insert_user(Account(AdminName, "admin", "local"))
    /\ request' = [r \in Requests |-> Idle]
    /\ locked' = NoName
    /\ UNCHANGED <<tokens, cookies, first>>

(***************************************************************************)
(* Setup, login, logout                                                    *)
(***************************************************************************)

\* Mutant: no lock.
may_enter_Always == TRUE

\* pg_advisory_xact_lock; SQLite has no such lock.
may_enter == Dialect = "sqlite" \/ locked = NoName

\* The lock, then the count of users.
setup(r, name) ==
    /\ ~Busy(r) /\ may_enter
    /\ DOMAIN users = {}
    /\ locked' = r
    /\ request' = [request EXCEPT ![r] = [op |-> "setup", name |-> name]]
    /\ UNCHANGED <<users, lastId, tokens, cookies, first>>

Cookie(i) == [uid |-> i, owner |-> users'[i].name]

\* The password is hashed in between; the commit frees the lock.
commit_setup(r) ==
    LET i == fresh_id(users) IN
    /\ request[r].op = "setup"
    /\ IF Taken(request[r].name)
       THEN UNCHANGED <<users, lastId, cookies, first>>
       ELSE /\ insert_user(Account(request[r].name, "admin", "local"))
            /\ cookies' = cookies \cup {Cookie(i)}
            /\ first' = first \cup {i}
    /\ locked' = IF locked = r THEN NoName ELSE locked
    /\ request' = [request EXCEPT ![r] = Idle]
    /\ UNCHANGED tokens

\* A right password of an active local account; last_login_at is committed
\* before the cookie is set, which fails if the row is gone.
login(i) ==
    /\ i \in DOMAIN users /\ users[i].active /\ users[i].source = "local"
    /\ Cardinality(cookies) < MaxCookies
    /\ cookies' = cookies \cup {[uid |-> i, owner |-> users[i].name]}
    /\ UNCHANGED <<users, lastId, tokens, request, locked, first>>

\* The browser drops its cookie, or the cookie grows older than the TTL; the
\* server keeps no session.
logout(c) ==
    /\ cookies' = cookies \ {c}
    /\ UNCHANGED <<users, lastId, tokens, request, locked, first>>

(***************************************************************************)
(* User and token management                                               *)
(***************************************************************************)

MayBegin(r) == ~Busy(r) /\ (Serial => \A q \in Requests : ~Busy(q))

begin(r, caller, work) ==
    /\ MayBegin(r)
    /\ require_admin(caller)
    /\ request' = [request EXCEPT ![r] = work]
    /\ UNCHANGED <<users, lastId, tokens, cookies, locked, first>>

create_user(r, caller, name, role) ==
    /\ ~Taken(name)
    /\ begin(r, caller, [op |-> "create_user", name |-> name, role |-> role])

\* Role, active flag and password, each given or left alone.  A change that
\* would leave no active admin is refused, on the count of now.
update_user(r, caller, i, role, active, password) ==
    /\ i \in DOMAIN users
    /\ (role # "admin" \/ ~active) /\ i \in Admins(users) => _admin_count(i) # 0
    /\ begin(r, caller, [op |-> "update_user", id |-> i, role |-> role, active |-> active,
                         password |-> password])

\* Not yourself, and not the last active admin.
delete_user(r, caller, i) ==
    /\ i \in DOMAIN users /\ i # caller.id
    /\ i \in Admins(users) => _admin_count(i) # 0
    /\ begin(r, caller, [op |-> "delete_user", id |-> i])

create_token(r, caller, t, role) ==
    /\ t \notin DOMAIN tokens
    /\ begin(r, caller, [op |-> "create_token", token |-> t, role |-> role])

revoke_token(r, caller, t) ==
    /\ t \in DOMAIN tokens
    /\ begin(r, caller, [op |-> "revoke_token", token |-> t])

\* What the commit of a request does to the rows as they are then.
effect(w) ==
    \/ /\ w.op = "create_user"
       /\ IF Taken(w.name) THEN UNCHANGED <<users, lastId>>
          ELSE insert_user(Account(w.name, w.role, "local"))
       /\ UNCHANGED tokens
    \/ /\ w.op = "update_user"
       /\ users' = [i \in DOMAIN users |->
              IF i = w.id THEN [users[i] EXCEPT !.role = w.role, !.active = w.active,
                                                !.source = IF w.password THEN "local" ELSE @]
              ELSE users[i]]
       /\ UNCHANGED <<lastId, tokens>>
    \/ /\ w.op = "delete_user"
       /\ users' = Restrict(users, DOMAIN users \ {w.id})
       /\ UNCHANGED <<lastId, tokens>>
    \/ /\ w.op = "create_token"
       /\ tokens' = IF w.token \in DOMAIN tokens THEN tokens
                    ELSE [t \in DOMAIN tokens \cup {w.token} |->
                              IF t \in DOMAIN tokens THEN tokens[t]
                              ELSE [role |-> w.role, dead |-> FALSE]]
       /\ UNCHANGED <<users, lastId>>
    \/ /\ w.op = "revoke_token"
       /\ tokens' = [tokens EXCEPT ![w.token].dead = TRUE]
       /\ UNCHANGED <<users, lastId>>

commit(r) ==
    /\ Busy(r)
    /\ effect(request[r])
    /\ request' = [request EXCEPT ![r] = Idle]
    /\ UNCHANGED <<cookies, locked, first>>

\* expires_at has come.
expire_token(t) ==
    /\ _token_is_active(t)
    /\ tokens' = [tokens EXCEPT ![t].dead = TRUE]
    /\ UNCHANGED <<users, lastId, cookies, request, locked, first>>

AccessNext ==
    \/ \E name \in ProxyNames : _get_or_create_proxy_user(name)
    \/ bootstrap_admin
    \/ \E r \in Requests, name \in Names : setup(r, name)
    \/ \E r \in Requests : commit_setup(r) \/ commit(r)
    \/ \E i \in DOMAIN users : login(i)
    \/ \E c \in cookies : logout(c)
    \/ \E r \in Requests, caller \in Callers :
           \/ \E name \in Names, role \in Roles : create_user(r, caller, name, role)
           \/ \E i \in DOMAIN users, role \in Roles, active, password \in BOOLEAN :
                  update_user(r, caller, i, role, active, password)
           \/ \E i \in DOMAIN users : delete_user(r, caller, i)
           \/ \E t \in TokenNames, role \in Roles : create_token(r, caller, t, role)
           \/ \E t \in TokenNames : revoke_token(r, caller, t)
    \/ \E t \in DOMAIN tokens : expire_token(t)

AccessSpec == AccessInit /\ [][AccessNext]_AccessVars

(***************************************************************************)
(* Properties                                                              *)
(***************************************************************************)

\* First-access setup creates one account: two setups that overlap do not both
\* pass the zero-user gate.
SetupOnce == Cardinality(first \cap DOMAIN users) <= 1

\* A session is the session of the account it was issued to, though that
\* account may be gone and others have come since.
SessionIsItsOwner ==
    \A c \in cookies : c.uid \in DOMAIN users => users[c.uid].name = c.owner

\* Where there is an active admin there will be one: no sequence of updates and
\* deletions takes the last one away.
AdminRemains == [][Admins(users) # {} => Admins(users') # {}]_AccessVars
=============================================================================
