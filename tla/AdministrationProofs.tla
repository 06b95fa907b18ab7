------------------------ MODULE AdministrationProofs ------------------------
(***************************************************************************)
(* Who may do what, for any number of accounts, request threads and        *)
(* instances and for every setting the assumptions admit.                  *)
(*                                                                         *)
(* First-access setup and the last administrator (module Access) rest on   *)
(* what the code does not promise everywhere: the advisory lock and the id *)
(* sequence of Postgres (Dialect), and for the last administrator requests *)
(* that do not overlap (Serial).  AccessInv says who may hold the lock,    *)
(* Spares what a request that takes an admin away still knows when it      *)
(* commits.                                                                *)
(*                                                                         *)
(* A worker that was answered once keeps a valid token until its process   *)
(* ends (module RunTokens).  Slack says where the time is: at the last     *)
(* answered heartbeat more than Refresh was left of the token; the loop    *)
(* turns at the latest Interval after the dead man was last found alive;   *)
(* and the drain adds its budget.                                          *)
(*                                                                         *)
(* The shared configuration (module ConfigShare) keeps the specs a pull    *)
(* left out, and its push loop never rests behind the instance, when pulls *)
(* and pushes of one instance do not overlap (Overlap = FALSE); without    *)
(* that both fail, because _state is read and written without a lock.  For *)
(* the second, one instance writes the copy (OneWriter) and the value the  *)
(* copy has before the first push is no document (NoDocument).  Remembered *)
(* says what carried and synced owe to the last push and pull, Noted what  *)
(* a push under way has read.                                              *)
(***************************************************************************)
EXTENDS Access, RunTokens, ConfigShare, FiniteSetTheorems, TLAPS

UserRow == [name : Names \cup ProxyNames \cup {AdminName}, role : Roles \cup {ProxyRole, "admin"},
            active : BOOLEAN, source : {"local", "proxy"}]

Management == {"create_user", "update_user", "delete_user", "create_token", "revoke_token"}

WorkOK(w) ==
    /\ w.op \in {"idle", "setup"} \cup Management
    /\ w.op = "setup" => w.name \in Names
    /\ w.op = "create_user" => w.name \in Names /\ w.role \in Roles
    /\ w.op = "update_user" => w.role \in Roles /\ w.active \in BOOLEAN /\ w.password \in BOOLEAN

UsersOK ==
    /\ lastId \in Nat /\ first \subseteq 1 .. lastId
    /\ users \in [DOMAIN users -> UserRow] /\ DOMAIN users \subseteq 1 .. lastId

(* The lock is held by the one setup under way, which has seen no account  *)
(* of an earlier one.                                                      *)
LockOK ==
    /\ \A r \in Requests : request[r].op = "setup" <=> locked = r
    /\ locked \in Requests => first \cap DOMAIN users = {}
    /\ \E i : first \cap DOMAIN users \subseteq {i}

AccessInv ==
    /\ UsersOK
    /\ DOMAIN request = Requests /\ \A r \in Requests : WorkOK(request[r])
    /\ LockOK

USE DEF Management

LEMMA InitAccess == AccessInit => AccessInv
<1> SUFFICES ASSUME AccessInit PROVE AccessInv
  OBVIOUS
<1>1. UsersOK
  BY DEF AccessInit, UsersOK
<1>2. DOMAIN request = Requests /\ \A r \in Requests : WorkOK(request[r])
  BY DEF AccessInit, Idle, WorkOK
<1>3. LockOK
  BY AccessAssumption DEF AccessInit, Idle, LockOK
<1> QED BY <1>1, <1>2, <1>3 DEF AccessInv

LEMMA TwoMax == ASSUME NEW n \in Nat PROVE Max({n, n + 1}) = n + 1
<1>1. n + 1 \in {n, n + 1} /\ \A y \in {n, n + 1} : n + 1 >= y
  OBVIOUS
<1>2. \A x \in {n, n + 1} : (\A y \in {n, n + 1} : x >= y) => x = n + 1
  OBVIOUS
<1> QED BY <1>1, <1>2 DEF Max

(* INSERT on Postgres: a new id, the other rows untouched.                 *)
LEMMA Inserted ==
    ASSUME Dialect = "postgresql", AccessInv, NEW user \in UserRow, insert_user(user)
    PROVE  /\ lastId' = lastId + 1 /\ lastId + 1 \notin DOMAIN users /\ lastId + 1 \notin first
           /\ DOMAIN users' = DOMAIN users \cup {lastId + 1}
           /\ users' \in [DOMAIN users' -> UserRow]
           /\ \A j \in DOMAIN users : users'[j] = users[j]
           /\ users'[lastId + 1] = user
           /\ DOMAIN users' \subseteq 1 .. lastId' /\ lastId' \in Nat /\ first \subseteq 1 .. lastId'
<1>1. /\ lastId \in Nat /\ first \subseteq 1 .. lastId
      /\ users \in [DOMAIN users -> UserRow] /\ DOMAIN users \subseteq 1 .. lastId
  BY DEF AccessInv, UsersOK
<1> DEFINE i == lastId + 1
<1>2. fresh_id(users) = i
  BY DEF fresh_id
<1>3. /\ users' = [j \in DOMAIN users \cup {i} |-> IF j = i THEN user ELSE users[j]]
      /\ lastId' = Max({lastId, i})
  BY <1>2 DEF insert_user
<1>4. lastId' = i
  BY <1>1, <1>3, TwoMax
<1>5. i \notin 1 .. lastId /\ 1 .. i = 1 .. lastId \cup {i}
  BY <1>1
<1> HIDE DEF UserRow
<1>6. /\ DOMAIN users' = DOMAIN users \cup {i} /\ users' \in [DOMAIN users' -> UserRow]
      /\ \A j \in DOMAIN users : users'[j] = users[j] \/ j = i
      /\ users'[i] = user
  BY <1>1, <1>3
<1>7. i \notin DOMAIN users /\ i \notin first
  BY <1>1, <1>5
<1>8. /\ DOMAIN users' \subseteq 1 .. i /\ first \subseteq 1 .. i /\ i \in Nat
  BY <1>1, <1>5, <1>6
<1> QED BY <1>4, <1>6, <1>7, <1>8

LEMMA Accounts ==
    /\ \A name \in Names, role \in Roles : Account(name, role, "local") \in UserRow
    /\ \A name \in Names : Account(name, "admin", "local") \in UserRow
    /\ Account(AdminName, "admin", "local") \in UserRow
    /\ \A name \in ProxyNames : Account(name, ProxyRole, "proxy") \in UserRow
<1>1. TRUE \in BOOLEAN
  OBVIOUS
<1> DEFINE t == TRUE
<1>2. \A n, r, s : Account(n, r, s) = [name |-> n, role |-> r, active |-> t, source |-> s]
  BY DEF Account
<1>3. t \in BOOLEAN
  OBVIOUS
<1> HIDE DEF t
<1> QED BY <1>2, <1>3 DEF UserRow

-----------------------------------------------------------------------------
(* Setup.                                                                  *)

(* An insertion that is not setup's.                                       *)
LEMMA OtherInsert ==
    ASSUME Dialect = "postgresql", AccessInv, NEW user \in UserRow, insert_user(user),
           UNCHANGED first
    PROVE  UsersOK' /\ first' \cap DOMAIN users' = first \cap DOMAIN users
<1> HIDE DEF UserRow
<1> QED BY Inserted DEF UsersOK

LEMMA LockKept ==
    ASSUME AccessInv, first' \cap DOMAIN users' \subseteq first \cap DOMAIN users,
           UNCHANGED <<request, locked>>
    PROVE  LockOK'
<1>1. /\ \A r \in Requests : request[r].op = "setup" <=> locked = r
      /\ locked \in Requests => first \cap DOMAIN users = {}
      /\ \E i : first \cap DOMAIN users \subseteq {i}
  BY DEF AccessInv, LockOK
<1> DEFINE left == first' \cap DOMAIN users'
<1>2. left \subseteq first \cap DOMAIN users
  OBVIOUS
<1> HIDE DEF left
<1>3. (locked \in Requests => left = {}) /\ \E i : left \subseteq {i}
  BY <1>1, <1>2
<1> QED BY <1>1, <1>3 DEF LockOK, left

LEMMA SetupBegins ==
    ASSUME Dialect = "postgresql", AccessInv, NEW r \in Requests, NEW name \in Names,
           setup(r, name)
    PROVE  AccessInv'
<1> DEFINE w == [op |-> "setup", name |-> name]
<1>1. /\ locked = NoName /\ DOMAIN users = {} /\ locked' = r
      /\ request' = [request EXCEPT ![r] = w]
      /\ UNCHANGED <<users, lastId, first>>
  BY DEF setup, may_enter
<1>2. /\ DOMAIN request = Requests /\ \A q \in Requests : WorkOK(request[q])
      /\ \A q \in Requests : request[q].op # "setup"
  BY <1>1, AccessAssumption DEF AccessInv, LockOK
<1>3. w.op = "setup" /\ WorkOK(w)
  BY DEF WorkOK
<1> HIDE DEF w
<1>4. /\ DOMAIN request' = Requests /\ \A q \in Requests : WorkOK(request'[q])
      /\ \A q \in Requests : request'[q].op = "setup" <=> q = r
  BY <1>1, <1>2, <1>3
<1>5. UsersOK'
  BY <1>1 DEF AccessInv, UsersOK
<1>6. LockOK'
  BY <1>1, <1>4 DEF LockOK
<1> QED BY <1>4, <1>5, <1>6 DEF AccessInv

(* Thread r is done.                                                       *)
LEMMA Freed ==
    ASSUME AccessInv, NEW r \in Requests, request' = [request EXCEPT ![r] = Idle]
    PROVE  /\ DOMAIN request' = Requests /\ \A q \in Requests : WorkOK(request'[q])
           /\ \A q \in Requests : request'[q].op = IF q = r THEN "idle" ELSE request[q].op
<1>1. DOMAIN request = Requests /\ \A q \in Requests : WorkOK(request[q])
  BY DEF AccessInv
<1>2. Idle.op = "idle" /\ WorkOK(Idle)
  BY DEF Idle, WorkOK
<1> QED BY <1>1, <1>2

LEMMA SetupCommits ==
    ASSUME Dialect = "postgresql", AccessInv, NEW r \in Requests, commit_setup(r)
    PROVE  AccessInv'
<1>1. /\ request[r].op = "setup" /\ request' = [request EXCEPT ![r] = Idle]
      /\ locked' = IF locked = r THEN NoName ELSE locked
  BY DEF commit_setup
<1>2. locked = r /\ first \cap DOMAIN users = {} /\ request[r].name \in Names
  BY <1>1 DEF AccessInv, LockOK, WorkOK
<1>3. locked' = NoName /\ NoName \notin Requests
  BY <1>1, <1>2, AccessAssumption
<1>4. /\ DOMAIN request' = Requests /\ \A q \in Requests : WorkOK(request'[q])
      /\ \A q \in Requests : request'[q].op # "setup"
  <2>1. \A q \in Requests : request[q].op = "setup" => q = r
    BY <1>2 DEF AccessInv, LockOK
  <2> QED BY <1>1, <2>1, Freed
<1>5. UsersOK' /\ \E i : first' \cap DOMAIN users' \subseteq {i}
  <2>1. CASE UNCHANGED <<users, lastId, first>>
    BY <1>2, <2>1 DEF AccessInv, UsersOK
  <2>2. CASE ~Taken(request[r].name)
    <3> DEFINE user == Account(request[r].name, "admin", "local")
    <3>1. insert_user(user) /\ first' = first \cup {lastId + 1}
      BY <2>2 DEF commit_setup, fresh_id
    <3>2. user \in UserRow
      BY <1>2, Accounts
    <3> HIDE DEF user, UserRow
    <3>3. /\ lastId' = lastId + 1 /\ lastId' \in Nat
          /\ lastId + 1 \notin DOMAIN users /\ lastId + 1 \notin first
          /\ DOMAIN users' = DOMAIN users \cup {lastId + 1}
          /\ users' \in [DOMAIN users' -> UserRow]
          /\ DOMAIN users' \subseteq 1 .. lastId' /\ first \subseteq 1 .. lastId'
      BY <3>1, <3>2, Inserted
    <3>4. first' \subseteq 1 .. lastId'
      BY <3>1, <3>3
    <3>5. first' \cap DOMAIN users' \subseteq {lastId + 1}
      BY <1>2, <3>1, <3>3
    <3>6. \E i : first' \cap DOMAIN users' \subseteq {i}
      BY <3>5
    <3> QED BY <3>3, <3>4, <3>6 DEF UsersOK
  <2> QED BY <2>1, <2>2 DEF commit_setup
<1>6. LockOK'
  BY <1>3, <1>4, <1>5 DEF LockOK
<1> QED BY <1>4, <1>5, <1>6 DEF AccessInv

-----------------------------------------------------------------------------
(* Everything else.                                                        *)

LEMMA ManagementBegins ==
    ASSUME AccessInv, NEW r \in Requests, NEW caller, NEW w, WorkOK(w), w.op \in Management,
           begin(r, caller, w)
    PROVE  AccessInv'
<1>1. /\ ~Busy(r) /\ request' = [request EXCEPT ![r] = w]
      /\ UNCHANGED <<users, lastId, locked, first>>
  BY DEF begin, MayBegin
<1>2. /\ DOMAIN request = Requests /\ \A q \in Requests : WorkOK(request[q])
      /\ request[r].op = "idle"
      /\ \A q \in Requests : request[q].op = "setup" <=> locked = q
  BY <1>1 DEF AccessInv, LockOK, Busy, Idle
<1>3. /\ DOMAIN request' = Requests /\ \A q \in Requests : WorkOK(request'[q])
      /\ \A q \in Requests : request'[q].op = "setup" <=> locked = q
  BY <1>1, <1>2
<1>4. UsersOK'
  BY <1>1 DEF AccessInv, UsersOK
<1>5. LockOK'
  BY <1>1, <1>3 DEF AccessInv, LockOK
<1> QED BY <1>3, <1>4, <1>5 DEF AccessInv

(* The works the management actions begin with.                            *)
ManagementStep ==
    \E r \in Requests, caller \in Callers :
       \/ \E name \in Names, role \in Roles : create_user(r, caller, name, role)
       \/ \E i \in DOMAIN users, role \in Roles, active, password \in BOOLEAN :
              update_user(r, caller, i, role, active, password)
       \/ \E i \in DOMAIN users : delete_user(r, caller, i)
       \/ \E t \in TokenNames, role \in Roles : create_token(r, caller, t, role)
       \/ \E t \in TokenNames : revoke_token(r, caller, t)

Begins(r, caller, w) == begin(r, caller, w) /\ WorkOK(w) /\ w.op \in Management

(* Whether a work takes an active admin away, and that another is left.    *)
Removes(w) ==
    \/ w.op = "update_user" /\ (w.role # "admin" \/ ~w.active)
    \/ w.op = "delete_user"
SparesOne(w) ==
    Removes(w) => /\ w.id \in 1 .. lastId
                  /\ w.id \in Admins(users) => Admins(users) \ {w.id} # {}

LEMMA Counted == ASSUME NEW i, _admin_count(i) # 0 PROVE Admins(users) \ {i} # {}
<1>1. Cardinality({}) = 0
  BY FS_EmptySet
<1> QED BY <1>1 DEF _admin_count

LEMMA WorksBegun ==
    ASSUME AccessInv, ManagementStep
    PROVE  \E r \in Requests : \E caller, w : Begins(r, caller, w) /\ SparesOne(w)
<1>1. PICK r \in Requests, caller \in Callers :
       \/ \E name \in Names, role \in Roles : create_user(r, caller, name, role)
       \/ \E i \in DOMAIN users, role \in Roles, active, password \in BOOLEAN :
              update_user(r, caller, i, role, active, password)
       \/ \E i \in DOMAIN users : delete_user(r, caller, i)
       \/ \E t \in TokenNames, role \in Roles : create_token(r, caller, t, role)
       \/ \E t \in TokenNames : revoke_token(r, caller, t)
  BY DEF ManagementStep
<1> SUFFICES \E w : Begins(r, caller, w) /\ SparesOne(w)
  OBVIOUS
<1>2. DOMAIN users \subseteq 1 .. lastId
  BY DEF AccessInv, UsersOK
<1>3. ASSUME NEW name \in Names, NEW role \in Roles, create_user(r, caller, name, role)
      PROVE  \E w : Begins(r, caller, w) /\ SparesOne(w)
  <2> DEFINE w == [op |-> "create_user", name |-> name, role |-> role]
  <2>1. begin(r, caller, w)
    BY <1>3 DEF create_user
  <2>2. WorkOK(w) /\ w.op \in Management /\ SparesOne(w)
    BY DEF WorkOK, SparesOne, Removes
  <2> QED BY <2>1, <2>2 DEF Begins
<1>4. ASSUME NEW i \in DOMAIN users, NEW role \in Roles, NEW active \in BOOLEAN,
             NEW password \in BOOLEAN, update_user(r, caller, i, role, active, password)
      PROVE  \E w : Begins(r, caller, w) /\ SparesOne(w)
  <2> DEFINE w == [op |-> "update_user", id |-> i, role |-> role, active |-> active,
                   password |-> password]
  <2>1. begin(r, caller, w)
    BY <1>4 DEF update_user
  <2>2. /\ w.op = "update_user" /\ w.id = i /\ w.role = role /\ w.active = active
        /\ w.password = password
    OBVIOUS
  <2>3. (role # "admin" \/ ~active) /\ i \in Admins(users) => _admin_count(i) # 0
    BY <1>4 DEF update_user
  <2> HIDE DEF w
  <2>4. WorkOK(w) /\ w.op \in Management
    BY <2>2 DEF WorkOK
  <2>5. SparesOne(w)
    BY <1>2, <2>2, <2>3, Counted DEF SparesOne, Removes
  <2> QED BY <2>1, <2>4, <2>5 DEF Begins
<1>5. ASSUME NEW i \in DOMAIN users, delete_user(r, caller, i)
      PROVE  \E w : Begins(r, caller, w) /\ SparesOne(w)
  <2> DEFINE w == [op |-> "delete_user", id |-> i]
  <2>1. begin(r, caller, w) /\ (i \in Admins(users) => _admin_count(i) # 0)
    BY <1>5 DEF delete_user
  <2>2. w.op = "delete_user" /\ w.id = i
    OBVIOUS
  <2> HIDE DEF w
  <2>3. WorkOK(w) /\ w.op \in Management
    BY <2>2 DEF WorkOK
  <2>4. SparesOne(w)
    BY <1>2, <2>1, <2>2, Counted DEF SparesOne
  <2> QED BY <2>1, <2>3, <2>4 DEF Begins
<1>6. ASSUME NEW t \in TokenNames, NEW role \in Roles, create_token(r, caller, t, role)
      PROVE  \E w : Begins(r, caller, w) /\ SparesOne(w)
  <2> DEFINE w == [op |-> "create_token", token |-> t, role |-> role]
  <2>1. begin(r, caller, w)
    BY <1>6 DEF create_token
  <2>2. WorkOK(w) /\ w.op \in Management /\ SparesOne(w)
    BY DEF WorkOK, SparesOne, Removes
  <2> QED BY <2>1, <2>2 DEF Begins
<1>7. ASSUME NEW t \in TokenNames, revoke_token(r, caller, t)
      PROVE  \E w : Begins(r, caller, w) /\ SparesOne(w)
  <2> DEFINE w == [op |-> "revoke_token", token |-> t]
  <2>1. begin(r, caller, w)
    BY <1>7 DEF revoke_token
  <2>2. WorkOK(w) /\ w.op \in Management /\ SparesOne(w)
    BY DEF WorkOK, SparesOne, Removes
  <2> QED BY <2>1, <2>2 DEF Begins
<1> QED BY <1>1, <1>3, <1>4, <1>5, <1>6, <1>7

(* What a commit leaves of the admins.                                     *)
LEMMA InsertKeepsAdmins ==
    ASSUME Dialect = "postgresql", AccessInv, NEW user \in UserRow, insert_user(user)
    PROVE  /\ Admins(users) \subseteq Admins(users')
           /\ Admins(users') \subseteq Admins(users) \cup {lastId + 1}
<1> HIDE DEF UserRow
<1>1. /\ DOMAIN users' = DOMAIN users \cup {lastId + 1}
      /\ \A j \in DOMAIN users : users'[j] = users[j]
  BY Inserted
<1> QED BY <1>1 DEF Admins

LEMMA CommitEffect ==
    ASSUME Dialect = "postgresql", AccessInv, NEW r \in Requests, commit(r)
    PROVE  /\ request[r].op \in Management
           /\ UsersOK' /\ first' \cap DOMAIN users' \subseteq first \cap DOMAIN users
           /\ Admins(users) \subseteq Admins(users') \cup {request[r].id}
           /\ ~Removes(request[r]) => Admins(users) \subseteq Admins(users')
<1> DEFINE w == request[r]
<1>1. effect(w) /\ UNCHANGED <<cookies, locked, first>> /\ WorkOK(w)
  BY DEF commit, AccessInv
<1>2. /\ lastId \in Nat /\ first \subseteq 1 .. lastId
      /\ users \in [DOMAIN users -> UserRow] /\ DOMAIN users \subseteq 1 .. lastId
  BY DEF AccessInv, UsersOK
<1> HIDE DEF w
<1>3. CASE w.op \in {"create_user", "create_token", "revoke_token"} /\ UNCHANGED <<users, lastId>>
  BY <1>1, <1>2, <1>3 DEF UsersOK, w
<1>4. CASE w.op = "create_user" /\ ~UNCHANGED <<users, lastId>>
  <2> DEFINE user == Account(w.name, w.role, "local")
  <2>1. insert_user(user)
    BY <1>1, <1>4 DEF effect
  <2>2. user \in UserRow
    BY <1>1, <1>4, Accounts DEF WorkOK
  <2> HIDE DEF user
  <2>3. UsersOK' /\ first' \cap DOMAIN users' = first \cap DOMAIN users
    BY <1>1, <2>1, <2>2, OtherInsert
  <2>4. Admins(users) \subseteq Admins(users')
    BY <2>1, <2>2, InsertKeepsAdmins
  <2> QED BY <1>4, <2>3, <2>4 DEF w
<1>5. CASE w.op = "update_user"
  <2> DEFINE Upd(u) == [u EXCEPT !.role = w.role, !.active = w.active,
                                 !.source = IF w.password THEN "local" ELSE @]
  <2>1. /\ users' = [i \in DOMAIN users |-> IF i = w.id THEN Upd(users[i]) ELSE users[i]]
        /\ lastId' = lastId
    BY <1>1, <1>5 DEF effect
  <2>2. w.role \in Roles /\ w.active \in BOOLEAN
    BY <1>1, <1>5 DEF WorkOK
  <2>3. ASSUME NEW u \in UserRow
        PROVE  Upd(u) \in UserRow /\ Upd(u).role = w.role /\ Upd(u).active = w.active
    <3> DEFINE s == IF w.password THEN "local" ELSE u.source
    <3>1. s \in {"local", "proxy"} /\ Upd(u) = [u EXCEPT !.role = w.role, !.active = w.active, !.source = s]
      BY DEF UserRow
    <3> HIDE DEF s, Upd
    <3> QED BY <2>2, <3>1 DEF UserRow
  <2> HIDE DEF Upd, UserRow
  <2>4. /\ DOMAIN users' = DOMAIN users /\ users' \in [DOMAIN users' -> UserRow]
        /\ \A i \in DOMAIN users : i # w.id => users'[i] = users[i]
    BY <1>2, <2>1, <2>3
  <2>5. w.id \in DOMAIN users => users'[w.id].role = w.role /\ users'[w.id].active = w.active
    BY <1>2, <2>1, <2>3
  <2>6. UsersOK' /\ first' \cap DOMAIN users' = first \cap DOMAIN users
    BY <1>1, <1>2, <2>1, <2>4 DEF UsersOK
  <2>7. Admins(users) \subseteq Admins(users') \cup {w.id}
    BY <2>4 DEF Admins
  <2>8. ~Removes(w) => Admins(users) \subseteq Admins(users')
    BY <1>5, <2>4, <2>5 DEF Admins, Removes
  <2> QED BY <1>5, <2>6, <2>7, <2>8 DEF w
<1>6. CASE w.op = "delete_user"
  <2>1. users' = [i \in DOMAIN users \ {w.id} |-> users[i]] /\ lastId' = lastId
    BY <1>1, <1>6 DEF effect, Restrict
  <2> HIDE DEF UserRow
  <2>2. /\ DOMAIN users' = DOMAIN users \ {w.id} /\ users' \in [DOMAIN users' -> UserRow]
        /\ \A i \in DOMAIN users' : users'[i] = users[i]
    BY <1>2, <2>1
  <2>3. UsersOK' /\ first' \cap DOMAIN users' \subseteq first \cap DOMAIN users
    BY <1>1, <1>2, <2>1, <2>2 DEF UsersOK
  <2>4. Admins(users) \subseteq Admins(users') \cup {w.id}
    BY <2>2 DEF Admins
  <2> QED BY <1>6, <2>3, <2>4 DEF w, Removes
<1> QED BY <1>1, <1>3, <1>4, <1>5, <1>6 DEF effect

LEMMA CommitInv ==
    ASSUME Dialect = "postgresql", AccessInv, NEW r \in Requests, commit(r)
    PROVE  AccessInv'
<1>1. /\ request' = [request EXCEPT ![r] = Idle] /\ locked' = locked
      /\ request[r].op \in Management
      /\ UsersOK' /\ first' \cap DOMAIN users' \subseteq first \cap DOMAIN users
  BY CommitEffect DEF commit
<1>2. /\ DOMAIN request' = Requests /\ \A q \in Requests : WorkOK(request'[q])
      /\ \A q \in Requests : request'[q].op = IF q = r THEN "idle" ELSE request[q].op
  BY <1>1, Freed
<1> DEFINE left == first' \cap DOMAIN users'
<1>3. left \subseteq first \cap DOMAIN users
  BY <1>1
<1>4. /\ \A q \in Requests : request[q].op = "setup" <=> locked = q
      /\ locked \in Requests => first \cap DOMAIN users = {}
      /\ \E i : first \cap DOMAIN users \subseteq {i}
  BY DEF AccessInv, LockOK
<1> HIDE DEF left
<1>5. (locked \in Requests => left = {}) /\ \E i : left \subseteq {i}
  BY <1>3, <1>4
<1>6. \A q \in Requests : request'[q].op = "setup" <=> locked = q
  BY <1>1, <1>2, <1>4
<1>7. LockOK'
  BY <1>1, <1>5, <1>6 DEF LockOK, left
<1> QED BY <1>1, <1>2, <1>7 DEF AccessInv

(* Steps that touch neither the accounts nor the requests, and the two     *)
(* that insert an account on their own.                                    *)
Apart ==
    \/ \E i \in DOMAIN users : login(i)
    \/ \E c \in cookies : logout(c)
    \/ \E t \in DOMAIN tokens : expire_token(t)

LEMMA ApartFrame ==
    ASSUME Apart \/ UNCHANGED AccessVars
    PROVE  UNCHANGED <<users, lastId, request, locked, first>>
BY DEF Apart, login, logout, expire_token, AccessVars

LEMMA ApartInv ==
    ASSUME AccessInv, Apart \/ UNCHANGED AccessVars
    PROVE  AccessInv'
BY ApartFrame DEF AccessInv, UsersOK, LockOK

LEMMA ProxyInv ==
    ASSUME Dialect = "postgresql", AccessInv, NEW name \in ProxyNames,
           _get_or_create_proxy_user(name)
    PROVE  AccessInv'
<1> DEFINE user == Account(name, ProxyRole, "proxy")
<1>1. insert_user(user) /\ UNCHANGED <<request, locked, first>>
  BY DEF _get_or_create_proxy_user
<1>2. user \in UserRow
  BY Accounts
<1> HIDE DEF user, UserRow
<1>3. UsersOK' /\ first' \cap DOMAIN users' = first \cap DOMAIN users
  BY <1>1, <1>2, OtherInsert
<1>4. LockOK'
  BY <1>1, <1>3, LockKept
<1> QED BY <1>1, <1>3, <1>4 DEF AccessInv

LEMMA BootInv ==
    ASSUME Dialect = "postgresql", AccessInv, bootstrap_admin
    PROVE  AccessInv'
<1> DEFINE user == Account(AdminName, "admin", "local")
<1>1. /\ insert_user(user) /\ request' = [r \in Requests |-> Idle] /\ locked' = NoName
      /\ UNCHANGED first
  BY DEF bootstrap_admin
<1>2. user \in UserRow
  BY Accounts
<1> HIDE DEF user, UserRow
<1>3. UsersOK' /\ first' \cap DOMAIN users' = first \cap DOMAIN users
  BY <1>1, <1>2, OtherInsert
<1>4. DOMAIN request' = Requests /\ \A r \in Requests : request'[r].op = "idle" /\ WorkOK(request'[r])
  BY <1>1 DEF Idle, WorkOK
<1>5. LockOK'
  BY <1>1, <1>3, <1>4, AccessAssumption DEF AccessInv, LockOK
<1> QED BY <1>3, <1>4, <1>5 DEF AccessInv

(* The steps of AccessNext, in the groups of the lemmas.                   *)
LEMMA StepCases ==
    ASSUME [AccessNext]_AccessVars
    PROVE  \/ \E name \in ProxyNames : _get_or_create_proxy_user(name)
           \/ bootstrap_admin
           \/ \E r \in Requests, name \in Names : setup(r, name)
           \/ \E r \in Requests : commit_setup(r)
           \/ \E r \in Requests : commit(r)
           \/ ManagementStep
           \/ Apart \/ UNCHANGED AccessVars
BY DEF AccessNext, ManagementStep, Apart

LEMMA StepAccess ==
    ASSUME Dialect = "postgresql", AccessInv, [AccessNext]_AccessVars
    PROVE  AccessInv'
<1>1. CASE ManagementStep
  BY <1>1, WorksBegun, ManagementBegins DEF Begins
<1> QED BY <1>1, StepCases, ProxyInv, BootInv, SetupBegins, SetupCommits, CommitInv, ApartInv

-----------------------------------------------------------------------------
(* The last admin, when management requests do not overlap.                *)

Manages(r) == request[r].op \in Management

SerialInv ==
    /\ \A q, r \in Requests : Manages(q) /\ Manages(r) => q = r
    /\ \A r \in Requests : SparesOne(request[r])

(* An insertion spares what a pending removal spares.                      *)
LEMMA InsertSpares ==
    ASSUME Dialect = "postgresql", AccessInv, NEW user \in UserRow, insert_user(user),
           NEW w, SparesOne(w)
    PROVE  Removes(w) => /\ w.id \in 1 .. lastId'
                         /\ w.id \in Admins(users') => Admins(users') \ {w.id} # {}
<1> SUFFICES ASSUME Removes(w)
             PROVE  /\ w.id \in 1 .. lastId'
                    /\ w.id \in Admins(users') => Admins(users') \ {w.id} # {}
  OBVIOUS
<1>1. lastId \in Nat /\ lastId' = lastId + 1
  <2> HIDE DEF UserRow
  <2> QED BY Inserted DEF AccessInv, UsersOK
<1>2. /\ Admins(users) \subseteq Admins(users')
      /\ Admins(users') \subseteq Admins(users) \cup {lastId + 1}
  BY InsertKeepsAdmins
<1>3. w.id \in 1 .. lastId /\ (w.id \in Admins(users) => Admins(users) \ {w.id} # {})
  BY DEF SparesOne
<1>4. w.id # lastId + 1 /\ w.id \in 1 .. lastId'
  BY <1>1, <1>3
<1> QED BY <1>2, <1>3, <1>4

LEMMA InitSerial == AccessInit => SerialInv
BY DEF AccessInit, Idle, SerialInv, Manages, SparesOne, Removes

LEMMA StepSerial ==
    ASSUME Dialect = "postgresql", Serial, AccessInv, SerialInv, [AccessNext]_AccessVars
    PROVE  SerialInv' /\ (Admins(users) # {} => Admins(users') # {})
<1>a. DOMAIN request = Requests
  BY DEF AccessInv
<1>1. ASSUME NEW name \in ProxyNames, _get_or_create_proxy_user(name)
      PROVE  SerialInv' /\ (Admins(users) # {} => Admins(users') # {})
  <2> DEFINE user == Account(name, ProxyRole, "proxy")
  <2>1. insert_user(user) /\ UNCHANGED request /\ user \in UserRow
    BY <1>1, Accounts DEF _get_or_create_proxy_user
  <2> HIDE DEF user, UserRow
  <2>2. \A r \in Requests : Removes(request[r]) =>
            /\ request[r].id \in 1 .. lastId'
            /\ request[r].id \in Admins(users') => Admins(users') \ {request[r].id} # {}
    BY <2>1, InsertSpares DEF SerialInv
  <2>3. SerialInv'
    BY <2>1, <2>2 DEF SerialInv, Manages, SparesOne, Removes
  <2> QED BY <2>1, <2>3, InsertKeepsAdmins
<1>2. CASE bootstrap_admin
  <2> DEFINE user == Account(AdminName, "admin", "local")
  <2>1. insert_user(user) /\ request' = [r \in Requests |-> Idle] /\ user \in UserRow
    BY <1>2, Accounts DEF bootstrap_admin
  <2> HIDE DEF user, UserRow
  <2>2. SerialInv'
    BY <2>1 DEF Idle, SerialInv, Manages, SparesOne, Removes
  <2> QED BY <2>1, <2>2, InsertKeepsAdmins
<1>3. ASSUME NEW r \in Requests, NEW name \in Names, setup(r, name)
      PROVE  SerialInv' /\ (Admins(users) # {} => Admins(users') # {})
  <2> DEFINE w == [op |-> "setup", name |-> name]
  <2>1. request' = [request EXCEPT ![r] = w] /\ UNCHANGED <<users, lastId>> /\ w.op = "setup"
    BY <1>3 DEF setup
  <2> HIDE DEF w
  <2>2. \A q \in Requests : request'[q] = request[q] \/ request'[q].op = "setup"
    BY <1>a, <2>1
  <2>3. SerialInv'
    BY <2>1, <2>2 DEF SerialInv, Manages, SparesOne, Removes, Admins
  <2> QED BY <2>1, <2>3
<1>4. ASSUME NEW r \in Requests, commit_setup(r)
      PROVE  SerialInv' /\ (Admins(users) # {} => Admins(users') # {})
  <2>1. request' = [request EXCEPT ![r] = Idle] /\ request[r].op = "setup" /\ Idle.op = "idle"
    BY <1>4 DEF commit_setup, Idle
  <2>2. \A q \in Requests : request'[q] = request[q] \/ request'[q].op = "idle"
    BY <1>a, <2>1
  <2>3. CASE UNCHANGED <<users, lastId>>
    BY <2>2, <2>3 DEF SerialInv, Manages, SparesOne, Removes, Admins
  <2>4. CASE ~Taken(request[r].name)
    <3> DEFINE user == Account(request[r].name, "admin", "local")
    <3>1. insert_user(user)
      BY <1>4, <2>4 DEF commit_setup
    <3>2. user \in UserRow
      BY <2>1, Accounts DEF AccessInv, WorkOK
    <3> HIDE DEF user, UserRow
    <3>3. \A q \in Requests : Removes(request[q]) =>
              /\ request[q].id \in 1 .. lastId'
              /\ request[q].id \in Admins(users') => Admins(users') \ {request[q].id} # {}
      BY <3>1, <3>2, InsertSpares DEF SerialInv
    <3>4. SerialInv'
      BY <2>2, <3>3 DEF SerialInv, Manages, SparesOne, Removes
    <3> QED BY <3>1, <3>2, <3>4, InsertKeepsAdmins
  <2> QED BY <1>4, <2>3, <2>4 DEF commit_setup
<1>5. ASSUME NEW r \in Requests, commit(r)
      PROVE  SerialInv' /\ (Admins(users) # {} => Admins(users') # {})
  <2>1. request' = [request EXCEPT ![r] = Idle] /\ Idle.op = "idle"
    BY <1>5 DEF commit, Idle
  <2>2. /\ Manages(r)
        /\ Admins(users) \subseteq Admins(users') \cup {request[r].id}
        /\ ~Removes(request[r]) => Admins(users) \subseteq Admins(users')
    BY <1>5, CommitEffect DEF Manages
  <2>3. \A q \in Requests : request'[q].op \notin Management
    BY <1>a, <2>1, <2>2 DEF SerialInv, Manages
  <2>4. SerialInv'
    BY <2>3 DEF SerialInv, Manages, SparesOne, Removes
  <2>5. Removes(request[r]) /\ request[r].id \in Admins(users)
           => Admins(users) \ {request[r].id} # {}
    BY DEF SerialInv, SparesOne
  <2> QED BY <2>2, <2>4, <2>5
<1>6. CASE ManagementStep
  <2>a. PICK r \in Requests : \E caller, w : Begins(r, caller, w) /\ SparesOne(w)
    BY <1>6, WorksBegun
  <2>1. PICK caller, w : Begins(r, caller, w) /\ SparesOne(w)
    BY <2>a
  <2>2. /\ request' = [request EXCEPT ![r] = w] /\ UNCHANGED <<users, lastId>>
        /\ \A q \in Requests : request[q] = Idle
    BY <2>1 DEF Begins, begin, MayBegin, Busy
  <2>3. /\ \A q \in Requests : request'[q] = IF q = r THEN w ELSE Idle
    BY <1>a, <2>2
  <2>4. Idle.op = "idle"
    BY DEF Idle
  <2>5. \A q, p \in Requests : Manages(q)' /\ Manages(p)' => q = p
    BY <2>3, <2>4 DEF Manages
  <2>6. \A q \in Requests : SparesOne(request[q])'
    BY <2>1, <2>2, <2>3, <2>4 DEF SparesOne, Removes, Admins
  <2> QED BY <2>2, <2>5, <2>6 DEF SerialInv
<1>7. CASE Apart \/ UNCHANGED AccessVars
  BY <1>7, ApartFrame DEF SerialInv, Manages, SparesOne, Removes, Admins
<1> QED BY <1>1, <1>2, <1>3, <1>4, <1>5, <1>6, <1>7, StepCases

-----------------------------------------------------------------------------
(* AccessInv is an invariant on Postgres.                                  *)
THEOREM AccessInvariant ==
    ASSUME Dialect = "postgresql"
    PROVE  AccessSpec => []AccessInv
<1>1. AccessInit => AccessInv
  BY InitAccess
<1>2. AccessInv /\ [AccessNext]_AccessVars => AccessInv'
  BY StepAccess
<1> QED BY <1>1, <1>2, PTL DEF AccessSpec

(* routes/auth.py setup on Postgres: however many first-access setups      *)
(* overlap, the advisory lock lets one account through, and a later setup  *)
(* of an emptied table does not add to it.                                 *)
THEOREM OneSetup ==
    ASSUME Dialect = "postgresql"
    PROVE  AccessSpec => []SetupOnce
<1>1. ASSUME AccessInv PROVE SetupOnce
  <2>1. PICK i : first \cap DOMAIN users \subseteq {i}
    BY <1>1 DEF AccessInv, LockOK
  <2>2. IsFiniteSet({i}) /\ Cardinality({i}) = 1
    BY FS_Singleton
  <2>3. Cardinality(first \cap DOMAIN users) <= Cardinality({i})
    BY <2>1, <2>2, FS_Subset
  <2> QED BY <2>2, <2>3 DEF SetupOnce
<1> QED BY <1>1, AccessInvariant, PTL

(* update_user and delete_user: when management requests do not overlap,   *)
(* no sequence of them, beside setups, proxy sign-ins and restarts, takes  *)
(* the last active admin away.                                             *)
THEOREM LastAdminStays ==
    ASSUME Dialect = "postgresql", Serial
    PROVE  AccessSpec => AdminRemains
<1>1. AccessInit => SerialInv
  BY InitSerial
<1>2. AccessInv /\ SerialInv /\ [AccessNext]_AccessVars
        => SerialInv' /\ [Admins(users) # {} => Admins(users') # {}]_AccessVars
  BY StepSerial
<1> QED BY <1>1, <1>2, AccessInvariant, PTL DEF AccessSpec, AdminRemains

-----------------------------------------------------------------------------
(* Run tokens.                                                             *)

TokenTypeOK ==
    /\ now \in Nat /\ token \in Nat /\ ack \in Nat /\ due \in Nat
    /\ beaten \in BOOLEAN
    /\ phase \in {"down", "claiming", "preparing", "warm", "up", "draining"}

\* Before its first heartbeat a process has nothing to lose.
Slack ==
    /\ phase # "down" => now <= due
    /\ phase \in {"claiming", "preparing", "warm"} => beaten = FALSE
    /\ beaten = TRUE /\ phase \in {"up", "draining"} => token > ack + Refresh
    /\ beaten = TRUE /\ phase = "up" => due <= ack + DeadMan + Interval
    /\ beaten = TRUE /\ phase = "draining" => due <= ack + DeadMan + Interval + Drain

TokenInv == TokenTypeOK /\ Slack

\* The initial state has the slack.
LEMMA TokenBase == TokenInit => TokenInv
<1> SUFFICES ASSUME TokenInit PROVE TokenInv
  OBVIOUS
<1>1. now = 0 /\ ack = 0 /\ due = 0
  BY DEF TokenInit
<1>2. phase = "down"
  BY DEF TokenInit
<1>3. beaten = FALSE
  BY DEF TokenInit
<1>4. token \in Nat
  BY TokenAssumption DEF TokenInit, projected
<1>5. TokenTypeOK
  BY <1>1, <1>2, <1>3, <1>4 DEF TokenTypeOK
<1>6. Slack
  BY <1>1, <1>2, <1>3, <1>4 DEF Slack
<1> QED
  BY <1>5, <1>6 DEF TokenInv

\* Every step of the worker and of time keeps it.
LEMMA TokenStep == TokenInv /\ [TokenNext]_TokenVars => TokenInv'
<1> SUFFICES ASSUME TokenInv, [TokenNext]_TokenVars PROVE TokenInv'
  OBVIOUS
<1> USE TokenAssumption DEF TokenInv, TokenTypeOK, Slack
<1>1. CASE boot
  <2>1. beaten' = FALSE
    BY <1>1 DEF boot
  <2>2. /\ phase' = "claiming"
        /\ token' \in Nat /\ ack' = now /\ now' = now
        /\ due' = now + DeadMan
    BY <1>1 DEF boot, projected
  <2>3. beaten' \in BOOLEAN
    BY <2>1, Zenon
  <2>4. TokenTypeOK'
    BY <2>2, <2>3
  <2>5. Slack'
    BY <2>1, <2>2
  <2> QED
    BY <2>4, <2>5
<1>2. CASE claim
  BY <1>2 DEF claim, answered
<1>3. CASE fetch_bundle
  BY <1>3 DEF fetch_bundle, Leave
<1>4. CASE ready
  BY <1>4 DEF ready, answered
<1>5. CASE give_up
  BY <1>5 DEF give_up, Leave
<1>6. CASE heartbeat
  <2>1. CASE verify_run_jwt(token) /\ token' = maybe_refresh_jwt(token) /\ ack' = now
             /\ beaten' = TRUE /\ NextTurn /\ UNCHANGED <<now, phase>>
    BY <1>6, <2>1 DEF heartbeat, verify_run_jwt, maybe_refresh_jwt, mint_run_jwt, NextTurn
  <2>2. CASE now - ack <= DeadMan /\ NextTurn /\ UNCHANGED <<now, phase, token, ack, beaten>>
    BY <1>6, <2>2 DEF heartbeat, NextTurn
  <2>3. CASE now - ack > DeadMan /\ Leave /\ UNCHANGED ack
    BY <1>6, <2>3 DEF heartbeat, Leave
  <2> QED
    BY <1>6, <2>1, <2>2, <2>3 DEF heartbeat
<1>7. CASE drain
  BY <1>7 DEF drain, Leave
<1>8. CASE final \/ crash
  BY <1>8 DEF final, crash
<1>9. CASE tick
  BY <1>9 DEF tick
<1>10. CASE UNCHANGED TokenVars
  BY <1>10 DEF TokenVars
<1> QED
  BY <1>1, <1>2, <1>3, <1>4, <1>5, <1>6, <1>7, <1>8, <1>9, <1>10 DEF TokenNext

\* No worker that was answered once is refused for its token, for any settings
\* in which dead man, loop and drain fit into the refresh window.
THEOREM TokensLast == TokenSpec => []TokenOutlivesWorker
<1>1. TokenInv => TokenOutlivesWorker
  BY TokenAssumption DEF TokenInv, TokenTypeOK, Slack, TokenOutlivesWorker, verify_run_jwt
<1> QED
  BY TokenBase, TokenStep, <1>1, PTL DEF TokenSpec

-----------------------------------------------------------------------------
(* The shared configuration.                                               *)

PushDomain == {"pc", "doc", "rows"}

(* The tables of the processes have an entry per instance and thread.      *)
Shapes ==
    /\ DOMAIN spec = Instances /\ DOMAIN synced = Instances /\ DOMAIN carried = Instances
    /\ DOMAIN unseen = Instances /\ DOMAIN puller = Instances /\ DOMAIN pusher = Instances
    /\ \A i \in Instances : DOMAIN pusher[i] = Threads
    /\ \A i \in Instances, th \in Threads : DOMAIN pusher[i][th] = PushDomain

Pushing(i) == \E th \in Threads : pusher[i][th].pc # "idle"

(* One thing at a time in a process, and pushes only in a writer.          *)
OneAtATime ==
    \A i \in Instances :
        /\ Pushing(i) => puller[i].pc = "idle" /\ i \in Writers
        /\ \A th, uh \in Threads :
             pusher[i][th].pc # "idle" /\ pusher[i][uh].pc # "idle" => th = uh

(* A spec that was pulled and never held is in no table here, is carried,  *)
(* and is in the document once the carried rows are appended.              *)
Remembered ==
    \A i \in Instances :
        /\ unseen[i] \subseteq DOMAIN carried[i] /\ unseen[i] \cap DOMAIN spec[i] = {}
        /\ \A th \in Threads :
             /\ pusher[i][th].pc \in {"look", "settle"} =>
                    /\ pusher[i][th].rows = carried[i]
                    /\ "specs" \in DOMAIN pusher[i][th].doc
                    /\ unseen[i] \cap DOMAIN pusher[i][th].doc.specs = {}
             /\ pusher[i][th].pc \in {"compare", "put", "mark"} =>
                    unseen[i] \subseteq DOMAIN pusher[i][th].doc.specs

CarryInv == Shapes /\ OneAtATime /\ Remembered

(* What is over a function is in the result.                               *)
LEMMA OverDomain ==
    ASSUME NEW f, NEW g
    PROVE  DOMAIN Over(g, f) = DOMAIN f \cup DOMAIN g
BY DEF Over

(* What is left of a function without some of its arguments.               *)
LEMMA WithoutDomain ==
    ASSUME NEW f, NEW S
    PROVE  DOMAIN Without(f, S) = DOMAIN f \ S
BY DEF Without, Restrict

(* A process that starts has nothing in progress and carries nothing.      *)
LEMMA CarryStarts == ConfigInit => CarryInv
<1> SUFFICES ASSUME ConfigInit PROVE CarryInv
  OBVIOUS
<1>1. Shapes
  BY DEF ConfigInit, Shapes, IdlePush, PushDomain
<1>2. \A i \in Instances : /\ unseen[i] = {}
                           /\ \A th \in Threads : pusher[i][th].pc = "idle"
  BY DEF ConfigInit, IdlePush
<1>3. OneAtATime /\ Remembered
  BY <1>2 DEF OneAtATime, Remembered, Pushing
<1> QED BY <1>1, <1>3 DEF CarryInv

(* A push moves on; the other pushes stay.                                 *)
LEMMA PushMoves ==
    ASSUME Shapes, NEW i \in Instances, NEW th \in Threads, NEW p, DOMAIN p = PushDomain,
           pusher' = [pusher EXCEPT ![i][th] = p]
    PROVE  /\ pusher'[i][th] = p
           /\ \A uh \in Threads \ {th} : pusher'[i][uh] = pusher[i][uh]
           /\ \A j \in Instances \ {i} : pusher'[j] = pusher[j]
           /\ DOMAIN pusher' = Instances
           /\ \A j \in Instances : DOMAIN pusher'[j] = Threads
           /\ \A j \in Instances, uh \in Threads : DOMAIN pusher'[j][uh] = PushDomain
BY DEF Shapes

(* The steps of a push that is under way, with what they do to memory.     *)
LEMMA PushStep ==
    ASSUME CarryInv, NEW i \in Instances, NEW th \in Threads, NEW p, DOMAIN p = PushDomain,
           pusher' = [pusher EXCEPT ![i][th] = p],
           pusher[i][th].pc # "idle" \/ (Quiet(i) /\ i \in Writers),
           UNCHANGED <<spec, unseen, puller>>, DOMAIN synced' = Instances,
           DOMAIN carried' = Instances, \A j \in Instances \ {i} : carried'[j] = carried[j],
           unseen[i] \subseteq DOMAIN carried'[i],
           p.pc \in {"look", "settle"} =>
               /\ p.rows = carried'[i] /\ "specs" \in DOMAIN p.doc
               /\ unseen[i] \cap DOMAIN p.doc.specs = {},
           p.pc \in {"compare", "put", "mark"} => unseen[i] \subseteq DOMAIN p.doc.specs
    PROVE  CarryInv'
<1>1. /\ pusher'[i][th] = p
      /\ \A uh \in Threads \ {th} : pusher'[i][uh] = pusher[i][uh]
      /\ \A j \in Instances \ {i} : pusher'[j] = pusher[j]
      /\ DOMAIN pusher' = Instances
      /\ \A j \in Instances : DOMAIN pusher'[j] = Threads
      /\ \A j \in Instances, uh \in Threads : DOMAIN pusher'[j][uh] = PushDomain
  BY PushMoves DEF CarryInv
<1>2. Shapes'
  BY <1>1 DEF CarryInv, Shapes
<1>3. /\ puller[i].pc = "idle" /\ i \in Writers
      /\ \A uh \in Threads \ {th} : pusher[i][uh].pc = "idle"
  BY DEF CarryInv, OneAtATime, Pushing, Quiet
<1>4. ASSUME NEW j \in Instances
      PROVE  /\ Pushing(j)' => puller'[j].pc = "idle" /\ j \in Writers
             /\ \A sh, uh \in Threads :
                  pusher'[j][sh].pc # "idle" /\ pusher'[j][uh].pc # "idle" => sh = uh
  <2>1. CASE j = i
    BY <1>1, <1>3, <2>1
  <2>2. CASE j # i
    BY <1>1, <2>2 DEF CarryInv, OneAtATime, Pushing
  <2> QED BY <2>1, <2>2
<1>5. OneAtATime'
  BY <1>4 DEF OneAtATime
<1>6. Remembered'
  <2>1. ASSUME NEW j \in Instances
        PROVE  unseen'[j] \subseteq DOMAIN carried'[j] /\ unseen'[j] \cap DOMAIN spec'[j] = {}
    BY DEF CarryInv, Remembered
  <2>2. ASSUME NEW j \in Instances, NEW uh \in Threads
        PROVE  /\ pusher'[j][uh].pc \in {"look", "settle"} =>
                     /\ pusher'[j][uh].rows = carried'[j] /\ "specs" \in DOMAIN pusher'[j][uh].doc
                     /\ unseen'[j] \cap DOMAIN pusher'[j][uh].doc.specs = {}
               /\ pusher'[j][uh].pc \in {"compare", "put", "mark"} =>
                     unseen'[j] \subseteq DOMAIN pusher'[j][uh].doc.specs
    <3>1. CASE j # i
      BY <1>1, <3>1 DEF CarryInv, Remembered
    <3>2. CASE j = i /\ uh = th
      BY <1>1, <3>2
    <3>3. CASE j = i /\ uh # th
      <4>1. pusher'[j][uh].pc = "idle"
        BY <1>1, <1>3, <3>3
      <4> QED BY <4>1
    <3> QED BY <3>1, <3>2, <3>3
  <2> QED BY <2>1, <2>2 DEF Remembered
<1> QED BY <1>2, <1>5, <1>6 DEF CarryInv

(* A push begins, is settled, compared, written and marked.                *)
LEMMA PushSteps ==
    ASSUME CarryInv, Overlap = FALSE, NEW i \in Instances, NEW th \in Threads,
           \/ start_push(i, th) \/ settle(i, th) \/ compare(i, th) \/ mark(i, th)
           \/ \E accepted \in BOOLEAN : put_object(i, th, accepted)
    PROVE  CarryInv'
<1> DEFINE p == pusher[i][th]
<1>1. /\ unseen[i] \subseteq DOMAIN carried[i] /\ unseen[i] \cap DOMAIN spec[i] = {}
      /\ p.pc \in {"look", "settle"} =>
             /\ p.rows = carried[i] /\ "specs" \in DOMAIN p.doc
             /\ unseen[i] \cap DOMAIN p.doc.specs = {}
      /\ p.pc \in {"compare", "put", "mark"} => unseen[i] \subseteq DOMAIN p.doc.specs
      /\ DOMAIN p = PushDomain
      /\ DOMAIN synced = Instances /\ DOMAIN carried = Instances
  BY DEF CarryInv, Shapes, Remembered
<1>2. DOMAIN IdlePush = PushDomain /\ IdlePush.pc = "idle"
  BY DEF IdlePush, PushDomain
<1>3. ASSUME NEW pc
      PROVE  /\ DOMAIN read(i, pc) = PushDomain /\ read(i, pc).pc = pc
             /\ read(i, pc).rows = carried[i] /\ read(i, pc).doc.specs = spec[i]
             /\ "specs" \in DOMAIN read(i, pc).doc
  BY DEF read, export_config, PushDomain
<1>4. CASE start_push(i, th)
  <2> DEFINE q == read(i, IF th = "loop" THEN "look" ELSE "settle")
  <2>1. /\ DOMAIN q = PushDomain /\ q.pc \in {"look", "settle"} /\ q.rows = carried[i]
        /\ q.doc.specs = spec[i] /\ "specs" \in DOMAIN q.doc
    BY <1>3
  <2>2. /\ pusher' = [pusher EXCEPT ![i][th] = q] /\ Quiet(i) /\ i \in Writers
        /\ UNCHANGED <<spec, unseen, puller, synced, carried>>
    BY <1>4 DEF start_push, Serving, Rows, Memory
  <2> HIDE DEF q
  <2> QED BY <1>1, <2>1, <2>2, PushStep
<1>5. CASE settle(i, th)
  <2> DEFINE d == [p.doc EXCEPT !.specs = Over(kept(p), @)]
             q == [pc |-> IF p.pc = "look" THEN "compare" ELSE "put", doc |-> d, rows |-> NoRows]
  <2>1. /\ p.pc \in {"look", "settle"} /\ pusher' = [pusher EXCEPT ![i][th] = q]
        /\ carried' = [carried EXCEPT ![i] = IF p.rows = NoRows THEN @ ELSE kept(p)]
        /\ UNCHANGED <<spec, unseen, puller, synced>>
    BY <1>5 DEF settle, Rows, Memory
  <2>2. DOMAIN kept(p) = DOMAIN p.rows \ DOMAIN p.doc.specs
    BY WithoutDomain DEF kept
  <2>3. unseen[i] \subseteq DOMAIN kept(p)
    BY <1>1, <2>1, <2>2
  <2>4. /\ DOMAIN carried' = Instances /\ \A j \in Instances \ {i} : carried'[j] = carried[j]
        /\ unseen[i] \subseteq DOMAIN carried'[i]
    BY <1>1, <2>1, <2>3
  <2>5. unseen[i] \subseteq DOMAIN d.specs
    <3>1. d.specs = Over(kept(p), p.doc.specs)
      BY <1>1, <2>1
    <3> QED BY <2>3, <3>1, OverDomain
  <2>6. DOMAIN q = PushDomain /\ q.pc \in {"compare", "put"} /\ q.doc = d
    BY DEF PushDomain
  <2> HIDE DEF q, d
  <2> QED BY <1>1, <2>1, <2>4, <2>5, <2>6, PushStep, ZenonT(60)
<1>6. CASE compare(i, th)
  <2> DEFINE q == IF synced[i] = p.doc THEN IdlePush ELSE read(i, "settle")
  <2>1. /\ p.pc = "compare" /\ pusher' = [pusher EXCEPT ![i][th] = q]
        /\ UNCHANGED <<spec, unseen, puller, synced, carried>>
    BY <1>6 DEF compare, Rows, Memory, CarryInv, Shapes
  <2>2. /\ DOMAIN q = PushDomain /\ q.pc \in {"idle", "settle"}
        /\ q.pc = "settle" => /\ q.rows = carried[i] /\ q.doc.specs = spec[i]
                            /\ "specs" \in DOMAIN q.doc
    BY <1>2, <1>3
  <2> HIDE DEF q
  <2> QED BY <1>1, <2>1, <2>2, PushStep
<1>7. ASSUME NEW accepted \in BOOLEAN, put_object(i, th, accepted) PROVE CarryInv'
  <2> DEFINE q == IF accepted THEN [p EXCEPT !.pc = "mark"] ELSE IdlePush
  <2>1. /\ p.pc = "put" /\ pusher' = [pusher EXCEPT ![i][th] = q]
        /\ UNCHANGED <<spec, unseen, puller, synced, carried>>
    BY <1>7 DEF put_object, Rows, Memory, CarryInv, Shapes
  <2>2. /\ DOMAIN q = PushDomain /\ q.pc \in {"idle", "mark"}
        /\ q.pc = "mark" => q.doc = p.doc
    BY <1>1, <1>2 DEF PushDomain
  <2> HIDE DEF q
  <2> QED BY <1>1, <2>1, <2>2, PushStep
<1>8. CASE mark(i, th)
  <2>1. /\ p.pc = "mark" /\ pusher' = [pusher EXCEPT ![i][th] = IdlePush]
        /\ UNCHANGED <<spec, unseen, puller, carried>> /\ DOMAIN synced' = Instances
    BY <1>1, <1>8 DEF mark, Rows, Memory
  <2> QED BY <1>1, <1>2, <2>1, PushStep
<1> QED BY <1>4, <1>5, <1>6, <1>7, <1>8

(* Memory and rows of one process change while nothing is pushed there.    *)
LEMMA QuietStep ==
    ASSUME CarryInv, NEW i \in Instances,
           \A th \in Threads : pusher'[i][th].pc = "idle",
           DOMAIN pusher'[i] = Threads,
           \A th \in Threads : DOMAIN pusher'[i][th] = PushDomain,
           DOMAIN pusher' = Instances, \A j \in Instances \ {i} : pusher'[j] = pusher[j],
           DOMAIN puller' = Instances, \A j \in Instances \ {i} : puller'[j] = puller[j],
           DOMAIN spec' = Instances, \A j \in Instances \ {i} : spec'[j] = spec[j],
           DOMAIN carried' = Instances, \A j \in Instances \ {i} : carried'[j] = carried[j],
           DOMAIN unseen' = Instances, \A j \in Instances \ {i} : unseen'[j] = unseen[j],
           DOMAIN synced' = Instances,
           unseen'[i] \subseteq DOMAIN carried'[i], unseen'[i] \cap DOMAIN spec'[i] = {}
    PROVE  CarryInv'
<1>1. Shapes'
  BY DEF CarryInv, Shapes
<1>2. OneAtATime'
  BY DEF CarryInv, OneAtATime, Pushing
<1>3. ASSUME NEW j \in Instances
      PROVE  /\ unseen'[j] \subseteq DOMAIN carried'[j] /\ unseen'[j] \cap DOMAIN spec'[j] = {}
             /\ \A th \in Threads :
                  /\ pusher'[j][th].pc \in {"look", "settle"} =>
                         /\ pusher'[j][th].rows = carried'[j]
                         /\ "specs" \in DOMAIN pusher'[j][th].doc
                         /\ unseen'[j] \cap DOMAIN pusher'[j][th].doc.specs = {}
                  /\ pusher'[j][th].pc \in {"compare", "put", "mark"} =>
                         unseen'[j] \subseteq DOMAIN pusher'[j][th].doc.specs
  <2>1. CASE j = i
    BY <2>1
  <2>2. CASE j # i
    BY <2>2 DEF CarryInv, Remembered
  <2> QED BY <2>1, <2>2
<1>4. Remembered'
  BY <1>3 DEF Remembered
<1> QED BY <1>1, <1>2, <1>4 DEF CarryInv

(* A pull, an import and a boot.                                           *)
LEMMA PullSteps ==
    ASSUME CarryInv, Overlap = FALSE, NEW i \in Instances,
           pull(i) \/ apply(i) \/ \E reachable \in BOOLEAN : load_from_env(i, reachable)
    PROVE  CarryInv'
<1>1. /\ UNCHANGED pusher /\ DOMAIN puller' = Instances
      /\ \A j \in Instances \ {i} : puller'[j] = puller[j]
  BY DEF pull, apply, load_from_env, CarryInv, Shapes
<1>2. \A th \in Threads : pusher[i][th].pc = "idle"
  BY DEF pull, apply, load_from_env, CarryInv, OneAtATime, Pushing, Serving, Quiet
<1>3. CASE UNCHANGED <<Rows, Memory>>
  <2>1. UNCHANGED <<spec, carried, unseen, synced>>
    BY <1>3 DEF Rows, Memory
  <2> QED BY <1>1, <1>2, <2>1, QuietStep DEF CarryInv, Shapes, Remembered
<1>4. ASSUME NEW doc, absorb(i, doc) PROVE CarryInv'
  <2>1. /\ DOMAIN spec' = Instances /\ \A j \in Instances \ {i} : spec'[j] = spec[j]
        /\ DOMAIN carried' = Instances /\ \A j \in Instances \ {i} : carried'[j] = carried[j]
        /\ DOMAIN unseen' = Instances /\ \A j \in Instances \ {i} : unseen'[j] = unseen[j]
        /\ DOMAIN synced' = Instances
    BY <1>4 DEF absorb, import_config, CarryInv, Shapes
  <2>2. /\ spec'[i] = imported_specs(i, doc) /\ carried'[i] = not_applied(i, doc)
        /\ unseen'[i] = DOMAIN not_applied(i, doc)
    BY <1>4 DEF absorb, import_config, CarryInv, Shapes
  <2>3. DOMAIN not_applied(i, doc) \cap DOMAIN imported_specs(i, doc) = {}
    <3> DEFINE f == doc.specs
               S == DOMAIN imported_specs(i, doc)
    <3>1. DOMAIN Without(f, S) = DOMAIN f \ S
      BY WithoutDomain
    <3> QED BY <3>1 DEF not_applied
  <2> QED BY <1>1, <1>2, <2>1, <2>2, <2>3, QuietStep DEF CarryInv, Shapes
<1> QED BY <1>3, <1>4 DEF pull, apply, load_from_env

(* A restart forgets what was in progress and what was carried.            *)
LEMMA RestartStep ==
    ASSUME CarryInv, NEW i \in Instances, restart(i)
    PROVE  CarryInv'
<1> DEFINE none == [th \in Threads |-> IdlePush]
<1>1. /\ DOMAIN none = Threads
      /\ \A th \in Threads : none[th].pc = "idle" /\ DOMAIN none[th] = PushDomain
  BY DEF IdlePush, PushDomain
<1>2. /\ synced' = [synced EXCEPT ![i] = Nothing] /\ carried' = [carried EXCEPT ![i] = NoRows]
      /\ unseen' = [unseen EXCEPT ![i] = {}] /\ pusher' = [pusher EXCEPT ![i] = none]
      /\ puller' = [puller EXCEPT ![i] = [IdlePull EXCEPT !.pc = "boot"]] /\ spec' = spec
  BY DEF restart, Rows
<1> HIDE DEF none
<1>3. /\ pusher'[i] = none /\ unseen'[i] = {}
      /\ DOMAIN pusher' = Instances /\ \A j \in Instances \ {i} : pusher'[j] = pusher[j]
      /\ DOMAIN puller' = Instances /\ \A j \in Instances \ {i} : puller'[j] = puller[j]
      /\ DOMAIN carried' = Instances /\ \A j \in Instances \ {i} : carried'[j] = carried[j]
      /\ DOMAIN unseen' = Instances /\ \A j \in Instances \ {i} : unseen'[j] = unseen[j]
      /\ DOMAIN synced' = Instances /\ DOMAIN spec' = Instances
  BY <1>2 DEF CarryInv, Shapes
<1> QED BY <1>1, <1>2, <1>3, QuietStep

(* An edit beside whatever is in progress.                                 *)
LEMMA EditStep ==
    ASSUME CarryInv, NEW i \in Instances, Edit(i), DOMAIN spec' = Instances,
           \A j \in Instances \ {i} : spec'[j] = spec[j]
    PROVE  CarryInv'
<1>1. /\ UNCHANGED <<synced, carried, pusher, puller>>
      /\ unseen' = [unseen EXCEPT ![i] = @ \ DOMAIN spec'[i]]
  BY DEF Edit
<1>2. /\ DOMAIN unseen' = Instances /\ unseen'[i] = unseen[i] \ DOMAIN spec'[i]
      /\ \A j \in Instances \ {i} : unseen'[j] = unseen[j]
  BY <1>1 DEF CarryInv, Shapes
<1>3. Shapes'
  BY <1>1, <1>2 DEF CarryInv, Shapes
<1>4. OneAtATime'
  BY <1>1 DEF CarryInv, OneAtATime, Pushing
<1>5. \A j \in Instances : unseen'[j] \subseteq unseen[j] /\ unseen'[j] \cap DOMAIN spec'[j] = {}
  BY <1>2 DEF CarryInv, Remembered
<1>6. Remembered'
  <2>1. ASSUME NEW j \in Instances PROVE unseen'[j] \subseteq DOMAIN carried'[j]
    BY <1>1, <1>5 DEF CarryInv, Remembered
  <2>2. ASSUME NEW j \in Instances, NEW th \in Threads
        PROVE  /\ pusher'[j][th].pc \in {"look", "settle"} =>
                     /\ pusher'[j][th].rows = carried'[j]
                     /\ "specs" \in DOMAIN pusher'[j][th].doc
                     /\ unseen'[j] \cap DOMAIN pusher'[j][th].doc.specs = {}
               /\ pusher'[j][th].pc \in {"compare", "put", "mark"} =>
                     unseen'[j] \subseteq DOMAIN pusher'[j][th].doc.specs
    <3>1. unseen'[j] \subseteq unseen[j]
      BY <1>5
    <3>2. pusher'[j][th] = pusher[j][th] /\ carried'[j] = carried[j]
      BY <1>1
    <3> QED BY <3>1, <3>2 DEF CarryInv, Remembered
  <2> QED BY <1>5, <2>1, <2>2 DEF Remembered
<1> QED BY <1>3, <1>4, <1>6 DEF CarryInv

(* Every edit of an operator is one.                                       *)
LEMMA OperatorStep ==
    ASSUME CarryInv, NEW i \in Instances, Operator(i)
    PROVE  CarryInv'
<1>1. Edit(i)
  BY DEF Operator, create_target, update_target, delete_target, write_spec, delete_spec,
         import_export
<1>2. UNCHANGED spec \/ \E rows : spec' = [spec EXCEPT ![i] = rows]
  BY DEF Operator, create_target, update_target, delete_target, write_spec, delete_spec,
         import_export, import_config
<1>3. DOMAIN spec' = Instances /\ \A j \in Instances \ {i} : spec'[j] = spec[j]
  BY <1>2 DEF CarryInv, Shapes
<1> QED BY <1>1, <1>3, EditStep

(* While the pulls and pushes of a process do not overlap, every step      *)
(* keeps what it remembers.                                                *)
LEMMA CarryStep ==
    ASSUME Overlap = FALSE
    PROVE  CarryInv /\ [ConfigNext]_ConfigVars => CarryInv'
<1> SUFFICES ASSUME CarryInv, [ConfigNext]_ConfigVars PROVE CarryInv'
  OBVIOUS
<1>1. ASSUME UNCHANGED <<spec, synced, carried, unseen, puller, pusher>> PROVE CarryInv'
  BY <1>1 DEF CarryInv, Shapes, OneAtATime, Pushing, Remembered
<1>2. CASE UNCHANGED ConfigVars
  BY <1>1, <1>2 DEF ConfigVars
<1>3. ASSUME NEW i \in Instances, pull(i) \/ apply(i) \/ \E reachable \in BOOLEAN : load_from_env(i, reachable)
      PROVE  CarryInv'
  BY <1>3, PullSteps
<1>4. ASSUME NEW i \in Instances, NEW th \in Threads,
             \/ start_push(i, th) \/ settle(i, th) \/ compare(i, th) \/ mark(i, th)
             \/ \E accepted \in BOOLEAN : put_object(i, th, accepted)
      PROVE  CarryInv'
  BY <1>4, PushSteps
<1>5. ASSUME NEW i \in Instances, Operator(i) PROVE CarryInv'
  BY <1>5, OperatorStep
<1>6. ASSUME NEW i \in Instances, NEW p \in Packs, index_pack(i, p) PROVE CarryInv'
  BY <1>1, <1>6 DEF index_pack, Rows, Memory
<1>7. ASSUME NEW i \in Instances, restart(i) PROVE CarryInv'
  BY <1>7, RestartStep
<1> QED BY <1>2, <1>3, <1>4, <1>5, <1>6, <1>7 DEF ConfigNext

(* A spec that pull() could not apply is in every copy push() writes until *)
(* the instance has had the spec, as long as the pulls and pushes of one   *)
(* process do not overlap.                                                 *)
THEOREM PulledSpecsKept ==
    ASSUME Overlap = FALSE
    PROVE  ConfigSpec => CarriedKept
<1> DEFINE Kept == \A i \in Instances, th \in Threads :
                     pusher[i][th].pc = "put" /\ pusher'[i][th].pc = "mark"
                         => unseen[i] \subseteq DOMAIN copy'.specs
<1>1. CarryInv /\ [ConfigNext]_ConfigVars => [Kept]_ConfigVars
  <2> SUFFICES ASSUME CarryInv, [ConfigNext]_ConfigVars, NEW i \in Instances, NEW th \in Threads,
                      pusher[i][th].pc = "put", pusher'[i][th].pc = "mark"
               PROVE  unseen[i] \subseteq DOMAIN copy'.specs
    OBVIOUS
  <2>1. DOMAIN pusher = Instances /\ \A j \in Instances : DOMAIN pusher[j] = Threads
    BY DEF CarryInv, Shapes
  <2>2. ~UNCHANGED pusher
    OBVIOUS
  <2>3. ASSUME NEW j \in Instances, NEW uh \in Threads,
               \E p : pusher' = [pusher EXCEPT ![j][uh] = p]
        PROVE  j = i /\ uh = th
    BY <2>1, <2>3
  <2>4. ASSUME NEW j \in Instances PROVE ~restart(j)
    BY <2>1 DEF restart, IdlePush
  <2>5. ASSUME NEW j \in Instances
        PROVE  /\ ~pull(j) /\ ~apply(j) /\ \A reachable \in BOOLEAN : ~load_from_env(j, reachable)
               /\ ~Operator(j) /\ \A p \in Packs : ~index_pack(j, p)
    BY <2>2 DEF pull, apply, load_from_env, index_pack, Operator, create_target, update_target,
                delete_target, write_spec, delete_spec, import_export, Edit
  <2>6. ASSUME NEW j \in Instances, NEW uh \in Threads
        PROVE  ~start_push(j, uh) /\ ~settle(j, uh) /\ ~compare(j, uh) /\ ~mark(j, uh)
    <3>1. start_push(j, uh) \/ settle(j, uh) \/ compare(j, uh) \/ mark(j, uh)
            => j = i /\ uh = th
      BY <2>3 DEF start_push, settle, compare, mark
    <3> QED BY <3>1 DEF start_push, settle, compare, mark
  <2>7. \E accepted \in BOOLEAN : put_object(i, th, accepted)
    <3>1. PICK j \in Instances, uh \in Threads, accepted \in BOOLEAN : put_object(j, uh, accepted)
      BY <2>2, <2>4, <2>5, <2>6 DEF ConfigNext, ConfigVars
    <3>2. j = i /\ uh = th
      BY <2>3, <3>1 DEF put_object
    <3> QED BY <3>1, <3>2
  <2>8. copy' = pusher[i][th].doc
    BY <2>1, <2>7 DEF put_object, IdlePush
  <2> QED BY <2>8 DEF CarryInv, Remembered
<1>2. ConfigSpec => []CarryInv
  BY CarryStarts, CarryStep, PTL DEF ConfigSpec
<1>3. ConfigSpec => [][Kept]_ConfigVars
  BY <1>1, <1>2, PTL DEF ConfigSpec
<1> QED BY <1>3 DEF CarriedKept

(* At most one instance writes the copy, and None is not a document.       *)
OneWriter == \A i, j \in Writers : i = j
NoDocument ==
    \A key, secrets, targets, specs :
        [key |-> key, secrets |-> secrets, targets |-> targets, specs |-> specs] # Nothing

(* A writer that is not between the write and its note has noted the copy  *)
(* or nothing.                                                             *)
Noted(i) ==
    /\ puller[i].pc = "apply" => puller[i].doc = copy
    /\ \A th \in Threads : pusher[i][th].pc = "mark" => pusher[i][th].doc = copy
    /\ (\A th \in Threads : pusher[i][th].pc # "mark") => synced[i] \in {Nothing, copy}

SyncInv == CarryInv /\ \A i \in Writers : Noted(i)

(* A process that starts has noted nothing.                                *)
LEMMA SyncStarts == ConfigInit => SyncInv
<1> SUFFICES ASSUME ConfigInit PROVE SyncInv
  OBVIOUS
<1>1. CarryInv
  BY CarryStarts
<1>2. ASSUME NEW i \in Writers PROVE Noted(i)
  BY ConfigAssumption DEF ConfigInit, IdlePush, IdlePull, Noted
<1> QED BY <1>1, <1>2 DEF SyncInv

(* The copy changes only when a push writes it.                            *)
LEMMA SyncStep ==
    ASSUME Overlap = FALSE, OneWriter
    PROVE  SyncInv /\ [ConfigNext]_ConfigVars => SyncInv'
<1> SUFFICES ASSUME SyncInv, [ConfigNext]_ConfigVars, NEW w \in Writers PROVE Noted(w)'
  BY CarryStep DEF SyncInv
<1>1. /\ w \in Instances /\ Noted(w)
      /\ DOMAIN synced = Instances /\ DOMAIN puller = Instances /\ DOMAIN pusher = Instances
      /\ \A j \in Instances : DOMAIN pusher[j] = Threads
      /\ \A j \in Instances, th \in Threads : DOMAIN pusher[j][th] = PushDomain
  BY ConfigAssumption DEF SyncInv, CarryInv, Shapes
<1>2. ASSUME UNCHANGED copy, puller'[w] = puller[w], pusher'[w] = pusher[w], synced'[w] = synced[w]
      PROVE  Noted(w)'
  BY <1>1, <1>2 DEF Noted
<1>3. CASE UNCHANGED ConfigVars
  BY <1>2, <1>3 DEF ConfigVars
<1>4. ASSUME NEW i \in Instances, pull(i) PROVE Noted(w)'
  <2>1. /\ UNCHANGED <<copy, pusher, synced>>
        /\ puller' = [puller EXCEPT ![i] = [pc |-> "apply", doc |-> copy]]
    BY <1>4 DEF pull, Memory
  <2>2. puller'[w] = puller[w] \/ puller'[w].doc = copy
    BY <1>1, <2>1
  <2> QED BY <1>1, <2>1, <2>2 DEF Noted
<1>5. ASSUME NEW i \in Instances, NEW doc, absorb(i, doc), i = w => doc = copy,
             UNCHANGED <<copy, pusher>>, puller' = [puller EXCEPT ![i] = IdlePull]
      PROVE  Noted(w)'
  <2>1. /\ puller'[w] = IF w = i THEN IdlePull ELSE puller[w]
        /\ synced'[w] = IF w = i THEN doc ELSE synced[w]
    BY <1>1, <1>5 DEF absorb
  <2>2. IdlePull.pc = "idle"
    BY DEF IdlePull
  <2> QED BY <1>1, <1>5, <2>1, <2>2 DEF Noted
<1>6. ASSUME NEW i \in Instances, apply(i) PROVE Noted(w)'
  <2>1. i = w => puller[i].doc = copy
    BY <1>1, <1>6 DEF apply, Noted
  <2> QED BY <1>5, <1>6, <2>1 DEF apply
<1>7. ASSUME NEW i \in Instances, NEW reachable \in BOOLEAN, load_from_env(i, reachable)
      PROVE  Noted(w)'
  <2>1. UNCHANGED <<copy, pusher>> /\ puller' = [puller EXCEPT ![i] = IdlePull]
    BY <1>7 DEF load_from_env
  <2>2. CASE absorb(i, copy)
    BY <1>5, <2>1, <2>2
  <2>3. CASE UNCHANGED <<Rows, Memory>>
    <3>1. puller'[w] = IF w = i THEN IdlePull ELSE puller[w]
      BY <1>1, <2>1
    <3>2. synced' = synced /\ IdlePull.pc = "idle"
      BY <2>3 DEF Memory, IdlePull
    <3> QED BY <1>1, <2>1, <3>1, <3>2 DEF Noted
  <2> QED BY <1>7, <2>2, <2>3 DEF load_from_env
<1>8. ASSUME NEW i \in Instances, NEW th \in Threads, NEW p,
             UNCHANGED <<copy, puller, synced>>, pusher' = [pusher EXCEPT ![i][th] = p],
             p.pc # "mark", pusher[i][th].pc # "mark"
      PROVE  Noted(w)'
  <2>1. \A uh \in Threads :
          pusher'[w][uh] = IF w = i /\ uh = th THEN p ELSE pusher[w][uh]
    BY <1>1, <1>8
  <2> QED BY <1>1, <1>8, <2>1 DEF Noted
<1>9. ASSUME NEW i \in Instances, NEW th \in Threads,
             start_push(i, th) \/ settle(i, th) \/ compare(i, th)
      PROVE  Noted(w)'
  <2>1. CASE start_push(i, th)
    <3> DEFINE p == read(i, IF th = "loop" THEN "look" ELSE "settle")
    <3>1. p.pc \in {"look", "settle"}
      BY DEF read
    <3> HIDE DEF p
    <3> QED BY <1>8, <2>1, <3>1 DEF start_push, Memory, p
  <2>2. CASE settle(i, th)
    <3> DEFINE q == pusher[i][th]
               p == [pc |-> IF q.pc = "look" THEN "compare" ELSE "put",
                     doc |-> [q.doc EXCEPT !.specs = Over(kept(q), @)], rows |-> NoRows]
    <3>1. p.pc \in {"compare", "put"}
      OBVIOUS
    <3>2. pusher' = [pusher EXCEPT ![i][th] = p] /\ UNCHANGED <<copy, puller, synced>>
          /\ q.pc # "mark"
      BY <2>2 DEF settle
    <3> HIDE DEF p
    <3> QED BY <1>8, <3>1, <3>2
  <2>3. CASE compare(i, th)
    <3> DEFINE p == IF synced[i] = pusher[i][th].doc THEN IdlePush ELSE read(i, "settle")
    <3>1. p.pc \in {"idle", "settle"}
      BY DEF read, IdlePush
    <3>2. pusher' = [pusher EXCEPT ![i][th] = p] /\ UNCHANGED <<copy, puller, synced>>
          /\ pusher[i][th].pc # "mark"
      BY <1>1, <2>3 DEF compare, Memory
    <3> HIDE DEF p
    <3> QED BY <1>8, <3>1, <3>2
  <2> QED BY <1>9, <2>1, <2>2, <2>3
<1>10. ASSUME NEW i \in Instances, NEW th \in Threads, NEW accepted \in BOOLEAN,
              put_object(i, th, accepted)
       PROVE  Noted(w)'
  <2>1. CASE ~accepted
    <3>1. pusher' = [pusher EXCEPT ![i][th] = IdlePush] /\ UNCHANGED <<copy, puller, synced>>
          /\ pusher[i][th].pc # "mark"
      BY <1>1, <1>10, <2>1 DEF put_object, Memory
    <3>2. IdlePush.pc # "mark"
      BY DEF IdlePush
    <3> QED BY <1>8, <3>1, <3>2
  <2>2. CASE accepted
    <3>1. /\ pusher[i][th].pc = "put" /\ copy' = pusher[i][th].doc
          /\ pusher' = [pusher EXCEPT ![i][th] = [pusher[i][th] EXCEPT !.pc = "mark"]]
          /\ UNCHANGED <<puller, synced>>
      BY <1>1, <1>10, <2>2 DEF put_object, Memory
    <3>2. /\ puller[i].pc = "idle" /\ i = w
          /\ \A uh \in Threads \ {th} : pusher[i][uh].pc = "idle"
      BY <3>1 DEF SyncInv, CarryInv, OneAtATime, Pushing, OneWriter
    <3>3. /\ pusher'[w][th].pc = "mark" /\ pusher'[w][th].doc = copy'
          /\ \A uh \in Threads \ {th} : pusher'[w][uh].pc = "idle"
      BY <1>1, <3>1, <3>2 DEF PushDomain
    <3> QED BY <3>1, <3>2, <3>3 DEF Noted
  <2> QED BY <2>1, <2>2
<1>11. ASSUME NEW i \in Instances, NEW th \in Threads, mark(i, th) PROVE Noted(w)'
  <2>1. /\ pusher[i][th].pc = "mark" /\ pusher' = [pusher EXCEPT ![i][th] = IdlePush]
        /\ synced' = [synced EXCEPT ![i] = pusher[i][th].doc] /\ UNCHANGED <<copy, puller>>
    BY <1>11 DEF mark, pushed
  <2>2. i = w
    BY <2>1 DEF SyncInv, CarryInv, OneAtATime, Pushing, OneWriter
  <2>3. synced'[w] = copy
    BY <1>1, <2>1, <2>2 DEF Noted
  <2>4. \A uh \in Threads : pusher'[w][uh] = IF uh = th THEN IdlePush ELSE pusher[w][uh]
    BY <1>1, <2>1, <2>2
  <2>5. IdlePush.pc = "idle"
    BY DEF IdlePush
  <2> QED BY <1>1, <2>1, <2>3, <2>4, <2>5 DEF Noted
<1>12. ASSUME NEW i \in Instances, Operator(i) PROVE Noted(w)'
  <2>1. Edit(i)
    BY <1>12 DEF Operator, create_target, update_target, delete_target, write_spec, delete_spec,
                 import_export
  <2> QED BY <1>2, <2>1 DEF Edit
<1>13. ASSUME NEW i \in Instances, NEW p \in Packs, index_pack(i, p) PROVE Noted(w)'
  BY <1>2, <1>13 DEF index_pack, Memory
<1>14. ASSUME NEW i \in Instances, restart(i) PROVE Noted(w)'
  <2>1. CASE i # w
    <3>1. /\ puller'[w] = puller[w] /\ pusher'[w] = pusher[w] /\ synced'[w] = synced[w]
          /\ UNCHANGED copy
      BY <1>1, <1>14, <2>1 DEF restart
    <3> QED BY <1>2, <3>1
  <2>2. CASE i = w
    <3>1. /\ synced'[w] = Nothing /\ puller'[w].pc = "boot"
          /\ \A th \in Threads : pusher'[w][th].pc = "idle"
      BY <1>1, <1>14, <2>2 DEF restart, IdlePush, IdlePull
    <3> QED BY <3>1 DEF Noted
  <2> QED BY <2>1, <2>2
<1> QED BY <1>3, <1>4, <1>6, <1>7, <1>9, <1>10, <1>11, <1>12, <1>13, <1>14 DEF ConfigNext

(* When the only writer takes its configuration for synced and has nothing *)
(* in progress, the copy in the bucket says what it has: maybe_push never  *)
(* rests behind.                                                           *)
THEOREM CopyNotBehind ==
    ASSUME Overlap = FALSE, OneWriter, NoDocument
    PROVE  ConfigSpec => []NeverRestsBehind
<1>1. SyncInv => NeverRestsBehind
  <2> SUFFICES ASSUME SyncInv, NEW i \in Writers, Quiet(i), synced[i] = Document(i)
               PROVE  copy = Document(i)
    BY DEF NeverRestsBehind
  <2>1. synced[i] \in {Nothing, copy}
    BY DEF SyncInv, Noted, Quiet
  <2>2. Document(i) # Nothing
    <3>1. Document(i) = [key |-> KeyOf[i], secrets |-> TRUE, targets |-> target[i],
                         specs |-> Over(spec[i], carried[i])]
      BY DEF Document, export_config
    <3> QED BY <3>1 DEF NoDocument
  <2> QED BY <2>1, <2>2
<1>2. ConfigSpec => []SyncInv
  BY SyncStarts, SyncStep, PTL DEF ConfigSpec
<1> QED BY <1>1, <1>2, PTL


=============================================================================
