------------------------------ MODULE Accounts ------------------------------
(***************************************************************************)
(* The accounts of the management API: registration, login, sessions, the  *)
(* account page (user_api.cpp, session.cpp) and the administration of      *)
(* users (user_admin_api.cpp), on the tables users and sessions.           *)
(*                                                                         *)
(* A handler serves one request, on any process, with one action per store *)
(* operation.  A session is named by the handler that opened it and a      *)
(* password by the handler whose request chose it: both are fresh.  Names, *)
(* balances and tokens of users are left out.                              *)
(***************************************************************************)
EXTENDS Integers, FiniteSets

CONSTANTS Handlers,    \* the requests
          None,        \* no session, no password
          MaxUsers     \* bound on the users created

ASSUME AccountsAssumption == None \notin Handlers /\ MaxUsers \in Nat

VARIABLES
    exists,      \* users: the ids that have a row
    row,         \* role, status and password_hash of a row
    created,     \* the last id given by auto_increment
    sessions,    \* sessions: the user of a session; 0 is no row
    pc,          \* "new", "user", "act", "create", "open", "write",
                 \* "close", "erase"; "done" and "refused" are answers
    kind,        \* what the request asks for
    cookie,      \* the session whose cookie it carries
    actor,       \* the user it is authenticated as
    copy,        \* the row it works on, with the id
    granted      \* history: the users that were ever made root

tables == <<exists, row, created, sessions>>
locals == <<kind, cookie, actor, copy>>
vars == <<tables, pc, locals, granted>>

Ids == 1..MaxUsers

Account(role, status, password) ==
    [role |-> role, status |-> status, password |-> password]

NoCopy == [id |-> 0, account |-> Account("user", 0, None)]

Init ==
    /\ exists = {}
    /\ row = [u \in Ids |-> Account("user", 0, None)]
    /\ created = 0
    /\ sessions = [s \in Handlers |-> 0]
    /\ pc = [h \in Handlers |-> "new"]
    /\ kind = [h \in Handlers |-> "none"]
    /\ cookie = [h \in Handlers |-> None]
    /\ actor = [h \in Handlers |-> 0]
    /\ copy = [h \in Handlers |-> NoCopy]
    /\ granted = {}

Goto(h, l) == pc' = [pc EXCEPT ![h] = l]

(* The row of u goes into the handler's copy.                              *)
Fetch(h, u) == copy' = [copy EXCEPT ![h] = [id |-> u, account |-> row[u]]]

-----------------------------------------------------------------------------
(* Registration and login.                                                 *)

(* register_response counts the users: the first one becomes root.         *)
RegisterCount(h) ==
    /\ pc[h] = "new"
    /\ kind' = [kind EXCEPT ![h] = "register"]
    /\ copy' = [copy EXCEPT ![h].account =
                  Account(IF exists = {} THEN "root" ELSE "user", 1, h)]
    /\ Goto(h, "create")
    /\ UNCHANGED <<tables, cookie, actor, granted>>

(* create_user: for a registration, which goes on to open a session, and   *)
(* for an administrator.                                                   *)
CreateUser(h) ==
    /\ pc[h] = "create" /\ created < MaxUsers
    /\ created' = created + 1
    /\ exists' = exists \cup {created'}
    /\ row' = [row EXCEPT ![created'] = copy[h].account]
    /\ copy' = [copy EXCEPT ![h].id = created']
    /\ granted' = IF copy[h].account.role = "root" THEN granted \cup {created'} ELSE granted
    /\ Goto(h, IF kind[h] = "register" THEN "open" ELSE "done")
    /\ UNCHANGED <<sessions, kind, cookie, actor>>

(* login_response finds an enabled user and the password is right.         *)
Login(h) ==
    /\ pc[h] = "new"
    /\ \E u \in exists : row[u].status = 1 /\ Fetch(h, u)
    /\ kind' = [kind EXCEPT ![h] = "login"]
    /\ Goto(h, "open")
    /\ UNCHANGED <<tables, cookie, actor, granted>>

OpenSession(h) ==
    /\ pc[h] = "open"
    /\ sessions' = [sessions EXCEPT ![h] = copy[h].id]
    /\ Goto(h, "done")
    /\ UNCHANGED <<exists, row, created, locals, granted>>

-----------------------------------------------------------------------------
(* authenticate_web_session_impl: the session, then its user.              *)

SessionRead(h) ==
    /\ pc[h] = "new"
    /\ \E s \in Handlers :
          /\ sessions[s] # 0
          /\ cookie' = [cookie EXCEPT ![h] = s]
          /\ actor' = [actor EXCEPT ![h] = sessions[s]]
    /\ Goto(h, "user")
    /\ UNCHANGED <<tables, kind, copy, granted>>

SelfService == {"logout", "email", "password"}
Administration == {"edit", "reset", "create", "delete"}

UserRead(h) ==
    /\ pc[h] = "user"
    /\ actor[h] \in exists /\ row[actor[h]].status = 1
    /\ \E k \in SelfService \cup Administration :
          /\ k \in Administration => row[actor[h]].role = "root"
          /\ kind' = [kind EXCEPT ![h] = k]
    /\ Goto(h, "act")
    /\ UNCHANGED <<tables, cookie, actor, copy, granted>>

-----------------------------------------------------------------------------
(* The user's own account.                                                 *)

Logout(h) ==
    /\ pc[h] = "act" /\ kind[h] = "logout"
    /\ sessions' = [sessions EXCEPT ![cookie[h]] = 0]
    /\ Goto(h, "done")
    /\ UNCHANGED <<exists, row, created, locals, granted>>

(* The row is read again, and the old password is right for that row.      *)
AccountRead(h) ==
    /\ pc[h] = "act" /\ kind[h] \in {"email", "password"}
    /\ actor[h] \in exists /\ row[actor[h]].status = 1
    /\ Fetch(h, actor[h])
    /\ Goto(h, "write")
    /\ UNCHANGED <<tables, kind, cookie, actor, granted>>

(* update_user writes every column, from the copy but for what the request *)
(* changes; a row that is gone stays gone and the request is refused.      *)
AccountWrite(h) ==
    /\ pc[h] = "write" /\ kind[h] \in {"email", "password"}
    /\ copy[h].id \in exists
    /\ row' = [row EXCEPT ![copy[h].id] =
                 [copy[h].account EXCEPT !.password = IF kind[h] = "password" THEN h ELSE @]]
    /\ Goto(h, "close")
    /\ UNCHANGED <<exists, created, sessions, locals, granted>>

(* Mutant: the sessions of the user stay.                                  *)
AccountCloseNone(h) ==
    /\ pc[h] = "close" /\ kind[h] \in {"email", "password"}
    /\ Goto(h, "done")
    /\ UNCHANGED <<tables, locals, granted>>

(* delete_all_for_user, and the answer with force_logout.                  *)
AccountClose(h) ==
    /\ pc[h] = "close" /\ kind[h] \in {"email", "password"}
    /\ sessions' = [s \in Handlers |-> IF sessions[s] = actor[h] THEN 0 ELSE sessions[s]]
    /\ Goto(h, "done")
    /\ UNCHANGED <<exists, row, created, locals, granted>>

-----------------------------------------------------------------------------
(* The administration of users.                                            *)

(* Mutant: the administrator's row is fetched for the id of the user.      *)
AdminReadOwn(h) ==
    /\ pc[h] = "act" /\ kind[h] \in {"edit", "reset"}
    /\ \E u \in exists : copy' = [copy EXCEPT ![h] = [id |-> u, account |-> row[actor[h]]]]
    /\ Goto(h, "write")
    /\ UNCHANGED <<tables, kind, cookie, actor, granted>>

AdminRead(h) ==
    /\ pc[h] = "act" /\ kind[h] \in {"edit", "reset"}
    /\ \E u \in exists : Fetch(h, u)
    /\ Goto(h, "write")
    /\ UNCHANGED <<tables, kind, cookie, actor, granted>>

(* Mutant: the handler does not ask whose account it edits.                *)
EditsUnchecked(h) == [role : {"user", "root"}, status : {0, 1}]

(* What the handler lets the request write: not a lower role or status of  *)
(* the administrator's own account.  A top-up leaves both as copied.       *)
Edits(h) ==
    IF copy[h].id = actor[h]
      THEN [role : {copy[h].account.role, "root"}, status : {copy[h].account.status, 1}]
      ELSE [role : {"user", "root"}, status : {0, 1}]

AdminEdit(h) ==
    /\ pc[h] = "write" /\ kind[h] = "edit"
    /\ copy[h].id \in exists
    /\ \E e \in Edits(h) :
          /\ row' = [row EXCEPT ![copy[h].id] =
                       Account(e.role, e.status, copy[h].account.password)]
          /\ granted' = IF e.role = "root" THEN granted \cup {copy[h].id} ELSE granted
    /\ Goto(h, "done")
    /\ UNCHANGED <<exists, created, sessions, locals>>

(* Mutant: the new password goes to the administrator's account.           *)
AdminResetSelf(h) ==
    /\ pc[h] = "write" /\ kind[h] = "reset"
    /\ actor[h] \in exists
    /\ row' = [row EXCEPT ![actor[h]].password = h]
    /\ Goto(h, "done")
    /\ UNCHANGED <<exists, created, sessions, locals, granted>>

(* The sessions of the user stay.                                          *)
AdminReset(h) ==
    /\ pc[h] = "write" /\ kind[h] = "reset"
    /\ copy[h].id \in exists
    /\ row' = [row EXCEPT ![copy[h].id] = [copy[h].account EXCEPT !.password = h]]
    /\ Goto(h, "done")
    /\ UNCHANGED <<exists, created, sessions, locals, granted>>

AdminCreate(h) ==
    /\ pc[h] = "act" /\ kind[h] = "create"
    /\ \E r \in {"user", "root"} :
          copy' = [copy EXCEPT ![h].account = Account(r, 1, h)]
    /\ Goto(h, "create")
    /\ UNCHANGED <<tables, kind, cookie, actor, granted>>

(* delete_user; the sessions go in a statement of their own, the row when  *)
(* the transaction commits.                                                *)
AdminDelete(h) ==
    /\ pc[h] = "act" /\ kind[h] = "delete"
    /\ \E u \in exists \ {actor[h]} : Fetch(h, u)
    /\ Goto(h, "close")
    /\ UNCHANGED <<tables, kind, cookie, actor, granted>>

DeleteSessions(h) ==
    /\ pc[h] = "close" /\ kind[h] = "delete"
    /\ sessions' = [s \in Handlers |-> IF sessions[s] = copy[h].id THEN 0 ELSE sessions[s]]
    /\ Goto(h, "erase")
    /\ UNCHANGED <<exists, row, created, locals, granted>>

DeleteRow(h) ==
    /\ pc[h] = "erase"
    /\ copy[h].id \in exists
    /\ exists' = exists \ {copy[h].id}
    /\ Goto(h, "done")
    /\ UNCHANGED <<row, created, sessions, locals, granted>>

-----------------------------------------------------------------------------
(* A check fails, a row is gone, the database reports an error or the      *)
(* process dies: what was committed stays.                                 *)
Refuse(h) ==
    /\ pc[h] \notin {"done", "refused"}
    /\ Goto(h, "refused")
    /\ UNCHANGED <<tables, locals, granted>>

Step(h) ==
    \/ RegisterCount(h) \/ CreateUser(h) \/ Login(h) \/ OpenSession(h)
    \/ SessionRead(h) \/ UserRead(h)
    \/ Logout(h) \/ AccountRead(h) \/ AccountWrite(h) \/ AccountClose(h)
    \/ AdminRead(h) \/ AdminEdit(h) \/ AdminReset(h) \/ AdminCreate(h)
    \/ AdminDelete(h) \/ DeleteSessions(h) \/ DeleteRow(h)
    \/ Refuse(h)

Next == \E h \in Handlers : Step(h)

Spec == Init /\ [][Next]_vars

-----------------------------------------------------------------------------
(* Properties.                                                             *)

Accounts == [role : {"user", "root"}, status : {0, 1}, password : Handlers \cup {None}]

(* Types; ids are given in order, and never twice.                         *)
TypeOK ==
    /\ created \in 0..MaxUsers
    /\ exists \subseteq 1..created
    /\ row \in [Ids -> Accounts]
    /\ sessions \in [Handlers -> 0..created]
    /\ pc \in [Handlers -> {"new", "user", "act", "create", "open", "write", "close",
                            "erase", "done", "refused"}]
    /\ kind \in [Handlers -> {"none", "register", "login"} \cup SelfService
                             \cup Administration]
    /\ cookie \in [Handlers -> Handlers \cup {None}]
    /\ actor \in [Handlers -> 0..created]
    /\ copy \in [Handlers -> [id : 0..created, account : Accounts]]
    /\ granted \subseteq 1..created

(* As soon as anybody was registered there has been a root user, and one   *)
(* who is the only user that ever was root keeps account, role and status, *)
(* whatever stale copies of rows are written back: the checks on the       *)
(* administrator's own account are enough for that.                        *)
SoleRootStands ==
    /\ created > 0 => granted # {}
    /\ \A u \in granted : granted = {u} =>
          u \in exists /\ row[u].role = "root" /\ row[u].status = 1

(* A stale write may give the role of root back to somebody who lost it,   *)
(* but nobody is root who was not made root.                               *)
PrivilegeWasGranted == \A u \in exists : row[u].role = "root" => u \in granted

(* A password that was chosen for a user is never another user's,          *)
(* although rows are written back as a whole.                              *)
PasswordsStayHome ==
    \A u \in exists, h \in Handlers : row[u].password = h => copy[h].id = u

(* After a logout, or a change of email or password, the session it was    *)
(* done with never works again.                                            *)
LoggedOutStaysOut ==
    \A h \in Handlers :
        pc[h] = "done" /\ kind[h] \in SelfService => sessions[cookie[h]] = 0
=============================================================================
