--------------------------- MODULE AccountsProofs ---------------------------
(***************************************************************************)
(* Theorems about Accounts, for any number of requests and users.          *)
(***************************************************************************)
EXTENDS Accounts, TLAPS

(* Copies of rows are written back, so what holds of rows has to hold of   *)
(* the copies too: a copy of root is of somebody who was made root, and a  *)
(* copy of the only root is one of an enabled root.                        *)
CopyInv(h) ==
    /\ pc[h] = "write" =>
          /\ copy[h].id \in 1..created
          /\ copy[h].account.role = "root" => copy[h].id \in granted
          /\ granted = {copy[h].id} =>
                copy[h].account.role = "root" /\ copy[h].account.status = 1
    /\ pc[h] \in {"write", "close", "erase"} /\ kind[h] \in {"email", "password"} =>
          copy[h].id = actor[h]

(* Whoever administers users was made root; a deletion is never of the     *)
(* administrator's own account.                                            *)
AdminInv(h) ==
    /\ pc[h] \in {"act", "write", "close", "erase"} /\ kind[h] \in Administration =>
          actor[h] \in granted
    /\ pc[h] = "erase" => kind[h] = "delete"
    /\ pc[h] \in {"close", "erase"} /\ kind[h] = "delete" => copy[h].id # actor[h]

(* A registration makes a plain user only when there are users.            *)
CreateInv(h) ==
    pc[h] = "create" =>
        /\ copy[h].account.status = 1
        /\ copy[h].account.role # "root" => created > 0

HandlerInv == \A h \in Handlers : CopyInv(h) /\ AdminInv(h) /\ CreateInv(h)

RootInv == TypeOK /\ HandlerInv /\ SoleRootStands /\ PrivilegeWasGranted

(* A session is there only after the request that opened it has ended, so  *)
(* no request is about to open it again; and it is of the user that was    *)
(* read from it, or gone.                                                  *)
KindInv ==
    \A h \in Handlers :
        /\ pc[h] = "open" => kind[h] \in {"register", "login"}
        /\ pc[h] = "create" => kind[h] \in {"register", "create"}
        /\ pc[h] = "erase" => kind[h] = "delete"

CookieInv ==
    \A h \in Handlers :
        pc[h] = "user" \/ kind[h] \in SelfService =>
            /\ cookie[h] \in Handlers
            /\ pc[cookie[h]] = "done"
            /\ sessions[cookie[h]] \in {0, actor[h]}

OpenedInv == \A s \in Handlers : sessions[s] # 0 => pc[s] = "done"

SessionInv == TypeOK /\ KindInv /\ OpenedInv /\ CookieInv /\ LoggedOutStaysOut

-----------------------------------------------------------------------------
LEMMA TypeInit == Init => TypeOK
  BY AccountsAssumption DEF Init, TypeOK, Account, Accounts, NoCopy, Ids

LEMMA NewPassword ==
    ASSUME NEW a \in Accounts, NEW p \in Handlers \cup {None}
    PROVE  [a EXCEPT !.password = p] \in Accounts
  BY DEF Accounts

LEMMA TypeStep ==
    ASSUME TypeOK, NEW h \in Handlers, Step(h)
    PROVE  TypeOK'
  <1> USE AccountsAssumption DEF TypeOK, Goto, Fetch, tables, locals, Ids,
          Account, Accounts, SelfService, Administration
  <1>1. CASE RegisterCount(h)
    <2> DEFINE fresh == Account(IF exists = {} THEN "root" ELSE "user", 1, h)
               c == [copy[h] EXCEPT !.account = fresh]
    <2>1. fresh \in Accounts
      OBVIOUS
    <2>2. c = [id |-> copy[h].id, account |-> fresh]
      OBVIOUS
    <2>3. c \in [id : 0..created, account : Accounts]
      BY <2>1, <2>2
    <2>4. copy' = [copy EXCEPT ![h] = c]
      BY <1>1 DEF RegisterCount
    <2>5. copy' \in [Handlers -> [id : 0..created, account : Accounts]]
      BY <2>3, <2>4
    <2>6. QED
      BY <1>1, <2>5 DEF RegisterCount
  <1>2. CASE CreateUser(h)
    <2>1. created' \in 0..MaxUsers /\ created' = created + 1
      BY <1>2 DEF CreateUser
    <2>2. exists' \subseteq 1..created' /\ granted' \subseteq 1..created'
      BY <1>2, <2>1 DEF CreateUser
    <2>3. row' \in [Ids -> Accounts]
      BY <1>2 DEF CreateUser
    <2> DEFINE Copies == [id : 0..created', account : Accounts]
               c == [id |-> created', account |-> copy[h].account]
    <2>4. copy' \in [Handlers -> Copies]
      <3>1. c \in Copies
        BY <2>1
      <3>2. copy \in [Handlers -> Copies]
        BY <2>1
      <3>3. copy' = [copy EXCEPT ![h] = c]
        <4>1. [copy[h] EXCEPT !.id = created'] = c
          OBVIOUS
        <4>2. QED
          BY <1>2, <4>1 DEF CreateUser
      <3>4. QED
        BY <3>1, <3>2, <3>3
    <2>5. sessions' \in [Handlers -> 0..created'] /\ actor' \in [Handlers -> 0..created']
      BY <1>2, <2>1 DEF CreateUser
    <2>6. QED
      BY <1>2, <2>1, <2>2, <2>3, <2>4, <2>5 DEF CreateUser
  <1>3. CASE Login(h)
    BY <1>3 DEF Login
  <1>4. CASE OpenSession(h)
    BY <1>4 DEF OpenSession
  <1>5. CASE SessionRead(h)
    BY <1>5 DEF SessionRead
  <1>6. CASE UserRead(h)
    BY <1>6 DEF UserRead
  <1>7. CASE Logout(h)
    <2>1. sessions' \in [Handlers -> 0..created]
      <3>1. sessions' = [sessions EXCEPT ![cookie[h]] = 0] /\ 0 \in 0..created
        BY <1>7 DEF Logout
      <3> HIDE DEF TypeOK
      <3>2. sessions \in [Handlers -> 0..created]
        BY DEF TypeOK
      <3>3. QED
        BY <3>1, <3>2
    <2>2. QED
      BY <1>7, <2>1 DEF Logout
  <1>8. CASE AccountRead(h)
    BY <1>8 DEF AccountRead
  <1>9. CASE AccountWrite(h)
    <2> DEFINE a == copy[h].account
               p == IF kind[h] = "password" THEN h ELSE a.password
    <2>1. [a EXCEPT !.password = p] \in Accounts
      <3>1. a \in Accounts /\ p \in Handlers \cup {None}
        OBVIOUS
      <3> HIDE DEF a, p, Accounts
      <3>2. QED
        BY <3>1, NewPassword
    <2>2. row' \in [Ids -> Accounts]
      BY <1>9, <2>1 DEF AccountWrite
    <2>3. QED
      BY <1>9, <2>2 DEF AccountWrite
  <1>10. CASE AccountClose(h)
    <2>1. sessions' \in [Handlers -> 0..created]
      BY <1>10 DEF AccountClose
    <2>2. QED
      BY <1>10, <2>1 DEF AccountClose
  <1>11. CASE AdminRead(h)
    BY <1>11 DEF AdminRead
  <1>12. CASE AdminEdit(h)
    <2>1. PICK e \in Edits(h) :
            /\ row' = [row EXCEPT ![copy[h].id] =
                         Account(e.role, e.status, copy[h].account.password)]
            /\ granted' = IF e.role = "root" THEN granted \cup {copy[h].id} ELSE granted
      BY <1>12 DEF AdminEdit
    <2>2. e.role \in {"user", "root"} /\ e.status \in {0, 1}
      BY DEF Edits
    <2>3. row' \in [Ids -> Accounts]
      BY <2>1, <2>2
    <2>4. granted' \subseteq 1..created
      BY <1>12, <2>1 DEF AdminEdit
    <2>5. QED
      BY <1>12, <2>3, <2>4 DEF AdminEdit
  <1>13. CASE AdminReset(h)
    <2> DEFINE a == copy[h].account
    <2>1. [a EXCEPT !.password = h] \in Accounts
      <3>1. a \in Accounts
        OBVIOUS
      <3> HIDE DEF a, Accounts
      <3>2. QED
        BY <3>1, NewPassword
    <2>2. row' \in [Ids -> Accounts]
      BY <1>13, <2>1 DEF AdminReset
    <2>3. QED
      BY <1>13, <2>2 DEF AdminReset
  <1>14. CASE AdminCreate(h)
    <2>1. PICK r \in {"user", "root"} :
            copy' = [copy EXCEPT ![h].account = Account(r, 1, h)]
      BY <1>14 DEF AdminCreate
    <2> DEFINE fresh == Account(r, 1, h)
               c == [copy[h] EXCEPT !.account = fresh]
    <2>2. fresh \in Accounts
      OBVIOUS
    <2>3. c = [id |-> copy[h].id, account |-> fresh]
      OBVIOUS
    <2>4. c \in [id : 0..created, account : Accounts]
      BY <2>2, <2>3
    <2>5. copy' = [copy EXCEPT ![h] = c]
      BY <2>1
    <2>6. copy' \in [Handlers -> [id : 0..created, account : Accounts]]
      BY <2>4, <2>5
    <2>7. QED
      BY <1>14, <2>6 DEF AdminCreate
  <1>15. CASE AdminDelete(h)
    BY <1>15 DEF AdminDelete
  <1>16. CASE DeleteSessions(h)
    BY <1>16 DEF DeleteSessions
  <1>17. CASE DeleteRow(h)
    BY <1>17 DEF DeleteRow
  <1>18. CASE Refuse(h)
    BY <1>18 DEF Refuse
  <1>19. QED
    BY <1>1, <1>2, <1>3, <1>4, <1>5, <1>6, <1>7, <1>8, <1>9, <1>10, <1>11, <1>12,
       <1>13, <1>14, <1>15, <1>16, <1>17, <1>18 DEF Step

-----------------------------------------------------------------------------
(* A step of one request leaves the others' variables alone.               *)
LEMMA Frame ==
    ASSUME TypeOK, NEW h \in Handlers, Step(h), NEW g \in Handlers, g # h
    PROVE  /\ pc'[g] = pc[g] /\ kind'[g] = kind[g]
           /\ actor'[g] = actor[g] /\ copy'[g] = copy[g]
  <1> USE DEF TypeOK, Goto, Fetch, locals
  <1>1. pc'[g] = pc[g]
    BY DEF Step, RegisterCount, CreateUser, Login, OpenSession, SessionRead, UserRead,
           Logout, AccountRead, AccountWrite, AccountClose, AdminRead, AdminEdit,
           AdminReset, AdminCreate, AdminDelete, DeleteSessions, DeleteRow, Refuse
  <1>2. kind'[g] = kind[g]
    BY DEF Step, RegisterCount, CreateUser, Login, OpenSession, SessionRead, UserRead,
           Logout, AccountRead, AccountWrite, AccountClose, AdminRead, AdminEdit,
           AdminReset, AdminCreate, AdminDelete, DeleteSessions, DeleteRow, Refuse
  <1>3. actor'[g] = actor[g]
    BY DEF Step, RegisterCount, CreateUser, Login, OpenSession, SessionRead, UserRead,
           Logout, AccountRead, AccountWrite, AccountClose, AdminRead, AdminEdit,
           AdminReset, AdminCreate, AdminDelete, DeleteSessions, DeleteRow, Refuse
  <1>4. copy'[g] = copy[g]
    BY DEF Step, RegisterCount, CreateUser, Login, OpenSession, SessionRead, UserRead,
           Logout, AccountRead, AccountWrite, AccountClose, AdminRead, AdminEdit,
           AdminReset, AdminCreate, AdminDelete, DeleteSessions, DeleteRow, Refuse
  <1>5. QED
    BY <1>1, <1>2, <1>3, <1>4

(* The history of roots only grows, and never to a single old user: the    *)
(* administrator who makes somebody root is in it already.                 *)
LEMMA GrantedGrows ==
    ASSUME RootInv, NEW h \in Handlers, Step(h)
    PROVE  /\ created <= created'
           /\ granted \subseteq granted'
           /\ \A u \in 1..created : granted' = {u} => granted = {u}
  <1>1. created \in Nat /\ MaxUsers \in Nat
    BY AccountsAssumption DEF RootInv, TypeOK
  <1>2. CASE CreateUser(h)
    <2>1. created' = created + 1
      BY <1>2 DEF CreateUser
    <2>2. granted' = granted \/ granted' = granted \cup {created'}
      BY <1>2 DEF CreateUser
    <2>3. QED
      BY <1>1, <2>1, <2>2
  <1>3. CASE AdminEdit(h)
    <2>1. actor[h] \in granted
      BY <1>3 DEF AdminEdit, RootInv, HandlerInv, AdminInv, Administration
    <2>2. granted' = granted \/ granted' = granted \cup {copy[h].id}
      BY <1>3 DEF AdminEdit
    <2>3. created' = created
      BY <1>3 DEF AdminEdit
    <2>4. QED
      BY <1>1, <2>1, <2>2, <2>3
  <1>4. CASE ~CreateUser(h) /\ ~AdminEdit(h)
    <2>1. created' = created /\ granted' = granted
      BY <1>4 DEF Step, RegisterCount, Login, OpenSession, SessionRead, UserRead,
           Logout, AccountRead, AccountWrite, AccountClose, AdminRead,
           AdminReset, AdminCreate, AdminDelete, DeleteSessions, DeleteRow, Refuse,
           tables
    <2>2. QED
      BY <1>1, <2>1
  <1>5. QED
    BY <1>2, <1>3, <1>4

LEMMA OthersStep ==
    ASSUME RootInv, NEW h \in Handlers, Step(h), NEW g \in Handlers, g # h
    PROVE  CopyInv(g)' /\ AdminInv(g)' /\ CreateInv(g)'
  <1>1. /\ pc'[g] = pc[g] /\ kind'[g] = kind[g]
        /\ actor'[g] = actor[g] /\ copy'[g] = copy[g]
    BY Frame DEF RootInv
  <1>2. /\ created <= created'
        /\ granted \subseteq granted'
        /\ \A u \in 1..created : granted' = {u} => granted = {u}
    BY GrantedGrows
  <1>3. CopyInv(g) /\ AdminInv(g) /\ CreateInv(g)
    BY DEF RootInv, HandlerInv
  <1>4. created \in Nat /\ created' \in Nat
    <2>1. TypeOK'
      BY TypeStep DEF RootInv
    <2>2. QED
      BY <2>1, AccountsAssumption DEF RootInv, TypeOK
  <1>5. CopyInv(g)'
    BY <1>1, <1>2, <1>3, <1>4 DEF CopyInv
  <1>6. AdminInv(g)'
    BY <1>1, <1>2, <1>3 DEF AdminInv
  <1>7. CreateInv(g)'
    BY <1>1, <1>2, <1>3, <1>4 DEF CreateInv
  <1>8. QED
    BY <1>5, <1>6, <1>7

(* The copy a request makes of a row is what the row is at that moment.    *)
LEMMA FetchGood ==
    ASSUME RootInv, NEW h \in Handlers, NEW u \in exists, Fetch(h, u),
           created' = created, granted' = granted
    PROVE  /\ copy'[h].id = u /\ copy'[h].id \in 1..created'
           /\ copy'[h].account.role = "root" => copy'[h].id \in granted'
           /\ granted' = {copy'[h].id} =>
                 copy'[h].account.role = "root" /\ copy'[h].account.status = 1
  <1>1. copy'[h] = [id |-> u, account |-> row[u]]
    BY DEF Fetch, RootInv, TypeOK
  <1>2. copy'[h].id = u /\ copy'[h].account = row[u]
    BY <1>1
  <1>3. u \in 1..created
    BY DEF RootInv, TypeOK
  <1>4. QED
    BY <1>2, <1>3 DEF RootInv, SoleRootStands, PrivilegeWasGranted

(* What a step of a request makes true of the request itself.              *)
LEMMA OwnStep ==
    ASSUME RootInv, NEW h \in Handlers, Step(h)
    PROVE  CopyInv(h)' /\ AdminInv(h)' /\ CreateInv(h)'
  <1> USE DEF Goto
  <1>1. CopyInv(h) /\ AdminInv(h) /\ CreateInv(h)
    BY DEF RootInv, HandlerInv
  <1>2. TypeOK
    BY DEF RootInv
  <1>3. CASE RegisterCount(h)
    <2>1. pc'[h] = "create" /\ created' = created
      <3>1. pc' = [pc EXCEPT ![h] = "create"] /\ created' = created
        BY <1>3 DEF RegisterCount, tables
      <3>2. QED
        BY <1>2, <3>1 DEF TypeOK
    <2> DEFINE fresh == Account(IF exists = {} THEN "root" ELSE "user", 1, h)
    <2>2. copy'[h].account = fresh
      <3>1. copy' = [copy EXCEPT ![h].account = fresh]
        BY <1>3 DEF RegisterCount
      <3> HIDE DEF fresh
      <3>2. copy'[h] = [copy[h] EXCEPT !.account = fresh]
        BY <1>2, <3>1 DEF TypeOK
      <3>3. copy[h] = [id |-> copy[h].id, account |-> copy[h].account]
        BY <1>2 DEF TypeOK
      <3>4. QED
        BY <3>2, <3>3
    <2>3. exists # {} => created > 0
      <3>1. exists \subseteq 1..created /\ created \in Nat
        BY <1>2, AccountsAssumption DEF TypeOK
      <3>2. \A u \in exists : created > 0
        BY <3>1
      <3>3. QED
        BY <3>2
    <2>4. CreateInv(h)'
      BY <2>1, <2>2, <2>3 DEF CreateInv, Account
    <2>5. QED
      BY <2>1, <2>4 DEF CopyInv, AdminInv
  <1>4. CASE AdminCreate(h)
    <2>1. pc'[h] = "create" /\ created' = created
      BY <1>2, <1>4 DEF AdminCreate, TypeOK, tables
    <2>2. PICK r \in {"user", "root"} :
            copy' = [copy EXCEPT ![h].account = Account(r, 1, h)]
      BY <1>4 DEF AdminCreate
    <2>3. copy'[h].account = Account(r, 1, h)
      BY <1>2, <2>2 DEF TypeOK
    <2>4. actor[h] \in granted
      BY <1>1, <1>4 DEF AdminCreate, AdminInv, Administration
    <2>5. created > 0
      BY <1>2, <2>4, AccountsAssumption DEF TypeOK
    <2>6. CreateInv(h)'
      BY <2>1, <2>3, <2>5 DEF CreateInv, Account
    <2>7. QED
      BY <2>1, <2>6 DEF CopyInv, AdminInv
  <1>5. CASE UserRead(h)
    <2>1. pc'[h] = "act" /\ actor' = actor /\ granted' = granted
      BY <1>2, <1>5 DEF UserRead, TypeOK
    <2>2. kind'[h] \in Administration => row[actor[h]].role = "root"
      BY <1>2, <1>5 DEF UserRead, TypeOK
    <2>3. kind'[h] \in Administration => actor[h] \in granted
      BY <1>5, <2>2 DEF UserRead, RootInv, PrivilegeWasGranted
    <2>4. QED
      BY <2>1, <2>3 DEF CopyInv, AdminInv, CreateInv
  <1>6. CASE AccountRead(h)
    <2>1. pc'[h] = "write" /\ kind' = kind /\ actor' = actor /\ created' = created
          /\ granted' = granted
      BY <1>2, <1>6 DEF AccountRead, TypeOK, tables
    <2>2. kind[h] \in {"email", "password"} /\ actor[h] \in exists /\ Fetch(h, actor[h])
      BY <1>6 DEF AccountRead
    <2>3. /\ copy'[h].id = actor[h] /\ copy'[h].id \in 1..created'
          /\ copy'[h].account.role = "root" => copy'[h].id \in granted'
          /\ granted' = {copy'[h].id} =>
                copy'[h].account.role = "root" /\ copy'[h].account.status = 1
      BY <2>1, <2>2, FetchGood
    <2>4. QED
      BY <2>1, <2>2, <2>3 DEF CopyInv, AdminInv, CreateInv, Administration
  <1>7. CASE AdminRead(h)
    <2>1. pc'[h] = "write" /\ kind' = kind /\ actor' = actor /\ created' = created
          /\ granted' = granted /\ kind[h] \in {"edit", "reset"} /\ pc[h] = "act"
      BY <1>2, <1>7 DEF AdminRead, TypeOK, tables
    <2>2. PICK u \in exists : Fetch(h, u)
      BY <1>7 DEF AdminRead
    <2>3. /\ copy'[h].id \in 1..created'
          /\ copy'[h].account.role = "root" => copy'[h].id \in granted'
          /\ granted' = {copy'[h].id} =>
                copy'[h].account.role = "root" /\ copy'[h].account.status = 1
      BY <2>1, <2>2, FetchGood
    <2>4. QED
      BY <1>1, <2>1, <2>3 DEF CopyInv, AdminInv, CreateInv, Administration
  <1>8. CASE AccountWrite(h)
    <2>1. pc'[h] = "close" /\ UNCHANGED <<kind, actor, copy>> /\ pc[h] = "write"
          /\ kind[h] \in {"email", "password"}
      BY <1>2, <1>8 DEF AccountWrite, TypeOK, locals
    <2>2. QED
      BY <1>1, <2>1 DEF CopyInv, AdminInv, CreateInv, Administration
  <1>9. CASE AdminDelete(h)
    <2>1. pc'[h] = "close" /\ UNCHANGED <<kind, actor, granted>> /\ pc[h] = "act"
          /\ kind[h] = "delete"
      BY <1>2, <1>9 DEF AdminDelete, TypeOK
    <2>2. copy'[h].id # actor[h]
      BY <1>2, <1>9 DEF AdminDelete, Fetch, TypeOK
    <2>3. QED
      BY <1>1, <2>1, <2>2 DEF CopyInv, AdminInv, CreateInv, Administration
  <1>10. CASE DeleteSessions(h)
    <2>1. pc'[h] = "erase" /\ UNCHANGED <<kind, actor, copy, granted>> /\ pc[h] = "close"
          /\ kind[h] = "delete"
      BY <1>2, <1>10 DEF DeleteSessions, TypeOK, locals
    <2>2. QED
      BY <1>1, <2>1 DEF CopyInv, AdminInv, CreateInv, Administration
  <1>11. CASE \/ CreateUser(h) \/ Login(h) \/ OpenSession(h) \/ SessionRead(h) \/ Logout(h)
              \/ AccountClose(h) \/ AdminEdit(h) \/ AdminReset(h) \/ DeleteRow(h) \/ Refuse(h)
    <2>1. pc'[h] \in {"open", "user", "done", "refused"}
      BY <1>2, <1>11 DEF CreateUser, Login, OpenSession, SessionRead, Logout, AccountClose,
                         AdminEdit, AdminReset, DeleteRow, Refuse, TypeOK
    <2>2. QED
      BY <2>1 DEF CopyInv, AdminInv, CreateInv
  <1>12. QED
    BY <1>3, <1>4, <1>5, <1>6, <1>7, <1>8, <1>9, <1>10, <1>11 DEF Step

-----------------------------------------------------------------------------
(* Writing a copy back, but for the password, is no change of role and     *)
(* status that the invariants could notice.                                *)
LEMMA WriteBack ==
    ASSUME RootInv, NEW h \in Handlers, pc[h] = "write", copy[h].id \in exists,
           NEW p \in Handlers \cup {None},
           row' = [row EXCEPT ![copy[h].id] = [copy[h].account EXCEPT !.password = p]],
           UNCHANGED <<exists, created, granted>>
    PROVE  SoleRootStands' /\ PrivilegeWasGranted'
  <1> DEFINE a == copy[h].account
             i == copy[h].id
  <1>1. /\ i \in 1..created
        /\ a.role = "root" => i \in granted
        /\ granted = {i} => a.role = "root" /\ a.status = 1
    BY DEF RootInv, HandlerInv, CopyInv
  <1>2. a \in Accounts /\ i \in Ids /\ row \in [Ids -> Accounts] /\ exists \subseteq Ids
    BY <1>1, AccountsAssumption DEF RootInv, TypeOK, Ids
  <1> HIDE DEF a, i
  <1>3. row' = [row EXCEPT ![i] = [a EXCEPT !.password = p]]
    BY DEF a, i
  <1>4. [a EXCEPT !.password = p].role = a.role /\ [a EXCEPT !.password = p].status = a.status
    BY <1>2 DEF Accounts
  <1>5. row'[i].role = a.role /\ row'[i].status = a.status
    BY <1>2, <1>3, <1>4
  <1>6. \A u \in exists : u # i => row'[u] = row[u]
    BY <1>2, <1>3
  <1>7. SoleRootStands'
    BY <1>1, <1>5, <1>6 DEF RootInv, SoleRootStands
  <1>8. PrivilegeWasGranted'
    BY <1>1, <1>5, <1>6 DEF RootInv, PrivilegeWasGranted
  <1>9. QED
    BY <1>7, <1>8

LEMMA RowsStep ==
    ASSUME RootInv, NEW h \in Handlers, Step(h)
    PROVE  SoleRootStands' /\ PrivilegeWasGranted'
  <1>1. /\ exists \subseteq 1..created /\ granted \subseteq 1..created /\ created \in Nat
        /\ row \in [Ids -> Accounts] /\ Ids = 1..MaxUsers /\ MaxUsers \in Nat
        /\ created <= MaxUsers
        /\ copy[h].account \in Accounts
    BY AccountsAssumption DEF RootInv, TypeOK, Ids
  <1>2. SoleRootStands /\ PrivilegeWasGranted
    BY DEF RootInv
  <1>3. CASE CreateUser(h)
    <2>1. /\ created < MaxUsers /\ created' = created + 1
          /\ exists' = exists \cup {created'}
          /\ row' = [row EXCEPT ![created'] = copy[h].account]
          /\ granted' = IF copy[h].account.role = "root" THEN granted \cup {created'}
                                                         ELSE granted
          /\ pc[h] = "create"
      BY <1>3 DEF CreateUser
    <2>2. /\ copy[h].account.status = 1
          /\ copy[h].account.role # "root" => created > 0
      BY <2>1 DEF RootInv, HandlerInv, CreateInv
    <2>3. created' \in Ids /\ created' \notin exists /\ created' \notin granted
      BY <1>1, <2>1
    <2>4. row'[created'] = copy[h].account /\ \A u \in exists : row'[u] = row[u]
      BY <1>1, <2>1, <2>3
    <2>5. SoleRootStands'
      <3>1. CASE copy[h].account.role = "root"
        <4>1. \A u : granted' = {u} => u = created'
          BY <2>1, <3>1
        <4>2. QED
          BY <1>1, <2>1, <2>2, <2>4, <3>1, <4>1 DEF SoleRootStands
      <3>2. CASE copy[h].account.role # "root"
        <4>1. granted' = granted /\ created > 0
          BY <2>1, <2>2, <3>2
        <4>2. QED
          BY <1>2, <2>1, <2>4, <4>1 DEF SoleRootStands
      <3>3. QED
        BY <3>1, <3>2
    <2>6. PrivilegeWasGranted'
      BY <1>2, <2>1, <2>4 DEF PrivilegeWasGranted
    <2>7. QED
      BY <2>5, <2>6
  <1>4. CASE AccountWrite(h)
    <2> DEFINE p == IF kind[h] = "password" THEN h ELSE copy[h].account.password
    <2>1. p \in Handlers \cup {None}
      BY <1>1 DEF Accounts
    <2>2. row' = [row EXCEPT ![copy[h].id] = [copy[h].account EXCEPT !.password = p]]
      BY <1>4 DEF AccountWrite
    <2>3. pc[h] = "write" /\ copy[h].id \in exists /\ UNCHANGED <<exists, created, granted>>
      BY <1>4 DEF AccountWrite
    <2> HIDE DEF p
    <2>4. QED
      BY <2>1, <2>2, <2>3, WriteBack
  <1>5. CASE AdminReset(h)
    <2>1. row' = [row EXCEPT ![copy[h].id] = [copy[h].account EXCEPT !.password = h]]
      BY <1>5 DEF AdminReset
    <2>2. pc[h] = "write" /\ copy[h].id \in exists /\ UNCHANGED <<exists, created, granted>>
      BY <1>5 DEF AdminReset
    <2>3. QED
      BY <2>1, <2>2, WriteBack
  <1>6. CASE AdminEdit(h)
    <2>1. PICK e \in Edits(h) :
            /\ row' = [row EXCEPT ![copy[h].id] =
                         Account(e.role, e.status, copy[h].account.password)]
            /\ granted' = IF e.role = "root" THEN granted \cup {copy[h].id} ELSE granted
      BY <1>6 DEF AdminEdit
    <2> DEFINE i == copy[h].id
    <2>2. i \in exists /\ i \in Ids /\ exists' = exists /\ created' = created
      <3>1. i \in exists /\ exists' = exists /\ created' = created
        BY <1>6 DEF AdminEdit
      <3> HIDE DEF i
      <3>2. QED
        BY <1>1, <3>1
    <2>3. pc[h] = "write" /\ actor[h] \in granted
      BY <1>6 DEF AdminEdit, RootInv, HandlerInv, AdminInv, Administration
    <2>4. row'[i].role = e.role /\ row'[i].status = e.status
      BY <1>1, <2>1, <2>2 DEF Account
    <2>5. \A u \in exists : u # i => row'[u] = row[u]
      BY <1>1, <2>1, <2>2
    <2>6. /\ copy[h].account.role = "root" => i \in granted
          /\ granted = {i} => copy[h].account.role = "root" /\ copy[h].account.status = 1
      BY <2>3 DEF RootInv, HandlerInv, CopyInv
    <2>7. i = actor[h] /\ granted = {i} => e.role = "root" /\ e.status = 1
      BY <2>6 DEF Edits
    <2> HIDE DEF i
    <2>8. granted' = IF e.role = "root" THEN granted \cup {i} ELSE granted
      BY <2>1 DEF i
    <2>9. SoleRootStands'
      <3>1. created' > 0 => granted' # {}
        BY <2>3, <2>8
      <3>2. ASSUME NEW u \in granted', granted' = {u}
            PROVE  u \in exists' /\ row'[u].role = "root" /\ row'[u].status = 1
        <4>1. u = actor[h] /\ granted = {u}
          BY <2>3, <2>8, <3>2
        <4>2. CASE i = u
          BY <2>2, <2>4, <2>7, <4>1, <4>2
        <4>3. CASE i # u
          BY <1>2, <2>2, <2>5, <4>1, <4>3 DEF SoleRootStands
        <4>4. QED
          BY <4>2, <4>3
      <3>3. QED
        BY <3>1, <3>2 DEF SoleRootStands
    <2>10. PrivilegeWasGranted'
      BY <1>2, <2>2, <2>4, <2>5, <2>8 DEF PrivilegeWasGranted
    <2>11. QED
      BY <2>9, <2>10
  <1>7. CASE DeleteRow(h)
    <2>1. exists' = exists \ {copy[h].id} /\ UNCHANGED <<row, created, granted>>
      BY <1>7 DEF DeleteRow
    <2>2. copy[h].id # actor[h] /\ actor[h] \in granted
      BY <1>7 DEF DeleteRow, RootInv, HandlerInv, AdminInv, Administration
    <2>3. QED
      BY <1>2, <2>1, <2>2 DEF SoleRootStands, PrivilegeWasGranted
  <1>8. CASE ~(CreateUser(h) \/ AccountWrite(h) \/ AdminReset(h) \/ AdminEdit(h) \/ DeleteRow(h))
    <2>1. UNCHANGED <<exists, row, created, granted>>
      BY <1>8 DEF Step, RegisterCount, Login, OpenSession, SessionRead, UserRead, Logout,
           AccountRead, AccountClose, AdminRead, AdminCreate, AdminDelete, DeleteSessions,
           Refuse, tables
    <2>2. QED
      BY <1>2, <2>1 DEF SoleRootStands, PrivilegeWasGranted
  <1>9. QED
    BY <1>3, <1>4, <1>5, <1>6, <1>7, <1>8

-----------------------------------------------------------------------------
LEMMA RootInvInit == Init => RootInv
  <1> SUFFICES ASSUME Init PROVE RootInv
    OBVIOUS
  <1>1. TypeOK
    BY TypeInit
  <1>2. \A h \in Handlers : pc[h] = "new"
    BY DEF Init
  <1>3. HandlerInv
    BY <1>2 DEF HandlerInv, CopyInv, AdminInv, CreateInv
  <1>4. created = 0 /\ granted = {} /\ exists = {}
    BY DEF Init
  <1>5. SoleRootStands /\ PrivilegeWasGranted
    BY <1>4 DEF SoleRootStands, PrivilegeWasGranted
  <1>6. QED
    BY <1>1, <1>3, <1>5 DEF RootInv

LEMMA RootInvNext == RootInv /\ [Next]_vars => RootInv'
  <1> SUFFICES ASSUME RootInv, [Next]_vars PROVE RootInv'
    OBVIOUS
  <1>1. CASE Next
    <2>1. PICK h \in Handlers : Step(h)
      BY <1>1 DEF Next
    <2>2. TypeOK'
      BY <2>1, TypeStep DEF RootInv
    <2>3. \A g \in Handlers : CopyInv(g)' /\ AdminInv(g)' /\ CreateInv(g)'
      <3> TAKE g \in Handlers
      <3>1. CASE g = h
        BY <2>1, <3>1, OwnStep
      <3>2. CASE g # h
        BY <2>1, <3>2, OthersStep
      <3>3. QED
        BY <3>1, <3>2
    <2>4. HandlerInv'
      BY <2>3 DEF HandlerInv
    <2>5. SoleRootStands' /\ PrivilegeWasGranted'
      BY <2>1, RowsStep
    <2>6. QED
      BY <2>2, <2>4, <2>5 DEF RootInv
  <1>2. CASE UNCHANGED vars
    BY <1>2 DEF vars, tables, locals, RootInv, TypeOK, HandlerInv, CopyInv,
       AdminInv, CreateInv, SoleRootStands, PrivilegeWasGranted
  <1>3. QED
    BY <1>1, <1>2

(* The types, for any number of requests and users.                        *)
THEOREM AccountsTyped == Spec => []TypeOK
  <1>1. RootInv => TypeOK
    BY DEF RootInv
  <1>2. QED
    BY <1>1, RootInvInit, RootInvNext, PTL DEF Spec

(* With no lock and whole rows written back from stale copies, the checks  *)
(* of admin_update_user_response and admin_delete_user_response on the     *)
(* administrator's own account keep a user who alone was ever root in      *)
(* office.                                                                 *)
THEOREM SoleRootStays == Spec => []SoleRootStands
  <1>1. RootInv => SoleRootStands
    BY DEF RootInv
  <1>2. QED
    BY <1>1, RootInvInit, RootInvNext, PTL DEF Spec

(* The role of root comes from a registration in an empty table or from an *)
(* administrator, whatever requests overlap.                               *)
THEOREM RootsWereGranted == Spec => []PrivilegeWasGranted
  <1>1. RootInv => PrivilegeWasGranted
    BY DEF RootInv
  <1>2. QED
    BY <1>1, RootInvInit, RootInvNext, PTL DEF Spec

-----------------------------------------------------------------------------
(* A session that was closed is not opened again.                          *)
LEMMA SessionChange ==
    ASSUME TypeOK, NEW h \in Handlers, Step(h), NEW s \in Handlers
    PROVE  \/ sessions'[s] = sessions[s]
           \/ sessions'[s] = 0
           \/ s = h /\ pc[h] = "open" /\ pc'[h] = "done"
  <1>1. CASE OpenSession(h)
    BY <1>1 DEF OpenSession, TypeOK, Goto
  <1>2. CASE Logout(h)
    BY <1>2 DEF Logout, TypeOK
  <1>3. CASE AccountClose(h)
    BY <1>3 DEF AccountClose
  <1>4. CASE DeleteSessions(h)
    BY <1>4 DEF DeleteSessions
  <1>5. CASE ~(OpenSession(h) \/ Logout(h) \/ AccountClose(h) \/ DeleteSessions(h))
    <2>1. sessions' = sessions
      BY <1>5 DEF Step, RegisterCount, CreateUser, Login, SessionRead, UserRead,
         AccountRead, AccountWrite, AdminRead, AdminEdit, AdminReset, AdminCreate,
         AdminDelete, DeleteRow, Refuse, tables
    <2>2. QED
      BY <2>1
  <1>6. QED
    BY <1>1, <1>2, <1>3, <1>4, <1>5

LEMMA StepNotDone ==
    ASSUME NEW h \in Handlers, Step(h)
    PROVE  pc[h] # "done"
  BY DEF Step, RegisterCount, CreateUser, Login, OpenSession, SessionRead, UserRead,
     Logout, AccountRead, AccountWrite, AccountClose, AdminRead, AdminEdit, AdminReset,
     AdminCreate, AdminDelete, DeleteSessions, DeleteRow, Refuse

LEMMA CookieFrame ==
    ASSUME TypeOK, NEW h \in Handlers, Step(h), NEW g \in Handlers, g # h
    PROVE  cookie'[g] = cookie[g]
  BY DEF Step, RegisterCount, CreateUser, Login, OpenSession, SessionRead, UserRead,
     Logout, AccountRead, AccountWrite, AccountClose, AdminRead, AdminEdit, AdminReset,
     AdminCreate, AdminDelete, DeleteSessions, DeleteRow, Refuse, TypeOK, locals

(* The three things a step may do to a request's own kind and cookie.      *)
LEMMA OwnKind ==
    ASSUME SessionInv, NEW h \in Handlers, Step(h)
    PROVE  \/ pc'[h] \in {"create", "open"} /\ kind'[h] \in {"register", "login"}
           \/ pc'[h] = "user" /\ SessionRead(h)
           \/ pc[h] = "user" /\ pc'[h] = "act" /\ cookie' = cookie /\ actor' = actor
           \/ pc'[h] # "user" /\ kind' = kind /\ cookie' = cookie /\ actor' = actor
  <1> USE DEF Goto
  <1>1. TypeOK
    BY DEF SessionInv
  <1>2. CASE RegisterCount(h)
    <2>1. pc' = [pc EXCEPT ![h] = "create"] /\ kind' = [kind EXCEPT ![h] = "register"]
      BY <1>2 DEF RegisterCount
    <2>2. QED
      BY <1>1, <2>1 DEF TypeOK
  <1>3. CASE Login(h)
    BY <1>1, <1>3 DEF Login, TypeOK
  <1>4. CASE SessionRead(h)
    BY <1>1, <1>4 DEF SessionRead, TypeOK
  <1>5. CASE UserRead(h)
    BY <1>1, <1>5 DEF UserRead, TypeOK
  <1>6. CASE ~(RegisterCount(h) \/ Login(h) \/ SessionRead(h) \/ UserRead(h))
    <2>1. kind' = kind /\ cookie' = cookie /\ actor' = actor
      BY <1>6 DEF Step, CreateUser, OpenSession, Logout, AccountRead, AccountWrite,
         AccountClose, AdminRead, AdminEdit, AdminReset, AdminCreate, AdminDelete,
         DeleteSessions, DeleteRow, Refuse, locals
    <2>2. pc'[h] # "user"
      BY <1>1, <1>6 DEF Step, CreateUser, OpenSession, Logout, AccountRead, AccountWrite,
         AccountClose, AdminRead, AdminEdit, AdminReset, AdminCreate, AdminDelete,
         DeleteSessions, DeleteRow, Refuse, TypeOK
    <2>3. QED
      BY <2>1, <2>2
  <1>7. QED
    BY <1>2, <1>3, <1>4, <1>5, <1>6

LEMMA KindStep ==
    ASSUME SessionInv, NEW h \in Handlers, Step(h)
    PROVE  KindInv'
  <1> SUFFICES ASSUME NEW g \in Handlers
               PROVE  /\ pc'[g] = "open" => kind'[g] \in {"register", "login"}
                      /\ pc'[g] = "create" => kind'[g] \in {"register", "create"}
                      /\ pc'[g] = "erase" => kind'[g] = "delete"
    BY DEF KindInv
  <1>1. TypeOK /\ KindInv
    BY DEF SessionInv
  <1>2. CASE g # h
    BY <1>1, <1>2, Frame DEF KindInv
  <1>3. CASE g = h
    <2> USE DEF Goto
    <2>1. CASE RegisterCount(h)
      <3>1. pc' = [pc EXCEPT ![h] = "create"] /\ kind' = [kind EXCEPT ![h] = "register"]
        BY <2>1 DEF RegisterCount
      <3>2. QED
        BY <1>1, <1>3, <3>1 DEF TypeOK
    <2>2. CASE CreateUser(h)
      <3>1. /\ pc' = [pc EXCEPT ![h] = IF kind[h] = "register" THEN "open" ELSE "done"]
            /\ kind' = kind
        BY <2>2 DEF CreateUser
      <3>2. QED
        BY <1>1, <1>3, <3>1 DEF TypeOK
    <2>3. CASE Login(h)
      BY <1>1, <1>3, <2>3 DEF Login, TypeOK
    <2>4. CASE AdminCreate(h)
      <3>1. pc' = [pc EXCEPT ![h] = "create"] /\ kind' = kind /\ kind[h] = "create"
        BY <2>4 DEF AdminCreate
      <3>2. QED
        BY <1>1, <1>3, <3>1 DEF TypeOK
    <2>5. CASE DeleteSessions(h)
      BY <1>1, <1>3, <2>5 DEF DeleteSessions, TypeOK, locals
    <2>6. CASE ~(RegisterCount(h) \/ CreateUser(h) \/ Login(h) \/ AdminCreate(h)
                 \/ DeleteSessions(h))
      <3>1. pc'[h] \notin {"open", "create", "erase"}
        BY <1>1, <2>6 DEF Step, OpenSession, SessionRead, UserRead, Logout, AccountRead,
           AccountWrite, AccountClose, AdminRead, AdminEdit, AdminReset, AdminDelete,
           DeleteRow, Refuse, TypeOK
      <3>2. QED
        BY <1>3, <3>1
    <2>7. QED
      BY <2>1, <2>2, <2>3, <2>4, <2>5, <2>6
  <1>4. QED
    BY <1>2, <1>3

(* What other requests do to the session of a cookie: they may close it.   *)
LEMMA CookieKept ==
    ASSUME SessionInv, NEW h \in Handlers, Step(h),
           NEW s \in Handlers, pc[s] = "done"
    PROVE  /\ s # h /\ pc'[s] = "done"
           /\ sessions'[s] \in {sessions[s], 0}
  <1>1. s # h
    BY StepNotDone
  <1>2. pc'[s] = "done"
    BY <1>1, Frame DEF SessionInv
  <1>3. sessions'[s] = sessions[s] \/ sessions'[s] = 0
    BY <1>1, SessionChange DEF SessionInv
  <1>4. QED
    BY <1>1, <1>2, <1>3

LEMMA OpenedStep ==
    ASSUME SessionInv, NEW h \in Handlers, Step(h)
    PROVE  OpenedInv'
  <1> SUFFICES ASSUME NEW s \in Handlers, sessions'[s] # 0
               PROVE  pc'[s] = "done"
    BY DEF OpenedInv
  <1>1. CASE sessions'[s] = sessions[s]
    <2>1. pc[s] = "done"
      BY <1>1 DEF SessionInv, OpenedInv
    <2>2. QED
      BY <2>1, CookieKept
  <1>2. CASE s = h /\ pc[h] = "open" /\ pc'[h] = "done"
    BY <1>2
  <1>3. QED
    BY <1>1, <1>2, SessionChange DEF SessionInv

LEMMA CookieStep ==
    ASSUME SessionInv, NEW h \in Handlers, Step(h)
    PROVE  CookieInv'
  <1> SUFFICES ASSUME NEW g \in Handlers, pc'[g] = "user" \/ kind'[g] \in SelfService
               PROVE  /\ cookie'[g] \in Handlers
                      /\ pc'[cookie'[g]] = "done"
                      /\ sessions'[cookie'[g]] \in {0, actor'[g]}
    BY DEF CookieInv
  <1>1. TypeOK /\ CookieInv
    BY DEF SessionInv
  <1> DEFINE Before == /\ pc[g] = "user" \/ kind[g] \in SelfService
                       /\ cookie'[g] = cookie[g] /\ actor'[g] = actor[g]
  <1>2. CASE Before
    <2>1. /\ cookie[g] \in Handlers
          /\ pc[cookie[g]] = "done"
          /\ sessions[cookie[g]] \in {0, actor[g]}
      BY <1>1, <1>2 DEF CookieInv
    <2>2. pc'[cookie[g]] = "done" /\ sessions'[cookie[g]] \in {sessions[cookie[g]], 0}
      BY <2>1, CookieKept
    <2>3. QED
      BY <1>2, <2>1, <2>2
  <1>3. CASE g # h
    <2>1. Before
      BY <1>1, <1>3, Frame, CookieFrame
    <2>2. QED
      BY <1>2, <2>1
  <1>4. CASE g = h /\ SessionRead(h)
    <2>1. PICK s \in Handlers :
            /\ sessions[s] # 0
            /\ cookie' = [cookie EXCEPT ![h] = s]
            /\ actor' = [actor EXCEPT ![h] = sessions[s]]
      BY <1>4 DEF SessionRead
    <2>2. cookie'[h] = s /\ actor'[h] = sessions[s]
      BY <1>1, <2>1 DEF TypeOK
    <2>3. pc[s] = "done"
      BY <2>1 DEF SessionInv, OpenedInv
    <2>4. pc'[s] = "done" /\ sessions'[s] \in {sessions[s], 0}
      BY <2>3, CookieKept
    <2>5. QED
      BY <1>4, <2>2, <2>4
  <1>5. CASE g = h /\ ~SessionRead(h)
    <2>1. Before
      <3>1. ~(pc'[h] \in {"create", "open"} /\ kind'[h] \in {"register", "login"})
        BY <1>5 DEF SelfService
      <3>2. QED
        BY <1>5, <3>1, OwnKind
    <2>2. QED
      BY <1>2, <2>1
  <1>6. QED
    BY <1>3, <1>4, <1>5

LEMMA LoggedOutStep ==
    ASSUME SessionInv, NEW h \in Handlers, Step(h)
    PROVE  LoggedOutStaysOut'
  <1> SUFFICES ASSUME NEW g \in Handlers, pc'[g] = "done", kind'[g] \in SelfService
               PROVE  sessions'[cookie'[g]] = 0
    BY DEF LoggedOutStaysOut
  <1>1. TypeOK /\ KindInv /\ CookieInv /\ LoggedOutStaysOut
    BY DEF SessionInv
  <1>2. CASE g # h
    <2>1. pc[g] = "done" /\ kind[g] \in SelfService /\ cookie'[g] = cookie[g]
      BY <1>1, <1>2, Frame, CookieFrame
    <2>2. /\ cookie[g] \in Handlers /\ pc[cookie[g]] = "done"
          /\ sessions[cookie[g]] = 0
      BY <1>1, <2>1 DEF CookieInv, LoggedOutStaysOut
    <2>3. QED
      BY <2>1, <2>2, CookieKept
  <1>3. CASE g = h
    <2> USE DEF Goto
    <2>1. CASE Logout(h)
      <3>1. kind[h] \in SelfService /\ cookie' = cookie
        BY <2>1 DEF Logout, SelfService, locals
      <3>2. cookie[h] \in Handlers
        BY <1>1, <3>1 DEF CookieInv
      <3>3. QED
        BY <1>1, <1>3, <2>1, <3>1, <3>2 DEF Logout, TypeOK
    <2>2. CASE AccountClose(h)
      <3>1. kind[h] \in SelfService /\ cookie' = cookie
        BY <2>2 DEF AccountClose, SelfService, locals
      <3>2. cookie[h] \in Handlers /\ sessions[cookie[h]] \in {0, actor[h]}
        BY <1>1, <3>1 DEF CookieInv
      <3>3. QED
        BY <1>3, <2>2, <3>1, <3>2 DEF AccountClose
    <2>3. CASE CreateUser(h) \/ OpenSession(h) \/ AdminEdit(h) \/ AdminReset(h) \/ DeleteRow(h)
      <3>1. kind' = kind /\ kind[h] \in {"register", "login", "create", "edit", "reset", "delete"}
        BY <1>1, <2>3 DEF CreateUser, OpenSession, AdminEdit, AdminReset, DeleteRow, KindInv,
           locals
      <3>2. QED
        BY <1>3, <3>1 DEF SelfService
    <2>4. CASE ~(Logout(h) \/ AccountClose(h) \/ CreateUser(h) \/ OpenSession(h)
                 \/ AdminEdit(h) \/ AdminReset(h) \/ DeleteRow(h))
      <3>1. pc'[h] # "done"
        BY <1>1, <2>4 DEF Step, RegisterCount, Login, SessionRead, UserRead, AccountRead,
           AccountWrite, AdminRead, AdminCreate, AdminDelete, DeleteSessions, Refuse, TypeOK
      <3>2. QED
        BY <1>3, <3>1
    <2>5. QED
      BY <2>1, <2>2, <2>3, <2>4
  <1>4. QED
    BY <1>2, <1>3

(* However requests of one user overlap, the session a logout or a change  *)
(* of email or password was done with stays closed.                        *)
THEOREM ClosedSessionsStayClosed == Spec => []LoggedOutStaysOut
  <1>1. Init => SessionInv
    <2> SUFFICES ASSUME Init PROVE SessionInv
      OBVIOUS
    <2>1. TypeOK
      BY TypeInit
    <2>2. \A h \in Handlers : pc[h] = "new" /\ kind[h] = "none" /\ sessions[h] = 0
      BY DEF Init
    <2>3. QED
      BY <2>1, <2>2 DEF SessionInv, KindInv, OpenedInv, CookieInv, LoggedOutStaysOut,
         SelfService
  <1>2. SessionInv /\ [Next]_vars => SessionInv'
    <2> SUFFICES ASSUME SessionInv, [Next]_vars PROVE SessionInv'
      OBVIOUS
    <2>1. CASE Next
      <3>1. PICK h \in Handlers : Step(h)
        BY <2>1 DEF Next
      <3>2. TypeOK'
        BY <3>1, TypeStep DEF SessionInv
      <3>3. KindInv' /\ OpenedInv' /\ CookieInv' /\ LoggedOutStaysOut'
        BY <3>1, KindStep, OpenedStep, CookieStep, LoggedOutStep
      <3>4. QED
        BY <3>2, <3>3 DEF SessionInv
    <2>2. CASE UNCHANGED vars
      BY <2>2 DEF vars, tables, locals, SessionInv, TypeOK, KindInv, OpenedInv, CookieInv,
         LoggedOutStaysOut
    <2>3. QED
      BY <2>1, <2>2
  <1>3. SessionInv => LoggedOutStaysOut
    BY DEF SessionInv
  <1>4. QED
    BY <1>1, <1>2, <1>3, PTL DEF Spec

-----------------------------------------------------------------------------
(* Passwords.                                                              *)

(* The handler has fetched the last row it will fetch.                     *)
Settled(h) == pc[h] \in {"open", "close", "erase", "done", "refused"}

(* A password is in the row of the user its handler settled on, and in     *)
(* copies of that row; the handler itself may hold it before.              *)
RowsKeepPasswords ==
    \A u \in Ids, h \in Handlers :
        row[u].password = h => Settled(h) /\ copy[h].id = u

CopiesKeepPasswords ==
    \A g \in Handlers, h \in Handlers :
        copy[g].account.password = h /\ g # h => Settled(h) /\ copy[h].id = copy[g].id

CreatorsHoldTheirs ==
    \A h \in Handlers : pc[h] = "create" => copy[h].account.password = h

PasswordInv == TypeOK /\ RowsKeepPasswords /\ CopiesKeepPasswords /\ CreatorsHoldTheirs

PasswordResult == RowsKeepPasswords' /\ CopiesKeepPasswords' /\ CreatorsHoldTheirs'

(* Steps that leave rows and copies alone.                                 *)
LEMMA PasswordsUntouched ==
    ASSUME PasswordInv, NEW h \in Handlers, row' = row, copy' = copy,
           NEW l \in {"user", "act", "erase", "done", "refused"}, Goto(h, l),
           ~Settled(h) \/ l \in {"erase", "done", "refused"}
    PROVE  PasswordResult
  <1>1. pc'[h] = l /\ \A g \in Handlers \ {h} : pc'[g] = pc[g]
    BY DEF PasswordInv, TypeOK, Goto
  <1>2. \A g \in Handlers :
                           /\ Settled(g) => Settled(g)'
                           /\ pc'[g] = "create" => pc[g] = "create"
    <2> TAKE g \in Handlers
    <2>1. CASE g = h
      BY <1>1, <2>1 DEF Settled
    <2>2. CASE g # h
      BY <1>1, <2>2 DEF Settled
    <2>3. QED
      BY <2>1, <2>2
  <1>3. RowsKeepPasswords'
    BY <1>2 DEF PasswordInv, RowsKeepPasswords
  <1>4. CopiesKeepPasswords'
    BY <1>2 DEF PasswordInv, CopiesKeepPasswords
  <1>5. CreatorsHoldTheirs'
    BY <1>2 DEF PasswordInv, CreatorsHoldTheirs
  <1>6. QED
    BY <1>3, <1>4, <1>5 DEF PasswordResult

(* The handler fetches a row.                                              *)
LEMMA PasswordsFetched ==
    ASSUME PasswordInv, NEW h \in Handlers, ~Settled(h), NEW u \in Ids, Fetch(h, u),
           UNCHANGED row, NEW l, Goto(h, l), l # "create"
    PROVE  PasswordResult
  <1>1. /\ copy'[h].id = u /\ copy'[h].account = row[u]
        /\ \A g \in Handlers \ {h} : copy'[g] = copy[g]
    BY DEF PasswordInv, TypeOK, Fetch
  <1>2. /\ \A g \in Handlers : Settled(g) => Settled(g)' /\ g # h
        /\ \A g \in Handlers : pc'[g] = "create" => pc[g] = "create" /\ g # h
    BY DEF PasswordInv, TypeOK, Goto, Settled
  <1>3. QED
    BY <1>1, <1>2 DEF PasswordInv, PasswordResult, RowsKeepPasswords, CopiesKeepPasswords,
       CreatorsHoldTheirs

(* The handler makes up a row of its own.                                  *)
LEMMA PasswordsChosen ==
    ASSUME PasswordInv, NEW h \in Handlers, ~Settled(h), NEW a \in Accounts, a.password = h,
           copy' = [copy EXCEPT ![h].account = a], UNCHANGED row, Goto(h, "create")
    PROVE  PasswordResult
  <1>1. /\ copy'[h].id = copy[h].id /\ copy'[h].account = a
        /\ \A g \in Handlers \ {h} : copy'[g] = copy[g]
    BY DEF PasswordInv, TypeOK
  <1>2. /\ \A g \in Handlers : Settled(g) => Settled(g)' /\ g # h
        /\ \A g \in Handlers : g # h /\ pc'[g] = "create" => pc[g] = "create"
    BY DEF PasswordInv, TypeOK, Goto, Settled
  <1>3. QED
    BY <1>1, <1>2 DEF PasswordInv, PasswordResult, RowsKeepPasswords, CopiesKeepPasswords,
       CreatorsHoldTheirs

(* The handler writes back its copy, with its own password perhaps.        *)
LEMMA PasswordsWritten ==
    ASSUME PasswordInv, NEW h \in Handlers, copy[h].id \in Ids, NEW a \in Accounts,
           a.password \in {h, copy[h].account.password},
           row' = [row EXCEPT ![copy[h].id] = a], UNCHANGED copy,
           NEW l \in {"close", "done"}, Goto(h, l)
    PROVE  PasswordResult
  <1>1. /\ row'[copy[h].id] = a
        /\ \A u \in Ids \ {copy[h].id} : row'[u] = row[u]
    BY DEF PasswordInv, TypeOK
  <1>2. /\ Settled(h)' /\ \A g \in Handlers : Settled(g) => Settled(g)'
        /\ \A g \in Handlers : pc'[g] = "create" => pc[g] = "create"
    BY DEF PasswordInv, TypeOK, Goto, Settled
  <1>3. QED
    BY <1>1, <1>2 DEF PasswordInv, PasswordResult, RowsKeepPasswords, CopiesKeepPasswords,
       CreatorsHoldTheirs

(* The row that the handler made up gets the next id: nobody else can      *)
(* hold the password yet.                                                  *)
LEMMA PasswordsCreated ==
    ASSUME PasswordInv, NEW h \in Handlers, CreateUser(h)
    PROVE  PasswordResult
  <1>0. created' \in Ids
    BY AccountsAssumption DEF CreateUser, PasswordInv, TypeOK, Ids
  <1>1. pc[h] = "create" /\ ~Settled(h) /\ copy[h].account.password = h
    BY DEF CreateUser, PasswordInv, CreatorsHoldTheirs, Settled
  <1>2. /\ row'[created'] = copy[h].account
        /\ \A u \in Ids \ {created'} : row'[u] = row[u]
    BY <1>0 DEF CreateUser, PasswordInv, TypeOK
  <1>3. /\ copy'[h].id = created' /\ copy'[h].account = copy[h].account
        /\ \A g \in Handlers \ {h} : copy'[g] = copy[g]
    BY DEF CreateUser, PasswordInv, TypeOK
  <1>4. /\ Settled(h)' /\ \A g \in Handlers : Settled(g) => Settled(g)' /\ g # h
        /\ \A g \in Handlers : pc'[g] = "create" => pc[g] = "create" /\ g # h
    BY <1>1 DEF CreateUser, PasswordInv, TypeOK, Goto, Settled
  <1>5. QED
    BY <1>0, <1>1, <1>2, <1>3, <1>4 DEF PasswordInv, PasswordResult, RowsKeepPasswords,
       CopiesKeepPasswords, CreatorsHoldTheirs

LEMMA PasswordStep ==
    ASSUME PasswordInv, NEW h \in Handlers, Step(h)
    PROVE  PasswordResult
  <1>0. TypeOK /\ exists \subseteq Ids /\ h # None
    BY AccountsAssumption DEF PasswordInv, TypeOK, Ids
  <1>1. CASE RegisterCount(h)
    <2>1. PICK r \in {"user", "root"} :
            copy' = [copy EXCEPT ![h].account = Account(r, 1, h)]
      BY <1>1 DEF RegisterCount
    <2>2. Account(r, 1, h) \in Accounts /\ Account(r, 1, h).password = h
      BY DEF Account, Accounts
    <2>3. QED
      BY <1>1, <2>1, <2>2, PasswordsChosen DEF RegisterCount, Settled, tables
  <1>2. CASE CreateUser(h)
    BY <1>2, PasswordsCreated
  <1>3. CASE Login(h)
    BY <1>0, <1>3, PasswordsFetched DEF Login, Settled, tables
  <1>4. CASE OpenSession(h) \/ Logout(h) \/ AccountClose(h) \/ DeleteSessions(h)
             \/ DeleteRow(h) \/ Refuse(h)
    BY <1>4, PasswordsUntouched
       DEF OpenSession, Logout, AccountClose, DeleteSessions, DeleteRow, Refuse, tables, locals
  <1>5. CASE SessionRead(h) \/ UserRead(h)
    BY <1>5, PasswordsUntouched DEF SessionRead, UserRead, Settled, tables
  <1>6. CASE AccountRead(h)
    BY <1>0, <1>6, PasswordsFetched DEF AccountRead, Settled, tables
  <1>7. CASE AdminRead(h) \/ AdminDelete(h)
    BY <1>0, <1>7, PasswordsFetched DEF AdminRead, AdminDelete, Settled, tables
  <1>8. CASE AccountWrite(h)
    <2> DEFINE a == [copy[h].account EXCEPT !.password =
                       IF kind[h] = "password" THEN h ELSE @]
    <2>1. a \in Accounts /\ a.password \in {h, copy[h].account.password}
      BY <1>0 DEF TypeOK, Accounts
    <2>2. QED
      BY <1>0, <1>8, <2>1, PasswordsWritten DEF AccountWrite, locals
  <1>9. CASE AdminEdit(h)
    <2>1. PICK e \in Edits(h) : row' = [row EXCEPT ![copy[h].id] =
                                          Account(e.role, e.status, copy[h].account.password)]
      BY <1>9 DEF AdminEdit
    <2> DEFINE a == Account(e.role, e.status, copy[h].account.password)
    <2>2. a \in Accounts /\ a.password = copy[h].account.password
      BY <1>0 DEF TypeOK, Accounts, Account, Edits
    <2>3. QED
      BY <1>0, <1>9, <2>1, <2>2, PasswordsWritten DEF AdminEdit, locals
  <1>10. CASE AdminReset(h)
    <2> DEFINE a == [copy[h].account EXCEPT !.password = h]
    <2>1. a \in Accounts /\ a.password = h
      BY <1>0 DEF TypeOK, Accounts
    <2>2. QED
      BY <1>0, <1>10, <2>1, PasswordsWritten DEF AdminReset, locals
  <1>11. CASE AdminCreate(h)
    <2>1. PICK r \in {"user", "root"} :
            copy' = [copy EXCEPT ![h].account = Account(r, 1, h)]
      BY <1>11 DEF AdminCreate
    <2>2. Account(r, 1, h) \in Accounts /\ Account(r, 1, h).password = h
      BY DEF Account, Accounts
    <2>3. QED
      BY <1>11, <2>1, <2>2, PasswordsChosen DEF AdminCreate, Settled, tables
  <1>12. QED
    BY <1>1, <1>2, <1>3, <1>4, <1>5, <1>6, <1>7, <1>8, <1>9, <1>10, <1>11 DEF Step

(* Whole rows are written back from stale copies, and still no password    *)
(* ever reaches another user's account.                                    *)
THEOREM PasswordsStay == Spec => []PasswordsStayHome
  <1>1. Init => PasswordInv
    <2> SUFFICES ASSUME Init PROVE PasswordInv
      OBVIOUS
    <2>1. TypeOK
      BY TypeInit
    <2>2. /\ \A u \in Ids : row[u].password = None
          /\ \A h \in Handlers : copy[h].account.password = None /\ pc[h] = "new" /\ h # None
      BY AccountsAssumption DEF Init, Account, NoCopy
    <2>3. QED
      BY <2>1, <2>2 DEF PasswordInv, RowsKeepPasswords, CopiesKeepPasswords, CreatorsHoldTheirs
  <1>2. PasswordInv /\ [Next]_vars => PasswordInv'
    <2> SUFFICES ASSUME PasswordInv, [Next]_vars PROVE PasswordInv'
      OBVIOUS
    <2>1. CASE Next
      <3>1. PICK h \in Handlers : Step(h)
        BY <2>1 DEF Next
      <3>2. TypeOK'
        BY <3>1, TypeStep DEF PasswordInv
      <3>3. QED
        BY <3>1, <3>2, PasswordStep DEF PasswordInv, PasswordResult
    <2>2. CASE UNCHANGED vars
      BY <2>2 DEF vars, tables, locals, PasswordInv, TypeOK, RowsKeepPasswords,
         CopiesKeepPasswords, CreatorsHoldTheirs, Settled
    <2>3. QED
      BY <2>1, <2>2
  <1>3. PasswordInv => PasswordsStayHome
    <2>1. TypeOK => exists \subseteq Ids
      BY AccountsAssumption DEF TypeOK, Ids
    <2>2. QED
      BY <2>1 DEF PasswordInv, RowsKeepPasswords, PasswordsStayHome
  <1>4. QED
    BY <1>1, <1>2, <1>3, PTL DEF Spec
=============================================================================
