------------------------------ MODULE UsersPage ------------------------------
(***************************************************************************)
(* The page on which root keeps the users: the table, the three dialogs    *)
(* about one user (its row is "editing"), the dialog that creates one, and *)
(* the ConfigForm in three of these dialogs.                               *)
(*                                                                         *)
(* What is typed is tagged with the user whom it was typed for.  A notice  *)
(* is never seen: the refresh that follows it clears it in the same tick.  *)
(***************************************************************************)
EXTENDS Browser

CONSTANTS UserIds,      \* ids of users, also of those to be created
          OldUsers,     \* the users that exist when the page is opened
          Self          \* the administrator

ASSUME UsersAssumption == OldUsers \subseteq UserIds /\ Self \in OldUsers /\ "none" \notin UserIds

VARIABLES
    userRow,        \* the table users of the server
    users,          \* the rows of the page
    usersLoading,
    usersErr,       \* an alert is shown
    editing,        \* the row of the dialogs about one user
    editFields,     \* editEmail, editRole and editStatus
    typed,          \* the user for whom an amount or a password is typed
    formSaves,      \* the call for which the mounted ConfigForm is saving; 0 is none
    createSaves     \* the same of the form that creates a user

usersVars == <<userRow, users, usersLoading, usersErr, editing, editFields, typed, formSaves, createSaves>>

NoUser == [id |-> "none", of |-> "none", text |-> 0, on |-> FALSE, secret |-> "none"]
NewUser(u) == [id |-> u, of |-> u, text |-> 0, on |-> TRUE, secret |-> u]
Fields(row) == [of |-> row.of, text |-> row.text, on |-> row.on]
UserDialogs == {"editUser", "addBalance", "resetPassword"}

UsersInit ==
    /\ userRow = [u \in UserIds |-> IF u \in OldUsers THEN NewUser(u) ELSE NoUser]
    /\ users = [u \in UserIds |-> NoUser]
    /\ usersLoading = TRUE /\ usersErr = FALSE
    /\ editing = NoUser /\ editFields = Fields(NoUser)
    /\ typed = "none" /\ formSaves = 0 /\ createSaves = 0

UsersMount == <<Sent("users", 0)>>

-----------------------------------------------------------------------------
(* A change of the state of the page renders it: the template of the form  *)
(* about one user is made anew, and an effect of ConfigForm empties it.    *)
(* Without a user there is no form.                                        *)
FormEffect ==
    /\ typed' = IF <<users, usersLoading, usersErr, editing>>' = <<users, usersLoading, usersErr, editing>>
                THEN typed ELSE "none"
    /\ formSaves' = IF editing' = NoUser THEN 0 ELSE formSaves

(* Mutant: the fields are filled once.                                     *)
SetEditingOnce(row) ==
    /\ editing' = row
    /\ editFields' = IF row = NoUser \/ editFields # Fields(NoUser) THEN editFields ELSE Fields(row)

(* setEditing, and the effect that fills the edit fields.                  *)
SetEditing(row) ==
    /\ editing' = row
    /\ editFields' = IF row = NoUser \/ row = editing THEN editFields ELSE Fields(row)

(* refresh(): it clears the alert; arg is the form that waits for it.      *)
RefreshUsers(n, form) ==
    /\ usersErr' = FALSE /\ usersLoading' = TRUE
    /\ Send(n, "users", form)

UsersAnswered(n) ==
    /\ Resumes(n, "users")
    /\ users' = IF Ok(n) THEN calls[n].data ELSE [u \in UserIds |-> NoUser]
    /\ usersErr' = (usersErr \/ ~Ok(n))
    /\ usersLoading' = FALSE
    /\ typed' = "none"
    /\ formSaves' = IF formSaves = n /\ calls[n].arg = n THEN 0 ELSE formSaves
    /\ createSaves' = IF createSaves = n /\ calls[n].arg = n THEN 0 ELSE createSaves
    /\ Finish(n)
    /\ NoDialogChange
    /\ UNCHANGED <<userRow, editing, editFields>>

(* The rest of every handler that changes something.                       *)
UserChanged(n) ==
    /\ \E op \in {"deleteUser", "updateUser", "createUser", "addBalance", "resetPassword"} :
          /\ Resumes(n, op)
          /\ IF Ok(n)
             THEN /\ RefreshUsers(n, IF op \in {"createUser", "addBalance", "resetPassword"} THEN n ELSE 0)
                  /\ IF op = "deleteUser" THEN NoDialogChange
                     ELSE Dismiss(IF op = "updateUser" THEN "editUser" ELSE op)
                  /\ UNCHANGED <<formSaves, createSaves>>
             ELSE /\ usersErr' = TRUE /\ UNCHANGED usersLoading
                  /\ Finish(n) /\ NoDialogChange
                  /\ formSaves' = IF formSaves = n THEN 0 ELSE formSaves
                  /\ createSaves' = IF createSaves = n THEN 0 ELSE createSaves
    /\ typed' = IF Ok(n) /\ usersLoading /\ ~usersErr THEN typed ELSE "none"
    /\ UNCHANGED <<userRow, users, editing, editFields>>

-----------------------------------------------------------------------------
(* Buttons of a row, of the page and of the dialogs.                       *)

UserButton(u) == Uncovered /\ ~usersLoading /\ users[u] # NoUser

EditClick(u, dialog) ==
    /\ UserButton(u)
    /\ SetEditing(users[u])
    /\ Toggle(dialog)
    /\ UNCHANGED <<calls, userRow, users, usersLoading, usersErr, createSaves>>
    /\ FormEffect

(* The dialogs are closed, so that editing is null in this closure.        *)
DeleteUser(n, u) ==
    /\ UserButton(u) /\ u # Self
    /\ usersErr' = FALSE
    /\ Free(n) /\ Send(n, "deleteUser", u)
    /\ NoDialogChange
    /\ UNCHANGED <<userRow, users, usersLoading, editing, editFields, createSaves>>
    /\ FormEffect

UserDialog(d) == Shows(d) /\ editing # NoUser

EditUserField ==
    /\ UserDialog("editUser")
    /\ \/ editFields' = [editFields EXCEPT !.text = 1 - @]
       \/ editing.id # Self /\ editFields' = [editFields EXCEPT !.on = ~@]
    /\ NoDialogChange
    /\ UNCHANGED <<calls, userRow, users, usersLoading, usersErr, editing, typed, formSaves, createSaves>>

UpdateUser(n) ==
    /\ UserDialog("editUser")
    /\ usersErr' = FALSE
    /\ Free(n) /\ Send(n, "updateUser", <<editing.id, editFields>>)
    /\ NoDialogChange
    /\ UNCHANGED <<userRow, users, usersLoading, editing, editFields, createSaves>>
    /\ FormEffect

TypeIntoForm ==
    /\ \E d \in {"addBalance", "resetPassword"} : UserDialog(d)
    /\ typed = "none" /\ typed' = editing.id
    /\ NoDialogChange
    /\ UNCHANGED <<calls, userRow, users, usersLoading, usersErr, editing, editFields, formSaves, createSaves>>

SubmitForm(n, d) ==
    /\ UserDialog(d) /\ typed # "none" /\ formSaves = 0
    /\ usersErr' = FALSE
    /\ typed' = IF usersErr THEN "none" ELSE typed
    /\ formSaves' = n
    /\ Free(n) /\ Send(n, d, <<editing.id, typed>>)
    /\ NoDialogChange
    /\ UNCHANGED <<userRow, users, usersLoading, editing, editFields, createSaves>>

CreateUserOpen ==
    /\ Uncovered
    /\ Toggle("createUser")
    /\ UNCHANGED <<calls, usersVars>>

SubmitCreate(n) ==
    /\ Shows("createUser") /\ createSaves = 0
    /\ usersErr' = FALSE
    /\ createSaves' = n
    /\ Free(n) /\ Send(n, "createUser", <<>>)
    /\ NoDialogChange
    /\ UNCHANGED <<userRow, users, usersLoading, editing, editFields>>
    /\ FormEffect

UserDialogClose(d) ==
    /\ Shows(d)
    /\ Dismiss(d)
    /\ UNCHANGED <<calls, usersVars>>

CreateUserHidden == Faded("createUser") /\ UNCHANGED <<open, calls, usersVars>>

UserDialogHidden(d) ==
    /\ Faded(d)
    /\ SetEditing(NoUser)
    /\ UNCHANGED <<open, calls, userRow, users, usersLoading, usersErr, createSaves>>
    /\ FormEffect

-----------------------------------------------------------------------------
(* The handlers of the server.                                             *)

ServeUsers(n) == Waits(n, "users") /\ Answer(n, userRow) /\ UNCHANGED userRow

ServeCreateUser(n) ==
    /\ Waits(n, "createUser")
    /\ \E u \in UserIds : userRow[u] = NoUser /\ userRow' = [userRow EXCEPT ![u] = NewUser(u)]
    /\ Answer(n, <<>>)

ServeDeleteUser(n) ==
    /\ Waits(n, "deleteUser") /\ calls[n].arg # Self /\ userRow[calls[n].arg] # NoUser
    /\ userRow' = [userRow EXCEPT ![calls[n].arg] = NoUser]
    /\ Answer(n, <<>>)

ServeUserChange(n) ==
    /\ \E op \in {"updateUser", "addBalance", "resetPassword"} : Waits(n, op)
    /\ LET u == calls[n].arg[1]  what == calls[n].arg[2]
       IN /\ userRow[u] # NoUser
          /\ Is(n, "updateUser") => u # Self \/ what.on
          /\ userRow' = [userRow EXCEPT ![u] =
                IF Is(n, "updateUser") THEN [@ EXCEPT !.of = what.of, !.text = what.text, !.on = what.on]
                                       ELSE [@ EXCEPT !.secret = what]]
    /\ Answer(n, <<>>)

UsersServe(n) ==
    /\ ServeUsers(n) \/ ServeCreateUser(n) \/ ServeDeleteUser(n) \/ ServeUserChange(n)
    /\ NoDialogChange
    /\ UNCHANGED <<users, usersLoading, usersErr, editing, editFields, typed, formSaves, createSaves>>

-----------------------------------------------------------------------------

UsersClick ==
    \/ \E u \in UserIds, d \in UserDialogs : EditClick(u, d)
    \/ \E n \in Slots, u \in UserIds : DeleteUser(n, u)
    \/ \E n \in Slots : UpdateUser(n) \/ SubmitCreate(n)
    \/ \E n \in Slots, d \in {"addBalance", "resetPassword"} : SubmitForm(n, d)
    \/ \E d \in UserDialogs \cup {"createUser"} : UserDialogClose(d)
    \/ EditUserField \/ TypeIntoForm \/ CreateUserOpen

UsersStep ==
    \/ \E n \in Slots : UsersServe(n) \/ UsersAnswered(n) \/ UserChanged(n)
    \/ \E d \in UserDialogs : UserDialogHidden(d)
    \/ CreateUserHidden

UsersNext ==
    /\ page = "users"
    /\ \/ UsersClick /\ Clicked
       \/ UsersStep /\ UNCHANGED clicks
       \/ \E n \in Slots : CallFails(n) /\ UNCHANGED <<clicks, usersVars>>
    /\ UNCHANGED page

-----------------------------------------------------------------------------
(* What was typed for one user is never stored for another, although a     *)
(* late answer may close the dialog that is open for another user by then. *)
UsersKeepTheirFields ==
    /\ \A u \in UserIds : userRow[u].of \in {u, "none"} /\ userRow[u].secret \in {u, "none"}
    /\ UserDialog("editUser") => editFields.of = editing.id

UsersFlagsFall ==
    page = "users" =>
        /\ usersLoading => InFlight("users")
        /\ formSaves # 0 => ~Is(formSaves, "idle")
        /\ createSaves # 0 => ~Is(createSaves, "idle")
=============================================================================
