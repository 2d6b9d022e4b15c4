---------------------------- MODULE SessionPages ----------------------------
(***************************************************************************)
(* Signing in and out: AuthProvider, the routes it guards, and the pages   *)
(* that call it.  Of the pages behind the guard only the one with account  *)
(* settings matters; "app" stands for the others.                          *)
(*                                                                         *)
(* Here a call that fails is an exception.  The refusals of the server are *)
(* answers: a session that is not there, a wrong password.                 *)
(***************************************************************************)
EXTENDS Browser

VARIABLES
    role,          \* of the account that signs in
    session,       \* the cookie is that of a session of the server
    user,          \* the role of the user that AuthProvider holds, or "none"
    booting,
    authLoading,
    route,
    from,          \* where the guard found somebody who was not signed in
    formSaves,     \* the call that the form of the account settings waits for; 0 is none
    parted         \* the session ended in a way this browser cannot tell

sessionVars == <<role, session, user, booting, authLoading, route, from, formSaves, parted>>

Guarded == {"app", "account", "admin"}

SessionInit ==
    /\ role \in {"user", "root"} /\ session \in BOOLEAN
    /\ user = "none" /\ booting = TRUE /\ authLoading = TRUE
    /\ route \in Guarded \cup {"login"} /\ from = "app"
    /\ formSaves = 0 /\ parted = FALSE

SessionMount == <<Sent("self", "boot")>>

-----------------------------------------------------------------------------
(* Where the router ends up that is told to go to r: RequireAuth, AdminPage *)
(* and the redirects of LoginPage and RegisterPage.  A form that is left   *)
(* is gone.                                                                *)

RouteFor(r, u) ==
    CASE u = "none" -> "login"
      [] u # "none" /\ (r = "login" \/ (r = "admin" /\ u # "root")) -> "app"
      [] OTHER -> r

Goes(r, u) ==
    /\ user' = u
    /\ route' = IF booting' THEN r ELSE RouteFor(r, u)
    /\ from' = IF booting' \/ u # "none" \/ r = "login" THEN from ELSE r
    /\ formSaves' = IF route' # "account" THEN 0 ELSE formSaves

(* refreshInternal waits in "self"; next says whose await it is.           *)
RefreshSelf(n, next) == authLoading' = TRUE /\ Send(n, "self", next)

SelfAnswered(n) ==
    /\ Resumes(n, "self")
    /\ authLoading' = FALSE
    /\ booting' = (booting /\ calls[n].arg # "boot")
    /\ LET u == IF Ok(n) THEN calls[n].data ELSE user
           welcome == Ok(n) /\ u # "none"
       IN Goes(CASE calls[n].arg = "login" /\ welcome -> from
                 [] calls[n].arg = "register" /\ welcome -> "app"
                 [] calls[n].arg = "forced" -> "login"
                 [] OTHER -> route, u)
    /\ Finish(n)
    /\ UNCHANGED <<role, session, parted>>

-----------------------------------------------------------------------------
(* LoginPage and RegisterPage.                                             *)

SignIn(n, how) ==
    /\ ~booting /\ route = "login" /\ ~authLoading
    /\ authLoading' = TRUE
    /\ Free(n) /\ Send(n, how, <<>>)
    /\ UNCHANGED <<role, session, user, booting, route, from, formSaves, parted>>

SignInAnswered(n) ==
    /\ UNCHANGED <<role, session, booting, parted>>
    /\ \E how \in {"login", "register"} :
          /\ Resumes(n, how)
          /\ IF Ok(n) /\ calls[n].data # "refused"
             THEN RefreshSelf(n, how) /\ Goes(route, calls[n].data)
             ELSE /\ authLoading' = FALSE /\ Finish(n)
                  /\ UNCHANGED <<user, route, from, formSaves>>

-----------------------------------------------------------------------------
(* Signing out, with the button or because the password was changed.       *)

LogoutClick(n) ==
    /\ user # "none" /\ ~authLoading
    /\ authLoading' = TRUE
    /\ Free(n) /\ Send(n, "logout", "plain")
    /\ UNCHANGED <<role, session, user, booting, route, from, formSaves, parted>>

(* Mutant: setUser(null) is left to the next refresh.                      *)
LogoutAnsweredOnly(n) ==
    /\ Resumes(n, "logout")
    /\ UNCHANGED <<role, session, booting, parted>>
    /\ Goes(route, user)
    /\ IF calls[n].arg = "plain" THEN authLoading' = FALSE /\ Finish(n)
                                 ELSE RefreshSelf(n, "forced")

LogoutAnswered(n) ==
    /\ Resumes(n, "logout")
    /\ UNCHANGED <<role, session, booting, parted>>
    /\ Goes(route, IF Ok(n) THEN "none" ELSE user)
    /\ IF calls[n].arg = "plain" THEN authLoading' = FALSE /\ Finish(n)
                                 ELSE RefreshSelf(n, "forced")

AccountSubmit(n, what) ==
    /\ route = "account" /\ user # "none" /\ formSaves = 0
    /\ formSaves' = n
    /\ Free(n) /\ Send(n, what, <<>>)
    /\ UNCHANGED <<role, session, user, booting, authLoading, route, from, parted>>

AccountAnswered(n) ==
    /\ Resumes(n, "password") \/ Resumes(n, "email")
    /\ IF Ok(n) /\ calls[n].data # "refused"
       THEN authLoading' = TRUE /\ Send(n, "logout", "forced") /\ UNCHANGED formSaves
       ELSE Finish(n) /\ UNCHANGED authLoading /\ formSaves' = IF formSaves = n THEN 0 ELSE formSaves
    /\ UNCHANGED <<role, session, user, booting, route, from, parted>>

Navigate(r) ==
    /\ ~booting /\ r # route
    /\ UNCHANGED <<calls, role, session, booting, authLoading, parted>>
    /\ Goes(r, user)

-----------------------------------------------------------------------------
(* The server.  An answer about the user is on its way when the session    *)
(* ends: the browser may believe it after the session is gone.             *)

Ends(n) ==
    /\ session' = FALSE
    /\ parted' = (parted \/ \E m \in Slots \ {n} : \E op \in {"self", "login", "register"} : Is(m, op))

SessionServe(n) ==
    /\ \/ /\ Waits(n, "self")
          /\ Answer(n, IF session THEN role ELSE "none")
          /\ UNCHANGED <<session, parted>>
       \/ /\ Waits(n, "login") \/ Waits(n, "register")
          /\ \/ session' = TRUE /\ Answer(n, role)
             \/ Answer(n, "refused") /\ UNCHANGED session
          /\ UNCHANGED parted
       \/ /\ Waits(n, "logout")
          /\ Answer(n, <<>>)
          /\ Ends(n) \/ UNCHANGED <<session, parted>>
       \/ /\ Waits(n, "password")
          /\ \/ session /\ Ends(n) /\ Answer(n, "done")
             \/ Answer(n, "refused") /\ UNCHANGED <<session, parted>>
       \/ /\ Waits(n, "email")      \* the console does not send current_password
          /\ Answer(n, "refused") /\ UNCHANGED <<session, parted>>
    /\ NoDialogChange
    /\ UNCHANGED <<role, user, booting, authLoading, route, from, formSaves>>

(* A root disables the account, or its password is changed elsewhere.      *)
SessionEndsElsewhere ==
    /\ session /\ session' = FALSE
    /\ parted' = TRUE
    /\ UNCHANGED <<calls, role, user, booting, authLoading, route, from, formSaves>>

(* An answer is lost that would say that the session is over.              *)
SessionCallFails(n) ==
    /\ CallFails(n)
    /\ parted' = (parted \/ calls[n].arg = "forced" \/ (Ok(n) /\ (Is(n, "logout") \/ Is(n, "password"))))
    /\ UNCHANGED <<role, session, user, booting, authLoading, route, from, formSaves>>

-----------------------------------------------------------------------------

SessionClick ==
    \/ \E n \in Slots, how \in {"login", "register"} : SignIn(n, how)
    \/ \E n \in Slots, what \in {"password", "email"} : AccountSubmit(n, what)
    \/ \E n \in Slots : LogoutClick(n)
    \/ \E r \in Guarded \cup {"login"} : Navigate(r)
    \/ SessionEndsElsewhere

SessionStep == \E n \in Slots : SessionServe(n) \/ SelfAnswered(n) \/ SignInAnswered(n)
                                \/ LogoutAnswered(n) \/ AccountAnswered(n)

SessionNext ==
    /\ page = "session"
    /\ \/ SessionClick /\ Clicked /\ NoDialogChange
       \/ SessionStep /\ UNCHANGED clicks /\ NoDialogChange
       \/ \E n \in Slots : SessionCallFails(n) /\ UNCHANGED clicks
    /\ UNCHANGED page

-----------------------------------------------------------------------------
(* Once the console is at rest, whoever it takes for signed in has a       *)
(* session, unless that ended elsewhere, while an answer about the user    *)
(* was on its way, or by a request whose answer was lost; and nobody else  *)
(* is on a page behind the guard, nor anybody but root on one of root's.   *)
SignedInHasSession ==
    page = "session" /\ Quiet =>
        /\ user # "none" => session \/ parted
        /\ route # "login" => user # "none"
        /\ route = "admin" => user = "root"

SessionFlagsFall ==
    page = "session" =>
        /\ booting => InFlightFor("self", "boot")
        /\ authLoading => \E op \in {"self", "login", "register", "logout"} : InFlight(op)
        /\ formSaves # 0 => ~Is(formSaves, "idle")
=============================================================================
