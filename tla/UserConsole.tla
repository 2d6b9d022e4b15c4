----------------------------- MODULE UserConsole -----------------------------
(***************************************************************************)
(* The pages of the web console that every user has.  The router mounts    *)
(* one of them, and it starts from its initial state.  The two dialogs of  *)
(* a row of the page of tokens are a page of their own here: they share    *)
(* nothing with the rest of it but the table, which both only read; and so *)
(* is the strip above the table of events, which only tells its page what  *)
(* was picked.                                                             *)
(***************************************************************************)
EXTENDS TokensPage, TokenDialogs, UsagePage, SessionPages, Dashboard, Popovers

consoleVars == <<browserVars, tokensVars, dialogVars, usageVars, sessionVars, dashboardVars,
                 popoverVars>>

Mount == CASE page = "tokens"    -> TokensMount
           [] page = "dialogs"   -> <<>>
           [] page = "usage"     -> UsageMount
           [] page = "session"   -> SessionMount
           [] page = "dashboard" -> DashboardMount
           [] page = "popovers"  -> <<>>

UserConsoleInit ==
    /\ page \in DOMAIN MaxClicks
    /\ BrowserInit(Mount)
    /\ TokensInit /\ DialogsInit /\ UsageInit /\ DashboardInit /\ PopoversInit
    /\ SessionInit
    /\ page # "session" => role = "user" /\ session /\ route = "app"
    /\ page # "popovers" => given = CHOOSE r \in Ranges : TRUE

UserConsoleNext ==
    \/ TokensNext /\ UNCHANGED <<dialogVars, usageVars, sessionVars, dashboardVars, popoverVars>>
    \/ DialogsNext /\ UNCHANGED <<tokensVars, usageVars, sessionVars, dashboardVars, popoverVars>>
    \/ UsageNext /\ UNCHANGED <<tokensVars, dialogVars, sessionVars, dashboardVars, popoverVars>>
    \/ SessionNext /\ UNCHANGED <<tokensVars, dialogVars, usageVars, dashboardVars, popoverVars>>
    \/ DashboardNext /\ UNCHANGED <<tokensVars, dialogVars, usageVars, sessionVars, popoverVars>>
    \/ PopoversNext /\ UNCHANGED <<tokensVars, dialogVars, usageVars, sessionVars, dashboardVars>>

UserConsoleSpec == UserConsoleInit /\ [][UserConsoleNext]_consoleVars

-----------------------------------------------------------------------------
(* Nothing on these pages stays disabled or "loading" for good: each flag  *)
(* is up only while a handler waits that will lower it, and the panel of   *)
(* the filters lags behind its button only while a frame or timer runs.    *)
UserFlagsFall ==
    /\ TokensFlagsFall
    /\ DialogsFlagsFall
    /\ UsageFlagsFall
    /\ SessionFlagsFall
    /\ DashboardFlagsFall
    /\ PanelFollows
=============================================================================
