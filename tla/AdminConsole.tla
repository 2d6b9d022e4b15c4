----------------------------- MODULE AdminConsole -----------------------------
(***************************************************************************)
(* The pages of the web console that only root has.  As in UserConsole one *)
(* of them is mounted.  The table and the dialogs of the page of channels  *)
(* are two pages here; what they share are the calls that refresh the      *)
(* rows, which each has in its own way.                                    *)
(***************************************************************************)
EXTENDS ChannelGroupsPage, ChannelsTable, ChannelSettings, UsersPage, UsageAdminPage, AdminDashboard

adminVars == <<browserVars, groupsVars, tableVars, settingsVars, usersVars, usageAdminVars,
               adminDashboardVars>>

AdminMount == CASE page = "groups"         -> GroupsMount
                [] page = "channels"       -> TableMount
                [] page = "settings"       -> SettingsMount
                [] page = "users"          -> UsersMount
                [] page = "usageAdmin"     -> UsageAdminMount
                [] page = "adminDashboard" -> AdminDashboardMount

AdminConsoleInit ==
    /\ page \in DOMAIN MaxClicks
    /\ BrowserInit(AdminMount)
    /\ GroupsInit /\ TableInit /\ UsersInit /\ UsageAdminInit /\ AdminDashboardInit
    /\ SettingsInit
    /\ page # "settings" => queryTarget = "none"

AdminConsoleNext ==
    \/ GroupsNext /\ UNCHANGED <<tableVars, settingsVars, usersVars, usageAdminVars, adminDashboardVars>>
    \/ TableNext /\ UNCHANGED <<groupsVars, settingsVars, usersVars, usageAdminVars, adminDashboardVars>>
    \/ SettingsNext /\ UNCHANGED <<groupsVars, tableVars, usersVars, usageAdminVars, adminDashboardVars>>
    \/ UsersNext /\ UNCHANGED <<groupsVars, tableVars, settingsVars, usageAdminVars, adminDashboardVars>>
    \/ UsageAdminNext /\ UNCHANGED <<groupsVars, tableVars, settingsVars, usersVars, adminDashboardVars>>
    \/ AdminDashboardNext /\ UNCHANGED <<groupsVars, tableVars, settingsVars, usersVars, usageAdminVars>>

AdminConsoleSpec == AdminConsoleInit /\ [][AdminConsoleNext]_adminVars

-----------------------------------------------------------------------------
(* What an administrator typed about one group, channel or user is never   *)
(* stored for another one.                                                 *)
NothingIsStoredForAnother ==
    GroupsKeepTheirText /\ ChannelsKeepTheirSettings /\ UsersKeepTheirFields

(* As UserFlagsFall: nothing stays disabled or "loading" for good.         *)
AdminFlagsFall ==
    /\ GroupsFlagsFall
    /\ TableFlagsFall
    /\ SettingsFlagsFall
    /\ UsersFlagsFall
    /\ UsageAdminFlagsFall
    /\ AdminDashboardFlagsFall
=============================================================================
