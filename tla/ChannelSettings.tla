--------------------------- MODULE ChannelSettings ---------------------------
(***************************************************************************)
(* The dialogs of the page of upstream channels: the settings of one       *)
(* channel, whose form is filled from the row of the table and again       *)
(* whenever the table changes, and the dialog that pins a channel.  How    *)
(* the table itself is refreshed is the matter of ChannelsTable.           *)
(*                                                                         *)
(* The settings of a channel are a text, tagged with the channel that they *)
(* were written for, the status, and whether groups are ticked.  Text 0    *)
(* stands for a name, base URL and key that are empty.  This server stores *)
(* no groups with a channel: the page shows the ones that it saved until   *)
(* its rows are loaded again.                                              *)
(***************************************************************************)
EXTENDS Browser

CONSTANTS ChannelIds,     \* ids of channels, also of those to be created
          OldChannels     \* the channels that exist when the page is opened

ASSUME ChannelsAssumption == OldChannels \subseteq ChannelIds /\ "none" \notin ChannelIds

VARIABLES
    channelRow,          \* the table channels of the server
    channels,            \* the rows of the page
    rowsLoading,
    creatingType,
    queryTarget,         \* open_channel_settings in the URL, until it is handled
    settingsChannelID,
    settingsChannel,     \* the row is there and the form is shown
    form,                \* the seven edit fields
    formEdited,          \* they differ from what they were filled with
    commonSaving,        \* saving of the ChannelCommonTab that is mounted
    tabSaves,            \* the handlers of that tab; those of a tab before do not touch its flag
    pointerTarget

commonTabVars == <<commonSaving, tabSaves>>
settingsVars == <<channelRow, channels, rowsLoading, creatingType, queryTarget, settingsChannelID,
                  settingsChannel, form, formEdited, commonTabVars, pointerTarget>>

NoChannel == [of |-> "none", text |-> 0, status |-> FALSE, grouped |-> FALSE]
NewChannel(c) == [of |-> c, text |-> 1, status |-> TRUE, grouped |-> FALSE]

Known == {c \in ChannelIds : channels[c] # NoChannel}

SettingsInit ==
    /\ channelRow = [c \in ChannelIds |-> IF c \in OldChannels THEN NewChannel(c) ELSE NoChannel]
    /\ channels = [c \in ChannelIds |-> NoChannel]
    /\ rowsLoading = TRUE /\ creatingType = FALSE
    /\ queryTarget \in OldChannels \cup {"none"}
    /\ settingsChannelID = "none" /\ settingsChannel = FALSE
    /\ form = NoChannel /\ formEdited = FALSE
    /\ commonSaving = FALSE /\ tabSaves = {}
    /\ pointerTarget = "none"

SettingsMount == <<Sent("rows", <<"none">>)>>

-----------------------------------------------------------------------------
(* openChannelSettingsModal with a row, and the effect that follows a      *)
(* change of the id or of the rows: it fills the form from the rows.       *)

OpensSettings(c, rows) ==
    /\ settingsChannelID' = c
    /\ settingsChannel' = TRUE
    /\ form' = rows[c] /\ formEdited' = FALSE
    /\ commonSaving' = (commonSaving /\ settingsChannelID = c)
    /\ UNCHANGED tabSaves
    /\ Show("settings")

(* Mutant: the effect does not depend on the rows.                         *)
ReloadsSettingsNot(rows) ==
    /\ settingsChannel' = (settingsChannel /\ rows[settingsChannelID] # NoChannel)
    /\ NoDialogChange
    /\ UNCHANGED <<settingsChannelID, form, formEdited, commonTabVars>>

(* Without a row the tab is unmounted.                                     *)
TabUnmounts == commonSaving' = FALSE /\ tabSaves' = {}

ReloadsSettings(rows) ==
    /\ IF settingsChannelID = "none" THEN UNCHANGED <<settingsChannel, form, formEdited, commonTabVars>>
       ELSE /\ settingsChannel' = (rows[settingsChannelID] # NoChannel)
            /\ IF rows[settingsChannelID] = NoChannel THEN TabUnmounts /\ UNCHANGED <<form, formEdited>>
               ELSE form' = rows[settingsChannelID] /\ formEdited' = FALSE /\ UNCHANGED commonTabVars
    /\ NoDialogChange
    /\ UNCHANGED settingsChannelID

RefreshRows(n, created) == rowsLoading' = TRUE /\ Send(n, "rows", <<created>>)

(* A refresh returns its rows to the handler that created a channel, which *)
(* opens it; the first one of all opens the channel that the URL names.    *)
RowsAnswered(n) ==
    /\ Resumes(n, "rows")
    /\ LET rows == IF Ok(n) THEN calls[n].data ELSE channels
           created == calls[n].arg[1]
           target == IF Ok(n) /\ created # "none" THEN created ELSE queryTarget
       IN /\ channels' = rows
          /\ IF target # "none" /\ rows[target] # NoChannel THEN OpensSettings(target, rows)
             ELSE IF Ok(n) THEN ReloadsSettings(rows)
             ELSE NoDialogChange /\ UNCHANGED <<settingsChannelID, settingsChannel, form, formEdited,
                                                commonTabVars>>
          /\ creatingType' = (creatingType /\ created = "none")
    /\ queryTarget' = "none"
    /\ rowsLoading' = FALSE
    /\ Finish(n)
    /\ UNCHANGED <<channelRow, pointerTarget>>

-----------------------------------------------------------------------------
(* Buttons of the page.                                                    *)

ChannelButton(c) == Uncovered /\ ~rowsLoading /\ c \in Known

SettingsClick(c) ==
    /\ ChannelButton(c)
    /\ OpensSettings(c, channels)
    /\ UNCHANGED <<calls, channelRow, channels, rowsLoading, creatingType, queryTarget, pointerTarget>>

StartCreate(n) ==
    /\ Uncovered /\ ~creatingType
    /\ creatingType' = TRUE
    /\ Free(n) /\ Send(n, "createChannel", <<"none">>)
    /\ NoDialogChange
    /\ UNCHANGED <<channelRow, channels, rowsLoading, queryTarget, settingsChannelID, settingsChannel,
                   form, formEdited, commonTabVars, pointerTarget>>

CreatedAnswered(n) ==
    /\ Resumes(n, "createChannel")
    /\ IF Ok(n) THEN RefreshRows(n, calls[n].data) /\ UNCHANGED creatingType
                ELSE Finish(n) /\ creatingType' = FALSE /\ UNCHANGED rowsLoading
    /\ NoDialogChange
    /\ UNCHANGED <<channelRow, channels, queryTarget, settingsChannelID, settingsChannel, form,
                   formEdited, commonTabVars, pointerTarget>>

(* Switching a channel on or off.  The handler compares the id of its row  *)
(* with the settings that were open at the click, when no dialog was.      *)
ToggleStatus(n, c) ==
    /\ ChannelButton(c)
    /\ Free(n) /\ Send(n, "status", <<c, ~channels[c].status>>)
    /\ NoDialogChange
    /\ UNCHANGED settingsVars

DeleteChannel(n, c) ==
    /\ ChannelButton(c)
    /\ Free(n) /\ Send(n, "deleteChannel", <<c>>)
    /\ NoDialogChange
    /\ UNCHANGED settingsVars

RowChanged(n) ==
    /\ Resumes(n, "status") \/ Resumes(n, "deleteChannel")
    /\ IF Ok(n) THEN RefreshRows(n, "none") ELSE Finish(n) /\ UNCHANGED rowsLoading
    /\ NoDialogChange
    /\ UNCHANGED <<channelRow, channels, creatingType, queryTarget, settingsChannelID,
                   settingsChannel, form, formEdited, commonTabVars, pointerTarget>>

-----------------------------------------------------------------------------
(* The settings.                                                           *)

SettingsForm == Shows("settings") /\ settingsChannelID # "none" /\ settingsChannel /\ ~commonSaving

EditForm ==
    /\ SettingsForm
    /\ \/ \E text \in {1, 2} \ {form.text} : form' = [form EXCEPT !.text = text]
       \/ form' = [form EXCEPT !.status = ~@]
       \/ form' = [form EXCEPT !.grouped = ~@]
    /\ formEdited' = TRUE
    /\ NoDialogChange
    /\ UNCHANGED <<calls, channelRow, channels, rowsLoading, creatingType, queryTarget,
                   settingsChannelID, settingsChannel, commonTabVars, pointerTarget>>

SaveCommonSettings(n) ==
    /\ SettingsForm /\ form.text # 0
    /\ commonSaving' = TRUE /\ tabSaves' = tabSaves \cup {n}
    /\ Free(n) /\ Send(n, "saveChannel", <<settingsChannelID, form>>)
    /\ NoDialogChange
    /\ UNCHANGED <<channelRow, channels, rowsLoading, creatingType, queryTarget, settingsChannelID,
                   settingsChannel, form, formEdited, pointerTarget>>

(* applyChannelPatch changes the rows, and so the form is filled again.    *)
SaveChannelAnswered(n) ==
    /\ Resumes(n, "saveChannel")
    /\ LET c == calls[n].arg[1]
           rows == IF channels[c] = NoChannel THEN channels
                   ELSE [channels EXCEPT ![c] = calls[n].arg[2]]
       IN IF Ok(n)
          THEN /\ channels' = rows
               /\ IF settingsChannelID = "none" \/ rows[settingsChannelID] = NoChannel
                  THEN /\ settingsChannel' = (settingsChannel /\ settingsChannelID = "none")
                       /\ UNCHANGED <<form, formEdited>>
                  ELSE /\ settingsChannel' = TRUE
                       /\ form' = rows[settingsChannelID] /\ formEdited' = FALSE
          ELSE UNCHANGED <<channels, settingsChannel, form, formEdited>>
    /\ commonSaving' = (commonSaving /\ n \notin tabSaves) /\ tabSaves' = tabSaves \ {n}
    /\ Finish(n)
    /\ NoDialogChange
    /\ UNCHANGED <<channelRow, rowsLoading, creatingType, queryTarget, settingsChannelID, pointerTarget>>

SettingsHidden ==
    /\ Faded("settings")
    /\ settingsChannelID' = "none" /\ settingsChannel' = FALSE
    /\ formEdited' = FALSE
    /\ TabUnmounts
    /\ UNCHANGED <<open, calls, channelRow, channels, rowsLoading, creatingType, queryTarget, form,
                   pointerTarget>>

-----------------------------------------------------------------------------
(* The pointer of a group of the channel.  This server refuses the request. *)

PointerClick(c) ==
    /\ ChannelButton(c) /\ channels[c].status /\ channels[c].grouped
    /\ pointerTarget' = c
    /\ Toggle("pointer")
    /\ UNCHANGED <<calls, channelRow, channels, rowsLoading, creatingType, queryTarget,
                   settingsChannelID, settingsChannel, form, formEdited, commonTabVars>>

PointerSubmit(n) ==
    /\ Shows("pointer") /\ pointerTarget # "none"
    /\ Free(n) /\ Send(n, "setPointer", <<pointerTarget>>)
    /\ NoDialogChange
    /\ UNCHANGED settingsVars

PointerRefused(n) ==
    /\ Resumes(n, "setPointer")
    /\ Finish(n)
    /\ NoDialogChange
    /\ UNCHANGED settingsVars

PointerHidden ==
    /\ Faded("pointer")
    /\ pointerTarget' = "none"
    /\ UNCHANGED <<open, calls, channelRow, channels, rowsLoading, creatingType, queryTarget,
                   settingsChannelID, settingsChannel, form, formEdited, commonTabVars>>

ChannelDialogClose(d) ==
    /\ Shows(d)
    /\ Dismiss(d)
    /\ UNCHANGED <<calls, settingsVars>>

-----------------------------------------------------------------------------
(* The server.                                                             *)

ServeRows(n) == Waits(n, "rows") /\ Answer(n, channelRow) /\ UNCHANGED channelRow

ServeCreateChannel(n) ==
    /\ Waits(n, "createChannel")
    /\ \E c \in ChannelIds : /\ channelRow[c] = NoChannel
                             /\ channelRow' = [channelRow EXCEPT ![c] = NewChannel(c)]
                             /\ Answer(n, c)

(* A request that leaves out the name, the base URL and the key, as the    *)
(* button that switches a channel on or off does, stores them empty.       *)
ServeChannelChange(n) ==
    /\ Waits(n, "status") \/ Waits(n, "deleteChannel") \/ Waits(n, "saveChannel")
    /\ LET c == calls[n].arg[1]
       IN /\ channelRow[c] # NoChannel
          /\ channelRow' = [channelRow EXCEPT ![c] =
                CASE Is(n, "status") -> [@ EXCEPT !.text = 0, !.status = calls[n].arg[2]]
                  [] Is(n, "deleteChannel") -> NoChannel
                  [] Is(n, "saveChannel") -> [calls[n].arg[2] EXCEPT !.grouped = FALSE]]
    /\ Answer(n, <<>>)

SettingsServe(n) ==
    /\ ServeRows(n) \/ ServeCreateChannel(n) \/ ServeChannelChange(n)
    /\ NoDialogChange
    /\ UNCHANGED <<channels, rowsLoading, creatingType, queryTarget, settingsChannelID,
                   settingsChannel, form, formEdited, commonTabVars, pointerTarget>>

-----------------------------------------------------------------------------

SettingsClicks ==
    \/ \E c \in ChannelIds : SettingsClick(c) \/ PointerClick(c)
    \/ \E n \in Slots, c \in ChannelIds : ToggleStatus(n, c) \/ DeleteChannel(n, c)
    \/ \E n \in Slots : StartCreate(n) \/ SaveCommonSettings(n) \/ PointerSubmit(n)
    \/ EditForm
    \/ \E d \in {"settings", "pointer"} : ChannelDialogClose(d)

SettingsStep ==
    \/ \E n \in Slots : SettingsServe(n) \/ RowsAnswered(n) \/ CreatedAnswered(n) \/ RowChanged(n)
                        \/ SaveChannelAnswered(n) \/ PointerRefused(n)
    \/ SettingsHidden \/ PointerHidden

SettingsNext ==
    /\ page = "settings"
    /\ \/ SettingsClicks /\ Clicked
       \/ SettingsStep /\ UNCHANGED clicks
       \/ \E n \in Slots : CallFails(n) /\ UNCHANGED <<clicks, settingsVars>>
    /\ UNCHANGED page

-----------------------------------------------------------------------------
(* A channel is stored with nothing that was typed into the form of        *)
(* another channel, and what a save of the form would store belongs to the *)
(* channel it would store it for and is what its row says or what was      *)
(* typed, in whatever order answers arrive and dialogs open: the id and    *)
(* the fields always change together.                                      *)
ChannelsKeepTheirSettings ==
    /\ \A c \in ChannelIds : channelRow[c].of \in {c, "none"}
    /\ SettingsForm => /\ form.of = settingsChannelID
                       /\ formEdited \/ form = channels[settingsChannelID]

SettingsFlagsFall ==
    page = "settings" =>
        /\ rowsLoading => InFlight("rows")
        /\ creatingType => InFlight("createChannel") \/ \E n \in Slots : Is(n, "rows")
                                                                /\ calls[n].arg[1] # "none"
        /\ commonSaving => InFlight("saveChannel")
=============================================================================
