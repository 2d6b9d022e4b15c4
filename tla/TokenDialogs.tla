---------------------------- MODULE TokenDialogs ----------------------------
(***************************************************************************)
(* The two dialogs that a row of the page of tokens opens: one binds the   *)
(* token to a group of channels, the other shows its usage.  Both belong   *)
(* to the page and not to a token: their state is shared by all rows, and  *)
(* an answer is applied to whatever token the dialog is for when it comes. *)
(***************************************************************************)
EXTENDS Browser

CONSTANTS Rows,      \* the tokens of the table, all active
          Groups     \* the groups that these tokens may be bound to

ASSUME NoGroupAssumption == "none" \notin Groups \cup Rows

VARIABLES
    boundTo,             \* user_tokens.channel_group_id at the server
    rowGroup,            \* channel_group_id in the table of the page
    tokenChannelToken,
    channelDataLoaded,   \* tokenChannelData is there: its groups are offered
    selectedGroupID,
    channelLoading,
    channelSaving,
    usageToken,
    usageWindow,         \* the token whose usage is in the window
    windowLoading,
    selectedFor,         \* the token for which the group was read or chosen
    overlapped           \* a dialog was opened while one of its calls waited

dialogVars == <<boundTo, rowGroup, tokenChannelToken, channelDataLoaded, selectedGroupID,
                channelLoading, channelSaving, usageToken, usageWindow, windowLoading,
                selectedFor, overlapped>>

channelVars == <<tokenChannelToken, channelDataLoaded, selectedGroupID, channelLoading,
                 channelSaving, selectedFor>>
windowVars == <<usageToken, usageWindow, windowLoading>>

RowDialogs == {"channel", "usage"}
ChannelCalls == {"channel", "setChannel", "reloadChannel"}

DialogsInit ==
    /\ boundTo = [t \in Rows |-> "none"]
    /\ rowGroup = boundTo
    /\ tokenChannelToken = "none" /\ channelDataLoaded = FALSE /\ selectedGroupID = "none"
    /\ channelLoading = FALSE /\ channelSaving = FALSE
    /\ usageToken = "none" /\ usageWindow = "none" /\ windowLoading = FALSE
    /\ selectedFor = "none" /\ overlapped = FALSE

-----------------------------------------------------------------------------
(* The group of a token.                                                   *)

(* openTokenChannelModal, up to its await: the dialog is not shown yet.    *)
OpenTokenChannelModal(n, t) ==
    /\ Uncovered
    /\ tokenChannelToken' = t
    /\ channelDataLoaded' = FALSE
    /\ selectedGroupID' = rowGroup[t] /\ selectedFor' = t
    /\ channelLoading' = TRUE /\ channelSaving' = FALSE
    /\ overlapped' = (overlapped \/ \E op \in ChannelCalls : InFlight(op))
    /\ Free(n) /\ Send(n, "channel", <<t>>)
    /\ NoDialogChange
    /\ UNCHANGED <<boundTo, rowGroup, windowVars>>

ChannelAnswered(n) ==
    /\ Resumes(n, "channel")
    /\ channelDataLoaded' = Ok(n)
    /\ IF Ok(n) THEN selectedGroupID' = calls[n].data /\ selectedFor' = calls[n].arg[1]
                ELSE UNCHANGED <<selectedGroupID, selectedFor>>
    /\ channelLoading' = FALSE
    /\ Toggle("channel")
    /\ Finish(n)
    /\ UNCHANGED <<boundTo, rowGroup, tokenChannelToken, channelSaving, windowVars, overlapped>>

ChannelForm == Shows("channel") /\ tokenChannelToken # "none" /\ ~channelLoading /\ ~channelSaving

SelectGroup(g) ==
    /\ ChannelForm /\ channelDataLoaded
    /\ selectedGroupID' = g /\ selectedFor' = tokenChannelToken
    /\ NoDialogChange
    /\ UNCHANGED <<calls, boundTo, rowGroup, tokenChannelToken, channelDataLoaded,
                   channelLoading, channelSaving, windowVars, overlapped>>

SaveTokenChannel(n) ==
    /\ ChannelForm /\ selectedGroupID # "none"
    /\ channelSaving' = TRUE
    /\ Free(n) /\ Send(n, "setChannel", <<tokenChannelToken, selectedGroupID>>)
    /\ NoDialogChange
    /\ UNCHANGED <<boundTo, rowGroup, tokenChannelToken, channelDataLoaded, selectedGroupID,
                   channelLoading, windowVars, selectedFor, overlapped>>

SetChannelAnswered(n) ==
    /\ Resumes(n, "setChannel")
    /\ IF Ok(n) THEN Send(n, "reloadChannel", calls[n].arg) /\ UNCHANGED channelSaving
                ELSE Finish(n) /\ channelSaving' = FALSE
    /\ NoDialogChange
    /\ UNCHANGED <<boundTo, rowGroup, tokenChannelToken, channelDataLoaded, selectedGroupID,
                   channelLoading, windowVars, selectedFor, overlapped>>

(* An exception skips the row; an answer without success does not.         *)
ReloadAnswered(n) ==
    /\ Resumes(n, "reloadChannel")
    /\ LET t == calls[n].arg[1]  g == calls[n].arg[2]
       IN /\ IF Ok(n) THEN /\ channelDataLoaded' = TRUE
                           /\ selectedGroupID' = calls[n].data /\ selectedFor' = t
                      ELSE UNCHANGED <<channelDataLoaded, selectedGroupID, selectedFor>>
          /\ \/ rowGroup' = [rowGroup EXCEPT ![t] = g]
             \/ ~Ok(n) /\ UNCHANGED rowGroup
    /\ channelSaving' = FALSE
    /\ Finish(n)
    /\ NoDialogChange
    /\ UNCHANGED <<boundTo, tokenChannelToken, channelLoading, windowVars, overlapped>>

ChannelHidden ==
    /\ Faded("channel")
    /\ tokenChannelToken' = "none" /\ channelDataLoaded' = FALSE
    /\ selectedGroupID' = "none" /\ selectedFor' = "none"
    /\ channelLoading' = FALSE /\ channelSaving' = FALSE
    /\ UNCHANGED <<open, calls, boundTo, rowGroup, windowVars, overlapped>>

-----------------------------------------------------------------------------
(* The usage of a token.                                                   *)

RefreshWindow(n, t) == windowLoading' = TRUE /\ Free(n) /\ Send(n, "usage", <<t>>)

(* Mutant: the usage on display is left to the answer.                     *)
OpenTokenUsageModalKeeps(n, t) ==
    /\ Uncovered
    /\ usageToken' = t
    /\ overlapped' = (overlapped \/ InFlight("usage"))
    /\ Toggle("usage")
    /\ RefreshWindow(n, t)
    /\ UNCHANGED <<boundTo, rowGroup, channelVars, usageWindow>>

OpenTokenUsageModal(n, t) ==
    /\ Uncovered
    /\ usageToken' = t /\ usageWindow' = "none"
    /\ overlapped' = (overlapped \/ InFlight("usage"))
    /\ Toggle("usage")
    /\ RefreshWindow(n, t)
    /\ UNCHANGED <<boundTo, rowGroup, channelVars>>

WindowQuery(n) ==
    /\ Shows("usage") /\ usageToken # "none" /\ ~windowLoading
    /\ RefreshWindow(n, usageToken)
    /\ NoDialogChange
    /\ UNCHANGED <<boundTo, rowGroup, channelVars, usageToken, usageWindow, overlapped>>

WindowAnswered(n) ==
    /\ Resumes(n, "usage")
    /\ usageWindow' = IF Ok(n) THEN calls[n].arg[1] ELSE "none"
    /\ windowLoading' = FALSE
    /\ Finish(n)
    /\ NoDialogChange
    /\ UNCHANGED <<boundTo, rowGroup, channelVars, usageToken, overlapped>>

WindowHidden ==
    /\ Faded("usage")
    /\ usageToken' = "none" /\ usageWindow' = "none" /\ windowLoading' = FALSE
    /\ UNCHANGED <<open, calls, boundTo, rowGroup, channelVars, overlapped>>

RowDialogClose(d) ==
    /\ Shows(d)
    /\ Dismiss(d)
    /\ UNCHANGED <<calls, dialogVars>>

-----------------------------------------------------------------------------
(* The server: TokenStore::set_token_channel_group and the reads.          *)

ServeBinding(n) ==
    /\ Waits(n, "setChannel")
    /\ boundTo' = [boundTo EXCEPT ![calls[n].arg[1]] = calls[n].arg[2]]
    /\ Answer(n, <<>>)

ServeReads(n) ==
    /\ \/ (Waits(n, "channel") \/ Waits(n, "reloadChannel")) /\ Answer(n, boundTo[calls[n].arg[1]])
       \/ Waits(n, "usage") /\ Answer(n, <<>>)
    /\ UNCHANGED boundTo

DialogsServe(n) ==
    /\ ServeBinding(n) \/ ServeReads(n)
    /\ NoDialogChange
    /\ UNCHANGED <<rowGroup, channelVars, windowVars, overlapped>>

-----------------------------------------------------------------------------

DialogsResume(n) ==
    ChannelAnswered(n) \/ SetChannelAnswered(n) \/ ReloadAnswered(n) \/ WindowAnswered(n)

DialogsClick ==
    \/ \E n \in Slots, t \in Rows : OpenTokenChannelModal(n, t) \/ OpenTokenUsageModal(n, t)
    \/ \E n \in Slots : SaveTokenChannel(n) \/ WindowQuery(n)
    \/ \E g \in Groups : SelectGroup(g)
    \/ \E d \in RowDialogs : RowDialogClose(d)

DialogsStep ==
    \/ \E n \in Slots : DialogsServe(n) \/ DialogsResume(n)
    \/ ChannelHidden \/ WindowHidden

DialogsNext ==
    /\ page = "dialogs"
    /\ \/ DialogsClick /\ Clicked
       \/ DialogsStep /\ UNCHANGED clicks
       \/ \E n \in Slots : CallFails(n) /\ UNCHANGED <<clicks, dialogVars>>
    /\ UNCHANGED page

-----------------------------------------------------------------------------
(* As long as no dialog is opened while an answer for the previous one is  *)
(* under way, the group that a save would store was read or chosen for the *)
(* token of the dialog, and the usage on display is that token's.  Without *)
(* the condition neither holds: the handlers do not look whom they asked.  *)
DialogsKeepToTheirToken ==
    ~overlapped =>
        /\ tokenChannelToken # "none" /\ selectedGroupID # "none" => selectedFor = tokenChannelToken
        /\ usageToken # "none" /\ usageWindow # "none" => usageWindow = usageToken

(* The flags that disable the fields and buttons of the dialogs.           *)
DialogsFlagsFall ==
    page = "dialogs" =>
        /\ channelLoading => InFlight("channel")
        /\ channelSaving => InFlight("setChannel") \/ InFlight("reloadChannel")
        /\ windowLoading => InFlight("usage")
=============================================================================
