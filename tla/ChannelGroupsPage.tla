-------------------------- MODULE ChannelGroupsPage --------------------------
(***************************************************************************)
(* The page on which administrators keep the groups of channels: a list    *)
(* and one dialog, whose form is a draft of the group that the URL names.  *)
(*                                                                         *)
(* The content of a group (name, description, price) is a text, tagged     *)
(* with the group it was written for.  Members are left out; the requests  *)
(* that change them are not, since each reloads the detail of its group.   *)
(***************************************************************************)
EXTENDS Browser

CONSTANTS GroupIds,      \* ids of groups, also of those to be created
          OldGroups,     \* the groups that exist when the page is opened
          Texts          \* what the fields of a draft may hold

ASSUME GroupsAssumption == OldGroups \subseteq GroupIds /\ "none" \notin GroupIds

VARIABLES
    groupRow,        \* the table channel_groups
    groups,          \* the groups in the list
    groupsLoading,
    creatingDraft,
    selectedParam,   \* the group in the URL
    selectedGroup,   \* the group of the last detail
    draft,
    savedSnapshot,
    addChannelID,    \* a channel is chosen in the field that adds one
    detailLoading,
    groupSaving,
    groupsMixed      \* the dialog moved while a request for another group waited

formVars == <<selectedGroup, draft, savedSnapshot, addChannelID, detailLoading>>

groupsVars == <<groupRow, groups, groupsLoading, creatingDraft, selectedParam, formVars,
                groupSaving, groupsMixed>>

Empty == [of |-> "none", text |-> 0]        \* emptyDraft() and the empty snapshot
Content(g, text) == [of |-> g, text |-> text]

Existing == {g \in GroupIds : groupRow[g] # Empty}

GroupsInit ==
    /\ groupRow = [g \in GroupIds |-> IF g \in OldGroups THEN Content(g, 0) ELSE Empty]
    /\ groups = {} /\ groupsLoading = TRUE /\ creatingDraft = FALSE
    /\ selectedParam = "none" /\ selectedGroup = "none"
    /\ draft = Empty /\ savedSnapshot = Empty /\ addChannelID = FALSE
    /\ detailLoading = FALSE /\ groupSaving = FALSE
    /\ groupsMixed = FALSE

GroupsMount == <<Sent("groups", <<"stop", "none", FALSE>>)>>

IsDirty == selectedGroup # "none" /\ draft # savedSnapshot
SaveBlocked == selectedGroup = "none" \/ draft = Empty \/ ~IsDirty

-----------------------------------------------------------------------------
(* A call carries what its handler does afterwards: nothing, lower saving  *)
(* or creatingDraft, or reload the detail first; then the group, and       *)
(* whether the form follows the detail (syncForm).                         *)

Call(then, g, sync) == <<then, g, sync>>
Then(n) == calls[n].arg[1]
For(n) == calls[n].arg[2]
Sync(n) == calls[n].arg[3]

Settle(n) ==
    /\ groupSaving' = (groupSaving /\ Then(n) # "saved")
    /\ creatingDraft' = (creatingDraft /\ Then(n) # "created")

(* refresh() and refreshDetail(), up to their requests.                    *)
RefreshGroups(n, call) == groupsLoading' = TRUE /\ Send(n, "groups", call)
RefreshDetail(n, call) == detailLoading' = TRUE /\ Send(n, "detail", call)

GroupsAnswered(n) ==
    /\ Resumes(n, "groups")
    /\ groups' = IF Ok(n) THEN calls[n].data ELSE {}
    /\ groupsLoading' = FALSE
    /\ IF Then(n) = "detail"
       THEN /\ RefreshDetail(n, Call("saved", For(n), Sync(n)))
            /\ UNCHANGED <<groupSaving, creatingDraft>>
       ELSE Finish(n) /\ Settle(n) /\ UNCHANGED detailLoading
    /\ NoDialogChange
    /\ UNCHANGED <<groupRow, selectedParam, selectedGroup, draft, savedSnapshot, addChannelID,
                   groupsMixed>>

DetailAnswered(n) ==
    /\ Resumes(n, "detail")
    /\ selectedGroup' = IF Ok(n) THEN For(n) ELSE "none"
    /\ IF Sync(n) \/ ~Ok(n)
       THEN /\ draft' = IF Ok(n) THEN calls[n].data ELSE Empty
            /\ savedSnapshot' = draft'
       ELSE UNCHANGED <<draft, savedSnapshot>>
    /\ addChannelID' = (addChannelID /\ ~Sync(n))
    /\ detailLoading' = FALSE
    /\ Settle(n)
    /\ Finish(n)
    /\ NoDialogChange
    /\ UNCHANGED <<groupRow, groups, groupsLoading, selectedParam, groupsMixed>>

-----------------------------------------------------------------------------
(* The URL and the dialog.                                                 *)

ForAnother(n, g) == ~Is(n, "idle") /\ For(n) \notin {"none", g}

(* setSelectedParam(g) and the two effects that follow it.                 *)
Select(g) ==
    /\ selectedParam' = g
    /\ detailLoading' = TRUE
    /\ groupsMixed' = (groupsMixed \/ \E n \in Slots : ForAnother(n, g))
    /\ Show("group")

EditGroup(n, g) ==
    /\ Uncovered /\ ~groupsLoading /\ g \in groups
    /\ Select(g)
    /\ Free(n) /\ Send(n, "detail", Call("stop", g, TRUE))
    /\ UNCHANGED <<groupRow, groups, groupsLoading, creatingDraft, selectedGroup, draft,
                   savedSnapshot, addChannelID, groupSaving>>

GroupDialogClose ==
    /\ Shows("group")
    /\ Dismiss("group")
    /\ UNCHANGED <<calls, groupsVars>>

HandleModalHidden ==
    /\ Faded("group")
    /\ selectedParam' = "none" /\ selectedGroup' = "none"
    /\ draft' = Empty /\ savedSnapshot' = Empty
    /\ addChannelID' = FALSE /\ detailLoading' = FALSE
    /\ UNCHANGED <<open, calls, groupRow, groups, groupsLoading, creatingDraft, groupSaving,
                   groupsMixed>>

HandleStartCreate(n) ==
    /\ Uncovered /\ ~creatingDraft
    /\ creatingDraft' = TRUE
    /\ Free(n) /\ Send(n, "createGroup", Call("created", "none", FALSE))
    /\ NoDialogChange
    /\ UNCHANGED <<groupRow, groups, groupsLoading, selectedParam, formVars, groupSaving,
                   groupsMixed>>

(* A new id in the URL: the effect loads it while the list is reloaded.    *)
CreateGroupAnswered(n, m) ==
    /\ Resumes(n, "createGroup")
    /\ IF Ok(n)
       THEN LET g == calls[n].data
            IN /\ Select(g)
               /\ groupsLoading' = TRUE
               /\ SendBoth(n, "groups", Call("created", "none", FALSE),
                           m, "detail", Call("stop", g, TRUE))
               /\ UNCHANGED creatingDraft
       ELSE /\ creatingDraft' = FALSE
            /\ Finish(n)
            /\ NoDialogChange
            /\ UNCHANGED <<groupsLoading, selectedParam, detailLoading, groupsMixed>>
    /\ UNCHANGED <<groupRow, groups, selectedGroup, draft, savedSnapshot, addChannelID, groupSaving>>

-----------------------------------------------------------------------------
(* The form.                                                               *)

GroupForm == Shows("group") /\ ~detailLoading /\ selectedGroup # "none"

EditDraft(text) ==
    /\ GroupForm /\ text # draft.text
    /\ draft' = [draft EXCEPT !.text = text]
    /\ NoDialogChange
    /\ UNCHANGED <<calls, groupRow, groups, groupsLoading, creatingDraft, selectedParam,
                   selectedGroup, savedSnapshot, addChannelID, detailLoading, groupSaving, groupsMixed>>

ChooseChannel ==
    /\ GroupForm /\ ~addChannelID
    /\ addChannelID' = TRUE
    /\ NoDialogChange
    /\ UNCHANGED <<calls, groupRow, groups, groupsLoading, creatingDraft, selectedParam,
                   selectedGroup, draft, savedSnapshot, detailLoading, groupSaving, groupsMixed>>

(* The three handlers that raise saving; each keeps the selected group.    *)
SavingClick(n, op) ==
    /\ GroupForm /\ ~groupSaving
    /\ groupSaving' = TRUE
    /\ Free(n) /\ Send(n, op, Call("saved", selectedGroup, draft))
    /\ NoDialogChange
    /\ UNCHANGED <<groupRow, groups, groupsLoading, creatingDraft, selectedParam, formVars, groupsMixed>>

HandleSave(n) == ~SaveBlocked /\ SavingClick(n, "saveGroup")
HandleDelete(n) == SavingClick(n, "deleteGroup")
HandleSetDefault(n) == SavingClick(n, "setDefault")

(* Mutant: saving stays up when the request fails.                         *)
SaveAnsweredNoFinally(n) ==
    /\ Resumes(n, "saveGroup")
    /\ IF Ok(n)
       THEN /\ savedSnapshot' = Sync(n)
            /\ RefreshGroups(n, Call("detail", For(n), TRUE))
       ELSE Finish(n) /\ UNCHANGED <<savedSnapshot, groupsLoading>>
    /\ NoDialogChange
    /\ UNCHANGED <<groupRow, groups, creatingDraft, selectedParam, selectedGroup, draft,
                   addChannelID, detailLoading, groupSaving, groupsMixed>>

SaveAnswered(n) ==
    /\ Resumes(n, "saveGroup")
    /\ IF Ok(n)
       THEN /\ savedSnapshot' = Sync(n)
            /\ RefreshGroups(n, Call("detail", For(n), TRUE))
            /\ UNCHANGED groupSaving
       ELSE Finish(n) /\ groupSaving' = FALSE /\ UNCHANGED <<savedSnapshot, groupsLoading>>
    /\ NoDialogChange
    /\ UNCHANGED <<groupRow, groups, creatingDraft, selectedParam, selectedGroup, draft,
                   addChannelID, detailLoading, groupsMixed>>

DeleteAnswered(n) ==
    /\ Resumes(n, "deleteGroup")
    /\ IF Ok(n)
       THEN /\ Dismiss("group")
            /\ RefreshGroups(n, Call("saved", For(n), FALSE))
            /\ UNCHANGED groupSaving
       ELSE Finish(n) /\ NoDialogChange /\ groupSaving' = FALSE /\ UNCHANGED groupsLoading
    /\ UNCHANGED <<groupRow, groups, creatingDraft, selectedParam, formVars, groupsMixed>>

(* This server knows no default group: the request is always refused.      *)
SetDefaultAnswered(n) ==
    /\ Resumes(n, "setDefault")
    /\ Finish(n) /\ groupSaving' = FALSE
    /\ NoDialogChange
    /\ UNCHANGED <<groupRow, groups, groupsLoading, creatingDraft, selectedParam, formVars, groupsMixed>>

(* Adding a member; the buttons of the members send requests that this     *)
(* server refuses (order, pointer) or none at all (removal).               *)
AddMember(n) ==
    /\ GroupForm /\ addChannelID
    /\ Free(n) /\ Send(n, "member", Call("stop", selectedGroup, FALSE))
    /\ NoDialogChange
    /\ UNCHANGED groupsVars

MemberClick(n) ==
    /\ GroupForm
    /\ Free(n) /\ Send(n, "memberRefused", Call("stop", selectedGroup, FALSE))
    /\ NoDialogChange
    /\ UNCHANGED groupsVars

MemberAnswered(n) ==
    /\ Resumes(n, "member") \/ Resumes(n, "memberRefused")
    /\ IF Ok(n) THEN addChannelID' = FALSE /\ RefreshDetail(n, calls[n].arg)
                ELSE Finish(n) /\ UNCHANGED <<addChannelID, detailLoading>>
    /\ NoDialogChange
    /\ UNCHANGED <<groupRow, groups, groupsLoading, creatingDraft, selectedParam, selectedGroup,
                   draft, savedSnapshot, groupSaving, groupsMixed>>

-----------------------------------------------------------------------------
(* The server: channel_groups_dispatch.                                    *)

ServeGroupReads(n) ==
    /\ \/ Waits(n, "groups") /\ Answer(n, Existing)
       \/ Waits(n, "detail") /\ For(n) \in Existing /\ Answer(n, groupRow[For(n)])
       \/ Waits(n, "member") /\ For(n) \in Existing /\ Answer(n, <<>>)
    /\ UNCHANGED groupRow

ServeCreateGroup(n) ==
    /\ Waits(n, "createGroup")
    /\ \E g \in GroupIds \ Existing : groupRow' = [groupRow EXCEPT ![g] = Content(g, 0)]
                                      /\ Answer(n, g)

ServeSaveGroup(n) ==
    /\ Waits(n, "saveGroup") /\ For(n) \in Existing
    /\ groupRow' = [groupRow EXCEPT ![For(n)] = Sync(n)]
    /\ Answer(n, <<>>)

ServeDeleteGroup(n) ==
    /\ Waits(n, "deleteGroup") /\ For(n) \in Existing
    /\ groupRow' = [groupRow EXCEPT ![For(n)] = Empty]
    /\ Answer(n, <<>>)

GroupsServe(n) ==
    /\ ServeGroupReads(n) \/ ServeCreateGroup(n) \/ ServeSaveGroup(n) \/ ServeDeleteGroup(n)
    /\ NoDialogChange
    /\ UNCHANGED <<groups, groupsLoading, creatingDraft, selectedParam, formVars, groupSaving,
                   groupsMixed>>

-----------------------------------------------------------------------------

GroupsResume(n) ==
    \/ GroupsAnswered(n) \/ DetailAnswered(n) \/ SaveAnswered(n) \/ DeleteAnswered(n)
    \/ SetDefaultAnswered(n) \/ MemberAnswered(n)
    \/ \E m \in Slots : CreateGroupAnswered(n, m)

GroupsClick ==
    \/ \E n \in Slots : \/ \E g \in GroupIds : EditGroup(n, g)
                        \/ HandleStartCreate(n) \/ HandleSave(n) \/ HandleDelete(n)
                        \/ HandleSetDefault(n) \/ AddMember(n) \/ MemberClick(n)
    \/ \E text \in Texts : EditDraft(text)
    \/ ChooseChannel \/ GroupDialogClose

GroupsStep ==
    \/ \E n \in Slots : GroupsServe(n) \/ GroupsResume(n)
    \/ HandleModalHidden

GroupsNext ==
    /\ page = "groups"
    /\ \/ GroupsClick /\ Clicked
       \/ GroupsStep /\ UNCHANGED clicks
       \/ \E n \in Slots : CallFails(n) /\ UNCHANGED <<clicks, groupsVars>>
    /\ UNCHANGED page

-----------------------------------------------------------------------------
(* No group is ever stored with what was typed for another one, as long as *)
(* the dialog does not move to a group while requests for another wait.    *)
(* Without the condition it is: a reload without syncForm changes the      *)
(* group under the draft of another.                                       *)
GroupsKeepTheirText ==
    ~groupsMixed => \A g \in Existing : groupRow[g].of \in {g, "none"}

GroupsFlagsFall ==
    page = "groups" =>
        /\ groupsLoading => InFlight("groups")
        /\ detailLoading => InFlight("detail")
        /\ groupSaving => \E n \in Slots : ~Is(n, "idle") /\ Then(n) \in {"saved", "detail"}
        /\ creatingDraft => \E n \in Slots : ~Is(n, "idle") /\ Then(n) = "created"
=============================================================================
