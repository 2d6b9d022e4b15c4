-------------------------- MODULE AdminConsoleProofs --------------------------
(***************************************************************************)
(* The console of root is proved here, as that of every user is in         *)
(* UserConsoleProofs: what each of its pages never stores, shows or does,  *)
(* in the specification of the whole console, and that the series under a  *)
(* row of the table of channels implements LastRequest.                    *)
(***************************************************************************)
EXTENDS AdminConsole, ConsoleLemmas

-----------------------------------------------------------------------------
(* The groups of channels.                                                 *)

(* The content of a group or form, with the group it was typed for.        *)
Contents == [of : GroupIds \cup {"none"}, text : Texts \cup {0}]

(* What a call of each kind carries.                                       *)
GroupCallTyped(n) ==
    \/ Is(n, "idle")
    \/ /\ Is(n, "groups")
       /\ For(n) \in GroupIds \cup {"none"}
       /\ Then(n) \in {"stop", "saved", "created", "detail"}
       /\ Then(n) = "detail" => For(n) # "none" /\ Sync(n) = TRUE
    \/ /\ Is(n, "detail")
       /\ For(n) \in GroupIds /\ Then(n) \in {"stop", "saved"} /\ Sync(n) \in BOOLEAN
       /\ calls[n].stage = "answered" /\ Ok(n) => calls[n].data \in Contents
    \/ /\ calls[n].op \in {"saveGroup", "deleteGroup", "setDefault"}
       /\ For(n) \in GroupIds /\ Then(n) = "saved" /\ Sync(n) \in Contents
    \/ /\ Is(n, "createGroup")
       /\ For(n) = "none" /\ Then(n) = "created"
       /\ calls[n].stage = "answered" /\ Ok(n) => calls[n].data \in GroupIds
    \/ /\ calls[n].op \in {"member", "memberRefused"}
       /\ For(n) \in GroupIds /\ Then(n) = "stop" /\ Sync(n) = FALSE

(* What a call will store or put into the form is of its group, and the    *)
(* draft that a reload of it leaves alone is of this group as well.        *)
GroupCallFits(n) ==
    /\ Is(n, "saveGroup") => Sync(n).of \in {For(n), "none"}
    /\ Is(n, "detail") /\ calls[n].stage = "answered" /\ Ok(n) => calls[n].data.of \in {For(n), "none"}
    /\ calls[n].op \in {"member", "memberRefused"} \/ (Is(n, "detail") /\ ~Sync(n))
          => draft.of \in {For(n), "none"}

(* No two calls are for two groups, nor is one for a group that is not the *)
(* selected one, unless its detail is still to come.                       *)
GroupCallsAgree ==
    /\ \A n, m \in Slots : ~Is(n, "idle") /\ For(n) # "none" => ~ForAnother(m, For(n))
    /\ selectedGroup # "none" /\ ~detailLoading => \A n \in Slots : ~ForAnother(n, selectedGroup)

(* Every stored text is of the group in whose row it is.                   *)
RowsOfGroups == \A g \in GroupIds : groupRow[g].of \in {g, "none"}

(* What holds unless the dialog was moved to another group meanwhile.      *)
GroupsFit ==
    /\ RowsOfGroups
    /\ draft.of \in {selectedGroup, "none"}
    /\ \A n \in Slots : GroupCallFits(n)
    /\ GroupCallsAgree

GroupsState ==
    /\ groupRow \in [GroupIds -> Contents] /\ draft \in Contents
    /\ selectedGroup \in GroupIds \cup {"none"}
    /\ groupsLoading \in BOOLEAN /\ detailLoading \in BOOLEAN
    /\ groupSaving \in BOOLEAN /\ creatingDraft \in BOOLEAN /\ groupsMixed \in BOOLEAN
    /\ \A n \in Slots : GroupCallTyped(n)
    /\ ~groupsMixed => GroupsFit
    /\ GroupsFlagsFall

GroupsInv ==
    /\ page = "groups" => ShapedCalls /\ GroupsState
    /\ page # "groups" => RowsOfGroups

LEMMA GroupsInvIsEnough == GroupsInv => GroupsKeepTheirText /\ GroupsFlagsFall
  BY DEF GroupsInv, GroupsState, GroupsFit, RowsOfGroups, GroupsKeepTheirText, Existing,
     GroupsFlagsFall

LEMMA GroupsStart ==
    ASSUME GroupsInit, page = "groups" => BrowserInit(GroupsMount)
    PROVE  GroupsInv
  <1>1. /\ groupRow \in [GroupIds -> Contents] /\ RowsOfGroups
        /\ draft \in Contents /\ draft.of = "none"
    <2>1. Empty \in Contents /\ \A g \in GroupIds : Content(g, 0) \in Contents
      BY DEF Empty, Content, Contents
    <2>2. QED
      BY <2>1, GroupsAssumption DEF GroupsInit, RowsOfGroups, Empty, Content
  <1>2. CASE page # "groups"
    BY <1>1, <1>2 DEF GroupsInv
  <1>3. CASE page = "groups"
    <2>1. /\ ShapedCalls /\ 1 \in Slots
          /\ calls[1].op = "groups" /\ calls[1].arg = <<"stop", "none", FALSE>>
          /\ \A n \in Slots \ {1} : calls[n] = Idle
      BY <1>3, OneIsMounted DEF GroupsMount
    <2>2. \A n \in Slots : For(n) = "none" \/ Is(n, "idle")
      BY <2>1, IdleIsCall DEF For, Is
    <2>3. ASSUME NEW n \in Slots PROVE GroupCallTyped(n) /\ GroupCallFits(n)
      <3>1. CASE n = 1
        BY <2>1, <3>1 DEF GroupCallTyped, GroupCallFits, Is, For, Then
      <3>2. CASE n # 1
        BY <2>1, <3>2, IdleIsCall DEF GroupCallTyped, GroupCallFits, Is
      <3>3. QED
        BY <3>1, <3>2
    <2>4. GroupCallsAgree
      BY <2>2 DEF GroupCallsAgree, ForAnother, GroupsInit
    <2>5. GroupsFlagsFall
      BY <2>1 DEF GroupsFlagsFall, GroupsInit, InFlight, Is
    <2>6. GroupsState
      BY <1>1, <2>3, <2>4, <2>5 DEF GroupsState, GroupsFit, GroupsInit
    <2>7. QED
      BY <1>3, <2>1, <2>6 DEF GroupsInv
  <1>4. QED
    BY <1>2, <1>3

-----------------------------------------------------------------------------
(* What a step of one handler does to the flags.                           *)

LEMMA GroupFlagsKeep ==
    ASSUME page = "groups", GroupsFlagsFall, NEW n \in Slots, OnlySlot(n),
           groupsLoading' => (groupsLoading /\ calls[n].op # "groups") \/ calls'[n].op = "groups",
           detailLoading' => (detailLoading /\ calls[n].op # "detail") \/ calls'[n].op = "detail",
           groupSaving' => \/ groupSaving /\ ~(calls[n].op # "idle" /\ calls[n].arg[1] \in {"saved", "detail"})
                           \/ calls'[n].op # "idle" /\ calls'[n].arg[1] \in {"saved", "detail"},
           creatingDraft' => \/ creatingDraft /\ ~(calls[n].op # "idle" /\ calls[n].arg[1] = "created")
                             \/ calls'[n].op # "idle" /\ calls'[n].arg[1] = "created"
    PROVE  GroupsFlagsFall'
  <1>1. ASSUME groupsLoading' PROVE \E m \in Slots : calls'[m].op = "groups"
    BY <1>1 DEF GroupsFlagsFall, InFlight, Is, OnlySlot
  <1>2. ASSUME detailLoading' PROVE \E m \in Slots : calls'[m].op = "detail"
    BY <1>2 DEF GroupsFlagsFall, InFlight, Is, OnlySlot
  <1>3. ASSUME groupSaving'
        PROVE  \E m \in Slots : calls'[m].op # "idle" /\ calls'[m].arg[1] \in {"saved", "detail"}
    BY <1>3 DEF GroupsFlagsFall, Is, Then, OnlySlot
  <1>4. ASSUME creatingDraft'
        PROVE  \E m \in Slots : calls'[m].op # "idle" /\ calls'[m].arg[1] = "created"
    BY <1>4 DEF GroupsFlagsFall, Is, Then, OnlySlot
  <1>5. QED
    BY <1>1, <1>2, <1>3, <1>4 DEF GroupsFlagsFall, InFlight, Is, Then

(* A step after which what waits for a group is what waited for it, or     *)
(* waits for g, which nothing contradicts.                                 *)
LEMMA GroupsAgree ==
    ASSUME GroupCallsAgree, NEW g,
           \A m \in Slots : \/ calls'[m].op = "idle"
                            \/ calls'[m].arg[2] \in {"none", g}
                            \/ calls[m].op # "idle" /\ calls'[m].arg[2] = calls[m].arg[2],
           g # "none" => \A m \in Slots : ~ForAnother(m, g),
           selectedGroup' = selectedGroup,
           ~detailLoading' /\ selectedGroup # "none" => ~detailLoading /\ g \in {"none", selectedGroup}
    PROVE  GroupCallsAgree'
  <1>1. ASSUME NEW n \in Slots, NEW m \in Slots, calls'[n].op # "idle", calls'[n].arg[2] # "none"
        PROVE  calls'[m].op = "idle" \/ calls'[m].arg[2] \in {"none", calls'[n].arg[2]}
    BY <1>1 DEF GroupCallsAgree, ForAnother, Is, For
  <1>2. ASSUME selectedGroup' # "none", ~detailLoading', NEW n \in Slots
        PROVE  calls'[n].op = "idle" \/ calls'[n].arg[2] \in {"none", selectedGroup'}
    BY <1>2 DEF GroupCallsAgree, ForAnother, Is, For
  <1>3. QED
    BY <1>1, <1>2 DEF GroupCallsAgree, ForAnother, Is, For

LEMMA GroupCallStays ==
    ASSUME NEW n \in Slots, calls'[n] = calls[n], draft'.of = draft.of
    PROVE  /\ GroupCallTyped(n) => GroupCallTyped(n)'
           /\ GroupCallFits(n) => GroupCallFits(n)'
  <1>1. GroupCallTyped(n) => GroupCallTyped(n)'
    BY DEF GroupCallTyped, Is, For, Then, Sync, Ok
  <1>2. GroupCallFits(n) => GroupCallFits(n)'
    BY DEF GroupCallFits, Is, For, Sync, Ok
  <1>3. QED
    BY <1>1, <1>2

(* The steps that leave alone all but the text of the draft.               *)
LEMMA GroupsStayButForDraft ==
    ASSUME GroupsInv, page = "groups", draft' \in Contents, draft'.of = draft.of,
           UNCHANGED <<page, calls, groupRow, selectedGroup, groupsLoading, detailLoading,
                       groupSaving, creatingDraft, groupsMixed>>
    PROVE  GroupsInv'
  <1>1. ShapedCalls /\ GroupsState
    BY DEF GroupsInv
  <1>2. ShapedCalls'
    BY <1>1 DEF ShapedCalls
  <1>3. GroupsFlagsFall'
    BY <1>1 DEF GroupsState, GroupsFlagsFall, InFlight, Is, Then
  <1>4. \A n \in Slots : GroupCallTyped(n)' /\ (GroupCallFits(n) => GroupCallFits(n)')
    BY <1>1, GroupCallStays DEF GroupsState
  <1>5. ~groupsMixed' => GroupsFit'
    <2>1. GroupCallsAgree => GroupCallsAgree'
      BY DEF GroupCallsAgree, ForAnother, Is, For
    <2>2. QED
      BY <1>1, <1>4, <2>1 DEF GroupsState, GroupsFit, RowsOfGroups
  <1>6. GroupsState'
    BY <1>1, <1>3, <1>4, <1>5 DEF GroupsState
  <1>7. QED
    BY <1>2, <1>6 DEF GroupsInv

(* The steps of the other pages.                                           *)
LEMMA GroupsStay ==
    ASSUME GroupsInv, UNCHANGED <<page, groupsVars>>, page = "groups" => UNCHANGED browserVars
    PROVE  GroupsInv'
  <1>1. CASE page = "groups"
    <2>1. UNCHANGED <<page, calls, groupRow, selectedGroup, groupsLoading, detailLoading,
                      groupSaving, creatingDraft, groupsMixed, draft>>
      BY <1>1 DEF browserVars, groupsVars, formVars
    <2>2. draft \in Contents
      BY <1>1 DEF GroupsInv, GroupsState
    <2>3. QED
      BY <1>1, <2>1, <2>2, GroupsStayButForDraft
  <1>2. CASE page # "groups"
    BY <1>2 DEF GroupsInv, groupsVars, RowsOfGroups
  <1>3. QED
    BY <1>1, <1>2

LEMMA IdleGroupCall ==
    ASSUME NEW n \in Slots, calls'[n].op = "idle"
    PROVE  GroupCallTyped(n)' /\ GroupCallFits(n)'
  BY DEF GroupCallTyped, GroupCallFits, Is

(* A step of one handler that leaves the form to its group.                *)
LEMMA GroupsMove ==
    ASSUME GroupsInv, page = "groups", page' = page,
           NEW n \in Slots, ShapedCalls', OnlySlot(n),
           UNCHANGED <<groupRow, selectedGroup, draft>>,
           groupsLoading' \in BOOLEAN, detailLoading' \in BOOLEAN, groupSaving' \in BOOLEAN,
           creatingDraft' \in BOOLEAN, groupsMixed' \in BOOLEAN,
           GroupsFlagsFall',
           GroupCallTyped(n)', ~groupsMixed' => GroupCallFits(n)',
           ~groupsMixed' => ~groupsMixed,
           NEW g,
           \/ calls'[n].op = "idle"
           \/ calls'[n].arg[2] \in {"none", g}
           \/ calls[n].op # "idle" /\ calls'[n].arg[2] = calls[n].arg[2],
           ~groupsMixed' /\ g # "none" => \A m \in Slots : ~ForAnother(m, g),
           ~detailLoading' => ~detailLoading /\ g \in {"none", selectedGroup}
    PROVE  GroupsInv'
  <1>1. ShapedCalls /\ GroupsState
    BY DEF GroupsInv
  <1>2. ASSUME NEW m \in Slots
        PROVE  GroupCallTyped(m)' /\ (~groupsMixed' /\ GroupCallFits(m) => GroupCallFits(m)')
    <2>1. CASE m = n
      BY <2>1
    <2>2. CASE m # n
      <3>1. calls'[m] = calls[m] /\ draft'.of = draft.of
        BY <2>2 DEF OnlySlot
      <3>2. QED
        BY <1>1, <3>1, GroupCallStays DEF GroupsState
    <2>3. QED
      BY <2>1, <2>2
  <1>3. ASSUME ~groupsMixed' PROVE GroupsFit'
    <2>1. GroupsFit /\ \A m \in Slots : g # "none" => ~ForAnother(m, g)
      BY <1>1, <1>3 DEF GroupsState
    <2>2. GroupCallsAgree
      BY <2>1 DEF GroupsFit
    <2>3. \A m \in Slots : \/ calls'[m].op = "idle"
                           \/ calls'[m].arg[2] \in {"none", g}
                           \/ calls[m].op # "idle" /\ calls'[m].arg[2] = calls[m].arg[2]
      BY DEF OnlySlot
    <2>4. GroupCallsAgree'
      BY <2>1, <2>2, <2>3, GroupsAgree
    <2>5. \A m \in Slots : GroupCallFits(m)'
      BY <1>2, <1>3, <2>1 DEF GroupsFit
    <2>6. QED
      BY <2>1, <2>4, <2>5 DEF GroupsFit, RowsOfGroups
  <1>4. GroupsState'
    BY <1>1, <1>2, <1>3 DEF GroupsState
  <1>5. QED
    BY <1>4 DEF GroupsInv

-----------------------------------------------------------------------------
(* The clicks.                                                             *)

LEMMA GroupsClickKeeps == GroupsInv /\ page = "groups" /\ page' = page /\ GroupsClick => GroupsInv'
  <1> SUFFICES ASSUME GroupsInv, page = "groups", page' = page, GroupsClick PROVE GroupsInv'
    OBVIOUS
  <1>0. ShapedCalls /\ GroupsState /\ GroupsFlagsFall
    BY DEF GroupsInv, GroupsState
  <1>1. ASSUME NEW n \in Slots, NEW g \in GroupIds, EditGroup(n, g) PROVE GroupsInv'
    <2>1. /\ Free(n) /\ Send(n, "detail", Call("stop", g, TRUE))
          /\ UNCHANGED <<groupRow, groupsLoading, creatingDraft, selectedGroup, draft, groupSaving>>
          /\ detailLoading' = TRUE
          /\ groupsMixed' = (groupsMixed \/ \E m \in Slots : ForAnother(m, g))
      BY <1>1 DEF EditGroup, Select
    <2>2. /\ ShapedCalls' /\ OnlySlot(n) /\ calls[n].op = "idle"
          /\ calls'[n].op = "detail" /\ calls'[n].arg = <<"stop", g, TRUE>>
          /\ calls'[n].stage = "sent"
      BY <1>0, <2>1, SendIs DEF Free, Is, Call
    <2>3. /\ groupsMixed' \in BOOLEAN /\ (~groupsMixed' => ~groupsMixed)
          /\ ~groupsMixed' => \A m \in Slots : ~ForAnother(m, g)
      BY <2>1
    <2>4. GroupsFlagsFall'
      BY <1>0, <2>1, <2>2, GroupFlagsKeep
    <2>5. GroupCallTyped(n)' /\ GroupCallFits(n)'
      BY <2>2, GroupsAssumption DEF GroupCallTyped, GroupCallFits, Is, For, Then, Sync
    <2>6. calls'[n].arg[2] = g
      BY <2>2
    <2>7. /\ groupsLoading' \in BOOLEAN /\ detailLoading' \in BOOLEAN /\ groupSaving' \in BOOLEAN
          /\ creatingDraft' \in BOOLEAN
      BY <1>0, <2>1 DEF GroupsState
    <2>8. QED
      BY <2>1, <2>2, <2>3, <2>4, <2>5, <2>6, <2>7, GroupsMove
  <1>2. ASSUME NEW n \in Slots, HandleStartCreate(n) PROVE GroupsInv'
    <2>1. /\ Free(n) /\ Send(n, "createGroup", Call("created", "none", FALSE))
          /\ UNCHANGED <<groupRow, groupsLoading, selectedGroup, draft, detailLoading, groupSaving,
                         groupsMixed>>
          /\ creatingDraft' = TRUE
      BY <1>2 DEF HandleStartCreate, formVars
    <2>2. /\ ShapedCalls' /\ OnlySlot(n) /\ calls[n].op = "idle"
          /\ calls'[n].op = "createGroup" /\ calls'[n].arg = <<"created", "none", FALSE>>
          /\ calls'[n].stage = "sent"
      BY <1>0, <2>1, SendIs DEF Free, Is, Call
    <2>3. calls'[n].arg[1] = "created" /\ calls'[n].arg[2] = "none"
      BY <2>2
    <2>4. GroupsFlagsFall'
      BY <1>0, <2>1, <2>2, <2>3, GroupFlagsKeep
    <2>5. GroupCallTyped(n)' /\ GroupCallFits(n)'
      BY <2>2, <2>3 DEF GroupCallTyped, GroupCallFits, Is, For, Then
    <2>6. /\ groupsLoading' \in BOOLEAN /\ detailLoading' \in BOOLEAN /\ groupSaving' \in BOOLEAN
          /\ creatingDraft' \in BOOLEAN /\ groupsMixed' \in BOOLEAN
      BY <1>0, <2>1 DEF GroupsState
    <2>7. QED
      BY <2>1, <2>2, <2>3, <2>4, <2>5, <2>6, GroupsMove
  <1>3. ASSUME GroupForm, NEW n \in Slots, Free(n), NEW op, NEW then, NEW sync,
               Send(n, op, Call(then, selectedGroup, sync)),
               \/ op \in {"saveGroup", "deleteGroup", "setDefault"} /\ then = "saved" /\ sync = draft
               \/ op \in {"member", "memberRefused"} /\ then = "stop" /\ sync = FALSE,
               UNCHANGED <<groupRow, groupsLoading, creatingDraft, selectedGroup, draft,
                           detailLoading, groupsMixed>>,
               groupSaving' \in BOOLEAN, groupSaving' => groupSaving \/ then = "saved"
        PROVE  GroupsInv'
    <2>1. /\ ShapedCalls' /\ OnlySlot(n) /\ calls[n].op = "idle"
          /\ calls'[n].op = op /\ calls'[n].arg = <<then, selectedGroup, sync>>
          /\ calls'[n].stage = "sent"
      BY <1>0, <1>3, SendIs DEF Free, Is, Call
    <2>2. /\ calls'[n].arg[1] = then /\ calls'[n].arg[2] = selectedGroup /\ calls'[n].arg[3] = sync
      BY <2>1
    <2>3. selectedGroup \in GroupIds /\ ~detailLoading /\ draft \in Contents
      BY <1>0, <1>3 DEF GroupForm, GroupsState
    <2>4. GroupsFlagsFall'
      BY <1>0, <1>3, <2>1, <2>2, GroupFlagsKeep
    <2>5. GroupCallTyped(n)'
      BY <1>3, <2>1, <2>2, <2>3 DEF GroupCallTyped, Is, For, Then, Sync
    <2>6. ASSUME ~groupsMixed
          PROVE  GroupCallFits(n)' /\ \A m \in Slots : ~ForAnother(m, selectedGroup)
      <3>1. draft.of \in {selectedGroup, "none"} /\ GroupCallsAgree
        BY <1>0, <2>6 DEF GroupsState, GroupsFit
      <3>2. GroupCallFits(n)'
        BY <1>3, <2>1, <2>2, <3>1 DEF GroupCallFits, Is, For, Sync
      <3>3. selectedGroup # "none"
        BY <2>3, GroupsAssumption
      <3>4. QED
        BY <2>3, <3>1, <3>2, <3>3 DEF GroupCallsAgree
    <2>7. /\ groupsLoading' \in BOOLEAN /\ detailLoading' \in BOOLEAN
          /\ creatingDraft' \in BOOLEAN /\ groupsMixed' \in BOOLEAN
      BY <1>0, <1>3 DEF GroupsState
    <2>8. QED
      BY <1>3, <2>1, <2>2, <2>3, <2>4, <2>5, <2>6, <2>7, GroupsMove
  <1>4. ASSUME NEW n \in Slots, HandleSave(n) \/ HandleDelete(n) \/ HandleSetDefault(n)
        PROVE  GroupsInv'
    <2>1. PICK op \in {"saveGroup", "deleteGroup", "setDefault"} : SavingClick(n, op)
      BY <1>4 DEF HandleSave, HandleDelete, HandleSetDefault
    <2>2. /\ GroupForm /\ Free(n) /\ Send(n, op, Call("saved", selectedGroup, draft))
          /\ UNCHANGED <<groupRow, groupsLoading, creatingDraft, selectedGroup, draft,
                         detailLoading, groupsMixed>>
          /\ groupSaving' = TRUE
      BY <2>1 DEF SavingClick, formVars
    <2>3. QED
      BY <1>3, <2>2
  <1>5. ASSUME NEW n \in Slots, AddMember(n) \/ MemberClick(n) PROVE GroupsInv'
    <2>1. PICK op \in {"member", "memberRefused"} :
             GroupForm /\ Free(n) /\ Send(n, op, Call("stop", selectedGroup, FALSE))
      BY <1>5 DEF AddMember, MemberClick
    <2>2. UNCHANGED <<groupRow, groupsLoading, creatingDraft, selectedGroup, draft,
                      detailLoading, groupsMixed, groupSaving>>
      BY <1>5 DEF AddMember, MemberClick, groupsVars, formVars
    <2>3. groupSaving' \in BOOLEAN
      BY <1>0, <2>2 DEF GroupsState
    <2>4. QED
      BY <1>3, <2>1, <2>2, <2>3
  <1>6. ASSUME NEW text \in Texts, EditDraft(text) PROVE GroupsInv'
    <2>1. draft' \in Contents /\ draft'.of = draft.of
      <3>1. draft \in Contents /\ draft' = [draft EXCEPT !.text = text]
        BY <1>0, <1>6 DEF GroupsState, EditDraft
      <3>2. QED
        BY <3>1 DEF Contents
    <2>2. UNCHANGED <<calls, groupRow, groupsLoading, creatingDraft, selectedGroup,
                      detailLoading, groupSaving, groupsMixed>>
      BY <1>6 DEF EditDraft
    <2>3. QED
      BY <2>1, <2>2, GroupsStayButForDraft
  <1>7. CASE ChooseChannel \/ GroupDialogClose
    <2>1. UNCHANGED <<calls, groupRow, groupsLoading, creatingDraft, selectedGroup, draft,
                      detailLoading, groupSaving, groupsMixed>>
      BY <1>7 DEF ChooseChannel, GroupDialogClose, groupsVars, formVars
    <2>2. draft' \in Contents
      BY <1>0, <2>1 DEF GroupsState
    <2>3. QED
      BY <2>1, <2>2, GroupsStayButForDraft
  <1>8. QED
    BY <1>1, <1>2, <1>4, <1>5, <1>6, <1>7 DEF GroupsClick

-----------------------------------------------------------------------------
(* The rest of a handler.                                                  *)

LEMMA GroupsAnsweredKeeps ==
    ASSUME GroupsInv, page = "groups", page' = page, NEW n \in Slots, GroupsAnswered(n)
    PROVE  GroupsInv'
  <1>0. ShapedCalls /\ GroupsState /\ GroupsFlagsFall /\ GroupCallTyped(n)
    BY DEF GroupsInv, GroupsState
  <1>1. calls[n].op = "groups"
    BY DEF GroupsAnswered, Resumes, Is
  <1>2. /\ For(n) \in GroupIds \cup {"none"} /\ Then(n) \in {"stop", "saved", "created", "detail"}
        /\ Then(n) = "detail" => For(n) # "none" /\ Sync(n) = TRUE
    BY <1>0, <1>1 DEF GroupCallTyped, Is
  <1>3. UNCHANGED <<groupRow, selectedGroup, draft, groupsMixed>> /\ groupsLoading' = FALSE
    BY DEF GroupsAnswered
  <1>4. /\ groupsLoading \in BOOLEAN /\ detailLoading \in BOOLEAN /\ groupSaving \in BOOLEAN
        /\ creatingDraft \in BOOLEAN /\ groupsMixed \in BOOLEAN
    BY <1>0 DEF GroupsState
  <1>5. CASE Then(n) = "detail"
    <2>1. /\ Send(n, "detail", Call("saved", For(n), TRUE)) /\ detailLoading' = TRUE
          /\ UNCHANGED <<groupSaving, creatingDraft>>
      BY <1>2, <1>5 DEF GroupsAnswered, RefreshDetail
    <2>2. /\ ShapedCalls' /\ OnlySlot(n)
          /\ calls'[n].op = "detail" /\ calls'[n].arg = <<"saved", For(n), TRUE>>
          /\ calls'[n].stage = "sent"
      BY <1>0, <2>1, SendIs DEF Call
    <2>3. calls'[n].arg[1] = "saved" /\ calls'[n].arg[2] = For(n) /\ calls'[n].arg[3] = TRUE
      BY <2>2
    <2>4. calls[n].arg[1] = "detail"
      BY <1>5 DEF Then
    <2>5. GroupsFlagsFall'
      BY <1>0, <1>1, <1>3, <2>1, <2>2, <2>3, <2>4, GroupFlagsKeep
    <2>6. GroupCallTyped(n)' /\ GroupCallFits(n)'
      BY <1>2, <1>5, <2>2, <2>3 DEF GroupCallTyped, GroupCallFits, Is, For, Then, Sync
    <2>7. calls'[n].arg[2] = calls[n].arg[2]
      BY <2>3 DEF For
    <2>8. QED
      BY <1>1, <1>3, <1>4, <2>1, <2>2, <2>5, <2>6, <2>7, GroupsMove
  <1>6. CASE Then(n) # "detail"
    <2>1. /\ Finish(n) /\ detailLoading' = detailLoading
          /\ groupSaving' = (groupSaving /\ Then(n) # "saved")
          /\ creatingDraft' = (creatingDraft /\ Then(n) # "created")
      BY <1>6 DEF GroupsAnswered, Settle
    <2>2. ShapedCalls' /\ OnlySlot(n) /\ calls'[n].op = "idle"
      BY <1>0, <2>1, FinishIs
    <2>3. /\ groupSaving' \in BOOLEAN /\ creatingDraft' \in BOOLEAN
          /\ groupSaving' => groupSaving /\ calls[n].arg[1] \notin {"saved", "detail"}
          /\ creatingDraft' => creatingDraft /\ calls[n].arg[1] # "created"
      BY <1>6, <2>1 DEF Then
    <2>4. GroupsFlagsFall'
      BY <1>0, <1>1, <1>3, <2>1, <2>2, <2>3, GroupFlagsKeep
    <2>5. GroupCallTyped(n)' /\ GroupCallFits(n)'
      BY <2>2, IdleGroupCall
    <2>6. QED
      BY <1>3, <1>4, <2>1, <2>2, <2>3, <2>4, <2>5, GroupsMove
  <1>7. QED
    BY <1>5, <1>6

LEMMA DetailAnsweredKeeps ==
    ASSUME GroupsInv, page = "groups", page' = page, NEW n \in Slots, DetailAnswered(n)
    PROVE  GroupsInv'
  <1>0. ShapedCalls /\ GroupsState /\ GroupsFlagsFall /\ GroupCallTyped(n)
    BY DEF GroupsInv, GroupsState
  <1>1. calls[n].op = "detail" /\ calls[n].stage = "answered"
    BY DEF DetailAnswered, Resumes, Is
  <1>2. /\ For(n) \in GroupIds /\ Then(n) \in {"stop", "saved"} /\ Sync(n) \in BOOLEAN
        /\ Ok(n) => calls[n].data \in Contents
    BY <1>0, <1>1 DEF GroupCallTyped, Is
  <1>3. /\ Finish(n) /\ UNCHANGED <<groupRow, groupsLoading, groupsMixed>> /\ detailLoading' = FALSE
        /\ groupSaving' = (groupSaving /\ Then(n) # "saved")
        /\ creatingDraft' = (creatingDraft /\ Then(n) # "created")
    BY DEF DetailAnswered, Settle
  <1>4. ShapedCalls' /\ OnlySlot(n) /\ calls'[n].op = "idle"
    BY <1>0, <1>3, FinishIs
  <1>5. GroupsFlagsFall'
    <2>1. /\ groupSaving' => groupSaving /\ calls[n].arg[1] \notin {"saved", "detail"}
          /\ creatingDraft' => creatingDraft /\ calls[n].arg[1] # "created"
      BY <1>2, <1>3 DEF Then
    <2>2. QED
      BY <1>0, <1>1, <1>3, <1>4, <2>1, GroupFlagsKeep
  <1>6. /\ selectedGroup' = IF Ok(n) THEN For(n) ELSE "none"
        /\ draft' = IF ~Ok(n) THEN Empty ELSE IF Sync(n) THEN calls[n].data ELSE draft
    BY DEF DetailAnswered
  <1>7. /\ selectedGroup' \in GroupIds \cup {"none"} /\ draft' \in Contents
        /\ groupsLoading' \in BOOLEAN /\ groupSaving' \in BOOLEAN /\ creatingDraft' \in BOOLEAN
        /\ groupRow' \in [GroupIds -> Contents] /\ groupsMixed' \in BOOLEAN
    <2>1. Empty \in Contents
      BY DEF Empty, Contents
    <2>2. QED
      BY <1>0, <1>2, <1>3, <1>6, <2>1 DEF GroupsState
  <1>8. ASSUME NEW m \in Slots PROVE GroupCallTyped(m)'
    <2>1. CASE m = n
      BY <1>4, <2>1, IdleGroupCall
    <2>2. CASE m # n
      <3>1. calls'[m] = calls[m] /\ GroupCallTyped(m)
        BY <1>0, <1>4, <2>2 DEF OnlySlot, GroupsState
      <3>2. QED
        BY <3>1 DEF GroupCallTyped, Is, For, Then, Sync, Ok
    <2>3. QED
      BY <2>1, <2>2
  <1>9. ASSUME ~groupsMixed' PROVE GroupsFit'
    <2>1. GroupsFit /\ GroupCallFits(n)
      BY <1>0, <1>3, <1>9 DEF GroupsState, GroupsFit
    <2>2. draft'.of \in {selectedGroup', "none"}
      <3>1. CASE ~Ok(n)
        BY <1>6, <3>1 DEF Empty
      <3>2. CASE Ok(n) /\ Sync(n)
        BY <1>1, <1>6, <2>1, <3>2 DEF GroupCallFits, Is
      <3>3. CASE Ok(n) /\ ~Sync(n)
        BY <1>1, <1>6, <2>1, <3>3 DEF GroupCallFits, Is
      <3>4. QED
        BY <3>1, <3>2, <3>3
    <2>3. For(n) # "none" /\ \A m \in Slots : ~ForAnother(m, For(n))
      <3>1. For(n) # "none" /\ calls[n].op # "idle"
        BY <1>1, <1>2, GroupsAssumption
      <3>2. QED
        BY <2>1, <3>1 DEF GroupsFit, GroupCallsAgree, Is
    <2>4. ASSUME NEW m \in Slots PROVE GroupCallFits(m)'
      <3>1. CASE m = n
        BY <1>4, <3>1, IdleGroupCall
      <3>2. CASE m # n
        <4>1. calls'[m] = calls[m] /\ GroupCallFits(m) /\ GroupCallTyped(m)
          BY <1>0, <1>4, <2>1, <3>2 DEF OnlySlot, GroupsFit, GroupsState
        <4>2. /\ Is(m, "saveGroup")' => Sync(m)'.of \in {For(m)', "none"}
              /\ Is(m, "detail")' /\ calls'[m].stage = "answered" /\ Ok(m)'
                   => calls'[m].data.of \in {For(m)', "none"}
          BY <4>1 DEF GroupCallFits, Is, Sync, For, Ok
        <4>3. ASSUME calls[m].op \in {"member", "memberRefused", "detail"}
              PROVE  draft'.of \in {For(m), "none"}
          <5>1. For(m) \in GroupIds
            BY <4>1, <4>3 DEF GroupCallTyped, Is
          <5>2. For(m) = For(n)
            BY <2>3, <4>3, <5>1, GroupsAssumption DEF ForAnother, Is
          <5>3. QED
            BY <1>6, <2>2, <5>2
        <4>4. QED
          BY <4>1, <4>2, <4>3 DEF GroupCallFits, Is, For, Sync
      <3>3. QED
        BY <3>1, <3>2
    <2>5. GroupCallsAgree'
      <3>1. ASSUME NEW m \in Slots, NEW k \in Slots, calls'[m].op # "idle", calls'[m].arg[2] # "none"
            PROVE  calls'[k].op = "idle" \/ calls'[k].arg[2] \in {"none", calls'[m].arg[2]}
        BY <1>4, <2>1, <3>1 DEF OnlySlot, GroupsFit, GroupCallsAgree, ForAnother, Is, For
      <3>2. ASSUME selectedGroup' # "none", NEW k \in Slots
            PROVE  calls'[k].op = "idle" \/ calls'[k].arg[2] \in {"none", selectedGroup'}
        BY <1>4, <1>6, <2>3, <3>2 DEF OnlySlot, ForAnother, Is, For
      <3>3. QED
        BY <3>1, <3>2 DEF GroupCallsAgree, ForAnother, Is, For
    <2>6. RowsOfGroups'
      BY <1>3, <2>1 DEF GroupsFit, RowsOfGroups
    <2>7. QED
      BY <2>2, <2>4, <2>5, <2>6 DEF GroupsFit
  <1>10. GroupsState'
    BY <1>3, <1>5, <1>7, <1>8, <1>9 DEF GroupsState
  <1>11. QED
    BY <1>4, <1>10 DEF GroupsInv

(* The handlers that raised saving, and those of the members.              *)
LEMMA SavingAnsweredKeeps ==
    ASSUME GroupsInv, page = "groups", page' = page, NEW n \in Slots,
           SaveAnswered(n) \/ DeleteAnswered(n) \/ SetDefaultAnswered(n)
    PROVE  GroupsInv'
  <1>0. ShapedCalls /\ GroupsState /\ GroupsFlagsFall /\ GroupCallTyped(n)
    BY DEF GroupsInv, GroupsState
  <1>1. calls[n].op \in {"saveGroup", "deleteGroup", "setDefault"}
    BY DEF SaveAnswered, DeleteAnswered, SetDefaultAnswered, Resumes, Is
  <1>2. For(n) \in GroupIds /\ Then(n) = "saved"
    BY <1>0, <1>1 DEF GroupCallTyped, Is
  <1>3. /\ groupsLoading \in BOOLEAN /\ detailLoading \in BOOLEAN /\ groupSaving \in BOOLEAN
        /\ creatingDraft \in BOOLEAN /\ groupsMixed \in BOOLEAN
    BY <1>0 DEF GroupsState
  <1>4. UNCHANGED <<groupRow, selectedGroup, draft, groupsMixed, detailLoading, creatingDraft>>
    BY DEF SaveAnswered, DeleteAnswered, SetDefaultAnswered, formVars
  <1>5. ASSUME Finish(n), groupSaving' = FALSE, UNCHANGED groupsLoading PROVE GroupsInv'
    <2>1. ShapedCalls' /\ OnlySlot(n) /\ calls'[n].op = "idle"
      BY <1>0, <1>5, FinishIs
    <2>2. GroupsFlagsFall'
      BY <1>0, <1>1, <1>2, <1>4, <1>5, <2>1, GroupFlagsKeep DEF Then
    <2>3. GroupCallTyped(n)' /\ GroupCallFits(n)'
      BY <2>1, IdleGroupCall
    <2>4. QED
      BY <1>3, <1>4, <1>5, <2>1, <2>2, <2>3, GroupsMove
  <1>6. ASSUME NEW then \in {"saved", "detail"}, RefreshGroups(n, Call(then, For(n), then = "detail")),
               UNCHANGED groupSaving
        PROVE  GroupsInv'
    <2>1. /\ ShapedCalls' /\ OnlySlot(n) /\ groupsLoading' = TRUE
          /\ calls'[n].op = "groups" /\ calls'[n].arg = <<then, For(n), then = "detail">>
      BY <1>0, <1>6, SendIs DEF Call, RefreshGroups
    <2>2. /\ calls'[n].arg[1] = then /\ calls'[n].arg[2] = For(n)
          /\ calls'[n].arg[3] = (then = "detail")
      BY <2>1
    <2>3. GroupsFlagsFall'
      BY <1>0, <1>1, <1>2, <1>4, <1>6, <2>1, <2>2, GroupFlagsKeep DEF Then
    <2>4. GroupCallTyped(n)' /\ GroupCallFits(n)'
      BY <1>2, <1>6, <2>1, <2>2, GroupsAssumption
         DEF GroupCallTyped, GroupCallFits, Is, For, Then, Sync
    <2>5. calls'[n].arg[2] = calls[n].arg[2] /\ calls[n].op # "idle"
      BY <1>1, <2>2 DEF For
    <2>6. QED
      BY <1>3, <1>4, <1>6, <2>1, <2>3, <2>4, <2>5, GroupsMove
  <1>7. CASE SaveAnswered(n)
    <2>1. \/ RefreshGroups(n, Call("detail", For(n), TRUE)) /\ UNCHANGED groupSaving
          \/ Finish(n) /\ groupSaving' = FALSE /\ UNCHANGED groupsLoading
      BY <1>7 DEF SaveAnswered
    <2>2. TRUE = ("detail" = "detail")
      OBVIOUS
    <2>3. QED
      BY <1>5, <1>6, <2>1, <2>2
  <1>8. CASE DeleteAnswered(n)
    <2>1. \/ RefreshGroups(n, Call("saved", For(n), FALSE)) /\ UNCHANGED groupSaving
          \/ Finish(n) /\ groupSaving' = FALSE /\ UNCHANGED groupsLoading
      BY <1>8 DEF DeleteAnswered
    <2>2. FALSE = ("saved" = "detail")
      OBVIOUS
    <2>3. QED
      BY <1>5, <1>6, <2>1, <2>2
  <1>9. CASE SetDefaultAnswered(n)
    BY <1>5, <1>9 DEF SetDefaultAnswered
  <1>10. QED
    BY <1>7, <1>8, <1>9

LEMMA MemberAnsweredKeeps ==
    ASSUME GroupsInv, page = "groups", page' = page, NEW n \in Slots, MemberAnswered(n)
    PROVE  GroupsInv'
  <1>0. ShapedCalls /\ GroupsState /\ GroupsFlagsFall /\ GroupCallTyped(n)
    BY DEF GroupsInv, GroupsState
  <1>1. calls[n].op \in {"member", "memberRefused"}
    BY DEF MemberAnswered, Resumes, Is
  <1>2. For(n) \in GroupIds /\ Then(n) = "stop" /\ Sync(n) = FALSE
    BY <1>0, <1>1 DEF GroupCallTyped, Is
  <1>3. /\ groupsLoading \in BOOLEAN /\ detailLoading \in BOOLEAN /\ groupSaving \in BOOLEAN
        /\ creatingDraft \in BOOLEAN /\ groupsMixed \in BOOLEAN
    BY <1>0 DEF GroupsState
  <1>4. UNCHANGED <<groupRow, selectedGroup, draft, groupsMixed, groupsLoading, creatingDraft, groupSaving>>
    BY DEF MemberAnswered
  <1>5. CASE Finish(n) /\ UNCHANGED detailLoading
    <2>1. ShapedCalls' /\ OnlySlot(n) /\ calls'[n].op = "idle"
      BY <1>0, <1>5, FinishIs
    <2>2. GroupsFlagsFall'
      BY <1>0, <1>1, <1>2, <1>4, <1>5, <2>1, GroupFlagsKeep DEF Then
    <2>3. GroupCallTyped(n)' /\ GroupCallFits(n)'
      BY <2>1, IdleGroupCall
    <2>4. QED
      BY <1>3, <1>4, <1>5, <2>1, <2>2, <2>3, GroupsMove
  <1>6. CASE RefreshDetail(n, calls[n].arg)
    <2>1. /\ ShapedCalls' /\ OnlySlot(n) /\ detailLoading' = TRUE
          /\ calls'[n].op = "detail" /\ calls'[n].arg = calls[n].arg /\ calls'[n].stage = "sent"
      BY <1>0, <1>6, SendIs DEF RefreshDetail
    <2>2. GroupsFlagsFall'
      BY <1>0, <1>1, <1>2, <1>4, <2>1, GroupFlagsKeep DEF Then
    <2>3. GroupCallTyped(n)'
      BY <1>2, <2>1 DEF GroupCallTyped, Is, For, Then, Sync
    <2>4. ~groupsMixed' => GroupCallFits(n)'
      <3>1. ~groupsMixed => GroupCallFits(n)
        BY <1>0 DEF GroupsState, GroupsFit
      <3>2. QED
        BY <1>1, <1>4, <2>1, <3>1 DEF GroupCallFits, Is, For, Sync
    <2>5. calls'[n].arg[2] = calls[n].arg[2] /\ calls[n].op # "idle"
      BY <1>1, <2>1
    <2>6. QED
      BY <1>3, <1>4, <2>1, <2>2, <2>3, <2>4, <2>5, GroupsMove
  <1>7. QED
    BY <1>5, <1>6 DEF MemberAnswered

(* The handler goes on in n, and the new id in the URL is loaded in m.     *)
LEMMA CreateGroupAnsweredKeeps ==
    ASSUME GroupsInv, page = "groups", page' = page,
           NEW n \in Slots, NEW m \in Slots, CreateGroupAnswered(n, m)
    PROVE  GroupsInv'
  <1>0. ShapedCalls /\ GroupsState /\ GroupsFlagsFall /\ GroupCallTyped(n)
    BY DEF GroupsInv, GroupsState
  <1>1. calls[n].op = "createGroup" /\ calls[n].stage = "answered"
    BY DEF CreateGroupAnswered, Resumes, Is
  <1>2. For(n) = "none" /\ Then(n) = "created" /\ (Ok(n) => calls[n].data \in GroupIds)
    BY <1>0, <1>1 DEF GroupCallTyped, Is
  <1>3. UNCHANGED <<groupRow, selectedGroup, draft, groupSaving>>
    BY DEF CreateGroupAnswered
  <1>4. /\ groupsLoading \in BOOLEAN /\ detailLoading \in BOOLEAN /\ groupSaving \in BOOLEAN
        /\ creatingDraft \in BOOLEAN /\ groupsMixed \in BOOLEAN
    BY <1>0 DEF GroupsState
  <1>5. CASE ~Ok(n)
    <2>1. Finish(n) /\ creatingDraft' = FALSE /\ UNCHANGED <<groupsLoading, detailLoading, groupsMixed>>
      BY <1>5 DEF CreateGroupAnswered
    <2>2. ShapedCalls' /\ OnlySlot(n) /\ calls'[n].op = "idle"
      BY <1>0, <2>1, FinishIs
    <2>3. GroupsFlagsFall'
      BY <1>0, <1>1, <1>2, <1>3, <2>1, <2>2, GroupFlagsKeep DEF Then
    <2>4. GroupCallTyped(n)' /\ GroupCallFits(n)'
      BY <2>2, IdleGroupCall
    <2>5. QED
      BY <1>3, <1>4, <2>1, <2>2, <2>3, <2>4, GroupsMove
  <1>6. CASE Ok(n)
    <2> DEFINE g == calls[n].data
    <2>1. /\ SendBoth(n, "groups", Call("created", "none", FALSE), m, "detail", Call("stop", g, TRUE))
          /\ groupsLoading' = TRUE /\ detailLoading' = TRUE /\ creatingDraft' = creatingDraft
          /\ groupsMixed' = (groupsMixed \/ \E k \in Slots : ForAnother(k, g))
      BY <1>6 DEF CreateGroupAnswered, Select
    <2>2. g \in GroupIds
      BY <1>2, <1>6
    <2> HIDE DEF g
    <2>3. /\ ShapedCalls' /\ m # n /\ calls[m].op = "idle"
          /\ \A k \in Slots \ {n, m} : calls'[k] = calls[k]
          /\ calls'[n].op = "groups" /\ calls'[n].arg = <<"created", "none", FALSE>>
          /\ calls'[m].op = "detail" /\ calls'[m].arg = <<"stop", g, TRUE>>
          /\ calls'[m].stage = "sent"
      <3> DEFINE carried == Call("created", "none", FALSE)
                 loads == Call("stop", g, TRUE)
      <3>1. SendBoth(n, "groups", carried, m, "detail", loads)
        BY <2>1
      <3>2. carried = <<"created", "none", FALSE>> /\ loads = <<"stop", g, TRUE>>
        BY DEF Call
      <3> HIDE DEF carried, loads
      <3>3. /\ ShapedCalls' /\ m # n /\ calls[m].op = "idle"
            /\ \A k \in Slots \ {n, m} : calls'[k] = calls[k]
            /\ calls'[n].op = "groups" /\ calls'[n].arg = carried
            /\ calls'[n].stage = "sent" /\ ~calls'[n].ok
            /\ calls'[m].op = "detail" /\ calls'[m].arg = loads
            /\ calls'[m].stage = "sent" /\ ~calls'[m].ok
        BY <1>0, <3>1, SendBothIs, Zenon
      <3>4. QED
        BY <3>2, <3>3
    <2>4. /\ calls'[n].arg[1] = "created" /\ calls'[n].arg[2] = "none"
          /\ calls'[m].arg[1] = "stop" /\ calls'[m].arg[2] = g /\ calls'[m].arg[3] = TRUE
      BY <2>3
    <2>5. /\ groupsMixed' \in BOOLEAN
          /\ ~groupsMixed' => ~groupsMixed /\ \A k \in Slots : ~ForAnother(k, g)
      BY <2>1
    <2>6. GroupsFlagsFall'
      <3>1. ASSUME groupSaving'
            PROVE  \E k \in Slots : calls'[k].op # "idle" /\ calls'[k].arg[1] \in {"saved", "detail"}
        <4>1. PICK k \in Slots : calls[k].op # "idle" /\ calls[k].arg[1] \in {"saved", "detail"}
          BY <1>0, <1>3, <3>1 DEF GroupsFlagsFall, Is, Then
        <4>2. calls[n].arg[1] = "created"
          BY <1>2 DEF Then
        <4>3. k # n /\ k # m
          BY <2>3, <4>1, <4>2
        <4>4. QED
          BY <2>3, <4>1, <4>3
      <3>2. QED
        BY <2>1, <2>3, <2>4, <3>1 DEF GroupsFlagsFall, InFlight, Is, Then
    <2>7. ASSUME NEW k \in Slots
          PROVE  GroupCallTyped(k)' /\ (GroupCallFits(k) => GroupCallFits(k)')
      <3>1. CASE k = n
        BY <2>3, <2>4, <3>1 DEF GroupCallTyped, GroupCallFits, Is, For, Then
      <3>2. CASE k = m
        BY <2>2, <2>3, <2>4, <3>2 DEF GroupCallTyped, GroupCallFits, Is, For, Then, Sync
      <3>3. CASE k \notin {n, m}
        <4>1. calls'[k] = calls[k] /\ draft'.of = draft.of /\ GroupCallTyped(k)
          BY <1>0, <1>3, <2>3, <3>3 DEF GroupsState
        <4>2. QED
          BY <4>1, GroupCallStays
      <3>4. QED
        BY <3>1, <3>2, <3>3
    <2>8. ASSUME ~groupsMixed' PROVE GroupsFit'
      <3>1. GroupsFit /\ \A k \in Slots : ~ForAnother(k, g)
        BY <1>0, <2>5, <2>8 DEF GroupsState
      <3>2. GroupCallsAgree'
        <4>1. \A k \in Slots : \/ calls'[k].op = "idle"
                               \/ calls'[k].arg[2] \in {"none", g}
                               \/ calls[k].op # "idle" /\ calls'[k].arg[2] = calls[k].arg[2]
          BY <2>3, <2>4
        <4>2. GroupCallsAgree
          BY <3>1 DEF GroupsFit
        <4>3. QED
          BY <1>3, <2>1, <3>1, <4>1, <4>2, GroupsAgree
      <3>3. \A k \in Slots : GroupCallFits(k)'
        BY <2>7, <3>1 DEF GroupsFit
      <3>4. QED
        BY <1>3, <3>1, <3>2, <3>3 DEF GroupsFit, RowsOfGroups
    <2>9. GroupsState'
      BY <1>0, <1>3, <2>1, <2>5, <2>6, <2>7, <2>8 DEF GroupsState
    <2>10. QED
      BY <2>3, <2>9 DEF GroupsInv
  <1>7. QED
    BY <1>5, <1>6

LEMMA GroupModalHiddenKeeps ==
    GroupsInv /\ page = "groups" /\ page' = page /\ HandleModalHidden => GroupsInv'
  <1> SUFFICES ASSUME GroupsInv, page = "groups", page' = page, HandleModalHidden PROVE GroupsInv'
    OBVIOUS
  <1>0. ShapedCalls /\ GroupsState /\ GroupsFlagsFall
    BY DEF GroupsInv, GroupsState
  <1>1. /\ selectedGroup' = "none" /\ draft' = Empty /\ detailLoading' = FALSE
        /\ UNCHANGED <<calls, groupRow, groupsLoading, creatingDraft, groupSaving, groupsMixed>>
    BY DEF HandleModalHidden
  <1>2. draft' \in Contents /\ draft'.of = "none"
    BY <1>1 DEF Empty, Contents
  <1>3. GroupsFlagsFall'
    BY <1>0, <1>1 DEF GroupsFlagsFall, InFlight, Is, Then
  <1>4. ASSUME NEW n \in Slots PROVE GroupCallTyped(n)' /\ (GroupCallFits(n) => GroupCallFits(n)')
    <2>1. GroupCallTyped(n)
      BY <1>0 DEF GroupsState
    <2>2. GroupCallTyped(n)'
      BY <1>1, <2>1 DEF GroupCallTyped, Is, For, Then, Sync, Ok
    <2>3. GroupCallFits(n) => GroupCallFits(n)'
      BY <1>1, <1>2 DEF GroupCallFits, Is, For, Sync, Ok
    <2>4. QED
      BY <2>2, <2>3
  <1>5. ASSUME ~groupsMixed' PROVE GroupsFit'
    <2>1. GroupsFit
      BY <1>0, <1>1, <1>5 DEF GroupsState
    <2>2. GroupCallsAgree'
      BY <1>1, <2>1 DEF GroupsFit, GroupCallsAgree, ForAnother, Is, For
    <2>3. QED
      BY <1>1, <1>2, <1>4, <2>1, <2>2 DEF GroupsFit, RowsOfGroups
  <1>6. GroupsState'
    BY <1>0, <1>1, <1>2, <1>3, <1>4, <1>5 DEF GroupsState
  <1>7. ShapedCalls'
    BY <1>0, <1>1 DEF ShapedCalls
  <1>8. QED
    BY <1>6, <1>7 DEF GroupsInv

-----------------------------------------------------------------------------
(* The answers.                                                            *)

LEMMA GroupAnswersKeep ==
    ASSUME GroupsInv, page = "groups", page' = page, NEW n \in Slots,
           ShapedCalls', OnlySlot(n), SameErrands,
           UNCHANGED <<groupsLoading, creatingDraft, selectedGroup, draft, detailLoading, groupSaving,
                       groupsMixed>>,
           groupRow' \in [GroupIds -> Contents], ~groupsMixed => RowsOfGroups',
           calls[n].op = "createGroup" /\ calls'[n].ok => calls'[n].data \in GroupIds,
           calls[n].op = "detail" /\ calls'[n].ok
              => /\ calls'[n].data \in Contents
                 /\ ~groupsMixed => calls'[n].data.of \in {For(n), "none"}
    PROVE  GroupsInv'
  <1>0. ShapedCalls /\ GroupsState /\ GroupsFlagsFall
    BY DEF GroupsInv, GroupsState
  <1>1. \A m \in Slots : calls'[m].op = calls[m].op /\ calls'[m].arg = calls[m].arg
    BY DEF SameErrands
  <1>2. GroupsFlagsFall'
    BY <1>0, <1>1 DEF GroupsFlagsFall, InFlight, Is, Then
  <1>3. ASSUME NEW m \in Slots
        PROVE  GroupCallTyped(m)' /\ (~groupsMixed /\ GroupCallFits(m) => GroupCallFits(m)')
    <2>1. CASE m # n
      <3>1. calls'[m] = calls[m] /\ draft'.of = draft.of
        BY <2>1 DEF OnlySlot
      <3>2. QED
        BY <1>0, <3>1, GroupCallStays DEF GroupsState
    <2>2. CASE m = n
      <3>1. GroupCallTyped(n) /\ calls'[n].op = calls[n].op /\ calls'[n].arg = calls[n].arg
        BY <1>0, <1>1 DEF GroupsState
      <3>2. GroupCallTyped(n)'
        BY <3>1 DEF GroupCallTyped, Is, For, Then, Sync, Ok
      <3>3. ~groupsMixed /\ GroupCallFits(n) => GroupCallFits(n)'
        BY <3>1 DEF GroupCallFits, Is, For, Sync, Ok
      <3>4. QED
        BY <2>2, <3>2, <3>3
    <2>3. QED
      BY <2>1, <2>2
  <1>4. ASSUME ~groupsMixed' PROVE GroupsFit'
    <2>1. ~groupsMixed /\ GroupsFit
      BY <1>0, <1>4 DEF GroupsState
    <2>2. GroupCallsAgree'
      BY <1>1, <2>1 DEF GroupsFit, GroupCallsAgree, ForAnother, Is, For
    <2>3. \A m \in Slots : GroupCallFits(m)'
      BY <1>3, <2>1 DEF GroupsFit
    <2>4. QED
      BY <2>1, <2>2, <2>3 DEF GroupsFit
  <1>5. GroupsState'
    BY <1>0, <1>2, <1>3, <1>4 DEF GroupsState
  <1>6. QED
    BY <1>5 DEF GroupsInv

LEMMA GroupsServeKeeps ==
    ASSUME GroupsInv, page = "groups", page' = page, NEW n \in Slots, GroupsServe(n)
    PROVE  GroupsInv'
  <1>0. /\ ShapedCalls /\ GroupsState /\ GroupCallTyped(n)
        /\ groupRow \in [GroupIds -> Contents]
        /\ ~groupsMixed => RowsOfGroups /\ GroupCallFits(n)
    BY DEF GroupsInv, GroupsState, GroupsFit
  <1>1. UNCHANGED <<groupsLoading, creatingDraft, selectedGroup, draft, detailLoading, groupSaving,
                    groupsMixed>>
    BY DEF GroupsServe, formVars
  <1>2. ASSUME NEW data, Answer(n, data),
               groupRow' \in [GroupIds -> Contents], ~groupsMixed => RowsOfGroups',
               calls[n].op = "createGroup" => data \in GroupIds,
               calls[n].op = "detail" => /\ data \in Contents
                                         /\ ~groupsMixed => data.of \in {For(n), "none"}
        PROVE  GroupsInv'
    <2>1. ShapedCalls' /\ OnlySlot(n) /\ SameErrands /\ calls'[n].data = data
      BY <1>0, <1>2, AnsweredIs
    <2>2. QED
      BY <1>1, <1>2, <2>1, GroupAnswersKeep
  <1>3. CASE ServeGroupReads(n)
    <2>1. groupRow' = groupRow
      BY <1>3 DEF ServeGroupReads
    <2>2. groupRow' \in [GroupIds -> Contents] /\ (~groupsMixed => RowsOfGroups')
      BY <1>0, <2>1 DEF RowsOfGroups
    <2>3. CASE calls[n].op \in {"groups", "member"}
      <3>1. PICK data : Answer(n, data)
        BY <1>3 , <2>3 DEF ServeGroupReads, Waits, Is
      <3>2. QED
        BY <1>2, <2>2, <2>3, <3>1
    <2>4. CASE calls[n].op = "detail"
      <3>1. For(n) \in Existing /\ Answer(n, groupRow[For(n)])
        BY <1>3, <2>4 DEF ServeGroupReads, Waits, Is
      <3>2. For(n) \in GroupIds
        BY <3>1 DEF Existing
      <3>3. /\ groupRow[For(n)] \in Contents
            /\ ~groupsMixed => groupRow[For(n)].of \in {For(n), "none"}
        BY <1>0, <3>2 DEF RowsOfGroups
      <3>4. QED
        BY <1>2, <2>2, <2>4, <3>1, <3>3
    <2>5. QED
      BY <1>3, <2>3, <2>4 DEF ServeGroupReads, Waits, Is
  <1>4. CASE ServeCreateGroup(n)
    <2>1. PICK g \in GroupIds : groupRow' = [groupRow EXCEPT ![g] = Content(g, 0)] /\ Answer(n, g)
      BY <1>4 DEF ServeCreateGroup
    <2>2. Content(g, 0) \in Contents /\ Content(g, 0).of = g
      BY DEF Content, Contents
    <2>3. groupRow' \in [GroupIds -> Contents] /\ (~groupsMixed => RowsOfGroups')
      BY <1>0, <2>1, <2>2 DEF RowsOfGroups
    <2>4. calls[n].op = "createGroup"
      BY <1>4 DEF ServeCreateGroup, Waits, Is
    <2>5. QED
      BY <1>2, <2>1, <2>3, <2>4
  <1>5. CASE ServeSaveGroup(n)
    <2>1. /\ calls[n].op = "saveGroup" /\ Answer(n, <<>>)
          /\ groupRow' = [groupRow EXCEPT ![For(n)] = Sync(n)]
      BY <1>5 DEF ServeSaveGroup, Waits, Is
    <2>2. Sync(n) \in Contents /\ (~groupsMixed => Sync(n).of \in {For(n), "none"})
      BY <1>0, <2>1 DEF GroupCallTyped, GroupCallFits, Is
    <2>3. groupRow' \in [GroupIds -> Contents] /\ (~groupsMixed => RowsOfGroups')
      BY <1>0, <2>1, <2>2 DEF RowsOfGroups
    <2>4. QED
      BY <1>2, <2>1, <2>3
  <1>6. CASE ServeDeleteGroup(n)
    <2>1. /\ calls[n].op = "deleteGroup" /\ Answer(n, <<>>)
          /\ groupRow' = [groupRow EXCEPT ![For(n)] = Empty]
      BY <1>6 DEF ServeDeleteGroup, Waits, Is
    <2>2. Empty \in Contents /\ Empty.of = "none"
      BY DEF Empty, Contents
    <2>3. groupRow' \in [GroupIds -> Contents] /\ (~groupsMixed => RowsOfGroups')
      BY <1>0, <2>1, <2>2 DEF RowsOfGroups
    <2>4. QED
      BY <1>2, <2>1, <2>3
  <1>7. QED
    BY <1>3, <1>4, <1>5, <1>6 DEF GroupsServe

LEMMA GroupsNextKeeps == GroupsInv /\ GroupsNext => GroupsInv'
  <1> SUFFICES ASSUME GroupsInv, GroupsNext PROVE GroupsInv'
    OBVIOUS
  <1>0. page = "groups" /\ page' = page
    BY DEF GroupsNext
  <1>1. CASE GroupsClick
    BY <1>0, <1>1, GroupsClickKeeps
  <1>2. ASSUME NEW n \in Slots, GroupsServe(n) PROVE GroupsInv'
    BY <1>0, <1>2, GroupsServeKeeps
  <1>3. ASSUME NEW n \in Slots, GroupsResume(n) PROVE GroupsInv'
    BY <1>0, <1>3, GroupsAnsweredKeeps, DetailAnsweredKeeps, SavingAnsweredKeeps,
       MemberAnsweredKeeps,
       CreateGroupAnsweredKeeps
       DEF GroupsResume
  <1>4. CASE HandleModalHidden
    BY <1>0, <1>4, GroupModalHiddenKeeps
  <1>5. ASSUME NEW n \in Slots, CallFails(n), UNCHANGED groupsVars PROVE GroupsInv'
    <2>1. ShapedCalls /\ GroupsState
      BY <1>0 DEF GroupsInv
    <2>2. ShapedCalls' /\ OnlySlot(n) /\ SameErrands /\ ~calls'[n].ok
      BY <1>5, <2>1, FailedIs
    <2>3. UNCHANGED <<groupRow, groupsLoading, creatingDraft, selectedGroup, draft, detailLoading,
                      groupSaving, groupsMixed>>
      BY <1>5 DEF groupsVars, formVars
    <2>4. groupRow' \in [GroupIds -> Contents] /\ (~groupsMixed => RowsOfGroups')
      BY <2>1, <2>3 DEF GroupsState, GroupsFit, RowsOfGroups
    <2>5. QED
      BY <1>0, <2>2, <2>3, <2>4, GroupAnswersKeep
  <1>6. QED
    BY <1>1, <1>2, <1>3, <1>4, <1>5 DEF GroupsNext, GroupsStep
-----------------------------------------------------------------------------
(* The table of channels.                                                  *)

(* The ranges that a handler may send, and the calls that may wait.        *)
RangesAsked == (Picked \ {""}) \cup {"today", "all"}

SeriesAsked == TableRows \X {"hour", "day"} \X (Picked \cup {"", "today", "all", "implicit"})

TableCall == [op : {"idle", "page", "change", "series"}, arg : {<<>>} \cup RangesAsked \cup SeriesAsked,
         stage : {"idle", "sent", "answered"}, ok : BOOLEAN, data : {<<>>}]

TableCallsTyped(cs) ==
    /\ cs \in [Slots -> TableCall]
    /\ \A n \in Slots : cs[n].op \in {"page", "change"} => cs[n].arg \in RangesAsked
    /\ \A n \in Slots : cs[n].op = "series" => cs[n].arg \in SeriesAsked

TableChoiceTyped ==
    /\ usageRange \in Picked \cup {"", "today"}
    /\ usageAllTime \in BOOLEAN /\ usageRangeCustomized \in BOOLEAN
    /\ expandedChannelID \in TableRows \cup {"none"}
    /\ detailGranularity \in {"hour", "day"}

TableSeriesTyped ==
    /\ detailSeries \in SeriesAsked \cup {NoSeries, FailedSeries}
    /\ detailSeriesLoading \in BOOLEAN /\ seriesCall \in 0..MaxCalls

TableRestTyped ==
    /\ usageRangeDirty \in BOOLEAN /\ rangeMixed \in BOOLEAN
    /\ tableLoading \in BOOLEAN /\ tableStale \in BOOLEAN
    /\ tableRange \in RangesAsked \cup {"none"}

TableTypeOK == TableCallsTyped(calls) /\ TableChoiceTyped /\ TableSeriesTyped /\ TableRestTyped

(* The call whose answer counts is the one for what is wanted now.         *)
SeriesIsOfCall ==
    /\ detailSeriesLoading <=> seriesCall # 0
    /\ seriesCall # 0 => /\ expandedChannelID # "none"
                         /\ Is(seriesCall, "series")
                         /\ calls[seriesCall].arg = WantedSeries

(* Unless a range was picked while they waited, the handlers refresh with  *)
(* the range that is shown, and the table is of it or will be.             *)
RangeIsOfCalls ==
    ~rangeMixed => /\ \A n \in Slots : calls[n].op \in {"page", "change"}
                                          => calls[n].arg = CurrentRange
                   /\ \/ tableRange = CurrentRange
                      \/ tableStale \/ usageRangeDirty \/ InFlight("page")

TableInv == TableTypeOK /\ SeriesIsOfCall /\ RangeIsOfCalls

-----------------------------------------------------------------------------
(* What the helpers compute has its type.                                  *)

LEMMA TableWantedTyped ==
    ASSUME TableChoiceTyped
    PROVE  /\ CurrentRange \in RangesAsked
           /\ expandedChannelID # "none" => WantedSeries \in SeriesAsked
  <1>1. CurrentRange \in RangesAsked
    BY DEF TableChoiceTyped, CurrentRange, Echo, RangesAsked
  <1>2. ASSUME expandedChannelID # "none" PROVE WantedSeries \in SeriesAsked
    BY <1>2 DEF TableChoiceTyped, WantedSeries, SeriesRange, SeriesAsked
  <1>3. QED
    BY <1>1, <1>2

LEMMA TableSentTyped ==
    ASSUME NEW cs, TableCallsTyped(cs), NEW n \in Slots, NEW op, NEW arg,
           \/ op \in {"page", "change"} /\ arg \in RangesAsked
           \/ op = "series" /\ arg \in SeriesAsked
    PROVE  TableCallsTyped([cs EXCEPT ![n] = Sent(op, arg)])
  <1>1. Sent(op, arg) \in TableCall
    BY DEF Sent, TableCall
  <1>2. Sent(op, arg).op = op /\ Sent(op, arg).arg = arg
    BY DEF Sent
  <1>3. QED
    BY <1>1, <1>2 DEF TableCallsTyped

LEMMA TableIdleTyped ==
    ASSUME NEW cs, TableCallsTyped(cs), NEW n \in Slots
    PROVE  TableCallsTyped([cs EXCEPT ![n] = Idle])
  <1>1. Idle \in TableCall /\ Idle.op = "idle"
    BY DEF Idle, TableCall
  <1>2. QED
    BY <1>1 DEF TableCallsTyped

(* An answer, or the failure of a call, leaves what the call is for.       *)
LEMMA TableAnsweredTyped ==
    ASSUME TableCallsTyped(calls), NEW n \in Slots, Answer(n, <<>>) \/ CallFails(n)
    PROVE  /\ TableCallsTyped(calls')
           /\ \A m \in Slots : calls'[m].op = calls[m].op /\ calls'[m].arg = calls[m].arg
  <1>1. PICK o \in BOOLEAN :
            calls' = [calls EXCEPT ![n] =
                        [@ EXCEPT !.stage = "answered", !.ok = o, !.data = <<>>]]
    BY DEF Answer, CallFails
  <1>2. calls[n] \in TableCall
    BY DEF TableCallsTyped
  <1>3. /\ calls'[n] = [calls[n] EXCEPT !.stage = "answered", !.ok = o, !.data = <<>>]
        /\ \A m \in Slots \ {n} : calls'[m] = calls[m]
        /\ calls' = [m \in Slots |-> calls'[m]]
    BY <1>1 DEF TableCallsTyped
  <1>4. calls'[n] \in TableCall /\ calls'[n].op = calls[n].op /\ calls'[n].arg = calls[n].arg
    BY <1>2, <1>3 DEF TableCall
  <1>5. QED
    BY <1>3, <1>4 DEF TableCallsTyped

-----------------------------------------------------------------------------
(* The effect, after a step that changed the choice or took another call   *)
(* than one for a series out of its slot.                                  *)

SeriesStep == [Series!Next]_(Series!vars)

(* The effect that asks for a series, in any step of the page: others are  *)
(* the calls as the rest of the step leaves them.                          *)
SeriesEffectContext(others) ==
    /\ TableCallsTyped(others)
    /\ \A n \in Slots : Is(n, "series") => others[n] = calls[n]
    /\ TableChoiceTyped /\ TableChoiceTyped' /\ TableSeriesTyped /\ SeriesIsOfCall
    /\ SeriesEffect(others)

SeriesEffectResult(others) ==
    /\ TableCallsTyped(calls') /\ TableSeriesTyped' /\ SeriesIsOfCall'
    /\ \A n \in Slots : \/ calls'[n] = others[n]
                        \/ calls'[n].op = "series" /\ others[n].op = "idle"
    /\ SeriesStep

LEMMA SeriesEffectIdle ==
    ASSUME NEW others, SeriesEffectContext(others), SeriesKey' = SeriesKey
    PROVE  SeriesEffectResult(others)
  <1>1. /\ calls' = others
        /\ UNCHANGED <<detailSeries, detailSeriesLoading, seriesCall>>
    BY DEF SeriesEffectContext, SeriesEffect
  <1>2. UNCHANGED <<expandedChannelID, detailGranularity, usageRange, usageAllTime,
                    usageRangeCustomized>>
    BY DEF SeriesKey, rangeVars
  <1>3. WantedSeries' = WantedSeries
    BY <1>2 DEF WantedSeries, SeriesRange
  <1>4. SeriesStep
    BY <1>1, <1>2, <1>3 DEF SeriesStep, Series!vars
  <1>5. SeriesIsOfCall'
    BY <1>1, <1>2, <1>3, TableAssumption
       DEF SeriesEffectContext, SeriesIsOfCall, TableSeriesTyped, Is, Slots
  <1>6. QED
    BY <1>1, <1>4, <1>5 DEF SeriesEffectContext, SeriesEffectResult, TableSeriesTyped

LEMMA SeriesEffectDrops ==
    ASSUME NEW others, SeriesEffectContext(others), SeriesKey' # SeriesKey,
           expandedChannelID' = "none"
    PROVE  SeriesEffectResult(others)
  <1>1. /\ calls' = others
        /\ detailSeries' = NoSeries /\ detailSeriesLoading' = FALSE /\ seriesCall' = 0
    BY DEF SeriesEffectContext, SeriesEffect
  <1>2. SeriesStep
    BY <1>1 DEF SeriesStep, Series!Next, Series!Drop
  <1>3. TableSeriesTyped'
    <2>1. 0 \in 0..MaxCalls
      BY BrowserAssumption
    <2>2. QED
      BY <1>1, <2>1 DEF TableSeriesTyped, SeriesAsked
  <1>4. SeriesIsOfCall'
    BY <1>1 DEF SeriesIsOfCall
  <1>5. QED
    BY <1>1, <1>2, <1>3, <1>4 DEF SeriesEffectContext, SeriesEffectResult

LEMMA SeriesEffectLoads ==
    ASSUME NEW others, SeriesEffectContext(others), SeriesKey' # SeriesKey,
           expandedChannelID' # "none"
    PROVE  SeriesEffectResult(others)
  <1>1. PICK m \in Slots : /\ others[m].op = "idle"
                           /\ calls' = [others EXCEPT ![m] = Sent("series", WantedSeries')]
                           /\ seriesCall' = m
    BY DEF SeriesEffectContext, SeriesEffect
  <1>2. detailSeriesLoading' = TRUE /\ UNCHANGED detailSeries
    BY DEF SeriesEffectContext, SeriesEffect
  <1>3. WantedSeries' \in SeriesAsked /\ WantedSeries'[1] = expandedChannelID'
    <2>1. WantedSeries' \in SeriesAsked
      BY DEF SeriesEffectContext, TableChoiceTyped, WantedSeries, SeriesRange, SeriesAsked
    <2>2. QED
      BY <2>1 DEF WantedSeries
  <1>4. TableCallsTyped(calls')
    BY <1>1, <1>3, TableSentTyped DEF SeriesEffectContext
  <1>5. /\ calls'[m].op = "series" /\ calls'[m].arg = WantedSeries'
        /\ \A n \in Slots \ {m} : calls'[n] = others[n]
    BY <1>1 DEF SeriesEffectContext, TableCallsTyped, Sent
  <1>6. SeriesIsOfCall' /\ TableSeriesTyped'
    BY <1>1, <1>2, <1>5, BrowserAssumption
       DEF SeriesIsOfCall, TableSeriesTyped, SeriesEffectContext, Is, Slots
  <1>7. SeriesStep
    <2>1. WantedSeries' # NoSeries
      BY <1>3 DEF NoSeries
    <2>2. QED
      BY <1>2, <2>1 DEF SeriesStep, Series!Next, Series!Ask
  <1>8. QED
    BY <1>1, <1>4, <1>5, <1>6, <1>7 DEF SeriesEffectResult

LEMMA SeriesEffectKeeps ==
    ASSUME NEW others, SeriesEffectContext(others)
    PROVE  SeriesEffectResult(others)
  BY SeriesEffectIdle, SeriesEffectDrops, SeriesEffectLoads

-----------------------------------------------------------------------------
(* The steps without the effect.                                           *)

TableStepResult == TableInv' /\ SeriesStep

LEMMA NoSeriesEffect ==
    ASSUME TableInv, TableCallsTyped(calls'), UNCHANGED <<rangeVars, seriesVars>>,
           \A m \in Slots : Is(m, "series") => /\ calls'[m].op = calls[m].op
                                               /\ calls'[m].arg = calls[m].arg
    PROVE  /\ TableChoiceTyped' /\ TableSeriesTyped' /\ SeriesIsOfCall' /\ SeriesStep
           /\ CurrentRange' = CurrentRange
  <1>1. TableChoiceTyped' /\ TableSeriesTyped'
    BY DEF TableInv, TableTypeOK, TableChoiceTyped, TableSeriesTyped, rangeVars, seriesVars
  <1>2. WantedSeries' = WantedSeries /\ CurrentRange' = CurrentRange
    BY DEF WantedSeries, SeriesRange, CurrentRange, Echo, rangeVars, seriesVars
  <1>3. SeriesStep
    BY <1>2 DEF SeriesStep, Series!vars, seriesVars
  <1>4. seriesCall # 0 => seriesCall \in Slots
    BY BrowserAssumption DEF TableInv, TableTypeOK, TableSeriesTyped, Slots
  <1>5. SeriesIsOfCall'
    BY <1>2, <1>4 DEF TableInv, SeriesIsOfCall, Is, seriesVars
  <1>6. QED
    BY <1>1, <1>2, <1>3, <1>5

(* A refresh, sent from a free slot or by the handler that held it.        *)
LEMMA TableRefreshKeeps ==
    ASSUME TableInv, NEW n \in Slots, ~Is(n, "series"), NEW range \in RangesAsked,
           Refresh(n, range), ~rangeMixed => range = CurrentRange,
           usageRangeDirty' \in BOOLEAN,
           UNCHANGED <<rangeVars, tableRange, tableStale, seriesVars, rangeMixed>>
    PROVE  TableStepResult
  <1>1. calls' = [calls EXCEPT ![n] = Sent("page", range)]
    BY DEF Refresh, Send
  <1>2. TableCallsTyped(calls')
    BY <1>1, TableSentTyped DEF TableInv, TableTypeOK
  <1>3. /\ calls'[n].op = "page" /\ calls'[n].arg = range
        /\ \A m \in Slots \ {n} : calls'[m] = calls[m]
    BY <1>1 DEF TableInv, TableTypeOK, TableCallsTyped, Sent
  <1>4. /\ TableChoiceTyped' /\ TableSeriesTyped' /\ SeriesIsOfCall' /\ SeriesStep
        /\ CurrentRange' = CurrentRange
    BY <1>2, <1>3, NoSeriesEffect DEF Is
  <1>5. TableRestTyped'
    BY DEF TableInv, TableTypeOK, TableRestTyped, Refresh
  <1>6. RangeIsOfCalls'
    BY <1>3, <1>4 DEF TableInv, RangeIsOfCalls, InFlight, Is
  <1>7. QED
    BY <1>2, <1>4, <1>5, <1>6 DEF TableStepResult, TableInv, TableTypeOK

LEMMA RefreshClickKeeps ==
    ASSUME TableInv, NEW n \in Slots, RefreshClick(n) \/ RangeTimer(n)
    PROVE  TableStepResult
  <1>1. /\ Refresh(n, CurrentRange) /\ Is(n, "idle")
        /\ UNCHANGED <<rangeVars, tableRange, tableStale, seriesVars, rangeMixed>>
    BY DEF RefreshClick, RangeTimer, Free
  <1>2. CurrentRange \in RangesAsked
    BY TableWantedTyped DEF TableInv, TableTypeOK
  <1>3. usageRangeDirty' \in BOOLEAN
    BY DEF RefreshClick, RangeTimer, TableInv, TableTypeOK, TableRestTyped
  <1>4. QED
    BY <1>1, <1>2, <1>3, TableRefreshKeeps DEF Is

LEMMA ChangeClickKeeps ==
    ASSUME TableInv, NEW n \in Slots, ChangeClick(n) \/ StartCreateClick(n)
    PROVE  TableStepResult
  <1>1. /\ calls' = [calls EXCEPT ![n] = Sent("change", CurrentRange)]
        /\ Is(n, "idle") /\ UNCHANGED tableDataVars
    BY DEF ChangeClick, StartCreateClick, Send, Free, tableVars
  <1>2. TableCallsTyped(calls')
    BY <1>1, TableSentTyped, TableWantedTyped DEF TableInv, TableTypeOK
  <1>3. /\ calls'[n].op = "change" /\ calls'[n].arg = CurrentRange
        /\ \A m \in Slots \ {n} : calls'[m] = calls[m]
    BY <1>1 DEF TableInv, TableTypeOK, TableCallsTyped, Sent
  <1>4. /\ TableChoiceTyped' /\ TableSeriesTyped' /\ SeriesIsOfCall' /\ SeriesStep
        /\ CurrentRange' = CurrentRange
    BY <1>1, <1>2, <1>3, NoSeriesEffect DEF Is, tableDataVars
  <1>5. TableRestTyped'
    BY <1>1 DEF TableInv, TableTypeOK, TableRestTyped, tableDataVars
  <1>6. RangeIsOfCalls'
    BY <1>1, <1>3, <1>4 DEF TableInv, RangeIsOfCalls, InFlight, Is, tableDataVars
  <1>7. QED
    BY <1>2, <1>4, <1>5, <1>6 DEF TableStepResult, TableInv, TableTypeOK

LEMMA ChannelChangedKeeps ==
    ASSUME TableInv, NEW n \in Slots, ChannelChanged(n)
    PROVE  TableStepResult
  <1>1. CASE Ok(n)
    <2>1. Refresh(n, calls[n].arg) /\ Is(n, "change")
      BY <1>1 DEF ChannelChanged, Resumes
    <2>2. calls[n].arg \in RangesAsked /\ (~rangeMixed => calls[n].arg = CurrentRange)
      BY <2>1 DEF TableInv, TableTypeOK, TableCallsTyped, RangeIsOfCalls, Is
    <2>3. usageRangeDirty' \in BOOLEAN
      BY DEF ChannelChanged, TableInv, TableTypeOK, TableRestTyped
    <2>4. UNCHANGED <<rangeVars, tableRange, tableStale, seriesVars, rangeMixed>>
      BY DEF ChannelChanged
    <2>5. QED
      BY <2>1, <2>2, <2>3, <2>4, TableRefreshKeeps DEF Is
  <1>2. CASE ~Ok(n)
    <2>1. /\ calls' = [calls EXCEPT ![n] = Idle] /\ Is(n, "change")
          /\ UNCHANGED tableDataVars
      BY <1>2 DEF ChannelChanged, Resumes, Finish, tableDataVars
    <2>2. TableCallsTyped(calls')
      BY <2>1, TableIdleTyped DEF TableInv, TableTypeOK
    <2>3. calls'[n].op = "idle" /\ \A m \in Slots \ {n} : calls'[m] = calls[m]
      BY <2>1 DEF TableInv, TableTypeOK, TableCallsTyped, Idle
    <2>4. /\ TableChoiceTyped' /\ TableSeriesTyped' /\ SeriesIsOfCall' /\ SeriesStep
          /\ CurrentRange' = CurrentRange
      BY <2>1, <2>2, <2>3, NoSeriesEffect DEF Is, tableDataVars
    <2>5. TableRestTyped'
      BY <2>1 DEF TableInv, TableTypeOK, TableRestTyped, tableDataVars
    <2>6. RangeIsOfCalls'
      BY <2>1, <2>3, <2>4 DEF TableInv, RangeIsOfCalls, InFlight, Is, tableDataVars
    <2>7. QED
      BY <2>2, <2>4, <2>5, <2>6 DEF TableStepResult, TableInv, TableTypeOK
  <1>3. QED
    BY <1>1, <1>2

LEMMA TableAnswerKeeps ==
    ASSUME TableInv, NEW n \in Slots, Answer(n, <<>>) \/ CallFails(n), UNCHANGED tableVars
    PROVE  TableStepResult
  <1>1. /\ TableCallsTyped(calls')
        /\ \A m \in Slots : calls'[m].op = calls[m].op /\ calls'[m].arg = calls[m].arg
    BY TableAnsweredTyped DEF TableInv, TableTypeOK
  <1>2. /\ TableChoiceTyped' /\ TableSeriesTyped' /\ SeriesIsOfCall' /\ SeriesStep
        /\ CurrentRange' = CurrentRange
    BY <1>1, NoSeriesEffect DEF tableVars, tableDataVars
  <1>3. TableRestTyped'
    BY DEF TableInv, TableTypeOK, TableRestTyped, tableVars, tableDataVars
  <1>4. RangeIsOfCalls'
    BY <1>1, <1>2 DEF TableInv, RangeIsOfCalls, InFlight, Is, tableVars, tableDataVars
  <1>5. QED
    BY <1>1, <1>2, <1>3, <1>4 DEF TableStepResult, TableInv, TableTypeOK

(* The answer of a series: the one that counts is of what is wanted, and   *)
(* the others change nothing.                                              *)
LEMMA SeriesAnsweredKeeps ==
    ASSUME TableInv, NEW n \in Slots, SeriesAnswered(n)
    PROVE  TableStepResult
  <1>1. /\ calls' = [calls EXCEPT ![n] = Idle] /\ Is(n, "series")
        /\ UNCHANGED <<rangeVars, usageRangeDirty, tableLoading, tableRange, tableStale,
                       expandedChannelID, detailGranularity, rangeMixed>>
    BY DEF SeriesAnswered, Resumes, Finish
  <1>2. TableCallsTyped(calls')
    BY <1>1, TableIdleTyped DEF TableInv, TableTypeOK
  <1>3. calls'[n].op = "idle" /\ \A m \in Slots \ {n} : calls'[m] = calls[m]
    BY <1>1 DEF TableInv, TableTypeOK, TableCallsTyped, Idle
  <1>4. TableChoiceTyped' /\ TableRestTyped'
    BY <1>1 DEF TableInv, TableTypeOK, TableChoiceTyped, TableRestTyped, rangeVars
  <1>5. CurrentRange' = CurrentRange /\ WantedSeries' = WantedSeries
    BY <1>1 DEF CurrentRange, Echo, WantedSeries, SeriesRange, rangeVars
  <1>6. RangeIsOfCalls'
    BY <1>1, <1>3, <1>5 DEF TableInv, RangeIsOfCalls, InFlight, Is
  <1>7. CASE n = seriesCall
    <2>1. n # 0
      BY BrowserAssumption DEF Slots
    <2>2. /\ detailSeries' \in {calls[n].arg, FailedSeries}
          /\ detailSeriesLoading' = FALSE /\ seriesCall' = 0
      BY <1>7 DEF SeriesAnswered
    <2>3. /\ detailSeriesLoading /\ expandedChannelID # "none"
          /\ calls[n].arg = WantedSeries
      BY <1>7, <2>1 DEF TableInv, SeriesIsOfCall
    <2>4. SeriesStep
      BY <1>1, <1>5, <2>2, <2>3 DEF SeriesStep, Series!Next, Series!Come
    <2>5. TableSeriesTyped'
      <3>1. 0 \in 0..MaxCalls
        BY BrowserAssumption
      <3>2. calls[n].arg \in SeriesAsked
        BY <1>1 DEF TableInv, TableTypeOK, TableCallsTyped, Is
      <3>3. QED
        BY <2>2, <3>1, <3>2 DEF TableSeriesTyped, SeriesAsked, NoSeries, FailedSeries
    <2>6. SeriesIsOfCall'
      BY <2>2 DEF SeriesIsOfCall
    <2>7. QED
      BY <1>2, <1>4, <1>6, <2>4, <2>5, <2>6 DEF TableStepResult, TableInv, TableTypeOK
  <1>8. CASE n # seriesCall
    <2>1. UNCHANGED seriesVars
      BY <1>1, <1>8 DEF SeriesAnswered, seriesVars
    <2>2. SeriesStep /\ TableSeriesTyped'
      BY <1>5, <2>1 DEF SeriesStep, Series!vars, seriesVars, TableSeriesTyped, TableInv,
         TableTypeOK
    <2>3. seriesCall # 0 => seriesCall \in Slots \ {n}
      BY <1>8, BrowserAssumption DEF TableInv, TableTypeOK, TableSeriesTyped, Slots
    <2>4. SeriesIsOfCall'
      BY <1>3, <1>5, <2>1, <2>3 DEF TableInv, SeriesIsOfCall, Is, seriesVars
    <2>5. QED
      BY <1>2, <1>4, <1>6, <2>2, <2>4 DEF TableStepResult, TableInv, TableTypeOK
  <1>9. QED
    BY <1>7, <1>8

-----------------------------------------------------------------------------
(* The steps with the effect.                                              *)

(* Seen by the handlers that refresh, the effect is no call.               *)
LEMMA SeriesEffectSparesOthers ==
    ASSUME NEW others, SeriesEffectResult(others), NEW n \in Slots,
           calls'[n].op \in {"page", "change"} \/ others[n].op \in {"page", "change"}
    PROVE  calls'[n] = others[n]
  BY DEF SeriesEffectResult

LEMMA PageAnsweredKeeps ==
    ASSUME TableInv, NEW n \in Slots, PageAnswered(n)
    PROVE  TableStepResult
  <1> DEFINE others == [calls EXCEPT ![n] = Idle]
  <1>1. /\ Is(n, "page") /\ calls[n].arg \in RangesAsked /\ SeriesEffect(others)
        /\ UNCHANGED <<usageAllTime, usageRangeCustomized, usageRangeDirty,
                       expandedChannelID, detailGranularity, rangeMixed>>
    BY DEF PageAnswered, Resumes, TableInv, TableTypeOK, TableCallsTyped, Is
  <1>2. /\ TableCallsTyped(others) /\ others[n].op = "idle"
        /\ \A m \in Slots \ {n} : others[m] = calls[m]
    BY TableIdleTyped DEF TableInv, TableTypeOK, TableCallsTyped, Idle
  <1>3. TableChoiceTyped'
    BY <1>1 DEF PageAnswered, RangesAsked, TableInv, TableTypeOK, TableChoiceTyped
  <1> HIDE DEF others
  <1>4. SeriesEffectResult(others)
    <2>1. \A m \in Slots : Is(m, "series") => others[m] = calls[m]
      BY <1>1, <1>2 DEF Is
    <2>2. QED
      BY <1>1, <1>2, <1>3, <2>1, SeriesEffectKeeps
         DEF SeriesEffectContext, TableInv, TableTypeOK
  <1>5. TableRestTyped'
    BY <1>1 DEF PageAnswered, TableInv, TableTypeOK, TableRestTyped
  <1>6. ASSUME ~rangeMixed PROVE CurrentRange' = CurrentRange /\ calls[n].arg = CurrentRange
    <2>1. calls[n].arg = CurrentRange
      BY <1>1, <1>6 DEF TableInv, RangeIsOfCalls, Is
    <2>2. CASE usageAllTime
      <3>1. CurrentRange = "all" /\ usageAllTime'
        BY <1>1, <2>2 DEF CurrentRange
      <3>2. CurrentRange' = "all"
        BY <3>1 DEF CurrentRange
      <3>3. QED
        BY <2>1, <3>1, <3>2
    <2>3. CASE ~usageAllTime
      <3>1. calls[n].arg = Echo(usageRange) /\ calls[n].arg # "all"
        BY <2>1, <2>3, TableAssumption
           DEF CurrentRange, Echo, TableInv, TableTypeOK, TableChoiceTyped
      <3>2. usageRange' \in {usageRange, Echo(usageRange)}
        BY <3>1 DEF PageAnswered
      <3>3. QED
        BY <1>1, <2>1, <2>3, <3>2 DEF CurrentRange, Echo
    <2>4. QED
      BY <2>1, <2>2, <2>3
  <1>7. RangeIsOfCalls'
    <2> SUFFICES ASSUME ~rangeMixed' PROVE RangeIsOfCalls'
      BY DEF RangeIsOfCalls
    <2>1. ~rangeMixed
      BY <1>1
    <2>2. \A m \in Slots : calls'[m].op \in {"page", "change"} => calls'[m].arg = CurrentRange'
      <3>1. TAKE m \in Slots
      <3>2. HAVE calls'[m].op \in {"page", "change"}
      <3>3. calls'[m] = others[m]
        BY <1>4, <3>2, SeriesEffectSparesOthers
      <3>4. m # n /\ others[m] = calls[m]
        BY <1>2, <3>2, <3>3
      <3>5. QED
        BY <1>6, <2>1, <3>2, <3>3, <3>4 DEF TableInv, RangeIsOfCalls
    <2>3. tableRange' = CurrentRange' \/ tableStale'
      BY <1>6, <2>1 DEF PageAnswered
    <2>4. QED
      BY <2>2, <2>3 DEF RangeIsOfCalls
  <1>8. QED
    BY <1>3, <1>4, <1>5, <1>7 DEF TableStepResult, SeriesEffectResult, TableInv, TableTypeOK

(* A range is picked or reset: the table waits for the timer, and handlers *)
(* that wait are mixed up.                                                 *)
LEMMA RangeChangeKeeps ==
    ASSUME TableInv, TableChoiceTyped', usageRangeDirty' = TRUE, Mixing, SeriesEffect(calls),
           UNCHANGED <<tableLoading, tableRange, tableStale>>
    PROVE  TableStepResult
  <1>1. SeriesEffectResult(calls)
    BY SeriesEffectKeeps DEF SeriesEffectContext, TableInv, TableTypeOK
  <1>2. TableRestTyped'
    BY DEF TableInv, TableTypeOK, TableRestTyped, Mixing, InFlight
  <1>3. RangeIsOfCalls'
    <2> SUFFICES ASSUME ~rangeMixed' PROVE RangeIsOfCalls'
      BY DEF RangeIsOfCalls
    <2>1. \A m \in Slots : calls[m].op \notin {"page", "change"}
      BY DEF Mixing, InFlight, Is
    <2>2. \A m \in Slots : calls'[m].op \notin {"page", "change"}
      BY <1>1, <2>1, SeriesEffectSparesOthers
    <2>3. QED
      BY <2>2 DEF RangeIsOfCalls
  <1>4. QED
    BY <1>1, <1>2, <1>3 DEF TableStepResult, SeriesEffectResult, TableInv, TableTypeOK

LEMMA PickRangeKeeps ==
    ASSUME TableInv, ResetRange \/ \E range \in Picked : PickRange(range)
    PROVE  TableStepResult
  <1>1. TableChoiceTyped'
    BY DEF PickRange, ResetRange, TableInv, TableTypeOK, TableChoiceTyped
  <1>2. QED
    BY <1>1, RangeChangeKeeps DEF PickRange, ResetRange

(* A row is opened or closed, or another granularity chosen.               *)
LEMMA TablePanelKeeps ==
    ASSUME TableInv, TableChoiceTyped', SeriesEffect(calls),
           UNCHANGED <<rangeVars, usageRangeDirty, tableLoading, tableRange, tableStale,
                       rangeMixed>>
    PROVE  TableStepResult
  <1>1. SeriesEffectResult(calls)
    BY SeriesEffectKeeps DEF SeriesEffectContext, TableInv, TableTypeOK
  <1>2. TableRestTyped' /\ CurrentRange' = CurrentRange
    BY DEF TableInv, TableTypeOK, TableRestTyped, CurrentRange, Echo, rangeVars
  <1>3. RangeIsOfCalls'
    <2>1. \A m \in Slots : /\ calls'[m].op \in {"page", "change"} => calls'[m] = calls[m]
                           /\ Is(m, "page") => Is(m, "page")'
      BY <1>1, SeriesEffectSparesOthers DEF Is
    <2>2. QED
      BY <1>2, <2>1 DEF TableInv, RangeIsOfCalls, InFlight
  <1>4. QED
    BY <1>1, <1>2, <1>3 DEF TableStepResult, SeriesEffectResult, TableInv, TableTypeOK

LEMMA OpenRowKeeps ==
    ASSUME TableInv,
           \/ \E c \in TableRows : ToggleChannelPanel(c)
           \/ \E g \in {"hour", "day"} : SetGranularity(g)
    PROVE  TableStepResult
  <1>1. CASE \E c \in TableRows : ToggleChannelPanel(c)
    <2>1. PICK c \in TableRows : ToggleChannelPanel(c)
      BY <1>1
    <2>2. TableChoiceTyped'
      BY <2>1 DEF ToggleChannelPanel, TableInv, TableTypeOK, TableChoiceTyped, rangeVars
    <2>3. QED
      BY <2>1, <2>2, TablePanelKeeps DEF ToggleChannelPanel
  <1>2. CASE \E g \in {"hour", "day"} : SetGranularity(g)
    <2>1. PICK g \in {"hour", "day"} : SetGranularity(g)
      BY <1>2
    <2>2. TableChoiceTyped'
      BY <2>1 DEF SetGranularity, TableInv, TableTypeOK, TableChoiceTyped, rangeVars
    <2>3. QED
      BY <2>1, <2>2, TablePanelKeeps DEF SetGranularity
  <1>3. QED
    BY <1>1, <1>2

-----------------------------------------------------------------------------

LEMMA TableStarts ==
    ASSUME page = "channels", BrowserInit(TableMount), TableInit
    PROVE  TableInv /\ Series!Init
  <1>1. 1 \in Slots /\ 0 \in 0..MaxCalls
    BY BrowserAssumption DEF Slots
  <1>2. calls = [n \in Slots |-> IF n = 1 THEN Sent("page", "today") ELSE Idle]
    <2>1. DOMAIN TableMount = {1} /\ TableMount[1] = Sent("page", "today")
      BY DEF TableMount
    <2>2. QED
      BY <2>1 DEF BrowserInit
  <1>3. Sent("page", "today") \in TableCall /\ Idle \in TableCall
    BY DEF Sent, Idle, TableCall, RangesAsked
  <1>4. TableCallsTyped(calls)
    BY <1>2, <1>3 DEF TableCallsTyped, Sent, Idle, RangesAsked
  <1>5. TableChoiceTyped /\ TableSeriesTyped /\ TableRestTyped
    BY <1>1 DEF TableInit, TableChoiceTyped, TableSeriesTyped, TableRestTyped, RangesAsked
  <1>6. SeriesIsOfCall
    BY DEF TableInit, SeriesIsOfCall
  <1>7. RangeIsOfCalls
    <2>1. CurrentRange = "today"
      BY DEF TableInit, CurrentRange, Echo
    <2>2. calls[1].op = "page"
      BY <1>1, <1>2 DEF Sent
    <2>3. QED
      BY <1>1, <1>2, <2>1, <2>2 DEF RangeIsOfCalls, InFlight, Is, Sent, Idle
  <1>8. Series!Init
    BY DEF TableInit, Series!Init
  <1>9. QED
    BY <1>4, <1>5, <1>6, <1>7, <1>8 DEF TableInv, TableTypeOK

LEMMA TableSteps ==
    ASSUME TableInv, [TableNext]_<<browserVars, tableVars>>
    PROVE  TableStepResult
  <1>1. CASE TableClick
    BY <1>1, RefreshClickKeeps, ChangeClickKeeps, PickRangeKeeps, OpenRowKeeps DEF TableClick
  <1>2. CASE TableStep
    BY <1>2, TableAnswerKeeps, RefreshClickKeeps, SeriesAnsweredKeeps, PageAnsweredKeeps,
       ChannelChangedKeeps DEF TableStep, TableServe
  <1>3. CASE \E n \in Slots : CallFails(n) /\ UNCHANGED <<clicks, tableVars>>
    BY <1>3, TableAnswerKeeps
  <1>4. CASE UNCHANGED <<browserVars, tableVars>>
    <2>1. UNCHANGED <<calls, rangeVars, seriesVars, tableVars>>
      BY <1>4 DEF browserVars, tableVars, tableDataVars
    <2>2. /\ TableChoiceTyped' /\ TableSeriesTyped' /\ SeriesIsOfCall' /\ SeriesStep
          /\ CurrentRange' = CurrentRange /\ TableCallsTyped(calls')
      BY <2>1, NoSeriesEffect DEF TableInv, TableTypeOK
    <2>3. TableRestTyped' /\ RangeIsOfCalls'
      BY <2>1, <2>2
         DEF TableInv, TableTypeOK, TableRestTyped, RangeIsOfCalls, InFlight, Is, tableVars, tableDataVars
    <2>4. QED
      BY <2>2, <2>3 DEF TableStepResult, TableInv, TableTypeOK
  <1>5. QED
    BY <1>1, <1>2, <1>3, <1>4 DEF TableNext

(* The steps of the page raise tableLoading only with a refresh, and       *)
(* nothing but the answer takes a refresh out of its slot.                 *)
TableIsLoading == tableLoading => InFlight("page")

LEMMA SeriesEffectSparesPages ==
    ASSUME NEW others, TableCallsTyped(others), SeriesEffect(others),
           NEW n \in Slots, others[n].op = "page"
    PROVE  calls'[n].op = "page"
  <1>1. CASE calls' = others
    BY <1>1
  <1>2. ASSUME NEW m \in Slots, others[m].op = "idle",
               calls' = [others EXCEPT ![m] = Sent("series", WantedSeries')]
        PROVE  calls'[n].op = "page"
    BY <1>2 DEF TableCallsTyped
  <1>3. QED
    BY <1>1, <1>2 DEF SeriesEffect

LEMMA TableLoads ==
    ASSUME TableInv, TableIsLoading, [TableNext]_<<browserVars, tableVars>>
    PROVE  TableIsLoading'
  <1>0. TableCallsTyped(calls)
    BY DEF TableInv, TableTypeOK
  <1>1. ASSUME NEW n \in Slots, NEW range, Refresh(n, range) PROVE TableIsLoading'
    <2>1. calls'[n].op = "page"
      BY <1>0, <1>1 DEF Refresh, Send, Sent, TableCallsTyped
    <2>2. QED
      BY <2>1 DEF TableIsLoading, InFlight, Is
  <1>2. ASSUME tableLoading' = tableLoading,
               \A m \in Slots : calls[m].op = "page" => calls'[m].op = "page"
        PROVE  TableIsLoading'
    BY <1>2 DEF TableIsLoading, InFlight, Is
  <1>3. ASSUME SeriesEffect(calls), tableLoading' = tableLoading PROVE TableIsLoading'
    BY <1>0, <1>2, <1>3, SeriesEffectSparesPages
  <1>4. ASSUME NEW n \in Slots, calls[n].op # "page", tableLoading' = tableLoading,
               NEW x, calls' = [calls EXCEPT ![n] = x]
        PROVE  TableIsLoading'
    BY <1>0, <1>2, <1>4 DEF TableCallsTyped
  <1>5. CASE TableClick
    <2>1. ASSUME NEW n \in Slots, RefreshClick(n) PROVE TableIsLoading'
      BY <1>1, <2>1 DEF RefreshClick
    <2>2. ASSUME NEW n \in Slots, ChangeClick(n) \/ StartCreateClick(n) PROVE TableIsLoading'
      BY <1>4, <2>2 DEF ChangeClick, StartCreateClick, Free, Is, Send, tableVars, tableDataVars
    <2>3. CASE \/ \E range \in Picked : PickRange(range)
               \/ \E c \in TableRows : ToggleChannelPanel(c)
               \/ \E g \in {"hour", "day"} : SetGranularity(g)
               \/ ResetRange
      BY <1>3, <2>3 DEF PickRange, ToggleChannelPanel, SetGranularity, ResetRange
    <2>4. QED
      BY <1>5, <2>1, <2>2, <2>3 DEF TableClick
  <1>6. ASSUME NEW n \in Slots, TableServe(n) \/ (CallFails(n) /\ UNCHANGED tableVars)
        PROVE  TableIsLoading'
    <2>1. Answer(n, <<>>) \/ CallFails(n)
      BY <1>6 DEF TableServe
    <2>2. \A m \in Slots : calls'[m].op = calls[m].op
      BY <1>0, <2>1, TableAnsweredTyped
    <2>3. QED
      BY <1>2, <1>6, <2>2 DEF TableServe, tableVars, tableDataVars
  <1>7. ASSUME NEW n \in Slots, RangeTimer(n) \/ SeriesAnswered(n) \/ PageAnswered(n) \/ ChannelChanged(n)
        PROVE  TableIsLoading'
    <2>1. CASE RangeTimer(n)
      BY <1>1, <2>1 DEF RangeTimer
    <2>2. CASE SeriesAnswered(n)
      BY <1>4, <2>2 DEF SeriesAnswered, Resumes, Is, Finish
    <2>3. CASE PageAnswered(n)
      BY <2>3 DEF PageAnswered, TableIsLoading
    <2>4. CASE ChannelChanged(n)
      BY <1>1, <1>4, <2>4 DEF ChannelChanged, Resumes, Is, Finish
    <2>5. QED
      BY <1>7, <2>1, <2>2, <2>3, <2>4
  <1>8. CASE UNCHANGED <<browserVars, tableVars>>
    BY <1>2, <1>8 DEF browserVars, tableVars, tableDataVars
  <1>9. QED
    BY <1>5, <1>6, <1>7, <1>8 DEF TableNext, TableStep

-----------------------------------------------------------------------------
(* The page in the console.                                                *)

TablePageInv == page = "channels" => TableInv /\ TableIsLoading

LEMMA TablePageInvIsEnough == TablePageInv => TableMatchesRange /\ TableFlagsFall
  <1> SUFFICES ASSUME TablePageInv, page = "channels" PROVE TableMatchesRange /\ TableFlagsFall
    BY DEF TableMatchesRange, TableFlagsFall
  <1>1. TableInv /\ TableIsLoading
    BY DEF TablePageInv
  <1>2. TableMatchesRange
    BY <1>1 DEF TableInv, RangeIsOfCalls, TableMatchesRange, Quiet, InFlight, Is
  <1>3. TableFlagsFall
    BY <1>1 DEF TableInv, TableIsLoading, SeriesIsOfCall, TableFlagsFall
  <1>4. QED
    BY <1>2, <1>3

LEMMA TablePageStarts ==
    ASSUME TableInit, page = "channels" => BrowserInit(TableMount)
    PROVE  TablePageInv /\ Series!Init
  <1>1. Series!Init
    BY DEF TableInit, Series!Init
  <1>2. ASSUME page = "channels" PROVE TableInv /\ TableIsLoading
    <2>1. TableInv
      BY <1>2, TableStarts
    <2>2. 1 \in Slots /\ calls[1].op = "page"
      BY <1>2, OneIsMounted DEF TableMount
    <2>3. TableIsLoading
      BY <2>2 DEF TableIsLoading, InFlight, Is
    <2>4. QED
      BY <2>1, <2>3
  <1>3. QED
    BY <1>1, <1>2 DEF TablePageInv

LEMMA TablePageNextKeeps == TablePageInv /\ TableNext => TablePageInv' /\ SeriesStep
  <1> SUFFICES ASSUME TablePageInv, TableNext PROVE TablePageInv' /\ SeriesStep
    OBVIOUS
  <1>1. TableInv /\ TableIsLoading
    BY DEF TablePageInv, TableNext
  <1>2. TableInv' /\ SeriesStep /\ TableIsLoading'
    BY <1>1, TableSteps, TableLoads DEF TableStepResult
  <1>3. QED
    BY <1>2 DEF TablePageInv

(* The steps of the other pages.                                           *)
LEMMA TablePageStays ==
    ASSUME TablePageInv, UNCHANGED <<page, tableVars>>, page = "channels" => UNCHANGED browserVars
    PROVE  TablePageInv' /\ SeriesStep
  <1>1. CASE page = "channels"
    <2>1. UNCHANGED <<browserVars, tableVars>> /\ TableInv /\ TableIsLoading
      BY <1>1 DEF TablePageInv
    <2>2. TableInv' /\ SeriesStep /\ TableIsLoading'
      BY <2>1, TableSteps, TableLoads DEF TableStepResult
    <2>3. QED
      BY <2>2 DEF TablePageInv
  <1>2. CASE page # "channels"
    <2>1. UNCHANGED <<expandedChannelID, detailGranularity, usageRange, usageAllTime,
                      usageRangeCustomized, detailSeries, detailSeriesLoading>>
      BY DEF tableVars, tableDataVars, rangeVars, seriesVars
    <2>2. WantedSeries' = WantedSeries
      BY <2>1 DEF WantedSeries, SeriesRange
    <2>3. SeriesStep
      BY <2>1, <2>2 DEF SeriesStep, Series!vars
    <2>4. QED
      BY <1>2, <2>3 DEF TablePageInv
  <1>3. QED
    BY <1>1, <1>2
-----------------------------------------------------------------------------
(* The settings of channels.                                               *)

Settings == [of : ChannelIds \cup {"none"}, text : {0, 1, 2}, status : BOOLEAN, grouped : BOOLEAN]

(* Every row is of its own channel.                                        *)
RowsOfChannels(rows) ==
    /\ rows \in [ChannelIds -> Settings]
    /\ \A c \in ChannelIds : rows[c] = NoChannel \/ rows[c].of = c

(* A call carries what was typed for the channel that it is for.           *)
ChannelCallHolds(n) ==
    /\ Is(n, "rows") => /\ calls[n].arg[1] \in ChannelIds \cup {"none"}
                        /\ calls[n].stage = "answered" /\ Ok(n) => RowsOfChannels(calls[n].data)
    /\ Is(n, "createChannel") /\ calls[n].stage = "answered" /\ Ok(n) => calls[n].data \in ChannelIds
    /\ calls[n].op \in {"status", "deleteChannel", "saveChannel"} => calls[n].arg[1] \in ChannelIds
    /\ Is(n, "status") => calls[n].arg[2] \in BOOLEAN
    /\ Is(n, "saveChannel") => calls[n].arg[2] \in Settings /\ calls[n].arg[2].of = calls[n].arg[1]

(* The form is of the channel whose dialog is open, and is as in the row   *)
(* unless it was edited since the effect filled it.                        *)
FormIsOfRow ==
    settingsChannelID # "none" /\ settingsChannel =>
        /\ channels[settingsChannelID] # NoChannel
        /\ form.of = settingsChannelID
        /\ formEdited \/ form = channels[settingsChannelID]

(* The handlers that save for the tab that is mounted have not returned,   *)
(* and one of them raised its flag.                                        *)
TabHolds ==
    /\ tabSaves \subseteq {m \in Slots : calls[m].op = "saveChannel"}
    /\ commonSaving => tabSaves # {}

SettingsState ==
    /\ RowsOfChannels(channelRow) /\ RowsOfChannels(channels)
    /\ queryTarget \in ChannelIds \cup {"none"} /\ settingsChannelID \in ChannelIds \cup {"none"}
    /\ form \in Settings
    /\ settingsChannel \in BOOLEAN /\ formEdited \in BOOLEAN /\ rowsLoading \in BOOLEAN
    /\ creatingType \in BOOLEAN /\ commonSaving \in BOOLEAN
    /\ \A n \in Slots : ChannelCallHolds(n)
    /\ FormIsOfRow /\ TabHolds
    /\ SettingsFlagsFall

SettingsInv ==
    /\ page = "settings" => ShapedCalls /\ SettingsState
    /\ page # "settings" => RowsOfChannels(channelRow) /\ settingsChannelID = "none"

LEMMA SettingsInvIsEnough == SettingsInv => ChannelsKeepTheirSettings /\ SettingsFlagsFall
  <1> SUFFICES ASSUME SettingsInv PROVE ChannelsKeepTheirSettings /\ SettingsFlagsFall
    OBVIOUS
  <1>1. \A c \in ChannelIds : channelRow[c].of \in {c, "none"}
    BY DEF SettingsInv, SettingsState, RowsOfChannels, NoChannel
  <1>2. CASE page = "settings"
    <2>1. FormIsOfRow /\ SettingsFlagsFall
      BY <1>2 DEF SettingsInv, SettingsState
    <2>2. QED
      BY <1>1, <2>1 DEF ChannelsKeepTheirSettings, FormIsOfRow, SettingsForm
  <1>3. CASE page # "settings"
    BY <1>1, <1>3 DEF SettingsInv, ChannelsKeepTheirSettings, SettingsForm, SettingsFlagsFall
  <1>4. QED
    BY <1>2, <1>3

LEMMA ChannelCallStays ==
    ASSUME NEW n \in Slots, calls'[n] = calls[n]
    PROVE  ChannelCallHolds(n) => ChannelCallHolds(n)'
  BY DEF ChannelCallHolds, Is, Ok, RowsOfChannels

LEMMA IdleChannelCall ==
    ASSUME NEW n \in Slots, calls'[n].op = "idle"
    PROVE  ChannelCallHolds(n)'
  BY DEF ChannelCallHolds, Is

(* A step of a handler that saves nothing, which may unmount the tab.      *)
LEMMA TabMove ==
    ASSUME TabHolds, NEW n \in Slots, OnlySlot(n), calls[n].op # "saveChannel",
           tabSaves' \in {tabSaves, {}}, commonSaving' => commonSaving /\ tabSaves' = tabSaves
    PROVE  TabHolds'
  <1>1. ASSUME NEW m \in tabSaves PROVE m \in Slots /\ calls'[m].op = "saveChannel"
    BY <1>1 DEF TabHolds, OnlySlot
  <1>2. QED
    BY <1>1 DEF TabHolds

(* A step of one handler.                                                  *)
LEMMA SettingsMove ==
    ASSUME SettingsInv, page = "settings", page' = page,
           NEW n \in Slots, ShapedCalls', OnlySlot(n), ChannelCallHolds(n)',
           RowsOfChannels(channelRow'), RowsOfChannels(channels'),
           queryTarget' \in ChannelIds \cup {"none"}, settingsChannelID' \in ChannelIds \cup {"none"},
           form' \in Settings, settingsChannel' \in BOOLEAN, formEdited' \in BOOLEAN,
           rowsLoading' \in BOOLEAN, creatingType' \in BOOLEAN, commonSaving' \in BOOLEAN,
           FormIsOfRow', TabHolds',
           rowsLoading' => (rowsLoading /\ calls[n].op # "rows") \/ calls'[n].op = "rows",
           creatingType' => \/ /\ creatingType /\ calls[n].op # "createChannel"
                               /\ calls[n].op = "rows" => calls[n].arg[1] = "none"
                            \/ calls'[n].op = "createChannel"
                            \/ calls'[n].op = "rows" /\ calls'[n].arg[1] # "none"
    PROVE  SettingsInv'
  <1>0. ShapedCalls /\ SettingsState /\ SettingsFlagsFall
    BY DEF SettingsInv, SettingsState
  <1>1. ASSUME NEW m \in Slots PROVE ChannelCallHolds(m)'
    <2>1. CASE m = n
      BY <2>1
    <2>2. CASE m # n
      <3>1. calls'[m] = calls[m] /\ ChannelCallHolds(m)
        BY <1>0, <2>2 DEF OnlySlot, SettingsState
      <3>2. QED
        BY <3>1, ChannelCallStays
    <2>3. QED
      BY <2>1, <2>2
  <1>2. ASSUME rowsLoading' PROVE \E m \in Slots : calls'[m].op = "rows"
    BY <1>0, <1>2 DEF SettingsFlagsFall, InFlight, Is, OnlySlot
  <1>3. ASSUME creatingType'
        PROVE  \/ \E m \in Slots : calls'[m].op = "createChannel"
               \/ \E m \in Slots : calls'[m].op = "rows" /\ calls'[m].arg[1] # "none"
    BY <1>0, <1>3 DEF SettingsFlagsFall, InFlight, Is, OnlySlot
  <1>4. ASSUME commonSaving' PROVE \E m \in Slots : calls'[m].op = "saveChannel"
    BY <1>4 DEF TabHolds
  <1>5. SettingsFlagsFall'
    BY <1>2, <1>3, <1>4 DEF SettingsFlagsFall, InFlight, Is
  <1>6. SettingsState'
    BY <1>1, <1>5 DEF SettingsState, RowsOfChannels
  <1>7. QED
    BY <1>6 DEF SettingsInv

(* The steps that change no more than the dialogs.                         *)
LEMMA SettingsStayOpen ==
    ASSUME SettingsInv, page = "settings",
           UNCHANGED <<page, calls, channelRow, channels, rowsLoading, creatingType, queryTarget,
                       settingsChannelID, settingsChannel, form, formEdited, commonTabVars>>
    PROVE  SettingsInv'
  <1>0. ShapedCalls /\ SettingsState
    BY DEF SettingsInv
  <1>1. ShapedCalls'
    BY <1>0 DEF ShapedCalls
  <1>2. \A n \in Slots : ChannelCallHolds(n)'
    BY <1>0, ChannelCallStays DEF SettingsState
  <1>3. SettingsFlagsFall' /\ FormIsOfRow' /\ TabHolds'
    BY <1>0 DEF SettingsState, SettingsFlagsFall, FormIsOfRow, TabHolds, InFlight, Is, commonTabVars
  <1>4. SettingsState'
    BY <1>0, <1>2, <1>3 DEF SettingsState, RowsOfChannels, commonTabVars
  <1>5. QED
    BY <1>1, <1>4 DEF SettingsInv

(* The steps of the other pages.                                           *)
LEMMA SettingsStay ==
    ASSUME SettingsInv, UNCHANGED <<page, settingsVars>>, page = "settings" => UNCHANGED browserVars
    PROVE  SettingsInv'
  <1>1. CASE page = "settings"
    BY <1>1, SettingsStayOpen DEF settingsVars, browserVars
  <1>2. CASE page # "settings"
    BY <1>2 DEF SettingsInv, settingsVars, RowsOfChannels
  <1>3. QED
    BY <1>1, <1>2

LEMMA SettingsStart ==
    ASSUME SettingsInit, page = "settings" => BrowserInit(SettingsMount)
    PROVE  SettingsInv
  <1>1. NoChannel \in Settings /\ \A c \in ChannelIds : NewChannel(c) \in Settings /\ NewChannel(c).of = c
    BY DEF NoChannel, NewChannel, Settings
  <1>2. RowsOfChannels(channelRow) /\ RowsOfChannels(channels)
    BY <1>1 DEF SettingsInit, RowsOfChannels
  <1>3. CASE page # "settings"
    BY <1>2, <1>3 DEF SettingsInv, SettingsInit
  <1>4. CASE page = "settings"
    <2>1. /\ ShapedCalls /\ 1 \in Slots
          /\ calls[1].op = "rows" /\ calls[1].arg = <<"none">> /\ calls[1].stage = "sent"
          /\ \A n \in Slots \ {1} : calls[n] = Idle
      BY <1>4, OneIsMounted DEF SettingsMount
    <2>2. ASSUME NEW n \in Slots PROVE ChannelCallHolds(n)
      <3>1. CASE n = 1
        BY <2>1, <3>1 DEF ChannelCallHolds, Is
      <3>2. CASE n # 1
        BY <2>1, <3>2, IdleIsCall DEF ChannelCallHolds, Is
      <3>3. QED
        BY <3>1, <3>2
    <2>3. SettingsFlagsFall /\ FormIsOfRow /\ TabHolds
      BY <2>1 DEF SettingsFlagsFall, FormIsOfRow, TabHolds, SettingsInit, InFlight, Is
    <2>4. SettingsState
      BY <1>1, <1>2, <2>2, <2>3, ChannelsAssumption DEF SettingsState, SettingsInit
    <2>5. QED
      BY <1>4, <2>1, <2>4 DEF SettingsInv
  <1>5. QED
    BY <1>3, <1>4

-----------------------------------------------------------------------------
(* The clicks.                                                             *)

LEMMA SettingsClicksKeep ==
    SettingsInv /\ page = "settings" /\ page' = page /\ SettingsClicks => SettingsInv'
  <1> SUFFICES ASSUME SettingsInv, page = "settings", page' = page, SettingsClicks PROVE SettingsInv'
    OBVIOUS
  <1>0. ShapedCalls /\ SettingsState /\ SettingsFlagsFall /\ FormIsOfRow
    BY DEF SettingsInv, SettingsState
  <1>1. /\ RowsOfChannels(channelRow) /\ RowsOfChannels(channels)
        /\ queryTarget \in ChannelIds \cup {"none"} /\ settingsChannelID \in ChannelIds \cup {"none"}
        /\ form \in Settings /\ settingsChannel \in BOOLEAN /\ formEdited \in BOOLEAN
        /\ rowsLoading \in BOOLEAN /\ creatingType \in BOOLEAN /\ commonSaving \in BOOLEAN
    BY <1>0 DEF SettingsState
  <1>2. ASSUME NEW c \in ChannelIds, SettingsClick(c) PROVE SettingsInv'
    <2>1. /\ UNCHANGED <<calls, channelRow, channels, rowsLoading, creatingType, queryTarget>>
          /\ settingsChannelID' = c /\ settingsChannel' = TRUE
          /\ form' = channels[c] /\ formEdited' = FALSE
          /\ commonSaving' = (commonSaving /\ settingsChannelID = c) /\ tabSaves' = tabSaves
      BY <1>2 DEF SettingsClick, OpensSettings
    <2>2. channels[c] # NoChannel
      BY <1>2 DEF SettingsClick, ChannelButton, Known
    <2>3. form' \in Settings /\ form'.of = c
      BY <1>1, <2>1, <2>2 DEF RowsOfChannels
    <2>4. FormIsOfRow'
      BY <2>1, <2>2, <2>3 DEF FormIsOfRow
    <2>5. ShapedCalls' /\ \A n \in Slots : ChannelCallHolds(n)'
      BY <1>0, <2>1, ChannelCallStays DEF ShapedCalls, SettingsState
    <2>6. SettingsFlagsFall' /\ commonSaving' \in BOOLEAN /\ TabHolds'
      BY <1>0, <2>1 DEF SettingsState, SettingsFlagsFall, TabHolds, InFlight, Is
    <2>7. SettingsState'
      BY <1>1, <2>1, <2>3, <2>4, <2>5, <2>6 DEF SettingsState, RowsOfChannels
    <2>8. QED
      BY <2>5, <2>7 DEF SettingsInv
  <1>3. ASSUME NEW n \in Slots, NEW op, NEW arg, Free(n), Send(n, op, arg),
               UNCHANGED <<channelRow, channels, rowsLoading, queryTarget, settingsChannelID,
                           settingsChannel, form, formEdited>>,
               op \notin {"rows", "idle"},
               op \in {"status", "deleteChannel", "saveChannel"} => arg[1] \in ChannelIds,
               op = "status" => arg[2] \in BOOLEAN,
               op = "saveChannel" => arg[2] \in Settings /\ arg[2].of = arg[1],
               creatingType' \in BOOLEAN, creatingType' => creatingType \/ op = "createChannel",
               commonSaving' \in BOOLEAN,
               \/ UNCHANGED commonTabVars
               \/ op = "saveChannel" /\ tabSaves' = tabSaves \cup {n}
        PROVE  SettingsInv'
    <2>1. /\ ShapedCalls' /\ OnlySlot(n) /\ calls[n].op = "idle"
          /\ calls'[n].op = op /\ calls'[n].arg = arg /\ calls'[n].stage = "sent"
      BY <1>0, <1>3, SendIs DEF Free, Is
    <2>2. ChannelCallHolds(n)'
      BY <1>3, <2>1 DEF ChannelCallHolds, Is
    <2>3. FormIsOfRow'
      BY <1>0, <1>3 DEF FormIsOfRow
    <2>4. RowsOfChannels(channelRow') /\ RowsOfChannels(channels')
      BY <1>1, <1>3
    <2>5. TabHolds'
      <3>1. CASE UNCHANGED commonTabVars
        BY <1>0, <2>1, <3>1, TabMove DEF SettingsState, commonTabVars
      <3>2. CASE op = "saveChannel" /\ tabSaves' = tabSaves \cup {n}
        <4>1. ASSUME NEW m \in tabSaves' PROVE m \in Slots /\ calls'[m].op = "saveChannel"
          BY <1>0, <2>1, <3>2, <4>1 DEF SettingsState, TabHolds, OnlySlot
        <4>2. QED
          BY <3>2, <4>1 DEF TabHolds
      <3>3. QED
        BY <1>3, <3>1, <3>2
    <2>6. QED
      BY <1>1, <1>3, <2>1, <2>2, <2>3, <2>4, <2>5, SettingsMove
  <1>4. ASSUME NEW n \in Slots, StartCreate(n) PROVE SettingsInv'
    BY <1>1, <1>3, <1>4 DEF StartCreate, commonTabVars
  <1>5. ASSUME NEW n \in Slots, NEW c \in ChannelIds, ToggleStatus(n, c) \/ DeleteChannel(n, c)
        PROVE  SettingsInv'
    <2>1. channels[c].status \in BOOLEAN
      BY <1>1 DEF RowsOfChannels, Settings
    <2>2. UNCHANGED settingsVars /\ Free(n)
      BY <1>5 DEF ToggleStatus, DeleteChannel
    <2>3. CASE Send(n, "status", <<c, ~channels[c].status>>)
      <3> DEFINE on == ~channels[c].status
                 what == <<c, on>>
      <3>1. Send(n, "status", what) /\ what[1] = c /\ what[2] = on /\ on \in BOOLEAN
        BY <2>1, <2>3
      <3> HIDE DEF on, what
      <3>2. QED
        BY <1>1, <1>3, <2>2, <3>1 DEF settingsVars, commonTabVars
    <2>4. CASE Send(n, "deleteChannel", <<c>>)
      BY <1>1, <1>3, <2>1, <2>2, <2>4 DEF settingsVars, commonTabVars
    <2>5. QED
      BY <1>5, <2>3, <2>4 DEF ToggleStatus, DeleteChannel
  <1>6. ASSUME NEW n \in Slots, SaveCommonSettings(n) PROVE SettingsInv'
    <2>1. /\ settingsChannelID \in ChannelIds /\ form \in Settings /\ form.of = settingsChannelID
          /\ Free(n) /\ Send(n, "saveChannel", <<settingsChannelID, form>>) /\ commonSaving' = TRUE
          /\ tabSaves' = tabSaves \cup {n}
          /\ UNCHANGED <<channelRow, channels, rowsLoading, creatingType, queryTarget,
                         settingsChannelID, settingsChannel, form, formEdited>>
      BY <1>0, <1>1, <1>6 DEF SaveCommonSettings, SettingsForm, FormIsOfRow
    <2>2. QED
      BY <1>1, <1>3, <2>1
  <1>7. ASSUME NEW n \in Slots, PointerSubmit(n) PROVE SettingsInv'
    <2>1. UNCHANGED settingsVars /\ Free(n) /\ Send(n, "setPointer", <<pointerTarget>>)
      BY <1>7 DEF PointerSubmit
    <2>2. QED
      BY <1>1, <1>3, <2>1 DEF settingsVars, commonTabVars
  <1>8. CASE EditForm
    <2>1. /\ UNCHANGED <<calls, channelRow, channels, rowsLoading, creatingType, queryTarget,
                         settingsChannelID, settingsChannel, commonSaving, tabSaves>>
          /\ formEdited' = TRUE
      BY <1>8 DEF EditForm, commonTabVars
    <2>2. form' \in Settings /\ form'.of = form.of
      <3>1. CASE \E text \in {1, 2} \ {form.text} : form' = [form EXCEPT !.text = text]
        BY <1>1, <3>1 DEF Settings
      <3>2. CASE form' = [form EXCEPT !.status = ~@]
        BY <1>1, <3>2 DEF Settings
      <3>3. CASE form' = [form EXCEPT !.grouped = ~@]
        BY <1>1, <3>3 DEF Settings
      <3>4. QED
        BY <1>8, <3>1, <3>2, <3>3 DEF EditForm
    <2>3. FormIsOfRow'
      BY <1>0, <2>1, <2>2 DEF FormIsOfRow
    <2>4. ShapedCalls' /\ \A n \in Slots : ChannelCallHolds(n)'
      BY <1>0, <2>1, ChannelCallStays DEF ShapedCalls, SettingsState
    <2>5. SettingsFlagsFall' /\ TabHolds'
      BY <1>0, <2>1 DEF SettingsState, SettingsFlagsFall, TabHolds, InFlight, Is
    <2>6. SettingsState'
      BY <1>1, <2>1, <2>2, <2>3, <2>4, <2>5 DEF SettingsState, RowsOfChannels
    <2>7. QED
      BY <2>4, <2>6 DEF SettingsInv
  <1>9. CASE \/ \E c \in ChannelIds : PointerClick(c)
             \/ \E d \in {"settings", "pointer"} : ChannelDialogClose(d)
    BY <1>9, SettingsStayOpen DEF PointerClick, ChannelDialogClose, settingsVars
  <1>10. QED
    BY <1>2, <1>4, <1>5, <1>6, <1>7, <1>8, <1>9 DEF SettingsClicks

-----------------------------------------------------------------------------
(* The rest of a handler.                                                  *)

LEMMA RowsAnsweredKeep ==
    ASSUME SettingsInv, page = "settings", page' = page, NEW n \in Slots, RowsAnswered(n)
    PROVE  SettingsInv'
  <1>0. ShapedCalls /\ SettingsState /\ FormIsOfRow /\ ChannelCallHolds(n)
    BY DEF SettingsInv, SettingsState
  <1>1. /\ RowsOfChannels(channelRow) /\ RowsOfChannels(channels)
        /\ queryTarget \in ChannelIds \cup {"none"} /\ settingsChannelID \in ChannelIds \cup {"none"}
        /\ form \in Settings /\ settingsChannel \in BOOLEAN /\ formEdited \in BOOLEAN
        /\ creatingType \in BOOLEAN /\ commonSaving \in BOOLEAN
    BY <1>0 DEF SettingsState
  <1>2. calls[n].op = "rows" /\ calls[n].stage = "answered"
    BY DEF RowsAnswered, Resumes, Is
  <1> DEFINE rows == IF Ok(n) THEN calls[n].data ELSE channels
             created == calls[n].arg[1]
             target == IF Ok(n) /\ created # "none" THEN created ELSE queryTarget
  <1>3. created \in ChannelIds \cup {"none"} /\ RowsOfChannels(rows)
    BY <1>0, <1>1, <1>2 DEF ChannelCallHolds, Is
  <1>4. target \in ChannelIds \cup {"none"} /\ (~Ok(n) => rows = channels)
    BY <1>1, <1>3
  <1>5. /\ channels' = rows /\ queryTarget' = "none" /\ rowsLoading' = FALSE /\ Finish(n)
        /\ creatingType' = (creatingType /\ created = "none")
        /\ UNCHANGED channelRow
    BY DEF RowsAnswered
  <1>6. \/ target # "none" /\ rows[target] # NoChannel /\ OpensSettings(target, rows)
        \/ ReloadsSettings(rows)
        \/ rows = channels /\ UNCHANGED <<settingsChannelID, settingsChannel, form, formEdited, commonTabVars>>
    BY DEF RowsAnswered
  <1>7. creatingType' \in BOOLEAN /\ (creatingType' => creatingType /\ calls[n].arg[1] = "none")
    BY <1>5
  <1> HIDE DEF rows, created, target
  <1>8. ShapedCalls' /\ OnlySlot(n) /\ calls'[n].op = "idle"
    BY <1>0, <1>5, FinishIs
  <1>9. /\ settingsChannelID' \in ChannelIds \cup {"none"} /\ form' \in Settings
        /\ settingsChannel' \in BOOLEAN /\ formEdited' \in BOOLEAN /\ commonSaving' \in BOOLEAN
        /\ tabSaves' \in {tabSaves, {}} /\ (commonSaving' => commonSaving /\ tabSaves' = tabSaves)
        /\ FormIsOfRow'
    <2>1. CASE target # "none" /\ rows[target] # NoChannel /\ OpensSettings(target, rows)
      <3>1. /\ settingsChannelID' = target /\ settingsChannel' = TRUE
            /\ form' = rows[target] /\ formEdited' = FALSE
            /\ commonSaving' \in BOOLEAN /\ (commonSaving' => commonSaving) /\ tabSaves' = tabSaves
        BY <2>1 DEF OpensSettings
      <3>2. rows[target] \in Settings /\ rows[target].of = target
        BY <1>3, <1>4, <2>1 DEF RowsOfChannels
      <3>3. QED
        BY <1>4, <1>5, <2>1, <3>1, <3>2 DEF FormIsOfRow
    <2>2. CASE ReloadsSettings(rows)
      <3>1. /\ settingsChannelID' = settingsChannelID
            /\ UNCHANGED commonTabVars \/ TabUnmounts
        BY <2>2 DEF ReloadsSettings
      <3>2. /\ tabSaves' \in {tabSaves, {}} /\ (commonSaving' => commonSaving /\ tabSaves' = tabSaves)
            /\ commonSaving' \in BOOLEAN
        <4>1. CASE UNCHANGED commonTabVars
          BY <1>1, <4>1 DEF commonTabVars
        <4>2. CASE TabUnmounts
          BY <4>2 DEF TabUnmounts
        <4>3. QED
          BY <3>1, <4>1, <4>2
      <3>3. CASE settingsChannelID = "none"
        <4>1. UNCHANGED <<settingsChannel, form, formEdited>>
          BY <2>2, <3>3 DEF ReloadsSettings
        <4>2. QED
          BY <1>1, <3>1, <3>2, <3>3, <4>1 DEF FormIsOfRow
      <3>4. CASE settingsChannelID # "none"
        <4>1. settingsChannelID \in ChannelIds
          BY <1>1, <3>4
        <4>2. rows[settingsChannelID] \in Settings
              /\ (rows[settingsChannelID] # NoChannel => rows[settingsChannelID].of = settingsChannelID)
          BY <1>3, <4>1 DEF RowsOfChannels
        <4>3. CASE rows[settingsChannelID] = NoChannel
          <5>1. settingsChannel' = FALSE /\ UNCHANGED <<form, formEdited>>
            BY <2>2, <3>4, <4>3 DEF ReloadsSettings
          <5>2. QED
            BY <1>1, <3>1, <3>2, <5>1 DEF FormIsOfRow
        <4>4. CASE rows[settingsChannelID] # NoChannel
          <5>1. settingsChannel' = TRUE /\ form' = rows[settingsChannelID] /\ formEdited' = FALSE
            BY <2>2, <3>4, <4>4 DEF ReloadsSettings
          <5>2. QED
            BY <1>1, <1>5, <3>1, <3>2, <4>2, <4>4, <5>1 DEF FormIsOfRow
        <4>5. QED
          BY <4>3, <4>4
      <3>5. QED
        BY <3>3, <3>4
    <2>3. CASE /\ rows = channels
               /\ UNCHANGED <<settingsChannelID, settingsChannel, form, formEdited, commonTabVars>>
      BY <1>0, <1>1, <1>5, <2>3 DEF FormIsOfRow, commonTabVars
    <2>4. QED
      BY <1>6, <2>1, <2>2, <2>3
  <1>10. RowsOfChannels(channelRow') /\ RowsOfChannels(channels')
    BY <1>1, <1>3, <1>5
  <1>11. TabHolds'
    BY <1>0, <1>2, <1>8, <1>9, TabMove DEF SettingsState
  <1>12. QED
    BY <1>2, <1>5, <1>7, <1>8, <1>9, <1>10, <1>11, IdleChannelCall, SettingsMove

LEMMA SaveChannelAnsweredKeeps ==
    ASSUME SettingsInv, page = "settings", page' = page, NEW n \in Slots, SaveChannelAnswered(n)
    PROVE  SettingsInv'
  <1>0. ShapedCalls /\ SettingsState /\ FormIsOfRow /\ ChannelCallHolds(n)
    BY DEF SettingsInv, SettingsState
  <1>1. /\ RowsOfChannels(channelRow) /\ RowsOfChannels(channels)
        /\ queryTarget \in ChannelIds \cup {"none"} /\ settingsChannelID \in ChannelIds \cup {"none"}
        /\ form \in Settings /\ settingsChannel \in BOOLEAN /\ formEdited \in BOOLEAN
        /\ rowsLoading \in BOOLEAN /\ creatingType \in BOOLEAN /\ commonSaving \in BOOLEAN
    BY <1>0 DEF SettingsState
  <1>2. calls[n].op = "saveChannel"
    BY DEF SaveChannelAnswered, Resumes, Is
  <1> DEFINE c == calls[n].arg[1]
             rows == IF channels[c] = NoChannel THEN channels
                     ELSE [channels EXCEPT ![c] = calls[n].arg[2]]
  <1>3. c \in ChannelIds /\ calls[n].arg[2] \in Settings /\ calls[n].arg[2].of = c
    BY <1>0, <1>2 DEF ChannelCallHolds, Is
  <1>4. RowsOfChannels(rows)
    BY <1>1, <1>3 DEF RowsOfChannels
  <1>5. /\ commonSaving' = (commonSaving /\ n \notin tabSaves) /\ tabSaves' = tabSaves \ {n} /\ Finish(n)
        /\ UNCHANGED <<channelRow, rowsLoading, creatingType, queryTarget, settingsChannelID>>
    BY DEF SaveChannelAnswered
  <1>6. \/ /\ channels' = rows /\ (settingsChannelID = "none" \/ rows[settingsChannelID] = NoChannel)
           /\ settingsChannel' = (settingsChannel /\ settingsChannelID = "none")
           /\ UNCHANGED <<form, formEdited>>
        \/ /\ channels' = rows /\ settingsChannelID # "none" /\ rows[settingsChannelID] # NoChannel
           /\ settingsChannel' = TRUE
           /\ form' = rows[settingsChannelID] /\ formEdited' = FALSE
        \/ UNCHANGED <<channels, settingsChannel, form, formEdited>>
    BY DEF SaveChannelAnswered
  <1> HIDE DEF c, rows
  <1>7. ShapedCalls' /\ OnlySlot(n) /\ calls'[n].op = "idle"
    BY <1>0, <1>5, FinishIs
  <1>8. /\ RowsOfChannels(channels') /\ form' \in Settings
        /\ settingsChannel' \in BOOLEAN /\ formEdited' \in BOOLEAN
        /\ FormIsOfRow'
    <2>1. CASE /\ channels' = rows /\ (settingsChannelID = "none" \/ rows[settingsChannelID] = NoChannel)
               /\ settingsChannel' = (settingsChannel /\ settingsChannelID = "none")
               /\ UNCHANGED <<form, formEdited>>
      BY <1>1, <1>4, <1>5, <2>1 DEF FormIsOfRow
    <2>2. CASE /\ channels' = rows /\ settingsChannelID # "none" /\ rows[settingsChannelID] # NoChannel
               /\ settingsChannel' = TRUE
               /\ form' = rows[settingsChannelID] /\ formEdited' = FALSE
      <3>1. settingsChannelID \in ChannelIds
        BY <1>1, <2>2
      <3>2. rows[settingsChannelID] \in Settings /\ rows[settingsChannelID].of = settingsChannelID
        BY <1>4, <2>2, <3>1 DEF RowsOfChannels
      <3>3. QED
        BY <1>4, <1>5, <2>2, <3>2 DEF FormIsOfRow
    <2>3. CASE UNCHANGED <<channels, settingsChannel, form, formEdited>>
      BY <1>0, <1>1, <1>5, <2>3 DEF FormIsOfRow
    <2>4. QED
      BY <1>6, <2>1, <2>2, <2>3
  <1>9. RowsOfChannels(channelRow')
    BY <1>1, <1>5
  <1>10. TabHolds' /\ commonSaving' \in BOOLEAN
    <2>1. ASSUME NEW m \in tabSaves' PROVE m \in Slots /\ calls'[m].op = "saveChannel"
      BY <1>0, <1>5, <1>7, <2>1 DEF SettingsState, TabHolds, OnlySlot
    <2>2. commonSaving' => tabSaves' # {}
      BY <1>0, <1>5 DEF SettingsState, TabHolds
    <2>3. QED
      BY <1>1, <1>5, <2>1, <2>2 DEF TabHolds
  <1>11. QED
    BY <1>1, <1>2, <1>5, <1>7, <1>8, <1>9, <1>10, IdleChannelCall, SettingsMove

(* The handlers that refresh the rows, and the one that is refused.        *)
LEMMA RefreshingKeeps ==
    ASSUME SettingsInv, page = "settings", page' = page, NEW n \in Slots,
           CreatedAnswered(n) \/ RowChanged(n) \/ PointerRefused(n)
    PROVE  SettingsInv'
  <1>0. ShapedCalls /\ SettingsState /\ FormIsOfRow /\ ChannelCallHolds(n)
    BY DEF SettingsInv, SettingsState
  <1>1. /\ RowsOfChannels(channelRow) /\ RowsOfChannels(channels)
        /\ queryTarget \in ChannelIds \cup {"none"} /\ settingsChannelID \in ChannelIds \cup {"none"}
        /\ form \in Settings /\ settingsChannel \in BOOLEAN /\ formEdited \in BOOLEAN
        /\ rowsLoading \in BOOLEAN /\ creatingType \in BOOLEAN /\ commonSaving \in BOOLEAN
    BY <1>0 DEF SettingsState
  <1>2. /\ calls[n].op \in {"createChannel", "status", "deleteChannel", "setPointer"}
        /\ calls[n].stage = "answered"
    BY DEF CreatedAnswered, RowChanged, PointerRefused, Resumes, Is
  <1>3. UNCHANGED <<channelRow, channels, queryTarget, settingsChannelID, settingsChannel, form,
                    formEdited, commonSaving, tabSaves>>
    BY DEF CreatedAnswered, RowChanged, PointerRefused, settingsVars, commonTabVars
  <1>4. RowsOfChannels(channelRow') /\ RowsOfChannels(channels') /\ FormIsOfRow'
    BY <1>0, <1>1, <1>3 DEF FormIsOfRow
  <1>5. ASSUME Finish(n), UNCHANGED rowsLoading, creatingType' \in BOOLEAN,
               creatingType' => creatingType /\ calls[n].op # "createChannel"
        PROVE  SettingsInv'
    <2>1. ShapedCalls' /\ OnlySlot(n) /\ calls'[n].op = "idle"
      BY <1>0, <1>5, FinishIs
    <2>2. TabHolds'
      BY <1>0, <1>2, <1>3, <2>1, TabMove DEF SettingsState
    <2>3. QED
      BY <1>1, <1>2, <1>3, <1>4, <1>5, <2>1, <2>2, IdleChannelCall, SettingsMove
  <1>6. ASSUME NEW created \in ChannelIds \cup {"none"}, RefreshRows(n, created), UNCHANGED creatingType,
               calls[n].op = "createChannel" => created # "none"
        PROVE  SettingsInv'
    <2>1. /\ ShapedCalls' /\ OnlySlot(n) /\ rowsLoading' = TRUE
          /\ calls'[n].op = "rows" /\ calls'[n].arg = <<created>> /\ calls'[n].stage = "sent"
      BY <1>0, <1>6, SendIs DEF RefreshRows
    <2>2. calls'[n].arg[1] = created
      BY <2>1
    <2>3. ChannelCallHolds(n)'
      BY <1>6, <2>1, <2>2 DEF ChannelCallHolds, Is
    <2>4. TabHolds'
      BY <1>0, <1>2, <1>3, <2>1, TabMove DEF SettingsState
    <2>5. QED
      BY <1>1, <1>2, <1>3, <1>4, <1>6, <2>1, <2>2, <2>3, <2>4, SettingsMove
  <1>7. CASE CreatedAnswered(n)
    <2>1. calls[n].op = "createChannel" /\ (Ok(n) => calls[n].data \in ChannelIds)
      BY <1>0, <1>2, <1>7 DEF CreatedAnswered, Resumes, Is, ChannelCallHolds
    <2>2. CASE Ok(n)
      <3>1. RefreshRows(n, calls[n].data) /\ UNCHANGED creatingType
        BY <1>7, <2>2 DEF CreatedAnswered
      <3>2. QED
        BY <1>6, <2>1, <2>2, <3>1, ChannelsAssumption
    <2>3. CASE ~Ok(n)
      BY <1>5, <1>7, <2>3 DEF CreatedAnswered
    <2>4. QED
      BY <2>2, <2>3
  <1>8. CASE RowChanged(n) \/ PointerRefused(n)
    <2>1. UNCHANGED creatingType /\ calls[n].op # "createChannel"
      BY <1>8 DEF RowChanged, PointerRefused, settingsVars, Resumes, Is
    <2>2. \/ RefreshRows(n, "none")
          \/ Finish(n) /\ UNCHANGED rowsLoading
      BY <1>8 DEF RowChanged, PointerRefused, settingsVars
    <2>3. QED
      BY <1>1, <1>5, <1>6, <2>1, <2>2
  <1>9. QED
    BY <1>7, <1>8

LEMMA SettingsHiddenKeeps ==
    ASSUME SettingsInv, page = "settings", page' = page, SettingsHidden \/ PointerHidden
    PROVE  SettingsInv'
  <1>1. CASE PointerHidden
    BY <1>1, SettingsStayOpen DEF PointerHidden
  <1>2. CASE SettingsHidden
    <2>0. ShapedCalls /\ SettingsState
      BY DEF SettingsInv
    <2>1. /\ UNCHANGED <<calls, channelRow, channels, rowsLoading, creatingType, queryTarget, form>>
          /\ settingsChannelID' = "none" /\ settingsChannel' = FALSE
          /\ formEdited' = FALSE /\ commonSaving' = FALSE /\ tabSaves' = {}
      BY <1>2 DEF SettingsHidden, TabUnmounts
    <2>2. ShapedCalls' /\ \A n \in Slots : ChannelCallHolds(n)'
      BY <2>0, <2>1, ChannelCallStays DEF ShapedCalls, SettingsState
    <2>3. SettingsFlagsFall' /\ FormIsOfRow' /\ TabHolds'
      BY <2>0, <2>1 DEF SettingsState, SettingsFlagsFall, FormIsOfRow, TabHolds, InFlight, Is
    <2>4. SettingsState'
      BY <2>0, <2>1, <2>2, <2>3 DEF SettingsState, RowsOfChannels
    <2>5. QED
      BY <2>2, <2>4 DEF SettingsInv
  <1>3. QED
    BY <1>1, <1>2

-----------------------------------------------------------------------------
(* The answers.                                                            *)

LEMMA SettingsAnswersKeep ==
    ASSUME SettingsInv, page = "settings", page' = page, NEW n \in Slots,
           ShapedCalls', OnlySlot(n), SameErrands, RowsOfChannels(channelRow'),
           UNCHANGED <<channels, rowsLoading, creatingType, queryTarget, settingsChannelID,
                       settingsChannel, form, formEdited, commonTabVars>>,
           calls[n].op = "rows" /\ calls'[n].ok => RowsOfChannels(calls'[n].data),
           calls[n].op = "createChannel" /\ calls'[n].ok => calls'[n].data \in ChannelIds
    PROVE  SettingsInv'
  <1>0. ShapedCalls /\ SettingsState /\ SettingsFlagsFall /\ FormIsOfRow /\ ChannelCallHolds(n)
    BY DEF SettingsInv, SettingsState
  <1>1. calls'[n].op = calls[n].op /\ calls'[n].arg = calls[n].arg
    BY DEF SameErrands
  <1>2. ChannelCallHolds(n)'
    BY <1>0, <1>1 DEF ChannelCallHolds, Is, Ok, RowsOfChannels
  <1>3. FormIsOfRow'
    BY <1>0 DEF FormIsOfRow
  <1>4. ASSUME NEW m \in Slots PROVE ChannelCallHolds(m)'
    <2>1. CASE m = n
      BY <1>2, <2>1
    <2>2. CASE m # n
      <3>1. calls'[m] = calls[m] /\ ChannelCallHolds(m)
        BY <1>0, <2>2 DEF OnlySlot, SettingsState
      <3>2. QED
        BY <3>1, ChannelCallStays
    <2>3. QED
      BY <2>1, <2>2
  <1>5. SettingsFlagsFall' /\ TabHolds'
    <2>1. \A m \in Slots : calls'[m].op = calls[m].op /\ calls'[m].arg = calls[m].arg
      BY DEF SameErrands
    <2>2. QED
      BY <1>0, <2>1 DEF SettingsState, SettingsFlagsFall, TabHolds, InFlight, Is, commonTabVars
  <1>6. SettingsState'
    BY <1>0, <1>3, <1>4, <1>5 DEF SettingsState, RowsOfChannels, commonTabVars
  <1>7. QED
    BY <1>6 DEF SettingsInv

LEMMA SettingsServeKeeps ==
    ASSUME SettingsInv, page = "settings", page' = page, NEW n \in Slots, SettingsServe(n)
    PROVE  SettingsInv'
  <1>0. ShapedCalls /\ SettingsState /\ ChannelCallHolds(n) /\ RowsOfChannels(channelRow)
    BY DEF SettingsInv, SettingsState
  <1>1. UNCHANGED <<channels, rowsLoading, creatingType, queryTarget, settingsChannelID,
                    settingsChannel, form, formEdited, commonTabVars>>
    BY DEF SettingsServe
  <1>2. ASSUME NEW data, Answer(n, data), RowsOfChannels(channelRow'),
               calls[n].op = "rows" => RowsOfChannels(data),
               calls[n].op = "createChannel" => data \in ChannelIds
        PROVE  SettingsInv'
    <2>1. ShapedCalls' /\ OnlySlot(n) /\ SameErrands /\ calls'[n].data = data
      BY <1>0, <1>2, AnsweredIs
    <2>2. QED
      BY <1>1, <1>2, <2>1, SettingsAnswersKeep
  <1>3. CASE ServeRows(n)
    <2>1. calls[n].op = "rows" /\ Answer(n, channelRow) /\ channelRow' = channelRow
      BY <1>3 DEF ServeRows, Waits, Is
    <2>2. QED
      BY <1>0, <1>2, <2>1
  <1>4. CASE ServeCreateChannel(n)
    <2>1. /\ calls[n].op = "createChannel"
          /\ \E c \in ChannelIds : channelRow' = [channelRow EXCEPT ![c] = NewChannel(c)] /\ Answer(n, c)
      BY <1>4 DEF ServeCreateChannel, Waits, Is
    <2>2. PICK c \in ChannelIds : channelRow' = [channelRow EXCEPT ![c] = NewChannel(c)] /\ Answer(n, c)
      BY <2>1
    <2>3. NewChannel(c) \in Settings /\ NewChannel(c).of = c
      BY DEF NewChannel, Settings
    <2>4. RowsOfChannels(channelRow')
      BY <1>0, <2>2, <2>3 DEF RowsOfChannels
    <2>5. QED
      BY <1>2, <2>1, <2>2, <2>4
  <1>5. CASE ServeChannelChange(n)
    <2> DEFINE c == calls[n].arg[1]
    <2>1. /\ calls[n].op \in {"status", "deleteChannel", "saveChannel"}
          /\ Answer(n, <<>>) /\ channelRow[c] # NoChannel
          /\ calls[n].op = "status"
               => channelRow' = [channelRow EXCEPT ![c] = [@ EXCEPT !.text = 0, !.status = calls[n].arg[2]]]
          /\ calls[n].op = "deleteChannel" => channelRow' = [channelRow EXCEPT ![c] = NoChannel]
          /\ calls[n].op = "saveChannel"
               => channelRow' = [channelRow EXCEPT ![c] = [calls[n].arg[2] EXCEPT !.grouped = FALSE]]
      BY <1>5 DEF ServeChannelChange, Waits, Is
    <2>2. /\ c \in ChannelIds
          /\ calls[n].op = "status" => calls[n].arg[2] \in BOOLEAN
          /\ calls[n].op = "saveChannel" => calls[n].arg[2] \in Settings /\ calls[n].arg[2].of = c
      BY <1>0, <2>1 DEF ChannelCallHolds, Is
    <2> HIDE DEF c
    <2>3. channelRow[c] \in Settings /\ channelRow[c].of = c
      BY <1>0, <2>1, <2>2 DEF RowsOfChannels
    <2>4. ASSUME NEW row \in Settings, row.of = c \/ row = NoChannel,
                 channelRow' = [channelRow EXCEPT ![c] = row]
          PROVE  RowsOfChannels(channelRow')
      BY <1>0, <2>2, <2>4 DEF RowsOfChannels
    <2>5. CASE calls[n].op = "status"
      <3> DEFINE row == [channelRow[c] EXCEPT !.text = 0, !.status = calls[n].arg[2]]
      <3>1. row \in Settings /\ row.of = c
        BY <2>2, <2>3, <2>5 DEF Settings
      <3>2. channelRow' = [channelRow EXCEPT ![c] = row]
        BY <2>1, <2>5
      <3> HIDE DEF row
      <3>3. QED
        BY <1>2, <2>1, <2>4, <2>5, <3>1, <3>2
    <2>6. CASE calls[n].op = "deleteChannel"
      <3>1. NoChannel \in Settings
        BY DEF NoChannel, Settings
      <3>2. QED
        BY <1>2, <2>1, <2>4, <2>6, <3>1
    <2>7. CASE calls[n].op = "saveChannel"
      <3> DEFINE row == [calls[n].arg[2] EXCEPT !.grouped = FALSE]
      <3>1. row \in Settings /\ row.of = c
        BY <2>2, <2>7 DEF Settings
      <3>2. channelRow' = [channelRow EXCEPT ![c] = row]
        BY <2>1, <2>7
      <3> HIDE DEF row
      <3>3. QED
        BY <1>2, <2>1, <2>4, <2>7, <3>1, <3>2
    <2>8. QED
      BY <2>1, <2>5, <2>6, <2>7
  <1>6. QED
    BY <1>3, <1>4, <1>5 DEF SettingsServe

LEMMA SettingsNextKeeps == SettingsInv /\ SettingsNext => SettingsInv'
  <1> SUFFICES ASSUME SettingsInv, SettingsNext PROVE SettingsInv'
    OBVIOUS
  <1>0. page = "settings" /\ page' = page
    BY DEF SettingsNext
  <1>1. CASE SettingsClicks
    BY <1>0, <1>1, SettingsClicksKeep
  <1>2. ASSUME NEW n \in Slots, SettingsServe(n) PROVE SettingsInv'
    BY <1>0, <1>2, SettingsServeKeeps
  <1>3. ASSUME NEW n \in Slots, \/ RowsAnswered(n) \/ CreatedAnswered(n) \/ RowChanged(n)
                                \/ SaveChannelAnswered(n) \/ PointerRefused(n)
        PROVE  SettingsInv'
    BY <1>0, <1>3, RowsAnsweredKeep, RefreshingKeeps, SaveChannelAnsweredKeeps
  <1>4. CASE SettingsHidden \/ PointerHidden
    BY <1>0, <1>4, SettingsHiddenKeeps
  <1>5. ASSUME NEW n \in Slots, CallFails(n), UNCHANGED settingsVars PROVE SettingsInv'
    <2>1. ShapedCalls /\ RowsOfChannels(channelRow)
      BY <1>0 DEF SettingsInv, SettingsState
    <2>2. ShapedCalls' /\ OnlySlot(n) /\ SameErrands /\ ~calls'[n].ok
      BY <1>5, <2>1, FailedIs
    <2>3. QED
      BY <1>0, <1>5, <2>1, <2>2, SettingsAnswersKeep DEF settingsVars
  <1>6. QED
    BY <1>1, <1>2, <1>3, <1>4, <1>5 DEF SettingsNext, SettingsStep
-----------------------------------------------------------------------------
(* The users.                                                              *)

UserNames == UserIds \cup {"none"}
UserRows == [id : UserNames, of : UserNames, text : {0, 1}, on : BOOLEAN, secret : UserNames]
EditFields == [of : UserNames, text : {0, 1}, on : BOOLEAN]

IsRowOf(u, row) == row.id = u /\ row.of = u /\ row.secret = u

(* Every row is of its own user, the password included.                    *)
RowsOfUsers(rows) ==
    /\ rows \in [UserIds -> UserRows]
    /\ \A u \in UserIds : rows[u] = NoUser \/ IsRowOf(u, rows[u])

(* A call carries what was typed for the user whom it is for.              *)
UserCallHolds(n) ==
    /\ Is(n, "users") /\ calls[n].stage = "answered" /\ Ok(n) => RowsOfUsers(calls[n].data)
    /\ Is(n, "updateUser") => /\ calls[n].arg[1] \in UserIds /\ calls[n].arg[2] \in EditFields
                              /\ calls[n].arg[2].of = calls[n].arg[1]
    /\ calls[n].op \in {"addBalance", "resetPassword"}
          => calls[n].arg[1] \in UserIds /\ calls[n].arg[2] = calls[n].arg[1]

(* The call for which a form is saving clears that when it ends.           *)
FormSaving(call, ops) ==
    call # 0 => /\ call \in Slots
                /\ calls[call].op \in ops \/ (calls[call].op = "users" /\ calls[call].arg = call)

(* What is typed in a dialog is of the user for whom it is open.           *)
UsersState ==
    /\ RowsOfUsers(userRow) /\ RowsOfUsers(users)
    /\ editing = NoUser \/ (editing \in UserRows /\ editing.id \in UserIds /\ IsRowOf(editing.id, editing))
    /\ editFields \in EditFields
    /\ editing # NoUser => editFields.of = editing.id
    /\ typed \in {"none", editing.id}
    /\ usersLoading \in BOOLEAN /\ usersErr \in BOOLEAN
    /\ \A n \in Slots : UserCallHolds(n)
    /\ usersLoading => InFlight("users")
    /\ FormSaving(formSaves, {"addBalance", "resetPassword"})
    /\ FormSaving(createSaves, {"createUser"})

UsersInv ==
    /\ page = "users" => ShapedCalls /\ UsersState
    /\ page # "users" => RowsOfUsers(userRow) /\ editing = NoUser

LEMMA UsersInvIsEnough == UsersInv => UsersKeepTheirFields /\ UsersFlagsFall
  <1> SUFFICES ASSUME UsersInv PROVE UsersKeepTheirFields /\ UsersFlagsFall
    OBVIOUS
  <1>1. \A u \in UserIds : userRow[u].of \in {u, "none"} /\ userRow[u].secret \in {u, "none"}
    BY DEF UsersInv, UsersState, RowsOfUsers, IsRowOf, NoUser
  <1>2. UserDialog("editUser") => editFields.of = editing.id
    BY DEF UsersInv, UsersState, UserDialog
  <1>3. UsersFlagsFall
    BY DEF UsersInv, UsersState, UsersFlagsFall, FormSaving, Is
  <1>4. QED
    BY <1>1, <1>2, <1>3 DEF UsersKeepTheirFields

LEMMA UsersStay ==
    ASSUME UsersInv, UNCHANGED <<page, usersVars>>, page = "users" => UNCHANGED calls
    PROVE  UsersInv'
  BY DEF UsersInv, UsersState, UserCallHolds, FormSaving, ShapedCalls, RowsOfUsers, IsRowOf,
         InFlight, Is, Ok, usersVars

LEMMA UsersStart ==
    ASSUME page = "users", BrowserInit(UsersMount), UsersInit
    PROVE  UsersInv
  <1>1. UsersMount = <<Sent("users", 0)>>
    BY DEF UsersMount
  <1>2. /\ ShapedCalls /\ 1 \in Slots /\ calls[1].op = "users" /\ calls[1].stage = "sent"
        /\ \A n \in Slots \ {1} : calls[n].op = "idle"
    BY <1>1, OneIsMounted, IdleIsCall
  <1>3. RowsOfUsers(userRow) /\ RowsOfUsers(users)
    BY DEF UsersInit, RowsOfUsers, UserRows, UserNames, IsRowOf, NewUser, NoUser
  <1>4. /\ editing = NoUser /\ editFields \in EditFields /\ typed = "none"
        /\ formSaves = 0 /\ createSaves = 0
        /\ usersLoading \in BOOLEAN /\ usersErr \in BOOLEAN
    BY DEF UsersInit, EditFields, Fields, NoUser, UserNames
  <1>5. \A n \in Slots : UserCallHolds(n)
    BY <1>2 DEF UserCallHolds, Is
  <1>6. InFlight("users")
    BY <1>2 DEF InFlight, Is
  <1>7. QED
    BY <1>2, <1>3, <1>4, <1>5, <1>6 DEF UsersInv, UsersState, FormSaving

(* What the other calls were is all that a step in n can take away.        *)
LEMMA UserFlags ==
    ASSUME NEW n \in Slots, OnlySlot(n), ~Is(n, "users"), InFlight("users")
    PROVE  InFlight("users")'
  BY DEF InFlight, Is, OnlySlot

(* The form of the page after a change: nothing in it is of another user.  *)
LEMMA FormIsEmptied ==
    ASSUME FormEffect, typed \in {"none", editing.id}
    PROVE  typed' \in {"none", editing'.id} /\ formSaves' \in {0, formSaves}
  BY DEF FormEffect

LEMMA EditingIsSet ==
    ASSUME NEW row, row = NoUser \/ (row \in UserRows /\ row.id \in UserIds /\ IsRowOf(row.id, row)),
           SetEditing(row), editFields \in EditFields, editing # NoUser => editFields.of = editing.id
    PROVE  /\ editing' = row
           /\ editFields' \in EditFields
           /\ row # NoUser => editFields'.of = row.id
  BY DEF SetEditing, Fields, EditFields, UserRows, UserNames, IsRowOf

LEMMA UsersClickKeeps ==
    ASSUME UsersInv, UsersClick, page = "users", page' = page
    PROVE  UsersInv'
  <1>0. ShapedCalls /\ UsersState
    BY DEF UsersInv
  <1>1. ASSUME NEW u \in UserIds, NEW d \in UserDialogs, EditClick(u, d) PROVE UsersInv'
    <2>1. /\ users[u] \in UserRows /\ users[u].id \in UserIds /\ IsRowOf(users[u].id, users[u])
          /\ SetEditing(users[u]) /\ FormEffect
          /\ UNCHANGED <<calls, userRow, users, usersLoading, usersErr, createSaves>>
      BY <1>0, <1>1 DEF EditClick, UserButton, UsersState, RowsOfUsers, IsRowOf
    <2>2. /\ editing' = users[u] /\ editFields' \in EditFields /\ editFields'.of = editing'.id
          /\ typed' \in {"none", editing'.id} /\ formSaves' \in {0, formSaves}
      <3>1. users[u] # NoUser
        BY <1>1 DEF EditClick, UserButton
      <3>2. QED
        BY <1>0, <2>1, <3>1, EditingIsSet, FormIsEmptied DEF UsersState
    <2>3. FormSaving(formSaves, {"addBalance", "resetPassword"})'
      BY <1>0, <2>1, <2>2 DEF UsersState, FormSaving
    <2>4. QED
      BY <1>0, <2>1, <2>2, <2>3
         DEF UsersInv, UsersState, UserCallHolds, FormSaving, ShapedCalls, RowsOfUsers, IsRowOf,
             InFlight, Is, Ok
  <1>2. ASSUME NEW n \in Slots, NEW op, NEW arg, Free(n), Send(n, op, arg), op # "users",
               op = "updateUser" => /\ arg[1] \in UserIds /\ arg[2] \in EditFields
                                    /\ arg[2].of = arg[1],
               op \in {"addBalance", "resetPassword"} => arg[1] \in UserIds /\ arg[2] = arg[1],
               UNCHANGED <<userRow, users, usersLoading, editing, editFields>>,
               usersErr' = FALSE, typed' \in {"none", editing.id},
               formSaves' \in {0, formSaves} \/ (formSaves' = n /\ op \in {"addBalance", "resetPassword"}),
               createSaves' = createSaves \/ (createSaves' = n /\ op = "createUser")
        PROVE  UsersInv'
    <2>1. /\ ShapedCalls' /\ OnlySlot(n) /\ calls'[n].op = op /\ calls'[n].arg = arg
          /\ calls'[n].stage = "sent" /\ calls[n].op = "idle"
      BY <1>0, <1>2, SendIs DEF Free, Is
    <2>2. \A m \in Slots : UserCallHolds(m)'
      BY <1>0, <1>2, <2>1 DEF UsersState, UserCallHolds, OnlySlot, Is, Ok, RowsOfUsers, IsRowOf
    <2>3. usersLoading' => InFlight("users")'
      BY <1>0, <1>2, <2>1, UserFlags DEF UsersState, Is
    <2>4. FormSaving(formSaves, {"addBalance", "resetPassword"})'
      BY <1>0, <1>2, <2>1 DEF UsersState, FormSaving, OnlySlot
    <2>5. FormSaving(createSaves, {"createUser"})'
      BY <1>0, <1>2, <2>1 DEF UsersState, FormSaving, OnlySlot
    <2>6. QED
      BY <1>0, <1>2, <2>1, <2>2, <2>3, <2>4, <2>5 DEF UsersInv, UsersState, RowsOfUsers, IsRowOf
  <1>3. ASSUME NEW n \in Slots, NEW u \in UserIds, DeleteUser(n, u) PROVE UsersInv'
    <2>1. typed' \in {"none", editing.id} /\ formSaves' \in {0, formSaves}
      BY <1>0, <1>3, FormIsEmptied DEF DeleteUser, UsersState
    <2>2. /\ Free(n) /\ Send(n, "deleteUser", u)
          /\ UNCHANGED <<userRow, users, usersLoading, editing, editFields, createSaves>>
          /\ usersErr' = FALSE
      BY <1>3 DEF DeleteUser
    <2>3. QED
      BY <1>2, <2>1, <2>2
  <1>4. ASSUME NEW n \in Slots, UpdateUser(n) PROVE UsersInv'
    <2>1. typed' \in {"none", editing.id} /\ formSaves' \in {0, formSaves}
      BY <1>0, <1>4, FormIsEmptied DEF UpdateUser, UsersState
    <2>2. editing.id \in UserIds /\ editFields \in EditFields /\ editFields.of = editing.id
      BY <1>0, <1>4 DEF UpdateUser, UserDialog, UsersState
    <2> DEFINE arg == <<editing.id, editFields>>
    <2>3. arg[1] = editing.id /\ arg[2] = editFields
      OBVIOUS
    <2>4. /\ Free(n) /\ Send(n, "updateUser", arg)
          /\ UNCHANGED <<userRow, users, usersLoading, editing, editFields, createSaves>>
          /\ usersErr' = FALSE
      BY <1>4 DEF UpdateUser
    <2> HIDE DEF arg
    <2>5. QED
      BY <1>2, <2>1, <2>2, <2>3, <2>4
  <1>5. ASSUME NEW n \in Slots, SubmitCreate(n) PROVE UsersInv'
    <2>1. typed' \in {"none", editing.id} /\ formSaves' \in {0, formSaves}
      BY <1>0, <1>5, FormIsEmptied DEF SubmitCreate, UsersState
    <2>2. /\ Free(n) /\ Send(n, "createUser", <<>>)
          /\ UNCHANGED <<userRow, users, usersLoading, editing, editFields>>
          /\ usersErr' = FALSE /\ createSaves' = n
      BY <1>5 DEF SubmitCreate
    <2>3. QED
      BY <1>2, <2>1, <2>2
  <1>6. ASSUME NEW n \in Slots, NEW d \in {"addBalance", "resetPassword"}, SubmitForm(n, d)
        PROVE  UsersInv'
    <2>1. typed = editing.id /\ typed' \in {"none", editing.id} /\ editing.id \in UserIds
      BY <1>0, <1>6 DEF SubmitForm, UserDialog, UsersState
    <2> DEFINE arg == <<editing.id, typed>>
    <2>2. arg[1] = editing.id /\ arg[2] = typed
      OBVIOUS
    <2>3. /\ Free(n) /\ Send(n, d, arg)
          /\ UNCHANGED <<userRow, users, usersLoading, editing, editFields, createSaves>>
          /\ usersErr' = FALSE /\ formSaves' = n
      BY <1>6 DEF SubmitForm
    <2> HIDE DEF arg
    <2>4. QED
      BY <1>2, <2>1, <2>2, <2>3
  <1>7. CASE \/ \E d \in UserDialogs \cup {"createUser"} : UserDialogClose(d)
             \/ CreateUserOpen
    BY <1>7, UsersStay DEF UserDialogClose, CreateUserOpen, usersVars
  <1>8. CASE EditUserField
    <2>1. editFields' \in EditFields /\ editFields'.of = editFields.of
      <3>1. editFields \in EditFields
        BY <1>0 DEF UsersState
      <3>2. editFields.text \in {0, 1} /\ 1 - editFields.text \in {0, 1}
        BY <3>1 DEF EditFields
      <3>3. CASE editFields' = [editFields EXCEPT !.text = 1 - @]
        BY <3>1, <3>2, <3>3 DEF EditFields
      <3>4. CASE editFields' = [editFields EXCEPT !.on = ~@]
        BY <3>1, <3>4 DEF EditFields
      <3>5. QED
        BY <1>8, <3>3, <3>4 DEF EditUserField
    <2>2. UNCHANGED <<calls, userRow, users, usersLoading, usersErr, editing, typed, formSaves, createSaves>>
      BY <1>8 DEF EditUserField
    <2>3. QED
      BY <1>0, <2>1, <2>2
         DEF UsersInv, UsersState, UserCallHolds, FormSaving, ShapedCalls, RowsOfUsers, IsRowOf,
             InFlight, Is, Ok
  <1>9. CASE TypeIntoForm
    <2>1. /\ UNCHANGED <<calls, userRow, users, usersLoading, usersErr, editing, editFields, formSaves,
                         createSaves>>
          /\ typed' = editing.id
      BY <1>9 DEF TypeIntoForm
    <2>2. QED
      BY <1>0, <2>1
         DEF UsersInv, UsersState, UserCallHolds, FormSaving, ShapedCalls, RowsOfUsers, IsRowOf,
             InFlight, Is, Ok
  <1>10. QED
    BY <1>1, <1>3, <1>4, <1>5, <1>6, <1>7, <1>8, <1>9 DEF UsersClick

(* The server answers, or a call fails.                                    *)
LEMMA UsersAnswerKeeps ==
    ASSUME UsersInv, page = "users", page' = page, NEW n \in Slots,
           UsersServe(n) \/ (CallFails(n) /\ UNCHANGED usersVars)
    PROVE  UsersInv'
  <1>0. ShapedCalls /\ UsersState
    BY DEF UsersInv
  <1>1. /\ ShapedCalls' /\ OnlySlot(n) /\ SameErrands
        /\ UNCHANGED <<users, usersLoading, usersErr, editing, editFields, typed, formSaves, createSaves>>
    <2>1. CASE CallFails(n) /\ UNCHANGED usersVars
      BY <1>0, <2>1, FailedIs DEF usersVars
    <2>2. CASE UsersServe(n)
      <3>1. \E d : Answer(n, d)
        BY <2>2 DEF UsersServe, ServeUsers, ServeCreateUser, ServeDeleteUser, ServeUserChange
      <3>2. QED
        BY <1>0, <2>2, <3>1, AnsweredIs DEF UsersServe
    <2>3. QED
      BY <2>1, <2>2
  <1>2. RowsOfUsers(userRow')
    <2>0. userRow \in [UserIds -> UserRows]
      BY <1>0 DEF UsersState, RowsOfUsers
    <2>1. CASE CallFails(n) /\ UNCHANGED usersVars
      BY <1>0, <2>1 DEF usersVars, UsersState
    <2>2. CASE ServeUsers(n)
      BY <1>0, <2>2 DEF ServeUsers, UsersState
    <2>3. CASE ServeCreateUser(n)
      <3>1. PICK u \in UserIds : userRow' = [userRow EXCEPT ![u] = NewUser(u)]
        BY <2>3 DEF ServeCreateUser
      <3>2. NewUser(u) \in UserRows /\ IsRowOf(u, NewUser(u))
        BY DEF NewUser, UserRows, UserNames, IsRowOf
      <3>3. QED
        BY <1>0, <2>0, <3>1, <3>2 DEF UsersState, RowsOfUsers
    <2>4. CASE ServeDeleteUser(n)
      <3>1. NoUser \in UserRows
        BY DEF NoUser, UserRows, UserNames
      <3>2. userRow' = [userRow EXCEPT ![calls[n].arg] = NoUser]
        BY <2>4 DEF ServeDeleteUser
      <3>3. QED
        BY <1>0, <2>0, <3>1, <3>2 DEF UsersState, RowsOfUsers
    <2>5. CASE ServeUserChange(n)
      <3> DEFINE u == calls[n].arg[1]
                 what == calls[n].arg[2]
                 row == IF Is(n, "updateUser")
                        THEN [userRow[u] EXCEPT !.of = what.of, !.text = what.text, !.on = what.on]
                        ELSE [userRow[u] EXCEPT !.secret = what]
      <3>1. userRow[u] # NoUser /\ userRow' = [userRow EXCEPT ![u] = row]
        BY <2>5 DEF ServeUserChange
      <3>2. /\ u \in UserIds
            /\ Is(n, "updateUser") => what \in EditFields /\ what.of = u
            /\ ~Is(n, "updateUser") => what = u
        BY <1>0, <2>5 DEF ServeUserChange, Waits, Is, UsersState, UserCallHolds
      <3>3. userRow[u] \in UserRows /\ IsRowOf(u, userRow[u])
        BY <1>0, <3>1, <3>2 DEF UsersState, RowsOfUsers
      <3>4. row \in UserRows /\ IsRowOf(u, row)
        <4>1. CASE Is(n, "updateUser")
          BY <3>2, <3>3, <4>1 DEF UserRows, EditFields, IsRowOf
        <4>2. CASE ~Is(n, "updateUser")
          BY <3>2, <3>3, <4>2 DEF UserRows, UserNames, IsRowOf
        <4>3. QED
          BY <4>1, <4>2
      <3> HIDE DEF row, u, what
      <3>5. QED
        BY <1>0, <2>0, <3>1, <3>2, <3>4 DEF UsersState, RowsOfUsers
    <2>6. QED
      BY <2>1, <2>2, <2>3, <2>4, <2>5 DEF UsersServe
  <1>3. \A m \in Slots : UserCallHolds(m)'
    <2>1. ASSUME Is(n, "users"), calls'[n].ok PROVE RowsOfUsers(calls'[n].data)
      <3>1. ~CallFails(n)
        BY <1>0, <2>1, FailedIs
      <3>2. Answer(n, userRow)
        BY <2>1, <3>1 DEF UsersServe, ServeUsers, ServeCreateUser, ServeDeleteUser,
           ServeUserChange,
           Waits, Is
      <3>3. calls'[n].data = userRow
        BY <1>0, <3>2, AnsweredIs
      <3>4. QED
        BY <1>0, <3>3 DEF UsersState
    <2>2. ASSUME NEW m \in Slots, Is(m, "users")', calls'[m].stage = "answered", calls'[m].ok
          PROVE  RowsOfUsers(calls'[m].data)
      <3>1. Is(m, "users")
        BY <1>1, <2>2 DEF Is, SameErrands
      <3>2. CASE m = n
        BY <2>1, <2>2, <3>1, <3>2
      <3>3. CASE m # n
        <4>1. calls'[m] = calls[m]
          BY <1>1, <3>3 DEF OnlySlot
        <4>2. QED
          BY <1>0, <2>2, <3>1, <4>1 DEF UsersState, UserCallHolds, Ok
      <3>4. QED
        BY <3>2, <3>3
    <2>3. ASSUME NEW m \in Slots
          PROVE  /\ Is(m, "updateUser")' => /\ calls'[m].arg[1] \in UserIds
                                            /\ calls'[m].arg[2] \in EditFields
                                            /\ calls'[m].arg[2].of = calls'[m].arg[1]
                 /\ calls'[m].op \in {"addBalance", "resetPassword"}
                       => calls'[m].arg[1] \in UserIds /\ calls'[m].arg[2] = calls'[m].arg[1]
      <3>1. calls'[m].op = calls[m].op /\ calls'[m].arg = calls[m].arg /\ UserCallHolds(m)
        BY <1>0, <1>1 DEF SameErrands, UsersState
      <3>2. QED
        BY <3>1 DEF UserCallHolds, Is
    <2>4. QED
      BY <2>2, <2>3 DEF UserCallHolds, Ok, RowsOfUsers, IsRowOf
  <1>4. /\ usersLoading => InFlight("users")'
        /\ FormSaving(formSaves, {"addBalance", "resetPassword"})'
        /\ FormSaving(createSaves, {"createUser"})'
    BY <1>0, <1>1 DEF UsersState, FormSaving, SameErrands, InFlight, Is
  <1>5. RowsOfUsers(users)' /\ RowsOfUsers(userRow)'
    BY <1>0, <1>1, <1>2 DEF UsersState, RowsOfUsers, IsRowOf
  <1>6. /\ editing' = editing /\ editFields' = editFields /\ typed' = typed
        /\ usersLoading' = usersLoading /\ usersErr' = usersErr
    BY <1>1
  <1>7. UsersState'
    BY <1>0, <1>3, <1>4, <1>5, <1>6 DEF UsersState, IsRowOf
  <1>8. QED
    BY <1>1, <1>7 DEF UsersInv

LEMMA UsersResumeKeeps ==
    ASSUME UsersInv, page = "users", page' = page, NEW n \in Slots, UsersAnswered(n) \/ UserChanged(n)
    PROVE  UsersInv'
  <1>0. ShapedCalls /\ UsersState
    BY DEF UsersInv
  <1>1. CASE UsersAnswered(n)
    <2>1. /\ ShapedCalls' /\ OnlySlot(n) /\ calls'[n].op = "idle"
          /\ Is(n, "users") /\ calls[n].stage = "answered"
          /\ UNCHANGED <<userRow, editing, editFields>>
          /\ usersLoading' = FALSE /\ typed' = "none" /\ usersErr' \in BOOLEAN
      BY <1>0, <1>1, FinishIs DEF UsersAnswered, Resumes, UsersState
    <2>2. RowsOfUsers(users)' /\ RowsOfUsers(userRow)'
      <3>1. CASE Ok(n)
        <4>1. users' = calls[n].data /\ RowsOfUsers(calls[n].data)
          BY <1>0, <1>1, <2>1, <3>1 DEF UsersAnswered, UsersState, UserCallHolds
        <4>2. QED
          BY <1>0, <2>1, <4>1 DEF UsersState, RowsOfUsers, IsRowOf
      <3>2. CASE ~Ok(n)
        <4>1. users' = [u \in UserIds |-> NoUser]
          BY <1>1, <3>2 DEF UsersAnswered
        <4>2. NoUser \in UserRows
          BY DEF NoUser, UserRows, UserNames
        <4>3. QED
          BY <1>0, <2>1, <4>1, <4>2 DEF UsersState, RowsOfUsers, IsRowOf
      <3>3. QED
        BY <3>1, <3>2
    <2>3. \A m \in Slots : UserCallHolds(m)'
      BY <1>0, <2>1 DEF UsersState, UserCallHolds, OnlySlot, Is, Ok, RowsOfUsers, IsRowOf
    <2>4. ASSUME NEW call, NEW ops, call' = IF call = n /\ calls[n].arg = n THEN 0 ELSE call,
                 FormSaving(call, ops), "users" \notin ops
          PROVE  FormSaving(call, ops)'
      BY <2>1, <2>4 DEF FormSaving, OnlySlot, Is
    <2>5. /\ FormSaving(formSaves, {"addBalance", "resetPassword"})'
          /\ FormSaving(createSaves, {"createUser"})'
      BY <1>0, <1>1, <2>1 DEF UsersAnswered, UsersState, FormSaving, OnlySlot, Is
    <2>6. QED
      BY <1>0, <2>1, <2>2, <2>3, <2>5 DEF UsersInv, UsersState, IsRowOf
  <1>2. CASE UserChanged(n)
    <2>1. PICK op \in {"deleteUser", "updateUser", "createUser", "addBalance", "resetPassword"} :
            /\ Resumes(n, op)
            /\ IF Ok(n)
               THEN /\ RefreshUsers(n, IF op \in {"createUser", "addBalance", "resetPassword"} THEN n ELSE 0)
                    /\ UNCHANGED <<formSaves, createSaves>>
               ELSE /\ usersErr' = TRUE /\ UNCHANGED usersLoading
                    /\ Finish(n)
                    /\ formSaves' = IF formSaves = n THEN 0 ELSE formSaves
                    /\ createSaves' = IF createSaves = n THEN 0 ELSE createSaves
      BY <1>2 DEF UserChanged
    <2>2. /\ typed' \in {"none", typed} /\ UNCHANGED <<userRow, users, editing, editFields>>
          /\ calls[n].op = op /\ ~Is(n, "users")
      BY <1>2, <2>1 DEF UserChanged, Resumes, Is
    <2>3. CASE Ok(n)
      <3> DEFINE waiter == IF op \in {"createUser", "addBalance", "resetPassword"} THEN n ELSE 0
      <3>1. /\ ShapedCalls' /\ OnlySlot(n) /\ calls'[n].op = "users" /\ calls'[n].arg = waiter
            /\ calls'[n].stage = "sent"
            /\ usersErr' = FALSE /\ usersLoading' = TRUE
            /\ UNCHANGED <<formSaves, createSaves>>
        BY <1>0, <2>1, <2>3, SendIs DEF RefreshUsers
      <3>2. \A m \in Slots : UserCallHolds(m)'
        BY <1>0, <3>1 DEF UsersState, UserCallHolds, OnlySlot, Is, Ok, RowsOfUsers, IsRowOf
      <3>3. FormSaving(formSaves, {"addBalance", "resetPassword"})'
        BY <1>0, <2>2, <3>1 DEF UsersState, FormSaving, OnlySlot, Is
      <3>4. FormSaving(createSaves, {"createUser"})'
        BY <1>0, <2>2, <3>1 DEF UsersState, FormSaving, OnlySlot, Is
      <3>5. InFlight("users")'
        BY <3>1 DEF InFlight, Is
      <3>6. QED
        BY <1>0, <2>2, <3>1, <3>2, <3>3, <3>4, <3>5
           DEF UsersInv, UsersState, RowsOfUsers, IsRowOf
    <2>4. CASE ~Ok(n)
      <3>1. /\ ShapedCalls' /\ OnlySlot(n) /\ calls'[n].op = "idle"
            /\ usersErr' = TRUE /\ usersLoading' = usersLoading
            /\ formSaves' = IF formSaves = n THEN 0 ELSE formSaves
            /\ createSaves' = IF createSaves = n THEN 0 ELSE createSaves
        BY <1>0, <2>1, <2>4, FinishIs
      <3>2. \A m \in Slots : UserCallHolds(m)'
        BY <1>0, <3>1 DEF UsersState, UserCallHolds, OnlySlot, Is, Ok, RowsOfUsers, IsRowOf
      <3>3. FormSaving(formSaves, {"addBalance", "resetPassword"})'
        BY <1>0, <3>1 DEF UsersState, FormSaving, OnlySlot
      <3>4. FormSaving(createSaves, {"createUser"})'
        BY <1>0, <3>1 DEF UsersState, FormSaving, OnlySlot
      <3>5. usersLoading' => InFlight("users")'
        BY <1>0, <2>2, <3>1, UserFlags DEF UsersState
      <3>6. QED
        BY <1>0, <2>2, <3>1, <3>2, <3>3, <3>4, <3>5
           DEF UsersInv, UsersState, RowsOfUsers, IsRowOf
    <2>5. QED
      BY <2>3, <2>4
  <1>3. QED
    BY <1>1, <1>2

LEMMA UsersNextKeeps == UsersInv /\ UsersNext => UsersInv'
  <1> SUFFICES ASSUME UsersInv, UsersNext PROVE UsersInv'
    OBVIOUS
  <1>1. page = "users" /\ page' = page
    BY DEF UsersNext
  <1>2. ASSUME NEW d \in UserDialogs, UserDialogHidden(d) PROVE UsersInv'
    <2>0. ShapedCalls /\ UsersState
      BY <1>1 DEF UsersInv
    <2>1. /\ SetEditing(NoUser) /\ FormEffect
          /\ UNCHANGED <<calls, userRow, users, usersLoading, usersErr, createSaves>>
      BY <1>2 DEF UserDialogHidden
    <2>2. /\ editing' = NoUser /\ editFields' \in EditFields
          /\ typed' \in {"none", editing'.id} /\ formSaves' \in {0, formSaves}
      BY <2>0, <2>1, EditingIsSet, FormIsEmptied DEF UsersState
    <2>3. FormSaving(formSaves, {"addBalance", "resetPassword"})'
      BY <2>0, <2>1, <2>2 DEF UsersState, FormSaving
    <2>4. QED
      BY <1>1, <2>0, <2>1, <2>2, <2>3
         DEF UsersInv, UsersState, UserCallHolds, FormSaving, ShapedCalls, RowsOfUsers, IsRowOf,
             InFlight, Is, Ok
  <1>3. CASE CreateUserHidden
    BY <1>1, <1>3, UsersStay DEF CreateUserHidden
  <1>4. QED
    BY <1>1, <1>2, <1>3, UsersClickKeeps, UsersAnswerKeeps, UsersResumeKeeps
       DEF UsersNext, UsersStep
-----------------------------------------------------------------------------
(* The walk of root through the events.  What it met reaches down to the   *)
(* cursor of the next page; a page reached by the other cursor starts it   *)
(* again.                                                                  *)

(* At rest what is shown is of the filter above it.                        *)
WalkState ==
    /\ events \subseteq AnyEvent
    /\ limit \in Limits /\ filter \in Filters
    /\ usageLoading \in BOOLEAN /\ usageData \in BOOLEAN /\ retyped \in BOOLEAN
    /\ NoGap(walk) /\ walk.met \in SUBSET AnyEvent
    /\ nextBefore \in 0..MaxEvent /\ prevAfter \in 0..MaxEvent
    /\ nextBefore # 0 => Reaches(walk.met, nextBefore)
    /\ ~usageLoading /\ ~retyped /\ usageData => shownOf = filter /\ windowOf \in {{}, filter}

(* A query under way goes on from the cursor of the walk, turns back, or   *)
(* starts anew.                                                            *)
QueryHolds(q) ==
    /\ q.before \in 0..MaxEvent /\ q.after \in 0..MaxEvent /\ q.limit \in Limits
    /\ q.before # 0 => q.after = 0 /\ Reaches(walk.met, q.before)
    /\ ~retyped => q.filter = filter /\ (HasCursor(q) => windowOf \in {{}, filter})

(* An answer is cut out of the rows there were without a gap; one with a   *)
(* cursor of the next page starts right below it.                          *)
CutHolds(q, answer) ==
    /\ answer.had \in SUBSET AnyEvent
    /\ answer.cut.events \in SUBSET answer.had
    /\ CutWhole(answer.cut.events, answer.had)
    /\ q.before # 0 => CutBelow(answer.cut.events, answer.had, q.before)
    /\ CursorIsOldest(answer.cut.next, answer.cut.events)
    /\ answer.cut.prev \in {0} \cup answer.cut.events

(* At most one query is under way, while the page says so.                 *)
QueriesHold ==
    \A n \in Slots : Is(n, "usage") =>
        /\ usageLoading
        /\ QueryHolds(calls[n].arg)
        /\ calls[n].stage = "answered" /\ Ok(n) => CutHolds(calls[n].arg, calls[n].data)
        /\ \A m \in Slots \ {n} : ~Is(m, "usage")

UsageAdminInv ==
    /\ page = "usageAdmin" => ShapedCalls /\ WalkState /\ QueriesHold /\ UsageAdminFlagsFall
    /\ page # "usageAdmin" => ~usageData /\ NoGap(walk)

LEMMA UsageAdminInvIsEnough == UsageAdminInv => UsageAdminIsWhole /\ UsageAdminFlagsFall
  BY DEF UsageAdminInv, WalkState, UsageAdminIsWhole, UsageAdminFlagsFall

LEMMA UsageAdminStays ==
    ASSUME UsageAdminInv, UNCHANGED <<page, usageAdminVars>>, page = "usageAdmin" => UNCHANGED calls
    PROVE  UsageAdminInv'
  <1>1. CASE page = "usageAdmin"
    <2>1. calls' = calls
      BY <1>1
    <2>2. ShapedCalls' /\ UsageAdminFlagsFall'
      BY <1>1, <2>1 DEF UsageAdminInv, UsageAdminFlagsFall, ShapedCalls, InFlight, InFlightFor,
         Is,
         usageAdminVars, eventDetailVars
    <2>3. WalkState'
      BY <1>1 DEF UsageAdminInv, WalkState, usageAdminVars, pickVars, dataVars
    <2>4. QueriesHold'
      BY <1>1, <2>1 DEF UsageAdminInv, QueriesHold, QueryHolds, CutHolds, HasCursor, Is, Ok,
         usageAdminVars, pickVars, dataVars
    <2>5. QED
      BY <1>1, <2>2, <2>3, <2>4 DEF UsageAdminInv
  <1>2. CASE page # "usageAdmin"
    BY <1>2 DEF UsageAdminInv, usageAdminVars, dataVars
  <1>3. QED
    BY <1>1, <1>2

(* A step that does not touch the walk, and at most ends or sends in n     *)
(* what is no query, picks, or stores an event.                            *)
LEMMA UsageQuiets ==
    ASSUME UsageAdminInv, page = "usageAdmin", page' = page, NEW n \in Slots, ShapedCalls', OnlySlot(n),
           UNCHANGED <<usageLoading, dataVars>>, events' \subseteq AnyEvent,
           limit' \in Limits, filter' \in Filters, retyped' \in BOOLEAN,
           UNCHANGED <<filter, retyped>> \/ retyped',
           calls'[n] = calls[n] \/ (~Is(n, "usage") /\ ~Is(n, "usage")'),
           detailLoadingID' # 0 => InFlightFor("detail", detailLoadingID)'
    PROVE  UsageAdminInv'
  <1>1. WalkState /\ QueriesHold /\ UsageAdminFlagsFall
    BY DEF UsageAdminInv
  <1>2. /\ usageLoading' = usageLoading
        /\ usageData' = usageData /\ shown' = shown /\ nextBefore' = nextBefore /\ walk' = walk
        /\ shownOf' = shownOf /\ windowOf' = windowOf /\ prevAfter' = prevAfter
    BY DEF dataVars
  <1>3. WalkState'
    <2>1. /\ usageLoading' \in BOOLEAN /\ usageData' \in BOOLEAN
          /\ NoGap(walk') /\ walk'.met \in SUBSET AnyEvent
          /\ nextBefore' \in 0..MaxEvent /\ prevAfter' \in 0..MaxEvent
          /\ nextBefore' # 0 => Reaches(walk'.met, nextBefore')
      BY <1>1, <1>2 DEF WalkState
    <2>2. ~usageLoading' /\ ~retyped' /\ usageData' => shownOf' = filter' /\ windowOf' \in {{}, filter'}
      BY <1>1, <1>2 DEF WalkState
    <2>3. QED
      BY <2>1, <2>2 DEF WalkState
  <1>4. ASSUME NEW m \in Slots, Is(m, "usage")'
        PROVE  Is(m, "usage") /\ calls'[m] = calls[m] /\ usageLoading
    <2>1. calls'[m] = calls[m]
      BY <1>4 DEF OnlySlot
    <2>2. Is(m, "usage")
      BY <1>4, <2>1 DEF Is
    <2>3. QED
      BY <1>1, <2>1, <2>2 DEF QueriesHold
  <1>5. ASSUME NEW m \in Slots, Is(m, "usage")' PROVE QueryHolds(calls[m].arg)'
    <2>1. QueryHolds(calls[m].arg) /\ calls'[m] = calls[m]
      BY <1>1, <1>4, <1>5 DEF QueriesHold
    <2>2. QED
      BY <1>2, <2>1 DEF QueryHolds, HasCursor
  <1>6. QueriesHold'
    <2>1. ASSUME NEW m \in Slots, Is(m, "usage")', calls'[m].stage = "answered", calls'[m].ok
          PROVE  CutHolds(calls[m].arg, calls[m].data)'
      <3>1. CutHolds(calls[m].arg, calls[m].data) /\ calls'[m] = calls[m]
        BY <1>1, <1>4, <2>1 DEF QueriesHold, Ok
      <3>2. QED
        BY <3>1 DEF CutHolds
    <2>2. ASSUME NEW m \in Slots, Is(m, "usage")', NEW o \in Slots \ {m} PROVE ~Is(o, "usage")'
      <3>1. Is(m, "usage")
        BY <1>4, <2>2
      <3>2. ~Is(o, "usage")
        BY <1>1, <3>1 DEF QueriesHold
      <3>3. QED
        BY <1>4, <3>2
    <2>3. QED
      BY <1>2, <1>4, <1>5, <2>1, <2>2 DEF QueriesHold, Ok
  <1>7. usageLoading' => InFlight("usage")'
    <2> SUFFICES ASSUME usageLoading PROVE InFlight("usage")'
      BY <1>2
    <2>1. PICK m \in Slots : Is(m, "usage")
      BY <1>1 DEF UsageAdminFlagsFall, InFlight
    <2>2. Is(m, "usage")'
      BY <2>1 DEF Is, OnlySlot
    <2>3. QED
      BY <2>2 DEF InFlight
  <1>8. QED
    BY <1>3, <1>6, <1>7 DEF UsageAdminInv, UsageAdminFlagsFall

(* A query is sent: without a cursor it clears retyped, with one it is for *)
(* the page beside the one on show.                                        *)
LEMMA QuerySent ==
    ASSUME UsageAdminInv, page = "usageAdmin", page' = page, NEW n \in Slots, NEW query,
           RefreshUsage(n, query), ~usageLoading,
           UNCHANGED <<events, limit, dataVars, detailLoadingID>>,
           filter' \in Filters, query.limit = limit, query.filter = filter',
           query.before \in 0..MaxEvent, query.after \in 0..MaxEvent,
           query.before # 0 => query.after = 0 /\ query.before = nextBefore,
           \/ query.before = 0 /\ query.after = 0 /\ retyped' \in BOOLEAN
           \/ UNCHANGED <<filter, retyped>> /\ usageData
    PROVE  UsageAdminInv'
  <1>1. WalkState /\ QueriesHold /\ UsageAdminFlagsFall /\ ShapedCalls
    BY DEF UsageAdminInv
  <1>2. /\ events' = events /\ usageLoading' = TRUE /\ limit' = limit
        /\ usageData' = usageData /\ shown' = shown /\ nextBefore' = nextBefore /\ walk' = walk
        /\ shownOf' = shownOf /\ windowOf' = windowOf /\ prevAfter' = prevAfter
    BY DEF dataVars, RefreshUsage
  <1>3. /\ ShapedCalls' /\ OnlySlot(n) /\ calls'[n].op = "usage" /\ calls'[n].arg = query
        /\ calls'[n].stage = "sent"
    BY <1>1, SendIs DEF RefreshUsage
  <1>4. WalkState'
    <2>1. /\ events' \subseteq AnyEvent /\ NoGap(walk') /\ walk'.met \in SUBSET AnyEvent
          /\ usageData' \in BOOLEAN /\ retyped' \in BOOLEAN /\ limit' \in Limits
          /\ nextBefore' \in 0..MaxEvent /\ prevAfter' \in 0..MaxEvent
          /\ nextBefore' # 0 => Reaches(walk'.met, nextBefore')
      BY <1>1, <1>2 DEF WalkState
    <2>2. QED
      BY <1>2, <2>1 DEF WalkState
  <1>5. QueryHolds(calls[n].arg)'
    <2>1. query.before # 0 => Reaches(walk.met, query.before)
      BY <1>1 DEF WalkState
    <2>2. ~retyped' /\ HasCursor(query) => windowOf \in {{}, filter'}
      BY <1>1 DEF WalkState, HasCursor
    <2>3. query.limit \in Limits
      BY <1>1 DEF WalkState
    <2>4. QED
      BY <1>2, <1>3, <2>1, <2>2, <2>3 DEF QueryHolds, HasCursor
  <1>6. \A m \in Slots \ {n} : ~Is(m, "usage")'
    BY <1>1, <1>3 DEF QueriesHold, Is, OnlySlot
  <1>7. QueriesHold'
    BY <1>2, <1>3, <1>5, <1>6 DEF QueriesHold
  <1>8. UsageAdminFlagsFall'
    <2>1. InFlight("usage")'
      BY <1>3 DEF InFlight, Is
    <2>2. Is(n, "idle")
      BY DEF RefreshUsage, Free
    <2>3. detailLoadingID' # 0 => InFlightFor("detail", detailLoadingID)'
      BY <1>1, <1>3, <2>2 DEF UsageAdminFlagsFall, InFlightFor, Is, OnlySlot
    <2>4. QED
      BY <2>1, <2>3 DEF UsageAdminFlagsFall
  <1>9. QED
    BY <1>3, <1>4, <1>7, <1>8 DEF UsageAdminInv

LEMMA UsageAnsweredKeeps ==
    ASSUME UsageAdminInv, page = "usageAdmin", page' = page, NEW n \in Slots, UsageAnswered(n)
    PROVE  UsageAdminInv'
  <1> DEFINE q == calls[n].arg
             cut == calls[n].data.cut
             had == calls[n].data.had
  <1>1. WalkState /\ QueriesHold /\ UsageAdminFlagsFall /\ ShapedCalls
    BY DEF UsageAdminInv
  <1>2. /\ usageLoading' = FALSE
        /\ retyped' = retyped /\ limit' = limit /\ events' = events
        /\ detailLoadingID' = detailLoadingID
        /\ ShapedCalls' /\ OnlySlot(n) /\ calls'[n].op = "idle"
        /\ Is(n, "usage") /\ calls[n].stage = "answered"
    BY <1>1, FinishIs DEF UsageAnswered, eventDetailVars, Resumes
  <1>3. QueriesHold'
    BY <1>1, <1>2 DEF QueriesHold, Is, OnlySlot
  <1>4. UsageAdminFlagsFall'
    BY <1>1, <1>2 DEF UsageAdminFlagsFall, InFlightFor, Is, OnlySlot
  <1>5. /\ events' \subseteq AnyEvent /\ MaxEvent \in Nat /\ 0 \in 0..MaxEvent
        /\ limit' \in Limits /\ retyped' \in BOOLEAN
    BY <1>1, <1>2, UsageAssumption DEF WalkState
  <1>6. filter' \in Filters /\ (retyped \/ filter' = filter)
    BY <1>1 DEF UsageAnswered, WalkState
  <1>7. CASE ~Ok(n)
    <2>1. usageData' = FALSE /\ nextBefore' = 0 /\ prevAfter' = 0 /\ walk' = walk
      BY <1>7 DEF UsageAnswered
    <2>2. NoGap(walk') /\ walk'.met \in SUBSET AnyEvent
      BY <1>1, <2>1 DEF WalkState
    <2>3. WalkState'
      BY <1>2, <1>5, <1>6, <2>1, <2>2 DEF WalkState
    <2>4. QED
      BY <1>2, <1>3, <1>4, <2>3 DEF UsageAdminInv
  <1>8. CASE Ok(n)
    <2>1. /\ usageData' = TRUE /\ shownOf' = q.filter
          /\ windowOf' = IF HasCursor(q) THEN windowOf ELSE q.filter
          /\ nextBefore' = cut.next /\ prevAfter' = cut.prev
      BY <1>8 DEF UsageAnswered
    <2>2. walk' = Walked(walk, q.filter, q.before = 0, cut, had)
      BY <1>8 DEF UsageAnswered
    <2>3. /\ q.before \in 0..MaxEvent
          /\ q.before # 0 => Reaches(walk.met, q.before)
          /\ ~retyped => q.filter = filter /\ (HasCursor(q) => windowOf \in {{}, filter})
      BY <1>1, <1>2 DEF QueriesHold, QueryHolds
    <2>4. /\ had \in SUBSET AnyEvent /\ cut.events \in SUBSET had /\ CutWhole(cut.events, had)
          /\ q.before # 0 => CutBelow(cut.events, had, q.before)
          /\ CursorIsOldest(cut.next, cut.events)
          /\ cut.prev \in {0} \cup cut.events
      BY <1>1, <1>2, <1>8 DEF QueriesHold, CutHolds
    <2>5. NoGap(walk) /\ walk.met \in SUBSET (1..MaxEvent) /\ had \in SUBSET (1..MaxEvent)
      BY <1>1, <2>4 DEF WalkState, AnyEvent
    <2> HIDE DEF q, cut, had
    <2>6. /\ NoGap(walk') /\ walk'.met \in SUBSET (1..MaxEvent)
          /\ cut.next # 0 => cut.next \in 1..MaxEvent /\ Reaches(walk'.met, cut.next)
      <3>1. WalksOn(walk', walk, q.before, cut, had)
        BY <2>2, WalkedIs
      <3>2. q.before # 0 => CutBelow(cut.events, had, q.before) /\ Reaches(walk.met, q.before)
        BY <2>3, <2>4
      <3>3. QED
        BY <1>5, <2>3, <2>4, <2>5, <3>1, <3>2, WalkGoesOn
    <2>7. WalkState'
      <3>1. nextBefore' \in 0..MaxEvent
        BY <1>5, <2>1, <2>6
      <3>2. prevAfter' \in 0..MaxEvent
        <4>1. cut.prev \in {0} \cup (1..MaxEvent)
          BY <2>4 DEF AnyEvent
        <4>2. cut.prev \in 0..MaxEvent
          BY <1>5, <4>1
        <4>3. QED
          BY <2>1, <4>2
      <3>3. ~retyped' => shownOf' = filter' /\ windowOf' \in {{}, filter'}
        BY <1>2, <1>6, <2>1, <2>3
      <3>4. nextBefore' # 0 => Reaches(walk'.met, nextBefore')
        BY <2>1, <2>6
      <3>5. QED
        BY <1>2, <1>5, <1>6, <2>1, <2>6, <3>1, <3>2, <3>3, <3>4 DEF WalkState, AnyEvent
    <2>8. QED
      BY <1>2, <1>3, <1>4, <2>7 DEF UsageAdminInv
  <1>9. QED
    BY <1>7, <1>8

(* What the server cuts is as an answer should be.                         *)
LEMMA ServedCutHolds ==
    ASSUME NEW q, q.before \in 0..MaxEvent, q.after \in 0..MaxEvent, q.limit \in Limits,
           q.before # 0 => q.after = 0,
           NEW had \in SUBSET AnyEvent, NEW answer,
           answer.cut = AdminPageOf(had, q.before, q.after, q.limit), answer.had = had
    PROVE  CutHolds(q, answer)
  <1> DEFINE before == q.before
             after == q.after
             size == q.limit
             cut == answer.cut
  <1>1. /\ MaxEvent \in Nat /\ had \in SUBSET (1..MaxEvent) /\ before \in Nat /\ after \in Nat
        /\ size \in Nat \ {0} /\ cut = AdminPageOf(had, before, after, size)
        /\ before # 0 => after = 0
    <2>1. MaxEvent \in Nat /\ Limits \subseteq Nat \ {0}
      BY UsageAssumption
    <2>2. before \in Nat /\ after \in Nat
      BY <2>1
    <2>3. QED
      BY <2>1, <2>2 DEF AnyEvent
  <1> HIDE DEF before, after, size, cut
  <1>2. /\ cut.events \subseteq had /\ CutWhole(cut.events, had)
        /\ before # 0 => CutBelow(cut.events, had, before)
        /\ CursorIsOldest(cut.next, cut.events)
        /\ cut.prev \in {0} \cup cut.events
    <2>1. cut.events \subseteq had
      BY <1>1, AdminPageIs
    <2>2. CutWhole(cut.events, had)
      BY <1>1, AdminPageIsWhole
    <2>3. CursorIsOldest(cut.next, cut.events)
      BY <1>1, AdminPageIs
    <2>4. cut.prev \in {0} \cup cut.events
      BY <1>1, AdminPageIs
    <2>5. ASSUME before # 0 PROVE CutBelow(cut.events, had, before)
      <3>1. cut = AdminPageOf(had, before, 0, size)
        BY <1>1, <2>5
      <3>2. QED
        BY <1>1, <2>5, <3>1, AdminPageBelow
    <2>6. QED
      BY <2>1, <2>2, <2>3, <2>4, <2>5
  <1>3. QED
    BY <1>1, <1>2 DEF CutHolds, AnyEvent, before, cut

LEMMA UsageAdminServeKeeps ==
    ASSUME UsageAdminInv, page = "usageAdmin", page' = page, NEW n \in Slots,
           UsageAdminServe(n) \/ (CallFails(n) /\ UNCHANGED usageAdminVars)
    PROVE  UsageAdminInv'
  <1>1. WalkState /\ QueriesHold /\ UsageAdminFlagsFall /\ ShapedCalls
    BY DEF UsageAdminInv
  <1>2. UNCHANGED usageAdminVars
    BY DEF UsageAdminServe
  <1>3. /\ ShapedCalls' /\ OnlySlot(n) /\ SameErrands /\ calls'[n].stage = "answered"
    BY <1>1, AnsweredIs, FailedIs DEF UsageAdminServe
  <1>4. ASSUME Is(n, "usage"), calls'[n].ok PROVE CutHolds(calls[n].arg, calls[n].data)'
    <2> DEFINE q == calls[n].arg
               had == events \cap q.filter
               answer == [cut |-> AdminPageOf(had, q.before, q.after, q.limit), had |-> had]
    <2>1. ~CallFails(n)
      BY <1>1, <1>4, FailedIs
    <2>2. Answer(n, answer)
      BY <1>4, <2>1 DEF UsageAdminServe, Waits, Is
    <2>3. calls'[n].data = answer /\ calls'[n].arg = q
      BY <1>1, <1>3, <2>2, AnsweredIs DEF SameErrands
    <2>4. /\ q.before \in 0..MaxEvent /\ q.after \in 0..MaxEvent /\ q.limit \in Limits
          /\ q.before # 0 => q.after = 0
          /\ had \in SUBSET AnyEvent
      BY <1>1, <1>4 DEF QueriesHold, QueryHolds, WalkState
    <2>5. answer.cut = AdminPageOf(had, q.before, q.after, q.limit) /\ answer.had = had
      OBVIOUS
    <2> HIDE DEF q, had, answer
    <2>6. CutHolds(q, answer)
      BY <2>4, <2>5, ServedCutHolds
    <2>7. QED
      BY <2>3, <2>6 DEF CutHolds
  <1>5. ASSUME NEW m \in Slots, Is(m, "usage")' PROVE Is(m, "usage") /\ calls'[m].arg = calls[m].arg
    BY <1>3, <1>5 DEF Is, SameErrands
  <1>6. WalkState'
    BY <1>1, <1>2 DEF WalkState, usageAdminVars, pickVars, dataVars
  <1>7. ASSUME NEW m \in Slots, Is(m, "usage")' PROVE QueryHolds(calls[m].arg)'
    <2>1. QueryHolds(calls[m].arg) /\ calls'[m].arg = calls[m].arg
      BY <1>1, <1>5, <1>7 DEF QueriesHold
    <2>2. QED
      BY <1>2, <2>1 DEF QueryHolds, HasCursor, usageAdminVars, pickVars, dataVars
  <1>8. ASSUME NEW m \in Slots, Is(m, "usage")', calls'[m].stage = "answered", calls'[m].ok
        PROVE  CutHolds(calls[m].arg, calls[m].data)'
    <2>1. CASE m = n
      BY <1>4, <1>5, <1>8, <2>1
    <2>2. CASE m # n
      <3>1. calls'[m] = calls[m]
        BY <1>3, <2>2 DEF OnlySlot
      <3>2. CutHolds(calls[m].arg, calls[m].data)
        BY <1>1, <1>5, <1>8, <3>1 DEF QueriesHold, Ok
      <3>3. QED
        BY <3>1, <3>2 DEF CutHolds
    <2>3. QED
      BY <2>1, <2>2
  <1>9. QueriesHold'
    <2>1. usageLoading' = usageLoading
      BY <1>2 DEF usageAdminVars
    <2>2. ASSUME NEW m \in Slots, Is(m, "usage")', NEW o \in Slots \ {m} PROVE ~Is(o, "usage")'
      BY <1>1, <1>5, <2>2 DEF QueriesHold
    <2>3. ASSUME NEW m \in Slots, Is(m, "usage")' PROVE usageLoading'
      BY <1>1, <1>5, <2>1, <2>3 DEF QueriesHold
    <2>4. QED
      BY <1>7, <1>8, <2>2, <2>3 DEF QueriesHold, Ok
  <1>10. UsageAdminFlagsFall'
    BY <1>1, <1>2, <1>3 DEF UsageAdminFlagsFall, InFlight, InFlightFor, Is, SameErrands,
       usageAdminVars,
       eventDetailVars
  <1>11. QED
    BY <1>3, <1>6, <1>9, <1>10 DEF UsageAdminInv

LEMMA UsageAdminClickKeeps ==
    ASSUME UsageAdminInv, UsageAdminClick, page = "usageAdmin", page' = page
    PROVE  UsageAdminInv'
  <1>1. WalkState /\ QueriesHold /\ UsageAdminFlagsFall /\ ShapedCalls
    BY DEF UsageAdminInv
  <1>2. CASE HandleDateRangeChange \/ PickLimit \/ HandleFilterChange \/ RequestEnds
    <2>1. /\ calls' = calls /\ UNCHANGED <<usageLoading, dataVars, detailLoadingID>>
          /\ events' \subseteq AnyEvent
          /\ limit' \in Limits /\ filter' \in Filters /\ retyped' \in BOOLEAN
          /\ UNCHANGED <<filter, retyped>> \/ retyped'
      BY <1>1, <1>2 DEF HandleDateRangeChange, PickLimit, HandleFilterChange, RequestEnds, WalkState,
         eventDetailVars, pickVars
    <2>2. 1 \in Slots
      BY BrowserAssumption DEF Slots
    <2>3. OnlySlot(1) /\ ShapedCalls' /\ calls'[1] = calls[1]
      BY <1>1, <2>1 DEF OnlySlot, ShapedCalls
    <2>4. detailLoadingID' # 0 => InFlightFor("detail", detailLoadingID)'
      BY <1>1, <2>1 DEF UsageAdminFlagsFall, InFlightFor, Is
    <2>5. QED
      BY <2>1, <2>2, <2>3, <2>4, UsageQuiets
  <1>3. /\ 0 \in 0..MaxEvent /\ filter \in Filters /\ AnyEvent \in Filters
        /\ nextBefore \in 0..MaxEvent /\ prevAfter \in 0..MaxEvent
    BY <1>1, UsageAssumption DEF WalkState, AnyEvent
  <1>4. ASSUME NEW n \in Slots, HandleRefresh(n) PROVE UsageAdminInv'
    <2> DEFINE query == AdminQuery(0, 0, start, end, allTime, filter)
    <2>1. query.before = 0 /\ query.after = 0 /\ query.limit = limit /\ query.filter = filter
      BY DEF AdminQuery
    <2>2. /\ RefreshUsage(n, query) /\ ~usageLoading /\ filter' = filter /\ retyped' \in BOOLEAN
          /\ UNCHANGED <<events, limit, dataVars, detailLoadingID>>
      BY <1>4 DEF HandleRefresh, PageAt, pickVars, eventDetailVars
    <2> HIDE DEF query
    <2>3. QED
      BY <1>3, <2>1, <2>2, QuerySent
  <1>5. ASSUME NEW n \in Slots, HandleReset(n) PROVE UsageAdminInv'
    <2> DEFINE query == AdminQuery(0, 0, FALSE, FALSE, FALSE, AnyEvent)
    <2>1. query.before = 0 /\ query.after = 0 /\ query.limit = limit /\ query.filter = AnyEvent
      BY DEF AdminQuery
    <2>2. /\ RefreshUsage(n, query) /\ ~usageLoading /\ filter' = AnyEvent /\ retyped' \in BOOLEAN
          /\ UNCHANGED <<events, limit, dataVars, detailLoadingID>>
      BY <1>5 DEF HandleReset, eventDetailVars
    <2> HIDE DEF query
    <2>3. QED
      BY <1>3, <2>1, <2>2, QuerySent
  <1>6. ASSUME NEW n \in Slots, NEW before \in {0, nextBefore}, NEW after \in {0, prevAfter},
               before # 0 => after = 0,
               CardShown, PageAt(n, before, after),
               UNCHANGED <<events, pickVars, dataVars, expandedID, eventDetailVars, retyped>>
        PROVE  UsageAdminInv'
    <2> DEFINE query == AdminQuery(before, after, start, end, allTime, filter)
    <2>1. query.before = before /\ query.after = after /\ query.limit = limit /\ query.filter = filter
      BY DEF AdminQuery
    <2>2. /\ RefreshUsage(n, query) /\ ~usageLoading /\ usageData
          /\ UNCHANGED <<events, limit, filter, dataVars, detailLoadingID, retyped>>
      BY <1>6 DEF CardShown, PageAt, pickVars, eventDetailVars
    <2> HIDE DEF query
    <2>3. QED
      BY <1>3, <1>6, <2>1, <2>2, QuerySent
  <1>7. ASSUME NEW n \in Slots, NEW e \in AnyEvent, HandleToggleEvent(n, e) PROVE UsageAdminInv'
    <2>1. /\ UNCHANGED <<usageLoading, dataVars>> /\ events' \subseteq AnyEvent
          /\ limit' \in Limits /\ filter' = filter /\ filter' \in Filters
          /\ retyped' = retyped /\ retyped' \in BOOLEAN
      BY <1>1, <1>7 DEF HandleToggleEvent, pickVars, WalkState
    <2>2. CASE UNCHANGED <<calls, detailLoadingID>>
      <3>1. OnlySlot(n) /\ ShapedCalls' /\ calls'[n] = calls[n]
        BY <1>1, <2>2 DEF OnlySlot, ShapedCalls
      <3>2. detailLoadingID' # 0 => InFlightFor("detail", detailLoadingID)'
        BY <1>1, <2>2 DEF UsageAdminFlagsFall, InFlightFor, Is
      <3>3. QED
        BY <2>1, <3>1, <3>2, UsageQuiets
    <2>3. CASE detailLoadingID' = e /\ Free(n) /\ Send(n, "detail", e)
      <3>1. /\ ShapedCalls' /\ OnlySlot(n) /\ calls'[n].op = "detail" /\ calls'[n].arg = e
        BY <1>1, <2>3, SendIs
      <3>2. ~Is(n, "usage") /\ ~Is(n, "usage")'
        BY <2>3, <3>1 DEF Free, Is
      <3>3. InFlightFor("detail", detailLoadingID)'
        BY <2>3, <3>1 DEF InFlightFor, Is
      <3>4. QED
        BY <2>1, <3>1, <3>2, <3>3, UsageQuiets
    <2>4. QED
      BY <1>7, <2>2, <2>3 DEF HandleToggleEvent
  <1>8. ASSUME NEW n \in Slots, HandlePrevPage(n) \/ HandleNextPage(n) PROVE UsageAdminInv'
    <2>1. CASE HandlePrevPage(n)
      BY <1>6, <2>1 DEF HandlePrevPage
    <2>2. CASE HandleNextPage(n)
      BY <1>6, <2>2 DEF HandleNextPage
    <2>3. QED
      BY <1>8, <2>1, <2>2
  <1>9. QED
    BY <1>2, <1>4, <1>5, <1>7, <1>8 DEF UsageAdminClick

LEMMA UsageAdminNextKeeps == UsageAdminInv /\ UsageAdminNext => UsageAdminInv'
  <1> SUFFICES ASSUME UsageAdminInv, UsageAdminNext PROVE UsageAdminInv'
    OBVIOUS
  <1>1. page = "usageAdmin" /\ page' = page
    BY DEF UsageAdminNext
  <1>2. ASSUME NEW n \in Slots, EventDetailAnswered(n) PROVE UsageAdminInv'
    <2>1. WalkState /\ ShapedCalls
      BY <1>1 DEF UsageAdminInv
    <2>2. ShapedCalls' /\ OnlySlot(n) /\ calls'[n].op = "idle"
      BY <1>2, <2>1, FinishIs DEF EventDetailAnswered
    <2>3. ~Is(n, "usage") /\ ~Is(n, "usage")'
      BY <1>2, <2>2 DEF EventDetailAnswered, Resumes, Is
    <2>4. /\ UNCHANGED <<usageLoading, dataVars>> /\ events' \subseteq AnyEvent /\ detailLoadingID' = 0
          /\ limit' \in Limits /\ filter' = filter /\ filter' \in Filters
          /\ retyped' = retyped /\ retyped' \in BOOLEAN
      BY <1>2, <2>1 DEF EventDetailAnswered, pickVars, WalkState
    <2>5. QED
      BY <1>1, <2>2, <2>3, <2>4, UsageQuiets
  <1>3. QED
    BY <1>1, <1>2, UsageAdminClickKeeps, UsageAdminServeKeeps, UsageAnsweredKeeps
       DEF UsageAdminNext, UsageAdminStep

LEMMA UsageAdminStarts ==
    ASSUME page = "usageAdmin", BrowserInit(UsageAdminMount), UsageAdminInit
    PROVE  UsageAdminInv
  <1> DEFINE first == [before |-> 0, after |-> 0, limit |-> Max(Limits), filter |-> AnyEvent,
                       fillStart |-> TRUE, fillEnd |-> TRUE]
  <1>0. 1 \in Slots
    BY BrowserAssumption DEF Slots
  <1>1. UsageAdminMount = <<Sent("usage", first)>>
    BY DEF UsageAdminMount
  <1> HIDE DEF first
  <1>2. /\ ShapedCalls /\ calls[1].op = "usage" /\ calls[1].arg = first /\ calls[1].stage = "sent"
        /\ \A n \in Slots \ {1} : ~Is(n, "usage")
    BY <1>1, OneIsMounted, IdleIsCall DEF Is
  <1>3. Max(Limits) \in Limits
    BY UsageAssumption, MaxOfIds
  <1>4. events \subseteq AnyEvent
    BY UsageAssumption DEF UsageAdminInit, AnyEvent
  <1>5. 0 \in 0..MaxEvent
    BY UsageAssumption
  <1>6. WalkState
    <2>1. /\ NoGap(walk) /\ walk.met = {} /\ nextBefore = 0 /\ prevAfter = 0
          /\ ~usageData /\ usageLoading
          /\ usageData \in BOOLEAN /\ usageLoading \in BOOLEAN /\ retyped \in BOOLEAN
          /\ limit \in Limits /\ filter = AnyEvent
      BY <1>3 DEF UsageAdminInit, NoWalk, NoGap
    <2>2. filter \in Filters
      BY <2>1, UsageAssumption DEF AnyEvent
    <2>3. QED
      BY <1>4, <1>5, <2>1, <2>2 DEF WalkState
  <1>7. QueryHolds(first)
    <2>1. first.before = 0 /\ first.after = 0 /\ first.limit \in Limits /\ first.filter = filter
      BY <1>3 DEF first, UsageAdminInit
    <2>2. QED
      BY <1>5, <2>1 DEF QueryHolds, HasCursor
  <1>8. QueriesHold
    BY <1>2, <1>7 DEF QueriesHold, Is, UsageAdminInit
  <1>9. UsageAdminFlagsFall
    BY <1>0, <1>2 DEF UsageAdminFlagsFall, InFlight, Is, UsageAdminInit
  <1>10. QED
    BY <1>2, <1>6, <1>8, <1>9 DEF UsageAdminInv
-----------------------------------------------------------------------------
(* The dashboard of the administrator: one call counts, or none.           *)

(* The call whose points count is the one for the series chosen last.      *)
AdminDashboardState ==
    /\ pointsLoading \in BOOLEAN
    /\ granularity \in Granularities
    /\ pointsLoading <=> pointsCall # 0
    /\ pointsCall # 0 => /\ pointsCall \in Slots
                         /\ calls[pointsCall].op = "points" /\ calls[pointsCall].arg = granularity
    /\ ~pointsLoading => /\ points \in {granularity, NoPoints}
                         /\ figures = "data" => chart = <<points, field, granularity>>

AdminDashboardInv == page = "adminDashboard" => ShapedCalls /\ AdminDashboardState

LEMMA AdminDashboardInvIsEnough == AdminDashboardInv => AdminChartIsCurrent /\ AdminDashboardFlagsFall
  BY DEF AdminDashboardInv, AdminDashboardState, AdminChartIsCurrent, AdminDashboardFlagsFall,
         ChartIsOfChoice, Is

LEMMA AdminDashboardStays ==
    ASSUME AdminDashboardInv, UNCHANGED <<page, adminDashboardVars>>,
           page = "adminDashboard" => UNCHANGED calls
    PROVE  AdminDashboardInv'
  BY DEF AdminDashboardInv, AdminDashboardState, ShapedCalls, adminDashboardVars, chartVars

LEMMA AdminDashboardStarts ==
    ASSUME page = "adminDashboard", BrowserInit(AdminDashboardMount), AdminDashboardInit
    PROVE  AdminDashboardInv
  <1>1. 1 \in Slots /\ 2 \in Slots
    BY BrowserAssumption DEF Slots
  <1>2. AdminDashboardMount = <<Sent("board", <<>>), Sent("points", "hour")>>
    BY DEF AdminDashboardMount
  <1>3. DOMAIN AdminDashboardMount = {1, 2}
    BY <1>2
  <1>4. \A n \in Slots \cap DOMAIN AdminDashboardMount : IsCall(AdminDashboardMount[n])
    BY <1>2, <1>3, SentIsCall
  <1>5. ShapedCalls /\ calls[2] = Sent("points", "hour")
    BY <1>1, <1>2, <1>3, <1>4, MountedIs
  <1>6. calls[2].op = "points" /\ calls[2].arg = "hour"
    BY <1>5, SentIsCall
  <1>7. QED
    BY <1>1, <1>5, <1>6 DEF AdminDashboardInv, AdminDashboardState, AdminDashboardInit,
       ChartInit,
       Granularities

LEMMA AdminDashboardNextKeeps == AdminDashboardInv /\ AdminDashboardNext => AdminDashboardInv'
  <1> SUFFICES ASSUME AdminDashboardInv, AdminDashboardNext PROVE AdminDashboardInv'
    OBVIOUS
  <1>0. page = "adminDashboard" /\ page' = page /\ ShapedCalls /\ AdminDashboardState
    BY DEF AdminDashboardInv, AdminDashboardNext
  <1>1. ASSUME NEW n \in Slots, FiguresAnswered(n) PROVE AdminDashboardInv'
    <2>1. ShapedCalls' /\ OnlySlot(n) /\ calls[n].op = "board"
      BY <1>0, <1>1, FinishIs DEF FiguresAnswered, Resumes, Is
    <2>2. /\ UNCHANGED <<points, pointsLoading, pointsCall, field, granularity>>
          /\ figures' = "data" /\ ~pointsLoading => chart' = <<points, field, granularity>>
      BY <1>1 DEF FiguresAnswered, Drawn
    <2>3. pointsCall # 0 => calls'[pointsCall] = calls[pointsCall]
      BY <1>0, <2>1 DEF AdminDashboardState, OnlySlot
    <2>4. AdminDashboardState'
      BY <1>0, <2>2, <2>3 DEF AdminDashboardState
    <2>5. QED
      BY <1>0, <2>1, <2>4 DEF AdminDashboardInv
  <1>2. ASSUME NEW g \in Granularities, AdminGranularity(g) PROVE AdminDashboardInv'
    <2>1. calls = [m \in Slots |-> calls[m]] /\ \A m \in Slots : IsCall(calls[m])
      BY <1>0 DEF ShapedCalls
    <2>2. /\ ShapedCalls' /\ pointsCall' \in Slots
          /\ calls'[pointsCall'].op = "points" /\ calls'[pointsCall'].arg = g
      BY <1>2, <2>1, LoadIs DEF AdminGranularity
    <2>3. granularity' = g /\ pointsLoading' = TRUE
      BY <1>2 DEF AdminGranularity, LoadPoints
    <2>4. pointsCall' # 0
      BY <2>2 DEF Slots
    <2>5. QED
      BY <1>0, <2>2, <2>3, <2>4 DEF AdminDashboardInv, AdminDashboardState
  <1>3. ASSUME NEW f \in ChartFields, AdminField(f) PROVE AdminDashboardInv'
    BY <1>0, <1>3 DEF AdminField, SetField, Drawn, AdminDashboardInv, AdminDashboardState,
       ShapedCalls
  <1>4. ASSUME NEW n \in Slots, PointsAnswered(n, figures = "data"), UNCHANGED figures
        PROVE  AdminDashboardInv'
    <2>1. ShapedCalls' /\ OnlySlot(n)
      BY <1>0, <1>4, FinishIs DEF PointsAnswered
    <2>2. field' = field /\ granularity' = granularity /\ n # 0
      BY <1>4 DEF PointsAnswered, Slots
    <2>3. CASE n = pointsCall
      <3>1. calls[n].arg = granularity
        BY <1>0, <2>2, <2>3 DEF AdminDashboardState
      <3>2. /\ points' \in {granularity, NoPoints} /\ pointsLoading' = FALSE /\ pointsCall' = 0
            /\ figures = "data" => chart' = <<points', field, granularity>>
        BY <1>4, <2>3, <3>1 DEF PointsAnswered, Drawn
      <3>3. AdminDashboardState'
        BY <1>0, <1>4, <2>2, <3>2 DEF AdminDashboardState
      <3>4. QED
        BY <1>0, <2>1, <3>3 DEF AdminDashboardInv
    <2>4. CASE n # pointsCall
      <3>1. UNCHANGED <<points, pointsLoading, pointsCall, chart>>
        BY <1>4, <2>4 DEF PointsAnswered
      <3>2. pointsCall # 0 => calls'[pointsCall] = calls[pointsCall]
        BY <1>0, <2>1, <2>4 DEF AdminDashboardState, OnlySlot
      <3>3. AdminDashboardState'
        BY <1>0, <1>4, <2>2, <3>1, <3>2 DEF AdminDashboardState
      <3>4. QED
        BY <1>0, <2>1, <3>3 DEF AdminDashboardInv
    <2>5. QED
      BY <2>3, <2>4
  <1>5. ASSUME NEW n \in Slots, PointsServed(n) \/ CallFails(n), UNCHANGED adminDashboardVars
        PROVE  AdminDashboardInv'
    <2>1. ShapedCalls' /\ SameErrands
      BY <1>0, <1>5, AnsweredIs, FailedIs DEF PointsServed
    <2>2. AdminDashboardState'
      BY <1>0, <1>5, <2>1 DEF AdminDashboardState, SameErrands, adminDashboardVars, chartVars
    <2>3. QED
      BY <1>0, <2>1, <2>2 DEF AdminDashboardInv
  <1>6. QED
    BY <1>1, <1>2, <1>3, <1>4, <1>5 DEF AdminDashboardNext, AdminDashboardClick,
       AdminDashboardStep
-----------------------------------------------------------------------------
(* The console: one page is mounted, and a step of it leaves the variables *)
(* of the others alone.                                                    *)

AdminConsoleInv ==
    /\ GroupsInv /\ TablePageInv /\ SettingsInv
    /\ UsersInv /\ UsageAdminInv /\ AdminDashboardInv

LEMMA AdminConsoleStarts == AdminConsoleInit => AdminConsoleInv /\ Series!Init
  <1> SUFFICES ASSUME AdminConsoleInit PROVE AdminConsoleInv /\ Series!Init
    OBVIOUS
  <1> USE DEF AdminConsoleInit
  <1>1. GroupsInv
    <2>1. page = "groups" => BrowserInit(GroupsMount)
      BY DEF AdminMount
    <2>2. QED
      BY <2>1, GroupsStart
  <1>2. TablePageInv /\ Series!Init
    <2>1. page = "channels" => BrowserInit(TableMount)
      BY DEF AdminMount
    <2>2. QED
      BY <2>1, TablePageStarts
  <1>3. SettingsInv
    <2>1. page = "settings" => BrowserInit(SettingsMount)
      BY DEF AdminMount
    <2>2. QED
      BY <2>1, SettingsStart
  <1>4. UsersInv
    <2>1. CASE page = "users"
      <3>1. BrowserInit(UsersMount)
        BY <2>1 DEF AdminMount
      <3>2. QED
        BY <2>1, <3>1, UsersStart
    <2>2. CASE page # "users"
      BY <2>2 DEF UsersInv, UsersInit, RowsOfUsers, UserRows, UserNames, IsRowOf, NewUser,
         NoUser
    <2>3. QED
      BY <2>1, <2>2
  <1>5. UsageAdminInv
    <2>1. CASE page = "usageAdmin"
      <3>1. BrowserInit(UsageAdminMount)
        BY <2>1 DEF AdminMount
      <3>2. QED
        BY <2>1, <3>1, UsageAdminStarts
    <2>2. CASE page # "usageAdmin"
      BY <2>2 DEF UsageAdminInv, UsageAdminInit, NoWalk, NoGap
    <2>3. QED
      BY <2>1, <2>2
  <1>6. ASSUME page = "adminDashboard" PROVE AdminDashboardInv
    <2>1. BrowserInit(AdminDashboardMount)
      BY <1>6 DEF AdminMount
    <2>2. QED
      BY <1>6, <2>1, AdminDashboardStarts
  <1>7. QED
    BY <1>1, <1>2, <1>3, <1>4, <1>5, <1>6 DEF AdminConsoleInv, AdminDashboardInv

LEMMA AdminConsoleSteps ==
    AdminConsoleInv /\ [AdminConsoleNext]_adminVars => AdminConsoleInv' /\ SeriesStep
  <1> SUFFICES ASSUME AdminConsoleInv, [AdminConsoleNext]_adminVars PROVE AdminConsoleInv' /\ SeriesStep
    OBVIOUS
  <1> USE DEF AdminConsoleInv
  <1>1. CASE /\ GroupsNext
             /\ UNCHANGED <<tableVars, settingsVars, usersVars, usageAdminVars, adminDashboardVars>>
    <2>1. page = "groups" /\ page' = page
      BY <1>1 DEF GroupsNext
    <2>2. QED
      BY <1>1, <2>1, GroupsNextKeeps, TablePageStays, SettingsStay, UsersStay, UsageAdminStays,
         AdminDashboardStays
  <1>2. CASE /\ TableNext
             /\ UNCHANGED <<groupsVars, settingsVars, usersVars, usageAdminVars, adminDashboardVars>>
    <2>1. page = "channels" /\ page' = page
      BY <1>2 DEF TableNext
    <2>2. QED
      BY <1>2, <2>1, TablePageNextKeeps, GroupsStay, SettingsStay, UsersStay, UsageAdminStays,
         AdminDashboardStays
  <1>3. CASE /\ SettingsNext
             /\ UNCHANGED <<groupsVars, tableVars, usersVars, usageAdminVars, adminDashboardVars>>
    <2>1. page = "settings" /\ page' = page
      BY <1>3 DEF SettingsNext
    <2>2. QED
      BY <1>3, <2>1, SettingsNextKeeps, GroupsStay, TablePageStays, UsersStay, UsageAdminStays,
         AdminDashboardStays
  <1>4. CASE /\ UsersNext
             /\ UNCHANGED <<groupsVars, tableVars, settingsVars, usageAdminVars, adminDashboardVars>>
    <2>1. page = "users" /\ page' = page
      BY <1>4 DEF UsersNext
    <2>2. QED
      BY <1>4, <2>1, UsersNextKeeps, GroupsStay, TablePageStays, SettingsStay, UsageAdminStays,
         AdminDashboardStays
  <1>5. CASE /\ UsageAdminNext
             /\ UNCHANGED <<groupsVars, tableVars, settingsVars, usersVars, adminDashboardVars>>
    <2>1. page = "usageAdmin" /\ page' = page
      BY <1>5 DEF UsageAdminNext
    <2>2. QED
      BY <1>5, <2>1, UsageAdminNextKeeps, GroupsStay, TablePageStays, SettingsStay, UsersStay,
         AdminDashboardStays
  <1>6. CASE /\ AdminDashboardNext
             /\ UNCHANGED <<groupsVars, tableVars, settingsVars, usersVars, usageAdminVars>>
    <2>1. page = "adminDashboard" /\ page' = page
      BY <1>6 DEF AdminDashboardNext
    <2>2. QED
      BY <1>6, <2>1, AdminDashboardNextKeeps, GroupsStay, TablePageStays, SettingsStay,
         UsersStay,
         UsageAdminStays
  <1>7. CASE UNCHANGED adminVars
    <2>1. /\ UNCHANGED <<page, calls, browserVars>>
          /\ UNCHANGED groupsVars /\ UNCHANGED tableVars /\ UNCHANGED settingsVars
          /\ UNCHANGED usersVars /\ UNCHANGED usageAdminVars /\ UNCHANGED adminDashboardVars
      BY <1>7 DEF adminVars, browserVars
    <2>2. QED
      BY <2>1, GroupsStay, TablePageStays, SettingsStay, UsersStay, UsageAdminStays,
         AdminDashboardStays
  <1>8. QED
    BY <1>1, <1>2, <1>3, <1>4, <1>5, <1>6, <1>7 DEF AdminConsoleNext

(* The inductive invariant of the console: that of each of its pages.      *)
THEOREM AdminConsoleKeepsInv == AdminConsoleSpec => []AdminConsoleInv
  <1>1. AdminConsoleInv /\ [AdminConsoleNext]_adminVars => AdminConsoleInv'
    BY AdminConsoleSteps
  <1>2. QED
    BY <1>1, AdminConsoleStarts, PTL DEF AdminConsoleSpec

(* What was typed about one group, channel or user is never stored for     *)
(* another one, in whatever order answers come and dialogs open; of the    *)
(* groups, as long as the dialog does not move to another one while a      *)
(* request for the one before waits.                                       *)
THEOREM NothingEverIsStoredForAnother == AdminConsoleSpec => []NothingIsStoredForAnother
  <1>1. AdminConsoleInv => NothingIsStoredForAnother
    BY GroupsInvIsEnough, SettingsInvIsEnough, UsersInvIsEnough
       DEF AdminConsoleInv, NothingIsStoredForAnother
  <1>2. QED
    BY <1>1, AdminConsoleKeepsInv, PTL

(* The series under the open row of the table implements LastRequest:      *)
(* however many calls overtake each other, only the answer to the last one *)
(* counts.                                                                 *)
THEOREM SeriesImplementsLastRequest == AdminConsoleSpec => SeriesKeepsUp
  <1>1. AdminConsoleInv /\ [AdminConsoleNext]_adminVars => [Series!Next]_(Series!vars)
    BY AdminConsoleSteps DEF SeriesStep
  <1>2. QED
    BY <1>1, AdminConsoleKeepsInv, AdminConsoleStarts, PTL
       DEF AdminConsoleSpec, SeriesKeepsUp, Series!Spec

(* Hence what is shown when nothing is loading is what is wanted.          *)
THEOREM SeriesIsUpToDate == AdminConsoleSpec => []Series!UpToDate
  <1>1. Series!Init => Series!UpToDate
    BY DEF Series!Init, Series!UpToDate
  <1>2. Series!UpToDate /\ [Series!Next]_(Series!vars) => Series!UpToDate'
    BY DEF Series!UpToDate, Series!Next, Series!Ask, Series!Drop, Series!Come, Series!vars
  <1>3. QED
    BY <1>1, <1>2, SeriesImplementsLastRequest, PTL DEF SeriesKeepsUp, Series!Spec

(* At rest the table of channels shows the usage of the range above it,    *)
(* unless the refresh failed or the range was picked during one.           *)
THEOREM TableShowsItsRange == AdminConsoleSpec => []TableMatchesRange
  <1>1. AdminConsoleInv => TableMatchesRange
    BY TablePageInvIsEnough DEF AdminConsoleInv
  <1>2. QED
    BY <1>1, AdminConsoleKeepsInv, PTL

(* Going on to the next page of the events of all users never passes over  *)
(* one that is stored, in whatever order requests end, and the summary     *)
(* above them is of the filter of the list.                                *)
THEOREM UsageAdminStaysWhole == AdminConsoleSpec => []UsageAdminIsWhole
  <1>1. AdminConsoleInv => UsageAdminIsWhole
    BY UsageAdminInvIsEnough DEF AdminConsoleInv
  <1>2. QED
    BY <1>1, AdminConsoleKeepsInv, PTL

(* The chart of root's dashboard draws the series that was chosen last.    *)
THEOREM AdminChartStaysCurrent == AdminConsoleSpec => []AdminChartIsCurrent
  <1>1. AdminConsoleInv => AdminChartIsCurrent
    BY AdminDashboardInvIsEnough DEF AdminConsoleInv
  <1>2. QED
    BY <1>1, AdminConsoleKeepsInv, PTL

(* No flag that disables a button or shows "loading" stays up without a    *)
(* handler that waits and lowers it.                                       *)
THEOREM AdminFlagsDoFall == AdminConsoleSpec => []AdminFlagsFall
  <1>1. AdminConsoleInv => AdminFlagsFall
    BY GroupsInvIsEnough, TablePageInvIsEnough, SettingsInvIsEnough, UsersInvIsEnough,
       UsageAdminInvIsEnough, AdminDashboardInvIsEnough
       DEF AdminConsoleInv, AdminFlagsFall
  <1>2. QED
    BY <1>1, AdminConsoleKeepsInv, PTL
=============================================================================
