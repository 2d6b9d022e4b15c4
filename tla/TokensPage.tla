----------------------------- MODULE TokensPage -----------------------------
(***************************************************************************)
(* The page on which a user keeps API tokens: the table, with what of it   *)
(* is revealed, and the dialogs that create a token and show a new value.  *)
(*                                                                         *)
(* The value of a token is the number of times it was generated.  The      *)
(* table holds statuses only; names and previews are left out.             *)
(***************************************************************************)
EXTENDS Browser

CONSTANTS Tokens,      \* ids of tokens, also of those to be created
          OldTokens,   \* the tokens that exist when the page is opened
          MaxValue     \* bound on how often a token is generated

ASSUME TokensAssumption == OldTokens \subseteq Tokens /\ MaxValue \in Nat

VARIABLES
    tokenRow,       \* the table user_tokens of the server
    tokens,         \* the status of the tokens in the table of the page
    tokensLoading,
    revealed,       \* the value that is on display; 0 is none
    revealLoading,  \* the tokens whose flag is up
    generatedToken,
    pendingGeneratedToken,
    crossed         \* tokens of which a reveal met a new generation

tokensVars == <<tokenRow, tokens, tokensLoading, revealed, revealLoading,
                generatedToken, pendingGeneratedToken, crossed>>

NoValue == <<>>
TokenDialogs == {"create", "generated"}

Active == {t \in Tokens : tokens[t] = "active"}

TokensInit ==
    /\ tokenRow = [t \in Tokens |-> IF t \in OldTokens THEN [status |-> "active", value |-> 1]
                                                       ELSE [status |-> "none", value |-> 0]]
    /\ tokens = [t \in Tokens |-> "none"]
    /\ tokensLoading = TRUE
    /\ revealed = [t \in Tokens |-> 0]
    /\ revealLoading = {}
    /\ generatedToken = NoValue
    /\ pendingGeneratedToken = NoValue
    /\ crossed = {}

TokensMount == <<Sent("list", NoValue)>>

-----------------------------------------------------------------------------
(* refresh() waits in "list"; arg is the value to be shown once it is over. *)

Refresh(n, tok) == tokensLoading' = TRUE /\ Send(n, "list", tok)

OpenGeneratedTokenModal(tok) == generatedToken' = tok /\ Toggle("generated")

ListAnswered(n) ==
    /\ Resumes(n, "list")
    /\ IF Ok(n)
       THEN LET active == {t \in Tokens : calls[n].data[t] = "active"}
            IN /\ tokens' = calls[n].data
               /\ revealed' = [t \in Tokens |-> IF t \in active THEN revealed[t] ELSE 0]
               /\ revealLoading' = revealLoading \cap active
       ELSE UNCHANGED <<tokens, revealed, revealLoading>>
    /\ tokensLoading' = FALSE
    /\ IF calls[n].arg = NoValue THEN NoDialogChange /\ UNCHANGED generatedToken
                                 ELSE OpenGeneratedTokenModal(calls[n].arg)
    /\ Finish(n)
    /\ UNCHANGED <<tokenRow, pendingGeneratedToken, crossed>>

-----------------------------------------------------------------------------
(* Buttons of a row.                                                       *)

RowButton(t) == Uncovered /\ ~tokensLoading /\ tokens[t] # "none"

RevealToken(n, t) ==
    /\ revealLoading' = revealLoading \cup {t}
    /\ crossed' = IF InFlightFor("rotate", t) THEN crossed \cup {t} ELSE crossed
    /\ Free(n) /\ Send(n, "reveal", t)

RevealButton(t) == RowButton(t) /\ t \in Active /\ t \notin revealLoading

RevealClick(n, t) ==
    /\ RevealButton(t) /\ revealed[t] = 0
    /\ RevealToken(n, t)
    /\ NoDialogChange
    /\ UNCHANGED <<tokenRow, tokens, tokensLoading, revealed, generatedToken, pendingGeneratedToken>>

HideClick(t) ==
    /\ RevealButton(t) /\ revealed[t] # 0
    /\ revealed' = [revealed EXCEPT ![t] = 0]
    /\ NoDialogChange
    /\ UNCHANGED <<calls, tokenRow, tokens, tokensLoading, revealLoading, generatedToken,
                   pendingGeneratedToken, crossed>>

(* Mutant: the flag is lowered after a success only.                       *)
RevealAnsweredNoFinally(n) ==
    /\ Resumes(n, "reveal")
    /\ LET t == calls[n].arg
       IN IF Ok(n) THEN /\ revealed' = [revealed EXCEPT ![t] = calls[n].data]
                        /\ revealLoading' = revealLoading \ {t}
                   ELSE UNCHANGED <<revealed, revealLoading>>
    /\ Finish(n)
    /\ NoDialogChange
    /\ UNCHANGED <<tokenRow, tokens, tokensLoading, generatedToken, pendingGeneratedToken, crossed>>

RevealAnswered(n) ==
    /\ Resumes(n, "reveal")
    /\ LET t == calls[n].arg
       IN /\ revealed' = IF Ok(n) THEN [revealed EXCEPT ![t] = calls[n].data] ELSE revealed
          /\ revealLoading' = revealLoading \ {t}
    /\ Finish(n)
    /\ NoDialogChange
    /\ UNCHANGED <<tokenRow, tokens, tokensLoading, generatedToken, pendingGeneratedToken, crossed>>

(* Mutant: the value on display stays while a new one is generated.        *)
RotateClickShowing(n, t) ==
    /\ RowButton(t)
    /\ crossed' = IF InFlightFor("reveal", t) THEN crossed \cup {t} ELSE crossed
    /\ Free(n) /\ Send(n, "rotate", t)
    /\ NoDialogChange
    /\ UNCHANGED <<tokenRow, tokens, tokensLoading, revealed, revealLoading, generatedToken,
                   pendingGeneratedToken>>

RotateClick(n, t) ==
    /\ RowButton(t)
    /\ revealed' = [revealed EXCEPT ![t] = 0]
    /\ crossed' = IF InFlightFor("reveal", t) THEN crossed \cup {t} ELSE crossed
    /\ Free(n) /\ Send(n, "rotate", t)
    /\ NoDialogChange
    /\ UNCHANGED <<tokenRow, tokens, tokensLoading, revealLoading, generatedToken, pendingGeneratedToken>>

RevokeClick(n, t) ==
    /\ RowButton(t) /\ t \in Active
    /\ Free(n) /\ Send(n, "revoke", t)
    /\ NoDialogChange
    /\ UNCHANGED tokensVars

DeleteClick(n, t) ==
    /\ RowButton(t) /\ t \notin Active
    /\ Free(n) /\ Send(n, "delete", t)
    /\ NoDialogChange
    /\ UNCHANGED tokensVars

(* The rest of the three handlers: a refresh after success.                *)
ChangeAnswered(n) ==
    /\ \E op \in {"rotate", "revoke", "delete"} : Resumes(n, op)
    /\ IF ~Ok(n) THEN Finish(n) /\ UNCHANGED tokensLoading
       ELSE Refresh(n, IF Is(n, "rotate") THEN calls[n].data ELSE NoValue)
    /\ NoDialogChange
    /\ UNCHANGED <<tokenRow, tokens, revealed, revealLoading, generatedToken,
                   pendingGeneratedToken, crossed>>

-----------------------------------------------------------------------------
(* The dialogs.                                                            *)

CreateOpen ==
    /\ Uncovered
    /\ Toggle("create")
    /\ UNCHANGED <<calls, tokensVars>>

CreateSubmit(n) ==
    /\ Shows("create") /\ ~tokensLoading
    /\ Free(n) /\ Send(n, "create", <<>>)
    /\ NoDialogChange
    /\ UNCHANGED tokensVars

CreateAnswered(n) ==
    /\ Resumes(n, "create")
    /\ IF Ok(n)
       THEN /\ pendingGeneratedToken' = calls[n].data
            /\ Dismiss("create")
            /\ Refresh(n, NoValue)
       ELSE Finish(n) /\ NoDialogChange /\ UNCHANGED <<pendingGeneratedToken, tokensLoading>>
    /\ UNCHANGED <<tokenRow, tokens, revealed, revealLoading, generatedToken, crossed>>

TokenDialogClose(d) ==
    /\ Shows(d)
    /\ Dismiss(d)
    /\ UNCHANGED <<calls, tokensVars>>

CreateHidden ==
    /\ "create" \in hiding
    /\ pendingGeneratedToken' = NoValue
    /\ IF pendingGeneratedToken = NoValue
       THEN Faded("create") /\ UNCHANGED <<open, generatedToken>>
       ELSE /\ generatedToken' = pendingGeneratedToken
            /\ hiding' = (hiding \ {"create"}) \cup (IF open = "none" THEN {} ELSE {open})
            /\ open' = IF "generated" \in hiding' THEN "none" ELSE "generated"
    /\ UNCHANGED <<calls, tokenRow, tokens, tokensLoading, revealed, revealLoading, crossed>>

GeneratedHidden ==
    /\ Faded("generated")
    /\ generatedToken' = NoValue
    /\ UNCHANGED <<open, calls, tokenRow, tokens, tokensLoading, revealed, revealLoading,
                   pendingGeneratedToken, crossed>>

-----------------------------------------------------------------------------
(* TokenStore, as one user meets it.                                       *)

ServeRead(n) ==
    /\ \/ Waits(n, "list") /\ Answer(n, [t \in Tokens |-> tokenRow[t].status])
       \/ /\ Waits(n, "reveal") /\ tokenRow[calls[n].arg].status = "active"
          /\ Answer(n, tokenRow[calls[n].arg].value)
    /\ UNCHANGED tokenRow

ServeCreate(n) ==
    /\ Waits(n, "create")
    /\ \E t \in Tokens :
          /\ tokenRow[t].value = 0
          /\ tokenRow' = [tokenRow EXCEPT ![t] = [status |-> "active", value |-> 1]]
          /\ Answer(n, <<t, 1>>)

ServeRotate(n) ==
    /\ Waits(n, "rotate")
    /\ LET t == calls[n].arg  v == tokenRow[t].value + 1
       IN /\ tokenRow[t].status # "none" /\ v <= MaxValue
          /\ tokenRow' = [tokenRow EXCEPT ![t] = [status |-> "active", value |-> v]]
          /\ Answer(n, <<t, v>>)

ServeRevoke(n) ==
    /\ Waits(n, "revoke")
    /\ tokenRow' = [tokenRow EXCEPT ![calls[n].arg].status = IF @ = "active" THEN "revoked" ELSE @]
    /\ Answer(n, <<>>)

ServeDelete(n) ==
    /\ Waits(n, "delete") /\ tokenRow[calls[n].arg].status # "none"
    /\ tokenRow' = [tokenRow EXCEPT ![calls[n].arg].status = "none"]
    /\ Answer(n, <<>>)

TokensServe(n) ==
    /\ ServeRead(n) \/ ServeCreate(n) \/ ServeRotate(n) \/ ServeRevoke(n) \/ ServeDelete(n)
    /\ NoDialogChange
    /\ UNCHANGED <<tokens, tokensLoading, revealed, revealLoading, generatedToken,
                   pendingGeneratedToken, crossed>>

-----------------------------------------------------------------------------

TokensResume(n) == ListAnswered(n) \/ RevealAnswered(n) \/ ChangeAnswered(n) \/ CreateAnswered(n)

TokensClick ==
    \/ \E n \in Slots, t \in Tokens : RevealClick(n, t) \/ RotateClick(n, t)
                                     \/ RevokeClick(n, t) \/ DeleteClick(n, t)
    \/ \E n \in Slots : CreateSubmit(n)
    \/ \E t \in Tokens : HideClick(t)
    \/ \E d \in TokenDialogs : TokenDialogClose(d)
    \/ CreateOpen

TokensStep ==
    \/ \E n \in Slots : TokensServe(n) \/ TokensResume(n)
    \/ CreateHidden \/ GeneratedHidden

TokensNext ==
    /\ page = "tokens"
    /\ \/ TokensClick /\ Clicked
       \/ TokensStep /\ UNCHANGED clicks
       \/ \E n \in Slots : CallFails(n) /\ UNCHANGED <<clicks, tokensVars>>
    /\ UNCHANGED page

-----------------------------------------------------------------------------
(* The value shown next to a token is the one that the server accepts, or  *)
(* would if the token were not revoked, unless the user asked to see a     *)
(* token while generating it anew: revealToken has no guard against that.  *)
RevealedIsCurrent ==
    \A t \in Tokens \ crossed : revealed[t] # 0 => revealed[t] = tokenRow[t].value

(* The flags that disable the buttons of this page are up only as long as  *)
(* a handler waits that lowers them.                                       *)
TokensFlagsFall ==
    page = "tokens" =>
        /\ tokensLoading => InFlight("list")
        /\ \A t \in revealLoading : InFlightFor("reveal", t)
=============================================================================
