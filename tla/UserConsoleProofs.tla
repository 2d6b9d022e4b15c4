--------------------------- MODULE UserConsoleProofs ---------------------------
(***************************************************************************)
(* The console of every user is proved here: what each of its pages never  *)
(* shows or does, in the specification of the whole console.  Each page    *)
(* has an inductive invariant; a step of one page leaves those of the      *)
(* others alone.                                                           *)
(***************************************************************************)
EXTENDS UserConsole, ConsoleLemmas

-----------------------------------------------------------------------------
(* The page of tokens.                                                     *)

TokenStatuses == {"none", "active", "revoked"}

(* What a request is sent with and what it is answered with.               *)
TokenValues == {NoValue} \cup Tokens \cup Nat \cup (Tokens \X Nat) \cup [Tokens -> TokenStatuses]

TokenCall == [op : {"idle", "list", "reveal", "rotate", "revoke", "delete", "create"},
         arg : TokenValues, stage : {"idle", "sent", "answered"}, ok : BOOLEAN, data : TokenValues]

TokenRowOps == {"reveal", "rotate", "revoke", "delete"}

TokenCallsTyped ==
    /\ calls \in [Slots -> TokenCall]
    /\ \A n \in Slots : calls[n].op \in TokenRowOps => calls[n].arg \in Tokens

TokenRowsTyped ==
    /\ tokenRow \in [Tokens -> [status : TokenStatuses, value : Nat]]
    /\ revealed \in [Tokens -> TokenValues]
    /\ revealLoading \subseteq Tokens

(* A token that is generated anew is not on display nor about to be, and   *)
(* what is on display or about to be is what the server holds.             *)
TokenSound(t) ==
    /\ InFlightFor("rotate", t) => ~InFlightFor("reveal", t) /\ revealed[t] = 0
    /\ \A n \in Slots : Is(n, "reveal") /\ calls[n].arg = t /\ Ok(n)
                           => calls[n].data \in {0, tokenRow[t].value}
    /\ revealed[t] \in {0, tokenRow[t].value}

RevealInv == \A t \in Tokens \ crossed : TokenSound(t)

(* Each flag that is up belongs to a handler that waits.                   *)
TokenFlagInv ==
    /\ tokensLoading => InFlight("list")
    /\ \A t \in revealLoading : InFlightFor("reveal", t)

TokensPageInv == TokenCallsTyped /\ TokenRowsTyped /\ RevealInv /\ TokenFlagInv

-----------------------------------------------------------------------------
(* Slots.                                                                  *)

LEMMA TokenSlotTaken ==
    ASSUME TokenCallsTyped, NEW n \in Slots, NEW x \in TokenCall, calls' = [calls EXCEPT ![n] = x],
           x.op \in TokenRowOps => x.arg \in Tokens
    PROVE  /\ TokenCallsTyped'
           /\ calls'[n] = x
           /\ \A m \in Slots \ {n} : calls'[m] = calls[m]
  BY DEF TokenCallsTyped

LEMMA TokenSentIsCall ==
    ASSUME NEW op \in {"list", "reveal", "rotate", "revoke", "delete", "create"},
           NEW arg \in TokenValues
    PROVE  Sent(op, arg) \in TokenCall /\ Sent(op, arg).op = op /\ Sent(op, arg).arg = arg
           /\ ~Sent(op, arg).ok
  BY DEF Sent, TokenCall, TokenValues, NoValue

LEMMA TokenIdleIsCall == Idle \in TokenCall /\ Idle.op = "idle"
  BY DEF Idle, TokenCall, TokenValues, NoValue

(* An answer or a failure leaves what the call is for.                     *)
LEMMA TokenAnswerLeaves ==
    ASSUME TokenCallsTyped, NEW n \in Slots, NEW d \in TokenValues, NEW o \in BOOLEAN,
           calls' = [calls EXCEPT ![n] =
                       [@ EXCEPT !.stage = "answered", !.ok = o, !.data = d]]
    PROVE  /\ TokenCallsTyped'
           /\ \A m \in Slots : calls'[m].op = calls[m].op /\ calls'[m].arg = calls[m].arg
           /\ \A m \in Slots \ {n} : calls'[m] = calls[m]
           /\ calls'[n].ok = o /\ calls'[n].data = d
  <1> DEFINE x == [calls[n] EXCEPT !.stage = "answered", !.ok = o, !.data = d]
  <1>1. calls[n] \in TokenCall /\ (calls[n].op \in TokenRowOps => calls[n].arg \in Tokens)
    BY DEF TokenCallsTyped
  <1>2. /\ x \in TokenCall /\ x.op = calls[n].op /\ x.arg = calls[n].arg
        /\ x.ok = o /\ x.data = d
    BY <1>1 DEF TokenCall
  <1>3. calls' = [calls EXCEPT ![n] = x]
    OBVIOUS
  <1> HIDE DEF x
  <1>4. /\ TokenCallsTyped' /\ calls'[n] = x
        /\ \A m \in Slots \ {n} : calls'[m] = calls[m]
    BY <1>1, <1>2, <1>3, TokenSlotTaken
  <1>5. \A m \in Slots : calls'[m].op = calls[m].op /\ calls'[m].arg = calls[m].arg
    BY <1>2, <1>4
  <1>6. QED
    BY <1>2, <1>4, <1>5

-----------------------------------------------------------------------------
(* Steps of the server, and calls that fail.                               *)

(* If the calls are for what they were for, only a reveal that is answered *)
(* and a token that gets another value can matter.                         *)
LEMMA TokenServedKeeps ==
    ASSUME TokensPageInv, TokenCallsTyped', TokenRowsTyped', NEW n \in Slots,
           UNCHANGED <<tokensLoading, revealed, revealLoading, crossed>>,
           \A m \in Slots : calls'[m].op = calls[m].op /\ calls'[m].arg = calls[m].arg,
           \A m \in Slots \ {n} : calls'[m] = calls[m],
           Is(n, "reveal") /\ calls'[n].ok => calls'[n].data = tokenRow'[calls[n].arg].value,
           \A t \in Tokens : \/ tokenRow'[t].value = tokenRow[t].value
                             \/ tokenRow[t].value = 0
                             \/ InFlightFor("rotate", t)
    PROVE  TokensPageInv'
  <1>1. \A op, t : InFlightFor(op, t)' <=> InFlightFor(op, t)
    BY DEF InFlightFor, Is
  <1>2. TokenFlagInv'
    BY <1>1 DEF TokensPageInv, TokenFlagInv, InFlight, Is
  <1>3. ASSUME NEW t \in Tokens \ crossed PROVE TokenSound(t)'
    <2>1. TokenSound(t)
      BY DEF TokensPageInv, RevealInv
    <2>2. (InFlightFor("rotate", t) => ~InFlightFor("reveal", t) /\ revealed[t] = 0)'
      BY <1>1, <2>1 DEF TokenSound
    <2>3. ASSUME NEW m \in Slots, Is(m, "reveal"), calls[m].arg = t, calls'[m].ok
          PROVE  calls'[m].data \in {0, tokenRow'[t].value}
      <3>1. CASE m = n
        BY <2>3, <3>1
      <3>2. CASE m # n
        <4>1. ~InFlightFor("rotate", t)
          BY <2>1, <2>3 DEF TokenSound, InFlightFor
        <4>2. calls[m].data \in {0, tokenRow[t].value} /\ calls'[m] = calls[m]
          BY <2>1, <2>3, <3>2 DEF TokenSound, Ok
        <4>3. QED
          BY <4>1, <4>2
      <3>3. QED
        BY <3>1, <3>2
    <2>4. revealed'[t] \in {0, tokenRow'[t].value}
      BY <2>1 DEF TokenSound
    <2>5. QED
      BY <2>2, <2>3, <2>4 DEF TokenSound, Is, Ok
  <1>4. QED
    BY <1>2, <1>3 DEF TokensPageInv, RevealInv

LEMMA TokenFailureKeeps ==
    ASSUME TokensPageInv, NEW n \in Slots, CallFails(n), UNCHANGED tokensVars
    PROVE  TokensPageInv'
  <1>1. TokenCallsTyped /\ NoValue \in TokenValues
    BY DEF TokensPageInv, TokenValues
  <1>2. calls' = [calls EXCEPT ![n] =
                    [@ EXCEPT !.stage = "answered", !.ok = FALSE, !.data = NoValue]]
    BY DEF CallFails, NoValue
  <1>3. /\ TokenCallsTyped'
        /\ \A m \in Slots : calls'[m].op = calls[m].op /\ calls'[m].arg = calls[m].arg
        /\ \A m \in Slots \ {n} : calls'[m] = calls[m]
        /\ calls'[n].ok = FALSE
    BY <1>1, <1>2, TokenAnswerLeaves
  <1>4. TokenRowsTyped'
    BY DEF TokensPageInv, TokenRowsTyped, tokensVars
  <1>5. QED
    BY <1>3, <1>4, TokenServedKeeps DEF tokensVars

LEMMA TokenServeKeeps ==
    ASSUME TokensPageInv, NEW n \in Slots, TokensServe(n)
    PROVE  TokensPageInv'
  <1>1. TokenCallsTyped /\ TokenRowsTyped
    BY DEF TokensPageInv
  <1>2. UNCHANGED <<tokensLoading, revealed, revealLoading, crossed>>
    BY DEF TokensServe
  <1>3. ASSUME NEW d \in TokenValues, Answer(n, d), TokenRowsTyped',
               Is(n, "reveal") => d = tokenRow'[calls[n].arg].value,
               \A t \in Tokens : \/ tokenRow'[t].value = tokenRow[t].value
                                 \/ tokenRow[t].value = 0
                                 \/ InFlightFor("rotate", t)
        PROVE  TokensPageInv'
    <2>1. calls' = [calls EXCEPT ![n] =
                      [@ EXCEPT !.stage = "answered", !.ok = TRUE, !.data = d]]
      BY <1>3 DEF Answer
    <2>2. /\ TokenCallsTyped'
          /\ \A m \in Slots : calls'[m].op = calls[m].op /\ calls'[m].arg = calls[m].arg
          /\ \A m \in Slots \ {n} : calls'[m] = calls[m]
          /\ calls'[n].data = d
      BY <1>1, <2>1, TokenAnswerLeaves
    <2>3. QED
      BY <1>2, <1>3, <2>2, TokenServedKeeps
  <1>4. CASE ServeRead(n)
    <2>1. TokenRowsTyped'
      BY <1>1, <1>2, <1>4 DEF TokenRowsTyped, ServeRead
    <2>2. CASE Waits(n, "list") /\ Answer(n, [t \in Tokens |-> tokenRow[t].status])
      <3>1. [t \in Tokens |-> tokenRow[t].status] \in TokenValues
        BY <1>1 DEF TokenRowsTyped, TokenValues
      <3>2. ~Is(n, "reveal")
        BY <2>2 DEF Waits, Is
      <3>3. QED
        BY <1>3, <1>4, <2>1, <2>2, <3>1, <3>2 DEF ServeRead
    <2>3. CASE Waits(n, "reveal") /\ Answer(n, tokenRow[calls[n].arg].value)
      <3>1. calls[n].arg \in Tokens
        BY <1>1, <2>3 DEF TokenCallsTyped, TokenRowOps, Waits, Is
      <3>2. tokenRow[calls[n].arg].value \in TokenValues
        BY <1>1, <3>1 DEF TokenRowsTyped, TokenValues
      <3>3. QED
        BY <1>3, <1>4, <2>1, <2>3, <3>2 DEF ServeRead
    <2>4. QED
      BY <1>4, <2>2, <2>3 DEF ServeRead
  <1>5. CASE ServeCreate(n)
    <2>1. PICK t \in Tokens :
             /\ tokenRow[t].value = 0
             /\ tokenRow' = [tokenRow EXCEPT ![t] = [status |-> "active", value |-> 1]]
             /\ Answer(n, <<t, 1>>)
      BY <1>5 DEF ServeCreate
    <2>2. TokenRowsTyped' /\ \A u \in Tokens \ {t} : tokenRow'[u] = tokenRow[u]
      BY <1>1, <1>2, <2>1 DEF TokenRowsTyped, TokenStatuses
    <2>3. <<t, 1>> \in TokenValues /\ ~Is(n, "reveal")
      BY <1>5 DEF TokenValues, ServeCreate, Waits, Is
    <2>4. QED
      BY <1>3, <2>1, <2>2, <2>3
  <1>6. CASE ServeRotate(n)
    <2> DEFINE t == calls[n].arg
               v == tokenRow[t].value + 1
    <2>1. t \in Tokens /\ InFlightFor("rotate", t) /\ ~Is(n, "reveal")
      BY <1>1, <1>6 DEF TokenCallsTyped, TokenRowOps, ServeRotate, Waits, Is, InFlightFor
    <2>2. /\ tokenRow' = [tokenRow EXCEPT ![t] = [status |-> "active", value |-> v]]
          /\ Answer(n, <<t, v>>)
      BY <1>6 DEF ServeRotate
    <2>3. v \in Nat
      BY <1>1, <2>1 DEF TokenRowsTyped
    <2> HIDE DEF t, v
    <2>4. TokenRowsTyped' /\ \A u \in Tokens \ {t} : tokenRow'[u] = tokenRow[u]
      BY <1>1, <1>2, <2>1, <2>2, <2>3 DEF TokenRowsTyped, TokenStatuses
    <2>5. <<t, v>> \in TokenValues
      BY <2>1, <2>3 DEF TokenValues
    <2>6. QED
      BY <1>3, <2>1, <2>2, <2>4, <2>5
  <1>7. CASE ServeRevoke(n) \/ ServeDelete(n)
    <2>1. calls[n].arg \in Tokens /\ ~Is(n, "reveal")
      BY <1>1, <1>7 DEF TokenCallsTyped, TokenRowOps, ServeRevoke, ServeDelete, Waits, Is
    <2>2. PICK s \in TokenStatuses : tokenRow' = [tokenRow EXCEPT ![calls[n].arg].status = s]
      BY <1>1, <1>7, <2>1 DEF ServeRevoke, ServeDelete, TokenRowsTyped, TokenStatuses
    <2>3. TokenRowsTyped' /\ \A u \in Tokens : tokenRow'[u].value = tokenRow[u].value
      BY <1>1, <1>2, <2>1, <2>2 DEF TokenRowsTyped
    <2>4. NoValue \in TokenValues /\ Answer(n, NoValue)
      BY <1>7 DEF TokenValues, ServeRevoke, ServeDelete, NoValue
    <2>5. QED
      BY <1>3, <2>1, <2>3, <2>4
  <1>8. QED
    BY <1>4, <1>5, <1>6, <1>7 DEF TokensServe
-----------------------------------------------------------------------------
(* Clicks, and answers that the page takes in.                             *)

(* What a slot is given next: nothing that is on display belongs to a      *)
(* token that is being generated anew, and each flag keeps its handler.    *)
LEMMA TokenSlotKeeps ==
    ASSUME TokensPageInv, NEW n \in Slots, NEW x \in TokenCall, calls' = [calls EXCEPT ![n] = x],
           x.op \in TokenRowOps => x.arg \in Tokens, ~x.ok,
           tokenRow' = tokenRow, crossed \subseteq crossed',
           revealed' \in [Tokens -> TokenValues], revealLoading' \subseteq Tokens,
           \A t \in Tokens \ crossed' :
              /\ revealed'[t] \in {0, tokenRow[t].value}
              /\ InFlightFor("rotate", t) => revealed'[t] = 0
              /\ x.op = "rotate" /\ x.arg = t => revealed'[t] = 0 /\ ~InFlightFor("reveal", t)
              /\ x.op = "reveal" /\ x.arg = t => ~InFlightFor("rotate", t),
           tokensLoading' => (tokensLoading /\ ~Is(n, "list")) \/ x.op = "list",
           \A t \in revealLoading' :
              \/ t \in revealLoading /\ ~(Is(n, "reveal") /\ calls[n].arg = t)
              \/ x.op = "reveal" /\ x.arg = t
    PROVE  TokensPageInv'
  <1>1. /\ TokenCallsTyped' /\ calls'[n] = x
        /\ \A m \in Slots \ {n} : calls'[m] = calls[m]
    BY TokenSlotTaken DEF TokensPageInv
  <1>2. TokenRowsTyped'
    BY DEF TokensPageInv, TokenRowsTyped
  <1>3. \A op, t : InFlightFor(op, t)' => InFlightFor(op, t) \/ (x.op = op /\ x.arg = t)
    BY <1>1 DEF InFlightFor, Is
  <1>4. ASSUME NEW t \in Tokens \ crossed' PROVE TokenSound(t)'
    <2>1. TokenSound(t)
      BY DEF TokensPageInv, RevealInv
    <2>2. (InFlightFor("rotate", t) => ~InFlightFor("reveal", t) /\ revealed[t] = 0)'
      BY <1>3, <2>1 DEF TokenSound
    <2>3. ASSUME NEW m \in Slots, calls'[m].op = "reveal", calls'[m].arg = t, calls'[m].ok
          PROVE  calls'[m].data \in {0, tokenRow'[t].value}
      <3>1. m # n /\ calls'[m] = calls[m]
        BY <1>1, <2>3
      <3>2. QED
        BY <2>1, <2>3, <3>1 DEF TokenSound, Is, Ok
    <2>4. QED
      BY <2>2, <2>3 DEF TokenSound, Is, Ok
  <1>5. TokenFlagInv'
    <2>1. ASSUME tokensLoading' PROVE InFlight("list")'
      <3>1. CASE x.op = "list"
        BY <1>1, <3>1 DEF InFlight, Is
      <3>2. CASE tokensLoading /\ ~Is(n, "list")
        <4>1. PICK m \in Slots : calls[m].op = "list"
          BY <3>2 DEF TokensPageInv, TokenFlagInv, InFlight, Is
        <4>2. QED
          BY <1>1, <3>2, <4>1 DEF InFlight, Is
      <3>3. QED
        BY <2>1, <3>1, <3>2
    <2>2. ASSUME NEW t \in revealLoading' PROVE InFlightFor("reveal", t)'
      <3>1. CASE x.op = "reveal" /\ x.arg = t
        BY <1>1, <3>1 DEF InFlightFor, Is
      <3>2. CASE t \in revealLoading /\ ~(Is(n, "reveal") /\ calls[n].arg = t)
        <4>1. PICK m \in Slots : calls[m].op = "reveal" /\ calls[m].arg = t
          BY <3>2 DEF TokensPageInv, TokenFlagInv, InFlightFor, Is
        <4>2. QED
          BY <1>1, <3>2, <4>1 DEF InFlightFor, Is
      <3>3. QED
        BY <2>2, <3>1, <3>2
    <2>3. QED
      BY <2>1, <2>2 DEF TokenFlagInv
  <1>6. QED
    BY <1>1, <1>2, <1>4, <1>5 DEF TokensPageInv, RevealInv

(* What uncrossed tokens have on display, in a form the steps can cite.    *)
LEMMA TokenDisplayed ==
    ASSUME TokensPageInv, NEW t \in Tokens \ crossed
    PROVE  /\ revealed[t] \in {0, tokenRow[t].value}
           /\ InFlightFor("rotate", t) => revealed[t] = 0 /\ ~InFlightFor("reveal", t)
  BY DEF TokensPageInv, RevealInv, TokenSound

LEMMA TokenRevealClickKeeps ==
    ASSUME TokensPageInv, NEW n \in Slots, NEW t \in Tokens, RevealClick(n, t)
    PROVE  TokensPageInv'
  <1> DEFINE x == Sent("reveal", t)
  <1>1. x \in TokenCall /\ x.op = "reveal" /\ x.arg = t /\ ~x.ok
    BY DEF Sent, TokenCall, TokenValues, NoValue
  <1>2. calls' = [calls EXCEPT ![n] = x] /\ Is(n, "idle")
    BY DEF RevealClick, RevealToken, Send, Free
  <1> HIDE DEF x
  <1>3. /\ UNCHANGED <<tokenRow, tokensLoading, revealed>>
        /\ revealLoading' = revealLoading \cup {t}
        /\ crossed \subseteq crossed'
        /\ InFlightFor("rotate", t) => t \in crossed'
    BY DEF RevealClick, RevealToken
  <1>4. revealed' \in [Tokens -> TokenValues] /\ revealLoading' \subseteq Tokens
    BY <1>3 DEF TokensPageInv, TokenRowsTyped
  <1>5. ~Is(n, "list") /\ ~Is(n, "reveal")
    BY <1>2 DEF Is
  <1>6. \A u \in Tokens \ crossed' :
           /\ revealed'[u] \in {0, tokenRow[u].value}
           /\ InFlightFor("rotate", u) => revealed'[u] = 0 /\ u # t
    BY <1>3, TokenDisplayed
  <1>7. \A u \in revealLoading' :
           \/ u \in revealLoading /\ ~(Is(n, "reveal") /\ calls[n].arg = u)
           \/ x.op = "reveal" /\ x.arg = u
    BY <1>1, <1>3, <1>5
  <1>8. \A u \in Tokens \ crossed' :
           /\ revealed'[u] \in {0, tokenRow[u].value}
           /\ InFlightFor("rotate", u) => revealed'[u] = 0
           /\ x.op = "rotate" /\ x.arg = u => revealed'[u] = 0 /\ ~InFlightFor("reveal", u)
           /\ x.op = "reveal" /\ x.arg = u => ~InFlightFor("rotate", u)
    BY <1>1, <1>6
  <1>9. QED
    BY <1>1, <1>2, <1>3, <1>4, <1>5, <1>7, <1>8, TokenSlotKeeps

LEMMA TokenRotateClickKeeps ==
    ASSUME TokensPageInv, NEW n \in Slots, NEW t \in Tokens, RotateClick(n, t)
    PROVE  TokensPageInv'
  <1> DEFINE x == Sent("rotate", t)
  <1>1. x \in TokenCall /\ x.op = "rotate" /\ x.arg = t /\ ~x.ok
    BY DEF Sent, TokenCall, TokenValues, NoValue
  <1>2. calls' = [calls EXCEPT ![n] = x] /\ Is(n, "idle")
    BY DEF RotateClick, Send, Free
  <1> HIDE DEF x
  <1>3. /\ UNCHANGED <<tokenRow, tokensLoading, revealLoading>>
        /\ revealed' = [revealed EXCEPT ![t] = 0]
        /\ crossed \subseteq crossed'
        /\ InFlightFor("reveal", t) => t \in crossed'
    BY DEF RotateClick
  <1>4. /\ revealed' \in [Tokens -> TokenValues] /\ revealLoading' \subseteq Tokens
        /\ \A u \in Tokens : revealed'[u] = IF u = t THEN 0 ELSE revealed[u]
    BY <1>3 DEF TokensPageInv, TokenRowsTyped, TokenValues
  <1>5. ~Is(n, "list") /\ ~Is(n, "reveal")
    BY <1>2 DEF Is
  <1>6. \A u \in Tokens \ crossed' :
           /\ revealed'[u] \in {0, tokenRow[u].value}
           /\ InFlightFor("rotate", u) => revealed'[u] = 0
           /\ u = t => revealed'[u] = 0 /\ ~InFlightFor("reveal", u)
    BY <1>3, <1>4, TokenDisplayed
  <1>7. QED
    BY <1>1, <1>2, <1>3, <1>4, <1>5, <1>6, TokenSlotKeeps

(* A call that is sent beside the table, or a handler that goes on to a    *)
(* refresh or ends, while the flags and the display are as they were.      *)
LEMMA TokenOtherCallKeeps ==
    ASSUME TokensPageInv, NEW n \in Slots, NEW x \in TokenCall, calls' = [calls EXCEPT ![n] = x],
           x.op \in {"idle", "list", "revoke", "delete", "create"},
           x.op \in TokenRowOps => x.arg \in Tokens, ~x.ok,
           ~Is(n, "list"), ~Is(n, "reveal"),
           tokensLoading' => tokensLoading \/ x.op = "list",
           UNCHANGED <<tokenRow, revealed, revealLoading, crossed>>
    PROVE  TokensPageInv'
  <1>1. revealed' \in [Tokens -> TokenValues] /\ revealLoading' \subseteq Tokens
    BY DEF TokensPageInv, TokenRowsTyped
  <1>2. QED
    BY <1>1, TokenDisplayed, TokenSlotKeeps

LEMMA TokenRowClickKeeps ==
    ASSUME TokensPageInv, NEW n \in Slots,
           CreateSubmit(n) \/ \E t \in Tokens : RevokeClick(n, t) \/ DeleteClick(n, t)
    PROVE  TokensPageInv'
  <1>1. Is(n, "idle") /\ UNCHANGED tokensVars
    BY DEF RevokeClick, DeleteClick, CreateSubmit, Free
  <1>2. PICK op \in {"revoke", "delete", "create"}, arg \in TokenValues :
           calls' = [calls EXCEPT ![n] = Sent(op, arg)] /\ (op \in TokenRowOps => arg \in Tokens)
    <2>1. Tokens \subseteq TokenValues /\ NoValue \in TokenValues /\ "create" \notin TokenRowOps
      BY DEF TokenValues, TokenRowOps
    <2>2. QED
      BY <2>1 DEF RevokeClick, DeleteClick, CreateSubmit, Send, NoValue
  <1>3. /\ Sent(op, arg) \in TokenCall /\ Sent(op, arg).op = op /\ Sent(op, arg).arg = arg
        /\ ~Sent(op, arg).ok
    BY DEF Sent, TokenCall, TokenValues, NoValue
  <1>4. ~Is(n, "list") /\ ~Is(n, "reveal")
    BY <1>1 DEF Is
  <1>5. QED
    BY <1>1, <1>2, <1>3, <1>4, TokenOtherCallKeeps DEF tokensVars

(* The calls stand and at most something that was on display is hidden.    *)
LEMMA TokenHidingKeeps ==
    ASSUME TokensPageInv, revealed' \in [Tokens -> TokenValues],
           \A t \in Tokens : revealed'[t] \in {0, revealed[t]},
           UNCHANGED <<calls, tokenRow, tokensLoading, revealLoading, crossed>>
    PROVE  TokensPageInv'
  <1>1. TokenCallsTyped' /\ TokenRowsTyped' /\ TokenFlagInv'
    BY DEF TokensPageInv, TokenCallsTyped, TokenRowsTyped, TokenFlagInv, InFlight, InFlightFor,
       Is
  <1>2. ASSUME NEW t \in Tokens \ crossed PROVE TokenSound(t)'
    <2>1. TokenSound(t)
      BY DEF TokensPageInv, RevealInv
    <2>2. QED
      BY <2>1 DEF TokenSound, InFlightFor, Is, Ok
  <1>3. QED
    BY <1>1, <1>2 DEF TokensPageInv, RevealInv

LEMMA TokenDialogKeeps ==
    ASSUME TokensPageInv,
           \/ \E t \in Tokens : HideClick(t)
           \/ \E d \in TokenDialogs : TokenDialogClose(d)
           \/ CreateOpen \/ CreateHidden \/ GeneratedHidden
           \/ UNCHANGED <<browserVars, tokensVars>>
    PROVE  TokensPageInv'
  <1>1. UNCHANGED <<calls, tokenRow, tokensLoading, revealLoading, crossed>>
    BY DEF HideClick, TokenDialogClose, CreateOpen, CreateHidden, GeneratedHidden,
           browserVars, tokensVars
  <1>2. UNCHANGED revealed \/ \E t \in Tokens : revealed' = [revealed EXCEPT ![t] = 0]
    BY DEF HideClick, TokenDialogClose, CreateOpen, CreateHidden, GeneratedHidden,
           browserVars, tokensVars
  <1>3. /\ revealed' \in [Tokens -> TokenValues]
        /\ \A t \in Tokens : revealed'[t] \in {0, revealed[t]}
    BY <1>2 DEF TokensPageInv, TokenRowsTyped, TokenValues
  <1>4. QED
    BY <1>1, <1>3, TokenHidingKeeps

LEMMA TokenListAnsweredKeeps ==
    ASSUME TokensPageInv, NEW n \in Slots, ListAnswered(n)
    PROVE  TokensPageInv'
  <1>1. calls' = [calls EXCEPT ![n] = Idle] /\ Is(n, "list")
    BY DEF ListAnswered, Finish, Resumes
  <1>2. UNCHANGED <<tokenRow, crossed>> /\ tokensLoading' = FALSE
    BY DEF ListAnswered
  <1>3. /\ revealed' \in [Tokens -> TokenValues] /\ revealLoading' \subseteq revealLoading
        /\ \A t \in Tokens : revealed'[t] \in {0, revealed[t]}
    BY DEF ListAnswered, TokensPageInv, TokenRowsTyped, TokenValues
  <1>4. Idle \in TokenCall /\ Idle.op = "idle" /\ ~Idle.ok /\ "idle" \notin TokenRowOps
    BY TokenIdleIsCall DEF Idle, TokenRowOps
  <1>5. revealLoading' \subseteq Tokens /\ ~Is(n, "reveal")
    BY <1>1, <1>3 DEF TokensPageInv, TokenRowsTyped, Is
  <1>6. QED
    BY <1>1, <1>2, <1>3, <1>4, <1>5, TokenDisplayed, TokenSlotKeeps

LEMMA TokenRevealAnsweredKeeps ==
    ASSUME TokensPageInv, NEW n \in Slots, RevealAnswered(n)
    PROVE  TokensPageInv'
  <1> DEFINE u == calls[n].arg
  <1>1. calls' = [calls EXCEPT ![n] = Idle] /\ Is(n, "reveal")
    BY DEF RevealAnswered, Finish, Resumes
  <1>2. /\ UNCHANGED <<tokenRow, crossed, tokensLoading>>
        /\ revealLoading' = revealLoading \ {u}
        /\ revealed' = IF Ok(n) THEN [revealed EXCEPT ![u] = calls[n].data] ELSE revealed
    BY DEF RevealAnswered
  <1>3. u \in Tokens /\ calls[n].data \in TokenValues /\ InFlightFor("reveal", u)
    BY <1>1 DEF TokensPageInv, TokenCallsTyped, TokenCall, TokenRowOps, Is, InFlightFor
  <1>4. Ok(n) => u \in crossed \/ calls[n].data \in {0, tokenRow[u].value}
    BY <1>1, <1>3 DEF TokensPageInv, RevealInv, TokenSound
  <1> HIDE DEF u
  <1>5. /\ revealed' \in [Tokens -> TokenValues] /\ revealLoading' \subseteq Tokens
        /\ \A t \in Tokens : revealed'[t] = IF Ok(n) /\ t = u THEN calls[n].data ELSE revealed[t]
    BY <1>2, <1>3 DEF TokensPageInv, TokenRowsTyped
  <1>6. Idle \in TokenCall /\ Idle.op = "idle" /\ ~Idle.ok /\ "idle" \notin TokenRowOps
    BY TokenIdleIsCall DEF Idle, TokenRowOps
  <1>7. \A t \in Tokens \ crossed :
           /\ revealed'[t] \in {0, tokenRow[t].value}
           /\ InFlightFor("rotate", t) => revealed'[t] = 0
    BY <1>3, <1>4, <1>5, TokenDisplayed
  <1>8. ~Is(n, "list") /\ \A t \in revealLoading' : t \in revealLoading /\ calls[n].arg # t
    BY <1>1, <1>2 DEF Is, u
  <1>9. QED
    BY <1>1, <1>2, <1>5, <1>6, <1>7, <1>8, TokenSlotKeeps

LEMMA TokenChangeAnsweredKeeps ==
    ASSUME TokensPageInv, NEW n \in Slots, ChangeAnswered(n) \/ CreateAnswered(n)
    PROVE  TokensPageInv'
  <1>1. ~Is(n, "list") /\ ~Is(n, "reveal")
    BY DEF ChangeAnswered, CreateAnswered, Resumes, Is
  <1>2. UNCHANGED <<tokenRow, revealed, revealLoading, crossed>>
    BY DEF ChangeAnswered, CreateAnswered
  <1>3. CASE Finish(n) /\ UNCHANGED tokensLoading
    <2>1. Idle \in TokenCall /\ Idle.op = "idle" /\ ~Idle.ok /\ "idle" \notin TokenRowOps
      BY TokenIdleIsCall DEF Idle, TokenRowOps
    <2>2. QED
      BY <1>1, <1>2, <1>3, <2>1, TokenOtherCallKeeps DEF Finish
  <1>4. CASE \E tok \in TokenValues : Refresh(n, tok)
    <2>1. PICK tok \in TokenValues : calls' = [calls EXCEPT ![n] = Sent("list", tok)]
      BY <1>4 DEF Refresh, Send
    <2>2. /\ Sent("list", tok) \in TokenCall /\ Sent("list", tok).op = "list"
          /\ ~Sent("list", tok).ok /\ "list" \notin TokenRowOps
      BY TokenSentIsCall DEF TokenRowOps
    <2>3. QED
      BY <1>1, <1>2, <2>1, <2>2, TokenOtherCallKeeps
  <1>5. NoValue \in TokenValues /\ calls[n].data \in TokenValues
    BY DEF TokensPageInv, TokenCallsTyped, TokenCall, TokenValues
  <1>6. QED
    BY <1>3, <1>4, <1>5 DEF ChangeAnswered, CreateAnswered

-----------------------------------------------------------------------------
LEMMA TokensStart ==
    ASSUME page = "tokens", BrowserInit(TokensMount), TokensInit
    PROVE  TokensPageInv
  <1>1. 1 \in Slots
    BY BrowserAssumption DEF Slots
  <1>2. calls = [n \in Slots |-> IF n = 1 THEN Sent("list", NoValue) ELSE Idle]
    BY <1>1 DEF BrowserInit, TokensMount, Slots
  <1>3. /\ Sent("list", NoValue) \in TokenCall /\ Sent("list", NoValue).op = "list"
        /\ Idle \in TokenCall /\ Idle.op = "idle"
    BY DEF Sent, Idle, TokenCall, TokenValues, NoValue
  <1>4. TokenCallsTyped
    BY <1>2, <1>3 DEF TokenCallsTyped, TokenRowOps
  <1>5. TokenRowsTyped
    BY DEF TokensInit, TokenRowsTyped, TokenStatuses, TokenValues
  <1>6. TokenFlagInv
    BY <1>1, <1>2, <1>3 DEF TokensInit, TokenFlagInv, InFlight, Is
  <1>7. RevealInv
    BY <1>2, <1>3 DEF TokensInit, RevealInv, TokenSound, InFlightFor, Is
  <1>8. QED
    BY <1>4, <1>5, <1>6, <1>7 DEF TokensPageInv

LEMMA TokensPageNextKeeps ==
    ASSUME TokensPageInv, [TokensNext]_<<browserVars, tokensVars>>
    PROVE  TokensPageInv'
  <1>1. CASE TokensClick
    <2>1. CASE \E n \in Slots, t \in Tokens : RevealClick(n, t) \/ RotateClick(n, t)
      BY <2>1, TokenRevealClickKeeps, TokenRotateClickKeeps
    <2>2. CASE \E n \in Slots, t \in Tokens : RevokeClick(n, t) \/ DeleteClick(n, t)
      BY <2>2, TokenRowClickKeeps
    <2>3. CASE \E n \in Slots : CreateSubmit(n)
      BY <2>3, TokenRowClickKeeps
    <2>4. CASE \/ \E t \in Tokens : HideClick(t)
               \/ \E d \in TokenDialogs : TokenDialogClose(d)
               \/ CreateOpen
      BY <2>4, TokenDialogKeeps
    <2>5. QED
      BY <1>1, <2>1, <2>2, <2>3, <2>4 DEF TokensClick
  <1>2. CASE TokensStep
    <2>1. CASE \E n \in Slots : TokensServe(n)
      BY <2>1, TokenServeKeeps
    <2>2. CASE \E n \in Slots : TokensResume(n)
      BY <2>2, TokenListAnsweredKeeps, TokenRevealAnsweredKeeps, TokenChangeAnsweredKeeps
         DEF TokensResume
    <2>3. CASE CreateHidden \/ GeneratedHidden
      BY <2>3, TokenDialogKeeps
    <2>4. QED
      BY <1>2, <2>1, <2>2, <2>3 DEF TokensStep
  <1>3. CASE \E n \in Slots : CallFails(n) /\ UNCHANGED <<clicks, tokensVars>>
    BY <1>3, TokenFailureKeeps
  <1>4. CASE UNCHANGED <<browserVars, tokensVars>>
    BY <1>4, TokenDialogKeeps
  <1>5. QED
    BY <1>1, <1>2, <1>3, <1>4 DEF TokensNext

-----------------------------------------------------------------------------
(* The dialogs of a row of tokens.  Unless one was opened while a call for *)
(* the one before waited, every call is for the token of the dialog.       *)

(* A call of a dialog is for the token whose dialog is open; this is lost  *)
(* when a dialog is opened while a call of another one waits.              *)
DialogCallsMatch(n) ==
    /\ calls[n].op \in ChannelCalls => tokenChannelToken \in {"none", calls[n].arg[1]}
    /\ calls[n].op = "usage" => usageToken \in {"none", calls[n].arg[1]}

DialogsInv ==
    /\ page = "dialogs" =>
          /\ ShapedCalls
          /\ overlapped \in BOOLEAN
          /\ ~overlapped => \A n \in Slots : DialogCallsMatch(n)
    /\ page # "dialogs" => tokenChannelToken = "none" /\ usageToken = "none"
    /\ DialogsKeepToTheirToken
    /\ DialogsFlagsFall

(* A step that sends a call for the token that a dialog is or was for.     *)
LEMMA DialogSends ==
    ASSUME DialogsInv, page = "dialogs", page' = page, NEW n \in Slots, NEW op, NEW arg,
           Send(n, op, arg), op \in ChannelCalls \cup {"usage"}, overlapped' \in BOOLEAN,
           Is(n, "idle") \/ (op = "reloadChannel" /\ Is(n, "setChannel")),
           ~overlapped' =>
              /\ ~overlapped
              /\ op \in ChannelCalls => tokenChannelToken' \in {"none", arg[1]}
              /\ op = "usage" => usageToken' \in {"none", arg[1]}
              /\ tokenChannelToken' # tokenChannelToken =>
                    \A m \in Slots \ {n} : calls[m].op \notin ChannelCalls
              /\ usageToken' # usageToken => \A m \in Slots \ {n} : calls[m].op # "usage",
           DialogsKeepToTheirToken',
           channelLoading' => channelLoading \/ op = "channel",
           channelSaving' => channelSaving \/ op \in {"setChannel", "reloadChannel"},
           windowLoading' => windowLoading \/ op = "usage"
    PROVE  DialogsInv'
  <1>1. /\ ShapedCalls' /\ OnlySlot(n)
        /\ calls'[n].op = op /\ calls'[n].arg = arg
    BY SendIs DEF DialogsInv
  <1>2. ASSUME ~overlapped', NEW m \in Slots PROVE DialogCallsMatch(m)'
    BY <1>1, <1>2 DEF DialogsInv, DialogCallsMatch, OnlySlot, ChannelCalls
  <1>3. DialogsFlagsFall'
    BY <1>1 DEF DialogsInv, DialogsFlagsFall, InFlight, Is, OnlySlot, ChannelCalls
  <1>4. QED
    BY <1>1, <1>2, <1>3 DEF DialogsInv

(* A step that sends nothing, and at most ends what waits in n.            *)
LEMMA DialogQuiets ==
    ASSUME DialogsInv, page = "dialogs", page' = page, NEW n \in Slots,
           ShapedCalls', OnlySlot(n), overlapped' = overlapped,
           calls'[n].op = "idle" \/ (calls'[n].op = calls[n].op /\ calls'[n].arg = calls[n].arg),
           tokenChannelToken' \in {tokenChannelToken, "none"},
           usageToken' \in {usageToken, "none"},
           DialogsKeepToTheirToken',
           channelLoading' => channelLoading /\ (calls'[n].op # "idle" \/ ~Is(n, "channel")),
           channelSaving' => channelSaving /\ (calls'[n].op # "idle" \/
                                               (~Is(n, "setChannel") /\ ~Is(n, "reloadChannel"))),
           windowLoading' => windowLoading /\ (calls'[n].op # "idle" \/ ~Is(n, "usage"))
    PROVE  DialogsInv'
  <1>1. ASSUME ~overlapped', NEW m \in Slots PROVE DialogCallsMatch(m)'
    BY <1>1 DEF DialogsInv, DialogCallsMatch, OnlySlot, ChannelCalls
  <1>2. DialogsFlagsFall'
    BY DEF DialogsInv, DialogsFlagsFall, InFlight, Is, OnlySlot
  <1>3. QED
    BY <1>1, <1>2 DEF DialogsInv

LEMMA DialogsClickKeeps == DialogsInv /\ DialogsClick /\ page = "dialogs" /\ page' = page => DialogsInv'
  <1> SUFFICES ASSUME DialogsInv, DialogsClick, page = "dialogs", page' = page PROVE DialogsInv'
    OBVIOUS
  <1>1. CASE \E n \in Slots, t \in Rows : OpenTokenChannelModal(n, t)
    <2>1. PICK n \in Slots, t \in Rows : OpenTokenChannelModal(n, t)
      BY <1>1
    <2>2. overlapped' = (overlapped \/ \E op \in ChannelCalls : InFlight(op))
      BY <2>1 DEF OpenTokenChannelModal
    <2>3. ~overlapped' => ~overlapped /\ \A m \in Slots : calls[m].op \notin ChannelCalls
      BY <2>2 DEF DialogsInv, InFlight, Is
    <2>4. Send(n, "channel", <<t>>) /\ Is(n, "idle")
      BY <2>1 DEF OpenTokenChannelModal, Free
    <2>5. DialogsKeepToTheirToken'
      BY <2>1, <2>3 DEF OpenTokenChannelModal, DialogsInv, DialogsKeepToTheirToken, windowVars
    <2>6. QED
      BY <2>1, <2>2, <2>3, <2>4, <2>5, DialogSends
         DEF OpenTokenChannelModal, DialogsInv, ChannelCalls, windowVars
  <1>2. CASE \E n \in Slots, t \in Rows : OpenTokenUsageModal(n, t)
    <2>1. PICK n \in Slots, t \in Rows : OpenTokenUsageModal(n, t)
      BY <1>2
    <2>2. overlapped' = (overlapped \/ InFlight("usage"))
      BY <2>1 DEF OpenTokenUsageModal
    <2>3. ~overlapped' => ~overlapped /\ \A m \in Slots : calls[m].op # "usage"
      BY <2>2 DEF DialogsInv, InFlight, Is
    <2>4. Send(n, "usage", <<t>>) /\ Is(n, "idle")
      BY <2>1 DEF OpenTokenUsageModal, RefreshWindow, Free
    <2>5. DialogsKeepToTheirToken'
      BY <2>1, <2>3 DEF OpenTokenUsageModal, DialogsInv, DialogsKeepToTheirToken, channelVars
    <2>6. QED
      BY <2>1, <2>2, <2>3, <2>4, <2>5, DialogSends
         DEF OpenTokenUsageModal, DialogsInv, ChannelCalls, channelVars
  <1>3. CASE \E n \in Slots : SaveTokenChannel(n)
    <2>1. PICK n \in Slots : SaveTokenChannel(n)
      BY <1>3
    <2>2. Send(n, "setChannel", <<tokenChannelToken, selectedGroupID>>) /\ Is(n, "idle")
      BY <2>1 DEF SaveTokenChannel, Free
    <2>3. QED
      BY <2>1, <2>2, DialogSends
         DEF SaveTokenChannel, DialogsInv, DialogsKeepToTheirToken, ChannelCalls, windowVars
  <1>4. CASE \E n \in Slots : WindowQuery(n)
    <2>1. PICK n \in Slots : WindowQuery(n)
      BY <1>4
    <2>2. Send(n, "usage", <<usageToken>>) /\ Is(n, "idle")
      BY <2>1 DEF WindowQuery, RefreshWindow, Free
    <2>3. QED
      BY <2>1, <2>2, DialogSends
         DEF WindowQuery, DialogsInv, DialogsKeepToTheirToken, ChannelCalls, channelVars
  <1>5. CASE \E g \in Groups : SelectGroup(g)
    BY <1>5 DEF SelectGroup, DialogsInv, DialogsKeepToTheirToken, DialogsFlagsFall,
       DialogCallsMatch,
                InFlight, Is, windowVars, ShapedCalls
  <1>6. CASE \E d \in RowDialogs : RowDialogClose(d)
    BY <1>6 DEF RowDialogClose, dialogVars, DialogsInv, DialogsKeepToTheirToken,
       DialogsFlagsFall,
                DialogCallsMatch, InFlight, Is, ShapedCalls
  <1>7. QED
    BY <1>1, <1>2, <1>3, <1>4, <1>5, <1>6 DEF DialogsClick

LEMMA DialogsStepKeeps == DialogsInv /\ DialogsStep /\ page = "dialogs" /\ page' = page => DialogsInv'
  <1> SUFFICES ASSUME DialogsInv, DialogsStep, page = "dialogs", page' = page PROVE DialogsInv'
    OBVIOUS
  <1>0. ShapedCalls
    BY DEF DialogsInv
  <1>1. ASSUME NEW n \in Slots, DialogsServe(n) PROVE DialogsInv'
    <2>1. \E d : Answer(n, d)
      BY <1>1 DEF DialogsServe, ServeBinding, ServeReads
    <2>2. /\ ShapedCalls' /\ OnlySlot(n)
          /\ calls'[n].op = calls[n].op /\ calls'[n].arg = calls[n].arg
      BY <1>0, <2>1, AnsweredIs DEF SameErrands
    <2>3. calls[n].op # "idle"
      BY <1>1 DEF DialogsServe, ServeBinding, ServeReads, Waits, Is
    <2>4. QED
      BY <1>1, <2>2, <2>3, DialogQuiets
         DEF DialogsServe, DialogsInv, DialogsKeepToTheirToken, channelVars, windowVars
  <1>2. ASSUME NEW n \in Slots, ChannelAnswered(n) PROVE DialogsInv'
    <2>1. ShapedCalls' /\ OnlySlot(n) /\ calls'[n].op = "idle"
      BY <1>0, <1>2, FinishIs DEF ChannelAnswered
    <2>2. calls[n].op = "channel"
      BY <1>2 DEF ChannelAnswered, Resumes, Is
    <2>3. DialogsKeepToTheirToken'
      BY <1>2, <2>2 DEF ChannelAnswered, DialogsInv, DialogsKeepToTheirToken, DialogCallsMatch,
                        ChannelCalls, windowVars
    <2>4. QED
      BY <1>2, <2>1, <2>2, <2>3, DialogQuiets DEF ChannelAnswered, windowVars, Is
  <1>3. ASSUME NEW n \in Slots, SetChannelAnswered(n) PROVE DialogsInv'
    <2>1. calls[n].op = "setChannel"
      BY <1>3 DEF SetChannelAnswered, Resumes, Is
    <2>2. DialogsKeepToTheirToken'
      BY <1>3 DEF SetChannelAnswered, DialogsInv, DialogsKeepToTheirToken, windowVars
    <2>3. CASE Ok(n)
      <3>1. Send(n, "reloadChannel", calls[n].arg)
        BY <1>3, <2>3 DEF SetChannelAnswered
      <3>2. ~overlapped => tokenChannelToken \in {"none", calls[n].arg[1]}
        BY <2>1 DEF DialogsInv, DialogCallsMatch, ChannelCalls
      <3>3. QED
        BY <1>3, <2>1, <2>2, <2>3, <3>1, <3>2, DialogSends
           DEF SetChannelAnswered, DialogsInv, ChannelCalls, windowVars, Is
    <2>4. CASE ~Ok(n)
      <3>1. ShapedCalls' /\ OnlySlot(n) /\ calls'[n].op = "idle"
        BY <1>0, <1>3, <2>4, FinishIs DEF SetChannelAnswered
      <3>2. QED
        BY <1>3, <2>1, <2>2, <2>4, <3>1, DialogQuiets DEF SetChannelAnswered, windowVars, Is
    <2>5. QED
      BY <2>3, <2>4
  <1>4. ASSUME NEW n \in Slots, ReloadAnswered(n) PROVE DialogsInv'
    <2>1. ShapedCalls' /\ OnlySlot(n) /\ calls'[n].op = "idle"
      BY <1>0, <1>4, FinishIs DEF ReloadAnswered
    <2>2. calls[n].op = "reloadChannel"
      BY <1>4 DEF ReloadAnswered, Resumes, Is
    <2>3. DialogsKeepToTheirToken'
      BY <1>4, <2>2 DEF ReloadAnswered, DialogsInv, DialogsKeepToTheirToken, DialogCallsMatch,
                        ChannelCalls, windowVars
    <2>4. QED
      BY <1>4, <2>1, <2>2, <2>3, DialogQuiets DEF ReloadAnswered, windowVars, Is
  <1>5. ASSUME NEW n \in Slots, WindowAnswered(n) PROVE DialogsInv'
    <2>1. ShapedCalls' /\ OnlySlot(n) /\ calls'[n].op = "idle"
      BY <1>0, <1>5, FinishIs DEF WindowAnswered
    <2>2. calls[n].op = "usage"
      BY <1>5 DEF WindowAnswered, Resumes, Is
    <2>3. DialogsKeepToTheirToken'
      BY <1>5, <2>2 DEF WindowAnswered, DialogsInv, DialogsKeepToTheirToken, DialogCallsMatch,
                        channelVars
    <2>4. QED
      BY <1>5, <2>1, <2>2, <2>3, DialogQuiets DEF WindowAnswered, channelVars, Is
  <1>6. CASE ChannelHidden
    BY <1>6 DEF ChannelHidden, DialogsInv, DialogsKeepToTheirToken, DialogsFlagsFall,
       DialogCallsMatch,
                InFlight, Is, windowVars, ShapedCalls
  <1>7. CASE WindowHidden
    BY <1>7 DEF WindowHidden, DialogsInv, DialogsKeepToTheirToken, DialogsFlagsFall,
       DialogCallsMatch,
                InFlight, Is, channelVars, ShapedCalls
  <1>8. QED
    BY <1>1, <1>2, <1>3, <1>4, <1>5, <1>6, <1>7 DEF DialogsStep, DialogsResume

LEMMA DialogsNextKeeps == DialogsInv /\ DialogsNext => DialogsInv'
  <1> SUFFICES ASSUME DialogsInv, DialogsNext PROVE DialogsInv'
    OBVIOUS
  <1>1. page = "dialogs" /\ page' = page
    BY DEF DialogsNext
  <1>2. ASSUME NEW n \in Slots, CallFails(n), UNCHANGED dialogVars PROVE DialogsInv'
    <2>1. ShapedCalls' /\ OnlySlot(n) /\ SameErrands
      BY <1>1, <1>2, FailedIs DEF DialogsInv
    <2>2. \A m \in Slots : calls'[m].op = calls[m].op /\ calls'[m].arg = calls[m].arg
      BY <2>1 DEF SameErrands
    <2>3. QED
      BY <1>1, <1>2, <2>1, <2>2 DEF DialogsInv, DialogsKeepToTheirToken, DialogsFlagsFall,
         DialogCallsMatch, InFlight, Is, dialogVars
  <1>3. QED
    BY <1>1, <1>2, DialogsClickKeeps, DialogsStepKeeps DEF DialogsNext
-----------------------------------------------------------------------------
(* The walk of a user through the events.  What it met reaches down to     *)
(* every cursor that the page holds, those of the stack from the oldest on *)
(* among them.                                                             *)

WalkState ==
    /\ events \subseteq AnyEvent
    /\ limit \in Limits /\ filter \in Filters
    /\ NoGap(walk) /\ walk.met \in SUBSET AnyEvent
    /\ nextBeforeID \in 0..MaxEvent
    /\ nextBeforeID # 0 => Reaches(walk.met, nextBeforeID)

(* The stack of the cursors that led to the page: each is below the one    *)
(* before, and none is below that of the next page.                        *)
StackHolds(stack) ==
    /\ stack \in Seq(AnyEvent)
    /\ \A i \in 1..Len(stack) : Reaches(walk.met, stack[i]) /\ nextBeforeID <= stack[i]
    /\ \A i, j \in 1..Len(stack) : i <= j => stack[j] <= stack[i]

(* A query under way asks for the first page, or from a cursor of the walk *)
(* that none of the stack is below.                                        *)
QueryHolds(q) ==
    /\ q.before \in 0..MaxEvent /\ q.limit \in Limits
    /\ q.before = 0 => beforeStack = <<>>
    /\ q.before # 0 => Reaches(walk.met, q.before)
    /\ \A i \in 1..Len(beforeStack) : q.before <= beforeStack[i]

(* An answer is cut out of the rows there were without a gap, from its     *)
(* cursor down.                                                            *)
CutHolds(q, answer) ==
    /\ answer.had \in SUBSET AnyEvent
    /\ answer.cut.events \in SUBSET answer.had
    /\ CutWhole(answer.cut.events, answer.had)
    /\ q.before # 0 => CutBelow(answer.cut.events, answer.had, q.before)
    /\ CursorIsOldest(answer.cut.next, answer.cut.events)

(* At most one query is under way, while the page says so.                 *)
QueriesHold ==
    \A n \in Slots : Is(n, "usage") =>
        /\ usageLoading
        /\ QueryHolds(calls[n].arg)
        /\ calls[n].stage = "answered" /\ Ok(n) => CutHolds(calls[n].arg, calls[n].data)
        /\ \A m \in Slots \ {n} : ~Is(m, "usage")

(* The page of usage; on the others no walk is begun.                      *)
UsageInv ==
    /\ page = "usage" => /\ ShapedCalls /\ WalkState /\ StackHolds(beforeStack)
                         /\ QueriesHold /\ UsageFlagsFall
    /\ page # "usage" => NoGap(walk)

LEMMA UsageInvIsEnough == UsageInv => UsageWalkHasNoGap /\ UsageFlagsFall
  BY DEF UsageInv, WalkState, UsageWalkHasNoGap, UsageFlagsFall

LEMMA NoStackHolds == StackHolds(<<>>)
  <1>1. <<>> \in Seq(AnyEvent) /\ 1..Len(<<>>) = {}
    OBVIOUS
  <1>2. QED
    BY <1>1 DEF StackHolds

(* A step that does not touch the walk, and at most ends or sends in n     *)
(* what is no query, or picks while the stack is emptied.  Rows may come   *)
(* and go meanwhile: an answer under way carries those it was cut from.    *)
LEMMA UsageQuiets ==
    ASSUME UsageInv, page = "usage", page' = page, NEW n \in Slots, ShapedCalls', OnlySlot(n),
           UNCHANGED <<usageLoading, listVars>>,
           beforeStack' \in {beforeStack, <<>>},
           events' \subseteq AnyEvent, limit' \in Limits, filter' \in Filters,
           calls'[n] = calls[n] \/ (~Is(n, "usage") /\ ~Is(n, "usage")'),
           detailLoadingID' # 0 => InFlightFor("detail", detailLoadingID)'
    PROVE  UsageInv'
  <1>1. WalkState /\ StackHolds(beforeStack) /\ QueriesHold /\ UsageFlagsFall
    BY DEF UsageInv
  <1>2. usageLoading' = usageLoading /\ nextBeforeID' = nextBeforeID /\ walk' = walk
    BY DEF listVars
  <1>3. WalkState'
    BY <1>1, <1>2 DEF WalkState
  <1>4. StackHolds(beforeStack)'
    <2>1. StackHolds(beforeStack')
      BY <1>1, NoStackHolds
    <2>2. QED
      BY <1>2, <2>1 DEF StackHolds
  <1>5. ASSUME NEW m \in Slots, Is(m, "usage")'
        PROVE  Is(m, "usage") /\ calls'[m] = calls[m] /\ usageLoading
    <2>1. calls'[m] = calls[m]
      BY <1>5 DEF OnlySlot
    <2>2. Is(m, "usage")
      BY <1>5, <2>1 DEF Is
    <2>3. QED
      BY <1>1, <2>1, <2>2 DEF QueriesHold
  <1>6. ASSUME NEW m \in Slots, Is(m, "usage")' PROVE QueryHolds(calls[m].arg)'
    <2>1. QueryHolds(calls[m].arg) /\ calls'[m] = calls[m]
      BY <1>1, <1>5, <1>6 DEF QueriesHold
    <2>2. beforeStack' = beforeStack \/ (beforeStack' = <<>> /\ 1..Len(beforeStack') = {})
      OBVIOUS
    <2>3. QED
      BY <1>2, <2>1, <2>2 DEF QueryHolds
  <1>7. QueriesHold'
    <2>1. ASSUME NEW m \in Slots, Is(m, "usage")', calls'[m].stage = "answered", calls'[m].ok
          PROVE  CutHolds(calls[m].arg, calls[m].data)'
      <3>1. CutHolds(calls[m].arg, calls[m].data) /\ calls'[m] = calls[m]
        BY <1>1, <1>5, <2>1 DEF QueriesHold, Ok
      <3>2. QED
        BY <3>1 DEF CutHolds
    <2>2. ASSUME NEW m \in Slots, Is(m, "usage")', NEW o \in Slots \ {m} PROVE ~Is(o, "usage")'
      <3>1. Is(m, "usage")
        BY <1>5, <2>2
      <3>2. ~Is(o, "usage")
        BY <1>1, <3>1 DEF QueriesHold
      <3>3. QED
        BY <1>5, <3>2
    <2>3. QED
      BY <1>2, <1>5, <1>6, <2>1, <2>2 DEF QueriesHold, Ok
  <1>8. usageLoading' => InFlight("usage")'
    <2> SUFFICES ASSUME usageLoading PROVE InFlight("usage")'
      BY <1>2
    <2>1. PICK m \in Slots : Is(m, "usage")
      BY <1>1 DEF UsageFlagsFall, InFlight
    <2>2. Is(m, "usage")'
      BY <2>1 DEF Is, OnlySlot
    <2>3. QED
      BY <2>2 DEF InFlight
  <1>9. QED
    BY <1>3, <1>4, <1>7, <1>8 DEF UsageInv, UsageFlagsFall

(* A query is sent, with the cursors that are kept from then on.           *)
LEMMA QuerySent ==
    ASSUME UsageInv, page = "usage", page' = page, NEW n \in Slots, NEW query,
           RefreshUsage(n, query), ~usageLoading,
           UNCHANGED <<events, limit, listVars, detailLoadingID>>,
           filter' \in Filters, query.limit = limit,
           StackHolds(beforeStack'),
           query.before \in 0..MaxEvent,
           query.before = 0 => beforeStack' = <<>>,
           query.before # 0 => Reaches(walk.met, query.before),
           \A i \in 1..Len(beforeStack') : query.before <= beforeStack'[i]
    PROVE  UsageInv'
  <1>1. WalkState /\ QueriesHold /\ UsageFlagsFall /\ ShapedCalls
    BY DEF UsageInv
  <1>2. /\ usageLoading' = TRUE /\ nextBeforeID' = nextBeforeID /\ walk' = walk
        /\ events' = events /\ limit' = limit
    BY DEF listVars, RefreshUsage
  <1>3. /\ ShapedCalls' /\ OnlySlot(n) /\ calls'[n].op = "usage" /\ calls'[n].arg = query
        /\ calls'[n].stage = "sent"
    BY <1>1, SendIs DEF RefreshUsage
  <1>4. WalkState' /\ StackHolds(beforeStack)'
    BY <1>1, <1>2 DEF WalkState, StackHolds
  <1>5. QueryHolds(calls[n].arg)'
    BY <1>1, <1>2, <1>3 DEF QueryHolds, WalkState
  <1>6. \A m \in Slots \ {n} : ~Is(m, "usage")'
    BY <1>1, <1>3 DEF QueriesHold, Is, OnlySlot
  <1>7. QueriesHold'
    BY <1>2, <1>3, <1>5, <1>6 DEF QueriesHold
  <1>8. UsageFlagsFall'
    <2>1. InFlight("usage")'
      BY <1>3 DEF InFlight, Is
    <2>2. Is(n, "idle")
      BY DEF RefreshUsage, Free
    <2>3. detailLoadingID' # 0 => InFlightFor("detail", detailLoadingID)'
      BY <1>1, <1>3, <2>2 DEF UsageFlagsFall, InFlightFor, Is, OnlySlot
    <2>4. QED
      BY <2>1, <2>3 DEF UsageFlagsFall
  <1>9. QED
    BY <1>3, <1>4, <1>7, <1>8 DEF UsageInv

LEMMA UsageAnsweredKeeps ==
    ASSUME UsageInv, page = "usage", page' = page, NEW n \in Slots, UsageAnswered(n)
    PROVE  UsageInv'
  <1> DEFINE q == calls[n].arg
             cut == calls[n].data.cut
             had == calls[n].data.had
  <1>1. WalkState /\ StackHolds(beforeStack) /\ QueriesHold /\ UsageFlagsFall /\ ShapedCalls
    BY DEF UsageInv
  <1>2. /\ usageLoading' = FALSE
        /\ UNCHANGED <<events, limit, beforeStack, detailLoadingID>>
        /\ ShapedCalls' /\ OnlySlot(n) /\ calls'[n].op = "idle"
        /\ Is(n, "usage") /\ calls[n].stage = "answered"
    BY <1>1, FinishIs DEF UsageAnswered, detailVars, Resumes
  <1>3. QueriesHold'
    BY <1>1, <1>2 DEF QueriesHold, Is, OnlySlot
  <1>4. UsageFlagsFall'
    BY <1>1, <1>2 DEF UsageFlagsFall, InFlightFor, Is, OnlySlot
  <1>5. filter' \in Filters
    BY <1>1 DEF UsageAnswered, WalkState
  <1>6. MaxEvent \in Nat /\ \A i \in 1..Len(beforeStack) : beforeStack[i] \in AnyEvent
    BY <1>1, UsageAssumption DEF StackHolds
  <1>7. CASE ~Ok(n)
    <2>1. nextBeforeID' = 0 /\ walk' = walk
      BY <1>7 DEF UsageAnswered
    <2>2. \A i \in 1..Len(beforeStack) : 0 <= beforeStack[i]
      BY <1>6 DEF AnyEvent
    <2>3. StackHolds(beforeStack)'
      BY <1>1, <1>2, <2>1, <2>2 DEF StackHolds
    <2>4. WalkState'
      BY <1>1, <1>2, <1>5, <1>6, <2>1 DEF WalkState
    <2>5. QED
      BY <1>2, <1>3, <1>4, <2>3, <2>4 DEF UsageInv
  <1>8. CASE Ok(n)
    <2>1. nextBeforeID' = cut.next /\ walk' = Walked(walk, q.filter, q.before = 0, cut, had)
      BY <1>8 DEF UsageAnswered
    <2>2. /\ q.before \in 0..MaxEvent
          /\ q.before = 0 => beforeStack = <<>>
          /\ q.before # 0 => Reaches(walk.met, q.before)
          /\ \A i \in 1..Len(beforeStack) : q.before <= beforeStack[i]
      BY <1>1, <1>2 DEF QueriesHold, QueryHolds
    <2>3. /\ had \in SUBSET AnyEvent /\ cut.events \in SUBSET had /\ CutWhole(cut.events, had)
          /\ q.before # 0 => CutBelow(cut.events, had, q.before)
          /\ CursorIsOldest(cut.next, cut.events)
      BY <1>1, <1>2, <1>8 DEF QueriesHold, CutHolds
    <2>4. NoGap(walk) /\ walk.met \in SUBSET (1..MaxEvent) /\ had \in SUBSET (1..MaxEvent)
      BY <1>1, <2>3 DEF WalkState, AnyEvent
    <2> HIDE DEF q, cut, had
    <2>5. /\ NoGap(walk') /\ walk'.met \in SUBSET (1..MaxEvent)
          /\ cut.next # 0 => cut.next \in 1..MaxEvent /\ Reaches(walk'.met, cut.next)
          /\ q.before # 0 => \A c \in 1..MaxEvent : q.before <= c
                                => cut.next <= c /\ Reaches(walk'.met, c)
      <3>1. WalksOn(walk', walk, q.before, cut, had)
        BY <2>1, WalkedIs
      <3>2. q.before # 0 => CutBelow(cut.events, had, q.before) /\ Reaches(walk.met, q.before)
        BY <2>2, <2>3
      <3>3. QED
        BY <1>6, <2>2, <2>3, <2>4, <3>1, <3>2, WalkGoesOn
    <2>6. nextBeforeID' \in 0..MaxEvent
      BY <1>6, <2>1, <2>5
    <2>7. WalkState'
      BY <1>1, <1>2, <1>5, <2>1, <2>5, <2>6 DEF WalkState, AnyEvent
    <2>8. StackHolds(beforeStack)'
      <3>1. CASE q.before = 0
        <4>1. beforeStack' = <<>> /\ Len(beforeStack') = 0
          BY <1>2, <2>2, <3>1
        <4>2. beforeStack' \in Seq(AnyEvent) /\ 1..Len(beforeStack') = {}
          BY <4>1
        <4>3. QED
          BY <4>2 DEF StackHolds
      <3>2. CASE q.before # 0
        <4>1. \A i \in 1..Len(beforeStack) : /\ nextBeforeID' <= beforeStack[i]
                                             /\ Reaches(walk'.met, beforeStack[i])
          BY <1>6, <2>1, <2>2, <2>5, <3>2 DEF AnyEvent
        <4>2. QED
          BY <1>1, <1>2, <4>1 DEF StackHolds
      <3>3. QED
        BY <3>1, <3>2
    <2>9. QED
      BY <1>2, <1>3, <1>4, <2>7, <2>8 DEF UsageInv
  <1>9. QED
    BY <1>7, <1>8

(* What the server cuts is as an answer should be.                         *)
LEMMA ServedCutHolds ==
    ASSUME NEW q, q.before \in 0..MaxEvent, q.limit \in Limits,
           NEW had \in SUBSET AnyEvent, NEW answer,
           answer.cut = UserPageOf(had, q.before, q.limit), answer.had = had
    PROVE  CutHolds(q, answer)
  <1> DEFINE before == q.before
             size == q.limit
             cut == answer.cut
  <1>1. /\ MaxEvent \in Nat /\ had \in SUBSET (1..MaxEvent) /\ before \in Nat
        /\ size \in Nat \ {0} /\ cut = UserPageOf(had, before, size)
    <2>1. MaxEvent \in Nat /\ Limits \subseteq Nat \ {0}
      BY UsageAssumption
    <2>2. before \in Nat
      BY <2>1
    <2>3. QED
      BY <2>1, <2>2 DEF AnyEvent
  <1> HIDE DEF before, size, cut
  <1>2. /\ cut.events \subseteq had /\ CutWhole(cut.events, had)
        /\ before # 0 => CutBelow(cut.events, had, before)
        /\ CursorIsOldest(cut.next, cut.events)
    BY <1>1, UserPageIs
  <1>3. QED
    BY <1>1, <1>2 DEF CutHolds, AnyEvent, before, cut

LEMMA UsageServeKeeps ==
    ASSUME UsageInv, page = "usage", page' = page, NEW n \in Slots,
           UsageServe(n) \/ (CallFails(n) /\ UNCHANGED usageVars)
    PROVE  UsageInv'
  <1>1. WalkState /\ StackHolds(beforeStack) /\ QueriesHold /\ UsageFlagsFall /\ ShapedCalls
    BY DEF UsageInv
  <1>2. UNCHANGED usageVars
    BY DEF UsageServe
  <1>3. /\ ShapedCalls' /\ OnlySlot(n) /\ SameErrands /\ calls'[n].stage = "answered"
    BY <1>1, AnsweredIs, FailedIs DEF UsageServe
  <1>4. ASSUME Is(n, "usage"), calls'[n].ok PROVE CutHolds(calls[n].arg, calls[n].data)'
    <2> DEFINE q == calls[n].arg
               had == events \cap q.filter
               answer == [cut |-> UserPageOf(had, q.before, q.limit), had |-> had]
    <2>1. ~CallFails(n)
      BY <1>1, <1>4, FailedIs
    <2>2. Answer(n, answer)
      BY <1>4, <2>1 DEF UsageServe, Waits, Is
    <2>3. calls'[n].data = answer /\ calls'[n].arg = q
      BY <1>1, <1>3, <2>2, AnsweredIs DEF SameErrands
    <2>4. q.before \in 0..MaxEvent /\ q.limit \in Limits /\ had \in SUBSET AnyEvent
      BY <1>1, <1>4 DEF QueriesHold, QueryHolds, WalkState
    <2>5. answer.cut = UserPageOf(had, q.before, q.limit) /\ answer.had = had
      OBVIOUS
    <2> HIDE DEF q, had, answer
    <2>6. CutHolds(q, answer)
      BY <2>4, <2>5, ServedCutHolds
    <2>7. QED
      BY <2>3, <2>6 DEF CutHolds
  <1>5. ASSUME NEW m \in Slots, Is(m, "usage")' PROVE Is(m, "usage") /\ calls'[m].arg = calls[m].arg
    BY <1>3, <1>5 DEF Is, SameErrands
  <1>6. WalkState' /\ StackHolds(beforeStack)'
    BY <1>1, <1>2 DEF WalkState, StackHolds, usageVars, pickVars, listVars
  <1>7. ASSUME NEW m \in Slots, Is(m, "usage")' PROVE QueryHolds(calls[m].arg)'
    <2>1. QueryHolds(calls[m].arg) /\ calls'[m].arg = calls[m].arg
      BY <1>1, <1>5, <1>7 DEF QueriesHold
    <2>2. QED
      BY <1>2, <2>1 DEF QueryHolds, usageVars, listVars
  <1>8. ASSUME NEW m \in Slots, Is(m, "usage")', calls'[m].stage = "answered", calls'[m].ok
        PROVE  CutHolds(calls[m].arg, calls[m].data)'
    <2>1. CASE m = n
      BY <1>4, <1>5, <1>8, <2>1
    <2>2. CASE m # n
      <3>1. calls'[m] = calls[m]
        BY <1>3, <2>2 DEF OnlySlot
      <3>2. CutHolds(calls[m].arg, calls[m].data)
        BY <1>1, <1>5, <1>8, <3>1 DEF QueriesHold, Ok
      <3>3. QED
        BY <3>1, <3>2 DEF CutHolds
    <2>3. QED
      BY <2>1, <2>2
  <1>9. QueriesHold'
    <2>1. usageLoading' = usageLoading
      BY <1>2 DEF usageVars
    <2>2. ASSUME NEW m \in Slots, Is(m, "usage")', NEW o \in Slots \ {m} PROVE ~Is(o, "usage")'
      BY <1>1, <1>5, <2>2 DEF QueriesHold
    <2>3. ASSUME NEW m \in Slots, Is(m, "usage")' PROVE usageLoading'
      BY <1>1, <1>5, <2>1, <2>3 DEF QueriesHold
    <2>4. QED
      BY <1>7, <1>8, <2>2, <2>3 DEF QueriesHold, Ok
  <1>10. UsageFlagsFall'
    BY <1>1, <1>2, <1>3 DEF UsageFlagsFall, InFlight, InFlightFor, Is, SameErrands, usageVars,
       detailVars
  <1>11. QED
    BY <1>3, <1>6, <1>9, <1>10 DEF UsageInv

LEMMA UsageClickKeeps == UsageInv /\ UsageClick /\ page = "usage" /\ page' = page => UsageInv'
  <1> SUFFICES ASSUME UsageInv, UsageClick, page = "usage", page' = page PROVE UsageInv'
    OBVIOUS
  <1>1. WalkState /\ StackHolds(beforeStack) /\ QueriesHold /\ UsageFlagsFall /\ ShapedCalls
    BY DEF UsageInv
  <1>2. MaxEvent \in Nat /\ 0 \in 0..MaxEvent /\ filter \in Filters /\ limit \in Limits
    BY <1>1, UsageAssumption DEF WalkState
  <1>3. CASE PickUsageRange \/ PickLimit \/ PickFilter \/ RequestEnds \/ RowsDeleted
    <2>1. /\ calls' = calls /\ UNCHANGED <<usageLoading, listVars, detailLoadingID>>
          /\ beforeStack' \in {beforeStack, <<>>}
          /\ limit' \in Limits /\ filter' \in Filters /\ events' \subseteq AnyEvent
      BY <1>1, <1>3 DEF PickUsageRange, PickLimit, PickFilter, Picks, RequestEnds, RowsDeleted, WalkState,
         detailVars, pickVars
    <2>2. 1 \in Slots
      BY BrowserAssumption DEF Slots
    <2>3. OnlySlot(1) /\ ShapedCalls' /\ calls'[1] = calls[1]
      BY <1>1, <2>1 DEF OnlySlot, ShapedCalls
    <2>4. detailLoadingID' # 0 => InFlightFor("detail", detailLoadingID)'
      BY <1>1, <2>1 DEF UsageFlagsFall, InFlightFor, Is
    <2>5. QED
      BY <2>1, <2>2, <2>3, <2>4, UsageQuiets
  <1>4. ASSUME NEW n \in Slots, NEW query, RefreshUsage(n, query), query.before = 0, query.limit = limit,
               ~usageLoading, beforeStack' = <<>>, filter' \in Filters,
               UNCHANGED <<events, limit, listVars, detailLoadingID>>
        PROVE  UsageInv'
    <2>1. StackHolds(beforeStack') /\ 1..Len(beforeStack') = {}
      BY <1>4, NoStackHolds
    <2>2. QED
      BY <1>2, <1>4, <2>1, QuerySent
  <1>5. ASSUME NEW n \in Slots, UpdateClick(n) PROVE UsageInv'
    <2> DEFINE query == UsageQuery(0)
    <2>1. query.before = 0 /\ query.limit = limit
      BY DEF UsageQuery
    <2>2. /\ RefreshUsage(n, query) /\ ~usageLoading /\ beforeStack' = <<>> /\ filter' = filter
          /\ UNCHANGED <<events, limit, listVars, detailLoadingID>>
      BY <1>5 DEF UpdateClick, pickVars, detailVars
    <2> HIDE DEF query
    <2>3. QED
      BY <1>2, <1>4, <2>1, <2>2
  <1>6. ASSUME NEW n \in Slots, ResetUsageClick(n) PROVE UsageInv'
    <2> DEFINE query == [before |-> 0, limit |-> limit, filter |-> AnyEvent, start |-> TRUE, end |-> TRUE]
    <2>1. query.before = 0 /\ query.limit = limit
      OBVIOUS
    <2>2. /\ RefreshUsage(n, query) /\ ~usageLoading /\ beforeStack' = <<>> /\ filter' = AnyEvent
          /\ UNCHANGED <<events, limit, listVars, detailLoadingID>>
      BY <1>6 DEF ResetUsageClick, detailVars
    <2>3. AnyEvent \in Filters
      BY UsageAssumption DEF AnyEvent
    <2> HIDE DEF query
    <2>4. QED
      BY <1>4, <2>1, <2>2, <2>3
  <1>7. ASSUME NEW n \in Slots, OnPrevPage(n) PROVE UsageInv'
    <2> DEFINE before == IF beforeStack' = <<>> THEN 0 ELSE beforeStack'[Len(beforeStack')]
               query == UsageQuery(before)
    <2>1. query.before = before /\ query.limit = limit
      BY DEF UsageQuery
    <2>2. /\ RefreshUsage(n, query) /\ ~usageLoading /\ beforeStack # <<>>
          /\ beforeStack' = SubSeq(beforeStack, 1, Len(beforeStack) - 1) /\ filter' = filter
          /\ UNCHANGED <<events, limit, listVars, detailLoadingID>>
      BY <1>7 DEF OnPrevPage, CardShown, CanPrev, pickVars, detailVars
    <2>3. beforeStack \in Seq(AnyEvent)
      BY <1>1 DEF StackHolds
    <2>4. /\ beforeStack' \in Seq(AnyEvent) /\ Len(beforeStack') = Len(beforeStack) - 1
          /\ \A i \in 1..Len(beforeStack') : i \in 1..Len(beforeStack) /\ beforeStack'[i] = beforeStack[i]
      <3> DEFINE top == Len(beforeStack) - 1
      <3>1. Len(beforeStack) \in Nat \ {0}
        BY <2>2, <2>3
      <3>2. top \in 0..Len(beforeStack)
        BY <3>1
      <3>3. beforeStack' = SubSeq(beforeStack, 1, top)
        BY <2>2
      <3>4. beforeStack' = [i \in 1..top |-> beforeStack[i]]
        BY <2>3, <3>1, <3>2, <3>3
      <3>5. \A i \in 1..top : i \in 1..Len(beforeStack) /\ beforeStack[i] \in AnyEvent
        BY <2>3, <3>1
      <3>6. beforeStack' \in Seq(AnyEvent) /\ Len(beforeStack') = top
        BY <3>2, <3>4, <3>5
      <3>7. QED
        BY <3>4, <3>5, <3>6
    <2>5. StackHolds(beforeStack')
      BY <1>1, <2>4 DEF StackHolds
    <2>6. ASSUME beforeStack' # <<>>
          PROVE  /\ before \in AnyEvent /\ Reaches(walk.met, before)
                 /\ \A i \in 1..Len(beforeStack') : before <= beforeStack'[i]
      <3>1. /\ before = beforeStack'[Len(beforeStack')]
            /\ Len(beforeStack') \in 1..Len(beforeStack')
            /\ \A i \in 1..Len(beforeStack') : i <= Len(beforeStack')
        BY <2>4, <2>6
      <3> HIDE DEF before
      <3>2. QED
        BY <2>5, <3>1 DEF StackHolds
    <2>7. ASSUME beforeStack' = <<>> PROVE before = 0
      BY <2>7
    <2> HIDE DEF before, query
    <2>8. before \in 0..MaxEvent
      BY <1>2, <2>6, <2>7 DEF AnyEvent
    <2>9. before = 0 => beforeStack' = <<>>
      BY <1>2, <2>6 DEF AnyEvent
    <2>10. before # 0 => Reaches(walk.met, before)
      BY <2>6, <2>7
    <2>11. \A i \in 1..Len(beforeStack') : before <= beforeStack'[i]
      <3>1. CASE beforeStack' = <<>>
        <4>1. Len(beforeStack') = 0
          BY <3>1
        <4>2. QED
          BY <4>1
      <3>2. CASE beforeStack' # <<>>
        BY <2>6, <3>2
      <3>3. QED
        BY <3>1, <3>2
    <2>12. QED
      BY <1>2, <2>1, <2>2, <2>5, <2>8, <2>9, <2>10, <2>11, QuerySent
  <1>8. ASSUME NEW n \in Slots, OnNextPage(n) PROVE UsageInv'
    <2> DEFINE query == UsageQuery(nextBeforeID)
    <2>1. query.before = nextBeforeID /\ query.limit = limit
      BY DEF UsageQuery
    <2>2. /\ RefreshUsage(n, query) /\ ~usageLoading /\ nextBeforeID # 0
          /\ beforeStack' = Append(beforeStack, nextBeforeID) /\ filter' = filter
          /\ UNCHANGED <<events, limit, listVars, detailLoadingID>>
      BY <1>8 DEF OnNextPage, CardShown, CanNext, pickVars, detailVars
    <2>3. /\ nextBeforeID \in 0..MaxEvent /\ nextBeforeID \in AnyEvent /\ Reaches(walk.met, nextBeforeID)
          /\ beforeStack \in Seq(AnyEvent)
      BY <1>1, <2>2 DEF WalkState, StackHolds, AnyEvent
    <2>4. /\ beforeStack' \in Seq(AnyEvent) /\ Len(beforeStack') = Len(beforeStack) + 1
          /\ \A i \in 1..Len(beforeStack) : beforeStack'[i] = beforeStack[i]
          /\ beforeStack'[Len(beforeStack) + 1] = nextBeforeID
      BY <2>2, <2>3
    <2>5. Len(beforeStack) \in Nat
      BY <2>3
    <2>6. \A i \in 1..Len(beforeStack') : i \in 1..Len(beforeStack) \/ i = Len(beforeStack) + 1
      BY <2>4, <2>5
    <2>7. nextBeforeID <= nextBeforeID
      BY <2>3
    <2>8. \A i \in 1..Len(beforeStack') : /\ Reaches(walk.met, beforeStack'[i])
                                          /\ nextBeforeID <= beforeStack'[i]
      BY <1>1, <2>3, <2>4, <2>6, <2>7 DEF StackHolds
    <2>9. ASSUME NEW i \in 1..Len(beforeStack'), NEW j \in 1..Len(beforeStack'), i <= j
          PROVE  beforeStack'[j] <= beforeStack'[i]
      <3>1. CASE j = Len(beforeStack) + 1
        BY <2>4, <2>8, <2>9, <3>1
      <3>2. CASE j # Len(beforeStack) + 1
        <4>1. j \in 1..Len(beforeStack) /\ i \in 1..Len(beforeStack)
          BY <2>4, <2>5, <2>9, <3>2
        <4>2. QED
          BY <1>1, <2>4, <2>9, <4>1 DEF StackHolds
      <3>3. QED
        BY <3>1, <3>2
    <2>10. StackHolds(beforeStack')
      BY <2>4, <2>8, <2>9 DEF StackHolds
    <2> HIDE DEF query
    <2>11. QED
      BY <1>2, <2>1, <2>2, <2>3, <2>8, <2>10, QuerySent
  <1>9. ASSUME NEW n \in Slots, NEW e \in AnyEvent, ToggleEvent(n, e) PROVE UsageInv'
    <2>1. /\ UNCHANGED <<usageLoading, listVars>> /\ beforeStack' = beforeStack
          /\ limit' \in Limits /\ filter' \in Filters /\ events' \subseteq AnyEvent
      BY <1>1, <1>9 DEF ToggleEvent, pickVars, WalkState
    <2>2. CASE UNCHANGED <<calls, detailLoadingID>>
      <3>1. OnlySlot(n) /\ ShapedCalls' /\ calls'[n] = calls[n]
        BY <1>1, <2>2 DEF OnlySlot, ShapedCalls
      <3>2. detailLoadingID' # 0 => InFlightFor("detail", detailLoadingID)'
        BY <1>1, <2>2 DEF UsageFlagsFall, InFlightFor, Is
      <3>3. QED
        BY <2>1, <3>1, <3>2, UsageQuiets
    <2>3. CASE detailLoadingID' = e /\ Free(n) /\ Send(n, "detail", e)
      <3>1. /\ ShapedCalls' /\ OnlySlot(n) /\ calls'[n].op = "detail" /\ calls'[n].arg = e
        BY <1>1, <2>3, SendIs
      <3>2. ~Is(n, "usage") /\ ~Is(n, "usage")'
        BY <2>3, <3>1 DEF Free, Is
      <3>3. InFlightFor("detail", detailLoadingID)'
        BY <2>3, <3>1 DEF InFlightFor, Is
      <3>4. QED
        BY <2>1, <3>1, <3>2, <3>3, UsageQuiets
    <2>4. QED
      BY <1>9, <2>2, <2>3 DEF ToggleEvent
  <1>10. QED
    BY <1>3, <1>5, <1>6, <1>7, <1>8, <1>9 DEF UsageClick

LEMMA UsageNextKeeps == UsageInv /\ UsageNext => UsageInv'
  <1> SUFFICES ASSUME UsageInv, UsageNext PROVE UsageInv'
    OBVIOUS
  <1>1. page = "usage" /\ page' = page
    BY DEF UsageNext
  <1>2. ASSUME NEW n \in Slots, DetailAnswered(n) \/ TokenMapAnswered(n) PROVE UsageInv'
    <2>1. WalkState /\ UsageFlagsFall /\ ShapedCalls
      BY <1>1 DEF UsageInv
    <2>2. ShapedCalls' /\ OnlySlot(n) /\ calls'[n].op = "idle"
      BY <1>2, <2>1, FinishIs DEF DetailAnswered, TokenMapAnswered
    <2>3. ~Is(n, "usage") /\ ~Is(n, "usage")'
      BY <1>2, <2>2 DEF DetailAnswered, TokenMapAnswered, Resumes, Is
    <2>4. /\ UNCHANGED <<usageLoading, listVars>> /\ beforeStack' = beforeStack
          /\ limit' \in Limits /\ filter' \in Filters /\ events' \subseteq AnyEvent
      BY <1>2, <2>1 DEF DetailAnswered, TokenMapAnswered, pickVars, WalkState
    <2>5. detailLoadingID' # 0 => InFlightFor("detail", detailLoadingID)'
      <3>1. CASE DetailAnswered(n)
        BY <3>1 DEF DetailAnswered
      <3>2. CASE TokenMapAnswered(n)
        BY <1>1, <2>1, <2>2, <3>2 DEF TokenMapAnswered, detailVars, Resumes, UsageFlagsFall,
           InFlightFor, Is, OnlySlot
      <3>3. QED
        BY <1>2, <3>1, <3>2
    <2>6. QED
      BY <1>1, <2>2, <2>3, <2>4, <2>5, UsageQuiets
  <1>3. QED
    BY <1>1, <1>2, UsageClickKeeps, UsageServeKeeps, UsageAnsweredKeeps DEF UsageNext, UsageStep
-----------------------------------------------------------------------------
(* Signing in and out.  Who is taken for signed in has a session, unless   *)
(* it parted, or a call is under way that will tell the console otherwise. *)

AuthCalls == {"self", "login", "register", "logout"}

(* An answer about the user that is on its way is true, or the browser     *)
(* cannot know better.                                                     *)
WelcomeHolds(n) ==
    calls[n].stage = "answered" /\ calls[n].ok =>
        /\ calls[n].op = "self" /\ calls[n].data # "none" => session \/ parted
        /\ calls[n].op \in {"login", "register"} /\ calls[n].data # "refused" => session \/ parted

(* The end of the session that n is about to tell.                         *)
TellsOfEnd(n) ==
    \/ calls[n].op = "logout" /\ calls[n].arg = "forced" /\ calls[n].stage = "sent"
    \/ calls[n].op = "logout" /\ calls[n].stage = "answered" /\ calls[n].ok
    \/ /\ calls[n].op = "password" /\ calls[n].stage = "answered" /\ calls[n].ok
       /\ calls[n].data # "refused"

(* The form of the account is saving as long as its own call waits.        *)
FormWaits ==
    formSaves # 0 => /\ formSaves \in Slots
                     /\ \/ calls[formSaves].op \in {"password", "email"}
                        \/ calls[formSaves].op \in {"logout", "self"} /\ calls[formSaves].arg = "forced"

(* The guard of the routes has run after each change of the user.          *)
RouteHolds == ~booting => /\ user = "none" => route = "login"
                          /\ route = "admin" => user = "root"

(* What the session is loading for is a call under way.                    *)
AuthWaits == /\ booting => InFlightFor("self", "boot")
             /\ authLoading => \E op \in AuthCalls : InFlight(op)

(* A user is shown only with a session, unless the browser cannot know     *)
(* that it ended or a handler that waits is about to tell.                 *)
SessionInv ==
    page = "session" =>
        /\ ShapedCalls
        /\ session \in BOOLEAN /\ parted \in BOOLEAN /\ booting \in BOOLEAN /\ authLoading \in BOOLEAN
        /\ \A n \in Slots : WelcomeHolds(n)
        /\ user # "none" => session \/ parted \/ \E n \in Slots : TellsOfEnd(n)
        /\ FormWaits
        /\ RouteHolds
        /\ AuthWaits

LEMMA SessionInvIsEnough == SessionInv => SignedInHasSession /\ SessionFlagsFall
  BY DEF SessionInv, TellsOfEnd, FormWaits, RouteHolds, AuthWaits, AuthCalls,
     SignedInHasSession,
         SessionFlagsFall, Quiet, InFlightFor, Is

(* Where Goes ends up.                                                     *)
LEMMA GoesHolds ==
    ASSUME NEW r, NEW u, Goes(r, u), booting' \in BOOLEAN
    PROVE  /\ RouteHolds' /\ user' = u
           /\ formSaves' \in {0, formSaves}
           /\ r = "login" => formSaves' = 0
  BY DEF Goes, RouteFor, RouteHolds

(* A handler goes on in n: what it sends, if anything, is one of these.    *)
LEMMA SessionGoesOn ==
    ASSUME SessionInv, page = "session", page' = page, NEW n \in Slots,
           ShapedCalls', OnlySlot(n),
           session' = session, parted' \in BOOLEAN, parted => parted',
           booting' \in BOOLEAN, authLoading' \in BOOLEAN,
           WelcomeHolds(n)',
           user' # "none" => \/ session' \/ parted' \/ TellsOfEnd(n)'
                             \/ \E m \in Slots \ {n} : TellsOfEnd(m)
           ,
           FormWaits', RouteHolds',
           booting' => booting /\ ~(calls[n].op = "self" /\ calls[n].arg = "boot"),
           authLoading' => (authLoading /\ calls[n].op \notin AuthCalls) \/ calls'[n].op \in AuthCalls
    PROVE  SessionInv'
  <1>1. \A m \in Slots : WelcomeHolds(m)'
    BY DEF SessionInv, WelcomeHolds, OnlySlot
  <1>2. user' # "none" => session' \/ parted' \/ \E m \in Slots : TellsOfEnd(m)'
    BY DEF TellsOfEnd, OnlySlot
  <1>3. booting' => InFlightFor("self", "boot")'
    BY DEF SessionInv, AuthWaits, InFlightFor, Is, OnlySlot
  <1>4. authLoading' => \E op \in AuthCalls : InFlight(op)'
    BY DEF SessionInv, AuthWaits, InFlight, Is, OnlySlot
  <1>5. AuthWaits'
    BY <1>3, <1>4 DEF AuthWaits
  <1>6. QED
    BY <1>1, <1>2, <1>5 DEF SessionInv

LEMMA SessionAnswersKeep ==
    ASSUME SessionInv, page = "session", page' = page, NEW n \in Slots,
           SelfAnswered(n) \/ SignInAnswered(n) \/ LogoutAnswered(n) \/ AccountAnswered(n)
    PROVE  SessionInv'
  <1>0. /\ ShapedCalls /\ session \in BOOLEAN /\ parted \in BOOLEAN
        /\ booting \in BOOLEAN /\ authLoading \in BOOLEAN
        /\ \A m \in Slots : WelcomeHolds(m)
        /\ user # "none" => session \/ parted \/ \E m \in Slots : TellsOfEnd(m)
        /\ FormWaits /\ RouteHolds /\ AuthWaits
    BY DEF SessionInv
  <1>1. CASE SelfAnswered(n)
    <2> DEFINE u == IF Ok(n) THEN calls[n].data ELSE user
               welcome == Ok(n) /\ u # "none"
               r == CASE calls[n].arg = "login" /\ welcome -> from
                      [] calls[n].arg = "register" /\ welcome -> "app"
                      [] calls[n].arg = "forced" -> "login"
                      [] OTHER -> route
    <2>1. /\ ShapedCalls' /\ OnlySlot(n) /\ calls'[n].op = "idle"
          /\ calls'[n].stage = "idle"
      BY <1>0, <1>1, FinishIs DEF SelfAnswered
    <2>2. /\ calls[n].op = "self" /\ calls[n].stage = "answered"
          /\ authLoading' = FALSE /\ booting' = (booting /\ calls[n].arg # "boot")
          /\ session' = session /\ parted' = parted
          /\ Goes(r, u)
      BY <1>1 DEF SelfAnswered, Resumes, Is
    <2>3. /\ RouteHolds' /\ user' = u /\ formSaves' \in {0, formSaves}
          /\ r = "login" => formSaves' = 0
      BY <2>2, GoesHolds
    <2>4. FormWaits'
      <3>1. calls[n].arg = "forced" => r = "login"
        OBVIOUS
      <3>2. formSaves' # 0 => formSaves # n
        BY <1>0, <2>2, <2>3, <3>1 DEF FormWaits
      <3>3. QED
        BY <1>0, <2>1, <2>3, <3>2 DEF FormWaits, OnlySlot
    <2>5. user' # "none" => session' \/ parted' \/ \E m \in Slots \ {n} : TellsOfEnd(m)
      <3>1. CASE Ok(n)
        BY <1>0, <2>2, <2>3, <3>1 DEF WelcomeHolds, Ok
      <3>2. CASE ~Ok(n)
        BY <1>0, <2>2, <2>3, <3>2 DEF TellsOfEnd
      <3>3. QED
        BY <3>1, <3>2
    <2>6. WelcomeHolds(n)'
      BY <2>1 DEF WelcomeHolds
    <2> HIDE DEF u, welcome, r
    <2>7. QED
      BY <1>0, <2>1, <2>2, <2>3, <2>4, <2>5, <2>6, SessionGoesOn
  <1>2. CASE SignInAnswered(n)
    <2>0. session' = session /\ parted' = parted /\ booting' = booting
      BY <1>2 DEF SignInAnswered
    <2>1. PICK how \in {"login", "register"} :
            /\ Resumes(n, how)
            /\ IF Ok(n) /\ calls[n].data # "refused"
               THEN RefreshSelf(n, how) /\ Goes(route, calls[n].data)
               ELSE /\ authLoading' = FALSE /\ Finish(n)
                    /\ UNCHANGED <<user, route, from, formSaves>>
      BY <1>2 DEF SignInAnswered
    <2>2. calls[n].op = how /\ calls[n].stage = "answered"
      BY <2>1 DEF Resumes, Is
    <2>3. formSaves # n
      BY <1>0, <2>2 DEF FormWaits, Slots
    <2>4. CASE Ok(n) /\ calls[n].data # "refused"
      <3>1. Send(n, "self", how) /\ authLoading' = TRUE /\ Goes(route, calls[n].data)
        BY <2>1, <2>4 DEF RefreshSelf
      <3>2. /\ ShapedCalls' /\ OnlySlot(n) /\ calls'[n].op = "self" /\ calls'[n].stage = "sent"
        BY <1>0, <3>1, SendIs
      <3>3. RouteHolds' /\ formSaves' \in {0, formSaves}
        BY <1>0, <2>0, <3>1, GoesHolds
      <3>4. session \/ parted
        BY <1>0, <2>2, <2>4 DEF WelcomeHolds, Ok
      <3>5. FormWaits'
        BY <1>0, <2>3, <3>2, <3>3 DEF FormWaits, OnlySlot
      <3>6. WelcomeHolds(n)'
        BY <3>2 DEF WelcomeHolds
      <3>7. QED
        BY <1>0, <2>0, <2>2, <3>1, <3>2, <3>3, <3>4, <3>5, <3>6, SessionGoesOn DEF AuthCalls
    <2>5. CASE ~(Ok(n) /\ calls[n].data # "refused")
      <3>1. authLoading' = FALSE /\ Finish(n) /\ UNCHANGED <<user, route, from, formSaves>>
        BY <2>1, <2>5
      <3>2. /\ ShapedCalls' /\ OnlySlot(n) /\ calls'[n].op = "idle" /\ calls'[n].stage = "idle"
        BY <1>0, <3>1, FinishIs
      <3>3. RouteHolds' /\ FormWaits' /\ WelcomeHolds(n)'
        BY <1>0, <2>0, <2>3, <3>1, <3>2 DEF RouteHolds, FormWaits, WelcomeHolds, OnlySlot
      <3>4. ~TellsOfEnd(n)
        BY <2>2 DEF TellsOfEnd
      <3>5. QED
        BY <1>0, <2>0, <2>2, <3>1, <3>2, <3>3, <3>4, SessionGoesOn
    <2>6. QED
      BY <2>4, <2>5
  <1>3. CASE LogoutAnswered(n)
    <2>1. /\ calls[n].op = "logout" /\ calls[n].stage = "answered"
          /\ session' = session /\ parted' = parted /\ booting' = booting
          /\ Goes(route, IF Ok(n) THEN "none" ELSE user)
      BY <1>3 DEF LogoutAnswered, Resumes, Is
    <2>2. /\ RouteHolds' /\ user' = IF Ok(n) THEN "none" ELSE user
          /\ formSaves' \in {0, formSaves}
      BY <1>0, <2>1, GoesHolds
    <2>3. user' # "none" => session' \/ parted' \/ \E m \in Slots \ {n} : TellsOfEnd(m)
      BY <1>0, <2>1, <2>2 DEF TellsOfEnd, Ok
    <2>4. CASE calls[n].arg = "plain"
      <3>1. authLoading' = FALSE /\ Finish(n)
        BY <1>3, <2>4 DEF LogoutAnswered
      <3>2. ShapedCalls' /\ OnlySlot(n) /\ calls'[n].op = "idle" /\ calls'[n].stage = "idle"
        BY <1>0, <3>1, FinishIs
      <3>3. formSaves # n
        BY <1>0, <2>1, <2>4 DEF FormWaits, Slots
      <3>4. FormWaits' /\ WelcomeHolds(n)'
        BY <1>0, <2>2, <3>2, <3>3 DEF FormWaits, WelcomeHolds, OnlySlot
      <3>5. QED
        BY <1>0, <2>1, <2>2, <2>3, <3>1, <3>2, <3>4, SessionGoesOn
    <2>5. CASE calls[n].arg # "plain"
      <3>1. Send(n, "self", "forced") /\ authLoading' = TRUE
        BY <1>3, <2>5 DEF LogoutAnswered, RefreshSelf
      <3>2. /\ ShapedCalls' /\ OnlySlot(n) /\ calls'[n].op = "self"
            /\ calls'[n].arg = "forced" /\ calls'[n].stage = "sent"
        BY <1>0, <3>1, SendIs
      <3>3. FormWaits' /\ WelcomeHolds(n)'
        BY <1>0, <2>2, <3>2 DEF FormWaits, WelcomeHolds, OnlySlot
      <3>4. QED
        BY <1>0, <2>1, <2>2, <2>3, <3>1, <3>2, <3>3, SessionGoesOn DEF AuthCalls
    <2>6. QED
      BY <2>4, <2>5
  <1>4. CASE AccountAnswered(n)
    <2>1. /\ calls[n].op \in {"password", "email"} /\ calls[n].stage = "answered"
          /\ session' = session /\ parted' = parted /\ booting' = booting
          /\ user' = user /\ route' = route
      BY <1>4 DEF AccountAnswered, Resumes, Is
    <2>2. RouteHolds'
      BY <1>0, <2>1 DEF RouteHolds
    <2>3. CASE Ok(n) /\ calls[n].data # "refused"
      <3>1. authLoading' = TRUE /\ Send(n, "logout", "forced") /\ formSaves' = formSaves
        BY <1>4, <2>3 DEF AccountAnswered
      <3>2. /\ ShapedCalls' /\ OnlySlot(n) /\ calls'[n].op = "logout"
            /\ calls'[n].arg = "forced" /\ calls'[n].stage = "sent"
        BY <1>0, <3>1, SendIs
      <3>3. FormWaits' /\ WelcomeHolds(n)' /\ TellsOfEnd(n)'
        BY <1>0, <3>1, <3>2 DEF FormWaits, WelcomeHolds, TellsOfEnd, OnlySlot
      <3>4. QED
        BY <1>0, <2>1, <2>2, <3>1, <3>2, <3>3, SessionGoesOn DEF AuthCalls
    <2>4. CASE ~(Ok(n) /\ calls[n].data # "refused")
      <3>1. /\ authLoading' = authLoading /\ Finish(n)
            /\ formSaves' = IF formSaves = n THEN 0 ELSE formSaves
        BY <1>4, <2>4 DEF AccountAnswered
      <3>2. ShapedCalls' /\ OnlySlot(n) /\ calls'[n].op = "idle" /\ calls'[n].stage = "idle"
        BY <1>0, <3>1, FinishIs
      <3>3. FormWaits' /\ WelcomeHolds(n)'
        BY <1>0, <3>1, <3>2 DEF FormWaits, WelcomeHolds, OnlySlot
      <3>4. ~TellsOfEnd(n)
        BY <2>1, <2>4 DEF TellsOfEnd, Ok
      <3>5. QED
        BY <1>0, <2>1, <2>2, <3>1, <3>2, <3>3, <3>4, SessionGoesOn DEF AuthCalls
    <2>5. QED
      BY <2>3, <2>4
  <1>5. QED
    BY <1>1, <1>2, <1>3, <1>4

LEMMA SessionServeKeeps ==
    ASSUME SessionInv, page = "session", page' = page, NEW n \in Slots,
           SessionServe(n) \/ SessionCallFails(n)
    PROVE  SessionInv'
  <1>0. /\ ShapedCalls /\ session \in BOOLEAN /\ parted \in BOOLEAN
        /\ booting \in BOOLEAN /\ authLoading \in BOOLEAN
        /\ \A m \in Slots : WelcomeHolds(m)
        /\ user # "none" => session \/ parted \/ \E m \in Slots : TellsOfEnd(m)
        /\ FormWaits /\ RouteHolds /\ AuthWaits
    BY DEF SessionInv
  <1>1. UNCHANGED <<role, user, booting, authLoading, route, from, formSaves>>
    BY DEF SessionServe, SessionCallFails
  <1>2. /\ ShapedCalls' /\ OnlySlot(n) /\ SameErrands /\ calls'[n].stage = "answered"
        /\ SessionCallFails(n) => ~calls'[n].ok
    <2>1. CASE SessionServe(n)
      <3>1. PICK d : Answer(n, d)
        BY <2>1 DEF SessionServe
      <3>3. CASE SessionCallFails(n)
        BY <1>0, <3>3, FailedIs DEF SessionCallFails
      <3>4. QED
        BY <1>0, <3>1, <3>3, AnsweredIs
    <2>2. CASE SessionCallFails(n)
      BY <1>0, <2>2, FailedIs DEF SessionCallFails
    <2>3. QED
      BY <2>1, <2>2
  <1>3. FormWaits' /\ RouteHolds' /\ AuthWaits'
    BY <1>0, <1>1, <1>2 DEF FormWaits, RouteHolds, AuthWaits, SameErrands, InFlight,
       InFlightFor, Is
  <1>4. /\ session' \in BOOLEAN /\ parted' \in BOOLEAN
        /\ \A m \in Slots : WelcomeHolds(m)'
        /\ user # "none" => session' \/ parted' \/ \E m \in Slots : TellsOfEnd(m)'
    <2>1. CASE SessionCallFails(n)
      <3>1. /\ session' = session
            /\ parted' = (parted \/ calls[n].arg = "forced" \/
                            (Ok(n) /\ (Is(n, "logout") \/ Is(n, "password"))))
        BY <2>1 DEF SessionCallFails
      <3>2. TellsOfEnd(n) => parted'
        BY <3>1 DEF TellsOfEnd, Ok, Is
      <3>3. \A m \in Slots : WelcomeHolds(m)'
        BY <1>0, <1>2, <2>1, <3>1 DEF WelcomeHolds, OnlySlot
      <3>4. \A m \in Slots \ {n} : TellsOfEnd(m) => TellsOfEnd(m)'
        BY <1>2 DEF TellsOfEnd, OnlySlot
      <3>5. QED
        BY <1>0, <3>1, <3>2, <3>3, <3>4
    <2>2. CASE SessionServe(n)
      <3>1. \A m \in Slots \ {n} : TellsOfEnd(m) => TellsOfEnd(m)'
        BY <1>2 DEF TellsOfEnd, OnlySlot
      <3>2. CASE /\ Waits(n, "self") /\ Answer(n, IF session THEN role ELSE "none")
                 /\ UNCHANGED <<session, parted>>
        <4>1. calls'[n].data = IF session THEN role ELSE "none"
          BY <1>0, <3>2, AnsweredIs
        <4>2. calls[n].op = "self" /\ calls'[n].op = "self"
          BY <1>2, <3>2 DEF Waits, Is, SameErrands
        <4>3. \A m \in Slots : WelcomeHolds(m)'
          BY <1>0, <1>2, <3>2, <4>1, <4>2 DEF WelcomeHolds, OnlySlot
        <4>4. ~TellsOfEnd(n)
          BY <4>2 DEF TellsOfEnd
        <4>5. QED
          BY <1>0, <3>1, <3>2, <4>3, <4>4
      <3>3. CASE (Waits(n, "login") \/ Waits(n, "register")) /\ session' = TRUE /\ UNCHANGED parted
        <4>1. \A m \in Slots : WelcomeHolds(m)'
          BY <3>3 DEF WelcomeHolds
        <4>2. QED
          BY <1>0, <3>3, <4>1
      <3>4. CASE /\ \/ Waits(n, "login") \/ Waits(n, "register")
                    \/ Waits(n, "password") \/ Waits(n, "email")
                 /\ Answer(n, "refused") /\ UNCHANGED <<session, parted>>
        <4>1. calls'[n].data = "refused"
          BY <1>0, <3>4, AnsweredIs
        <4>2. calls[n].op \in {"login", "register", "password", "email"} /\ calls'[n].op = calls[n].op
          BY <1>2, <3>4 DEF Waits, Is, SameErrands
        <4>3. \A m \in Slots : WelcomeHolds(m)'
          BY <1>0, <1>2, <3>4, <4>1, <4>2 DEF WelcomeHolds, OnlySlot
        <4>4. ~TellsOfEnd(n)
          BY <3>4, <4>2 DEF TellsOfEnd, Waits
        <4>5. QED
          BY <1>0, <3>1, <3>4, <4>3, <4>4
      <3>5. CASE /\ Waits(n, "logout") /\ Answer(n, <<>>)
                 /\ Ends(n) \/ UNCHANGED <<session, parted>>
        <4>1. calls[n].op = "logout" /\ calls'[n].op = "logout" /\ calls'[n].ok
          BY <1>0, <1>2, <3>5, AnsweredIs DEF Waits, Is, SameErrands
        <4>2. TellsOfEnd(n)'
          BY <1>2, <4>1 DEF TellsOfEnd
        <4>3. session' \in BOOLEAN /\ parted' \in BOOLEAN
          BY <1>0, <3>5 DEF Ends
        <4>4. \A m \in Slots : WelcomeHolds(m)'
          BY <1>0, <1>2, <3>5, <4>1 DEF WelcomeHolds, OnlySlot, Ends, Is
        <4>5. QED
          BY <4>2, <4>3, <4>4
      <3>6. CASE Waits(n, "password") /\ Ends(n) /\ Answer(n, "done")
        <4>1. calls[n].op = "password" /\ calls'[n].op = "password" /\ calls'[n].ok
              /\ calls'[n].data = "done"
          BY <1>0, <1>2, <3>6, AnsweredIs DEF Waits, Is, SameErrands
        <4>2. TellsOfEnd(n)'
          BY <1>2, <4>1 DEF TellsOfEnd
        <4>3. session' \in BOOLEAN /\ parted' \in BOOLEAN
          BY <1>0, <3>6 DEF Ends
        <4>4. \A m \in Slots : WelcomeHolds(m)'
          BY <1>0, <1>2, <3>6, <4>1 DEF WelcomeHolds, OnlySlot, Ends, Is
        <4>5. QED
          BY <4>2, <4>3, <4>4
      <3>7. QED
        BY <2>2, <3>2, <3>3, <3>4, <3>5, <3>6 DEF SessionServe
    <2>3. QED
      BY <2>1, <2>2
  <1>5. QED
    BY <1>0, <1>1, <1>2, <1>3, <1>4 DEF SessionInv

LEMMA SessionClickKeeps ==
    SessionInv /\ SessionClick /\ page = "session" /\ page' = page => SessionInv'
  <1> SUFFICES ASSUME SessionInv, SessionClick, page = "session", page' = page PROVE SessionInv'
    OBVIOUS
  <1>0. /\ ShapedCalls /\ session \in BOOLEAN /\ parted \in BOOLEAN
        /\ booting \in BOOLEAN /\ authLoading \in BOOLEAN
        /\ \A m \in Slots : WelcomeHolds(m)
        /\ user # "none" => session \/ parted \/ \E m \in Slots : TellsOfEnd(m)
        /\ FormWaits /\ RouteHolds /\ AuthWaits
    BY DEF SessionInv
  <1>1. ASSUME NEW n \in Slots, NEW op, NEW arg, Free(n), Send(n, op, arg),
               UNCHANGED <<session, user, booting, route, parted>>,
               authLoading' \in BOOLEAN, authLoading' => authLoading \/ op \in AuthCalls,
               formSaves' = formSaves \/ (formSaves' = n /\ op \in {"password", "email"})
        PROVE  SessionInv'
    <2>1. /\ ShapedCalls' /\ OnlySlot(n) /\ calls'[n].op = op /\ calls'[n].stage = "sent"
      BY <1>0, <1>1, SendIs
    <2>2. calls[n].op = "idle"
      BY <1>1 DEF Free, Is
    <2>3. FormWaits' /\ RouteHolds' /\ WelcomeHolds(n)' /\ ~TellsOfEnd(n)
      BY <1>0, <1>1, <2>1, <2>2 DEF FormWaits, RouteHolds, WelcomeHolds, TellsOfEnd, OnlySlot
    <2>4. QED
      BY <1>0, <1>1, <2>1, <2>2, <2>3, SessionGoesOn DEF AuthCalls
  <1>2. ASSUME NEW r, Navigate(r) PROVE SessionInv'
    <2>1. /\ calls' = calls /\ session' = session /\ booting' = booting
          /\ authLoading' = authLoading /\ parted' = parted /\ Goes(r, user)
      BY <1>2 DEF Navigate
    <2>2. RouteHolds' /\ user' = user /\ formSaves' \in {0, formSaves}
      BY <1>0, <2>1, GoesHolds
    <2>3. FormWaits' /\ AuthWaits' /\ ShapedCalls'
      BY <1>0, <2>1, <2>2 DEF FormWaits, AuthWaits, InFlight, InFlightFor, Is, ShapedCalls
    <2>4. QED
      BY <1>0, <2>1, <2>2, <2>3 DEF SessionInv, WelcomeHolds, TellsOfEnd
  <1>3. CASE SessionEndsElsewhere
    <2>1. /\ session' = FALSE /\ parted' = TRUE
          /\ UNCHANGED <<calls, user, booting, authLoading, route, formSaves>>
      BY <1>3 DEF SessionEndsElsewhere
    <2>2. FormWaits' /\ AuthWaits' /\ ShapedCalls' /\ RouteHolds'
      BY <1>0, <2>1 DEF FormWaits, AuthWaits, InFlight, InFlightFor, Is, ShapedCalls, RouteHolds
    <2>3. QED
      BY <1>0, <2>1, <2>2 DEF SessionInv, WelcomeHolds
  <1>4. ASSUME NEW n \in Slots, NEW how \in {"login", "register"}, SignIn(n, how) PROVE SessionInv'
    BY <1>1, <1>4 DEF SignIn, AuthCalls
  <1>5. ASSUME NEW n \in Slots, NEW what \in {"password", "email"}, AccountSubmit(n, what)
        PROVE  SessionInv'
    BY <1>0, <1>1, <1>5 DEF AccountSubmit
  <1>6. ASSUME NEW n \in Slots, LogoutClick(n) PROVE SessionInv'
    BY <1>1, <1>6 DEF LogoutClick, AuthCalls
  <1>7. QED
    BY <1>2, <1>3, <1>4, <1>5, <1>6 DEF SessionClick

LEMMA SessionNextKeeps == SessionInv /\ SessionNext => SessionInv'
  BY SessionClickKeeps, SessionAnswersKeep, SessionServeKeeps DEF SessionNext, SessionStep
-----------------------------------------------------------------------------
(* The dashboard of a user.  While the hours are chosen the series is that *)
(* of the figures; while the days are chosen one call counts, or none.     *)

(* What is drawn and whether it is loading follow from the choice of       *)
(* series.                                                                 *)
DashboardState ==
    /\ pointsLoading \in BOOLEAN /\ turnedBack \in BOOLEAN
    /\ granularity \in Granularities /\ board \in {"none", "data", "failed"}
    /\ granularity = "hour" => /\ pointsCall = 0 /\ (pointsLoading <=> board = "none")
                               /\ points = IF board = "data" THEN "hour" ELSE NoPoints
    /\ granularity = "day" => (pointsLoading <=> pointsCall # 0)
    /\ pointsLoading => chart = NoChart
    /\ ~pointsLoading => /\ points \in {granularity, NoPoints}
                         /\ \/ chart = <<points, field, granularity>>
                            \/ turnedBack /\ chart = NoChart

(* The points that count are those of the days; the hours come with the    *)
(* board.                                                                  *)
DashboardCalls ==
    /\ board = "none" => InFlight("board")
    /\ pointsCall # 0 => /\ pointsCall \in Slots
                         /\ calls[pointsCall].op = "points" /\ calls[pointsCall].arg = "day"

DashboardInv == page = "dashboard" => ShapedCalls /\ DashboardState /\ DashboardCalls

LEMMA DashboardInvIsEnough == DashboardInv => DashboardChartIsCurrent /\ DashboardFlagsFall
  BY DEF DashboardInv, DashboardState, DashboardCalls, DashboardChartIsCurrent,
     DashboardFlagsFall,
         ChartIsOfChoice, Granularities, Is

(* The effect for the days, whatever it is that made it run.               *)
LEMMA DaysAreLoaded ==
    ASSUME NEW others, others = [n \in Slots |-> others[n]], \A n \in Slots : IsCall(others[n]),
           LoadPoints(others, "day"), granularity' = "day", turnedBack' \in BOOLEAN,
           board' \in {"none", "data", "failed"},
           board' = "none" => \E n \in Slots : others[n].op = "board"
    PROVE  ShapedCalls' /\ DashboardState' /\ DashboardCalls'
  <1>1. /\ ShapedCalls' /\ pointsCall' \in Slots
        /\ others[pointsCall'].op = "idle"
        /\ \A m \in Slots \ {pointsCall'} : calls'[m] = others[m]
        /\ calls'[pointsCall'].op = "points" /\ calls'[pointsCall'].arg = "day"
    BY LoadIs
  <1>2. DashboardCalls'
    BY <1>1 DEF DashboardCalls, InFlight, Is
  <1>3. pointsCall' # 0
    BY <1>1 DEF Slots
  <1>4. pointsLoading' = TRUE /\ chart' = NoChart
    BY DEF LoadPoints
  <1>5. DashboardState'
    BY <1>3, <1>4 DEF DashboardState, Granularities
  <1>6. QED
    BY <1>1, <1>2, <1>5

LEMMA DashboardNextKeeps == DashboardInv /\ DashboardNext => DashboardInv'
  <1> SUFFICES ASSUME DashboardInv, DashboardNext PROVE DashboardInv'
    OBVIOUS
  <1>0. page = "dashboard" /\ page' = page /\ ShapedCalls /\ DashboardState /\ DashboardCalls
    BY DEF DashboardInv, DashboardNext
  <1>1. ASSUME NEW n \in Slots, BoardAnswered(n) PROVE DashboardInv'
    <2> DEFINE others == [calls EXCEPT ![n] = Idle]
    <2>1. /\ others = [m \in Slots |-> others[m]] /\ \A m \in Slots : IsCall(others[m])
          /\ \A m \in Slots \ {n} : others[m] = calls[m]
          /\ others[n].op = "idle"
      BY <1>0, IdleIsCall DEF ShapedCalls
    <2>2. /\ board' \in {"data", "failed"}
          /\ turnedBack' = turnedBack /\ granularity' = granularity /\ field' = field
      BY <1>1 DEF BoardAnswered
    <2>3. SeriesOf(others, board', granularity, chart)
      BY <1>1 DEF BoardAnswered
    <2> HIDE DEF others
    <2>4. CASE granularity = "day"
      <3>1. LoadPoints(others, "day")
        BY <2>3, <2>4 DEF SeriesOf
      <3>2. turnedBack \in BOOLEAN
        BY <1>0 DEF DashboardState
      <3>3. QED
        BY <1>0, <2>1, <2>2, <2>4, <3>1, <3>2, DaysAreLoaded DEF DashboardInv
    <2>5. CASE granularity = "hour"
      <3>1. /\ calls' = others /\ pointsLoading' = FALSE /\ pointsCall' = 0
            /\ points' = IF board' = "data" THEN "hour" ELSE NoPoints
            /\ chart' = IF points' = NoPoints \/ points' # points THEN <<points', field, "hour">> ELSE chart
        BY <2>2, <2>3, <2>5 DEF SeriesOf, Drawn
      <3>2. ShapedCalls'
        BY <2>1, <3>1 DEF ShapedCalls
      <3>3. DashboardCalls'
        BY <2>2, <3>1 DEF DashboardCalls
      <3>4. board = "none" => points = NoPoints
        BY <1>0, <2>5 DEF DashboardState
      <3>5. \/ chart' = <<points', field', granularity'>>
            \/ turnedBack' /\ chart' = NoChart
        <4>1. CASE points' = NoPoints \/ points' # points
          BY <2>2, <2>5, <3>1, <4>1
        <4>2. CASE points' = points /\ points' # NoPoints
          <5>1. board # "none" /\ ~pointsLoading
            BY <1>0, <2>5, <3>4, <4>2 DEF DashboardState
          <5>2. QED
            BY <1>0, <2>2, <3>1, <4>2, <5>1 DEF DashboardState
        <4>3. QED
          BY <4>1, <4>2
      <3>6. DashboardState'
        BY <1>0, <2>2, <2>5, <3>1, <3>5 DEF DashboardState, Granularities
      <3>7. QED
        BY <1>0, <3>2, <3>3, <3>6 DEF DashboardInv
    <2>6. QED
      BY <1>0, <2>4, <2>5 DEF DashboardState, Granularities
  <1>2. ASSUME NEW g \in Granularities, DashboardGranularity(g) PROVE DashboardInv'
    <2>1. /\ g # granularity /\ granularity' = g /\ turnedBack' = (g = "hour" /\ pointsLoading)
          /\ field' = field /\ board' = board
      BY <1>2 DEF DashboardGranularity
    <2>2. SeriesOf(calls, board, g, Drawn(chart, pointsLoading, TRUE, <<points, field, g>>))
      BY <1>2 DEF DashboardGranularity
    <2>3. CASE g = "day"
      <3>1. LoadPoints(calls, "day")
        BY <2>2, <2>3 DEF SeriesOf
      <3>2. calls = [m \in Slots |-> calls[m]] /\ \A m \in Slots : IsCall(calls[m])
        BY <1>0 DEF ShapedCalls
      <3>3. board = "none" => \E m \in Slots : calls[m].op = "board"
        BY <1>0 DEF DashboardCalls, InFlight, Is
      <3>4. turnedBack' \in BOOLEAN /\ board' \in {"none", "data", "failed"}
        BY <1>0, <2>1 DEF DashboardState
      <3>5. QED
        BY <1>0, <2>1, <2>3, <3>1, <3>2, <3>3, <3>4, DaysAreLoaded DEF DashboardInv
    <2>4. CASE g = "hour"
      <3> DEFINE drawn == IF pointsLoading THEN NoChart ELSE <<points, field, "hour">>
      <3>1. /\ calls' = calls /\ pointsLoading' = (board = "none") /\ pointsCall' = 0
            /\ points' = IF board = "data" THEN "hour" ELSE NoPoints
            /\ chart' = IF board = "none" THEN NoChart
                        ELSE IF points' = NoPoints \/ points' # points THEN <<points', field, "hour">>
                        ELSE drawn
        BY <2>2, <2>4 DEF SeriesOf, Drawn
      <3>2. granularity = "day"
        BY <1>0, <2>1, <2>4 DEF DashboardState, Granularities
      <3>3. ~pointsLoading => points \in {"day", NoPoints}
        BY <1>0, <3>2 DEF DashboardState
      <3>4. board # "none" => \/ chart' = <<points', field', granularity'>>
                              \/ turnedBack' /\ chart' = NoChart
        <4>1. CASE points' = NoPoints \/ points' # points
          BY <2>1, <2>4, <3>1, <4>1
        <4>2. CASE points' = points /\ points' # NoPoints
          <5>1. pointsLoading
            BY <1>0, <3>1, <3>3, <4>2 DEF NoPoints, DashboardState
          <5>2. QED
            BY <2>1, <2>4, <3>1, <4>2, <5>1
        <4>3. QED
          BY <4>1, <4>2
      <3>5. DashboardState'
        BY <1>0, <2>1, <2>4, <3>1, <3>4 DEF DashboardState, Granularities
      <3>6. DashboardCalls' /\ ShapedCalls'
        BY <1>0, <2>1, <3>1 DEF DashboardCalls, InFlight, Is, ShapedCalls
      <3>7. QED
        BY <1>0, <3>5, <3>6 DEF DashboardInv
    <2>5. QED
      BY <2>3, <2>4 DEF Granularities
  <1>3. ASSUME NEW f \in ChartFields, DashboardField(f) PROVE DashboardInv'
    <2>1. /\ field' = f /\ turnedBack' = FALSE /\ board' = board /\ calls' = calls
          /\ points' = points /\ pointsLoading' = pointsLoading /\ pointsCall' = pointsCall
          /\ granularity' = granularity
          /\ chart' = IF pointsLoading THEN NoChart ELSE <<points, f, granularity>>
      BY <1>3 DEF DashboardField, SetField, Drawn
    <2>2. DashboardState'
      BY <1>0, <2>1 DEF DashboardState
    <2>3. DashboardCalls' /\ ShapedCalls'
      BY <1>0, <2>1 DEF DashboardCalls, InFlight, Is, ShapedCalls
    <2>4. QED
      BY <1>0, <2>2, <2>3 DEF DashboardInv
  <1>4. ASSUME NEW n \in Slots, PointsAnswered(n, TRUE), UNCHANGED <<board, turnedBack>>
        PROVE  DashboardInv'
    <2>1. ShapedCalls' /\ OnlySlot(n)
      BY <1>0, <1>4, FinishIs DEF PointsAnswered
    <2>2. calls[n].op = "points" /\ field' = field /\ granularity' = granularity
      BY <1>4 DEF PointsAnswered, Resumes, Is
    <2>3. board = "none" => InFlight("board")'
      BY <1>0, <2>1, <2>2 DEF DashboardCalls, InFlight, Is, OnlySlot
    <2>4. CASE n = pointsCall
      <3>1. n # 0
        BY DEF Slots
      <3>2. granularity = "day" /\ calls[n].arg = "day"
        BY <1>0, <2>4, <3>1 DEF DashboardState, DashboardCalls, Granularities
      <3>3. /\ points' \in {"day", NoPoints} /\ pointsLoading' = FALSE /\ pointsCall' = 0
            /\ chart' = <<points', field, granularity>>
        BY <1>4, <2>4, <3>2 DEF PointsAnswered, Drawn
      <3>4. DashboardState'
        BY <1>0, <1>4, <2>2, <3>2, <3>3 DEF DashboardState, Granularities
      <3>5. DashboardCalls'
        BY <1>4, <2>3, <3>3 DEF DashboardCalls
      <3>6. QED
        BY <1>0, <2>1, <3>4, <3>5 DEF DashboardInv
    <2>5. CASE n # pointsCall
      <3>1. UNCHANGED <<points, pointsLoading, pointsCall, chart>>
        BY <1>4, <2>5 DEF PointsAnswered
      <3>2. DashboardState'
        BY <1>0, <1>4, <2>2, <3>1 DEF DashboardState
      <3>3. DashboardCalls'
        BY <1>0, <1>4, <2>1, <2>3, <2>5, <3>1 DEF DashboardCalls, OnlySlot
      <3>4. QED
        BY <1>0, <2>1, <3>2, <3>3 DEF DashboardInv
    <2>6. QED
      BY <2>4, <2>5
  <1>5. ASSUME NEW n \in Slots, PointsServed(n) \/ CallFails(n), UNCHANGED dashboardVars
        PROVE  DashboardInv'
    <2>1. ShapedCalls' /\ SameErrands
      BY <1>0, <1>5, AnsweredIs, FailedIs DEF PointsServed
    <2>2. DashboardState'
      BY <1>0, <1>5 DEF DashboardState, dashboardVars, chartVars
    <2>3. DashboardCalls'
      BY <1>0, <1>5, <2>1 DEF DashboardCalls, InFlight, Is, SameErrands, dashboardVars,
         chartVars
    <2>4. QED
      BY <1>0, <2>1, <2>2, <2>3 DEF DashboardInv
  <1>6. QED
    BY <1>1, <1>2, <1>3, <1>4, <1>5 DEF DashboardNext, DashboardClick, DashboardStep
-----------------------------------------------------------------------------
(* The panel of the filters: what is to come is for what was clicked last. *)

(* A frame or timer that runs moves the panel towards what the button      *)
(* says.                                                                   *)
PanelInv ==
    /\ page = "popovers" => /\ filtersOpen \in BOOLEAN /\ present \in BOOLEAN /\ timer \in BOOLEAN
                            /\ frame \in {"none", IF filtersOpen THEN "enter" ELSE "leave"}
    /\ PanelFollows

LEMMA PopoversNextKeeps == PanelInv /\ PopoversNext => PanelInv'
  <1> SUFFICES ASSUME PanelInv, PopoversNext PROVE PanelInv'
    OBVIOUS
  <1>0. page = "popovers" /\ page' = page
    BY DEF PopoversNext
  <1>1. ASSUME NEW o \in BOOLEAN, SetFilters(o) PROVE PanelInv'
    BY <1>0, <1>1 DEF SetFilters, PresenceEffect, PanelInv, PanelFollows
  <1>2. ASSUME UNCHANGED presenceVars PROVE PanelInv'
    BY <1>0, <1>2 DEF presenceVars, PanelInv, PanelFollows
  <1>3. CASE PopoversClick
    <2>0. filtersOpen \in BOOLEAN /\ present \in BOOLEAN
      BY <1>0 DEF PanelInv
    <2>1. CASE PressBesideFilters
      BY <1>1, <2>0, <2>1 DEF PressBesideFilters
    <2>2. CASE ToggleFilters
      BY <1>1, <2>0, <2>2 DEF ToggleFilters
    <2>3. CASE CollapseFilters \/ EscapeKey
      BY <1>1, <2>3 DEF CollapseFilters, EscapeKey
    <2>4. CASE AnswerFills
      BY <1>2, <2>4 DEF AnswerFills, panelVars, presenceVars
    <2>5. QED
      BY <1>3, <2>1, <2>2, <2>3, <2>4 DEF PopoversClick, ClickElsewhere, HandleToggle,
         HandleConfirm,
         HandleRangeSelect, ToggleLimit, ChooseLimit
  <1>4. CASE PresenceFrame
    BY <1>0, <1>4 DEF PresenceFrame, PanelInv, PanelFollows
  <1>5. CASE PresenceTimer
    BY <1>0, <1>5 DEF PresenceTimer, PanelInv, PanelFollows
  <1>6. CASE Reposition
    BY <1>2, <1>6 DEF Reposition
  <1>7. QED
    BY <1>3, <1>4, <1>5, <1>6 DEF PopoversNext, PopoversStep
-----------------------------------------------------------------------------
(* The console: one page is mounted, and a step of it leaves the variables *)
(* of the others alone.                                                    *)

TokensConsoleInv ==
    /\ page = "tokens" => TokensPageInv
    /\ page # "tokens" => \A t \in Tokens : revealed[t] = 0

UserConsoleInv ==
    /\ TokensConsoleInv /\ DialogsInv /\ UsageInv
    /\ SessionInv /\ DashboardInv /\ PanelInv

LEMMA TokensStay ==
    ASSUME TokensConsoleInv, UNCHANGED <<page, tokensVars>>, page = "tokens" => UNCHANGED browserVars
    PROVE  TokensConsoleInv'
  <1>1. CASE page = "tokens"
    BY <1>1, TokensPageNextKeeps DEF TokensConsoleInv
  <1>2. CASE page # "tokens"
    BY <1>2 DEF TokensConsoleInv, tokensVars
  <1>3. QED
    BY <1>1, <1>2

LEMMA DialogsStay ==
    ASSUME DialogsInv, UNCHANGED <<page, dialogVars>>, page = "dialogs" => UNCHANGED browserVars
    PROVE  DialogsInv'
  BY DEF DialogsInv, DialogCallsMatch, DialogsKeepToTheirToken, DialogsFlagsFall, ShapedCalls,
         InFlight, Is, dialogVars, browserVars

LEMMA UsageStays ==
    ASSUME UsageInv, UNCHANGED <<page, usageVars>>, page = "usage" => UNCHANGED browserVars
    PROVE  UsageInv'
  <1>1. CASE page = "usage"
    <2>1. calls' = calls
      BY <1>1 DEF browserVars
    <2>2. ShapedCalls' /\ UsageFlagsFall'
      BY <1>1, <2>1 DEF UsageInv, UsageFlagsFall, ShapedCalls, InFlight, InFlightFor, Is,
         usageVars,
         detailVars
    <2>3. WalkState' /\ StackHolds(beforeStack)'
      BY <1>1 DEF UsageInv, WalkState, StackHolds, usageVars, pickVars, listVars
    <2>4. QueriesHold'
      BY <1>1, <2>1 DEF UsageInv, QueriesHold, QueryHolds, CutHolds, Is, Ok, usageVars, listVars
    <2>5. QED
      BY <1>1, <2>2, <2>3, <2>4 DEF UsageInv
  <1>2. CASE page # "usage"
    BY <1>2 DEF UsageInv, usageVars, listVars
  <1>3. QED
    BY <1>1, <1>2

LEMMA SessionStays ==
    ASSUME SessionInv, UNCHANGED <<page, sessionVars>>, page = "session" => UNCHANGED browserVars
    PROVE  SessionInv'
  BY DEF SessionInv, WelcomeHolds, TellsOfEnd, FormWaits, RouteHolds, AuthWaits, ShapedCalls,
         InFlight, InFlightFor, Is, sessionVars, browserVars

LEMMA DashboardStays ==
    ASSUME DashboardInv, UNCHANGED <<page, dashboardVars>>, page = "dashboard" => UNCHANGED browserVars
    PROVE  DashboardInv'
  BY DEF DashboardInv, DashboardState, DashboardCalls, ShapedCalls, InFlight, Is, dashboardVars,
         chartVars, browserVars

LEMMA PanelStays ==
    ASSUME PanelInv, UNCHANGED <<page, popoverVars>>
    PROVE  PanelInv'
  BY DEF PanelInv, PanelFollows, popoverVars, panelVars, presenceVars

LEMMA UsageStarts ==
    ASSUME page = "usage", BrowserInit(UsageMount), UsageInit
    PROVE  UsageInv
  <1> DEFINE first == [before |-> 0, limit |-> Max(Limits), filter |-> AnyEvent,
                       start |-> TRUE, end |-> TRUE]
  <1>0. 1 \in Slots /\ 2 \in Slots
    BY BrowserAssumption DEF Slots
  <1>1. UsageMount = <<Sent("usage", first), Sent("tokenMap", <<>>)>>
    BY DEF UsageMount
  <1> HIDE DEF first
  <1>2. /\ IsCall(Sent("usage", first)) /\ IsCall(Sent("tokenMap", <<>>))
        /\ Sent("usage", first).op = "usage" /\ Sent("usage", first).arg = first
        /\ Sent("usage", first).stage = "sent"
        /\ Sent("tokenMap", <<>>).op = "tokenMap"
    BY SentIsCall
  <1>3. DOMAIN UsageMount = {1, 2}
    BY <1>1
  <1>4. /\ ShapedCalls
        /\ \A n \in Slots : calls[n] = IF n \in {1, 2} THEN UsageMount[n] ELSE Idle
    <2>1. \A n \in Slots \cap DOMAIN UsageMount : IsCall(UsageMount[n])
      BY <1>1, <1>2, <1>3
    <2>2. QED
      BY <1>3, <2>1, MountedIs
  <1>5. /\ calls[1] = Sent("usage", first)
        /\ \A n \in Slots \ {1} : ~Is(n, "usage")
    BY <1>0, <1>1, <1>2, <1>4, IdleIsCall DEF Is
  <1>6. Max(Limits) \in Limits
    BY UsageAssumption, MaxOfIds
  <1>7. MaxEvent \in Nat /\ 0 \in 0..MaxEvent
    BY UsageAssumption
  <1>8. WalkState /\ StackHolds(beforeStack)
    <2>1. /\ walk.met = {} /\ NoGap(walk) /\ nextBeforeID = 0 /\ beforeStack = <<>>
          /\ limit \in Limits /\ filter \in Filters /\ events \subseteq AnyEvent
      BY <1>6, UsageAssumption DEF UsageInit, NoWalk, NoGap, AnyEvent
    <2>2. QED
      BY <1>7, <2>1, NoStackHolds DEF WalkState
  <1>9. QueryHolds(first)
    <2>1. first.before = 0 /\ first.limit \in Limits /\ beforeStack = <<>>
      BY <1>6 DEF first, UsageInit
    <2>2. 1..Len(beforeStack) = {}
      BY <2>1
    <2>3. QED
      BY <1>7, <2>1, <2>2 DEF QueryHolds
  <1>10. QueriesHold
    BY <1>2, <1>5, <1>9 DEF QueriesHold, Is, UsageInit
  <1>11. UsageFlagsFall
    BY <1>0, <1>2, <1>5 DEF UsageFlagsFall, InFlight, Is, UsageInit
  <1>12. QED
    BY <1>4, <1>8, <1>10, <1>11 DEF UsageInv

LEMMA UserConsoleStarts == UserConsoleInit => UserConsoleInv
  <1> SUFFICES ASSUME UserConsoleInit PROVE UserConsoleInv
    OBVIOUS
  <1> USE DEF UserConsoleInit
  <1>1. TokensConsoleInv
    <2>1. CASE page = "tokens"
      <3>1. BrowserInit(TokensMount)
        BY <2>1 DEF Mount
      <3>2. QED
        BY <2>1, <3>1, TokensStart DEF TokensConsoleInv
    <2>2. CASE page # "tokens"
      BY <2>2 DEF TokensConsoleInv, TokensInit
    <2>3. QED
      BY <2>1, <2>2
  <1>2. DialogsInv
    <2>1. CASE page = "dialogs"
      <3>1. BrowserInit(<<>>)
        BY <2>1 DEF Mount
      <3>2. QED
        BY <2>1, <3>1, NoneIsMounted, IdleIsCall DEF DialogsInv, DialogsInit, DialogCallsMatch,
           DialogsKeepToTheirToken, DialogsFlagsFall, ChannelCalls
    <2>2. CASE page # "dialogs"
      BY <2>2 DEF DialogsInv, DialogsInit, DialogsKeepToTheirToken, DialogsFlagsFall
    <2>3. QED
      BY <2>1, <2>2
  <1>3. UsageInv
    <2>1. CASE page = "usage"
      <3>1. BrowserInit(UsageMount)
        BY <2>1 DEF Mount
      <3>2. QED
        BY <2>1, <3>1, UsageStarts
    <2>2. CASE page # "usage"
      BY <2>2 DEF UsageInv, UsageInit, NoWalk, NoGap
    <2>3. QED
      BY <2>1, <2>2
  <1>4. ASSUME page = "session" PROVE SessionInv
    <2>1. BrowserInit(<<Sent("self", "boot")>>)
      BY <1>4 DEF Mount, SessionMount
    <2>2. /\ ShapedCalls /\ 1 \in Slots /\ calls[1].op = "self" /\ calls[1].arg = "boot"
          /\ \A n \in Slots : ~calls[n].ok
      BY <2>1, OneIsMounted, IdleIsCall
    <2>3. QED
      BY <1>4, <2>2 DEF SessionInit, SessionInv, WelcomeHolds, FormWaits, RouteHolds, AuthWaits,
         AuthCalls, InFlight, InFlightFor, Is
  <1>5. ASSUME page = "dashboard" PROVE DashboardInv
    <2>1. BrowserInit(<<Sent("board", <<>>)>>)
      BY <1>5 DEF Mount, DashboardMount
    <2>2. ShapedCalls /\ InFlight("board")
      BY <2>1, OneIsMounted DEF InFlight, Is
    <2>3. QED
      BY <1>5, <2>2 DEF DashboardInv, DashboardInit, ChartInit, DashboardState, DashboardCalls,
         Granularities
  <1>6. PanelInv
    BY DEF PanelInv, PopoversInit, PanelFollows
  <1>7. QED
    BY <1>1, <1>2, <1>3, <1>4, <1>5, <1>6 DEF UserConsoleInv, SessionInv, DashboardInv

LEMMA UserConsoleSteps == UserConsoleInv /\ [UserConsoleNext]_consoleVars => UserConsoleInv'
  <1> SUFFICES ASSUME UserConsoleInv, [UserConsoleNext]_consoleVars PROVE UserConsoleInv'
    OBVIOUS
  <1> USE DEF UserConsoleInv
  <1>1. CASE TokensNext /\ UNCHANGED <<dialogVars, usageVars, sessionVars, dashboardVars, popoverVars>>
    <2>1. page = "tokens" /\ page' = page
      BY <1>1 DEF TokensNext
    <2>2. TokensConsoleInv'
      BY <1>1, <2>1, TokensPageNextKeeps DEF TokensConsoleInv
    <2>3. QED
      BY <1>1, <2>1, <2>2, DialogsStay, UsageStays, SessionStays, DashboardStays, PanelStays
  <1>2. CASE DialogsNext /\ UNCHANGED <<tokensVars, usageVars, sessionVars, dashboardVars, popoverVars>>
    <2>1. page = "dialogs" /\ page' = page
      BY <1>2 DEF DialogsNext
    <2>2. QED
      BY <1>2, <2>1, DialogsNextKeeps, TokensStay, UsageStays, SessionStays, DashboardStays,
         PanelStays
  <1>3. CASE UsageNext /\ UNCHANGED <<tokensVars, dialogVars, sessionVars, dashboardVars, popoverVars>>
    <2>1. page = "usage" /\ page' = page
      BY <1>3 DEF UsageNext
    <2>2. QED
      BY <1>3, <2>1, UsageNextKeeps, TokensStay, DialogsStay, SessionStays, DashboardStays,
         PanelStays
  <1>4. CASE SessionNext /\ UNCHANGED <<tokensVars, dialogVars, usageVars, dashboardVars, popoverVars>>
    <2>1. page = "session" /\ page' = page
      BY <1>4 DEF SessionNext
    <2>2. QED
      BY <1>4, <2>1, SessionNextKeeps, TokensStay, DialogsStay, UsageStays, DashboardStays,
         PanelStays
  <1>5. CASE DashboardNext /\ UNCHANGED <<tokensVars, dialogVars, usageVars, sessionVars, popoverVars>>
    <2>1. page = "dashboard" /\ page' = page
      BY <1>5 DEF DashboardNext
    <2>2. QED
      BY <1>5, <2>1, DashboardNextKeeps, TokensStay, DialogsStay, UsageStays, SessionStays,
         PanelStays
  <1>6. CASE PopoversNext /\ UNCHANGED <<tokensVars, dialogVars, usageVars, sessionVars, dashboardVars>>
    <2>1. page = "popovers" /\ page' = page
      BY <1>6 DEF PopoversNext
    <2>2. QED
      BY <1>6, <2>1, PopoversNextKeeps, TokensStay, DialogsStay, UsageStays, SessionStays,
         DashboardStays
  <1>7. CASE UNCHANGED consoleVars
    <2>1. /\ UNCHANGED <<page, browserVars>>
          /\ UNCHANGED tokensVars /\ UNCHANGED dialogVars /\ UNCHANGED usageVars
          /\ UNCHANGED sessionVars /\ UNCHANGED dashboardVars /\ UNCHANGED popoverVars
      BY <1>7 DEF consoleVars, browserVars
    <2>2. QED
      BY <2>1, TokensStay, DialogsStay, UsageStays, SessionStays, DashboardStays, PanelStays
  <1>8. QED
    BY <1>1, <1>2, <1>3, <1>4, <1>5, <1>6, <1>7 DEF UserConsoleNext

(* The inductive invariant of the console: that of each of its pages.      *)
THEOREM UserConsoleKeepsInv == UserConsoleSpec => []UserConsoleInv
  BY UserConsoleStarts, UserConsoleSteps, PTL DEF UserConsoleSpec

(* What the page shows of a token is what the server accepts, however many *)
(* reveals, rotations, refreshes and failures overlap, unless a reveal and *)
(* a rotation of that very token did.                                      *)
THEOREM RevealedStaysCurrent == UserConsoleSpec => []RevealedIsCurrent
  <1>1. UserConsoleInv => RevealedIsCurrent
    <2>1. CASE page = "tokens"
      BY <2>1 DEF UserConsoleInv, TokensConsoleInv, TokensPageInv, RevealInv, TokenSound,
         RevealedIsCurrent
    <2>2. CASE page # "tokens"
      BY <2>2 DEF UserConsoleInv, TokensConsoleInv, RevealedIsCurrent
    <2>3. QED
      BY <2>1, <2>2
  <1>2. QED
    BY <1>1, UserConsoleKeepsInv, PTL

(* The dialogs of a token hold what was loaded for that token, unless one  *)
(* was opened while a call of the one before was under way.                *)
THEOREM DialogsDoKeepToTheirToken == UserConsoleSpec => []DialogsKeepToTheirToken
  <1>1. UserConsoleInv => DialogsKeepToTheirToken
    BY DEF UserConsoleInv, DialogsInv
  <1>2. QED
    BY <1>1, UserConsoleKeepsInv, PTL

(* A walk through the pages meets every event that was stored when it came *)
(* by its place, although requests end in any order, rows go, answers fail *)
(* and the range and the size of a page change meanwhile.                  *)
THEOREM UsageWalkLeavesNoGap == UserConsoleSpec => []UsageWalkHasNoGap
  <1>1. UserConsoleInv => UsageWalkHasNoGap
    BY UsageInvIsEnough DEF UserConsoleInv
  <1>2. QED
    BY <1>1, UserConsoleKeepsInv, PTL

(* Once no call is under way, who is shown as signed in has a session that *)
(* the server knows, unless it ended elsewhere; and the route is one that  *)
(* this user may see.                                                      *)
THEOREM SignedInDoesHaveSession == UserConsoleSpec => []SignedInHasSession
  <1>1. UserConsoleInv => SignedInHasSession
    BY SessionInvIsEnough DEF UserConsoleInv
  <1>2. QED
    BY <1>1, UserConsoleKeepsInv, PTL

(* The chart draws the series of the step that is chosen, in the field     *)
(* that is chosen, unless the hours were chosen while the days loaded.     *)
THEOREM DashboardChartStaysCurrent == UserConsoleSpec => []DashboardChartIsCurrent
  <1>1. UserConsoleInv => DashboardChartIsCurrent
    BY DashboardInvIsEnough DEF UserConsoleInv
  <1>2. QED
    BY <1>1, UserConsoleKeepsInv, PTL

(* No flag that disables a button or shows "loading" stays up without a    *)
(* handler that waits and lowers it.                                       *)
THEOREM UserFlagsDoFall == UserConsoleSpec => []UserFlagsFall
  <1>1. UserConsoleInv => UserFlagsFall
    <2>1. UserConsoleInv => TokensFlagsFall
      BY DEF UserConsoleInv, TokensConsoleInv, TokensPageInv, TokenFlagInv, TokensFlagsFall
    <2>2. QED
      BY <2>1, UsageInvIsEnough, SessionInvIsEnough, DashboardInvIsEnough
         DEF UserConsoleInv, DialogsInv, PanelInv, UserFlagsFall
  <1>2. QED
    BY <1>1, UserConsoleKeepsInv, PTL
================================================================================
