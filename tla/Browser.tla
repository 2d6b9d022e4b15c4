------------------------------- MODULE Browser -------------------------------
(***************************************************************************)
(* What the pages of the web console share: the requests that a page has   *)
(* in flight and the dialogs of Bootstrap.                                 *)
(*                                                                         *)
(* An asynchronous handler of a page is cut at its awaits.  What it does   *)
(* up to an await is one step, which sends a request; the server answers;  *)
(* the rest of the handler is another step, which finds the page as it is  *)
(* then.  A request that fails (success is false, or an exception of       *)
(* axios) is answered without ok; it may have had its effect.              *)
(***************************************************************************)
EXTENDS Integers, Sequences, FiniteSets

CONSTANTS MaxCalls,     \* bound on the handlers that wait at the same time
          MaxClicks     \* bound on what the user does, for each page

ASSUME BrowserAssumption ==
    /\ MaxCalls \in Nat \ {0, 1}      \* some pages are mounted with two requests
    /\ \A p \in DOMAIN MaxClicks : MaxClicks[p] \in Nat

VARIABLES
    page,      \* the page that is mounted; its route does not change
    clicks,    \* how often the user has done something
    calls,     \* the handlers that wait, each for one request
    open,      \* the dialog that is shown, or "none"
    hiding     \* dialogs that are fading out: hidden.bs.modal is to come

browserVars == <<page, clicks, calls, open, hiding>>

Slots == 1..MaxCalls

Idle == [op |-> "idle", arg |-> <<>>, stage |-> "idle", ok |-> FALSE, data |-> <<>>]

Sent(op, arg) == [op |-> op, arg |-> arg, stage |-> "sent", ok |-> FALSE, data |-> <<>>]

Is(n, op) == calls[n].op = op

(* The first free slot: which one a handler gets makes no difference.      *)
Free(n) == /\ Is(n, "idle")
           /\ \A m \in 1..(n - 1) : ~Is(m, "idle")

Waits(n, op) == Is(n, op) /\ calls[n].stage = "sent"
Resumes(n, op) == Is(n, op) /\ calls[n].stage = "answered"
Ok(n) == calls[n].ok

InFlight(op) == \E n \in Slots : Is(n, op)
InFlightFor(op, arg) == \E n \in Slots : Is(n, op) /\ calls[n].arg = arg
Quiet == \A n \in Slots : Is(n, "idle")

Send(n, op, arg) == calls' = [calls EXCEPT ![n] = Sent(op, arg)]

(* The handler in n goes on to another request, and an effect of React     *)
(* sends one of its own in m.                                              *)
SendBoth(n, op, arg, m, effect, effectArg) ==
    /\ m # n /\ Is(m, "idle") /\ \A k \in 1..(m - 1) : k = n \/ ~Is(k, "idle")
    /\ calls' = [calls EXCEPT ![n] = Sent(op, arg), ![m] = Sent(effect, effectArg)]

Answer(n, data) ==
    calls' = [calls EXCEPT ![n] = [@ EXCEPT !.stage = "answered", !.ok = TRUE, !.data = data]]

Finish(n) == calls' = [calls EXCEPT ![n] = Idle]

(* The request or its answer is lost, or the server refuses.               *)
CallFails(n) ==
    /\ calls[n].stage = "sent" \/ Ok(n)
    /\ calls' = [calls EXCEPT ![n] = [@ EXCEPT !.stage = "answered", !.ok = FALSE, !.data = <<>>]]
    /\ UNCHANGED <<open, hiding>>

Clicked == clicks < MaxClicks[page] /\ clicks' = clicks + 1

BrowserInit(mount) ==
    /\ clicks = 0
    /\ calls = [n \in Slots |-> IF n \in DOMAIN mount THEN mount[n] ELSE Idle]
    /\ open = "none"
    /\ hiding = {}

-----------------------------------------------------------------------------
(* Dialogs.  While one is shown or fading its backdrop covers the page.    *)

Uncovered == open = "none" /\ hiding = {}

Shows(d) == open = d /\ hiding = {}

NoDialogChange == UNCHANGED <<open, hiding>>

(* hide(): the handler of hidden.bs.modal runs when the dialog has faded.  *)
Dismiss(d) == IF open = d THEN open' = "none" /\ hiding' = hiding \cup {d}
                          ELSE NoDialogChange

(* show(): does nothing for a dialog that is shown or fades.               *)
Show(d) == IF d \in hiding THEN NoDialogChange ELSE open' = d /\ UNCHANGED hiding

(* A click on a button with data-bs-toggle: whatever dialog is shown is    *)
(* hidden first, the very dialog that is to be shown included, and a       *)
(* dialog that fades cannot be shown.                                      *)
Toggle(d) ==
    /\ hiding' = IF open = "none" THEN hiding ELSE hiding \cup {open}
    /\ open' = IF d \in hiding' THEN "none" ELSE d

Faded(d) == d \in hiding /\ hiding' = hiding \ {d}
=============================================================================
