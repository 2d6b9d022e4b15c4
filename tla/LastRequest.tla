----------------------------- MODULE LastRequest -----------------------------
(***************************************************************************)
(* What a part of a page promises that loads what was asked for last: it   *)
(* shows that, or says that it could not be had, or is still loading, and  *)
(* it never goes back to what was asked for before.                        *)
(*                                                                         *)
(* The code keeps the promise with requests that may overtake each other   *)
(* and a flag of each that makes its answer count or not; here there are   *)
(* neither requests nor answers.                                           *)
(***************************************************************************)
CONSTANTS Nothing,   \* wanted when there is nothing to show
          Failed     \* shown instead of what could not be had

VARIABLES wanted, shown, busy

vars == <<wanted, shown, busy>>

Init == wanted = Nothing /\ shown = Nothing /\ busy = FALSE

(* Something is asked for, the same again perhaps; or nothing any more.    *)
Ask == wanted' # Nothing /\ busy' = TRUE /\ UNCHANGED shown

Drop == wanted' = Nothing /\ shown' = Nothing /\ busy' = FALSE

Come ==
    /\ busy
    /\ busy' = FALSE
    /\ shown' \in {wanted, Failed}
    /\ UNCHANGED wanted

Next == Ask \/ Drop \/ Come

Spec == Init /\ [][Next]_vars

(* When nothing is loading, what is shown is what was asked for last.      *)
UpToDate == ~busy => shown \in {wanted, Failed}
=============================================================================
