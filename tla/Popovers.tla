------------------------------ MODULE Popovers ------------------------------
(***************************************************************************)
(* The strip above the table of usage events: the panel with the filters,  *)
(* which fades in and out, the picker of a range of days and the one of    *)
(* the size of a page.                                                     *)
(*                                                                         *)
(* usePresence keeps the panel in the page until it has faded: an effect   *)
(* starts a frame, and a timer when the panel is closed, and each run of   *)
(* it cancels those of the run before.  Frames and timers come in any      *)
(* order: a page in the background has timers and no frames.               *)
(***************************************************************************)
EXTENDS Browser

CONSTANT Ranges      \* the ranges of days

VARIABLES
    filtersOpen,     \* open of the panel with the filters
    present, phase,  \* usePresence(open, 160)
    frame,           \* the phase that the next frame sets, or "none"
    timer,           \* the timer that removes the panel runs
    positioned,      \* pos of useAnchoredPopover is not null
    posFrame,        \* a frame that sets pos is to come
    rangeOpen,
    given,           \* start and end, as the page has them
    temp,            \* tempStart and tempEnd
    limitOpen

presenceVars == <<filtersOpen, present, phase, frame, timer>>
panelVars == <<presenceVars, positioned, posFrame>>
pickerVars == <<rangeOpen, given, temp, limitOpen>>
popoverVars == <<panelVars, pickerVars>>

PopoversInit ==
    /\ filtersOpen = FALSE /\ present = FALSE /\ phase = "leave"
    /\ frame = "leave" /\ timer = TRUE
    /\ positioned = FALSE /\ posFrame = TRUE
    /\ rangeOpen = FALSE /\ given \in Ranges /\ temp = given
    /\ limitOpen = FALSE

-----------------------------------------------------------------------------
(* The panel with the filters.                                             *)

(* Mutant: the timer of the run before goes on.                            *)
PresenceEffectKeeps(o) ==
    /\ frame' = IF o THEN "enter" ELSE "leave"
    /\ timer' = (timer \/ ~o)

PresenceEffect(o) ==
    /\ frame' = IF o THEN "enter" ELSE "leave"
    /\ timer' = ~o

(* Every render makes onClose anew, and the effect of useAnchoredPopover   *)
(* asks for another frame.                                                 *)
SetFilters(o) ==
    /\ filtersOpen' = o
    /\ IF o = filtersOpen THEN UNCHANGED <<frame, timer, posFrame>>
                          ELSE PresenceEffect(o) /\ posFrame' = TRUE
    /\ UNCHANGED <<present, phase, positioned>>

PresenceFrame ==
    /\ frame # "none"
    /\ frame' = "none"
    /\ phase' = frame
    /\ present' = (present \/ frame = "enter")
    /\ posFrame' = (posFrame \/ phase' # phase \/ present' # present)
    /\ UNCHANGED <<filtersOpen, timer, positioned, pickerVars>>

PresenceTimer ==
    /\ timer
    /\ timer' = FALSE
    /\ present' = FALSE
    /\ posFrame' = (posFrame \/ present)
    /\ UNCHANGED <<filtersOpen, phase, frame, positioned, pickerVars>>

(* A position is another object each time, so that setting it renders the  *)
(* panel and asks for the next frame, as long as the panel is there.       *)
Reposition ==
    /\ posFrame
    /\ positioned' = present
    /\ posFrame' = (present \/ positioned)
    /\ UNCHANGED <<presenceVars, pickerVars>>

(* Pointerdown and mousedown close what does not contain their target.     *)
PressBesideFilters == SetFilters(filtersOpen /\ ~present)
PressBesideRange == rangeOpen' = FALSE /\ UNCHANGED <<given, temp>>
PressBesideLimit == limitOpen' = FALSE

ToggleFilters ==
    /\ SetFilters(~filtersOpen)
    /\ PressBesideRange /\ PressBesideLimit

CollapseFilters ==
    /\ present /\ positioned
    /\ SetFilters(FALSE)
    /\ PressBesideRange /\ PressBesideLimit

EscapeKey == present /\ SetFilters(FALSE) /\ UNCHANGED pickerVars

ClickElsewhere == PressBesideFilters /\ PressBesideRange /\ PressBesideLimit

-----------------------------------------------------------------------------
(* The pickers.                                                            *)

(* What the panel holds is read from the page when it is opened only.      *)
HandleToggle ==
    /\ rangeOpen' = ~rangeOpen
    /\ temp' = IF rangeOpen THEN temp ELSE given
    /\ UNCHANGED given
    /\ PressBesideFilters /\ PressBesideLimit

HandleRangeSelect(r) ==
    /\ rangeOpen
    /\ temp' = r
    /\ UNCHANGED <<rangeOpen, given>>
    /\ PressBesideFilters /\ PressBesideLimit

HandleConfirm ==
    /\ rangeOpen
    /\ given' = temp /\ rangeOpen' = FALSE
    /\ UNCHANGED temp
    /\ PressBesideFilters /\ PressBesideLimit

ToggleLimit == limitOpen' = ~limitOpen /\ PressBesideFilters /\ PressBesideRange

ChooseLimit == limitOpen /\ limitOpen' = FALSE /\ PressBesideFilters /\ PressBesideRange

(* An answer of the server fills in the days that were left open.          *)
AnswerFills ==
    /\ given' \in Ranges \ {given}
    /\ UNCHANGED <<panelVars, rangeOpen, temp, limitOpen>>

-----------------------------------------------------------------------------

PopoversClick ==
    \/ ToggleFilters \/ CollapseFilters \/ EscapeKey \/ ClickElsewhere
    \/ HandleToggle \/ HandleConfirm
    \/ \E r \in Ranges : HandleRangeSelect(r)
    \/ ToggleLimit \/ ChooseLimit \/ AnswerFills

PopoversStep == PresenceFrame \/ PresenceTimer \/ Reposition

PopoversNext ==
    /\ page = "popovers"
    /\ \/ PopoversClick /\ Clicked
       \/ PopoversStep /\ UNCHANGED clicks
    /\ UNCHANGED <<page, calls>> /\ NoDialogChange

-----------------------------------------------------------------------------
(* The panel is in the page when it is open, and out of it when it is not, *)
(* or a frame or a timer is to come that makes it so; what is to come      *)
(* never undoes what was clicked last.                                     *)
PanelFollows ==
    page = "popovers" =>
        /\ filtersOpen /\ ~present => frame = "enter"
        /\ ~filtersOpen /\ present => timer
        /\ filtersOpen => ~timer
        /\ frame = "none" => phase = IF filtersOpen THEN "enter" ELSE "leave"
=============================================================================
