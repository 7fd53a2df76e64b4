------------------------------ MODULE HoverTooltip -------------------------------
(***************************************************************************)
(* Hovering over a row of the torrent table or of the content list: the    *)
(* tooltips of its labels, of which the manager shows one at a time, and   *)
(* the highlight of the row, which outlives the gaps between its labels.   *)
(*                                                                         *)
(* Both end, and delayed tooltips begin, with a timer whose function       *)
(* queues a call on the UI goroutine. Stop only helps before the timer has *)
(* fired: a call that is queued already runs, and then meets whatever the  *)
(* pointer and other timers have done meanwhile.                           *)
(*                                                                         *)
(* Time is left out: a timer fires when it likes. So is the order of the   *)
(* queued calls, which is more than the UI goroutine allows. A tooltip is  *)
(* only shown for text that is cut off, so any MouseIn may go without.     *)
(***************************************************************************)
EXTENDS Naturals

CONSTANTS
    Labels,       \* the labels of a row
    Delayed,      \* those that show their tooltip after a delay
    NoLabel,
    MaxLate       \* calls per label and kind that wait in the UI queue

ASSUME LabelsAssumption == NoLabel \notin Labels /\ Delayed \subseteq Labels
ASSUME LateAssumption == MaxLate \in Nat \ {0}

VARIABLES
    pointer,      \* the label under the pointer
    shown,        \* the owner of the tooltip on the screen
    hovered,      \* hoverTooltipOwner.hovered
    showTimer,    \* hoverTooltipOwner.show: nil, running, or fired
    strayTimers,  \* timers that run although show has been set to nil
    finishShows,  \* queued calls of finishShow
    hideTimer,    \* hoverTooltipOwner.hide runs
    finishHides,  \* queued calls of finishHide
    rowHovered,   \* the row is highlighted
    rowTimer,     \* hoverTimer of the row
    strayRowTimers,
    rowFinishes   \* queued calls of finishHoverOut

showVars  == <<showTimer, strayTimers, finishShows>>
hideVars  == <<hideTimer, finishHides>>
rowVars   == <<rowHovered, rowTimer, strayRowTimers, rowFinishes>>
hoverVars == <<pointer, shown, hovered, showVars, hideVars, rowVars>>

TimerStates == {"nil", "running", "fired"}

HoverInit ==
    /\ pointer = NoLabel /\ shown = NoLabel
    /\ hovered = [l \in Labels |-> FALSE]
    /\ showTimer = [l \in Labels |-> "nil"]
    /\ strayTimers = [l \in Labels |-> 0] /\ finishShows = [l \in Labels |-> 0]
    /\ hideTimer = [l \in Labels |-> FALSE] /\ finishHides = [l \in Labels |-> 0]
    /\ rowHovered = FALSE /\ rowTimer = "nil"
    /\ strayRowTimers = 0 /\ rowFinishes = 0

Set(f, l, v)   == [f EXCEPT ![l] = v]
More(f, l)     == [f EXCEPT ![l] = f[l] + 1]
Less(f, l)     == [f EXCEPT ![l] = f[l] - 1]

-----------------------------------------------------------------------------
(* The tooltip of a label, on the UI goroutine. *)

\* showTooltip: the manager replaces the tooltip of another label.
ShowTooltip(l) ==
    /\ shown' = l
    /\ hovered' = Set(hovered, l, TRUE)
    /\ hideTimer' = Set(hideTimer, l, FALSE)

\* hideTooltip: the manager hides the tooltip of this label only.
HideTooltip(l) ==
    /\ shown' = IF shown = l THEN NoLabel ELSE shown
    /\ hideTimer' = Set(hideTimer, l, FALSE)

\* cancelShow stops a timer that has not fired.
CancelShow(l) == showTimer' = Set(showTimer, l, "nil")

\* scheduleHide.
ScheduleHide(l) ==
    /\ CancelShow(l)
    /\ hovered' = Set(hovered, l, FALSE)
    /\ hideTimer' = Set(hideTimer, l, TRUE)

\* hoverIn and hoverOut of the row.
HoverIn ==
    /\ rowTimer' = "nil"
    /\ rowHovered' = TRUE
    /\ UNCHANGED <<strayRowTimers, rowFinishes>>

HoverOut ==
    /\ rowTimer' = "running"
    /\ UNCHANGED <<rowHovered, strayRowTimers, rowFinishes>>

\* The pointer enters a label, ...
MouseIn(l) ==
    /\ pointer = NoLabel /\ pointer' = l
    /\ strayTimers[l] + finishShows[l] <= MaxLate
    /\ strayRowTimers + rowFinishes <= MaxLate
    /\ HoverIn
    /\ \/ UNCHANGED <<shown, hovered, showTimer, hideTimer>>
       \/ /\ l \in Delayed
          /\ showTimer' = Set(showTimer, l, "running")
          /\ UNCHANGED <<shown, hovered, hideTimer>>
       \/ l \notin Delayed /\ CancelShow(l) /\ ShowTooltip(l)
    /\ UNCHANGED <<strayTimers, finishShows, finishHides>>

\* ... and leaves it, for another one or for the space between.
MouseOut ==
    /\ pointer # NoLabel /\ pointer' = NoLabel
    /\ HoverOut
    /\ ScheduleHide(pointer)
    /\ UNCHANGED <<shown, strayTimers, finishShows, finishHides>>

\* SetText: a row that scrolled, or a poll, binds the label anew.
SetText(l) ==
    /\ CancelShow(l) /\ HideTooltip(l)
    /\ UNCHANGED <<pointer, hovered, strayTimers, finishShows, finishHides, rowVars>>

-----------------------------------------------------------------------------
(* Timers fire, and their calls run on the UI goroutine. *)

ShowTimerFires(l) ==
    /\ finishShows[l] < MaxLate
    /\ \/ /\ showTimer[l] = "running"
          /\ showTimer' = Set(showTimer, l, "fired")
          /\ UNCHANGED strayTimers
       \/ /\ strayTimers[l] > 0
          /\ strayTimers' = Less(strayTimers, l)
          /\ UNCHANGED showTimer
    /\ finishShows' = More(finishShows, l)
    /\ UNCHANGED <<pointer, shown, hovered, hideVars, rowVars>>

\* Variant: the call does not look whether it has been cancelled.
FinishShowAlways(l) ==
    /\ finishShows[l] > 0
    /\ finishShows' = Less(finishShows, l)
    /\ ShowTooltip(l) /\ CancelShow(l)
    /\ UNCHANGED <<pointer, strayTimers, finishHides, rowVars>>

\* finishShow: a call that finds a newer timer takes it for its own, and that timer
\* is left running.
FinishShow(l) ==
    /\ finishShows[l] > 0
    /\ finishShows' = Less(finishShows, l)
    /\ \/ showTimer[l] = "nil" /\ UNCHANGED <<shown, hovered, hideTimer, showTimer, strayTimers>>
       \/ /\ showTimer[l] # "nil"
          /\ ShowTooltip(l)
          /\ showTimer' = Set(showTimer, l, "nil")
          /\ strayTimers' = IF showTimer[l] = "running" THEN More(strayTimers, l)
                                                        ELSE strayTimers
    /\ UNCHANGED <<pointer, finishHides, rowVars>>

HideTimerFires(l) ==
    /\ hideTimer[l] /\ finishHides[l] < MaxLate
    /\ hideTimer' = Set(hideTimer, l, FALSE)
    /\ finishHides' = More(finishHides, l)
    /\ UNCHANGED <<pointer, shown, hovered, showVars, rowVars>>

\* finishHide.
FinishHide(l) ==
    /\ finishHides[l] > 0
    /\ finishHides' = Less(finishHides, l)
    /\ \/ hovered[l] /\ UNCHANGED <<shown, hideTimer>>
       \/ ~hovered[l] /\ HideTooltip(l)
    /\ UNCHANGED <<pointer, hovered, showVars, rowVars>>

RowTimerFires ==
    /\ rowFinishes < MaxLate
    /\ \/ rowTimer = "running" /\ rowTimer' = "fired" /\ UNCHANGED strayRowTimers
       \/ /\ strayRowTimers > 0 /\ strayRowTimers' = strayRowTimers - 1
          /\ UNCHANGED rowTimer
    /\ rowFinishes' = rowFinishes + 1
    /\ UNCHANGED <<pointer, shown, hovered, showVars, hideVars, rowHovered>>

\* Variant: only the call of the timer that has fired last darkens the row.
FinishHoverOutOnce ==
    /\ rowFinishes > 0
    /\ rowFinishes' = rowFinishes - 1
    /\ rowHovered' = (rowHovered /\ rowTimer # "fired")
    /\ rowTimer' = "nil"
    /\ UNCHANGED <<pointer, shown, hovered, showVars, hideVars, strayRowTimers>>

\* finishHoverOut: it does not look whether the pointer has come back, so it may
\* darken the row under it; and a newer timer is left running, to do so again.
FinishHoverOut ==
    /\ rowFinishes > 0
    /\ rowFinishes' = rowFinishes - 1
    /\ rowHovered' = FALSE
    /\ rowTimer' = "nil"
    /\ strayRowTimers' = IF rowTimer = "running" THEN strayRowTimers + 1
                                                ELSE strayRowTimers
    /\ UNCHANGED <<pointer, shown, hovered, showVars, hideVars>>

-----------------------------------------------------------------------------

LabelStep(l) ==
    ShowTimerFires(l) \/ FinishShow(l) \/ HideTimerFires(l) \/ FinishHide(l)

RowStep == RowTimerFires \/ FinishHoverOut

HoverNext ==
    \/ \E l \in Labels : MouseIn(l) \/ SetText(l) \/ LabelStep(l)
    \/ MouseOut \/ RowStep

\* Timers fire and the UI goroutine runs what is queued.
HoverFairness ==
    /\ \A l \in Labels : WF_hoverVars(LabelStep(l))
    /\ WF_hoverVars(RowStep)

HoverSpec == HoverInit /\ [][HoverNext]_hoverVars /\ HoverFairness

-----------------------------------------------------------------------------
(* Properties. *)

\* The variables keep their types, within their bounds.
HoverTypeOK ==
    /\ pointer \in Labels \cup {NoLabel} /\ shown \in Labels \cup {NoLabel}
    /\ hovered \in [Labels -> BOOLEAN] /\ hideTimer \in [Labels -> BOOLEAN]
    /\ showTimer \in [Labels -> TimerStates] /\ rowTimer \in TimerStates
    /\ strayTimers \in [Labels -> 0 .. MaxLate + 1]
    /\ finishShows \in [Labels -> 0 .. MaxLate]
    /\ finishHides \in [Labels -> 0 .. MaxLate]
    /\ rowHovered \in BOOLEAN
    /\ strayRowTimers \in 0 .. MaxLate + 1 /\ rowFinishes \in 0 .. MaxLate

\* finishShow, finishHide: a tooltip never stays behind. The one on the screen
\* belongs to the label under the pointer, or its hiding is on the way, though a
\* show that was cancelled too late may still be queued.
TooltipFollowsPointer ==
    shown # NoLabel =>
        \/ shown = pointer
        \/ ~hovered[shown] /\ (hideTimer[shown] \/ finishHides[shown] > 0)

\* scheduleHide, hoverOut: once the pointer has gone, and stays away, so do the
\* tooltip and the highlight of the row, though hoverIn and hoverOut stop each
\* other's timers.
HoverEnds ==
    pointer = NoLabel ~>
        (shown = NoLabel /\ ~rowHovered) \/ pointer # NoLabel
==================================================================================
