----------------------------- MODULE InterfaceProofs -----------------------------
(***************************************************************************)
(* Proofs about the parts of the windows: AddWindow for every set of texts,*)
(* every relation between texts and recent paths and every number of edits,*)
(* HoverTooltip for every set of labels and every bound on the calls that  *)
(* wait, TorrentSelection for every finite set of torrents and every query,*)
(* and Interface, which puts them together.                                *)
(***************************************************************************)
EXTENDS Interface, ContentTreeProofs

-----------------------------------------------------------------------------
(* The add window. *)

USE TextsAssumption, EditsAssumption

\* A flag that is lowered or kept is a flag.
LEMMA LoweredFlag ==
    ASSUME NEW flag \in BOOLEAN, NEW next, next = FALSE \/ next = flag
    PROVE  next \in BOOLEAN /\ (next => flag)
<1>1. CASE next = FALSE
  BY <1>1, Zenon
<1>2. CASE next = flag
  BY <1>2, Zenon
<1> QED
  BY <1>1, <1>2, Zenon

-----------------------------------------------------------------------------
(* Fetches. *)

LEMMA FetchTypes ==
    /\ NoFetch \in Fetch
    /\ \A q \in Texts : Scheduled(q) \in Fetch
    /\ \A q \in Texts : [NoFetch EXCEPT !.at = "done", !.query = q] \in Fetch
    /\ \A f \in Fetch, at \in {"none", "timer", "fired", "asked", "queued", "done"} :
          [f EXCEPT !.at = at] \in Fetch
    /\ \A f \in Fetch : [f EXCEPT !.cancelled = TRUE] \in Fetch
    /\ \A f \in Fetch, failed \in BOOLEAN :
          [f EXCEPT !.at = "queued", !.failed = failed] \in Fetch
BY DEF NoFetch, Scheduled, Fetch

LEMMA FetchFields ==
    /\ NoFetch.at = "none"
    /\ \A q \in Texts : Scheduled(q).at = "timer"
    /\ \A q : [NoFetch EXCEPT !.at = "done", !.query = q].at = "done"
    /\ \A f \in Fetch, at \in {"none", "timer", "fired", "asked", "queued", "done"} :
          LET m == [f EXCEPT !.at = at] IN m.at = at /\ m.cancelled = f.cancelled
    /\ \A f \in Fetch : LET c == [f EXCEPT !.cancelled = TRUE]
                        IN  c.at = f.at /\ c.cancelled = TRUE
    /\ \A f \in Fetch, failed \in BOOLEAN :
          [f EXCEPT !.at = "queued", !.failed = failed].at = "queued"
BY DEF NoFetch, Scheduled, Fetch

\* Abandoning the timer and the request of the moment leaves a table of fetches in
\* which every fetch that was asked still is, the one in the request as cancelled.
LEMMA AbandonedFetches ==
    ASSUME AddTypeOK
    PROVE  /\ Abandoned \in [Edits -> Fetch]
           /\ \A g \in Edits : Abandoned[g].at = "asked" =>
                 /\ fetch[g].at = "asked"
                 /\ Abandoned[g].cancelled \/ (g # request /\ ~fetch[g].cancelled)
<1>1. \A g \in Edits : fetch[g] \in Fetch
  BY DEF AddTypeOK
<1>2. \A g \in Edits : /\ [fetch[g] EXCEPT !.at = "done"] \in Fetch
                       /\ [fetch[g] EXCEPT !.cancelled = TRUE] \in Fetch
  BY <1>1, FetchTypes
<1>3. \A g \in Edits : /\ [fetch[g] EXCEPT !.at = "done"].at = "done"
                       /\ [fetch[g] EXCEPT !.cancelled = TRUE].at = fetch[g].at
                       /\ [fetch[g] EXCEPT !.cancelled = TRUE].cancelled
                       /\ fetch[g].cancelled \in BOOLEAN
  BY <1>1, FetchFields DEF Fetch
<1> QED
  BY <1>1, <1>2, <1>3 DEF Abandoned

\* The table after an edit.
LEMMA ScheduledFetches ==
    ASSUME AddTypeOK, NEW q \in Texts, generation < MaxEdits, ScheduleRemoteFetch(q)
    PROVE  /\ fetch' \in [Edits -> Fetch]
           /\ generation' = generation + 1 /\ generation' \in 0 .. MaxEdits /\ request' = 0
           /\ \A g \in Edits : fetch'[g].at = "asked" => fetch'[g] = Abandoned[g]
<1>1. generation + 1 \in Edits /\ generation + 1 \in 0 .. MaxEdits
  BY DEF AddTypeOK, Edits
<1>2. Scheduled(q) \in Fetch /\ Scheduled(q).at = "timer"
  BY FetchTypes, FetchFields
<1>3. fetch' = Abandoned \/ fetch' = [Abandoned EXCEPT ![generation + 1] = Scheduled(q)]
  BY DEF ScheduleRemoteFetch
<1>4. fetch' \in [Edits -> Fetch]
  BY <1>2, <1>3, AbandonedFetches
<1>5. \A g \in Edits : fetch'[g] = Abandoned[g] \/ fetch'[g].at = "timer"
  BY <1>1, <1>2, <1>3, AbandonedFetches
<1> QED
  BY <1>1, <1>4, <1>5 DEF ScheduleRemoteFetch

\* The state a window opens in.
LEMMA OpeningTypes ==
    ASSUME NEW path, NEW edits, NEW fetches, NEW offered, NEW default,
           Opening(path, edits, fetches, offered, default)
    PROVE  /\ path \in Texts /\ edits \in 0 .. MaxEdits /\ default \in {"asked", "done"}
           /\ fetches \in [Edits -> Fetch]
           /\ \A g \in Edits : fetches[g].at # "asked"
           /\ offered \in [query : Texts, empty : BOOLEAN]
<1>1. path \in Texts /\ edits \in 0 .. MaxEdits /\ default \in {"asked", "done"}
  BY DEF Opening
<1>2. \/ fetches = [g \in Edits |-> NoFetch]
      \/ fetches = [g \in Edits |-> IF g = 1 THEN Scheduled(path) ELSE NoFetch]
  BY DEF Opening
<1>3. /\ NoFetch \in Fetch /\ Scheduled(path) \in Fetch
      /\ NoFetch.at = "none" /\ Scheduled(path).at = "timer"
  BY <1>1, FetchTypes, FetchFields
<1>4. fetches \in [Edits -> Fetch] /\ \A g \in Edits : fetches[g].at # "asked"
  BY <1>2, <1>3
<1>5. offered \in [query : Texts, empty : BOOLEAN]
  BY <1>1 DEF Opening, LocalSuggestions
<1> QED
  BY <1>1, <1>4, <1>5

-----------------------------------------------------------------------------
(* Invariants. A listing that is under way and not cancelled is the one that  *)
(* requestGen names, and that of the last edit: an edit, and the closing of   *)
(* the window, cancel what requestGen names, and a listing that returns gives *)
(* up requestGen only if it is its own.                                       *)

RequestInv ==
    \A g \in Edits :
        fetch[g].at = "asked" /\ ~fetch[g].cancelled
            => request = g /\ g = generation /\ windowOpen

AddInv == AddTypeOK /\ RequestInv

LEMMA AddInvInit == AddInit => AddInv
<1> SUFFICES ASSUME AddInit
             PROVE  AddInv
  OBVIOUS
<1>1. /\ text \in Texts /\ generation \in 0 .. MaxEdits /\ defaultPath \in {"asked", "done"}
      /\ fetch \in [Edits -> Fetch]
      /\ \A g \in Edits : fetch[g].at # "asked"
      /\ suggestions \in [query : Texts, empty : BOOLEAN]
  BY OpeningTypes DEF AddInit
<1>2. /\ request = 0 /\ answered = 0 /\ focused = FALSE /\ popup = FALSE
      /\ windowOpen = TRUE /\ submit = "idle"
  BY DEF AddInit
<1>3. request \in 0 .. MaxEdits /\ answered \in 0 .. MaxEdits
  BY <1>2
<1>4. /\ focused \in BOOLEAN /\ popup \in BOOLEAN /\ windowOpen \in BOOLEAN /\ ~popup
      /\ submit \in {"idle", "sent"}
  BY <1>2, Zenon
<1>5. AddTypeOK
  BY <1>1, <1>3, <1>4, Zenon DEF AddTypeOK
<1>6. RequestInv
  BY <1>1, Zenon DEF RequestInv
<1> QED
  BY <1>5, <1>6 DEF AddInv

\* An edit, by the user or by the default path.
LEMMA AddInvEdit ==
    ASSUME AddInv, NEW q \in Texts, HandleChanged(q), windowOpen, UNCHANGED <<windowOpen, submit>>,
           defaultPath' \in {"asked", "done"}
    PROVE  AddInv'
<1>1. /\ fetch' \in [Edits -> Fetch]
      /\ generation' \in 0 .. MaxEdits /\ request' = 0
      /\ \A g \in Edits : fetch'[g].at = "asked" => fetch'[g] = Abandoned[g]
  BY ScheduledFetches DEF AddInv, HandleChanged
<1>2. LocalSuggestions(q) \in [query : Texts, empty : BOOLEAN]
  BY DEF LocalSuggestions
<1>3. /\ suggestions' \in [query : Texts, empty : BOOLEAN]
      /\ popup' \in BOOLEAN /\ (popup' => ~suggestions'.empty)
      /\ text' = q /\ UNCHANGED <<focused, answered>>
  BY <1>2 DEF HandleChanged, SetSuggestions
<1>4. AddTypeOK'
  BY <1>1, <1>3 DEF AddInv, AddTypeOK
<1>5. \A g \in Edits : fetch'[g].at = "asked" => fetch'[g].cancelled
  BY <1>1, AbandonedFetches DEF AddInv, RequestInv
<1> QED
  BY <1>4, <1>5 DEF AddInv, RequestInv

\* The window closes.
LEMMA AddInvClose ==
    ASSUME AddInv, CloseWindow, UNCHANGED defaultPath, submit' \in {"idle", "sent"}
    PROVE  AddInv'
<1>1. AddTypeOK'
  <2>1. /\ fetch' \in [Edits -> Fetch] /\ request' \in 0 .. MaxEdits
        /\ generation' \in 0 .. MaxEdits /\ answered' \in 0 .. MaxEdits
    BY AbandonedFetches DEF AddInv, AddTypeOK, CloseWindow
  <2>2. /\ text' \in Texts /\ suggestions' \in [query : Texts, empty : BOOLEAN]
        /\ defaultPath' \in {"asked", "done"}
    BY DEF AddInv, AddTypeOK, CloseWindow
  <2>3. focused' \in BOOLEAN /\ popup' \in BOOLEAN /\ windowOpen' \in BOOLEAN /\ ~popup'
    BY Zenon DEF CloseWindow
  <2> QED
    BY <2>1, <2>2, <2>3, Zenon DEF AddTypeOK
<1>2. \A g \in Edits : fetch'[g].at = "asked" => fetch'[g].cancelled
  BY AbandonedFetches DEF AddInv, RequestInv, CloseWindow
<1> QED
  BY <1>1, <1>2 DEF AddInv, RequestInv

\* A step of a fetch.
LEMMA AddInvFetch ==
    ASSUME AddInv, NEW g \in Edits, FetchStep(g)
    PROVE  AddInv'
<1> USE DEF entryVars, MoveFetch
<1>1. /\ fetch[g] \in Fetch /\ fetch[g].query \in Texts /\ fetch[g].cancelled \in BOOLEAN
      /\ g \in 0 .. MaxEdits /\ g # 0
  BY DEF AddInv, AddTypeOK, Fetch, Edits
<1>2. CASE TimerFires(g)
  <2> DEFINE r == [fetch[g] EXCEPT !.at = "fired"]
  <2>1. r \in Fetch /\ r.at = "fired" /\ fetch' = [fetch EXCEPT ![g] = r]
    BY <1>1, <1>2, FetchTypes, FetchFields DEF TimerFires
  <2> HIDE DEF r
  <2> QED
    BY <1>2, <2>1 DEF TimerFires, AddInv, AddTypeOK, RequestInv
<1>3. CASE RunRemoteFetch(g)
  <2>1. CASE ~windowOpen \/ g # generation
    <3> DEFINE r == [fetch[g] EXCEPT !.at = "done"]
    <3>1. r \in Fetch /\ r.at = "done" /\ fetch' = [fetch EXCEPT ![g] = r]
      BY <1>1, <1>3, <2>1, FetchTypes, FetchFields DEF RunRemoteFetch
    <3>2. UNCHANGED request
      BY <1>3, <2>1 DEF RunRemoteFetch
    <3> HIDE DEF r
    <3> QED
      BY <1>3, <3>1, <3>2 DEF RunRemoteFetch, AddInv, AddTypeOK, RequestInv
  <2>2. CASE windowOpen /\ g = generation
    <3> DEFINE r == [fetch[g] EXCEPT !.at = "asked"]
    <3>1. r \in Fetch /\ r.at = "asked" /\ fetch' = [fetch EXCEPT ![g] = r]
      BY <1>1, <1>3, <2>2, FetchTypes, FetchFields DEF RunRemoteFetch
    <3>2. request' = g
      BY <1>3, <2>2 DEF RunRemoteFetch
    <3> HIDE DEF r
    <3> QED
      BY <1>1, <1>3, <2>2, <3>1, <3>2 DEF RunRemoteFetch, AddInv, AddTypeOK, RequestInv
  <2> QED
    BY <2>1, <2>2 DEF AddInv, AddTypeOK
<1>4. CASE FetchReturns(g)
  <2>1. PICK r \in Returned(g) : fetch' = [fetch EXCEPT ![g] = r]
    BY <1>4 DEF FetchReturns
  <2>2. r \in Fetch /\ r.at \in {"queued", "done"}
    <3>1. CASE \E failed \in BOOLEAN : r = [fetch[g] EXCEPT !.at = "queued", !.failed = failed]
      <4>1. PICK failed \in BOOLEAN : r = [fetch[g] EXCEPT !.at = "queued", !.failed = failed]
        BY <3>1
      <4>2. r \in Fetch
        BY <1>1, <4>1, FetchTypes
      <4>3. r.at = "queued"
        BY <1>1, <4>1, FetchFields
      <4> QED
        BY <4>2, <4>3
    <3>2. CASE r = [NoFetch EXCEPT !.at = "done", !.query = fetch[g].query]
      BY <1>1, <3>2, FetchTypes, FetchFields
    <3> QED
      BY <2>1, <3>1, <3>2, Zenon DEF Returned
  <2>3. request' = IF request = g THEN 0 ELSE request
    BY <1>4 DEF FetchReturns
  <2> QED
    BY <1>4, <2>1, <2>2, <2>3 DEF FetchReturns, AddInv, AddTypeOK, RequestInv
<1>5. CASE ShowSuggestions(g)
  <2> DEFINE r == [NoFetch EXCEPT !.at = "done", !.query = fetch[g].query]
  <2>1. r \in Fetch /\ r.at = "done" /\ fetch' = [fetch EXCEPT ![g] = r]
    BY <1>1, <1>5, FetchTypes, FetchFields DEF ShowSuggestions
  <2> HIDE DEF r
  <2>2. /\ suggestions' \in [query : Texts, empty : BOOLEAN] /\ popup' \in BOOLEAN
        /\ popup' => windowOpen /\ ~suggestions'.empty
        /\ answered' \in 0 .. MaxEdits
    BY <1>1, <1>5 DEF ShowSuggestions, SetSuggestions, AddInv, AddTypeOK
  <2>3. UNCHANGED <<text, focused, generation, request, windowOpen, defaultPath, submit>>
    BY <1>5 DEF ShowSuggestions
  <2>4. AddTypeOK'
    BY <2>1, <2>2, <2>3 DEF AddInv, AddTypeOK
  <2> QED
    BY <2>1, <2>3, <2>4 DEF AddInv, AddTypeOK, RequestInv
<1> QED
  BY <1>2, <1>3, <1>4, <1>5 DEF FetchStep

\* A new window.
LEMMA AddInvOpen ==
    ASSUME AddInv, OpenAddWindow
    PROVE  AddInv'
<1>1. /\ text' \in Texts /\ generation' \in 0 .. MaxEdits /\ defaultPath' \in {"asked", "done"}
      /\ fetch' \in [Edits -> Fetch]
      /\ \A g \in Edits : fetch'[g].at # "asked"
      /\ suggestions' \in [query : Texts, empty : BOOLEAN]
  BY OpeningTypes DEF OpenAddWindow
<1>2. /\ request' = 0 /\ answered' = 0 /\ windowOpen' = TRUE /\ ~windowOpen
      /\ UNCHANGED <<focused, popup, submit>>
  BY DEF OpenAddWindow
<1> QED
  BY <1>1, <1>2 DEF AddInv, AddTypeOK, RequestInv

\* Steps that touch no fetch and no window.
LEMMA AddInvEntry ==
    ASSUME AddInv,
           \/ AcceptSuggestion \/ KeyDown \/ DismissPopup
           \/ FocusGained \/ FocusLost \/ RestoreFocus \/ Submit
    PROVE  AddInv'
<1>1. UNCHANGED <<fetchVars, windowOpen, defaultPath>>
  BY DEF AcceptSuggestion, KeyDown, DismissPopup, FocusGained, FocusLost, RestoreFocus, Submit
<1>2. RequestInv'
  BY <1>1 DEF AddInv, RequestInv, fetchVars
<1>3. /\ text' \in Texts /\ focused' \in BOOLEAN /\ popup' \in BOOLEAN
      /\ suggestions' \in [query : Texts, empty : BOOLEAN]
      /\ popup' => windowOpen /\ ~suggestions'.empty
      /\ submit' \in {"idle", "sent"}
  <2> USE DEF AddInv, AddTypeOK, entryVars
  <2>0. focused \in BOOLEAN /\ popup \in BOOLEAN
    OBVIOUS
  <2>1. CASE AcceptSuggestion \/ DismissPopup \/ FocusLost
    <3>1. text' \in Texts /\ UNCHANGED suggestions
      BY <2>1 DEF AcceptSuggestion, DismissPopup, FocusLost
    <3>2. focused' = FALSE \/ focused' = focused
      BY <2>1, Zenon DEF AcceptSuggestion, DismissPopup, FocusLost
    <3>3. (popup' = FALSE \/ popup' = popup) /\ UNCHANGED submit
      BY <2>1, Zenon DEF AcceptSuggestion, DismissPopup, FocusLost
    <3>4. focused' \in BOOLEAN /\ popup' \in BOOLEAN /\ (popup' => popup)
      BY <2>0, <3>2, <3>3, LoweredFlag, Zenon
    <3> QED
      BY <3>1, <3>3, <3>4, Zenon
  <2>2. CASE KeyDown
    <3>1. LocalSuggestions(text) \in [query : Texts, empty : BOOLEAN]
      BY DEF LocalSuggestions
    <3>2. suggestions' \in [query : Texts, empty : BOOLEAN]
      BY <2>2, <3>1 DEF KeyDown
    <3>3. popup' = ~suggestions'.empty /\ windowOpen
      BY <2>2 DEF KeyDown
    <3>4. popup' \in BOOLEAN /\ (popup' => windowOpen /\ ~suggestions'.empty)
      BY <3>2, <3>3, Zenon
    <3> QED
      BY <2>2, <3>2, <3>4 DEF KeyDown
  <2>3. CASE FocusGained \/ RestoreFocus \/ Submit
    <3>1. UNCHANGED <<text, suggestions, popup>> /\ submit' \in {"idle", "sent"}
      BY <2>3 DEF FocusGained, RestoreFocus, Submit
    <3>2. focused' \in BOOLEAN
      BY <2>3, Zenon DEF FocusGained, RestoreFocus, Submit
    <3> QED
      BY <3>1, <3>2, Zenon
  <2> QED
    BY <2>1, <2>2, <2>3
<1> QED
  BY <1>1, <1>2, <1>3 DEF AddInv, AddTypeOK, fetchVars

LEMMA AddInvNext == AddInv /\ [AddNext]_addVars => AddInv'
<1> SUFFICES ASSUME AddInv, [AddNext]_addVars
             PROVE  AddInv'
  OBVIOUS
<1> USE DEF entryVars, fetchVars
<1>1. CASE EditPath
  BY <1>1, AddInvEdit DEF EditPath, AddInv, AddTypeOK
<1>2. CASE CancelWindow
  BY <1>2, AddInvClose DEF CancelWindow, AddInv, AddTypeOK
<1>3. CASE DefaultPathReturns
  <2>1. CASE UNCHANGED <<entryVars, fetchVars>>
    BY <1>3, <2>1 DEF DefaultPathReturns, AddInv, AddTypeOK, RequestInv
  <2>2. CASE windowOpen /\ \E path \in Texts \ {Blank} : HandleChanged(path)
    BY <1>3, <2>2, AddInvEdit DEF DefaultPathReturns
  <2> QED
    BY <1>3, <2>1, <2>2, Zenon DEF DefaultPathReturns
<1>4. CASE SubmitReturns
  <2>1. CASE UNCHANGED <<entryVars, fetchVars, windowOpen>>
    BY <1>4, <2>1 DEF SubmitReturns, AddInv, AddTypeOK, RequestInv
  <2>2. CASE CloseWindow
    BY <1>4, <2>2, AddInvClose DEF SubmitReturns
  <2> QED
    BY <1>4, <2>1, <2>2, Zenon DEF SubmitReturns
<1>5. CASE UNCHANGED addVars
  BY <1>5 DEF addVars, AddInv, AddTypeOK, RequestInv
<1> QED
  BY <1>1, <1>2, <1>3, <1>4, <1>5, AddInvFetch, AddInvOpen, AddInvEntry DEF AddNext

\* The variables keep their types, and a popup is visible only in an open window, with
\* suggestions in it.
THEOREM AddTypeCorrect == AddSpec => []AddTypeOK
<1>1. AddInv => AddTypeOK
  BY DEF AddInv
<1> QED
  BY AddInvInit, AddInvNext, <1>1, PTL DEF AddSpec

\* The server is only kept busy for the text in the entry: a directory listing that is
\* under way after another edit, or after the window closed, has been cancelled, in
\* whatever order earlier listings return.
THEOREM StaleFetchCorrect == AddSpec => []StaleFetchIsCancelled
<1>1. AddInv => StaleFetchIsCancelled
  BY DEF AddInv, RequestInv, StaleFetchIsCancelled
<1> QED
  BY AddInvInit, AddInvNext, <1>1, PTL DEF AddSpec

USE LabelsAssumption, LateAssumption, TorrentsAssumption, QueryAssumption

-----------------------------------------------------------------------------
(* Tooltips. A show timer that has not been cancelled belongs to the label    *)
(* under the pointer, since the pointer cancels it when it leaves. The timers *)
(* and calls of a label, and those of the row, never exceed their bound.      *)

Pending(f, state) == IF state = "running" THEN f + 1 ELSE f

TimerInv ==
    /\ \A l \in Labels :
          /\ showTimer[l] # "nil" => pointer = l
          /\ Pending(strayTimers[l] + finishShows[l], showTimer[l]) <= MaxLate + 1
    /\ Pending(strayRowTimers + rowFinishes, rowTimer) <= MaxLate + 1
    /\ pointer # NoLabel => rowTimer = "nil" /\ strayRowTimers + rowFinishes <= MaxLate

HoverInv == HoverTypeOK /\ TimerInv /\ TooltipFollowsPointer

LEMMA HoverInvInit == HoverInit => HoverInv
<1> SUFFICES ASSUME HoverInit
             PROVE  HoverInv
  OBVIOUS
<1>1. HoverTypeOK
  <2>1. /\ hovered \in [Labels -> BOOLEAN] /\ hideTimer \in [Labels -> BOOLEAN]
        /\ showTimer \in [Labels -> TimerStates] /\ rowTimer \in TimerStates
    BY DEF HoverInit, TimerStates
  <2>2. /\ strayTimers \in [Labels -> 0 .. MaxLate + 1]
        /\ finishShows \in [Labels -> 0 .. MaxLate]
        /\ finishHides \in [Labels -> 0 .. MaxLate]
        /\ strayRowTimers \in 0 .. MaxLate + 1 /\ rowFinishes \in 0 .. MaxLate
    BY DEF HoverInit
  <2>3. pointer = NoLabel /\ shown = NoLabel /\ rowHovered \in BOOLEAN
    BY Zenon DEF HoverInit
  <2> QED
    BY <2>1, <2>2, <2>3, Zenon DEF HoverTypeOK
<1>2. TimerInv
  BY DEF HoverInit, TimerInv, Pending
<1>3. TooltipFollowsPointer
  BY DEF HoverInit, TooltipFollowsPointer
<1> QED
  BY <1>1, <1>2, <1>3 DEF HoverInv

LEMMA HoverTypeNext == HoverInv /\ [HoverNext]_hoverVars => HoverTypeOK'
<1> SUFFICES ASSUME HoverInv, [HoverNext]_hoverVars
             PROVE  HoverTypeOK'
  OBVIOUS
<1> USE DEF HoverInv, HoverTypeOK, TimerStates, TimerInv, Pending, Set, More, Less, showVars,
            hideVars, rowVars
<1>1. ASSUME NEW l \in Labels, MouseIn(l)
      PROVE  HoverTypeOK'
  BY <1>1 DEF MouseIn, HoverIn, CancelShow, ShowTooltip
<1>2. CASE MouseOut
  BY <1>2 DEF MouseOut, HoverOut, ScheduleHide, CancelShow
<1>3. ASSUME NEW l \in Labels, SetText(l)
      PROVE  HoverTypeOK'
  BY <1>3 DEF SetText, CancelShow, HideTooltip
<1>4. ASSUME NEW l \in Labels, ShowTimerFires(l)
      PROVE  HoverTypeOK'
  BY <1>4 DEF ShowTimerFires
<1>5. ASSUME NEW l \in Labels, FinishShow(l)
      PROVE  HoverTypeOK'
  <2>1. finishShows' \in [Labels -> 0 .. MaxLate]
    BY <1>5 DEF FinishShow
  <2>2. CASE UNCHANGED <<shown, hovered, hideTimer, showTimer, strayTimers>>
    BY <1>5, <2>1, <2>2 DEF FinishShow
  <2>3. CASE /\ ShowTooltip(l) /\ showTimer' = Set(showTimer, l, "nil")
             /\ strayTimers' = IF showTimer[l] = "running" THEN More(strayTimers, l)
                                                           ELSE strayTimers
    <3>1. strayTimers' \in [Labels -> 0 .. MaxLate + 1]
      BY <1>5, <2>3 DEF FinishShow
    <3>2. /\ shown' = l /\ hovered' \in [Labels -> BOOLEAN]
          /\ hideTimer' \in [Labels -> BOOLEAN] /\ showTimer' \in [Labels -> TimerStates]
      BY <2>3 DEF ShowTooltip
    <3> QED
      BY <1>5, <2>1, <3>1, <3>2 DEF FinishShow
  <2> QED
    BY <1>5, <2>2, <2>3 DEF FinishShow
<1>6. ASSUME NEW l \in Labels, HideTimerFires(l)
      PROVE  HoverTypeOK'
  BY <1>6 DEF HideTimerFires
<1>7. ASSUME NEW l \in Labels, FinishHide(l)
      PROVE  HoverTypeOK'
  <2>1. finishHides' \in [Labels -> 0 .. MaxLate]
    BY <1>7 DEF FinishHide
  <2>2. CASE UNCHANGED <<shown, hideTimer>>
    BY <1>7, <2>1, <2>2 DEF FinishHide
  <2>3. CASE HideTooltip(l)
    BY <1>7, <2>1, <2>3 DEF FinishHide, HideTooltip
  <2> QED
    BY <1>7, <2>2, <2>3 DEF FinishHide
<1>8. CASE RowTimerFires
  BY <1>8 DEF RowTimerFires
<1>9. CASE FinishHoverOut
  <2>1. /\ rowFinishes' \in 0 .. MaxLate /\ strayRowTimers' \in 0 .. MaxLate + 1
        /\ rowTimer' \in TimerStates
    BY <1>9 DEF FinishHoverOut
  <2>2. rowHovered' \in BOOLEAN
    BY <1>9, Zenon DEF FinishHoverOut
  <2> QED
    BY <1>9, <2>1, <2>2 DEF FinishHoverOut
<1>10. CASE UNCHANGED hoverVars
  BY <1>10 DEF hoverVars
<1> QED
  BY <1>1, <1>2, <1>3, <1>4, <1>5, <1>6, <1>7, <1>8, <1>9, <1>10
  DEF HoverNext, LabelStep, RowStep

LEMMA TimerInvNext == HoverInv /\ [HoverNext]_hoverVars => TimerInv'
<1> SUFFICES ASSUME HoverInv, [HoverNext]_hoverVars
             PROVE  TimerInv'
  OBVIOUS
<1> USE DEF HoverInv, HoverTypeOK, TimerStates, TimerInv, Pending, Set, More, Less, showVars,
            hideVars, rowVars
<1>1. ASSUME NEW l \in Labels, MouseIn(l)
      PROVE  TimerInv'
  BY <1>1 DEF MouseIn, HoverIn, CancelShow, ShowTooltip
<1>2. CASE MouseOut
  BY <1>2 DEF MouseOut, HoverOut, ScheduleHide, CancelShow
<1>3. ASSUME NEW l \in Labels, SetText(l)
      PROVE  TimerInv'
  BY <1>3 DEF SetText, CancelShow, HideTooltip
<1>4. ASSUME NEW l \in Labels, ShowTimerFires(l)
      PROVE  TimerInv'
  BY <1>4 DEF ShowTimerFires
<1>5. ASSUME NEW l \in Labels, FinishShow(l)
      PROVE  TimerInv'
  BY <1>5 DEF FinishShow, ShowTooltip
<1>6. ASSUME NEW l \in Labels, HideTimerFires(l)
      PROVE  TimerInv'
  BY <1>6 DEF HideTimerFires
<1>7. ASSUME NEW l \in Labels, FinishHide(l)
      PROVE  TimerInv'
  BY <1>7 DEF FinishHide, HideTooltip
<1>8. CASE RowTimerFires
  BY <1>8 DEF RowTimerFires
<1>9. CASE FinishHoverOut
  BY <1>9 DEF FinishHoverOut
<1>10. CASE UNCHANGED hoverVars
  BY <1>10 DEF hoverVars
<1> QED
  BY <1>1, <1>2, <1>3, <1>4, <1>5, <1>6, <1>7, <1>8, <1>9, <1>10
  DEF HoverNext, LabelStep, RowStep

LEMMA TooltipNext == HoverInv /\ [HoverNext]_hoverVars => TooltipFollowsPointer'
<1> SUFFICES ASSUME HoverInv, [HoverNext]_hoverVars
             PROVE  TooltipFollowsPointer'
  OBVIOUS
<1> USE DEF HoverInv, HoverTypeOK, TooltipFollowsPointer, Set, More, Less, hideVars
<1>1. ASSUME NEW l \in Labels, MouseIn(l)
      PROVE  TooltipFollowsPointer'
  BY <1>1 DEF MouseIn, HoverIn, CancelShow, ShowTooltip
<1>2. CASE MouseOut
  BY <1>2 DEF MouseOut, HoverOut, ScheduleHide, CancelShow
<1>3. ASSUME NEW l \in Labels, SetText(l)
      PROVE  TooltipFollowsPointer'
  BY <1>3 DEF SetText, CancelShow, HideTooltip
<1>4. ASSUME NEW l \in Labels, ShowTimerFires(l)
      PROVE  TooltipFollowsPointer'
  BY <1>4 DEF ShowTimerFires
<1>5. ASSUME NEW l \in Labels, FinishShow(l)
      PROVE  TooltipFollowsPointer'
  BY <1>5 DEF FinishShow, ShowTooltip, TimerInv
<1>6. ASSUME NEW l \in Labels, HideTimerFires(l)
      PROVE  TooltipFollowsPointer'
  BY <1>6 DEF HideTimerFires
<1>7. ASSUME NEW l \in Labels, FinishHide(l)
      PROVE  TooltipFollowsPointer'
  BY <1>7 DEF FinishHide, HideTooltip
<1>8. CASE RowTimerFires \/ FinishHoverOut \/ UNCHANGED hoverVars
  BY <1>8 DEF RowTimerFires, FinishHoverOut, hoverVars
<1> QED
  BY <1>1, <1>2, <1>3, <1>4, <1>5, <1>6, <1>7, <1>8 DEF HoverNext, LabelStep, RowStep

LEMMA HoverInvNext == HoverInv /\ [HoverNext]_hoverVars => HoverInv'
BY HoverTypeNext, TimerInvNext, TooltipNext DEF HoverInv

\* The variables keep their types; stray timers and queued calls do not accumulate.
THEOREM HoverTypeCorrect == HoverSpec => []HoverTypeOK
<1>1. HoverInv => HoverTypeOK
  BY DEF HoverInv
<1> QED
  BY HoverInvInit, HoverInvNext, <1>1, PTL DEF HoverSpec

\* The tooltip on the screen belongs to the label under the pointer, or its hiding is
\* on the way, for any number of labels and of calls that wait in the queue.
THEOREM TooltipCorrect == HoverSpec => []TooltipFollowsPointer
<1>1. HoverInv => TooltipFollowsPointer
  BY DEF HoverInv
<1> QED
  BY HoverInvInit, HoverInvNext, <1>1, PTL DEF HoverSpec

-----------------------------------------------------------------------------
(* Lists. *)

\* SelectInSeq finds a member that passes the test, if there is one.
LEMMA SelectedInSeq ==
    ASSUME NEW S, NEW seq \in Seq(S), NEW chosen,
           \E i \in DOMAIN seq : seq[i] \in chosen
    PROVE  LET k == SelectInSeq(seq, LAMBDA t : t \in chosen)
           IN  k \in DOMAIN seq /\ seq[k] \in chosen
<1> DEFINE I == {i \in 1 .. Len(seq) : seq[i] \in chosen}
<1>1. I \in SUBSET Nat /\ I # {}
  OBVIOUS
<1>2. Min(I) \in I
  BY <1>1, LeastNatural DEF Min
<1>3. SelectInSeq(seq, LAMBDA t : t \in chosen) = Min(I)
  BY <1>1 DEF SelectInSeq
<1> QED
  BY <1>2, <1>3

LEMMA IndexInSeq ==
    ASSUME NEW S, NEW seq \in Seq(S), NEW u \in Elements(seq)
    PROVE  SelectInSeq(seq, LAMBDA v : v = u) \in DOMAIN seq
<1> DEFINE I == {i \in 1 .. Len(seq) : seq[i] = u}
<1>1. I \in SUBSET Nat /\ I # {}
  BY DEF Elements
<1>2. Min(I) \in I
  BY <1>1, LeastNatural DEF Min
<1>3. SelectInSeq(seq, LAMBDA v : v = u) = Min(I)
  BY <1>1 DEF SelectInSeq
<1> QED
  BY <1>2, <1>3

\* Orders of a finite set are lists of its members.
LEMMA OrdersAreLists ==
    ASSUME NEW set \in SUBSET Torrents, NEW order \in Orders(set)
    PROVE  order \in Seq(Torrents) /\ Elements(order) \subseteq set
<1>1. Cardinality(set) \in Nat
  BY FS_Subset, FS_CardinalityType
<1>2. order \in [1 .. Cardinality(set) -> set]
  BY DEF Orders
<1>3. Elements(order) \subseteq set
  BY <1>2 DEF Elements
<1>4. order \in Seq(Torrents)
  BY <1>1, <1>2
<1> QED
  BY <1>3, <1>4

\* The rows that the filter leaves are torrents of the list.
LEMMA RowsAreTorrents ==
    ASSUME NEW torrents \in Seq(Torrents), NEW query, NEW by,
           NEW list \in FilterAndSortTorrents(torrents, query, by)
    PROVE  list \in Seq(Torrents) /\ Elements(list) \subseteq Torrents
<1>1. Elements(torrents) \cap Matches(query, by) \in SUBSET Torrents
  BY DEF Elements
<1>2. list \in Orders(Elements(torrents) \cap Matches(query, by))
  BY DEF FilterAndSortTorrents
<1> QED
  BY <1>1, <1>2, OrdersAreLists

\* Where something that is selected is in a row, the new anchor is.
LEMMA AnchorIsSelected ==
    ASSUME NEW list \in Seq(Torrents), NEW chosen \in SUBSET Elements(list), chosen # {}
    PROVE  AnchorAmong(list, chosen) \in chosen
<1>1. \E i \in DOMAIN list : list[i] \in chosen
  BY DEF Elements
<1> DEFINE k == SelectInSeq(list, LAMBDA t : t \in chosen)
<1>2. FirstSelected(list, chosen) \in DOMAIN list /\ list[FirstSelected(list, chosen)] \in chosen
  <2>1. FirstSelected(list, chosen) = k
    BY <1>1 DEF FirstSelected
  <2>2. k \in DOMAIN list /\ list[k] \in chosen
    BY <1>1, SelectedInSeq
  <2> QED
    BY <2>1, <2>2
<1>3. FirstSelected(list, chosen) # 0
  BY <1>2
<1> QED
  BY <1>2, <1>3 DEF AnchorAmong

-----------------------------------------------------------------------------
(* The selection. *)

ListInv == ListTypeOK /\ SelectionIsVisible

LEMMA ListInvInit == ListInit => ListInv
<1> SUFFICES ASSUME ListInit
             PROVE  ListInv
  OBVIOUS
<1>1. <<>> \in FilterAndSortTorrents(<<>>, filterQuery, filterBy)
  <2>1. Elements(<<>>) \cap Matches(filterQuery, filterBy) = {} /\ Cardinality({}) = 0
    BY FS_EmptySet DEF Elements
  <2>2. <<>> \in [1 .. 0 -> {}] /\ DOMAIN <<>> = {}
    OBVIOUS
  <2>3. <<>> \in Orders({})
    BY <2>1, <2>2 DEF Orders
  <2> QED
    BY <2>1, <2>2, <2>3 DEF FilterAndSortTorrents
<1>2. /\ sorted = <<>> /\ visible = <<>> /\ selection = {} /\ highlighted = {}
      /\ anchor = NoTorrent /\ removing = {} /\ unpainted = FALSE /\ applying = <<>>
      /\ entry = "" /\ filterQuery = "" /\ filterTimer = NoText
      /\ filterBy \in {"name", "location"}
  BY DEF ListInit
<1>3. sorted \in Seq(Torrents) /\ applying \in Seq(FilterTexts)
  <2>1. <<>> \in Seq(Torrents) /\ <<>> \in Seq(FilterTexts)
    OBVIOUS
  <2> QED
    BY <1>2, <2>1
<1>4. ListTypeOK
  BY <1>1, <1>2, <1>3 DEF ListTypeOK, FilterTexts
<1>5. SelectionIsVisible
  BY <1>2 DEF SelectionIsVisible
<1> QED
  BY <1>4, <1>5 DEF ListInv

\* What pruning leaves, whatever the rows were before.
LEMMA RefreshedSelection ==
    ASSUME ListInv, NEW torrents \in Seq(Torrents), NEW query, NEW by,
           RefreshVisibleTorrents(torrents, query, by)
    PROVE  /\ SelectionIsVisible'
           /\ selection' \subseteq Torrents /\ highlighted' \subseteq Torrents
           /\ anchor' \in Torrents \cup {NoTorrent}
           /\ unpainted' \in BOOLEAN
           /\ visible' \in FilterAndSortTorrents(torrents, query, by)
<1>1. visible' \in FilterAndSortTorrents(torrents, query, by)
  BY DEF RefreshVisibleTorrents
<1>2. visible' \in Seq(Torrents) /\ Elements(visible') \subseteq Torrents
  BY <1>1, RowsAreTorrents
<1>3. selection' = selection \cap Elements(visible')
  BY DEF RefreshVisibleTorrents, PruneSelectionToVisible
<1>4. highlighted' = selection' /\ unpainted' = FALSE
  BY DEF RefreshVisibleTorrents, RefreshTorrentSelection
<1>5. /\ anchor' \in Elements(visible') \cup {NoTorrent}
      /\ anchor' = NoTorrent <=> selection' = {}
  <2>1. CASE selection' = {}
    BY <2>1 DEF RefreshVisibleTorrents, PruneSelectionToVisible
  <2>2. CASE selection' # {} /\ anchor \in Elements(visible')
    BY <1>2, <2>2 DEF RefreshVisibleTorrents, PruneSelectionToVisible
  <2>3. CASE selection' # {} /\ anchor \notin Elements(visible')
    <3>1. AnchorAmong(visible', selection') \in selection'
      BY <1>2, <1>3, <2>3, AnchorIsSelected
    <3>2. anchor' = AnchorAmong(visible', selection')
      BY <2>3 DEF RefreshVisibleTorrents, PruneSelectionToVisible
    <3> QED
      BY <1>2, <1>3, <2>3, <3>1, <3>2
  <2> QED
    BY <2>1, <2>2, <2>3
<1> QED
  BY <1>1, <1>2, <1>3, <1>4, <1>5 DEF SelectionIsVisible

\* Taps.
LEMMA TappedSelection ==
    ASSUME ListInv, NEW t \in Elements(visible), UNCHANGED visible,
           SelectOnlyTorrent(t) \/ SelectTorrentRange(t) \/ ToggleTorrentSelection(t)
    PROVE  /\ selection' \subseteq Elements(visible')
           /\ anchor' \in Elements(visible') \cup {NoTorrent}
           /\ anchor' = NoTorrent <=> selection' = {}
<1>1. visible \in Seq(Torrents) /\ Elements(visible) \subseteq Torrents
  BY RowsAreTorrents DEF ListInv, ListTypeOK
<1>2. /\ selection \subseteq Elements(visible)
      /\ anchor \in Elements(visible) \cup {NoTorrent}
      /\ anchor = NoTorrent <=> selection = {}
      /\ NoTorrent \notin Elements(visible)
  BY <1>1 DEF ListInv, SelectionIsVisible
<1>3. CASE SelectOnlyTorrent(t)
  BY <1>2, <1>3 DEF SelectOnlyTorrent
<1>4. CASE ToggleTorrentSelection(t)
  <2>1. CASE t \notin selection
    BY <1>2, <1>4, <2>1 DEF ToggleTorrentSelection
  <2>2. CASE t \in selection /\ selection \ {t} = {}
    BY <1>2, <1>4, <2>2 DEF ToggleTorrentSelection
  <2>3. CASE t \in selection /\ selection \ {t} # {} /\ anchor # t
    BY <1>2, <1>4, <2>3 DEF ToggleTorrentSelection
  <2>4. CASE t \in selection /\ selection \ {t} # {} /\ anchor = t
    <3>1. selection' = selection \ {t} /\ anchor' = AnchorAmong(visible, selection')
      BY <1>4, <2>4 DEF ToggleTorrentSelection
    <3>2. AnchorAmong(visible, selection') \in selection'
      BY <1>1, <1>2, <2>4, <3>1, AnchorIsSelected
    <3> QED
      BY <1>2, <2>4, <3>1, <3>2
  <2> QED
    BY <2>1, <2>2, <2>3, <2>4
<1>5. CASE SelectTorrentRange(t) /\ anchor \in Elements(visible)
  <2> DEFINE Index(u)   == SelectInSeq(visible, LAMBDA v : v = u)
             Between(i) == \/ Index(anchor) <= i /\ i <= Index(t)
                           \/ Index(t) <= i /\ i <= Index(anchor)
             Span       == {j \in DOMAIN visible : Between(j)}
  <2>1. selection' = {visible[i] : i \in Span} /\ anchor' = anchor
    BY <1>5 DEF SelectTorrentRange
  <2>2. Index(anchor) \in DOMAIN visible /\ Index(t) \in DOMAIN visible
    BY <1>1, <1>5, IndexInSeq
  <2>3. Index(anchor) \in Nat /\ Index(t) \in Nat
    BY <1>1, <2>2
  <2> HIDE DEF Index
  <2>4. Index(anchor) \in Span
    BY <2>2, <2>3
  <2>5. selection' # {} /\ selection' \subseteq Elements(visible)
    BY <2>1, <2>4 DEF Elements
  <2> QED
    BY <1>2, <1>5, <2>1, <2>5
<1>6. CASE SelectTorrentRange(t) /\ anchor \notin Elements(visible)
  BY <1>3, <1>6 DEF SelectTorrentRange
<1> QED
  BY <1>3, <1>4, <1>5, <1>6

LEMMA ListInvNext == ListInv /\ [ListNext]_listVars => ListInv'
<1> SUFFICES ASSUME ListInv, [ListNext]_listVars
             PROVE  ListInv'
  OBVIOUS
<1> USE DEF filterVars, pickVars
<1>1. CASE ListArrives
  <2>1. sorted' \in Seq(Torrents)
    BY <1>1, OrdersAreLists DEF ListArrives, ListInv, ListTypeOK
  <2>2. RefreshVisibleTorrents(sorted', filterQuery, filterBy)
    BY <1>1 DEF ListArrives
  <2> QED
    BY <1>1, <2>1, <2>2, RefreshedSelection DEF ListArrives, ListInv, ListTypeOK
<1>2. CASE TypeFilter
  BY <1>2 DEF TypeFilter, ListInv, ListTypeOK, SelectionIsVisible
<1>3. CASE FilterTimerFires
  <2>1. filterTimer \in FilterTexts
    BY <1>3 DEF FilterTimerFires, ListInv, ListTypeOK
  <2>2. applying' \in Seq(FilterTexts)
    BY <1>3, <2>1 DEF FilterTimerFires, ListInv, ListTypeOK
  <2> QED
    BY <1>3, <2>2 DEF FilterTimerFires, ListInv, ListTypeOK, SelectionIsVisible
<1>4. CASE ApplyFilter
  <2>1. filterQuery' \in FilterTexts /\ applying' \in Seq(FilterTexts)
    BY <1>4 DEF ApplyFilter, ListInv, ListTypeOK
  <2>2. RefreshVisibleTorrents(sorted, filterQuery', filterBy) /\ sorted \in Seq(Torrents)
    BY <1>4 DEF ApplyFilter, ListInv, ListTypeOK
  <2> QED
    BY <1>4, <2>1, <2>2, RefreshedSelection DEF ApplyFilter, ListInv, ListTypeOK
<1>5. CASE ChooseFilterBy
  <2>1. RefreshVisibleTorrents(sorted, filterQuery, filterBy') /\ sorted \in Seq(Torrents)
    BY <1>5 DEF ChooseFilterBy, ListInv, ListTypeOK
  <2> QED
    BY <1>5, <2>1, RefreshedSelection DEF ChooseFilterBy, ListInv, ListTypeOK
<1>6. CASE Tap \/ TapWithModifier \/ PrepareTorrentContextSelection
  <2>1. PICK t \in Elements(visible) :
          SelectOnlyTorrent(t) \/ SelectTorrentRange(t) \/ ToggleTorrentSelection(t)
    BY <1>6 DEF Tap, TapWithModifier, PrepareTorrentContextSelection
  <2>2. /\ UNCHANGED <<sorted, visible, filterVars, removing>>
        /\ highlighted' = selection' /\ unpainted' = FALSE
    BY <1>6 DEF Tap, TapWithModifier, PrepareTorrentContextSelection, RefreshTorrentSelection
  <2>3. /\ selection' \subseteq Elements(visible')
        /\ anchor' \in Elements(visible') \cup {NoTorrent}
        /\ anchor' = NoTorrent <=> selection' = {}
    BY <2>1, <2>2, TappedSelection
  <2>4. Elements(visible') \subseteq Torrents
    BY <2>2, RowsAreTorrents DEF ListInv, ListTypeOK
  <2> QED
    BY <2>2, <2>3, <2>4 DEF ListInv, ListTypeOK, SelectionIsVisible
<1>7. CASE ConfirmDelete \/ DeleteFails
  BY <1>7 DEF ConfirmDelete, DeleteFails, SelectedHashes, ListInv, ListTypeOK,
              SelectionIsVisible
<1>8. CASE DeleteSucceeds
  BY <1>8 DEF DeleteSucceeds, ListInv, ListTypeOK, SelectionIsVisible
<1>9. CASE UNCHANGED listVars
  BY <1>9 DEF listVars, ListInv, ListTypeOK, SelectionIsVisible
<1> QED
  BY <1>1, <1>2, <1>3, <1>4, <1>5, <1>6, <1>7, <1>8, <1>9 DEF ListNext

\* The variables keep their types, and the rows are what the filter in force leaves
\* of the list.
THEOREM ListTypeCorrect == ListSpec => []ListTypeOK
<1>1. ListInv => ListTypeOK
  BY DEF ListInv
<1> QED
  BY ListInvInit, ListInvNext, <1>1, PTL DEF ListSpec

\* The actions on the selection hit what the user sees highlighted: only rows of the
\* list are selected, and there is an anchor, one of the rows, exactly while something
\* is, for every number of torrents, every query and every order of the rows.
THEOREM SelectionCorrect == ListSpec => []SelectionIsVisible
<1>1. ListInv => SelectionIsVisible
  BY DEF ListInv
<1> QED
  BY ListInvInit, ListInvNext, <1>1, PTL DEF ListSpec

-----------------------------------------------------------------------------
(* The parts together. *)

LEMMA EachPartSteps ==
    [Next]_vars => /\ [AddNext]_addVars /\ [ListNext]_listVars
                   /\ [HoverNext]_hoverVars /\ [ContentNext]_contentVars
<1>1. Adding => AddNext /\ UNCHANGED <<listVars, hoverVars, contentVars>>
  BY DEF Adding
<1>2. Listing => ListNext /\ UNCHANGED <<addVars, hoverVars, contentVars>>
  BY DEF Listing
<1>3. Hovering => HoverNext /\ UNCHANGED <<addVars, listVars, contentVars>>
  BY DEF Hovering
<1>4. Browsing => ContentNext /\ UNCHANGED <<addVars, listVars, hoverVars>>
  BY DEF Browsing
<1>5. UNCHANGED vars => UNCHANGED <<addVars, listVars, hoverVars, contentVars>>
  BY DEF vars
<1> QED
  BY <1>1, <1>2, <1>3, <1>4, <1>5 DEF Next

\* A behaviour of the sum is a behaviour of each part, so that what is proved of a
\* part holds in the run that checks the four together.
THEOREM PartsRun == Spec => AddSpec /\ ListSpec /\ HoverSpec /\ ContentSpec
<1>1. Init => AddInit /\ ListInit /\ HoverInit /\ ContentInit
  BY DEF Init
<1> QED
  BY <1>1, EachPartSteps, PTL DEF Spec, AddSpec, ListSpec, HoverSpec, ContentSpec

\* The variables of all four parts keep their types.
THEOREM InterfaceTypeCorrect == Spec => []InterfaceTypeOK
<1>1. AddTypeOK /\ ListTypeOK /\ HoverTypeOK /\ ContentTypeOK => InterfaceTypeOK
  BY DEF InterfaceTypeOK
<1> QED
  BY <1>1, PartsRun, AddTypeCorrect, ListTypeCorrect, HoverTypeCorrect, ContentTypeCorrect, PTL
==================================================================================
