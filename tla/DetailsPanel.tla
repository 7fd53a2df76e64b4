----------------------------- MODULE DetailsPanel -----------------------------
(***************************************************************************)
(* The torrent details panel: which torrent it shows, which of its tabs is *)
(* active, and the fetches that fill the tabs.                             *)
(*                                                                         *)
(* Everything here runs on the UI goroutine, one handler after the other,  *)
(* except the fetches: each runs on a goroutine of its own and queues its  *)
(* result with fyne.Do. The queue also carries the host refreshes that     *)
(* every change of the panel asks for, and a refresh may itself close the  *)
(* panel and select a tab. Several queued refreshes are as good as one. A  *)
(* fetch starts after a refresh was queued, so its result is behind that   *)
(* refresh; refreshes queued later may come before or after it.            *)
(*                                                                         *)
(* A torrent stands for its hash. Of the filter only the effect is kept:   *)
(* it may hide any torrent, which takes it out of the selection. The       *)
(* anchor of range selections and what the tabs draw are left out.         *)
(***************************************************************************)
EXTENDS Naturals

CONSTANTS
    Torrents,      \* hashes
    NoTorrent,     \* the empty hash
    Tabs,          \* the tab keys
    General,       \* the tab a new torrent starts on
    Generations,   \* values of resetGeneration before it wraps (2^64)
    Modes          \* the panel modes the user switches between

ASSUME TorrentsAssumption == NoTorrent \notin Torrents
ASSUME ModesAssumption == Modes \subseteq {"off", "overlay", "bottom"}
ASSUME TabsAssumption == General \in Tabs
ASSUME GenerationsAssumption == Generations \in Nat \ {0, 1}

VARIABLES
    mode,        \* currentDetailsMode(): the mode in the configuration
    listed,      \* application.allTorrents
    selection,   \* application.selection
    panel,       \* torrentDetailsState
    flights,     \* fetches on their way, and results waiting in the UI queue
    refresh,     \* a host refresh waits in the UI queue
    host         \* torrentDetailsHost: its mode, its selected tab widget, and
                 \* whether the tabs are on the screen

vars == <<mode, listed, selection, panel, flights, refresh, host>>

Dataset == [loading : BOOLEAN, loaded : BOOLEAN, failed : BOOLEAN,
            of : Torrents \cup {NoTorrent}]      \* whose data it holds
Empty   == [loading |-> FALSE, loaded |-> FALSE, failed |-> FALSE,
            of |-> NoTorrent]

Panel == [visible : BOOLEAN, hash : Torrents \cup {NoTorrent}, tab : Tabs,
          gen : 0 .. Generations - 1, data : [Tabs -> Dataset]]

\* behind: the refresh queued when the fetch started has not run yet.
Flight == [hash : Torrents, gen : 0 .. Generations - 1, tab : Tabs,
           behind : BOOLEAN]

Host == [mode : Modes, tab : Tabs, tabs : BOOLEAN]

Init ==
    /\ mode \in Modes
    /\ listed = {} /\ selection = {}
    /\ panel = [visible |-> FALSE, hash |-> NoTorrent, tab |-> General,
                gen |-> 0, data |-> [t \in Tabs |-> Empty]]
    /\ flights = {} /\ refresh = FALSE
    /\ host = [mode |-> mode, tab |-> General, tabs |-> FALSE]

-----------------------------------------------------------------------------
(* The state one handler works on: the panel, the fetches and the queue.   *)

State(p, fs, due) == [panel |-> p, flights |-> fs, refresh |-> due]

Before == State(panel, flights, refresh)

With(s, p) == State(p, s.flights, s.refresh)
Show(s, b) == With(s, [s.panel EXCEPT !.visible = b])
Put(s, t, d) ==
    With(s, [visible |-> s.panel.visible, hash |-> s.panel.hash, tab |-> s.panel.tab,
             gen |-> s.panel.gen, data |-> [s.panel.data EXCEPT ![t] = d]])

\* refreshDetailsPresentation.
Queue(s) == State(s.panel, s.flights, TRUE)

NextGeneration(g) == IF g = Generations - 1 THEN 0 ELSE g + 1

\* Variant: a reset forgets the datasets.
ResetKeepingData(s, h) ==
    With(s, [s.panel EXCEPT !.hash = h, !.tab = General,
                            !.gen = NextGeneration(s.panel.gen)])

\* resetForHash.
Reset(s, h) ==
    With(s, [visible |-> s.panel.visible, hash |-> h, tab |-> General,
             gen |-> NextGeneration(s.panel.gen), data |-> [t \in Tabs |-> Empty]])

\* loadDetailsDataset up to the start of its goroutine.
Load(s, t) ==
    State(Put(s, t, [s.panel.data[t] EXCEPT !.loading = TRUE]).panel,
          s.flights \cup {[hash |-> s.panel.hash, gen |-> s.panel.gen,
                           tab |-> t, behind |-> TRUE]},
          TRUE)

\* loadActiveDetailsIf: is there a panel to load for?
MayLoad(s, m) ==
    /\ s.panel.hash # NoTorrent
    /\ m # "off"
    /\ s.panel.visible \/ m = "bottom"

\* ensureActiveDetailsLoaded: the first load of the active tab.
EnsureLoaded(s, m) ==
    LET d == s.panel.data[s.panel.tab] IN
    IF MayLoad(s, m) /\ ~d.loaded /\ ~d.loading THEN Load(s, s.panel.tab) ELSE s

\* Variant: the poll also reloads a tab whose load failed.
RefreshLoadedOrFailed(s, m) ==
    IF MayLoad(s, m) /\ ~s.panel.data[s.panel.tab].loading
    THEN Load(s, s.panel.tab)
    ELSE s

\* refreshActiveDetails: the poll reloads what is loaded, never what failed.
RefreshLoaded(s, m) ==
    LET d == s.panel.data[s.panel.tab] IN
    IF MayLoad(s, m) /\ d.loaded /\ ~d.loading THEN Load(s, s.panel.tab) ELSE s

\* closeTorrentDetails.
Close(s) == Queue(Show(s, FALSE))

\* Variant: a pane closed while it was off does not come back.
FollowSelectionHidden(s, sel) ==
    IF ~\E h \in Torrents : sel = {h}
    THEN IF s.panel.visible \/ s.panel.hash # NoTorrent
         THEN Queue(With(s, [s.panel EXCEPT !.visible = FALSE, !.hash = NoTorrent]))
         ELSE s
    ELSE LET h == CHOOSE t \in sel : TRUE IN
         IF s.panel.hash # h
         THEN EnsureLoaded(Queue(Show(Reset(s, h), TRUE)), "bottom")
         ELSE s

\* ensureDetailsFocusForSelection in the bottom pane.
FollowSelection(s, sel) ==
    IF ~\E h \in Torrents : sel = {h}
    THEN IF s.panel.visible \/ s.panel.hash # NoTorrent
         THEN Queue(With(s, [s.panel EXCEPT !.visible = FALSE, !.hash = NoTorrent]))
         ELSE s
    ELSE LET h == CHOOSE t \in sel : TRUE IN
         IF s.panel.hash # h
         THEN EnsureLoaded(Queue(Show(Reset(s, h), TRUE)), "bottom")
         ELSE IF s.panel.visible THEN s
                                 ELSE Queue(Show(s, TRUE))

\* ensureDetailsFocusForSelection.
EnsureFocus(s, m, sel, list) ==
    CASE m = "bottom"  -> FollowSelection(s, sel)
      [] m = "overlay" -> IF s.panel.hash \in list \cup {NoTorrent} THEN s ELSE Close(s)
      [] OTHER         -> Close(s)

\* openTorrentDetails.
Open(s, m, h) ==
    IF m = "off" THEN s
    ELSE LET q == IF s.panel.hash # h THEN Reset(s, h) ELSE s
         IN EnsureLoaded(Queue(Show(q, TRUE)), m)

\* setDetailsTab.
SetTab(s, m, t) == EnsureLoaded(Queue(With(s, [s.panel EXCEPT !.tab = t])), m)

\* A handler leaves the state s. A fetch takes at most 20 seconds and never sees
\* its generation come back.
Becomes(s) ==
    /\ s.panel.gen # panel.gen => \A f \in flights : f.gen # s.panel.gen
    /\ panel' = s.panel /\ flights' = s.flights /\ refresh' = s.refresh

-----------------------------------------------------------------------------
(* The user. *)

\* A tap on a row, whatever the modifiers make of the selection.
Tap ==
    /\ selection' \in SUBSET listed
    /\ Becomes(EnsureFocus(Before, mode, selection', listed))
    /\ UNCHANGED <<mode, listed, host>>

\* A double tap selects the row and opens its details.
DoubleTap(h) ==
    /\ h \in listed
    /\ selection' = {h}
    /\ Becomes(Open(Before, mode, h))
    /\ UNCHANGED <<mode, listed, host>>

\* A tap on a tab that is on the screen and not selected.
TapTab(t) ==
    /\ host.tabs /\ t # host.tab
    /\ host' = [host EXCEPT !.tab = t]
    /\ Becomes(SetTab(Before, mode, t))
    /\ UNCHANGED <<mode, listed, selection>>

\* retryActiveDetailsLoad: the button a failed load shows.
Retry ==
    /\ host.tabs
    /\ LET t == panel.tab IN
       /\ panel.data[t].failed /\ ~panel.data[t].loading
       /\ Becomes(EnsureLoaded(
             Queue(Put(Before, t, [panel.data[t] EXCEPT !.failed = FALSE,
                                                        !.loaded = FALSE])), mode))
    /\ UNCHANGED <<mode, listed, selection, host>>

\* A tap beside the open drawer.
TapBackdrop ==
    /\ host.mode = "overlay" /\ host.tabs
    /\ Becomes(Close(Before))
    /\ UNCHANGED <<mode, listed, selection, host>>

\* The settings are saved: SaveSettings changes the mode, finishSave follows.
SaveSettings(m) ==
    /\ mode' = m
    /\ Becomes(EnsureFocus(Queue(Before), m, selection, listed))
    /\ UNCHANGED <<listed, selection, host>>

\* The same, but the new log settings cannot be applied and finishSave returns
\* before it comes to the panel.
SaveSettingsCutShort(m) ==
    /\ mode' = m /\ m # mode
    /\ UNCHANGED <<listed, selection, panel, flights, refresh, host>>

\* The filter changes and may hide selected torrents.
Filter ==
    /\ selection' \in SUBSET selection
    /\ Becomes(EnsureFocus(Before, mode, selection', listed))
    /\ UNCHANGED <<mode, listed, host>>

\* A deletion ends: the torrent leaves the selection at once and the list with
\* the refresh that follows.
Deleted(h) ==
    /\ h \in selection
    /\ selection' = selection \ {h}
    /\ UNCHANGED <<mode, listed, panel, flights, refresh, host>>

-----------------------------------------------------------------------------
(* The poll, the fetches and the queued refreshes. *)

\* Variant: the selection is not pruned to the new list.
PollUnpruned ==
    /\ listed' \in SUBSET Torrents
    /\ selection' = selection
    /\ Becomes(RefreshLoaded(EnsureFocus(Before, mode, selection', listed'), mode))
    /\ UNCHANGED <<mode, host>>

\* The end of refreshNow: a new list, or the old one if the fetch failed, is
\* filtered, the selection pruned, the panel adjusted and the active tab
\* reloaded.
Poll ==
    /\ listed' \in SUBSET Torrents
    /\ selection' \in SUBSET (selection \cap listed')
    /\ Becomes(RefreshLoaded(EnsureFocus(Before, mode, selection', listed'), mode))
    /\ UNCHANGED <<mode, host>>

\* Is f still the fetch its tab waits for?
Current(f) == f.gen = panel.gen /\ f.hash = panel.hash

\* What a result makes of its tab: an error keeps the data that was there.
Settled(f, ok) ==
    [loading |-> FALSE, loaded |-> ok, failed |-> ~ok,
     of |-> IF ok THEN f.hash ELSE panel.data[f.tab].of]

\* Variant: the generation of the result is not compared.
SettleByHash(f, ok) ==
    /\ f \in flights /\ ~f.behind
    /\ flights' = flights \ {f}
    /\ IF f.hash # panel.hash THEN UNCHANGED <<panel, refresh>>
       ELSE /\ panel' = Put(Before, f.tab, Settled(f, ok)).panel
            /\ refresh' = TRUE
    /\ UNCHANGED <<mode, listed, selection, host>>

\* Variant: neither the torrent nor the generation is compared.
SettleAlways(f, ok) ==
    /\ f \in flights /\ ~f.behind
    /\ flights' = flights \ {f}
    /\ panel' = Put(Before, f.tab, Settled(f, ok)).panel
    /\ refresh' = TRUE
    /\ UNCHANGED <<mode, listed, selection, host>>

\* A fetch ends or runs into its timeout, and its result comes out of the queue:
\* it is stored, or dropped if it is superseded.
Settle(f, ok) ==
    /\ f \in flights /\ ~f.behind
    /\ flights' = flights \ {f}
    /\ IF ~Current(f) THEN UNCHANGED <<panel, refresh>>
       ELSE /\ panel' = Put(Before, f.tab, Settled(f, ok)).panel
            /\ refresh' = TRUE
    /\ UNCHANGED <<mode, listed, selection, host>>

\* The state once the refresh has been taken out of the queue.
Dequeued ==
    State(panel, {[f EXCEPT !.behind = FALSE] : f \in flights}, FALSE)

\* torrentDetailsHost.Refresh: a new mode rebuilds the view, with the first tab
\* selected, and closes a panel nobody opened in that mode; then the tab widget
\* follows the active tab, which runs setDetailsTab when it changes.
HostRefresh ==
    /\ refresh
    /\ LET rebuilt == host.mode # mode
           closed  == IF rebuilt /\ mode # "bottom"
                      THEN Show(Dequeued, FALSE)
                      ELSE Dequeued
           tab     == IF rebuilt THEN General ELSE host.tab
           present == mode # "off" /\ panel.hash # NoTorrent
       IN /\ Becomes(IF present /\ tab # panel.tab
                     THEN SetTab(closed, mode, panel.tab)
                     ELSE closed)
          /\ host' = [mode |-> mode,
                      tab  |-> IF present THEN panel.tab ELSE tab,
                      tabs |-> /\ present
                               /\ mode = "bottom" \/ closed.panel.visible]
    /\ UNCHANGED <<mode, listed, selection>>

Next ==
    \/ Tap
    \/ \E h \in Torrents : DoubleTap(h)
    \/ \E t \in Tabs : TapTab(t)
    \/ Retry \/ TapBackdrop
    \/ \E m \in Modes : SaveSettings(m)
    \/ \E m \in Modes : SaveSettingsCutShort(m)
    \/ Filter
    \/ \E h \in Torrents : Deleted(h)
    \/ Poll
    \/ \E f \in flights, ok \in BOOLEAN : Settle(f, ok)
    \/ HostRefresh

\* A fetch is bounded by its timeout, the UI goroutine works off its queue, and
\* the poll loop never ends.
Fairness ==
    /\ \A f \in Flight : WF_vars(\E ok \in BOOLEAN : Settle(f, ok))
    /\ WF_vars(HostRefresh)
    /\ WF_vars(Poll)

Spec == Init /\ [][Next]_vars /\ Fairness

-----------------------------------------------------------------------------
(* Properties. *)

\* Every variable stays within its type; the selection within the list.
TypeOK ==
    /\ mode \in Modes
    /\ listed \subseteq Torrents /\ selection \subseteq listed
    /\ panel \in Panel
    /\ flights \subseteq Flight
    /\ refresh \in BOOLEAN
    /\ host \in Host

\* The fetches whose result the tab t waits for.
Awaited(t) == {f \in flights : Current(f) /\ f.tab = t}

\* loadDetailsDataset: while a torrent is focused, a tab is loading exactly when
\* one fetch for it is on its way, so that no tab waits for a result that was
\* dropped and none is settled while a newer fetch still runs.
LoadingMeansInFlight ==
    panel.hash # NoTorrent =>
        \A t \in Tabs : IF panel.data[t].loading THEN \E f \in flights : Awaited(t) = {f}
                                               ELSE Awaited(t) = {}

\* The data of a tab is never another torrent's than the one in focus.
DataIsOfFocusedTorrent ==
    panel.hash # NoTorrent =>
        \A t \in Tabs : panel.data[t].of \in {panel.hash, NoTorrent}

\* detailsShouldRefreshLoad: a failed load stays failed until the user acts.
\* Neither the poll nor a refresh of the screen fetches it again, unless the
\* refresh follows a change of the panel mode; in particular the tab selection
\* a refresh makes on its own never turns a failure into a loop of fetches.
FailureWaitsForUser ==
    [][Poll \/ (HostRefresh /\ host.mode = mode) =>
         \A t \in Tabs : panel.data[t].failed /\ panel'.gen = panel.gen
                            => panel'.data[t].loading = panel.data[t].loading]_vars

\* In the bottom pane the panel comes to show the one selected torrent, at the
\* latest with the next poll, whichever window or deletion changed the mode or
\* the selection.
PaneFollowsSelection ==
    \A h \in Torrents :
        (mode = "bottom" /\ selection = {h})
            ~> (mode # "bottom" \/ selection # {h}
                \/ (panel.hash = h /\ panel.visible))

\* A tab does not load for ever.
LoadingEnds ==
    \A t \in Tabs, h \in Torrents :
        (panel.hash = h /\ panel.data[t].loading)
            ~> (panel.hash # h \/ ~panel.data[t].loading)
===============================================================================
