---------------------------- MODULE TorrentSelection -----------------------------
(***************************************************************************)
(* The torrent list of the main window: the filter, the rows it leaves,    *)
(* and the selection that taps build and that the actions of the toolbar   *)
(* and of the context menu work on. All of it lives on the UI goroutine;   *)
(* what interleaves with the user are the results of the poll, the timer   *)
(* that debounces the filter, and removals that return.                    *)
(*                                                                         *)
(* Torrents are model values. The filter is empty or is one query, which   *)
(* some torrents match by name and some by location. The order of the      *)
(* rows follows values that every poll changes, so it is arbitrary.        *)
(***************************************************************************)
EXTENDS Naturals, Sequences, SequencesExt, FiniteSets

CONSTANTS
    Torrents,
    NoTorrent,
    ByName,        \* the torrents whose name matches the query
    ByLocation     \* those whose save path does

ASSUME TorrentsAssumption == NoTorrent \notin Torrents /\ IsFiniteSet(Torrents)
ASSUME QueryAssumption == ByName \cup ByLocation \subseteq Torrents

VARIABLES
    sorted,        \* allTorrents, in the order of the sort column
    visible,       \* visibleTorrents
    entry,         \* the text of the filter entry
    filterTimer,   \* the text the running timer holds, or NoText
    applying,      \* texts of timers that have fired, in the UI queue
    filterQuery,   \* the filter in force, ...
    filterBy,      \* ... and what it applies to
    selection,
    anchor,        \* selectionAnchor
    highlighted,   \* the torrents whose rows show the selection background
    removing,      \* what the removal under way removes
    unpainted      \* one has returned since the rows were painted last

filterVars == <<entry, filterTimer, applying, filterQuery, filterBy>>
pickVars   == <<selection, anchor, highlighted>>
listVars   == <<sorted, visible, filterVars, pickVars, removing, unpainted>>

FilterTexts == {"", "query"}
NoText      == "none"

Elements(seq) == {seq[i] : i \in DOMAIN seq}

\* The lists of the torrents of a set, each once.
Orders(set) == {order \in [1 .. Cardinality(set) -> set] :
                    \A i, j \in DOMAIN order : order[i] = order[j] => i = j}

Matches(query, by) ==
    IF query = "" THEN Torrents ELSE IF by = "name" THEN ByName ELSE ByLocation

Precedes(t, u, torrents) ==
    \E i, j \in DOMAIN torrents : i < j /\ torrents[i] = t /\ torrents[j] = u

\* FilterAndSortTorrents: the list of those that match, in the order they have. The
\* sort is done where the list arrives.
FilterAndSortTorrents(torrents, query, by) ==
    {rows \in Orders(Elements(torrents) \cap Matches(query, by)) :
        \A i, j \in DOMAIN rows : i < j => Precedes(rows[i], rows[j], torrents)}

ListInit ==
    /\ sorted = <<>> /\ visible = <<>>
    /\ entry = "" /\ filterTimer = NoText /\ applying = <<>>
    /\ filterQuery = "" /\ filterBy \in {"name", "location"}
    /\ selection = {} /\ anchor = NoTorrent /\ highlighted = {}
    /\ removing = {} /\ unpainted = FALSE

-----------------------------------------------------------------------------
(* The rows. *)

\* The anchor that replaces one that is gone.
FirstSelected(rows, chosen) ==
    IF \E i \in DOMAIN rows : rows[i] \in chosen
    THEN SelectInSeq(rows, LAMBDA t : t \in chosen) ELSE 0

AnchorAmong(rows, chosen) ==
    LET i == FirstSelected(rows, chosen) IN IF i = 0 THEN NoTorrent ELSE rows[i]

\* Variant: the anchor is left where it is.
PruneSelectionOnly(rows) ==
    /\ selection' = selection \cap Elements(rows)
    /\ anchor' = IF selection' = {} THEN NoTorrent ELSE anchor

\* pruneSelectionToVisible.
PruneSelectionToVisible(rows) ==
    /\ selection' = selection \cap Elements(rows)
    /\ anchor' = IF selection' = {} THEN NoTorrent
                 ELSE IF anchor \in Elements(rows) THEN anchor
                 ELSE AnchorAmong(rows, selection')

\* refreshTorrentSelection, and setTorrent of every row.
RefreshTorrentSelection == highlighted' = selection' /\ unpainted' = FALSE

\* refreshVisibleTorrents: filter, prune, and repaint every row.
RefreshVisibleTorrents(torrents, query, by) ==
    /\ visible' \in FilterAndSortTorrents(torrents, query, by)
    /\ PruneSelectionToVisible(visible')
    /\ RefreshTorrentSelection

\* refreshNow: the poll brings a list, in any order, or fails and repaints the old one.
ListArrives ==
    /\ \/ \E set \in SUBSET Torrents : sorted' \in Orders(set)
       \/ UNCHANGED sorted
    /\ RefreshVisibleTorrents(sorted', filterQuery, filterBy)
    /\ UNCHANGED <<filterVars, removing>>

\* Variant: while a timer runs, what is typed waits for the next edit.
TypeFilterUnlessPending ==
    /\ entry' \in FilterTexts \ {entry}
    /\ filterTimer' = IF filterTimer = NoText THEN entry' ELSE filterTimer
    /\ UNCHANGED <<sorted, visible, applying, filterQuery, filterBy, pickVars, removing,
                   unpainted>>

\* filterEntry.OnChanged: stop the timer, which may have fired, and start another.
TypeFilter ==
    /\ entry' \in FilterTexts \ {entry}
    /\ filterTimer' = entry'
    /\ UNCHANGED <<sorted, visible, applying, filterQuery, filterBy, pickVars, removing,
                   unpainted>>

\* The timer fires and queues its text. (The bound: one text waits at a time.)
FilterTimerFires ==
    /\ filterTimer # NoText /\ applying = <<>>
    /\ applying' = Append(applying, filterTimer)
    /\ filterTimer' = NoText
    /\ UNCHANGED <<sorted, visible, entry, filterQuery, filterBy, pickVars, removing, unpainted>>

ApplyFilter ==
    /\ applying # <<>>
    /\ applying' = Tail(applying)
    /\ filterQuery' = Head(applying)
    /\ RefreshVisibleTorrents(sorted, filterQuery', filterBy)
    /\ UNCHANGED <<sorted, entry, filterTimer, filterBy, removing>>

\* filterBy.OnChanged.
ChooseFilterBy ==
    /\ filterBy' \in {"name", "location"} \ {filterBy}
    /\ RefreshVisibleTorrents(sorted, filterQuery, filterBy')
    /\ UNCHANGED <<sorted, entry, filterTimer, applying, filterQuery, removing>>

-----------------------------------------------------------------------------
(* Taps on the row of t. *)

SelectOnlyTorrent(t) == selection' = {t} /\ anchor' = t

ToggleTorrentSelection(t) ==
    IF t \in selection
    THEN /\ selection' = selection \ {t}
         /\ anchor' = IF selection' = {} THEN NoTorrent
                      ELSE IF anchor = t THEN AnchorAmong(visible, selection')
                      ELSE anchor
    ELSE selection' = selection \cup {t} /\ anchor' = t

SelectTorrentRange(t) ==
    IF anchor \notin Elements(visible)
    THEN SelectOnlyTorrent(t)
    ELSE LET Index(u) == SelectInSeq(visible, LAMBDA v : v = u)
             Between(i) == \/ Index(anchor) <= i /\ i <= Index(t)
                           \/ Index(t) <= i /\ i <= Index(anchor)
         IN  /\ selection' = {visible[i] : i \in {j \in DOMAIN visible : Between(j)}}
             /\ UNCHANGED anchor

\* Tapped with a modifier: extend or toggle.
TapWithModifier ==
    /\ \E t \in Elements(visible) : SelectTorrentRange(t) \/ ToggleTorrentSelection(t)
    /\ RefreshTorrentSelection
    /\ UNCHANGED <<sorted, visible, filterVars, removing>>

\* A plain tap; the second one of a double tap opens the details, too.
Tap ==
    /\ \E t \in Elements(visible) : SelectOnlyTorrent(t)
    /\ RefreshTorrentSelection
    /\ UNCHANGED <<sorted, visible, filterVars, removing>>

\* TappedSecondary: the context menu works on the selection if it was opened there.
PrepareTorrentContextSelection ==
    /\ \E t \in Elements(visible) \ selection : SelectOnlyTorrent(t)
    /\ RefreshTorrentSelection
    /\ UNCHANGED <<sorted, visible, filterVars, removing>>

-----------------------------------------------------------------------------
(* Removal. The other actions on the selection do not change it. *)

\* selectedHashes: the selected torrents of the list.
SelectedHashes == selection \cap (Elements(visible) \cup Elements(sorted))

\* The dialog keeps what is selected when it opens.
ConfirmDelete ==
    /\ removing = {} /\ SelectedHashes # {}
    /\ removing' = SelectedHashes
    /\ UNCHANGED <<sorted, visible, filterVars, pickVars, unpainted>>

\* Cancelled, or the call fails.
DeleteFails ==
    /\ removing # {} /\ removing' = {}
    /\ UNCHANGED <<sorted, visible, filterVars, pickVars, unpainted>>

\* The result: what was removed leaves the selection. The rows are repainted by the
\* refresh that follows.
DeleteSucceeds ==
    /\ removing # {} /\ removing' = {}
    /\ selection' = selection \ removing
    /\ anchor' = IF selection' = {} THEN NoTorrent ELSE anchor
    /\ unpainted' = TRUE
    /\ UNCHANGED <<sorted, visible, filterVars, highlighted>>

-----------------------------------------------------------------------------

ListNext ==
    \/ ListArrives
    \/ TypeFilter \/ FilterTimerFires \/ ApplyFilter \/ ChooseFilterBy
    \/ Tap \/ TapWithModifier \/ PrepareTorrentContextSelection
    \/ ConfirmDelete \/ DeleteFails \/ DeleteSucceeds

\* Timers fire and the UI goroutine runs what is queued.
ListFairness == WF_listVars(FilterTimerFires \/ ApplyFilter)

ListSpec == ListInit /\ [][ListNext]_listVars /\ ListFairness

-----------------------------------------------------------------------------
(* Properties. *)

\* The variables keep their types; the rows are the torrents the filter leaves.
ListTypeOK ==
    /\ sorted \in Seq(Torrents)
    /\ visible \in FilterAndSortTorrents(sorted, filterQuery, filterBy)
    /\ entry \in FilterTexts /\ filterQuery \in FilterTexts
    /\ filterTimer \in FilterTexts \cup {NoText} /\ applying \in Seq(FilterTexts)
    /\ filterBy \in {"name", "location"}
    /\ selection \subseteq Torrents /\ highlighted \subseteq Torrents
    /\ anchor \in Torrents \cup {NoTorrent}
    /\ removing \subseteq Torrents /\ unpainted \in BOOLEAN

\* pruneSelectionToVisible, toggleTorrentSelection: the actions on the selection hit
\* what the user sees highlighted, however polls, filters and removals change the
\* rows under it: only rows of the list are selected, there is an anchor for the
\* next range exactly while something is selected, and it is one of the rows.
\* Until the rows are repainted, what has been removed stays highlighted.
SelectionIsVisible ==
    /\ selection \subseteq Elements(visible)
    /\ anchor \in Elements(visible) \cup {NoTorrent}
    /\ anchor = NoTorrent <=> selection = {}
    /\ selection \subseteq highlighted
    /\ highlighted = selection \/ unpainted

\* filterEntry.OnChanged: unless the user never stops typing, the list comes to show
\* what the filter entry says, though timers of earlier texts may have fired already.
FilterSettles ==
    []<><<entry' # entry>>_entry \/ []<>(filterQuery = entry)
==================================================================================
