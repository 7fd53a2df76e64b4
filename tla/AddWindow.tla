-------------------------------- MODULE AddWindow --------------------------------
(***************************************************************************)
(* The add-torrent window and its save path entry, which suggests          *)
(* directories while the user types. (The set-location dialog uses the     *)
(* same entry, and closes it in the same way.)                             *)
(*                                                                         *)
(* Three kinds of goroutines answer to the window: one per debounced       *)
(* edit, which asks the server for directories; one that asks for the      *)
(* default save path if no path is remembered; and one that submits the    *)
(* torrent. Each hands its result to the UI goroutine with fyne.Do, where  *)
(* it meets whatever the user has done since.                              *)
(*                                                                         *)
(* Texts are model values: which suggestions match a text is decided by    *)
(* Matching and by the server. The other fields of the form, the status    *)
(* line and the layout of the popup are left out.                          *)
(***************************************************************************)
EXTENDS Naturals

CONSTANTS
    Texts,        \* texts of the save path entry
    Blank,        \* no text
    Matching,     \* the texts with a match among the recent paths
    MaxEdits      \* edits of the entry

ASSUME TextsAssumption == Blank \in Texts /\ Matching \subseteq Texts
ASSUME EditsAssumption == MaxEdits \in Nat \ {0}

Edits == 1 .. MaxEdits

VARIABLES
    text,         \* of the entry
    focused,
    popup,        \* the popup with the suggestions is visible
    suggestions,  \* the text they were made for, and whether there are any
    generation,   \* of the last edit
    request,      \* requestGen: the generation that may be cancelled, or 0
    fetch,        \* the debounced fetch of each generation
    windowOpen,
    defaultPath,  \* the fetch of the default save path
    submit,       \* the submission
    answered      \* the generation whose answer has been presented last

entryVars == <<text, focused, popup, suggestions>>
fetchVars == <<generation, request, fetch, answered>>
addVars   == <<entryVars, fetchVars, windowOpen, defaultPath, submit>>

\* A debounced fetch: its timer runs, the timer has fired, the server is asked,
\* the answer waits for the UI goroutine.
Fetch   == [at : {"none", "timer", "fired", "asked", "queued", "done"},
            query : Texts, cancelled : BOOLEAN, failed : BOOLEAN]
NoFetch == [at |-> "none", query |-> Blank, cancelled |-> FALSE, failed |-> FALSE]

Scheduled(q) == [NoFetch EXCEPT !.at = "timer", !.query = q]

MoveFetch(g, at) == fetch' = [fetch EXCEPT ![g] = [fetch[g] EXCEPT !.at = at]]

-----------------------------------------------------------------------------
(* The entry. *)

\* filterMatchingPaths over the recent paths.
LocalSuggestions(q) == [query |-> q, empty |-> q \notin Matching]

\* Variant: no suggestions leave the popup as it is.
SetSuggestionsWithoutHiding(s) ==
    /\ suggestions' = s
    /\ popup' = (popup \/ (~s.empty /\ focused))

\* setSuggestions.
SetSuggestions(s) ==
    /\ suggestions' = s
    /\ popup' = (~s.empty /\ focused)

\* What Stop, and the cancellation of the request under way, leave.
Abandoned ==
    [g \in Edits |-> IF fetch[g].at = "timer" THEN [fetch[g] EXCEPT !.at = "done"]
                     ELSE IF g = request THEN [fetch[g] EXCEPT !.cancelled = TRUE]
                     ELSE fetch[g]]

\* scheduleRemoteFetch.
ScheduleRemoteFetch(q) ==
    /\ generation' = generation + 1
    /\ request' = 0
    /\ fetch' = IF q = Blank THEN Abandoned
                ELSE [Abandoned EXCEPT ![generation + 1] = Scheduled(q)]

\* handleChanged.
HandleChanged(q) ==
    /\ generation < MaxEdits
    /\ text' = q
    /\ SetSuggestions(LocalSuggestions(q))
    /\ ScheduleRemoteFetch(q)
    /\ UNCHANGED <<focused, answered>>

\* initialAddDialogSavePath: the last path if it is remembered, set before the
\* window shows; otherwise the default path is asked for.
Opening(path, edits, fetches, offered, default) ==
    /\ \/ /\ path = Blank /\ edits = 0 /\ default = "asked"
          /\ fetches = [g \in Edits |-> NoFetch]
       \/ /\ path \in Texts \ {Blank} /\ edits = 1 /\ default = "done"
          /\ fetches = [g \in Edits |-> IF g = 1 THEN Scheduled(path) ELSE NoFetch]
    /\ offered = LocalSuggestions(path)

AddInit ==
    /\ Opening(text, generation, fetch, suggestions, defaultPath)
    /\ request = 0 /\ answered = 0
    /\ focused = FALSE /\ popup = FALSE
    /\ windowOpen = TRUE /\ submit = "idle"

\* The user types.
EditPath ==
    /\ windowOpen /\ focused
    /\ \E q \in Texts \ {text} : HandleChanged(q)
    /\ UNCHANGED <<windowOpen, defaultPath, submit>>

\* acceptSuggestion: the text changes without handleChanged.
AcceptSuggestion ==
    /\ popup /\ ~suggestions.empty
    /\ text' \in Texts \ {Blank}
    /\ popup' = FALSE
    /\ UNCHANGED <<focused, suggestions, fetchVars, windowOpen, defaultPath, submit>>

\* KeyDown without a popup.
KeyDown ==
    /\ windowOpen /\ focused /\ ~popup
    /\ suggestions' = IF suggestions.empty THEN LocalSuggestions(text) ELSE suggestions
    /\ popup' = ~suggestions'.empty
    /\ UNCHANGED <<text, focused, fetchVars, windowOpen, defaultPath, submit>>

\* KeyEscape, or a tap outside of the popup.
DismissPopup ==
    /\ popup /\ popup' = FALSE
    /\ UNCHANGED <<text, focused, suggestions, fetchVars, windowOpen, defaultPath, submit>>

FocusGained ==
    /\ windowOpen /\ ~focused /\ focused' = TRUE
    /\ UNCHANGED <<text, popup, suggestions, fetchVars, windowOpen, defaultPath, submit>>

FocusLost ==
    /\ focused /\ focused' = FALSE
    /\ UNCHANGED <<text, popup, suggestions, fetchVars, windowOpen, defaultPath, submit>>

-----------------------------------------------------------------------------
(* Suggestions of the server. *)

TimerFires(g) ==
    /\ fetch[g].at = "timer"
    /\ MoveFetch(g, "fired")
    /\ UNCHANGED <<generation, request, answered, entryVars, windowOpen, defaultPath, submit>>

\* Variant: only one request at a time; an edit made meanwhile is not asked.
RunRemoteFetchUnlessBusy(g) ==
    /\ fetch[g].at = "fired"
    /\ IF ~windowOpen \/ g # generation \/ (\E h \in Edits : fetch[h].at = "asked")
       THEN MoveFetch(g, "done") /\ UNCHANGED request
       ELSE MoveFetch(g, "asked") /\ request' = g
    /\ UNCHANGED <<generation, answered, entryVars, windowOpen, defaultPath, submit>>

\* runRemoteFetch: an outdated timer does nothing, ...
RunRemoteFetch(g) ==
    /\ fetch[g].at = "fired"
    /\ IF ~windowOpen \/ g # generation
       THEN MoveFetch(g, "done") /\ UNCHANGED request
       ELSE MoveFetch(g, "asked") /\ request' = g
    /\ UNCHANGED <<generation, answered, entryVars, windowOpen, defaultPath, submit>>

\* What becomes of a fetch that returns.
Returned(g) ==
    IF windowOpen /\ g = generation
    THEN {[fetch[g] EXCEPT !.at = "queued", !.failed = failed] : failed \in BOOLEAN}
    ELSE {[NoFetch EXCEPT !.at = "done", !.query = fetch[g].query]}

\* Variant: a fetch that returns clears the request of another one.
FetchReturnsClearing(g) ==
    /\ fetch[g].at = "asked"
    /\ request' = 0
    /\ fetch' \in {[fetch EXCEPT ![g] = result] : result \in Returned(g)}
    /\ UNCHANGED <<generation, answered, entryVars, windowOpen, defaultPath, submit>>

\* ... a fetch that returns, cancelled or not, gives up its own request only, and an
\* outdated answer is dropped; ...
FetchReturns(g) ==
    /\ fetch[g].at = "asked"
    /\ request' = IF request = g THEN 0 ELSE request
    /\ fetch' \in {[fetch EXCEPT ![g] = result] : result \in Returned(g)}
    /\ UNCHANGED <<generation, answered, entryVars, windowOpen, defaultPath, submit>>

\* ... as is one that meets another edit, a closed window or an accepted suggestion on
\* the UI goroutine. A failure is reported unless the fetch has been cancelled.
ShowSuggestions(g) ==
    /\ fetch[g].at = "queued"
    /\ fetch' = [fetch EXCEPT ![g] = [NoFetch EXCEPT !.at = "done", !.query = fetch[g].query]]
    /\ LET current == windowOpen /\ g = generation /\ text = fetch[g].query IN
       \/ /\ current /\ ~fetch[g].failed
          /\ \E empty \in BOOLEAN :
                /\ empty => text \notin Matching
                /\ SetSuggestions([query |-> text, empty |-> empty])
          /\ answered' = g
       \/ /\ current /\ fetch[g].failed
          /\ answered' = IF fetch[g].cancelled THEN answered ELSE g
          /\ UNCHANGED <<popup, suggestions>>
       \/ ~current /\ UNCHANGED <<popup, suggestions, answered>>
    /\ UNCHANGED <<text, focused, generation, request, windowOpen, defaultPath, submit>>

FetchStep(g) ==
    TimerFires(g) \/ RunRemoteFetch(g) \/ FetchReturns(g) \/ ShowSuggestions(g)

\* restoreFocus: the popup keeps the focus in the entry.
RestoreFocus ==
    /\ popup /\ ~focused /\ focused' = TRUE
    /\ UNCHANGED <<text, popup, suggestions, fetchVars, windowOpen, defaultPath, submit>>

-----------------------------------------------------------------------------
(* The window. *)

\* SetOnClosed, and Close of the entry.
CloseWindow ==
    /\ windowOpen' = FALSE /\ popup' = FALSE /\ focused' = FALSE
    /\ fetch' = Abandoned /\ request' = 0
    /\ UNCHANGED <<text, suggestions, generation, answered>>

CancelWindow ==
    /\ windowOpen /\ CloseWindow
    /\ UNCHANGED <<defaultPath, submit>>

\* The default path comes in and reaches the UI goroutine, where it is set, as if
\* typed, unless the window has closed or the user was faster. The server may not
\* answer, or have none.
DefaultPathReturns ==
    /\ defaultPath = "asked"
    /\ defaultPath' = "done"
    /\ \/ UNCHANGED <<entryVars, fetchVars>>
       \/ /\ windowOpen /\ text = Blank
          /\ \E path \in Texts \ {Blank} : HandleChanged(path)
    /\ UNCHANGED <<windowOpen, submit>>

\* The Add button, which is disabled until the result is in.
Submit ==
    /\ windowOpen /\ submit = "idle" /\ submit' = "sent"
    /\ UNCHANGED <<entryVars, fetchVars, windowOpen, defaultPath>>

\* The result, which may find the window closed: it fails in the form, in the
\* configuration, on the way or at the server, or closes the window.
SubmitReturns ==
    /\ submit = "sent"
    /\ submit' = "idle"
    /\ \/ UNCHANGED <<entryVars, fetchVars, windowOpen>>
       \/ CloseWindow
    /\ UNCHANGED defaultPath

\* A window is opened once nothing is left of the one before. (Windows do not share
\* state; one at a time is modelled.)
OpenAddWindow ==
    /\ ~windowOpen /\ submit = "idle" /\ defaultPath = "done"
    /\ \A g \in Edits : fetch[g].at \in {"none", "done"}
    /\ windowOpen' = TRUE /\ Opening(text', generation', fetch', suggestions', defaultPath')
    /\ request' = 0 /\ answered' = 0
    /\ UNCHANGED <<focused, popup, submit>>

-----------------------------------------------------------------------------

AddNext ==
    \/ EditPath \/ AcceptSuggestion \/ KeyDown \/ DismissPopup
    \/ FocusGained \/ FocusLost \/ RestoreFocus
    \/ \E g \in Edits : FetchStep(g)
    \/ CancelWindow \/ DefaultPathReturns
    \/ Submit \/ SubmitReturns \/ OpenAddWindow

\* Timers fire, requests are bounded by the timeout of the client, and the UI
\* goroutine runs what is queued. Nothing is assumed of the user.
AddFairness ==
    /\ \A g \in Edits : WF_addVars(FetchStep(g))
    /\ WF_addVars(RestoreFocus)

AddSpec == AddInit /\ [][AddNext]_addVars /\ AddFairness

-----------------------------------------------------------------------------
(* Properties. *)

\* The variables keep their types, and a closed window shows no popup.
AddTypeOK ==
    /\ text \in Texts /\ focused \in BOOLEAN /\ popup \in BOOLEAN
    /\ suggestions \in [query : Texts, empty : BOOLEAN]
    /\ generation \in 0 .. MaxEdits /\ request \in 0 .. MaxEdits
    /\ answered \in 0 .. MaxEdits
    /\ fetch \in [Edits -> Fetch]
    /\ windowOpen \in BOOLEAN
    /\ defaultPath \in {"asked", "done"} /\ submit \in {"idle", "sent"}
    /\ popup => windowOpen /\ ~suggestions.empty

\* requestGen: the server is only kept busy for the text in the entry. A directory
\* listing that is still under way after another edit, or after the window closed,
\* has been cancelled, in whatever order earlier listings return.
StaleFetchIsCancelled ==
    \A g \in Edits :
        fetch[g].at = "asked" => fetch[g].cancelled \/ (g = generation /\ windowOpen)

\* handleChanged, runRemoteFetch: the text the user stops at is answered, with
\* suggestions or with the failure to get them, whatever became of the fetches
\* for the texts before; no answer gets lost as cancelled or as outdated. (There is
\* none to wait for if the entry is blank or took a suggestion since. Edits are
\* bounded, so the user of an open window does stop.)
LastTextIsAnswered ==
    (generation # 0 /\ fetch[generation].at = "timer") ~>
        \/ generation \in {answered, 0} \/ ~windowOpen
        \/ fetch[generation].at = "none" \/ text # fetch[generation].query
=================================================================================
