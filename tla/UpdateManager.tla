------------------------------ MODULE UpdateManager ------------------------------
(***************************************************************************)
(* Update checks: the Manager of package updates, which owns one watcher   *)
(* goroutine at a time and remembers the version it announced last, and    *)
(* the part of the UI that starts and stops it, checks by hand, and shows  *)
(* what was found.                                                         *)
(*                                                                         *)
(* Start and Stop run on the UI goroutine; Stop waits there until the      *)
(* goroutines of the watcher have ended. Those hand their results to the   *)
(* UI goroutine with fyne.Do. The watcher and the release feed are         *)
(* external (go4updates): a check fails, or finds the newest release.      *)
(*                                                                         *)
(* A version is a number; 0 is the running build, and the feed only grows. *)
(* The logger, and the form of the dialogs, are left out.                  *)
(***************************************************************************)
EXTENDS Naturals, Sequences

CONSTANTS
    Watchers,     \* the watcher generations that may exist at once
    NoWatcher,    \* Manager.watcher is nil
    MaxVersion,   \* releases published while the application runs
    MaxDialogs    \* dialogs waiting in the UI queue at any time

ASSUME WatchersAssumption == NoWatcher \notin Watchers
ASSUME VersionAssumption == MaxVersion \in Nat
ASSUME DialogsAssumption == MaxDialogs \in Nat \ {0}

Versions == 0 .. MaxVersion
Failed   == MaxVersion + 1     \* instead of a version: the check failed
Results  == Versions \cup {Failed}

VARIABLES
    latest,       \* the newest release in the feed
    watcher,      \* Manager.watcher, NoWatcher while not running
    gen,          \* the goroutine of each generation
    stopping,     \* the generation the UI goroutine waits for in Stop
    notified,     \* Manager.notifiedVersion
    manual,       \* the goroutine of a manual check
    checking,     \* application.checkingUpdates
    dialogs,      \* queued calls of presentAutoUpdate and presentManualCheckResult
    surfaced,     \* the versions claimed so far
    repeated,     \* one of them has been announced again automatically
    overtaken     \* a version older than the one claimed last has been claimed

lifecycle  == <<watcher, stopping>>
checks     == <<manual, checking>>
claims     == <<notified, surfaced, repeated, overtaken>>
updateVars == <<latest, lifecycle, gen, checks, dialogs, claims>>

\* A generation is not running, waits for the next check, has an event to hand
\* over, or is in the handler; cancelled tells that Stop wants it to end.
Gen   == [at : {"free", "watching", "event", "handle"}, found : Results,
          cancelled : BOOLEAN]
NoGen == [at |-> "free", found |-> 0, cancelled |-> FALSE]

Manual   == [at : {"idle", "fetch", "claim"}, found : Results]
NoManual == [at |-> "idle", found |-> 0]

Dialog == [auto : BOOLEAN, found : Results]

UpdateInit ==
    /\ latest \in Versions
    /\ watcher = NoWatcher /\ stopping = NoWatcher
    /\ gen = [g \in Watchers |-> NoGen]
    /\ manual = NoManual /\ checking = FALSE
    /\ dialogs = <<>>
    /\ notified = 0 /\ surfaced = {} /\ repeated = FALSE /\ overtaken = FALSE

SetGen(g, record) == gen' = [gen EXCEPT ![g] = record]

\* The UI goroutine takes the next event.
UIFree == stopping = NoWatcher

\* StatusUpdateAvailable.
Available(found) == found \in Versions \ {0}

-----------------------------------------------------------------------------
(* Starting and stopping, on the UI goroutine: at launch, when a save changes *)
(* the setting, and at the end of Run. Both do nothing when repeated.         *)

StartChecks ==
    /\ UIFree /\ watcher = NoWatcher
    /\ \E g \in Watchers :
          /\ gen[g].at = "free"
          /\ watcher' = g
          /\ SetGen(g, [NoGen EXCEPT !.at = "watching"])
    /\ UNCHANGED <<latest, stopping, checks, dialogs, claims>>

\* Variant: Stop does not wait for the goroutines to end.
StopChecksWithoutWaiting ==
    /\ UIFree /\ watcher # NoWatcher
    /\ SetGen(watcher, [gen[watcher] EXCEPT !.cancelled = TRUE])
    /\ watcher' = NoWatcher
    /\ UNCHANGED <<latest, stopping, checks, dialogs, claims>>

\* Stop: forget the generation, cancel it ...
StopChecks ==
    /\ UIFree /\ watcher # NoWatcher
    /\ SetGen(watcher, [gen[watcher] EXCEPT !.cancelled = TRUE])
    /\ stopping' = watcher
    /\ watcher' = NoWatcher
    /\ UNCHANGED <<latest, checks, dialogs, claims>>

\* ... and wait until its goroutines have ended.
StopReturns ==
    /\ stopping # NoWatcher
    /\ gen[stopping].at = "free"
    /\ stopping' = NoWatcher
    /\ UNCHANGED <<latest, watcher, gen, checks, dialogs, claims>>

-----------------------------------------------------------------------------
(* A generation: runWatcher, and the watcher it runs. *)

\* The watcher completes a check: at once after the start, then periodically.
WatcherChecks(g) ==
    /\ gen[g].at = "watching" /\ ~gen[g].cancelled
    /\ \E found \in {latest, Failed} :
          SetGen(g, [gen[g] EXCEPT !.at = "event", !.found = found])
    /\ UNCHANGED <<latest, lifecycle, checks, dialogs, claims>>

\* A cancelled watcher closes the channel, perhaps with an event not handed over,
\* and runWatcher ends.
WatcherEnds(g) ==
    /\ gen[g].at \in {"watching", "event"} /\ gen[g].cancelled
    /\ SetGen(g, NoGen)
    /\ UNCHANGED <<latest, lifecycle, checks, dialogs, claims>>

\* claimVersion records the version.
ClaimVersion(version) ==
    /\ notified' = version
    /\ surfaced' = surfaced \cup {version}
    /\ overtaken' = (overtaken \/ version < notified)

\* handleEvent: failures, and versions that are not newer or claimed already, are
\* only logged; any other version goes to the handler.
HandleEvent(g) ==
    /\ gen[g].at = "event"
    /\ \/ /\ Available(gen[g].found) /\ notified # gen[g].found
          /\ ClaimVersion(gen[g].found)
          /\ repeated' = (repeated \/ gen[g].found \in surfaced)
          /\ SetGen(g, [gen[g] EXCEPT !.at = "handle"])
       \/ /\ ~Available(gen[g].found) \/ notified = gen[g].found
          /\ SetGen(g, [gen[g] EXCEPT !.at = "watching", !.found = 0])
          /\ UNCHANGED claims
    /\ UNCHANGED <<latest, lifecycle, checks, dialogs>>

\* onAutoUpdateAvailable: fyne.Do, which does not wait. The bound is left out of
\* account while Stop waits.
Notify(g) ==
    /\ gen[g].at = "handle"
    /\ Len(dialogs) < MaxDialogs \/ ~UIFree
    /\ dialogs' = Append(dialogs, [auto |-> TRUE, found |-> gen[g].found])
    /\ SetGen(g, [gen[g] EXCEPT !.at = "watching", !.found = 0])
    /\ UNCHANGED <<latest, lifecycle, checks, claims>>

-----------------------------------------------------------------------------
(* A check by hand. *)

\* checkForUpdates: one at a time.
CheckForUpdates ==
    /\ UIFree /\ ~checking
    /\ checking' = TRUE
    /\ manual' = [NoManual EXCEPT !.at = "fetch"]
    /\ UNCHANGED <<latest, lifecycle, gen, dialogs, claims>>

\* CheckNow: the feed answers, or the check fails or times out ...
ManualFetch ==
    /\ manual.at = "fetch"
    /\ \E found \in {latest, Failed} : manual' = [at |-> "claim", found |-> found]
    /\ UNCHANGED <<latest, lifecycle, gen, checking, dialogs, claims>>

\* Variant: a check by hand does not claim what it shows.
ManualResultUnclaimed ==
    /\ manual.at = "claim"
    /\ Len(dialogs) < MaxDialogs
    /\ surfaced' = IF Available(manual.found) THEN surfaced \cup {manual.found}
                                              ELSE surfaced
    /\ dialogs' = Append(dialogs, [auto |-> FALSE, found |-> manual.found])
    /\ manual' = NoManual
    /\ UNCHANGED <<latest, lifecycle, gen, checking, notified, repeated, overtaken>>

\* Variant: only an update is worth a result.
ManualResultIfAvailable ==
    /\ manual.at = "claim"
    /\ Len(dialogs) < MaxDialogs
    /\ \/ /\ Available(manual.found)
          /\ ClaimVersion(manual.found)
          /\ dialogs' = Append(dialogs, [auto |-> FALSE, found |-> manual.found])
          /\ UNCHANGED repeated
       \/ ~Available(manual.found) /\ UNCHANGED <<claims, dialogs>>
    /\ manual' = NoManual
    /\ UNCHANGED <<latest, lifecycle, gen, checking>>

\* ... claim the version, and queue the result, whatever it is.
ManualResult ==
    /\ manual.at = "claim"
    /\ Len(dialogs) < MaxDialogs
    /\ \/ /\ Available(manual.found)
          /\ ClaimVersion(manual.found)
          /\ UNCHANGED repeated
       \/ ~Available(manual.found) /\ UNCHANGED claims
    /\ dialogs' = Append(dialogs, [auto |-> FALSE, found |-> manual.found])
    /\ manual' = NoManual
    /\ UNCHANGED <<latest, lifecycle, gen, checking>>

\* presentAutoUpdate, presentManualCheckResult: the latter ends the check.
Present ==
    /\ UIFree /\ dialogs # <<>>
    /\ checking' = (checking /\ Head(dialogs).auto)
    /\ dialogs' = Tail(dialogs)
    /\ UNCHANGED <<latest, lifecycle, gen, manual, claims>>

-----------------------------------------------------------------------------

\* A release is published.
Publish ==
    /\ latest < MaxVersion
    /\ latest' = latest + 1
    /\ UNCHANGED <<lifecycle, gen, checks, dialogs, claims>>

WatcherStep(g) ==
    \/ WatcherChecks(g) \/ WatcherEnds(g) \/ HandleEvent(g) \/ Notify(g)

UpdateNext ==
    \/ StartChecks \/ StopChecks \/ StopReturns
    \/ \E g \in Watchers : WatcherStep(g)
    \/ CheckForUpdates \/ ManualFetch \/ ManualResult \/ Present
    \/ Publish

\* The goroutines run, checks are bounded by a timeout, and the UI goroutine
\* works off its queue unless Stop holds it.
UpdateFairness ==
    /\ \A g \in Watchers : WF_updateVars(WatcherStep(g))
    /\ WF_updateVars(StopReturns)
    /\ WF_updateVars(ManualFetch) /\ SF_updateVars(ManualResult)
    /\ SF_updateVars(Present)

UpdateSpec == UpdateInit /\ [][UpdateNext]_updateVars /\ UpdateFairness

-----------------------------------------------------------------------------
(* Properties. *)

\* The variables keep their types, and the running generation is not cancelled.
UpdateTypeOK ==
    /\ latest \in Versions /\ notified \in Versions
    /\ watcher \in Watchers \cup {NoWatcher}
    /\ stopping \in Watchers \cup {NoWatcher}
    /\ gen \in [Watchers -> Gen]
    /\ watcher # NoWatcher => gen[watcher].at # "free" /\ ~gen[watcher].cancelled
    /\ manual \in Manual /\ checking \in BOOLEAN
    /\ dialogs \in Seq(Dialog)
    /\ surfaced \subseteq Versions
    /\ repeated \in BOOLEAN /\ overtaken \in BOOLEAN

\* Stop waits for full teardown: a generation is alive only while it is the
\* current one or Stop waits for it, so once the checks are off nothing more is
\* announced, and after a restart no event comes from an older generation.
OneGeneration ==
    \A g \in Watchers : gen[g].at # "free" => g \in {watcher, stopping}

\* claimVersion: a version the user has seen, automatically or by hand, is not
\* announced automatically again, in whatever order checks, restarts and
\* releases come. The exception is a check so slow that another one has claimed
\* a newer version meanwhile: only the last version claimed is remembered.
AnnouncedOnce == repeated => overtaken

\* Options.OnUpdateAvailable, onAutoUpdateAvailable: the handler does not block,
\* so the UI goroutine that waits in Stop comes back; and a check by hand ends
\* with its result on the screen and the menu item enabled again.
ChecksComeBack ==
    /\ ~UIFree ~> UIFree
    /\ checking ~> ~checking
==================================================================================
