------------------------------ MODULE RefreshLoop ------------------------------
(***************************************************************************)
(* refreshNow: how the torrent list, the connection state, the version of  *)
(* the server and the error in the status bar are brought up to date.      *)
(*                                                                         *)
(* It runs on the goroutine of pollLoop, again and again, and on the UI    *)
(* goroutine after an action of the user, which blocks until its requests  *)
(* are answered. Both queue their results with fyne.Do. A settings save    *)
(* changes the server and forgets the version in two steps, with the sync  *)
(* of the desktop integration in between.                                  *)
(*                                                                         *)
(* Each request is one step: it takes the server from the configuration    *)
(* and fixes the answer; the time to the next step is its time under way.  *)
(* The requests for the transfer info and the server state follow each     *)
(* other, differ only in the data, and are one step with one outcome. A    *)
(* list or a version stands for the server it came from.                   *)
(***************************************************************************)
EXTENDS Naturals, Sequences

CONSTANTS
    Servers,     \* the servers the user switches between
    NoServer,    \* no list, or no version
    MaxQueue,    \* results of the poll in the UI queue at any time
    LogsMayFail  \* whether changed log settings may fail to apply

ASSUME ServersAssumption == NoServer \notin Servers
ASSUME QueueAssumption == MaxQueue \in Nat \ {0}
ASSUME LogsAssumption == LogsMayFail \in BOOLEAN

VARIABLES
    server,      \* the server in the configuration
    up,          \* the servers answer
    keychain,    \* stored credentials: "waiting" to be loaded by the retry
                 \* loop, given up ("terminal"), or "loaded"
    run,         \* the refresh each of the two goroutines is in
    queue,       \* results waiting in the UI queue
    ui,          \* the UI goroutine: "free", "refreshing" or "saving"
    list,        \* application.allTorrents
    connection,  \* application.connectionState
    version,     \* application.serverVersion
    note         \* application.credentialWait and lastError

world  == <<server, up, keychain>>
shown  == <<list, connection, version, note>>
vars   == <<world, run, queue, ui, shown>>

Outcomes == {"ok", "waiting", "terminal", "plain"}
Steps    == {"idle", "state", "version", "queue"}

\* A refresh: its step, the server it asked for the list and those that
\* answered, and the outcome of its requests for the list and the state.
Refresh == [step : Steps, list : Servers \cup {NoServer},
            torrents : Outcomes, state : Outcomes,
            version : Servers \cup {NoServer}]

Idle == [step |-> "idle", list |-> NoServer,
         torrents |-> "ok", state |-> "ok", version |-> NoServer]

Note == [waiting : BOOLEAN, error : BOOLEAN]

NoNote == [waiting |-> FALSE, error |-> FALSE]

Init ==
    /\ server \in Servers
    /\ up \in BOOLEAN
    /\ keychain \in {"waiting", "loaded"}
    /\ run = [p \in {"poll", "ui"} |-> Idle]
    /\ queue = <<>>
    /\ ui = "free"
    /\ list = NoServer /\ connection = "unknown" /\ version = NoServer
    /\ note = NoNote

-----------------------------------------------------------------------------
(* The requests of a refresh. *)

\* What a request made now comes to: client() refuses it while stored
\* credentials are not loaded.
Outcome == IF keychain # "loaded" THEN keychain ELSE IF up THEN "ok" ELSE "plain"

Answered(outcome) == IF outcome = "ok" THEN server ELSE NoServer

FetchTorrents(p) ==
    /\ run[p].step = "idle"
    /\ p = "ui" => ui = "free" /\ Len(queue) < MaxQueue
    /\ run' = [run EXCEPT ![p] = [Idle EXCEPT !.step = "state",
                                              !.list = Answered(Outcome),
                                              !.torrents = Outcome]]
    /\ ui' = IF p = "ui" THEN "refreshing" ELSE ui
    /\ UNCHANGED <<world, queue, shown>>

\* FetchTransferInfo and FetchServerState.
FetchState(p) ==
    /\ run[p].step = "state"
    /\ run' = [run EXCEPT ![p] = [run[p] EXCEPT !.step = "version",
                                                !.state = Outcome]]
    /\ UNCHANGED <<world, queue, ui, shown>>

\* Variant: the version is probed when the connection comes up only.
WantsVersionOnce(p) == run[p].torrents = "ok" /\ connection # "connected"

\* The version is probed while connected and unknown.
WantsVersion(p) == run[p].torrents = "ok" /\ version = NoServer

FetchServerVersion(p) ==
    /\ run[p].step = "version"
    /\ run' = [run EXCEPT ![p] =
                 [run[p] EXCEPT !.step = "queue",
                                !.version = IF WantsVersion(p) THEN Answered(Outcome)
                                                               ELSE NoServer]]
    /\ UNCHANGED <<world, queue, ui, shown>>

\* Variant: a refresh on the UI goroutine does not give it back.
QueueResultHolding(p) ==
    /\ run[p].step = "queue"
    /\ p = "poll" => Len(queue) < MaxQueue
    /\ queue' = Append(queue, run[p])
    /\ run' = [run EXCEPT ![p] = Idle]
    /\ UNCHANGED <<world, ui, shown>>

\* fyne.Do.
QueueResult(p) ==
    /\ run[p].step = "queue"
    /\ p = "poll" => Len(queue) < MaxQueue
    /\ queue' = Append(queue, run[p])
    /\ run' = [run EXCEPT ![p] = Idle]
    /\ ui' = IF p = "ui" THEN "free" ELSE ui
    /\ UNCHANGED <<world, shown>>

RefreshStep(p) ==
    \/ FetchState(p) \/ FetchServerVersion(p) \/ QueueResult(p)

-----------------------------------------------------------------------------
(* The results. *)

\* Variant: a waiting hint does not replace the error.
NotedBeside(n, outcome) ==
    CASE outcome = "ok"       -> n
      [] outcome = "waiting"  -> [n EXCEPT !.waiting = TRUE]
      [] outcome = "terminal" -> [waiting |-> FALSE, error |-> TRUE]
      [] outcome = "plain"    -> IF n.error THEN n
                                 ELSE [waiting |-> FALSE, error |-> TRUE]

\* Variant: a plain failure leaves the waiting hint.
NotedKeepingHint(n, outcome) ==
    CASE outcome = "ok"       -> n
      [] outcome = "waiting"  -> [waiting |-> TRUE, error |-> FALSE]
      [] outcome = "terminal" -> [waiting |-> FALSE, error |-> TRUE]
      [] outcome = "plain"    -> IF n.error \/ n.waiting THEN n
                                 ELSE [waiting |-> FALSE, error |-> TRUE]

\* noteFetchError.
Noted(n, outcome) ==
    CASE outcome = "ok"       -> n
      [] outcome = "waiting"  -> [waiting |-> TRUE, error |-> FALSE]
      [] outcome = "terminal" -> [waiting |-> FALSE, error |-> TRUE]
      [] outcome = "plain"    -> IF n.error THEN n
                                 ELSE [waiting |-> FALSE, error |-> TRUE]

\* Variant: a failure keeps the version.
ConnectionKeepingVersion(r) ==
    IF r.torrents = "ok"
    THEN /\ connection' = "connected" /\ list' = r.list
         /\ version' = IF r.version # NoServer THEN r.version ELSE version
    ELSE /\ connection' = "disconnected" /\ UNCHANGED <<list, version>>

\* The list and the connection: a failure keeps the list and forgets the version.
Connection(r) ==
    IF r.torrents = "ok"
    THEN /\ connection' = "connected" /\ list' = r.list
         /\ version' = IF r.version # NoServer THEN r.version ELSE version
    ELSE /\ connection' = "disconnected" /\ version' = NoServer
         /\ UNCHANGED list

Apply ==
    /\ ui = "free" /\ queue # <<>>
    /\ LET r == Head(queue)
           n == IF r.torrents = "ok" THEN NoNote ELSE Noted(note, r.torrents)
       IN /\ Connection(r)
          /\ note' = Noted(n, r.state)
    /\ queue' = Tail(queue)
    /\ UNCHANGED <<world, run, ui>>

-----------------------------------------------------------------------------
(* The settings window, and the world. *)

\* The Save button: SaveSettings writes the configuration, or fails to; entered
\* credentials end the wait for the stored ones.
SaveSettings(s) ==
    /\ ui = "free"
    /\ ui' = "saving"
    /\ server' = s
    /\ keychain' \in {keychain, "loaded"}
    /\ UNCHANGED <<up, run, queue, shown>>

\* finishSave: the version may be another server's. It is left as it is if
\* changed log settings cannot be applied.
FinishSave ==
    /\ ui = "saving"
    /\ ui' = "free"
    /\ version' = NoServer \/ (LogsMayFail /\ version' = version)
    /\ UNCHANGED <<world, run, queue, list, connection, note>>

\* The servers become reachable or unreachable.
ServersChange ==
    /\ up' = ~up
    /\ UNCHANGED <<server, keychain, run, queue, ui, shown>>

\* The retry loop loads the credentials or gives up.
KeychainAnswers ==
    /\ keychain = "waiting"
    /\ keychain' \in {"loaded", "terminal"}
    /\ UNCHANGED <<server, up, run, queue, ui, shown>>

\* Variant: the loop does not poll while disconnected.
PollUntilFailure ==
    /\ FetchTorrents("poll") \/ RefreshStep("poll")
    /\ connection # "disconnected"

\* pollLoop.
Poll == FetchTorrents("poll") \/ RefreshStep("poll")

Next ==
    \/ Poll
    \/ FetchTorrents("ui") \/ RefreshStep("ui")
    \/ Apply
    \/ \E s \in Servers : SaveSettings(s)
    \/ FinishSave
    \/ ServersChange \/ KeychainAnswers

\* pollLoop never ends and its requests are bounded by a timeout of 25 seconds,
\* as are those on the UI goroutine. The event loop works off the UI queue
\* however busy the user keeps it.
Fairness ==
    /\ WF_vars(Poll) /\ WF_vars(RefreshStep("ui"))
    /\ SF_vars(Apply) /\ WF_vars(FinishSave)

Spec == Init /\ [][Next]_vars /\ Fairness

-----------------------------------------------------------------------------
(* Properties. *)

\* The variables keep their types, and the UI goroutine is blocked exactly
\* while it refreshes.
TypeOK ==
    /\ server \in Servers /\ up \in BOOLEAN
    /\ keychain \in {"waiting", "terminal", "loaded"}
    /\ run \in [{"poll", "ui"} -> Refresh]
    /\ queue \in Seq(Refresh) /\ Len(queue) <= MaxQueue + 1
    /\ ui \in {"free", "refreshing", "saving"}
    /\ ui = "refreshing" <=> run["ui"].step # "idle"
    /\ list \in Servers \cup {NoServer} /\ version \in Servers \cup {NoServer}
    /\ connection \in {"unknown", "connected", "disconnected"}
    /\ note \in Note

\* noteFetchError: the status bar never shows the waiting hint next to an error,
\* in whatever order requests fail, wait and succeed.
HintOrError == note.waiting => ~note.error

\* After a failure no version is remembered, also when a refresh that had
\* probed one before ends after the failure: the next connection probes again.
DisconnectedForgetsVersion == connection # "connected" => version = NoServer

\* The waiting hint does not outlive the wait.
HintEnds == <>[](keychain # "waiting") => <>[]~note.waiting

\* When the user stays with a server that answers, its list is shown, although
\* results of earlier requests to another server may still come in.
CurrentListShown ==
    \A s \in Servers :
        <>[](server = s /\ up /\ keychain = "loaded")
            => <>[](list = s /\ connection = "connected" /\ note = NoNote)

\* A version that was forgotten is known again if the servers keep answering.
VersionKnownAgain ==
    <>[](up /\ keychain = "loaded") => []<>(version # NoServer)

\* finishSave: the cached version no longer applies; the next connected refresh
\* probes it again. So when nothing is under way, the version is not one of a
\* server the user has left.
VersionIsOfCurrentServer ==
    (ui = "free" /\ queue = <<>> /\ run["poll"] = Idle)
        => version \in {server, NoServer}
===============================================================================
