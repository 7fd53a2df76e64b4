# qBtRemoteGo in TLA+

Formal models of qBtRemoteGo, a desktop remote control for qBittorrent written
in Go with the Fyne toolkit. The modules are written from the source code; the
paths below are relative to the repository (`src/...`). TLC checks the models on
small instances, TLAPS proves the main invariants for every instance.

Run `tlc -workers 2 -config X.cfg M` and `tlapm M.tla` in this directory.

## Inventory of the program

One process: a Fyne UI goroutine, and goroutines for the poll loop, for each
details fetch, for bulk actions, for the credential retry loop, for directory
listings, for update watching and for the activation server. Results come back
to the UI goroutine through `fyne.Do`.

| Component | State | Operations | Hard behaviour | What makes it correct |
|---|---|---|---|---|
| Application controller (`internal/app/controller.go`, `credential_retry.go`) | the configuration, the session credentials, the credential status, the cached client, the retry flag | start-up and legacy migration, background retry, `SaveSettings` with fallbacks, `SaveLocalUI`, `client` | keychain calls outside the lock and bounded by abandoning them; three writers of one file; checks and writes in separate lock holds; crashes | no stored or entered credential is lost or replaced, markers and modes tell the truth, secrets reach the file only by consent, the retry loop ends |
| Keychain store (`internal/credentials`) | the entry in the system keychain | `Status`, `Get`, `Set`, `Delete` | locked, starting, hanging or missing services | errors are classified so that a boot race is retried and an absent entry is not |
| Configuration file (`internal/config`) | `config.json` | `Load`, `Save`, normalisation | replaced atomically by rename, always as a whole | normalising twice changes nothing more; old files keep working |
| Settings window (`internal/ui/ui.go`) | the form's snapshot of the configuration | open, test, save, fallback dialog | the snapshot ages while background writers go on | a save reverts nothing it was not asked to change |
| Details panel (`internal/ui/details_*.go`) | focused torrent, active tab, loading flags and data per tab | taps, tabs, retry, open and close, poll, fetch results, presentation refresh | late results, refreshes that act on their own, mode changes behind the panel's back | data of the right torrent, exact loading flags, no fetch loop after a failure, the pane follows the selection |
| Refresh loop (`internal/ui/ui.go`) | torrent list, connection state, server version | `pollLoop`, `refreshNow`, after each bulk action | two refreshes at once, a settings save in the middle, outages, credentials that are not loaded yet | list, version and error shown are of the current server and of the last outcome |
| Torrent selection and filter (`internal/ui/ui.go`, `FilterAndSortTorrents`) | list, visible rows, filter entry and timer, selection, anchor | tap with modifiers, context menu, filter, poll, remove | the list changes under the selection; timers that fired before they were stopped | actions hit what is highlighted, ranges start at a row, the filter typed last wins |
| qBittorrent client (`internal/qbt`) | cookie jar, `authenticated` under `mu` | every method: authenticate if needed, send, drop the session on a denial | concurrent requests share one session; late denials | one login for all, a lost session is replaced by a later request |
| Update manager (`internal/updates`, `internal/ui/updates.go`) | the watcher generation, the version claimed last, `checkingUpdates` | start, stop, watcher events, manual checks | watchers of stopped generations, slow checks, `Stop` waits on the UI goroutine | one generation at a time, each version announced once, no deadlock |
| Add window and path autocomplete (`internal/ui/autocomplete_entry.go`, `openAddWindow`) | text, popup, suggestions, generation, request, timer | type, accept, listings, default path, submit, close | slow listings, closing with goroutines under way | no listing outlives its text, the last text is answered |
| Activation and single instance (`internal/platform`, `cmd/`, `app/invocation.go`) | the lock, the state file, the server, the channel, the pending invocation | acquire, serve, forward, deliver, put aside, quit | crashes, stale state files, timeouts, set-up that is not done | a running instance is reachable, no batch gets stuck |
| Details content (`internal/ui/details_content.go`) | the tree of files, filter, expansion, rows | poll, filter, toggle, reset | totals of totals, a filter that takes effect later than it is stored | folders agree with their files, matches are found |
| Tooltips and row highlight (`internal/ui/hover_tooltip.go`, `torrent_table.go`) | shown tooltip, timers per label and row | enter, leave, rebind | calls queued by timers that were stopped too late | nothing stays behind, one tooltip at a time |
| Desktop integration, logging, resources, layout of widgets | files, registry keys, drawings | | | input/output, not modelled |

Calls go from the UI to the controller, from the controller to the keychain,
the file and the qBittorrent client. The UI never holds the controller's lock.
`PROJECT.json` lists every component with its status, and every hazard with the
line where it bites.

## Modules

### CredentialController

The credentials: what is on disk, in the keychain and in memory, and the
start-up, retry and save activities that move them.

- `disk`, `entry`, `late`, `reach`: `config.json` (the connection section),
  the keychain entry, a keychain write `callWithTimeout` abandoned, and the
  condition the keychain service is in (ready, still starting, wedged, locked,
  unavailable, unsupported).
- `mem`, `session`, `status`, `client`: the fields of `Controller`.
- `life` is the step of `newController`; `active`, `rPc`, `attempt`, `rMarker`,
  `rGot` are the retry goroutine and its locals; `sPc`, `sv` the settings window
  and a save in progress with its locals.

Every hold of `stateMu` is one step, every keychain call is a step outside it,
and `Stop` (a crash, a failed start, or quitting) may come between any two. A
write of the file is atomic, as `config.Save` writes a temporary file and
renames it; it may fail (`PersistFails`). `SaveProbe` and `SaveSet` have no
timeout in the code and so none in the model: with a wedged keychain they wait.
Credentials are model values: a member of `PwCreds` stands for a
username/password pair, of `KeyCreds` for an API key. The UI section of the
configuration is one value, `prefs`; `SaveLocalUI` stands for every local change
of it (columns, filters, recent paths), the goroutine that adds a torrent included.

The initial files are those an earlier release could have left: no credentials,
plain-text credentials, or a keychain configuration without marker and without
authentication method, which `normalizeAuthMethod` reads as `api_key`. Every
later file is one the model itself wrote before a restart.

### DetailsPanel, MCDetailsPanel

The details panel: `panel` is `torrentDetailsState`, `host` is
`torrentDetailsHost` with the tab widget, `flights` are the fetches with their
captured hash and generation, `refresh` says that a presentation refresh waits
in the UI queue. A handler works on a state record (`Before`) through operators
named after the functions they model (`Reset`, `Load`, `EnsureLoaded`, `Open`,
`SetTab`, `FollowSelection`, ...) and `Becomes` makes the result the next state.

The UI queue is first in, first out. A fetch is started after the refresh that
`loadDetailsDataset` queued, so its result comes after that refresh (`behind`);
refreshes asked for later may run before or after it, and several are as good as
one. `HostRefresh` may close a panel and select a tab, and the selection runs
`setDetailsTab`, as the callback of the tab widget does.

`resetGeneration` has 2^64 values in the code and `Generations` in the model.
`Becomes` states the assumption a wrapping counter needs: no fetch, all of
which end within 20 seconds, sees its generation come back. `listed` is any
subset of the torrents after each poll; the filter may hide any selected one.
`MCDetailsPanel` adds the symmetry of the torrents.

### RefreshLoop

`refreshNow`, which brings the list, the connection state, the server version and
the error of the status bar up to date. `run` holds the refresh that each of two
goroutines is in, that of `pollLoop` and the UI goroutine (after an action of the
user); `queue` the results handed to `fyne.Do`; `ui` whether the UI goroutine is
free, blocked in the requests of its own refresh, or between the two halves of a
settings save (`SaveSettings` with the desktop-integration sync, then
`finishSave`). `server`, `up` and `keychain` are what the requests depend on: the
configured server, whether it answers, and whether `client()` refuses because
stored credentials are not loaded.

Each request is one step, which reads the configuration and fixes the answer;
`FetchTransferInfo` and `FetchServerState` follow each other without touching
anything else and are one step with one outcome. A list, and a version, stand for
the server they came from. `note` says whether the waiting hint and whether an
error is shown; `Noted` is `noteFetchError`.

### CredentialVault

The abstract specification of the storage of credentials: a `place`, the `secret`
the next start would find there, and what the user has `entered` in a save under
way. `Enter`, `Store`, `Drop` and `Leave` are the user's save, `Adopt` is the
migration of an old release's plain text. `CredentialController` implements it
under `Vault == INSTANCE CredentialVault WITH ...`: the place is `disk.mode`, the
secret is `Secret` (the entry, the plain-text fields or nothing, by the mode, which
is how `loadSessionCredentials` looks for it), and `Entered` are the credentials of
the save between its submission and its end. The retry loop, the back-filled marker,
preferences, crashes, failed writes and keychain outages must all be stuttering.
The refinement is checked for keychains that answer; a migration's write that was
abandoned at its timeout may land later, and then changes the entry without a save.

### QbtSession

The session of `qbt.Client`. A call of any method is a record at one step: it
authenticates (`EnsureAuthenticated`, `Login`, with `mu` held across both), is sent
with the cookie the jar holds at that moment, is answered by the sessions the server
knows when the request arrives, and is received (`Receive`, which drops the flag
under `mu`). Methods differ only in the statuses they accept (`Accepted`). The
server (`known`, `keeps`: whether a login leaves the other sessions of the user
alone) is external: it may expire sessions, refuse logins and lose answers until it
is `calm`. Sessions come back into use once nothing refers to them any more.

### UpdateManager

`updates.Manager` with the UI that drives it. `gen` is the goroutine of each
generation, `stopping` the generation `Stop` waits for on the UI goroutine, `claims`
the version claimed last with what the properties need to know of the earlier ones,
`manual` and `checking` a check by hand, `dialogs` the calls handed to `fyne.Do`.
The watcher library and the feed are external: a check fails or finds the newest
release, and the feed only grows.

### Activation

Launches. `proc` is the step each process is at: `run` of `main.go`, with
`StartActivationServer` split where a crash or another process can come between
(listen, truncate the state file, write it), `ui.Run`, and the deferred `Close` and
`Release` in their order. A process that does not get the lock reads the state file,
posts, and waits. A batch is named by the process that was started for it; `fate`
says where it is. `Crash` frees lock and port, as the kernel does, and leaves the file.

### Background

`QbtSession`, `UpdateManager` and `Activation` share no variable and no action of
one reads the state of another. A behaviour of their product is therefore one
behaviour of each, and a property of one component holds in the product exactly
when it holds in the component. `Background` checks them in one run as a sum: `part`,
chosen in the initial state, says which component runs; the others rest in an
initial state in which nothing that fairness speaks of is enabled.

### AddWindow

The add-torrent window with its save path entry: the text, the focus, the popup and
its suggestions, and the goroutines that answer to it. `fetch[g]` is the debounced
fetch of generation `g` (its timer runs, has fired, the server is asked, the answer
waits in the UI queue), `request` is `requestGen`. `defaultPath` and `submit` are
the goroutines of the default save path and of the submission, which may come back
after the window has closed. Each hold of `mu` in the code is a step.

### TorrentSelection

The rows and what is selected of them. `visible` is always what the filter leaves
of `sorted`; operators are named after the functions (`PruneSelectionToVisible`,
`ToggleTorrentSelection`, `SelectTorrentRange`, ...). A poll may bring any torrents
in any order, which covers a change of the sort column. `filterTimer` and `applying`
split the debounce into what can still be stopped and what is already queued.

### HoverTooltip

Tooltips and the row highlight. A timer is running or has fired; what has fired is
a call in the UI queue (`finishShows`, `finishHides`, `rowFinishes`) that no `Stop`
reaches. `strayTimers` and `strayRowTimers` are timers that still run although the
field that held them was set to nil by a late call. Times and the order of queued
calls are left out, which allows more than the program does.

### ContentTree

The content tab. A node is a path and whether it is a folder; `Totals` is
`recalculateContentNode` for all of them, bottom up; `VisibleRows` is `walkVisible`.
The state is the files of the last poll, the filter, the expanded folders, and the
rows with the filter they were made for.

A file is downloaded by a fraction, `progress` of `Whole` parts, for any `Whole`:
floating-point numbers are fractions with a common denominator. What remains of a file
is truncated to bytes, as `int64(float64(file.Size) * (1 - file.Progress))` is, so
nothing may remain of a file that is not complete. The progress of a folder is a
fraction of integers, exact where the code rounds to a floating-point number.

`Refresh` makes no rows while the tab is loading its first files or has failed to; when
it is, is part of `DetailsPanel`, and `ContentTree` is the tab of a loaded torrent.
`FilterFindsFiles` is about that tab only.

### Interface

`AddWindow`, `TorrentSelection`, `HoverTooltip` and `ContentTree`, as a sum for the
same reason as in `Background`: they meet on the UI goroutine, but none reads the
state of another.

### Variants

Definitions commented `Variant:` are plausible mistakes in the operation they
precede (a missing re-check, a lost reset, an off-by-one). Each property is
refuted by TLC when the definition is replaced by its variant: `mutants` in
`PROJECT.json` says which.

## Runs

| Run | Instance | Shows |
|---|---|---|
| `credentials` | one password pair, one API key, 2 attempts, 1 grace attempt, keychains ready, starting or locked | all safety and action properties of the credentials, and that they implement `CredentialVault` |
| `credentials_live` | one password pair, 3 attempts, keychains ready or wedged | the retry loop ends; a ready keychain is loaded |
| `marker_after_fallback`, `method_overridden`, `empty_fetch` | as `credentials` | three statements of the code base that the code does not keep |
| `details` | two torrents, two tabs, two generations, bottom pane and overlay | loading flags, data of the right torrent |
| `prefs_reverted` | as `credentials`, with a recent path to remember | a fourth statement the code does not keep |
| `refresh` | two servers, one waiting result of the poll | note, connection and version agree; hint, list and version settle |
| `stale_version` | as `refresh`, log settings that always apply | a fifth statement the code does not keep |
| `background` | 2 callers and 4 sessions; 2 watcher generations, 2 releases, 2 waiting dialogs; 2 processes, 2 ports, 3 tokens | one login, self-healing sessions; one generation, no repeated notice, no deadlock in `Stop`; a reachable instance, no stuck batch |
| `interface` | 3 texts, 3 edits; 3 torrents, one query; 2 labels, 2 late calls of each; 3 files in nested folders, not, half and fully downloaded, of any priorities, one filter | listings follow the text; the selection is visible; tooltips and highlights end; totals of folders agree with the files; filters settle |
| `details_live` | one torrent, two tabs, two generations, bottom pane and off | failures wait for the user, the pane follows the selection, loading ends |

Why the bounds are enough:

- One pair and one key make all the distinctions `Canonical`,
  `InferAuthMethod` and the comparison with the session draw. With two attempts
  and one grace attempt, the loop takes each of its exits: success, a status not
  worth retrying, the end of the grace period, the cap. `locked` stands for every
  retryable error; `unsupported` and `unavailable` take branches of the same shape.
  The wedged keychain and its abandoned write are in `credentials_live`.
- Two torrents give a superseded fetch, a selection of two, and a torrent that
  leaves the list while the other stays. Two generations are the smallest number
  with which the counter distinguishes anything and makes it wrap. The five tabs of
  the program behave alike, and two suffice to leave one and come back.
- The liveness run of the panel has one torrent: the properties are about a
  torrent that stays in focus, and another one appears to it as its absence.
- Two servers are a current one and one the user has left. `MaxQueue = 1` result of
  the poll, with the one of the UI goroutine, gives two results of different age in
  the queue while a third is under way. `LogsMayFail` lets `finishSave` end early;
  `stale_version` excludes it, so that the violation is the race and not that return.
- In `credentials` the preferences have one value, because the properties of that
  run do not tell them apart; `prefs_reverted` has two.

- Two callers give a login with a waiter, and a denial that comes in after another
  caller's login. Four sessions are one in the jar, one in each request, and one to
  log in to, so a login never lacks one.
- Two generations are the one `Stop` waits for and a new one. Two releases are needed
  for a claim that is overtaken. `MaxDialogs = 2` waits for the UI goroutine except
  while `Stop` holds it, so that the bound itself is no deadlock.
- Two processes race for the lock, forward to each other, and take over after a
  crash; ports and tokens allow each an address of its own and one fresh token while
  an old one is in the file. With two processes at most one batch is forwarded at a
  time, so `Capacity = 1` (8 in the code) is never reached; a full channel is not
  covered by this instance.
- Three edits give a request under way, a timer that has fired and a current
  generation at once. Texts with and without a local match, and the empty one, are
  the cases `setSuggestions` distinguishes.
- Three torrents, of which the query leaves two by name and another two by location,
  give a range with a middle, and an anchor that leaves while others stay selected.
  One filter text waits in the UI queue at a time: a second timer fires once the
  first call has run, as timers of 200 ms do on a queue that is worked off.
- Two labels, one with a delay, and two late calls of each kind: a cancelled call and
  a current one. Further calls of a kind find what the second finds.
- A file and an empty one in a folder of a folder, and a file beside it, make a folder
  whose total mixes a folder and a file, averages of no weight, and a mixed folder
  inside another. `Whole = 2` gives files that are downloaded in part, and with odd
  sizes a file of 1 byte of which nothing remains although it is not complete. A poll
  changes the progress or the priority of one file, so that all combinations are
  reached.

### Fairness

- `WF(RetryNext)`: the retry loop is a goroutine whose keychain reads are bounded
  by `callWithTimeout` and whose pauses are timers.
- `WF` of the settling of each fetch: `detailsLoadTimeout` bounds it, and the UI
  goroutine works off its queue.
- `WF(HostRefresh)`: the same queue. `WF(Poll)`: `pollLoop` never ends and each
  `refreshNow` is bounded by 25 seconds.
- In `RefreshLoop`, `WF(Poll)` and `WF(RefreshStep("ui"))` for the same reason,
  `WF(FinishSave)` because the UI goroutine goes on, and `SF(Apply)`: the user may
  start a refresh or a save again and again, each of which blocks the UI goroutine,
  but the event loop takes a queued result in between, so that no result waits
  for ever.

- `SF(CallStep)` in `QbtSession`: requests and logins are bounded by the timeout of
  the HTTP client, and `sync.Mutex` hands the lock to a waiter that has waited long.
- In `UpdateManager`, `WF` of the goroutines and `SF(Present)`, `SF(ManualResult)`:
  `Stop` may hold the UI goroutine again and again, but in between it takes queued calls.
- In `Activation`, `WF` of the steps of each process and of the UI goroutine.
  Launches, crashes and saves are not fair.
- In `AddWindow`, `TorrentSelection`, `HoverTooltip` and `ContentTree`, `WF` of timers
  and of the UI queue.

No fairness is assumed of the user, of settings saves, or of the keychain.

### What the violation runs show

- `marker_after_fallback`: `backfillKeychainMarker` checks the storage mode under
  one lock hold and sets the marker under another. A save that falls back to plain
  text in between leaves `keychain_has_credentials` set on a plain-text
  configuration, which `config.go:29` excludes. The mode itself is kept
  (`OnlySavesChangeStorage`), and the marker stays true of the keychain
  (`MarkerMeansStored`).
- `method_overridden`: a save writes the configuration and sets the session in two
  lock holds. A retry result applied in between finds an empty session and infers
  the password method from the keychain payload, so the API-key method just saved
  is lost in memory.
- `empty_fetch`: a save with blank credentials publishes the probed keychain status
  as it goes. Once the keychain answers, that status is "available" although
  nothing was loaded, and `client()` no longer holds fetches back.
- `prefs_reverted`: a save writes the configuration as it was when Save was pressed,
  the whole UI section of it. The keychain probe and the fallback dialog lie in
  between; a path remembered meanwhile by the goroutine that adds a torrent is
  reverted, although `controller.go:184` says that a save cannot revert what was
  persisted in the meantime.
- `stale_version`: the poll probes the version of the old server, the user saves
  another one, `finishSave` forgets the version, then the result of the poll is
  applied and stores it again. As the version is probed only while unknown, the new
  server goes by the old one's version until a failure or another save.

### What the sums show

- A lost session is always replaced (`SelfHeals`), for servers whose logins leave the
  other sessions of the user alone. For others the model has a behaviour without end:
  two goroutines whose requests cross, each denied because of the other's login. The
  comment at `client.go:657` knows of the danger; `LoginIsSingleFlight` is what its
  lock ensures as long as nothing is lost.
- `AnnouncedOnce` needs its exception: `updates.go` remembers only the last version
  claimed, so when a check by hand is slow enough to return an older release after
  the watcher has claimed a newer one, the newer one is announced again.
- `Stop` comes back because the handlers only queue (`ChecksComeBack`), and it leaves
  no generation behind (`OneGeneration`).
- `RunningIsReachable` holds because the state file is removed before the lock is
  released. `DeliveredIsShown` says that no batch waits for ever once the connection
  is set up, except after a save cut short by its log settings, which leaves it to the
  next save. A batch reported as failed after two seconds may be shown all the same.
- `SelectionIsVisible` allows a removed torrent to stay highlighted until the refresh
  that follows, and to remain the anchor as long as it is in the rows.
- `TooltipFollowsPointer` holds for every order of late calls. The highlight of a row
  is weaker: a queued `finishHoverOut` darkens the row under a pointer that has come
  back, although the comment of `hoverIn` says the pending hover-out is cancelled. What
  holds is that the highlight ends (`HoverEnds`).
- By `FolderAgreesWithFiles` a folder is complete when its files are, and not when
  nothing remains of it: what remains is truncated file by file. Its statement about
  progress needs its exception: a folder that mixes files that are downloaded with
  files that are not has the right progress itself, but weighs in the folder above with
  its whole size. The folder above then shows neither the progress of the bytes to
  download nor that of all bytes. Nothing in the repository says what it should show.

## Proofs

The theorems hold for every value of the constants that satisfies the named
assumptions of the modules: the sets of credentials, torrents, tabs, callers,
releases, ports, texts and labels are arbitrary, and so are the bounds of
counters and queues. The assumptions say no more than the code does: model
values such as `NoCreds` or `NoTorrent` are none of the set they stand beside, the
retry cap is positive, there are at least two generations, a process that serves
has some port and some token to take (`ServingAssumption`), a user may edit at all
(`EditsAssumption`), the torrents of a list and the files of a torrent are finitely
many (`TorrentsAssumption`, `PathsAssumption`). Files may be empty, sizes are any
natural numbers, and progress has any denominator but zero (`WholeAssumption`).

| Module | Theorem | States |
|---|---|---|
| `CredentialControllerProofs` | `TypeCorrect` | `TypeOK` |
| | `MarkerCorrect` | `MarkerMeansStored` |
| | `SessionCorrect` | `OnlySaveReplacesSession` |
| | `AgreeCorrect` | `MemoryMatchesDisk` |
| | `StorageCorrect` | `OnlySavesChangeStorage` |
| | `ConsentCorrect` | `PlaintextNeedsConsent` |
| | `MigrationCorrect` | `MigrationKeepsCredentials` |
| | `KeychainSaveCorrect` | `KeychainSaveIsComplete`, under `[]NothingLate` |
| | `VaultCorrect` | `ImplementsVault`, under `[]NothingLate` |
| | `AnsweringKeychain` | the last two with no hypothesis but `"wedged" \notin Reach` |
| `DetailsPanelProofs` | `TypeCorrect`, `LoadingCorrect`, `DataCorrect`, `FailureCorrect` | `TypeOK`, `LoadingMeansInFlight`, `DataIsOfFocusedTorrent`, `FailureWaitsForUser` |
| `RefreshLoopProofs` | `TypeCorrect`, `NoteCorrect`, `VersionCorrect` | `TypeOK`, `HintOrError`, `DisconnectedForgetsVersion` |
| `QbtSessionProofs` | `SessionTypeCorrect`, `FlightCorrect` | the types, `LoginIsSingleFlight` |
| `UpdateManagerProofs` | `UpdateTypeCorrect`, `OneGenerationCorrect`, `AnnouncedOnceCorrect` | the types, `OneGeneration`, `AnnouncedOnce` |
| `BackgroundProofs` | `ActivationTypeCorrect`, `ReachableCorrect`, `BatchesCorrect` | the types, `RunningIsReachable`, the places a batch can be in |
| | `ComponentsRun`, `BackgroundTypeCorrect` | the sum and its components, `BackgroundTypeOK` |
| `ContentTreeProofs` | `ContentTypeCorrect`, `FolderCorrect` | the types, `FolderAgreesWithFiles` |
| `InterfaceProofs` | `AddTypeCorrect`, `StaleFetchCorrect` | the types, `StaleFetchIsCancelled` |
| | `HoverTypeCorrect`, `TooltipCorrect` | the types, `TooltipFollowsPointer` |
| | `ListTypeCorrect`, `SelectionCorrect` | the types, `SelectionIsVisible` |
| | `PartsRun`, `InterfaceTypeCorrect` | the sum and its parts, `InterfaceTypeOK` |

An invariant named below was checked by TLC on the instance of the component's
run before it was proved.

### Credentials

- `TypeCorrect`. `TypeInv` adds that the loop sleeps only below the cap: it counts
  when it wakes up, and that is what keeps `attempt` within the cap.
- `MarkerCorrect`. `MarkerMeansStored` is not inductive: a marker is written some
  steps after the keychain call that justifies it. `MarkerInv` adds that an entry
  exists at each control point where a write of the marker is decided (after a
  successful read in the retry loop or at start-up, after the migration's write,
  after a save's write), and rests on the fact that no step removes the entry.
- `SessionCorrect`. `OnlySaveReplacesSession` follows from `FreshSession`: the
  session is empty throughout start-up, so only `TakeCredentials` in the retry loop
  needs the re-check under the lock.
- `AgreeCorrect`. Memory and file are written in one lock hold or not at all; the
  invariant is inductive with the types.
- `StorageCorrect` follows step by step: each writer other than a save and the
  migration keeps `mode`, because it edits the configuration it finds in memory and
  memory and file agree.
- `ConsentCorrect`. `ConsentInv` adds that the path of a save is the one its probe and
  its consent choose, so that the write in the clear is reached with the consent that
  was given. The other writers keep plain text and mode together because memory and
  file agree.
- `MigrationCorrect`. `MigrationKeepsCredentials` is an action property; `LegacyInv`
  holds what the migration relies on across its steps. The plain text of an old release
  is a password pair, so taking it over does not change it. When the migration starts,
  the session holds what the file has, and when it commits the keychain entry does too.
  A write that was abandoned in that mode is of the same credentials.
- `KeychainSaveCorrect`. `SavedInv` says what a save that has written the keychain
  has still to write elsewhere, and that nobody else writes the entry meanwhile. An
  abandoned write could: `callWithTimeout` gives up waiting for a migration's write
  but does not stop it. Hence the hypothesis `[]NothingLate`, which does not say that
  calls are fast, only that none was abandoned and is still under way; without it the
  statement is false, which is the first hazard of `credential_retry.go`.
- `VaultCorrect` is the refinement. `Init` implies `Vault!Init`, and every step of
  start-up, retry and save is a step of the vault or leaves its variables alone: the
  writers in the background because of `AgreeCorrect` and `StorageCorrect`, the saves
  because of `SavedInv`. The hypothesis is the same.
- `AnsweringKeychain`. A write is abandoned only when the keychain is wedged, so for
  keychains that answer, with an error or not, both hold outright. The run
  `credentials` checks that instance.

### Details panel

Each theorem follows from `Inv`, which says that the state a handler starts from is
`Good`: well typed, and sound in the sense that the fetches of the current generation
are for the torrent in focus, and that a tab is loading exactly when one of them is
for it. Each operator takes good states to good states. A reset does so because no
fetch in flight carries the generation it starts (`Fresh`, from the guard of
`Becomes`); a result does so because only the single awaited fetch can settle its
tab. `LoadingCorrect` and `DataCorrect` are consequences of soundness, `TypeCorrect`
of typing.

`FailureCorrect` needs more, because `HostRefresh` selects a tab in the widget and
the widget's callback loads it. `WidgetInv`: while a torrent is in focus and the
panel is shown, the tab of the widget differs from the active one only as long as the
fetch of the active tab is behind a refresh that is still queued, and has not failed.
So when the callback comes, the tab it finds is loading, and `ensureLoaded` does
nothing. `NeverBoth` says that a tab is never loading and failed at once. The
argument covers `applyDetailsPresentation` running at any time after a mode change.

### Refresh loop

`Inv` is the conjunction of the three invariants and `RoomForUI`, the one part that
they lack: a refresh of the UI goroutine started with room in the queue, which only
the poll can have taken. `NoteCorrect` rests on `NotedType` (`noteFetchError` keeps
hint and error apart, whatever the outcome), `VersionCorrect` on `Connection`, which
stores a version only when it also connects.

### Session, updates and activation

- `FlightCorrect`. `FlightInv`: as long as nothing is lost, the flag `authenticated`
  says whether the login has been made. Before it no caller has got past the lock;
  after it the server knows the session in the jar and that of every request on its
  way, and nobody is in the login. So no answer is a denial, and no second login starts.
- `OneGenerationCorrect` is inductive as it stands. `AnnouncedOnceCorrect` needs
  `GreatestIsRemembered`: what was claimed last is the greatest ever claimed, until
  an older one is claimed, and that is the exception the property makes.
- `ReachableCorrect`. `ReachInv`: a process at a step between `Acquire` and `Release`
  holds the lock, so there is one at most; from the listen on the port is its own, and
  from the write on the state file names it. What a crash leaves in the file and what
  the truncation loses does not matter to it, because no step of a process without the
  lock touches the file.
- `BatchesCorrect`. `BatchInv` ties the `fate` of each batch to the channel and the
  queue it is in; it is what `DeliveredIsShown`, which TLC checks, starts from.
- `ComponentsRun` turns the sentence about sums into a theorem: a behaviour of
  `Background` is one of `SessionSpec`, of `UpdateSpec` and of `ActivationSpec`
  at once. It carries the invariants of the components over to the sum.

### Windows and tables

- `StaleFetchCorrect`. `RequestInv`: a listing that is under way and not cancelled is
  the one `requestGen` names, of the current generation and in an open window. An edit
  and the closing of the window cancel what `requestGen` names, which is enough because
  a listing that returns late gives up `requestGen` only if it is its own.
- `TooltipCorrect`. `TimerInv`: a show timer that is not cancelled belongs to the label
  under the pointer, and the timers and calls of a label, which `MaxLate` bounds, leave
  room for those that may still fire. It needs no order between queued calls.
- `ListTypeCorrect` and `SelectionCorrect`. Whatever order the sort gives, the rows are
  torrents of the list (`RowsAreTorrents`), the rows of a range are a part of the rows,
  and `PruneSelectionToVisible` finds a new anchor exactly when something is left to be
  one (`AnchorIsSelected`, `SelectedInSeq`).
- `PartsRun` says of `Interface` what `ComponentsRun` says of `Background`.

### Folder totals

`FolderCorrect` is about a recursion over the tree, `Totals`, which adds up numbers by
folding over sets. None of it is an axiom: `ContentTreeProofs` proves, in this order,

- that sums and products over a finite set can be taken in any order (`AddsExists`,
  `SumIsAdds`, `SumSteps`, `ProductDivides`), that they go by parts (`SumFamily`) and
  compare term by term (`SumCompare`);
- that a path has one child of each folder above it that leads to it, so that the
  children of a folder part the files below it among them (`ChildrenPart`);
- that an average of fractions weighted by size is full exactly if every fraction
  that weighs anything is (`AverageOfFractions`), with `Product` as the denominator,
  and that it is exact if every fraction is exact for its size (`AverageOfAverages`);
- that the recursive functions exist (`TotalsEquation`, `ShownEquation`), as a path has
  finitely many names;
- that the totals of a node agree with the files below it if those of its children
  do (`FolderAgrees`), and so for all nodes (`TreeInduction`). The inductive statement
  `Agrees` says of a node that it is full exactly if its active files are, but for empty
  ones (`AllThere`), that their remaining bytes are its own (`Left`) and, if no folder
  inside it mixes (`Unmixed`), that its progress is exact (`Exact`, `Done`). It says less
  of a file than of a folder: a file that is not downloaded has its remaining bytes all
  the same, and an empty one need not be full. A child of an unmixed
  folder has as many active bytes as bytes, or none (`UnmixedChild`), which is why its
  whole size is the right weight.

Induction is stated for sets: a set of natural numbers that is not empty has a least
member (`LeastNatural`, from the well-foundedness of `<`), hence a set that holds 0 and
`n + 1` with every `n` holds them all (`Induction`).

### What the proofs found in the models

- Two definitions of `CredentialController` (`RetryFailed`, `SaveConfig`) were `CASE`
  expressions with arms that overlap. TLC takes the first, TLA+ leaves the choice
  open; they are `IF` chains now, as in the code.
- The set of statuses in `QbtSession` lacked parentheses: `UNION` binds less tightly
  than it reads.
- `Activation` could not start a server on an empty set of ports, `TorrentSelection`
  could not sort an infinite list. Both are assumptions now.
- `ContentTree` assumed that no file is empty and left the progress of a folder to the
  number of its children; the code compares the sum of their sizes with zero. The
  model does the same now, and a file of the instance is empty.
- A file of `ContentTree` was once finished or not, which made a folder complete exactly
  when nothing remained of it. With fractions and truncation that is false; the
  completion of the files is what holds.

### Only model-checked

Liveness (`RetryEnds`, `ReadyKeychainIsLoaded`, `PaneFollowsSelection`,
`LoadingEnds`, `HintEnds`, `CurrentListShown`, `VersionKnownAgain`, `SelfHeals`,
`ChecksComeBack`, `DeliveredIsShown`, `LastTextIsAnswered`, `FilterSettles`,
`HoverEnds`, `FilterFindsFiles`): fairness and `ENABLED` are beyond the prover.
The statements of the violation runs are false and so have no theorem.

## Not modelled

- In the credentials: URL, TLS and host settings; `StopCredentialRetry`, which
  only tests call; `Delete` of the keychain entry, which nobody calls, and its
  removal by another program; payloads that hold a password and a key at once.
- In the panel: what the tabs draw, their order and columns, and the details of
  the tabs other than the content.
- In the refresh loop: the data of the transfer info and the server state, the window
  title and the tray, the connection test, other errors of a refresh than an
  unreachable server and unloaded credentials.
- In the client: building requests and decoding answers, except which of them fail.
- In the update manager: `SetLogger`, the schedule of the checks, the dialogs' text.
- In the activation: systems without an instance lock, where every process serves;
  launches without arguments; other programs that take over a port, beyond being a
  listener that is nobody.
- In the add window: every field but the save path, the validation of the form beyond
  that it may fail, the highlighted suggestion, the layout of the popup. Windows are
  modelled one at a time, as they share nothing.
- In the selection: bulk actions that do not change it, the rename and location dialogs.
- In the content tab: availability, the order of rows, two files of one path, the
  rounding of floating-point progress, what is shown while the files load or after they
  failed to (`Refresh` returns early then).
- The texts of tooltips: a late show may bring the text of the row its label showed
  before, which is listed as a hazard no property covers.
- The normalisation of the UI, logging and update sections of the configuration: pure
  functions of one section, which its tests cover value by value.
- Logging, desktop entries and registry keys, column layout, drawing.

Known corners no property covers: when `finishSave` returns early and the tab is
changed while the panel is off, the active tab of a pane that comes back may wait
for the user to select it, until the next change of the selection or tab. Toggles of
the content tree still work in the 200 ms between typing a filter and its effect, and
change the expansion that the filter then hides. After a suggestion has been accepted,
`KeyDown` shows the suggestions of the text before it.

## Plan

The models are complete as far as they are meant to go, and every invariant and action
property that a run checks has a theorem. What can still be proved are the steps that
the liveness properties rest on: which states a fair action leaves no way out of, and
that each of its steps brings the awaited state closer.
