------------------------ MODULE CredentialController ------------------------
(***************************************************************************)
(* The connection credentials of qBtRemoteGo: the persisted configuration, *)
(* the system keychain, the in-memory session and the three activities     *)
(* that move credentials between them:                                     *)
(*                                                                         *)
(*   - start-up (newController, loadSessionCredentials), which may migrate *)
(*     a legacy plain-text configuration into the keychain;                *)
(*   - the background retry loop (credentialRetryLoop), which re-reads a   *)
(*     keychain that was not ready at boot;                                *)
(*   - a save from the settings window (SaveSettings and its fallbacks).   *)
(*                                                                         *)
(* Every hold of stateMu is one step, every keychain call is a step of its *)
(* own outside the lock, and the process may crash between any two steps.  *)
(*                                                                         *)
(* A set of credentials is a model value: a username/password pair is a    *)
(* member of PwCreds, an API key a member of KeyCreds, the zero value of   *)
(* credentials.Credentials is NoCreds. The settings that play no part here *)
(* are left out, except the preferences that other windows and goroutines  *)
(* save (recent paths, column widths, the filter), which are one value.    *)
(***************************************************************************)
EXTENDS Naturals

CONSTANTS
    PwCreds,       \* username/password pairs a user may have
    KeyCreds,      \* API keys a user may have
    NoCreds,       \* credentials.Credentials{}
    NoEntry,       \* the keychain holds no entry for the application
    Corrupt,       \* the keychain holds an entry that cannot be decoded
    Prefs,         \* the preferences the settings window does not edit
    DefaultPrefs,  \* their initial value
    Reach,         \* the keychain conditions that may arise
    MaxRetries,    \* maxCredentialRetries
    GraceRetries   \* graceNotFoundRetries

Credentials == PwCreds \cup KeyCreds
Payloads    == Credentials \cup {NoCreds}
Entries     == Payloads \cup {NoEntry, Corrupt}

\* "ready" answers; "starting" is a wallet still unlocking, which reports that
\* nothing is stored; "wedged" does not answer within any timeout; the others
\* are the error states of package credentials.
KeychainConditions ==
    {"ready", "starting", "wedged", "locked", "unavailable", "unsupported"}

Modes   == {"", "none", "plaintext", "keychain"}
Methods == {"password", "api_key"}
States  == {"", "available", "locked", "unavailable", "unsupported", "invalid"}
Errors  == {"none", "timeout", "not_found",
            "locked", "unavailable", "unsupported", "invalid"}

ASSUME CredsAssumption ==
    /\ PwCreds \cap KeyCreds = {}
    /\ {NoCreds, NoEntry, Corrupt} \cap Credentials = {}
    /\ NoCreds # NoEntry /\ NoCreds # Corrupt /\ NoEntry # Corrupt
ASSUME PrefsAssumption == DefaultPrefs \in Prefs
ASSUME ReachAssumption == Reach \subseteq KeychainConditions
ASSUME RetryAssumption ==
    MaxRetries \in Nat \ {0} /\ GraceRetries \in Nat

VARIABLES
    disk,      \* config.json: the connection section that concerns credentials
    entry,     \* the keychain entry of the application
    late,      \* a keychain write abandoned by callWithTimeout, still in flight
    reach,     \* the condition of the keychain service
    life,      \* "down", the start-up step, or "up"
    mem,       \* Controller.config
    session,   \* Controller.sessionCredentials
    status,    \* Controller.credentialStatus.State
    client,    \* Controller.cachedClientConfig, NoClient when none is cached
    active,    \* Controller.credentialRetryActive
    rPc,       \* control point of credentialRetryLoop
    attempt,   \* its loop counter
    rMarker,   \* the marker credentialRetryStep read
    rGot,      \* what its keychain read returned
    sPc,       \* control point of the settings window and of SaveSettings
    sv         \* their local variables

stores     == <<disk, entry, late, reach>>
controller == <<mem, session, status, client>>
retry      == <<active, rPc, attempt, rMarker, rGot>>
saver      == <<sPc, sv>>
vars       == <<stores, life, controller, retry, saver>>

Config == [mode : Modes, marker : BOOLEAN, method : Methods, plain : Payloads,
           prefs : Prefs]

NoClient == [method |-> "none", creds |-> NoCreds]
Clients  == [method : Methods, creds : Payloads] \cup {NoClient}

RetryPoints == {"off", "check", "session", "get", "result",
                "backfill", "mark", "sleep", "giveup", "exit"}
SavePoints  == {"idle", "form", "compare", "probe", "status", "config", "set",
                "ask", "persist", "session", "restatus", "finish"}
Fallbacks   == {"unspecified", "plaintext", "session_only"}
Paths       == {"edits", "keychain", "plaintext", "session_only"}

Save == [unresolved : BOOLEAN, stored : Methods,    \* the window's snapshot
         method : Methods, creds : Payloads,        \* what is being saved
         prefs : Prefs,
         fallback : Fallbacks, changed : BOOLEAN,
         probe : States, mode : Modes, path : Paths, ok : BOOLEAN]

NoSave == [unresolved |-> FALSE, stored |-> "password",
           method |-> "password", creds |-> NoCreds, prefs |-> DefaultPrefs,
           fallback |-> "unspecified", changed |-> FALSE,
           probe |-> "", mode |-> "", path |-> "edits", ok |-> FALSE]

NoAnswer == [err |-> "none", creds |-> NoCreds]

-----------------------------------------------------------------------------
(* Pure helpers. *)

\* canonicalCredentials: what of c belongs to method m.
Canonical(m, c) ==
    IF c \in (IF m = "api_key" THEN KeyCreds ELSE PwCreds) THEN c ELSE NoCreds

\* inferAuthMethod: password credentials stored before auth methods existed
\* keep the configuration on password authentication.
InferAuthMethod(m, c) ==
    IF m = "api_key" /\ c \in PwCreds THEN "password" ELSE m

\* The keychain's answer to a read in condition r holding e: the error ...
GetError(r, e) ==
    CASE r = "wedged"   -> "timeout"
      [] r = "starting" -> "not_found"
      [] r = "ready"    -> (CASE e = NoEntry -> "not_found"
                              [] e = Corrupt -> "invalid"
                              [] OTHER       -> "none")
      [] OTHER          -> r

\* ... and the result of keyringStore.Get.
GetResult(r, e) ==
    [err |-> GetError(r, e),
     creds |-> IF GetError(r, e) = "none" THEN e ELSE NoCreds]

\* keychainLoadStatus: with the marker set, "not found" means the boot race.
KeychainLoadStatus(marker, err) ==
    CASE err = "none"      -> "available"
      [] err = "timeout"   -> "unavailable"
      [] err = "not_found" -> (IF marker THEN "unavailable" ELSE "available")
      [] OTHER             -> err

\* keyringStore.Status: a keychain that answers "not found" is available.
ProbeStatus(r, e) == KeychainLoadStatus(FALSE, GetError(r, e))

\* The errors a write may report in condition r; {} means it must succeed. A
\* wallet that is still unlocking may accept the write or refuse it.
SetErrors(r) ==
    CASE r = "ready"    -> {}
      [] r = "starting" -> {"unavailable"}
      [] OTHER          -> {r}
SetMaySucceed(r) == r \in {"ready", "starting"}

RetryableStatus(st) == st \in {"locked", "unavailable"}

\* keychainLoadPending: a background retry could still fill the session.
LoadPending(cfg, sess, st) ==
    /\ cfg.mode = "keychain"
    /\ sess = NoCreds
    /\ st # "available" \/ ~cfg.marker

\* keychainLoadUnresolved: the settings form cannot show stored credentials.
LoadUnresolved(cfg, sess, st) ==
    /\ cfg.mode = "keychain" /\ cfg.marker
    /\ sess = NoCreds
    /\ st # "available"

\* apiKeyRequired: saving API-key authentication needs a key, except while the
\* stored one could not be shown and the method is unchanged.
ApiKeyRequired(method, stored, key, unresolved) ==
    /\ method = "api_key" /\ key = NoCreds
    /\ ~(unresolved /\ method = stored)

-----------------------------------------------------------------------------
(* Persisting the configuration. *)

\* persistConfig with edit applied to the in-memory configuration: one
\* stateMu hold writes the file and then the memory; ...
PersistOK(cfg) == disk' = cfg /\ mem' = cfg

\* ... a failing config.Save leaves both as they were.
PersistFails == UNCHANGED <<disk, mem>>

Migrated(cfg) == [cfg EXCEPT !.mode = "keychain", !.marker = TRUE,
                             !.plain = NoCreds]

\* Variant: a session-only save that leaves the old secrets in the file.
EditedKeepingSecrets(cfg, s) ==
    LET edits == [cfg EXCEPT !.method = s.method, !.prefs = s.prefs] IN
    CASE s.path = "edits"     -> edits
      [] s.path = "keychain"  -> Migrated(edits)
      [] s.path = "plaintext" ->
            [edits EXCEPT !.mode = "plaintext", !.marker = FALSE,
                          !.plain = s.creds]
      [] s.path = "session_only" ->
            [edits EXCEPT !.mode = IF s.mode = "keychain" THEN "keychain"
                                                          ELSE "none"]

\* The configuration a save writes on each of its paths (applyEdits and the
\* credential fields of SaveSettings and saveWithFallback).
Edited(cfg, s) ==
    LET edits == [cfg EXCEPT !.method = s.method, !.prefs = s.prefs] IN
    CASE s.path = "edits"     -> edits
      [] s.path = "keychain"  -> Migrated(edits)
      [] s.path = "plaintext" ->
            [edits EXCEPT !.mode = "plaintext", !.marker = FALSE,
                          !.plain = s.creds]
      [] s.path = "session_only" ->
            [edits EXCEPT !.mode = IF s.mode = "keychain" THEN "keychain"
                                                          ELSE "none",
                          !.plain = NoCreds]

-----------------------------------------------------------------------------
(* The initial configurations: none at all, plain-text credentials of a    *)
(* release without keychain support, keychain credentials of a release     *)
(* without the marker and without auth methods (both read as api_key), or  *)
(* such a configuration with a damaged keychain entry.                     *)

OldConfig(mode, plain) ==
    [mode |-> mode, marker |-> FALSE, method |-> "api_key", plain |-> plain,
     prefs |-> DefaultPrefs]

Init ==
    /\ \/ disk = OldConfig("", NoCreds) /\ entry = NoEntry
       \/ /\ \E p \in PwCreds : disk = OldConfig("", p)
          /\ entry = NoEntry
       \/ disk = OldConfig("keychain", NoCreds) /\ entry \in PwCreds \cup {Corrupt}
    /\ late = NoCreds
    /\ reach \in Reach
    /\ life = "down"
    /\ mem = disk
    /\ session = NoCreds /\ status = "" /\ client = NoClient
    /\ active = FALSE /\ rPc = "off" /\ attempt = 1
    /\ rMarker = FALSE /\ rGot = NoAnswer
    /\ sPc = "idle" /\ sv = NoSave

-----------------------------------------------------------------------------
(* Start-up: newController. No other goroutine touches the controller yet, *)
(* so only keychain calls and writes to disk are steps of their own.       *)

\* config.Load.
Start ==
    /\ life = "down"
    /\ life' = "load"
    /\ mem' = disk
    /\ UNCHANGED <<stores, session, status, client, retry, saver>>

\* What loadSessionCredentials does with credentials it obtained:
\* reconcileAuthMethod adjusts the in-memory configuration only.
TakeCredentials(creds) ==
    LET method == InferAuthMethod(mem.method, creds) IN
    /\ mem' = [mem EXCEPT !.method = method]
    /\ session' = Canonical(method, creds)

LoadKeychain ==
    /\ life = "load" /\ mem.mode = "keychain"
    /\ LET got == GetResult(reach, entry) IN
       \/ /\ got.err # "none"
          /\ status' = KeychainLoadStatus(mem.marker, got.err)
          /\ life' = "loaded"
          /\ UNCHANGED <<mem, session>>
       \/ /\ got.err = "none"
          /\ TakeCredentials(got.creds)
          /\ status' = "available"
          /\ life' = IF got.creds # NoCreds THEN "backfill" ELSE "loaded"
    /\ UNCHANGED <<stores, client, retry, saver>>

\* backfillKeychainMarker during start-up.
BootBackfill ==
    /\ life = "backfill"
    /\ life' = "loaded"
    /\ IF mem.marker THEN UNCHANGED <<disk, mem>>
       ELSE PersistOK([mem EXCEPT !.marker = TRUE]) \/ PersistFails
    /\ UNCHANGED <<entry, late, reach, session, status, client, retry, saver>>

\* The modes that need no keychain.
LoadLocal ==
    /\ life = "load"
    /\ \/ mem.mode = "plaintext" /\ TakeCredentials(mem.plain)
       \/ /\ mem.mode = "none" \/ (mem.mode = "" /\ mem.plain = NoCreds)
          /\ UNCHANGED <<mem, session>>
    /\ status' = "available"
    /\ life' = "loaded"
    /\ UNCHANGED <<stores, client, retry, saver>>

\* Legacy plain-text credentials: use them, and probe the keychain.
LoadLegacy ==
    /\ life = "load" /\ mem.mode = "" /\ mem.plain # NoCreds
    /\ TakeCredentials(mem.plain)
    /\ status' = ProbeStatus(reach, entry)
    /\ life' = IF status' = "available" THEN "migrate" ELSE "loaded"
    /\ UNCHANGED <<stores, client, retry, saver>>

\* Variant: the migration goes on after a keychain write that failed.
MigrateWriteIgnoringErrors ==
    /\ life = "migrate"
    /\ entry' \in IF SetMaySucceed(reach) THEN {session} ELSE {entry}
    /\ life' = "commit"
    /\ UNCHANGED <<disk, late, reach, mem, session, status, client, retry, saver>>

\* ... write them to the keychain; a write that times out stays in flight ...
MigrateWrite ==
    /\ life = "migrate"
    /\ \/ /\ SetMaySucceed(reach)
          /\ entry' = session
          /\ life' = "commit"
          /\ UNCHANGED <<late, status>>
       \/ /\ reach = "wedged"
          /\ late' = session
          /\ status' = "unavailable"
          /\ life' = "loaded"
          /\ UNCHANGED entry
       \/ /\ reach # "wedged"
          /\ status' \in SetErrors(reach)
          /\ life' = "loaded"
          /\ UNCHANGED <<entry, late>>
    /\ UNCHANGED <<disk, reach, mem, session, client, retry, saver>>

\* ... and drop them from the file. If that fails newController fails and the
\* application exits, which is the step Stop.
MigrateCommit ==
    /\ life = "commit"
    /\ PersistOK(Migrated(mem))
    /\ life' = "loaded"
    /\ UNCHANGED <<entry, late, reach, session, status, client, retry, saver>>

\* The end of newController: start the retry loop if a load is pending.
BootDone ==
    /\ life = "loaded"
    /\ life' = "up"
    /\ active' = LoadPending(mem, session, status)
    /\ rPc' = IF active' THEN "check" ELSE "off"
    /\ UNCHANGED <<stores, controller, attempt, rMarker, rGot, saver>>

\* The locals of a retry's read are dead once its result is dealt with.
ReadDone == rMarker' = FALSE /\ rGot' = NoAnswer

\* The process dies, newController fails, or the user quits: only the stores
\* survive.
Stop ==
    /\ life # "down"
    /\ life' = "down"
    /\ mem' = disk
    /\ session' = NoCreds /\ status' = "" /\ client' = NoClient
    /\ active' = FALSE /\ rPc' = "off" /\ attempt' = 1 /\ ReadDone
    /\ sPc' = "idle" /\ sv' = NoSave
    /\ UNCHANGED stores

-----------------------------------------------------------------------------
(* The retry loop. *)

\* What every step of the loop leaves alone, beyond what it names itself.
RetryKeeps == UNCHANGED <<entry, late, reach, life, client, active, saver>>

\* Variant: only configurations with the marker are retried.
RetryCheckMarkedOnly ==
    /\ rPc = "check"
    /\ rPc' = IF mem.mode = "keychain" /\ mem.marker THEN "session" ELSE "exit"
    /\ rMarker' = mem.marker
    /\ UNCHANGED <<disk, mem, session, status, attempt, rGot>> /\ RetryKeeps

\* credentialRetryStep, first lock: the storage mode and the marker.
RetryCheck ==
    /\ rPc = "check"
    /\ rPc' = IF mem.mode = "keychain" THEN "session" ELSE "exit"
    /\ rMarker' = mem.marker
    /\ UNCHANGED <<disk, mem, session, status, attempt, rGot>> /\ RetryKeeps

\* Second lock: the session.
RetrySession ==
    /\ rPc = "session"
    /\ rPc' = IF session = NoCreds THEN "get" ELSE "exit"
    /\ UNCHANGED <<disk, mem, session, status, attempt, rMarker, rGot>>
    /\ RetryKeeps

\* The bounded keychain read, outside the lock.
RetryGet ==
    /\ rPc = "get"
    /\ rPc' = "result"
    /\ rGot' = GetResult(reach, entry)
    /\ UNCHANGED <<disk, mem, session, status, attempt, rMarker>> /\ RetryKeeps

\* Variant: the session is not checked again after the keychain read.
AcceptableUnchecked(creds) == mem.mode = "keychain" /\ creds # NoCreds

\* applyKeychainCredentials, with its re-check under the lock.
Acceptable(creds) ==
    /\ mem.mode = "keychain"
    /\ session = NoCreds
    /\ creds # NoCreds

RetryApply ==
    /\ rPc = "result" /\ rGot.err = "none"
    /\ IF Acceptable(rGot.creds)
       THEN TakeCredentials(rGot.creds) /\ status' = "available" /\ rPc' = "backfill"
       ELSE UNCHANGED <<mem, session, status>> /\ rPc' = "exit"
    /\ ReadDone
    /\ UNCHANGED <<disk, attempt>> /\ RetryKeeps

\* backfillKeychainMarker: the check under one lock ...
RetryBackfill ==
    /\ rPc = "backfill"
    /\ rPc' = IF mem.mode = "keychain" /\ ~mem.marker THEN "mark" ELSE "exit"
    /\ UNCHANGED <<disk, mem, session, status, attempt, rMarker, rGot>>
    /\ RetryKeeps

\* Variant: the memory keeps the marker although the file was not written.
RetryMarkMemoryFirst ==
    /\ rPc = "mark"
    /\ rPc' = "exit"
    /\ mem' = [mem EXCEPT !.marker = TRUE]
    /\ disk' \in {mem', disk}
    /\ UNCHANGED <<session, status, attempt, rMarker, rGot>> /\ RetryKeeps

\* Variant: the write restores the storage mode seen by the check.
RetryMarkStale ==
    /\ rPc = "mark"
    /\ rPc' = "exit"
    /\ PersistOK([mem EXCEPT !.marker = TRUE, !.mode = "keychain"]) \/ PersistFails
    /\ UNCHANGED <<session, status, attempt, rMarker, rGot>> /\ RetryKeeps

\* ... and the write under another.
RetryMark ==
    /\ rPc = "mark"
    /\ rPc' = "exit"
    /\ PersistOK([mem EXCEPT !.marker = TRUE]) \/ PersistFails
    /\ UNCHANGED <<session, status, attempt, rMarker, rGot>> /\ RetryKeeps

\* Whether the loop goes on after a read that failed with err.
WorthRetrying(err) ==
    \/ RetryableStatus(KeychainLoadStatus(rMarker, err))
    \/ err = "not_found" /\ ~rMarker /\ attempt < GraceRetries

\* Variant: the cap is tested one attempt late.
RetryFailedOffByOne ==
    /\ rPc = "result" /\ rGot.err # "none"
    /\ status' = KeychainLoadStatus(rMarker, rGot.err)
    /\ rPc' = IF ~WorthRetrying(rGot.err) THEN "exit"
              ELSE IF attempt > MaxRetries THEN "giveup" ELSE "sleep"
    /\ ReadDone
    /\ UNCHANGED <<disk, mem, session, attempt>> /\ RetryKeeps

\* A failed read: record the status, then sleep, give up or stop.
RetryFailed ==
    /\ rPc = "result" /\ rGot.err # "none"
    /\ status' = KeychainLoadStatus(rMarker, rGot.err)
    /\ rPc' = IF ~WorthRetrying(rGot.err) THEN "exit"
              ELSE IF attempt >= MaxRetries THEN "giveup" ELSE "sleep"
    /\ ReadDone
    /\ UNCHANGED <<disk, mem, session, attempt>> /\ RetryKeeps

RetryGiveUp ==
    /\ rPc = "giveup"
    /\ rPc' = "exit"
    /\ status' = "unavailable"
    /\ UNCHANGED <<disk, mem, session, attempt, rMarker, rGot>> /\ RetryKeeps

\* Variant: the attempts are not counted.
RetrySleepUncounted ==
    /\ rPc = "sleep"
    /\ rPc' = "check"
    /\ UNCHANGED <<disk, mem, session, status, attempt, rMarker, rGot>>
    /\ RetryKeeps

RetrySleep ==
    /\ rPc = "sleep"
    /\ rPc' = "check"
    /\ attempt' = attempt + 1
    /\ UNCHANGED <<disk, mem, session, status, rMarker, rGot>> /\ RetryKeeps

\* The deferred reset of credentialRetryActive.
RetryExit ==
    /\ rPc = "exit"
    /\ rPc' = "off" /\ active' = FALSE
    /\ attempt' = 1 /\ ReadDone
    /\ UNCHANGED <<stores, life, controller, saver>>

RetryNext ==
    \/ RetryCheck \/ RetrySession \/ RetryGet \/ RetryApply \/ RetryBackfill
    \/ RetryMark \/ RetryFailed \/ RetryGiveUp \/ RetrySleep \/ RetryExit

-----------------------------------------------------------------------------
(* The settings window and SaveSettings, on the UI thread. *)

SaveKeeps == UNCHANGED <<late, reach, life, retry>>

\* openSettingsWindow: the window remembers whether stored credentials are
\* missing from the form, and the method it was opened with.
OpenSettings ==
    /\ life = "up" /\ sPc = "idle"
    /\ sPc' = "form"
    /\ sv' = [NoSave EXCEPT !.unresolved = LoadUnresolved(mem, session, status),
                            !.stored = mem.method]
    /\ UNCHANGED <<disk, entry, controller>> /\ SaveKeeps

\* The window is closed without saving.
CloseSettings ==
    /\ sPc \in {"form", "ask"}
    /\ sPc' = "idle" /\ sv' = NoSave
    /\ UNCHANGED <<disk, entry, controller>> /\ SaveKeeps

\* mergeUnloadedCredentials: a field left blank takes the loaded value.
MergeUnloaded(typed, loaded) == IF typed = NoCreds THEN loaded ELSE typed

\* The Save button: the form holds a method and any credentials the user
\* typed or left blank; the inactive method's fields are dropped.
SubmitForm ==
    /\ sPc = "form"
    /\ \E method \in Methods :
       \E typed \in (IF method = "api_key" THEN KeyCreds ELSE PwCreds) \cup {NoCreds} :
          LET loaded == Canonical(method, session)
              creds  == IF sv.unresolved THEN MergeUnloaded(typed, loaded) ELSE typed
          IN /\ ~ApiKeyRequired(method, sv.stored, creds, sv.unresolved)
             /\ sv' = [NoSave EXCEPT !.method = method, !.creds = creds,
                                     !.prefs = mem.prefs]
    /\ sPc' = "compare"
    /\ UNCHANGED <<disk, entry, controller>> /\ SaveKeeps

\* SaveSettings: compare with the session ...
SaveCompare ==
    /\ sPc = "compare"
    /\ sPc' = "probe"
    /\ sv' = [sv EXCEPT !.changed = sv.creds # session]
    /\ UNCHANGED <<disk, entry, controller>> /\ SaveKeeps

\* ... probe the keychain, without a timeout ...
SaveProbe ==
    /\ sPc = "probe" /\ reach # "wedged"
    /\ sPc' = "status"
    /\ sv' = [sv EXCEPT !.probe = ProbeStatus(reach, entry)]
    /\ UNCHANGED <<disk, entry, controller>> /\ SaveKeeps

\* ... publish the status ...
SaveStatus ==
    /\ sPc = "status"
    /\ sPc' = "config"
    /\ status' = sv.probe
    /\ UNCHANGED <<disk, entry, mem, session, client, sv>> /\ SaveKeeps

\* What a save does when the keychain cannot take the credentials.
Fallback(s) ==
    IF s.fallback = "unspecified" THEN "edits" ELSE s.fallback

\* ... read the storage mode, and choose a path.
SaveConfig ==
    /\ sPc = "config"
    /\ LET blank == /\ sv.creds = NoCreds
                    /\ mem.mode = "keychain" /\ mem.marker
           edits == blank \/ (sv.probe # "available" /\ ~sv.changed)
       IN /\ sPc' = IF edits THEN "persist"
                    ELSE IF sv.probe = "available" THEN "set"
                    ELSE IF sv.fallback = "unspecified" THEN "ask" ELSE "persist"
          /\ sv' = [sv EXCEPT !.mode = mem.mode,
                              !.path = IF edits THEN "edits" ELSE Fallback(sv)]
    /\ UNCHANGED <<disk, entry, controller>> /\ SaveKeeps

\* The keychain write of a save.
SaveSet ==
    /\ sPc = "set" /\ SetMaySucceed(reach)
    /\ entry' = sv.creds
    /\ sPc' = "persist"
    /\ sv' = [sv EXCEPT !.path = "keychain"]
    /\ UNCHANGED <<disk, controller>> /\ SaveKeeps

\* Variant: a failed keychain write of a save is taken for a success.
SaveSetFailsUnnoticed ==
    /\ sPc = "set" /\ reach # "wedged" /\ SetErrors(reach) # {}
    /\ sPc' = "persist"
    /\ sv' = [sv EXCEPT !.path = "keychain"]
    /\ UNCHANGED <<disk, entry, controller>> /\ SaveKeeps

\* It fails: ask the user where to store changed credentials, use the answer
\* if there is one, or report an error (an unchanged save with no answer).
SaveSetFails ==
    /\ sPc = "set" /\ reach # "wedged"
    /\ \E err \in SetErrors(reach) :
          status' = err /\ sv' = [sv EXCEPT !.probe = err]
    /\ sPc' = IF sv.fallback # "unspecified" THEN "persist"
              ELSE IF sv.changed THEN "ask" ELSE "finish"
    /\ UNCHANGED <<disk, entry, mem, session, client>> /\ SaveKeeps

\* The dialog is answered: SaveSettings runs again with the choice.
AnswerDialog ==
    /\ sPc = "ask"
    /\ \E choice \in {"plaintext", "session_only"} :
          sv' = [sv EXCEPT !.fallback = choice]
    /\ sPc' = "compare"
    /\ UNCHANGED <<disk, entry, controller>> /\ SaveKeeps

\* persistConfig on the chosen path. Integration warnings end a settings-only
\* save early.
SavePersist ==
    /\ sPc = "persist"
    /\ PersistOK(Edited(mem, sv))
    /\ sPc' \in IF sv.path = "edits" THEN {"restatus", "finish"} ELSE {"session"}
    /\ sv' = [sv EXCEPT !.ok = TRUE]
    /\ UNCHANGED <<entry, session, status, client>> /\ SaveKeeps

SavePersistFails ==
    /\ sPc = "persist"
    /\ PersistFails
    /\ sPc' = "finish"
    /\ UNCHANGED <<entry, session, status, client, sv>> /\ SaveKeeps

SaveSession ==
    /\ sPc = "session"
    /\ sPc' = "restatus"
    /\ session' = sv.creds
    /\ UNCHANGED <<disk, entry, mem, status, client, sv>> /\ SaveKeeps

SaveRestatus ==
    /\ sPc = "restatus"
    /\ sPc' = "finish"
    /\ status' = sv.probe
    /\ UNCHANGED <<disk, entry, mem, session, client, sv>> /\ SaveKeeps

\* finishSave: changed log settings replace the logger, and SetLogger drops
\* the cached client.
FinishSave ==
    /\ sPc = "finish"
    /\ sPc' = "idle" /\ sv' = NoSave
    /\ client' \in {client, NoClient}
    /\ UNCHANGED <<disk, entry, mem, session, status>> /\ SaveKeeps

SaveNext ==
    \/ OpenSettings \/ CloseSettings \/ SubmitForm \/ SaveCompare \/ SaveProbe
    \/ SaveStatus \/ SaveConfig \/ SaveSet \/ SaveSetFails \/ AnswerDialog
    \/ SavePersist \/ SavePersistFails \/ SaveSession \/ SaveRestatus \/ FinishSave

-----------------------------------------------------------------------------
(* Everything else. *)

\* SaveLocalUI and rememberSavePath, from any goroutine: a path was used, a
\* column resized, a filter chosen.
SaveLocalUI ==
    /\ life = "up"
    /\ \E p \in Prefs : PersistOK([mem EXCEPT !.prefs = p])
    /\ UNCHANGED <<entry, late, reach, life, session, status, client, retry, saver>>

\* client(), on behalf of a fetch: refused while stored credentials are not
\* loaded; an API-key connection without a key is an error.
Unloaded == mem.mode = "keychain" /\ session = NoCreds /\ status # "available"

FetchClient ==
    /\ life = "up"
    /\ ~Unloaded
    /\ LET key == [method |-> mem.method, creds |-> Canonical(mem.method, session)]
       IN /\ key.method = "api_key" => key.creds # NoCreds
          /\ client # key
          /\ client' = key
    /\ UNCHANGED <<stores, life, mem, session, status, retry, saver>>

\* The keychain service changes: the wallet unlocks, the service stops, ...
KeychainChanges ==
    /\ reach' \in Reach
    /\ UNCHANGED <<disk, entry, late, life, controller, retry, saver>>

\* An abandoned write is carried out after all, or lost.
LateWrite ==
    /\ late # NoCreds /\ reach # "wedged"
    /\ entry' \in {late, entry}
    /\ late' = NoCreds
    /\ UNCHANGED <<disk, reach, life, controller, retry, saver>>

Next ==
    \/ Start \/ LoadKeychain \/ BootBackfill \/ LoadLocal \/ LoadLegacy
    \/ MigrateWrite \/ MigrateCommit \/ BootDone \/ Stop
    \/ RetryNext
    \/ SaveNext
    \/ SaveLocalUI \/ FetchClient \/ KeychainChanges \/ LateWrite

\* The retry goroutine is scheduled, its reads are bounded and its pauses end.
\* Nothing is assumed of the user, of the keychain or of the save.
Spec == Init /\ [][Next]_vars /\ WF_vars(RetryNext)
-----------------------------------------------------------------------------
(* Type invariant. *)

\* Every variable stays within its type; the loop counter within the cap.
TypeOK ==
    /\ disk \in Config /\ mem \in Config
    /\ entry \in Entries /\ late \in Payloads
    /\ reach \in Reach
    /\ life \in {"down", "load", "backfill", "migrate", "commit", "loaded", "up"}
    /\ session \in Payloads /\ status \in States /\ client \in Clients
    /\ active \in BOOLEAN /\ rPc \in RetryPoints
    /\ attempt \in 1 .. MaxRetries
    /\ rMarker \in BOOLEAN
    /\ rGot \in [err : Errors, creds : Payloads]
    /\ sPc \in SavePoints /\ sv \in Save

-----------------------------------------------------------------------------
(* Safety. *)

\* The keychain holds an entry whenever the configuration, on disk or in
\* memory, claims that credentials were written to it: at any crash the marker
\* may turn "not found" into "not loaded yet" and nothing else.
MarkerMeansStored ==
    disk.marker \/ mem.marker => entry # NoEntry

\* Credentials loaded or entered are never replaced behind the user's back:
\* only a save, or the end of the process, changes a non-empty session, in
\* whatever order a keychain read of the retry loop and a save complete.
OnlySaveReplacesSession ==
    [][session # NoCreds /\ session' # session
          => sPc = "session" \/ life' = "down"]_vars

\* The file and the memory of a running application agree on everything about
\* credentials but the inferred authentication method, which waits for the
\* next write: no writer works from a stale copy and no failed write counts.
MemoryMatchesDisk ==
    /\ mem.mode = disk.mode
    /\ mem.marker = disk.marker
    /\ mem.plain = disk.plain

\* Only a settings save or the start-up migration changes where credentials
\* are stored; the retry loop's marker write and local UI saves, whenever they
\* land, keep the choice made in the meantime.
OnlySavesChangeStorage ==
    [][disk'.mode # disk.mode => sPc = "persist" \/ life = "commit"]_vars

\* Secrets are in the file only if they were there before the application
\* knew keychains, or after a keychain failure and the user's explicit
\* consent to plain text.
PlaintextNeedsConsent ==
    /\ disk.plain # NoCreds => disk.mode \in {"", "plaintext"}
    /\ sPc = "persist" /\ sv.path = "plaintext"
          => sv.fallback = "plaintext" /\ sv.probe # "available"

\* A save of entered credentials that went to the keychain and was persisted
\* leaves the session, the keychain and the file consistent, whatever the
\* retry loop did meanwhile. (An abandoned write of an earlier start-up may still overwrite the entry:
\* the property is about keychains that answer.)
KeychainSaveIsComplete ==
    sPc = "finish" /\ sv.ok /\ sv.path = "keychain" /\ sv.creds # NoCreds
        => /\ session = sv.creds /\ entry = sv.creds
           /\ disk.mode = "keychain" /\ disk.marker /\ disk.plain = NoCreds

\* The migration removes the plain-text credentials from the file only once
\* the keychain holds what it removes.
MigrationKeepsCredentials ==
    [][life = "commit" /\ disk.plain # NoCreds /\ disk'.plain = NoCreds
          => entry = disk.plain]_vars

-----------------------------------------------------------------------------
(* Refinement. *)

\* What the next start would find: loadSessionCredentials looks at one place.
Secret ==
    CASE disk.mode = "keychain" -> entry
      [] disk.mode = "none"     -> NoCreds
      [] OTHER                  -> disk.plain

Entered == IF sPc \in {"idle", "form"} THEN {} ELSE {sv.creds}

Vault == INSTANCE CredentialVault WITH
    Contents <- Entries, Nothing <- NoCreds,
    place <- disk.mode, secret <- Secret, entered <- Entered

\* The controller implements the vault: between a start, a migration, the retry
\* loop, a save and a crash at any point, no step but a save of the user changes
\* where the credentials are or what the next start finds there, and a migration
\* moves them as they are. (This is about keychains that answer: a write of a
\* migration that was abandoned at its timeout may still replace the entry.)
ImplementsVault == Vault!Spec

-----------------------------------------------------------------------------
(* Liveness. *)

\* The waiting hint does not stay for ever: a running retry loop ends.
RetryEnds == active ~> ~active

\* A retry attempt that starts while the keychain is answering loads stored
\* credentials of the configured method into an empty session, unless the
\* service fails again, the user saves, or the process ends.
ReadyKeychainIsLoaded ==
    (/\ rPc = "check" /\ mem.mode = "keychain" /\ session = NoCreds
     /\ Canonical(InferAuthMethod(mem.method, entry), entry) # NoCreds
     /\ reach = "ready" /\ sPc = "idle")
    ~> (session # NoCreds \/ reach # "ready" \/ sPc # "idle" \/ life = "down")

-----------------------------------------------------------------------------
(* What the code base says and the runs refute. *)

\* config.go: the marker "is cleared whenever a save persists non-keychain
\* storage".
MarkerClearedByFallback ==
    disk.mode \in {"none", "plaintext"} => ~disk.marker

\* controller.go: the edits of a save are applied to the latest configuration,
\* so they can never revert changes persisted in the meantime; only the fields
\* the form owns are written. So the write of a save, which in this model owns
\* none of the preferences, leaves them as it finds them.
SaveRevertsNothing ==
    [][sPc = "persist" /\ sPc' \notin {"idle", "persist"} => mem'.prefs = mem.prefs]_vars

\* credential_retry.go: a retry finishing after the user re-entered
\* credentials can never clobber them; controller.go: an explicitly chosen
\* api_key method cannot be overridden by inference. So the method a save
\* wrote is still the method in force when that save completes.
ChosenMethodSurvives ==
    sPc \in {"session", "restatus", "finish"} /\ sv.ok
        => mem.method = sv.method

\* controller.go, client(): while stored keychain credentials have not been
\* loaded into the session, fetches fail instead of connecting with empty
\* credentials. (No save is in progress here, and the stored entry belongs to
\* the active method.)
NoEmptyCredentialFetch ==
    [][( /\ client' # client /\ client' # NoClient /\ client'.creds = NoCreds
         /\ sPc = "idle" )
       => ~( /\ mem.mode = "keychain" /\ mem.marker
             /\ Canonical(mem.method, entry) # NoCreds )]_vars
=============================================================================
