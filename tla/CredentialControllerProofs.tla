--------------------- MODULE CredentialControllerProofs ---------------------
(***************************************************************************)
(* Proofs about CredentialController for every set of credentials, every   *)
(* keychain behaviour and every retry bound.                               *)
(***************************************************************************)
EXTENDS CredentialController, TLAPS

USE CredsAssumption, PrefsAssumption, ReachAssumption, RetryAssumption

-----------------------------------------------------------------------------
(* What the pure helpers return. *)

\* canonicalCredentials returns a payload: its argument or nothing.
LEMMA CanonicalType ==
    ASSUME NEW m \in Methods, NEW c \in Payloads
    PROVE  Canonical(m, c) \in Payloads
BY DEF Canonical, Payloads, Credentials

\* inferAuthMethod returns an authentication method.
LEMMA InferType ==
    ASSUME NEW m \in Methods, NEW c
    PROVE  InferAuthMethod(m, c) \in Methods
BY DEF InferAuthMethod, Methods

\* A keychain read returns a classified error, or a payload and no error.
LEMMA GetErrorType ==
    ASSUME NEW r \in Reach, NEW e \in Entries
    PROVE  GetError(r, e) \in Errors
BY DEF GetError, Errors, KeychainConditions

LEMMA GetResultType ==
    ASSUME NEW r \in Reach, NEW e \in Entries
    PROVE  GetResult(r, e) \in [err : Errors, creds : Payloads]
<1>1. GetError(r, e) \in Errors
  BY GetErrorType
<1>2. GetError(r, e) = "none" => e \in Payloads
  BY DEF GetError, Entries, KeychainConditions
<1>3. NoCreds \in Payloads
  BY DEF Payloads
<1> QED
  BY <1>1, <1>2, <1>3 DEF GetResult

\* A read succeeds only on an existing entry, and returns it.
LEMMA GetFindsEntry ==
    ASSUME NEW r \in Reach, NEW e, GetResult(r, e).err = "none"
    PROVE  e # NoEntry
BY DEF GetResult, GetError, KeychainConditions

\* keychainLoadStatus and Status return a published state.
LEMMA LoadStatusType ==
    ASSUME NEW m \in BOOLEAN, NEW err \in Errors
    PROVE  KeychainLoadStatus(m, err) \in States \ {""}
BY DEF KeychainLoadStatus, Errors, States

LEMMA ProbeStatusType ==
    ASSUME NEW r \in Reach, NEW e \in Entries
    PROVE  ProbeStatus(r, e) \in States \ {""}
BY GetErrorType, LoadStatusType DEF ProbeStatus

\* A failed write reports a published state, except a timeout.
LEMMA SetErrorsType ==
    ASSUME NEW r \in Reach, r # "wedged"
    PROVE  SetErrors(r) \subseteq States
BY DEF SetErrors, States, KeychainConditions

\* What a save writes is a configuration.
LEMMA EditedType ==
    ASSUME NEW cfg \in Config, NEW s \in Save
    PROVE  Edited(cfg, s) \in Config
<1> DEFINE edits == [cfg EXCEPT !.method = s.method, !.prefs = s.prefs]
<1>1. edits \in Config
  BY DEF Config, Save
<1>2. s.path \in Paths /\ s.creds \in Payloads
  BY DEF Save
<1>3. "keychain" \in Modes /\ "none" \in Modes /\ "plaintext" \in Modes
  BY DEF Modes
<1>4. NoCreds \in Payloads
  BY DEF Payloads
<1> HIDE DEF edits
<1>5. Migrated(edits) \in Config
  BY <1>1, <1>3, <1>4 DEF Migrated, Config
<1>6. [edits EXCEPT !.mode = "plaintext", !.marker = FALSE, !.plain = s.creds]
        \in Config
  BY <1>1, <1>2, <1>3 DEF Config
<1>7. [edits EXCEPT !.mode = IF s.mode = "keychain" THEN "keychain" ELSE "none",
                    !.plain = NoCreds] \in Config
  BY <1>1, <1>3, <1>4 DEF Config
<1> QED
  BY <1>1, <1>2, <1>5, <1>6, <1>7 DEF Edited, Paths, edits

\* What the other writers of the configuration produce is a configuration.
LEMMA MarkedType ==
    ASSUME NEW cfg \in Config
    PROVE  /\ [cfg EXCEPT !.marker = TRUE] \in Config
           /\ Migrated(cfg) \in Config
           /\ \A m \in Methods : [cfg EXCEPT !.method = m] \in Config
           /\ \A p \in Prefs : [cfg EXCEPT !.prefs = p] \in Config
<1>1. "keychain" \in Modes /\ NoCreds \in Payloads
  BY DEF Modes, Payloads
<1> QED
  BY <1>1 DEF Config, Migrated

-----------------------------------------------------------------------------
(* Type correctness. The loop counter stays within the cap because the loop *)
(* only sleeps, and so only counts up, below it.                            *)

TypeInv ==
    /\ TypeOK
    /\ rPc = "sleep" => attempt < MaxRetries

\* The cap is a positive number, so the first attempt is within it.
LEMMA FirstAttempt == 1 \in 1 .. MaxRetries
OBVIOUS

LEMMA TypeInit == Init => TypeInv
<1> SUFFICES ASSUME Init PROVE TypeInv
  OBVIOUS
<1>1. disk \in Config /\ mem \in Config
  <2>1. \A m \in Modes, p \in Payloads : OldConfig(m, p) \in Config
    BY DEF OldConfig, Config, Methods
  <2>2. /\ "" \in Modes /\ "keychain" \in Modes
        /\ NoCreds \in Payloads /\ PwCreds \subseteq Payloads
    BY DEF Modes, Payloads, Credentials
  <2> QED
    BY <2>1, <2>2 DEF Init
<1>2. entry \in Entries /\ late \in Payloads
  BY DEF Init, Entries, Payloads, Credentials
<1>3. client \in Clients /\ status \in States /\ session \in Payloads
  BY DEF Init, Clients, NoClient, States, Payloads
<1>4. rGot \in [err : Errors, creds : Payloads]
  BY DEF Init, NoAnswer, Errors, Payloads
<1>5. sv \in Save
  BY DEF Init, NoSave, Save, Methods, Payloads, Fallbacks, States, Modes, Paths
<1> QED
  BY <1>1, <1>2, <1>3, <1>4, <1>5, FirstAttempt
  DEF Init, TypeInv, TypeOK, RetryPoints, SavePoints

\* The loop's locals after reset, and the window's, are well typed.
LEMMA ResetTypes ==
    /\ NoAnswer \in [err : Errors, creds : Payloads]
    /\ NoSave \in Save
    /\ NoClient \in Clients
    /\ NoCreds \in Payloads
<1>1. NoSave \in Save
  BY DEF NoSave, Save, Methods, Payloads, Fallbacks, States, Modes, Paths
<1> QED
  BY <1>1 DEF NoAnswer, Errors, Payloads, NoClient, Clients

\* Credentials taken over leave the configuration and the session well typed.
LEMMA TakeType ==
    ASSUME TypeOK, NEW c \in Payloads, TakeCredentials(c)
    PROVE  mem' \in Config /\ session' \in Payloads
<1> DEFINE m == InferAuthMethod(mem.method, c)
<1>1. m \in Methods
  BY InferType DEF TypeOK, Config
<1> HIDE DEF m
<1>2. mem' = [mem EXCEPT !.method = m] /\ session' = Canonical(m, c)
  BY DEF TakeCredentials, m
<1> QED
  BY <1>1, <1>2, MarkedType, CanonicalType DEF TypeOK

\* Every step of the start-up, and the end of the process, keeps the types.
LEMMA BootTypes ==
    ASSUME TypeInv,
           Start \/ LoadKeychain \/ BootBackfill \/ LoadLocal \/ LoadLegacy
             \/ MigrateWrite \/ MigrateCommit \/ BootDone \/ Stop
    PROVE  TypeInv'
<1> USE DEF TypeInv, TypeOK, stores, controller, retry, saver
<1>1. CASE Start
  BY <1>1 DEF Start
<1>2. CASE LoadKeychain
  <2> DEFINE got == GetResult(reach, entry)
  <2>1. got \in [err : Errors, creds : Payloads]
    BY GetResultType
  <2>2. KeychainLoadStatus(mem.marker, got.err) \in States
    BY <2>1, LoadStatusType DEF Config
  <2> HIDE DEF got
  <2>3. mem' \in Config /\ session' \in Payloads
    <3>1. CASE got.err # "none"
      BY <1>2, <3>1 DEF LoadKeychain, got
    <3>2. CASE got.err = "none"
      BY <1>2, <2>1, <3>2, TakeType DEF LoadKeychain, got
    <3> QED BY <3>1, <3>2
  <2>4. status' \in States
    BY <1>2, <2>2 DEF LoadKeychain, got, States
  <2> QED
    BY <1>2, <2>3, <2>4 DEF LoadKeychain
<1>3. CASE BootBackfill
  BY <1>3, MarkedType DEF BootBackfill, PersistOK, PersistFails
<1>4. CASE LoadLocal
  <2>1. mem.plain \in Payloads
    BY DEF Config
  <2>2. mem' \in Config /\ session' \in Payloads
    BY <1>4, <2>1, TakeType DEF LoadLocal
  <2> QED
    BY <1>4, <2>2 DEF LoadLocal, States
<1>5. CASE LoadLegacy
  <2>1. mem.plain \in Payloads
    BY DEF Config
  <2>2. mem' \in Config /\ session' \in Payloads
    BY <1>5, <2>1, TakeType DEF LoadLegacy
  <2>3. status' \in States
    BY <1>5, ProbeStatusType DEF LoadLegacy
  <2> QED
    BY <1>5, <2>2, <2>3 DEF LoadLegacy
<1>6. CASE MigrateWrite
  <2>1. entry' \in Entries /\ late' \in Payloads
    BY <1>6 DEF MigrateWrite, Entries
  <2>2. status' \in States
    BY <1>6, SetErrorsType DEF MigrateWrite, States
  <2> QED
    BY <1>6, <2>1, <2>2 DEF MigrateWrite
<1>7. CASE MigrateCommit
  BY <1>7, MarkedType DEF MigrateCommit, PersistOK
<1>8. CASE BootDone
  BY <1>8 DEF BootDone, LoadPending, RetryPoints
<1>9. CASE Stop
  BY <1>9, ResetTypes, FirstAttempt
  DEF Stop, ReadDone, RetryPoints, SavePoints, States
<1> QED
  BY <1>1, <1>2, <1>3, <1>4, <1>5, <1>6, <1>7, <1>8, <1>9

\* Every step of the retry loop keeps the types.
LEMMA RetryTypes ==
    ASSUME TypeInv, RetryNext
    PROVE  TypeInv'
<1> USE DEF TypeInv, TypeOK, RetryKeeps, saver, RetryPoints
<1>1. CASE RetryCheck
  BY <1>1 DEF RetryCheck, Config
<1>2. CASE RetrySession
  BY <1>2 DEF RetrySession
<1>3. CASE RetryGet
  BY <1>3, GetResultType DEF RetryGet
<1>4. CASE RetryApply
  <2>1. rGot.creds \in Payloads
    OBVIOUS
  <2>2. mem' \in Config /\ session' \in Payloads
    BY <1>4, <2>1, TakeType DEF RetryApply
  <2>3. rPc' \in RetryPoints \ {"sleep"} /\ status' \in States
    BY <1>4 DEF RetryApply, States
  <2> QED
    BY <1>4, <2>2, <2>3, ResetTypes DEF RetryApply, ReadDone
<1>5. CASE RetryBackfill
  BY <1>5 DEF RetryBackfill
<1>6. CASE RetryMark
  BY <1>6, MarkedType DEF RetryMark, PersistOK, PersistFails
<1>7. CASE RetryFailed
  <2>1. status' \in States
    BY <1>7, LoadStatusType DEF RetryFailed
  <2>2. rPc' \in RetryPoints /\ (rPc' = "sleep" => attempt' < MaxRetries)
    BY <1>7 DEF RetryFailed
  <2> QED
    BY <1>7, <2>1, <2>2, ResetTypes DEF RetryFailed, ReadDone
<1>8. CASE RetryGiveUp
  BY <1>8 DEF RetryGiveUp, States
<1>9. CASE RetrySleep
  BY <1>9 DEF RetrySleep
<1>10. CASE RetryExit
  BY <1>10, ResetTypes, FirstAttempt
  DEF RetryExit, ReadDone, stores, controller
<1> QED
  BY <1>1, <1>2, <1>3, <1>4, <1>5, <1>6, <1>7, <1>8, <1>9, <1>10 DEF RetryNext

\* Every step of the settings window keeps the types.
LEMMA SaveTypes ==
    ASSUME TypeInv, SaveNext
    PROVE  TypeInv'
<1> USE DEF TypeInv, TypeOK, SaveKeeps, retry, controller, SavePoints
<1>1. CASE OpenSettings
  <2>1. sv' \in Save
    BY <1>1, ResetTypes DEF OpenSettings, LoadUnresolved, Save, Config
  <2> QED
    BY <1>1, <2>1 DEF OpenSettings
<1>2. CASE CloseSettings
  BY <1>2, ResetTypes DEF CloseSettings
<1>3. CASE SubmitForm
  <2>1. PICK method \in Methods, creds \in Payloads :
            sv' = [NoSave EXCEPT !.method = method, !.creds = creds,
                                 !.prefs = mem.prefs]
    <3>1. \A m \in Methods : Canonical(m, session) \in Payloads
      BY CanonicalType
    <3>2. \A m \in Methods :
            (IF m = "api_key" THEN KeyCreds ELSE PwCreds) \cup {NoCreds}
              \subseteq Payloads
      BY DEF Payloads, Credentials
    <3> QED
      BY <1>3, <3>1, <3>2 DEF SubmitForm, MergeUnloaded
  <2>2. sv' \in Save
    BY <2>1, ResetTypes DEF Save, Config
  <2> QED
    BY <1>3, <2>2 DEF SubmitForm
<1>4. CASE SaveCompare
  BY <1>4 DEF SaveCompare, Save
<1>5. CASE SaveProbe
  <2>1. ProbeStatus(reach, entry) \in States
    BY ProbeStatusType
  <2> QED
    BY <1>5, <2>1 DEF SaveProbe, Save
<1>6. CASE SaveStatus
  BY <1>6 DEF SaveStatus, Save
<1>7. CASE SaveConfig
  <2>1. Fallback(sv) \in Paths /\ "edits" \in Paths
    BY DEF Fallback, Paths, Save, Fallbacks
  <2>2. sv' \in Save
    BY <1>7, <2>1 DEF SaveConfig, Save, Config
  <2> QED
    BY <1>7, <2>2 DEF SaveConfig
<1>8. CASE SaveSet
  <2>1. sv' \in Save
    BY <1>8 DEF SaveSet, Save, Paths
  <2>2. entry' \in Entries
    BY <1>8 DEF SaveSet, Save, Entries
  <2> QED
    BY <1>8, <2>1, <2>2 DEF SaveSet
<1>9. CASE SaveSetFails
  <2>1. status' \in States /\ sv' \in Save
    BY <1>9, SetErrorsType DEF SaveSetFails, Save
  <2> QED
    BY <1>9, <2>1 DEF SaveSetFails
<1>10. CASE AnswerDialog
  <2>1. sv' \in Save
    BY <1>10 DEF AnswerDialog, Save, Fallbacks
  <2> QED
    BY <1>10, <2>1 DEF AnswerDialog
<1>11. CASE SavePersist
  <2>1. disk' \in Config /\ mem' \in Config
    BY <1>11, EditedType DEF SavePersist, PersistOK
  <2>2. sv' \in Save
    BY <1>11 DEF SavePersist, Save
  <2> QED
    BY <1>11, <2>1, <2>2 DEF SavePersist
<1>12. CASE SavePersistFails
  BY <1>12 DEF SavePersistFails, PersistFails
<1>13. CASE SaveSession
  BY <1>13 DEF SaveSession, Save
<1>14. CASE SaveRestatus
  BY <1>14 DEF SaveRestatus, Save
<1>15. CASE FinishSave
  BY <1>15, ResetTypes DEF FinishSave
<1> QED
  BY <1>1, <1>2, <1>3, <1>4, <1>5, <1>6, <1>7, <1>8, <1>9, <1>10,
     <1>11, <1>12, <1>13, <1>14, <1>15 DEF SaveNext

\* So do all the other steps, and a stutter.
LEMMA OtherTypes ==
    ASSUME TypeInv,
           SaveLocalUI \/ FetchClient \/ KeychainChanges \/ LateWrite
             \/ UNCHANGED vars
    PROVE  TypeInv'
<1> USE DEF TypeInv, TypeOK, stores, controller, retry, saver
<1>1. CASE SaveLocalUI
  BY <1>1, MarkedType DEF SaveLocalUI, PersistOK
<1>2. CASE FetchClient
  <2>1. client' \in Clients
    BY <1>2, CanonicalType DEF FetchClient, Clients, Config
  <2> QED
    BY <1>2, <2>1 DEF FetchClient
<1>3. CASE KeychainChanges
  BY <1>3 DEF KeychainChanges
<1>4. CASE LateWrite
  BY <1>4, ResetTypes DEF LateWrite, Entries
<1>5. CASE UNCHANGED vars
  BY <1>5 DEF vars
<1> QED
  BY <1>1, <1>2, <1>3, <1>4, <1>5

LEMMA TypeNext == TypeInv /\ [Next]_vars => TypeInv'
BY BootTypes, RetryTypes, SaveTypes, OtherTypes DEF Next

\* Every variable keeps its type, and the retry loop makes at most MaxRetries
\* attempts.
THEOREM TypeCorrect == Spec => []TypeOK
<1>1. TypeInv => TypeOK
  BY DEF TypeInv
<1> QED
  BY TypeInit, TypeNext, <1>1, PTL DEF Spec

-----------------------------------------------------------------------------
(* The marker. An entry, once written, is never removed (no caller deletes *)
(* it), so it is enough that every path towards setting the marker is      *)
(* entered with an entry in place.                                         *)

\* The control points from which the marker is about to be written.
MarkerPending ==
    \/ life \in {"backfill", "commit"}
    \/ rPc \in {"backfill", "mark"}
    \/ rPc = "result" /\ rGot.err = "none"
    \/ sPc = "persist" /\ sv.path = "keychain"

MarkerInv ==
    /\ MarkerMeansStored
    /\ MarkerPending => entry # NoEntry
    /\ sPc = "set" => sv.path # "keychain"

LEMMA PayloadIsEntry == ASSUME NEW c \in Payloads PROVE c # NoEntry
BY DEF Payloads, Credentials

LEMMA MarkerInit == Init => MarkerInv
<1> SUFFICES ASSUME Init PROVE MarkerInv
  OBVIOUS
<1>1. ~disk.marker /\ ~mem.marker
  <2>1. \A m, p : ~OldConfig(m, p).marker
    BY DEF OldConfig
  <2> QED
    BY <2>1 DEF Init
<1> QED
  BY <1>1 DEF Init, NoAnswer, MarkerInv, MarkerMeansStored, MarkerPending

\* No step removes the entry.
LEMMA EntryStays ==
    ASSUME TypeInv, [Next]_vars, entry # NoEntry
    PROVE  entry' # NoEntry
<1> USE DEF TypeInv, TypeOK
<1>1. CASE MigrateWrite
  BY <1>1, PayloadIsEntry DEF MigrateWrite
<1>2. CASE SaveSet
  <2>1. sv.creds \in Payloads
    BY DEF Save
  <2> QED
    BY <1>2, <2>1, PayloadIsEntry DEF SaveSet
<1>3. CASE LateWrite
  BY <1>3, PayloadIsEntry DEF LateWrite
<1>4. CASE ~MigrateWrite /\ ~SaveSet /\ ~LateWrite
  <2>1. CASE Start \/ LoadKeychain \/ BootBackfill \/ LoadLocal \/ LoadLegacy
              \/ MigrateCommit \/ BootDone \/ Stop
    BY <2>1 DEF Start, LoadKeychain, BootBackfill, LoadLocal, LoadLegacy,
                MigrateCommit, BootDone, Stop, stores
  <2>2. CASE RetryNext
    BY <2>2 DEF RetryNext, RetryCheck, RetrySession, RetryGet, RetryApply,
                RetryBackfill, RetryMark, RetryFailed, RetryGiveUp, RetrySleep,
                RetryExit, RetryKeeps, stores
  <2>3. CASE SaveNext
    BY <1>4, <2>3 DEF SaveNext, OpenSettings, CloseSettings, SubmitForm,
                SaveCompare, SaveProbe, SaveStatus, SaveConfig, SaveSetFails,
                AnswerDialog, SavePersist, SavePersistFails, SaveSession,
                SaveRestatus, FinishSave
  <2>4. CASE SaveLocalUI \/ FetchClient \/ KeychainChanges \/ UNCHANGED vars
    BY <2>4 DEF SaveLocalUI, FetchClient, KeychainChanges, vars, stores
  <2> QED
    BY <1>4, <2>1, <2>2, <2>3, <2>4 DEF Next
<1> QED
  BY <1>1, <1>2, <1>3, <1>4

\* The boot: the marker is written after a successful read or write.
LEMMA MarkerBoot ==
    ASSUME TypeInv, MarkerInv, entry = NoEntry,
           Start \/ LoadKeychain \/ BootBackfill \/ LoadLocal \/ LoadLegacy
             \/ MigrateWrite \/ MigrateCommit \/ BootDone \/ Stop
    PROVE  MarkerInv'
<1> USE DEF TypeInv, TypeOK, MarkerInv, MarkerMeansStored, MarkerPending,
            stores, controller, retry, saver
<1>1. CASE Start
  BY <1>1 DEF Start
<1>2. CASE LoadKeychain
  <2>1. GetResult(reach, entry).err # "none"
    BY GetFindsEntry
  <2>2. mem' = mem /\ life' = "loaded"
    BY <1>2, <2>1 DEF LoadKeychain
  <2> QED
    BY <1>2, <2>2 DEF LoadKeychain
<1>3. CASE BootBackfill
  BY <1>3 DEF BootBackfill
<1>4. CASE LoadLocal
  <2>1. ~mem'.marker
    BY <1>4 DEF LoadLocal, TakeCredentials, Config
  <2> QED
    BY <1>4, <2>1 DEF LoadLocal
<1>5. CASE LoadLegacy
  <2>1. ~mem'.marker
    BY <1>5 DEF LoadLegacy, TakeCredentials, Config
  <2> QED
    BY <1>5, <2>1 DEF LoadLegacy
<1>6. CASE MigrateWrite
  BY <1>6, PayloadIsEntry DEF MigrateWrite
<1>7. CASE MigrateCommit
  BY <1>7 DEF MigrateCommit
<1>8. CASE BootDone
  BY <1>8 DEF BootDone
<1>9. CASE Stop
  BY <1>9 DEF Stop
<1> QED
  BY <1>1, <1>2, <1>3, <1>4, <1>5, <1>6, <1>7, <1>8, <1>9

\* The retry loop: it marks only what it has read.
LEMMA MarkerRetry ==
    ASSUME TypeInv, MarkerInv, entry = NoEntry, RetryNext
    PROVE  MarkerInv'
<1> USE DEF TypeInv, TypeOK, MarkerInv, MarkerMeansStored, MarkerPending,
            RetryKeeps, saver, stores, controller
<1>1. CASE RetryGet
  <2>1. GetResult(reach, entry).err # "none"
    BY GetFindsEntry
  <2> QED
    BY <1>1, <2>1 DEF RetryGet
<1>2. CASE ~RetryGet
  BY <1>2 DEF RetryNext, RetryCheck, RetrySession, RetryApply, RetryBackfill,
              RetryMark, RetryFailed, RetryGiveUp, RetrySleep, RetryExit
<1> QED
  BY <1>1, <1>2

\* The save: the configuration follows the keychain write, and no other path
\* sets the marker.
LEMMA MarkerSave ==
    ASSUME TypeInv, MarkerInv, entry = NoEntry, SaveNext
    PROVE  MarkerInv'
<1> USE DEF TypeInv, TypeOK, MarkerInv, MarkerMeansStored, MarkerPending,
            SaveKeeps, retry, controller
<1>1. CASE SaveSet
  <2>1. sv.creds \in Payloads
    BY DEF Save
  <2> QED
    BY <1>1, <2>1, PayloadIsEntry DEF SaveSet
<1>2. CASE SavePersist
  <2>1. sv.path \in Paths \ {"keychain"}
    BY <1>2 DEF SavePersist, Save
  <2>2. ~Edited(mem, sv).marker
    BY <2>1 DEF Edited, Paths, Config
  <2> QED
    BY <1>2, <2>2 DEF SavePersist, PersistOK
<1>3. CASE SaveConfig
  <2>1. sv'.path # "keychain"
    BY <1>3 DEF SaveConfig, Fallback, Save, Fallbacks
  <2> QED
    BY <1>3, <2>1 DEF SaveConfig
<1>4. CASE SaveSetFails
  <2>1. sv'.path = sv.path
    BY <1>4 DEF SaveSetFails, Save
  <2> QED
    BY <1>4, <2>1 DEF SaveSetFails
<1>5. CASE OpenSettings \/ CloseSettings \/ SubmitForm \/ SaveCompare
            \/ SaveProbe \/ SaveStatus \/ AnswerDialog
  BY <1>5 DEF OpenSettings, CloseSettings, SubmitForm, SaveCompare, SaveProbe,
              SaveStatus, AnswerDialog
<1>6. CASE SavePersistFails \/ SaveSession \/ SaveRestatus \/ FinishSave
  BY <1>6 DEF SavePersistFails, PersistFails, SaveSession, SaveRestatus,
              FinishSave
<1> QED
  BY <1>1, <1>2, <1>3, <1>4, <1>5, <1>6 DEF SaveNext

\* Everything else leaves the marker and the keychain's contents alone, or
\* writes an entry.
LEMMA MarkerOther ==
    ASSUME TypeInv, MarkerInv, entry = NoEntry,
           SaveLocalUI \/ FetchClient \/ KeychainChanges \/ LateWrite
             \/ UNCHANGED vars
    PROVE  MarkerInv'
<1>1. \A p : [mem EXCEPT !.prefs = p].marker = mem.marker
  BY DEF TypeInv, TypeOK, Config
<1> QED BY <1>1, PayloadIsEntry
DEF TypeInv, TypeOK, MarkerInv, MarkerMeansStored, MarkerPending, SaveLocalUI,
    PersistOK, FetchClient, KeychainChanges, LateWrite,
    vars, stores, controller, retry, saver

\* A keychain write that failed is never remembered as the save's path.
LEMMA FailedSetPath ==
    ASSUME TypeInv, MarkerInv, [Next]_vars
    PROVE  sPc' = "set" => sv'.path # "keychain"
<1> USE DEF TypeInv, TypeOK
<1>1. CASE SaveConfig
  BY <1>1 DEF SaveConfig, Fallback, Save, Fallbacks
<1>2. CASE SaveNext /\ ~SaveConfig
  BY <1>2 DEF SaveNext, OpenSettings, CloseSettings, SubmitForm, SaveCompare,
              SaveProbe, SaveStatus, SaveSet, SaveSetFails, AnswerDialog,
              SavePersist, SavePersistFails, SaveSession, SaveRestatus,
              FinishSave
<1>3. CASE UNCHANGED saver
  BY <1>3 DEF MarkerInv, saver
<1>4. CASE Stop
  BY <1>4 DEF Stop
<1>5. CASE ~SaveNext /\ ~Stop
  <2>1. UNCHANGED saver
    BY <1>5 DEF Next, Start, LoadKeychain, BootBackfill, LoadLocal, LoadLegacy,
       MigrateWrite, MigrateCommit, BootDone, RetryNext, RetryCheck,
       RetrySession, RetryGet, RetryApply, RetryBackfill, RetryMark,
       RetryFailed, RetryGiveUp, RetrySleep, RetryExit, RetryKeeps,
       SaveLocalUI, FetchClient, KeychainChanges, LateWrite, vars
  <2> QED
    BY <2>1, <1>3
<1> QED
  BY <1>2, <1>1, <1>4, <1>5

LEMMA MarkerNext == TypeInv /\ MarkerInv /\ [Next]_vars => MarkerInv'
<1> SUFFICES ASSUME TypeInv, MarkerInv, [Next]_vars PROVE MarkerInv'
  OBVIOUS
<1>1. CASE entry = NoEntry
  BY <1>1, MarkerBoot, MarkerRetry, MarkerSave, MarkerOther DEF Next
<1>2. CASE entry # NoEntry
  BY <1>2, EntryStays, FailedSetPath DEF MarkerInv, MarkerMeansStored
<1> QED
  BY <1>1, <1>2

\* Whatever crashes, races and keychain failures occur, the marker is set only
\* when the keychain holds an entry: a restart never waits for credentials
\* that were never stored.
THEOREM MarkerCorrect == Spec => []MarkerMeansStored
<1>1. MarkerInv => MarkerMeansStored
  BY DEF MarkerInv
<1> QED
  BY TypeInit, TypeNext, MarkerInit, MarkerNext, <1>1, PTL DEF Spec

-----------------------------------------------------------------------------
(* The session. During start-up it is empty until it is loaded, so loading *)
(* replaces nothing; afterwards the retry loop's re-check protects it.     *)

FreshSession ==
    /\ life \in {"down", "load"} => session = NoCreds
    /\ life # "up" => rPc = "off" /\ sPc = "idle"

LEMMA FreshInit == Init => FreshSession
BY DEF Init, FreshSession

LEMMA FreshNext == FreshSession /\ [Next]_vars => FreshSession'
<1> SUFFICES ASSUME FreshSession, [Next]_vars PROVE FreshSession'
  OBVIOUS
<1> USE DEF FreshSession, stores, controller, retry, saver
<1>1. CASE Start \/ LoadKeychain \/ BootBackfill \/ LoadLocal \/ LoadLegacy
             \/ MigrateWrite \/ MigrateCommit \/ BootDone \/ Stop
  BY <1>1 DEF Start, LoadKeychain, BootBackfill, LoadLocal, LoadLegacy,
              MigrateWrite, MigrateCommit, BootDone, Stop
<1>2. CASE RetryNext
  BY <1>2 DEF RetryNext, RetryCheck, RetrySession, RetryGet, RetryApply,
              Acceptable, RetryBackfill, RetryMark, RetryFailed, RetryGiveUp,
              RetrySleep, RetryExit, RetryKeeps
<1>3. CASE SaveNext
  BY <1>3 DEF SaveNext, OpenSettings, CloseSettings, SubmitForm, SaveCompare,
              SaveProbe, SaveStatus, SaveConfig, SaveSet, SaveSetFails,
              AnswerDialog, SavePersist, SavePersistFails, SaveSession,
              SaveRestatus, FinishSave, SaveKeeps
<1>4. CASE SaveLocalUI \/ FetchClient \/ KeychainChanges \/ LateWrite
             \/ UNCHANGED vars
  BY <1>4 DEF SaveLocalUI, FetchClient, KeychainChanges, LateWrite, vars
<1> QED
  BY <1>1, <1>2, <1>3, <1>4 DEF Next

\* The one step of the property, for each kind of step.
LEMMA SessionStep ==
    ASSUME FreshSession, [Next]_vars, session # NoCreds, session' # session
    PROVE  sPc = "session" \/ life' = "down"
<1> USE DEF FreshSession, stores, controller, retry, saver
<1>1. CASE Start \/ LoadKeychain \/ BootBackfill \/ LoadLocal \/ LoadLegacy
             \/ MigrateWrite \/ MigrateCommit \/ BootDone \/ Stop
  BY <1>1 DEF Start, LoadKeychain, BootBackfill, LoadLocal, LoadLegacy,
              MigrateWrite, MigrateCommit, BootDone, Stop
<1>2. CASE RetryNext
  BY <1>2 DEF RetryNext, RetryCheck, RetrySession, RetryGet, RetryApply,
              Acceptable, RetryBackfill, RetryMark, RetryFailed, RetryGiveUp,
              RetrySleep, RetryExit
<1>3. CASE SaveNext
  BY <1>3 DEF SaveNext, OpenSettings, CloseSettings, SubmitForm, SaveCompare,
              SaveProbe, SaveStatus, SaveConfig, SaveSet, SaveSetFails,
              AnswerDialog, SavePersist, SavePersistFails, SaveSession,
              SaveRestatus, FinishSave
<1>4. CASE SaveLocalUI \/ FetchClient \/ KeychainChanges \/ LateWrite
             \/ UNCHANGED vars
  BY <1>4 DEF SaveLocalUI, FetchClient, KeychainChanges, LateWrite, vars
<1> QED
  BY <1>1, <1>2, <1>3, <1>4 DEF Next

\* Whatever the interleaving of keychain reads and saves, only a save or the
\* end of the process replaces credentials that are in use.
THEOREM SessionCorrect == Spec => OnlySaveReplacesSession
<1>1. FreshSession /\ [Next]_vars
        => [session # NoCreds /\ session' # session
              => sPc = "session" \/ life' = "down"]_vars
  BY SessionStep
<1> QED
  BY FreshInit, FreshNext, <1>1, PTL DEF Spec, OnlySaveReplacesSession

-----------------------------------------------------------------------------
(* The file and the memory, and where credentials are stored. *)

LEMMA AgreeInit == Init => MemoryMatchesDisk
BY DEF Init, MemoryMatchesDisk

LEMMA AgreeNext == TypeInv /\ MemoryMatchesDisk /\ [Next]_vars => MemoryMatchesDisk'
<1> SUFFICES ASSUME TypeInv, MemoryMatchesDisk, [Next]_vars
             PROVE  MemoryMatchesDisk'
  OBVIOUS
<1> USE DEF TypeInv, TypeOK, MemoryMatchesDisk, PersistOK, PersistFails,
            stores, controller, retry, saver
<1>1. \A c : TakeCredentials(c) =>
              /\ mem'.mode = mem.mode
              /\ mem'.marker = mem.marker
              /\ mem'.plain = mem.plain
  BY DEF TakeCredentials, Config
<1>2. CASE Start \/ LoadKeychain \/ BootBackfill \/ LoadLocal \/ LoadLegacy
             \/ MigrateWrite \/ MigrateCommit \/ BootDone \/ Stop
  BY <1>1, <1>2 DEF Start, LoadKeychain, BootBackfill, LoadLocal, LoadLegacy,
              MigrateWrite, MigrateCommit, BootDone, Stop
<1>3. CASE RetryNext
  BY <1>1, <1>3 DEF RetryNext, RetryCheck, RetrySession, RetryGet, RetryApply,
              RetryBackfill, RetryMark, RetryFailed, RetryGiveUp,
              RetrySleep, RetryExit, RetryKeeps
<1>4. CASE SaveNext
  BY <1>4 DEF SaveNext, OpenSettings, CloseSettings, SubmitForm, SaveCompare,
              SaveProbe, SaveStatus, SaveConfig, SaveSet, SaveSetFails,
              AnswerDialog, SavePersist, SavePersistFails, SaveSession,
              SaveRestatus, FinishSave, SaveKeeps
<1>5. CASE SaveLocalUI \/ FetchClient \/ KeychainChanges \/ LateWrite
             \/ UNCHANGED vars
  BY <1>5 DEF SaveLocalUI, FetchClient, KeychainChanges, LateWrite, vars
<1> QED
  BY <1>2, <1>3, <1>4, <1>5 DEF Next

\* No writer of the configuration works from a stale copy, and a failed write
\* changes nothing.
THEOREM AgreeCorrect == Spec => []MemoryMatchesDisk
BY TypeInit, TypeNext, AgreeInit, AgreeNext, PTL DEF Spec

\* The storage mode changes in a save or in the migration only.
LEMMA StorageStep ==
    ASSUME TypeInv, MemoryMatchesDisk, [Next]_vars, disk'.mode # disk.mode
    PROVE  sPc = "persist" \/ life = "commit"
<1> USE DEF TypeInv, TypeOK, MemoryMatchesDisk, PersistOK, PersistFails,
            stores, controller, retry, saver
<1>1. [mem EXCEPT !.marker = TRUE].mode = mem.mode
  BY DEF Config
<1>2. CASE Start \/ LoadKeychain \/ BootBackfill \/ LoadLocal \/ LoadLegacy
             \/ MigrateWrite \/ MigrateCommit \/ BootDone \/ Stop
  BY <1>1, <1>2 DEF Start, LoadKeychain, BootBackfill, LoadLocal, LoadLegacy,
              MigrateWrite, MigrateCommit, BootDone, Stop
<1>3. CASE RetryNext
  BY <1>1, <1>3 DEF RetryNext, RetryCheck, RetrySession, RetryGet, RetryApply,
              RetryBackfill, RetryMark, RetryFailed, RetryGiveUp,
              RetrySleep, RetryExit, RetryKeeps
<1>4. CASE SaveNext
  BY <1>4 DEF SaveNext, OpenSettings, CloseSettings, SubmitForm, SaveCompare,
              SaveProbe, SaveStatus, SaveConfig, SaveSet, SaveSetFails,
              AnswerDialog, SavePersist, SavePersistFails, SaveSession,
              SaveRestatus, FinishSave, SaveKeeps
<1>5. CASE SaveLocalUI \/ FetchClient \/ KeychainChanges \/ LateWrite
             \/ UNCHANGED vars
  <2>1. \A p : [mem EXCEPT !.prefs = p].mode = mem.mode
    BY DEF Config
  <2> QED
    BY <1>5, <2>1 DEF SaveLocalUI, FetchClient, KeychainChanges, LateWrite, vars
<1> QED
  BY <1>2, <1>3, <1>4, <1>5 DEF Next

\* Background writers never undo the user's choice of storage.
THEOREM StorageCorrect == Spec => OnlySavesChangeStorage
<1>1. TypeInv /\ MemoryMatchesDisk /\ [Next]_vars
        => [disk'.mode # disk.mode => sPc = "persist" \/ life = "commit"]_vars
  BY StorageStep
<1> QED
  BY TypeInit, TypeNext, AgreeInit, AgreeNext, <1>1, PTL
  DEF Spec, OnlySavesChangeStorage

-----------------------------------------------------------------------------
(* Steps that leave the settings window alone.                             *)

BootStep ==
    \/ Start \/ LoadKeychain \/ BootBackfill \/ LoadLocal \/ LoadLegacy
    \/ MigrateWrite \/ MigrateCommit \/ BootDone

OtherStep == SaveLocalUI \/ FetchClient \/ KeychainChanges \/ LateWrite \/ UNCHANGED vars

LEMMA StepKinds == [Next]_vars => BootStep \/ Stop \/ RetryNext \/ SaveNext \/ OtherStep
BY DEF Next, BootStep, OtherStep

\* Only the steps of the window, and the end of the process, change it.
LEMMA SaverStays ==
    ASSUME BootStep \/ RetryNext \/ OtherStep
    PROVE  UNCHANGED saver
<1>1. CASE BootStep
  BY <1>1 DEF BootStep, Start, LoadKeychain, BootBackfill, LoadLocal, LoadLegacy,
              MigrateWrite, MigrateCommit, BootDone
<1>2. CASE RetryNext
  BY <1>2 DEF RetryNext, RetryCheck, RetrySession, RetryGet, RetryApply,
              RetryBackfill, RetryMark, RetryFailed, RetryGiveUp, RetrySleep,
              RetryExit, RetryKeeps
<1>3. CASE OtherStep
  BY <1>3 DEF OtherStep, SaveLocalUI, FetchClient, KeychainChanges, LateWrite, vars
<1> QED
  BY <1>1, <1>2, <1>3

\* The retry loop writes nothing of the file but the marker, which it sets, and
\* does not touch the keychain.
LEMMA RetryStorage ==
    ASSUME TypeInv, MemoryMatchesDisk, RetryNext
    PROVE  /\ disk'.mode = disk.mode /\ disk'.plain = disk.plain
           /\ disk.marker => disk'.marker
           /\ UNCHANGED <<entry, late, life>>
<1> USE DEF TypeInv, TypeOK, MemoryMatchesDisk, PersistOK, PersistFails, RetryKeeps,
            stores, saver
<1>1. CASE RetryMark
  <2> DEFINE marked == [mem EXCEPT !.marker = TRUE]
  <2>1. marked.mode = mem.mode /\ marked.plain = mem.plain /\ marked.marker
    BY DEF Config
  <2> QED
    BY <1>1, <2>1 DEF RetryMark
<1>2. CASE ~RetryMark
  BY <1>2 DEF RetryNext, RetryCheck, RetrySession, RetryGet, RetryApply,
              RetryBackfill, RetryFailed, RetryGiveUp, RetrySleep, RetryExit
<1> QED
  BY <1>1, <1>2

\* Everything else leaves the storage of the file as it is.
LEMMA OtherStorage ==
    ASSUME TypeInv, MemoryMatchesDisk, OtherStep
    PROVE  /\ disk'.mode = disk.mode /\ disk'.plain = disk.plain
           /\ disk'.marker = disk.marker
           /\ UNCHANGED <<life, session>>
           /\ UNCHANGED <<entry, late>> \/ LateWrite
<1>1. \A p : /\ [mem EXCEPT !.prefs = p].mode = mem.mode
             /\ [mem EXCEPT !.prefs = p].plain = mem.plain
             /\ [mem EXCEPT !.prefs = p].marker = mem.marker
  BY DEF TypeInv, TypeOK, Config
<1> QED
  BY <1>1 DEF OtherStep, MemoryMatchesDisk, PersistOK, SaveLocalUI, FetchClient,
              KeychainChanges, LateWrite, vars, stores, controller

\* Nor does the start-up before it commits a migration, except for the marker.
LEMMA BootStorage ==
    ASSUME TypeInv, MemoryMatchesDisk, BootStep, ~MigrateCommit
    PROVE  /\ disk'.mode = disk.mode /\ disk'.plain = disk.plain
           /\ UNCHANGED <<entry, late>> \/ MigrateWrite
<1> USE DEF TypeInv, TypeOK, MemoryMatchesDisk, PersistOK, PersistFails, stores, controller
<1>1. CASE BootBackfill
  <2> DEFINE marked == [mem EXCEPT !.marker = TRUE]
  <2>1. marked.mode = mem.mode /\ marked.plain = mem.plain
    BY DEF Config
  <2> QED
    BY <1>1, <2>1 DEF BootBackfill
<1>2. CASE ~BootBackfill
  BY <1>2 DEF BootStep, Start, LoadKeychain, LoadLocal, LoadLegacy, MigrateWrite, BootDone
<1> QED
  BY <1>1, <1>2

\* Among the steps of a save, only two write what the next start reads.
LEMMA SaveStorage ==
    ASSUME SaveNext
    PROVE  /\ disk' = disk \/ SavePersist
           /\ entry' = entry \/ SaveSet
           /\ UNCHANGED <<late, life>>
BY DEF SaveNext, OpenSettings, CloseSettings, SubmitForm, SaveCompare, SaveProbe,
       SaveStatus, SaveConfig, SaveSet, SaveSetFails, AnswerDialog, SavePersist,
       SavePersistFails, PersistFails, SaveSession, SaveRestatus, FinishSave,
       SaveKeeps, controller

\* What a save writes on each path.
LEMMA EditedStorage ==
    ASSUME NEW cfg \in Config, NEW s \in Save, NEW written, written = Edited(cfg, s)
    PROVE  /\ s.path = "edits" => /\ written.mode = cfg.mode
                                  /\ written.plain = cfg.plain
           /\ s.path = "keychain" => /\ written.mode = "keychain"
                                     /\ written.marker /\ written.plain = NoCreds
           /\ s.path = "plaintext" => /\ written.mode = "plaintext"
                                      /\ written.plain = s.creds
           /\ s.path = "session_only" =>
                 /\ written.mode = IF s.mode = "keychain" THEN "keychain" ELSE "none"
                 /\ written.plain = NoCreds
<1> DEFINE edits == [cfg EXCEPT !.method = s.method, !.prefs = s.prefs]
<1>1. edits \in Config /\ edits.mode = cfg.mode /\ edits.plain = cfg.plain
  BY DEF Config, Save
<1> HIDE DEF edits
<1>2. CASE s.path = "edits"
  BY <1>1, <1>2 DEF Edited, edits
<1>3. CASE s.path = "keychain"
  <2>1. written = Migrated(edits)
    BY <1>3 DEF Edited, edits
  <2> QED
    BY <1>1, <1>3, <2>1 DEF Migrated, Config
<1>4. CASE s.path = "plaintext"
  <2>1. written = [edits EXCEPT !.mode = "plaintext", !.marker = FALSE, !.plain = s.creds]
    BY <1>4 DEF Edited, edits
  <2> QED
    BY <1>1, <1>4, <2>1 DEF Config
<1>5. CASE s.path = "session_only"
  <2>1. written = [edits EXCEPT !.mode = IF s.mode = "keychain" THEN "keychain" ELSE "none",
                                !.plain = NoCreds]
    BY <1>5 DEF Edited, edits
  <2> QED
    BY <1>1, <1>5, <2>1 DEF Config
<1>6. s.path \in Paths
  BY DEF Save
<1> QED
  BY <1>2, <1>3, <1>4, <1>5, <1>6 DEF Paths

LEMMA PersistStorage ==
    ASSUME TypeInv, MemoryMatchesDisk, SavePersist
    PROVE  /\ sv.path = "edits" => /\ disk'.mode = disk.mode
                                   /\ disk'.plain = disk.plain
           /\ sv.path = "keychain" => /\ disk'.mode = "keychain"
                                      /\ disk'.marker /\ disk'.plain = NoCreds
           /\ sv.path = "plaintext" => /\ disk'.mode = "plaintext"
                                       /\ disk'.plain = sv.creds
           /\ sv.path = "session_only" =>
                 /\ disk'.mode = IF sv.mode = "keychain" THEN "keychain" ELSE "none"
                 /\ disk'.plain = NoCreds
           /\ sv.path \in Paths
<1>1. disk' = Edited(mem, sv) /\ mem \in Config /\ sv \in Save
  BY DEF SavePersist, PersistOK, TypeInv, TypeOK
<1>2. sv.path \in Paths /\ mem.mode = disk.mode /\ mem.plain = disk.plain
  BY <1>1 DEF MemoryMatchesDisk, Save
<1> QED
  BY <1>1, <1>2, EditedStorage

-----------------------------------------------------------------------------
(* Consent. Whether a save may write plain text is decided when it reads    *)
(* the storage mode, or when its keychain write fails; both look at what    *)
(* the path was chosen from.                                                *)

ConsentInv ==
    /\ PlaintextNeedsConsent
    /\ sPc = "set" => sv.path = Fallback(sv)

LEMMA ConsentInit == Init => ConsentInv
<1> SUFFICES ASSUME Init PROVE ConsentInv
  OBVIOUS
<1>1. disk.plain # NoCreds => disk.mode = ""
  <2>1. \A m, p : OldConfig(m, p).mode = m /\ OldConfig(m, p).plain = p
    BY DEF OldConfig
  <2> QED
    BY <2>1 DEF Init
<1> QED
  BY <1>1 DEF Init, ConsentInv, PlaintextNeedsConsent

\* Plain text stays with the modes that have it.
LEMMA PlainStaysConsented ==
    ASSUME TypeInv, MemoryMatchesDisk, ConsentInv, [Next]_vars
    PROVE  disk'.plain # NoCreds => disk'.mode \in {"", "plaintext"}
<1> USE DEF ConsentInv, PlaintextNeedsConsent
<1>1. CASE BootStep
  <2>1. CASE MigrateCommit
    <3>1. Migrated(mem).plain = NoCreds
      BY DEF Migrated, TypeInv, TypeOK, Config
    <3> QED
      BY <2>1, <3>1 DEF MigrateCommit, PersistOK
  <2> QED
    BY <1>1, <2>1, BootStorage
<1>2. CASE Stop
  BY <1>2 DEF Stop, stores
<1>3. CASE RetryNext
  BY <1>3, RetryStorage
<1>4. CASE SaveNext
  <2>1. CASE SavePersist
    BY <2>1, PersistStorage DEF Paths
  <2> QED
    BY <1>4, <2>1, SaveStorage
<1>5. CASE OtherStep
  BY <1>5, OtherStorage
<1> QED
  BY <1>1, <1>2, <1>3, <1>4, <1>5, StepKinds

\* A save that is about to write plain text has asked, and the path it will take
\* if its keychain write fails is the one the user chose.
LEMMA PathIsChosen ==
    ASSUME TypeInv, ConsentInv, [Next]_vars
    PROVE  /\ sPc' = "persist" /\ sv'.path = "plaintext"
                => sv'.fallback = "plaintext" /\ sv'.probe # "available"
           /\ sPc' = "set" => sv'.path = Fallback(sv')
<1> USE DEF ConsentInv, PlaintextNeedsConsent, TypeInv, TypeOK, Fallback
<1>1. CASE UNCHANGED saver
  BY <1>1 DEF saver
<1>2. CASE Stop
  BY <1>2 DEF Stop
<1>3. CASE SaveConfig
  <2> DEFINE edits == \/ sv.creds = NoCreds /\ mem.mode = "keychain" /\ mem.marker
                      \/ sv.probe # "available" /\ ~sv.changed
  <2>1. /\ sPc' = IF edits THEN "persist"
                  ELSE IF sv.probe = "available" THEN "set"
                  ELSE IF sv.fallback = "unspecified" THEN "ask" ELSE "persist"
        /\ sv'.path = IF edits THEN "edits" ELSE Fallback(sv)
        /\ sv'.fallback = sv.fallback /\ sv'.probe = sv.probe
    BY <1>3 DEF SaveConfig, Save
  <2> HIDE DEF edits
  <2>2. CASE edits
    BY <2>1, <2>2
  <2>3. CASE ~edits
    BY <2>1, <2>3
  <2> QED
    BY <2>2, <2>3
<1>4. CASE SaveSetFails
  <2>1. \A err \in SetErrors(reach) : err # "available"
    BY DEF SetErrors, KeychainConditions
  <2> QED
    BY <1>4, <2>1 DEF SaveSetFails, Save
<1>5. CASE SaveNext /\ ~SaveConfig /\ ~SaveSetFails
  BY <1>5 DEF SaveNext, OpenSettings, CloseSettings, SubmitForm, SaveCompare,
              SaveProbe, SaveStatus, SaveSet, AnswerDialog, SavePersist,
              SavePersistFails, SaveSession, SaveRestatus, FinishSave, Save
<1> QED
  BY <1>1, <1>2, <1>3, <1>4, <1>5, StepKinds, SaverStays

LEMMA ConsentNext ==
    TypeInv /\ MemoryMatchesDisk /\ ConsentInv /\ [Next]_vars => ConsentInv'
BY PlainStaysConsented, PathIsChosen DEF ConsentInv, PlaintextNeedsConsent

\* Secrets are in the file only if they were there before, or after a keychain
\* failure and the user's explicit consent: no race with the retry loop or with a
\* local save, and no failed write, leaves them under another storage mode.
THEOREM ConsentCorrect == Spec => []PlaintextNeedsConsent
<1>1. ConsentInv => PlaintextNeedsConsent
  BY DEF ConsentInv
<1> QED
  BY TypeInit, TypeNext, AgreeInit, AgreeNext, ConsentInit, ConsentNext, <1>1, PTL
  DEF Spec

-----------------------------------------------------------------------------
(* Legacy credentials. Plain text of an old release is a password pair, and *)
(* so are the session and any abandoned write made from it, which is why    *)
(* the migration stores what it removes.                                    *)

LegacyInv ==
    /\ disk.mode = "" => disk.plain \in PwCreds \cup {NoCreds}
    /\ disk.mode = "" /\ late # NoCreds => late = disk.plain
    /\ life \in {"migrate", "commit"} => disk.mode = "" /\ session = disk.plain
    /\ life = "commit" => entry = disk.plain

\* A password pair is taken over as it is, whatever method is configured.
LEMMA PairIsCanonical ==
    ASSUME NEW m \in Methods, NEW c \in PwCreds
    PROVE  Canonical(InferAuthMethod(m, c), c) = c
BY DEF Canonical, InferAuthMethod, Methods

LEMMA LegacyInit == Init => LegacyInv
<1> SUFFICES ASSUME Init PROVE LegacyInv
  OBVIOUS
<1>1. disk.plain \in PwCreds \cup {NoCreds}
  <2>1. \A m, p : OldConfig(m, p).plain = p
    BY DEF OldConfig
  <2> QED
    BY <2>1 DEF Init
<1> QED
  BY <1>1 DEF Init, LegacyInv

\* The start-up decides on a migration with legacy credentials in the session.
LEMMA LegacyBoot ==
    ASSUME TypeInv, MemoryMatchesDisk, LegacyInv, BootStep
    PROVE  LegacyInv'
<1> USE DEF LegacyInv, TypeInv, TypeOK, MemoryMatchesDisk
<1>1. CASE LoadLegacy
  <2>1. disk.mode = "" /\ mem.plain = disk.plain /\ disk.plain \in PwCreds
    BY <1>1 DEF LoadLegacy
  <2>2. mem.method \in Methods
    BY DEF Config
  <2>3. session' = disk.plain
    BY <1>1, <2>1, <2>2, PairIsCanonical DEF LoadLegacy, TakeCredentials
  <2> QED
    BY <1>1, <2>1, <2>3 DEF LoadLegacy, stores
<1>2. CASE MigrateWrite
  BY <1>2 DEF MigrateWrite
<1>3. CASE MigrateCommit
  <2>1. Migrated(mem).mode = "keychain"
    BY DEF Migrated, Config
  <2> QED
    BY <1>3, <2>1 DEF MigrateCommit, PersistOK
<1>4. CASE Start \/ LoadKeychain \/ BootBackfill \/ LoadLocal \/ BootDone
  <2>1. life' \notin {"migrate", "commit"}
    BY <1>4 DEF Start, LoadKeychain, BootBackfill, LoadLocal, BootDone
  <2>2. UNCHANGED <<entry, late>>
    BY <1>4 DEF Start, LoadKeychain, BootBackfill, LoadLocal, BootDone, stores
  <2>3. disk'.mode = disk.mode /\ disk'.plain = disk.plain
    BY <1>4, BootStorage
    DEF BootStep, MigrateCommit, Start, LoadKeychain, BootBackfill, LoadLocal, BootDone
  <2> QED
    BY <2>1, <2>2, <2>3
<1> QED
  BY <1>1, <1>2, <1>3, <1>4 DEF BootStep

\* The other steps keep the legacy credentials as they are, or leave the mode
\* that has them.
LEMMA LegacyOther ==
    ASSUME TypeInv, MemoryMatchesDisk, FreshSession, LegacyInv,
           Stop \/ RetryNext \/ SaveNext \/ OtherStep
    PROVE  LegacyInv'
<1> USE DEF LegacyInv
<1>1. CASE Stop
  BY <1>1 DEF Stop, stores
<1>2. CASE RetryNext
  <2>1. rPc # "off"
    BY <1>2 DEF RetryNext, RetryCheck, RetrySession, RetryGet, RetryApply,
                RetryBackfill, RetryMark, RetryFailed, RetryGiveUp, RetrySleep,
                RetryExit
  <2>2. life = "up"
    BY <2>1 DEF FreshSession
  <2> QED
    BY <1>2, <2>2, RetryStorage
<1>3. CASE SaveNext
  <2>1. life = "up"
    BY <1>3 DEF FreshSession, SaveNext, OpenSettings, CloseSettings, SubmitForm,
                SaveCompare, SaveProbe, SaveStatus, SaveConfig, SaveSet,
                SaveSetFails, AnswerDialog, SavePersist, SavePersistFails,
                SaveSession, SaveRestatus, FinishSave
  <2>2. CASE SavePersist
    BY <2>1, <2>2, PersistStorage, SaveStorage, <1>3 DEF Paths
  <2> QED
    BY <1>3, <2>1, <2>2, SaveStorage
<1>4. CASE OtherStep
  <2>1. CASE LateWrite
    BY <1>4, <2>1, OtherStorage DEF LateWrite
  <2> QED
    BY <1>4, <2>1, OtherStorage
<1> QED
  BY <1>1, <1>2, <1>3, <1>4

LEMMA LegacyNext ==
    TypeInv /\ MemoryMatchesDisk /\ FreshSession /\ LegacyInv /\ [Next]_vars
        => LegacyInv'
BY LegacyBoot, LegacyOther, StepKinds

\* Whatever became of the migrations of earlier starts, abandoned writes among
\* them, one removes the plain text only if the keychain holds what it removes.
THEOREM MigrationCorrect == Spec => MigrationKeepsCredentials
<1>1. LegacyInv /\ [Next]_vars
        => [life = "commit" /\ disk.plain # NoCreds /\ disk'.plain = NoCreds
              => entry = disk.plain]_vars
  BY DEF LegacyInv
<1> QED
  BY TypeInit, TypeNext, AgreeInit, AgreeNext, FreshInit, FreshNext,
     LegacyInit, LegacyNext, <1>1, PTL
  DEF Spec, MigrationKeepsCredentials

-----------------------------------------------------------------------------
(* A save to the keychain. Once the entry is written, nobody else writes it *)
(* unless a write of a migration was abandoned; the file says so once it is *)
(* persisted; and the session follows.                                      *)

\* No keychain write of a migration is abandoned and still on its way.
NothingLate == late = NoCreds

\* A save has written its credentials to the keychain.
Written ==
    sPc \in {"persist", "session", "restatus", "finish"} /\ sv.path = "keychain"

\* What the save remembers of its progress.
ProgressInv ==
    /\ sv.ok => sPc \in {"session", "restatus", "finish"}
    /\ sPc \in {"set", "persist"} => sv.mode = disk.mode

SavedInv ==
    /\ Written => entry = sv.creds
    /\ Written /\ sv.ok => disk.mode = "keychain" /\ disk.marker /\ disk.plain = NoCreds
    /\ Written /\ sv.ok /\ sPc # "session" /\ sv.creds # NoCreds => session = sv.creds

\* Outside of a save nothing is remembered of one.
LEMMA IdleSaved ==
    /\ sPc = "idle" /\ sv = NoSave => ProgressInv /\ SavedInv
    /\ ~NoSave.ok /\ NoSave \in Save
<1>1. ~NoSave.ok
  BY DEF NoSave
<1> QED
  BY <1>1, ResetTypes DEF ProgressInv, SavedInv, Written

LEMMA SavedInit == Init => ProgressInv /\ SavedInv
BY IdleSaved DEF Init

\* The window is only open in a running application.
LEMMA SavingIsUp ==
    ASSUME FreshSession, SaveNext \/ RetryNext
    PROVE  life = "up"
<1>1. sPc # "idle" \/ rPc # "off" \/ life = "up"
  BY DEF SaveNext, OpenSettings, CloseSettings, SubmitForm, SaveCompare, SaveProbe,
         SaveStatus, SaveConfig, SaveSet, SaveSetFails, AnswerDialog, SavePersist,
         SavePersistFails, SaveSession, SaveRestatus, FinishSave,
         RetryNext, RetryCheck, RetrySession, RetryGet, RetryApply, RetryBackfill,
         RetryMark, RetryFailed, RetryGiveUp, RetrySleep, RetryExit
<1> QED
  BY <1>1 DEF FreshSession

\* What the retry loop and the other goroutines do while a save is under way: the
\* session is only filled if it was empty, and the file keeps its storage.
LEMMA DuringSave ==
    ASSUME TypeInv, MemoryMatchesDisk, FreshSession, NothingLate,
           RetryNext \/ OtherStep \/ (BootStep /\ sPc # "idle")
    PROVE  /\ UNCHANGED <<entry, saver>>
           /\ disk'.mode = disk.mode /\ disk'.plain = disk.plain
           /\ disk.marker => disk'.marker
           /\ session # NoCreds => session' = session
<1>1. CASE RetryNext
  <2>1. session # NoCreds => session' = session
    BY <1>1 DEF RetryNext, RetryCheck, RetrySession, RetryGet, RetryApply, Acceptable,
                RetryBackfill, RetryMark, RetryFailed, RetryGiveUp, RetrySleep,
                RetryExit, controller
  <2> QED
    BY <1>1, <2>1, RetryStorage, SaverStays
<1>2. CASE OtherStep
  <2>1. ~LateWrite
    BY DEF NothingLate, LateWrite
  <2> QED
    BY <1>2, <2>1, OtherStorage, SaverStays
<1>3. CASE BootStep /\ sPc # "idle"
  <2>1. life = "up"
    BY <1>3 DEF FreshSession
  <2> QED
    BY <1>3, <2>1 DEF BootStep, Start, LoadKeychain, BootBackfill, LoadLocal, LoadLegacy,
                MigrateWrite, MigrateCommit, BootDone
<1> QED
  BY <1>1, <1>2, <1>3

\* The steps of the save itself.
LEMMA SaveProgress ==
    ASSUME TypeInv, MemoryMatchesDisk, ConsentInv, ProgressInv, SavedInv, SaveNext
    PROVE  ProgressInv' /\ SavedInv'
<1> USE DEF TypeInv, TypeOK, ProgressInv, SavedInv, Written
<1>1. CASE OpenSettings \/ CloseSettings \/ SubmitForm \/ FinishSave
  <2>1. \A a, b : [NoSave EXCEPT !.unresolved = a, !.stored = b].ok = NoSave.ok
    BY IdleSaved DEF Save
  <2>2. \A a, b, c : [NoSave EXCEPT !.method = a, !.creds = b, !.prefs = c].ok = NoSave.ok
    BY IdleSaved DEF Save
  <2>3. CASE SubmitForm
    <3>1. \E a, b, c : sv' = [NoSave EXCEPT !.method = a, !.creds = b, !.prefs = c]
      BY <2>3 DEF SubmitForm
    <3> QED
      BY <2>2, <2>3, <3>1, IdleSaved DEF SubmitForm
  <2>4. CASE OpenSettings
    BY <2>1, <2>4, IdleSaved DEF OpenSettings
  <2>5. CASE CloseSettings \/ FinishSave
    BY <2>5, IdleSaved DEF CloseSettings, FinishSave
  <2> QED
    BY <1>1, <2>3, <2>4, <2>5
<1>2. CASE SaveCompare \/ SaveProbe \/ SaveStatus \/ AnswerDialog
  <2>1. sPc' \in {"probe", "status", "config", "compare"} /\ sv'.ok = sv.ok
    BY <1>2 DEF SaveCompare, SaveProbe, SaveStatus, AnswerDialog, Save
  <2>2. ~sv.ok
    BY <1>2 DEF SaveCompare, SaveProbe, SaveStatus, AnswerDialog
  <2> QED
    BY <2>1, <2>2
<1>3. CASE SaveConfig
  <2>1. /\ sPc' \in {"persist", "set", "ask"}
        /\ sv'.ok = sv.ok /\ sv'.mode = mem.mode /\ sv'.path # "keychain"
        /\ disk' = disk
    BY <1>3 DEF SaveConfig, Save, Fallback, Fallbacks
  <2>2. ~sv.ok /\ mem.mode = disk.mode
    BY <1>3 DEF SaveConfig, MemoryMatchesDisk
  <2> QED
    BY <2>1, <2>2
<1>4. CASE SaveSet
  <2>1. /\ sPc' = "persist" /\ entry' = sv'.creds /\ sv'.creds = sv.creds
        /\ sv'.ok = sv.ok /\ sv'.mode = sv.mode /\ disk' = disk
    BY <1>4 DEF SaveSet, Save
  <2>2. ~sv.ok /\ sv.mode = disk.mode
    BY <1>4 DEF SaveSet
  <2> QED
    BY <2>1, <2>2
<1>5. CASE SaveSetFails
  <2>1. /\ sPc' \in {"persist", "ask", "finish"}
        /\ sv'.ok = sv.ok /\ sv'.mode = sv.mode /\ sv'.path = sv.path
        /\ disk' = disk
    BY <1>5 DEF SaveSetFails, Save
  <2>2. sv.path # "keychain"
    BY <1>5 DEF SaveSetFails, ConsentInv, Fallback, Save, Fallbacks
  <2>3. ~sv.ok /\ sv.mode = disk.mode
    BY <1>5 DEF SaveSetFails
  <2> QED
    BY <2>1, <2>2, <2>3
<1>6. CASE SavePersist
  <2>1. /\ sPc' \in {"session", "restatus", "finish"}
        /\ sv.path = "keychain" => sPc' = "session"
        /\ sv'.path = sv.path /\ sv'.creds = sv.creds
        /\ entry' = entry
    BY <1>6 DEF SavePersist, Save
  <2>2. sPc = "persist"
    BY <1>6 DEF SavePersist
  <2> QED
    BY <1>6, <2>1, <2>2, PersistStorage
<1>7. CASE SavePersistFails
  <2>1. ~sv.ok
    BY <1>7 DEF SavePersistFails
  <2> QED
    BY <1>7, <2>1 DEF SavePersistFails
<1>8. CASE SaveSession
  BY <1>8 DEF SaveSession
<1>9. CASE SaveRestatus
  BY <1>9 DEF SaveRestatus
<1> QED
  BY <1>1, <1>2, <1>3, <1>4, <1>5, <1>6, <1>7, <1>8, <1>9 DEF SaveNext

LEMMA SavedNext ==
    TypeInv /\ MemoryMatchesDisk /\ FreshSession /\ ConsentInv
      /\ ProgressInv /\ SavedInv /\ NothingLate /\ [Next]_vars
        => ProgressInv' /\ SavedInv'
<1> SUFFICES ASSUME TypeInv, MemoryMatchesDisk, FreshSession, ConsentInv,
                    ProgressInv, SavedInv, NothingLate, [Next]_vars
             PROVE  ProgressInv' /\ SavedInv'
  OBVIOUS
<1>1. CASE SaveNext
  BY <1>1, SaveProgress
<1>2. CASE Stop
  <2>1. sPc' = "idle" /\ sv' = NoSave
    BY <1>2 DEF Stop
  <2> QED
    BY <2>1 DEF NoSave, ProgressInv, SavedInv, Written
<1>3. CASE RetryNext \/ OtherStep \/ (BootStep /\ sPc # "idle")
  BY <1>3, DuringSave DEF saver, ProgressInv, SavedInv, Written
<1>4. CASE BootStep /\ sPc = "idle"
  BY <1>4, SaverStays DEF saver, ProgressInv, SavedInv, Written
<1> QED
  BY <1>1, <1>2, <1>3, <1>4, StepKinds

\* While no keychain write of a migration is abandoned, a save of entered
\* credentials that reached the keychain leaves session, keychain and file
\* consistent, whatever the retry loop and the other goroutines do between its
\* steps.
THEOREM KeychainSaveCorrect ==
    Spec /\ []NothingLate => []KeychainSaveIsComplete
<1>1. SavedInv => KeychainSaveIsComplete
  BY DEF SavedInv, Written, KeychainSaveIsComplete
<1> QED
  BY TypeInit, TypeNext, AgreeInit, AgreeNext, FreshInit, FreshNext,
     ConsentInit, ConsentNext, SavedInit, SavedNext, <1>1, PTL
  DEF Spec

\* Nothing is abandoned if the keychain always answers.
LEMMA AnsweringInit == Init => NothingLate
BY DEF Init, NothingLate

LEMMA AnsweringNext ==
    ASSUME "wedged" \notin Reach
    PROVE  TypeInv /\ NothingLate /\ [Next]_vars => NothingLate'
<1> SUFFICES ASSUME TypeInv, NothingLate, [Next]_vars PROVE NothingLate'
  OBVIOUS
<1> USE DEF NothingLate
<1>1. CASE BootStep
  BY <1>1 DEF BootStep, Start, LoadKeychain, BootBackfill, LoadLocal, LoadLegacy,
              MigrateWrite, MigrateCommit, BootDone, stores, TypeInv, TypeOK
<1>2. CASE Stop \/ OtherStep
  BY <1>2 DEF Stop, OtherStep, SaveLocalUI, FetchClient, KeychainChanges, LateWrite,
              vars, stores
<1>3. CASE RetryNext
  BY <1>3 DEF RetryNext, RetryCheck, RetrySession, RetryGet, RetryApply, RetryBackfill,
              RetryMark, RetryFailed, RetryGiveUp, RetrySleep, RetryExit, RetryKeeps,
              stores
<1>4. CASE SaveNext
  BY <1>4, SaveStorage
<1> QED
  BY <1>1, <1>2, <1>3, <1>4, StepKinds

-----------------------------------------------------------------------------
(* The refinement of CredentialVault. A step of the vault is a step of the   *)
(* save, or the end of the process, or the commit of a migration; all the    *)
(* others change neither the storage mode, nor what the next start would     *)
(* find, nor what has been entered.                                          *)

\* What the next start would find depends on the file and the entry only.
LEMMA SecretIs ==
    /\ disk.mode = "keychain" => Secret = entry
    /\ disk.mode = "none" => Secret = NoCreds
    /\ disk.mode \notin {"keychain", "none"} => Secret = disk.plain
BY DEF Secret

LEMMA SecretBecomes ==
    /\ disk'.mode = "keychain" => Secret' = entry'
    /\ disk'.mode = "none" => Secret' = NoCreds
    /\ disk'.mode \notin {"keychain", "none"} => Secret' = disk'.plain
BY DEF Secret

LEMMA SecretStays ==
    ASSUME disk'.mode = disk.mode, disk'.plain = disk.plain, entry' = entry
    PROVE  Secret' = Secret
BY SecretIs, SecretBecomes

\* A step that keeps the storage, and the window, is a stutter of the vault.
LEMMA VaultStutters ==
    ASSUME disk'.mode = disk.mode, Secret' = Secret, Entered' = Entered
    PROVE  UNCHANGED Vault!vars
BY DEF Vault!vars

LEMMA EnteredStays == ASSUME UNCHANGED saver PROVE Entered' = Entered
BY DEF saver, Entered

LEMMA VaultInit == Init => Vault!Init
<1> SUFFICES ASSUME Init PROVE Vault!Init
  OBVIOUS
<1>1. \A m, p : OldConfig(m, p).mode = m /\ OldConfig(m, p).plain = p
  BY DEF OldConfig
<1>2. disk.mode \in {"", "keychain"}
  BY <1>1 DEF Init
<1>3. entry \in Entries /\ disk.plain \in Entries
  <2>1. disk \in Config /\ entry \in Entries
    BY TypeInit DEF TypeInv, TypeOK
  <2> QED
    BY <2>1 DEF Config, Entries
<1>4. Secret \in Entries
  BY <1>2, <1>3, SecretIs
<1>5. Entered = {}
  BY DEF Init, Entered
<1> QED
  BY <1>2, <1>4, <1>5 DEF Vault!Init

\* The start-up adopts legacy credentials, unchanged.
LEMMA VaultBoot ==
    ASSUME TypeInv, MemoryMatchesDisk, LegacyInv, BootStep
    PROVE  Vault!Next \/ UNCHANGED Vault!vars
<1>1. Entered' = Entered
  BY SaverStays, EnteredStays
<1>2. CASE MigrateCommit
  <2>1. disk.mode = "" /\ Secret = entry
    BY <1>2, SecretIs DEF MigrateCommit, LegacyInv
  <2>2. Migrated(mem).mode = "keychain"
    BY DEF Migrated, TypeInv, TypeOK, Config
  <2>3. disk'.mode = "keychain" /\ entry' = entry
    BY <1>2, <2>2 DEF MigrateCommit, PersistOK
  <2>4. Secret' = Secret
    BY <2>1, <2>3, SecretBecomes
  <2> QED
    BY <1>1, <2>1, <2>3, <2>4 DEF Vault!Next, Vault!Adopt
<1>3. CASE ~MigrateCommit
  <2>1. disk'.mode = disk.mode /\ disk'.plain = disk.plain
    BY <1>3, BootStorage
  <2>2. CASE MigrateWrite
    <3>1. disk.mode = ""
      BY <2>2 DEF MigrateWrite, LegacyInv
    <3>2. Secret' = Secret
      BY <2>1, <3>1, SecretIs, SecretBecomes
    <3> QED
      BY <1>1, <2>1, <3>2, VaultStutters
  <2>3. CASE ~MigrateWrite
    <3>1. Secret' = Secret
      BY <1>3, <2>1, <2>3, BootStorage, SecretStays
    <3> QED
      BY <1>1, <2>1, <3>1, VaultStutters
  <2> QED
    BY <2>2, <2>3
<1> QED
  BY <1>2, <1>3

\* The end of the process forgets what was entered.
LEMMA VaultStop ==
    ASSUME Stop
    PROVE  Vault!Next
<1>1. disk' = disk /\ entry' = entry /\ sPc' = "idle"
  BY DEF Stop, stores
<1>2. Secret' = Secret
  BY <1>1, SecretStays
<1>3. Entered' = {}
  BY <1>1 DEF Entered
<1> QED
  BY <1>1, <1>2, <1>3 DEF Vault!Next, Vault!Leave

\* The retry loop and the other goroutines are invisible.
LEMMA VaultOther ==
    ASSUME TypeInv, MemoryMatchesDisk, NothingLate, RetryNext \/ OtherStep
    PROVE  UNCHANGED Vault!vars
<1>1. ~LateWrite
  BY DEF NothingLate, LateWrite
<1>2. disk'.mode = disk.mode /\ disk'.plain = disk.plain /\ entry' = entry
  BY <1>1, RetryStorage, OtherStorage
<1>3. Secret' = Secret
  BY <1>2, SecretStays
<1> QED
  BY <1>2, <1>3, SaverStays, EnteredStays, VaultStutters

\* A save enters credentials, stores or drops them, and ends.
LEMMA VaultSave ==
    ASSUME TypeInv, MemoryMatchesDisk, ProgressInv, SavedInv, SaveNext
    PROVE  Vault!Next \/ UNCHANGED Vault!vars
<1> DEFINE Outside == {"idle", "form"}
<1>1. sv \in Save /\ sv.creds \in Payloads /\ sv.creds \in Entries
  BY DEF TypeInv, TypeOK, Save, Entries
<1>2. CASE OpenSettings \/ CloseSettings \/ FinishSave
  <2>1. disk' = disk /\ entry' = entry /\ sPc' \in Outside
    BY <1>2 DEF OpenSettings, CloseSettings, FinishSave
  <2>2. Secret' = Secret /\ Entered' = {}
    BY <2>1, SecretStays DEF Entered
  <2> QED
    BY <2>1, <2>2 DEF Vault!Next, Vault!Leave
<1>3. CASE SubmitForm
  <2>1. disk' = disk /\ entry' = entry /\ sPc = "form" /\ sPc' = "compare"
    BY <1>3 DEF SubmitForm
  <2>2. sv'.creds \in Entries
    BY <1>3, SaveTypes DEF SaveNext, TypeInv, TypeOK, Save, Entries
  <2>3. Secret' = Secret /\ Entered = {} /\ Entered' = {sv'.creds}
    BY <2>1, SecretStays DEF Entered
  <2> QED
    BY <2>1, <2>2, <2>3 DEF Vault!Next, Vault!Enter
<1>4. CASE SaveSet
  <2>1. /\ disk' = disk /\ entry' = sv.creds /\ sv'.creds = sv.creds
        /\ sPc = "set" /\ sPc' = "persist"
    BY <1>1, <1>4 DEF SaveSet, Save
  <2>2. Entered = {sv.creds} /\ Entered' = {sv.creds}
    BY <2>1 DEF Entered
  <2>3. CASE disk.mode = "keychain"
    <3>1. Secret' = sv.creds
      BY <2>1, <2>3, SecretBecomes
    <3> QED
      BY <2>1, <2>2, <2>3, <3>1 DEF Vault!Next, Vault!Store
  <2>4. CASE disk.mode # "keychain"
    <3>1. Secret' = Secret
      BY <2>1, <2>4, SecretIs, SecretBecomes
    <3> QED
      BY <2>1, <2>2, <3>1, VaultStutters
  <2> QED
    BY <2>3, <2>4
<1>5. CASE SavePersist
  <2>1. /\ entry' = entry /\ sv'.creds = sv.creds
        /\ sPc = "persist" /\ sPc' \in {"session", "restatus", "finish"}
    BY <1>1, <1>5 DEF SavePersist, Save
  <2>2. Entered = {sv.creds} /\ Entered' = {sv.creds}
    BY <2>1 DEF Entered
  <2>3. CASE sv.path = "edits"
    BY <1>5, <2>1, <2>2, <2>3, PersistStorage, SecretStays, VaultStutters
  <2>4. CASE sv.path = "keychain"
    <3>1. entry = sv.creds
      BY <2>1, <2>4 DEF SavedInv, Written
    <3>2. disk'.mode = "keychain"
      BY <1>5, <2>4, PersistStorage
    <3>3. Secret' = sv.creds
      BY <2>1, <3>1, <3>2, SecretBecomes
    <3> QED
      BY <2>2, <3>2, <3>3 DEF Vault!Next, Vault!Store
  <2>5. CASE sv.path = "plaintext"
    <3>1. disk'.mode = "plaintext" /\ disk'.plain = sv.creds
      BY <1>5, <2>5, PersistStorage
    <3>2. Secret' = sv.creds
      BY <3>1, SecretBecomes
    <3> QED
      BY <2>2, <3>1, <3>2 DEF Vault!Next, Vault!Store
  <2>6. CASE sv.path = "session_only"
    <3>1. /\ disk'.mode = IF sv.mode = "keychain" THEN "keychain" ELSE "none"
          /\ sv.mode = disk.mode
      BY <1>5, <2>1, <2>6, PersistStorage DEF ProgressInv
    <3>2. CASE disk.mode = "keychain"
      <4>1. disk'.mode = disk.mode /\ Secret' = Secret
        BY <2>1, <3>1, <3>2, SecretIs, SecretBecomes
      <4> QED
        BY <2>2, <4>1, VaultStutters
    <3>3. CASE disk.mode # "keychain"
      <4>1. disk'.mode = "none" /\ Secret' = NoCreds
        BY <3>1, <3>3, SecretBecomes
      <4> QED
        BY <2>2, <3>3, <4>1 DEF Vault!Next, Vault!Drop
    <3> QED
      BY <3>2, <3>3
  <2> QED
    BY <1>5, <2>3, <2>4, <2>5, <2>6, PersistStorage DEF Paths
<1>6. CASE \/ SaveCompare \/ SaveProbe \/ SaveStatus \/ SaveConfig \/ SaveSetFails
           \/ AnswerDialog \/ SavePersistFails \/ SaveSession \/ SaveRestatus
  <2>1. disk' = disk /\ entry' = entry
    BY <1>6 DEF SaveCompare, SaveProbe, SaveStatus, SaveConfig, SaveSetFails,
                AnswerDialog, SavePersistFails, PersistFails, SaveSession, SaveRestatus
  <2>2. sv'.creds = sv.creds
    BY <1>1, <1>6 DEF SaveCompare, SaveProbe, SaveStatus, SaveConfig, SaveSetFails,
                AnswerDialog, SavePersistFails, SaveSession, SaveRestatus, Save
  <2>3. sPc \notin Outside /\ sPc' \notin Outside
    BY <1>6 DEF SaveCompare, SaveProbe, SaveStatus, SaveConfig, SaveSetFails,
                AnswerDialog, SavePersistFails, SaveSession, SaveRestatus
  <2>4. Entered' = Entered
    BY <2>2, <2>3 DEF Entered
  <2> QED
    BY <2>1, <2>4, SecretStays, VaultStutters
<1> QED
  BY <1>2, <1>3, <1>4, <1>5, <1>6 DEF SaveNext

LEMMA VaultNext ==
    TypeInv /\ MemoryMatchesDisk /\ LegacyInv /\ ProgressInv /\ SavedInv
      /\ NothingLate /\ [Next]_vars
        => [Vault!Next]_(Vault!vars)
BY VaultBoot, VaultStop, VaultOther, VaultSave, StepKinds

\* While no keychain write of a migration is abandoned, the controller implements
\* the vault: crashes, retries, failed writes and the other writers are invisible,
\* a save stores what was entered or drops what was there, and a migration moves
\* the credentials as they are.
THEOREM VaultCorrect ==
    Spec /\ []NothingLate => ImplementsVault
<1> QED
  BY TypeInit, TypeNext, AgreeInit, AgreeNext, FreshInit, FreshNext,
     ConsentInit, ConsentNext, SavedInit, SavedNext, LegacyInit, LegacyNext,
     VaultInit, VaultNext, PTL
  DEF Spec, ImplementsVault, Vault!Spec

\* With a keychain that always answers, no write is abandoned.
THEOREM AnsweringKeychain ==
    ASSUME "wedged" \notin Reach
    PROVE  Spec => []KeychainSaveIsComplete /\ ImplementsVault
<1>1. Spec => []NothingLate
  BY TypeInit, TypeNext, AnsweringInit, AnsweringNext, PTL DEF Spec
<1> QED
  BY <1>1, KeychainSaveCorrect, VaultCorrect, PTL
=============================================================================
