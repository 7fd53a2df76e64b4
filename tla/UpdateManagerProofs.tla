--------------------------- MODULE UpdateManagerProofs ---------------------------
(***************************************************************************)
(* Proofs about UpdateManager for every number of watcher generations, of  *)
(* releases and of dialogs in the queue of the UI.                         *)
(***************************************************************************)
EXTENDS UpdateManager, TLAPS

USE WatchersAssumption, VersionAssumption, DialogsAssumption

-----------------------------------------------------------------------------
(* Types. *)

\* The records a generation passes through. Those that end a generation, or wait
\* for a check, and no others, hold nothing found.
LEMMA GenTypes ==
    /\ NoGen \in Gen
    /\ [NoGen EXCEPT !.at = "watching"] \in Gen
    /\ \A r \in Gen : [r EXCEPT !.cancelled = TRUE] \in Gen
    /\ \A r \in Gen, f \in Results : [r EXCEPT !.at = "event", !.found = f] \in Gen
    /\ \A r \in Gen : [r EXCEPT !.at = "handle"] \in Gen
    /\ \A r \in Gen : [r EXCEPT !.at = "watching", !.found = 0] \in Gen
<1>1. 0 \in Results
  BY DEF Results, Versions
<1> QED
  BY <1>1 DEF NoGen, Gen

\* What these records say of the generation.
LEMMA GenFields ==
    /\ NoGen.at = "free"
    /\ [NoGen EXCEPT !.at = "watching"].at = "watching"
    /\ [NoGen EXCEPT !.at = "watching"].cancelled = FALSE
    /\ \A r \in Gen : [r EXCEPT !.cancelled = TRUE].at = r.at
    /\ \A r \in Gen, f \in Results :
          LET e == [r EXCEPT !.at = "event", !.found = f]
          IN  e.at = "event" /\ e.cancelled = r.cancelled
    /\ \A r \in Gen : LET e == [r EXCEPT !.at = "handle"]
                      IN  e.at = "handle" /\ e.cancelled = r.cancelled
    /\ \A r \in Gen : LET e == [r EXCEPT !.at = "watching", !.found = 0]
                      IN  e.at = "watching" /\ e.cancelled = r.cancelled
BY DEF NoGen, Gen

LEMMA UpdateTypeInit == UpdateInit => UpdateTypeOK
<1> SUFFICES ASSUME UpdateInit
             PROVE  UpdateTypeOK
  OBVIOUS
<1>1. gen \in [Watchers -> Gen]
  BY GenTypes DEF UpdateInit
<1>2. latest \in Versions /\ notified \in Versions /\ surfaced \subseteq Versions
  BY DEF UpdateInit, Versions
<1>3. watcher = NoWatcher /\ stopping = NoWatcher
  BY DEF UpdateInit
<1>4. manual \in Manual
  BY DEF UpdateInit, Manual, NoManual, Results, Versions
<1>5. dialogs \in Seq(Dialog)
  BY DEF UpdateInit
<1>6. checking \in BOOLEAN /\ repeated \in BOOLEAN /\ overtaken \in BOOLEAN
  BY Zenon DEF UpdateInit
<1> QED
  BY <1>1, <1>2, <1>3, <1>4, <1>5, <1>6 DEF UpdateTypeOK

\* A step of generation g keeps the types of the generations, if the record it
\* leaves is one and if it does not end a generation that is not cancelled.
LEMMA TypeOfGenStep ==
    ASSUME UpdateTypeOK, NEW g \in Watchers, NEW r \in Gen,
           gen' = [gen EXCEPT ![g] = r], watcher' = watcher,
           gen[g].cancelled \/ (r.at # "free" /\ ~r.cancelled)
    PROVE  /\ gen' \in [Watchers -> Gen]
           /\ watcher' # NoWatcher =>
                 gen'[watcher'].at # "free" /\ ~gen'[watcher'].cancelled
<1>1. watcher # NoWatcher => watcher \in Watchers
  BY DEF UpdateTypeOK
<1> QED
  BY <1>1 DEF UpdateTypeOK

\* Claiming a version keeps the types of the claims.
LEMMA TypeOfClaim ==
    ASSUME UpdateTypeOK, NEW v \in Results, Available(v), ClaimVersion(v)
    PROVE  /\ notified' \in Versions /\ surfaced' \subseteq Versions
           /\ overtaken' \in BOOLEAN
<1>1. notified' \in Versions /\ surfaced' \subseteq Versions
  BY DEF UpdateTypeOK, Available, ClaimVersion
<1>2. overtaken' = (overtaken \/ v < notified)
  BY DEF ClaimVersion
<1>3. (overtaken \/ v < notified) \in BOOLEAN
  BY DEF UpdateTypeOK
<1> QED
  BY <1>1, <1>2, <1>3

LEMMA UpdateTypeWatcher ==
    ASSUME UpdateTypeOK, NEW g \in Watchers, WatcherStep(g)
    PROVE  UpdateTypeOK'
<1>1. gen[g] \in Gen /\ gen[g].found \in Results /\ gen[g].cancelled \in BOOLEAN
  BY DEF UpdateTypeOK, Gen
<1>2. {latest, Failed} \subseteq Results
  BY DEF UpdateTypeOK, Results
<1>3. CASE WatcherChecks(g)
  <2>1. PICK f \in Results :
          gen' = [gen EXCEPT ![g] = [gen[g] EXCEPT !.at = "event", !.found = f]]
    BY <1>2, <1>3 DEF WatcherChecks, SetGen
  <2> DEFINE r == [gen[g] EXCEPT !.at = "event", !.found = f]
  <2>2. r \in Gen /\ r.at # "free" /\ ~r.cancelled
    BY <1>1, <1>3, GenTypes, GenFields DEF WatcherChecks
  <2>3. gen' = [gen EXCEPT ![g] = r]
    BY <2>1
  <2> HIDE DEF r
  <2>4. watcher' = watcher
    BY <1>3 DEF WatcherChecks, lifecycle
  <2>5. /\ gen' \in [Watchers -> Gen]
        /\ watcher' # NoWatcher =>
              gen'[watcher'].at # "free" /\ ~gen'[watcher'].cancelled
    BY <2>2, <2>3, <2>4, TypeOfGenStep
  <2> QED
    BY <1>3, <2>5 DEF WatcherChecks, lifecycle, checks, claims, UpdateTypeOK
<1>4. CASE WatcherEnds(g)
  <2>1. /\ gen' \in [Watchers -> Gen]
        /\ watcher' # NoWatcher =>
              gen'[watcher'].at # "free" /\ ~gen'[watcher'].cancelled
    BY <1>4, GenTypes, TypeOfGenStep DEF WatcherEnds, SetGen, lifecycle
  <2> QED
    BY <1>4, <2>1 DEF WatcherEnds, lifecycle, checks, claims, UpdateTypeOK
<1>5. CASE HandleEvent(g)
  <2>1. PICK r \in Gen : /\ gen' = [gen EXCEPT ![g] = r]
                         /\ r.at # "free" /\ r.cancelled = gen[g].cancelled
    <3>1. CASE gen' = [gen EXCEPT ![g] = [gen[g] EXCEPT !.at = "handle"]]
      BY <1>1, <3>1, GenTypes, GenFields
    <3>2. CASE gen' = [gen EXCEPT ![g] = [gen[g] EXCEPT !.at = "watching", !.found = 0]]
      BY <1>1, <3>2, GenTypes, GenFields
    <3> QED
      BY <1>5, <3>1, <3>2 DEF HandleEvent, SetGen
  <2>2. watcher' = watcher
    BY <1>5 DEF HandleEvent, lifecycle
  <2>3. /\ gen' \in [Watchers -> Gen]
        /\ watcher' # NoWatcher =>
              gen'[watcher'].at # "free" /\ ~gen'[watcher'].cancelled
    BY <1>1, <2>1, <2>2, TypeOfGenStep
  <2>4. CASE UNCHANGED claims
    BY <1>5, <2>3, <2>4 DEF HandleEvent, lifecycle, checks, claims, UpdateTypeOK
  <2>5. CASE /\ Available(gen[g].found) /\ ClaimVersion(gen[g].found)
             /\ repeated' = (repeated \/ gen[g].found \in surfaced)
    <3>1. notified' \in Versions /\ surfaced' \subseteq Versions /\ overtaken' \in BOOLEAN
      BY <1>1, <2>5, TypeOfClaim
    <3>2. repeated' \in BOOLEAN
      BY <2>5 DEF UpdateTypeOK
    <3> QED
      BY <1>5, <2>3, <3>1, <3>2 DEF HandleEvent, lifecycle, checks, UpdateTypeOK
  <2> QED
    BY <1>5, <2>4, <2>5, Zenon DEF HandleEvent
<1>6. CASE Notify(g)
  <2> DEFINE r == [gen[g] EXCEPT !.at = "watching", !.found = 0]
  <2>1. r \in Gen /\ r.at # "free" /\ r.cancelled = gen[g].cancelled
    BY <1>1, GenTypes, GenFields
  <2>2. gen' = [gen EXCEPT ![g] = r] /\ watcher' = watcher
    BY <1>6 DEF Notify, SetGen, lifecycle
  <2> HIDE DEF r
  <2>3. /\ gen' \in [Watchers -> Gen]
        /\ watcher' # NoWatcher =>
              gen'[watcher'].at # "free" /\ ~gen'[watcher'].cancelled
    BY <1>1, <2>1, <2>2, TypeOfGenStep
  <2>4. [auto |-> TRUE, found |-> gen[g].found] \in Dialog
    BY <1>1 DEF Dialog
  <2>5. dialogs' \in Seq(Dialog)
    BY <1>6, <2>4 DEF Notify, UpdateTypeOK
  <2> QED
    BY <1>6, <2>3, <2>5 DEF Notify, lifecycle, checks, claims, UpdateTypeOK
<1> QED
  BY <1>3, <1>4, <1>5, <1>6 DEF WatcherStep

LEMMA UpdateTypeLifecycle ==
    ASSUME UpdateTypeOK, StartChecks \/ StopChecks \/ StopReturns
    PROVE  UpdateTypeOK'
<1>1. CASE StartChecks
  <2>1. PICK g \in Watchers : /\ gen[g].at = "free" /\ watcher' = g
                              /\ gen' = [gen EXCEPT ![g] = [NoGen EXCEPT !.at = "watching"]]
    BY <1>1 DEF StartChecks, SetGen
  <2> DEFINE r == [NoGen EXCEPT !.at = "watching"]
  <2>2. r \in Gen /\ r.at = "watching" /\ r.cancelled = FALSE
    BY GenTypes, GenFields
  <2>3. gen' = [gen EXCEPT ![g] = r]
    BY <2>1
  <2> HIDE DEF r
  <2> QED
    BY <1>1, <2>1, <2>2, <2>3 DEF StartChecks, checks, claims, UpdateTypeOK
<1>2. CASE StopChecks
  <2> DEFINE r == [gen[watcher] EXCEPT !.cancelled = TRUE]
  <2>1. watcher \in Watchers /\ gen[watcher] \in Gen
    BY <1>2 DEF StopChecks, UpdateTypeOK
  <2>2. r \in Gen
    BY <2>1, GenTypes
  <2>3. gen' = [gen EXCEPT ![watcher] = r]
    BY <1>2 DEF StopChecks, SetGen
  <2> HIDE DEF r
  <2> QED
    BY <1>2, <2>1, <2>2, <2>3 DEF StopChecks, checks, claims, UpdateTypeOK
<1>3. CASE StopReturns
  BY <1>3 DEF StopReturns, checks, claims, UpdateTypeOK
<1> QED
  BY <1>1, <1>2, <1>3

LEMMA UpdateTypeManual ==
    ASSUME UpdateTypeOK, CheckForUpdates \/ ManualFetch \/ ManualResult \/ Present
    PROVE  UpdateTypeOK'
<1>1. manual \in Manual /\ manual.found \in Results /\ 0 \in Results
  BY DEF UpdateTypeOK, Manual, Results, Versions
<1>2. NoManual \in Manual /\ [NoManual EXCEPT !.at = "fetch"] \in Manual
  BY <1>1 DEF NoManual, Manual
<1>3. CASE CheckForUpdates
  <2>1. manual' \in Manual /\ checking' \in BOOLEAN
    BY <1>2, <1>3 DEF CheckForUpdates
  <2> QED
    BY <1>3, <2>1 DEF CheckForUpdates, lifecycle, claims, UpdateTypeOK
<1>4. CASE ManualFetch
  <2>1. manual' \in Manual
    BY <1>4 DEF ManualFetch, Manual, Results, UpdateTypeOK
  <2> QED
    BY <1>4, <2>1 DEF ManualFetch, lifecycle, claims, UpdateTypeOK
<1>5. CASE ManualResult
  <2>1. [auto |-> FALSE, found |-> manual.found] \in Dialog
    BY <1>1 DEF Dialog
  <2>2. dialogs' \in Seq(Dialog) /\ manual' \in Manual
    BY <1>2, <1>5, <2>1 DEF ManualResult, UpdateTypeOK
  <2>3. /\ notified' \in Versions /\ surfaced' \subseteq Versions
        /\ overtaken' \in BOOLEAN /\ repeated' \in BOOLEAN
    <3>1. CASE UNCHANGED claims
      BY <3>1 DEF claims, UpdateTypeOK
    <3>2. CASE Available(manual.found) /\ ClaimVersion(manual.found) /\ UNCHANGED repeated
      BY <1>1, <3>2, TypeOfClaim DEF UpdateTypeOK
    <3> QED
      BY <1>5, <3>1, <3>2 DEF ManualResult
  <2> QED
    BY <1>5, <2>2, <2>3 DEF ManualResult, lifecycle, UpdateTypeOK
<1>6. CASE Present
  <2>1. dialogs' \in Seq(Dialog)
    BY <1>6 DEF Present, UpdateTypeOK
  <2>2. checking' \in BOOLEAN
    <3>1. Head(dialogs) \in Dialog
      BY <1>6 DEF Present, UpdateTypeOK
    <3>2. Head(dialogs).auto \in BOOLEAN /\ checking \in BOOLEAN
      BY <3>1, Zenon DEF Dialog, UpdateTypeOK
    <3> QED
      BY <1>6, <3>2 DEF Present
  <2> QED
    BY <1>6, <2>1, <2>2 DEF Present, lifecycle, claims, UpdateTypeOK
<1> QED
  BY <1>3, <1>4, <1>5, <1>6

LEMMA UpdateTypeNext == UpdateTypeOK /\ [UpdateNext]_updateVars => UpdateTypeOK'
<1> SUFFICES ASSUME UpdateTypeOK, [UpdateNext]_updateVars
             PROVE  UpdateTypeOK'
  OBVIOUS
<1>1. CASE Publish
  BY <1>1 DEF Publish, lifecycle, checks, claims, UpdateTypeOK, Versions
<1>2. CASE UNCHANGED updateVars
  BY <1>2 DEF updateVars, lifecycle, checks, claims, UpdateTypeOK
<1> QED
  BY <1>1, <1>2, UpdateTypeWatcher, UpdateTypeLifecycle, UpdateTypeManual DEF UpdateNext

\* The variables keep their types, and the current generation is alive and not
\* cancelled.
THEOREM UpdateTypeCorrect == UpdateSpec => []UpdateTypeOK
BY UpdateTypeInit, UpdateTypeNext, PTL DEF UpdateSpec

-----------------------------------------------------------------------------
(* One generation. While no Stop waits, only the current generation is       *)
(* alive; a Start is possible only then, and StopReturns once the generation *)
(* it waits for has ended. So the invariant is inductive as it stands.       *)

LEMMA OneGenerationNext ==
    UpdateTypeOK /\ OneGeneration /\ [UpdateNext]_updateVars => OneGeneration'
<1> SUFFICES ASSUME UpdateTypeOK, OneGeneration, [UpdateNext]_updateVars
             PROVE  OneGeneration'
  OBVIOUS
<1> USE DEF OneGeneration
<1>1. CASE StartChecks
  <2>1. PICK g \in Watchers : /\ watcher' = g
                              /\ gen' = [gen EXCEPT ![g] = [NoGen EXCEPT !.at = "watching"]]
    BY <1>1 DEF StartChecks, SetGen
  <2>2. \A h \in Watchers : gen[h].at = "free"
    BY <1>1 DEF StartChecks, UIFree
  <2> QED
    BY <2>1, <2>2 DEF UpdateTypeOK
<1>2. CASE StopChecks
  <2>1. watcher \in Watchers /\ gen[watcher] \in Gen
    BY <1>2 DEF StopChecks, UpdateTypeOK
  <2>2. [gen[watcher] EXCEPT !.cancelled = TRUE].at = gen[watcher].at
    BY <2>1, GenFields
  <2>3. \A h \in Watchers : gen'[h].at = gen[h].at
    BY <1>2, <2>1, <2>2 DEF StopChecks, SetGen, UpdateTypeOK
  <2> QED
    BY <1>2, <2>3 DEF StopChecks, UIFree
<1>3. CASE StopReturns
  BY <1>3 DEF StopReturns
<1>4. ASSUME NEW g \in Watchers, WatcherStep(g)
      PROVE  OneGeneration'
  <2>1. UNCHANGED lifecycle
    BY <1>4 DEF WatcherStep, WatcherChecks, WatcherEnds, HandleEvent, Notify
  <2>2. gen[g].at # "free"
    BY <1>4 DEF WatcherStep, WatcherChecks, WatcherEnds, HandleEvent, Notify
  <2>3. \A h \in Watchers \ {g} : gen'[h] = gen[h]
    BY <1>4 DEF WatcherStep, WatcherChecks, WatcherEnds, HandleEvent, Notify, SetGen,
                UpdateTypeOK
  <2> QED
    BY <2>1, <2>2, <2>3 DEF lifecycle
<1>5. CASE \/ CheckForUpdates \/ ManualFetch \/ ManualResult \/ Present \/ Publish
           \/ UNCHANGED updateVars
  <2>1. UNCHANGED <<lifecycle, gen>>
    BY <1>5 DEF CheckForUpdates, ManualFetch, ManualResult, Present, Publish, updateVars
  <2> QED
    BY <2>1 DEF lifecycle
<1> QED
  BY <1>1, <1>2, <1>3, <1>4, <1>5 DEF UpdateNext

\* Stop waits for full teardown: at any time at most the current generation and the
\* one that Stop waits for are alive, so that nothing is announced once the checks
\* are off, and no event comes from before a restart.
THEOREM OneGenerationCorrect == UpdateSpec => []OneGeneration
<1>1. UpdateInit => OneGeneration
  BY GenFields DEF UpdateInit, OneGeneration
<1> QED
  BY <1>1, UpdateTypeInit, UpdateTypeNext, OneGenerationNext, PTL DEF UpdateSpec

-----------------------------------------------------------------------------
(* Announcements. Manager remembers one version only. That is enough as long  *)
(* as no check has claimed a version older than the remembered one: then the  *)
(* remembered version is the greatest of those claimed, and a version that is *)
(* claimed by a watcher, which differs from it, is greater than all of them.  *)

GreatestIsRemembered ==
    ~overtaken => ~repeated /\ \A v \in surfaced : v <= notified

LEMMA ClaimKeepsGreatest ==
    ASSUME UpdateTypeOK, GreatestIsRemembered, NEW v \in Results, Available(v),
           ClaimVersion(v), ~overtaken'
    PROVE  /\ ~overtaken /\ notified <= v
           /\ \A w \in surfaced' : w <= notified'
<1>1. ~overtaken /\ ~(v < notified)
  BY DEF ClaimVersion
<1>2. notified \in Nat /\ v \in Nat /\ surfaced \subseteq Nat
  BY DEF UpdateTypeOK, Versions, Available
<1>3. notified <= v
  BY <1>1, <1>2
<1>4. \A w \in surfaced : w <= v
  BY <1>1, <1>2, <1>3 DEF GreatestIsRemembered
<1> QED
  BY <1>1, <1>2, <1>3, <1>4 DEF ClaimVersion

LEMMA GreatestNext ==
    UpdateTypeOK /\ GreatestIsRemembered /\ [UpdateNext]_updateVars
        => GreatestIsRemembered'
<1> SUFFICES ASSUME UpdateTypeOK, GreatestIsRemembered, [UpdateNext]_updateVars,
                    ~overtaken'
             PROVE  ~repeated' /\ \A v \in surfaced' : v <= notified'
  BY DEF GreatestIsRemembered
<1>1. CASE UNCHANGED claims
  BY <1>1 DEF claims, GreatestIsRemembered
<1>2. ASSUME NEW g \in Watchers, Available(gen[g].found), notified # gen[g].found,
             ClaimVersion(gen[g].found),
             repeated' = (repeated \/ gen[g].found \in surfaced)
      PROVE  ~repeated' /\ \A v \in surfaced' : v <= notified'
  <2>1. gen[g].found \in Results
    BY DEF UpdateTypeOK, Gen
  <2>2. ~overtaken /\ notified <= gen[g].found /\ \A w \in surfaced' : w <= notified'
    BY <1>2, <2>1, ClaimKeepsGreatest
  <2>3. notified \in Nat /\ gen[g].found \in Nat
    BY <1>2 DEF UpdateTypeOK, Versions, Available
  <2>4. gen[g].found \notin surfaced
    BY <1>2, <2>2, <2>3 DEF GreatestIsRemembered
  <2> QED
    BY <1>2, <2>2, <2>4 DEF GreatestIsRemembered
<1>3. CASE Available(manual.found) /\ ClaimVersion(manual.found) /\ UNCHANGED repeated
  <2>1. manual.found \in Results
    BY DEF UpdateTypeOK, Manual
  <2> QED
    BY <1>3, <2>1, ClaimKeepsGreatest DEF GreatestIsRemembered
<1>4. CASE ManualResult
  BY <1>1, <1>3, <1>4 DEF ManualResult
<1>5. ASSUME NEW g \in Watchers, WatcherStep(g)
      PROVE  ~repeated' /\ \A v \in surfaced' : v <= notified'
  <2>1. CASE HandleEvent(g)
    BY <1>1, <1>2, <2>1 DEF HandleEvent
  <2>2. CASE WatcherChecks(g) \/ WatcherEnds(g) \/ Notify(g)
    BY <1>1, <2>2 DEF WatcherChecks, WatcherEnds, Notify
  <2> QED
    BY <1>5, <2>1, <2>2 DEF WatcherStep
<1>6. CASE \/ StartChecks \/ StopChecks \/ StopReturns \/ CheckForUpdates
           \/ ManualFetch \/ Present \/ Publish \/ UNCHANGED updateVars
  BY <1>1, <1>6 DEF StartChecks, StopChecks, StopReturns, CheckForUpdates, ManualFetch,
                    Present, Publish, updateVars
<1> QED
  BY <1>4, <1>5, <1>6 DEF UpdateNext

\* A version the user has seen, by hand or not, is not announced again while no
\* check is overtaken by another one that claims a newer version, whatever the order
\* of checks, restarts and releases.
THEOREM AnnouncedOnceCorrect == UpdateSpec => []AnnouncedOnce
<1>1. UpdateInit => GreatestIsRemembered
  BY DEF UpdateInit, GreatestIsRemembered
<1>2. GreatestIsRemembered => AnnouncedOnce
  BY DEF GreatestIsRemembered, AnnouncedOnce
<1> QED
  BY <1>1, <1>2, UpdateTypeInit, UpdateTypeNext, GreatestNext, PTL DEF UpdateSpec
=================================================================================
