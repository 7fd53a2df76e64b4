--------------------------- MODULE RefreshLoopProofs ---------------------------
(***************************************************************************)
(* Proofs about refreshNow for every set of servers and every queue bound. *)
(***************************************************************************)
EXTENDS RefreshLoop, TLAPS

Goroutines == {"poll", "ui"}

-----------------------------------------------------------------------------
(* What the operators return. *)

LEMMA OutcomeType ==
    ASSUME TypeOK
    PROVE  Outcome \in Outcomes
  BY DEF TypeOK, Outcome, Outcomes

LEMMA AnsweredType ==
    ASSUME TypeOK, NEW o
    PROVE  Answered(o) \in Servers \cup {NoServer}
  BY DEF TypeOK, Answered

LEMMA IdleType == Idle \in Refresh /\ Idle.step = "idle"
  BY DEF Idle, Refresh, Steps, Outcomes

\* noteFetchError returns a note, and never one that shows hint and error.
LEMMA NotedType ==
    ASSUME NEW n \in Note, NEW o \in Outcomes
    PROVE  /\ Noted(n, o) \in Note
           /\ (n.waiting => ~n.error) => (Noted(n, o).waiting => ~Noted(n, o).error)
  <1>1. CASE o = "ok" \/ (o = "plain" /\ n.error)
    BY <1>1 DEF Noted
  <1>2. CASE o = "waiting"
    BY <1>2 DEF Noted, Note
  <1>3. CASE o = "terminal" \/ (o = "plain" /\ ~n.error)
    BY <1>3 DEF Noted, Note
  <1> QED BY <1>1, <1>2, <1>3 DEF Outcomes

LEMMA NoNoteType == NoNote \in Note /\ ~NoNote.waiting
  BY DEF NoNote, Note

-----------------------------------------------------------------------------
(* The steps preserve the invariant. *)

\* A refresh on the UI goroutine starts with room in the queue, and the poll can
\* only take that room.
RoomForUI == run["ui"].step # "idle" => Len(queue) <= MaxQueue

Inv == TypeOK /\ HintOrError /\ DisconnectedForgetsVersion /\ RoomForUI

\* A step of a refresh leaves what is shown alone, so only types are at stake.
LEMMA RunKeeps ==
    ASSUME Inv, NEW p \in Goroutines, NEW r \in Refresh,
           run' = [run EXCEPT ![p] = r],
           queue' \in Seq(Refresh), Len(queue') <= MaxQueue + 1,
           ui' \in {"free", "refreshing", "saving"},
           ui' = "refreshing" <=> run'["ui"].step # "idle",
           RoomForUI', UNCHANGED <<world, shown>>
    PROVE  Inv'
  <1>1. run' \in [{"poll", "ui"} -> Refresh]
    BY DEF Inv, TypeOK, Goroutines
  <1> QED BY <1>1 DEF Inv, TypeOK, HintOrError, DisconnectedForgetsVersion, world, shown

LEMMA FetchTorrentsInv ==
    ASSUME Inv, NEW p \in Goroutines, FetchTorrents(p)
    PROVE  Inv'
  <1> DEFINE r == [Idle EXCEPT !.step = "state", !.list = Answered(Outcome),
                               !.torrents = Outcome]
  <1>1. r \in Refresh /\ r.step # "idle"
    BY OutcomeType, AnsweredType, IdleType DEF Inv, Refresh, Steps
  <1>2. run' = [run EXCEPT ![p] = r] /\ queue' = queue /\ UNCHANGED <<world, shown>>
    BY DEF FetchTorrents
  <1>3. run \in [{"poll", "ui"} -> Refresh]
    BY DEF Inv, TypeOK
  <1> HIDE DEF r
  <1>4. CASE p = "ui"
    <2>1. run'["ui"].step # "idle" /\ ui' = "refreshing"
      BY <1>1, <1>2, <1>3, <1>4 DEF FetchTorrents
    <2>2. RoomForUI'
      BY <1>2, <1>4, QueueAssumption DEF FetchTorrents, RoomForUI, Inv, TypeOK
    <2> QED BY <1>1, <1>2, <2>1, <2>2, RunKeeps DEF Inv, TypeOK
  <1>5. CASE p = "poll"
    <2>1. run'["ui"] = run["ui"] /\ ui' = ui
      BY <1>2, <1>3, <1>5 DEF FetchTorrents
    <2>2. RoomForUI'
      BY <1>2, <2>1 DEF RoomForUI, Inv
    <2> QED BY <1>1, <1>2, <2>1, <2>2, RunKeeps DEF Inv, TypeOK
  <1> QED BY <1>4, <1>5 DEF Goroutines

LEMMA RequestInv ==
    ASSUME Inv, NEW p \in Goroutines, FetchState(p) \/ FetchServerVersion(p)
    PROVE  Inv'
  <1>1. PICK r \in Refresh : r.step # "idle" /\ run' = [run EXCEPT ![p] = r]
    <2>1. run[p] \in Refresh /\ run[p].step # "idle"
      BY DEF Inv, TypeOK, Goroutines, FetchState, FetchServerVersion
    <2>2. Outcome \in Outcomes
      BY OutcomeType DEF Inv
    <2>3. Answered(Outcome) \in Servers \cup {NoServer}
      BY AnsweredType DEF Inv
    <2>4. CASE FetchState(p)
      <3> DEFINE r == [run[p] EXCEPT !.step = "version", !.state = Outcome]
      <3>1. r \in Refresh /\ r.step # "idle"
        BY <2>1, <2>2 DEF Refresh, Steps
      <3> QED BY <2>4, <3>1 DEF FetchState
    <2>5. CASE FetchServerVersion(p)
      <3> DEFINE v == IF WantsVersion(p) THEN Answered(Outcome) ELSE NoServer
                 r == [run[p] EXCEPT !.step = "queue", !.version = v]
      <3>1. r \in Refresh /\ r.step # "idle"
        BY <2>1, <2>3 DEF Refresh, Steps
      <3> QED BY <2>5, <3>1 DEF FetchServerVersion
    <2> QED BY <2>4, <2>5
  <1>2. queue' = queue /\ ui' = ui /\ UNCHANGED <<world, shown>>
    BY DEF FetchState, FetchServerVersion
  <1>3. run'["ui"].step # "idle" <=> run["ui"].step # "idle"
    BY <1>1 DEF Inv, TypeOK, Goroutines, FetchState, FetchServerVersion
  <1>4. RoomForUI'
    BY <1>2, <1>3 DEF RoomForUI, Inv
  <1> QED BY <1>1, <1>2, <1>3, <1>4, RunKeeps DEF Inv, TypeOK

LEMMA QueueResultInv ==
    ASSUME Inv, NEW p \in Goroutines, QueueResult(p)
    PROVE  Inv'
  <1>1. run[p] \in Refresh /\ run \in [{"poll", "ui"} -> Refresh] /\ queue \in Seq(Refresh)
    BY DEF Inv, TypeOK, Goroutines
  <1>2. queue' = Append(queue, run[p]) /\ run' = [run EXCEPT ![p] = Idle]
        /\ UNCHANGED <<world, shown>>
    BY DEF QueueResult
  <1>3. queue' \in Seq(Refresh) /\ Len(queue') <= MaxQueue + 1
    BY <1>1, <1>2, QueueAssumption DEF QueueResult, Goroutines, Inv, RoomForUI
  <1>4. ui' = "refreshing" <=> run'["ui"].step # "idle"
    BY <1>1, <1>2, IdleType DEF QueueResult, Inv, TypeOK, Goroutines
  <1>5. ui' \in {"free", "refreshing", "saving"}
    BY DEF QueueResult, Inv, TypeOK
  <1>6. RoomForUI'
    <2>1. CASE p = "ui"
      BY <1>1, <1>2, <2>1, IdleType DEF RoomForUI
    <2>2. CASE p = "poll"
      BY <1>1, <1>2, <2>2, QueueAssumption DEF QueueResult, RoomForUI
    <2> QED BY <2>1, <2>2 DEF Goroutines
  <1> QED BY <1>2, <1>3, <1>4, <1>5, <1>6, IdleType, RunKeeps

\* A result is shown: the invariant of the note is noteFetchError's, that of the
\* version is kept because a failure forgets it.
LEMMA ApplyInv ==
    ASSUME Inv, Apply
    PROVE  Inv'
  <1> DEFINE r == Head(queue)
             n == IF r.torrents = "ok" THEN NoNote ELSE Noted(note, r.torrents)
  <1>1. /\ r \in Refresh /\ Tail(queue) \in Seq(Refresh)
        /\ Len(Tail(queue)) = Len(queue) - 1 /\ Len(queue) \in Nat
    BY DEF Inv, TypeOK, Apply
  <1>2. r.torrents \in Outcomes /\ r.state \in Outcomes
        /\ r.list \in Servers \cup {NoServer} /\ r.version \in Servers \cup {NoServer}
    BY <1>1 DEF Refresh
  <1>3. n \in Note /\ (n.waiting => ~n.error)
    BY <1>2, NotedType, NoNoteType DEF Inv, TypeOK, HintOrError
  <1>4. Connection(r) /\ note' = Noted(n, r.state) /\ queue' = Tail(queue)
        /\ UNCHANGED <<world, run, ui>>
    BY DEF Apply
  <1> HIDE DEF r, n
  <1>5. note' \in Note /\ HintOrError'
    BY <1>2, <1>3, <1>4, NotedType DEF HintOrError
  <1>6. /\ list' \in Servers \cup {NoServer} /\ version' \in Servers \cup {NoServer}
        /\ connection' \in {"unknown", "connected", "disconnected"}
        /\ DisconnectedForgetsVersion'
    BY <1>2, <1>4 DEF Connection, Inv, TypeOK, DisconnectedForgetsVersion
  <1>7. Len(queue') <= MaxQueue + 1 /\ RoomForUI' /\ queue' \in Seq(Refresh)
    BY <1>1, <1>4, QueueAssumption DEF Inv, TypeOK, RoomForUI
  <1> QED BY <1>4, <1>5, <1>6, <1>7 DEF Inv, TypeOK, world

\* The steps outside the refresh: a save forgets a version or keeps it.
LEMMA OtherInv ==
    ASSUME Inv,
           \/ \E s \in Servers : SaveSettings(s)
           \/ FinishSave \/ ServersChange \/ KeychainAnswers
    PROVE  Inv'
  <1>1. CASE \E s \in Servers : SaveSettings(s)
    BY <1>1 DEF SaveSettings, shown, Inv, TypeOK, HintOrError,
                DisconnectedForgetsVersion, RoomForUI
  <1>2. CASE FinishSave
    BY <1>2 DEF FinishSave, world, Inv, TypeOK, HintOrError,
                DisconnectedForgetsVersion, RoomForUI
  <1>3. CASE ServersChange
    BY <1>3 DEF ServersChange, shown, Inv, TypeOK, HintOrError,
                DisconnectedForgetsVersion, RoomForUI
  <1>4. CASE KeychainAnswers
    BY <1>4 DEF KeychainAnswers, shown, Inv, TypeOK, HintOrError,
                DisconnectedForgetsVersion, RoomForUI
  <1> QED BY <1>1, <1>2, <1>3, <1>4

LEMMA InitInv == Init => Inv
  <1> SUFFICES ASSUME Init PROVE Inv
    OBVIOUS
  <1>1. run \in [{"poll", "ui"} -> Refresh] /\ run["ui"].step = "idle"
    BY IdleType DEF Init
  <1>2. queue \in Seq(Refresh) /\ Len(queue) = 0
    BY DEF Init
  <1> QED BY <1>1, <1>2, NoNoteType, QueueAssumption
          DEF Init, Inv, TypeOK, HintOrError, DisconnectedForgetsVersion, RoomForUI

LEMMA NextInv == Inv /\ [Next]_vars => Inv'
  <1> SUFFICES ASSUME Inv, [Next]_vars PROVE Inv'
    OBVIOUS
  <1>1. CASE \E p \in Goroutines : FetchTorrents(p)
    BY <1>1, FetchTorrentsInv
  <1>2. CASE \E p \in Goroutines : FetchState(p) \/ FetchServerVersion(p)
    BY <1>2, RequestInv
  <1>3. CASE \E p \in Goroutines : QueueResult(p)
    BY <1>3, QueueResultInv
  <1>4. CASE Apply
    BY <1>4, ApplyInv
  <1>5. CASE \/ \E s \in Servers : SaveSettings(s)
             \/ FinishSave \/ ServersChange \/ KeychainAnswers
    BY <1>5, OtherInv
  <1>6. CASE UNCHANGED vars
    BY <1>6 DEF vars, world, shown, Inv, TypeOK, HintOrError,
                DisconnectedForgetsVersion, RoomForUI
  <1> QED BY <1>1, <1>2, <1>3, <1>4, <1>5, <1>6
          DEF Next, Poll, RefreshStep, Goroutines

-----------------------------------------------------------------------------
(* The theorems. *)

\* The variables keep their types, the UI goroutine is blocked exactly while it
\* refreshes, and the queue never holds more than one result over its bound.
THEOREM TypeCorrect == Spec => []TypeOK
  <1>1. Inv => TypeOK
    BY DEF Inv
  <1> QED BY <1>1, InitInv, NextInv, PTL DEF Spec

\* noteFetchError, at every place refreshNow calls it: the waiting hint and an
\* error are never shown together.
THEOREM NoteCorrect == Spec => []HintOrError
  <1>1. Inv => HintOrError
    BY DEF Inv
  <1> QED BY <1>1, InitInv, NextInv, PTL DEF Spec

\* refreshNow forgets the version with every failure and remembers one with a
\* success only, however the results of the two goroutines and a save interleave.
THEOREM VersionCorrect == Spec => []DisconnectedForgetsVersion
  <1>1. Inv => DisconnectedForgetsVersion
    BY DEF Inv
  <1> QED BY <1>1, InitInv, NextInv, PTL DEF Spec

===============================================================================
