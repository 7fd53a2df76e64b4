---------------------------- MODULE BackgroundProofs -----------------------------
(***************************************************************************)
(* Proofs about Activation, for every set of processes, ports and tokens   *)
(* and every capacity of the channel, and about Background, which puts it  *)
(* beside the session and the update checks.                               *)
(***************************************************************************)
EXTENDS Background, QbtSessionProofs, UpdateManagerProofs, TLAPS

USE ProcsAssumption, FileAssumption, ServingAssumption, CapacityAssumption

-----------------------------------------------------------------------------
(* Sequences of batches. *)

At(q, seq) == \E i \in 1 .. Len(seq) : seq[i] = q

Once(seq) == \A i, j \in 1 .. Len(seq) : seq[i] = seq[j] => i = j

LEMMA EmptySequence == Once(<<>>) /\ \A q : ~At(q, <<>>)
BY DEF Once, At

LEMMA SingletonSequence ==
    ASSUME NEW x
    PROVE  Once(<<x>>) /\ \A q : At(q, <<x>>) <=> q = x
BY DEF Once, At

LEMMA AppendSequence ==
    ASSUME NEW S, NEW seq \in Seq(S), NEW x \in S
    PROVE  /\ \A q : At(q, Append(seq, x)) <=> At(q, seq) \/ q = x
           /\ Once(seq) /\ ~At(x, seq) => Once(Append(seq, x))
<1> DEFINE long == Append(seq, x)
<1>1. /\ Len(long) = Len(seq) + 1 /\ Len(seq) \in Nat
      /\ \A i \in 1 .. Len(seq) : long[i] = seq[i]
      /\ long[Len(seq) + 1] = x
  OBVIOUS
<1>2. \A i : i \in 1 .. Len(seq) + 1 <=> i \in 1 .. Len(seq) \/ i = Len(seq) + 1
  BY <1>1
<1> HIDE DEF long
<1>3. \A q : At(q, long) <=> At(q, seq) \/ q = x
  BY <1>1, <1>2 DEF At
<1>4. Once(seq) /\ ~At(x, seq) => Once(long)
  BY <1>1, <1>2 DEF At, Once
<1> QED
  BY <1>3, <1>4 DEF long

LEMMA TailSequence ==
    ASSUME NEW S, NEW seq \in Seq(S), seq # <<>>
    PROVE  /\ Head(seq) \in S /\ Tail(seq) \in Seq(S) /\ Len(Tail(seq)) = Len(seq) - 1
           /\ \A q : At(q, seq) <=> q = Head(seq) \/ At(q, Tail(seq))
           /\ Once(seq) => Once(Tail(seq)) /\ ~At(Head(seq), Tail(seq))
<1>1. /\ Len(seq) \in Nat /\ Len(seq) > 0 /\ Head(seq) = seq[1] /\ Head(seq) \in S
      /\ Tail(seq) \in Seq(S) /\ Len(Tail(seq)) = Len(seq) - 1
      /\ \A i \in 1 .. Len(Tail(seq)) : Tail(seq)[i] = seq[i + 1]
  OBVIOUS
<1> DEFINE short == Tail(seq)
<1> HIDE DEF short
<1>2. \A q : At(q, seq) <=> q = Head(seq) \/ At(q, short)
  <2> TAKE q
  <2>1. ASSUME At(q, seq), q # Head(seq)
        PROVE  At(q, short)
    <3>1. PICK i \in 1 .. Len(seq) : seq[i] = q
      BY <2>1 DEF At
    <3>2. i # 1 /\ i - 1 \in 1 .. Len(short) /\ (i - 1) + 1 = i
      BY <1>1, <2>1, <3>1 DEF short
    <3> QED
      BY <1>1, <3>1, <3>2 DEF At, short
  <2>2. ASSUME At(q, short)
        PROVE  At(q, seq)
    <3>1. PICK i \in 1 .. Len(short) : short[i] = q
      BY <2>2 DEF At
    <3>2. i + 1 \in 1 .. Len(seq) /\ seq[i + 1] = q
      BY <1>1, <3>1 DEF short
    <3> QED
      BY <3>2 DEF At
  <2>3. At(Head(seq), seq)
    BY <1>1 DEF At
  <2> QED
    BY <2>1, <2>2, <2>3
<1>3. ASSUME Once(seq)
      PROVE  Once(short) /\ ~At(Head(seq), short)
  <2>1. \A i \in 1 .. Len(short) : i + 1 \in 1 .. Len(seq) /\ i + 1 # 1
    BY <1>1 DEF short
  <2>2. \A i, j \in 1 .. Len(short) : i + 1 = j + 1 => i = j
    BY <1>1 DEF short
  <2>3. Once(short)
    BY <1>1, <1>3, <2>1, <2>2 DEF Once, short
  <2>4. ~At(Head(seq), short)
    BY <1>1, <1>3, <2>1 DEF Once, At, short
  <2> QED
    BY <2>3, <2>4
<1> QED
  BY <1>1, <1>2, <1>3 DEF short

-----------------------------------------------------------------------------
(* The invariants. Only the holder of the lock is in the steps of a primary  *)
(* process; it listens from the moment it has chosen its port, and the state *)
(* file is its own once it has written it.                                   *)

Serving   == {"truncate", "write", "starting", "ui", "shutdown"}
Announced == {"starting", "ui", "shutdown", "remove"}

ReachInv ==
    \A p \in Procs :
        /\ proc[p] \in PrimarySteps => lock = p
        /\ proc[p] \in Serving => listener[state[p].port] = p
        /\ proc[p] \in Announced => file = state[p]

\* A batch that was taken over and not yet handled is in the channel or in the queue,
\* once; a process that has not handed over its batch is responsible for it.
Responsible == {"lock", "read", "post", "listen", "truncate", "write", "starting"}

BatchInv ==
    /\ Once(channel) /\ Once(queue)
    /\ \A q \in Procs :
          /\ ~(At(q, channel) /\ At(q, queue))
          /\ fate[q] = "queued" <=> At(q, channel) \/ At(q, queue)
          /\ proc[q] \in Responsible => fate[q] = "none"
          /\ reported[q] = "delivered" => fate[q] # "none"
    /\ queue # <<>> => \E p \in Procs : proc[p] \in {"ui", "shutdown", "remove"}

ActivationInv == ActivationTypeOK /\ ReachInv /\ BatchInv

LEMMA NoStateType == NoState \in [port : Ports, token : Tokens]
<1>1. (CHOOSE p \in Ports : TRUE) \in Ports
  OBVIOUS
<1>2. (CHOOSE t \in Tokens : TRUE) \in Tokens
  OBVIOUS
<1> QED
  BY <1>1, <1>2 DEF NoState

\* There is one primary process.
LEMMA OnePrimary ==
    ASSUME ReachInv, NEW p \in Procs, NEW q \in Procs,
           proc[p] \in PrimarySteps, proc[q] \in PrimarySteps
    PROVE  p = q
BY DEF ReachInv

-----------------------------------------------------------------------------
(* Types. *)

LEMMA ActivationTypeInit == ActivationInit => ActivationTypeOK
<1> SUFFICES ASSUME ActivationInit
             PROVE  ActivationTypeOK
  OBVIOUS
<1>1. proc \in [Procs -> Steps] /\ state \in [Procs -> [port : Ports, token : Tokens]]
  BY NoStateType DEF ActivationInit, Steps
<1>2. reported \in [Procs -> Reports] /\ fate \in [Procs -> Fates]
  BY DEF ActivationInit, Reports, Fates
<1>3. \A p \in Procs : fate[p] = "none"
  BY DEF ActivationInit
<1>4. inbox = {p \in Procs : fate[p] = "handler"} /\ deferred = {p \in Procs : fate[p] = "deferred"}
  BY <1>3 DEF ActivationInit
<1>5. channel \in Seq(Procs) /\ Len(channel) <= Capacity /\ queue \in Seq(Procs)
  BY DEF ActivationInit
<1>6. settings \in BOOLEAN /\ setup \in BOOLEAN /\ cut \in BOOLEAN
  BY Zenon DEF ActivationInit
<1>7. /\ lock \in Procs \cup {NoProc} /\ file \in {NoFile, Partial}
      /\ listener \in [Ports -> Procs \cup {NoProc}]
  BY DEF ActivationInit
<1> QED
  BY <1>1, <1>2, <1>4, <1>5, <1>6, <1>7, Zenon DEF ActivationTypeOK

\* The sets of batches follow their fates.
LEMMA FateOfOne ==
    ASSUME ActivationTypeOK, NEW q \in Procs, NEW f \in Fates,
           fate' = [fate EXCEPT ![q] = f]
    PROVE  /\ fate' \in [Procs -> Fates]
           /\ {p \in Procs : fate'[p] = "handler"} =
                 IF f = "handler" THEN inbox \cup {q} ELSE inbox \ {q}
           /\ {p \in Procs : fate'[p] = "deferred"} =
                 IF f = "deferred" THEN deferred \cup {q} ELSE deferred \ {q}
BY DEF ActivationTypeOK

\* The end of a primary process loses what it held.
LEMMA FateOfForgotten ==
    ASSUME ActivationTypeOK, Forget
    PROVE  /\ fate' \in [Procs -> Fates]
           /\ \A p \in Procs : fate'[p] \notin {"handler", "queued", "deferred"}
           /\ \A p \in Procs : fate'[p] = "none" <=> fate[p] = "none"
           /\ inbox' = {p \in Procs : fate'[p] = "handler"}
           /\ deferred' = {p \in Procs : fate'[p] = "deferred"}
           /\ channel' \in Seq(Procs) /\ Len(channel') <= Capacity /\ queue' \in Seq(Procs)
           /\ settings' \in BOOLEAN
<1>1. fate' \in [Procs -> Fates]
  BY DEF Forget, ActivationTypeOK, Fates
<1>2. \A p \in Procs : /\ fate'[p] \notin {"handler", "queued", "deferred"}
                       /\ fate'[p] = "none" <=> fate[p] = "none"
  BY DEF Forget
<1>3. inbox' = {p \in Procs : fate'[p] = "handler"}
  BY <1>2 DEF Forget
<1>4. deferred' = {p \in Procs : fate'[p] = "deferred"}
  BY <1>2 DEF Forget
<1>5. channel' = <<>> /\ queue' = <<>> /\ settings' = FALSE
  BY DEF Forget
<1>6. channel' \in Seq(Procs) /\ Len(channel') <= Capacity /\ queue' \in Seq(Procs)
  BY <1>5
<1> QED
  BY <1>1, <1>2, <1>3, <1>4, <1>5, <1>6

LEMMA ActivationTypePrimary ==
    ASSUME ActivationInv, NEW p \in Procs, PrimaryStep(p) \/ Quit(p) \/ Crash(p)
    PROVE  ActivationTypeOK'
<1> USE DEF ActivationInv, ActivationTypeOK, system, primary, config, outcome, Go, End, Steps,
            PrimarySteps
<1>1. CASE Listen(p)
  BY <1>1 DEF Listen
<1>2. CASE TruncateState(p)
  BY <1>2 DEF TruncateState
<1>3. CASE WriteState(p)
  <2>1. CASE file' = state[p] /\ Go(p, "starting") /\ UNCHANGED listener
    <3>1. file' \in [port : Ports, token : Tokens]
      BY <2>1
    <3> QED
      BY <1>3, <2>1, <3>1 DEF WriteState
  <2>2. CASE /\ listener' = [listener EXCEPT ![state[p].port] = NoProc]
             /\ Go(p, "release") /\ UNCHANGED file
    BY <1>3, <2>2 DEF WriteState
  <2> QED
    BY <1>3, <2>1, <2>2, Zenon DEF WriteState
<1>4. CASE RunUI(p)
  <2>1. fate[p] = "none" /\ fate' = [fate EXCEPT ![p] = "queued"]
    BY <1>4 DEF RunUI, BatchInv, Responsible
  <2>2. p \notin inbox /\ p \notin deferred
    BY <2>1
  <2>3. /\ fate' \in [Procs -> Fates]
        /\ {r \in Procs : fate'[r] = "handler"} = inbox
        /\ {r \in Procs : fate'[r] = "deferred"} = deferred
    BY <2>1, <2>2, FateOfOne DEF Fates
  <2>4. queue' \in Seq(Procs)
    BY <1>4 DEF RunUI
  <2> QED
    BY <1>4, <2>3, <2>4 DEF RunUI
<1>5. CASE Shutdown(p)
  BY <1>5 DEF Shutdown
<1>6. CASE RemoveState(p)
  BY <1>6, FateOfForgotten DEF RemoveState
<1>7. CASE ReleaseLock(p)
  BY <1>7, NoStateType DEF ReleaseLock
<1>8. CASE Quit(p)
  BY <1>8 DEF Quit
<1>9. CASE Crash(p)
  BY <1>9, NoStateType, FateOfForgotten DEF Crash
<1> QED
  BY <1>1, <1>2, <1>3, <1>4, <1>5, <1>6, <1>7, <1>8, <1>9 DEF PrimaryStep

LEMMA ActivationTypeOther ==
    ASSUME ActivationInv, NEW q \in Procs,
           Launch(q) \/ AcquireLock(q) \/ ForwardStep(q) \/ GiveUp(q)
    PROVE  ActivationTypeOK'
<1> USE DEF ActivationInv, ActivationTypeOK, system, primary, config, outcome, Go, End, Steps,
            PrimarySteps, Reports, Report
<1>1. CASE Launch(q)
  BY <1>1, FateOfOne DEF Launch, Fates
<1>2. CASE AcquireLock(q)
  BY <1>2 DEF AcquireLock
<1>3. CASE ReadState(q)
  <2>1. CASE file \in {NoFile, Partial} /\ Report(q, "failed")
    BY <1>3, <2>1, NoStateType DEF ReadState
  <2>2. CASE /\ file \notin {NoFile, Partial}
             /\ state' = [state EXCEPT ![q] = file]
             /\ Go(q, "post") /\ UNCHANGED reported
    <3>1. file \in [port : Ports, token : Tokens]
      BY <2>2
    <3> QED
      BY <1>3, <2>2, <3>1 DEF ReadState
  <2> QED
    BY <1>3, <2>1, <2>2, Zenon DEF ReadState
<1>4. CASE Post(q)
  <2>1. CASE /\ inbox' = inbox \cup {q} /\ fate' = [fate EXCEPT ![q] = "handler"]
             /\ Go(q, "wait") /\ UNCHANGED <<reported, state>>
    <3>1. fate[q] = "none"
      BY <1>4 DEF Post, BatchInv, Responsible
    <3>2. q \notin deferred
      BY <3>1
    <3>3. /\ fate' \in [Procs -> Fates]
          /\ {r \in Procs : fate'[r] = "handler"} = inbox'
          /\ {r \in Procs : fate'[r] = "deferred"} = deferred
      BY <2>1, <3>2, FateOfOne DEF Fates
    <3> QED
      BY <1>4, <2>1, <3>3 DEF Post
  <2>2. CASE Report(q, "failed") /\ UNCHANGED <<inbox, fate>>
    BY <1>4, <2>2, NoStateType DEF Post
  <2> QED
    BY <1>4, <2>1, <2>2, Zenon DEF Post
<1>5. CASE HandleRequest(q)
  <2>1. fate[q] = "handler" /\ fate' = [fate EXCEPT ![q] = "queued"]
    BY <1>5 DEF HandleRequest
  <2>2. q \notin deferred
    BY <2>1
  <2>3. /\ fate' \in [Procs -> Fates]
        /\ {r \in Procs : fate'[r] = "handler"} = inbox \ {q}
        /\ {r \in Procs : fate'[r] = "deferred"} = deferred
    BY <2>1, <2>2, FateOfOne DEF Fates
  <2>4. channel' \in Seq(Procs) /\ Len(channel') <= Capacity
    BY <1>5 DEF HandleRequest
  <2>5. CASE Report(q, "delivered")
    BY <1>5, <2>3, <2>4, <2>5, NoStateType DEF HandleRequest
  <2>6. CASE UNCHANGED <<proc, state, reported>>
    BY <1>5, <2>3, <2>4, <2>6 DEF HandleRequest
  <2> QED
    BY <1>5, <2>5, <2>6, Zenon DEF HandleRequest
<1>6. CASE GiveUp(q)
  BY <1>6, NoStateType DEF GiveUp
<1> QED
  BY <1>1, <1>2, <1>3, <1>4, <1>5, <1>6 DEF ForwardStep

LEMMA ActivationTypeUI ==
    ASSUME ActivationInv, Drain \/ Invoke \/ OpenOrCloseSettings \/ SaveConnection
    PROVE  ActivationTypeOK'
<1> USE DEF ActivationInv, ActivationTypeOK, system, primary, config, outcome
<1>1. CASE Drain
  BY <1>1, TailSequence DEF Drain
<1>2. CASE Invoke
  <2> DEFINE h == Head(queue)
  <2>1. h \in Procs /\ At(h, queue) /\ queue' \in Seq(Procs)
    BY <1>2, TailSequence DEF Invoke
  <2> HIDE DEF h
  <2>2. fate[h] = "queued"
    BY <2>1 DEF BatchInv
  <2>3. h \notin inbox /\ h \notin deferred
    BY <2>2
  <2>4. CASE fate' = [fate EXCEPT ![h] = "shown"] /\ UNCHANGED <<deferred, settings>>
    <3>1. /\ fate' \in [Procs -> Fates]
          /\ {r \in Procs : fate'[r] = "handler"} = inbox
          /\ {r \in Procs : fate'[r] = "deferred"} = deferred
      BY <2>1, <2>3, <2>4, FateOfOne DEF Fates
    <3> QED
      BY <1>2, <2>1, <2>4, <3>1 DEF Invoke
  <2>5. CASE /\ fate' = [fate EXCEPT ![h] = "deferred"]
             /\ deferred' = deferred \cup {h} /\ settings' = TRUE
    <3>1. /\ fate' \in [Procs -> Fates]
          /\ {r \in Procs : fate'[r] = "handler"} = inbox
          /\ {r \in Procs : fate'[r] = "deferred"} = deferred'
      BY <2>1, <2>3, <2>5, FateOfOne DEF Fates
    <3> QED
      BY <1>2, <2>1, <2>5, <3>1 DEF Invoke
  <2> QED
    BY <1>2, <2>4, <2>5, Zenon DEF Invoke, h
<1>3. CASE OpenOrCloseSettings
  BY <1>3 DEF OpenOrCloseSettings
<1>4. CASE SaveConnection
  BY <1>4 DEF SaveConnection, ShowDeferred, Fates
<1> QED
  BY <1>1, <1>2, <1>3, <1>4

-----------------------------------------------------------------------------
(* Reachability. A step of the primary process leaves every other process out *)
(* of the steps of a primary, and steps of the others leave the lock, the file*)
(* and the ports alone.                                                       *)

LEMMA ReachPrimary ==
    ASSUME ActivationInv, NEW p \in Procs, PrimaryStep(p) \/ Quit(p)
    PROVE  ReachInv'
<1> USE DEF system, Go, End
<1>1. proc[p] \in PrimarySteps /\ lock = p
  BY DEF PrimaryStep, Quit, Listen, TruncateState, WriteState, RunUI, Shutdown,
         RemoveState, ReleaseLock, PrimarySteps, ActivationInv, ReachInv
<1>2. \A r \in Procs \ {p} : proc[r] \notin PrimarySteps
  BY <1>1, OnePrimary DEF ActivationInv
<1>3. \A r \in Procs \ {p} : proc'[r] = proc[r]
  BY DEF PrimaryStep, Quit, Listen, TruncateState, WriteState, RunUI, Shutdown,
         RemoveState, ReleaseLock, ActivationInv, ActivationTypeOK
<1>4. \A r \in Procs \ {p} : proc'[r] \notin PrimarySteps \cup Serving \cup Announced
  BY <1>2, <1>3 DEF PrimarySteps, Serving, Announced
<1> SUFFICES /\ proc'[p] \in PrimarySteps => lock' = p
             /\ proc'[p] \in Serving => listener'[state'[p].port] = p
             /\ proc'[p] \in Announced => file' = state'[p]
  BY <1>4, Zenon DEF ReachInv
<1> USE DEF ActivationInv, ReachInv, ActivationTypeOK, PrimarySteps, Serving, Announced
<1>5. CASE Listen(p)
  <2>1. PICK a \in Ports, t \in Tokens :
          /\ listener' = [listener EXCEPT ![a] = p]
          /\ state' = [state EXCEPT ![p] = [port |-> a, token |-> t]]
    BY <1>5 DEF Listen
  <2>2. listener'[state'[p].port] = p
    BY <2>1
  <2> QED
    BY <1>1, <1>5, <2>2 DEF Listen
<1>6. CASE TruncateState(p)
  BY <1>1, <1>6 DEF TruncateState
<1>7. CASE WriteState(p)
  BY <1>1, <1>7 DEF WriteState
<1>8. CASE RunUI(p) \/ Quit(p)
  BY <1>1, <1>8 DEF RunUI, Quit
<1>9. CASE Shutdown(p)
  BY <1>1, <1>9 DEF Shutdown
<1>10. CASE RemoveState(p)
  BY <1>1, <1>10 DEF RemoveState
<1>11. CASE ReleaseLock(p)
  BY <1>1, <1>11 DEF ReleaseLock
<1> QED
  BY <1>5, <1>6, <1>7, <1>8, <1>9, <1>10, <1>11 DEF PrimaryStep

\* A crash frees the lock and the ports of the process that dies, and of no other.
LEMMA ReachCrash ==
    ASSUME ActivationInv, NEW p \in Procs, Crash(p)
    PROVE  ReachInv'
<1> USE DEF ActivationInv, ActivationTypeOK
<1>1. proc'[p] = "off"
  BY DEF Crash, End, Go
<1>2. \A r \in Procs \ {p} : proc'[r] = proc[r] /\ state'[r] = state[r]
  BY DEF Crash, End, Go
<1>3. \A r \in Procs \ {p} : lock = r => lock' = r
  BY DEF Crash
<1>4. \A r \in Procs \ {p}, a \in Ports : listener[a] = r => listener'[a] = r
  BY DEF Crash
<1>5. file' = file
  BY DEF Crash
<1>6. \A r \in Procs : state[r].port \in Ports
  OBVIOUS
<1> QED
  BY <1>1, <1>2, <1>3, <1>4, <1>5, <1>6 DEF ReachInv, PrimarySteps, Serving, Announced

LEMMA ReachOther ==
    ASSUME ActivationInv, NEW q \in Procs,
           Launch(q) \/ AcquireLock(q) \/ ForwardStep(q) \/ GiveUp(q)
    PROVE  ReachInv'
<1> USE DEF ActivationInv, ActivationTypeOK, Go, End, Report, system
<1>1. /\ file' = file /\ listener' = listener
      /\ \A r \in Procs \ {q} : proc'[r] = proc[r] /\ state'[r] = state[r]
  BY DEF Launch, AcquireLock, ForwardStep, ReadState, Post, HandleRequest, GiveUp
<1>2. CASE AcquireLock(q) /\ lock = NoProc
  <2>1. \A r \in Procs : proc[r] \notin PrimarySteps
    BY <1>2 DEF ReachInv
  <2>2. proc'[q] = "listen" /\ lock' = q
    BY <1>2 DEF AcquireLock
  <2> QED
    BY <1>1, <2>1, <2>2 DEF ReachInv, PrimarySteps, Serving, Announced
<1>3. CASE ~(AcquireLock(q) /\ lock = NoProc)
  <2>1. lock' = lock
    BY <1>3 DEF Launch, AcquireLock, ForwardStep, ReadState, Post, HandleRequest, GiveUp
  <2>2. \/ proc'[q] \notin PrimarySteps
        \/ proc'[q] = proc[q] /\ state'[q] = state[q]
    BY <1>3 DEF Launch, AcquireLock, ForwardStep, ReadState, Post, HandleRequest, GiveUp,
                PrimarySteps
  <2>3. proc'[q] \notin PrimarySteps => proc'[q] \notin Serving \cup Announced
    BY DEF PrimarySteps, Serving, Announced
  <2> QED
    BY <1>1, <2>1, <2>2, <2>3 DEF ReachInv
<1> QED
  BY <1>2, <1>3

LEMMA ReachUI ==
    ASSUME ActivationInv, Drain \/ Invoke \/ OpenOrCloseSettings \/ SaveConnection
    PROVE  ReachInv'
<1>1. UNCHANGED <<lock, file, listener, proc, state>>
  BY DEF Drain, Invoke, OpenOrCloseSettings, SaveConnection, system
<1> QED
  BY <1>1 DEF ActivationInv, ReachInv

-----------------------------------------------------------------------------
(* Batches. *)

\* A step that leaves the channel, the queue and the processes of the UI alone keeps
\* the invariant if no fate becomes, or ceases to be, that of a batch in them.
LEMMA BatchesRest ==
    ASSUME BatchInv, UNCHANGED <<channel, queue>>,
           \A q \in Procs : fate'[q] = "queued" <=> fate[q] = "queued",
           \A q \in Procs : proc'[q] \in Responsible => fate'[q] = "none",
           \A q \in Procs : reported'[q] = "delivered" => fate'[q] # "none",
           \A p \in Procs : proc[p] \in {"ui", "shutdown", "remove"}
                => proc'[p] \in {"ui", "shutdown", "remove"}
    PROVE  BatchInv'
BY DEF BatchInv

LEMMA BatchForget ==
    ASSUME ActivationInv, Forget, UNCHANGED reported,
           \A q \in Procs : proc'[q] \in Responsible => proc[q] = proc'[q]
    PROVE  BatchInv'
<1>1. channel' = <<>> /\ queue' = <<>>
  BY DEF Forget
<1>2. \A q \in Procs : fate'[q] # "queued" /\ (fate'[q] = "none" <=> fate[q] = "none")
  BY FateOfForgotten DEF ActivationInv
<1> QED
  BY <1>1, <1>2, EmptySequence DEF ActivationInv, BatchInv

LEMMA BatchPrimary ==
    ASSUME ActivationInv, NEW p \in Procs, PrimaryStep(p) \/ Quit(p) \/ Crash(p)
    PROVE  BatchInv'
<1> USE DEF ActivationInv, ActivationTypeOK, Go, End, primary, outcome
<1>1. \A r \in Procs \ {p} : proc'[r] = proc[r]
  BY DEF PrimaryStep, Quit, Crash, Listen, TruncateState, WriteState, RunUI, Shutdown,
         RemoveState, ReleaseLock
<1>2. CASE RunUI(p)
  <2>1. proc[p] = "starting" /\ proc'[p] = "ui" /\ queue' = <<p>>
    BY <1>2 DEF RunUI
  <2>2. queue = <<>>
    <3>1. \A r \in Procs : proc[r] \in {"ui", "shutdown", "remove"} => r = p
      BY <2>1, OnePrimary DEF PrimarySteps
    <3> QED
      BY <2>1, <3>1 DEF BatchInv
  <2>3. fate[p] = "none" /\ fate'[p] = "queued" /\ \A r \in Procs \ {p} : fate'[r] = fate[r]
    BY <1>2, <2>1 DEF RunUI, BatchInv, Responsible
  <2>4. UNCHANGED <<channel, reported>>
    BY <1>2 DEF RunUI
  <2>5. ~At(p, channel)
    BY <2>3 DEF BatchInv
  <2> QED
    BY <1>1, <2>1, <2>2, <2>3, <2>4, <2>5, SingletonSequence, EmptySequence
    DEF BatchInv, Responsible
<1>3. CASE RemoveState(p)
  <2>1. Forget /\ UNCHANGED reported /\ proc'[p] = "release"
    BY <1>3 DEF RemoveState
  <2> QED
    BY <1>1, <2>1, BatchForget DEF Responsible
<1>4. CASE Crash(p) /\ proc[p] \in PrimarySteps
  <2>1. Forget /\ UNCHANGED reported /\ proc'[p] = "off"
    BY <1>4 DEF Crash
  <2> QED
    BY <1>1, <2>1, BatchForget DEF Responsible
<1>5. CASE /\ ~RunUI(p) /\ ~RemoveState(p) /\ ~(Crash(p) /\ proc[p] \in PrimarySteps)
  <2>1. UNCHANGED <<channel, queue, fate, reported>>
    BY <1>5 DEF PrimaryStep, Quit, Crash, Listen, TruncateState, WriteState, Shutdown,
                ReleaseLock
  <2>2. proc'[p] \in Responsible => proc[p] \in Responsible
    BY <1>5 DEF PrimaryStep, Quit, Crash, Listen, TruncateState, WriteState, Shutdown,
                ReleaseLock, Responsible
  <2>3. proc[p] \in {"ui", "shutdown", "remove"}
           => proc'[p] \in {"ui", "shutdown", "remove"}
    BY <1>5 DEF PrimaryStep, Quit, Crash, Listen, TruncateState, WriteState, Shutdown,
                ReleaseLock, PrimarySteps
  <2> QED
    BY <1>1, <2>1, <2>2, <2>3, BatchesRest DEF BatchInv
<1> QED
  BY <1>2, <1>3, <1>4, <1>5

LEMMA BatchOther ==
    ASSUME ActivationInv, NEW q \in Procs,
           Launch(q) \/ AcquireLock(q) \/ ForwardStep(q) \/ GiveUp(q)
    PROVE  BatchInv'
<1> USE DEF ActivationInv, ActivationTypeOK, Go, End, Report, primary, outcome
<1>1. \A r \in Procs \ {q} : proc'[r] = proc[r] /\ reported'[r] = reported[r]
                             /\ fate'[r] = fate[r]
  BY DEF Launch, AcquireLock, ForwardStep, ReadState, Post, HandleRequest, GiveUp
<1>2. proc[q] \in {"ui", "shutdown", "remove"} => proc'[q] = proc[q]
  BY DEF Launch, AcquireLock, ForwardStep, ReadState, Post, HandleRequest, GiveUp
<1>3. CASE HandleRequest(q)
  <2>1. fate[q] = "handler" /\ fate'[q] = "queued" /\ q \in Procs
    BY <1>3 DEF HandleRequest
  <2>2. ~At(q, channel) /\ ~At(q, queue)
    BY <2>1 DEF BatchInv
  <2>3. channel' = Append(channel, q) /\ UNCHANGED queue
    BY <1>3 DEF HandleRequest
  <2>4. Once(channel') /\ \A r : At(r, channel') <=> At(r, channel) \/ r = q
    BY <2>2, <2>3, AppendSequence DEF BatchInv
  <2>5. proc'[q] \notin Responsible
    BY <1>3, <2>1 DEF HandleRequest, BatchInv, Responsible
  <2> QED
    BY <1>1, <1>2, <2>1, <2>2, <2>3, <2>4, <2>5 DEF BatchInv
<1>4. CASE ~HandleRequest(q)
  <2>1. UNCHANGED <<channel, queue>>
    BY <1>4 DEF Launch, AcquireLock, ForwardStep, ReadState, Post, GiveUp
  <2>2. fate'[q] = "queued" <=> fate[q] = "queued"
    BY <1>4 DEF Launch, AcquireLock, ForwardStep, ReadState, Post, GiveUp, BatchInv,
                Responsible
  <2>3. proc'[q] \in Responsible => fate'[q] = "none"
    BY <1>4 DEF Launch, AcquireLock, ForwardStep, ReadState, Post, GiveUp, BatchInv,
                Responsible
  <2>4. reported'[q] = "delivered" => fate'[q] # "none"
    BY <1>4 DEF Launch, AcquireLock, ForwardStep, ReadState, Post, GiveUp, BatchInv
  <2> QED
    BY <1>1, <1>2, <2>1, <2>2, <2>3, <2>4, BatchesRest DEF BatchInv
<1> QED
  BY <1>3, <1>4

LEMMA BatchUI ==
    ASSUME ActivationInv, Drain \/ Invoke \/ OpenOrCloseSettings \/ SaveConnection
    PROVE  BatchInv'
<1> USE DEF ActivationInv, ActivationTypeOK, outcome
<1>1. UNCHANGED <<proc, reported>>
  BY DEF Drain, Invoke, OpenOrCloseSettings, SaveConnection
<1>2. CASE Drain
  <2> DEFINE h == Head(channel)
  <2>1. h \in Procs /\ queue' = Append(queue, h) /\ channel' = Tail(channel)
    BY <1>2, TailSequence DEF Drain
  <2>2. /\ Once(channel') /\ ~At(h, channel')
        /\ \A q : At(q, channel) <=> q = h \/ At(q, channel')
    BY <1>2, <2>1, TailSequence DEF Drain, BatchInv
  <2> HIDE DEF h
  <2>3. ~At(h, queue)
    BY <2>1, <2>2 DEF BatchInv
  <2>4. Once(queue') /\ \A q : At(q, queue') <=> At(q, queue) \/ q = h
    BY <2>1, <2>3, AppendSequence DEF BatchInv
  <2>5. UNCHANGED fate /\ UIRuns
    BY <1>2 DEF Drain
  <2> QED
    BY <1>1, <2>1, <2>2, <2>3, <2>4, <2>5 DEF BatchInv, UIRuns
<1>3. CASE Invoke
  <2> DEFINE h == Head(queue)
  <2>1. h \in Procs /\ queue' = Tail(queue)
    BY <1>3, TailSequence DEF Invoke
  <2>2. /\ Once(queue') /\ ~At(h, queue')
        /\ \A q : At(q, queue) <=> q = h \/ At(q, queue')
    BY <1>3, <2>1, TailSequence DEF Invoke, BatchInv
  <2>3. fate'[h] \in {"shown", "deferred"} /\ \A r \in Procs \ {h} : fate'[r] = fate[r]
    BY <1>3, <2>1 DEF Invoke
  <2> HIDE DEF h
  <2>4. fate[h] = "queued" /\ ~At(h, channel)
    BY <2>1, <2>2 DEF BatchInv
  <2>5. UNCHANGED channel /\ UIRuns
    BY <1>3 DEF Invoke
  <2> QED
    BY <1>1, <2>1, <2>2, <2>3, <2>4, <2>5 DEF BatchInv, UIRuns
<1>4. CASE OpenOrCloseSettings
  BY <1>1, <1>4, BatchesRest DEF OpenOrCloseSettings, BatchInv
<1>5. CASE SaveConnection
  <2>1. UNCHANGED <<channel, queue>>
    BY <1>5 DEF SaveConnection
  <2>2. \A q \in Procs : fate'[q] = fate[q] \/ (fate[q] = "deferred" /\ fate'[q] = "shown")
    BY <1>5 DEF SaveConnection, ShowDeferred
  <2> QED
    BY <1>1, <2>1, <2>2, BatchesRest DEF BatchInv
<1> QED
  BY <1>2, <1>3, <1>4, <1>5

-----------------------------------------------------------------------------
(* The single instance. *)

LEMMA ActivationInvInit == ActivationInit => ActivationInv
<1> SUFFICES ASSUME ActivationInit
             PROVE  ActivationInv
  OBVIOUS
<1>1. \A p \in Procs : proc[p] = "off" /\ fate[p] = "none" /\ reported[p] = "nothing"
  BY DEF ActivationInit
<1>2. ReachInv
  BY <1>1 DEF ReachInv, PrimarySteps, Serving, Announced
<1>3. channel = <<>> /\ queue = <<>>
  BY DEF ActivationInit
<1>4. BatchInv
  BY <1>1, <1>3, EmptySequence DEF BatchInv
<1> QED
  BY <1>2, <1>4, ActivationTypeInit DEF ActivationInv

LEMMA ActivationInvNext == ActivationInv /\ [ActivationNext]_activationVars => ActivationInv'
<1> SUFFICES ASSUME ActivationInv, [ActivationNext]_activationVars
             PROVE  ActivationInv'
  OBVIOUS
<1>1. ASSUME NEW p \in Procs, PrimaryStep(p) \/ Quit(p) \/ Crash(p)
      PROVE  ActivationInv'
  BY <1>1, ActivationTypePrimary, ReachPrimary, ReachCrash, BatchPrimary DEF ActivationInv
<1>2. ASSUME NEW q \in Procs, Launch(q) \/ AcquireLock(q) \/ ForwardStep(q) \/ GiveUp(q)
      PROVE  ActivationInv'
  BY <1>2, ActivationTypeOther, ReachOther, BatchOther DEF ActivationInv
<1>3. CASE Drain \/ Invoke \/ OpenOrCloseSettings \/ SaveConnection
  BY <1>3, ActivationTypeUI, ReachUI, BatchUI DEF ActivationInv
<1>4. CASE UNCHANGED activationVars
  BY <1>4 DEF activationVars, system, primary, config, outcome, ActivationInv,
              ActivationTypeOK, ReachInv, BatchInv
<1> QED
  BY <1>1, <1>2, <1>3, <1>4 DEF ActivationNext

\* The variables keep their types, and the handler and the UI hold exactly the
\* batches whose fate says so.
THEOREM ActivationTypeCorrect == ActivationSpec => []ActivationTypeOK
<1>1. ActivationInv => ActivationTypeOK
  BY DEF ActivationInv
<1> QED
  BY ActivationInvInit, ActivationInvNext, <1>1, PTL DEF ActivationSpec

\* A running instance stays reachable: it holds the lock, the state file names its
\* port and token, and it listens there, whichever processes crash, quit or fail to
\* start around it.
THEOREM ReachableCorrect == ActivationSpec => []RunningIsReachable
<1>1. ActivationInv => RunningIsReachable
  BY DEF ActivationInv, ReachInv, RunningIsReachable, PrimarySteps, Serving, Announced
<1> QED
  BY ActivationInvInit, ActivationInvNext, <1>1, PTL DEF ActivationSpec

\* No batch is lost or shown twice on its way through the channel and the queue: one
\* that has been taken over and not handled is in one of them, once; and a batch
\* reported as delivered has been taken over.
THEOREM BatchesCorrect == ActivationSpec => []BatchInv
<1>1. ActivationInv => BatchInv
  BY DEF ActivationInv
<1> QED
  BY ActivationInvInit, ActivationInvNext, <1>1, PTL DEF ActivationSpec

-----------------------------------------------------------------------------
(* The product. *)

LEMMA EachComponentSteps ==
    [Next]_vars => /\ [SessionNext]_sessionVars
                   /\ [UpdateNext]_updateVars
                   /\ [ActivationNext]_activationVars
<1>1. Session => SessionNext /\ UNCHANGED <<updateVars, activationVars>>
  BY DEF Session
<1>2. Updates => UpdateNext /\ UNCHANGED <<sessionVars, activationVars>>
  BY DEF Updates
<1>3. Launches => ActivationNext /\ UNCHANGED <<sessionVars, updateVars>>
  BY DEF Launches
<1>4. UNCHANGED vars => UNCHANGED <<sessionVars, updateVars, activationVars>>
  BY DEF vars
<1> QED
  BY <1>1, <1>2, <1>3, <1>4 DEF Next

\* A behaviour of the product is a behaviour of each component, so that what is proved
\* of a component holds in the run that checks the three together.
THEOREM ComponentsRun == Spec => SessionSpec /\ UpdateSpec /\ ActivationSpec
<1>1. Init => SessionInit /\ UpdateInit /\ ActivationInit
  BY DEF Init
<1> QED
  BY <1>1, EachComponentSteps, PTL DEF Spec, SessionSpec, UpdateSpec, ActivationSpec

\* The variables of all three components keep their types.
THEOREM BackgroundTypeCorrect == Spec => []BackgroundTypeOK
<1>1. SessionTypeOK /\ UpdateTypeOK /\ ActivationTypeOK => BackgroundTypeOK
  BY DEF BackgroundTypeOK
<1> QED
  BY <1>1, ComponentsRun, SessionTypeCorrect, UpdateTypeCorrect, ActivationTypeCorrect, PTL
=================================================================================
