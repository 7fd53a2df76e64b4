------------------------------- MODULE Activation -------------------------------
(***************************************************************************)
(* Launches of the application: the first process of a user holds the      *)
(* instance lock and serves activations; a later one that was started to   *)
(* open magnet links or torrent files forwards them and exits. The address *)
(* and the token of the server are in a state file.                        *)
(*                                                                         *)
(* A forwarded batch passes the HTTP handler, a bounded channel and the    *)
(* queue of the UI goroutine. The UI opens the add windows for it, or puts *)
(* it aside until the connection is set up.                                *)
(*                                                                         *)
(* Processes crash between any two steps: the kernel then frees the lock   *)
(* and the port, and the state file stays. A process stands for the batch  *)
(* of its command line; it may be launched again once nothing is left of   *)
(* that batch. The lock is the one of Unix; where locks are not supported  *)
(* every process serves, which is left out.                                *)
(***************************************************************************)
EXTENDS Naturals, Sequences

CONSTANTS
    Procs,       \* processes of the application
    NoProc,      \* the lock is free, or the port closed
    Ports,       \* loopback ports
    Tokens,      \* random tokens; one not in use stands for a fresh one
    NoFile,      \* there is no state file
    Partial,     \* the state file is truncated and not yet written
    Capacity     \* of the channel of activations

ASSUME ProcsAssumption == NoProc \notin Procs
ASSUME FileAssumption ==
    NoFile # Partial /\ {NoFile, Partial} \cap [port : Ports, token : Tokens] = {}
ASSUME ServingAssumption == Ports # {} /\ Tokens # {}
ASSUME CapacityAssumption == Capacity \in Nat \ {0}

VARIABLES
    lock,        \* the holder of the instance lock
    file,        \* the state file
    listener,    \* the process that listens on each port
    proc,        \* the control point of each process, ...
    state,       \* ... and the port and token it serves on, or has read
    inbox,       \* batches in the HTTP handler of the primary process
    channel,     \* activations
    queue,       \* its UI queue
    deferred,    \* application.pendingInvocation
    settings,    \* its settings window is open
    setup,       \* the configuration has a URL
    cut,         \* the last save did not get past the log settings
    reported,    \* what a forwarding process told the user
    fate         \* what became of its batch

system    == <<lock, file, listener>>
primary   == <<inbox, channel, queue, deferred, settings>>
config    == <<setup, cut>>
outcome   == <<reported, fate>>
activationVars == <<system, proc, state, primary, config, outcome>>

NoState == [port |-> CHOOSE p \in Ports : TRUE, token |-> CHOOSE t \in Tokens : TRUE]

\* run(): the steps of a process that gets the lock, and of one that does not.
PrimarySteps == {"listen", "truncate", "write", "starting", "ui", "shutdown",
                 "remove", "release"}
Steps == {"off", "lock", "read", "post", "wait"} \cup PrimarySteps

ActivationInit ==
    /\ lock = NoProc /\ file = NoFile
    /\ listener = [a \in Ports |-> NoProc]
    /\ proc = [p \in Procs |-> "off"] /\ state = [p \in Procs |-> NoState]
    /\ inbox = {} /\ channel = <<>> /\ queue = <<>> /\ deferred = {}
    /\ settings = FALSE /\ setup \in BOOLEAN /\ cut = FALSE
    /\ reported = [p \in Procs |-> "nothing"]
    /\ fate = [p \in Procs |-> "none"]

Go(p, step) == proc' = [proc EXCEPT ![p] = step]

End(p) == Go(p, "off") /\ state' = [state EXCEPT ![p] = NoState]

-----------------------------------------------------------------------------
(* A launch. *)

\* The desktop starts the application to open something. (A process without
\* arguments that does not get the lock only says so, and is left out.)
Launch(p) ==
    /\ proc[p] = "off" /\ fate[p] \in {"none", "shown", "lost"}
    /\ Go(p, "lock")
    /\ reported' = [reported EXCEPT ![p] = "nothing"]
    /\ fate' = [fate EXCEPT ![p] = "none"]
    /\ UNCHANGED <<system, state, primary, config>>

\* AcquireInstanceLock.
AcquireLock(p) ==
    /\ proc[p] = "lock"
    /\ \/ lock = NoProc /\ lock' = p /\ Go(p, "listen")
       \/ lock # NoProc /\ Go(p, "read") /\ UNCHANGED lock
    /\ UNCHANGED <<file, listener, state, primary, config, outcome>>

\* StartActivationServer: take a port and a token, ...
Listen(p) ==
    /\ proc[p] = "listen"
    /\ \E a \in Ports, t \in Tokens :
          /\ listener[a] = NoProc
          /\ \A q \in Procs : proc[q] \in {"post", "wait"} => state[q].token # t
          /\ file \notin [port : Ports, token : {t}]
          /\ listener' = [listener EXCEPT ![a] = p]
          /\ state' = [state EXCEPT ![p] = [port |-> a, token |-> t]]
    /\ Go(p, "truncate")
    /\ UNCHANGED <<lock, file, primary, config, outcome>>

\* ... write the state file, which is not atomic, ...
TruncateState(p) ==
    /\ proc[p] = "truncate"
    /\ file' = Partial
    /\ Go(p, "write")
    /\ UNCHANGED <<lock, listener, state, primary, config, outcome>>

\* ... and serve, while the UI starts. If the write fails, run() returns.
WriteState(p) ==
    /\ proc[p] = "write"
    /\ \/ file' = state[p] /\ Go(p, "starting") /\ UNCHANGED listener
       \/ /\ listener' = [listener EXCEPT ![state[p].port] = NoProc]
          /\ Go(p, "release") /\ UNCHANGED file
    /\ UNCHANGED <<lock, state, primary, config, outcome>>

\* ui.Run: the window is up. The batch of the command line is the first in the
\* queue; without a URL it is put aside, and the settings window opens.
RunUI(p) ==
    /\ proc[p] = "starting"
    /\ Go(p, "ui")
    /\ queue' = <<p>>
    /\ fate' = [fate EXCEPT ![p] = "queued"]
    /\ UNCHANGED <<system, state, inbox, channel, deferred, settings, config, reported>>

\* The user quits, or ui.Run fails.
Quit(p) ==
    /\ proc[p] \in {"starting", "ui"}
    /\ Go(p, "shutdown")
    /\ UNCHANGED <<system, state, primary, config, outcome>>

\* What the memory of a process that ends takes with it.
Forget ==
    /\ inbox' = {} /\ channel' = <<>> /\ queue' = <<>> /\ deferred' = {}
    /\ settings' = FALSE
    /\ fate' = [p \in Procs |-> IF fate[p] \in {"handler", "queued", "deferred"}
                                THEN "lost" ELSE fate[p]]

\* Close: stop listening and wait, for two seconds at most, for the handlers, ...
Shutdown(p) ==
    /\ proc[p] = "shutdown"
    /\ listener' = [listener EXCEPT ![state[p].port] = NoProc]
    /\ Go(p, "remove")
    /\ UNCHANGED <<lock, file, state, primary, config, outcome>>

\* Variant: the lock is released before the state file is removed.
RemoveUnlocked(p) ==
    /\ proc[p] = "remove"
    /\ IF lock = p THEN lock' = NoProc /\ UNCHANGED <<file, proc, primary, fate>>
                   ELSE file' = NoFile /\ Go(p, "release") /\ Forget /\ UNCHANGED lock
    /\ UNCHANGED <<listener, state, config, reported>>

\* ... remove the state file, ...
RemoveState(p) ==
    /\ proc[p] = "remove"
    /\ file' = NoFile
    /\ Go(p, "release")
    /\ Forget
    /\ UNCHANGED <<lock, listener, state, config, reported>>

\* ... and release the lock.
ReleaseLock(p) ==
    /\ proc[p] = "release"
    /\ lock' = IF lock = p THEN NoProc ELSE lock
    /\ End(p)
    /\ UNCHANGED <<file, listener, primary, config, outcome>>

\* The process dies.
Crash(p) ==
    /\ proc[p] # "off"
    /\ End(p)
    /\ lock' = IF lock = p THEN NoProc ELSE lock
    /\ listener' = [a \in Ports |-> IF listener[a] = p THEN NoProc ELSE listener[a]]
    /\ IF proc[p] \in PrimarySteps THEN Forget ELSE UNCHANGED <<primary, fate>>
    /\ UNCHANGED <<file, config, reported>>

-----------------------------------------------------------------------------
(* Forwarding. *)

Report(q, what) ==
    /\ reported' = [reported EXCEPT ![q] = what]
    /\ End(q)

\* readActivationState: there may be no file, or one that is being written.
ReadState(q) ==
    /\ proc[q] = "read"
    /\ \/ /\ file \in {NoFile, Partial}
          /\ Report(q, "failed")
       \/ /\ file \notin {NoFile, Partial}
          /\ state' = [state EXCEPT ![q] = file]
          /\ Go(q, "post") /\ UNCHANGED reported
    /\ UNCHANGED <<system, primary, config, fate>>

\* The request reaches the process on that port, which checks the token. Nobody,
\* or another program, may listen there.
Post(q) ==
    /\ proc[q] = "post"
    /\ LET p == listener[state[q].port] IN
       IF p # NoProc /\ state[p].token = state[q].token
       THEN /\ inbox' = inbox \cup {q}
            /\ fate' = [fate EXCEPT ![q] = "handler"]
            /\ Go(q, "wait") /\ UNCHANGED <<reported, state>>
       ELSE Report(q, "failed") /\ UNCHANGED <<inbox, fate>>
    /\ UNCHANGED <<system, channel, queue, deferred, settings, config>>

\* The forwarder waits two seconds, or the connection breaks.
GiveUp(q) ==
    /\ proc[q] = "wait"
    /\ Report(q, "failed")
    /\ UNCHANGED <<system, primary, config, fate>>

\* The handler puts the batch into the channel, waiting while it is full, and
\* answers the forwarder if that is still there.
HandleRequest(q) ==
    /\ q \in inbox /\ Len(channel) < Capacity
    /\ inbox' = inbox \ {q}
    /\ channel' = Append(channel, q)
    /\ fate' = [fate EXCEPT ![q] = "queued"]
    /\ IF proc[q] = "wait" THEN Report(q, "delivered")
                           ELSE UNCHANGED <<proc, state, reported>>
    /\ UNCHANGED <<system, queue, deferred, settings, config>>

-----------------------------------------------------------------------------
(* The UI of the primary process. *)

UIRuns == \E p \in Procs : proc[p] = "ui"

\* The goroutine of Run that drains the channel.
Drain ==
    /\ UIRuns /\ channel # <<>>
    /\ queue' = Append(queue, Head(channel))
    /\ channel' = Tail(channel)
    /\ UNCHANGED <<system, proc, state, inbox, deferred, settings, config, outcome>>

\* Variant: only the first batch is put aside.
InvokeKeepingFirst ==
    /\ UIRuns /\ queue # <<>>
    /\ queue' = Tail(queue)
    /\ \/ /\ setup
          /\ fate' = [fate EXCEPT ![Head(queue)] = "shown"]
          /\ UNCHANGED <<deferred, settings>>
       \/ /\ ~setup
          /\ fate' = [fate EXCEPT ![Head(queue)] = "deferred"]
          /\ deferred' = IF deferred = {} THEN {Head(queue)} ELSE deferred
          /\ settings' = TRUE
    /\ UNCHANGED <<system, proc, state, inbox, channel, config, reported>>

\* handleOrDeferInvocation: show the batch, or put it aside with the others.
Invoke ==
    /\ UIRuns /\ queue # <<>>
    /\ queue' = Tail(queue)
    /\ \/ /\ setup
          /\ fate' = [fate EXCEPT ![Head(queue)] = "shown"]
          /\ UNCHANGED <<deferred, settings>>
       \/ /\ ~setup
          /\ fate' = [fate EXCEPT ![Head(queue)] = "deferred"]
          /\ deferred' = deferred \cup {Head(queue)}
          /\ settings' = TRUE
    /\ UNCHANGED <<system, proc, state, inbox, channel, config, reported>>

\* The user opens or closes the settings window.
OpenOrCloseSettings ==
    /\ UIRuns
    /\ settings' = ~settings
    /\ UNCHANGED <<system, proc, state, inbox, channel, queue, deferred, config, outcome>>

\* Variant: what was put aside is shown, and kept for the next save.
ShowDeferredOnly ==
    /\ fate' = [p \in Procs |-> IF p \in deferred THEN "shown" ELSE fate[p]]
    /\ UNCHANGED deferred

\* handlePendingInvocationAfterConnectionSetup.
ShowDeferred ==
    /\ fate' = [p \in Procs |-> IF p \in deferred THEN "shown" ELSE fate[p]]
    /\ deferred' = {}

\* A save, which stores a URL, stores none or fails; finishSave returns early, with
\* the window open, if changed log settings cannot be applied.
SaveConnection ==
    /\ UIRuns /\ settings
    /\ setup' \in BOOLEAN /\ cut' \in BOOLEAN
    /\ settings' = cut'
    /\ IF setup' /\ ~cut' THEN ShowDeferred ELSE UNCHANGED <<deferred, fate>>
    /\ UNCHANGED <<system, proc, state, inbox, channel, queue, reported>>

-----------------------------------------------------------------------------

PrimaryStep(p) ==
    \/ Listen(p) \/ TruncateState(p) \/ WriteState(p) \/ RunUI(p)
    \/ Shutdown(p) \/ RemoveState(p) \/ ReleaseLock(p)

ForwardStep(q) == ReadState(q) \/ Post(q) \/ HandleRequest(q)

ActivationNext ==
    \/ \E p \in Procs : \/ Launch(p) \/ AcquireLock(p)
                        \/ PrimaryStep(p) \/ Quit(p) \/ Crash(p)
                        \/ ForwardStep(p) \/ GiveUp(p)
    \/ Drain \/ Invoke \/ OpenOrCloseSettings \/ SaveConnection

\* The processes and goroutines run. Nothing is assumed of the user.
ActivationFairness ==
    /\ \A p \in Procs : WF_activationVars(PrimaryStep(p))
    /\ \A p \in Procs : WF_activationVars(ForwardStep(p))
    /\ WF_activationVars(Drain) /\ WF_activationVars(Invoke)

ActivationSpec ==
    ActivationInit /\ [][ActivationNext]_activationVars /\ ActivationFairness

-----------------------------------------------------------------------------
(* Properties. *)

Reports == {"nothing", "failed", "delivered"}
Fates   == {"none", "handler", "queued", "deferred", "shown", "lost"}

\* The variables keep their types, and a batch is where its fate says.
ActivationTypeOK ==
    /\ lock \in Procs \cup {NoProc}
    /\ file \in {NoFile, Partial} \/ file \in [port : Ports, token : Tokens]
    /\ listener \in [Ports -> Procs \cup {NoProc}]
    /\ proc \in [Procs -> Steps] /\ state \in [Procs -> [port : Ports, token : Tokens]]
    /\ inbox = {p \in Procs : fate[p] = "handler"}
    /\ deferred = {p \in Procs : fate[p] = "deferred"}
    /\ channel \in Seq(Procs) /\ Len(channel) <= Capacity /\ queue \in Seq(Procs)
    /\ settings \in BOOLEAN /\ setup \in BOOLEAN /\ cut \in BOOLEAN
    /\ reported \in [Procs -> Reports] /\ fate \in [Procs -> Fates]

\* main, ActivationServer.Close: a running instance stays reachable. The state
\* file names its port and token, and it listens there, whichever processes have
\* crashed, quit or failed to start around it; so no stale file and no late
\* removal by a process that is ending cuts it off.
RunningIsReachable ==
    \A p \in Procs :
        proc[p] \in {"starting", "ui"} =>
            lock = p /\ file = state[p] /\ listener[state[p].port] = p

\* ForwardActivation, handleOrDeferInvocation: no batch gets stuck. One that was
\* taken over, and so every one reported as delivered, is shown sooner or later
\* unless the instance that took it ends; what is put aside before the connection
\* is set up is shown by the save that does so. (A save cut short by its log
\* settings leaves it waiting for the next one.)
DeliveredIsShown ==
    \A q \in Procs :
        /\ [](reported[q] = "delivered" => fate[q] # "none")
        /\ []<>(/\ fate[q] \notin {"handler", "queued"}
               /\ fate[q] = "deferred" => ~setup \/ cut)
=================================================================================
