------------------------------- MODULE Background --------------------------------
(***************************************************************************)
(* The services behind the windows, checked in one run: the session of the *)
(* qBittorrent client, the update checks, and the single instance. They    *)
(* share no variable, and none looks at another, so a behaviour of their   *)
(* product is one behaviour of each, and it is enough to run each while    *)
(* the others rest in an initial state. The run starts with the choice.    *)
(***************************************************************************)
EXTENDS QbtSession, UpdateManager, Activation

VARIABLE part      \* the component that runs

vars == <<part, sessionVars, updateVars, activationVars>>

\* The component that runs starts in any of its initial states.
Init ==
    /\ part \in {"session", "updates", "activation"}
    /\ SessionInit    /\ (part # "session" => ~apiKey /\ keeps /\ ~calm)
    /\ UpdateInit     /\ (part # "updates" => latest = 0)
    /\ ActivationInit /\ (part # "activation" => setup)

Session ==
    /\ part = "session" /\ SessionNext
    /\ UNCHANGED <<part, updateVars, activationVars>>

Updates ==
    /\ part = "updates" /\ UpdateNext
    /\ UNCHANGED <<part, sessionVars, activationVars>>

Launches ==
    /\ part = "activation" /\ ActivationNext
    /\ UNCHANGED <<part, sessionVars, updateVars>>

Next == Session \/ Updates \/ Launches

\* Nothing that must happen is enabled in a component that rests.
Spec ==
    /\ Init /\ [][Next]_vars
    /\ SessionFairness /\ UpdateFairness /\ ActivationFairness

\* The variables of the three keep their types, and what they say of one another.
BackgroundTypeOK == SessionTypeOK /\ UpdateTypeOK /\ ActivationTypeOK
==================================================================================
