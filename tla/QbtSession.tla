------------------------------- MODULE QbtSession -------------------------------
(***************************************************************************)
(* The session of the qBittorrent client. The poll loop, the fetches of    *)
(* the details panel, the add dialogs and the actions of the user share    *)
(* one Client: its cookie jar, and the flag authenticated, which says that *)
(* the jar holds a session.                                                *)
(*                                                                         *)
(* A call of any method takes the steps of this model: it authenticates if *)
(* needed, with mu held across the check, the login and the update of the  *)
(* flag; it is sent with the cookie the jar holds then; the server answers *)
(* by the sessions it knows when the request arrives; and an answer that   *)
(* denies authentication drops the flag under mu, whenever it comes in.    *)
(*                                                                         *)
(* The server is external: it may drop sessions, and some servers drop the *)
(* previous session of a user at a login. A session is a model value, and  *)
(* ids come back into use once no one refers to them any more.             *)
(***************************************************************************)
EXTENDS Naturals

CONSTANTS
    Callers,    \* the goroutines that use the client
    Sessions,   \* session ids of the server
    NoSession,  \* the cookie jar is empty
    NoCaller    \* mu is free

ASSUME CallersAssumption == NoCaller \notin Callers
ASSUME SessionsAssumption == NoSession \notin Sessions

VARIABLES
    apiKey,     \* the client authenticates with an API key
    keeps,      \* the server keeps the other sessions of a user at a login
    known,      \* the sessions the server knows
    calm,       \* no session, request or answer is lost from now on
    jar,        \* the session cookie of the jar
    authenticated,
    mu,         \* the caller that holds Client.mu
    call,       \* the call each caller is in
    logins,     \* logins the server has carried out, counted up to 2
    disturbed   \* a session, a request or an answer has been lost or refused

server      == <<apiKey, keeps, known, calm>>
history     == <<logins, disturbed>>
sessionVars == <<server, jar, authenticated, mu, call, history>>

\* The methods differ in the statuses they take for success: those that read, ...
ReadStatuses == {200}

\* ... those that act on torrents, ...
PostStatuses == {200, 204}

\* ... and AddTorrent.
AddStatuses == {200, 202}

Accepted == [read |-> ReadStatuses, post |-> PostStatuses, add |-> AddStatuses]
Kinds    == DOMAIN Accepted

Denied   == {401, 403}
Statuses == (UNION {Accepted[k] : k \in Kinds}) \cup Denied \cup {500}

Call == [at : {"idle", "authenticate", "login", "send", "sent", "answered"},
         kind : Kinds, cookie : Sessions \cup {NoSession}, status : Statuses \cup {0}]

NoCall == [at |-> "idle", kind |-> "read", cookie |-> NoSession, status |-> 0]

SessionInit ==
    /\ apiKey \in BOOLEAN /\ keeps \in BOOLEAN /\ calm \in BOOLEAN
    /\ known = {} /\ jar = NoSession /\ authenticated = FALSE
    /\ mu = NoCaller
    /\ call = [c \in Callers |-> NoCall]
    /\ logins = 0 /\ disturbed = FALSE

\* The sessions a request may still carry. The others play no part any more.
InUse  == {jar} \cup {call[c].cookie : c \in Callers}
Unused == Sessions \ InUse

MoveTo(c, at) == call' = [call EXCEPT ![c] = [call[c] EXCEPT !.at = at]]
Return(c)     == call' = [call EXCEPT ![c] = NoCall]

-----------------------------------------------------------------------------
(* A call. *)

\* A method is called. An action on no torrents, and suggestions for a path
\* without a directory, return at once and are left out.
BeginCall(c) ==
    /\ call[c].at = "idle"
    /\ \E kind \in Kinds :
          call' = [call EXCEPT ![c] = [NoCall EXCEPT !.at = "authenticate",
                                                     !.kind = kind]]
    /\ UNCHANGED <<server, jar, authenticated, mu, history>>

\* Variant: the flag is read under the lock, the login made without it.
EnsureAuthenticatedUnlocked(c) ==
    /\ call[c].at = "authenticate"
    /\ MoveTo(c, IF apiKey \/ authenticated THEN "send" ELSE "login")
    /\ UNCHANGED <<server, jar, authenticated, mu, history>>

\* ensureAuthenticated: nothing to do with an API key; otherwise wait for mu,
\* and keep it for a login if there is no session.
EnsureAuthenticated(c) ==
    /\ call[c].at = "authenticate"
    /\ \/ apiKey /\ MoveTo(c, "send") /\ UNCHANGED mu
       \/ /\ ~apiKey /\ mu = NoCaller
          /\ \/ authenticated /\ MoveTo(c, "send") /\ UNCHANGED mu
             \/ ~authenticated /\ MoveTo(c, "login") /\ mu' = c
    /\ UNCHANGED <<server, jar, authenticated, history>>

Unlock(c) == mu' = IF mu = c THEN NoCaller ELSE mu

\* auth/login succeeds: the server opens a session, and the answer puts it into
\* the jar.
Login(c) ==
    /\ call[c].at = "login"
    /\ \E s \in Unused :
          /\ known' = (IF keeps THEN known \cap InUse ELSE {}) \cup {s}
          /\ jar' = s
    /\ authenticated' = TRUE
    /\ logins' = IF logins < 2 THEN logins + 1 ELSE logins
    /\ MoveTo(c, "send") /\ Unlock(c)
    /\ UNCHANGED <<apiKey, keeps, calm, disturbed>>

\* It fails: the server refuses, is not reached, or its answer is lost after it
\* has opened a session.
LoginFails(c) ==
    /\ call[c].at = "login" /\ ~calm
    /\ \/ UNCHANGED <<known, logins>>
       \/ /\ known' = IF keeps THEN known ELSE {}
          /\ logins' = IF logins < 2 THEN logins + 1 ELSE logins
    /\ disturbed' = TRUE
    /\ Return(c) /\ Unlock(c)
    /\ UNCHANGED <<apiKey, keeps, calm, jar, authenticated>>

\* execute: the request leaves with the cookie of the jar.
Send(c) ==
    /\ call[c].at = "send"
    /\ call' = [call EXCEPT ![c] = [call[c] EXCEPT !.at = "sent", !.cookie = jar]]
    /\ UNCHANGED <<server, jar, authenticated, mu, history>>

\* The body of torrents/add cannot be built: the torrent file is gone.
BuildFails(c) ==
    /\ call[c].at = "send" /\ call[c].kind = "add"
    /\ Return(c)
    /\ UNCHANGED <<server, jar, authenticated, mu, history>>

\* The server answers: with success or an error of its own if it knows the
\* session, with a denial otherwise. It judges API keys as it likes.
Answer(c) ==
    /\ call[c].at = "sent"
    /\ \E status \in Accepted[call[c].kind] \cup Denied \cup {500} :
          /\ apiKey \/ (status \in Denied <=> call[c].cookie \notin known)
          /\ call' = [call EXCEPT ![c] = [call[c] EXCEPT !.at = "answered",
                                                         !.cookie = NoSession,
                                                         !.status = status]]
    /\ UNCHANGED <<server, jar, authenticated, mu, history>>

\* The request or the answer is lost, or the deadline of the caller passes.
RequestFails(c) ==
    /\ call[c].at \in {"sent", "answered"} /\ ~calm
    /\ Return(c)
    /\ disturbed' = TRUE
    /\ UNCHANGED <<server, jar, authenticated, mu, logins>>

\* Variant: only 401 drops the session; qBittorrent denies with 403.
InvalidatesOn401(c) == ~apiKey /\ call[c].status = 401

\* invalidateSessionOnAuthFailure: which answers drop the session.
Invalidates(c) ==
    /\ ~apiKey
    /\ call[c].status \in Denied \ Accepted[call[c].kind]

\* The answer comes in.
Receive(c) ==
    /\ call[c].at = "answered"
    /\ \/ ~Invalidates(c) /\ UNCHANGED authenticated
       \/ Invalidates(c) /\ mu = NoCaller /\ authenticated' = FALSE
    /\ Return(c)
    /\ UNCHANGED <<server, jar, mu, history>>

CallStep(c) ==
    \/ EnsureAuthenticated(c) \/ Login(c) \/ LoginFails(c)
    \/ Send(c) \/ BuildFails(c) \/ Answer(c) \/ RequestFails(c) \/ Receive(c)

-----------------------------------------------------------------------------
(* The server. *)

\* A session ends: it expires, or the server restarts.
Expire ==
    /\ ~calm
    /\ \E s \in known : known' = known \ {s}
    /\ disturbed' = TRUE
    /\ UNCHANGED <<apiKey, keeps, calm, jar, authenticated, mu, call, logins>>

\* From now on the server keeps its sessions and the network works.
CalmDown ==
    /\ ~calm /\ calm' = TRUE
    /\ UNCHANGED <<apiKey, keeps, known, jar, authenticated, mu, call, history>>

SessionNext ==
    \/ \E c \in Callers : BeginCall(c) \/ CallStep(c)
    \/ Expire \/ CalmDown

\* Requests are bounded by a timeout, and sync.Mutex lets every waiter through.
SessionFairness == \A c \in Callers : SF_sessionVars(CallStep(c))

SessionSpec == SessionInit /\ [][SessionNext]_sessionVars /\ SessionFairness

-----------------------------------------------------------------------------
(* Properties. *)

\* The variables keep their types; mu is held exactly during a login.
SessionTypeOK ==
    /\ apiKey \in BOOLEAN /\ keeps \in BOOLEAN /\ calm \in BOOLEAN
    /\ known \subseteq Sessions /\ jar \in Sessions \cup {NoSession}
    /\ authenticated \in BOOLEAN /\ mu \in Callers \cup {NoCaller}
    /\ call \in [Callers -> Call]
    /\ \A c \in Callers : mu = c <=> call[c].at = "login"
    /\ logins \in 0 .. 2 /\ disturbed \in BOOLEAN

\* ensureAuthenticated: goroutines that share the client make one login instead
\* of racing each other into logins that end each other's sessions. As long as
\* nothing is lost, the server carries out one login and denies no request of it.
LoginIsSingleFlight ==
    ~disturbed /\ ~apiKey
        => /\ logins <= 1
           /\ \A c \in Callers : call[c].status \notin Denied

\* invalidateSessionOnAuthFailure: a lost session is replaced, also when the
\* denials of requests sent with it come in after the new login. Once nothing
\* more is lost, and if logins leave other sessions alone, denials end.
SelfHeals ==
    (keeps /\ ~apiKey /\ <>[]calm)
        => <>[](\A c \in Callers : call[c].status \notin Denied)
=================================================================================
