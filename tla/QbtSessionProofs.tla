---------------------------- MODULE QbtSessionProofs -----------------------------
(***************************************************************************)
(* Proofs about QbtSession for every set of callers and of session ids, a  *)
(* server that keeps the other sessions at a login or drops them, and any  *)
(* number of requests under way.                                           *)
(***************************************************************************)
EXTENDS QbtSession, TLAPS

USE CallersAssumption, SessionsAssumption

-----------------------------------------------------------------------------
(* Calls. *)

LEMMA CallTypes ==
    /\ NoCall \in Call
    /\ \A r \in Call, at \in {"idle", "authenticate", "login", "send", "sent", "answered"} :
          [r EXCEPT !.at = at] \in Call
    /\ \A r \in Call, k \in Kinds : [r EXCEPT !.at = "authenticate", !.kind = k] \in Call
    /\ \A r \in Call, s \in Sessions \cup {NoSession} :
          [r EXCEPT !.at = "sent", !.cookie = s] \in Call
    /\ \A r \in Call, status \in Statuses :
          [r EXCEPT !.at = "answered", !.cookie = NoSession, !.status = status] \in Call
<1>1. "read" \in Kinds
  BY DEF Kinds, Accepted
<1> QED
  BY <1>1 DEF NoCall, Call

\* What an answer may say: the statuses a method takes for success, denials, and
\* errors of the server.
LEMMA AnswerTypes ==
    ASSUME NEW k \in Kinds
    PROVE  Accepted[k] \cup Denied \cup {500} \subseteq Statuses
<1>1. Accepted[k] \in {Accepted[j] : j \in Kinds}
  OBVIOUS
<1>2. Accepted[k] \subseteq UNION {Accepted[j] : j \in Kinds}
  BY <1>1, Zenon
<1> DEFINE U == UNION {Accepted[j] : j \in Kinds}
<1>3. Statuses = U \cup Denied \cup {500}
  BY Zenon DEF Statuses
<1> HIDE DEF U
<1>4. Accepted[k] \subseteq U
  BY <1>2 DEF U
<1> QED
  BY <1>3, <1>4

\* What a call is after the steps that change more than one of its fields.
LEMMA AnsweredCall ==
    ASSUME NEW r \in Call, NEW status
    PROVE  LET a == [r EXCEPT !.at = "answered", !.cookie = NoSession, !.status = status]
           IN  a.at = "answered" /\ a.status = status
BY DEF Call

\* A caller that is in no call holds no lock and has no answer.
LEMMA NoCallIsIdle == NoCall.at = "idle" /\ NoCall.status = 0 /\ 0 \notin Denied
BY DEF NoCall, Denied

\* What a method starts its call with.
LEMMA BegunCall ==
    ASSUME NEW k \in Kinds
    PROVE  /\ [NoCall EXCEPT !.at = "authenticate", !.kind = k].at = "authenticate"
           /\ [NoCall EXCEPT !.at = "authenticate", !.kind = k].status = 0
BY DEF NoCall

-----------------------------------------------------------------------------
(* Types, and the lock: a caller holds mu exactly during its login. *)

LEMMA SessionTypeInit == SessionInit => SessionTypeOK
<1> SUFFICES ASSUME SessionInit
             PROVE  SessionTypeOK
  OBVIOUS
<1>1. \A c \in Callers : call[c] = NoCall
  BY DEF SessionInit
<1>2. call \in [Callers -> Call]
  BY CallTypes DEF SessionInit
<1>3. \A c \in Callers : mu = c <=> call[c].at = "login"
  BY <1>1, NoCallIsIdle DEF SessionInit
<1>4. /\ known \subseteq Sessions /\ jar \in Sessions \cup {NoSession}
      /\ mu \in Callers \cup {NoCaller} /\ logins \in 0 .. 2
  BY DEF SessionInit
<1>5. /\ apiKey \in BOOLEAN /\ keeps \in BOOLEAN /\ calm \in BOOLEAN
      /\ authenticated \in BOOLEAN /\ disturbed \in BOOLEAN
  BY Zenon DEF SessionInit
<1> QED
  BY <1>2, <1>3, <1>4, <1>5, Zenon DEF SessionTypeOK

\* A step of caller c keeps the types if its new call is one, and if it takes or
\* gives up mu with its login.
LEMMA TypeOfStep ==
    ASSUME SessionTypeOK, NEW c \in Callers, NEW r \in Call,
           call' = [call EXCEPT ![c] = r],
           \/ mu' = mu /\ (mu = c <=> r.at = "login")
           \/ mu = NoCaller /\ mu' = c /\ r.at = "login"
           \/ mu = c /\ mu' = NoCaller /\ r.at # "login"
    PROVE  /\ call' \in [Callers -> Call]
           /\ mu' \in Callers \cup {NoCaller}
           /\ \A d \in Callers : mu' = d <=> call'[d].at = "login"
BY DEF SessionTypeOK

LEMMA SessionTypeCall ==
    ASSUME SessionTypeOK, NEW c \in Callers, BeginCall(c) \/ CallStep(c)
    PROVE  SessionTypeOK'
<1> USE DEF SessionTypeOK, server, history, MoveTo, Return, Unlock
<1>1. call[c] \in Call /\ (mu = c <=> call[c].at = "login")
  OBVIOUS
<1>2. CASE BeginCall(c)
  <2>1. PICK k \in Kinds :
          call' = [call EXCEPT ![c] = [NoCall EXCEPT !.at = "authenticate", !.kind = k]]
    BY <1>2 DEF BeginCall
  <2> DEFINE r == [NoCall EXCEPT !.at = "authenticate", !.kind = k]
  <2>2. r \in Call /\ r.at = "authenticate"
    BY CallTypes, BegunCall
  <2> HIDE DEF r
  <2>3. mu' = mu /\ mu # c
    BY <1>1, <1>2 DEF BeginCall
  <2>4. call' = [call EXCEPT ![c] = r]
    BY <2>1 DEF r
  <2> QED
    BY <1>2, <2>2, <2>3, <2>4, TypeOfStep DEF BeginCall
<1>3. CASE EnsureAuthenticated(c)
  <2>1. PICK at \in {"send", "login"} :
          /\ call' = [call EXCEPT ![c] = [call[c] EXCEPT !.at = at]]
          /\ \/ at = "send" /\ mu' = mu
             \/ at = "login" /\ mu = NoCaller /\ mu' = c
    <3>1. CASE call' = [call EXCEPT ![c] = [call[c] EXCEPT !.at = "send"]] /\ mu' = mu
      BY <3>1
    <3>2. CASE /\ call' = [call EXCEPT ![c] = [call[c] EXCEPT !.at = "login"]]
               /\ mu = NoCaller /\ mu' = c
      BY <3>2
    <3>3. \/ MoveTo(c, "send") /\ UNCHANGED mu
          \/ MoveTo(c, "login") /\ mu = NoCaller /\ mu' = c
      BY <1>3 DEF EnsureAuthenticated
    <3> QED
      BY <3>1, <3>2, <3>3
  <2> DEFINE r == [call[c] EXCEPT !.at = at]
  <2>2. r \in Call /\ r.at = at
    <3>1. at \in {"idle", "authenticate", "login", "send", "sent", "answered"}
      OBVIOUS
    <3>2. r \in Call
      BY <1>1, <3>1, CallTypes
    <3>3. r.at = at
      BY <1>1 DEF Call
    <3> QED
      BY <3>2, <3>3
  <2> HIDE DEF r
  <2>3. mu # c
    BY <1>1, <1>3 DEF EnsureAuthenticated
  <2>4. call' = [call EXCEPT ![c] = r]
    BY <2>1 DEF r
  <2> QED
    BY <1>3, <2>1, <2>2, <2>3, <2>4, TypeOfStep DEF EnsureAuthenticated
<1>4. CASE Login(c)
  <2> DEFINE r == [call[c] EXCEPT !.at = "send"]
  <2>1. r \in Call /\ r.at = "send"
    BY <1>1, CallTypes DEF Call
  <2> HIDE DEF r
  <2>2. mu = c /\ mu' = NoCaller
    BY <1>1, <1>4 DEF Login
  <2>3. call' = [call EXCEPT ![c] = r]
    BY <1>4 DEF Login, r
  <2>4. known' \subseteq Sessions /\ jar' \in Sessions /\ logins' \in 0 .. 2
    BY <1>4 DEF Login, Unused
  <2> QED
    BY <1>4, <2>1, <2>2, <2>3, <2>4, TypeOfStep DEF Login
<1>5. CASE LoginFails(c)
  <2>1. NoCall \in Call /\ NoCall.at # "login"
    BY CallTypes DEF NoCall
  <2>2. mu = c /\ mu' = NoCaller /\ call' = [call EXCEPT ![c] = NoCall]
    BY <1>1, <1>5 DEF LoginFails
  <2>3. known' \subseteq Sessions /\ logins' \in 0 .. 2
    BY <1>5 DEF LoginFails
  <2> QED
    BY <1>5, <2>1, <2>2, <2>3, TypeOfStep DEF LoginFails
<1>6. CASE Send(c)
  <2> DEFINE r == [call[c] EXCEPT !.at = "sent", !.cookie = jar]
  <2>0. call[c] \in Call /\ jar \in Sessions \cup {NoSession}
    BY <1>1
  <2>1. r \in Call /\ r.at = "sent"
    <3>1. r \in Call
      BY <2>0, CallTypes, Zenon
    <3>2. r.at = "sent"
      BY <2>0 DEF Call
    <3> QED
      BY <3>1, <3>2
  <2> HIDE DEF r
  <2>2. mu' = mu /\ mu # c /\ call' = [call EXCEPT ![c] = r]
    BY <1>1, <1>6 DEF Send, r
  <2> QED
    BY <1>6, <2>1, <2>2, TypeOfStep DEF Send
<1>7. CASE Answer(c)
  <2>0. call[c].kind \in Kinds
    BY <1>1 DEF Call
  <2>1. PICK status \in Statuses :
          call' = [call EXCEPT ![c] = [call[c] EXCEPT !.at = "answered",
                                         !.cookie = NoSession, !.status = status]]
    <3>1. Accepted[call[c].kind] \cup Denied \cup {500} \subseteq Statuses
      BY <2>0, AnswerTypes
    <3> QED
      BY <1>7, <3>1, Zenon DEF Answer
  <2> DEFINE r == [call[c] EXCEPT !.at = "answered", !.cookie = NoSession,
                                  !.status = status]
  <2>2. r \in Call /\ r.at = "answered"
    <3>1. call[c] \in Call
      BY <1>1
    <3>2. r \in Call
      BY <2>1, <3>1, CallTypes, Zenon
    <3>3. r.at = "answered"
      BY <3>1 DEF Call
    <3> QED
      BY <3>2, <3>3
  <2> HIDE DEF r
  <2>3. mu' = mu /\ mu # c /\ call' = [call EXCEPT ![c] = r]
    BY <1>1, <1>7, <2>1 DEF Answer, r
  <2> QED
    BY <1>7, <2>2, <2>3, TypeOfStep DEF Answer
<1>8. CASE BuildFails(c) \/ RequestFails(c) \/ Receive(c)
  <2>1. NoCall \in Call /\ NoCall.at # "login"
    BY CallTypes DEF NoCall
  <2>2. mu' = mu /\ mu # c /\ call' = [call EXCEPT ![c] = NoCall]
    BY <1>1, <1>8 DEF BuildFails, RequestFails, Receive
  <2> QED
    BY <1>8, <2>1, <2>2, TypeOfStep DEF BuildFails, RequestFails, Receive
<1> QED
  BY <1>2, <1>3, <1>4, <1>5, <1>6, <1>7, <1>8 DEF CallStep

LEMMA SessionTypeNext == SessionTypeOK /\ [SessionNext]_sessionVars => SessionTypeOK'
<1> SUFFICES ASSUME SessionTypeOK, [SessionNext]_sessionVars
             PROVE  SessionTypeOK'
  OBVIOUS
<1>1. CASE Expire \/ CalmDown
  BY <1>1 DEF Expire, CalmDown, SessionTypeOK, history
<1>2. CASE UNCHANGED sessionVars
  BY <1>2 DEF sessionVars, server, history, SessionTypeOK
<1> QED
  BY <1>1, <1>2, SessionTypeCall DEF SessionNext

\* The variables keep their types and mu is held exactly during a login, for any
\* number of callers.
THEOREM SessionTypeCorrect == SessionSpec => []SessionTypeOK
BY SessionTypeInit, SessionTypeNext, PTL DEF SessionSpec

-----------------------------------------------------------------------------
(* One login. As long as nothing is lost, authenticated says whether the    *)
(* login has been made; before it no request is on its way, and after it    *)
(* every request carries a session the server knows.                        *)

Before == {"idle", "authenticate", "login"}

FlightInv ==
    ~disturbed /\ ~apiKey =>
        /\ authenticated =>
              /\ logins = 1 /\ jar \in known
              /\ \A c \in Callers : /\ call[c].at # "login"
                                    /\ call[c].at = "sent" => call[c].cookie \in known
        /\ ~authenticated =>
              /\ logins = 0
              /\ \A c \in Callers : call[c].at \in Before
        /\ \A c \in Callers : call[c].status \notin Denied

LEMMA FlightInit == SessionInit => FlightInv
BY DEF SessionInit, FlightInv, NoCall, Before, Denied

LEMMA FlightCall ==
    ASSUME SessionTypeOK, FlightInv, NEW c \in Callers, BeginCall(c) \/ CallStep(c)
    PROVE  FlightInv'
<1> SUFFICES ASSUME ~disturbed', ~apiKey'
             PROVE  FlightInv'
  BY DEF FlightInv
<1> USE DEF FlightInv, SessionTypeOK, server, history, MoveTo, Return, Before
<1>1. ~apiKey /\ ~disturbed
  BY DEF BeginCall, CallStep, EnsureAuthenticated, Login, LoginFails, Send, BuildFails,
         Answer, RequestFails, Receive
<1>2. NoCall.at = "idle" /\ NoCall.status \notin Denied
  BY DEF NoCall, Denied
<1>3. CASE BeginCall(c)
  <2>1. call'[c].at = "authenticate" /\ call'[c].status \notin Denied
    <3>1. PICK k \in Kinds :
            call' = [call EXCEPT ![c] = [NoCall EXCEPT !.at = "authenticate", !.kind = k]]
      BY <1>3 DEF BeginCall
    <3> QED
      BY <3>1, BegunCall, NoCallIsIdle
  <2>2. \A d \in Callers \ {c} : call'[d] = call[d]
    BY <1>3 DEF BeginCall
  <2> QED
    BY <1>1, <1>3, <2>1, <2>2 DEF BeginCall
<1>4. CASE EnsureAuthenticated(c)
  <2>1. /\ call'[c].at = IF authenticated THEN "send" ELSE "login"
        /\ call'[c].status = call[c].status
    BY <1>1, <1>4 DEF EnsureAuthenticated, Call
  <2>2. \A d \in Callers \ {c} : call'[d] = call[d]
    BY <1>4 DEF EnsureAuthenticated
  <2> QED
    BY <1>1, <1>4, <2>1, <2>2 DEF EnsureAuthenticated
<1>5. CASE Login(c)
  <2>1. call[c].at = "login" /\ ~authenticated
    BY <1>1, <1>5 DEF Login
  <2>2. call'[c].at = "send" /\ call'[c].status = call[c].status
    BY <1>5 DEF Login, Call
  <2>3. \A d \in Callers \ {c} : call'[d] = call[d]
    BY <1>5 DEF Login
  <2>4. \A d \in Callers \ {c} : call[d].at # "login"
    BY <2>1
  <2>5. authenticated' /\ jar' \in known' /\ logins' = 1
    BY <1>1, <1>5, <2>1 DEF Login
  <2> QED
    BY <1>1, <2>1, <2>2, <2>3, <2>4, <2>5
<1>6. CASE LoginFails(c) \/ RequestFails(c)
  BY <1>6 DEF LoginFails, RequestFails
<1>7. CASE Send(c)
  <2>1. /\ call[c].at = "send" /\ call'[c].at = "sent" /\ call'[c].cookie = jar
        /\ call'[c].status = call[c].status
    BY <1>7 DEF Send, Call
  <2>2. \A d \in Callers \ {c} : call'[d] = call[d]
    BY <1>7 DEF Send
  <2> QED
    BY <1>1, <1>7, <2>1, <2>2 DEF Send
<1>8. CASE BuildFails(c)
  <2>1. call' = [call EXCEPT ![c] = NoCall]
    BY <1>8 DEF BuildFails
  <2> QED
    BY <1>1, <1>2, <1>8, <2>1 DEF BuildFails
<1>9. CASE Answer(c)
  <2>1. PICK status : /\ status \in Denied <=> call[c].cookie \notin known
                      /\ call' = [call EXCEPT ![c] =
                                    [call[c] EXCEPT !.at = "answered",
                                       !.cookie = NoSession, !.status = status]]
    BY <1>1, <1>9, Zenon DEF Answer
  <2>2. call[c].at = "sent" /\ call'[c].at = "answered" /\ call'[c].status = status
    <3>1. call[c] \in Call
      OBVIOUS
    <3>2. call'[c] = [call[c] EXCEPT !.at = "answered", !.cookie = NoSession,
                                     !.status = status]
      BY <2>1
    <3>3. call[c].at = "sent"
      BY <1>9 DEF Answer
    <3> QED
      BY <3>1, <3>2, <3>3, AnsweredCall
  <2>3. \A d \in Callers \ {c} : call'[d] = call[d]
    BY <2>1
  <2> QED
    BY <1>1, <1>9, <2>1, <2>2, <2>3 DEF Answer
<1>10. CASE Receive(c)
  <2>1. call' = [call EXCEPT ![c] = NoCall]
    BY <1>10 DEF Receive
  <2>2. UNCHANGED authenticated
    BY <1>1, <1>10 DEF Receive, Invalidates
  <2> QED
    BY <1>1, <1>2, <1>10, <2>1, <2>2 DEF Receive
<1> QED
  BY <1>3, <1>4, <1>5, <1>6, <1>7, <1>8, <1>9, <1>10 DEF CallStep

LEMMA FlightNext ==
    SessionTypeOK /\ FlightInv /\ [SessionNext]_sessionVars => FlightInv'
<1> SUFFICES ASSUME SessionTypeOK, FlightInv, [SessionNext]_sessionVars
             PROVE  FlightInv'
  OBVIOUS
<1>1. CASE Expire \/ CalmDown
  BY <1>1 DEF Expire, CalmDown, FlightInv, history
<1>2. CASE UNCHANGED sessionVars
  BY <1>2 DEF sessionVars, server, history, FlightInv
<1> QED
  BY <1>1, <1>2, FlightCall DEF SessionNext

\* ensureAuthenticated makes one login for all goroutines that share the client,
\* and no request of theirs is denied, as long as nothing is lost: the lock is held
\* from the check of the flag until it is set, and no request leaves before.
THEOREM FlightCorrect == SessionSpec => []LoginIsSingleFlight
<1>1. FlightInv => LoginIsSingleFlight
  BY DEF FlightInv, LoginIsSingleFlight
<1> QED
  BY SessionTypeInit, SessionTypeNext, FlightInit, FlightNext, <1>1, PTL
  DEF SessionSpec
=================================================================================
