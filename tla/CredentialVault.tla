---------------------------- MODULE CredentialVault -----------------------------
(***************************************************************************)
(* What the storage of credentials promises: where they are, and what the  *)
(* next start of the application would find there, only changes because    *)
(* the user saves, or because an old release's plain text is moved to the  *)
(* keychain unchanged. Crashes, retries, failed writes and whatever else   *)
(* is saved in between are invisible.                                      *)
(***************************************************************************)
CONSTANTS
    Contents,   \* what may be stored, readable or not
    Nothing     \* no credentials

VARIABLES
    place,      \* the storage mode
    secret,     \* what the next start would find
    entered     \* the credentials of the save under way, if there is one

vars == <<place, secret, entered>>

Init ==
    /\ place \in {"", "keychain"} /\ secret \in Contents
    /\ entered = {}

\* The user presses Save, ...
Enter ==
    /\ entered = {}
    /\ \E c \in Contents : entered' = {c}
    /\ UNCHANGED <<place, secret>>

\* ... which stores what was entered, ...
Store ==
    /\ secret' \in entered
    /\ place' \in {"keychain", "plaintext"}
    /\ UNCHANGED entered

\* ... or keeps it for the session only, and drops what was in the file, ...
Drop ==
    /\ entered # {} /\ place # "keychain"
    /\ place' = "none" /\ secret' = Nothing
    /\ UNCHANGED entered

\* ... and ends, with success or not, or with the process.
Leave ==
    /\ entered' = {}
    /\ UNCHANGED <<place, secret>>

\* The migration at a start.
Adopt ==
    /\ place = "" /\ place' = "keychain"
    /\ UNCHANGED <<secret, entered>>

Next == Enter \/ Store \/ Drop \/ Leave \/ Adopt

Spec == Init /\ [][Next]_vars
==================================================================================
