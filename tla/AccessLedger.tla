----------------------------- MODULE AccessLedger -----------------------------
(****************************************************************************)
(* What RequestContextMiddleware promises of the access log, without how:   *)
(* every request it hands to the application gets exactly one entry (none   *)
(* when access logging is off), the entry is written before the client is   *)
(* answered, and an answer the application gave is the one the entry names. *)
(* A request that fails before the application is called has no entry.      *)
(****************************************************************************)
EXTENDS Naturals, Sequences

CONSTANTS
    Requests,
    Logged,        \* access logging is on
    Statuses,      \* what the application may answer
    ErrorStatus    \* what the exception handler answers

None == 0          \* no status: not answered, or an entry without a response

VARIABLES
    stage,         \* stage[r]: "waiting" for the application, "open" or "closed"
    entries,       \* entries[r]: the statuses entered for r
    answered       \* answered[r]: the status the client got

ledgerVars == <<stage, entries, answered>>

Init ==
    /\ stage = [r \in Requests |-> "waiting"]
    /\ entries = [r \in Requests |-> <<>>]
    /\ answered = [r \in Requests |-> None]

\* The application is called.
Open(r) ==
    /\ stage[r] = "waiting"
    /\ stage' = [stage EXCEPT ![r] = "open"]
    /\ UNCHANGED <<entries, answered>>

\* The request fails before the application is called.
Drop(r) ==
    /\ stage[r] = "waiting"
    /\ stage' = [stage EXCEPT ![r] = "closed"]
    /\ UNCHANGED <<entries, answered>>

\* The call is over, with the status of a response or with none.
Close(r, status) ==
    /\ stage[r] = "open"
    /\ stage' = [stage EXCEPT ![r] = "closed"]
    /\ entries' = [entries EXCEPT ![r] = IF Logged THEN <<status>> ELSE @]
    /\ UNCHANGED answered

\* The client is answered, once: as the entry says or with the error response.
Answer(r, status) ==
    /\ stage[r] = "closed" /\ answered[r] = None
    /\ status = ErrorStatus \/ (Logged => entries[r] = <<status>>)
    /\ answered' = [answered EXCEPT ![r] = status]
    /\ UNCHANGED <<stage, entries>>

Next == \E r \in Requests :
    \/ Open(r) \/ Drop(r)
    \/ \E status \in Statuses \cup {None} : Close(r, status)
    \/ \E status \in Statuses \cup {ErrorStatus} : Answer(r, status)

Spec == Init /\ [][Next]_ledgerVars

\* An opened entry is closed.
FairSpec ==
    /\ Spec
    /\ \A r \in Requests :
           WF_ledgerVars(\E status \in Statuses \cup {None} : Close(r, status))
================================================================================
