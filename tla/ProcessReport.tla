----------------------------- MODULE ProcessReport -----------------------------
(****************************************************************************)
(* What the lifecycle records of a process promise, without the signal      *)
(* handlers, the server and the two reads of the reason behind them: a      *)
(* lifespan is reported when it starts and when it ends, or its end is left *)
(* to a crash that was seen, which is reported once; and no record gives a  *)
(* reason that nothing in the process accounts for.                         *)
(****************************************************************************)
EXTENDS Sequences

CONSTANTS
    Signals, GRACEFUL, CRASH,
    MayLose           \* an interrupt may take the crash record away

VARIABLES
    inline,           \* the lifespan is the main thread's, as the crash is
    lifespan,         \* "before", "open" or "closed"
    crash,            \* "none", "seen", then "told" or "lost"
    records           \* what was reported

reportVars == <<inline, lifespan, crash, records>>

Init ==
    /\ inline \in BOOLEAN
    /\ lifespan = "before" /\ crash = "none" /\ records = <<>>

\* Why the process stops, as far as it is known.
Accounted == Signals \cup {IF crash = "none" THEN GRACEFUL ELSE CRASH}

Enter(event, r) == records' = Append(records, [event |-> event, reason |-> r])

\* (The reason is not part of a started record.)
Start(r) ==
    /\ lifespan = "before" /\ lifespan' = "open"
    /\ Enter("STARTED", r)
    /\ UNCHANGED <<inline, crash>>

Stop(r) ==
    /\ lifespan = "open" /\ lifespan' = "closed"
    /\ r \in Accounted /\ Enter("STOPPED", r)
    /\ UNCHANGED <<inline, crash>>

\* The lifespan ends without a record, since there is a crash.
Defer ==
    /\ lifespan = "open" /\ lifespan' = "closed"
    /\ crash # "none"
    /\ UNCHANGED <<inline, crash, records>>

\* An exception leaves the main thread, not past an open lifespan of its own.
See ==
    /\ crash = "none" /\ crash' = "seen"
    /\ inline => lifespan # "open"
    /\ UNCHANGED <<inline, lifespan, records>>

Tell(r) ==
    /\ crash = "seen" /\ crash' = "told"
    /\ r \in Accounted /\ Enter("CRASHED", r)
    /\ UNCHANGED <<inline, lifespan>>

Lose ==
    /\ MayLose
    /\ crash = "seen" /\ crash' = "lost"
    /\ UNCHANGED <<inline, lifespan, records>>

Next ==
    \/ \E r \in Signals \cup {GRACEFUL, CRASH} : Start(r) \/ Stop(r) \/ Tell(r)
    \/ Defer \/ See \/ Lose

Spec == Init /\ [][Next]_reportVars
================================================================================
