----------------------------- MODULE StreamJournal -----------------------------
(****************************************************************************)
(* What emitting an event promises, without the logger tree, the handlers,  *)
(* filters and formatters, and the set of reported loggers between the      *)
(* threads: an accepted call becomes its entries in the journal, all of     *)
(* them at once, no others and no more than that; and where its streams     *)
(* are not watching, its logger is noticed, if need be by another call.     *)
(****************************************************************************)
CONSTANTS
    Calls,        \* the calls an application can make; c.name is the logger
    Entries(_),   \* the entries in the journal a call is due
    Unwatched,    \* the calls whose streams will not see them
    Noticing      \* who is given the notices

VARIABLES
    open,         \* the accepted calls that are not done,
    done,         \*   and those that are
    journal,      \* what was entered
    notices       \* who was given a notice about which logger

journalVars == <<open, done, journal, notices>>

Init == open = {} /\ done = {} /\ journal = {} /\ notices = {}

NoticesOf(name) == Noticing \X {name}

Accept(c) ==
    /\ open' = open \cup {c}
    /\ UNCHANGED <<done, journal, notices>>

Notice(c) ==
    /\ c \in Unwatched
    /\ notices' = notices \cup NoticesOf(c.name)
    /\ UNCHANGED <<open, done, journal>>

\* The notice was given before, unless another call is about to give it.
Settled(c) ==
    \/ NoticesOf(c.name) \subseteq notices
    \/ \E d \in (open \ {c}) \cap Unwatched : d.name = c.name

Enter(c) ==
    /\ c \in Unwatched => Settled(c)
    /\ open' = open \ {c} /\ done' = done \cup {c}
    /\ journal' = journal \cup Entries(c)
    /\ UNCHANGED notices

Next ==
    \/ \E c \in open : Notice(c) \/ Enter(c)
    \/ \E c \in Calls \ (open \cup done) : Accept(c)

Spec == Init /\ [][Next]_journalVars

\* The journal holds what the finished calls are due, and nothing else.
JournalExact == journal = UNION {Entries(c) : c \in done}
================================================================================
