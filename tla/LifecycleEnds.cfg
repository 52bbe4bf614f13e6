\* The lifespan in the main thread, under a server that captured the signals,
\* and in a server thread next to a main thread that crashes on its own.
SPECIFICATION FairSpec
CONSTANTS
    GRACEFUL = graceful
    CRASH = crash
    Signals = {SIGTERM, SIGINT}
    Interrupting = {SIGINT}
    Placements = {TRUE, FALSE}
    ServerFirst = TRUE
INVARIANTS
    TypeOK
    EventsOnce
    StoppedIsNoCrash
    EndAccounted
PROPERTIES
    StopNamesSignal
    SignalStops
    CrashSilencesStop
    EndReported
    ImplementsReport
\* The process may be over.
CHECK_DEADLOCK FALSE
