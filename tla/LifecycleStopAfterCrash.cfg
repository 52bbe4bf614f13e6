\* A signal after the crash, with the lifespan in a server thread.
SPECIFICATION Spec
CONSTANTS
    GRACEFUL = graceful
    CRASH = crash
    Signals = {SIGTERM}
    Interrupting = {}
    Placements = {FALSE}
    ServerFirst = TRUE
INVARIANT
    NoStopAfterCrash
\* The process may be over.
CHECK_DEADLOCK FALSE
