\* A signal while the excepthook runs.
SPECIFICATION Spec
CONSTANTS
    GRACEFUL = graceful
    CRASH = crash
    Signals = {SIGTERM}
    Interrupting = {}
    Placements = {TRUE}
    ServerFirst = FALSE
INVARIANT
    CrashSaysCrash
\* The process may be over.
CHECK_DEADLOCK FALSE
