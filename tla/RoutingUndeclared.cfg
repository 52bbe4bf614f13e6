\* Strict mode and an allow-list for a stream the event does not name.
SPECIFICATION Spec
CONSTANTS
    t1 = t1
    t2 = t2
    t3 = t3
    Threads = {t1}
    MaxEmits = 1
    Catalogue <- MCUndeclared
    Loggers <- MCLoggers
    Payloads <- MCPayloads
    ContextFields = {"ip", "tenant"}
    AlwaysKept = {"ip"}
    Bound = {"ip", "tenant"}
    ReservedFields = {"message"}
    logger_root <- MCRoot
    loglevel = 20
    console_streams = {"app", "siem", "debug"}
    syslog_streams = {"app", "siem", "public_inspect", "debug"}
    syslog_path = TRUE
SYMMETRY Symmetry
INVARIANT
    StrictNothingLost
\* The threads are done when each has emitted MaxEmits times.
CHECK_DEADLOCK FALSE
