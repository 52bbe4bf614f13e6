\* Two requests interleave in two server tasks; the handler is not decorated.
SPECIFICATION Spec
CONSTANTS
    r1 = r1
    r2 = r2
    w1 = w1
    w2 = w2
    Requests = {r1, r2}
    Servers = {w1, w2}
    ServerOf <- MCTwoTasks
    Captured = {r2}
    CorrelationOf <- MCCorrelationOf
    StampedId <- MCStampedId
    FirstId = 3
    Tenants = {1}
    Statuses = {200}
    ErrorStatus = 500
    ReuseStateId = FALSE
    CorrelationExpected = TRUE
    AccessLogs = FALSE
    Decorated = FALSE
    MaxUpdates <- MCFlat
INVARIANTS
    ContextIsolation
    ContextTornDown
\* Every request may be over.
CHECK_DEADLOCK FALSE
