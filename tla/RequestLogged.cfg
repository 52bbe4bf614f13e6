\* The documented promise of one access record per request.
SPECIFICATION Spec
CONSTANTS
    r1 = r1
    r2 = r2
    w1 = w1
    w2 = w2
    Requests = {r1, r2}
    Servers = {w1, w2}
    ServerOf <- MCOneTask
    Captured = {r1}
    CorrelationOf <- MCCorrelationOf
    StampedId <- MCStampedId
    FirstId = 3
    Tenants = {1}
    Statuses = {200}
    ErrorStatus = 500
    ReuseStateId = TRUE
    CorrelationExpected = TRUE
    AccessLogs = TRUE
    Decorated = TRUE
    MaxUpdates <- MCNested
INVARIANT
    EveryRequestLogged
\* Every request may be over.
CHECK_DEADLOCK FALSE
