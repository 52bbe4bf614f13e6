\* A process that configures, captures, logs and resets in any order.
SPECIFICATION Spec
CONSTANTS
    None = None
    NotEvent = NotEvent
    Loggers = {"root", "app", "app.api", "svc", "inject", "uvicorn", "uvicorn.error", "uvicorn.access"}
    ROOT = "root"
    Lineage <- MCLineage
    Roots = {"app", "svc"}
    DEFAULT_LOGGER_ROOT = "app"
    RecordLevels = {20}
    Calls = {"full", "renamed", "taken_back", "no_event", "unset", "reserved", "twice", "bad_root", "bad_stream"}
    Args <- MCArgs
    StandardFields = {"ip"}
    ReservedFields = {"message"}
    Levels = {10, 20, 40}
    CaptureIds = {k1, k2, k3}
    LoggerNames <- MCLoggerNames
    CaptureLevels = {10, 40}
    Sources = {"app.api", "inject"}
SYMMETRY Symmetry
INVARIANTS
    TypeOK
    LibraryCanLog
    ContextOfCatalogue
    MiddlewareServes
    ReportedOutside
    TreeFollowsDocument
    UnwindsInOrder
    NothingLive
    StillAttached
PROPERTIES
    AnswersHold
