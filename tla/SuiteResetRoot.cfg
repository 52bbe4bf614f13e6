\* The root is reset after a renamed one was configured, and a capture opened.
SPECIFICATION Spec
CONSTANTS
    None = None
    NotEvent = NotEvent
    Loggers = {"root", "app", "app.api", "svc", "inject", "uvicorn", "uvicorn.error", "uvicorn.access"}
    ROOT = "root"
    Lineage <- MCLineage
    Roots = {"app", "svc"}
    DEFAULT_LOGGER_ROOT = "app"
    RecordLevels = {20}
    Calls = {"renamed"}
    Args <- MCArgs
    StandardFields = {"ip"}
    ReservedFields = {"message"}
    Levels = {10, 20, 40}
    CaptureIds = {k1, k2, k3}
    LoggerNames <- MCLoggerNames
    CaptureLevels = {10, 40}
    Sources = {"app.api", "inject"}
INVARIANT CaptureDetaches
