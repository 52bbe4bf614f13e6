----------------------------- MODULE Configuration -----------------------------
(****************************************************************************)
(* configure() with the registries it fills (registry.py, context.py,       *)
(* events.py, loggers.py), reset_for_tests() and the middleware that holds  *)
(* on to a setting.  configure() may fail between any two of its stages;    *)
(* what it registered before that stays.                                    *)
(****************************************************************************)
EXTENDS LoggerTree

CONSTANTS
    Calls, Args,       \* the calls of configure() and the arguments of each
    None,              \* Python's None
    NotEvent,          \* a class attribute that is not a LogEvent
    StandardFields,    \* names of STANDARD_FIELDS
    ReservedFields,    \* RESERVED_FIELDS
    Levels             \* the level names logging knows

REQUIRED_EVENTS ==
    {"SYS_APP_STARTED", "SYS_APP_STOPPED", "SYS_APP_CRASHED", "SYS_UNHANDLED_EXCEPTION",
     "SYS_MISSING_CORRELATION_ID", "ACCESS_REQUEST"}
UNSET_EVENT_ID == ""

\* A catalogue: its classes, subclass first, each with the attributes of its
\* own body, and the context fields it declares.
Catalogue == {Args[c].catalogue : c \in Calls}

ASSUME CallsAssumption ==
    /\ None \notin Catalogue /\ None \notin BOOLEAN
    /\ \A c \in Calls :
           /\ Args[c].strict_fields \in BOOLEAN /\ Args[c].access_logs \in BOOLEAN
           /\ Args[c].loglevel \in Nat

\* The loggers the document names whatever the root is.
LibraryNames == {"uvicorn", "uvicorn.error", "uvicorn.access", "inject"}

ASSUME NamesAssumption ==
    /\ LibraryNames \subseteq Loggers \ {ROOT}
    /\ \A m \in LibraryNames : Line(m) \cap Roots = {}
    /\ "uvicorn" \in Line("uvicorn.error")

VARIABLES
    strict_fields,    \* events._strict_fields
    context_fields,   \* the names in context._fields
    catalogue,        \* registry._catalogue
    access_logs,      \* registry._access_logs
    middleware,       \* the access setting the application's middleware holds
    inPlace,          \* the call whose document dictConfig applied last
    wired             \* history: the roots whose loggers have a document's handlers

registryVars ==
    <<strict_fields, context_fields, catalogue, access_logs, middleware, inPlace, wired>>

RegistryInit ==
    /\ strict_fields = FALSE /\ context_fields = StandardFields
    /\ catalogue = None /\ access_logs = None
    /\ middleware = None /\ inPlace = None /\ wired = {}

------------------------------------------------------------------------------
(* The validation of a catalogue. *)

\* getattr: the first class that has the name decides.
attributes(cat) ==
    UNION {{<<n, cat.mro[i][n]>> : n \in {m \in DOMAIN cat.mro[i] :
                \A j \in 1 .. i - 1 : m \notin DOMAIN cat.mro[j]}} : i \in DOMAIN cat.mro}

\* Mutant: the events of the class itself, none of its bases'.
own_events(cat) ==
    {<<n, cat.mro[1][n]>> : n \in {m \in DOMAIN cat.mro[1] : cat.mro[1][m] # NotEvent}}

\* vars(klass) along the MRO: the first class that has an *event* decides.
declared_events(cat) ==
    UNION {{<<n, cat.mro[i][n]>> : n \in {m \in DOMAIN cat.mro[i] :
                /\ cat.mro[i][m] # NotEvent
                /\ \A j \in 1 .. i - 1 : m \in DOMAIN cat.mro[j] => cat.mro[j][m] = NotEvent}}
           : i \in DOMAIN cat.mro}

excused_events(access) == IF access THEN {} ELSE {"ACCESS_REQUEST"}

missing_events(cat, access) ==
    REQUIRED_EVENTS \ (excused_events(access) \cup
                       {a[1] : a \in {b \in attributes(cat) : b[2] # NotEvent}})

unset_event_ids(cat, access) ==
    {d[1] : d \in {e \in declared_events(cat) : e[2].event_id = UNSET_EVENT_ID}}
        \ excused_events(access)

reserved_field_names(cat) ==
    {d \in declared_events(cat) : d[2].fields \cap ReservedFields # {}}

validate_catalogue(cat, access) ==
    /\ missing_events(cat, access) = {}
    /\ unset_event_ids(cat, access) = {}
    /\ reserved_field_names(cat) = {}

\* register_context_fields: a name occurs once, and not among the standard ones.
Names(cat) == {cat.context_fields[i] : i \in DOMAIN cat.context_fields}
distinct_fields(cat) ==
    \A i \in DOMAIN cat.context_fields :
        /\ cat.context_fields[i] \notin StandardFields
        /\ \A j \in DOMAIN cat.context_fields :
               cat.context_fields[i] = cat.context_fields[j] => i = j

------------------------------------------------------------------------------
(* The document configure() builds, and what dictConfig makes of it. *)

HandlerNames ==
    {"console_app", "console_siem", "console_debug",
     "syslog_app", "syslog_siem", "syslog_public_inspect", "syslog_debug"}
DebugHandlers == {"console_debug", "syslog_debug"}

\* The loggers a handler is bound to, next to the logger root's.
bindings(name) ==
    CASE name \in DebugHandlers -> {"uvicorn", "uvicorn.error", ROOT}
      [] name = "console_app"   -> {"uvicorn", "uvicorn.error"}
      [] OTHER                  -> {}

Named(root) == {root, ROOT} \cup LibraryNames

Level(a, l) ==
    CASE l = "uvicorn.access" -> CRITICAL
      [] l = "inject"         -> IF a.loglevel >= INFO THEN a.loglevel ELSE INFO
      [] OTHER                -> a.loglevel

\* Mutant: the document is built before the root is registered.
document_early(c, l) ==
    [handlers |-> {<<c, n>> : n \in {m \in Args[c].handlers :
                                        l = logger_root \/ l \in bindings(m)}},
     level |-> Level(Args[c], l), propagate |-> l \in {ROOT, "inject"}]

document(c, l) ==
    [handlers |-> {<<c, n>> : n \in {m \in Args[c].handlers :
                                        l = Args[c].logger_root \/ l \in bindings(m)}},
     level |-> Level(Args[c], l), propagate |-> l \in {ROOT, "inject"}]

\* A logger below a named one starts afresh; the others stay as they are.
dictConfig(c) ==
    [l \in Loggers |->
        IF l \in Named(Args[c].logger_root) THEN document(c, l)
        ELSE IF \E b \in Named(Args[c].logger_root) \ {ROOT} : b \in Line(l) THEN Fresh
        ELSE tree[l]]

------------------------------------------------------------------------------
(* What the process calls. *)

\* How far a call gets: it stops at the level or the catalogue, at the context
\* fields, at the root, at an unknown stream or an unreachable log server.
Stages(a) ==
    IF a.loglevel \notin Levels \/ ~validate_catalogue(a.catalogue, a.access_logs) THEN {0}
    ELSE IF ~distinct_fields(a.catalogue) THEN {1}
    ELSE IF a.logger_root \notin Roots THEN {2}
    ELSE IF ~(a.handlers \subseteq HandlerNames) THEN {3}
    ELSE IF a.syslog_path THEN {3, 4} ELSE {4}

set_strict_fields(a, done) ==
    strict_fields' = IF done THEN a.strict_fields ELSE strict_fields
register_context_fields(a, done) ==
    context_fields' = IF done THEN StandardFields \cup Names(a.catalogue) ELSE context_fields
register_access_logs(a, done) ==
    access_logs' = IF done THEN a.access_logs ELSE access_logs
register_catalogue(a, done) ==
    catalogue' = IF done THEN a.catalogue ELSE catalogue

\* What a call that got to stage n has registered, with the context fields
\* taken over at stage f, access setting and catalogue at stages g and k.
RegistersAt(a, n, f, g, k) ==
    /\ set_strict_fields(a, n >= 1) /\ register_context_fields(a, n >= f)
    /\ register_access_logs(a, n >= g) /\ register_catalogue(a, n >= k)

\* Mutants: the context fields are assigned before they are checked; the
\* catalogue is registered after the root; the standard fields are not collected.
RegistersEarly(a, n) == RegistersAt(a, n, 1, 2, 2)
RegistersLate(a, n) == RegistersAt(a, n, 2, 2, 3)
RegistersNames(a, n) ==
    /\ UNCHANGED <<strict_fields, access_logs, catalogue>>
    /\ context_fields' = IF n >= 2 THEN Names(a.catalogue) ELSE context_fields

Registers(a, n) == RegistersAt(a, n, 2, 2, 2)

\* Mutant: what was reported under the old root stays.
RegistersRootOnly(a, n) ==
    /\ logger_root' = IF n >= 3 THEN a.logger_root ELSE logger_root
    /\ UNCHANGED reported

register_logger_root(a, n) ==
    /\ logger_root' = IF n >= 3 THEN a.logger_root ELSE logger_root
    /\ reported' = IF n >= 3 THEN {} ELSE reported

\* The roots that still have handlers once a document names the given one: that
\* root, and those set up before whose logger dictConfig leaves alone.
rewired(root) ==
    {root} \cup {r \in wired : Line(r) \cap (Named(root) \ {ROOT}) = {}}

configure(c) ==
    \E n \in Stages(Args[c]) :
        /\ Registers(Args[c], n) /\ register_logger_root(Args[c], n)
        /\ tree' = IF n = 4 THEN dictConfig(c) ELSE tree
        /\ cache' = IF n = 4 THEN NothingCached ELSE cache
        /\ inPlace' = IF n = 4 THEN c ELSE inPlace
        /\ wired' = IF n = 4 THEN rewired(Args[c].logger_root) ELSE wired
        /\ UNCHANGED middleware

\* RequestContextMiddleware is built: without a setting it raises.
AddMiddleware ==
    /\ access_logs # None
    /\ middleware' = access_logs
    /\ UNCHANGED <<treeVars, strict_fields, context_fields, catalogue, access_logs, inPlace, wired>>

\* reset_for_tests, after a test: its application is gone, dictConfig's work
\* stays.  (The shutdown reason is Lifecycle's.)
reset_for_tests ==
    /\ catalogue' = None /\ access_logs' = None
    /\ context_fields' = StandardFields /\ strict_fields' = FALSE
    /\ logger_root' = DEFAULT_LOGGER_ROOT /\ reported' = {}
    /\ middleware' = None
    /\ UNCHANGED <<tree, cache, inPlace, wired>>
================================================================================
