------------------------------ MODULE EventRouting ------------------------------
(****************************************************************************)
(* From LogEvent to output line: emit (events.py), the warning for a logger *)
(* outside the logger tree (loggers.py), the handlers and loggers of        *)
(* LogConfigBuilder (config_builder.py), the stream filters (filters.py)    *)
(* and the field allow-lists of the formatters (formatter.py).              *)
(*                                                                          *)
(* Several threads emit at once.  A set operation is atomic in Python, the  *)
(* look into a set and the add that follows are two operations.             *)
(*                                                                          *)
(* A logger name is the sequence of its dotted parts, a field is its name,  *)
(* and an event's allow-list maps the streams it mentions to fields.        *)
(****************************************************************************)
EXTENDS Naturals, Sequences

CONSTANTS
    Threads, MaxEmits,  \* the threads that emit, and how often each does
    Catalogue,          \* the declared events, by name
    Loggers,            \* the loggers the application emits on
    Payloads,           \* what it passes as fields: sets of field names
    ContextFields,      \* the registered context fields,
    AlwaysKept,         \*   those of them that are always kept,
    Bound,              \*   and those the request context holds a value for
    ReservedFields,     \* the names a log record cannot carry
    logger_root, loglevel,
    console_streams, syslog_streams, syslog_path

DEBUG == 10
INFO == 20
WARNING == 30
ERROR == 40
CRITICAL == 50

LEVELS == {DEBUG, INFO, WARNING, ERROR, CRITICAL}

Streams == {"PUBLIC_INSPECT", "APP", "SIEM"}

None == "none"
NoCall == [event |-> None]
Fields == (UNION Payloads) \cup ContextFields

ASSUME RoutingAssumption ==
    /\ MaxEmits \in Nat /\ loglevel \in Nat
    /\ syslog_path \in BOOLEAN
    /\ AlwaysKept \subseteq ContextFields /\ Bound \subseteq ContextFields
    /\ logger_root \in Seq(STRING) \ {<<>>} /\ Loggers \subseteq Seq(STRING)
    /\ Head(logger_root) # "uvicorn"
    /\ console_streams \subseteq {"app", "siem", "debug"}
    /\ syslog_streams \subseteq {"app", "siem", "public_inspect", "debug"}
    /\ None \notin DOMAIN Catalogue
    /\ \A e \in DOMAIN Catalogue :
           Catalogue[e].level \in Nat /\ Catalogue[e].streams \subseteq Streams

VARIABLES
    strict_fields,  \* _strict_fields, as configure() left it
    reported,  \* _reported_outside_root
    pc, call,  \* each thread: its place in emit, and the event, logger and
               \* fields it was called with
    emits,     \* how often each thread called emit
    accepted,  \* the calls that emit did not refuse
    lines      \* what the handlers wrote

vars == <<strict_fields, reported, pc, call, emits, accepted, lines>>

------------------------------------------------------------------------------
(* The logger tree (loggers.py) and LogConfigBuilder.build. *)

Under(name, above) ==
    Len(above) <= Len(name) /\ SubSeq(name, 1, Len(above)) = above

within_root(name) == Under(name, logger_root)

access_logger == logger_root \o <<"access">>
internal_logger == logger_root \o <<"internal">>

Uvicorn == {<<"uvicorn">>, <<"uvicorn", "error">>}

\* Loggers that do not propagate; python's own root is <<>>.
Detached == {logger_root, <<"uvicorn", "access">>} \cup Uvicorn

\* The logger whose handlers get a record: the nearest that does not propagate.
Home(name) ==
    LET above == {d \in Detached : Under(name, d)}
    IN  IF above = {} THEN <<>>
        ELSE CHOOSE d \in above : \A other \in above : Len(other) <= Len(d)

\* Mutant: the comparison is the wrong way round.
_at_most(floor) == IF loglevel >= floor THEN floor ELSE loglevel

_at_least(floor) == IF loglevel >= floor THEN loglevel ELSE floor

Level(name) ==
    CASE Home(name) = <<"uvicorn", "access">> -> CRITICAL
      [] Home(name) = <<>> /\ Under(name, <<"inject">>) -> _at_least(INFO)
      [] OTHER -> loglevel

Handlers ==
    {[to |-> "console", stream |-> s] : s \in console_streams}
      \cup {[to |-> "syslog", stream |-> s] : s \in IF syslog_path THEN syslog_streams ELSE {}}

\* The loggers a handler is attached to.
Bindings(h) ==
    CASE h.stream = "debug" -> Uvicorn \cup {logger_root, <<>>}
      [] h.stream = "app" /\ h.to = "console" -> Uvicorn \cup {logger_root}
      [] OTHER -> {logger_root}

\* The stream a handler's formatter is bound to, and its filter lets through.
StreamOf(h) ==
    CASE h.stream = "app" -> "APP"
      [] h.stream = "siem" -> "SIEM"
      [] h.stream = "public_inspect" -> "PUBLIC_INSPECT"
      [] OTHER -> None

------------------------------------------------------------------------------
(* Filters and formatters. *)

filter(h, record) ==
    \/ StreamOf(h) \in record.streams \cup {None}
    \/ StreamOf(h) = "APP" /\ record.name \in Uvicorn \cup {access_logger}

\* Mutants: a field on the allow-list of any stream is kept; a context field
\* has to be on the allow-list.
_allowed_anywhere(h, record) ==
    IF StreamOf(h) = None \/ DOMAIN record.allow = {} THEN record.fields \cup Bound
    ELSE (record.fields \cup Bound)
           \cap ((UNION {record.allow[s] : s \in DOMAIN record.allow}) \cup AlwaysKept)

_allowed_if_named(h, record) ==
    IF StreamOf(h) = None \/ DOMAIN record.allow = {} THEN record.fields \cup Bound
    ELSE (record.fields \cup Bound)
           \cap (IF StreamOf(h) \in DOMAIN record.allow THEN record.allow[StreamOf(h)] ELSE {})

_allowed_on(h, record) ==
    IF StreamOf(h) = None \/ DOMAIN record.allow = {} THEN record.fields \cup Bound
    ELSE (record.fields \cup Bound)
           \cap ((IF StreamOf(h) \in DOMAIN record.allow THEN record.allow[StreamOf(h)] ELSE {})
                   \cup AlwaysKept)

\* Mutant: a record of an event reaches every handler.
write_to_all(record) ==
    {[handler |-> h, record |-> record, carries |-> _allowed_on(h, record)] : h \in Handlers}

\* The lines a record becomes: one for each handler that takes it.
write(record) ==
    {[handler |-> h, record |-> record, carries |-> _allowed_on(h, record)] :
        h \in {g \in Handlers : /\ record.level >= Level(record.name)
                                /\ record.level >= loglevel
                                /\ Home(record.name) \in Bindings(g)
                                /\ filter(g, record)}}

------------------------------------------------------------------------------
(* DefaultEventCatalogue and LogEvent. *)

event(level, streams, fields) == [level |-> level, streams |-> streams, fields |-> fields]

add_fields(e, fields) ==
    [e EXCEPT !.fields =
        [s \in DOMAIN e.fields \cup DOMAIN fields |->
            (IF s \in DOMAIN e.fields THEN e.fields[s] ELSE {})
              \cup (IF s \in DOMAIN fields THEN fields[s] ELSE {})]]

DefaultEventCatalogue ==
    LET shutdown == [APP |-> {"shutdown_reason", "last_exception_type"},
                     SIEM |-> {"shutdown_reason"}]
        raised == {"exception_type", "endpoint", "method"}
    IN  [SYS_APP_STARTED |-> event(INFO, {"APP"}, [APP |-> {"version", "config_path"}]),
         SYS_APP_STOPPED |-> event(INFO, {"APP", "SIEM"}, shutdown),
         SYS_APP_CRASHED |-> event(CRITICAL, {"APP", "SIEM"}, shutdown),
         SYS_UNHANDLED_EXCEPTION |->
             event(ERROR, {"APP", "SIEM"}, [APP |-> raised, SIEM |-> raised]),
         SYS_MISSING_CORRELATION_ID |->
             event(ERROR, {"APP"}, [APP |-> {"endpoint", "method"}]),
         ACCESS_REQUEST |->
             event(INFO, {"APP"}, [APP |-> {"endpoint", "method", "status_code",
                                            "duration_ms", "body", "body_truncated"}])]

------------------------------------------------------------------------------
(* emit. *)

Init ==
    /\ strict_fields \in BOOLEAN
    /\ reported = {}
    /\ pc = [t \in Threads |-> "idle"] /\ call = [t \in Threads |-> NoCall]
    /\ emits = [t \in Threads |-> 0]
    /\ accepted = {} /\ lines = {}

\* Mutant: strict mode is not applied.
unrouted_none(e, F) == {}

unrouted_fields(e, F) ==
    LET allow == Catalogue[e].fields
    IN  IF DOMAIN allow = {} THEN {}
        ELSE F \ ((UNION {allow[s] : s \in DOMAIN allow}) \cup AlwaysKept)

Refused(e, F) ==
    \/ F \cap ReservedFields # {}
    \/ F \cap ContextFields # {}
    \/ strict_fields /\ unrouted_fields(e, F) # {}

emit(t, e, name, F) ==
    /\ pc[t] = "idle" /\ emits[t] < MaxEmits
    /\ emits' = [emits EXCEPT ![t] = @ + 1]
    /\ IF Refused(e, F) THEN UNCHANGED <<pc, call, accepted>>
       ELSE LET c == [by |-> t, nth |-> emits[t], event |-> e, name |-> name, fields |-> F]
            IN  /\ call' = [call EXCEPT ![t] = c]
                /\ accepted' = accepted \cup {c}
                /\ pc' = [pc EXCEPT ![t] = IF Catalogue[e].streams # {} /\ ~within_root(name)
                                           THEN "check" ELSE "log"]
    /\ UNCHANGED <<strict_fields, reported, lines>>

\* report_outside_root: the look into the set, the add, and the warning.
report_checks(t) ==
    /\ pc[t] = "check"
    /\ pc' = [pc EXCEPT ![t] = IF call[t].name \in reported THEN "log" ELSE "add"]
    /\ UNCHANGED <<strict_fields, reported, call, emits, accepted, lines>>

\* Mutants: every logger is taken for reported as soon as one is; the tree is
\* reported in place of the logger.
report_add_all(t) ==
    /\ pc[t] = "add"
    /\ reported' = reported \cup Loggers
    /\ pc' = [pc EXCEPT ![t] = "warn"]
    /\ UNCHANGED <<strict_fields, call, emits, accepted, lines>>

report_add_home(t) ==
    /\ pc[t] = "add"
    /\ reported' = reported \cup {Home(call[t].name)}
    /\ pc' = [pc EXCEPT ![t] = "warn"]
    /\ UNCHANGED <<strict_fields, call, emits, accepted, lines>>

report_adds(t) ==
    /\ pc[t] = "add"
    /\ reported' = reported \cup {call[t].name}
    /\ pc' = [pc EXCEPT ![t] = "warn"]
    /\ UNCHANGED <<strict_fields, call, emits, accepted, lines>>

Warned(c) ==
    [by |-> c.by, nth |-> c.nth, event |-> None, about |-> c.name, name |-> internal_logger,
     level |-> WARNING, streams |-> {"APP"}, allow |-> [s \in {} |-> {}], fields |-> {}]

warn_on_app_stream(t) ==
    /\ pc[t] = "warn"
    /\ lines' = lines \cup write(Warned(call[t]))
    /\ pc' = [pc EXCEPT ![t] = "log"]
    /\ UNCHANGED <<strict_fields, reported, call, emits, accepted>>

Logged(c) ==
    [by |-> c.by, nth |-> c.nth, event |-> c.event, about |-> c.name, name |-> c.name,
     level |-> Catalogue[c.event].level, streams |-> Catalogue[c.event].streams,
     allow |-> Catalogue[c.event].fields, fields |-> c.fields]

log(t) ==
    /\ pc[t] = "log"
    /\ lines' = lines \cup write(Logged(call[t]))
    /\ pc' = [pc EXCEPT ![t] = "idle"]
    /\ call' = [call EXCEPT ![t] = NoCall]
    /\ UNCHANGED <<strict_fields, reported, emits, accepted>>

\* The access logger is the middleware's, for the access event alone.
Emits(t) ==
    \E e \in DOMAIN Catalogue, name \in Loggers, F \in Payloads :
        (e = "ACCESS_REQUEST" <=> name = access_logger) /\ emit(t, e, name, F)

Next ==
    \E t \in Threads :
        \/ Emits(t) \/ report_checks(t) \/ report_adds(t)
        \/ warn_on_app_stream(t) \/ log(t)

Spec == Init /\ [][Next]_vars

------------------------------------------------------------------------------
(* The event overview (event_overview.py): what it tells of a stream. *)

Overview(stream) == {e \in DOMAIN Catalogue : stream \in Catalogue[e].streams}

AnyField(e) == DOMAIN Catalogue[e].fields = {}

_fields_on(e, stream) ==
    IF stream \in DOMAIN Catalogue[e].fields THEN Catalogue[e].fields[stream] ELSE {}

------------------------------------------------------------------------------
(* How the journal of the streams is implemented. *)

Calls ==
    [by : Threads, nth : 0 .. MaxEmits - 1, event : DOMAIN Catalogue, name : Loggers,
     fields : Payloads]

Finished(c) == c \in accepted /\ call[c.by] # c

\* A record has to be of the log level at least, and one of the inject library,
\* which logs each binding at DEBUG, of INFO.
LoudEnough(c) ==
    /\ Catalogue[c.event].level >= loglevel
    /\ Under(c.name, <<"inject">>) /\ ~within_root(c.name) => Catalogue[c.event].level >= INFO

\* The handlers of a stream see what the tree logs on that stream, those of the
\* debug stream everything.
DueAt(c) ==
    {h \in Handlers :
        /\ LoudEnough(c)
        /\ \/ StreamOf(h) = None
           \/ within_root(c.name) /\ c.event \in Overview(StreamOf(h))}

DueFields(c, h) ==
    {f \in c.fields \cup Bound :
        \/ StreamOf(h) = None \/ AnyField(c.event)
        \/ f \in _fields_on(c.event, StreamOf(h)) \cup AlwaysKept}

Promised(c) == {[handler |-> h, call |-> c, carries |-> DueFields(c, h)] : h \in DueAt(c)}

\* The calls being worked on, and those whose streams are not in their logger's
\* line; the handlers of a record on the app stream.
Ongoing == {call[t] : t \in Threads} \ {NoCall}
Unwatched == {c \in Calls : Catalogue[c.event].streams # {} /\ ~within_root(c.name)}
Noticing == {h \in Handlers : loglevel <= WARNING /\ StreamOf(h) \in {"APP", None}}

\* The lines of events, by the call behind them, and of warnings.
EntryOf(l) ==
    [handler |-> l.handler, carries |-> l.carries,
     call |-> [by |-> l.record.by, nth |-> l.record.nth, event |-> l.record.event,
               name |-> l.record.name, fields |-> l.record.fields]]
Entered == {EntryOf(l) : l \in {m \in lines : m.record.event # None}}
Noticed == {<<l.handler, l.record.about>> : l \in {m \in lines : m.record.event = None}}

Journal == INSTANCE StreamJournal WITH
    Entries <- Promised, open <- Ongoing, done <- accepted \ Ongoing,
    journal <- Entered, notices <- Noticed

\* An event becomes the lines the overview tells of, all of them and no others,
\* and a logger outside the tree is warned about: the tree, the filters, the
\* allow-lists and the threads in report_outside_root come to no more than that.
ImplementsJournal == Journal!Spec

------------------------------------------------------------------------------
(* Properties. *)

TypeOK ==
    /\ strict_fields \in BOOLEAN
    /\ reported \subseteq Loggers
    /\ pc \in [Threads -> {"idle", "check", "add", "warn", "log"}]
    /\ call \in [Threads -> Calls \cup {NoCall}]
    /\ \A t \in Threads : pc[t] = "idle" <=> call[t] = NoCall
    /\ emits \in [Threads -> 0 .. MaxEmits]
    /\ accepted \subseteq Calls
    /\ \A l \in lines : l.handler \in Handlers /\ l.carries \subseteq Fields

Of(c) == {l \in lines : l.record.by = c.by /\ l.record.nth = c.nth /\ l.record.event = c.event}

\* The overview of a stream lists every event that reaches it, and every field
\* an event carries there besides the context fields that are always kept.
OverviewTells ==
    \A l \in lines :
        LET e == l.record.event  s == StreamOf(l.handler)
        IN  e # None /\ s # None =>
                /\ e \in Overview(s)
                /\ AnyField(e) \/ l.carries \subseteq _fields_on(e, s) \cup AlwaysKept

\* And the other way round: an event the overview lists for a stream reaches
\* each handler of it, with the fields listed and the context that is kept.
OverviewKept ==
    \A c \in accepted : \A h \in Handlers :
        LET s == StreamOf(h)  listed == _fields_on(c.event, s) \cup AlwaysKept
        IN  /\ Finished(c) /\ within_root(c.name) /\ s # None
            /\ c.event \in Overview(s) /\ Catalogue[c.event].level >= loglevel
            => \E l \in Of(c) :
                   /\ l.handler = h
                   /\ {f \in c.fields \cup Bound : AnyField(c.event) \/ f \in listed} \subseteq l.carries

\* A record logged outside the logger tree reaches the debug stream only.
OutsideDebugOnly ==
    \A l \in lines :
        l.record.event # None /\ ~within_root(l.record.name) => l.handler.stream = "debug"

Warnings(name) == {l \in lines : l.record.event = None /\ l.record.about = name}

AppHandlers == {h \in Handlers : h.stream = "app"}

\* No event is lost to its streams in silence: once an event was logged outside
\* the tree, every handler of the app stream has the warning about its logger,
\* or a thread that has found the logger unreported is about to write it.
OutsideWarned ==
    \A c \in accepted :
        /\ Finished(c) /\ ~within_root(c.name)
        /\ Catalogue[c.event].streams # {} /\ loglevel <= WARNING
        => \/ \A h \in AppHandlers : \E l \in Warnings(c.name) : l.handler = h
           \/ \E t \in Threads : pc[t] = "warn" /\ call[t].name = c.name

\* The warning is written once for a logger (loggers.py, report_outside_root).
WarnedOnce ==
    \A name \in Loggers : \A k, l \in Warnings(name) : k.handler = l.handler => k = l

\* Strict mode lets nothing be dropped: each field of an event that is logged
\* inside the tree is carried to a handler of a declared stream (events.py).
StrictNothingLost ==
    \A c \in accepted :
        /\ strict_fields /\ Finished(c) /\ within_root(c.name)
        /\ Catalogue[c.event].level >= loglevel
        => \A f \in c.fields :
                \E l \in Of(c) : StreamOf(l.handler) \in Catalogue[c.event].streams /\ f \in l.carries
================================================================================
