# gfmodules-logging in TLA+

Specifications of the library in `src/gfmodules/logging`: what it promises of
the context and the access record of a request, of the lifecycle records of a
process, of the streams an event reaches, and of the configuration and the
captures of a process that is configured again and again. TLC checks them on small instances
(the `.cfg` files), TLAPS proves the most important ones for every value of the
constants (the `_proofs` modules). `PROJECT.json` names, for each definition, the
lines of the code it stands for.

## 1. The system

The library is imported by a FastAPI application. It starts no threads and
stores nothing on disk. What makes it hard is that its state is shared by tasks,
threads, signal handlers and exception hooks that it does not schedule.

| Component (`src/gfmodules/logging/`) | State | Operations | Correct when |
|---|---|---|---|
| request context, `context.py` | `_context_var`, one value per task; the tokens of open blocks; the registered fields | `bind_context`, `update_context`, `collect_context`, `register_context_fields` | a record carries the ids of its own request; nothing stays bound |
| request middleware, `middleware.py` | the `RequestContext` kept in `request.state`; the settings it was built with | `dispatch`, `_log_access`, `restore_request_context` | one access record for each call, before the answer, with its status; ids echoed |
| exception logging, `exceptions.py` | none | `log_unhandled_exception` | the record has the context of the failed request |
| process lifecycle, `lifecycle.py` | `_shutdown_reason`; `sys.excepthook` and the signal handlers it chains to | `install_excepthook`, `install_signal_handlers`, `lifespan_logging` | start, stop and crash reported once, with the true reason; signals still stop the server |
| event emission, `events.py` | `_strict_fields` | `emit`, `validate_catalogue`, the default catalogue | a bad call is refused; strict mode loses nothing |
| logger tree, `loggers.py` | the root, `_reported_outside_root` | `within_root`, `report_outside_root`, `register_logger_root` | an event outside the tree is told of |
| configuration document, `config_builder.py` | none: it builds the `dictConfig` document | `LogConfigBuilder.build` | each handler gets exactly the records of its stream |
| filters, formatters, streams, `filters.py`, `formatter.py`, `streams.py` | none | `filter`, `_allowed_on` | a line carries the fields that its stream allows |
| event overview, `event_overview.py` | none | `build_event_overview` | it lists what reaches each stream |
| registry, `registry.py` | the active catalogue and access setting | `set_*`, `get_*`, `reset_*` | readers see the configuration in force |
| configure, `__init__.py` | none of its own: sets all the above in turn | `configure` | a failed call leaves no mixture |
| settings, ini helper, `config.py`, `ini.py` | none | parsing | - |
| testing helpers, `testing.py` | the logging state they swap and put back | captures, `recorded_shutdown_reason`, assertions | everything is put back |

How they interact:

- The server runs a request in a task. `RequestContextMiddleware.dispatch` binds
  the context in that task; Starlette's `BaseHTTPMiddleware.call_next` runs the
  endpoint in a *child* task with a *copy* of the context; the handler of an
  unhandled exception runs in the server task again, but outside the middleware,
  when the context was already torn down.
- Formatters read the context when a record is written; `emit` is called from
  any task or thread and reads the module globals which `configure` wrote.
- Signal handlers and `sys.excepthook` run in the main thread and write
  `_shutdown_reason`; `lifespan_logging` reads it, in the same thread or in
  another.

Behaviour that is hard to test is listed, with its line and the properties that
cover it, under `hazards` in `PROJECT.json`: the interleaving of tasks at their
awaits, cancellation at each of them, the token discipline of nested blocks, the
exception handler outside the middleware, the two reads of the shutdown reason,
a signal during the excepthook, the check-then-add of the outside-root warning,
the two places that decide on a stream (filter and allow-list), a `configure()`
that fails half way, and captures that put back a tree others have changed.

## 2. The modules

### RequestHandling (`context.py`, `middleware.py`, `exceptions.py`)

One request from the server's task to the answer; `Requests` of them, on the
tasks `Servers`, in the assignment `ServerOf`. An action is the code between
two awaits, so a step of one request may come between any two of another.

| Variable | Code |
|---|---|
| `pc[r]` | where the server task is with `r`: before `dispatch`, reading the body (`middleware.py:227`), in `call_next` (233), sending, streaming, in the exception handler |
| `app[r]` | the child task of the endpoint |
| `ctx[t]`, `tokens[t]` | `_context_var` in task `t`; what its open `bind_context` blocks will restore |
| `stored[r]` | `request.state`'s `RequestContext` |
| `emitted`, `access[r]` | records, with the context that the formatter finds |
| `response[r]`, `sentBy[r]` | the response object; who started the response on the wire |

`Dispatch` is `dispatch` up to its first await; `ReadBody`/`BodyFails` are the
two ends of `_read_body`; `CallReturns`/`CallRaises` the two ends of `call_next`,
each with the `finally` clause that writes the access record and with the end of
the `with` block; `Cancel` is a `CancelledError` at any await. The endpoint logs,
opens and closes `update_context` blocks, responds, ends or raises as it likes.
`HandlerEnters` to `HandlerSends` are the exception handler, decorated with
`restore_request_context` or not.

The context has many fields; those that behave alike are represented by one:
`request_id` (made or reused), `correlation_id` (read off a header, perhaps
absent), `tenant_id` (bound by an endpoint). What the header sanitizing leaves
of a header is the value in `CorrelationOf`. Starlette and the server are
modelled from how the middleware uses them, and marked external in the map.

`AccessLedger` is the abstract specification: what the middleware promises of
the access log, with three variables. `RequestHandling` implements it under the
mapping `LedgerStage`, `LedgerEntries`, `LedgerAnswered`.

### Lifecycle (`lifecycle.py`)

The shutdown reason, the stack of Python handlers of each signal, the lifespan
and the excepthook. Every read and every write of `_shutdown_reason` is a step of
its own, since there is no lock: `LifespanChecks` is line 120 and
`LifespanReports` line 125; `HookRecords` is line 51 and `HookReports` line 58.
`Deliver(s)` runs the Python handler of `s` to its end: the library's sets
the reason and calls the one below it, the server's asks the server to stop,
the default of SIGINT raises `KeyboardInterrupt`, a missing handler ends the
process. `inline` says whether the lifespan runs in the main thread (uvicorn's
way) or in a server thread; a process keeps to the one it starts with, out of
`Placements`. `ServerFirst` whether the server has captured the
signals when the application installs its handlers.

The raise-again of captured signals that uvicorn does on its way out is a
`Deliver` like any other, which is why the model allows a delivery at any time.

`ProcessReport` is the abstract specification: a lifespan is reported when it
starts and when it ends, or its end is left to a crash that was seen, which is
reported once unless an interrupt takes the record away, and no record gives a
reason that nothing in the process accounts for. It knows of no signal handlers,
no server and no reason that is written and read. `Lifecycle` implements it under
the mapping `ReportLifespan`, `ReportCrash`, with the log as its `records`.

### EventRouting (`events.py`, `loggers.py`, `config_builder.py`, `filters.py`, `formatter.py`, `streams.py`, `event_overview.py`)

From `emit` to the lines that the handlers write. `Home`, `Level`, `Handlers`,
`Bindings`, `StreamOf` are what `LogConfigBuilder.build` sets up and what the
logging module does with it; `filter` and `_allowed_on` are what the filters and
the formatters decide; `Catalogue` gives for each event its level, streams and
allow-lists. `emit` is one step up to `report_outside_root`, which is two: the
look into the set (`loggers.py:51`) and the add (53). The warning and the record
are one step each; a record goes to all its handlers in one step, since lines of
different handlers are not ordered in any property. `MCEventRouting` holds the
catalogues and logger names of the instances.

`StreamJournal` is the abstract specification, in which a catalogue's overview is
all there is: an accepted call becomes the entries it is due, at once, no others
and no more than that; before a call whose streams do not watch its logger is
done, the logger was noticed, or another call in progress is about to. It has no
logger tree, no handlers' bindings, no filters, no allow-lists and no set of
reported loggers. Under the mapping, `open` and `done` are the calls that are in
a thread or over (`Ongoing`), `Entries(c)` is what the overview promises
(`DueAt`, `DueFields`), the journal is the lines of events (`Entered`), and the
notices are the lines of warnings (`Noticed`), due at the handlers of the app and
debug streams if the log level lets warnings pass (`Noticing`).

### TestSuite (`__init__.py`, `registry.py`, `testing.py`, and `loggers.py`, `events.py`, `context.py`, `config_builder.py` as they use them)

A process in which `configure()`, the construction of the middleware, events,
captures and `reset_for_tests()` follow one another in any order. Three modules
hold its parts and share Python's tree of loggers:

| Module | Variable | Code |
|---|---|---|
| `LoggerTree` | `tree[l]` | handlers, level and `propagate` of a `logging.Logger` |
| | `cache[l]` | the answers that `isEnabledFor` keeps until a `setLevel` clears them |
| | `logger_root`, `reported` | `_logger_root`, `_reported_outside_root` |
| `Configuration` | `strict_fields`, `context_fields`, `catalogue`, `access_logs` | the globals that `configure()` registers one after another |
| | `middleware` | the access setting a built `RequestContextMiddleware` holds on to |
| | `inPlace` | the call whose document `dictConfig` applied last |
| | `wired` | history: the roots whose loggers have a document's handlers, those of an earlier document included as long as no later one takes them over (`rewired`) |
| `Captures` | `captures` | the open blocks of `capture_records` and `capture_stream` with what `_capturing` saved; `before` is history |

`configure(c)` is the whole call. `Stages` is the set of places it may end at:
the level or `validate_catalogue` (0), `register_context_fields` (1),
`register_logger_root` (2), `build()` or `dictConfig` (3), or the end (4). A
registration is done when the call got past it, and stays done when the call
fails later. An unreachable log server is a choice of the environment, for a call
with a `syslog_path`. A catalogue is its method resolution order, each class with
the attributes of its own body: `attributes` is `getattr`, `declared_events` is
the walk over `vars()`, and they differ for a subclass that takes an event back.
`document` and `dictConfig` give the tree: a named logger is replaced, a logger
below one starts afresh, any other, such as the tree of an earlier root, stays.
`TreeFollowsDocument` compares the tree with that of the document in place, `inPlace`,
not of the root that is registered, so it speaks also of what a failed call left.

`OpenCapture` and `CloseCapture` are the two ends of `_capturing`. A capture on the
root reattaches the loggers that do not propagate (`detached_loggers`). Python
assigns `handlers`, `level` and `propagate` at the end, so `CloseCapture` leaves
`cache` alone, while opening goes through `setLevel` and clears it. The logging
module itself is modelled from how these lines use it and is marked external.
`TestSuite` composes the three and holds the properties, `MCTestSuite` the tree of
names, the catalogues and the nine calls of the instance.

## 3. What is checked

Deadlock is checked in `SuiteCaptures`, `SuiteInnerBlock` and `SuiteResetRoot`, which
can always go on. The other runs may really stop: all requests over, the process gone, all
threads done. That what must go on does go on is stated there by the liveness
properties.

| Run | Instance | Shows |
|---|---|---|
| `RequestSameTask` | two requests on one server task, one captures its body, one has a correlation id, one reuses a stamped id; decorated handler; the first request nests two `update_context` blocks; fair. 136,560 states | `TypeOK`, `ContextIsolation`, `ContextTornDown`, `UpdatesUnwind`, `AccessOncePerCall`, `RecordPrecedesAnswer`, `EchoMatchesRecords`; the refinement of `AccessLedger`, its fair form included; `AccessEventually`, `DispatchedFinishes` |
| `RequestTwoTasks` | two requests on two tasks, all interleavings; undecorated handler, access logging off. 671,658 states | `ContextIsolation`, `ContextTornDown`: what depends on how the tasks interleave. The other properties are about one request each |
| `LifecycleEnds` | SIGTERM and SIGINT, lifespan in the main thread or in a server thread, server first; fair. 2,892 states | `TypeOK`, `EventsOnce`, `StoppedIsNoCrash`, `StopNamesSignal`, `CrashSilencesStop`, `EndAccounted`; the refinement of `ProcessReport`; `SignalStops`, `EndReported` |
| `RoutingThreads` | three threads, one `emit` each of any event, logger and payload, strict mode on or off. 322,646 states | `TypeOK`, `OverviewTells`, `OverviewKept`, `OutsideDebugOnly`, `OutsideWarned`, `StrictNothingLost`; the refinement of `StreamJournal` |
| `SuiteCaptures` | nine calls of `configure()`, two roots, a middleware, three captures, eight loggers. 260,403 states | `TypeOK`; of the registries `LibraryCanLog`, `ContextOfCatalogue`, `MiddlewareServes`, `ReportedOutside`; of the tree `TreeFollowsDocument`; of the captures `UnwindsInOrder`, `NothingLive`, `StillAttached`; of the kept answers of `isEnabledFor`, the action property `AnswersHold` |
| `RequestLogged`, `LifecycleStopAfterCrash`, `LifecycleCrashReason`, `RoutingWarnedOnce`, `RoutingUndeclared`, `SuiteInnerBlock`, `SuiteResetRoot` | the instances above, with one change at most | a documented statement that the code does not keep (section 5) |

### The bounds, and why they are enough

- *Two requests.* Requests meet only through the context of a server task (one
  after another) and through the context copied to a child; two show both, and
  the two runs take the two assignments. The proofs are for any number.
- `MaxUpdates`: open `update_context` blocks of each endpoint; with two (`MCNested`,
  one of the requests), an unwinding in the wrong order restores the wrong mapping.
  The other endpoint opens none: on one server task the two never run at once.
  `RequestTwoTasks` allows one each (`MCFlat`). `Tenants = {1}`: a
  value other than unset is all that a restore can get wrong.
- Ids are numbers: stamped ids are at most `FirstId`, generated ones above it, and
  each `Dispatch` takes the next, as a random UUID is never used twice.
- *Signals:* SIGTERM (the server's stop) and SIGINT (whose default interrupts).
  A third would be handled as SIGTERM is. Deliveries are not bounded: the reason
  and the set of the delivered ones are all that they leave behind.
- *Threads:* a race in `report_outside_root` needs two; the third is the one
  that emits while the others are in the middle of it. `MaxEmits = 1`: what a
  thread leaves behind for its next call is in `reported`, which another
  thread's call shows as well. The threads are symmetric: no constant names one.
- The catalogue has an event on the app and the SIEM stream with a different
  allow-list on each, the access event, an event without allow-list, one of
  level DEBUG and one that allows a context field on the inspection stream. The
  loggers lie inside the tree, beside it (a name that only starts with the same
  letters), at the access logger, and outside at `inject`, whose floor of INFO is
  above the log level of the run, DEBUG: the event of level DEBUG is lost there and
  written elsewhere. The ceiling of `uvicorn.access` is modelled and not exercised. The payloads hold a field of
  each list, a reserved name, and a context field.
- *Calls of `configure()`.* `full` and `renamed` succeed, under different roots,
  handlers, levels and access settings; `renamed` may also end at `dictConfig`, for
  its log server. `taken_back` has no access event and needs none. The others
  fail, each at another check: `no_event` (an event taken back), `unset` (an id left
  open), `reserved` (a reserved field), `twice` (a context field), `bad_root`, `bad_stream`.
  Every call may follow every other, with a reset, a middleware, events and
  captures in between.
- *Three captures.* The one in the middle is both inside a capture and around one.
  They may be on the root, on a logger of the tree, or on a logger below it
  together with one that does not propagate, so two may share all, some or none of
  their loggers. Their levels lie below and above the record's (10, 20, 40): an
  answer kept from one can be wrong under another. Captures are symmetric: no
  constant names one.
- *Eight loggers:* the two roots, one inside, the ones the document names whatever
  the root is. `Lineage` gives each its parents as dotted names would.

### Fairness

- `RequestHandling!FairSpec`: the event loop resumes each await of the middleware
  and of the server (the body arrives or the client is gone), and an endpoint
  that was started ends or raises. An endpoint that never ends is not the
  library's. No request needs to arrive, fail or be cancelled.
- `Lifecycle!FairSpec`: a server that was asked to stop leaves the lifespan, the
  `finally` clause of `lifespan_logging` and the lines of the hook run to their
  end, and a server whose lifespan is over returns. No signal needs to arrive, no
  code needs to raise. `~killed` stands in each: a process that is gone does
  nothing.
- `EventRouting` and `TestSuite` claim no liveness: nothing there waits.

## 4. What is proved

### RequestHandling_proofs

For every set of requests and of server tasks, every assignment of the ones to
the others, every option, from `RequestsAssumption` and `ValuesAssumption` (ids
and status codes are numbers, requests are not server tasks, stamped ids are not
above the generated ones). Theorems `Typing`, `Isolation`, `TornDown`,
`Unwound` (`UpdatesUnwind`), `OneRecord`, `RecordFirst`, `Echo` state the safety
properties that the runs check; `Implementation` states `Spec => ImplementsLedger`.

None of the properties is inductive: that a record carries its request's ids
depends on what the task that logs it has bound, and that on how the request got
where it is. The invariant `IInv` is a conjunction of named parts:

- `OneAtATime`: a server task is with one request at most;
- `ServerBinding` and `ServerClean`: inside a block the request's stored context
  is bound with exactly one token, which restores *nothing bound*; outside of
  one nothing is bound;
- `ChildContext`: however the endpoint nests its blocks, what is bound and what
  every token restores has the ids of the request, and the outermost token
  restores the request's own context (`Restores`);
- `BeforeCall`, `AfterCall`, `StatusesOK`: what is logged, answered and stored at
  each place of a request;
- `TypeOK`, `AccessOncePerCall`, `ContextIsolation`.

The lemmas before the main proof say what each helper does to the variables it
assigns (`BindEffect`, `UnbindEffect`, `LogAccessEffect`, ...), so that the
invariance proof, one lemma per conjunct and one step per action, never opens
them. The refinement is proved step by step: each action of the middleware is an
`Open`, a `Drop`, a `Close`, an `Answer` or a stutter of the ledger.

### Lifecycle_proofs

For every set of signals, from `LifecycleAssumption`. `Typing`, `Once`, and
`NoCrashStop` follow from `IInv`: `LogShape` (the log tells where lifespan and
hook are), `CrashIsLate` (only the hook records a crash, and a server in the
main thread has returned by then), `OpenUnderServer` (a lifespan in the main
thread is open only while the server holds the signals). The last two together
are why the two reads of the reason cannot see a crash in the main thread:
the hook runs when the lifespan is over. `Silence` rests on `Silenced`, which
holds from the moment a crash is recorded in time. `SignalNamed` proves
`StopNamesSignal` for `ServerFirst`, by `Recorded`: a library's handler that was
installed in the main thread is on top of the server's while the lifespan is
open. `SignalHeeded` is the safety half of `SignalStops`: a signal that was recorded,
or that arrived at an open lifespan of the main thread, has asked the server to
stop (`SignalReaches`). It rests on `Reaching`: under a server that came first,
every signal has the server somewhere among its handlers, however many handlers
were put over it, and the library's passes the signal on. `InlineCrashEnds` says
that what `LifecycleStopAfterCrash` refutes does hold of a lifespan in the main
thread, so its counterexample needs a server thread.

### ProcessReport_proofs

From the same assumption. `Implementation` states `Spec => ImplementsReport`, one
step per action. `Start`, `Stop` and `Tell` are the steps that log; the check of the reason
that finds a crash is `Defer`, the hook's write is `See`, and the interrupt in the
hook `Lose`; all else is a stutter. `NoSilentEnd` states `EndAccounted`. Both need
`CrashKept`: once the hook has recorded a crash, the reason never says graceful again,
without a crash it never says crash; a hook that is over has logged its crash or
was interrupted; and a lifespan that is over has logged its stop or stands behind
a crash. The reason of a record is an argument of the report's step, so that it
is one the process accounts for is the substance of the refinement: a stop says
graceful only if no crash was seen, and names a crash only if there is one.

### EventRouting_proofs

For every catalogue, logger root, set of handlers, log level, payloads and number
of threads, from `RoutingAssumption` (logger names are sequences, the root is not
empty and not uvicorn's, always kept and bound fields are registered ones, events
name known streams). `IInv` says where lines come from and where they go:
`LinesFrom` (each line is a record of a call that `emit` accepted, or the warning
about its logger), `Written` (a finished call has all its lines), `Accepted` (what
`emit` lets through), `Marked` (a thread gets past `report_outside_root` with its
logger reported only) and `Told` (a reported logger is warned about, or the
thread that reported it stands before the warning). `Told` is what makes the
unlocked check-then-add harmless for `OutsideWarned`, though `WarnedOnce` fails.
The lemmas on the logger tree (`HomeInside`, `HomeOutside`, `InternalLogger`) say
which logger's handlers get a record.

`Typing` and `LossWarned` (`OutsideWarned`) need nothing more. The others name
what they need of the application: `ApplicationLoggers` (it does not log on
uvicorn's loggers) for `DebugOnly`, `OverviewComplete` and `OverviewHolds`;
`AccessOnApp` for `OverviewComplete` and `StreamsDeclared` (allow-lists for declared
streams only, each with a handler) for `StrictKeeps`. Neither of the last two is
met by every application. `AppFilter` passes the records of the access logger by
its name (`filters.py:13`), so an access event that a catalogue moves to another
stream still reaches the app stream, which `event_overview.py:12` does not tell;
`RoutingUndeclared` shows the other.
`OneThreadOnce` says that `WarnedOnce`, which `RoutingWarnedOnce` refutes, holds of
a process with a single thread, by `FirstToReport`.

### StreamJournal_proofs

From the same assumption, with `ApplicationLoggers` and `AccessOnApp`. `Implementation`
states `Spec => ImplementsJournal`, `JournalOfFinished` that the lines of events are
what the finished calls are due, entry for entry. `OverviewTells` and
`OverviewKept` bound the lines from above and from below; here they are equal, at
every step of every thread. The invariant adds two parts to `IInv`: `Owned` (a call is
its thread's own and counted by it, so that a finished call is not made again)
and `Heard` (only calls outside the tree come to `report_outside_root`, and a
reported logger was noticed by every handler of `Noticing`, or a thread is about
to). The two lemmas that carry the proof are `TakenWhereDue` (the handlers that the
tree, the levels and the filters let a record through to are those the overview
gives) and its counterpart on the fields that a handler's allow-list keeps.

### TestSuite_proofs

For every tree of loggers, every set of calls of `configure()` with any arguments
and class hierarchies, any number of captures on any loggers, from
`TreeAssumption` and `LineageAssumption` (parents are those of dotted names),
`NamesAssumption` (the loggers the document names lie outside every root),
`CallsAssumption`, `CapturesAssumption` and `SuiteAssumption` (types, and captures
are not handlers of a document). The eight invariants of `SuiteCaptures` other than
`TypeOK` are `CanLog`, `ContextFits`, `Serves`, `Outside`, `FollowsDocument`, `Unwinds`,
`NoneLive` and `Attached`; `Typing` is the type invariant.

`IInv` is a conjunction of named parts:

- `Registered`: the registered catalogue is a validated one, under the access
  setting registered with it, and the context fields are its own. It says why the
  order in `configure()` is right: the catalogue is validated first, nothing between
  the context fields and the catalogue can fail, and the root, which can, comes
  after both. `ValidServes` carries this from what `validate_catalogue` looks at
  (`declared_events`) to what the library reads (`getattr`).
- `Shape` bounds what any tree of the process, now or found by an open block, can
  look like: which loggers may have handlers of a document (`Equipped`: those of the
  roots in `wired`, and the ones each document names), and which may not
  propagate (`Cut`). The exceptions in `FollowsDocument`, `NoneLive` and `Attached` are
  thus the roots in `wired` alone, not every name a root could have.
- `Guarded`: each open capture holds what it promises (`Holds`: silence and a way up
  to the root for a capture on the root, its place on its loggers for any) in the
  tree now, and in each tree that a block inside it will put back. The second half
  makes it inductive: closing a block restores such a tree.
- `Based`: the tree below all captures is what the document in place made of it.
- `UnwindsInOrder` and `ReportedOutside` are inductive with the types.

`AnswersKept` is the action property `AnswersHold`: the kept answers of `isEnabledFor`
follow the levels through every step but the end of a capture, and a step that
sets levels makes stale ones true again. The end of a capture is thus the only
place that `SuiteInnerBlock` can go wrong.

### What only TLC shows

- Liveness (`AccessEventually`, `DispatchedFinishes`, `ImplementsFairLedger`,
  `SignalStops`, `EndReported`): fairness and `ENABLED` are out of the prover's
  reach. Of the last two the safety halves are proved (`SignalHeeded`,
  `NoSilentEnd`): that the server was asked, that a record is there or due. All
  safety properties of the passing runs are proved, the type invariants, the
  action properties and the three refinements included.

## 5. Where code and documents differ

Each is a run that TLC ends with a counterexample; `PROJECT.json` quotes the text.

1. `RequestLogged`: a request whose body cannot be read (client gone, or task
   cancelled) has no access record: `_read_body` is awaited before the `try`.
2. `LifecycleStopAfterCrash`: a stopped event can follow the crashed one when
   the lifespan is in a server thread: the crash falls between the two reads
   of the reason, or a signal overwrites it. In the main thread it cannot
   (`InlineCrashEnds`).
3. `LifecycleCrashReason`: a signal between the hook's write and its read makes
   the crash record name the signal.
4. `RoutingWarnedOnce`: two threads that use the same logger first both warn. One
   thread alone does not (`OneThreadOnce`).
5. `RoutingUndeclared`: strict mode accepts a field allowed for a stream that the
   event does not declare; no handler carries it.
6. `SuiteInnerBlock`: a capture puts levels back by assignment, and the logging module
   keeps the answers of `isEnabledFor`. A logger asked inside an inner capture with
   a higher level stays silent for the outer one when the inner has ended. No
   other step leaves a stale answer (`AnswersKept`).
7. `SuiteResetRoot`: `reset_for_tests` registers the default root and leaves the handlers
   of `dictConfig`. After `configure()` under another root and a reset, a capture on the
   root detaches the loggers of the default root, and the real handlers of the other
   one stay live.

## 6. Assumptions and limits

- An endpoint leaves its `update_context` blocks in the order of its `with`
  statements before it ends; one that raises takes them with it. A synchronous
  endpoint runs in a worker thread with a copy of the context, as a child task
  does. A synchronous generator dependency that binds context and is left in
  another context is not modelled.
- The middleware's own `emit` calls do not raise. `LibraryCanLog` shows the part of
  this that the catalogue decides. A context field of the catalogue named like a
  field the library itself emits passes `validate_catalogue`, and `emit` then
  refuses the event: a hazard on the list that no property covers.
- `EndReported` names the way to end without a report: a `KeyboardInterrupt` inside
  the hook, before its record. No text of the repository says otherwise.
- `ServerFirst = FALSE` is explored in `LifecycleCrashReason` alone: the server then
  replaces the library's handlers, and `StopNamesSignal` does not hold. Code
  that uvicorn loads, such as a factory that calls the example's `setup_logging`,
  runs after it captured the signals, so its handlers come second.
- `configure()` and `reset_for_tests()` come while no capture is open, as in the
  fixtures of the repository, and each is one step: nothing logs from another
  thread meanwhile. A reset also drops the application under test, and with it the
  middleware.
- `Stray`: `dictConfig` leaves the handlers of a root where they are when the next
  document names another, so `TreeFollowsDocument`, `NothingLive` and `StillAttached`
  except the loggers of a root that was configured and left behind (`wired`). For
  the first, left behind by a later document; for the other two, also by a reset or
  a failed call. A root that was never configured is not excepted: that
  `app.service` reaches the debug stream alone once `svc` is configured
  (`tests/test_routing.py:148`) is checked. After `configure()` under `app` and then
  under `svc` the tree of `app` is still routed, against the words of that test's
  docstring; `configure()` is documented to be called once, so no run refutes it.
  `SuiteResetRoot` states `NothingLive` without the exception.
- A call of `configure()` that fails leaves `strict_fields` set as it asked, and may
  leave its root registered over the handlers of the root before, so that
  `report_outside_root` judges by another root than the handlers follow. The model
  does both; no property says what would be right.
- `ProcessReport` accounts for a stop that names any signal, arrived or not; that it
  arrived is `StopNamesSignal`, for `ServerFirst`.
- A second `configure()` may switch access records off under a middleware built
  before: it then finds no event for the record it still writes. `MiddlewareServes`
  excepts it, for the same reason.
- The warning about a logger outside the tree is logged on the internal logger,
  whose own kept answers are not followed: nobody else logs there. The warning
  about a missing `application_id` leaves no state.
- Layout, timestamps, stack traces, header cleaning and URL masking are left
  out: their results are values.

## 7. Not modelled

- `config.py` and `ini.py`: parsing of settings with no state; the results are
  constants.
- The rendering of the event overview and its command line: text. What it lists
  is in `EventRouting`.
- `correlation_headers` and `extract_context` only read; what the sanitizing leaves
  of a header is the value in `CorrelationOf`.
- `recorded_shutdown_reason` of `testing.py` is one write before a block and one after
  it; a property would restate the assignment. Its assertions and `CapturedRecords`
  are pure.
- A synchronous generator dependency that binds context in one task and leaves it
  in another: nothing in the repository binds context that way.
- Values of fields: only their names decide what is refused, allowed or kept.
- Tests, which were read as statements of what is expected; build, packaging
  and CI files.
