------------------------------- MODULE Lifecycle -------------------------------
(****************************************************************************)
(* How a process reports its start and its end (lifecycle.py): the shutdown *)
(* reason, the signal handlers, sys.excepthook and lifespan_logging.        *)
(*                                                                          *)
(* inline: the lifespan and the server that drives it run in the main       *)
(* thread, as under uvicorn; otherwise both run in a thread of their own.   *)
(* A process keeps to one of the two.                                       *)
(* Python runs signal handlers in the main thread, between any two of its   *)
(* steps, and sys.excepthook when an exception has left the main thread's   *)
(* last frame.  The reason is read and written without a lock, so every     *)
(* read of it is a step of its own.                                         *)
(****************************************************************************)
EXTENDS Naturals, Sequences

CONSTANTS
    Signals,       \* the signals the application installs handlers for
    Interrupting,  \* those whose default raises KeyboardInterrupt: SIGINT
    Placements,    \* the values inline may take
    ServerFirst,   \* the server has its handlers when the application installs
    GRACEFUL, CRASH

ASSUME LifecycleAssumption ==
    /\ Interrupting \subseteq Signals
    /\ Placements \subseteq BOOLEAN /\ ServerFirst \in BOOLEAN
    /\ GRACEFUL # CRASH /\ {GRACEFUL, CRASH} \cap Signals = {}

VARIABLES
    inline,       \* the lifespan runs in the main thread
    reason,       \* _shutdown_reason; a signal stands for "signal:<its name>"
    handler,      \* handler[s]: the Python handlers of s, the outermost first
    installed,    \* the signals install_signal_handlers is through with
    capture,      \* the server's hold on the signals
    found,        \* the handlers the server found, which it puts back
    shouldExit,   \* the server was asked to stop
    life,         \* where lifespan_logging is
    pending,      \* the exception on its way out of the main thread
    hook,         \* where the excepthook is
    killed,       \* the process is gone: a default action, an interrupted wait
    delivered,    \* the signals that arrived since the lifespan was entered
    log           \* the lifecycle records, in order

signalVars == <<inline, handler, installed, capture, found>>
mainVars == <<pending, hook, killed>>
vars == <<reason, signalVars, shouldExit, life, mainVars, delivered, log>>

Reasons == {GRACEFUL, CRASH} \cup Signals
Handlers == [Signals -> Seq({"library", "server"})]
Record == [event : {"STARTED", "STOPPED", "CRASHED"}, reason : Reasons]

TypeOK ==
    /\ reason \in Reasons /\ inline \in BOOLEAN
    /\ handler \in Handlers /\ found \in Handlers
    /\ capture \in {"off", "on", "over"}
    /\ installed \subseteq Signals /\ delivered \subseteq Signals
    /\ shouldExit \in BOOLEAN /\ killed \in BOOLEAN
    /\ life \in {"idle", "serving", "leaving", "reporting", "over"}
    /\ pending \in {"none", "error", "interrupt"}
    /\ hook \in {"none", "recorded", "over"}
    /\ log \in Seq(Record)

Init ==
    /\ reason = GRACEFUL /\ inline \in Placements
    /\ handler = [s \in Signals |-> <<>>] /\ found = handler
    /\ installed = {} /\ capture = "off" /\ delivered = {}
    /\ shouldExit = FALSE /\ killed = FALSE
    /\ life = "idle" /\ pending = "none" /\ hook = "none"
    /\ log = <<>>

Emit(event, r) == log' = Append(log, [event |-> event, reason |-> r])

\* An exception is out of the main thread's last frame.
MainLeft == hook = "none" /\ capture # "on"

\* After the hook the interpreter still waits for the server's thread.
MainAlive == hook # "over" \/ (~inline /\ life # "over")

------------------------------------------------------------------------------
(* Signals. *)

Captured(s) == \E i \in 1 .. Len(handler[s]) : handler[s][i] = "server"

InstallPoint(s) ==
    /\ s \notin installed /\ life = "idle" /\ pending = "none"
    /\ inline => capture = IF ServerFirst THEN "on" ELSE "off"

\* Mutant: the handler that was installed is replaced, not kept.
ReplaceHandler(s) ==
    /\ InstallPoint(s)
    /\ handler' = [handler EXCEPT ![s] = <<"library">>]
    /\ installed' = installed \cup {s}
    /\ UNCHANGED <<inline, reason, capture, found, shouldExit, life, mainVars, delivered, log>>

\* The library's handler goes over the one it finds; outside the main thread
\* signal.signal refuses and the handler is left as it is.
install_signal_handler(s) ==
    /\ InstallPoint(s)
    /\ \/ handler' = [handler EXCEPT ![s] = <<"library">> \o @]
       \/ ~inline /\ UNCHANGED handler
    /\ installed' = installed \cup {s}
    /\ UNCHANGED <<inline, reason, capture, found, shouldExit, life, mainVars, delivered, log>>

\* The server's handlers replace what it finds, in the main thread only.
ServerCaptures ==
    /\ inline /\ capture = "off" /\ pending = "none"
    /\ ServerFirst \/ installed = Signals
    /\ capture' = "on" /\ found' = handler
    /\ handler' = [s \in Signals |-> <<"server">>]
    /\ UNCHANGED <<inline, reason, installed, shouldExit, life, mainVars, delivered, log>>

\* The server returns or lets an exception out, and puts back what it found.
\* (It then raises the signals it caught once more: a Deliver like any other.)
ServerReturns ==
    /\ capture = "on"
    /\ life = "over" \/ (life = "idle" /\ pending # "none")
    /\ capture' = "over" /\ handler' = found
    /\ UNCHANGED <<inline, reason, installed, found, shouldExit, life, mainVars, delivered, log>>

\* A KeyboardInterrupt takes the place of what the main thread was doing: the
\* exception on its way out, the hook before its record, or the final wait.
Interrupt ==
    /\ pending' = IF hook = "none" THEN "interrupt" ELSE pending
    /\ hook' = IF hook = "recorded" THEN "over" ELSE hook
    /\ killed' = (hook = "over")

\* The handler of s runs: the library's records the reason and calls the one
\* below it if that is callable, the server's asks the server to stop.
Deliver(s) ==
    /\ MainAlive
    /\ delivered' = IF life = "idle" THEN {} ELSE delivered \cup {s}
    /\ reason' = IF handler[s] # <<>> /\ Head(handler[s]) = "library" THEN s ELSE reason
    /\ shouldExit' = (shouldExit \/ Captured(s))
    /\ IF ~Captured(s) /\ s \in Interrupting
       THEN Interrupt
       ELSE killed' = (handler[s] = <<>>) /\ UNCHANGED <<pending, hook>>
    /\ UNCHANGED <<signalVars, life, log>>

------------------------------------------------------------------------------
(* lifespan_logging. *)

LifespanEnters ==
    /\ life = "idle" /\ installed = Signals
    /\ inline => capture = "on" /\ pending = "none"
    /\ life' = "serving"
    /\ Emit("STARTED", reason)
    /\ UNCHANGED <<reason, signalVars, shouldExit, mainVars, delivered>>

\* The application or a limit of the server asks for the end.
StopRequested ==
    /\ life = "serving" /\ ~shouldExit
    /\ shouldExit' = TRUE
    /\ UNCHANGED <<reason, signalVars, life, mainVars, delivered, log>>

BodyEnds ==
    /\ life = "serving" /\ shouldExit
    /\ life' = "leaving"
    /\ UNCHANGED <<reason, signalVars, shouldExit, mainVars, delivered, log>>

\* The body raises; on the main thread the server may let the exception out.
BodyRaises ==
    /\ life = "serving"
    /\ life' = "leaving"
    /\ \/ UNCHANGED pending
       \/ inline /\ pending' = "error"
    /\ UNCHANGED <<reason, signalVars, shouldExit, hook, killed, delivered, log>>

\* Mutants: a crash is reported by the lifespan as well; only a graceful stop
\* is reported.
CheckNothing ==
    /\ life = "leaving"
    /\ life' = "reporting"
    /\ UNCHANGED <<reason, signalVars, shouldExit, mainVars, delivered, log>>

CheckGraceful ==
    /\ life = "leaving"
    /\ life' = IF reason = GRACEFUL THEN "reporting" ELSE "over"
    /\ UNCHANGED <<reason, signalVars, shouldExit, mainVars, delivered, log>>

LifespanChecks ==
    /\ life = "leaving"
    /\ life' = IF reason # CRASH THEN "reporting" ELSE "over"
    /\ UNCHANGED <<reason, signalVars, shouldExit, mainVars, delivered, log>>

\* Mutant: the stop is reported as graceful whatever asked for it.
ReportGraceful ==
    /\ life = "reporting"
    /\ life' = "over"
    /\ Emit("STOPPED", GRACEFUL)
    /\ UNCHANGED <<reason, signalVars, shouldExit, mainVars, delivered>>

\* The reason is read again.
LifespanReports ==
    /\ life = "reporting"
    /\ life' = "over"
    /\ Emit("STOPPED", reason)
    /\ UNCHANGED <<reason, signalVars, shouldExit, mainVars, delivered>>

------------------------------------------------------------------------------
(* install_excepthook's hook. *)

\* Code outside the lifespan raises: the wiring, the loading of the
\* application, or whatever the main thread does next to the server's thread.
MainRaises ==
    /\ hook = "none" /\ pending = "none"
    /\ inline => life \in {"idle", "over"}
    /\ pending' = "error"
    /\ UNCHANGED <<reason, signalVars, shouldExit, life, hook, killed, delivered, log>>

\* Mutants: the reason is recorded as the exception is raised; the exception
\* is recorded in place of the reason.
RecordEarly ==
    /\ hook = "none" /\ pending = "error"
    /\ hook' = "recorded" /\ reason' = CRASH
    /\ UNCHANGED <<signalVars, shouldExit, life, pending, killed, delivered, log>>

RecordException ==
    /\ MainLeft /\ pending = "error"
    /\ hook' = "recorded" /\ reason' = pending
    /\ UNCHANGED <<signalVars, shouldExit, life, pending, killed, delivered, log>>

HookRecords ==
    /\ MainLeft /\ pending = "error"
    /\ hook' = "recorded" /\ reason' = CRASH
    /\ UNCHANGED <<signalVars, shouldExit, life, pending, killed, delivered, log>>

\* A KeyboardInterrupt is left to the default hook.
HookSkips ==
    /\ MainLeft /\ pending = "interrupt"
    /\ hook' = "over"
    /\ UNCHANGED <<reason, signalVars, shouldExit, life, pending, killed, delivered, log>>

\* Mutant: the hook may run twice.
HookRepeats ==
    /\ hook = "recorded" /\ Len(log) < 5
    /\ Emit("CRASHED", reason)
    /\ UNCHANGED <<reason, signalVars, shouldExit, life, mainVars, delivered>>

\* The reason is read again for the crash record.
HookReports ==
    /\ hook = "recorded"
    /\ hook' = "over"
    /\ Emit("CRASHED", reason)
    /\ UNCHANGED <<reason, signalVars, shouldExit, life, pending, killed, delivered>>

------------------------------------------------------------------------------
Progress ==
    \/ LifespanEnters \/ BodyEnds \/ LifespanChecks \/ LifespanReports

Crashing == HookRecords \/ HookSkips \/ HookReports

Setup ==
    \/ \E s \in Signals : install_signal_handler(s)
    \/ ServerCaptures \/ ServerReturns

Environment ==
    StopRequested \/ BodyRaises \/ MainRaises \/ \E s \in Signals : Deliver(s)

Next == ~killed /\ (Progress \/ Crashing \/ Setup \/ Environment)

Spec == Init /\ [][Next]_vars

\* Fairness: a server that was asked to stop leaves the lifespan and returns
\* once that is over, and neither the finally clause of the lifespan nor the
\* hook stops between two lines.
FairSpec ==
    Spec /\ WF_vars(~killed /\ (Progress \/ ServerReturns)) /\ WF_vars(~killed /\ Crashing)

------------------------------------------------------------------------------
(* How the process report is implemented. *)

Logged(event) == \E i \in 1 .. Len(log) : log[i].event = event

ReportLifespan ==
    CASE life = "idle" -> "before"
      [] life = "over" -> "closed"
      [] OTHER         -> "open"

ReportCrash ==
    CASE hook = "recorded" -> "seen"
      [] hook = "over" /\ pending = "error" -> IF Logged("CRASHED") THEN "told" ELSE "lost"
      [] OTHER -> "none"

Report == INSTANCE ProcessReport WITH
    MayLose <- Interrupting # {}, lifespan <- ReportLifespan, crash <- ReportCrash,
    records <- log

\* The end of a lifespan is reported or left to a crash, each crash is reported
\* once, and no reason is made up: the reads and writes of the reason, the
\* signals and the server behind that are steps of the report or none.
ImplementsReport == Report!Spec

------------------------------------------------------------------------------
(* Properties. *)

\* No lifecycle event is reported twice, and a process that reports its stop
\* has reported its start before.
EventsOnce ==
    /\ \A i, j \in 1 .. Len(log) : log[i].event = log[j].event => i = j
    /\ \A j \in 1 .. Len(log) : log[j].event = "STOPPED" =>
           \E i \in 1 .. j - 1 : log[i].event = "STARTED"

\* When the lifespan runs in the main thread the stopped event never gives
\* crash as its reason, though the reason is read twice.
StoppedIsNoCrash ==
    \A i \in 1 .. Len(log) : inline /\ log[i].event = "STOPPED" => log[i].reason # CRASH

\* When signals arrived while a lifespan of the main thread was open, the
\* stopped event names one of them, though the reason is read twice and may be
\* overwritten.
StopNamesSignal ==
    [][inline /\ ~Logged("STOPPED") /\ Logged("STOPPED")' /\ delivered # {} =>
           log'[Len(log')].reason \in delivered]_vars

\* A crash that is recorded before the lifespan looks at the reason is never
\* followed by a stopped event with another reason than a signal's.
CrashSilencesStop ==
    [](reason = CRASH /\ life \in {"idle", "serving", "leaving"} =>
           [](\A i \in 1 .. Len(log) : log[i].event = "STOPPED" => log[i].reason \in Signals))

\* A lifespan that is left is reported, as a stop by itself or as a crash by the
\* hook.  Nothing but a KeyboardInterrupt inside the hook can leave neither.
EndReported ==
    life = "leaving" ~>
        \/ Logged("STOPPED") \/ Logged("CRASHED") \/ killed
        \/ Interrupting # {} /\ hook = "over" /\ pending = "error"

\* No lifespan is over in silence: unless its stop was reported, a crash is, or
\* its record is still to come, or a KeyboardInterrupt took it away.
EndAccounted ==
    life = "over" =>
        \/ Logged("STOPPED") \/ Logged("CRASHED") \/ hook = "recorded"
        \/ Interrupting # {} /\ hook = "over" /\ pending = "error"

\* A signal the library recorded still reaches the server of the main thread,
\* which stops.
SignalStops ==
    inline /\ life = "serving" /\ reason \in Signals ~> life = "over"

\* After a crash there is no stopped event (docs/STARTING_GUIDE.md).
NoStopAfterCrash ==
    \A i, j \in 1 .. Len(log) :
        log[i].event = "CRASHED" /\ log[j].event = "STOPPED" => j < i

\* A crash record gives crash as its reason (tests/test_lifecycle.py).
CrashSaysCrash ==
    \A i \in 1 .. Len(log) : log[i].event = "CRASHED" => log[i].reason = CRASH
================================================================================
