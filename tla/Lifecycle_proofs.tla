---------------------------- MODULE Lifecycle_proofs ----------------------------
(****************************************************************************)
(* What Lifecycle.tla promises for any set of signals, in either thread.    *)
(****************************************************************************)
EXTENDS Lifecycle, TLAPS

(* The inductive invariant. *)

\* The log tells how far the lifespan and the hook are.
LogShape ==
    /\ \A i \in 1 .. Len(log) :
           /\ log[i].event = "STARTED" => life # "idle"
           /\ log[i].event = "STOPPED" => life = "over"
           /\ log[i].event = "CRASHED" => hook = "over"
    /\ life # "idle" => \E i \in 1 .. Len(log) : log[i].event = "STARTED"

\* A crash is recorded by the hook, for an exception that left the main thread;
\* a server in that thread has let go of the signals by then.
CrashIsLate ==
    /\ reason = CRASH => hook # "none"
    /\ hook # "none" => pending # "none"
    /\ inline /\ hook # "none" => capture # "on"

\* A lifespan in the main thread is open under the server only.
OpenUnderServer ==
    inline /\ life \in {"serving", "leaving", "reporting"} => capture = "on"

IInv == TypeOK /\ LogShape /\ EventsOnce /\ CrashIsLate /\ OpenUnderServer /\ StoppedIsNoCrash

\* Once a crash was recorded in time, only a signal can make up for it.
Silenced ==
    /\ hook # "none" /\ reason # GRACEFUL
    /\ life = "reporting" => reason # CRASH
    /\ \A i \in 1 .. Len(log) : log[i].event = "STOPPED" => log[i].reason \in Signals

\* Under a server that captured the signals first, the library's handler comes
\* before the server's, and a signal delivered to an open lifespan is recorded.
Recorded ==
    inline /\ ServerFirst =>
        /\ capture = "off" => installed = {}
        /\ capture = "on" =>
               \A s \in installed : handler[s] # <<>> /\ Head(handler[s]) = "library"
        /\ life # "idle" => installed = Signals
        /\ life = "idle" => delivered = {}
        /\ life \in {"serving", "leaving", "reporting"} /\ delivered # {} => reason \in delivered

\* Under such a server every signal has the server among its handlers, and none
\* arrives at the library without it: a signal asks the server to stop.
Reaching ==
    inline /\ ServerFirst =>
        /\ capture = "off" =>
               /\ life = "idle" /\ reason \notin Signals
               /\ \A s \in Signals : handler[s] = <<>>
        /\ capture = "on" =>
               /\ \A s \in Signals : Captured(s)
               /\ reason \in Signals \/ delivered # {} => shouldExit
        /\ life = "idle" => delivered = {}

\* What SignalStops rests on: the server was asked to stop.
SignalReaches ==
    inline /\ life = "serving" /\ (reason \in Signals \/ delivered # {}) => shouldExit

\* The steps that log nothing.
SignalSteps == Setup \/ \E s \in Signals : Deliver(s)
Silent ==
    \/ SignalSteps \/ StopRequested \/ BodyEnds \/ BodyRaises \/ LifespanChecks
    \/ MainRaises \/ HookRecords \/ HookSkips

\* What a logged record adds to the log.
Adds(event, r) ==
    /\ log' \in Seq(Record)
    /\ Len(log') = Len(log) + 1 /\ Len(log) \in Nat
    /\ \A i \in 1 .. Len(log) : log'[i] = log[i]
    /\ log'[Len(log')] = [event |-> event, reason |-> r]

------------------------------------------------------------------------------
\* A step logs nothing, or is one of the three that log.
LEMMA StepCases ==
    ASSUME Next
    PROVE  Silent \/ LifespanEnters \/ LifespanReports \/ HookReports
  BY DEF Next, Progress, Crashing, Environment, Silent, SignalSteps

\* No step moves the lifespan to another thread.
LEMMA Placed == [Next]_vars => inline' = inline
  BY DEF Next, Progress, Crashing, Setup, Environment, LifespanEnters, BodyEnds, LifespanChecks,
         LifespanReports, HookRecords, HookSkips, HookReports, install_signal_handler,
         ServerCaptures, ServerReturns, StopRequested, BodyRaises, MainRaises, Deliver,
         vars, signalVars

\* Emit appends one record.
LEMMA EmitEffect ==
    ASSUME TypeOK, NEW event \in {"STARTED", "STOPPED", "CRASHED"}, NEW r \in Reasons,
           Emit(event, r)
    PROVE  Adds(event, r)
<1>1. log \in Seq(Record) /\ [event |-> event, reason |-> r] \in Record
  BY DEF TypeOK, Record
<1>2. log' = Append(log, [event |-> event, reason |-> r])
  BY DEF Emit
<1> QED
  BY <1>1, <1>2 DEF Adds

\* The silent steps leave the log, and never take the lifespan or the hook back.
LEMMA SilentEffect ==
    ASSUME TypeOK, Silent
    PROVE  /\ log' = log
           /\ life = "idle" <=> life' = "idle"
           /\ life = "over" => life' = "over"
           /\ hook = "over" => hook' = "over"
           /\ hook # "none" => hook' # "none"
  BY DEF Silent, SignalSteps, Setup, install_signal_handler, ServerCaptures, ServerReturns,
         Deliver, Interrupt, StopRequested, BodyEnds, BodyRaises, LifespanChecks, MainRaises,
         HookRecords, HookSkips, MainLeft, signalVars, mainVars, TypeOK

------------------------------------------------------------------------------
(* Each conjunct of the invariant is kept. *)

\* Delivering a signal keeps the types.
LEMMA TypeDeliver ==
    ASSUME TypeOK, NEW s \in Signals, Deliver(s)
    PROVE  TypeOK'
<1>1. reason' \in Reasons
  BY DEF Deliver, TypeOK, Reasons
<1>2. pending' \in {"none", "error", "interrupt"} /\ hook' \in {"none", "recorded", "over"}
  BY DEF Deliver, Interrupt, TypeOK
<1>3. killed' \in BOOLEAN
  BY DEF Deliver, Interrupt
<1>4. shouldExit' \in BOOLEAN /\ delivered' \subseteq Signals
  BY DEF Deliver, TypeOK, Captured
<1> QED
  BY <1>1, <1>2, <1>3, <1>4 DEF Deliver, TypeOK, signalVars

\* Installing handlers, the server's hold and its release keep the types.
LEMMA TypeSetup ==
    ASSUME TypeOK, Setup
    PROVE  TypeOK'
<1>1. ASSUME NEW s \in Signals, install_signal_handler(s) PROVE TypeOK'
  <2>1. <<"library">> \o handler[s] \in Seq({"library", "server"})
    BY DEF TypeOK, Handlers
  <2>2. handler' \in Handlers
    BY <1>1, <2>1 DEF install_signal_handler, TypeOK, Handlers
  <2> QED
    BY <1>1, <2>2 DEF install_signal_handler, TypeOK, mainVars
<1>2. ASSUME ServerCaptures PROVE TypeOK'
  <2>1. <<"server">> \in Seq({"library", "server"})
    OBVIOUS
  <2>2. handler' \in Handlers
    BY <1>2, <2>1 DEF ServerCaptures, Handlers
  <2> QED
    BY <1>2, <2>2 DEF ServerCaptures, TypeOK, mainVars
<1>3. ASSUME ServerReturns PROVE TypeOK'
  BY <1>3 DEF ServerReturns, TypeOK, mainVars
<1> QED
  BY <1>1, <1>2, <1>3 DEF Setup

\* Every step keeps the types.
LEMMA TypeStep ==
    ASSUME TypeOK, Next
    PROVE  TypeOK'
<1> USE DEF TypeOK, signalVars, mainVars
<1>1. ASSUME StopRequested \/ BodyEnds \/ BodyRaises \/ LifespanChecks PROVE TypeOK'
  BY <1>1 DEF StopRequested, BodyEnds, BodyRaises, LifespanChecks
<1>2. ASSUME MainRaises \/ HookRecords \/ HookSkips PROVE TypeOK'
  BY <1>2 DEF MainRaises, HookRecords, HookSkips, Reasons
<1>3. CASE LifespanEnters
  <2>1. Adds("STARTED", reason)
    BY <1>3, EmitEffect DEF LifespanEnters
  <2> QED
    BY <1>3, <2>1 DEF LifespanEnters, Adds
<1>4. CASE LifespanReports
  <2>1. Adds("STOPPED", reason)
    BY <1>4, EmitEffect DEF LifespanReports
  <2> QED
    BY <1>4, <2>1 DEF LifespanReports, Adds
<1>5. CASE HookReports
  <2>1. Adds("CRASHED", reason)
    BY <1>5, EmitEffect DEF HookReports
  <2> QED
    BY <1>5, <2>1 DEF HookReports, Adds
<1>6. CASE SignalSteps
  BY <1>6, TypeSetup, TypeDeliver DEF SignalSteps
<1> QED
  BY <1>1, <1>2, <1>3, <1>4, <1>5, <1>6, StepCases DEF Silent

\* The log keeps telling how far the lifespan and the hook are, once each.
LEMMA LogStep ==
    ASSUME IInv, Next
    PROVE  LogShape' /\ EventsOnce'
<1> USE DEF IInv
<1>1. CASE Silent
  BY <1>1, SilentEffect DEF LogShape, EventsOnce
<1>2. ASSUME NEW event \in {"STARTED", "STOPPED", "CRASHED"}, Adds(event, reason),
             \A i \in 1 .. Len(log) : log[i].event # event,
             event = "STOPPED" => \E i \in 1 .. Len(log) : log[i].event = "STARTED"
      PROVE  EventsOnce'
  <2>1. ASSUME NEW i \in 1 .. Len(log'), NEW j \in 1 .. Len(log'),
               log'[i].event = log'[j].event
        PROVE  i = j
    <3>1. i \in 1 .. Len(log) \/ i = Len(log')
      BY <1>2 DEF Adds
    <3>2. j \in 1 .. Len(log) \/ j = Len(log')
      BY <1>2 DEF Adds
    <3> QED
      BY <1>2, <2>1, <3>1, <3>2 DEF Adds, EventsOnce
  <2>2. ASSUME NEW j \in 1 .. Len(log'), log'[j].event = "STOPPED"
        PROVE  \E i \in 1 .. j - 1 : log'[i].event = "STARTED"
    <3>1. CASE j \in 1 .. Len(log)
      <4>1. PICK i \in 1 .. j - 1 : log[i].event = "STARTED"
        BY <1>2, <2>2, <3>1 DEF Adds, EventsOnce
      <4> QED
        BY <1>2, <3>1, <4>1 DEF Adds
    <3>2. CASE j = Len(log')
      <4>1. PICK i \in 1 .. Len(log) : log[i].event = "STARTED"
        BY <1>2, <2>2, <3>2 DEF Adds
      <4> QED
        BY <1>2, <3>2, <4>1 DEF Adds
    <3> QED
      BY <1>2, <3>1, <3>2 DEF Adds
  <2> QED
    BY <2>1, <2>2 DEF EventsOnce
<1>3. CASE LifespanEnters
  <2>1. Adds("STARTED", reason) /\ life = "idle" /\ life' = "serving" /\ hook' = hook
    BY <1>3, EmitEffect DEF LifespanEnters, mainVars, TypeOK
  <2>2. \A i \in 1 .. Len(log) : log[i].event # "STARTED"
    BY <2>1 DEF LogShape
  <2> QED
    BY <1>2, <2>1, <2>2 DEF LogShape, Adds
<1>4. CASE LifespanReports
  <2>1. Adds("STOPPED", reason) /\ life = "reporting" /\ life' = "over" /\ hook' = hook
    BY <1>4, EmitEffect DEF LifespanReports, mainVars, TypeOK
  <2>2. /\ \A i \in 1 .. Len(log) : log[i].event # "STOPPED"
        /\ \E i \in 1 .. Len(log) : log[i].event = "STARTED"
    BY <2>1 DEF LogShape
  <2>3. EventsOnce'
    BY <1>2, <2>1, <2>2
  <2>4. \A i \in 1 .. Len(log') :
            /\ log'[i].event = "STARTED" => life' # "idle"
            /\ log'[i].event = "STOPPED" => life' = "over"
            /\ log'[i].event = "CRASHED" => hook' = "over"
    <3> TAKE i \in 1 .. Len(log')
    <3>1. i \in 1 .. Len(log) \/ i = Len(log')
      BY <2>1 DEF Adds
    <3> QED
      BY <2>1, <3>1 DEF LogShape, Adds
  <2>5. \E i \in 1 .. Len(log') : log'[i].event = "STARTED"
    BY <2>1, <2>2 DEF Adds
  <2> QED
    BY <2>3, <2>4, <2>5 DEF LogShape
<1>5. CASE HookReports
  <2>1. Adds("CRASHED", reason) /\ hook = "recorded" /\ hook' = "over" /\ life' = life
    BY <1>5, EmitEffect DEF HookReports, TypeOK
  <2>2. \A i \in 1 .. Len(log) : log[i].event # "CRASHED"
    BY <2>1 DEF LogShape
  <2> QED
    BY <1>2, <2>1, <2>2 DEF LogShape, Adds
<1> QED
  BY <1>1, <1>3, <1>4, <1>5, StepCases

\* A crash stays late, and an open lifespan stays under its server.
LEMMA OrderStep ==
    ASSUME IInv, Next
    PROVE  CrashIsLate' /\ OpenUnderServer'
<1> USE DEF IInv, CrashIsLate, OpenUnderServer, signalVars, mainVars
<1>1. ASSUME NEW s \in Signals, Deliver(s) PROVE CrashIsLate' /\ OpenUnderServer'
  <2>1. reason' = s \/ reason' = reason
    BY <1>1 DEF Deliver
  <2>2. s # CRASH
    BY LifecycleAssumption
  <2>3. /\ hook' # "none" <=> hook # "none"
        /\ pending # "none" => pending' # "none"
    BY <1>1 DEF Deliver, Interrupt
  <2> QED
    BY <1>1, <2>1, <2>2, <2>3 DEF Deliver
<1>2. CASE Setup
  BY <1>2 DEF Setup, install_signal_handler, InstallPoint, ServerCaptures, ServerReturns
<1>3. CASE StopRequested \/ BodyEnds \/ BodyRaises \/ LifespanChecks
  BY <1>3 DEF StopRequested, BodyEnds, BodyRaises, LifespanChecks
<1>4. CASE MainRaises \/ HookRecords \/ HookSkips
  BY <1>4 DEF MainRaises, HookRecords, HookSkips, MainLeft
<1>5. CASE LifespanEnters \/ LifespanReports \/ HookReports
  BY <1>5 DEF LifespanEnters, LifespanReports, HookReports
<1> QED
  BY <1>1, <1>2, <1>3, <1>4, <1>5, StepCases DEF Silent, SignalSteps

\* A stopped event of the main thread is not logged with crash as its reason.
LEMMA StoppedStep ==
    ASSUME IInv, Next
    PROVE  StoppedIsNoCrash'
<1> USE DEF IInv, StoppedIsNoCrash
<1>0. inline' = inline
  BY Placed
<1>1. CASE Silent
  BY <1>1, <1>0, SilentEffect
<1>2. CASE LifespanEnters
  <2>1. Adds("STARTED", reason)
    BY <1>2, EmitEffect DEF LifespanEnters, TypeOK
  <2> QED
    BY <1>0, <2>1 DEF Adds
<1>3. CASE LifespanReports
  <2>1. Adds("STOPPED", reason) /\ life = "reporting"
    BY <1>3, EmitEffect DEF LifespanReports, TypeOK
  <2>2. inline => reason # CRASH
    BY <2>1 DEF OpenUnderServer, CrashIsLate
  <2> QED
    BY <1>0, <2>1, <2>2 DEF Adds
<1>4. CASE HookReports
  <2>1. Adds("CRASHED", reason)
    BY <1>4, EmitEffect DEF HookReports, TypeOK
  <2> QED
    BY <1>0, <2>1 DEF Adds
<1> QED
  BY <1>1, <1>2, <1>3, <1>4, StepCases

\* The invariant holds when the process starts.
LEMMA Initialised == Init => IInv
<1> SUFFICES ASSUME Init PROVE IInv
  OBVIOUS
<1>1. handler \in Handlers /\ log \in Seq(Record)
  BY DEF Init, Handlers
<1>2. TypeOK
  BY <1>1, LifecycleAssumption DEF Init, TypeOK, Reasons
<1>3. LogShape /\ EventsOnce /\ StoppedIsNoCrash
  BY DEF Init, LogShape, EventsOnce, StoppedIsNoCrash
<1>4. CrashIsLate /\ OpenUnderServer
  BY LifecycleAssumption DEF Init, CrashIsLate, OpenUnderServer
<1> QED
  BY <1>2, <1>3, <1>4 DEF IInv

\* Every step keeps the invariant.
LEMMA Preserved == IInv /\ [Next]_vars => IInv'
<1>1. ASSUME IInv, Next PROVE IInv'
  BY <1>1, TypeStep, LogStep, OrderStep, StoppedStep DEF IInv
<1>2. ASSUME IInv, UNCHANGED vars PROVE IInv'
  BY <1>2 DEF IInv, TypeOK, LogShape, EventsOnce, CrashIsLate, OpenUnderServer,
              StoppedIsNoCrash, vars, signalVars, mainVars
<1> QED
  BY <1>1, <1>2

\* The inductive invariant of the lifecycle: the log is in step with the
\* lifespan and the hook, and a crash is recorded only after the server is gone.
THEOREM Invariance == Spec => []IInv
  BY Initialised, Preserved, PTL DEF Spec

\* Every variable keeps its type.
THEOREM Typing == Spec => []TypeOK
<1>1. IInv => TypeOK
  BY DEF IInv
<1> QED
  BY <1>1, Invariance, PTL

\* Start, stop and crash are each reported once at most, a stop after a start.
THEOREM Once == Spec => []EventsOnce
<1>1. IInv => EventsOnce
  BY DEF IInv
<1> QED
  BY <1>1, Invariance, PTL

\* The two reads of the reason cannot make a stop of the main thread a crash.
THEOREM NoCrashStop == Spec => []StoppedIsNoCrash
<1>1. IInv => StoppedIsNoCrash
  BY DEF IInv
<1> QED
  BY <1>1, Invariance, PTL

------------------------------------------------------------------------------
(* A crash that is recorded in time silences the stopped event. *)

\* Nothing but the hook's single visit records a crash.
LEMMA SilencedStep == IInv /\ Silenced /\ [Next]_vars => Silenced'
<1> SUFFICES ASSUME IInv, Silenced, [Next]_vars PROVE Silenced'
  OBVIOUS
<1>1. TypeOK
  BY DEF IInv
<1>2. ASSUME NEW s \in Signals, Deliver(s) PROVE Silenced'
  <2>1. (reason' = s \/ reason' = reason) /\ s # CRASH /\ s # GRACEFUL
    BY <1>2, LifecycleAssumption DEF Deliver
  <2>2. hook' # "none" /\ life' = life /\ log' = log
    BY <1>2 DEF Deliver, Interrupt, Silenced
  <2> QED
    BY <2>1, <2>2 DEF Silenced
<1>3. CASE Setup
  BY <1>3 DEF Setup, install_signal_handler, ServerCaptures, ServerReturns, Silenced, mainVars
<1>4. CASE StopRequested \/ BodyEnds \/ BodyRaises \/ LifespanChecks
  BY <1>4 DEF StopRequested, BodyEnds, BodyRaises, LifespanChecks, Silenced, mainVars
<1>5. CASE MainRaises \/ HookRecords \/ HookSkips
  BY <1>5 DEF MainRaises, HookRecords, HookSkips, MainLeft, Silenced
<1>6. CASE LifespanEnters
  <2>1. Adds("STARTED", reason)
    BY <1>1, <1>6, EmitEffect DEF LifespanEnters, TypeOK
  <2> QED
    BY <1>6, <2>1 DEF LifespanEnters, Adds, Silenced, mainVars
<1>7. CASE LifespanReports
  <2>1. Adds("STOPPED", reason)
    BY <1>1, <1>7, EmitEffect DEF LifespanReports, TypeOK
  <2>2. reason \in Signals
    BY <1>1, <1>7 DEF LifespanReports, Silenced, TypeOK, Reasons
  <2> QED
    BY <1>7, <2>1, <2>2 DEF LifespanReports, Adds, Silenced, mainVars
<1>8. CASE HookReports
  <2>1. Adds("CRASHED", reason)
    BY <1>1, <1>8, EmitEffect DEF HookReports, TypeOK
  <2> QED
    BY <1>8, <2>1 DEF HookReports, Adds, Silenced
<1>9. CASE UNCHANGED vars
  BY <1>9 DEF Silenced, vars, mainVars
<1> QED
  BY <1>2, <1>3, <1>4, <1>5, <1>6, <1>7, <1>8, <1>9, StepCases DEF Silent, SignalSteps

\* A crash recorded before the lifespan looks is never followed by a stopped
\* event, unless a signal takes the reason over, in either thread.
THEOREM Silence == Spec => CrashSilencesStop
<1>1. IInv /\ reason = CRASH /\ life \in {"idle", "serving", "leaving"} => Silenced
  BY LifecycleAssumption DEF IInv, CrashIsLate, LogShape, Silenced
<1>2. Silenced =>
        \A i \in 1 .. Len(log) : log[i].event = "STOPPED" => log[i].reason \in Signals
  BY DEF Silenced
<1> QED
  BY <1>1, <1>2, SilencedStep, Invariance, PTL DEF Spec, CrashSilencesStop

------------------------------------------------------------------------------
(* A stop after a signal names the signal. *)

\* What Recorded says holds when the process starts and is kept.
LEMMA RecordedStep ==
    /\ Init => Recorded
    /\ IInv /\ Recorded /\ [Next]_vars => Recorded'
<1>1. Init => Recorded
  BY DEF Init, Recorded
<1> SUFFICES ASSUME IInv, Recorded, [Next]_vars, inline, ServerFirst PROVE Recorded'
  BY <1>1, Placed DEF Recorded
<1>2. TypeOK /\ CrashIsLate /\ OpenUnderServer
  BY DEF IInv
<1>3. ASSUME NEW s \in Signals, Deliver(s) PROVE Recorded'
  <2>1. UNCHANGED <<signalVars, life>>
    BY <1>3 DEF Deliver
  <2>2. life = "idle" => delivered' = {}
    BY <1>3 DEF Deliver
  <2>3. life \in {"serving", "leaving", "reporting"} => reason' \in delivered'
    BY <1>2, <1>3 DEF Deliver, OpenUnderServer, Recorded
  <2> QED
    BY <2>1, <2>2, <2>3 DEF Recorded, signalVars
<1>4. ASSUME NEW s \in Signals, install_signal_handler(s) PROVE Recorded'
  <2>1. capture = "on" /\ life = "idle"
    BY <1>4 DEF install_signal_handler, InstallPoint
  <2>2. handler' = [handler EXCEPT ![s] = <<"library">> \o @]
    BY <1>4 DEF install_signal_handler
  <2>3. handler[s] \in Seq({"library", "server"}) /\ handler \in [Signals -> Seq({"library", "server"})]
    BY <1>2 DEF TypeOK, Handlers
  <2>4. handler'[s] # <<>> /\ Head(handler'[s]) = "library"
    BY <2>2, <2>3
  <2>5. \A q \in Signals \ {s} : handler'[q] = handler[q]
    BY <2>2, <2>3
  <2>6. installed' = installed \cup {s} /\ installed \subseteq Signals
    BY <1>2, <1>4 DEF install_signal_handler, TypeOK
  <2>7. UNCHANGED <<capture, life, delivered, reason>>
    BY <1>4 DEF install_signal_handler
  <2> QED
    BY <2>1, <2>4, <2>5, <2>6, <2>7 DEF Recorded
<1>5. CASE ServerCaptures \/ ServerReturns
  BY <1>5 DEF ServerCaptures, ServerReturns, Recorded
<1>6. CASE StopRequested \/ BodyEnds \/ BodyRaises \/ LifespanChecks
  BY <1>6 DEF StopRequested, BodyEnds, BodyRaises, LifespanChecks, Recorded, signalVars
<1>7. CASE MainRaises \/ HookSkips \/ HookReports
  BY <1>7 DEF MainRaises, HookSkips, HookReports, Recorded, signalVars
<1>8. CASE HookRecords
  BY <1>2, <1>8 DEF HookRecords, MainLeft, OpenUnderServer, Recorded, signalVars
<1>9. CASE LifespanEnters \/ LifespanReports
  BY <1>9 DEF LifespanEnters, LifespanReports, Recorded, signalVars
<1>10. CASE UNCHANGED vars
  BY <1>10 DEF Recorded, vars, signalVars
<1> QED
  BY <1>3, <1>4, <1>5, <1>6, <1>7, <1>8, <1>9, <1>10, StepCases DEF Silent, SignalSteps, Setup

\* Under a server that captured the signals before the application installed
\* its handlers, a stop after a signal is reported with a signal that arrived.
THEOREM SignalNamed == ServerFirst => (Spec => StopNamesSignal)
<1> SUFFICES ASSUME ServerFirst PROVE Spec => StopNamesSignal
  OBVIOUS
<1>1. ASSUME IInv, Recorded, Next
      PROVE  inline /\ ~Logged("STOPPED") /\ Logged("STOPPED")' /\ delivered # {} =>
                 log'[Len(log')].reason \in delivered
  <2>1. TypeOK
    BY <1>1 DEF IInv
  <2>2. CASE Silent
    BY <2>1, <2>2, SilentEffect DEF Logged
  <2>3. CASE LifespanEnters
    <3>1. Adds("STARTED", reason)
      BY <2>1, <2>3, EmitEffect DEF LifespanEnters, TypeOK
    <3> QED
      BY <3>1 DEF Adds, Logged
  <2>4. CASE LifespanReports
    <3>1. Adds("STOPPED", reason) /\ life = "reporting"
      BY <2>1, <2>4, EmitEffect DEF LifespanReports, TypeOK
    <3> QED
      BY <1>1, <3>1 DEF Adds, Recorded
  <2>5. CASE HookReports
    <3>1. Adds("CRASHED", reason)
      BY <2>1, <2>5, EmitEffect DEF HookReports, TypeOK
    <3> QED
      BY <3>1 DEF Adds, Logged
  <2> QED
    BY <1>1, <2>2, <2>3, <2>4, <2>5, StepCases
<1>2. UNCHANGED vars => (Logged("STOPPED")' <=> Logged("STOPPED"))
  BY DEF vars, Logged
<1> QED
  BY <1>1, <1>2, RecordedStep, Invariance, PTL DEF Spec, StopNamesSignal

------------------------------------------------------------------------------
(* A signal reaches the server. *)

\* The library's handler leaves the server's below its own, so what Reaching says
\* is kept.
LEMMA ReachingStep ==
    /\ Init => Reaching
    /\ IInv /\ Reaching /\ [Next]_vars => Reaching'
<1>1. Init => Reaching
  BY LifecycleAssumption DEF Init, Reaching
<1> SUFFICES ASSUME IInv, Reaching, [Next]_vars, inline, ServerFirst PROVE Reaching'
  BY <1>1, Placed DEF Reaching
<1>2. TypeOK /\ OpenUnderServer
  BY DEF IInv
<1>3. UNCHANGED handler => \A q : Captured(q)' <=> Captured(q)
  BY DEF Captured
<1>4. ASSUME NEW s \in Signals, Deliver(s) PROVE Reaching'
  <2>1. UNCHANGED <<capture, handler, life>> /\ (life = "idle" => delivered' = {})
    BY <1>4 DEF Deliver, signalVars
  <2>2. capture = "off" => reason' = reason
    BY <1>4 DEF Deliver, Reaching
  <2>3. capture = "on" => shouldExit'
    BY <1>4 DEF Deliver, Reaching
  <2> QED
    BY <1>3, <2>1, <2>2, <2>3 DEF Reaching
<1>5. ASSUME NEW s \in Signals, install_signal_handler(s) PROVE Reaching'
  <2>1. capture = "on" /\ life = "idle"
        /\ UNCHANGED <<capture, life, delivered, reason, shouldExit>>
    BY <1>5 DEF install_signal_handler, InstallPoint
  <2>2. handler' = [handler EXCEPT ![s] = <<"library">> \o @]
    BY <1>5 DEF install_signal_handler
  <2>3. handler \in [Signals -> Seq({"library", "server"})]
    BY <1>2 DEF TypeOK, Handlers
  <2>4. ASSUME NEW q \in Signals PROVE Captured(q)'
    <3>1. PICK i \in 1 .. Len(handler[q]) : handler[q][i] = "server"
      BY <2>1 DEF Reaching, Captured
    <3>2. CASE q = s
      <4>1. /\ handler'[q] = <<"library">> \o handler[q]
            /\ handler[q] \in Seq({"library", "server"})
        BY <2>2, <2>3, <3>2
      <4>2. Len(handler'[q]) = Len(handler[q]) + 1 /\ handler'[q][i + 1] = handler[q][i]
        BY <3>1, <4>1
      <4>3. i + 1 \in 1 .. Len(handler'[q])
        BY <3>1, <4>1, <4>2
      <4> QED
        BY <3>1, <4>2, <4>3 DEF Captured
    <3>3. CASE q # s
      BY <2>2, <2>3, <3>1, <3>3 DEF Captured
    <3> QED
      BY <3>2, <3>3
  <2> QED
    BY <2>1, <2>4 DEF Reaching
<1>6. CASE ServerCaptures
  <2>1. \A q \in Signals : Captured(q)'
    BY <1>6 DEF ServerCaptures, Captured
  <2>2. delivered = {} /\ reason \notin Signals
    BY <1>6 DEF ServerCaptures, Reaching
  <2> QED
    BY <1>6, <2>1, <2>2 DEF ServerCaptures, Reaching
<1>7. CASE ServerReturns
  BY <1>7 DEF ServerReturns, Reaching
<1>8. CASE StopRequested \/ BodyEnds \/ BodyRaises \/ LifespanChecks
  BY <1>3, <1>8 DEF StopRequested, BodyEnds, BodyRaises, LifespanChecks, Reaching, signalVars
<1>9. CASE MainRaises \/ HookSkips \/ HookReports
  BY <1>3, <1>9 DEF MainRaises, HookSkips, HookReports, Reaching, signalVars
<1>10. CASE HookRecords
  BY <1>3, <1>10, LifecycleAssumption DEF HookRecords, MainLeft, Reaching, signalVars
<1>11. CASE LifespanEnters \/ LifespanReports
  BY <1>3, <1>11 DEF LifespanEnters, LifespanReports, Reaching, signalVars
<1>12. CASE UNCHANGED vars
  BY <1>3, <1>12 DEF Reaching, vars, signalVars
<1> QED
  BY <1>4, <1>5, <1>6, <1>7, <1>8, <1>9, <1>10, <1>11, <1>12, StepCases
     DEF Silent, SignalSteps, Setup

\* A signal that was recorded, or that arrived at an open lifespan, has asked the
\* server to stop, whatever signals there are and however often they arrive.  (That
\* the server then stops is its own doing, see SignalStops.)
THEOREM SignalHeeded == ServerFirst => (Spec => []SignalReaches)
<1> SUFFICES ASSUME ServerFirst PROVE Spec => []SignalReaches
  OBVIOUS
<1>1. IInv /\ Reaching => SignalReaches
  BY DEF IInv, OpenUnderServer, Reaching, SignalReaches
<1> QED
  BY <1>1, ReachingStep, Invariance, PTL DEF Spec

------------------------------------------------------------------------------
(* Stops after a crash. *)

\* When the lifespan runs in the main thread no stopped event follows a crash:
\* the ones that do are of a server thread.
InlineInOrder == inline => NoStopAfterCrash

\* A lifespan that reports in the main thread finds no crash in the log.
LEMMA InlineStep ==
    ASSUME IInv, InlineInOrder, [Next]_vars
    PROVE  InlineInOrder'
<1> SUFFICES ASSUME inline PROVE NoStopAfterCrash'
  BY Placed DEF InlineInOrder
<1>1. TypeOK /\ LogShape /\ CrashIsLate /\ OpenUnderServer /\ NoStopAfterCrash
  BY DEF IInv, InlineInOrder
<1>2. CASE UNCHANGED vars \/ Silent
  <2>1. log' = log
    BY <1>1, <1>2, SilentEffect DEF vars
  <2> QED
    BY <1>1, <2>1 DEF NoStopAfterCrash
<1>3. CASE LifespanEnters
  <2>1. Adds("STARTED", reason)
    BY <1>1, <1>3, EmitEffect DEF LifespanEnters, TypeOK
  <2> QED
    BY <1>1, <2>1 DEF Adds, NoStopAfterCrash
<1>4. CASE LifespanReports
  <2>1. Adds("STOPPED", reason)
    BY <1>1, <1>4, EmitEffect DEF LifespanReports, TypeOK
  <2>2. hook = "none"
    BY <1>1, <1>4 DEF LifespanReports, OpenUnderServer, CrashIsLate
  <2>3. \A i \in 1 .. Len(log) : log[i].event # "CRASHED"
    BY <1>1, <2>2 DEF LogShape
  <2> QED
    BY <2>1, <2>3 DEF Adds, NoStopAfterCrash
<1>5. CASE HookReports
  <2>1. Adds("CRASHED", reason)
    BY <1>1, <1>5, EmitEffect DEF HookReports, TypeOK
  <2> QED
    BY <1>1, <2>1 DEF Adds, NoStopAfterCrash
<1> QED
  BY <1>2, <1>3, <1>4, <1>5, StepCases

\* What docs/STARTING_GUIDE.md says of stopped events after a crash does hold of
\* a lifespan in the main thread, whatever raises, and whatever signals arrive.
THEOREM InlineCrashEnds == Spec => [](inline => NoStopAfterCrash)
<1>1. Init => InlineInOrder
  BY DEF Init, InlineInOrder, NoStopAfterCrash
<1> QED
  BY <1>1, InlineStep, Invariance, PTL DEF Spec, InlineInOrder
================================================================================
