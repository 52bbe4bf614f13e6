-------------------------- MODULE ProcessReport_proofs --------------------------
(****************************************************************************)
(* Lifecycle implements ProcessReport, for any set of signals, in either    *)
(* thread and whoever installs its handlers first; and what a report that   *)
(* is still to come rests on.                                               *)
(****************************************************************************)
EXTENDS Lifecycle_proofs

\* An exception the hook has seen keeps its mark: the reason is a crash or a
\* signal, the record is written unless an interrupt came first, and a lifespan
\* that ended without a record has such an exception to speak for it.
CrashKept ==
    /\ hook = "recorded" => pending = "error"
    /\ hook # "none" /\ pending = "error" => reason # GRACEFUL
    /\ hook # "none" /\ pending # "error" => reason # CRASH /\ ~Logged("CRASHED")
    /\ hook = "over" /\ pending = "error" => Logged("CRASHED") \/ Interrupting # {}
    /\ life = "over" => Logged("STOPPED") \/ (hook # "none" /\ pending = "error")

------------------------------------------------------------------------------
(* The invariant. *)

\* A step logs nothing, or adds one event to those logged.
LEMMA LoggedStep ==
    ASSUME IInv, Next
    PROVE  /\ Silent => log' = log /\ \A e : Logged(e)' <=> Logged(e)
           /\ LifespanEnters => Adds("STARTED", reason)
           /\ LifespanReports => Adds("STOPPED", reason)
           /\ HookReports => Adds("CRASHED", reason)
           /\ \A e, f \in {"STARTED", "STOPPED", "CRASHED"} :
                  Adds(f, reason) => (Logged(e)' <=> Logged(e) \/ e = f)
<1>1. TypeOK
  BY DEF IInv
<1>2. Silent => log' = log
  BY <1>1, SilentEffect
<1>3. /\ LifespanEnters => Adds("STARTED", reason)
      /\ LifespanReports => Adds("STOPPED", reason)
      /\ HookReports => Adds("CRASHED", reason)
  BY <1>1, EmitEffect DEF LifespanEnters, LifespanReports, HookReports, TypeOK
<1>4. ASSUME NEW e, NEW f \in {"STARTED", "STOPPED", "CRASHED"}, Adds(f, reason)
      PROVE  Logged(e)' <=> Logged(e) \/ e = f
  <2>1. ASSUME Logged(e)' PROVE Logged(e) \/ e = f
    <3>1. PICK i \in 1 .. Len(log') : log'[i].event = e
      BY <2>1 DEF Logged
    <3>2. i \in 1 .. Len(log) \/ i = Len(log')
      BY <1>4 DEF Adds
    <3> QED
      BY <1>4, <3>1, <3>2 DEF Adds, Logged
  <2>2. ASSUME Logged(e) \/ e = f PROVE Logged(e)'
    BY <1>4, <2>2 DEF Adds, Logged
  <2> QED
    BY <2>1, <2>2
<1> QED
  BY <1>2, <1>3, <1>4 DEF Logged

\* Every step keeps the mark of a crash.
LEMMA CrashKeptStep ==
    /\ Init => CrashKept
    /\ IInv /\ CrashKept /\ [Next]_vars => CrashKept'
<1>1. Init => CrashKept
  BY DEF Init, CrashKept
<1>2. ASSUME UNCHANGED vars, CrashKept PROVE CrashKept'
  BY <1>2 DEF vars, signalVars, mainVars, CrashKept, Logged
<1> SUFFICES ASSUME IInv, CrashKept, Next PROVE CrashKept'
  BY <1>1, <1>2
<1> USE DEF CrashKept, signalVars, mainVars
<1>3. TypeOK /\ LogShape /\ CrashIsLate /\ OpenUnderServer
  BY DEF IInv
<1>4. ASSUME NEW s \in Signals, Deliver(s) PROVE CrashKept'
  <2>1. /\ reason' = s \/ reason' = reason
        /\ s # CRASH /\ s # GRACEFUL
    BY <1>4, LifecycleAssumption DEF Deliver
  <2>2. /\ life' = life /\ \A e : Logged(e)' <=> Logged(e)
        /\ \/ UNCHANGED <<pending, hook>>
           \/ s \in Interrupting /\ Interrupt
    BY <1>4 DEF Deliver, Logged
  <2>3. CASE UNCHANGED <<pending, hook>>
    BY <2>1, <2>2, <2>3
  <2>4. CASE s \in Interrupting /\ Interrupt
    BY <1>3, <2>1, <2>2, <2>4 DEF Interrupt, TypeOK
  <2> QED
    BY <2>2, <2>3, <2>4
<1>5. CASE Setup
  BY <1>5 DEF Setup, install_signal_handler, ServerCaptures, ServerReturns, Logged
<1>6. CASE StopRequested \/ BodyEnds
  BY <1>6 DEF StopRequested, BodyEnds, Logged
<1>7. CASE BodyRaises
  BY <1>3, <1>7 DEF BodyRaises, OpenUnderServer, CrashIsLate, Logged
<1>8. CASE LifespanChecks
  BY <1>3, <1>8 DEF LifespanChecks, CrashIsLate, Logged
<1>9. CASE MainRaises
  BY <1>9 DEF MainRaises, Logged
<1>10. CASE HookRecords
  BY <1>3, <1>10, LifecycleAssumption DEF HookRecords, MainLeft, Logged
<1>11. CASE HookSkips
  BY <1>3, <1>11 DEF HookSkips, MainLeft, LogShape, CrashIsLate, Logged
<1>12. CASE LifespanEnters \/ LifespanReports \/ HookReports
  BY <1>3, <1>12, LoggedStep DEF LifespanEnters, LifespanReports, HookReports, TypeOK
<1> QED
  BY <1>4, <1>5, <1>6, <1>7, <1>8, <1>9, <1>10, <1>11, <1>12, StepCases DEF Silent, SignalSteps

\* What the refinement rests on, in every reachable state.
LEMMA CrashInvariance == Spec => [](IInv /\ CrashKept)
  BY Invariance, CrashKeptStep, PTL DEF Spec

\* No lifespan is over in silence.  (That a record which is still to come does
\* come is what fairness adds, see EndReported.)
THEOREM NoSilentEnd == Spec => []EndAccounted
<1>1. IInv /\ CrashKept => EndAccounted
  BY DEF IInv, TypeOK, CrashKept, EndAccounted
<1> QED
  BY <1>1, CrashInvariance, PTL

------------------------------------------------------------------------------
(* The steps of the report. *)

\* The lifecycle starts as the report starts.
LEMMA ReportInitialised == Init => Report!Init
  BY LifecycleAssumption DEF Init, Report!Init, ReportLifespan, ReportCrash

\* A reason that is recorded is one the report accounts for.
LEMMA ReasonAccounted ==
    ASSUME IInv, CrashKept
    PROVE  reason \in Report!Accounted
  BY LifecycleAssumption DEF IInv, TypeOK, LogShape, CrashIsLate, CrashKept, Reasons, ReportCrash,
     Report!Accounted

\* A delivered signal changes no record, but may take away one to come.
LEMMA ReportDeliver ==
    ASSUME IInv, CrashKept, NEW s \in Signals, Deliver(s)
    PROVE  [Report!Next]_(Report!reportVars)
<1>1. /\ UNCHANGED <<inline, log, ReportLifespan>>
      /\ \/ UNCHANGED <<pending, hook>>
         \/ s \in Interrupting /\ Interrupt
  BY DEF Deliver, signalVars, ReportLifespan
<1>2. CASE UNCHANGED <<pending, hook>>
  BY <1>1, <1>2 DEF ReportCrash, Logged, Report!reportVars
<1>3. CASE s \in Interrupting /\ Interrupt /\ hook # "recorded"
  BY <1>1, <1>3 DEF IInv, TypeOK, Interrupt, ReportCrash, Logged, Report!reportVars
<1>4. CASE s \in Interrupting /\ Interrupt /\ hook = "recorded"
  <2>1. ~Logged("CRASHED") /\ Logged("CRASHED")' = Logged("CRASHED")
    BY <1>1, <1>4 DEF IInv, LogShape, Logged
  <2>2. ReportCrash = "seen" /\ ReportCrash' = "lost"
    BY <1>4, <2>1 DEF Interrupt, CrashKept, ReportCrash
  <2>3. Report!Lose
    BY <1>1, <1>4, <2>2 DEF Report!Lose
  <2> QED
    BY <2>3 DEF Report!Next
<1> QED
  BY <1>1, <1>2, <1>3, <1>4

\* Each step of the lifecycle is a step of the report or a stutter.
LEMMA ReportStep ==
    ASSUME IInv, CrashKept, Next
    PROVE  [Report!Next]_(Report!reportVars)
<1> DEFINE Same == UNCHANGED <<inline, ReportLifespan, ReportCrash, log>>
<1>1. Same => UNCHANGED Report!reportVars
  BY DEF Report!reportVars
<1>2. inline' = inline /\ TypeOK
  BY Placed DEF IInv
<1>3. reason \in Signals \cup {GRACEFUL, CRASH} /\ reason \in Report!Accounted
  BY <1>2, ReasonAccounted DEF TypeOK, Reasons
<1>4. UNCHANGED <<log, hook, pending>> => UNCHANGED ReportCrash
  BY DEF ReportCrash, Logged
<1>5. CASE Setup \/ StopRequested \/ BodyEnds
  BY <1>1, <1>2, <1>4, <1>5 DEF Setup, install_signal_handler, ServerCaptures, ServerReturns,
     StopRequested, BodyEnds, mainVars, ReportLifespan
<1>6. CASE BodyRaises
  <2>1. UNCHANGED <<log, hook, ReportLifespan>> /\ (inline \/ UNCHANGED pending)
    BY <1>6 DEF BodyRaises, ReportLifespan
  <2>2. inline => hook = "none"
    BY <1>6 DEF BodyRaises, IInv, OpenUnderServer, CrashIsLate
  <2> QED
    BY <1>1, <1>2, <1>4, <2>1, <2>2 DEF ReportCrash
<1>7. CASE LifespanChecks
  <2>1. UNCHANGED <<log, hook, pending>>
    BY <1>7 DEF LifespanChecks, mainVars
  <2>2. CASE life' = "reporting"
    BY <1>1, <1>2, <1>4, <1>7, <2>1, <2>2 DEF LifespanChecks, ReportLifespan
  <2>3. CASE life' = "over" /\ reason = CRASH
    <3>1. ReportLifespan = "open" /\ ReportLifespan' = "closed"
      BY <1>7, <2>3 DEF LifespanChecks, ReportLifespan
    <3>2. ReportCrash # "none"
      BY <1>2, <2>3 DEF TypeOK, IInv, CrashIsLate, CrashKept, ReportCrash
    <3>3. Report!Defer
      BY <1>2, <1>4, <2>1, <3>1, <3>2 DEF Report!Defer
    <3> QED
      BY <3>3 DEF Report!Next
  <2> QED
    BY <1>7, <2>2, <2>3 DEF LifespanChecks
<1>8. CASE LifespanEnters
  <2>1. UNCHANGED <<hook, pending>> /\ log' = Append(log, [event |-> "STARTED", reason |-> reason])
        /\ ReportLifespan = "before" /\ ReportLifespan' = "open"
    BY <1>8 DEF LifespanEnters, mainVars, Emit, ReportLifespan
  <2>2. Logged("CRASHED")' <=> Logged("CRASHED")
    BY <1>8, LoggedStep
  <2>3. Report!Start(reason)
    BY <1>2, <2>1, <2>2 DEF Report!Start, Report!Enter, ReportCrash
  <2> QED
    BY <1>3, <2>3 DEF Report!Next
<1>9. CASE LifespanReports
  <2>1. UNCHANGED <<hook, pending>> /\ log' = Append(log, [event |-> "STOPPED", reason |-> reason])
        /\ ReportLifespan = "open" /\ ReportLifespan' = "closed"
    BY <1>9 DEF LifespanReports, mainVars, Emit, ReportLifespan
  <2>2. Logged("CRASHED")' <=> Logged("CRASHED")
    BY <1>9, LoggedStep
  <2>3. Report!Stop(reason)
    BY <1>2, <1>3, <2>1, <2>2 DEF Report!Stop, Report!Enter, ReportCrash
  <2> QED
    BY <1>3, <2>3 DEF Report!Next
<1>10. CASE MainRaises \/ HookSkips
  <2>1. UNCHANGED <<log, life>> /\ hook = "none" /\ (hook' = "none" \/ pending' # "error")
    BY <1>10 DEF MainRaises, HookSkips, MainLeft
  <2>2. ReportCrash = "none" /\ ReportCrash' = "none"
    BY <1>10, <2>1 DEF MainRaises, HookSkips, ReportCrash
  <2> QED
    BY <1>1, <1>2, <2>1, <2>2 DEF ReportLifespan
<1>11. CASE HookRecords
  <2>1. UNCHANGED <<log, life>> /\ hook = "none" /\ hook' = "recorded" /\ capture # "on"
    BY <1>11 DEF HookRecords, MainLeft
  <2>2. ReportCrash = "none" /\ ReportCrash' = "seen" /\ UNCHANGED ReportLifespan
    BY <2>1 DEF ReportCrash, ReportLifespan
  <2>3. inline => ReportLifespan # "open"
    BY <1>2, <2>1 DEF TypeOK, IInv, OpenUnderServer, ReportLifespan
  <2>4. Report!See
    BY <1>2, <2>1, <2>2, <2>3 DEF Report!See
  <2> QED
    BY <2>4 DEF Report!Next
<1>12. CASE HookReports
  <2>1. UNCHANGED <<life, pending>> /\ hook = "recorded" /\ hook' = "over"
        /\ log' = Append(log, [event |-> "CRASHED", reason |-> reason])
    BY <1>12 DEF HookReports, Emit
  <2>2. Logged("CRASHED")'
    BY <1>12, LoggedStep
  <2>3. ReportCrash = "seen" /\ ReportCrash' = "told" /\ UNCHANGED ReportLifespan
    BY <2>1, <2>2 DEF CrashKept, ReportCrash, ReportLifespan
  <2>4. Report!Tell(reason)
    BY <1>2, <1>3, <2>1, <2>3 DEF Report!Tell, Report!Enter
  <2> QED
    BY <1>3, <2>4 DEF Report!Next
<1> QED
  BY <1>5, <1>6, <1>7, <1>8, <1>9, <1>10, <1>11, <1>12, ReportDeliver, StepCases
     DEF Silent, SignalSteps

\* Every behaviour of the lifecycle is one of the process report: an end that is
\* reported or left to a crash, crashes reported once, no reason made up.
THEOREM Implementation == Spec => ImplementsReport
<1>1. IInv /\ CrashKept /\ [Next]_vars => [Report!Next]_(Report!reportVars)
  <2> SUFFICES ASSUME IInv, CrashKept, [Next]_vars PROVE [Report!Next]_(Report!reportVars)
    OBVIOUS
  <2>1. CASE UNCHANGED vars
    BY <2>1 DEF vars, signalVars, mainVars, Report!reportVars, ReportLifespan, ReportCrash, Logged
  <2> QED
    BY <2>1, ReportStep
<1> QED
  BY <1>1, ReportInitialised, CrashInvariance, PTL DEF Spec, ImplementsReport, Report!Spec
================================================================================
