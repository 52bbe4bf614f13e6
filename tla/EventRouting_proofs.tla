-------------------------- MODULE EventRouting_proofs --------------------------
(****************************************************************************)
(* Proofs about EventRouting, for any catalogue, logger tree, handlers and  *)
(* number of threads: every line comes from an accepted call, every handler *)
(* that takes a record writes it, and a logger that is reported is warned   *)
(* about or going to be.  What the streams carry follows from that.         *)
(****************************************************************************)
EXTENDS EventRouting, SequenceTheorems, TLAPS

\* The application does not log on uvicorn's loggers.
ApplicationLoggers == \A name \in Loggers : ~Under(name, <<"uvicorn">>)

\* The access event is left on the app stream.
AccessOnApp == "ACCESS_REQUEST" \in DOMAIN Catalogue => "APP" \in Catalogue["ACCESS_REQUEST"].streams

\* Allow-lists are for streams the event declares, an event declares a stream,
\* and there is a handler for each.
StreamsDeclared ==
    \A e \in DOMAIN Catalogue :
        /\ DOMAIN Catalogue[e].fields \subseteq Catalogue[e].streams
        /\ Catalogue[e].streams # {}
        /\ \A s \in Catalogue[e].streams : \E h \in Handlers : StreamOf(h) = s

------------------------------------------------------------------------------
(* The inductive invariant. *)

Outside(c) == Catalogue[c.event].streams # {} /\ ~within_root(c.name)

\* What emit let through.
CallOK(c) ==
    /\ c \in Calls
    /\ ~Refused(c.event, c.fields)
    /\ c.event = "ACCESS_REQUEST" <=> c.name = access_logger

Accepted ==
    /\ \A c \in accepted : CallOK(c)
    /\ \A t \in Threads : call[t] # NoCall => call[t] \in accepted

\* Every line is a record of an accepted call, or the warning about its logger.
LinesFrom ==
    \A l \in lines : \E c \in accepted : l \in write(Logged(c)) \cup write(Warned(c))

\* A finished call is written wherever it is due.
Written == \A c \in accepted : Finished(c) => write(Logged(c)) \subseteq lines

\* A thread logs outside the tree only after the logger was reported, and a
\* reported logger is warned about, or is going to be.
Marked ==
    /\ \A t \in Threads : pc[t] \in {"warn", "log"} /\ Outside(call[t]) => call[t].name \in reported
    /\ \A c \in accepted : Finished(c) /\ Outside(c) => c.name \in reported

WarnedOf(name) ==
    \/ \A h \in AppHandlers : \E l \in Warnings(name) : l.handler = h
    \/ \E t \in Threads : pc[t] = "warn" /\ call[t].name = name

Told == loglevel <= WARNING => \A name \in reported : WarnedOf(name)

Control ==
    /\ strict_fields \in BOOLEAN
    /\ reported \subseteq Loggers
    /\ pc \in [Threads -> {"idle", "check", "add", "warn", "log"}]
    /\ call \in [Threads -> Calls \cup {NoCall}]
    /\ \A t \in Threads : pc[t] = "idle" <=> call[t] = NoCall
    /\ emits \in [Threads -> 0 .. MaxEmits]
    /\ accepted \subseteq Calls

IInv == Control /\ Accepted /\ LinesFrom /\ Written /\ Marked /\ Told

\* The steps of a thread.
Step(t) ==
    \/ Emits(t) \/ report_checks(t) \/ report_adds(t)
    \/ warn_on_app_stream(t) \/ log(t)

------------------------------------------------------------------------------
(* The logger tree. *)

\* A name under a logger of uvicorn's is under uvicorn.
LEMMA UnderUvicorn ==
    ASSUME NEW S, NEW n \in Seq(S), NEW d \in Uvicorn \cup {<<"uvicorn", "access">>}, Under(n, d)
    PROVE  Under(n, <<"uvicorn">>)
<1>1. d[1] = "uvicorn" /\ Len(d) \in 1 .. 2 /\ Len(d) <= Len(n) /\ SubSeq(n, 1, Len(d)) = d
  BY DEF Uvicorn, Under
<1>2. n[1] = "uvicorn"
  <2>1. Len(d) \in 1 .. Len(n) /\ 1 \in 1 .. Len(n)
    BY <1>1
  <2>2. Head(SubSeq(n, 1, Len(d))) = n[1]
    BY <2>1, HeadTailOfSubSeq
  <2> QED
    BY <2>2, <1>1
<1>3. SubSeq(n, 1, 1) = <<"uvicorn">>
  <2>1. SubSeq(n, 1, 1) = <<n[1]>> \o SubSeq(n, 2, 1)
    BY <1>1, SubSeqRecursiveFirst
  <2>2. SubSeq(n, 2, 1) = <<>>
    BY SubSeqEmpty
  <2>3. <<"uvicorn">> \in Seq({"uvicorn"})
    OBVIOUS
  <2>4. <<"uvicorn">> \o <<>> = <<"uvicorn">>
    BY <2>3, ConcatEmptySeq
  <2> QED
    BY <2>1, <2>2, <2>4, <1>2
<1> QED
  BY <1>1, <1>3 DEF Under

\* The logger root is a proper name and not under uvicorn.
LEMMA RootName ==
    /\ logger_root \in Seq(STRING) /\ Len(logger_root) \in Nat /\ Len(logger_root) >= 1
    /\ ~Under(logger_root, <<"uvicorn">>)
<1>1. logger_root \in Seq(STRING) /\ logger_root # <<>> /\ Head(logger_root) # "uvicorn"
  BY RoutingAssumption
<1>2. Len(logger_root) \in Nat /\ Len(logger_root) >= 1
  BY <1>1
<1>3. ASSUME SubSeq(logger_root, 1, 1) = <<"uvicorn">> PROVE FALSE
  <2>1. Head(SubSeq(logger_root, 1, 1)) = logger_root[1]
    BY <1>1, <1>2, HeadTailOfSubSeq
  <2>2. Head(<<"uvicorn">>) = "uvicorn" /\ Head(logger_root) = logger_root[1]
    BY <1>1, <1>2
  <2> QED
    BY <2>1, <2>2, <1>1, <1>3
<1> QED
  BY <1>1, <1>2, <1>3 DEF Under

\* The records of a logger in the tree go to the handlers of the root.
LEMMA HomeInside ==
    ASSUME NEW S, NEW n \in Seq(S), within_root(n), ~Under(n, <<"uvicorn">>)
    PROVE  Home(n) = logger_root
<1> DEFINE above == {d \in Detached : Under(n, d)}
<1>1. \A d \in above : d = logger_root
  BY UnderUvicorn DEF Detached
<1>2. above = {logger_root}
  BY <1>1 DEF Detached, within_root
<1>3. \E d \in above : \A other \in above : Len(other) <= Len(d)
  BY <1>2, RootName
<1> HIDE DEF above
<1>4. (CHOOSE d \in above : \A other \in above : Len(other) <= Len(d)) \in above
  BY <1>3
<1> QED
  BY <1>2, <1>4 DEF Home, above

\* Those of a logger outside of it go to the handlers of python's own root.
LEMMA HomeOutside ==
    ASSUME NEW S, NEW n \in Seq(S), ~within_root(n), ~Under(n, <<"uvicorn">>)
    PROVE  Home(n) = <<>>
<1>1. {d \in Detached : Under(n, d)} = {}
  BY UnderUvicorn DEF Detached, within_root
<1> QED
  BY <1>1 DEF Home

\* The log level decides for a logger in the tree.
LEMMA LevelInside ==
    ASSUME NEW S, NEW n \in Seq(S), Home(n) = logger_root
    PROVE  Level(n) = loglevel
<1>1. logger_root # <<>> /\ logger_root # <<"uvicorn", "access">>
  BY RoutingAssumption
<1> QED
  BY <1>1 DEF Level

\* The library's own logger is in the tree.
LEMMA InternalLogger == Home(internal_logger) = logger_root /\ Level(internal_logger) = loglevel
<1> DEFINE tail == <<"internal">>
           S == STRING \cup {"internal"}
<1>1. tail \in Seq(S) /\ Len(tail) = 1 /\ internal_logger = logger_root \o tail
  BY DEF internal_logger
<1>2. STRING \subseteq S
  OBVIOUS
<1> HIDE DEF tail, S
<1>3. logger_root \in Seq(S)
  BY <1>2, RootName, SeqMonotonic
<1>4. internal_logger \in Seq(S) /\ Len(internal_logger) = Len(logger_root) + 1
  <2>1. /\ logger_root \o tail \in Seq(S)
        /\ Len(logger_root \o tail) = Len(logger_root) + Len(tail)
    BY <1>1, <1>3, ConcatProperties, Zenon
  <2> QED
    BY <2>1, <1>1
<1>5. within_root(internal_logger)
  <2>1. SubSeq(internal_logger, 1, Len(logger_root)) = SubSeq(logger_root, 1, Len(logger_root))
    BY <1>1, <1>3, RootName, SubSeqOfConcat1
  <2>2. SubSeq(logger_root, 1, Len(logger_root)) = logger_root
    BY RootName, SubSeqFull
  <2> QED
    BY <2>1, <2>2, <1>4, RootName DEF within_root, Under
<1>6. ~Under(internal_logger, <<"uvicorn">>)
  <2>1. SubSeq(internal_logger, 1, 1) = SubSeq(logger_root, 1, 1)
    BY <1>1, <1>3, RootName, SubSeqOfConcat1
  <2> QED
    BY <2>1, RootName DEF Under
<1>7. Home(internal_logger) = logger_root
  BY <1>4, <1>5, <1>6, HomeInside
<1> QED
  BY <1>4, <1>7, LevelInside

\* Every handler is attached to the root of the tree.
LEMMA BoundToRoot ==
    ASSUME NEW h \in Handlers
    PROVE  logger_root \in Bindings(h)
  BY DEF Bindings

------------------------------------------------------------------------------
(* What a record of a call becomes. *)

\* A handler that is due the record of a call writes it.
LEMMA DueLine ==
    ASSUME ApplicationLoggers, NEW c \in Calls, within_root(c.name),
           NEW h \in Handlers, StreamOf(h) \in Catalogue[c.event].streams,
           Catalogue[c.event].level >= loglevel
    PROVE  \E l \in write(Logged(c)) :
               l.handler = h /\ l.record = Logged(c) /\ l.carries = _allowed_on(h, Logged(c))
<1> DEFINE rec == Logged(c)
           line == [handler |-> h, record |-> rec, carries |-> _allowed_on(h, rec)]
<1>1. rec.name = c.name /\ rec.level = Catalogue[c.event].level
      /\ rec.streams = Catalogue[c.event].streams
  BY DEF Logged
<1>2. c.name \in Seq(STRING) /\ ~Under(c.name, <<"uvicorn">>)
  BY RoutingAssumption DEF Calls, ApplicationLoggers
<1>3. Home(rec.name) = logger_root /\ Level(rec.name) = loglevel
  BY <1>1, <1>2, HomeInside, LevelInside
<1>4. filter(h, rec)
  BY <1>1 DEF filter
<1> HIDE DEF rec
<1>5. line \in write(rec)
  BY <1>1, <1>3, <1>4, BoundToRoot DEF write
<1> QED
  BY <1>5 DEF rec

\* The warning about a logger is written by every handler of the app stream.
LEMMA WarningWritten ==
    ASSUME NEW c \in Calls, loglevel <= WARNING, NEW h \in AppHandlers
    PROVE  \E l \in write(Warned(c)) :
               l.handler = h /\ l.record.event = None /\ l.record.about = c.name
<1> DEFINE rec == Warned(c)
           line == [handler |-> h, record |-> rec, carries |-> _allowed_on(h, rec)]
<1>1. rec.name = internal_logger /\ rec.level = WARNING /\ rec.streams = {"APP"}
      /\ rec.event = None /\ rec.about = c.name
  BY DEF Warned
<1>2. h \in Handlers /\ StreamOf(h) = "APP"
  BY DEF AppHandlers, StreamOf
<1>3. rec.level >= loglevel
  BY <1>1, RoutingAssumption DEF WARNING
<1>4. filter(h, rec)
  BY <1>1, <1>2 DEF filter
<1> HIDE DEF rec
<1>5. line \in write(rec)
  BY <1>1, <1>2, <1>3, <1>4, InternalLogger, BoundToRoot DEF write
<1> QED
  BY <1>1, <1>5 DEF rec

\* A line of a record is by a handler that the record's logger leads to and
\* whose filter passes it, with the fields that are allowed there.
LEMMA LineOf ==
    ASSUME NEW rec, NEW l \in write(rec)
    PROVE  /\ l.handler \in Handlers /\ l.record = rec
           /\ Home(rec.name) \in Bindings(l.handler)
           /\ filter(l.handler, rec)
           /\ l.carries = _allowed_on(l.handler, rec)
  BY DEF write

\* A formatter adds no field that was neither passed nor bound.
LEMMA CarriesPassed ==
    ASSUME NEW rec, NEW h
    PROVE  _allowed_on(h, rec) \subseteq rec.fields \cup Bound
  BY DEF _allowed_on

------------------------------------------------------------------------------
(* Each conjunct of the invariant is kept. *)

\* A thread that is at work is at work on a call.
LEMMA AtWork ==
    ASSUME Control, Accepted, NEW t \in Threads, pc[t] # "idle"
    PROVE  call[t] \in Calls /\ call[t] \in accepted /\ call[t] # NoCall
  BY DEF Control, Accepted

\* A call is not the absence of one.
LEMMA CallIsCall ==
    ASSUME NEW c \in Calls
    PROVE  c # NoCall /\ c.event \in DOMAIN Catalogue /\ c.event # None
           /\ c.name \in Loggers /\ c.fields \in Payloads
<1>1. c.event \in DOMAIN Catalogue /\ c.name \in Loggers /\ c.fields \in Payloads
  BY DEF Calls
<1>2. c.event # None /\ NoCall.event = None
  BY <1>1, RoutingAssumption DEF NoCall
<1> QED
  BY <1>1, <1>2

\* emit refuses the call, or takes it as the one its thread works on.
LEMMA EmitEffect ==
    ASSUME Control, NEW t \in Threads, Emits(t)
    PROVE  /\ pc[t] = "idle" /\ UNCHANGED <<strict_fields, reported, lines>>
           /\ emits' \in [Threads -> 0 .. MaxEmits]
           /\ \/ UNCHANGED <<pc, call, accepted>>
              \/ \E c : /\ CallOK(c) /\ c.by = t
                        /\ call' = [call EXCEPT ![t] = c] /\ accepted' = accepted \cup {c}
                        /\ \/ Outside(c) /\ pc' = [pc EXCEPT ![t] = "check"]
                           \/ ~Outside(c) /\ pc' = [pc EXCEPT ![t] = "log"]
<1>1. PICK e \in DOMAIN Catalogue, name \in Loggers, F \in Payloads :
          (e = "ACCESS_REQUEST" <=> name = access_logger) /\ emit(t, e, name, F)
  BY DEF Emits
<1> DEFINE c == [by |-> t, nth |-> emits[t], event |-> e, name |-> name, fields |-> F]
<1>2. emits[t] \in 0 .. MaxEmits /\ emits[t] < MaxEmits /\ MaxEmits \in Nat
  BY <1>1, RoutingAssumption DEF emit, Control
<1>3. emits' \in [Threads -> 0 .. MaxEmits] /\ emits[t] \in 0 .. MaxEmits - 1
  BY <1>1, <1>2 DEF emit, Control
<1>4. c \in Calls /\ c.by = t /\ c.event = e /\ c.name = name /\ c.fields = F
  BY <1>3 DEF Calls
<1>5. CASE Refused(e, F)
  BY <1>1, <1>3, <1>5 DEF emit
<1>6. CASE ~Refused(e, F)
  <2>1. CallOK(c)
    BY <1>1, <1>4, <1>6 DEF CallOK
  <2>2. call' = [call EXCEPT ![t] = c] /\ accepted' = accepted \cup {c}
    BY <1>1, <1>6 DEF emit
  <2>3. pc' = [pc EXCEPT ![t] = IF Catalogue[e].streams # {} /\ ~within_root(name)
                                THEN "check" ELSE "log"]
    BY <1>1, <1>6 DEF emit
  <2>4. \/ Outside(c) /\ pc' = [pc EXCEPT ![t] = "check"]
        \/ ~Outside(c) /\ pc' = [pc EXCEPT ![t] = "log"]
    BY <2>3, <1>4 DEF Outside
  <2>5. pc[t] = "idle" /\ UNCHANGED <<strict_fields, reported, lines>>
    BY <1>1 DEF emit
  <2> HIDE DEF c
  <2> QED
    BY <2>1, <2>2, <2>4, <2>5, <1>3, <1>4
<1> QED
  BY <1>5, <1>6

\* Places, calls and counters keep their types.
LEMMA ControlStep ==
    ASSUME Control, Accepted, NEW t \in Threads, Step(t)
    PROVE  Control'
<1>1. CASE Emits(t)
  <2>1. CASE UNCHANGED <<pc, call, accepted>>
    BY <1>1, <2>1, EmitEffect DEF Control, Calls
  <2>2. CASE ~UNCHANGED <<pc, call, accepted>>
    <3>1. PICK c : /\ CallOK(c)
                   /\ call' = [call EXCEPT ![t] = c] /\ accepted' = accepted \cup {c}
                   /\ pc' = [pc EXCEPT ![t] = "check"] \/ pc' = [pc EXCEPT ![t] = "log"]
      BY <1>1, <2>2, EmitEffect
    <3>2. c \in Calls /\ c # NoCall
      BY <3>1, CallIsCall DEF CallOK
    <3>3. call' \in [Threads -> Calls \cup {NoCall}] /\ accepted' \subseteq Calls
          /\ pc' \in [Threads -> {"idle", "check", "add", "warn", "log"}]
      BY <3>1, <3>2 DEF Control
    <3>4. \A u \in Threads : pc'[u] = "idle" <=> call'[u] = NoCall
      BY <3>1, <3>2 DEF Control
    <3> QED
      BY <1>1, <3>3, <3>4, EmitEffect DEF Control, Calls
  <2> QED
    BY <2>1, <2>2
<1>2. CASE report_checks(t)
  BY <1>2 DEF Control, report_checks, Calls
<1>3. CASE report_adds(t)
  <2>1. call[t].name \in Loggers
    BY <1>3, AtWork, CallIsCall DEF report_adds
  <2> QED
    BY <1>3, <2>1 DEF Control, report_adds, Calls
<1>4. CASE warn_on_app_stream(t)
  BY <1>4 DEF Control, warn_on_app_stream, Calls
<1>5. CASE log(t)
  BY <1>5 DEF Control, log, Calls
<1> QED
  BY <1>1, <1>2, <1>3, <1>4, <1>5 DEF Step

\* Nothing is accepted that emit refuses, and strict mode is not changed.
LEMMA AcceptedStep ==
    ASSUME Control, Accepted, NEW t \in Threads, Step(t)
    PROVE  Accepted' /\ accepted \subseteq accepted'
<1>1. strict_fields' = strict_fields
  BY EmitEffect DEF Step, report_checks, report_adds, warn_on_app_stream, log
<1>2. \A c : CallOK(c)' <=> CallOK(c)
  BY <1>1 DEF CallOK, Refused, Calls
<1>3. CASE Emits(t)
  <2>1. CASE UNCHANGED <<pc, call, accepted>>
    BY <1>2, <2>1 DEF Accepted
  <2>2. CASE ~UNCHANGED <<pc, call, accepted>>
    <3>1. PICK c : /\ CallOK(c)
                   /\ call' = [call EXCEPT ![t] = c] /\ accepted' = accepted \cup {c}
      BY <1>3, <2>2, EmitEffect
    <3>2. \A u \in Threads : call'[u] = call[u] \/ call'[u] = c
      BY <3>1 DEF Control
    <3> QED
      BY <1>2, <3>1, <3>2 DEF Accepted
  <2> QED
    BY <2>1, <2>2
<1>4. CASE report_checks(t) \/ report_adds(t) \/ warn_on_app_stream(t) \/ log(t)
  <2>1. accepted' = accepted
    BY <1>4 DEF report_checks, report_adds, warn_on_app_stream, log
  <2>2. \A u \in Threads : call'[u] = call[u] \/ call'[u] = NoCall
    BY <1>4 DEF report_checks, report_adds, warn_on_app_stream, log, Control
  <2> QED
    BY <1>2, <2>1, <2>2 DEF Accepted
<1> QED
  BY <1>3, <1>4 DEF Step

\* The lines of the other steps stay.
LEMMA LinesStep ==
    ASSUME Control, Accepted, NEW t \in Threads, Step(t)
    PROVE  \/ lines' = lines /\ ~log(t) /\ ~warn_on_app_stream(t)
           \/ warn_on_app_stream(t) /\ lines' = lines \cup write(Warned(call[t]))
           \/ log(t) /\ lines' = lines \cup write(Logged(call[t]))
<1>1. CASE Emits(t)
  BY <1>1, EmitEffect DEF log, warn_on_app_stream
<1>2. CASE report_checks(t) \/ report_adds(t)
  BY <1>2 DEF report_checks, report_adds, log, warn_on_app_stream
<1>3. CASE warn_on_app_stream(t)
  BY <1>3 DEF warn_on_app_stream
<1>4. CASE log(t)
  BY <1>4 DEF log
<1> QED
  BY <1>1, <1>2, <1>3, <1>4 DEF Step

\* Every line still comes from an accepted call.
LEMMA LinesFromStep ==
    ASSUME Control, Accepted, LinesFrom, NEW t \in Threads, Step(t)
    PROVE  LinesFrom'
<1>1. \A c : write(Logged(c))' = write(Logged(c)) /\ write(Warned(c))' = write(Warned(c))
  BY DEF write, Logged, Warned, Handlers, Level, Home, Bindings, filter, _allowed_on, StreamOf
<1>2. accepted \subseteq accepted'
  BY AcceptedStep
<1>3. ASSUME NEW l \in lines'
      PROVE  \E c \in accepted' : l \in write(Logged(c)) \cup write(Warned(c))
  <2>1. CASE l \in lines
    BY <2>1, <1>2 DEF LinesFrom
  <2>2. CASE l \notin lines
    <3>1. pc[t] # "idle" /\ l \in write(Logged(call[t])) \cup write(Warned(call[t]))
      BY <2>2, LinesStep DEF warn_on_app_stream, log
    <3> QED
      BY <3>1, <1>2, AtWork
  <2> QED
    BY <2>1, <2>2
<1> QED
  BY <1>1, <1>3 DEF LinesFrom

\* Only the step that writes a call's record finishes it.
LEMMA FinishesByLog ==
    ASSUME Control, Accepted, NEW t \in Threads, Step(t),
           NEW c \in accepted', Finished(c)', ~Finished(c)
    PROVE  log(t) /\ c = call[t] /\ c \in accepted
<1>1. c \in Calls /\ c.by \in Threads
  BY ControlStep DEF Control, Calls
<1>2. CASE Emits(t)
  <2>1. CASE UNCHANGED <<pc, call, accepted>>
    BY <1>2, <2>1 DEF Finished
  <2>2. CASE ~UNCHANGED <<pc, call, accepted>>
    <3>1. PICK d : d.by = t /\ call' = [call EXCEPT ![t] = d] /\ accepted' = accepted \cup {d}
      BY <1>2, <2>2, EmitEffect
    <3>2. call[t] = NoCall
      BY <1>2, EmitEffect DEF Control
    <3>3. CASE c \in accepted
      BY <1>1, <3>1, <3>2, <3>3, CallIsCall DEF Finished, Control
    <3>4. CASE c \notin accepted
      <4>1. c = d
        BY <3>1, <3>4
      <4>2. c.by = t
        BY <3>1, <4>1
      <4> QED
        BY <3>1, <4>1, <4>2 DEF Finished, Control
    <3> QED
      BY <3>3, <3>4
  <2> QED
    BY <2>1, <2>2
<1>3. CASE report_checks(t) \/ report_adds(t) \/ warn_on_app_stream(t)
  BY <1>3 DEF report_checks, report_adds, warn_on_app_stream, Finished
<1>4. CASE log(t)
  BY <1>1, <1>4 DEF log, Finished, Control
<1> QED
  BY <1>2, <1>3, <1>4 DEF Step

\* A finished call stays written.
LEMMA WrittenStep ==
    ASSUME Control, Accepted, Written, NEW t \in Threads, Step(t)
    PROVE  Written'
<1>1. \A c : write(Logged(c))' = write(Logged(c))
  BY DEF write, Logged, Handlers, Level, Home, Bindings, filter, _allowed_on, StreamOf
<1>2. ASSUME NEW c \in accepted', Finished(c)'
      PROVE  write(Logged(c)) \subseteq lines'
  <2>1. CASE Finished(c)
    <3>1. write(Logged(c)) \subseteq lines
      BY <2>1 DEF Written, Finished
    <3> QED
      BY <3>1, LinesStep
  <2>2. CASE ~Finished(c)
    BY <1>2, <2>2, FinishesByLog, LinesStep DEF log, warn_on_app_stream
  <2> QED
    BY <2>1, <2>2
<1> QED
  BY <1>1, <1>2 DEF Written

\* Reported loggers stay reported; the step from the check to the record passes
\* by a reported logger.
LEMMA MarkedStep ==
    ASSUME Control, Accepted, Marked, NEW t \in Threads, Step(t)
    PROVE  Marked' /\ reported \subseteq reported'
<1>1. reported \subseteq reported'
  BY EmitEffect DEF Step, report_checks, report_adds, warn_on_app_stream, log
<1>2. \A c : Outside(c)' <=> Outside(c)
  BY DEF Outside
<1>3. ASSUME NEW u \in Threads, pc'[u] \in {"warn", "log"}, Outside(call'[u])
      PROVE  call'[u].name \in reported'
  <2>1. CASE Emits(t)
    <3>1. CASE UNCHANGED <<pc, call, accepted>>
      BY <1>1, <1>3, <3>1 DEF Marked
    <3>2. CASE ~UNCHANGED <<pc, call, accepted>>
      <4>1. PICK c : /\ call' = [call EXCEPT ![t] = c]
                     /\ \/ Outside(c) /\ pc' = [pc EXCEPT ![t] = "check"]
                        \/ ~Outside(c) /\ pc' = [pc EXCEPT ![t] = "log"]
        BY <2>1, <3>2, EmitEffect
      <4>2. u # t
        BY <1>3, <4>1 DEF Control
      <4> QED
        BY <1>1, <1>3, <4>1, <4>2 DEF Marked, Control
    <3> QED
      BY <3>1, <3>2
  <2>2. CASE report_checks(t)
    BY <1>1, <1>3, <2>2 DEF report_checks, Marked, Control
  <2>3. CASE report_adds(t)
    BY <1>1, <1>3, <2>3 DEF report_adds, Marked, Control
  <2>4. CASE warn_on_app_stream(t)
    BY <1>1, <1>3, <2>4 DEF warn_on_app_stream, Marked, Control
  <2>5. CASE log(t)
    BY <1>1, <1>3, <2>5 DEF log, Marked, Control
  <2> QED
    BY <2>1, <2>2, <2>3, <2>4, <2>5 DEF Step
<1>4. ASSUME NEW c \in accepted', Finished(c)', Outside(c)
      PROVE  c.name \in reported'
  <2>1. CASE Finished(c)
    BY <1>1, <1>4, <2>1 DEF Marked, Finished
  <2>2. CASE ~Finished(c)
    BY <1>1, <1>4, <2>2, FinishesByLog DEF Marked, log
  <2> QED
    BY <2>1, <2>2
<1> QED
  BY <1>1, <1>2, <1>3, <1>4 DEF Marked

\* Whoever reports a logger warns about it before anything else.
LEMMA ToldStep ==
    ASSUME Control, Accepted, Told, NEW t \in Threads, Step(t)
    PROVE  Told'
<1>1. SUFFICES ASSUME loglevel <= WARNING, NEW name \in reported'
               PROVE  WarnedOf(name)'
  BY DEF Told, WARNING
<1>2. ASSUME \A h \in AppHandlers : \E l \in Warnings(name) : l.handler = h
      PROVE  WarnedOf(name)'
  <2>1. lines \subseteq lines'
    BY LinesStep
  <2> QED
    BY <1>2, <2>1 DEF WarnedOf, Warnings, AppHandlers, Handlers
<1>3. ASSUME NEW u \in Threads, u # t, pc[u] = "warn", call[u].name = name
      PROVE  WarnedOf(name)'
  <2>1. pc'[u] = pc[u] /\ call'[u] = call[u]
    <3>1. CASE Emits(t)
      BY <1>3, <3>1, EmitEffect DEF Control
    <3>2. CASE ~Emits(t)
      BY <1>3, <3>2 DEF Step, report_checks, report_adds, warn_on_app_stream, log, Control
    <3> QED
      BY <3>1, <3>2
  <2> QED
    BY <1>3, <2>1 DEF WarnedOf
<1>4. CASE warn_on_app_stream(t) /\ call[t].name = name
  <2>1. call[t] \in Calls /\ write(Warned(call[t])) \subseteq lines'
    BY <1>4, AtWork, LinesStep DEF warn_on_app_stream
  <2>2. \A h \in AppHandlers : \E l \in lines' :
            l.handler = h /\ l.record.event = None /\ l.record.about = name
    BY <1>1, <1>4, <2>1, WarningWritten
  <2> QED
    BY <2>2 DEF WarnedOf, Warnings, AppHandlers, Handlers
<1>5. CASE report_adds(t) /\ call[t].name = name
  BY <1>5 DEF report_adds, WarnedOf, Control
<1>6. CASE ~(warn_on_app_stream(t) /\ call[t].name = name)
           /\ ~(report_adds(t) /\ call[t].name = name)
  <2>1. name \in reported
    BY <1>1, <1>6, EmitEffect DEF Step, report_checks, report_adds, warn_on_app_stream, log
  <2>2. WarnedOf(name)
    BY <1>1, <2>1 DEF Told
  <2>3. ~(pc[t] = "warn" /\ call[t].name = name)
    BY <1>6, EmitEffect DEF Step, report_checks, report_adds, log
  <2> QED
    BY <1>2, <1>3, <2>2, <2>3 DEF WarnedOf
<1> QED
  BY <1>4, <1>5, <1>6

------------------------------------------------------------------------------
(* The theorems. *)

\* The invariant holds in every reachable state.
THEOREM Invariance == Spec => []IInv
<1>1. Init => IInv
  <2> SUFFICES ASSUME Init PROVE IInv
    OBVIOUS
  <2>1. Control
    BY RoutingAssumption DEF Init, Control
  <2> QED
    BY <2>1 DEF Init, IInv, Accepted, LinesFrom, Written, Marked, Told
<1>2. IInv /\ [Next]_vars => IInv'
  <2> SUFFICES ASSUME IInv, [Next]_vars PROVE IInv'
    OBVIOUS
  <2>1. CASE Next
    <3>1. PICK t \in Threads : Step(t)
      BY <2>1 DEF Next, Step
    <3>2. Control /\ Accepted /\ LinesFrom /\ Written /\ Marked /\ Told
      BY DEF IInv
    <3> QED
      BY <3>1, <3>2, ControlStep, AcceptedStep, LinesFromStep, WrittenStep, MarkedStep,
         ToldStep DEF IInv
  <2>2. CASE UNCHANGED vars
    <3>1. Control' /\ Accepted'
      BY <2>2 DEF vars, IInv, Control, Accepted, CallOK, Refused, Calls
    <3>2. LinesFrom' /\ Written' /\ Marked'
      BY <2>2 DEF vars, IInv, LinesFrom, Written, Marked, Outside, Finished
    <3>3. Told'
      BY <2>2 DEF vars, IInv, Told, WarnedOf, Warnings
    <3> QED
      BY <3>1, <3>2, <3>3 DEF IInv
  <2> QED
    BY <2>1, <2>2
<1> QED
  BY <1>1, <1>2, PTL DEF Spec

\* Every variable keeps its type: threads are at work on calls, and a line is a
\* handler's and carries what was passed or bound.
THEOREM Typing == Spec => []TypeOK
<1>1. IInv => TypeOK
  <2> SUFFICES ASSUME IInv PROVE TypeOK
    OBVIOUS
  <2>1. ASSUME NEW l \in lines PROVE l.handler \in Handlers /\ l.carries \subseteq Fields
    <3>1. PICK c \in accepted : l \in write(Logged(c)) \/ l \in write(Warned(c))
      BY DEF IInv, LinesFrom
    <3>2. c.fields \in Payloads
      BY CallIsCall DEF IInv, Accepted, CallOK
    <3>3. Logged(c).fields = c.fields /\ Warned(c).fields = {}
      BY DEF Logged, Warned
    <3>4. PICK rec : l \in write(rec) /\ rec.fields \subseteq UNION Payloads
      BY <3>1, <3>2, <3>3
    <3>5. l.carries \subseteq rec.fields \cup Bound /\ l.handler \in Handlers
      BY <3>4, LineOf, CarriesPassed
    <3>6. Bound \subseteq ContextFields
      BY RoutingAssumption
    <3> QED
      BY <3>4, <3>5, <3>6 DEF Fields
  <2> QED
    BY <2>1 DEF IInv, Control, TypeOK
<1> QED
  BY <1>1, Invariance, PTL

\* A line of an event is a line of the record of an accepted call.
LEMMA EventLine ==
    ASSUME IInv, NEW l \in lines, l.record.event # None
    PROVE  \E c \in accepted :
               /\ CallOK(c) /\ l \in write(Logged(c)) /\ l.record = Logged(c)
               /\ l.record.event = c.event /\ l.record.name = c.name
<1>1. PICK c \in accepted : l \in write(Logged(c)) \/ l \in write(Warned(c))
  BY DEF IInv, LinesFrom
<1>2. l \in write(Logged(c))
  <2>1. Warned(c).event = None
    BY DEF Warned
  <2> QED
    BY <1>1, <2>1, LineOf
<1>3. l.record = Logged(c)
  BY <1>2, LineOf
<1>4. Logged(c).event = c.event /\ Logged(c).name = c.name
  BY DEF Logged
<1> QED
  BY <1>2, <1>3, <1>4 DEF IInv, Accepted

\* An event on a logger outside the tree reaches the debug stream only, for any
\* handlers, when the application keeps off uvicorn's loggers.
THEOREM DebugOnly == ASSUME ApplicationLoggers PROVE Spec => []OutsideDebugOnly
<1>1. IInv => OutsideDebugOnly
  <2> SUFFICES ASSUME IInv, NEW l \in lines,
                      l.record.event # None, ~within_root(l.record.name)
               PROVE  l.handler.stream = "debug"
    BY DEF OutsideDebugOnly
  <2>1. PICK c \in accepted : CallOK(c) /\ l \in write(Logged(c)) /\ l.record = Logged(c)
                            /\ l.record.name = c.name
    BY EventLine
  <2>2. c.name \in Loggers /\ c.name \in Seq(STRING) /\ ~Under(c.name, <<"uvicorn">>)
    BY <2>1, CallIsCall, RoutingAssumption, ApplicationLoggers DEF CallOK, ApplicationLoggers
  <2>3. Home(c.name) = <<>>
    BY <2>1, <2>2, HomeOutside
  <2>4. <<>> \in Bindings(l.handler)
    BY <2>1, <2>3, LineOf
  <2>5. <<>> \notin Uvicorn \cup {logger_root}
    BY RoutingAssumption DEF Uvicorn
  <2> QED
    BY <2>4, <2>5 DEF Bindings
<1> QED
  BY <1>1, Invariance, PTL

\* No event is lost to its streams in silence, however the threads interleave in
\* report_outside_root.
THEOREM LossWarned == Spec => []OutsideWarned
<1>1. IInv => OutsideWarned
  BY DEF IInv, Marked, Told, WarnedOf, OutsideWarned, Outside
<1> QED
  BY <1>1, Invariance, PTL

\* What reaches a stream is what the overview tells of it, when the access event
\* is left on the app stream.
THEOREM OverviewComplete ==
    ASSUME ApplicationLoggers, AccessOnApp
    PROVE  Spec => []OverviewTells
<1>1. IInv => OverviewTells
  <2> SUFFICES ASSUME IInv, NEW l \in lines,
                      l.record.event # None, StreamOf(l.handler) # None
               PROVE  /\ l.record.event \in Overview(StreamOf(l.handler))
                      /\ \/ AnyField(l.record.event)
                         \/ l.carries \subseteq
                              _fields_on(l.record.event, StreamOf(l.handler)) \cup AlwaysKept
    BY DEF OverviewTells
  <2>1. PICK c \in accepted : CallOK(c) /\ l \in write(Logged(c)) /\ l.record = Logged(c)
                            /\ l.record.event = c.event /\ l.record.name = c.name
    BY EventLine
  <2>2. c.event \in DOMAIN Catalogue /\ c.name \in Loggers
    BY <2>1, CallIsCall DEF CallOK
  <2>3. /\ filter(l.handler, Logged(c)) /\ l.carries = _allowed_on(l.handler, Logged(c))
        /\ Logged(c).streams = Catalogue[c.event].streams /\ Logged(c).name = c.name
        /\ Logged(c).allow = Catalogue[c.event].fields
    BY <2>1, LineOf DEF Logged
  <2>4. c.name \notin Uvicorn
    <3>1. c.name \in Seq(STRING) /\ ~Under(c.name, <<"uvicorn">>)
      BY <2>2, RoutingAssumption, ApplicationLoggers DEF ApplicationLoggers
    <3>2. ASSUME c.name \in Uvicorn PROVE Under(c.name, c.name)
      BY <3>1, <3>2, SubSeqFull DEF Under
    <3> QED
      BY <3>1, <3>2, UnderUvicorn
  <2>5. StreamOf(l.handler) \in Catalogue[c.event].streams
    BY <2>1, <2>2, <2>3, <2>4, AccessOnApp DEF filter, CallOK, AccessOnApp
  <2>6. AnyField(c.event) \/ l.carries \subseteq
            _fields_on(c.event, StreamOf(l.handler)) \cup AlwaysKept
    BY <2>3 DEF _allowed_on, AnyField, _fields_on
  <2> QED
    BY <2>1, <2>2, <2>5, <2>6 DEF Overview
<1> QED
  BY <1>1, Invariance, PTL

\* A finished call in the tree has a line at each handler of its streams.
LEMMA CallLine ==
    ASSUME ApplicationLoggers, IInv, NEW c \in accepted, Finished(c), within_root(c.name),
           NEW h \in Handlers, StreamOf(h) \in Catalogue[c.event].streams,
           Catalogue[c.event].level >= loglevel
    PROVE  \E l \in Of(c) : l.handler = h /\ l.carries = _allowed_on(h, Logged(c))
<1>1. c \in Calls /\ write(Logged(c)) \subseteq lines
  BY DEF IInv, Control, Written
<1>2. PICK l \in write(Logged(c)) :
          l.handler = h /\ l.record = Logged(c) /\ l.carries = _allowed_on(h, Logged(c))
  BY <1>1, DueLine
<1>3. Logged(c).by = c.by /\ Logged(c).nth = c.nth /\ Logged(c).event = c.event
  BY DEF Logged
<1> QED
  BY <1>1, <1>2, <1>3 DEF Of

\* What the overview tells of a stream reaches each handler of it.
THEOREM OverviewHolds == ASSUME ApplicationLoggers PROVE Spec => []OverviewKept
<1>1. IInv => OverviewKept
  <2> SUFFICES ASSUME IInv, NEW c \in accepted, NEW h \in Handlers,
                      Finished(c), within_root(c.name), StreamOf(h) # None,
                      c.event \in Overview(StreamOf(h)),
                      Catalogue[c.event].level >= loglevel
               PROVE  \E l \in Of(c) :
                          /\ l.handler = h
                          /\ {f \in c.fields \cup Bound :
                                  \/ AnyField(c.event)
                                  \/ f \in _fields_on(c.event, StreamOf(h)) \cup AlwaysKept}
                             \subseteq l.carries
    BY DEF OverviewKept
  <2>1. PICK l \in Of(c) : l.handler = h /\ l.carries = _allowed_on(h, Logged(c))
    BY CallLine DEF Overview
  <2>2. Logged(c).fields = c.fields /\ Logged(c).allow = Catalogue[c.event].fields
    BY DEF Logged
  <2>3. \A f \in c.fields \cup Bound :
            AnyField(c.event) \/ f \in _fields_on(c.event, StreamOf(h)) \cup AlwaysKept
            => f \in l.carries
    BY <2>1, <2>2 DEF _allowed_on, AnyField, _fields_on
  <2> QED
    BY <2>1, <2>3
<1> QED
  BY <1>1, Invariance, PTL

\* Strict mode loses no field inside the tree, for a catalogue whose allow-lists
\* are for streams the event declares and a wiring with a handler for each.
THEOREM StrictKeeps ==
    ASSUME ApplicationLoggers, StreamsDeclared
    PROVE  Spec => []StrictNothingLost
<1>1. IInv => StrictNothingLost
  <2> SUFFICES ASSUME IInv, NEW c \in accepted, strict_fields, Finished(c),
                      within_root(c.name), Catalogue[c.event].level >= loglevel,
                      NEW f \in c.fields
               PROVE  \E l \in Of(c) :
                          StreamOf(l.handler) \in Catalogue[c.event].streams /\ f \in l.carries
    BY DEF StrictNothingLost
  <2> DEFINE allow == Catalogue[c.event].fields
  <2>1. c.event \in DOMAIN Catalogue /\ ~Refused(c.event, c.fields)
    BY CallIsCall DEF IInv, Accepted, CallOK
  <2>2. f \notin AlwaysKept /\ f \notin unrouted_fields(c.event, c.fields)
    BY <2>1, RoutingAssumption DEF Refused
  <2>3. PICK s \in Catalogue[c.event].streams :
            DOMAIN allow = {} \/ (s \in DOMAIN allow /\ f \in allow[s])
    BY <2>1, <2>2, StreamsDeclared DEF unrouted_fields, StreamsDeclared
  <2>4. PICK h \in Handlers : StreamOf(h) = s
    BY <2>1, <2>3, StreamsDeclared DEF StreamsDeclared
  <2>5. PICK l \in Of(c) : l.handler = h /\ l.carries = _allowed_on(h, Logged(c))
    BY <2>3, <2>4, CallLine
  <2>6. Logged(c).fields = c.fields /\ Logged(c).allow = allow
    BY DEF Logged
  <2>7. f \in l.carries
    BY <2>3, <2>4, <2>5, <2>6 DEF _allowed_on
  <2> QED
    BY <2>3, <2>4, <2>5, <2>7
<1> QED
  BY <1>1, Invariance, PTL

------------------------------------------------------------------------------
(* One warning for a logger, without a second thread. *)

\* A thread that is about to report a logger, or to warn about it, is the first.
FirstToReport ==
    /\ \A l \in lines : l.record.event = None => l.record.about \in reported
    /\ \A t \in Threads : pc[t] = "add" => call[t].name \notin reported
    /\ \A t \in Threads :
           pc[t] = "warn" => call[t].name \in reported /\ Warnings(call[t].name) = {}
    /\ WarnedOnce

\* A single thread stays the first.
LEMMA FirstStep ==
    ASSUME IInv, FirstToReport, NEW t \in Threads, Threads = {t}, Step(t)
    PROVE  FirstToReport'
<1>1. Control /\ Accepted
  BY DEF IInv
<1>2. UNCHANGED lines => WarnedOnce' /\ \A name : Warnings(name)' = Warnings(name)
  BY DEF FirstToReport, WarnedOnce, Warnings
<1>3. CASE Emits(t)
  <2>1. UNCHANGED <<lines, reported>> /\ ((pc' = pc /\ call' = call) \/ pc'[t] \in {"check", "log"})
    BY <1>1, <1>3, EmitEffect DEF Control
  <2> QED
    BY <1>2, <2>1 DEF FirstToReport
<1>4. CASE report_checks(t)
  BY <1>1, <1>2, <1>4 DEF report_checks, FirstToReport, Control
<1>5. CASE report_adds(t)
  <2>1. call[t].name \notin reported /\ reported' = reported \cup {call[t].name}
        /\ UNCHANGED <<lines, call>> /\ pc'[t] = "warn"
    BY <1>1, <1>5 DEF report_adds, FirstToReport, Control
  <2>2. Warnings(call[t].name) = {}
    BY <2>1 DEF FirstToReport, Warnings
  <2> QED
    BY <1>2, <2>1, <2>2 DEF FirstToReport
<1>6. CASE warn_on_app_stream(t)
  <2> DEFINE c == call[t]
  <2>1. lines' = lines \cup write(Warned(c)) /\ UNCHANGED <<reported, call>> /\ pc'[t] = "log"
        /\ Warnings(c.name) = {} /\ c.name \in Loggers /\ c.name \in reported
    <3>1. pc[t] = "warn"
      BY <1>6 DEF warn_on_app_stream
    <3>2. c.name \in Loggers
      BY <1>1, <3>1, AtWork, CallIsCall DEF CallOK
    <3> QED
      BY <1>1, <1>6, <3>1, <3>2 DEF warn_on_app_stream, FirstToReport, Control
  <2>2. \A l \in write(Warned(c)) : l.record.event = None /\ l.record.about = c.name
    <3>1. Warned(c).event = None /\ Warned(c).about = c.name
      BY DEF Warned
    <3> QED
      BY <3>1, LineOf
  <2>3. \A k, l \in write(Warned(c)) : k.handler = l.handler => k = l
    BY DEF write
  <2>4. ASSUME NEW name \in Loggers
        PROVE  \A k, l \in Warnings(name)' : k.handler = l.handler => k = l
    <3>1. CASE name = c.name
      <4>1. Warnings(name)' \subseteq write(Warned(c))
        BY <2>1, <3>1 DEF Warnings
      <4> QED
        BY <2>3, <4>1
    <3>2. CASE name # c.name
      <4>1. Warnings(name)' \subseteq Warnings(name)
        BY <2>1, <2>2, <3>2 DEF Warnings
      <4> QED
        BY <4>1 DEF FirstToReport, WarnedOnce
    <3> QED
      BY <3>1, <3>2
  <2>5. WarnedOnce'
    BY <2>4 DEF WarnedOnce
  <2> QED
    BY <2>1, <2>2, <2>5 DEF FirstToReport
<1>7. CASE log(t)
  <2>1. lines' = lines \cup write(Logged(call[t])) /\ UNCHANGED reported /\ pc'[t] = "idle"
    BY <1>1, <1>7 DEF log, Control
  <2>2. Logged(call[t]).event # None
    BY <1>1, <1>7, AtWork, CallIsCall DEF log, Logged
  <2>3. \A l \in write(Logged(call[t])) : l.record.event # None
    BY <2>2, LineOf
  <2>4. \A name : Warnings(name)' = Warnings(name)
    BY <2>1, <2>3 DEF Warnings
  <2> QED
    BY <2>1, <2>3, <2>4 DEF FirstToReport, WarnedOnce
<1> QED
  BY <1>3, <1>4, <1>5, <1>6, <1>7 DEF Step

\* A process that emits from one thread is warned about a logger once, however
\* often it emits there: it takes a second thread to be warned twice.
THEOREM OneThreadOnce ==
    ASSUME NEW t \in Threads, Threads = {t}
    PROVE  Spec => []WarnedOnce
<1>1. Init => FirstToReport
  BY DEF Init, FirstToReport, WarnedOnce, Warnings
<1>2. IInv /\ FirstToReport /\ [Next]_vars => FirstToReport'
  <2> SUFFICES ASSUME IInv, FirstToReport, [Next]_vars PROVE FirstToReport'
    OBVIOUS
  <2>1. CASE Next
    BY <2>1, FirstStep DEF Next, Step
  <2>2. CASE UNCHANGED vars
    BY <2>2 DEF vars, FirstToReport, WarnedOnce, Warnings
  <2> QED
    BY <2>1, <2>2
<1>3. FirstToReport => WarnedOnce
  BY DEF FirstToReport
<1> QED
  BY <1>1, <1>2, <1>3, Invariance, PTL DEF Spec
================================================================================
