-------------------------- MODULE StreamJournal_proofs --------------------------
(****************************************************************************)
(* EventRouting implements StreamJournal, for any catalogue, logger tree,   *)
(* handlers and number of threads: the lines of an event are those it is    *)
(* due by the overview, none missing and none more.                         *)
(****************************************************************************)
EXTENDS EventRouting_proofs

\* A call is its thread's own and counted by it.
Owned ==
    /\ \A t \in Threads : call[t] # NoCall => call[t].by = t
    /\ \A c \in accepted : c.nth < emits[c.by]

\* Only calls outside the tree come to report_outside_root, and a logger that is
\* reported is noticed by all of Noticing, unless a thread is about to see to it.
Heard ==
    /\ \A t \in Threads : pc[t] \in {"check", "add", "warn"} => Outside(call[t])
    /\ \A name \in reported :
           \/ Noticing \X {name} \subseteq Noticed
           \/ \E t \in Threads : pc[t] = "warn" /\ call[t].name = name

JournalInv == IInv /\ Owned /\ Heard

------------------------------------------------------------------------------
(* The lines of a record. *)

\* The handlers that take the record of a call are those it is due at.
LEMMA TakenWhereDue ==
    ASSUME ApplicationLoggers, AccessOnApp, NEW c, CallOK(c), NEW h \in Handlers
    PROVE  h \in DueAt(c) <=>
               /\ Logged(c).level >= Level(Logged(c).name) /\ Logged(c).level >= loglevel
               /\ Home(Logged(c).name) \in Bindings(h) /\ filter(h, Logged(c))
<1>1. /\ Logged(c).level = Catalogue[c.event].level /\ Logged(c).name = c.name
      /\ Logged(c).streams = Catalogue[c.event].streams
  BY DEF Logged
<1>2. /\ c.event \in DOMAIN Catalogue /\ c.name \in Loggers
      /\ c.event = "ACCESS_REQUEST" <=> c.name = access_logger
  BY CallIsCall DEF CallOK
<1>3. c.name \in Seq(STRING) /\ ~Under(c.name, <<"uvicorn">>) /\ c.name \notin Uvicorn
  <2>1. c.name \in Seq(STRING) /\ ~Under(c.name, <<"uvicorn">>)
    BY <1>2, RoutingAssumption DEF ApplicationLoggers
  <2>2. ASSUME c.name \in Uvicorn PROVE Under(c.name, c.name)
    BY <2>1, <2>2, SubSeqFull DEF Under
  <2> QED
    BY <2>1, <2>2, UnderUvicorn
<1>4. Home(c.name) = IF within_root(c.name) THEN logger_root ELSE <<>>
  BY <1>3, HomeInside, HomeOutside
<1>5. Level(c.name) = IF ~within_root(c.name) /\ Under(c.name, <<"inject">>)
                      THEN _at_least(INFO) ELSE loglevel
  <2>1. Home(c.name) # <<"uvicorn", "access">>
    BY <1>4, RootName, RoutingAssumption
  <2>2. Home(c.name) = <<>> <=> ~within_root(c.name)
    BY <1>4, RoutingAssumption
  <2> QED
    BY <2>1, <2>2 DEF Level
<1>6. StreamOf(h) = None <=> h.stream = "debug"
  <2>1. h.stream \in {"app", "siem", "public_inspect", "debug"}
    BY RoutingAssumption DEF Handlers
  <2> QED
    BY <2>1 DEF StreamOf, None
<1>7. Home(c.name) \in Bindings(h) <=> within_root(c.name) \/ StreamOf(h) = None
  <2>1. <<>> \notin Uvicorn \cup {logger_root}
    BY RoutingAssumption DEF Uvicorn
  <2> QED
    BY <1>4, <1>6, <2>1, BoundToRoot DEF Bindings
<1>8. filter(h, Logged(c)) <=> StreamOf(h) = None \/ c.event \in Overview(StreamOf(h))
  BY <1>1, <1>2, <1>3 DEF filter, Overview, AccessOnApp
<1>9. Catalogue[c.event].level \in Nat
  BY <1>2, RoutingAssumption
<1>10. Catalogue[c.event].level >= Level(c.name) /\ Catalogue[c.event].level >= loglevel
         <=> LoudEnough(c)
  BY <1>5, <1>9, RoutingAssumption DEF LoudEnough, _at_least, INFO
<1> QED
  BY <1>1, <1>7, <1>8, <1>10 DEF DueAt

\* The line of a handler carries the fields that are due there.
LEMMA CarriedFields ==
    ASSUME NEW c, NEW h
    PROVE  _allowed_on(h, Logged(c)) = DueFields(c, h)
<1>1. Logged(c).fields = c.fields /\ Logged(c).allow = Catalogue[c.event].fields
  BY DEF Logged
<1> QED
  BY <1>1 DEF _allowed_on, DueFields, AnyField, _fields_on

\* The line of the record of a call names that call.
LEMMA EntryOfLine ==
    ASSUME NEW c \in Calls, NEW h, NEW x
    PROVE  EntryOf([handler |-> h, record |-> Logged(c), carries |-> x])
             = [handler |-> h, call |-> c, carries |-> x]
<1>1. /\ Logged(c).by = c.by /\ Logged(c).nth = c.nth /\ Logged(c).event = c.event
      /\ Logged(c).name = c.name /\ Logged(c).fields = c.fields
  BY DEF Logged
<1>2. [by |-> c.by, nth |-> c.nth, event |-> c.event, name |-> c.name, fields |-> c.fields] = c
  BY DEF Calls
<1> QED
  BY <1>1, <1>2 DEF EntryOf

\* What the record of a call becomes is what the call is due.
LEMMA LinesAsPromised ==
    ASSUME ApplicationLoggers, AccessOnApp, NEW c, CallOK(c)
    PROVE  {EntryOf(l) : l \in write(Logged(c))} = Promised(c)
<1>1. c \in Calls
  BY DEF CallOK
<1>2. write(Logged(c)) =
          {[handler |-> h, record |-> Logged(c), carries |-> DueFields(c, h)] : h \in DueAt(c)}
  BY TakenWhereDue, CarriedFields DEF write, DueAt
<1>3. \A h \in DueAt(c) :
          EntryOf([handler |-> h, record |-> Logged(c), carries |-> DueFields(c, h)])
            = [handler |-> h, call |-> c, carries |-> DueFields(c, h)]
  BY <1>1, EntryOfLine
<1> QED
  BY <1>2, <1>3, Zenon DEF Promised

\* What a warning becomes is a notice for each who is to have one.
LEMMA WarningAsNoticed ==
    ASSUME NEW c
    PROVE  {<<l.handler, l.record.about>> : l \in write(Warned(c))} = Noticing \X {c.name}
<1>1. /\ Warned(c).name = internal_logger /\ Warned(c).level = WARNING
      /\ Warned(c).streams = {"APP"} /\ Warned(c).about = c.name
  BY DEF Warned
<1>2. ASSUME NEW h \in Handlers
      PROVE  h \in Noticing <=>
                 /\ Warned(c).level >= Level(Warned(c).name) /\ Warned(c).level >= loglevel
                 /\ Home(Warned(c).name) \in Bindings(h) /\ filter(h, Warned(c))
  <2>1. filter(h, Warned(c)) <=> StreamOf(h) \in {"APP", None}
    BY <1>1 DEF filter
  <2>2. WARNING >= loglevel <=> loglevel <= WARNING
    BY RoutingAssumption DEF WARNING
  <2> QED
    BY <1>1, <2>1, <2>2, InternalLogger, BoundToRoot DEF Noticing
<1>3. write(Warned(c)) =
          {[handler |-> h, record |-> Warned(c), carries |-> _allowed_on(h, Warned(c))] :
              h \in Noticing}
  BY <1>2 DEF write, Noticing
<1> DEFINE noticed == {<<l.handler, l.record.about>> : l \in write(Warned(c))}
<1>4. noticed \subseteq Noticing \X {c.name}
  BY <1>1, <1>3
<1>5. ASSUME NEW h \in Noticing PROVE <<h, c.name>> \in noticed
  <2> DEFINE line == [handler |-> h, record |-> Warned(c), carries |-> _allowed_on(h, Warned(c))]
  <2>1. line \in write(Warned(c))
    BY <1>3
  <2>2. line.handler = h /\ line.record.about = c.name
    BY <1>1
  <2> HIDE DEF line
  <2> QED
    BY <2>1, <2>2
<1> QED
  BY <1>4, <1>5

\* The lines that are added are entered, or noticed, and nothing else.
LEMMA LinesAdded ==
    ASSUME NEW rec, lines' = lines \cup write(rec)
    PROVE  /\ rec.event # None =>
                  /\ Entered' = Entered \cup {EntryOf(l) : l \in write(rec)}
                  /\ Noticed' = Noticed
           /\ rec.event = None =>
                  /\ Noticed' = Noticed
                       \cup {<<l.handler, l.record.about>> : l \in write(rec)}
                  /\ Entered' = Entered
<1>1. \A l \in write(rec) : l.record = rec
  BY LineOf
<1> HIDE DEF write
<1> QED
  BY <1>1 DEF Entered, Noticed, EntryOf

\* With the lines, what was entered and noticed is left alone.
LEMMA LinesKept == UNCHANGED lines => UNCHANGED <<Entered, Noticed>>
  BY DEF Entered, Noticed, EntryOf

------------------------------------------------------------------------------
(* The invariant. *)

\* emit counts the call, and gives one it takes the number it had.
LEMMA EmitCounts ==
    ASSUME Control, NEW t \in Threads, Emits(t)
    PROVE  /\ pc[t] = "idle" /\ call[t] = NoCall /\ UNCHANGED <<reported, lines>>
           /\ emits' = [emits EXCEPT ![t] = emits[t] + 1]
           /\ \/ UNCHANGED <<pc, call, accepted>>
              \/ \E c \in Calls :
                     /\ c # NoCall /\ c.by = t /\ c.nth = emits[t]
                     /\ call' = [call EXCEPT ![t] = c] /\ accepted' = accepted \cup {c}
                     /\ \/ Outside(c) /\ pc' = [pc EXCEPT ![t] = "check"]
                        \/ ~Outside(c) /\ pc' = [pc EXCEPT ![t] = "log"]
<1>1. PICK e \in DOMAIN Catalogue, name \in Loggers, F \in Payloads : emit(t, e, name, F)
  BY DEF Emits
<1> DEFINE c == [by |-> t, nth |-> emits[t], event |-> e, name |-> name, fields |-> F]
<1>2. emits[t] \in 0 .. MaxEmits - 1
  BY <1>1, RoutingAssumption DEF emit, Control
<1>3. c \in Calls /\ c.by = t /\ c.nth = emits[t] /\ c.event = e /\ c.name = name
  BY <1>2 DEF Calls
<1>4. c # NoCall
  BY <1>3, CallIsCall
<1>5. /\ pc[t] = "idle" /\ call[t] = NoCall /\ UNCHANGED <<reported, lines>>
      /\ emits' = [emits EXCEPT ![t] = emits[t] + 1]
  BY <1>1 DEF emit, Control
<1>6. CASE Refused(e, F)
  BY <1>1, <1>5, <1>6 DEF emit
<1>7. CASE ~Refused(e, F)
  <2>1. call' = [call EXCEPT ![t] = c] /\ accepted' = accepted \cup {c}
    BY <1>1, <1>7 DEF emit
  <2>2. pc' = [pc EXCEPT ![t] = IF Catalogue[e].streams # {} /\ ~within_root(name)
                                THEN "check" ELSE "log"]
    BY <1>1, <1>7 DEF emit
  <2>3. \/ Outside(c) /\ pc' = [pc EXCEPT ![t] = "check"]
        \/ ~Outside(c) /\ pc' = [pc EXCEPT ![t] = "log"]
    BY <2>2, <1>3 DEF Outside
  <2> HIDE DEF c
  <2> QED
    BY <2>1, <2>3, <1>3, <1>4, <1>5
<1> QED
  BY <1>6, <1>7

\* The calls stay their threads' own, and the next number is not taken.
LEMMA OwnedStep ==
    ASSUME Control, Accepted, Owned, NEW t \in Threads, Step(t)
    PROVE  Owned'
<1>1. \A c \in accepted : c.by \in Threads /\ c.nth \in Nat /\ emits[c.by] \in Nat
  BY RoutingAssumption DEF Control, Calls
<1>2. CASE Emits(t)
  <2>1. \A c \in accepted : c.nth < emits'[c.by]
    BY <1>1, <1>2, EmitCounts DEF Owned, Control
  <2>2. CASE UNCHANGED <<pc, call, accepted>>
    BY <2>1, <2>2 DEF Owned
  <2>3. CASE ~UNCHANGED <<pc, call, accepted>>
    <3>1. PICK c \in Calls :
              /\ c # NoCall /\ c.by = t /\ c.nth = emits[t]
              /\ call' = [call EXCEPT ![t] = c] /\ accepted' = accepted \cup {c}
      BY <1>2, <2>3, EmitCounts
    <3>2. c.nth < emits'[c.by]
      BY <1>2, <3>1, EmitCounts, RoutingAssumption DEF Control
    <3>3. \A u \in Threads : call'[u] # NoCall => call'[u].by = u
      BY <3>1 DEF Owned, Control
    <3> QED
      BY <2>1, <3>1, <3>2, <3>3 DEF Owned
  <2> QED
    BY <2>2, <2>3
<1>3. CASE report_checks(t) \/ report_adds(t) \/ warn_on_app_stream(t)
  BY <1>3 DEF report_checks, report_adds, warn_on_app_stream, Owned
<1>4. CASE log(t)
  BY <1>4 DEF log, Owned, Control
<1> QED
  BY <1>2, <1>3, <1>4 DEF Step

\* Whoever reports a logger has it noticed before anything else.
LEMMA HeardStep ==
    ASSUME Control, Accepted, Owned, Heard, NEW t \in Threads, Step(t)
    PROVE  Heard'
<1> DEFINE NoticedOf(name) == Noticing \X {name} \subseteq Noticed
           Warns(u, name) == pc[u] = "warn" /\ call[u].name = name
<1>1. \A c : Outside(c)' <=> Outside(c)
  BY DEF Outside
<1>2. /\ \A u \in Threads : pc[u] \in {"check", "add", "warn"} => Outside(call[u])
      /\ \A name \in reported : NoticedOf(name) \/ \E u \in Threads : Warns(u, name)
  BY DEF Heard
<1>3. SUFFICES
        /\ \A u \in Threads : pc'[u] \in {"check", "add", "warn"} => Outside(call'[u])
        /\ \A name \in reported' : NoticedOf(name)' \/ \E u \in Threads : Warns(u, name)'
  BY <1>1, Zenon DEF Heard
<1>4. Noticing' = Noticing
  BY DEF Noticing, Handlers, StreamOf
<1>5. UNCHANGED lines => \A name : NoticedOf(name)' <=> NoticedOf(name)
  BY <1>4, LinesKept
<1> HIDE DEF NoticedOf
<1>6. CASE Emits(t)
  <2>1. CASE UNCHANGED <<pc, call, accepted>>
    BY <1>2, <1>5, <1>6, <2>1, EmitCounts
  <2>2. CASE ~UNCHANGED <<pc, call, accepted>>
    <3>1. PICK c \in Calls :
              /\ call' = [call EXCEPT ![t] = c]
              /\ \/ Outside(c) /\ pc' = [pc EXCEPT ![t] = "check"]
                 \/ ~Outside(c) /\ pc' = [pc EXCEPT ![t] = "log"]
      BY <1>6, <2>2, EmitCounts
    <3>2. \A u \in Threads : u # t => pc'[u] = pc[u] /\ call'[u] = call[u]
      BY <3>1 DEF Control
    <3>3. call'[t] = c /\ ((pc'[t] = "check" /\ Outside(c)) \/ pc'[t] = "log")
      BY <3>1 DEF Control
    <3> QED
      BY <1>2, <1>5, <1>6, <3>2, <3>3, EmitCounts
  <2> QED
    BY <2>1, <2>2
<1>7. CASE report_checks(t)
  <2>1. /\ UNCHANGED <<lines, reported, call>>
        /\ \A u \in Threads : u # t => pc'[u] = pc[u]
        /\ pc[t] = "check" /\ pc'[t] \in {"log", "add"}
    BY <1>7 DEF report_checks, Control
  <2> QED
    BY <1>2, <1>5, <2>1
<1>8. CASE report_adds(t)
  <2>1. /\ UNCHANGED <<lines, call>> /\ reported' = reported \cup {call[t].name}
        /\ \A u \in Threads : u # t => pc'[u] = pc[u]
        /\ pc[t] = "add" /\ pc'[t] = "warn"
    BY <1>8 DEF report_adds, Control
  <2> QED
    BY <1>2, <1>5, <2>1
<1>9. CASE warn_on_app_stream(t)
  <2>1. /\ UNCHANGED <<reported, call>> /\ lines' = lines \cup write(Warned(call[t]))
        /\ \A u \in Threads : u # t => pc'[u] = pc[u]
        /\ pc[t] = "warn" /\ pc'[t] = "log"
    BY <1>9 DEF warn_on_app_stream, Control
  <2>2. Noticed' = Noticed \cup (Noticing \X {call[t].name})
    <3>1. Warned(call[t]).event = None
      BY DEF Warned
    <3> QED
      BY <2>1, <3>1, LinesAdded, WarningAsNoticed
  <2>3. NoticedOf(call[t].name)' /\ \A name : NoticedOf(name) => NoticedOf(name)'
    BY <1>4, <2>1, <2>2 DEF NoticedOf
  <2> QED
    BY <1>2, <2>1, <2>3
<1>10. CASE log(t)
  <2>1. /\ UNCHANGED reported /\ lines' = lines \cup write(Logged(call[t]))
        /\ \A u \in Threads : u # t => pc'[u] = pc[u] /\ call'[u] = call[u]
        /\ pc[t] = "log" /\ pc'[t] = "idle"
    BY <1>10 DEF log, Control
  <2>2. Logged(call[t]).event # None
    BY <2>1, AtWork, CallIsCall DEF Logged
  <2>3. \A name : NoticedOf(name) => NoticedOf(name)'
    BY <1>4, <2>1, <2>2, LinesAdded DEF NoticedOf
  <2> QED
    BY <1>2, <2>1, <2>3
<1> QED
  BY <1>6, <1>7, <1>8, <1>9, <1>10 DEF Step

\* What the refinement rests on, in every reachable state.
LEMMA JournalInvariance == Spec => []JournalInv
<1>1. Init => Owned /\ Heard
  BY DEF Init, Owned, Heard
<1>2. IInv /\ Owned /\ Heard /\ [Next]_vars => Owned' /\ Heard'
  <2> SUFFICES ASSUME IInv, Owned, Heard, [Next]_vars PROVE Owned' /\ Heard'
    OBVIOUS
  <2>1. CASE Next
    <3>1. PICK t \in Threads : Step(t)
      BY <2>1 DEF Next, Step
    <3> QED
      BY <3>1, OwnedStep, HeardStep DEF IInv
  <2>2. CASE UNCHANGED vars
    <3>1. UNCHANGED <<pc, call, emits, accepted, reported, Noticed>>
      BY <2>2, LinesKept DEF vars
    <3>2. Noticing' = Noticing
      BY DEF Noticing, Handlers, StreamOf
    <3>3. Heard'
      BY <3>1, <3>2 DEF Heard, Outside
    <3> QED
      BY <3>1, <3>3 DEF Owned
  <2> QED
    BY <2>1, <2>2
<1> QED
  BY <1>1, <1>2, Invariance, PTL DEF Spec, JournalInv

------------------------------------------------------------------------------
(* The steps of the journal. *)

\* The threads start as the journal starts.
LEMMA JournalInitialised == Init => Journal!Init
  BY DEF Init, Journal!Init, Ongoing, Entered, Noticed

\* What emit takes is accepted into the journal, what it refuses is no step.
LEMMA JournalAccepts ==
    ASSUME JournalInv, NEW t \in Threads, Emits(t)
    PROVE  [Journal!Next]_(Journal!journalVars)
<1>1. Control /\ Accepted /\ Owned
  BY DEF JournalInv, IInv
<1>2. UNCHANGED <<Entered, Noticed>>
  BY <1>1, EmitCounts, LinesKept
<1>3. CASE UNCHANGED <<pc, call, accepted>>
  BY <1>2, <1>3 DEF Journal!journalVars, Ongoing
<1>4. CASE ~UNCHANGED <<pc, call, accepted>>
  <2>1. PICK c \in Calls :
            /\ c # NoCall /\ c.by = t /\ c.nth = emits[t]
            /\ call' = [call EXCEPT ![t] = c] /\ accepted' = accepted \cup {c}
    BY <1>1, <1>4, EmitCounts
  <2>2. call[t] = NoCall /\ emits[t] \in Nat
    BY <1>1, EmitCounts, RoutingAssumption DEF Control
  <2>3. c \notin accepted /\ Ongoing \subseteq accepted
    BY <1>1, <2>1, <2>2 DEF Owned, Accepted, Ongoing
  <2>4. Ongoing' = Ongoing \cup {c}
    BY <1>1, <2>1, <2>2 DEF Ongoing, Control
  <2>5. (accepted \ Ongoing)' = accepted \ Ongoing
    BY <2>1, <2>3, <2>4
  <2>6. Journal!Accept(c)
    BY <1>2, <2>4, <2>5 DEF Journal!Accept
  <2> QED
    BY <2>1, <2>3, <2>6 DEF Journal!Next
<1> QED
  BY <1>3, <1>4

\* The warning gives the notice.
LEMMA JournalNotices ==
    ASSUME JournalInv, NEW t \in Threads, warn_on_app_stream(t)
    PROVE  [Journal!Next]_(Journal!journalVars)
<1> DEFINE c == call[t]
<1>1. Control /\ Accepted /\ Heard /\ pc[t] = "warn" /\ lines' = lines \cup write(Warned(c))
      /\ UNCHANGED <<call, accepted>>
  BY DEF JournalInv, IInv, warn_on_app_stream
<1>2. c \in Ongoing /\ c \in Unwatched
  BY <1>1, AtWork DEF Ongoing, Unwatched, Heard, Outside
<1>3. Noticed' = Noticed \cup (Noticing \X {c.name}) /\ Entered' = Entered
  <2>1. Warned(c).event = None
    BY DEF Warned
  <2> QED
    BY <1>1, <2>1, LinesAdded, WarningAsNoticed
<1>4. Journal!Notice(c)
  BY <1>1, <1>2, <1>3 DEF Journal!Notice, Journal!NoticesOf, Ongoing
<1> QED
  BY <1>2, <1>4 DEF Journal!Next

\* The record of a call enters all it is due, and a call outside the tree comes
\* after the notice about its logger, or while a thread has it in hand.
LEMMA JournalEnters ==
    ASSUME ApplicationLoggers, AccessOnApp, JournalInv, NEW t \in Threads, log(t)
    PROVE  [Journal!Next]_(Journal!journalVars)
<1> DEFINE c == call[t]
<1>1. /\ Control /\ Accepted /\ Marked /\ Owned /\ Heard /\ pc[t] = "log"
      /\ lines' = lines \cup write(Logged(c))
      /\ call' = [call EXCEPT ![t] = NoCall] /\ UNCHANGED accepted
  BY DEF JournalInv, IInv, log
<1>2. c \in Calls /\ c \in accepted /\ c # NoCall /\ CallOK(c) /\ c.event # None
  BY <1>1, AtWork, CallIsCall DEF Accepted
<1>3. \A u \in Threads : u # t => call[u] # c
  BY <1>1, <1>2 DEF Owned
<1>4. Ongoing' = Ongoing \ {c} /\ c \in Ongoing
  BY <1>1, <1>2, <1>3 DEF Ongoing, Control
<1>5. (accepted \ Ongoing)' = (accepted \ Ongoing) \cup {c}
  BY <1>1, <1>2, <1>4
<1>6. Entered' = Entered \cup Promised(c) /\ Noticed' = Noticed
  <2>1. Logged(c).event # None
    BY <1>2 DEF Logged
  <2> QED
    BY <1>1, <1>2, <2>1, LinesAdded, LinesAsPromised
<1>7. ASSUME c \in Unwatched PROVE Journal!Settled(c)
  <2>1. c.name \in reported
    BY <1>1, <1>7 DEF Marked, Outside, Unwatched
  <2>2. CASE Noticing \X {c.name} \subseteq Noticed
    BY <2>2 DEF Journal!Settled, Journal!NoticesOf
  <2>3. CASE ~(Noticing \X {c.name} \subseteq Noticed)
    <3>1. PICK u \in Threads : pc[u] = "warn" /\ call[u].name = c.name
      BY <1>1, <2>1, <2>3 DEF Heard
    <3>2. call[u] \in Ongoing \ {c} /\ call[u] \in Unwatched
      BY <1>1, <1>3, <3>1, AtWork DEF Ongoing, Unwatched, Heard, Outside
    <3> QED
      BY <3>1, <3>2 DEF Journal!Settled
  <2> QED
    BY <2>2, <2>3
<1>8. Journal!Enter(c)
  BY <1>4, <1>5, <1>6, <1>7 DEF Journal!Enter
<1> QED
  BY <1>4, <1>8 DEF Journal!Next

\* Each step of a thread is a step of the journal or a stutter.
LEMMA JournalStep ==
    ASSUME ApplicationLoggers, AccessOnApp, JournalInv, [Next]_vars
    PROVE  [Journal!Next]_(Journal!journalVars)
<1>1. CASE UNCHANGED <<call, accepted, lines>>
  BY <1>1, LinesKept DEF Journal!journalVars, Ongoing
<1>2. CASE Next
  <2>1. PICK t \in Threads : Step(t)
    BY <1>2 DEF Next, Step
  <2>2. CASE report_checks(t) \/ report_adds(t)
    BY <1>1, <2>2 DEF report_checks, report_adds
  <2> QED
    BY <2>1, <2>2, JournalAccepts, JournalNotices, JournalEnters DEF Step
<1> QED
  BY <1>1, <1>2 DEF vars

\* Every behaviour of the threads is one of the journal: whatever the catalogue,
\* the tree and the handlers, an event becomes the lines the overview tells of,
\* at once and no others, and no logger outside the tree goes unnoticed.
THEOREM Implementation ==
    ASSUME ApplicationLoggers, AccessOnApp
    PROVE  Spec => ImplementsJournal
<1>1. JournalInv /\ [Next]_vars => [Journal!Next]_(Journal!journalVars)
  BY JournalStep
<1> QED
  BY <1>1, JournalInitialised, JournalInvariance, PTL DEF Spec, ImplementsJournal, Journal!Spec

\* At any time, what the handlers wrote of events is what the finished calls are
\* due, entry for entry.
THEOREM JournalOfFinished ==
    ASSUME ApplicationLoggers, AccessOnApp
    PROVE  Spec => []Journal!JournalExact
<1>1. Journal!Init => Journal!JournalExact
  BY DEF Journal!Init, Journal!JournalExact
<1>2. Journal!JournalExact /\ [Journal!Next]_(Journal!journalVars) => Journal!JournalExact'
  <2>1. \A c : Promised(c)' = Promised(c)
    BY DEF Promised, DueAt, DueFields, Handlers, Level, Home, Overview, StreamOf
  <2> SUFFICES ASSUME Journal!JournalExact, [Journal!Next]_(Journal!journalVars)
               PROVE  Journal!JournalExact'
    OBVIOUS
  <2>2. CASE UNCHANGED Journal!journalVars
    BY <2>1, <2>2 DEF Journal!JournalExact, Journal!journalVars
  <2>3. ASSUME NEW c, Journal!Enter(c) PROVE Journal!JournalExact'
    BY <2>1, <2>3 DEF Journal!JournalExact, Journal!Enter
  <2>4. ASSUME NEW c, Journal!Notice(c) \/ Journal!Accept(c) PROVE Journal!JournalExact'
    BY <2>1, <2>4 DEF Journal!JournalExact, Journal!Notice, Journal!Accept
  <2> QED
    BY <2>2, <2>3, <2>4 DEF Journal!Next
<1> QED
  BY <1>1, <1>2, Implementation, PTL DEF ImplementsJournal, Journal!Spec
================================================================================
