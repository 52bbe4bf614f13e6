------------------------------- MODULE TestSuite -------------------------------
(****************************************************************************)
(* A process that configures the library again and again, as a test suite   *)
(* does: configure(), the middleware of the application under test, events, *)
(* captures around them, reset_for_tests().  configure() and the reset come *)
(* while no capture is open, as in the fixtures of the repository; the      *)
(* whole of a call is one step, as nothing logs from another thread then.   *)
(****************************************************************************)
EXTENDS Configuration, Captures

CONSTANT Sources     \* the loggers the application logs on

ASSUME SuiteAssumption ==
    /\ Sources \subseteq Loggers
    /\ CaptureIds \cap (Calls \X HandlerNames) = {}

vars == <<treeVars, registryVars, captures>>

Handlers == CaptureIds \cup (Calls \X HandlerNames)
Entry == [handlers : SUBSET Handlers, level : Nat, propagate : BOOLEAN]

TypeOK ==
    /\ tree \in [Loggers -> Entry]
    /\ cache \in [Loggers -> [RecordLevels -> {"unknown", "yes", "no"}]]
    /\ logger_root \in Roots /\ reported \subseteq Loggers
    /\ strict_fields \in BOOLEAN /\ StandardFields \subseteq context_fields
    /\ catalogue \in Catalogue \cup {None} /\ access_logs \in BOOLEAN \cup {None}
    /\ middleware \in BOOLEAN \cup {None} /\ inPlace \in Calls \cup {None}
    /\ wired \subseteq Roots /\ Ids \subseteq CaptureIds

Init == TreeInit /\ RegistryInit /\ CapturesInit

Configure == captures = <<>> /\ \E c \in Calls : configure(c)
Reset == captures = <<>> /\ reset_for_tests
Open ==
    \E id \in CaptureIds, names \in LoggerNames, level \in CaptureLevels :
        OpenCapture(id, names, level)
Log == \E l \in Sources, v \in RecordLevels : emit(l, v)

Next ==
    \/ (Configure \/ AddMiddleware \/ Reset) /\ UNCHANGED captures
    \/ (Open \/ CloseCapture) /\ UNCHANGED registryVars
    \/ Log /\ UNCHANGED <<registryVars, captures>>

Spec == Init /\ [][Next]_vars

------------------------------------------------------------------------------
(* Properties. *)

\* A logger in the tree of a root that was configured and left behind: dictConfig
\* does not take the handlers off a root that the next document does not name.
Stray(l, root) == Line(l) \cap (wired \ {root}) # {}

\* Whichever calls of configure() failed, and where, the library finds in the
\* registered catalogue every event it emits under the registered access
\* setting, with an id and without a field that makes logging raise.
LibraryCanLog ==
    catalogue # None =>
        \A n \in REQUIRED_EVENTS \ excused_events(access_logs) :
            \E a \in attributes(catalogue) :
                /\ a[1] = n /\ a[2] # NotEvent
                /\ a[2].event_id # UNSET_EVENT_ID /\ a[2].fields \cap ReservedFields = {}

\* The context fields collected are those of the catalogue in force, also after
\* a call that failed half way.
ContextOfCatalogue ==
    context_fields = StandardFields \cup (IF catalogue = None THEN {} ELSE Names(catalogue))

\* A middleware that could be built finds a catalogue for every request, and
\* the event of its access records unless a later configure() switched them off.
MiddlewareServes ==
    middleware # None =>
        /\ catalogue # None
        /\ middleware = TRUE =>
               access_logs = FALSE \/ "ACCESS_REQUEST" \notin missing_events(catalogue, TRUE)

\* What report_outside_root noted is outside the tree in force, so a logger a
\* new root leaves outside is warned about again.
ReportedOutside == \A l \in reported : ~within_root(l)

\* The tree under the root of the document in place gets the handlers of that
\* very document, and a record outside reaches the debug stream only (loggers.py)
\* - but for the loggers of a root configured before and left behind.  It holds
\* of a root that was never configured (tests/test_routing.py: the old root stops
\* being routed), and after a call that failed with its root registered.
TreeFollowsDocument ==
    captures = <<>> /\ inPlace # None =>
        LET root == Args[inPlace].logger_root
        IN  \A l \in Loggers :
                IF root \in Line(l)
                THEN callHandlers(l) = {<<inPlace, n>> : n \in Args[inPlace].handlers}
                ELSE \/ "uvicorn" \in Line(l) \/ Stray(l, root)
                     \/ callHandlers(l) \subseteq {inPlace} \X DebugHandlers

\* Leaving the captures one by one passes through the trees they found, however
\* deep they are nested and whatever they share.
UnwindsInOrder ==
    \A i \in DOMAIN captures :
        restored(captures[i].saved, IF i = Len(captures) THEN tree ELSE captures[i + 1].before)
            = captures[i].before

\* While a capture on the root is open nothing reaches a real handler, except
\* in the tree of a root that was configured and is not the one in force.
NothingLive ==
    \A i \in DOMAIN captures :
        captures[i].names = {} =>
            \A l \in Loggers : Stray(l, logger_root) \/ callHandlers(l) \subseteq CaptureIds

\* The same of every tree: captures detach the real handlers so nothing reaches a
\* live syslog socket (testing.py, _CaptureHandler).
CaptureDetaches ==
    \A i \in DOMAIN captures :
        captures[i].names = {} => \A l \in Loggers : callHandlers(l) \subseteq CaptureIds

\* Captures opened inside a capture leave it attached: it still gets what is
\* logged on its targets, a capture on the root the whole tree but uvicorn.access
\* and the loggers of a root that was configured and is not the one in force.
StillAttached ==
    \A i \in DOMAIN captures :
        IF captures[i].names = {}
        THEN \A l \in Loggers :
                 \/ Stray(l, logger_root) \/ "uvicorn.access" \in Line(l)
                 \/ captures[i].id \in callHandlers(l)
        ELSE \A l \in captures[i].names : captures[i].id \in callHandlers(l)

\* The answers of isEnabledFor that are kept hold of the levels in place through
\* every step but the end of a capture, which assigns the levels it found: what
\* configure(), a capture or a reset makes of the levels, every logger follows.
AnswersTrue ==
    \A l \in Loggers, v \in RecordLevels :
        cache[l][v] # "unknown" => (cache[l][v] = "yes" <=> LevelAllows(l, v))

AnswersHold ==
    [][Len(captures') >= Len(captures) /\ (AnswersTrue \/ tree' # tree) => AnswersTrue']_vars

\* What the levels and handlers in place let through to the newest capture
\* reaches it, also after a capture inside it has ended
\* (tests/test_testing_helpers.py: the inner capture stops at its own block).
InnerStopsAtItsBlock ==
    captures # <<>> =>
        \A l \in Sources, v \in RecordLevels :
            LevelAllows(l, v) /\ Newest.id \in callHandlers(l) => isEnabledFor(l, v)
================================================================================
