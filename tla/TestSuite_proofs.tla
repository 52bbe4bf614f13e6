--------------------------- MODULE TestSuite_proofs ---------------------------
(****************************************************************************)
(* Proofs about TestSuite, for any arguments of configure(), catalogues,    *)
(* class hierarchies, loggers and captures nested to any depth.  The        *)
(* registries are one invariant (Registered); the tree of loggers is        *)
(* followed through the trees that the open captures found (Trees).         *)
(****************************************************************************)
EXTENDS TestSuite, SequenceTheorems, TLAPS

------------------------------------------------------------------------------
(* The inductive invariant: the registries. *)

\* Catalogue, access setting and context fields change together, and only to a
\* catalogue that was validated under that setting.
Registered ==
    /\ catalogue = None <=> access_logs = None
    /\ catalogue # None => validate_catalogue(catalogue, access_logs)
    /\ ContextOfCatalogue
    /\ middleware # None => catalogue # None

RegistryTypes ==
    /\ strict_fields \in BOOLEAN
    /\ catalogue \in Catalogue \cup {None} /\ access_logs \in BOOLEAN \cup {None}
    /\ middleware \in BOOLEAN \cup {None} /\ inPlace \in Calls \cup {None}
    /\ logger_root \in Roots /\ reported \subseteq Loggers /\ wired \subseteq Roots

(* The inductive invariant: the trees. *)

Tree == [Loggers -> Entry]
Frame == [id : CaptureIds, names : SUBSET Loggers,
          saved : UNION {[S -> Entry] : S \in SUBSET Loggers}, before : Tree]

TreeTypes ==
    /\ tree \in Tree /\ captures \in Seq(Frame)
    /\ cache \in [Loggers -> [RecordLevels -> {"unknown", "yes", "no"}]]

\* The tree now, and each tree an open capture found.
Trees == {tree} \cup {captures[i].before : i \in DOMAIN captures}

\* The loggers that may have handlers of dictConfig, and those that may not
\* propagate.
Equipped == (wired \cup {ROOT}) \cup {"uvicorn", "uvicorn.error"}
Cut == wired \cup {"uvicorn", "uvicorn.error", "uvicorn.access"}

Shape ==
    \A t \in Trees : \A m \in Loggers :
        /\ m \in Equipped \/ t[m].handlers \subseteq CaptureIds
        /\ m \in Cut \/ t[m].propagate

\* What an open capture makes sure of in a tree: a capture on the root that all
\* but the trees of roots left behind is silent and connected with it, every capture
\* that it is attached to its loggers.
Left == wired \ {logger_root}

Silent(t, left) == \A m \in Loggers : m \in left \/ t[m].handlers \subseteq CaptureIds
Connected(t, left) ==
    \A m \in Loggers : (m \in left \/ m = "uvicorn.access") \/ t[m].propagate

Holds(f, t, left) ==
    /\ f.names = {} => Silent(t, left) /\ Connected(t, left)
    /\ \A m \in targets(f.names) : f.id \in t[m].handlers

\* It does so in the tree now, and in the tree each capture inside it found.
Guarded ==
    \A i \in DOMAIN captures :
        /\ Holds(captures[i], tree, Left)
        /\ \A j \in i + 1 .. Len(captures) :
               Holds(captures[i], captures[j].before, Left)

\* The tree without captures is what the document in place made of it.
BaseTree == IF captures = <<>> THEN tree ELSE captures[1].before

Below(m, r) == m \notin Named(r) /\ \E b \in Named(r) \ {ROOT} : b \in Line(m)

Based ==
    /\ \A m \in Loggers : BaseTree[m].handlers = {} \/ m \in Equipped
    /\ inPlace # None =>
           /\ Args[inPlace].logger_root \in wired
           /\ \A m \in Loggers :
                  /\ m \in Named(Args[inPlace].logger_root) => BaseTree[m] = document(inPlace, m)
                  /\ Below(m, Args[inPlace].logger_root) => BaseTree[m] = Fresh

IInv ==
    /\ RegistryTypes /\ Registered /\ ReportedOutside
    /\ TreeTypes /\ UnwindsInOrder /\ Shape /\ Guarded /\ Based

------------------------------------------------------------------------------
(* Lemmas about the calls. *)

\* How far configure() gets says what it has checked.
LEMMA StageFacts ==
    ASSUME NEW c \in Calls, NEW n \in Stages(Args[c])
    PROVE  /\ n \in 0 .. 4
           /\ n >= 1 => validate_catalogue(Args[c].catalogue, Args[c].access_logs)
           /\ n >= 3 => Args[c].logger_root \in Roots
           /\ n = 4 => Args[c].handlers \subseteq HandlerNames
  <1> DEFINE ok == validate_catalogue(Args[c].catalogue, Args[c].access_logs)
  <1>1. Stages(Args[c]) = IF Args[c].loglevel \notin Levels \/ ~ok THEN {0}
                          ELSE IF ~distinct_fields(Args[c].catalogue) THEN {1}
                          ELSE IF Args[c].logger_root \notin Roots THEN {2}
                          ELSE IF ~(Args[c].handlers \subseteq HandlerNames) THEN {3}
                          ELSE IF Args[c].syslog_path THEN {3, 4} ELSE {4}
    BY DEF Stages
  <1> HIDE DEF ok
  <1>2. /\ n \in 0 .. 4 /\ (n >= 1 => ok)
        /\ n >= 3 => Args[c].logger_root \in Roots
        /\ n = 4 => Args[c].handlers \subseteq HandlerNames
    BY <1>1
  <1> QED BY <1>2 DEF ok

\* The arguments of a call.
LEMMA ArgFacts ==
    ASSUME NEW c \in Calls
    PROVE  /\ Args[c].catalogue \in Catalogue /\ Args[c].catalogue # None
           /\ Args[c].access_logs \in BOOLEAN /\ Args[c].access_logs # None
           /\ Args[c].strict_fields \in BOOLEAN /\ Args[c].loglevel \in Nat
  BY CallsAssumption DEF Catalogue

\* A catalogue that validate_catalogue accepts has every event the library emits,
\* with an id and without a reserved field, whatever bases the events come from:
\* the events that declared_events walks include those that getattr finds.
LEMMA ValidServes ==
    ASSUME NEW cat, NEW access, validate_catalogue(cat, access)
    PROVE  \A n \in REQUIRED_EVENTS \ excused_events(access) :
               \E a \in attributes(cat) :
                   /\ a[1] = n /\ a[2] # NotEvent
                   /\ a[2].event_id # UNSET_EVENT_ID /\ a[2].fields \cap ReservedFields = {}
  <1> SUFFICES ASSUME NEW n \in REQUIRED_EVENTS \ excused_events(access)
               PROVE  \E a \in attributes(cat) :
                          /\ a[1] = n /\ a[2] # NotEvent
                          /\ a[2].event_id # UNSET_EVENT_ID
                          /\ a[2].fields \cap ReservedFields = {}
    OBVIOUS
  <1>1. PICK a \in attributes(cat) : a[1] = n /\ a[2] # NotEvent
    BY DEF validate_catalogue, missing_events
  <1>2. PICK i \in DOMAIN cat.mro : \E m \in DOMAIN cat.mro[i] :
            /\ a = <<m, cat.mro[i][m]>>
            /\ \A j \in 1 .. i - 1 : m \notin DOMAIN cat.mro[j]
    BY <1>1 DEF attributes
  <1>3. PICK m \in DOMAIN cat.mro[i] :
            /\ a = <<m, cat.mro[i][m]>>
            /\ \A j \in 1 .. i - 1 : m \notin DOMAIN cat.mro[j]
    BY <1>2
  <1>4. /\ cat.mro[i][m] # NotEvent
        /\ \A j \in 1 .. i - 1 : m \in DOMAIN cat.mro[j] => cat.mro[j][m] = NotEvent
    BY <1>1, <1>3
  <1>5. a \in declared_events(cat)
    BY <1>3, <1>4 DEF declared_events
  <1>6. a[2].event_id # UNSET_EVENT_ID
    BY <1>1, <1>5 DEF validate_catalogue, unset_event_ids
  <1>7. a[2].fields \cap ReservedFields = {}
    BY <1>5 DEF validate_catalogue, reserved_field_names
  <1> QED BY <1>1, <1>6, <1>7

------------------------------------------------------------------------------
(* The registries are preserved. *)

\* What configure() registers fits together, wherever it failed.
LEMMA ConfigureRegisters ==
    ASSUME RegistryTypes, Registered, NEW c \in Calls, configure(c)
    PROVE  RegistryTypes' /\ Registered'
  <1>1. PICK n \in Stages(Args[c]) :
            /\ Registers(Args[c], n) /\ register_logger_root(Args[c], n)
            /\ inPlace' = (IF n = 4 THEN c ELSE inPlace) /\ middleware' = middleware
            /\ wired' = IF n = 4 THEN rewired(Args[c].logger_root) ELSE wired
    BY DEF configure
  <1>2. n \in 0 .. 4 /\ (n >= 3 => Args[c].logger_root \in Roots)
    BY StageFacts
  <1>3. logger_root' \in Roots /\ reported' \subseteq Loggers /\ wired' \subseteq Roots
    BY <1>1, <1>2 DEF register_logger_root, rewired, RegistryTypes
  <1>4. strict_fields' \in BOOLEAN /\ inPlace' \in Calls \cup {None} /\ middleware' = middleware
    BY <1>1, <1>2, ArgFacts DEF Registers, RegistersAt, set_strict_fields, register_context_fields,
                          register_access_logs, register_catalogue, RegistryTypes
  <1>5. CASE n >= 2
    <2>1. /\ catalogue' = Args[c].catalogue /\ access_logs' = Args[c].access_logs
          /\ context_fields' = StandardFields \cup Names(Args[c].catalogue)
      BY <1>1, <1>2, <1>5 DEF Registers, RegistersAt, set_strict_fields, register_context_fields,
                          register_access_logs, register_catalogue
    <2>2. validate_catalogue(Args[c].catalogue, Args[c].access_logs)
      BY <1>2, <1>5, StageFacts
    <2> QED BY <1>3, <1>4, <2>1, <2>2, ArgFacts DEF RegistryTypes, Registered, ContextOfCatalogue
  <1>6. CASE ~(n >= 2)
    <2>1. /\ catalogue' = catalogue /\ access_logs' = access_logs
          /\ context_fields' = context_fields
      BY <1>1, <1>2, <1>6 DEF Registers, RegistersAt, set_strict_fields, register_context_fields,
                          register_access_logs, register_catalogue
    <2> QED BY <1>3, <1>4, <2>1 DEF RegistryTypes, Registered, ContextOfCatalogue
  <1> QED BY <1>5, <1>6

\* Every step leaves the registries consistent.
LEMMA RegistryStep ==
    ASSUME RegistryTypes, Registered, [Next]_vars
    PROVE  RegistryTypes' /\ Registered'
  <1>1. CASE Configure
    BY <1>1, ConfigureRegisters DEF Configure
  <1>2. CASE AddMiddleware
    BY <1>2 DEF AddMiddleware, treeVars, RegistryTypes, Registered, ContextOfCatalogue
  <1>3. CASE Reset
    <2>1. /\ catalogue' = None /\ access_logs' = None /\ middleware' = None
          /\ context_fields' = StandardFields /\ strict_fields' = FALSE
          /\ logger_root' = DEFAULT_LOGGER_ROOT /\ reported' = {}
          /\ inPlace' = inPlace /\ wired' = wired
      BY <1>3 DEF Reset, reset_for_tests
    <2> QED BY <2>1, TreeAssumption DEF RegistryTypes, Registered, ContextOfCatalogue
  <1>4. CASE (Open \/ CloseCapture) /\ UNCHANGED registryVars
    <2>1. UNCHANGED <<registryVars, logger_root, reported>>
      BY <1>4 DEF Open, OpenCapture, CloseCapture
    <2> QED BY <2>1 DEF registryVars, RegistryTypes, Registered, ContextOfCatalogue
  <1>5. CASE Log /\ UNCHANGED <<registryVars, captures>>
    <2>1. logger_root' = logger_root /\ reported' \subseteq Loggers
      BY <1>5, SuiteAssumption DEF Log, emit, report_outside_root, RegistryTypes
    <2>2. UNCHANGED registryVars
      BY <1>5
    <2> QED BY <2>1, <2>2 DEF registryVars, RegistryTypes, Registered, ContextOfCatalogue
  <1>6. CASE UNCHANGED vars
    BY <1>6 DEF vars, treeVars, registryVars, RegistryTypes, Registered, ContextOfCatalogue
  <1> QED BY <1>1, <1>2, <1>3, <1>4, <1>5, <1>6 DEF Next

\* What report_outside_root noted stays outside the root in force.
LEMMA ReportedStep ==
    ASSUME ReportedOutside, [Next]_vars
    PROVE  ReportedOutside'
  <1>1. CASE Configure
    <2>1. PICK c \in Calls : \E n \in Stages(Args[c]) : register_logger_root(Args[c], n)
      BY <1>1 DEF Configure, configure
    <2>2. reported' = {} \/ (reported' = reported /\ logger_root' = logger_root)
      BY <2>1 DEF register_logger_root
    <2> QED BY <2>2 DEF ReportedOutside, within_root
  <1>2. CASE Reset
    BY <1>2 DEF Reset, reset_for_tests, ReportedOutside
  <1>3. CASE Log
    BY <1>3 DEF Log, emit, report_outside_root, ReportedOutside, within_root
  <1>4. CASE UNCHANGED <<logger_root, reported>>
    BY <1>4 DEF ReportedOutside, within_root
  <1>5. AddMiddleware \/ Open \/ CloseCapture \/ UNCHANGED vars => UNCHANGED <<logger_root, reported>>
    BY DEF AddMiddleware, Open, OpenCapture, CloseCapture, vars, treeVars
  <1> QED BY <1>1, <1>2, <1>3, <1>4, <1>5 DEF Next

------------------------------------------------------------------------------
(* What the steps do to the tree and the captures. *)

\* A step configures without captures, opens a capture, ends one, or leaves tree
\* and captures alone.
LEMMA TreeCases ==
    ASSUME TreeTypes, [Next]_vars
    PROVE  \/ captures = <<>> /\ captures' = captures /\ \E c \in Calls : configure(c)
           \/ Open /\ UNCHANGED <<logger_root, inPlace, wired>>
           \/ CloseCapture /\ UNCHANGED <<logger_root, inPlace, wired>>
           \/ /\ UNCHANGED <<tree, captures, inPlace, wired>>
              /\ captures = <<>> \/ logger_root' = logger_root
              /\ cache' \in [Loggers -> [RecordLevels -> {"unknown", "yes", "no"}]]
  <1>1. CASE Configure /\ UNCHANGED captures
    BY <1>1 DEF Configure
  <1>2. CASE (AddMiddleware \/ Reset) /\ UNCHANGED captures
    BY <1>2 DEF AddMiddleware, Reset, reset_for_tests, treeVars, TreeTypes
  <1>3. CASE (Open \/ CloseCapture) /\ UNCHANGED registryVars
    BY <1>3 DEF Open, OpenCapture, CloseCapture, registryVars
  <1>4. CASE Log /\ UNCHANGED <<registryVars, captures>>
    <2>1. PICK l \in Sources, v \in RecordLevels : emit(l, v)
      BY <1>4 DEF Log
    <2>2. /\ UNCHANGED <<tree, logger_root>>
          /\ cache' = [cache EXCEPT ![l][v] = IF isEnabledFor(l, v) THEN "yes" ELSE "no"]
      BY <2>1 DEF emit
    <2>3. cache' \in [Loggers -> [RecordLevels -> {"unknown", "yes", "no"}]]
      BY <2>2 DEF TreeTypes
    <2> QED BY <1>4, <2>2, <2>3 DEF registryVars
  <1>5. CASE UNCHANGED vars
    BY <1>5 DEF vars, treeVars, registryVars, TreeTypes
  <1> QED BY <1>1, <1>2, <1>3, <1>4, <1>5 DEF Next

\* The frame of a new capture, and what the others keep.
LEMMA OpenEffect ==
    ASSUME TreeTypes, logger_root \in Roots,
           NEW id \in CaptureIds, NEW names \in LoggerNames, NEW level \in CaptureLevels,
           OpenCapture(id, names, level)
    PROVE  LET f == [id |-> id, names |-> names, saved |-> saved(names), before |-> tree]
               S == targets(names) \cup reattach(names)
           IN  /\ f \in Frame /\ S \subseteq Loggers
               /\ captures' = Append(captures, f)
               /\ tree' \in Tree
               /\ \A l \in Loggers :
                      /\ l \notin S => tree'[l] = tree[l]
                      /\ l \in S => /\ tree'[l].handlers = attached(l, id, names)
                                    /\ tree'[l].propagate = (l \in reattach(names) \/ tree[l].propagate)
  <1> DEFINE f == [id |-> id, names |-> names, saved |-> saved(names), before |-> tree]
             S == targets(names) \cup reattach(names)
             new(l) == [handlers  |-> attached(l, id, names), level |-> level,
                        propagate |-> l \in reattach(names) \/ tree[l].propagate]
  <1>1. S \subseteq Loggers /\ names \in SUBSET Loggers
    BY TreeAssumption, NamesAssumption, CapturesAssumption
       DEF targets, reattach, detached_loggers, LibraryNames
  <1>2. saved(names) \in [S -> Entry]
    BY <1>1 DEF saved, TreeTypes, Tree
  <1>3. f \in Frame
    <2> HIDE DEF S
    <2>1. saved(names) \in UNION {[R -> Entry] : R \in SUBSET Loggers}
      BY <1>1, <1>2
    <2>2. tree \in Tree
      BY DEF TreeTypes
    <2> QED BY <1>1, <2>1, <2>2 DEF Frame
  <1>4. /\ tree' = [l \in Loggers |-> IF l \in S THEN new(l) ELSE tree[l]]
        /\ captures' = Append(captures, f)
    BY DEF OpenCapture
  <1>5. \A l \in Loggers : new(l) \in Entry
    <2> TAKE l \in Loggers
    <2>1. attached(l, id, names) \in SUBSET Handlers
      BY DEF attached, Handlers
    <2>2. level \in Nat /\ (l \in reattach(names) \/ tree[l].propagate) \in BOOLEAN
      BY CapturesAssumption
    <2> QED BY <2>1, <2>2 DEF Entry
  <1>6. tree' \in Tree
    <2> HIDE DEF new, S
    <2> QED BY <1>4, <1>5 DEF Tree, TreeTypes
  <1>7. \A l \in Loggers :
            /\ l \notin S => tree'[l] = tree[l]
            /\ l \in S => tree'[l].handlers = attached(l, id, names)
            /\ l \in S => tree'[l].propagate = (l \in reattach(names) \/ tree[l].propagate)
    <2> HIDE DEF S
    <2> QED BY <1>4
  <1> HIDE DEF f, S
  <1>8. /\ f \in Frame /\ S \subseteq Loggers
        /\ captures' = Append(captures, f)
        /\ tree' \in Tree
        /\ \A l \in Loggers :
               /\ l \notin S => tree'[l] = tree[l]
               /\ l \in S => /\ tree'[l].handlers = attached(l, id, names)
                             /\ tree'[l].propagate = (l \in reattach(names) \/ tree[l].propagate)
    BY <1>1, <1>3, <1>4, <1>6, <1>7
  <1> QED BY <1>8 DEF f, S

\* The newest capture goes, the tree it found comes back.
LEMMA CloseEffect ==
    ASSUME TreeTypes, UnwindsInOrder, CloseCapture
    PROVE  /\ captures # <<>> /\ Len(captures) \in Nat \ {0}
           /\ tree' = captures[Len(captures)].before
           /\ captures' \in Seq(Frame) /\ Len(captures') = Len(captures) - 1
           /\ \A i \in 1 .. Len(captures) - 1 : captures'[i] = captures[i]
  <1>1. captures # <<>> /\ Len(captures) \in Nat \ {0}
    BY DEF CloseCapture, TreeTypes
  <1>2. tree' = captures[Len(captures)].before
    BY <1>1 DEF CloseCapture, UnwindsInOrder, Newest, TreeTypes
  <1>3. captures' = SubSeq(captures, 1, Len(captures) - 1)
    BY DEF CloseCapture
  <1>4. /\ captures' \in Seq(Frame) /\ Len(captures') = Len(captures) - 1
        /\ \A i \in 1 .. Len(captures) - 1 : captures'[i] = captures[i]
    <2> DEFINE n == Len(captures) - 1
               s == SubSeq(captures, 1, n)
    <2>1. n \in Nat /\ \A i \in 1 .. n : captures[i] \in Frame
      BY <1>1 DEF TreeTypes
    <2>2. captures' = s
      BY <1>3
    <2> HIDE DEF n
    <2>3. /\ s \in Seq(Frame) /\ Len(s) = IF 1 <= n THEN n - 1 + 1 ELSE 0
          /\ \A i \in 1 .. n - 1 + 1 : s[i] = captures[1 + i - 1]
      BY <2>1, SubSeqProperties
    <2> HIDE DEF s
    <2>4. s \in Seq(Frame) /\ Len(s) = n /\ \A i \in 1 .. n : s[i] = captures[i]
      BY <2>1, <2>3
    <2> QED BY <2>2, <2>4 DEF n
  <1> QED BY <1>1, <1>2, <1>4

\* The tree a document leads to is well formed.
LEMMA DictConfigTypes ==
    ASSUME tree \in Tree, NEW c \in Calls, Args[c].handlers \subseteq HandlerNames
    PROVE  dictConfig(c) \in Tree
  <1>1. Fresh \in Entry
    BY DEF Fresh, Entry, NOTSET
  <1>2. \A l \in Loggers : document(c, l) \in Entry
    <2> TAKE l \in Loggers
    <2>1. document(c, l).handlers \subseteq Handlers
      BY DEF document, Handlers
    <2>2. Level(Args[c], l) \in Nat /\ (l \in {ROOT, "inject"}) \in BOOLEAN
      BY ArgFacts DEF Level, CRITICAL, INFO
    <2> QED BY <2>1, <2>2 DEF document, Entry
  <1>3. \A l \in Loggers : tree[l] \in Entry
    BY DEF Tree
  <1> QED BY <1>1, <1>2, <1>3 DEF dictConfig, Tree

\* configure() leaves the tree alone, or puts a document in place that names
\* known handlers and a valid root.
LEMMA ConfigureEffect ==
    ASSUME NEW c \in Calls, configure(c)
    PROVE  \/ UNCHANGED <<tree, cache, inPlace, wired>>
           \/ /\ tree' = dictConfig(c) /\ cache' = NothingCached /\ inPlace' = c
              /\ wired' = rewired(Args[c].logger_root)
              /\ Args[c].logger_root \in Roots /\ Args[c].handlers \subseteq HandlerNames
  <1>1. PICK n \in Stages(Args[c]) :
            /\ tree' = IF n = 4 THEN dictConfig(c) ELSE tree
            /\ cache' = IF n = 4 THEN NothingCached ELSE cache
            /\ inPlace' = IF n = 4 THEN c ELSE inPlace
            /\ wired' = IF n = 4 THEN rewired(Args[c].logger_root) ELSE wired
    BY DEF configure
  <1>2. n \in 0 .. 4 /\ (n = 4 => Args[c].logger_root \in Roots /\ Args[c].handlers \subseteq HandlerNames)
    BY StageFacts
  <1> QED BY <1>1, <1>2

\* The fields of a frame.
LEMMA FrameTypes ==
    ASSUME NEW f \in Frame
    PROVE  f.id \in CaptureIds /\ f.names \subseteq Loggers /\ f.before \in Tree
  <1> DEFINE Saved == UNION {[S -> Entry] : S \in SUBSET Loggers}
  <1>1. f \in [id : CaptureIds, names : SUBSET Loggers, saved : Saved, before : Tree]
    BY DEF Frame
  <1> HIDE DEF Saved
  <1> QED BY <1>1

\* An empty cache is a cache.
LEMMA CacheTypes == NothingCached \in [Loggers -> [RecordLevels -> {"unknown", "yes", "no"}]]
  BY DEF NothingCached

------------------------------------------------------------------------------
(* The trees are preserved. *)

\* Tree, cache and frames keep their types.
LEMMA TreeTypesStep ==
    ASSUME TreeTypes, logger_root \in Roots, UnwindsInOrder, [Next]_vars
    PROVE  TreeTypes'
  <1>1. CASE captures = <<>> /\ captures' = captures /\ \E c \in Calls : configure(c)
    <2>1. PICK c \in Calls : configure(c)
      BY <1>1
    <2> QED BY <1>1, <2>1, ConfigureEffect, DictConfigTypes, CacheTypes DEF TreeTypes
  <1>2. CASE Open
    <2>1. PICK id \in CaptureIds, names \in LoggerNames, level \in CaptureLevels :
              OpenCapture(id, names, level)
      BY <1>2 DEF Open
    <2> DEFINE f == [id |-> id, names |-> names, saved |-> saved(names), before |-> tree]
    <2>2. f \in Frame /\ captures' = Append(captures, f) /\ tree' \in Tree
      BY <2>1, OpenEffect
    <2>3. cache' = NothingCached
      BY <2>1 DEF OpenCapture
    <2> HIDE DEF f
    <2> QED BY <2>2, <2>3, CacheTypes DEF TreeTypes
  <1>3. CASE CloseCapture
    <2>1. captures' \in Seq(Frame) /\ tree' = captures[Len(captures)].before
          /\ Len(captures) \in Nat \ {0}
      BY <1>3, CloseEffect
    <2>2. tree' \in Tree
      <3>1. captures[Len(captures)] \in Frame
        BY <2>1 DEF TreeTypes
      <3> QED BY <2>1, <3>1, FrameTypes
    <2>3. cache' = cache
      BY <1>3 DEF CloseCapture
    <2> QED BY <2>1, <2>2, <2>3 DEF TreeTypes
  <1>4. CASE /\ UNCHANGED <<tree, captures, inPlace>>
             /\ cache' \in [Loggers -> [RecordLevels -> {"unknown", "yes", "no"}]]
    BY <1>4 DEF TreeTypes
  <1> QED BY <1>1, <1>2, <1>3, <1>4, TreeCases

\* Every capture still leads back to the tree it found.
LEMMA UnwindsStep ==
    ASSUME TreeTypes, logger_root \in Roots, UnwindsInOrder, [Next]_vars
    PROVE  UnwindsInOrder'
  <1>1. CASE captures = <<>> /\ captures' = captures
    BY <1>1 DEF UnwindsInOrder
  <1>2. CASE Open
    <2>1. PICK id \in CaptureIds, names \in LoggerNames, level \in CaptureLevels :
              OpenCapture(id, names, level)
      BY <1>2 DEF Open
    <2> DEFINE f == [id |-> id, names |-> names, saved |-> saved(names), before |-> tree]
               S == targets(names) \cup reattach(names)
    <2>2. /\ f \in Frame /\ captures' = Append(captures, f) /\ tree' \in Tree
          /\ \A l \in Loggers : l \notin S => tree'[l] = tree[l]
      BY <2>1, OpenEffect
    <2>3. f.before = tree /\ DOMAIN f.saved = S /\ \A l \in S : f.saved[l] = tree[l]
      BY DEF saved
    <2> HIDE DEF f, S
    <2>4. restored(f.saved, tree') = f.before
      <3>1. tree = [l \in Loggers |-> tree[l]]
        BY DEF TreeTypes, Tree
      <3>2. \A l \in Loggers : (IF l \in DOMAIN f.saved THEN f.saved[l] ELSE tree'[l]) = tree[l]
        BY <2>2, <2>3
      <3> QED BY <2>3, <3>1, <3>2 DEF restored
    <2>5. /\ Len(captures) \in Nat /\ Len(captures') = Len(captures) + 1
          /\ DOMAIN captures = 1 .. Len(captures) /\ DOMAIN captures' = 1 .. Len(captures) + 1
          /\ captures'[Len(captures) + 1] = f
          /\ \A i \in 1 .. Len(captures) : captures'[i] = captures[i]
      BY <2>2 DEF TreeTypes
    <2> SUFFICES ASSUME NEW i \in DOMAIN captures'
                 PROVE  restored(captures'[i].saved,
                                 IF i = Len(captures') THEN tree' ELSE captures'[i + 1].before)
                            = captures'[i].before
      BY DEF UnwindsInOrder
    <2>6. CASE i = Len(captures) + 1
      BY <2>4, <2>5, <2>6
    <2>7. CASE i \in 1 .. Len(captures)
      <3>1. restored(captures[i].saved, IF i = Len(captures) THEN tree ELSE captures[i + 1].before)
                = captures[i].before
        BY <2>5, <2>7 DEF UnwindsInOrder
      <3>2. captures'[i + 1].before = IF i = Len(captures) THEN tree ELSE captures[i + 1].before
        BY <2>3, <2>5, <2>7
      <3>3. i # Len(captures') /\ captures'[i] = captures[i]
        BY <2>5, <2>7
      <3> QED BY <3>1, <3>2, <3>3
    <2> QED BY <2>5, <2>6, <2>7
  <1>3. CASE CloseCapture
    <2>1. /\ Len(captures) \in Nat \ {0} /\ tree' = captures[Len(captures)].before
          /\ captures' \in Seq(Frame) /\ Len(captures') = Len(captures) - 1
          /\ \A i \in 1 .. Len(captures) - 1 : captures'[i] = captures[i]
      BY <1>3, CloseEffect
    <2> SUFFICES ASSUME NEW i \in DOMAIN captures'
                 PROVE  restored(captures'[i].saved,
                                 IF i = Len(captures') THEN tree' ELSE captures'[i + 1].before)
                            = captures'[i].before
      BY DEF UnwindsInOrder
    <2>2. i \in 1 .. Len(captures) - 1 /\ i \in DOMAIN captures /\ i # Len(captures)
      BY <2>1 DEF TreeTypes
    <2>3. restored(captures[i].saved, captures[i + 1].before) = captures[i].before
      BY <2>2 DEF UnwindsInOrder
    <2>4. captures[i + 1].before = IF i = Len(captures') THEN tree' ELSE captures'[i + 1].before
      BY <2>1, <2>2
    <2> QED BY <2>1, <2>2, <2>3, <2>4
  <1>4. CASE UNCHANGED <<tree, captures, inPlace>>
    BY <1>4 DEF UnwindsInOrder
  <1> QED BY <1>1, <1>2, <1>3, <1>4, TreeCases

\* Where the document puts handlers, and what it cuts off.
LEMMA BindingFacts ==
    ASSUME NEW n
    PROVE  /\ bindings(n) \subseteq {ROOT, "uvicorn", "uvicorn.error"}
           /\ ROOT \in bindings(n) => n \in DebugHandlers
  <1>1. ROOT \notin {"uvicorn", "uvicorn.error"}
    BY NamesAssumption DEF LibraryNames
  <1> QED BY <1>1 DEF bindings

LEMMA DocumentFacts ==
    ASSUME NEW c \in Calls, NEW m \in Named(Args[c].logger_root)
    PROVE  /\ \/ document(c, m).handlers = {}
              \/ m \in {Args[c].logger_root, ROOT, "uvicorn", "uvicorn.error"}
           /\ \/ document(c, m).propagate
              \/ m \in {Args[c].logger_root, "uvicorn", "uvicorn.error", "uvicorn.access"}
  <1>1. document(c, m).propagate = (m \in {ROOT, "inject"})
    BY DEF document
  <1>2. \/ m \in {Args[c].logger_root, "uvicorn", "uvicorn.error", "uvicorn.access"}
        \/ m \in {ROOT, "inject"}
    BY DEF Named, LibraryNames
  <1>3. ASSUME document(c, m).handlers # {}
        PROVE  m \in {Args[c].logger_root, ROOT, "uvicorn", "uvicorn.error"}
    <2>1. PICK n \in Args[c].handlers : m = Args[c].logger_root \/ m \in bindings(n)
      BY <1>3 DEF document
    <2> QED BY <2>1, BindingFacts
  <1> QED BY <1>1, <1>2, <1>3

\* What the document of a root makes of the tree: it names a logger, clears it,
\* or leaves it alone, and then a root that had handlers keeps them.
LEMMA DictConfigCases ==
    ASSUME NEW c \in Calls, tree' = dictConfig(c), wired' = rewired(Args[c].logger_root),
           NEW m \in Loggers
    PROVE  /\ Args[c].logger_root \in wired'
           /\ \/ m \in Named(Args[c].logger_root) /\ tree'[m] = document(c, m)
              \/ Below(m, Args[c].logger_root) /\ tree'[m] = Fresh
              \/ tree'[m] = tree[m] /\ (m \in wired => m \in wired')
  <1> DEFINE r == Args[c].logger_root
  <1>1. /\ m \in Named(r) => tree'[m] = document(c, m)
        /\ Below(m, r) => tree'[m] = Fresh
        /\ m \notin Named(r) /\ ~Below(m, r) => tree'[m] = tree[m]
    BY DEF dictConfig, Below
  <1>2. m \notin Named(r) /\ ~Below(m, r) => Line(m) \cap (Named(r) \ {ROOT}) = {}
    BY DEF Below
  <1>3. r \in wired' /\ (m \in wired /\ Line(m) \cap (Named(r) \ {ROOT}) = {} => m \in wired')
    BY DEF rewired
  <1> QED BY <1>1, <1>2, <1>3 DEF Below

\* Real handlers and cuts stay where documents put them, in every tree.
LEMMA ShapeStep ==
    ASSUME TreeTypes, logger_root \in Roots, UnwindsInOrder, Shape, [Next]_vars
    PROVE  Shape'
  <1>1. CASE captures = <<>> /\ captures' = captures /\ \E c \in Calls : configure(c)
    <2>1. PICK c \in Calls : configure(c)
      BY <1>1
    <2>2. Trees' = {tree'} /\ tree \in Trees
      BY <1>1 DEF Trees
    <2>3. CASE UNCHANGED <<tree, wired>>
      BY <2>2, <2>3 DEF Shape, Equipped, Cut
    <2>4. CASE tree' = dictConfig(c) /\ wired' = rewired(Args[c].logger_root)
      <3> SUFFICES ASSUME NEW m \in Loggers
                   PROVE  /\ m \in Equipped' \/ tree'[m].handlers \subseteq CaptureIds
                          /\ m \in Cut' \/ tree'[m].propagate
        BY <2>2 DEF Shape
      <3>1. /\ Args[c].logger_root \in wired'
            /\ \/ m \in Named(Args[c].logger_root) /\ tree'[m] = document(c, m)
               \/ tree'[m] = Fresh
               \/ tree'[m] = tree[m] /\ (m \in wired => m \in wired')
        BY <2>4, DictConfigCases
      <3>2. Fresh.handlers = {} /\ Fresh.propagate = TRUE
        BY DEF Fresh
      <3>3. /\ m \in Equipped \/ tree[m].handlers \subseteq CaptureIds
            /\ m \in Cut \/ tree[m].propagate
        BY <2>2 DEF Shape
      <3>4. CASE tree'[m] = tree[m] /\ (m \in wired => m \in wired')
        BY <3>3, <3>4 DEF Equipped, Cut
      <3>5. CASE m \in Named(Args[c].logger_root) /\ tree'[m] = document(c, m)
        BY <3>1, <3>5, DocumentFacts DEF Equipped, Cut
      <3> QED BY <3>1, <3>2, <3>4, <3>5
    <2> QED BY <2>1, <2>3, <2>4, ConfigureEffect
  <1>2. CASE Open /\ wired' = wired
    <2>1. PICK id \in CaptureIds, names \in LoggerNames, level \in CaptureLevels :
              OpenCapture(id, names, level)
      BY <1>2 DEF Open
    <2> DEFINE f == [id |-> id, names |-> names, saved |-> saved(names), before |-> tree]
               S == targets(names) \cup reattach(names)
    <2>2. /\ f \in Frame /\ captures' = Append(captures, f)
          /\ \A l \in Loggers :
                 /\ l \notin S => tree'[l] = tree[l]
                 /\ l \in S => /\ tree'[l].handlers = attached(l, id, names)
                               /\ tree'[l].propagate = (l \in reattach(names) \/ tree[l].propagate)
      BY <2>1, OpenEffect
    <2>3. f.before = tree
      OBVIOUS
    <2> HIDE DEF f, S
    <2>4. \A t \in Trees' : t = tree' \/ t \in Trees
      BY <2>2, <2>3 DEF Trees, TreeTypes
    <2>5. \A m \in Loggers : /\ m \in Equipped \/ tree[m].handlers \subseteq CaptureIds
                             /\ m \in Cut \/ tree[m].propagate
      BY DEF Shape, Trees
    <2>6. \A m \in Loggers : attached(m, id, names) \subseteq CaptureIds
      BY DEF attached
    <2>7. \A m \in Loggers : /\ m \in Equipped \/ tree'[m].handlers \subseteq CaptureIds
                             /\ m \in Cut \/ tree'[m].propagate
      BY <2>2, <2>5, <2>6
    <2> QED BY <1>2, <2>4, <2>7 DEF Shape, Equipped, Cut
  <1>3. CASE CloseCapture /\ wired' = wired
    <2>1. /\ Len(captures) \in Nat \ {0} /\ tree' = captures[Len(captures)].before
          /\ captures' \in Seq(Frame) /\ Len(captures') = Len(captures) - 1
          /\ \A i \in 1 .. Len(captures) - 1 : captures'[i] = captures[i]
      BY <1>3, CloseEffect
    <2>2. Trees' \subseteq Trees
      <3>1. tree' \in Trees
        BY <2>1 DEF Trees, TreeTypes
      <3>2. ASSUME NEW i \in DOMAIN captures' PROVE captures'[i].before \in Trees
        <4>1. i \in 1 .. Len(captures) - 1 /\ i \in DOMAIN captures
          BY <2>1 DEF TreeTypes
        <4> QED BY <2>1, <4>1 DEF Trees
      <3> QED BY <3>1, <3>2 DEF Trees
    <2> QED BY <1>3, <2>2 DEF Shape, Equipped, Cut
  <1>4. CASE UNCHANGED <<tree, captures, wired>>
    BY <1>4 DEF Shape, Trees, Equipped, Cut
  <1> QED BY <1>1, <1>2, <1>3, <1>4, TreeCases

\* A capture that opens holds what it promises, and keeps what others hold.
LEMMA OpenHolds ==
    ASSUME TreeTypes, logger_root \in Roots, wired \subseteq Roots, Shape,
           NEW id \in CaptureIds, NEW names \in LoggerNames, NEW level \in CaptureLevels,
           OpenCapture(id, names, level)
    PROVE  /\ Holds([id |-> id, names |-> names, saved |-> saved(names), before |-> tree],
                    tree', Left)
           /\ \A f \in Frame : Holds(f, tree, Left) => Holds(f, tree', Left)
  <1> DEFINE S == targets(names) \cup reattach(names)
             g == [id |-> id, names |-> names, saved |-> saved(names), before |-> tree]
  <1>1. /\ S \subseteq Loggers
        /\ \A l \in Loggers :
               /\ l \notin S => tree'[l] = tree[l]
               /\ l \in S => /\ tree'[l].handlers = attached(l, id, names)
                             /\ tree'[l].propagate = (l \in reattach(names) \/ tree[l].propagate)
    BY OpenEffect
  <1>2. \A l \in Loggers : /\ attached(l, id, names) \subseteq CaptureIds
                           /\ \A k \in CaptureIds \cap tree[l].handlers : k \in attached(l, id, names)
                           /\ l \in targets(names) => id \in attached(l, id, names)
    BY DEF attached
  <1>3. \A m \in Loggers : /\ m \in Equipped \/ tree[m].handlers \subseteq CaptureIds
                           /\ m \in Cut \/ tree[m].propagate
    BY DEF Shape, Trees
  <1>4. g.names = names /\ g.id = id
    OBVIOUS
  <1> HIDE DEF g
  <1>5. Holds(g, tree', Left)
    <2>1. ASSUME names = {} PROVE Silent(tree', Left) /\ Connected(tree', Left)
      <3>1. S = {ROOT, logger_root} \cup {"uvicorn", "uvicorn.error"}
        BY <2>1 DEF targets, reattach, detached_loggers
      <3>2. ROOT \notin Cut
        BY TreeAssumption, NamesAssumption DEF Cut, LibraryNames
      <3>3. \A m \in S : m = ROOT \/ m \in reattach(names)
        BY <2>1 DEF targets, reattach
      <3>4. ASSUME NEW m \in Loggers, m \notin S
            PROVE  /\ tree'[m] = tree[m]
                   /\ m \in Equipped => m \in Left
                   /\ m \in Cut => m \in Left \/ m = "uvicorn.access"
        <4>1. tree'[m] = tree[m]
          BY <1>1, <3>4
        <4> QED BY <3>1, <3>4, <4>1 DEF Equipped, Cut, Left
      <3> HIDE DEF S
      <3>5. Silent(tree', Left)
        <4> SUFFICES ASSUME NEW m \in Loggers
                     PROVE  m \in Left \/ tree'[m].handlers \subseteq CaptureIds
          BY DEF Silent
        <4>1. CASE m \in S
          BY <1>1, <1>2, <4>1
        <4>2. CASE m \notin S
          BY <1>3, <3>4, <4>2
        <4> QED BY <4>1, <4>2
      <3>6. Connected(tree', Left)
        <4> SUFFICES ASSUME NEW m \in Loggers
                     PROVE  (m \in Left \/ m = "uvicorn.access") \/ tree'[m].propagate
          BY DEF Connected
        <4>1. CASE m \in S
          BY <1>1, <1>3, <3>2, <3>3, <4>1
        <4>2. CASE m \notin S
          BY <1>3, <3>4, <4>2
        <4> QED BY <4>1, <4>2
      <3> QED BY <3>5, <3>6
    <2>2. \A m \in targets(names) : id \in tree'[m].handlers
      BY <1>1, <1>2
    <2> QED BY <1>4, <2>1, <2>2 DEF Holds
  <1>6. ASSUME NEW f \in Frame, Holds(f, tree, Left)
        PROVE  Holds(f, tree', Left)
    <2> HIDE DEF S
    <2>1. f.id \in CaptureIds /\ targets(f.names) \subseteq Loggers
      BY FrameTypes, TreeAssumption DEF targets
    <2>2. Silent(tree, Left) => Silent(tree', Left)
      BY <1>1, <1>2 DEF Silent
    <2>3. Connected(tree, Left) => Connected(tree', Left)
      BY <1>1 DEF Connected
    <2>4. \A m \in targets(f.names) : f.id \in tree'[m].handlers
      BY <1>1, <1>2, <1>6, <2>1 DEF Holds
    <2> QED BY <1>6, <2>2, <2>3, <2>4 DEF Holds
  <1> QED BY <1>5, <1>6 DEF g

\* Open captures keep what they hold, in the tree now and the trees to return to.
LEMMA GuardedStep ==
    ASSUME TreeTypes, logger_root \in Roots, wired \subseteq Roots, UnwindsInOrder,
           Shape, Guarded, [Next]_vars
    PROVE  Guarded'
  <1>1. CASE captures = <<>> /\ captures' = captures
    BY <1>1 DEF Guarded
  <1>2. CASE Open /\ UNCHANGED <<logger_root, wired>>
    <2>1. PICK id \in CaptureIds, names \in LoggerNames, level \in CaptureLevels :
              OpenCapture(id, names, level)
      BY <1>2 DEF Open
    <2> DEFINE f == [id |-> id, names |-> names, saved |-> saved(names), before |-> tree]
    <2>2. f \in Frame /\ captures' = Append(captures, f) /\ f.before = tree
      BY <2>1, OpenEffect
    <2>3. /\ Holds(f, tree', Left)
          /\ \A g \in Frame : Holds(g, tree, Left) => Holds(g, tree', Left)
      BY <2>1, OpenHolds
    <2> HIDE DEF f
    <2>4. /\ Len(captures) \in Nat /\ Len(captures') = Len(captures) + 1
          /\ DOMAIN captures = 1 .. Len(captures) /\ DOMAIN captures' = 1 .. Len(captures) + 1
          /\ captures'[Len(captures) + 1] = f
          /\ \A i \in 1 .. Len(captures) : captures'[i] = captures[i] /\ captures[i] \in Frame
      BY <2>2 DEF TreeTypes
    <2> SUFFICES ASSUME NEW i \in DOMAIN captures'
                 PROVE  /\ Holds(captures'[i], tree', Left)
                        /\ \A j \in i + 1 .. Len(captures') :
                               Holds(captures'[i], captures'[j].before, Left)
      BY <1>2 DEF Guarded, Left
    <2>5. CASE i = Len(captures) + 1
      BY <2>3, <2>4, <2>5
    <2>6. CASE i \in 1 .. Len(captures)
      <3>1. /\ captures'[i] = captures[i] /\ captures[i] \in Frame
            /\ Holds(captures[i], tree, Left)
            /\ \A j \in i + 1 .. Len(captures) : Holds(captures[i], captures[j].before, Left)
        BY <2>4, <2>6 DEF Guarded
      <3>2. ASSUME NEW j \in i + 1 .. Len(captures')
            PROVE  Holds(captures[i], captures'[j].before, Left)
        <4>1. CASE j = Len(captures) + 1
          BY <2>2, <2>4, <3>1, <4>1
        <4>2. CASE j \in i + 1 .. Len(captures)
          <5>1. captures'[j] = captures[j]
            BY <2>4, <2>6, <4>2
          <5> QED BY <3>1, <4>2, <5>1
        <4> QED BY <2>4, <2>6, <4>1, <4>2
      <3> QED BY <2>3, <3>1, <3>2
    <2> QED BY <2>4, <2>5, <2>6
  <1>3. CASE CloseCapture /\ UNCHANGED <<logger_root, wired>>
    <2>1. /\ Len(captures) \in Nat \ {0} /\ tree' = captures[Len(captures)].before
          /\ captures' \in Seq(Frame) /\ Len(captures') = Len(captures) - 1
          /\ \A i \in 1 .. Len(captures) - 1 : captures'[i] = captures[i]
      BY <1>3, CloseEffect
    <2> SUFFICES ASSUME NEW i \in DOMAIN captures'
                 PROVE  /\ Holds(captures'[i], tree', Left)
                        /\ \A j \in i + 1 .. Len(captures') :
                               Holds(captures'[i], captures'[j].before, Left)
      BY <1>3 DEF Guarded, Left
    <2>2. i \in 1 .. Len(captures) - 1 /\ i \in DOMAIN captures
      BY <2>1 DEF TreeTypes
    <2>3. \A j \in i + 1 .. Len(captures) : Holds(captures[i], captures[j].before, Left)
      BY <2>2 DEF Guarded
    <2>4. Holds(captures[i], tree', Left)
      BY <2>1, <2>2, <2>3
    <2>5. ASSUME NEW j \in i + 1 .. Len(captures')
          PROVE  Holds(captures[i], captures'[j].before, Left)
      <3>1. j \in i + 1 .. Len(captures) /\ captures'[j] = captures[j]
        BY <2>1, <2>2
      <3> QED BY <2>3, <3>1
    <2> QED BY <2>1, <2>2, <2>4, <2>5
  <1>4. CASE UNCHANGED <<tree, captures, logger_root, wired>>
    BY <1>4 DEF Guarded, Left
  <1> QED BY <1>1, <1>2, <1>3, <1>4, TreeCases

\* Captures leave the tree underneath as the document in place made it.
LEMMA BasedStep ==
    ASSUME TreeTypes, logger_root \in Roots, UnwindsInOrder, Based, [Next]_vars
    PROVE  Based'
  <1>1. CASE captures = <<>> /\ captures' = captures /\ \E c \in Calls : configure(c)
    <2>1. PICK c \in Calls : configure(c)
      BY <1>1
    <2>2. BaseTree = tree /\ BaseTree' = tree'
      BY <1>1 DEF BaseTree
    <2>3. CASE UNCHANGED <<tree, inPlace, wired>>
      BY <2>2, <2>3 DEF Based, Equipped
    <2>4. CASE tree' = dictConfig(c) /\ inPlace' = c /\ wired' = rewired(Args[c].logger_root)
      <3> DEFINE r == Args[c].logger_root
      <3>1. \A m \in Loggers : /\ m \in Named(r) => tree'[m] = document(c, m)
                               /\ Below(m, r) => tree'[m] = Fresh
        BY <2>4 DEF dictConfig, Below
      <3>2. Fresh.handlers = {}
        BY DEF Fresh
      <3>3. \A m \in Loggers : tree[m].handlers = {} \/ m \in Equipped
        BY <2>2 DEF Based
      <3>4. ASSUME NEW m \in Loggers PROVE tree'[m].handlers = {} \/ m \in Equipped'
        BY <2>4, <3>2, <3>3, DictConfigCases, DocumentFacts DEF Equipped
      <3>5. r \in wired'
        BY <2>4 DEF rewired
      <3> QED BY <2>2, <2>4, <3>1, <3>4, <3>5 DEF Based
    <2> QED BY <2>1, <2>3, <2>4, ConfigureEffect
  <1>2. CASE Open /\ UNCHANGED <<inPlace, wired>>
    <2>1. PICK id \in CaptureIds, names \in LoggerNames, level \in CaptureLevels :
              OpenCapture(id, names, level)
      BY <1>2 DEF Open
    <2> DEFINE f == [id |-> id, names |-> names, saved |-> saved(names), before |-> tree]
    <2>2. f \in Frame /\ captures' = Append(captures, f) /\ f.before = tree
      BY <2>1, OpenEffect
    <2> HIDE DEF f
    <2>3. /\ captures' # <<>>
          /\ captures'[1] = IF captures = <<>> THEN f ELSE captures[1]
      BY <2>2 DEF TreeTypes
    <2>4. BaseTree' = BaseTree
      BY <2>2, <2>3 DEF BaseTree
    <2> QED BY <1>2, <2>4 DEF Based, Equipped
  <1>3. CASE CloseCapture /\ UNCHANGED <<inPlace, wired>>
    <2>1. /\ captures # <<>> /\ Len(captures) \in Nat \ {0}
          /\ tree' = captures[Len(captures)].before
          /\ captures' \in Seq(Frame) /\ Len(captures') = Len(captures) - 1
          /\ \A i \in 1 .. Len(captures) - 1 : captures'[i] = captures[i]
      BY <1>3, CloseEffect
    <2>2. CASE Len(captures) = 1
      <3>1. captures' = <<>>
        BY <2>1, <2>2
      <3> QED BY <1>3, <2>1, <2>2, <3>1 DEF Based, BaseTree, Equipped
    <2>3. CASE Len(captures) > 1
      <3>1. captures' # <<>> /\ captures'[1] = captures[1]
        BY <2>1, <2>3
      <3> QED BY <1>3, <2>1, <3>1 DEF Based, BaseTree, Equipped
    <2> QED BY <2>1, <2>2, <2>3
  <1>4. CASE UNCHANGED <<tree, captures, inPlace, wired>>
    BY <1>4 DEF Based, BaseTree, Equipped
  <1> QED BY <1>1, <1>2, <1>3, <1>4, TreeCases

------------------------------------------------------------------------------
(* The inductive invariant. *)

\* It holds of a new process.
LEMMA Initialised == Init => IInv
  <1> SUFFICES ASSUME Init PROVE IInv
    OBVIOUS
  <1>1. RegistryTypes /\ Registered /\ ReportedOutside
    BY TreeAssumption DEF Init, TreeInit, RegistryInit, RegistryTypes, Registered,
                          ContextOfCatalogue, ReportedOutside
  <1>2. /\ captures = <<>> /\ tree = NewTree /\ Trees = {tree} /\ BaseTree = tree
        /\ inPlace = None /\ cache = NothingCached
    BY DEF Init, TreeInit, RegistryInit, CapturesInit, Trees, BaseTree
  <1>3. \A m \in Loggers : /\ NewTree[m].handlers = {} /\ NewTree[m].propagate = TRUE
                           /\ NewTree[m] \in Entry
    BY DEF NewTree, Fresh, Entry, NOTSET, WARNING
  <1>4. NewTree \in Tree
    <2>1. NewTree = [m \in Loggers |-> NewTree[m]]
      BY DEF NewTree
    <2> QED BY <1>3, <2>1 DEF Tree
  <1>5. TreeTypes
    BY <1>2, <1>4, CacheTypes DEF TreeTypes
  <1>6. UnwindsInOrder /\ Shape /\ Guarded /\ Based
    BY <1>2, <1>3 DEF UnwindsInOrder, Shape, Guarded, Based
  <1> QED BY <1>1, <1>5, <1>6 DEF IInv

\* Every step keeps it.
LEMMA Preserved == IInv /\ [Next]_vars => IInv'
  BY RegistryStep, ReportedStep, TreeTypesStep, UnwindsStep, ShapeStep, GuardedStep, BasedStep
     DEF IInv, RegistryTypes

\* The inductive invariant of a suite, for any number of calls and captures.
THEOREM Invariance == Spec => []IInv
  BY Initialised, Preserved, PTL DEF Spec

------------------------------------------------------------------------------
(* The properties. *)

\* Every variable keeps its type, in trees with any loggers.
THEOREM Typing == Spec => []TypeOK
  <1>1. IInv => TypeOK
    <2> SUFFICES ASSUME IInv PROVE TypeOK
      OBVIOUS
    <2>1. \A i \in DOMAIN captures : captures[i] \in Frame
      BY DEF IInv, TreeTypes
    <2>2. Ids \subseteq CaptureIds
      BY <2>1, FrameTypes DEF Ids
    <2>3. StandardFields \subseteq context_fields
      BY DEF IInv, Registered, ContextOfCatalogue
    <2> QED BY <2>2, <2>3 DEF IInv, RegistryTypes, TreeTypes, Tree, TypeOK
  <1> QED BY <1>1, Invariance, PTL

\* Wherever configure() failed, the registered catalogue has every event the
\* library emits, for any class hierarchy.
THEOREM CanLog == Spec => []LibraryCanLog
  <1>1. IInv => LibraryCanLog
    BY ValidServes DEF IInv, Registered, LibraryCanLog
  <1> QED BY <1>1, Invariance, PTL

\* Context fields and catalogue never come from different configurations.
THEOREM ContextFits == Spec => []ContextOfCatalogue
  <1>1. IInv => ContextOfCatalogue
    BY DEF IInv, Registered
  <1> QED BY <1>1, Invariance, PTL

\* A middleware that was built has the catalogue and the access event it needs,
\* unless a later call switched access records off.
THEOREM Serves == Spec => []MiddlewareServes
  <1>1. IInv => MiddlewareServes
    <2> SUFFICES ASSUME IInv, middleware # None, middleware = TRUE, access_logs # FALSE
                 PROVE  "ACCESS_REQUEST" \notin missing_events(catalogue, TRUE)
      BY DEF MiddlewareServes, IInv, Registered
    <2>1. access_logs = TRUE /\ validate_catalogue(catalogue, access_logs)
      BY DEF IInv, Registered, RegistryTypes
    <2> QED BY <2>1 DEF validate_catalogue
  <1> QED BY <1>1, Invariance, PTL

\* What was reported as outside is outside the root in force.
THEOREM Outside == Spec => []ReportedOutside
  <1>1. IInv => ReportedOutside
    BY DEF IInv
  <1> QED BY <1>1, Invariance, PTL

\* Captures unwind to the trees they found, at any depth of nesting.
THEOREM Unwinds == Spec => []UnwindsInOrder
  <1>1. IInv => UnwindsInOrder
    BY DEF IInv
  <1> QED BY <1>1, Invariance, PTL

\* The handlers of a record are those of the loggers it climbs to.
LEMMA LineFacts ==
    ASSUME NEW l \in Loggers
    PROVE  /\ Line(l) \subseteq Loggers /\ ROOT \in Line(l) /\ l \in Line(l)
           /\ \A h \in callHandlers(l) : \E m \in Line(l) : h \in tree[m].handlers
           /\ tree[l].handlers \subseteq callHandlers(l)
  <1>1. Lineage[l] \in Seq(Loggers) /\ Lineage[l] # <<>> /\ Lineage[l][1] = l
    BY TreeAssumption, LineageAssumption
  <1>2. 1 \in DOMAIN Lineage[l] /\ 1 \in Climb(l)
    BY <1>1 DEF Climb
  <1>3. Line(l) \subseteq Loggers /\ ROOT \in Line(l) /\ l \in Line(l)
    BY <1>1, <1>2, LineageAssumption DEF Line
  <1>4. tree[l].handlers \subseteq callHandlers(l)
    BY <1>1, <1>2 DEF callHandlers
  <1>5. \A h \in callHandlers(l) : \E m \in Line(l) : h \in tree[m].handlers
    BY DEF callHandlers, Climb, Line
  <1> QED BY <1>3, <1>4, <1>5

\* Nothing reaches a real handler while a capture on the root is open, however
\* many captures are opened and ended inside it.
THEOREM NoneLive == Spec => []NothingLive
  <1>1. IInv => NothingLive
    <2> SUFFICES ASSUME IInv, NEW i \in DOMAIN captures, captures[i].names = {},
                        NEW l \in Loggers, ~Stray(l, logger_root), NEW h \in callHandlers(l)
                 PROVE  h \in CaptureIds
      BY DEF NothingLive
    <2>1. Silent(tree, Left)
      BY DEF IInv, Guarded, Holds
    <2>2. PICK m \in Line(l) : h \in tree[m].handlers
      BY LineFacts
    <2>3. m \in Loggers /\ m \notin Left
      BY LineFacts DEF Stray, Left
    <2> QED BY <2>1, <2>2, <2>3 DEF Silent
  <1> QED BY <1>1, Invariance, PTL

\* Captures opened inside a capture never detach it.
THEOREM Attached == Spec => []StillAttached
  <1>1. IInv => StillAttached
    <2> SUFFICES ASSUME IInv, NEW i \in DOMAIN captures
                 PROVE  IF captures[i].names = {}
                        THEN \A l \in Loggers :
                                 \/ Stray(l, logger_root) \/ "uvicorn.access" \in Line(l)
                                 \/ captures[i].id \in callHandlers(l)
                        ELSE \A l \in captures[i].names : captures[i].id \in callHandlers(l)
      BY DEF StillAttached
    <2>1. Holds(captures[i], tree, Left) /\ captures[i] \in Frame
      BY DEF IInv, Guarded, TreeTypes
    <2>2. CASE captures[i].names = {}
      <3> SUFFICES ASSUME NEW l \in Loggers, ~Stray(l, logger_root), "uvicorn.access" \notin Line(l)
                   PROVE  captures[i].id \in callHandlers(l)
        BY <2>2
      <3>1. Connected(tree, Left) /\ captures[i].id \in tree[ROOT].handlers
        BY <2>1, <2>2 DEF Holds, targets
      <3>2. PICK k \in DOMAIN Lineage[l] : Lineage[l][k] = ROOT
        BY LineFacts DEF Line
      <3>3. Lineage[l] \in Seq(Loggers)
        BY TreeAssumption
      <3>4. \A j \in DOMAIN Lineage[l] : tree[Lineage[l][j]].propagate
        <4> TAKE j \in DOMAIN Lineage[l]
        <4>1. Lineage[l][j] \in Line(l)
          BY DEF Line
        <4>2. /\ Lineage[l][j] \in Loggers /\ Lineage[l][j] # "uvicorn.access"
              /\ Lineage[l][j] \notin Left
          BY <4>1, LineFacts DEF Stray, Left
        <4> QED BY <3>1, <4>2 DEF Connected
      <3>5. k \in Climb(l)
        BY <3>3, <3>4 DEF Climb
      <3> QED BY <3>1, <3>2, <3>5 DEF callHandlers
    <2>3. CASE captures[i].names # {}
      <3>1. \A l \in captures[i].names : l \in Loggers /\ captures[i].id \in tree[l].handlers
        BY <2>1, <2>3, FrameTypes DEF Holds, targets
      <3> QED BY <2>3, <3>1, LineFacts
    <2> QED BY <2>2, <2>3
  <1> QED BY <1>1, Invariance, PTL

\* The tree of the document in place has the handlers of that document, and a
\* record from outside it reaches the debug stream only, unless on a logger of a
\* root that was configured before and left behind.
THEOREM FollowsDocument == Spec => []TreeFollowsDocument
  <1>1. IInv => TreeFollowsDocument
    <2> DEFINE root == Args[inPlace].logger_root
    <2> SUFFICES ASSUME IInv, captures = <<>>, inPlace # None, NEW l \in Loggers
                 PROVE  IF root \in Line(l)
                        THEN callHandlers(l) = {<<inPlace, n>> : n \in Args[inPlace].handlers}
                        ELSE \/ "uvicorn" \in Line(l) \/ Stray(l, root)
                             \/ callHandlers(l) \subseteq {inPlace} \X DebugHandlers
      BY DEF TreeFollowsDocument
    <2>1. /\ root \in Roots /\ root \in Loggers /\ root # ROOT
          /\ root \notin LibraryNames
      <3>1. root \in Roots /\ root \in Loggers /\ root # ROOT
        BY TreeAssumption DEF IInv, RegistryTypes, Based
      <3>2. \A m \in LibraryNames : m \in Line(m)
        BY NamesAssumption, LineFacts
      <3> QED BY <3>1, <3>2, NamesAssumption
    <2>2. \A m \in Loggers : /\ tree[m].handlers = {} \/ m \in Equipped
                             /\ m \in Named(root) => tree[m] = document(inPlace, m)
                             /\ Below(m, root) => tree[m] = Fresh
      BY DEF IInv, Based, BaseTree
    <2>3. CASE root \in Line(l)
      <3>1. PICK k \in DOMAIN Lineage[l] : Lineage[l][k] = root
        BY <2>3 DEF Line
      <3>2. Lineage[l] \in Seq(Loggers) /\ DOMAIN Lineage[l] = 1 .. Len(Lineage[l]) /\ k \in Nat
        BY <3>1, TreeAssumption
      <3>3. /\ tree[root].handlers = {<<inPlace, n>> : n \in Args[inPlace].handlers}
            /\ ~tree[root].propagate
        <4>1. tree[root] = document(inPlace, root)
          BY <2>1, <2>2 DEF Named
        <4>2. root \notin {ROOT, "inject"}
          BY <2>1 DEF LibraryNames
        <4>3. {n \in Args[inPlace].handlers :
                  root = Args[inPlace].logger_root \/ root \in bindings(n)}
                = Args[inPlace].handlers
          OBVIOUS
        <4>4. tree[root].handlers = {<<inPlace, n>> : n \in Args[inPlace].handlers}
          BY <4>1, <4>3 DEF document
        <4>5. document(inPlace, root).propagate = (root \in {ROOT, "inject"})
          BY DEF document
        <4>6. ~document(inPlace, root).propagate
          BY <4>2, <4>5, Zenon
        <4> QED BY <4>1, <4>4, <4>6
      <3>4. ASSUME NEW j \in 1 .. k, Lineage[l][j] # root
            PROVE  tree[Lineage[l][j]].handlers = {} /\ tree[Lineage[l][j]].propagate = TRUE
        <4> DEFINE m == Lineage[l][j]
        <4>1. j \in DOMAIN Lineage[l] /\ j <= k
          BY <3>1, <3>2
        <4>2. m \in Loggers /\ root \in Line(m)
          BY <3>1, <3>2, <4>1, LineageAssumption
        <4>3. m # ROOT /\ m \notin LibraryNames
          BY <2>1, <4>2, LineageAssumption, NamesAssumption
        <4>4. Below(m, root)
          BY <2>1, <3>4, <4>2, <4>3 DEF Below, Named
        <4> QED BY <2>2, <4>2, <4>4 DEF Fresh
      <3>5. ASSUME NEW h \in callHandlers(l) PROVE h \in tree[root].handlers
        <4>1. PICK j \in Climb(l) : h \in tree[Lineage[l][j]].handlers
          BY <3>5 DEF callHandlers
        <4>2. j \in 1 .. k
          BY <3>1, <3>2, <3>3, <4>1 DEF Climb
        <4> QED BY <3>4, <4>1, <4>2
      <3>6. k \in Climb(l)
        <4> SUFFICES ASSUME NEW j \in 1 .. k - 1 PROVE tree[Lineage[l][j]].propagate
          BY <3>1, <3>2 DEF Climb
        <4>1. j \in 1 .. k /\ j \in DOMAIN Lineage[l] /\ j # k
          BY <3>1, <3>2
        <4>2. Lineage[l][j] # root
          BY <3>1, <4>1, LineageAssumption
        <4> QED BY <3>4, <4>1, <4>2
      <3>7. tree[root].handlers \subseteq callHandlers(l)
        BY <3>1, <3>6 DEF callHandlers
      <3> QED BY <2>3, <3>3, <3>5, <3>7
    <2>4. CASE root \notin Line(l) /\ "uvicorn" \notin Line(l) /\ ~Stray(l, root)
      <3> SUFFICES ASSUME NEW h \in callHandlers(l)
                   PROVE  h \in {inPlace} \X DebugHandlers
        BY <2>4
      <3>1. PICK m \in Line(l) : h \in tree[m].handlers
        BY LineFacts
      <3>2. m \in Loggers /\ m \notin wired
        BY <2>4, LineFacts DEF Stray
      <3>3. m # "uvicorn" /\ m # "uvicorn.error"
        BY <2>4, LineageAssumption, NamesAssumption
      <3>4. m = ROOT
        BY <2>2, <3>1, <3>2, <3>3 DEF Equipped
      <3>5. h \in document(inPlace, ROOT).handlers
        BY <2>2, <3>1, <3>2, <3>4 DEF Named
      <3>6. PICK n \in Args[inPlace].handlers : h = <<inPlace, n>> /\ ROOT \in bindings(n)
        BY <2>1, <3>5 DEF document
      <3> QED BY <3>6, BindingFacts
    <2> QED BY <2>3, <2>4
  <1> QED BY <1>1, Invariance, PTL

\* The answers kept under the levels in place go stale by the end of a capture
\* only, whatever the levels of the captures and of the calls of configure().
THEOREM AnswersKept == Spec => AnswersHold
  <1>1. IInv /\ [Next]_vars =>
            [Len(captures') >= Len(captures) /\ (AnswersTrue \/ tree' # tree) => AnswersTrue']_vars
    <2> SUFFICES ASSUME IInv, [Next]_vars,
                        Len(captures') >= Len(captures), AnswersTrue \/ tree' # tree
                 PROVE  AnswersTrue'
      OBVIOUS
    <2>1. CASE cache' = NothingCached
      BY <2>1 DEF AnswersTrue, NothingCached
    <2>2. CASE UNCHANGED <<tree, cache>>
      BY <2>2 DEF AnswersTrue, LevelAllows, Decides
    <2>3. CASE Configure
      BY <2>1, <2>2, <2>3, ConfigureEffect DEF Configure
    <2>4. CASE AddMiddleware \/ Reset
      BY <2>2, <2>4 DEF AddMiddleware, Reset, reset_for_tests, treeVars
    <2>5. CASE Open
      BY <2>1, <2>5 DEF Open, OpenCapture
    <2>6. CASE CloseCapture
      BY <2>6, CloseEffect DEF IInv, TreeTypes, UnwindsInOrder
    <2>7. CASE Log
      <3>1. PICK l \in Sources, v \in RecordLevels : emit(l, v)
        BY <2>7 DEF Log
      <3>2. /\ tree' = tree /\ AnswersTrue /\ l \in Loggers
            /\ cache' = [cache EXCEPT ![l][v] = IF isEnabledFor(l, v) THEN "yes" ELSE "no"]
        BY <3>1, SuiteAssumption DEF emit
      <3>3. \A m, w : LevelAllows(m, w)' <=> LevelAllows(m, w)
        BY <3>2 DEF LevelAllows, Decides
      <3>4. isEnabledFor(l, v) <=> LevelAllows(l, v)
        BY <3>1, <3>2 DEF isEnabledFor, AnswersTrue
      <3>5. ASSUME NEW m \in Loggers, NEW w \in RecordLevels, cache'[m][w] # "unknown"
            PROVE  cache'[m][w] = "yes" <=> LevelAllows(m, w)
        <4>1. CASE m = l /\ w = v
          BY <3>2, <3>4, <4>1 DEF IInv, TreeTypes
        <4>2. CASE ~(m = l /\ w = v)
          <5>1. cache'[m][w] = cache[m][w]
            BY <3>2, <4>2 DEF IInv, TreeTypes
          <5>2. cache[m][w] # "unknown"
            BY <3>5, <5>1
          <5>3. cache[m][w] = "yes" <=> LevelAllows(m, w)
            BY <3>2, <5>2 DEF AnswersTrue
          <5> QED BY <5>1, <5>3
        <4> QED BY <4>1, <4>2
      <3> QED BY <3>3, <3>5 DEF AnswersTrue
    <2> QED BY <2>2, <2>3, <2>4, <2>5, <2>6, <2>7 DEF Next, vars, treeVars
  <1> QED BY <1>1, Invariance, PTL DEF Spec, AnswersHold
================================================================================
