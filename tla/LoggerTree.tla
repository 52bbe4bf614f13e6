------------------------------ MODULE LoggerTree ------------------------------
(****************************************************************************)
(* Python's tree of loggers as the library uses it, and the part of it the  *)
(* library calls its own (loggers.py).  The logging module keeps, for every *)
(* logger and level, whether it is enabled, until some setLevel clears it.  *)
(****************************************************************************)
EXTENDS Naturals, Sequences

CONSTANTS
    Loggers,              \* the loggers of the process
    ROOT,                 \* logging.getLogger()
    Lineage,              \* Lineage[l]: l, its parent, and so on up to ROOT
    Roots,                \* the names register_logger_root accepts
    DEFAULT_LOGGER_ROOT,
    RecordLevels          \* levels of the records the application logs

ASSUME TreeAssumption ==
    /\ ROOT \in Loggers /\ ROOT \notin Roots
    /\ DEFAULT_LOGGER_ROOT \in Roots /\ Roots \subseteq Loggers
    /\ Lineage \in [Loggers -> Seq(Loggers)]
    /\ RecordLevels \subseteq Nat

\* l and the loggers above it.
Line(l) == {Lineage[l][i] : i \in DOMAIN Lineage[l]}

\* What dotted names give.
ASSUME LineageAssumption ==
    /\ Line(ROOT) = {ROOT}
    /\ \A l \in Loggers :
           /\ Lineage[l] # <<>> /\ Lineage[l][1] = l /\ ROOT \in Line(l)
           /\ \A i, j \in DOMAIN Lineage[l] :
                  /\ i <= j => Lineage[l][j] \in Line(Lineage[l][i])
                  /\ i # j => Lineage[l][i] # Lineage[l][j]
           /\ \A m \in Line(l) : Line(m) \subseteq Line(l)

NOTSET == 0
INFO == 20
WARNING == 30
CRITICAL == 50

VARIABLES
    tree,          \* tree[l]: the handlers, level and propagate flag of l
    cache,         \* cache[l]: what isEnabledFor remembers of each level
    logger_root,   \* _logger_root
    reported       \* _reported_outside_root

treeVars == <<tree, cache, logger_root, reported>>

\* A logger nobody has touched, the tree of a new process, an empty cache.
Fresh == [handlers |-> {}, level |-> NOTSET, propagate |-> TRUE]
NewTree == [[l \in Loggers |-> Fresh] EXCEPT ![ROOT].level = WARNING]
NothingCached == [l \in Loggers |-> [v \in RecordLevels |-> "unknown"]]

TreeInit ==
    /\ tree = NewTree /\ cache = NothingCached
    /\ logger_root = DEFAULT_LOGGER_ROOT /\ reported = {}

------------------------------------------------------------------------------
within_root(l) == logger_root \in Line(l)

\* callHandlers: the record climbs until a logger does not propagate.
Climb(l) ==
    {i \in DOMAIN Lineage[l] : \A j \in 1 .. i - 1 : tree[Lineage[l][j]].propagate}
callHandlers(l) == UNION {tree[Lineage[l][i]].handlers : i \in Climb(l)}

\* getEffectiveLevel: the first logger of the line that has a level decides.
Decides(l, i) ==
    /\ tree[Lineage[l][i]].level # NOTSET
    /\ \A j \in 1 .. i - 1 : tree[Lineage[l][j]].level = NOTSET
LevelAllows(l, v) ==
    \A i \in DOMAIN Lineage[l] : Decides(l, i) => v >= tree[Lineage[l][i]].level

isEnabledFor(l, v) ==
    IF cache[l][v] = "unknown" THEN LevelAllows(l, v) ELSE cache[l][v] = "yes"

------------------------------------------------------------------------------
report_outside_root(l) == reported' = reported \cup {l}

\* An event with streams is emitted on logger l: one outside the tree is noted,
\* and Logger.log asks isEnabledFor.  (The warning itself asks for the internal
\* logger, which nobody else logs on.)
emit(l, v) ==
    /\ IF within_root(l) THEN UNCHANGED reported ELSE report_outside_root(l)
    /\ cache' = [cache EXCEPT ![l][v] = IF isEnabledFor(l, v) THEN "yes" ELSE "no"]
    /\ UNCHANGED <<tree, logger_root>>
================================================================================
