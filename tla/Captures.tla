-------------------------------- MODULE Captures --------------------------------
(****************************************************************************)
(* The captures of testing.py: context managers that swap the handlers,     *)
(* levels and propagate flags of loggers, and put them back by assignment   *)
(* when their block ends.  A with statement ends the newest block first.    *)
(****************************************************************************)
EXTENDS LoggerTree

CONSTANTS
    CaptureIds,      \* the handlers of the captures, one each
    LoggerNames,     \* what a capture may be given: sets of names, {} for the root
    CaptureLevels    \* the levels a capture may set

ASSUME CapturesAssumption ==
    /\ \A names \in LoggerNames : names \subseteq Loggers
    /\ CaptureLevels \subseteq Nat

VARIABLE
    captures         \* the open blocks, the newest last; before is history:
                     \* the whole tree as the block found it

CapturesInit == captures = <<>>

Ids == {captures[i].id : i \in DOMAIN captures}
Newest == captures[Len(captures)]

\* The loggers captures reconnect with the root.
detached_loggers == {logger_root, "uvicorn", "uvicorn.error"}

targets(names) == IF names = {} THEN {ROOT} ELSE names
reattach(names) == IF names = {} THEN detached_loggers ELSE {}

\* Mutant: only the targets are saved.
saved_targets(names) == [l \in targets(names) |-> tree[l]]

saved(names) == [l \in targets(names) \cup reattach(names) |-> tree[l]]

\* Mutants: the real handlers stay on a reattached logger; a target loses the
\* handlers of the captures around it.
attached_all(l, id, names) ==
    IF l \in targets(names) THEN (tree[l].handlers \cap CaptureIds) \cup {id}
    ELSE tree[l].handlers
attached_alone(l, id, names) ==
    IF l \in targets(names) THEN {id} ELSE tree[l].handlers \cap CaptureIds

\* The handlers of captures stay, the real ones go.
attached(l, id, names) ==
    (tree[l].handlers \cap CaptureIds) \cup (IF l \in targets(names) THEN {id} ELSE {})

\* Mutant: the level of a capture is assigned, and what was kept stays.
AssignLevels(id, names, level) ==
    /\ id \notin Ids
    /\ tree' = [l \in Loggers |->
                   IF l \in targets(names) \cup reattach(names)
                   THEN [handlers  |-> attached(l, id, names),
                         level     |-> level,
                         propagate |-> l \in reattach(names) \/ tree[l].propagate]
                   ELSE tree[l]]
    /\ captures' = Append(captures, [id |-> id, names |-> names,
                                     saved |-> saved(names), before |-> tree])
    /\ UNCHANGED <<cache, logger_root, reported>>

\* capture_records and capture_stream enter _capturing.
OpenCapture(id, names, level) ==
    /\ id \notin Ids
    /\ tree' = [l \in Loggers |->
                   IF l \in targets(names) \cup reattach(names)
                   THEN [handlers  |-> attached(l, id, names),
                         level     |-> level,
                         propagate |-> l \in reattach(names) \/ tree[l].propagate]
                   ELSE tree[l]]
    /\ cache' = NothingCached
    /\ captures' = Append(captures, [id |-> id, names |-> names,
                                     saved |-> saved(names), before |-> tree])
    /\ UNCHANGED <<logger_root, reported>>

\* The tree with the saved loggers put back.
restored(old, now) == [l \in Loggers |-> IF l \in DOMAIN old THEN old[l] ELSE now[l]]

\* The newest block ends: handlers, level and propagate are assigned, so the
\* cache of the levels stays as it is.
CloseCapture ==
    /\ captures # <<>>
    /\ tree' = restored(Newest.saved, tree)
    /\ captures' = SubSeq(captures, 1, Len(captures) - 1)
    /\ UNCHANGED <<cache, logger_root, reported>>
================================================================================
