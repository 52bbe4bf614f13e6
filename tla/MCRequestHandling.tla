--------------------------- MODULE MCRequestHandling ---------------------------
(* Small instances of RequestHandling for TLC. *)
EXTENDS RequestHandling, TLC

CONSTANTS r1, r2, w1, w2

\* r1 carries a correlation id, r2 does not; ids are far from status codes.
MCCorrelationOf == (r1 :> 7) @@ (r2 :> UNSET)

\* One after the other in the same server task ...
MCOneTask == (r1 :> w1) @@ (r2 :> w1)

\* ... and side by side.
MCTwoTasks == (r1 :> w1) @@ (r2 :> w2)

\* Nested update_context blocks in one request and none in the other, or one in
\* each.
MCNested == (r1 :> 2) @@ (r2 :> 0)
MCFlat == (r1 :> 1) @@ (r2 :> 1)

\* An outer middleware stamped an id on r1 only.
MCStampedId == (r1 :> 3) @@ (r2 :> UNSET)
================================================================================
