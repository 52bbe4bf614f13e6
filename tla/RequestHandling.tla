---------------------------- MODULE RequestHandling ----------------------------
(****************************************************************************)
(* One HTTP request on its way through RequestContextMiddleware: the        *)
(* context the middleware binds around it (context.py), the records logged  *)
(* while it is handled, its access record (middleware.py) and the handler   *)
(* of its unhandled exception, which runs outside the middleware            *)
(* (exceptions.py, restore_request_context).                                *)
(*                                                                          *)
(* A request is served by a server task, ServerOf[r], one request at a time *)
(* per task; BaseHTTPMiddleware.call_next runs the endpoint in a child task *)
(* with a copy of the server task's context, and the child is named by its  *)
(* request.  Steps of different requests interleave at every await.  One    *)
(* action is the code between two awaits.                                   *)
(*                                                                          *)
(* Fields of the context that behave alike are represented by one of them:  *)
(* request_id (derived by the middleware), correlation_id (read off a       *)
(* header) and tenant_id (declared by the application, bound by an          *)
(* endpoint with update_context).                                           *)
(****************************************************************************)
EXTENDS Naturals, Sequences

CONSTANTS
    Requests,            \* the requests that may arrive
    Servers,             \* the tasks that serve them
    ServerOf,            \* the task each request arrives on
    Captured,            \* the requests whose method is in capture_body_methods
    CorrelationOf,       \* the correlation id a request carries, UNSET if none
    StampedId,           \* the id an upstream middleware stamped, UNSET if none
    FirstId,             \* generated ids are the numbers above this one
    Tenants,             \* values an endpoint may bind with update_context
    Statuses,            \* status codes an endpoint may answer with
    ErrorStatus,         \* status code of the exception handler's response
    ReuseStateId, CorrelationExpected, AccessLogs,   \* middleware options
    Decorated,           \* restore_request_context decorates the handler
    MaxUpdates           \* bound: update_context blocks a request has open at once

UNSET == 0
NoStatus == 0

Tasks == Servers \cup Requests
Mapping == [request_id : Nat, correlation_id : Nat, tenant_id : Nat]
Empty == [request_id |-> UNSET, correlation_id |-> UNSET, tenant_id |-> UNSET]
Response == [status : Nat, request_id : Nat, correlation_id : Nat]
NoResponse == [status |-> NoStatus, request_id |-> UNSET, correlation_id |-> UNSET]

ASSUME RequestsAssumption ==
    /\ Servers \cap Requests = {}
    /\ ServerOf \in [Requests -> Servers]
    /\ Captured \subseteq Requests
    /\ CorrelationOf \in [Requests -> Nat]
    /\ StampedId \in [Requests -> Nat]
    /\ FirstId \in Nat
    /\ \A r \in Requests : StampedId[r] <= FirstId

ASSUME ValuesAssumption ==
    /\ Tenants \subseteq Nat \ {UNSET}
    /\ Statuses \subseteq Nat \ {NoStatus}
    /\ ErrorStatus \in Nat \ {NoStatus}
    /\ MaxUpdates \in [Requests -> Nat]
    /\ {ReuseStateId, CorrelationExpected, AccessLogs, Decorated} \subseteq BOOLEAN

VARIABLES
    pc,        \* pc[r]: where the server task is with request r
    app,       \* app[r]: the child task that runs the endpoint
    ctx,       \* ctx[t]: the value of _context_var in task t
    tokens,    \* tokens[t]: what the open bind_context blocks of t restore
    stored,    \* stored[r]: the RequestContext in request.state, Empty if none
    lastId,    \* the last id generated
    emitted,   \* the records logged, with the request each was logged for
    access,    \* access[r]: the access records of r, in order
    response,  \* response[r]: the response object of r
    sentBy     \* sentBy[r]: who started the response the client sees

vars == <<pc, app, ctx, tokens, stored, lastId, emitted, access, response, sentBy>>

Stages == {"new", "reading", "calling", "sending", "streaming",
           "failed", "handling", "handled", "done"}
Events == {"SYS_MISSING_CORRELATION_ID", "SYS_UNHANDLED_EXCEPTION", "ENDPOINT", "HANDLER"}

TypeOK ==
    /\ pc \in [Requests -> Stages]
    /\ app \in [Requests -> {"none", "running", "ended", "raised"}]
    /\ ctx \in [Tasks -> Mapping]
    /\ tokens \in [Tasks -> Seq(Mapping)]
    /\ stored \in [Requests -> Mapping]
    /\ lastId \in Nat
    /\ emitted \subseteq [event : Events, req : Requests, ctx : Mapping]
    /\ access \in [Requests -> Seq([status : Nat, ctx : Mapping])]
    /\ response \in [Requests -> Response]
    /\ sentBy \in [Requests -> {"none", "app", "handler"}]

Init ==
    /\ pc = [r \in Requests |-> "new"]
    /\ app = [r \in Requests |-> "none"]
    /\ ctx = [t \in Tasks |-> Empty]
    /\ tokens = [t \in Tasks |-> <<>>]
    /\ stored = [r \in Requests |-> Empty]
    /\ lastId = FirstId
    /\ emitted = {}
    /\ access = [r \in Requests |-> <<>>]
    /\ response = [r \in Requests |-> NoResponse]
    /\ sentBy = [r \in Requests |-> "none"]

------------------------------------------------------------------------------
(* context.py: binding, updating and reading the context of a task. *)

\* Mutant: one variable for the process instead of a ContextVar.
bind_process_wide(t, values) ==
    /\ ctx' = [u \in Tasks |-> values]
    /\ tokens' = [tokens EXCEPT ![t] = <<ctx[t]>> \o @]

bind_context(t, values) ==
    /\ ctx' = [ctx EXCEPT ![t] = values]
    /\ tokens' = [tokens EXCEPT ![t] = <<ctx[t]>> \o @]

\* Mutants: the outermost block's token is used first; the token is dropped
\* instead of reset.
unbind_oldest(t) ==
    /\ ctx' = [ctx EXCEPT ![t] = tokens[t][Len(tokens[t])]]
    /\ tokens' = [tokens EXCEPT ![t] = SubSeq(@, 1, Len(@) - 1)]

forget_token(t) == ctx' = ctx /\ tokens' = [tokens EXCEPT ![t] = Tail(@)]

\* The finally clause of bind_context: the value the token remembers comes back.
unbind_context(t) ==
    /\ ctx' = [ctx EXCEPT ![t] = Head(tokens[t])]
    /\ tokens' = [tokens EXCEPT ![t] = Tail(@)]

\* Mutant: the mapping is updated in place, so every task that holds it sees it.
update_in_place(t, tenant) ==
    /\ ctx' = [u \in Tasks |->
           IF ctx[u] = ctx[t] THEN [ctx[t] EXCEPT !.tenant_id = tenant] ELSE ctx[u]]
    /\ tokens' = [tokens EXCEPT ![t] = <<ctx[t]>> \o @]

update_context(t, tenant) == bind_context(t, [ctx[t] EXCEPT !.tenant_id = tenant])

collect_context(t) == ctx[t]

Log(event, r, context) ==
    emitted' = emitted \cup {[event |-> event, req |-> r, ctx |-> context]}

\* A child task starts in a copy of its parent's context ...
StartTask(child, parent) ==
    /\ ctx' = [ctx EXCEPT ![child] = ctx[parent]]
    /\ tokens' = [tokens EXCEPT ![child] = <<>>]

------------------------------------------------------------------------------
(* middleware.py: what dispatch is made of. *)

Idle(w) == \A r \in Requests : ServerOf[r] = w => pc[r] \in {"new", "done"}

GoTo(r, stage) == pc' = [pc EXCEPT ![r] = stage]

_request_id(r) ==
    IF ReuseStateId /\ StampedId[r] # UNSET THEN StampedId[r] ELSE lastId + 1

\* Mutant: a field that was not sent is left out of the mapping.
from_request_sent_only(r) ==
    [request_id |-> _request_id(r), correlation_id |-> CorrelationOf[r]]

from_request(r) ==
    [request_id |-> _request_id(r), correlation_id |-> CorrelationOf[r],
     tenant_id |-> UNSET]

\* Mutant: the correlation id is not echoed.
apply_request_id(r, status) ==
    response' = [response EXCEPT ![r] =
        [status |-> status, request_id |-> stored[r].request_id, correlation_id |-> UNSET]]

\* The response of r with status and with the headers of its context echoed.
apply_to(r, status) ==
    response' = [response EXCEPT ![r] =
        [status |-> status, request_id |-> stored[r].request_id,
         correlation_id |-> stored[r].correlation_id]]

\* Mutant: logged after a response only.
_log_success(r, status) ==
    access' = [access EXCEPT ![r] =
        IF AccessLogs /\ status # NoStatus
        THEN Append(@, [status |-> status, ctx |-> collect_context(ServerOf[r])])
        ELSE @]

\* The finally clause of dispatch, still inside bind_context.
_log_access(r, status) ==
    access' = [access EXCEPT ![r] =
        IF AccessLogs
        THEN Append(@, [status |-> status, ctx |-> collect_context(ServerOf[r])])
        ELSE @]

\* The request fails in an outer middleware, before dispatch is called.
UpstreamRaises(r) ==
    /\ pc[r] = "new" /\ Idle(ServerOf[r])
    /\ GoTo(r, "failed")
    /\ UNCHANGED <<app, ctx, tokens, stored, lastId, emitted, access, response, sentBy>>

\* dispatch up to its first await.
Dispatch(r) ==
    /\ pc[r] = "new" /\ Idle(ServerOf[r])
    /\ stored' = [stored EXCEPT ![r] = from_request(r)]
    /\ lastId' = IF ReuseStateId /\ StampedId[r] # UNSET THEN lastId ELSE lastId + 1
    /\ bind_context(ServerOf[r], from_request(r))
    /\ IF CorrelationExpected /\ CorrelationOf[r] = UNSET
       THEN Log("SYS_MISSING_CORRELATION_ID", r, ctx'[ServerOf[r]])
       ELSE UNCHANGED emitted
    /\ GoTo(r, IF r \in Captured THEN "reading" ELSE "calling")
    /\ UNCHANGED <<app, access, response, sentBy>>

ReadBody(r) ==
    /\ pc[r] = "reading"
    /\ GoTo(r, "calling")
    /\ UNCHANGED <<app, ctx, tokens, stored, lastId, emitted, access, response, sentBy>>

\* Mutant: a failing body leaves the context bound.
BodyFailsBound(r) ==
    /\ pc[r] = "reading"
    /\ GoTo(r, "failed")
    /\ UNCHANGED <<app, ctx, tokens, stored, lastId, emitted, access, response, sentBy>>

\* _read_body raises, as when the client disconnects: the try is not entered yet.
BodyFails(r) ==
    /\ pc[r] = "reading"
    /\ unbind_context(ServerOf[r])
    /\ GoTo(r, "failed")
    /\ UNCHANGED <<app, stored, lastId, emitted, access, response, sentBy>>

\* call_next returns the response the endpoint started.
CallReturns(r) ==
    /\ pc[r] = "calling" /\ response[r].status # NoStatus
    /\ apply_to(r, response[r].status)
    /\ _log_access(r, response[r].status)
    /\ unbind_context(ServerOf[r])
    /\ GoTo(r, "sending")
    /\ UNCHANGED <<app, stored, lastId, emitted, sentBy>>

\* Mutant: an endpoint that ends without a response is waited for.
CallWaits(r) ==
    /\ pc[r] = "calling" /\ response[r].status = NoStatus
    /\ app[r] = "raised"
    /\ _log_access(r, NoStatus)
    /\ unbind_context(ServerOf[r])
    /\ GoTo(r, "failed")
    /\ UNCHANGED <<app, stored, lastId, emitted, response, sentBy>>

\* call_next raises: the endpoint ended or raised without starting a response.
CallRaises(r) ==
    /\ pc[r] = "calling" /\ response[r].status = NoStatus
    /\ app[r] \in {"ended", "raised"}
    /\ _log_access(r, NoStatus)
    /\ unbind_context(ServerOf[r])
    /\ GoTo(r, "failed")
    /\ UNCHANGED <<app, stored, lastId, emitted, response, sentBy>>

------------------------------------------------------------------------------
(* The endpoint in its child task, and BaseHTTPMiddleware around dispatch. *)

AppStart(r) ==
    /\ pc[r] = "calling" /\ app[r] = "none"
    /\ app' = [app EXCEPT ![r] = "running"]
    /\ StartTask(r, ServerOf[r])
    /\ UNCHANGED <<pc, stored, lastId, emitted, access, response, sentBy>>

AppLog(r) ==
    /\ app[r] = "running"
    /\ Log("ENDPOINT", r, collect_context(r))
    /\ UNCHANGED <<pc, app, ctx, tokens, stored, lastId, access, response, sentBy>>

AppEntersUpdate(r, tenant) ==
    /\ app[r] = "running" /\ Len(tokens[r]) < MaxUpdates[r]
    /\ update_context(r, tenant)
    /\ UNCHANGED <<pc, app, stored, lastId, emitted, access, response, sentBy>>

AppLeavesUpdate(r) ==
    /\ app[r] = "running" /\ tokens[r] # <<>>
    /\ unbind_context(r)
    /\ UNCHANGED <<pc, app, stored, lastId, emitted, access, response, sentBy>>

\* http.response.start reaches call_next; headers are not echoed yet.
AppResponds(r, status) ==
    /\ app[r] = "running" /\ response[r].status = NoStatus
    /\ response' = [response EXCEPT ![r].status = status]
    /\ UNCHANGED <<pc, app, ctx, tokens, stored, lastId, emitted, access, sentBy>>

AppEnds(r) ==
    /\ app[r] = "running" /\ tokens[r] = <<>>
    /\ app' = [app EXCEPT ![r] = "ended"]
    /\ UNCHANGED <<pc, ctx, tokens, stored, lastId, emitted, access, response, sentBy>>

\* The open blocks of a raising endpoint go with its task.
AppRaises(r) ==
    /\ app[r] = "running"
    /\ app' = [app EXCEPT ![r] = "raised"]
    /\ UNCHANGED <<pc, ctx, tokens, stored, lastId, emitted, access, response, sentBy>>

SendStart(r) ==
    /\ pc[r] = "sending"
    /\ sentBy' = [sentBy EXCEPT ![r] = "app"]
    /\ GoTo(r, "streaming")
    /\ UNCHANGED <<app, ctx, tokens, stored, lastId, emitted, access, response>>

StreamEnds(r) ==
    /\ pc[r] = "streaming" /\ app[r] = "ended"
    /\ GoTo(r, "done")
    /\ UNCHANGED <<app, ctx, tokens, stored, lastId, emitted, access, response, sentBy>>

\* The send fails, or the endpoint raised after it started the response.
StreamBreaks(r) ==
    /\ pc[r] \in {"sending", "streaming"}
    /\ app' = [app EXCEPT ![r] = IF @ = "running" THEN "raised" ELSE @]
    /\ GoTo(r, "failed")
    /\ UNCHANGED <<ctx, tokens, stored, lastId, emitted, access, response, sentBy>>

\* Mutant: the access record is written in an except Exception clause.
CancelUnlogged(r) ==
    /\ pc[r] \in {"reading", "calling", "sending", "streaming"}
    /\ IF pc[r] \in {"reading", "calling"}
       THEN unbind_context(ServerOf[r])
       ELSE UNCHANGED <<ctx, tokens>>
    /\ app' = [app EXCEPT ![r] = IF @ = "running" THEN "raised" ELSE @]
    /\ GoTo(r, "done")
    /\ UNCHANGED <<stored, lastId, emitted, access, response, sentBy>>

\* The server task is cancelled at an await.  CancelledError runs the finally
\* clauses it passes and no exception handler; the child task goes with it.
Cancel(r) ==
    /\ pc[r] \in {"reading", "calling", "sending", "streaming"}
    /\ IF pc[r] = "calling" THEN _log_access(r, NoStatus) ELSE UNCHANGED access
    /\ IF pc[r] \in {"reading", "calling"}
       THEN unbind_context(ServerOf[r])
       ELSE UNCHANGED <<ctx, tokens>>
    /\ app' = [app EXCEPT ![r] = IF @ = "running" THEN "raised" ELSE @]
    /\ GoTo(r, "done")
    /\ UNCHANGED <<stored, lastId, emitted, response, sentBy>>

------------------------------------------------------------------------------
(* The handler of an unhandled exception, run by ServerErrorMiddleware.     *)

\* bind_request_context binds the stored context, and nothing if there is none.
Rebinds(r) == Decorated /\ stored[r] # Empty

HandlerEnters(r) ==
    /\ pc[r] = "failed"
    /\ IF Rebinds(r)
       THEN bind_context(ServerOf[r], stored[r])
       ELSE UNCHANGED <<ctx, tokens>>
    /\ GoTo(r, "handling")
    /\ UNCHANGED <<app, stored, lastId, emitted, access, response, sentBy>>

HandlerLog(r) ==
    /\ pc[r] = "handling"
    /\ Log("HANDLER", r, collect_context(ServerOf[r]))
    /\ UNCHANGED <<pc, app, ctx, tokens, stored, lastId, access, response, sentBy>>

\* Binds the stored context for this one record, decorated or not.
log_unhandled_exception(r) ==
    /\ pc[r] = "handling"
    /\ Log("SYS_UNHANDLED_EXCEPTION", r,
           IF stored[r] # Empty THEN stored[r] ELSE collect_context(ServerOf[r]))
    /\ UNCHANGED <<pc, app, ctx, tokens, stored, lastId, access, response, sentBy>>

\* Mutant: the rebound context is not torn down.
LeaveHandlerBound(r) == r \in Requests /\ UNCHANGED <<ctx, tokens>>

LeaveHandler(r) ==
    IF Rebinds(r) THEN unbind_context(ServerOf[r]) ELSE UNCHANGED <<ctx, tokens>>

HandlerReturns(r) ==
    /\ pc[r] = "handling"
    /\ IF sentBy[r] # "none" THEN UNCHANGED response
       ELSE IF Rebinds(r) THEN apply_to(r, ErrorStatus)
       ELSE response' = [response EXCEPT ![r] = [NoResponse EXCEPT !.status = ErrorStatus]]
    /\ LeaveHandler(r)
    /\ GoTo(r, "handled")
    /\ UNCHANGED <<app, stored, lastId, emitted, access, sentBy>>

\* The handler raises or is cancelled: the wrapper's with block is left all the same.
HandlerRaises(r) ==
    /\ pc[r] = "handling"
    /\ LeaveHandler(r)
    /\ GoTo(r, "done")
    /\ UNCHANGED <<app, stored, lastId, emitted, access, response, sentBy>>

\* The error response is sent unless one was started already.
HandlerSends(r) ==
    /\ pc[r] = "handled"
    /\ sentBy' = [sentBy EXCEPT ![r] = IF @ = "none" THEN "handler" ELSE @]
    /\ GoTo(r, "done")
    /\ UNCHANGED <<app, ctx, tokens, stored, lastId, emitted, access, response>>

------------------------------------------------------------------------------
Endpoint(r) ==
    \/ AppLog(r) \/ AppLeavesUpdate(r)
    \/ \E tenant \in Tenants : AppEntersUpdate(r, tenant)
    \/ \E status \in Statuses : AppResponds(r, status)

\* What the middleware, the server and an endpoint that terminates do next.
Progress(r) ==
    \/ ReadBody(r) \/ AppStart(r) \/ CallReturns(r) \/ CallRaises(r)
    \/ SendStart(r) \/ StreamEnds(r) \/ (StreamBreaks(r) /\ app[r] = "raised")
    \/ HandlerEnters(r) \/ HandlerReturns(r) \/ HandlerSends(r)

Failure(r) ==
    \/ UpstreamRaises(r) \/ BodyFails(r) \/ StreamBreaks(r) \/ Cancel(r)
    \/ HandlerRaises(r)

Finishes(r) == AppEnds(r) \/ AppRaises(r)

Handling(r) == HandlerLog(r) \/ log_unhandled_exception(r)

Next == \E r \in Requests :
    \/ Dispatch(r) \/ Progress(r) \/ Endpoint(r) \/ Finishes(r)
    \/ Failure(r) \/ Handling(r)

Spec == Init /\ [][Next]_vars

\* Fairness: every await of the middleware and of the server is resumed (the
\* body arrives or the client is gone, the event loop runs ready tasks) and an
\* endpoint that was started finishes.  Nothing makes a request arrive or fail.
FairSpec ==
    /\ Spec
    /\ \A r \in Requests : WF_vars(Progress(r)) /\ WF_vars(Finishes(r))

------------------------------------------------------------------------------
(* Properties. *)

\* Every record logged for a request carries that request's ids and no other's,
\* whichever task logs it and whatever that task served before.  Only a handler
\* without restore_request_context logs with no context at all.
ContextIsolation ==
    \A e \in emitted :
        \/ /\ e.ctx.request_id = stored[e.req].request_id
           /\ e.ctx.correlation_id = stored[e.req].correlation_id
        \/ e.event = "HANDLER" /\ ~Decorated /\ e.ctx = Empty

\* A server task has a context bound only inside dispatch or inside a decorated
\* handler: whatever way a request ends, nothing is left for the next one, and
\* every token was used.
ContextTornDown ==
    \A w \in Servers :
        \/ \E r \in Requests :
               ServerOf[r] = w /\ pc[r] \in {"reading", "calling", "handling"}
        \/ ctx[w] = Empty /\ tokens[w] = <<>>

\* Outside its update_context blocks an endpoint has the context its request came
\* with, in whatever way the blocks were nested: what it logs there, and what the
\* requests it sends carry on, is not another block's.
UpdatesUnwind ==
    \A r \in Requests : app[r] = "running" /\ tokens[r] = <<>> => ctx[r] = stored[r]

\* A request whose endpoint was called has exactly one access record once
\* dispatch is left, by return, exception or cancellation, and never two.
AccessOncePerCall ==
    \A r \in Requests :
        /\ Len(access[r]) <= 1
        /\ app[r] # "none" /\ pc[r] # "calling" =>
               Len(access[r]) = (IF AccessLogs THEN 1 ELSE 0)

\* When the client sees the endpoint's response its access record is there
\* already, with the same status and with the context the request came with:
\* what the endpoint bound with update_context stays in its own task.
RecordPrecedesAnswer ==
    \A r \in Requests :
        sentBy[r] = "app" /\ AccessLogs =>
            access[r] = <<[status |-> response[r].status, ctx |-> stored[r]]>>

\* The ids echoed to the client are the ones on the request's records, also
\* when a decorated handler answers after the context was torn down.
EchoMatchesRecords ==
    \A r \in Requests :
        \/ sentBy[r] = "app"
        \/ sentBy[r] = "handler" /\ Decorated
        => /\ response[r].request_id = stored[r].request_id
           /\ response[r].correlation_id = stored[r].correlation_id

\* A request handed to the endpoint gets its access record, however it ends.
AccessEventually ==
    \A r \in Requests :
        pc[r] = "calling" /\ AccessLogs ~> access[r] # <<>>

\* A request that dispatch accepted is finished and its server task is free
\* for the next request.
DispatchedFinishes ==
    \A r \in Requests : pc[r] \notin {"new", "done"} ~> pc[r] = "done"

\* Every request that reached the middleware has an access record when it is
\* over: the one record per request that docs/STARTING_GUIDE.md promises.
EveryRequestLogged ==
    \A r \in Requests :
        pc[r] = "done" /\ stored[r] # Empty /\ AccessLogs => access[r] # <<>>

(* The middleware implements the access ledger. *)

LedgerStage ==
    [r \in Requests |->
        CASE pc[r] \in {"new", "reading"} -> "waiting"
          [] pc[r] = "calling" -> "open"
          [] OTHER -> "closed"]

LedgerEntries ==
    [r \in Requests |-> [i \in 1 .. Len(access[r]) |-> access[r][i].status]]

LedgerAnswered ==
    [r \in Requests |-> IF sentBy[r] = "none" THEN NoStatus ELSE response[r].status]

Ledger == INSTANCE AccessLedger WITH
    Logged <- AccessLogs, stage <- LedgerStage, entries <- LedgerEntries,
    answered <- LedgerAnswered

\* Requests are entered once, before they are answered, as they are answered.
ImplementsLedger == Ledger!Spec

\* ... and every call of the application is entered in the end.
ImplementsFairLedger == Ledger!FairSpec
================================================================================
