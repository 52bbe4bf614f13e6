------------------------ MODULE RequestHandling_proofs ------------------------
(****************************************************************************)
(* Proofs about RequestHandling, for every set of requests and servers, and *)
(* every option: type correctness, the safety properties from one inductive *)
(* invariant, and the refinement of the access ledger.                      *)
(****************************************************************************)
EXTENDS RequestHandling, TLAPS

Active(r) == pc[r] \notin {"new", "done"}

\* The server task of r is inside a bind_context block of r.
Bound(r) ==
    \/ pc[r] \in {"reading", "calling"}
    \/ pc[r] = "handling" /\ Rebinds(r)

SameIds(m, n) == m.request_id = n.request_id /\ m.correlation_id = n.correlation_id

\* A server task serves one request at a time.
OneAtATime ==
    \A r, q \in Requests :
        ServerOf[r] = ServerOf[q] /\ Active(r) /\ Active(q) => r = q

\* Inside the block the request's context is bound, over nothing.
ServerBinding ==
    \A r \in Requests : Bound(r) =>
        ctx[ServerOf[r]] = stored[r] /\ tokens[ServerOf[r]] = <<Empty>>

ServerClean ==
    \A w \in Servers :
        (\A r \in Requests : ServerOf[r] = w => ~Bound(r)) =>
            ctx[w] = Empty /\ tokens[w] = <<>>

\* However deep the endpoint's update_context blocks, the ids are the request's,
\* and the outermost block gives back the context the request came with.
Restores(m, s, base) ==
    /\ SameIds(m, base) /\ \A i \in 1 .. Len(s) : SameIds(s[i], base)
    /\ IF s = <<>> THEN m = base ELSE s[Len(s)] = base

ChildContext ==
    \A r \in Requests : app[r] = "running" => Restores(ctx[r], tokens[r], stored[r])

\* What is true of a request that was not handed to the endpoint yet ...
BeforeCall ==
    \A r \in Requests :
        /\ pc[r] = "new" =>
               stored[r] = Empty /\ \A e \in emitted : e.req # r
        /\ pc[r] \in {"new", "reading"} => app[r] = "none" /\ response[r] = NoResponse
        /\ pc[r] \in {"new", "reading", "calling"} => access[r] = <<>> /\ sentBy[r] = "none"
        /\ pc[r] \in {"reading", "calling"} => stored[r] # Empty

\* ... and of one that was.
Answered(r) ==
    /\ response[r].status # NoStatus
    /\ SameIds(response[r], stored[r])
    /\ AccessLogs => access[r] = <<[status |-> response[r].status, ctx |-> stored[r]]>>

AfterCall ==
    \A r \in Requests :
        /\ app[r] = "running" => pc[r] \in {"calling", "sending", "streaming"}
        /\ pc[r] \in {"sending", "streaming"} \/ sentBy[r] = "app" => Answered(r)
        /\ pc[r] = "handled" /\ Decorated => SameIds(response[r], stored[r])
        /\ sentBy[r] = "handler" => pc[r] = "done"
        /\ sentBy[r] = "handler" /\ Decorated => SameIds(response[r], stored[r])

\* The endpoint's status stays its own until the handler answers in its place.
StatusesOK ==
    \A r \in Requests :
        /\ pc[r] \notin {"handled", "done"} =>
               response[r].status \in Statuses \cup {NoStatus}
        /\ pc[r] = "handled" /\ sentBy[r] = "none" => response[r].status = ErrorStatus

IInv ==
    /\ TypeOK
    /\ OneAtATime
    /\ ServerBinding
    /\ ServerClean
    /\ ChildContext
    /\ BeforeCall
    /\ AfterCall
    /\ StatusesOK
    /\ AccessOncePerCall
    /\ ContextIsolation

------------------------------------------------------------------------------
(* What the helpers do to the variables they assign. *)

\* A step leaves task t with context m and tokens s, and every other task alone.
Sets(t, m, s) ==
    /\ ctx' \in [Tasks -> Mapping]
    /\ tokens' \in [Tasks -> Seq(Mapping)]
    /\ ctx'[t] = m /\ tokens'[t] = s
    /\ \A u \in Tasks \ {t} : ctx'[u] = ctx[u] /\ tokens'[u] = tokens[u]

\* A step logs one record for r, with context m, or none.
Logs(r, m) ==
    /\ emitted' \subseteq [event : Events, req : Requests, ctx : Mapping]
    /\ \A e \in emitted' : e \in emitted \/ (e.req = r /\ e.ctx = m)

\* A step enters status for r in the access log.
Enters(r, status) ==
    /\ access' \in [Requests -> Seq([status : Nat, ctx : Mapping])]
    /\ \A q \in Requests \ {r} : access'[q] = access[q]
    /\ access'[r] =
           IF AccessLogs THEN <<[status |-> status, ctx |-> stored[r]]>> ELSE <<>>

\* A step echoes the ids of r on its response.
Echoes(r, status) ==
    /\ response' \in [Requests -> Response]
    /\ \A q \in Requests \ {r} : response'[q] = response[q]
    /\ response'[r].status = status
    /\ SameIds(response'[r], stored[r])

\* The empty context is a mapping, and the two markers are numbers.
LEMMA EmptyMapping == Empty \in Mapping /\ UNSET \in Nat /\ NoStatus \in Nat
  BY DEF Empty, Mapping, UNSET, NoStatus

\* The task that serves a request is a task, and not the child of a request.
LEMMA ServerIsTask ==
    ASSUME NEW r \in Requests
    PROVE  ServerOf[r] \in Tasks /\ ServerOf[r] \in Servers /\ r \in Tasks /\ r # ServerOf[r]
  BY RequestsAssumption DEF Tasks

\* bind_context(t, values) pushes what was bound and changes no other task.
LEMMA BindEffect ==
    ASSUME TypeOK, NEW t \in Tasks, NEW values \in Mapping, bind_context(t, values)
    PROVE  Sets(t, values, <<ctx[t]>> \o tokens[t])
<1>1. ctx \in [Tasks -> Mapping] /\ tokens \in [Tasks -> Seq(Mapping)]
  BY DEF TypeOK
<1>2. ctx[t] \in Mapping /\ tokens[t] \in Seq(Mapping)
  BY <1>1
<1>3. <<ctx[t]>> \o tokens[t] \in Seq(Mapping)
  BY <1>2
<1> QED
  BY <1>1, <1>3 DEF bind_context, Sets

\* unbind_context(t) pops what the innermost block replaced.
LEMMA UnbindEffect ==
    ASSUME TypeOK, NEW t \in Tasks, tokens[t] # <<>>, unbind_context(t)
    PROVE  Sets(t, Head(tokens[t]), Tail(tokens[t]))
<1>1. ctx \in [Tasks -> Mapping] /\ tokens \in [Tasks -> Seq(Mapping)]
  BY DEF TypeOK
<1>2. tokens[t] \in Seq(Mapping)
  BY <1>1
<1>3. Head(tokens[t]) \in Mapping /\ Tail(tokens[t]) \in Seq(Mapping)
  BY <1>2
<1> QED
  BY <1>1, <1>3 DEF unbind_context, Sets

\* A child task starts with its parent's context and no blocks of its own.
LEMMA StartTaskEffect ==
    ASSUME TypeOK, NEW t \in Tasks, NEW p \in Tasks, StartTask(t, p)
    PROVE  Sets(t, ctx[p], <<>>)
<1>1. ctx \in [Tasks -> Mapping] /\ tokens \in [Tasks -> Seq(Mapping)]
  BY DEF TypeOK
<1>2. <<>> \in Seq(Mapping)
  OBVIOUS
<1> QED
  BY <1>1, <1>2 DEF StartTask, Sets

\* update_context adds to what is bound: the ids stay.
LEMMA UpdateEffect ==
    ASSUME TypeOK, NEW r \in Requests, NEW tenant \in Tenants, update_context(r, tenant)
    PROVE  Sets(r, ctx'[r], <<ctx[r]>> \o tokens[r]) /\ SameIds(ctx'[r], ctx[r])
<1> DEFINE m == [ctx[r] EXCEPT !.tenant_id = tenant]
<1>1. ctx[r] \in Mapping
  BY ServerIsTask DEF TypeOK
<1>2. m \in Mapping /\ SameIds(m, ctx[r])
  BY <1>1, ValuesAssumption DEF Mapping, SameIds
<1>3. bind_context(r, m)
  BY DEF update_context
<1> HIDE DEF m
<1>4. Sets(r, m, <<ctx[r]>> \o tokens[r])
  BY <1>2, <1>3, BindEffect, ServerIsTask
<1> QED
  BY <1>2, <1>4 DEF Sets

\* A record that is logged has the context of the task that logs it.
LEMMA LogEffect ==
    ASSUME TypeOK, NEW event \in Events, NEW r \in Requests, NEW m \in Mapping,
           Log(event, r, m)
    PROVE  Logs(r, m)
  BY DEF TypeOK, Log, Logs

\* The access record is the request's only one, in the context of its block.
LEMMA LogAccessEffect ==
    ASSUME TypeOK, NEW r \in Requests, NEW status \in Nat, _log_access(r, status),
           access[r] = <<>>, ctx[ServerOf[r]] = stored[r]
    PROVE  Enters(r, status)
<1> DEFINE Entry == [status |-> status, ctx |-> stored[r]]
           Entries == [status : Nat, ctx : Mapping]
<1>1. access \in [Requests -> Seq(Entries)] /\ stored[r] \in Mapping
  BY DEF TypeOK
<1>2. Entry \in Entries
  BY <1>1
<1>3. access' = [access EXCEPT ![r] = IF AccessLogs THEN Append(@, Entry) ELSE @]
  BY DEF _log_access, collect_context
<1> HIDE DEF Entry, Entries
<1>4. Append(access[r], Entry) = <<Entry>> /\ <<Entry>> \in Seq(Entries)
  BY <1>2
<1>5. /\ access' \in [Requests -> Seq(Entries)]
      /\ \A q \in Requests \ {r} : access'[q] = access[q]
      /\ access'[r] = IF AccessLogs THEN <<Entry>> ELSE <<>>
  BY <1>1, <1>3, <1>4
<1> QED
  BY <1>5 DEF Enters, Entry, Entries

\* apply_to echoes the ids that were stored for the request.
LEMMA ApplyEffect ==
    ASSUME TypeOK, NEW r \in Requests, NEW status \in Nat, apply_to(r, status)
    PROVE  Echoes(r, status)
<1>1. response \in [Requests -> Response] /\ stored[r] \in Mapping
  BY DEF TypeOK
<1>2. [status |-> status, request_id |-> stored[r].request_id,
       correlation_id |-> stored[r].correlation_id] \in Response
  BY <1>1 DEF Response, Mapping
<1> QED
  BY <1>1, <1>2 DEF apply_to, SameIds, Echoes

\* A request that dispatch accepts has an id, generated or stamped upstream.
LEMMA FromRequest ==
    ASSUME TypeOK, NEW r \in Requests
    PROVE  from_request(r) \in Mapping /\ from_request(r) # Empty
<1>1. _request_id(r) \in Nat /\ _request_id(r) # UNSET
  BY RequestsAssumption DEF _request_id, TypeOK, UNSET
<1>2. from_request(r) \in Mapping
  BY <1>1, RequestsAssumption DEF from_request, Mapping, UNSET
<1>3. from_request(r).request_id # Empty.request_id
  BY <1>1 DEF from_request, Empty
<1> QED
  BY <1>2, <1>3

------------------------------------------------------------------------------
(* What the steps of a server task do, under the invariant. *)

\* Outside the blocks of r nothing is bound in the task that serves r.
LEMMA NothingBound ==
    ASSUME IInv, NEW r \in Requests,
           (Active(r) /\ ~Bound(r)) \/ Idle(ServerOf[r])
    PROVE  ctx[ServerOf[r]] = Empty /\ tokens[ServerOf[r]] = <<>>
<1>1. ASSUME NEW q \in Requests, ServerOf[q] = ServerOf[r] PROVE ~Bound(q)
  BY <1>1 DEF IInv, OneAtATime, Active, Bound, Idle
<1> QED
  BY <1>1, ServerIsTask DEF IInv, ServerClean

\* A block is entered by a server task that has nothing bound ...
LEMMA EnterBlock ==
    ASSUME IInv, NEW r \in Requests, NEW values \in Mapping,
           (Active(r) /\ ~Bound(r)) \/ Idle(ServerOf[r]),
           bind_context(ServerOf[r], values)
    PROVE  Sets(ServerOf[r], values, <<Empty>>)
<1>1. ctx[ServerOf[r]] = Empty /\ tokens[ServerOf[r]] = <<>>
  BY NothingBound
<1>2. <<Empty>> \o <<>> = <<Empty>>
  BY EmptyMapping
<1>3. TypeOK
  BY DEF IInv
<1>4. Sets(ServerOf[r], values, <<ctx[ServerOf[r]]>> \o tokens[ServerOf[r]])
  BY <1>3, BindEffect, ServerIsTask
<1> QED
  BY <1>1, <1>2, <1>4

\* ... and leaving it leaves nothing bound.
LEMMA LeaveBlock ==
    ASSUME IInv, NEW r \in Requests, Bound(r), unbind_context(ServerOf[r])
    PROVE  Sets(ServerOf[r], Empty, <<>>)
<1>1. tokens[ServerOf[r]] = <<Empty>>
  BY DEF IInv, ServerBinding
<1>2. Head(<<Empty>>) = Empty /\ Tail(<<Empty>>) = <<>> /\ <<Empty>> # <<>>
  OBVIOUS
<1>3. TypeOK
  BY DEF IInv
<1> QED
  BY <1>1, <1>2, <1>3, UnbindEffect, ServerIsTask

\* A step outside the blocks leaves what is bound alone.
LEMMA StayOutside ==
    ASSUME IInv, NEW r \in Requests, Active(r), ~Bound(r), UNCHANGED <<ctx, tokens>>
    PROVE  Sets(ServerOf[r], Empty, <<>>)
<1>1. ctx[ServerOf[r]] = Empty /\ tokens[ServerOf[r]] = <<>>
  BY NothingBound
<1> QED
  BY <1>1, ServerIsTask DEF IInv, TypeOK, Sets

\* Dispatch binds in its server task what it stores for the request.
LEMMA DispatchEffect ==
    ASSUME IInv, NEW r \in Requests, Dispatch(r)
    PROVE  /\ Sets(ServerOf[r], stored'[r], <<Empty>>)
           /\ stored' \in [Requests -> Mapping] /\ stored'[r] # Empty
           /\ \A q \in Requests \ {r} : stored'[q] = stored[q]
           /\ Logs(r, stored'[r])
<1>1. TypeOK /\ Idle(ServerOf[r]) /\ bind_context(ServerOf[r], from_request(r))
  BY DEF IInv, Dispatch
<1>2. from_request(r) \in Mapping /\ from_request(r) # Empty
  BY <1>1, FromRequest
<1>3. /\ stored' \in [Requests -> Mapping] /\ stored'[r] = from_request(r)
      /\ \A q \in Requests \ {r} : stored'[q] = stored[q]
  BY <1>1, <1>2 DEF Dispatch, TypeOK
<1>4. Sets(ServerOf[r], from_request(r), <<Empty>>)
  BY <1>1, <1>2, EnterBlock
<1>5. Logs(r, from_request(r))
  <2>1. CASE Log("SYS_MISSING_CORRELATION_ID", r, ctx'[ServerOf[r]])
    <3>1. Log("SYS_MISSING_CORRELATION_ID", r, from_request(r))
      BY <1>4, <2>1 DEF Sets
    <3>2. "SYS_MISSING_CORRELATION_ID" \in Events
      BY DEF Events
    <3> QED
      BY <1>1, <1>2, <3>1, <3>2, LogEffect
  <2>2. CASE UNCHANGED emitted
    BY <1>1, <2>2 DEF Logs, TypeOK
  <2> QED
    BY <2>1, <2>2 DEF Dispatch
<1> QED
  BY <1>2, <1>3, <1>4, <1>5

\* Every way out of dispatch and of the handler tears the context down.
LEMMA LeavingEffect ==
    ASSUME IInv, NEW r \in Requests,
           \/ BodyFails(r) \/ CallReturns(r) \/ CallRaises(r) \/ Cancel(r)
           \/ HandlerReturns(r) \/ HandlerRaises(r)
    PROVE  Sets(ServerOf[r], Empty, <<>>)
<1>1. CASE BodyFails(r) \/ CallReturns(r) \/ CallRaises(r)
  BY <1>1, LeaveBlock DEF BodyFails, CallReturns, CallRaises, Bound
<1>2. CASE Cancel(r)
  BY <1>2, LeaveBlock, StayOutside DEF Cancel, Bound, Active
<1>3. CASE HandlerReturns(r) \/ HandlerRaises(r)
  BY <1>3, LeaveBlock, StayOutside
     DEF HandlerReturns, HandlerRaises, LeaveHandler, Bound, Active
<1> QED
  BY <1>1, <1>2, <1>3

\* The finally clause of dispatch runs while the request's context is bound.
LEMMA AccessEffect ==
    ASSUME IInv, NEW r \in Requests, NEW status \in Nat,
           pc[r] = "calling", _log_access(r, status)
    PROVE  Enters(r, status)
<1>1. TypeOK /\ access[r] = <<>> /\ ctx[ServerOf[r]] = stored[r]
  BY DEF IInv, BeforeCall, ServerBinding, Bound
<1> QED
  BY <1>1, LogAccessEffect

\* Entering the handler binds the stored context if there is one to rebind.
LEMMA HandlerEntersEffect ==
    ASSUME IInv, NEW r \in Requests, HandlerEnters(r)
    PROVE  \/ Rebinds(r) /\ Sets(ServerOf[r], stored[r], <<Empty>>)
           \/ ~Rebinds(r) /\ Sets(ServerOf[r], Empty, <<>>)
<1>1. Active(r) /\ ~Bound(r) /\ stored[r] \in Mapping
  BY DEF HandlerEnters, Active, Bound, IInv, TypeOK
<1> QED
  BY <1>1, EnterBlock, StayOutside DEF HandlerEnters

\* The endpoint logs in its request's context, and only its own task's changes.
LEMMA AppLogEffect ==
    ASSUME IInv, NEW r \in Requests, AppLog(r)
    PROVE  Logs(r, ctx[r]) /\ SameIds(ctx[r], stored[r])
<1>1. TypeOK /\ ctx[r] \in Mapping /\ "ENDPOINT" \in Events
  BY ServerIsTask DEF IInv, TypeOK, Events
<1>2. Log("ENDPOINT", r, ctx[r]) /\ app[r] = "running"
  BY DEF AppLog, collect_context
<1> QED
  BY <1>1, <1>2, LogEffect DEF IInv, ChildContext, Restores

\* A handler logs its request's ids; only an undecorated one logs none.
LEMMA HandlerLogEffect ==
    ASSUME IInv, NEW r \in Requests, HandlerLog(r) \/ log_unhandled_exception(r)
    PROVE  \E m \in Mapping :
               /\ Logs(r, m)
               /\ \/ SameIds(m, stored[r])
                  \/ /\ m = Empty /\ ~Decorated
                     /\ \A e \in emitted' : e \in emitted \/ e.event = "HANDLER"
<1>1. /\ TypeOK /\ pc[r] = "handling" /\ Active(r) /\ stored[r] \in Mapping
      /\ ctx[ServerOf[r]] \in Mapping
  BY ServerIsTask DEF IInv, HandlerLog, log_unhandled_exception, TypeOK, Active
<1>2. /\ Rebinds(r) => ctx[ServerOf[r]] = stored[r]
      /\ ~Rebinds(r) => ctx[ServerOf[r]] = Empty
  BY <1>1, NothingBound DEF IInv, ServerBinding, Bound
<1>3. Decorated /\ ~Rebinds(r) => stored[r] = Empty
  BY DEF Rebinds
<1>4. {"HANDLER", "SYS_UNHANDLED_EXCEPTION"} \subseteq Events
  BY DEF Events
<1>5. CASE HandlerLog(r)
  <2>1. Log("HANDLER", r, ctx[ServerOf[r]])
    BY <1>5 DEF HandlerLog, collect_context
  <2>2. Logs(r, ctx[ServerOf[r]])
    BY <1>1, <1>4, <2>1, LogEffect
  <2>3. \A e \in emitted' : e \in emitted \/ e.event = "HANDLER"
    BY <2>1 DEF Log
  <2> QED
    BY <1>1, <1>2, <1>3, <2>2, <2>3 DEF SameIds
<1>6. CASE log_unhandled_exception(r)
  <2> DEFINE m == IF stored[r] # Empty THEN stored[r] ELSE ctx[ServerOf[r]]
  <2>1. Log("SYS_UNHANDLED_EXCEPTION", r, m)
    BY <1>6 DEF log_unhandled_exception, collect_context
  <2>2. m = stored[r]
    BY <1>2 DEF Rebinds
  <2>3. Logs(r, stored[r])
    BY <1>1, <1>4, <2>1, <2>2, LogEffect
  <2> QED
    BY <1>1, <2>3 DEF SameIds
<1> QED
  BY <1>5, <1>6

------------------------------------------------------------------------------
(* Each part of the invariant is preserved. *)

Step(r) ==
    \/ Dispatch(r) \/ Progress(r) \/ Endpoint(r) \/ Finishes(r)
    \/ Failure(r) \/ Handling(r)

\* The steps that touch neither a context nor the records.
Quiet(r) ==
    \/ UpstreamRaises(r) \/ ReadBody(r) \/ AppEnds(r) \/ AppRaises(r)
    \/ SendStart(r) \/ StreamEnds(r) \/ StreamBreaks(r) \/ HandlerSends(r)
    \/ \E status \in Statuses : AppResponds(r, status)

\* The steps by which the endpoint changes its own context.
Updates(r) ==
    AppStart(r) \/ AppLeavesUpdate(r) \/ \E tenant \in Tenants : AppEntersUpdate(r, tenant)

Leaving(r) ==
    \/ BodyFails(r) \/ CallReturns(r) \/ CallRaises(r) \/ Cancel(r)
    \/ HandlerReturns(r) \/ HandlerRaises(r)

\* The steps of a request, sorted by what they do to the context.
LEMMA StepCases ==
    ASSUME NEW r \in Requests, Step(r)
    PROVE  \/ Quiet(r) \/ Updates(r) \/ Leaving(r) \/ Dispatch(r) \/ HandlerEnters(r)
           \/ AppLog(r) \/ HandlerLog(r) \/ log_unhandled_exception(r)
  BY DEF Step, Quiet, Updates, Leaving, Progress, Endpoint, Finishes, Failure, Handling

\* The steps of update_context blocks touch the request's child task alone.
LEMMA UpdatesEffect ==
    ASSUME IInv, NEW r \in Requests, Updates(r)
    PROVE  /\ app[r] = "running" \/ AppStart(r)
           /\ \E m \in Mapping, s \in Seq(Mapping) : Sets(r, m, s) /\ Restores(m, s, stored[r])
<1>1. TypeOK /\ r \in Tasks /\ ServerOf[r] \in Tasks
  BY ServerIsTask DEF IInv
<1>2. ctx[r] \in Mapping /\ tokens[r] \in Seq(Mapping) /\ ctx[ServerOf[r]] \in Mapping
  BY <1>1 DEF TypeOK
<1>3. CASE AppStart(r)
  <2>1. Sets(r, ctx[ServerOf[r]], <<>>)
    BY <1>1, <1>3, StartTaskEffect DEF AppStart
  <2>2. ctx[ServerOf[r]] = stored[r]
    BY <1>3 DEF AppStart, IInv, ServerBinding, Bound
  <2>3. <<>> \in Seq(Mapping) /\ Restores(ctx[ServerOf[r]], <<>>, stored[r])
    BY <2>2 DEF Restores, SameIds
  <2> QED
    BY <1>2, <1>3, <2>1, <2>2, <2>3
<1>4. CASE \E tenant \in Tenants : AppEntersUpdate(r, tenant)
  <2>1. PICK tenant \in Tenants : update_context(r, tenant) /\ app[r] = "running"
    BY <1>4 DEF AppEntersUpdate
  <2>2. Sets(r, ctx'[r], <<ctx[r]>> \o tokens[r]) /\ SameIds(ctx'[r], ctx[r])
    BY <1>1, <2>1, UpdateEffect
  <2>3. Restores(ctx[r], tokens[r], stored[r])
    BY <2>1 DEF IInv, ChildContext
  <2> DEFINE s == <<ctx[r]>> \o tokens[r]
  <2>4. s \in Seq(Mapping) /\ \A i \in 1 .. Len(s) : SameIds(s[i], stored[r])
    BY <1>2, <2>3 DEF Restores
  <2>5. ctx'[r] \in Mapping /\ SameIds(ctx'[r], stored[r])
    BY <1>1, <2>2, <2>3 DEF Sets, SameIds, Restores
  <2>6. s # <<>> /\ s[Len(s)] = stored[r]
    BY <1>2, <2>3 DEF Restores
  <2> QED
    BY <2>1, <2>2, <2>4, <2>5, <2>6 DEF Restores
<1>5. CASE AppLeavesUpdate(r)
  <2>1. tokens[r] # <<>> /\ app[r] = "running" /\ unbind_context(r)
    BY <1>5 DEF AppLeavesUpdate
  <2>2. Sets(r, Head(tokens[r]), Tail(tokens[r]))
    BY <1>1, <2>1, UnbindEffect
  <2>3. /\ \A i \in 1 .. Len(tokens[r]) : SameIds(tokens[r][i], stored[r])
        /\ tokens[r][Len(tokens[r])] = stored[r]
    BY <2>1 DEF IInv, ChildContext, Restores
  <2> DEFINE s == Tail(tokens[r])
  <2>4. s \in Seq(Mapping) /\ \A i \in 1 .. Len(s) : SameIds(s[i], stored[r])
    BY <1>2, <2>1, <2>3
  <2>5. Head(tokens[r]) \in Mapping /\ SameIds(Head(tokens[r]), stored[r])
    BY <1>2, <2>1, <2>3
  <2>6. IF s = <<>> THEN Head(tokens[r]) = stored[r] ELSE s[Len(s)] = stored[r]
    <3>1. /\ Len(tokens[r]) \in Nat \ {0} /\ Len(s) = Len(tokens[r]) - 1
          /\ Head(tokens[r]) = tokens[r][1]
          /\ \A i \in 1 .. Len(s) : s[i] = tokens[r][i + 1]
      BY <1>2, <2>1
    <3> HIDE DEF s
    <3>2. CASE Len(s) = 0
      BY <2>3, <2>4, <3>1, <3>2
    <3>3. CASE Len(s) # 0
      BY <2>3, <3>1, <3>3
    <3> QED
      BY <3>2, <3>3
  <2> QED
    BY <2>1, <2>2, <2>4, <2>5, <2>6 DEF Restores
<1> QED
  BY <1>3, <1>4, <1>5 DEF Updates

\* Each step keeps the types.
LEMMA TypeStep == ASSUME IInv, NEW r \in Requests, Step(r) PROVE TypeOK'
<1>1. TypeOK
  BY DEF IInv
<1>2. CASE Quiet(r)
  <2>1. ASSUME NEW status \in Statuses, AppResponds(r, status) PROVE TypeOK'
    <3>1. response[r] \in Response /\ status \in Nat
      BY <1>1, ValuesAssumption DEF TypeOK
    <3>2. [response[r] EXCEPT !.status = status] \in Response
      BY <3>1 DEF Response
    <3>3. response' \in [Requests -> Response]
      BY <1>1, <2>1, <3>2 DEF AppResponds, TypeOK
    <3> QED
      BY <1>1, <2>1, <3>3 DEF AppResponds, TypeOK
  <2>2. CASE UpstreamRaises(r) \/ ReadBody(r) \/ AppEnds(r) \/ AppRaises(r)
    BY <1>1, <2>2 DEF UpstreamRaises, ReadBody, AppEnds, AppRaises, GoTo, TypeOK, Stages
  <2>3. CASE SendStart(r) \/ StreamEnds(r) \/ StreamBreaks(r) \/ HandlerSends(r)
    BY <1>1, <2>3 DEF SendStart, StreamEnds, StreamBreaks, HandlerSends, GoTo, TypeOK, Stages
  <2> QED
    BY <1>2, <2>1, <2>2, <2>3 DEF Quiet
<1>3. CASE Updates(r)
  <2>1. ctx' \in [Tasks -> Mapping] /\ tokens' \in [Tasks -> Seq(Mapping)]
    BY <1>3, UpdatesEffect DEF Sets
  <2> QED
    BY <1>1, <1>3, <2>1 DEF Updates, AppStart, AppEntersUpdate, AppLeavesUpdate, TypeOK
<1>4. CASE Leaving(r)
  <2>1. ctx' \in [Tasks -> Mapping] /\ tokens' \in [Tasks -> Seq(Mapping)]
    BY <1>4, LeavingEffect DEF Leaving, Sets
  <2>2. access' \in [Requests -> Seq([status : Nat, ctx : Mapping])]
    <3>1. response[r].status \in Nat /\ NoStatus \in Nat
      BY <1>1, EmptyMapping DEF TypeOK, Response
    <3>2. CASE CallReturns(r) \/ CallRaises(r) \/ Cancel(r)
      <4>1. \/ UNCHANGED access
            \/ \E status \in Nat : pc[r] = "calling" /\ _log_access(r, status)
        BY <3>1, <3>2 DEF CallReturns, CallRaises, Cancel
      <4> QED
        BY <1>1, <4>1, AccessEffect DEF Enters, TypeOK
    <3> QED
      BY <1>1, <1>4, <3>2 DEF Leaving, BodyFails, HandlerReturns, HandlerRaises, TypeOK
  <2>3. response' \in [Requests -> Response]
    <3>1. response[r].status \in Nat /\ ErrorStatus \in Nat
      BY <1>1, ValuesAssumption DEF TypeOK, Response
    <3>2. [NoResponse EXCEPT !.status = ErrorStatus] \in Response
      BY <3>1 DEF NoResponse, Response, UNSET
    <3>3. \/ UNCHANGED response
          \/ \E status \in Nat : apply_to(r, status)
          \/ response' = [response EXCEPT ![r] = [NoResponse EXCEPT !.status = ErrorStatus]]
      BY <1>4, <3>1 DEF Leaving, BodyFails, CallReturns, CallRaises, Cancel,
         HandlerReturns, HandlerRaises
    <3> QED
      BY <1>1, <3>2, <3>3, ApplyEffect DEF Echoes, TypeOK
  <2>4. pc' \in [Requests -> Stages] /\ app' = [app EXCEPT ![r] = app'[r]]
        /\ app'[r] \in {"none", "running", "ended", "raised"}
    BY <1>1, <1>4 DEF Leaving, BodyFails, CallReturns, CallRaises, Cancel,
       HandlerReturns, HandlerRaises, GoTo, TypeOK, Stages
  <2>5. UNCHANGED <<stored, lastId, emitted, sentBy>>
    BY <1>4 DEF Leaving, BodyFails, CallReturns, CallRaises, Cancel,
       HandlerReturns, HandlerRaises
  <2> QED
    BY <1>1, <2>1, <2>2, <2>3, <2>4, <2>5 DEF TypeOK
<1>5. CASE Dispatch(r)
  <2>1. /\ ctx' \in [Tasks -> Mapping] /\ tokens' \in [Tasks -> Seq(Mapping)]
        /\ stored' \in [Requests -> Mapping]
        /\ emitted' \subseteq [event : Events, req : Requests, ctx : Mapping]
    BY <1>5, DispatchEffect DEF Sets, Logs
  <2>2. pc' \in [Requests -> Stages] /\ lastId' \in Nat
        /\ UNCHANGED <<app, access, response, sentBy>>
    BY <1>1, <1>5 DEF Dispatch, GoTo, TypeOK, Stages
  <2> QED
    BY <1>1, <2>1, <2>2 DEF TypeOK
<1>6. CASE HandlerEnters(r)
  <2>1. ctx' \in [Tasks -> Mapping] /\ tokens' \in [Tasks -> Seq(Mapping)]
    BY <1>6, HandlerEntersEffect DEF Sets
  <2> QED
    BY <1>1, <1>6, <2>1 DEF HandlerEnters, GoTo, TypeOK, Stages
<1>7. CASE AppLog(r) \/ HandlerLog(r) \/ log_unhandled_exception(r)
  <2>1. emitted' \subseteq [event : Events, req : Requests, ctx : Mapping]
    BY <1>7, AppLogEffect, HandlerLogEffect DEF Logs
  <2> QED
    BY <1>1, <1>7, <2>1 DEF AppLog, HandlerLog, log_unhandled_exception, TypeOK
<1> QED
  BY <1>2, <1>3, <1>4, <1>5, <1>6, <1>7, StepCases


\* A step of one request leaves the other requests alone.
LEMMA OthersUnchanged ==
    ASSUME IInv, NEW r \in Requests, Step(r), NEW q \in Requests, q # r
    PROVE  /\ pc'[q] = pc[q] /\ app'[q] = app[q] /\ stored'[q] = stored[q]
           /\ access'[q] = access[q] /\ response'[q] = response[q] /\ sentBy'[q] = sentBy[q]
           /\ Bound(q)' = Bound(q)
<1>1. pc'[q] = pc[q] /\ app'[q] = app[q] /\ stored'[q] = stored[q] /\ sentBy'[q] = sentBy[q]
  BY DEF Step, Progress, Endpoint, Finishes, Failure, Handling, GoTo, IInv, TypeOK,
     UpstreamRaises, Dispatch, ReadBody, BodyFails, CallReturns, CallRaises, AppStart,
     AppLog, AppEntersUpdate, AppLeavesUpdate, AppResponds, AppEnds, AppRaises,
     SendStart, StreamEnds, StreamBreaks, Cancel, HandlerEnters, HandlerLog,
     log_unhandled_exception, HandlerReturns, HandlerRaises, HandlerSends
<1>2. access'[q] = access[q] /\ response'[q] = response[q]
  BY DEF Step, Progress, Endpoint, Finishes, Failure, Handling, IInv, TypeOK,
     UpstreamRaises, Dispatch, ReadBody, BodyFails, CallReturns, CallRaises, AppStart,
     AppLog, AppEntersUpdate, AppLeavesUpdate, AppResponds, AppEnds, AppRaises,
     SendStart, StreamEnds, StreamBreaks, Cancel, HandlerEnters, HandlerLog,
     log_unhandled_exception, HandlerReturns, HandlerRaises, HandlerSends,
     apply_to, _log_access
<1> QED
  BY <1>1, <1>2 DEF Bound, Rebinds

\* A server task never has two requests under way.
LEMMA OneAtATimeStep == ASSUME IInv, NEW r \in Requests, Step(r) PROVE OneAtATime'
<1>1. \/ pc[r] = "new" /\ Idle(ServerOf[r])
      \/ Active(r)
      \/ UNCHANGED pc
  BY DEF Step, Progress, Endpoint, Finishes, Failure, Handling, Active,
     UpstreamRaises, Dispatch, ReadBody, BodyFails, CallReturns, CallRaises, AppStart,
     AppLog, AppEntersUpdate, AppLeavesUpdate, AppResponds, AppEnds, AppRaises,
     SendStart, StreamEnds, StreamBreaks, Cancel, HandlerEnters, HandlerLog,
     log_unhandled_exception, HandlerReturns, HandlerRaises, HandlerSends
<1>2. \A q \in Requests \ {r} : pc'[q] = pc[q]
  BY OthersUnchanged
<1> QED
  BY <1>1, <1>2 DEF OneAtATime, Active, Idle, IInv

\* Only steps of r move the context of the task that serves it, and they leave
\* it as the block they are in requires.
LEMMA ServerStep ==
    ASSUME IInv, NEW r \in Requests, Step(r)
    PROVE  ServerBinding' /\ ServerClean'
<1> DEFINE w == ServerOf[r]
           Others == \A q \in Requests : q # r => (Bound(q)' <=> Bound(q)) /\ stored'[q] = stored[q]
           Alone == \A q \in Requests : q # r /\ ServerOf[q] = w => ~Bound(q)
<1>1. Others
  BY OthersUnchanged
<1>2. w \in Tasks /\ w \in Servers
  BY ServerIsTask
<1>3. (Active(r) \/ Idle(w)) => Alone
  BY DEF IInv, OneAtATime, Active, Bound, Idle
<1>4. ASSUME Sets(w, Empty, <<>>), Alone, ~Bound(r)' PROVE ServerBinding' /\ ServerClean'
  BY <1>1, <1>2, <1>4, ServerIsTask DEF Sets, ServerBinding, ServerClean, IInv, Tasks
<1>5. ASSUME Sets(w, stored'[r], <<Empty>>), Alone, Bound(r)' PROVE ServerBinding' /\ ServerClean'
  BY <1>1, <1>2, <1>5, ServerIsTask DEF Sets, ServerBinding, ServerClean, IInv, Tasks
<1>6. ASSUME \A u \in Servers : ctx'[u] = ctx[u] /\ tokens'[u] = tokens[u],
             Bound(r)' <=> Bound(r), stored'[r] = stored[r]
      PROVE  ServerBinding' /\ ServerClean'
  BY <1>1, <1>6, ServerIsTask DEF ServerBinding, ServerClean, IInv
<1> HIDE DEF w, Others, Alone
<1>7. CASE Leaving(r)
  <2>1. Active(r) /\ ~Bound(r)' /\ Sets(w, Empty, <<>>)
    BY <1>7, LeavingEffect DEF Leaving, BodyFails, CallReturns, CallRaises, Cancel,
       HandlerReturns, HandlerRaises, GoTo, Active, Bound, IInv, TypeOK, w
  <2> QED
    BY <2>1, <1>3, <1>4
<1>8. CASE Dispatch(r)
  <2>1. Idle(w) /\ Bound(r)'
    BY <1>8 DEF Dispatch, GoTo, Bound, IInv, TypeOK, w
  <2>2. Sets(w, stored'[r], <<Empty>>)
    BY <1>8, DispatchEffect DEF w
  <2> QED
    BY <2>1, <2>2, <1>3, <1>5
<1>9. CASE HandlerEnters(r)
  <2>1. Active(r) /\ stored' = stored /\ (Bound(r)' <=> Rebinds(r))
    BY <1>9 DEF HandlerEnters, GoTo, Active, Bound, Rebinds, IInv, TypeOK
  <2> QED
    BY <1>9, <2>1, <1>3, <1>4, <1>5, HandlerEntersEffect DEF w
<1>10. CASE Updates(r)
  <2>1. \A u \in Servers : ctx'[u] = ctx[u] /\ tokens'[u] = tokens[u]
    BY <1>10, UpdatesEffect, RequestsAssumption DEF Sets, Tasks
  <2>2. stored' = stored /\ pc' = pc
    BY <1>10 DEF Updates, AppStart, AppEntersUpdate, AppLeavesUpdate
  <2> QED
    BY <1>6, <2>1, <2>2 DEF Bound, Rebinds
<1>11. CASE Quiet(r)
  BY <1>11, <1>6 DEF Quiet, UpstreamRaises, ReadBody, AppEnds, AppRaises, AppResponds,
     SendStart, StreamEnds, StreamBreaks, HandlerSends, GoTo, Bound, Rebinds, IInv, TypeOK
<1>12. CASE AppLog(r) \/ HandlerLog(r) \/ log_unhandled_exception(r)
  BY <1>12, <1>6 DEF AppLog, HandlerLog, log_unhandled_exception, Bound, Rebinds
<1> QED
  BY <1>7, <1>8, <1>9, <1>10, <1>11, <1>12, StepCases

\* A child task keeps the ids of its request, below its update_context blocks.
LEMMA ChildStep == ASSUME IInv, NEW r \in Requests, Step(r) PROVE ChildContext'
<1> DEFINE Others == \A q \in Requests : q # r =>
        app'[q] = app[q] /\ stored'[q] = stored[q]
           Good(q) == Restores(ctx[q], tokens[q], stored[q])
<1>1. Others
  BY OthersUnchanged
<1>2. \A q \in Requests : app[q] = "running" => Good(q)
  BY DEF IInv, ChildContext
<1>3. SUFFICES ASSUME NEW q \in Requests, app'[q] = "running"
               PROVE  Good(q)'
  BY DEF ChildContext
<1>4. ASSUME app[q] = "running", ctx'[q] = ctx[q], tokens'[q] = tokens[q], stored'[q] = stored[q]
      PROVE  Good(q)'
  BY <1>2, <1>4
<1>5. CASE Updates(r)
  <2>1. PICK m \in Mapping, s \in Seq(Mapping) : Sets(r, m, s) /\ Restores(m, s, stored[r])
    BY <1>5, UpdatesEffect
  <2>2. stored' = stored
    BY <1>5 DEF Updates, AppStart, AppEntersUpdate, AppLeavesUpdate
  <2>3. CASE q = r
    BY <2>1, <2>2, <2>3 DEF Sets
  <2>4. CASE q # r
    BY <1>1, <1>3, <1>4, <2>1, <2>2, <2>4, ServerIsTask DEF Sets
  <2> QED
    BY <2>3, <2>4
<1>6. CASE Leaving(r) \/ Dispatch(r) \/ HandlerEnters(r)
  <2>1. ctx'[q] = ctx[q] /\ tokens'[q] = tokens[q]
    <3>1. q \in Tasks \ {ServerOf[r]}
      BY RequestsAssumption DEF Tasks
    <3> QED
      BY <1>6, <3>1, LeavingEffect, DispatchEffect, HandlerEntersEffect DEF Leaving, Sets
  <2>2. app[q] = "running" /\ stored'[q] = stored[q]
    <3>1. app'[r] = "running" => app[r] = "running" /\ (stored'[r] = stored[r] \/ Dispatch(r))
      BY <1>6 DEF Leaving, Dispatch, BodyFails, CallReturns, CallRaises, Cancel,
         HandlerReturns, HandlerRaises, HandlerEnters, IInv, TypeOK
    <3>2. Dispatch(r) => app'[r] = "none"
      BY DEF Dispatch, IInv, BeforeCall
    <3> QED
      BY <1>1, <1>3, <3>1, <3>2
  <2> QED
    BY <1>4, <2>1, <2>2
<1>7. CASE Quiet(r)
  BY <1>3, <1>4, <1>7 DEF Quiet, UpstreamRaises, ReadBody, AppEnds, AppRaises, AppResponds,
     SendStart, StreamEnds, StreamBreaks, HandlerSends, IInv, TypeOK
<1>8. CASE AppLog(r) \/ HandlerLog(r) \/ log_unhandled_exception(r)
  BY <1>3, <1>4, <1>8 DEF AppLog, HandlerLog, log_unhandled_exception
<1> QED
  BY <1>5, <1>6, <1>7, <1>8, StepCases

\* What is recorded while a request is called, from the effects of its steps.
LEMMA BeforeStep == ASSUME IInv, NEW r \in Requests, Step(r) PROVE BeforeCall'
<1>1. SUFFICES ASSUME NEW q \in Requests
      PROVE  /\ pc'[q] = "new" => stored'[q] = Empty /\ \A e \in emitted' : e.req # q
             /\ pc'[q] \in {"new", "reading"} => app'[q] = "none" /\ response'[q] = NoResponse
             /\ pc'[q] \in {"new", "reading", "calling"} =>
                    access'[q] = <<>> /\ sentBy'[q] = "none"
             /\ pc'[q] \in {"reading", "calling"} => stored'[q] # Empty
  BY DEF BeforeCall
<1>2. pc'[r] # "new"
  BY DEF Step, Progress, Endpoint, Finishes, Failure, Handling, GoTo, IInv, TypeOK,
     AfterCall, UpstreamRaises, Dispatch, ReadBody, BodyFails, CallReturns, CallRaises,
     AppStart, AppLog, AppEntersUpdate, AppLeavesUpdate, AppResponds, AppEnds, AppRaises,
     SendStart, StreamEnds, StreamBreaks, Cancel, HandlerEnters, HandlerLog,
     log_unhandled_exception, HandlerReturns, HandlerRaises, HandlerSends
<1>3. \A e \in emitted' : e \in emitted \/ e.req = r
  <2>1. UNCHANGED emitted \/ Dispatch(r) \/ AppLog(r) \/ HandlerLog(r)
        \/ log_unhandled_exception(r)
    BY DEF Step, Progress, Endpoint, Finishes, Failure, Handling,
       UpstreamRaises, Dispatch, ReadBody, BodyFails, CallReturns, CallRaises, AppStart,
       AppEntersUpdate, AppLeavesUpdate, AppResponds, AppEnds, AppRaises,
       SendStart, StreamEnds, StreamBreaks, Cancel, HandlerEnters, HandlerReturns,
       HandlerRaises, HandlerSends
  <2> QED
    BY <2>1, DispatchEffect, AppLogEffect, HandlerLogEffect DEF Logs
<1>4. CASE q # r
  BY <1>3, <1>4, OthersUnchanged DEF IInv, BeforeCall
<1>5. CASE q = r
  <2>1. CASE Leaving(r) \/ HandlerEnters(r)
    <3>1. pc'[r] \notin {"new", "reading", "calling"}
      BY <2>1 DEF Leaving, BodyFails, CallReturns, CallRaises, Cancel, HandlerReturns,
         HandlerRaises, HandlerEnters, GoTo, IInv, TypeOK
    <3> QED
      BY <1>5, <3>1
  <2>2. CASE Dispatch(r)
    <3>1. stored'[r] # Empty
      BY <2>2, DispatchEffect
    <3>2. pc[r] = "new" /\ UNCHANGED <<app, access, response, sentBy>>
      BY <2>2 DEF Dispatch
    <3> QED
      BY <1>2, <1>5, <3>1, <3>2 DEF IInv, BeforeCall
  <2>3. CASE Quiet(r)
    BY <1>2, <1>5, <2>3 DEF Quiet, UpstreamRaises, ReadBody, AppEnds, AppRaises, AppResponds,
       SendStart, StreamEnds, StreamBreaks, HandlerSends, GoTo, IInv, TypeOK, BeforeCall
  <2>4. CASE Updates(r) \/ AppLog(r) \/ HandlerLog(r) \/ log_unhandled_exception(r)
    BY <1>2, <1>5, <2>4 DEF Updates, AppStart, AppEntersUpdate, AppLeavesUpdate, AppLog,
       HandlerLog, log_unhandled_exception, IInv, TypeOK, BeforeCall
  <2> QED
    BY <2>1, <2>2, <2>3, <2>4, StepCases
<1> QED
  BY <1>4, <1>5

\* What is recorded after the call stays as the call left it.
LEMMA AfterStep == ASSUME IInv, NEW r \in Requests, Step(r) PROVE AfterCall'
<1> DEFINE After(q) ==
        /\ app[q] = "running" => pc[q] \in {"calling", "sending", "streaming"}
        /\ pc[q] \in {"sending", "streaming"} \/ sentBy[q] = "app" => Answered(q)
        /\ pc[q] = "handled" /\ Decorated => SameIds(response[q], stored[q])
        /\ sentBy[q] = "handler" => pc[q] = "done"
        /\ sentBy[q] = "handler" /\ Decorated => SameIds(response[q], stored[q])
<1>1. SUFFICES ASSUME NEW q \in Requests PROVE After(q)'
  BY DEF AfterCall
<1>2. \A p \in Requests : After(p)
  BY DEF IInv, AfterCall
<1>3. CASE q # r
  BY <1>2, <1>3, OthersUnchanged DEF Answered, SameIds
<1>4. SUFFICES ASSUME q = r PROVE After(r)'
  BY <1>3
<1>5. CASE CallReturns(r)
  <2> DEFINE status == response[r].status
  <2>1. status # NoStatus /\ status \in Nat
    BY <1>5 DEF CallReturns, IInv, TypeOK, Response
  <2>2. Echoes(r, status) /\ Enters(r, status)
    BY <1>5, <2>1, ApplyEffect, AccessEffect DEF CallReturns, IInv
  <2>3. UNCHANGED <<app, stored, sentBy>> /\ pc'[r] = "sending" /\ pc[r] = "calling"
    BY <1>5 DEF CallReturns, GoTo, IInv, TypeOK
  <2>4. Answered(r)'
    BY <2>1, <2>2, <2>3 DEF Answered, Echoes, Enters, SameIds
  <2> QED
    BY <1>2, <2>3, <2>4 DEF IInv, BeforeCall
<1>6. CASE BodyFails(r) \/ CallRaises(r) \/ Cancel(r)
  <2>1. /\ pc[r] = "calling" \/ UNCHANGED access
        /\ UNCHANGED <<stored, response, sentBy>>
        /\ app'[r] # "running" /\ pc'[r] \in {"failed", "done"}
    BY <1>6, <1>2 DEF BodyFails, CallRaises, Cancel, GoTo, IInv, TypeOK, BeforeCall
  <2>2. sentBy[r] = "app" => UNCHANGED access /\ Answered(r)
    BY <1>2, <2>1 DEF IInv, BeforeCall
  <2>3. sentBy[r] # "handler"
    BY <1>2, <1>6 DEF BodyFails, CallRaises, Cancel
  <2> QED
    BY <2>1, <2>2, <2>3 DEF Answered, SameIds
<1>7. CASE HandlerReturns(r)
  <2>1. /\ UNCHANGED <<app, stored, access, sentBy>>
        /\ pc[r] = "handling" /\ pc'[r] = "handled"
        /\ sentBy[r] # "handler" /\ app'[r] # "running"
    BY <1>2, <1>7 DEF HandlerReturns, GoTo, IInv, TypeOK
  <2>2. sentBy[r] = "none" /\ Decorated => SameIds(response'[r], stored[r])
    <3>1. CASE Rebinds(r)
      BY <1>7, <3>1, ApplyEffect, ValuesAssumption DEF HandlerReturns, Echoes, IInv
    <3>2. CASE ~Rebinds(r)
      <4>1. Decorated => stored[r] = Empty
        BY <3>2 DEF Rebinds
      <4>2. sentBy[r] = "none" => SameIds(response'[r], Empty)
        BY <1>7, <3>2 DEF HandlerReturns, IInv, TypeOK, SameIds, NoResponse, Empty
      <4> QED
        BY <4>1, <4>2
    <3> QED
      BY <3>1, <3>2
  <2>3. sentBy[r] = "app" => UNCHANGED response /\ Answered(r)
    BY <1>2, <1>7 DEF HandlerReturns
  <2>4. sentBy[r] \in {"none", "app"}
    BY <2>1 DEF IInv, TypeOK
  <2> QED
    BY <2>1, <2>2, <2>3, <2>4 DEF Answered, SameIds
<1>8. CASE HandlerRaises(r) \/ HandlerEnters(r)
  BY <1>2, <1>8 DEF HandlerRaises, HandlerEnters, GoTo, IInv, TypeOK, Answered, SameIds
<1>9. CASE Dispatch(r)
  BY <1>9 DEF Dispatch, GoTo, IInv, TypeOK, BeforeCall
<1>10. CASE Quiet(r)
  <2>1. CASE HandlerSends(r)
    <3>1. /\ UNCHANGED <<app, stored, access, response>>
          /\ pc[r] = "handled" /\ pc'[r] = "done"
          /\ sentBy'[r] = IF sentBy[r] = "none" THEN "handler" ELSE sentBy[r]
      BY <2>1 DEF HandlerSends, GoTo, IInv, TypeOK
    <3> QED
      BY <1>2, <3>1 DEF Answered, SameIds
  <2>2. CASE \E status \in Statuses : AppResponds(r, status)
    <3>1. pc[r] = "calling" /\ sentBy[r] = "none"
      BY <1>2, <2>2 DEF AppResponds, Answered, IInv, BeforeCall
    <3> QED
      BY <1>2, <2>2, <3>1 DEF AppResponds
  <2>3. CASE UpstreamRaises(r) \/ ReadBody(r) \/ AppEnds(r) \/ AppRaises(r)
             \/ SendStart(r) \/ StreamEnds(r) \/ StreamBreaks(r)
    <3>1. UNCHANGED <<stored, access, response>>
      BY <2>3 DEF UpstreamRaises, ReadBody, AppEnds, AppRaises, SendStart, StreamEnds,
         StreamBreaks
    <3> QED
      BY <1>2, <2>3, <3>1 DEF UpstreamRaises, ReadBody, AppEnds, AppRaises, SendStart,
         StreamEnds, StreamBreaks, GoTo, IInv, TypeOK, BeforeCall, Answered, SameIds
  <2> QED
    BY <1>10, <2>1, <2>2, <2>3 DEF Quiet
<1>11. CASE Updates(r) \/ AppLog(r) \/ HandlerLog(r) \/ log_unhandled_exception(r)
  <2>1. UNCHANGED <<pc, stored, access, response, sentBy>>
        /\ (app' = app \/ pc[r] = "calling")
    BY <1>11 DEF Updates, AppStart, AppEntersUpdate, AppLeavesUpdate, AppLog, HandlerLog,
       log_unhandled_exception
  <2> QED
    BY <1>2, <2>1 DEF Answered, SameIds
<1> QED
  BY <1>5, <1>6, <1>7, <1>8, <1>9, <1>10, <1>11, StepCases DEF Leaving

\* No step logs a call twice, and none leaves it unlogged.
LEMMA AccessStep == ASSUME IInv, NEW r \in Requests, Step(r) PROVE AccessOncePerCall'
<1> DEFINE Once(q) ==
        /\ Len(access[q]) <= 1
        /\ app[q] # "none" /\ pc[q] # "calling" =>
               Len(access[q]) = (IF AccessLogs THEN 1 ELSE 0)
<1>1. SUFFICES ASSUME NEW q \in Requests PROVE Once(q)'
  BY DEF AccessOncePerCall
<1>2. \A p \in Requests : Once(p)
  BY DEF IInv, AccessOncePerCall
<1>3. CASE q # r
  BY <1>2, <1>3, OthersUnchanged
<1>4. SUFFICES ASSUME q = r PROVE Once(r)'
  BY <1>3
<1>5. ASSUME NEW status \in Nat, Enters(r, status) PROVE Once(r)'
  BY <1>5 DEF Enters
<1>6. response[r].status \in Nat /\ NoStatus \in Nat
  BY EmptyMapping DEF IInv, TypeOK, Response
<1>7. CASE CallReturns(r) \/ CallRaises(r) \/ (Cancel(r) /\ pc[r] = "calling")
  <2>1. \E status \in Nat : pc[r] = "calling" /\ _log_access(r, status)
    BY <1>6, <1>7 DEF CallReturns, CallRaises, Cancel
  <2> QED
    BY <1>5, <2>1, AccessEffect
<1>8. ASSUME UNCHANGED access,
             pc[r] # "calling" \/ pc'[r] = "calling",
             app'[r] # "none" /\ pc'[r] # "calling" => app[r] # "none"
      PROVE  Once(r)'
  BY <1>2, <1>8
<1>9. CASE Quiet(r) \/ Dispatch(r) \/ BodyFails(r) \/ (Cancel(r) /\ pc[r] # "calling")
           \/ HandlerReturns(r) \/ HandlerRaises(r) \/ HandlerEnters(r)
  BY <1>8, <1>9 DEF Quiet, UpstreamRaises, ReadBody, AppEnds, AppRaises, AppResponds,
     SendStart, StreamEnds, StreamBreaks, HandlerSends, Dispatch, BodyFails, Cancel,
     HandlerReturns, HandlerRaises, HandlerEnters, GoTo, IInv, TypeOK, AfterCall
<1>10. CASE Updates(r) \/ AppLog(r) \/ HandlerLog(r) \/ log_unhandled_exception(r)
  BY <1>8, <1>10 DEF Updates, AppStart, AppEntersUpdate, AppLeavesUpdate, AppLog,
     HandlerLog, log_unhandled_exception, IInv, TypeOK
<1> QED
  BY <1>7, <1>9, <1>10, StepCases DEF Leaving

\* No step logs a record with another request's ids.
LEMMA IsolationStep == ASSUME IInv, NEW r \in Requests, Step(r) PROVE ContextIsolation'
<1> DEFINE Fine(e) ==
        \/ SameIds(e.ctx, stored[e.req])
        \/ e.event = "HANDLER" /\ ~Decorated /\ e.ctx = Empty
<1>1. \A e \in emitted : Fine(e) /\ e.req \in Requests
  BY DEF IInv, ContextIsolation, SameIds, TypeOK
<1>2. SUFFICES ASSUME NEW e \in emitted' PROVE Fine(e)'
  BY DEF ContextIsolation, SameIds
<1>3. ASSUME e \in emitted, stored'[e.req] = stored[e.req] PROVE Fine(e)'
  BY <1>1, <1>3 DEF SameIds
<1>4. CASE Dispatch(r)
  <2>1. CASE e \in emitted
    <3>1. e.req # r
      BY <1>4, <2>1 DEF Dispatch, IInv, BeforeCall
    <3> QED
      BY <1>1, <1>3, <2>1, <3>1, OthersUnchanged
  <2>2. CASE e \notin emitted
    BY <1>4, <2>2, DispatchEffect DEF Logs, SameIds
  <2> QED
    BY <2>1, <2>2
<1>5. CASE AppLog(r)
  <2>1. stored' = stored
    BY <1>5 DEF AppLog
  <2> QED
    BY <1>3, <1>5, <2>1, AppLogEffect DEF Logs, SameIds
<1>6. CASE HandlerLog(r) \/ log_unhandled_exception(r)
  <2>1. stored' = stored
    BY <1>6 DEF HandlerLog, log_unhandled_exception
  <2> QED
    BY <1>3, <1>6, <2>1, HandlerLogEffect DEF Logs, SameIds
<1>7. CASE Quiet(r) \/ Updates(r) \/ Leaving(r) \/ HandlerEnters(r)
  <2>1. stored' = stored /\ emitted' = emitted
    BY <1>7 DEF Quiet, UpstreamRaises, ReadBody, AppEnds, AppRaises, AppResponds,
       SendStart, StreamEnds, StreamBreaks, HandlerSends, Updates, AppStart,
       AppEntersUpdate, AppLeavesUpdate, Leaving, BodyFails, CallReturns, CallRaises,
       Cancel, HandlerReturns, HandlerRaises, HandlerEnters
  <2> QED
    BY <1>3, <2>1
<1> QED
  BY <1>4, <1>5, <1>6, <1>7, StepCases

\* Status codes on responses are those an endpoint or the handler answers with.
LEMMA StatusesStep == ASSUME IInv, NEW r \in Requests, Step(r) PROVE StatusesOK'
<1> DEFINE Fine(q) ==
        /\ pc[q] \notin {"handled", "done"} =>
               response[q].status \in Statuses \cup {NoStatus}
        /\ pc[q] = "handled" /\ sentBy[q] = "none" => response[q].status = ErrorStatus
<1>1. SUFFICES ASSUME NEW q \in Requests PROVE Fine(q)'
  BY DEF StatusesOK
<1>2. \A p \in Requests : Fine(p)
  BY DEF IInv, StatusesOK
<1>3. CASE q # r
  BY <1>2, <1>3, OthersUnchanged
<1>4. SUFFICES ASSUME q = r PROVE Fine(r)'
  BY <1>3
<1>5. CASE HandlerReturns(r)
  <2>1. pc'[r] = "handled" /\ sentBy' = sentBy
    BY <1>5 DEF HandlerReturns, GoTo, IInv, TypeOK
  <2>2. sentBy[r] = "none" => response'[r].status = ErrorStatus
    <3>1. CASE Rebinds(r)
      BY <1>5, <3>1, ApplyEffect, ValuesAssumption DEF HandlerReturns, Echoes, IInv
    <3>2. CASE ~Rebinds(r)
      BY <1>5, <3>2 DEF HandlerReturns, IInv, TypeOK, NoResponse
    <3> QED
      BY <3>1, <3>2
  <2> QED
    BY <2>1, <2>2
<1>6. CASE CallReturns(r)
  <2>1. response[r].status \in Nat
    BY DEF IInv, TypeOK, Response
  <2>2. response'[r].status = response[r].status
    BY <1>6, <2>1, ApplyEffect DEF CallReturns, Echoes, IInv
  <2> QED
    BY <1>2, <1>6, <2>2 DEF CallReturns, GoTo, IInv, TypeOK
<1>7. CASE \E status \in Statuses : AppResponds(r, status)
  <2>1. PICK status \in Statuses : AppResponds(r, status)
    BY <1>7
  <2>2. response'[r] = [response[r] EXCEPT !.status = status] /\ UNCHANGED <<pc, sentBy>>
    BY <2>1 DEF AppResponds, IInv, TypeOK
  <2>3. response[r] \in Response
    BY DEF IInv, TypeOK
  <2>4. response'[r].status = status
    BY <2>2, <2>3 DEF Response
  <2>5. pc[r] # "handled"
    BY <2>1 DEF AppResponds, IInv, AfterCall
  <2> QED
    BY <2>2, <2>4, <2>5
<1>8. CASE UNCHANGED response /\ pc'[r] # "handled"
           /\ (pc[r] \in {"handled", "done"} => pc'[r] \in {"handled", "done"})
  BY <1>2, <1>8
<1>9. CASE UNCHANGED <<pc, response, sentBy>>
  BY <1>2, <1>9
<1>10. CASE Dispatch(r) \/ HandlerEnters(r) \/ BodyFails(r) \/ CallRaises(r) \/ Cancel(r)
            \/ HandlerRaises(r)
  BY <1>8, <1>10 DEF Dispatch, HandlerEnters, BodyFails, CallRaises, Cancel, HandlerRaises,
     GoTo, IInv, TypeOK
<1>11. CASE UpstreamRaises(r) \/ ReadBody(r) \/ SendStart(r) \/ StreamEnds(r)
            \/ StreamBreaks(r) \/ HandlerSends(r)
  BY <1>8, <1>11 DEF UpstreamRaises, ReadBody, SendStart, StreamEnds, StreamBreaks,
     HandlerSends, GoTo, IInv, TypeOK
<1>12. CASE AppEnds(r) \/ AppRaises(r) \/ Updates(r) \/ AppLog(r) \/ HandlerLog(r)
            \/ log_unhandled_exception(r)
  BY <1>9, <1>12 DEF AppEnds, AppRaises, Updates, AppStart, AppEntersUpdate,
     AppLeavesUpdate, AppLog, HandlerLog, log_unhandled_exception
<1> QED
  BY <1>5, <1>6, <1>7, <1>10, <1>11, <1>12, StepCases DEF Leaving, Quiet

------------------------------------------------------------------------------
(* The theorems. *)

\* The inductive invariant holds before the first request arrives.
LEMMA Initialised == Init => IInv
<1> SUFFICES ASSUME Init PROVE IInv
  OBVIOUS
<1> USE RequestsAssumption, ValuesAssumption
<1>1. TypeOK
  BY DEF Init, TypeOK, Mapping, Empty, Response, NoResponse, Tasks, Stages, UNSET, NoStatus
<1>2. OneAtATime /\ ServerBinding /\ ServerClean
  BY DEF Init, OneAtATime, ServerBinding, ServerClean, Active, Bound, Tasks
<1>3. ChildContext /\ BeforeCall /\ AfterCall /\ StatusesOK
  BY DEF Init, ChildContext, BeforeCall, AfterCall, StatusesOK, NoResponse, Tasks
<1>4. AccessOncePerCall /\ ContextIsolation
  BY DEF Init, AccessOncePerCall, ContextIsolation
<1> QED
  BY <1>1, <1>2, <1>3, <1>4 DEF IInv

\* The inductive invariant is kept by every step.
LEMMA Preserved == IInv /\ [Next]_vars => IInv'
<1> SUFFICES ASSUME IInv, [Next]_vars PROVE IInv'
  OBVIOUS
<1>1. ASSUME NEW r \in Requests, Step(r) PROVE IInv'
  BY <1>1, TypeStep, OneAtATimeStep, ServerStep, ChildStep, BeforeStep, AfterStep,
     StatusesStep, AccessStep, IsolationStep DEF IInv
<1>2. CASE UNCHANGED vars
  <2> USE <1>2 DEF vars
  <2>1. TypeOK' /\ OneAtATime'
    BY DEF IInv, TypeOK, OneAtATime, Active
  <2>2. ServerBinding' /\ ServerClean'
    BY DEF IInv, ServerBinding, ServerClean, Bound, Rebinds
  <2>3. ChildContext'
    BY DEF IInv, ChildContext
  <2>4. BeforeCall' /\ StatusesOK' /\ AccessOncePerCall' /\ ContextIsolation'
    BY DEF IInv, BeforeCall, StatusesOK, AccessOncePerCall, ContextIsolation
  <2>5. AfterCall'
    BY DEF IInv, AfterCall, Answered, SameIds
  <2> QED
    BY <2>1, <2>2, <2>3, <2>4, <2>5 DEF IInv
<1> QED
  BY <1>1, <1>2 DEF Next, Step

\* The inductive invariant holds throughout: where each request is determines
\* what its tasks have bound, what was logged for it and what was answered.
THEOREM Invariance == Spec => []IInv
  BY Initialised, Preserved, PTL DEF Spec

\* All variables keep their types: a mapping is restored as it was bound, and a
\* task's stack of tokens is never popped when it is empty.
THEOREM Typing == Spec => []TypeOK
<1>1. IInv => TypeOK
  BY DEF IInv
<1> QED
  BY <1>1, Invariance, PTL

\* No record carries another request's ids, for every interleaving, every way a
\* request ends and every depth of update_context blocks.
THEOREM Isolation == Spec => []ContextIsolation
<1>1. IInv => ContextIsolation
  BY DEF IInv
<1> QED
  BY <1>1, Invariance, PTL

\* A server task has nothing bound outside dispatch and a decorated handler.
THEOREM TornDown == Spec => []ContextTornDown
<1>1. IInv => ContextTornDown
  BY DEF IInv, ServerClean, Bound, ContextTornDown
<1> QED
  BY <1>1, Invariance, PTL

\* Outside its update_context blocks an endpoint has its request's own context,
\* at every depth of nesting.
THEOREM Unwound == Spec => []UpdatesUnwind
<1>1. IInv => UpdatesUnwind
  BY DEF IInv, ChildContext, Restores, UpdatesUnwind
<1> QED
  BY <1>1, Invariance, PTL

\* A request whose endpoint was called has one access record when dispatch is left.
THEOREM OneRecord == Spec => []AccessOncePerCall
<1>1. IInv => AccessOncePerCall
  BY DEF IInv
<1> QED
  BY <1>1, Invariance, PTL

\* The endpoint's response reaches the client after its access record, which
\* has its status and the context the request came with.
THEOREM RecordFirst == Spec => []RecordPrecedesAnswer
<1>1. IInv => RecordPrecedesAnswer
  BY DEF IInv, AfterCall, Answered, RecordPrecedesAnswer
<1> QED
  BY <1>1, Invariance, PTL

\* The client gets the ids that are on the records.
THEOREM Echo == Spec => []EchoMatchesRecords
<1>1. IInv => EchoMatchesRecords
  BY DEF IInv, AfterCall, Answered, SameIds, EchoMatchesRecords
<1> QED
  BY <1>1, Invariance, PTL

------------------------------------------------------------------------------
(* The middleware implements the access ledger. *)

\* The middleware starts as the ledger starts.
LEMMA LedgerInitialised == Init => Ledger!Init
  BY DEF Init, Ledger!Init, LedgerStage, LedgerEntries, LedgerAnswered, NoStatus, Ledger!None

\* What a step of r makes of the ledger's variables.
Maps(r, s, e, a) ==
    /\ LedgerStage' = [LedgerStage EXCEPT ![r] = s]
    /\ LedgerEntries' = [LedgerEntries EXCEPT ![r] = e]
    /\ LedgerAnswered' = [LedgerAnswered EXCEPT ![r] = a]

\* A step of one request leaves the ledger's lines of the others alone.
LEMMA LedgerFrame ==
    ASSUME IInv, NEW r \in Requests, Step(r)
    PROVE  Maps(r, LedgerStage'[r], LedgerEntries'[r], LedgerAnswered'[r])
  BY OthersUnchanged DEF Maps, LedgerStage, LedgerEntries, LedgerAnswered

\* Each step of the middleware is a step of the ledger or a stutter.
LEMMA LedgerStep ==
    ASSUME IInv, NEW r \in Requests, Step(r)
    PROVE  [Ledger!Next]_(Ledger!ledgerVars)
<1> DEFINE stage == LedgerStage
           entries == LedgerEntries
           answered == LedgerAnswered
           SameStage == stage'[r] = stage[r]
           SameEntries == entries'[r] = entries[r]
           SameAnswered == answered'[r] = answered[r]
<1>1. /\ stage' = [stage EXCEPT ![r] = stage'[r]]
      /\ entries' = [entries EXCEPT ![r] = entries'[r]]
      /\ answered' = [answered EXCEPT ![r] = answered'[r]]
  BY LedgerFrame DEF Maps
<1>2. /\ SameStage => stage' = stage
      /\ SameEntries => entries' = entries
      /\ SameAnswered => answered' = answered
  <2>1. /\ stage = [q \in Requests |-> stage[q]]
        /\ entries = [q \in Requests |-> entries[q]]
        /\ answered = [q \in Requests |-> answered[q]]
    BY DEF LedgerStage, LedgerEntries, LedgerAnswered
  <2> HIDE DEF stage, entries, answered
  <2> QED
    BY <1>1, <2>1
<1>3. /\ stage[r] = CASE pc[r] \in {"new", "reading"} -> "waiting"
                      [] pc[r] = "calling" -> "open"
                      [] OTHER -> "closed"
      /\ stage'[r] = CASE pc'[r] \in {"new", "reading"} -> "waiting"
                      [] pc'[r] = "calling" -> "open"
                      [] OTHER -> "closed"
  BY DEF LedgerStage
<1>4. /\ entries[r] = [i \in 1 .. Len(access[r]) |-> access[r][i].status]
      /\ entries'[r] = [i \in 1 .. Len(access'[r]) |-> access'[r][i].status]
  BY DEF LedgerEntries
<1>5. /\ answered[r] = IF sentBy[r] = "none" THEN NoStatus ELSE response[r].status
      /\ answered'[r] = IF sentBy'[r] = "none" THEN NoStatus ELSE response'[r].status
  BY DEF LedgerAnswered
<1>6. UNCHANGED access => SameEntries
  BY <1>4
<1>7. UNCHANGED <<response, sentBy>> => SameAnswered
  BY <1>5
<1>8. ASSUME SameStage, SameEntries, SameAnswered
      PROVE  UNCHANGED <<stage, entries, answered>>
  BY <1>2, <1>8
<1>9. ASSUME stage[r] = "waiting", stage'[r] = "closed", SameEntries, SameAnswered
      PROVE  Ledger!Drop(r)
  BY <1>1, <1>2, <1>9 DEF Ledger!Drop
<1>10. ASSUME stage[r] = "waiting", stage'[r] = "open", SameEntries, SameAnswered
       PROVE  Ledger!Open(r)
  BY <1>1, <1>2, <1>10 DEF Ledger!Open
<1>11. ASSUME NEW status \in Statuses \cup {NoStatus}, stage[r] = "open", stage'[r] = "closed",
              access[r] = <<>>, Enters(r, status), SameAnswered
       PROVE  \E s \in Statuses \cup {Ledger!None} : Ledger!Close(r, s)
  <2>1. entries'[r] = IF AccessLogs THEN <<status>> ELSE entries[r]
    BY <1>4, <1>11 DEF Enters
  <2>2. Ledger!Close(r, status)
    BY <1>1, <1>2, <1>11, <2>1 DEF Ledger!Close
  <2> QED
    BY <2>2 DEF Ledger!None, NoStatus
<1>12. ASSUME NEW status \in Statuses \cup {ErrorStatus}, stage[r] = "closed",
              SameStage, SameEntries,
              answered[r] = NoStatus, answered'[r] = status,
              status = ErrorStatus \/ (AccessLogs => entries[r] = <<status>>)
       PROVE  \E s \in Statuses \cup {ErrorStatus} : Ledger!Answer(r, s)
  BY <1>1, <1>2, <1>12 DEF Ledger!Answer, Ledger!None, NoStatus
<1> HIDE DEF stage, entries, answered
<1>13. SUFFICES \/ UNCHANGED <<stage, entries, answered>>
                \/ Ledger!Drop(r) \/ Ledger!Open(r)
                \/ \E s \in Statuses \cup {Ledger!None} : Ledger!Close(r, s)
                \/ \E s \in Statuses \cup {ErrorStatus} : Ledger!Answer(r, s)
  BY DEF Ledger!Next, Ledger!ledgerVars, stage, entries, answered
<1>14. CASE Dispatch(r) \/ UpstreamRaises(r) \/ ReadBody(r) \/ BodyFails(r)
  BY <1>3, <1>6, <1>7, <1>8, <1>9, <1>10, <1>14 DEF Dispatch, UpstreamRaises, ReadBody,
     BodyFails, GoTo, IInv, TypeOK
<1>15. CASE CallReturns(r)
  <2> DEFINE status == response[r].status
  <2>1. status \in Statuses /\ status \in Nat
    BY <1>15 DEF CallReturns, IInv, StatusesOK, TypeOK, Response
  <2>2. access[r] = <<>> /\ sentBy[r] = "none" /\ Enters(r, status)
    BY <1>15, <2>1, AccessEffect DEF CallReturns, IInv, BeforeCall
  <2>3. stage[r] = "open" /\ stage'[r] = "closed" /\ sentBy' = sentBy
    BY <1>3, <1>15 DEF CallReturns, GoTo, IInv, TypeOK
  <2> QED
    BY <1>5, <1>11, <2>1, <2>2, <2>3
<1>16. CASE CallRaises(r) \/ (Cancel(r) /\ pc[r] = "calling")
  <2>1. access[r] = <<>> /\ Enters(r, NoStatus)
    BY <1>16, EmptyMapping, AccessEffect DEF CallRaises, Cancel, IInv, BeforeCall
  <2>2. stage[r] = "open" /\ stage'[r] = "closed" /\ UNCHANGED <<response, sentBy>>
    BY <1>3, <1>16 DEF CallRaises, Cancel, GoTo, IInv, TypeOK
  <2> QED
    BY <1>7, <1>11, <2>1, <2>2
<1>17. CASE Cancel(r) /\ pc[r] # "calling"
  BY <1>3, <1>6, <1>7, <1>8, <1>9, <1>17 DEF Cancel, GoTo, IInv, TypeOK
<1>18. CASE SendStart(r)
  <2> DEFINE status == response[r].status
  <2>1. /\ status \in Statuses
        /\ AccessLogs => access[r] = <<[status |-> status, ctx |-> stored[r]]>>
    BY <1>18 DEF SendStart, IInv, AfterCall, Answered, StatusesOK
  <2>2. AccessLogs => entries[r] = <<status>>
    <3>1. AccessLogs => Len(access[r]) = 1 /\ access[r][1].status = status
      BY <2>1
    <3> HIDE DEF status
    <3> QED
      BY <1>4, <3>1
  <2>3. sentBy[r] = "none" \/ sentBy[r] = "app"
    BY <1>18 DEF SendStart, IInv, TypeOK, AfterCall
  <2>4. /\ stage[r] = "closed" /\ SameStage /\ UNCHANGED <<access, response>>
        /\ sentBy'[r] = "app"
    BY <1>3, <1>18 DEF SendStart, GoTo, IInv, TypeOK
  <2>5. CASE sentBy[r] = "none"
    BY <1>5, <1>6, <1>12, <2>1, <2>2, <2>4, <2>5
  <2>6. CASE sentBy[r] = "app"
    BY <1>5, <1>6, <1>8, <2>4, <2>6
  <2> QED
    BY <2>3, <2>5, <2>6
<1>19. CASE HandlerSends(r)
  <2>1. /\ stage[r] = "closed" /\ SameStage /\ UNCHANGED <<access, response>>
        /\ sentBy'[r] = IF sentBy[r] = "none" THEN "handler" ELSE sentBy[r]
    BY <1>3, <1>19 DEF HandlerSends, GoTo, IInv, TypeOK
  <2>2. sentBy[r] = "none" => response[r].status = ErrorStatus
    BY <1>19 DEF HandlerSends, IInv, StatusesOK
  <2>3. CASE sentBy[r] = "none"
    BY <1>5, <1>6, <1>12, <2>1, <2>2, <2>3
  <2>4. CASE sentBy[r] # "none"
    BY <1>5, <1>6, <1>8, <2>1, <2>4
  <2> QED
    BY <2>3, <2>4
<1>20. CASE HandlerReturns(r)
  <2>1. SameStage /\ UNCHANGED <<access, sentBy>> /\ (sentBy[r] # "none" => UNCHANGED response)
    BY <1>3, <1>20 DEF HandlerReturns, GoTo, IInv, TypeOK
  <2> QED
    BY <1>5, <1>6, <1>8, <2>1
<1>21. CASE StreamEnds(r) \/ StreamBreaks(r) \/ HandlerEnters(r) \/ HandlerRaises(r)
  BY <1>3, <1>6, <1>7, <1>8, <1>21 DEF StreamEnds, StreamBreaks, HandlerEnters,
     HandlerRaises, GoTo, IInv, TypeOK
<1>22. CASE \E status \in Statuses : AppResponds(r, status)
  <2>1. pc[r] = "calling" /\ sentBy[r] = "none" /\ UNCHANGED <<pc, access, sentBy>>
    BY <1>22 DEF AppResponds, IInv, AfterCall, Answered, BeforeCall
  <2> QED
    BY <1>3, <1>5, <1>6, <1>8, <2>1
<1>23. CASE AppEnds(r) \/ AppRaises(r) \/ Updates(r) \/ AppLog(r) \/ HandlerLog(r)
            \/ log_unhandled_exception(r)
  <2>1. UNCHANGED <<pc, access, response, sentBy>>
    BY <1>23 DEF AppEnds, AppRaises, Updates, AppStart, AppEntersUpdate, AppLeavesUpdate,
       AppLog, HandlerLog, log_unhandled_exception
  <2> QED
    BY <1>3, <1>6, <1>7, <1>8, <2>1
<1> QED
  BY <1>14, <1>15, <1>16, <1>17, <1>18, <1>19, <1>20, <1>21, <1>22, <1>23, StepCases
     DEF Leaving, Quiet

\* Every behaviour of the middleware is one of the access ledger: an entry for
\* each call, written once and before the answer it agrees with.
THEOREM Implementation == Spec => ImplementsLedger
<1>1. IInv /\ [Next]_vars => [Ledger!Next]_(Ledger!ledgerVars)
  <2> SUFFICES ASSUME IInv, [Next]_vars PROVE [Ledger!Next]_(Ledger!ledgerVars)
    OBVIOUS
  <2>1. CASE UNCHANGED vars
    BY <2>1 DEF vars, Ledger!ledgerVars, LedgerStage, LedgerEntries, LedgerAnswered
  <2> QED
    BY <2>1, LedgerStep DEF Next, Step
<1> QED
  BY <1>1, LedgerInitialised, Invariance, PTL DEF Spec, ImplementsLedger, Ledger!Spec
================================================================================
