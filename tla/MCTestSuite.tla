------------------------------ MODULE MCTestSuite ------------------------------
(* A suite over nine calls of configure(), for TLC. *)
EXTENDS TestSuite, TLC

Symmetry == Permutations(CaptureIds)

MCLineage ==
    [l \in {"root"} |-> <<"root">>]
      @@ ("app" :> <<"app", "root">>) @@ ("app.api" :> <<"app.api", "app", "root">>)
      @@ ("svc" :> <<"svc", "root">>) @@ ("inject" :> <<"inject", "root">>)
      @@ ("uvicorn" :> <<"uvicorn", "root">>)
      @@ ("uvicorn.error" :> <<"uvicorn.error", "uvicorn", "root">>)
      @@ ("uvicorn.access" :> <<"uvicorn.access", "uvicorn", "root">>)

Event(id) == [event_id |-> id, fields |-> {"version"}]
EventCatalogue == [n \in {} |-> NotEvent]
DefaultEventCatalogue ==
    [n \in REQUIRED_EVENTS |-> Event(IF n = "ACCESS_REQUEST" THEN "100" ELSE "")]
Numbered == [n \in REQUIRED_EVENTS \ {"ACCESS_REQUEST"} |-> Event("1")]

\* A full catalogue, one without access event, one that takes the access event
\* back, one that keeps ids unset, one with a reserved field, one with a context
\* field declared twice.
Cat(bodies, names) == [mro |-> bodies \o <<EventCatalogue>>, context_fields |-> names]
Full == Cat(<<Numbered, DefaultEventCatalogue>>, <<"tenant_id">>)
NoAccess == Cat(<<Numbered>>, <<>>)
TakenBack == Cat(<<"ACCESS_REQUEST" :> NotEvent, Numbered, DefaultEventCatalogue>>, <<"caller_id">>)
Unset == Cat(<<[n \in {"SYS_APP_STARTED"} |-> Event("1")], DefaultEventCatalogue>>, <<>>)
Reserved == Cat(<<"OWN" :> [event_id |-> "7", fields |-> {"message"}], Numbered, DefaultEventCatalogue>>, <<>>)
Twice == Cat(<<Numbered, DefaultEventCatalogue>>, <<"caller_id", "caller_id">>)

Call(cat, access, root, names, syslog) ==
    [catalogue |-> cat, access_logs |-> access, logger_root |-> root, handlers |-> names,
     syslog_path |-> syslog, strict_fields |-> access, loglevel |-> IF access THEN 20 ELSE 10]
Console == {"console_app", "console_debug"}

MCArgs ==
    ("full" :> Call(Full, TRUE, "app", Console, FALSE))
      @@ ("renamed" :> Call(NoAccess, FALSE, "svc", {"syslog_app", "syslog_debug"}, TRUE))
      @@ ("taken_back" :> Call(TakenBack, FALSE, "app", {"console_app"}, FALSE))
      @@ ("no_event" :> Call(TakenBack, TRUE, "app", Console, FALSE))
      @@ ("unset" :> Call(Unset, TRUE, "app", Console, FALSE))
      @@ ("reserved" :> Call(Reserved, TRUE, "app", Console, FALSE))
      @@ ("twice" :> Call(Twice, TRUE, "app", Console, FALSE))
      @@ ("bad_root" :> Call(Full, TRUE, "svc.", Console, FALSE))
      @@ ("bad_stream" :> Call(Full, TRUE, "svc", {"console_nonsense"}, FALSE))

MCLoggerNames == {{}, {"app"}, {"app.api", "uvicorn.error"}}
================================================================================
