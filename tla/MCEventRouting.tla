---------------------------- MODULE MCEventRouting ----------------------------
(* Instances of EventRouting: an application's catalogue and its wiring. *)
EXTENDS EventRouting, TLC

CONSTANTS t1, t2, t3

Symmetry == Permutations(Threads)

MCRoot == <<"app">>
MCLoggers == {<<"app", "api">>, <<"app", "access">>, <<"inject">>, <<"application">>}
MCPayloads == {{"shutdown_reason", "last_exception_type"}, {"status_code", "body"},
               {"message"}, {"ip"}}

\* Two of the library's events and three of the application's: two without
\* an allow-list, of which one is of the lowest level, and one for the inspection
\* stream with a context field on its allow-list.
MCCatalogue ==
    [e \in {"SYS_APP_STOPPED", "ACCESS_REQUEST"} |-> DefaultEventCatalogue[e]]
      @@ ("ANY" :> event(INFO, {"SIEM"}, [s \in {} |-> {}]))
      @@ ("DETAIL" :> event(DEBUG, {"APP"}, [s \in {} |-> {}]))
      @@ ("DATA" :> add_fields(event(INFO, {"PUBLIC_INSPECT"}, [PUBLIC_INSPECT |-> {"body"}]),
                               [PUBLIC_INSPECT |-> {"tenant"}]))

\* An allow-list for a stream the event does not name.
MCUndeclared ==
    [MCCatalogue EXCEPT !["DATA"] = add_fields(@, [SIEM |-> {"status_code"}])]
================================================================================
