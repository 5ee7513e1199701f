---------------------------- MODULE MCTaskBroker ----------------------------
(* Instances of TaskBroker: the registration options stand for the kinds of  *)
(* skill the plugins register.                                               *)
EXTENDS TaskBroker

Remote(gates, level) == [gate |-> gates, scoped |-> TRUE, level |-> level]

Option(local, http, bridge, remote, telemetry) ==
    [localOnly |-> local, httpExposed |-> http, httpBridgeOnly |-> bridge,
     remote |-> remote, telemetry |-> telemetry]

\* a public read, an action for contacts and pass holders that approved agents
\* may call, a read closed to agents, an operator privilege of the HTTP bridge,
\* and a contradiction that registerSkill refuses
MixedOptions ==
    {Option(FALSE, FALSE, FALSE, Remote({"any"}, "telemetry"), TRUE),
     Option(FALSE, TRUE, FALSE, Remote({"verified-contact", "access-pass"}, "approved"), FALSE),
     Option(FALSE, FALSE, FALSE, Remote({"access-pass", "any"}, "never"), FALSE),
     Option(TRUE, FALSE, TRUE, NoPolicy, FALSE),
     Option(FALSE, FALSE, TRUE, NoPolicy, FALSE)}
=============================================================================
