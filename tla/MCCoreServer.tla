---------------------------- MODULE MCCoreServer ----------------------------
(* Instances of CoreServer.  A first run may crash at each write of the pair; *)
(* with an existing vault the event layer asks for the identity as well.     *)
EXTENDS CoreServer, TLC

CONSTANTS r1, r2, p1, p2, p3, p4, p5, p6, right, wrong

Sealed == [s \in Secrets |-> [pair |-> 1, key |-> right]]

FirstRun == [vault |-> NoSecrets, made |-> 0, events |-> FALSE, crash |-> TRUE,
             wan |-> TRUE, requests |-> {r1}]
LaterRun == [vault |-> Sealed, made |-> 1, events |-> TRUE, crash |-> TRUE,
             wan |-> TRUE, requests |-> {r1}]
Together == [LaterRun EXCEPT !.wan = FALSE, !.requests = {r1, r2}]

Every == {FirstRun, LaterRun, Together}
JustFirst == {[FirstRun EXCEPT !.events = TRUE]}
JustLater == {LaterRun}

AllCallers == Requests \union {"main", "events"}
=============================================================================
