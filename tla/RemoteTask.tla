----------------------------- MODULE RemoteTask -----------------------------
(* What a transport promises to the caller of sendTask, whatever becomes of   *)
(* its connections, of the peer or of this node: the peer runs the task once   *)
(* at the most, a caller that is told "ok" has had it run, and every caller is *)
(* told something.  A caller that was told "failed" knows nothing: the task    *)
(* may have run, or be about to.                                              *)
EXTENDS Naturals

CONSTANT Tasks

VARIABLES told,   \* per task, what its caller was told
          runs    \* per task, how often a handler ran for it

vars == <<told, runs>>

Init == told = [t \in Tasks |-> "nothing"] /\ runs = [t \in Tasks |-> 0]

Call(t) ==
    /\ told[t] = "nothing"
    /\ told' = [told EXCEPT ![t] = "wait"]
    /\ UNCHANGED runs

Run(t) ==
    /\ told[t] \in {"wait", "failed"} /\ runs[t] = 0
    /\ runs' = [runs EXCEPT ![t] = 1]
    /\ UNCHANGED told

Succeed(t) ==
    /\ told[t] = "wait" /\ runs[t] = 1
    /\ told' = [told EXCEPT ![t] = "ok"]
    /\ UNCHANGED runs

Fail(t) ==
    /\ told[t] \in {"nothing", "wait"}
    /\ told' = [told EXCEPT ![t] = "failed"]
    /\ UNCHANGED runs

Next == \E t \in Tasks : Call(t) \/ Run(t) \/ Succeed(t) \/ Fail(t)

Settle == \E t \in Tasks : told[t] = "wait" /\ (Succeed(t) \/ Fail(t))

\* What never happens, whatever the transport waits for.
Safety == Init /\ [][Next]_vars

\* Every task is called once: as long as one waits, one more is settled.
Spec == Safety /\ WF_vars(Settle)

=============================================================================
