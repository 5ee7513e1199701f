------------------------------- MODULE Mutex -------------------------------
(* What a cross-process lock promises its callers: at most one process is    *)
(* inside the protected section, a process leaves only by its own step (its  *)
(* return or its death), and nothing else is said about how it is built.     *)
CONSTANT Procs    \* the operating system processes that share one storage path

VARIABLE inside   \* the processes that run the protected callback

Init == inside = {}

Enter(p) == inside = {} /\ inside' = {p}

Leave(p) == p \in inside /\ inside' = inside \ {p}

Next == \E p \in Procs : Enter(p) \/ Leave(p)

Spec == Init /\ [][Next]_inside
=============================================================================
