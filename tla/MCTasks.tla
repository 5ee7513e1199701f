------------------------------ MODULE MCTasks ------------------------------
(* Instance of the plugins that keep documents: a behaviour is one of the two  *)
(* parts (scene) and not their product.                                        *)
(* Tasks: three tasks, so that a child can wait for a task outside its parent's *)
(* subtree, and two operations under way.                                      *)
(* Documents: two documents of a plugin and three skill calls, two of them in   *)
(* one process and the third in another.                                       *)
EXTENDS Tasks, TLC

CONSTANTS s1, s2, s3, rA, rB

VARIABLE scene

Processes == (s1 :> rA) @@ (s2 :> rA) @@ (s3 :> rB)

allvars == <<tasksVars, documents, scene>>

InitParts ==
    /\ InitTasks /\ InitDocuments
    /\ scene \in {"tasks", "documents"}
    /\ scene = "tasks" => plugin = "paint" /\ \A k \in Keys : file[k] = Nothing
    /\ scene = "documents" => DOMAIN doc.tasks = {}

NextParts ==
    \/ scene = "tasks" /\ UNCHANGED <<documents, scene>> /\ TasksStep
    \/ scene = "documents" /\ UNCHANGED <<tasksVars, scene>> /\ DocumentsStep

SpecParts == InitParts /\ [][NextParts]_allvars

Symmetry == Permutations(Ids) \cup Permutations(Ops)

\* Bound: operations overlap while the project is small; one alone works on a
\* project of three tasks.  Two calls of skills are under way, with two objects in
\* the documents and in what the calls hold of them.
SmallWhenBusy ==
    /\ Cardinality(DOMAIN doc.tasks) < 3 \/ Cardinality({o \in Ops : ops[o].step # "idle"}) < 2
    /\ Cardinality({s \in Skills : under[s].step # "idle"}) < 3
    /\ Cardinality({o \in Objects : ~Unused(o)}) < 3

=============================================================================
