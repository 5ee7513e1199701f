------------------------------- MODULE Tasks -------------------------------
(* The tasks plugin: one project document with its task tree, dependency   *)
(* graph and delegations (src/plugins/tasks).                               *)
(* Every mutation, of the owner or of a member over the network, is an      *)
(* operation of the project's FIFO queue: it loads the document, checks,    *)
(* writes it back and tells the subscribers, with awaits in between; the    *)
(* process may die at any of them.  A request is chosen when it is applied: *)
(* until then nothing depends on what it asks.                              *)
(*                                                                          *)
(* Names, dates, hours, budget, note, time entries and the proof of a       *)
(* completion are data no guard reads; where an operation changes nothing   *)
(* else, it writes the document back as it was.  The status "open" stands   *)
(* for todo, for blocked and for the status a member's UPDATE_STATUS        *)
(* without a status erases: every guard only asks for "done".  mutationSeq  *)
(* is the number of saves.                                                  *)
EXTENDS Documents, Naturals, Sequences, FiniteSets, FiniteSetsExt

CONSTANTS Ids,      \* the tasks a project may come to hold
          Owner,    \* the peer that created the project
          Others,   \* the peers that may become members
          Ops,      \* the operations that may be under way together
          NoTask,   \* no parent
          NoPeer,   \* nobody is delegated to
          NoDoc,    \* an operation has loaded nothing
          Absent,   \* a v1.0 task has no field `dependencies`
          MaxDelegated  \* bound: tasks of the project that are delegated

VARIABLES
    doc,     \* the project as stored
    ops,     \* per operation: its step, whom it serves, the document it loaded
    queue    \* the operations of the project in arrival order, the running one first

tasksVars == <<doc, ops, queue>>

Peers    == {Owner} \cup Others
Statuses == {"open", "in-progress", "done"}

Task == [status  : Statuses,
         parent  : Ids \cup {NoTask},
         deps    : (SUBSET Ids) \cup {Absent},
         preds   : SUBSET Ids,
         to      : Others \cup {NoPeer},
         handshake : {"none", "pending", "accepted", "declined"}]

Doc == [tasks : UNION {[S -> Task] : S \in SUBSET Ids}, members : SUBSET Peers]

TasksTypeOK ==
    /\ doc.members \subseteq Peers /\ DOMAIN doc.tasks \subseteq Ids
    /\ \A i \in DOMAIN doc.tasks : doc.tasks[i] \in Task
    /\ queue \in Seq(Ops)
    /\ \A o \in Ops :
          /\ ops[o].step \in {"idle", "queued", "loaded", "known", "saved"}
          /\ ops[o].by \in Peers

----------------------------------------------------------------------------
(* The document and its graphs.                                             *)

NewTask(parent, status) ==
    [status |-> status, parent |-> parent, deps |-> {}, preds |-> {},
     to |-> NoPeer, handshake |-> "none"]

dependenciesOf(t) == IF t.deps = Absent THEN t.preds ELSE t.deps

\* The sets that the edges next do not lead out of.
ShutSets(next) == {S \in SUBSET DOMAIN next : \A x \in S : next[x] \subseteq S}

\* What is reached from a set, the set included: all that those that hold it share.
Closure(next, from) ==
    LET above == {S \in ShutSets(next) : from \subseteq S}
    IN {x \in DOMAIN next : \A S \in above : x \in S}

\* No task is reached from what it leads to.
Acyclic(next) ==
    LET shut == ShutSets(next)
    IN \A x \in DOMAIN next : \E S \in shut : next[x] \subseteq S /\ x \notin S

PredecessorGraph(d) == [i \in DOMAIN d.tasks |-> d.tasks[i].preds]
DependencyGraph(d)  == [i \in DOMAIN d.tasks |-> dependenciesOf(d.tasks[i])]
ParentGraph(d)      == [i \in DOMAIN d.tasks |-> {d.tasks[i].parent} \ {NoTask}]

childrenOf(d) ==
    [i \in DOMAIN d.tasks |-> {j \in DOMAIN d.tasks : d.tasks[j].parent = i}]

Subtree(d, i) == Closure(childrenOf(d), {i})

syncDependencyFields(d, i, ids) ==
    [d EXCEPT !.tasks[i].deps = ids, !.tasks[i].preds = ids]

\* Mutant: only the new predecessor's own predecessors are looked at.
wouldCreateCycleNear(d, i, p) == i = p \/ i \in d.tasks[p].preds

wouldCreateCycle(d, i, p) == i \in Closure(PredecessorGraph(d), {p})

wouldCreateDependencyCycle(d, i, ids) ==
    ~Acyclic([DependencyGraph(d) EXCEPT ![i] = ids])

wouldCreateParentCycle(d, i, parent) ==
    parent # NoTask /\ i \in Closure(ParentGraph(d), {parent})

blockingDependencies(d, i) ==
    {j \in dependenciesOf(d.tasks[i]) : d.tasks[j].status # "done"}

assertCanStart(d, i) == blockingDependencies(d, i) = {}

\* Mutant: only the task itself is asked, not the descendants that follow it.
assertCanCompleteAlone(d, i) == blockingDependencies(d, i) = {}

assertCanComplete(d, i) == \A j \in Subtree(d, i) : blockingDependencies(d, j) = {}

MayTake(d, i, status) ==
    /\ status = "in-progress" => assertCanStart(d, i)
    /\ status = "done" => assertCanComplete(d, i)

\* The descendants of i follow it to done.
cascadeDone(d, i, status) ==
    IF status # "done" THEN d
    ELSE LET followers == Subtree(d, i) \ {i}
         IN [d EXCEPT !.tasks = [j \in DOMAIN @ |->
               IF j \in followers THEN [@[j] EXCEPT !.status = "done"] ELSE @[j]]]

\* What calculateCriticalPath is given of a task, and the weight of the longest
\* chain it finds, each task weighing 1 (no duration and no estimate).
taskLikeOf(t) == IF t.deps = Absent THEN {} ELSE t.deps

calculateCriticalPath(d) ==
    LET longestFrom[i \in DOMAIN d.tasks] ==
          1 + Max({0} \cup {longestFrom[j] : j \in taskLikeOf(d.tasks[i])})
    IN Max({0} \cup {longestFrom[i] : i \in DOMAIN d.tasks})

Added(d, i, t) ==
    [d EXCEPT !.tasks = [j \in DOMAIN @ \cup {i} |-> IF j = i THEN t ELSE @[j]]]

----------------------------------------------------------------------------
(* The queue of the project.                                                *)

Idle == [step |-> "idle", by |-> Owner, doc |-> NoDoc]

\* createProject, or a project of v1.0: j was made to wait for i.
NewProject == [tasks |-> << >>, members |-> {Owner}]

LegacyProject(i, j) ==
    [tasks |-> [k \in {i, j} |->
        [NewTask(NoTask, "open") EXCEPT !.deps = Absent,
                                        !.preds = IF k = j THEN {i} ELSE {}]],
     members |-> {Owner}]

InitTasks ==
    /\ doc \in {NewProject} \cup {LegacyProject(p[1], p[2]) :
                                    p \in {q \in Ids \X Ids : q[1] # q[2]}}
    /\ ops = [o \in Ops |-> Idle]
    /\ queue = << >>

Enqueue(o) ==
    /\ ops[o].step = "idle"
    /\ ops' = [ops EXCEPT ![o].step = "queued"]
    /\ queue' = Append(queue, o)
    /\ UNCHANGED doc

\* Mutant: an entry does not wait for the one before it.
MyTurnAtOnce(o) == queue # << >> /\ o \in Ops

\* An entry runs when the one before it has settled, well or badly.
MyTurn(o) == queue # << >> /\ Head(queue) = o

\* Only the first entry runs, so it is the first that settles.
Settle(o) ==
    /\ ops' = [ops EXCEPT ![o] = Idle]
    /\ queue' = Tail(queue)

\* The document is read; a sender that is no member is turned away.
Load(o) ==
    /\ ops[o].step = "queued" /\ MyTurn(o)
    /\ \E p \in {Owner} \cup doc.members :
          ops' = [ops EXCEPT ![o] = [step |-> "loaded", by |-> p, doc |-> doc]]
    /\ UNCHANGED <<doc, queue>>

\* ctx.trust answers that the sender is a contact and not blocked.
SenderKnown(o) ==
    /\ ops[o].step = "loaded" /\ ops[o].by # Owner
    /\ ops' = [ops EXCEPT ![o].step = "known"]
    /\ UNCHANGED <<doc, queue>>

\* Whatever a check refuses, the trust look-up included, leaves nothing behind.
Refuse(o) ==
    /\ ops[o].step \in {"loaded", "known"} \/ (ops[o].step = "queued" /\ MyTurn(o))
    /\ Settle(o)
    /\ UNCHANGED doc

\* saveProject of the document the operation changed in its memory.
Save(o, d) ==
    /\ doc' = d
    /\ ops' = [ops EXCEPT ![o] = [@ EXCEPT !.step = "saved", !.doc = NoDoc]]
    /\ UNCHANGED queue

\* The hook and the remote topic are told of what is stored; neither can fail it.
afterMutation(o) ==
    /\ ops[o].step = "saved"
    /\ Settle(o)
    /\ UNCHANGED doc

TasksCrash ==
    /\ queue # << >>
    /\ ops' = [o \in Ops |-> Idle]
    /\ queue' = << >>
    /\ UNCHANGED doc

----------------------------------------------------------------------------
(* The owner's mutations, of the document d the operation loaded.           *)

OwnerRuns(o) == ops[o].step = "loaded" /\ ops[o].by = Owner

AddTask(o) ==
    /\ OwnerRuns(o)
    /\ LET d == ops[o].doc IN
       \E i \in Ids \ DOMAIN d.tasks, parent \in DOMAIN d.tasks \cup {NoTask}, s \in Statuses :
          Save(o, Added(d, i, NewTask(parent, s)))

\* Status and parent are set before the dependencies are asked.
UpdateTask(o) ==
    /\ OwnerRuns(o)
    /\ LET d == ops[o].doc IN
       \E i \in DOMAIN d.tasks : \E parent \in DOMAIN d.tasks \cup {NoTask, d.tasks[i].parent} :
          /\ parent # d.tasks[i].parent => ~wouldCreateParentCycle(d, i, parent)
          /\ \E s \in Statuses \cup {"same"} :
                LET moved == [d EXCEPT !.tasks[i].status = IF s = "same" THEN @ ELSE s,
                                       !.tasks[i].parent = parent]
                IN MayTake(moved, i, s) /\ Save(o, cascadeDone(moved, i, s))

SetDependency(o) ==
    /\ OwnerRuns(o)
    /\ LET d == ops[o].doc IN
       \E i, p \in DOMAIN d.tasks :
          /\ p \in d.tasks[i].preds \/ ~wouldCreateCycle(d, i, p)
          /\ Save(o, syncDependencyFields(d, i, d.tasks[i].preds \cup {p}))

NewDependencies(o, d) ==
    \E i \in DOMAIN d.tasks : \E ids \in SUBSET (DOMAIN d.tasks \ {i}) :
       /\ ~wouldCreateDependencyCycle(d, i, ids)
       /\ Save(o, syncDependencyFields(d, i, ids))

SetDependencies(o) == OwnerRuns(o) /\ NewDependencies(o, ops[o].doc)

DelegateTask(o) ==
    /\ OwnerRuns(o)
    /\ LET d == ops[o].doc IN
       \E i \in DOMAIN d.tasks, p \in Others :
          /\ Cardinality({j \in DOMAIN d.tasks \ {i} : d.tasks[j].to # NoPeer}) < MaxDelegated
          /\ Save(o, [d EXCEPT !.members = @ \cup {p}, !.tasks[i].to = p,
                               !.tasks[i].handshake = "pending"])

AddMember(o) ==
    /\ OwnerRuns(o)
    /\ \E p \in Others : Save(o, [ops[o].doc EXCEPT !.members = @ \cup {p}])

\* assignResource, updateBudget, attachNote: data only.
AttachData(o) == OwnerRuns(o) /\ Save(o, ops[o].doc)

----------------------------------------------------------------------------
(* What a member may ask of the owner: applyRequestMutation.                *)

MemberRuns(o) == ops[o].step = "known"

CreateSubtask(o) ==
    /\ MemberRuns(o)
    /\ LET d == ops[o].doc IN
       \E i \in Ids \ DOMAIN d.tasks, parent \in DOMAIN d.tasks, s \in Statuses :
          Save(o, Added(d, i, NewTask(parent, s)))

MoveTask(o) ==
    /\ MemberRuns(o)
    /\ LET d == ops[o].doc IN
       \E i \in DOMAIN d.tasks, parent \in DOMAIN d.tasks \cup {NoTask} :
          /\ ~wouldCreateParentCycle(d, i, parent)
          /\ Save(o, [d EXCEPT !.tasks[i].parent = parent])

\* Here the dependencies are asked before the status is set.
UpdateStatus(o) ==
    /\ MemberRuns(o)
    /\ LET d == ops[o].doc IN
       \E i \in DOMAIN d.tasks, s \in Statuses :
          /\ MayTake(d, i, s)
          /\ Save(o, cascadeDone([d EXCEPT !.tasks[i].status = s], i, s))

LogTime(o) ==
    /\ MemberRuns(o)
    /\ DOMAIN ops[o].doc.tasks # {}
    /\ Save(o, ops[o].doc)

delegateeOf(d, i, handshake, p) ==
    d.tasks[i].to = p /\ d.tasks[i].handshake = handshake

AnswerDelegation(o) ==
    /\ MemberRuns(o)
    /\ LET d == ops[o].doc IN
       \E i \in DOMAIN d.tasks, answer \in {"accepted", "declined"} :
          /\ delegateeOf(d, i, "pending", ops[o].by)
          /\ Save(o, [d EXCEPT !.tasks[i].handshake = answer])

\* The proof is signed by the sender over this task, project and time.
SubmitCompletionProof(o) ==
    /\ MemberRuns(o)
    /\ LET d == ops[o].doc IN
       \E i \in DOMAIN d.tasks :
          /\ delegateeOf(d, i, "accepted", ops[o].by)
          /\ assertCanComplete(d, i)
          /\ Save(o, cascadeDone([d EXCEPT !.tasks[i].status = "done"], i, "done"))

RequestDependencies(o) == MemberRuns(o) /\ NewDependencies(o, ops[o].doc)

TasksStep ==
    \/ TasksCrash
    \/ \E o \in Ops :
          \/ Enqueue(o) \/ Load(o) \/ SenderKnown(o) \/ Refuse(o) \/ afterMutation(o)
          \/ AddTask(o) \/ UpdateTask(o) \/ SetDependency(o) \/ SetDependencies(o)
          \/ DelegateTask(o) \/ AddMember(o) \/ AttachData(o)
          \/ CreateSubtask(o) \/ MoveTask(o) \/ UpdateStatus(o) \/ LogTime(o)
          \/ AnswerDelegation(o) \/ SubmitCompletionProof(o) \/ RequestDependencies(o)

TasksSpec == InitTasks /\ [][TasksStep]_tasksVars

----------------------------------------------------------------------------
LongestChain(graph) ==
    LET after == [j \in DOMAIN graph |-> Closure(graph, {j})]
        Chain(S) == \A i, j \in S : i \in after[j] \/ j \in after[i]
    IN Max({Cardinality(S) : S \in {C \in SUBSET DOMAIN graph : Chain(C)}})

\* Neither dependencies nor parents form a cycle, whichever of the five write paths
\* changed them.
NoCycle == Acyclic(DependencyGraph(doc)) /\ Acyclic(ParentGraph(doc))

\* The block-list and the MSPDI predecessors are one graph.
OneGraph == DependencyGraph(doc) = PredecessorGraph(doc)

\* The critical path is the longest chain of tasks that wait for each other, once no
\* task of v1.0 is left.
PathIsLongest ==
    (\A i \in DOMAIN doc.tasks : doc.tasks[i].deps # Absent)
       => calculateCriticalPath(doc) = LongestChain(DependencyGraph(doc))

\* A task that becomes in-progress or done, itself or by the cascade from an
\* ancestor, has only done dependencies: on the owner's path and the members'.
DoneInOrder ==
    [][\A i \in DOMAIN doc'.tasks :
          LET now == doc'.tasks[i].status
              was == IF i \in DOMAIN doc.tasks THEN doc.tasks[i].status ELSE "open"
          IN now \in {"in-progress", "done"} /\ now # was
                => \A j \in dependenciesOf(doc'.tasks[i]) : doc'.tasks[j].status = "done"]_doc

\* The order of the work is one partial order, and no task is ahead of it.
WorkIsOrdered == [](NoCycle /\ OneGraph /\ PathIsLongest) /\ DoneInOrder

\* No mutation is lost: what an operation writes back was made of the document
\* as it then is, though it was read some awaits before.
ProjectKept ==
    [][\A o \in Ops : ops[o].step \in {"loaded", "known"} /\ ops'[o].step = "saved"
          => ops[o].doc = doc]_tasksVars

\* No mutation is lost: in the tasks plugin, with its queue per project, none of the
\* project; in the plugins that have only the queue and the lock of their file
\* (core/src/storage/queue.ts enqueue), none of another document, and the one that
\* is written stays whole, though it may undo a call on the same document.
NoMutationLost == ProjectKept /\ DocumentsKept

=============================================================================
