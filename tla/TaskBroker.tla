----------------------------- MODULE TaskBroker -----------------------------
(* TaskBroker (core/src/task-broker/task-broker.ts) with the gates it        *)
(* consults: the skill registry, the agent registry, the per-peer permission *)
(* matrix, the contact and access-pass lookups of checkPeerAccess, the human *)
(* approval, the telemetry cap, the per-peer budget and the capacity limit.  *)
(* Every await of `execute` ends a step: registrations, grants and           *)
(* revocations, and the other tasks, interleave there.  The record of the    *)
(* skill is the one looked up on arrival, as in the code.                    *)
EXTENDS Integers, FiniteSets

CONSTANTS
    Peers,               \* transport-verified peer ids
    Anonymous,           \* a network caller without a peer id; the local callers
    Skills,              \* skill names
    Tasks,               \* concurrent execute() calls
    Options,             \* the SkillRegistrationOptions plugins register with
    NoSkill,             \* no record in the registry
    NoPolicy,            \* options.remote is undefined
    MaxConcurrentTasks,  \* the broker's capacity
    PeerMax,             \* network tasks per peer inside one window
    TelemetryMax,        \* telemetry calls per peer and skill inside one window
    MaxChanges           \* bound on registry, contact, pass, matrix, agent changes

Gates == {"verified-contact", "access-pass", "any"}
Levels == {"telemetry", "approved", "never"}

Policy == [gate : SUBSET Gates, scoped : BOOLEAN, level : Levels]

SkillRecord == [localOnly : BOOLEAN, httpExposed : BOOLEAN, httpBridgeOnly : BOOLEAN,
                remote : Policy \cup {NoPolicy}, telemetry : BOOLEAN]

ASSUME BrokerAssumption ==
    /\ Anonymous \notin Peers
    /\ IsFiniteSet(Tasks)
    /\ Options \subseteq SkillRecord
    /\ NoPolicy \notin Policy
    /\ NoSkill \notin SkillRecord
    /\ MaxConcurrentTasks \in Nat \ {0}
    /\ PeerMax \in Nat \ {0}
    /\ TelemetryMax \in Nat \ {0}
    /\ MaxChanges \in Nat

VARIABLES
    skills,      \* the registry: name -> record
    contacts,    \* the peers whose contact is verified
    passes,      \* <<peer, skill>>: an unexpired pass for the scope of the skill's policy
    matrix,      \* the permission matrix: peer -> the skills it may call;
                 \* a peer without an entry may call all of them
    agents,      \* the peer ids of declared child identities
    peerUsed,    \* tasks counted against a peer inside the current window
    teleUsed,    \* the same per peer and telemetry skill
    activeTasks, \* the broker's own counter
    pc,          \* where each execute() is
    call,        \* its arguments and the record it captured
    label,       \* was the caller resolved to an agent?
    modes,       \* the modes checkPeerAccess has still to try
    approved,    \* did the operator approve this task?
    changes,     \* changes of the surroundings so far
    since        \* history: what held at some moment since the task arrived

surroundings == <<skills, contacts, passes, matrix, agents, changes>>
budgets == <<peerUsed, teleUsed>>
vars == <<surroundings, budgets, activeTasks, pc, call, label, modes, approved, since>>

Vias == {"local", "network", "http"}
PcValues == {"idle", "agent", "matrix", "gate", "approve", "admit", "run", "done"}

-----------------------------------------------------------------------------
\* validateRemotePolicy and the httpBridgeOnly contradictions: registerSkill
\* throws for anything else.
ValidOptions(o) ==
    /\ o.remote # NoPolicy =>
          /\ o.remote.gate # {}
          /\ "access-pass" \in o.remote.gate => o.remote.scoped
    /\ o.httpBridgeOnly => o.localOnly /\ o.remote = NoPolicy

\* httpBridgeOnly forces local-only, HTTP-exposed and no remote policy.
Normalize(o) ==
    IF o.httpBridgeOnly
    THEN [o EXCEPT !.localOnly = TRUE, !.httpExposed = TRUE, !.remote = NoPolicy]
    ELSE o

\* The lookup behind one mode of checkPeerAccess, at this moment.  `public`
\* (the gate "any") asks for a peer id only: the host supplies no block list.
ModeGrants(c, m) ==
    /\ c.peer \in Peers
    /\ CASE m = "verified-contact" -> c.peer \in contacts
         [] m = "access-pass" -> <<c.peer, c.skill>> \in passes
         [] m = "any" -> TRUE

\* The modes evaluateGates hands to checkPeerAccess: an agent never gets `any`.
ModesFor(rec, isAgent) ==
    IF rec.remote = NoPolicy THEN {}
    ELSE IF isAgent THEN rec.remote.gate \ {"any"} ELSE rec.remote.gate

\* PeerSkillGate.isAllowed; an anonymous caller cannot be addressed by an entry.
MatrixAllows(c) == c.peer \in Peers => c.skill \in matrix[c.peer]

\* What holds of a task's caller at this moment, for the history: the matrix
\* allows the call, the caller is a declared agent, and, once the agent lookup
\* has decided which modes count, one of them grants.
MatrixFact(t) == IF MatrixAllows(call[t]) THEN {"matrix"} ELSE {}

AgentFact(t) == IF call[t].peer \in agents THEN {"agent"} ELSE {}

GateFact(t) ==
    IF /\ pc[t] \in {"gate", "approve", "admit", "run"}
       /\ \E m \in ModesFor(call[t].rec, label[t]) : ModeGrants(call[t], m)
    THEN {"gate"} ELSE {}

-----------------------------------------------------------------------------
NoCall == [via |-> "local", peer |-> Anonymous, skill |-> NoSkill, rec |-> NoSkill]

Init ==
    /\ skills = [s \in Skills |-> NoSkill]
    /\ contacts = {}
    /\ passes = {}
    /\ matrix = [p \in Peers |-> Skills]
    /\ agents = {}
    /\ peerUsed = [p \in Peers |-> 0]
    /\ teleUsed = [x \in Peers \X Skills |-> 0]
    /\ activeTasks = 0
    /\ pc = [t \in Tasks |-> "idle"]
    /\ call = [t \in Tasks |-> NoCall]
    /\ label = [t \in Tasks |-> FALSE]
    /\ modes = [t \in Tasks |-> {}]
    /\ approved = [t \in Tasks |-> FALSE]
    /\ changes = 0
    /\ since = [t \in Tasks |-> {}]

Goto(t, where) == pc' = [pc EXCEPT ![t] = where]

\* An error result: execute returns without dispatching.
Refuse(t) ==
    /\ Goto(t, "done")
    /\ UNCHANGED <<budgets, activeTasks, modes, approved>>

\* The capacity check and the dispatch, synchronous with what precedes it; a
\* payload that is too deep or too large fails inside the try block.
Dispatch(t, rec, via) ==
    IF \/ via = "http" /\ ~rec.httpExposed
       \/ activeTasks >= MaxConcurrentTasks
    THEN Goto(t, "done") /\ UNCHANGED activeTasks
    ELSE \/ Goto(t, "run") /\ activeTasks' = activeTasks + 1
         \/ Goto(t, "done") /\ UNCHANGED activeTasks

\* handle, handleRemote, handleHttp: look the skill up, reject what is local.
Arrive(t) ==
    /\ pc[t] = "idle"
    /\ \E via \in Vias, p \in Peers \cup {Anonymous}, s \in Skills :
          /\ via # "network" => p = Anonymous
          /\ call' = [call EXCEPT ![t] =
                        [via |-> via, peer |-> p, skill |-> s, rec |-> skills[s]]]
          /\ IF skills[s] = NoSkill
             THEN Goto(t, "done") /\ UNCHANGED activeTasks
             ELSE IF via # "network"
             THEN Dispatch(t, skills[s], via)
             ELSE /\ Goto(t, IF skills[s].localOnly \/ skills[s].httpBridgeOnly THEN "done"
                             ELSE IF p = Anonymous THEN "gate" ELSE "agent")
                  /\ UNCHANGED activeTasks
    /\ UNCHANGED <<surroundings, budgets, label, modes, approved>>

\* Mutant: a lookup that throws reads as an agent.
ResolveAgentOnThrow(t) ==
    /\ pc[t] = "agent"
    /\ \E found \in {call[t].peer \in agents, TRUE} :
          label' = [label EXCEPT ![t] = found]
    /\ Goto(t, "matrix")
    /\ UNCHANGED <<surroundings, budgets, activeTasks, call, modes, approved>>

\* agentGate.resolveAgentLabel; a lookup that throws reads as "not an agent".
ResolveAgent(t) ==
    /\ pc[t] = "agent"
    /\ \E found \in {call[t].peer \in agents, FALSE} :
          label' = [label EXCEPT ![t] = found]
    /\ Goto(t, "matrix")
    /\ UNCHANGED <<surroundings, budgets, activeTasks, call, modes, approved>>

\* Mutant: a matrix lookup that denies is ignored.
CheckMatrixOpen(t) ==
    /\ pc[t] = "matrix"
    /\ modes' = [modes EXCEPT ![t] = ModesFor(call[t].rec, label[t])]
    /\ Goto(t, "gate")
    /\ UNCHANGED <<surroundings, budgets, activeTasks, call, label, approved>>

\* Mutant: the peer budget is charged before the gates have spoken.
CheckMatrixCharging(t) ==
    /\ pc[t] = "matrix"
    /\ MatrixAllows(call[t])
    /\ peerUsed[call[t].peer] < PeerMax
    /\ peerUsed' = [peerUsed EXCEPT ![call[t].peer] = @ + 1]
    /\ modes' = [modes EXCEPT ![t] = ModesFor(call[t].rec, label[t])]
    /\ Goto(t, "gate")
    /\ UNCHANGED <<surroundings, teleUsed, activeTasks, call, label, approved>>

\* peerSkillGate.isAllowed; a lookup that throws denies.
CheckMatrix(t) ==
    /\ pc[t] = "matrix"
    /\ UNCHANGED <<surroundings, call, label>>
    /\ \/ Refuse(t)
       \/ /\ MatrixAllows(call[t])
          /\ ModesFor(call[t].rec, label[t]) # {}
          /\ modes' = [modes EXCEPT ![t] = ModesFor(call[t].rec, label[t])]
          /\ Goto(t, "gate")
          /\ UNCHANGED <<budgets, activeTasks, approved>>

\* enforceTelemetryRateLimit, the last step of evaluateRemotePolicy.
Telemetry(t) ==
    LET key == <<call[t].peer, call[t].skill>> IN
    IF ~call[t].rec.telemetry
    THEN Goto(t, "admit") /\ UNCHANGED teleUsed
    ELSE IF teleUsed[key] < TelemetryMax
    THEN Goto(t, "admit") /\ teleUsed' = [teleUsed EXCEPT ![key] = @ + 1]
    ELSE Goto(t, "done") /\ UNCHANGED teleUsed

\* checkPeerAccess tries one mode; the first that grants ends it, the last
\* that does not denies, and an anonymous caller has none.
TryMode(t) ==
    /\ pc[t] = "gate"
    /\ UNCHANGED <<surroundings, peerUsed, activeTasks, call, label, approved>>
    /\ \/ /\ modes[t] = {}
          /\ Goto(t, "done")
          /\ UNCHANGED <<teleUsed, modes>>
       \/ \E m \in modes[t] :
             /\ ~ModeGrants(call[t], m) \/ m # "any"
             /\ modes' = [modes EXCEPT ![t] = @ \ {m}]
             /\ UNCHANGED <<teleUsed, pc>>
       \/ \E m \in modes[t] :
             /\ ModeGrants(call[t], m)
             /\ UNCHANGED modes
             /\ IF label[t] /\ call[t].rec.remote.level = "never"
                THEN Goto(t, "done") /\ UNCHANGED teleUsed
                ELSE IF label[t] /\ call[t].rec.remote.level = "approved"
                THEN Goto(t, "approve") /\ UNCHANGED teleUsed
                ELSE Telemetry(t)

\* The operator answers the native prompt; a refusal, a throw or no confirmer denies.
Approve(t) ==
    /\ pc[t] = "approve"
    /\ UNCHANGED <<surroundings, peerUsed, activeTasks, call, label, modes>>
    /\ \/ approved' = [approved EXCEPT ![t] = TRUE] /\ Telemetry(t)
       \/ Goto(t, "done") /\ UNCHANGED <<teleUsed, approved>>

\* Back in execute: the per-peer budget, then the capacity, then the handler.
Admit(t) ==
    /\ pc[t] = "admit"
    /\ UNCHANGED <<surroundings, teleUsed, call, label, modes, approved>>
    /\ IF peerUsed[call[t].peer] < PeerMax
       THEN /\ peerUsed' = [peerUsed EXCEPT ![call[t].peer] = @ + 1]
            /\ Dispatch(t, call[t].rec, "network")
       ELSE Goto(t, "done") /\ UNCHANGED <<peerUsed, activeTasks>>

\* Mutant: a handler that throws keeps its slot.
FinishLeaking(t) ==
    /\ pc[t] = "run"
    /\ Goto(t, "done")
    /\ activeTasks' \in {activeTasks - 1, activeTasks}
    /\ UNCHANGED <<surroundings, budgets, call, label, modes, approved>>

\* The handler returns or throws; `finally` gives the slot back.
Finish(t) ==
    /\ pc[t] = "run"
    /\ Goto(t, "done")
    /\ activeTasks' = activeTasks - 1
    /\ UNCHANGED <<surroundings, budgets, call, label, modes, approved>>

\* The TaskResult reaches the caller; the slot of the model is free again.
Answer(t) ==
    /\ pc[t] = "done"
    /\ Goto(t, "idle")
    /\ call' = [call EXCEPT ![t] = NoCall]
    /\ label' = [label EXCEPT ![t] = FALSE]
    /\ modes' = [modes EXCEPT ![t] = {}]
    /\ approved' = [approved EXCEPT ![t] = FALSE]
    /\ UNCHANGED <<surroundings, budgets, activeTasks>>

\* Timestamps leave the sliding windows.
PeerWindow(p) ==
    /\ peerUsed[p] > 0
    /\ peerUsed' = [peerUsed EXCEPT ![p] = @ - 1]
    /\ UNCHANGED <<surroundings, teleUsed, activeTasks, pc, call, label, modes, approved>>

TelemetryWindow(x) ==
    /\ teleUsed[x] > 0
    /\ teleUsed' = [teleUsed EXCEPT ![x] = @ - 1]
    /\ UNCHANGED <<surroundings, peerUsed, activeTasks, pc, call, label, modes, approved>>

-----------------------------------------------------------------------------
Register(s) ==
    /\ \E o \in Options :
          /\ ValidOptions(o)
          /\ skills' = [skills EXCEPT ![s] = Normalize(o)]
    /\ UNCHANGED <<contacts, passes, matrix, agents>>

Unregister(s) ==
    /\ skills' = [skills EXCEPT ![s] = NoSkill]
    /\ UNCHANGED <<contacts, passes, matrix, agents>>

\* A contact is verified or loses that state.
ChangeContact(p) ==
    /\ contacts' \in {contacts \cup {p}, contacts \ {p}}
    /\ UNCHANGED <<skills, passes, matrix, agents>>

\* AccessPassManager.issue; revoke, or the expiry that inspectPass reports.
IssuePass(x) ==
    /\ passes' = passes \cup {x}
    /\ UNCHANGED <<skills, contacts, matrix, agents>>

LosePass(x) ==
    /\ passes' = passes \ {x}
    /\ UNCHANGED <<skills, contacts, matrix, agents>>

ChangeMatrix(p) ==
    /\ \E e \in SUBSET Skills : matrix' = [matrix EXCEPT ![p] = e]
    /\ UNCHANGED <<skills, contacts, passes, agents>>

\* deriveChildIdentity, deleteChildIdentity.
ChangeAgent(p) ==
    /\ agents' \in {agents \cup {p}, agents \ {p}}
    /\ UNCHANGED <<skills, contacts, passes, matrix>>

Surround ==
    /\ changes < MaxChanges
    /\ changes' = changes + 1
    /\ \/ \E s \in Skills : Register(s) \/ Unregister(s)
       \/ \E p \in Peers : ChangeContact(p) \/ ChangeMatrix(p) \/ ChangeAgent(p)
       \/ \E x \in Peers \X Skills : IssuePass(x) \/ LosePass(x)
    /\ UNCHANGED <<budgets, activeTasks, pc, call, label, modes, approved>>

\* The awaits of execute that resolve by themselves.
Proceed(t) == ResolveAgent(t) \/ CheckMatrix(t) \/ TryMode(t) \/ Admit(t) \/ Answer(t)

TaskStep(t) == Arrive(t) \/ Proceed(t) \/ Approve(t) \/ Finish(t)

Step ==
    \/ \E t \in Tasks : TaskStep(t)
    \/ \E p \in Peers : PeerWindow(p)
    \/ \E x \in Peers \X Skills : TelemetryWindow(x)
    \/ Surround

\* The history of a network task that found its skill; every other has none.
Remember ==
    since' = [t \in Tasks |->
        IF pc'[t] \in {"idle", "done"} \/ call'[t].via # "network" THEN {}
        ELSE since[t] \cup MatrixFact(t)' \cup AgentFact(t)' \cup GateFact(t)']

Next == Step /\ Remember

Spec == Init /\ [][Next]_vars

-----------------------------------------------------------------------------
Call == [via : Vias, peer : Peers \cup {Anonymous}, skill : Skills \cup {NoSkill},
         rec : SkillRecord \cup {NoSkill}]

TypeOK ==
    /\ skills \in [Skills -> SkillRecord \cup {NoSkill}]
    /\ contacts \in SUBSET Peers
    /\ passes \in SUBSET (Peers \X Skills)
    /\ matrix \in [Peers -> SUBSET Skills]
    /\ agents \in SUBSET Peers
    /\ peerUsed \in [Peers -> 0..PeerMax]
    /\ teleUsed \in [Peers \X Skills -> 0..TelemetryMax]
    /\ activeTasks \in Int
    /\ pc \in [Tasks -> PcValues]
    /\ call \in [Tasks -> Call]
    /\ label \in [Tasks -> BOOLEAN]
    /\ modes \in [Tasks -> SUBSET Gates]
    /\ approved \in [Tasks -> BOOLEAN]
    /\ changes \in 0..MaxChanges
    /\ since \in [Tasks -> SUBSET {"matrix", "agent", "gate"}]

Running == {t \in Tasks : pc[t] = "run"}

\* A network task reaches its handler only if, at some moment since it arrived,
\* the matrix allowed it, and a mode open to this kind of caller granted it; an
\* agent also needs the skill to be open to agents and, at level "approved", the
\* operator's yes to this very task.  Grants, revocations, registrations and
\* agent declarations change meanwhile.
Authorized ==
    \A t \in Running : call[t].via = "network" =>
        /\ {"matrix", "gate"} \subseteq since[t]
        /\ ~call[t].rec.localOnly /\ ~call[t].rec.httpBridgeOnly
        /\ label[t] => /\ call[t].rec.remote.level # "never"
                       /\ call[t].rec.remote.level = "approved" => approved[t]

\* "deleting an agent identity takes effect on the very next remote call": a
\* task is treated as an agent's only if its peer was declared after it arrived.
AgentIsFresh ==
    \A t \in Tasks : label[t] /\ pc[t] # "done" => "agent" \in since[t]

\* The broker's counter is the number of handlers in flight, and never above
\* the capacity: no path through a denial, a bad payload or a throw leaks a slot.
CapacityExact ==
    /\ activeTasks = Cardinality(Running)
    /\ activeTasks <= MaxConcurrentTasks

\* "a denied caller never consumes a peer's budget", and none runs for free: the
\* peer budget grows only by a task of that peer that has passed the matrix and a
\* gate, and the very step that dispatches a network task charges its peer, so
\* that two tasks of a peer can never share one charge.
ChargedExactly ==
    [][/\ \A p \in Peers : peerUsed'[p] > peerUsed[p] =>
             \E t \in Tasks : /\ pc[t] = "admit" /\ pc'[t] # "admit"
                              /\ call[t].peer = p
                              /\ {"matrix", "gate"} \subseteq since[t]
       /\ \A t \in Tasks :
             pc'[t] = "run" /\ pc[t] # "run" /\ call'[t].via = "network" =>
                 peerUsed'[call[t].peer] = peerUsed[call[t].peer] + 1]_vars

=============================================================================
