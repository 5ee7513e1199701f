------------------------------- MODULE Rules -------------------------------
(* PAL rules of the core server: the stored rule set and the engine that is     *)
(* rebuilt over it, the local event bus, the execution budgets, and the agent   *)
(* identity under which a rule proposes its task (src/apps/core-server/src/pal, *)
(* events/core-event-bus.ts, core/src/identity/identity-manager.ts), with the   *)
(* records of a SmartBase table as the source of events; and the quota of the   *)
(* AI calls that a task ends in (apps/core-server/src/ai, core/src/ai).         *)
EXTENDS Naturals, SequencesExt

CONSTANTS Rules, NoRule,
          ById,                    \* the rules in the order of list()
          Trigger, Where,          \* per rule: the event it waits for, and whether it has a where
          Records,
          Mutations, Edits,        \* mutations of records and edits of rules under way
          MaxRules,                \* MAX_PAL_RULE_COUNT
          RuleLimit, RuleWindow, NodeLimit, NodeWindow,
          Callers,                 \* who calls the AI: peers, and the operator as one
          CallerLimit, CallerWindow, AILimit, AIWindow

ASSUME RulesAssumption ==
    /\ {MaxRules, RuleLimit, RuleWindow, NodeLimit, NodeWindow} \subseteq Nat \ {0}
    /\ {CallerLimit, CallerWindow, AILimit, AIWindow} \subseteq Nat \ {0}
    /\ NoRule \notin Rules /\ NodeWindow <= RuleWindow
    /\ ById \in Seq(Rules) /\ IsInjective(ById) /\ Range(ById) = Rules

VARIABLES
    server,     \* "down", "up" or "stopped"
    rulebook,   \* memory: the map of PALRuleStore; file: the file
    edits,      \* per edit: its place and what it writes
    bus,        \* the handlers of CoreEventBus, each named by its rule
    engine,     \* the rules whose handlers the live engine holds
    behind,     \* history: an edit failed after it changed memory and no rebuild followed
    spent,      \* PALRateLimiter: per rule and for the node, the calls it recorded
    ran,        \* history: the calls of rules dispatched in the last RuleWindow
    quota,      \* AIBudgetManager: its windows, and the age of its last sweep
    asked,      \* history: the AI calls that got through
    table,      \* the records of the table: absent, plain or matching the where
    mutations,  \* per mutation: its place, its copy, and the handlers it has still to await
    child,      \* per rule: the secrets of its agent identity in the vault
    vaultQueue  \* the writes of the vault that wait for their turn

store     == <<rulebook, edits, bus, engine, behind>>
budgets   == <<spent, ran, quota, asked>>
agents    == <<child, vaultQueue>>
rulesVars == <<server, store, budgets, table, mutations, agents>>

Kinds  == {"created", "updated", "deleted"}
Halves == <<"private", "public", "certificate">>
Whole  == Range(Halves)

NoEdit     == [step |-> "idle", data |-> {}]
NoCopy     == [r \in Records |-> "absent"]
NoMutation == [step |-> "idle", kind |-> "created", record |-> NoRule, value |-> "absent",
               copy |-> NoCopy, rest |-> <<>>, deleted |-> FALSE]
NothingSpent == [rule |-> [r \in Rules |-> {}], node |-> {}]

\* A window holds its calls and the time since it was last asked; one that nobody
\* asked for is as good as none.
NoWindow == [calls |-> {}, idle |-> CallerWindow]
FullQuota == [callers |-> [c \in Callers |-> NoWindow], node |-> {}, swept |-> CallerWindow]

\* What earlier runs left: a rule set, and agents that were made or not.
InitRules ==
    /\ server = "down"
    /\ rulebook \in [memory : {{}}, file : {s \in SUBSET Rules : Cardinality(s) <= MaxRules}]
    /\ edits = [e \in Edits |-> NoEdit]
    /\ bus = <<>> /\ engine = {} /\ behind = FALSE
    /\ spent = NothingSpent /\ ran = {} /\ quota = FullQuota /\ asked = {}
    /\ table = NoCopy /\ mutations = [m \in Mutations |-> NoMutation]
    /\ child \in [Rules -> {{}, Whole}] /\ vaultQueue = <<>>

-----------------------------------------------------------------------------
(* PALManager and PALRuleStore *)

\* What of a sequence is in the set, in its order.
Only(s, set) ==
    LET kept[i \in 0..Len(s)] ==
          IF i = 0 THEN <<>>
          ELSE IF s[i] \in set THEN Append(kept[i - 1], s[i]) ELSE kept[i - 1]
    IN kept[Len(s)]

Without(b, set) == Only(b, Rules \ set)
Sorted(set)     == Only(ById, set)

\* A new engine subscribes rule by rule: each stands behind those that are there.
Subscribed(b, set) == b \o Sorted(set)

\* Mutant: the old engine keeps its subscriptions.
RebuiltOnTop(set) ==
    /\ bus' = Subscribed(bus, IF server = "up" THEN set ELSE {})
    /\ engine' = set /\ behind' = FALSE

\* rebuildEngine over the rules set: the old engine stops, and the new one starts
\* only while the manager runs.
Rebuilt(set) ==
    LET live == IF server = "up" THEN set ELSE {} IN
    /\ bus' = Subscribed(Without(bus, engine), live)
    /\ engine' = live /\ behind' = FALSE

startRules ==
    /\ server = "down" /\ server' = "up"
    /\ rulebook' = [rulebook EXCEPT !.memory = rulebook.file]
    /\ bus' = Subscribed(<<>>, rulebook.file) /\ engine' = rulebook.file /\ behind' = FALSE
    /\ UNCHANGED <<edits, budgets, table, mutations, agents>>

Persists(e, set) ==
    /\ rulebook' = [rulebook EXCEPT !.memory = set]
    /\ edits' = [edits EXCEPT ![e].step = "mkdir"]
    /\ UNCHANGED <<server, bus, engine, behind, budgets, table, mutations, agents>>

addRule(e, r) ==
    /\ server = "up" /\ edits[e].step = "idle"
    /\ r \notin rulebook.memory /\ Cardinality(rulebook.memory) < MaxRules
    /\ Persists(e, rulebook.memory \cup {r})

removeRule(e, r) ==
    /\ server = "up" /\ edits[e].step = "idle"
    /\ r \in rulebook.memory
    /\ Persists(e, rulebook.memory \ {r})

\* The operator edits the rules over HTTP or by the skills of pal-ui.
editRules(e) == \E r \in Rules : addRule(e, r) \/ removeRule(e, r)

\* The directory is there: what goes to the file is what memory holds by now.
listForFile(e) ==
    /\ edits[e].step = "mkdir"
    /\ edits' = [edits EXCEPT ![e] = [step |-> "write", data |-> rulebook.memory]]
    /\ UNCHANGED <<server, rulebook, bus, engine, behind, budgets, table, mutations, agents>>

\* The writes of two edits land in any order.
persisted(e) ==
    /\ edits[e].step = "write"
    /\ rulebook' = [rulebook EXCEPT !.file = edits[e].data]
    /\ edits' = [edits EXCEPT ![e] = NoEdit]
    /\ Rebuilt(rulebook.memory)
    /\ UNCHANGED <<server, budgets, table, mutations, agents>>

persistFails(e) ==
    /\ edits[e].step \in {"mkdir", "write"}
    /\ edits' = [edits EXCEPT ![e] = NoEdit] /\ behind' = TRUE
    /\ UNCHANGED <<server, rulebook, bus, engine, budgets, table, mutations, agents>>

\* CoreServer.stop: the engine stops and the bus drops what is left.
stopRules ==
    /\ server = "up" /\ server' = "stopped"
    /\ bus' = <<>> /\ engine' = {}
    /\ UNCHANGED <<rulebook, edits, behind, budgets, table, mutations, agents>>

\* The process ends or crashes: files and vault stay, a write under way may be lost.
exitProcess ==
    /\ server \in {"up", "stopped"} /\ server' = "down"
    /\ rulebook' = [rulebook EXCEPT !.memory = {}]
    /\ edits' = [e \in Edits |-> NoEdit] /\ bus' = <<>> /\ engine' = {} /\ behind' = FALSE
    /\ spent' = NothingSpent /\ ran' = {} /\ quota' = FullQuota /\ asked' = {}
    /\ mutations' = [m \in Mutations |-> NoMutation] /\ vaultQueue' = <<>>
    /\ UNCHANGED <<table, child>>

-----------------------------------------------------------------------------
(* PALRateLimiter.  The age of a recorded call grows with the clock, and it      *)
(* counts while its age is at most the window.  Calls of one instant are told      *)
(* apart by a number.                                                          *)

Later(x) == [x EXCEPT !.age = @ + 1]

Older(calls, window) == {x \in {Later(y) : y \in calls} : x.age <= window}

\* The call that is recorded now, by its number among those of this instant.
Call(who, calls) ==
    [by |-> who, age |-> 0, n |-> Cardinality({x \in calls : x.age = 0}) + 1]

Longer == IF CallerWindow > AIWindow THEN CallerWindow ELSE AIWindow

WindowMore(time) == IF time < CallerWindow THEN time + 1 ELSE CallerWindow

\* In a SlidingWindow a call counts while its age is below the window.
Aged == [callers |-> [c \in Callers |-> [calls |-> Older(quota.callers[c].calls, CallerWindow - 1),
                                         idle |-> WindowMore(quota.callers[c].idle)]],
         node |-> Older(quota.node, AIWindow - 1),
         swept |-> WindowMore(quota.swept)]

tickRules ==
    /\ server # "down"
    /\ spent' = [rule |-> [r \in Rules |-> Older(spent.rule[r], RuleWindow)],
                 node |-> Older(spent.node, NodeWindow)]
    /\ ran' = Older(ran, RuleWindow)
    /\ quota' = Aged
    /\ asked' = Older(asked, Longer - 1)
    /\ UNCHANGED <<server, store, table, mutations, agents>>

allows(r) == Cardinality(spent.rule[r]) < RuleLimit /\ Cardinality(spent.node) < NodeLimit

-----------------------------------------------------------------------------
(* AIBudgetManager, asked at the top of every AI call *)

\* Mutant: the sweep drops the windows that are in use, too.
DropsAll(w) == NoWindow

\* maybeSweep drops the windows that nobody asked for a whole window.
Drops(w) == IF w.idle >= CallerWindow THEN NoWindow ELSE w

maybeSweep ==
    IF quota.swept < CallerWindow THEN quota
    ELSE [quota EXCEPT !.callers = [c \in Callers |-> Drops(quota.callers[c])], !.swept = 0]

\* consume: the caller's window first, then the node's.  A refusal is not recorded
\* in the window that refuses; the caller's keeps the call that the node's refuses.
consume(c) ==
    LET kept    == maybeSweep
        calls   == kept.callers[c].calls
        new     == {Call(c, calls)}
        mine    == Cardinality(calls) < CallerLimit
        allowed == mine /\ Cardinality(kept.node) < AILimit IN
    /\ quota' = [kept EXCEPT !.callers[c] = [calls |-> IF mine THEN calls \cup new ELSE calls, idle |-> 0],
                             !.node = IF allowed THEN @ \cup new ELSE @]
    /\ asked' = IF allowed THEN asked \cup new ELSE asked

\* generateText and generateImage: what follows the budget is a request to the AI's
\* endpoint, whose answer changes no state.
generateText(c) ==
    /\ server = "up" /\ consume(c)
    /\ UNCHANGED <<server, store, spent, ran, table, mutations, agents>>

AIStep == \E c \in Callers : generateText(c)

-----------------------------------------------------------------------------
(* SmartBase: a mutation loads the document, changes its copy and saves it, and   *)
(* then publishes.                                                             *)

Moves(m, to) == mutations' = [mutations EXCEPT ![m] = to]

loadTable(m, kind, record, value) ==
    /\ server # "down" /\ mutations[m].step = "idle"
    /\ (kind = "created") = (table[record] = "absent")
    /\ (kind = "deleted") = (value = "absent")
    /\ Moves(m, [step |-> "save", kind |-> kind, record |-> record, value |-> value,
                 copy |-> [table EXCEPT ![record] = value], rest |-> <<>>, deleted |-> FALSE])
    /\ UNCHANGED <<server, store, budgets, table, agents>>

saveDatabase(m) ==
    /\ mutations[m].step = "save"
    /\ \/ /\ table' = mutations[m].copy
          /\ Moves(m, [mutations[m] EXCEPT !.step = "publish", !.copy = NoCopy])
       \/ Moves(m, NoMutation) /\ UNCHANGED table
    /\ UNCHANGED <<server, store, budgets, agents>>

\* CoreEventBus.emit: the handlers of the topic as they are now, one by one.
emitEvent(m) ==
    LET heard == Only(bus, {r \in Rules : Trigger[r] = mutations[m].kind}) IN
    /\ mutations[m].step = "publish"
    /\ Moves(m, IF heard = <<>> THEN NoMutation
                ELSE [mutations[m] EXCEPT !.step = "handle", !.rest = heard])
    /\ UNCHANGED <<server, store, budgets, table, agents>>

At(m) == Head(mutations[m].rest)

\* The handler is through, whatever came of it; after the last one emit returns.
Handled(m) ==
    Moves(m, IF Len(mutations[m].rest) = 1 THEN NoMutation
             ELSE [mutations[m] EXCEPT !.step = "handle", !.deleted = FALSE,
                                       !.rest = Tail(mutations[m].rest)])

\* handleEvent up to its dispatch: the where, and then the budgets.
handleEvent(m) ==
    LET r   == At(m)
        new == {Call(r, spent.node)} IN
    /\ mutations[m].step = "handle"
    /\ IF (Where[r] => mutations[m].value = "matching") /\ allows(r)
       THEN /\ spent' = [spent EXCEPT !.rule[r] = @ \cup new, !.node = @ \cup new]
            /\ ran' = ran \cup new
            /\ Moves(m, [mutations[m] EXCEPT !.step = "derive"])
       ELSE Handled(m) /\ UNCHANGED <<spent, ran>>
    /\ UNCHANGED <<server, store, quota, asked, table, agents>>

-----------------------------------------------------------------------------
(* deriveChildIdentity, deleteChildIdentity and the agent gate *)

Write(op, r, half, by) == [op |-> op, rule |-> r, half |-> half, by |-> by]

\* Mutant: a private half is taken for a whole record.
privateHalfExists(r) == "private" \in child[r]

childExists(r) == Whole \subseteq child[r]

\* The key is a function of the label: a second derivation makes the same one.
deriveChildIdentity(m, r) ==
    /\ mutations[m].step = "derive" /\ At(m) = r
    /\ IF childExists(r)
       THEN Moves(m, [mutations[m] EXCEPT !.step = "judge"]) /\ UNCHANGED vaultQueue
       ELSE /\ Moves(m, [mutations[m] EXCEPT !.step = "write"])
            /\ vaultQueue' = Append(vaultQueue, Write("set", r, "private", m))
    /\ UNCHANGED <<server, store, budgets, table, child>>

\* DELETE /api/agents.  Bound: one deletion at a time.
deleteChildIdentity(r) ==
    /\ server = "up" /\ child[r] # {}
    /\ \A i \in DOMAIN vaultQueue : vaultQueue[i].op = "set"
    /\ vaultQueue' = vaultQueue \o [i \in 1..3 |-> Write("delete", r, Halves[i], NoRule)]
    /\ UNCHANGED <<server, store, budgets, table, mutations, child>>

First == Head(vaultQueue)

\* A derivation queues its next half when the one before has landed.
secretIsSet ==
    LET m == First.by IN
    /\ child' = [child EXCEPT ![First.rule] = @ \cup {First.half}]
    /\ IF First.half = "certificate"
       THEN /\ vaultQueue' = Tail(vaultQueue)
            /\ Moves(m, [mutations[m] EXCEPT !.step = "judge"])
       ELSE /\ vaultQueue' = Append(Tail(vaultQueue),
                   [First EXCEPT !.half = IF @ = "private" THEN "public" ELSE "certificate"])
            /\ UNCHANGED mutations

\* A deletion has queued its three at once.
secretIsDeleted ==
    /\ child' = [child EXCEPT ![First.rule] = @ \ {First.half}]
    /\ vaultQueue' = Tail(vaultQueue)
    /\ mutations' = [m \in Mutations |->
           IF mutations[m].step \in {"write", "judge"} /\ At(m) = First.rule
           THEN [mutations[m] EXCEPT !.deleted = TRUE] ELSE mutations[m]]

vaultWrites ==
    /\ vaultQueue # <<>>
    /\ IF First.op = "set" THEN secretIsSet ELSE secretIsDeleted
    /\ UNCHANGED <<server, store, budgets, table>>

\* The derivation fails, and with it the proposal; a deletion goes on with the rest.
vaultFails ==
    /\ vaultQueue # <<>> /\ vaultQueue' = Tail(vaultQueue)
    /\ IF First.op = "set" THEN Handled(First.by) ELSE UNCHANGED mutations
    /\ UNCHANGED <<server, store, budgets, table, child>>

\* TaskBroker.handleRemote knows the caller as an agent while its public half is
\* listed.  Whatever it answers, the handler is through.
handleRemote(m) ==
    /\ mutations[m].step = "judge" /\ Handled(m)
    /\ UNCHANGED <<server, store, budgets, table, agents>>

RulesStep ==
    \/ startRules \/ stopRules \/ exitProcess \/ tickRules \/ vaultWrites \/ vaultFails
    \/ \E e \in Edits : editRules(e) \/ listForFile(e) \/ persisted(e) \/ persistFails(e)
    \/ \E r \in Rules : deleteChildIdentity(r)
    \/ \E m \in Mutations, k \in Kinds, r \in Records, v \in {"absent", "plain", "matching"} :
          loadTable(m, k, r, v)
    \/ \E m \in Mutations :
          \/ saveDatabase(m) \/ emitEvent(m) \/ handleEvent(m)
          \/ handleRemote(m) \/ \E r \in Rules : deriveChildIdentity(m, r)

RulesSpec == InitRules /\ [][RulesStep \/ AIStep]_rulesVars

-----------------------------------------------------------------------------
(* Properties *)

\* The engine follows the rule set through edits that overlap, fail or are still
\* under way when the server stops: no event reaches a rule twice, the engine
\* serves the rules in memory once every edit has come to its end, and a server
\* that stopped listens to nothing (manager.ts rebuildEngine, engine.ts start and
\* stop).
EngineFollowsRules ==
    /\ \A m \in Mutations : IsInjective(mutations[m].rest)
    /\ server = "up" /\ ~behind /\ (\A e \in Edits : edits[e].step = "idle")
          => Range(bus) = rulebook.memory
    /\ server # "up" => bus = <<>>

\* No rule runs more often than its budget and no set of rules more often than
\* the node's, over every rebuild of the engine (rate-limiter.ts allow); and no
\* caller, nor all of them together, gets more AI calls through than the quota, although
\* windows are dropped and made anew (ai-budget-manager.ts consume and maybeSweep).
WithinBudget ==
    /\ \A r \in Rules : Cardinality({x \in ran : x.by = r}) <= RuleLimit
    /\ Cardinality({x \in ran : x.age <= NodeWindow}) <= NodeLimit
    /\ \A c \in Callers : Cardinality({x \in asked : x.by = c /\ x.age < CallerWindow}) <= CallerLimit
    /\ Cardinality({x \in asked : x.age < AIWindow}) <= AILimit

\* The broker judges a rule's proposal as that of an agent, and never as that of
\* some peer, unless the operator deleted the agent meanwhile
\* (pal/index.ts buildPALDispatch, identity-manager.ts deriveChildIdentity).
ProposalHasAgent ==
    \A m \in Mutations :
        mutations[m].step = "judge" /\ ~mutations[m].deleted => "public" \in child[At(m)]

=============================================================================
