---------------------------- MODULE MCPluginHost ----------------------------
(* Instance of the parts of the core server that meet only in the broker: a    *)
(* behaviour is one of them (scene) and not their product.                      *)
(* Host: two sound plugins with certificates, a directory without a manifest,   *)
(* and one whose certificate was never good and may be found cut short.        *)
(* Rules: two rules on one event, their edits and their budgets, while every    *)
(* agent exists.  Agents: one rule, whose agent is made and deleted while it     *)
(* runs, without edits.  Governance: one peer and one skill, two writes of the   *)
(* operator and one client that follows them.  AI: the calls of one peer and of   *)
(* the operator, without rules.                                                 *)
EXTENDS PluginHost, Rules, Governance, TLC

CONSTANTS a, b, c, d, x, y, r1, r2, peer, operator, skill

VARIABLE scene

Directories == <<a, c, d, b>>
Named     == (a :> "a") @@ (b :> "b") @@ (c :> "c") @@ (d :> "d")
Topics    == (a :> {x}) @@ (b :> {y}) @@ (c :> {}) @@ (d :> {})
Manifests == (a :> "signed") @@ (b :> "unsigned") @@ (c :> "broken") @@ (d :> "signed")
Certificates == (a :> {"valid"}) @@ (b :> {"valid"}) @@ (c :> {"none"}) @@ (d :> {"invalid", "corrupt"})

RuleOrder == <<r1, r2>>
Triggers  == (r1 :> "created") @@ (r2 :> "created")
Wheres    == (r1 :> TRUE) @@ (r2 :> FALSE)

allvars == <<vars, rulesVars, governance, scene>>

InitParts ==
    /\ Init /\ InitRules /\ InitGovernance
    /\ scene \in {"host", "rules", "agents", "governance", "AI"}
    /\ scene \in {"host", "governance", "AI"} => rulebook.file = {} /\ child = [r \in Rules |-> {}]
    /\ scene = "rules"  => child = [r \in Rules |-> Whole]
    /\ scene = "agents" => rulebook.file = {r2} /\ child[r1] = {}

Hosting(A) == scene = "host" /\ A /\ UNCHANGED <<rulesVars, governance, scene>>

Governing(A) == scene = "governance" /\ A /\ UNCHANGED <<vars, rulesVars, scene>>

NextParts ==
    \/ Hosting(Next)
    \/ scene = "rules"  /\ UNCHANGED <<vars, child, vaultQueue, governance, scene>> /\ RulesStep
    \/ scene = "agents" /\ UNCHANGED <<vars, edits, governance, scene>> /\ RulesStep
    \/ Governing(GovernanceStep)
    \/ scene = "AI" /\ UNCHANGED <<vars, governance, scene>>
       /\ (startRules \/ exitProcess \/ tickRules \/ AIStep)

\* The event loop runs the host's own steps and its timers; nothing makes the
\* code of a plugin settle.
SpecParts == InitParts /\ [][NextParts]_allvars /\ WF_allvars(Hosting(BootStep))
                /\ WF_allvars(Governing(tick))

\* What is under way is interchangeable.  AllVisited and MatrixHolds are about
\* the scenes "host" and "governance", whose states the permutations leave alone.
UnderWay == Permutations(Mutations) \cup Permutations(Edits)

Busy  == {m \in Mutations : mutations[m].step # "idle"}
Doing == {e \in Edits : edits[e].step # "idle"}

\* Bound: at most two mutations and edits are under way, and one mutation among
\* the edits; a record is made and deleted, and no rule waits for its update; the
\* agent's rule takes every record for the same.
TwoAtOnce ==
    /\ Cardinality(Busy) + Cardinality(Doing) <= 2
    /\ scene = "rules" => Cardinality(Busy) <= 1
    /\ \A m \in Mutations : mutations[m].kind # "updated"
    /\ scene = "agents" => \A m \in Mutations : mutations[m].value # "plain"

=============================================================================
