-------------------------- MODULE TaskBrokerProofs --------------------------
(* Type correctness of the broker and the two invariants that matter most,   *)
(* for every set of peers, skills, tasks and registration options: a slot is *)
(* never leaked, and no remote task reaches a handler without its grants.    *)
EXTENDS TaskBroker, FiniteSetTheorems, TLAPS

\* The registry only ever holds records of the declared shape.
LEMMA NormalizeType ==
  ASSUME NEW o \in SkillRecord PROVE Normalize(o) \in SkillRecord
<1>1. CASE o.httpBridgeOnly
  BY <1>1 DEF Normalize, SkillRecord
<1>2. CASE ~o.httpBridgeOnly
  BY <1>2 DEF Normalize
<1>3. QED
  BY <1>1, <1>2

\* Updating a function at one argument keeps its range.
LEMMA ExceptType ==
  ASSUME NEW S, NEW R, NEW f \in [S -> R], NEW x \in S, NEW v \in R
  PROVE  [f EXCEPT ![x] = v] \in [S -> R]
OBVIOUS

LEMMA ModesType ==
  ASSUME NEW r \in SkillRecord, NEW a \in BOOLEAN PROVE ModesFor(r, a) \in SUBSET Gates
<1>1. CASE r.remote = NoPolicy
  BY <1>1 DEF ModesFor
<1>2. CASE r.remote # NoPolicy
  <2>1. r.remote \in Policy
    BY <1>2 DEF SkillRecord
  <2>2. r.remote.gate \in SUBSET Gates
    BY <2>1 DEF Policy
  <2>3. QED
    BY <1>2, <2>2 DEF ModesFor
<1>3. QED
  BY <1>1, <1>2

\* A task past its arrival has the record of a skill.
HasRecord ==
    \A t \in Tasks : pc[t] \notin {"idle", "done"} => call[t].rec \in SkillRecord

\* A task that a mode granted has a transport-verified peer.
HasPeer ==
    \A t \in Tasks : pc[t] \in {"agent", "matrix", "approve", "admit"} => call[t].peer \in Peers

TypeInv == TypeOK /\ HasRecord /\ HasPeer

-----------------------------------------------------------------------------
LEMMA InitTypeInv == Init => TypeInv
<1> SUFFICES ASSUME Init PROVE TypeInv
  OBVIOUS
<1> USE BrokerAssumption
<1>1. NoCall \in Call
  BY DEF NoCall, Call, Vias
<1>2. QED
  BY <1>1 DEF Init, TypeInv, TypeOK, HasRecord, HasPeer, PcValues

\* The history never leaves its three facts.
LEMMA RememberType ==
  ASSUME since \in [Tasks -> SUBSET {"matrix", "agent", "gate"}], Remember
  PROVE  since' \in [Tasks -> SUBSET {"matrix", "agent", "gate"}]
BY DEF Remember, MatrixFact, AgentFact, GateFact

LEMMA ArriveType ==
  ASSUME TypeInv, Remember, NEW t \in Tasks, Arrive(t) PROVE TypeInv'
<1> USE BrokerAssumption
<1> USE DEF TypeInv, TypeOK, PcValues, Goto
<1>1. PICK via \in Vias, p \in Peers \cup {Anonymous}, s \in Skills :
        /\ via # "network" => p = Anonymous
        /\ call' = [call EXCEPT ![t] =
                      [via |-> via, peer |-> p, skill |-> s, rec |-> skills[s]]]
        /\ IF skills[s] = NoSkill
           THEN Goto(t, "done") /\ UNCHANGED activeTasks
           ELSE IF via # "network"
           THEN Dispatch(t, skills[s], via)
           ELSE /\ Goto(t, IF skills[s].localOnly \/ skills[s].httpBridgeOnly THEN "done"
                           ELSE IF p = Anonymous THEN "gate" ELSE "agent")
                /\ UNCHANGED activeTasks
  BY DEF Arrive
<1> DEFINE new == [via |-> via, peer |-> p, skill |-> s, rec |-> skills[s]]
<1>2. new \in Call /\ new.rec = skills[s] /\ new.peer = p
  BY DEF Call
<1>3. call' \in [Tasks -> Call] /\ call'[t] = new /\ \A u \in Tasks \ {t} : call'[u] = call[u]
  BY <1>1, <1>2
<1>4. /\ pc' = [pc EXCEPT ![t] = pc'[t]]
      /\ pc'[t] \in {"done", "run", "gate", "agent"}
      /\ activeTasks' \in Int
      /\ skills[s] = NoSkill => pc'[t] = "done"
      /\ pc'[t] = "agent" => p \in Peers
  BY <1>1 DEF Dispatch
<1>5. since' \in [Tasks -> SUBSET {"matrix", "agent", "gate"}]
  BY RememberType
<1>u. UNCHANGED <<surroundings, budgets, label, modes, approved>>
  BY DEF Arrive
<1>6. TypeOK'
  <2>1. pc' \in [Tasks -> PcValues]
    BY <1>4
  <2>2. QED
    BY <1>3, <1>4, <1>5, <1>u, <2>1 DEF surroundings, budgets
<1>7. HasRecord'
  BY <1>2, <1>3, <1>4 DEF HasRecord
<1>8. HasPeer'
  BY <1>2, <1>3, <1>4 DEF HasPeer
<1>9. QED
  BY <1>6, <1>7, <1>8

\* The steps between the arrival and the handler leave the call as it is.
LEMMA AwaitType ==
  ASSUME TypeInv, Remember, NEW t \in Tasks,
         ResolveAgent(t) \/ CheckMatrix(t) \/ TryMode(t) \/ Approve(t) \/ Admit(t) \/ Finish(t)
  PROVE  TypeInv'
<1> USE BrokerAssumption
<1> USE DEF TypeInv, TypeOK, PcValues, Goto
<1>1. since' \in [Tasks -> SUBSET {"matrix", "agent", "gate"}]
  BY RememberType
<1>2. call[t] \in Call /\ (pc[t] \notin {"idle", "done"} => call[t].rec \in SkillRecord)
  BY DEF HasRecord
<1>3. call[t].skill \in Skills \cup {NoSkill} /\ call[t].peer \in Peers \cup {Anonymous}
  BY <1>2 DEF Call
<1>4. CASE ResolveAgent(t)
  <2>1. /\ label' = [label EXCEPT ![t] = call[t].peer \in agents]
           \/ label' = [label EXCEPT ![t] = FALSE]
        /\ pc[t] = "agent" /\ pc' = [pc EXCEPT ![t] = "matrix"]
        /\ UNCHANGED <<surroundings, budgets, activeTasks, call, modes, approved>>
    BY <1>4 DEF ResolveAgent
  <2>2. label' \in [Tasks -> BOOLEAN]
    <3>1. label \in [Tasks -> BOOLEAN] /\ (call[t].peer \in agents) \in BOOLEAN
      OBVIOUS
    <3>2. /\ [label EXCEPT ![t] = call[t].peer \in agents] \in [Tasks -> BOOLEAN]
          /\ [label EXCEPT ![t] = FALSE] \in [Tasks -> BOOLEAN]
      BY <3>1, ExceptType
    <3>3. QED
      BY <2>1, <3>2
  <2>3. TypeOK'
    BY <1>1, <2>1, <2>2 DEF surroundings, budgets
  <2>4. HasRecord' /\ HasPeer'
    BY <2>1 DEF HasRecord, HasPeer
  <2>5. QED
    BY <2>3, <2>4
<1>5. CASE CheckMatrix(t)
  <2>1. modes' \in [Tasks -> SUBSET Gates]
    BY <1>2, <1>5, ModesType DEF CheckMatrix, Refuse
  <2>2. QED
    BY <1>1, <1>5, <2>1 DEF CheckMatrix, Refuse, HasRecord, HasPeer, surroundings, budgets
<1>6. ASSUME Telemetry(t)
      PROVE  /\ teleUsed' \in [Peers \X Skills -> 0..TelemetryMax]
             /\ pc' \in [Tasks -> PcValues]
             /\ pc' = [pc EXCEPT ![t] = pc'[t]] /\ pc'[t] \in {"admit", "done"}
  <2> DEFINE key == <<call[t].peer, call[t].skill>>
  <2>1. CASE UNCHANGED teleUsed
    BY <1>6, <2>1 DEF Telemetry
  <2>2. CASE teleUsed[key] < TelemetryMax /\ teleUsed' = [teleUsed EXCEPT ![key] = @ + 1]
    <3>1. CASE key \in Peers \X Skills
      <4>1. teleUsed[key] + 1 \in 0..TelemetryMax
        BY <2>2, <3>1
      <4>2. QED
        BY <1>6, <2>2, <3>1, <4>1, ExceptType DEF Telemetry
    <3>2. CASE key \notin Peers \X Skills
      BY <1>6, <2>2, <3>2 DEF Telemetry
    <3>3. QED
      BY <3>1, <3>2
  <2>3. QED
    BY <1>6, <2>1, <2>2 DEF Telemetry
<1>7. CASE TryMode(t)
  <2>1. CASE UNCHANGED teleUsed /\ pc'[t] \in {"gate", "done"}
    <3>1. /\ modes' \in [Tasks -> SUBSET Gates]
          /\ pc' = [pc EXCEPT ![t] = pc'[t]]
          /\ pc[t] = "gate"
          /\ UNCHANGED <<surroundings, peerUsed, activeTasks, call, label, approved>>
      BY <1>6, <1>7, <2>1 DEF TryMode
    <3>2. TypeOK'
      BY <1>1, <2>1, <3>1 DEF surroundings
    <3>3. HasRecord' /\ HasPeer'
      BY <2>1, <3>1 DEF HasRecord, HasPeer
    <3>4. QED
      BY <3>2, <3>3
  <2>2. CASE ~(UNCHANGED teleUsed /\ pc'[t] \in {"gate", "done"})
    <3>1. PICK m \in modes[t] : ModeGrants(call[t], m)
      BY <1>7, <2>2 DEF TryMode
    <3>2. call[t].peer \in Peers
      BY <3>1 DEF ModeGrants
    <3>3. /\ UNCHANGED <<surroundings, peerUsed, activeTasks, call, label, approved, modes>>
          /\ pc' = [pc EXCEPT ![t] = pc'[t]]
          /\ pc'[t] \in {"approve", "admit", "done"}
          /\ teleUsed' \in [Peers \X Skills -> 0..TelemetryMax]
          /\ pc[t] = "gate"
      BY <1>6, <1>7, <2>2 DEF TryMode
    <3>4. TypeOK'
      BY <1>1, <3>3 DEF surroundings
    <3>5. HasRecord' /\ HasPeer'
      BY <3>2, <3>3 DEF HasRecord, HasPeer
    <3>6. QED
      BY <3>4, <3>5
  <2>3. QED
    BY <2>1, <2>2
<1>8. CASE Approve(t)
  <2>1. /\ teleUsed' \in [Peers \X Skills -> 0..TelemetryMax]
        /\ pc' = [pc EXCEPT ![t] = pc'[t]] /\ pc'[t] \in {"admit", "done"}
        /\ approved' \in [Tasks -> BOOLEAN] /\ pc[t] = "approve"
        /\ UNCHANGED <<surroundings, peerUsed, activeTasks, call, label, modes>>
    BY <1>6, <1>8 DEF Approve
  <2>2. TypeOK'
    BY <1>1, <2>1 DEF surroundings
  <2>3. HasRecord' /\ HasPeer'
    BY <2>1 DEF HasRecord, HasPeer
  <2>4. QED
    BY <2>2, <2>3
<1>9. CASE Admit(t)
  <2>1. /\ peerUsed' \in [Peers -> 0..PeerMax]
        /\ pc' = [pc EXCEPT ![t] = pc'[t]] /\ pc'[t] \in {"run", "done"}
        /\ activeTasks' \in Int /\ pc[t] = "admit"
        /\ UNCHANGED <<surroundings, teleUsed, call, label, modes, approved>>
    BY <1>9 DEF Admit, Dispatch, HasPeer
  <2>2. TypeOK'
    BY <1>1, <2>1 DEF surroundings
  <2>3. HasRecord' /\ HasPeer'
    BY <2>1 DEF HasRecord, HasPeer
  <2>4. QED
    BY <2>2, <2>3
<1>10. CASE Finish(t)
  BY <1>1, <1>10 DEF Finish, HasRecord, HasPeer, surroundings, budgets
<1>11. QED
  BY <1>4, <1>5, <1>7, <1>8, <1>9, <1>10

LEMMA OtherType ==
  ASSUME TypeInv, Remember,
         \/ \E t \in Tasks : Answer(t)
         \/ \E p \in Peers : PeerWindow(p)
         \/ \E x \in Peers \X Skills : TelemetryWindow(x)
         \/ Surround
  PROVE  TypeInv'
<1> USE BrokerAssumption
<1> USE DEF TypeInv, TypeOK, PcValues, Goto
<1>1. since' \in [Tasks -> SUBSET {"matrix", "agent", "gate"}]
  BY RememberType
<1>2. ASSUME NEW t \in Tasks, Answer(t) PROVE TypeInv'
  <2>1. NoCall \in Call
    BY DEF NoCall, Call, Vias
  <2>2. call' \in [Tasks -> Call] /\ \A u \in Tasks \ {t} : call'[u] = call[u]
    BY <1>2, <2>1 DEF Answer
  <2>3. /\ pc' \in [Tasks -> PcValues] /\ pc' = [pc EXCEPT ![t] = "idle"]
        /\ label' \in [Tasks -> BOOLEAN] /\ approved' \in [Tasks -> BOOLEAN]
        /\ modes' \in [Tasks -> SUBSET Gates]
        /\ UNCHANGED <<surroundings, budgets, activeTasks>>
    BY <1>2 DEF Answer
  <2>4. TypeOK'
    BY <1>1, <2>2, <2>3 DEF surroundings, budgets
  <2>5. HasRecord' /\ HasPeer'
    BY <2>2, <2>3 DEF HasRecord, HasPeer
  <2>6. QED
    BY <2>4, <2>5
<1>3. ASSUME NEW p \in Peers, PeerWindow(p) PROVE TypeInv'
  BY <1>1, <1>3 DEF PeerWindow, HasRecord, HasPeer, surroundings
<1>4. ASSUME NEW x \in Peers \X Skills, TelemetryWindow(x) PROVE TypeInv'
  <2>1. teleUsed[x] - 1 \in 0..TelemetryMax
    BY <1>4 DEF TelemetryWindow
  <2>2. teleUsed' \in [Peers \X Skills -> 0..TelemetryMax]
    BY <1>4, <2>1, ExceptType DEF TelemetryWindow
  <2>3. QED
    BY <1>1, <1>4, <2>2 DEF TelemetryWindow, HasRecord, HasPeer, surroundings
<1>5. CASE Surround
  <2>1. UNCHANGED <<budgets, activeTasks, pc, call, label, modes, approved>>
        /\ changes' \in 0..MaxChanges
    BY <1>5 DEF Surround
  <2>2. skills' \in [Skills -> SkillRecord \cup {NoSkill}]
    BY <1>5, NormalizeType
       DEF Surround, Register, Unregister, ChangeContact, ChangeMatrix, ChangeAgent,
           IssuePass, LosePass
  <2>3. contacts' \in SUBSET Peers /\ agents' \in SUBSET Peers
    BY <1>5 DEF Surround, Register, Unregister, ChangeContact, ChangeMatrix,
                ChangeAgent, IssuePass, LosePass
  <2>4. passes' \in SUBSET (Peers \X Skills)
    BY <1>5 DEF Surround, Register, Unregister, ChangeContact, ChangeMatrix,
                ChangeAgent, IssuePass, LosePass
  <2>5. matrix' \in [Peers -> SUBSET Skills]
    BY <1>5 DEF Surround, Register, Unregister, ChangeContact, ChangeMatrix,
                ChangeAgent, IssuePass, LosePass
  <2>6. QED
    BY <1>1, <2>1, <2>2, <2>3, <2>4, <2>5 DEF HasRecord, HasPeer, budgets
<1>6. QED
  BY <1>2, <1>3, <1>4, <1>5

LEMMA TypeInvariance == Spec => []TypeInv
<1>1. TypeInv /\ [Next]_vars => TypeInv'
  <2>1. CASE Next
    BY <2>1, ArriveType, AwaitType, OtherType DEF Next, Step, TaskStep, Proceed
  <2>2. CASE UNCHANGED vars
    BY <2>2 DEF vars, surroundings, budgets, TypeInv, TypeOK, HasRecord, HasPeer
  <2>3. QED
    BY <2>1, <2>2
<1>2. QED
  BY <1>1, InitTypeInv, PTL DEF Spec

(* The registry, the lookups, the budgets and every call keep their types in *)
(* every behaviour of the broker.                                            *)
THEOREM TypeCorrect == Spec => []TypeOK
BY TypeInvariance, PTL DEF TypeInv

-----------------------------------------------------------------------------
(* What the stage a task has reached says about the grants behind it.        *)
Sound(t) ==
    /\ pc[t] \in {"agent", "matrix", "gate", "approve", "admit"} => call[t].via = "network"
    /\ pc[t] \notin {"idle", "done"} /\ call[t].via = "network" =>
          /\ ~call[t].rec.localOnly /\ ~call[t].rec.httpBridgeOnly
          /\ pc[t] \in {"gate", "approve", "admit", "run"} => "matrix" \in since[t]
          /\ pc[t] \in {"approve", "admit", "run"} => "gate" \in since[t]
          /\ pc[t] \in {"admit", "run"} /\ label[t] =>
                /\ call[t].rec.remote.level # "never"
                /\ call[t].rec.remote.level = "approved" => approved[t]
    /\ pc[t] = "gate" => modes[t] \subseteq ModesFor(call[t].rec, label[t])
    /\ pc[t] = "approve" => call[t].rec.remote.level = "approved"
    /\ pc[t] = "idle" => modes[t] = {}

\* The history of a task in progress only grows, by what holds after the step.
LEMMA Growing ==
  ASSUME Remember, NEW t \in Tasks, pc'[t] \notin {"idle", "done"}, call'[t].via = "network"
  PROVE  /\ since[t] \subseteq since'[t]
         /\ MatrixAllows(call[t])' => "matrix" \in since'[t]
         /\ /\ pc'[t] \in {"gate", "approve", "admit", "run"}
            /\ \E m \in ModesFor(call[t].rec, label[t])' : ModeGrants(call[t], m)'
            => "gate" \in since'[t]
<1>1. since'[t] = since[t] \cup MatrixFact(t)' \cup AgentFact(t)' \cup GateFact(t)'
  BY DEF Remember
<1>2. QED
  BY <1>1 DEF MatrixFact, GateFact

\* A step that leaves a task where it is leaves it sound.
LEMMA Frame ==
  ASSUME Remember, NEW t \in Tasks, Sound(t),
         pc'[t] = pc[t], call'[t] = call[t], label'[t] = label[t],
         modes'[t] = modes[t], approved'[t] = approved[t]
  PROVE  Sound(t)'
<1>1. pc[t] \notin {"idle", "done"} /\ call[t].via = "network" => since[t] \subseteq since'[t]
  BY Growing
<1>2. ModesFor(call[t].rec, label[t])' = ModesFor(call[t].rec, label[t])
  BY DEF ModesFor
<1>3. QED
  BY <1>1, <1>2 DEF Sound

\* A task that is over, or that never was a network task, is sound.
LEMMA Settled ==
  ASSUME NEW t \in Tasks,
         pc'[t] = "done" \/ (pc'[t] = "run" /\ call'[t].via # "network")
  PROVE  Sound(t)'
BY DEF Sound

LEMMA ArriveSound ==
  ASSUME TypeInv, Remember, NEW t \in Tasks, Arrive(t), Sound(t) PROVE Sound(t)'
<1> USE DEF TypeInv, TypeOK, PcValues, Goto
<1>1. PICK via \in Vias, p \in Peers \cup {Anonymous}, s \in Skills :
        /\ via # "network" => p = Anonymous
        /\ call' = [call EXCEPT ![t] =
                      [via |-> via, peer |-> p, skill |-> s, rec |-> skills[s]]]
        /\ IF skills[s] = NoSkill
           THEN Goto(t, "done") /\ UNCHANGED activeTasks
           ELSE IF via # "network"
           THEN Dispatch(t, skills[s], via)
           ELSE /\ Goto(t, IF skills[s].localOnly \/ skills[s].httpBridgeOnly THEN "done"
                           ELSE IF p = Anonymous THEN "gate" ELSE "agent")
                /\ UNCHANGED activeTasks
  BY DEF Arrive
<1> DEFINE new == [via |-> via, peer |-> p, skill |-> s, rec |-> skills[s]]
<1>2. call'[t] = new /\ new.via = via /\ new.peer = p /\ new.rec = skills[s]
  BY <1>1
<1>3. CASE skills[s] = NoSkill \/ via # "network"
  <2>1. pc'[t] \in {"done", "run"}
    BY <1>1, <1>3 DEF Dispatch
  <2>2. pc'[t] = "run" => via # "network"
    BY <1>1, <1>3
  <2>3. QED
    BY <1>2, <2>1, <2>2, Settled
<1>4. CASE skills[s] # NoSkill /\ via = "network"
  <2>1. /\ pc'[t] \in {"done", "gate", "agent"}
        /\ pc'[t] # "done" => ~skills[s].localOnly /\ ~skills[s].httpBridgeOnly
        /\ pc'[t] = "gate" => p = Anonymous
    BY <1>1, <1>4
  <2>2. pc'[t] = "gate" => MatrixAllows(call[t])'
    BY <1>2, <2>1, BrokerAssumption DEF MatrixAllows
  <2>3. pc[t] = "idle" /\ modes'[t] = modes[t]
    BY DEF Arrive
  <2>4. CASE pc'[t] = "gate"
    <3>1. "matrix" \in since'[t]
      BY <1>2, <1>4, <2>2, <2>4, Growing
    <3>2. modes'[t] = {}
      BY <2>3 DEF Sound
    <3>3. QED
      BY <1>2, <1>4, <2>1, <2>4, <3>1, <3>2 DEF Sound
  <2>5. CASE pc'[t] # "gate"
    BY <1>2, <1>4, <2>1, <2>5 DEF Sound
  <2>6. QED
    BY <2>4, <2>5
<1>5. QED
  BY <1>3, <1>4

LEMMA AwaitSound ==
  ASSUME TypeInv, Remember, NEW t \in Tasks, Sound(t),
         ResolveAgent(t) \/ CheckMatrix(t) \/ Admit(t) \/ Finish(t) \/ Answer(t)
  PROVE  Sound(t)'
<1> USE DEF TypeInv, TypeOK, PcValues, Goto
<1>1. CASE pc'[t] = "done"
  BY <1>1, Settled
<1>2. CASE ResolveAgent(t)
  <2>1. pc'[t] = "matrix" /\ pc[t] = "agent" /\ UNCHANGED call
    BY <1>2 DEF ResolveAgent
  <2>2. QED
    BY <2>1 DEF Sound
<1>3. CASE CheckMatrix(t) /\ pc'[t] # "done"
  <2>1. /\ pc[t] = "matrix" /\ pc'[t] = "gate" /\ UNCHANGED <<call, label, matrix>>
        /\ MatrixAllows(call[t])
        /\ modes'[t] = ModesFor(call[t].rec, label[t])
    BY <1>3 DEF CheckMatrix, Refuse, surroundings
  <2>2. MatrixAllows(call[t])'
    BY <2>1 DEF MatrixAllows
  <2>3. ModesFor(call[t].rec, label[t])' = ModesFor(call[t].rec, label[t])
    BY <2>1
  <2>4. call[t].via = "network"
    BY <2>1 DEF Sound
  <2>5. "matrix" \in since'[t]
    BY <2>1, <2>2, <2>4, Growing
  <2>6. QED
    BY <2>1, <2>3, <2>4, <2>5 DEF Sound
<1>4. CASE Admit(t) /\ pc'[t] # "done"
  <2>1. pc[t] = "admit" /\ pc'[t] = "run" /\ UNCHANGED <<call, label, modes, approved>>
    BY <1>4 DEF Admit, Dispatch
  <2>2. call[t].via = "network" /\ since[t] \subseteq since'[t]
    BY <2>1, Growing DEF Sound
  <2>3. QED
    BY <2>1, <2>2 DEF Sound
<1>5. CASE Finish(t)
  BY <1>1, <1>5 DEF Finish
<1>6. CASE Answer(t)
  BY <1>6 DEF Answer, Sound
<1>7. QED
  BY <1>1, <1>2, <1>3, <1>4, <1>5, <1>6

LEMMA GrantSound ==
  ASSUME TypeInv, Remember, NEW t \in Tasks, Sound(t), TryMode(t) \/ Approve(t)
  PROVE  Sound(t)'
<1> USE DEF TypeInv, TypeOK, PcValues, Goto
<1>1. CASE pc'[t] = "done"
  BY <1>1, Settled
<1>2. UNCHANGED <<call, label, contacts, passes>> /\ call[t].via = "network"
  BY DEF TryMode, Approve, Sound, surroundings
<1>3. CASE TryMode(t) /\ pc'[t] = "gate"
  <2>1. pc[t] = "gate" /\ modes'[t] \subseteq modes[t]
    BY <1>3 DEF TryMode
  <2>2. since[t] \subseteq since'[t]
    BY <1>2, <1>3, Growing
  <2>3. QED
    BY <1>2, <1>3, <2>1, <2>2 DEF Sound
<1>4. CASE TryMode(t) /\ pc'[t] \notin {"gate", "done"}
  <2>1. PICK m \in modes[t] :
          /\ ModeGrants(call[t], m)
          /\ UNCHANGED modes
          /\ IF label[t] /\ call[t].rec.remote.level = "never"
             THEN Goto(t, "done") /\ UNCHANGED teleUsed
             ELSE IF label[t] /\ call[t].rec.remote.level = "approved"
             THEN Goto(t, "approve") /\ UNCHANGED teleUsed
             ELSE Telemetry(t)
    BY <1>4 DEF TryMode
  <2>2. /\ pc[t] = "gate" /\ pc'[t] \in {"approve", "admit"}
        /\ pc'[t] = "approve" => call[t].rec.remote.level = "approved"
        /\ pc'[t] = "admit" /\ label[t] => call[t].rec.remote.level \notin {"never", "approved"}
    BY <1>4, <2>1 DEF TryMode, Telemetry
  <2>3. m \in ModesFor(call[t].rec, label[t])' /\ ModeGrants(call[t], m)'
    BY <1>2, <2>1, <2>2 DEF Sound, ModesFor, ModeGrants
  <2>4. since[t] \subseteq since'[t] /\ "gate" \in since'[t]
    BY <1>2, <2>2, <2>3, Growing
  <2>5. QED
    BY <1>2, <2>2, <2>4 DEF Sound
<1>5. CASE Approve(t) /\ pc'[t] # "done"
  <2>1. pc[t] = "approve" /\ pc'[t] = "admit" /\ approved'[t]
    BY <1>5 DEF Approve, Telemetry
  <2>2. since[t] \subseteq since'[t]
    BY <1>2, <2>1, Growing
  <2>3. QED
    BY <1>2, <2>1, <2>2 DEF Sound
<1>6. QED
  BY <1>1, <1>3, <1>4, <1>5 DEF TryMode, Approve

LEMMA SoundStep ==
  ASSUME TypeInv, Next, NEW u \in Tasks, Sound(u)
  PROVE  Sound(u)'
<1> USE DEF TypeInv, TypeOK, Goto
<1>1. Remember /\ Step
  BY DEF Next
<1>2. ASSUME NEW t \in Tasks, TaskStep(t), t # u PROVE Sound(u)'
  <2>1. /\ pc'[u] = pc[u] /\ call'[u] = call[u] /\ label'[u] = label[u]
        /\ modes'[u] = modes[u] /\ approved'[u] = approved[u]
    BY <1>2 DEF TaskStep, Proceed, Arrive, ResolveAgent, CheckMatrix, TryMode,
                Approve, Admit, Finish, Answer, Refuse, Dispatch, Telemetry
  <2>2. QED
    BY <1>1, <2>1, Frame
<1>3. CASE TaskStep(u)
  BY <1>1, <1>3, ArriveSound, AwaitSound, GrantSound DEF TaskStep, Proceed
<1>4. CASE ~(\E t \in Tasks : TaskStep(t))
  BY <1>1, <1>4, Frame DEF Step, PeerWindow, TelemetryWindow, Surround
<1>5. QED
  BY <1>2, <1>3, <1>4

LEMMA SoundInvariance == Spec => [](\A t \in Tasks : Sound(t))
<1> DEFINE AllSound == \A t \in Tasks : Sound(t)
<1>1. Init => AllSound
  BY DEF Init, Sound
<1>2. TypeInv /\ AllSound /\ [Next]_vars => AllSound'
  <2>1. ASSUME TypeInv, AllSound, Next PROVE AllSound'
    BY <2>1, SoundStep
  <2>2. ASSUME AllSound, UNCHANGED vars PROVE AllSound'
    BY <2>2 DEF vars, surroundings, Sound, ModesFor
  <2>3. QED
    BY <2>1, <2>2
<1>3. QED
  BY <1>1, <1>2, TypeInvariance, PTL DEF Spec

(* No remote task reaches a handler unless, since it arrived, the matrix     *)
(* allowed it and a mode open to its kind of caller granted it; an agent at  *)
(* level "approved" needs the operator's yes.  Whatever is registered,       *)
(* granted or revoked while execute awaits.                                  *)
THEOREM GatesHold == Spec => []Authorized
<1>1. (\A t \in Tasks : Sound(t)) => Authorized
  BY DEF Authorized, Running, Sound
<1>2. QED
  BY <1>1, SoundInvariance, PTL

-----------------------------------------------------------------------------
\* A step either dispatches one task and counts it, ends one and uncounts it,
\* or leaves both the running tasks and the counter alone.
LEMMA CounterStep ==
  ASSUME TypeInv, Next
  PROVE  \/ Running' = Running /\ activeTasks' = activeTasks
         \/ \E t \in Tasks \ Running :
               /\ Running' = Running \cup {t}
               /\ activeTasks' = activeTasks + 1
               /\ activeTasks < MaxConcurrentTasks
         \/ \E t \in Running : Running' = Running \ {t} /\ activeTasks' = activeTasks - 1
<1> USE BrokerAssumption
<1> USE DEF TypeInv, TypeOK, PcValues, Goto, Running
<1>1. ASSUME NEW t \in Tasks, pc[t] # "run",
             pc' = [pc EXCEPT ![t] = pc'[t]],
             \/ pc'[t] # "run" /\ activeTasks' = activeTasks
             \/ /\ pc'[t] = "run" /\ activeTasks' = activeTasks + 1
                /\ activeTasks < MaxConcurrentTasks
      PROVE  \/ Running' = Running /\ activeTasks' = activeTasks
             \/ \E u \in Tasks \ Running :
                   /\ Running' = Running \cup {u}
                   /\ activeTasks' = activeTasks + 1
                   /\ activeTasks < MaxConcurrentTasks
  <2>1. CASE pc'[t] # "run"
    BY <1>1, <2>1
  <2>2. CASE pc'[t] = "run"
    <3>1. t \in Tasks \ Running /\ Running' = Running \cup {t}
      BY <1>1, <2>2
    <3>2. QED
      BY <1>1, <2>2, <3>1
  <2>3. QED
    BY <2>1, <2>2
<1>2. ASSUME NEW t \in Tasks, Arrive(t) \/ ResolveAgent(t) \/ CheckMatrix(t) \/ TryMode(t)
                              \/ Approve(t) \/ Admit(t) \/ Answer(t)
      PROVE  /\ pc[t] # "run" /\ pc' = [pc EXCEPT ![t] = pc'[t]]
             /\ \/ pc'[t] # "run" /\ activeTasks' = activeTasks
                \/ /\ pc'[t] = "run" /\ activeTasks' = activeTasks + 1
                   /\ activeTasks < MaxConcurrentTasks
  <2>1. CASE Arrive(t)
    BY <2>1 DEF Arrive, Dispatch
  <2>2. CASE Admit(t)
    BY <2>2 DEF Admit, Dispatch
  <2>3. CASE TryMode(t)
    BY <2>3 DEF TryMode, Telemetry
  <2>4. CASE Approve(t)
    BY <2>4 DEF Approve, Telemetry
  <2>5. CASE ResolveAgent(t) \/ CheckMatrix(t) \/ Answer(t)
    BY <2>5 DEF ResolveAgent, CheckMatrix, Refuse, Answer
  <2>6. QED
    BY <1>2, <2>1, <2>2, <2>3, <2>4, <2>5
<1>3. ASSUME NEW t \in Tasks, Finish(t)
      PROVE  t \in Running /\ Running' = Running \ {t} /\ activeTasks' = activeTasks - 1
  BY <1>3 DEF Finish
<1>4. CASE ~(\E t \in Tasks : TaskStep(t))
  BY <1>4 DEF Next, Step, PeerWindow, TelemetryWindow, Surround
<1>5. QED
  BY <1>1, <1>2, <1>3, <1>4 DEF TaskStep, Proceed

(* activeTasks is the number of handlers in flight and never exceeds         *)
(* maxConcurrentTasks: no denial, bad payload or throw leaks or doubles a    *)
(* slot, for any number of concurrent callers.                               *)
THEOREM NoSlotLeaked == Spec => []CapacityExact
<1> USE BrokerAssumption
<1>1. Init => CapacityExact
  <2> SUFFICES ASSUME Init PROVE CapacityExact
    OBVIOUS
  <2>1. Running = {}
    BY DEF Init, Running
  <2>2. QED
    BY <2>1, FS_EmptySet DEF Init, CapacityExact
<1>2. TypeInv /\ CapacityExact /\ [Next]_vars => CapacityExact'
  <2> SUFFICES ASSUME TypeInv, CapacityExact, [Next]_vars PROVE CapacityExact'
    OBVIOUS
  <2>1. IsFiniteSet(Running)
    BY FS_Subset DEF Running
  <2>2. Cardinality(Running) \in Nat
    BY <2>1, FS_CardinalityType
  <2>3. CASE UNCHANGED vars
    BY <2>3 DEF vars, CapacityExact, Running
  <2>4. CASE Next
    <3>1. CASE Running' = Running /\ activeTasks' = activeTasks
      BY <3>1 DEF CapacityExact
    <3>2. ASSUME NEW t \in Tasks \ Running, Running' = Running \cup {t},
                 activeTasks' = activeTasks + 1, activeTasks < MaxConcurrentTasks
          PROVE  CapacityExact'
      <4>1. Cardinality(Running') = Cardinality(Running) + 1
        BY <2>1, <3>2, FS_AddElement
      <4>2. QED
        BY <2>2, <3>2, <4>1 DEF CapacityExact
    <3>3. ASSUME NEW t \in Running, Running' = Running \ {t}, activeTasks' = activeTasks - 1
          PROVE  CapacityExact'
      <4>1. Cardinality(Running') = Cardinality(Running) - 1
        BY <2>1, <3>3, FS_RemoveElement
      <4>2. QED
        BY <2>2, <3>3, <4>1 DEF CapacityExact
    <3>4. QED
      BY <2>4, <3>1, <3>2, <3>3, CounterStep
  <2>5. QED
    BY <2>3, <2>4
<1>3. QED
  BY <1>1, <1>2, TypeInvariance, PTL DEF Spec

-----------------------------------------------------------------------------
\* A caller goes by the name of an agent only behind the lookup that found it
\* declared, which only network tasks come to.
Fresh(t) ==
    label[t] /\ pc[t] # "done" =>
        /\ pc[t] \notin {"idle", "agent"} /\ call[t].via = "network"
        /\ "agent" \in since[t]

LEMMA FreshStep ==
  ASSUME TypeInv, Next, NEW u \in Tasks, Sound(u), Fresh(u), label'[u], pc'[u] # "done"
  PROVE  /\ pc'[u] \notin {"idle", "agent"} /\ call'[u].via = "network"
         /\ "agent" \in since'[u]
<1> USE DEF TypeInv, TypeOK, PcValues, Goto
<1>1. Remember /\ Step
  BY DEF Next
<1>2. CASE label[u] /\ pc[u] # "done" /\ call'[u] = call[u] /\ pc'[u] \notin {"idle", "agent"}
  <2>1. "agent" \in since[u] /\ call'[u].via = "network"
    BY <1>2 DEF Fresh
  <2>2. QED
    BY <1>1, <1>2, <2>1, Growing
<1>3. CASE ResolveAgent(u)
  <2>1. /\ pc[u] = "agent" /\ pc'[u] = "matrix" /\ call'[u] = call[u] /\ agents' = agents
        /\ call[u].peer \in agents
    BY <1>3 DEF ResolveAgent, surroundings
  <2>2. call[u].via = "network"
    BY <2>1 DEF Sound
  <2>3. "agent" \in AgentFact(u)'
    BY <2>1 DEF AgentFact
  <2>4. QED
    BY <1>1, <2>1, <2>2, <2>3 DEF Remember
<1>4. CASE Arrive(u)
  BY <1>4 DEF Arrive, Fresh
<1>5. CASE CheckMatrix(u) \/ TryMode(u) \/ Approve(u) \/ Admit(u) \/ Finish(u)
  <2>1. label'[u] = label[u] /\ call'[u] = call[u] /\ pc'[u] \notin {"idle", "agent"} /\ pc[u] # "done"
    BY <1>5 DEF CheckMatrix, TryMode, Approve, Admit, Finish, Refuse, Dispatch, Telemetry
  <2>2. QED
    BY <1>2, <2>1
<1>6. CASE Answer(u)
  BY <1>6 DEF Answer
<1>7. CASE ~TaskStep(u)
  <2>1. label'[u] = label[u] /\ call'[u] = call[u] /\ pc'[u] = pc[u]
    <3>1. ASSUME NEW t \in Tasks, TaskStep(t), t # u
          PROVE  label'[u] = label[u] /\ call'[u] = call[u] /\ pc'[u] = pc[u]
      BY <3>1 DEF TaskStep, Proceed, Arrive, ResolveAgent, CheckMatrix, TryMode,
                  Approve, Admit, Finish, Answer, Refuse, Dispatch, Telemetry
    <3>2. QED
      BY <1>1, <1>7, <3>1 DEF Step, PeerWindow, TelemetryWindow, Surround
  <2>2. QED
    BY <1>2, <2>1 DEF Fresh
<1>8. QED
  BY <1>3, <1>4, <1>5, <1>6, <1>7 DEF TaskStep, Proceed

(* An identity that is no longer declared an agent, or not yet, does not     *)
(* make a task an agent's: the declaration held at some moment since the     *)
(* task arrived (agent-gate, resolveAgentLabel).                             *)
THEOREM AgentsAreFresh == Spec => []AgentIsFresh
<1> DEFINE AllSound == \A t \in Tasks : Sound(t)
           AllFresh == \A t \in Tasks : Fresh(t)
<1>1. Init => AllFresh
  BY DEF Init, Fresh
<1>2. TypeInv /\ AllSound /\ AllFresh /\ [Next]_vars => AllFresh'
  <2>1. ASSUME TypeInv, AllSound, AllFresh, Next PROVE AllFresh'
    BY <2>1, FreshStep DEF Fresh
  <2>2. ASSUME AllFresh, UNCHANGED vars PROVE AllFresh'
    BY <2>2 DEF vars, Fresh
  <2>3. QED
    BY <2>1, <2>2
<1>3. AllFresh => AgentIsFresh
  BY DEF AgentIsFresh, Fresh
<1>4. QED
  BY <1>1, <1>2, <1>3, TypeInvariance, SoundInvariance, PTL DEF Spec

-----------------------------------------------------------------------------
\* A peer's budget grows in Admit only, and a network task starts to run there only.
LEMMA ChargeStep ==
  ASSUME TypeInv, Step, \A t \in Tasks : Sound(t)
  PROVE  /\ \A p \in Peers : peerUsed'[p] > peerUsed[p] =>
                \E t \in Tasks : Admit(t) /\ call[t].peer = p /\ pc'[t] # "admit"
         /\ \A t \in Tasks : pc'[t] = "run" /\ pc[t] # "run" /\ call'[t].via = "network" =>
                peerUsed'[call[t].peer] = peerUsed[call[t].peer] + 1
<1> USE DEF TypeInv, TypeOK, PcValues, Goto
<1>1. ASSUME NEW t \in Tasks, Admit(t)
      PROVE  /\ \A p \in Peers : peerUsed'[p] > peerUsed[p] => call[t].peer = p /\ pc'[t] # "admit"
             /\ pc'[t] = "run" => peerUsed'[call[t].peer] = peerUsed[call[t].peer] + 1
             /\ \A u \in Tasks \ {t} : pc'[u] = pc[u]
  BY <1>1 DEF Admit, Dispatch, HasPeer
<1>2. ASSUME NEW t \in Tasks, Arrive(t)
      PROVE  /\ peerUsed' = peerUsed
             /\ \A u \in Tasks \ {t} : pc'[u] = pc[u]
             /\ pc'[t] = "run" => call'[t].via # "network"
  <2>1. PICK via \in Vias, p \in Peers \cup {Anonymous}, s \in Skills :
          /\ call' = [call EXCEPT ![t] =
                        [via |-> via, peer |-> p, skill |-> s, rec |-> skills[s]]]
          /\ IF skills[s] = NoSkill
             THEN Goto(t, "done") /\ UNCHANGED activeTasks
             ELSE IF via # "network"
             THEN Dispatch(t, skills[s], via)
             ELSE /\ Goto(t, IF skills[s].localOnly \/ skills[s].httpBridgeOnly THEN "done"
                             ELSE IF p = Anonymous THEN "gate" ELSE "agent")
                  /\ UNCHANGED activeTasks
    BY <1>2 DEF Arrive
  <2>2. call'[t].via = via
    BY <2>1
  <2>3. \A u \in Tasks \ {t} : pc'[u] = pc[u]
    BY <2>1 DEF Dispatch
  <2>4. pc'[t] = "run" => via # "network"
    BY <2>1
  <2>5. QED
    BY <1>2, <2>2, <2>3, <2>4 DEF Arrive, budgets
<1>3. ASSUME NEW t \in Tasks, \/ ResolveAgent(t) \/ CheckMatrix(t) \/ TryMode(t)
                              \/ Approve(t) \/ Finish(t) \/ Answer(t)
      PROVE  peerUsed' = peerUsed /\ \A u \in Tasks : pc'[u] = "run" => pc[u] = "run"
  BY <1>3 DEF ResolveAgent, CheckMatrix, TryMode, Approve, Finish, Answer, Refuse, Telemetry, budgets
<1>4. ASSUME NEW p \in Peers, PeerWindow(p)
      PROVE  pc' = pc /\ \A q \in Peers : peerUsed'[q] <= peerUsed[q]
  BY <1>4 DEF PeerWindow
<1>5. CASE Surround \/ \E x \in Peers \X Skills : TelemetryWindow(x)
  BY <1>5 DEF Surround, TelemetryWindow, budgets
<1>6. ASSUME NEW t \in Tasks, NEW p \in Peers, Admit(t), peerUsed'[p] > peerUsed[p]
      PROVE  \E u \in Tasks : Admit(u) /\ call[u].peer = p /\ pc'[u] # "admit"
  BY <1>1, <1>6
<1>7. \A p \in Peers : peerUsed[p] \in Nat
  OBVIOUS
<1>8. CASE \E t \in Tasks : Admit(t)
  BY <1>1, <1>6, <1>8
<1>9. CASE \E t \in Tasks : Arrive(t)
  BY <1>2, <1>7, <1>9
<1>10. CASE \E t \in Tasks : \/ ResolveAgent(t) \/ CheckMatrix(t) \/ TryMode(t)
                             \/ Approve(t) \/ Finish(t) \/ Answer(t)
  BY <1>3, <1>7, <1>10
<1>11. CASE \E p \in Peers : PeerWindow(p)
  <2>1. \A p \in Peers : peerUsed'[p] \in Int
    BY <1>11 DEF PeerWindow
  <2>2. QED
    BY <1>4, <1>7, <1>11, <2>1
<1>12. QED
  BY <1>5, <1>7, <1>8, <1>9, <1>10, <1>11 DEF Step, TaskStep, Proceed

(* A denied caller never consumes a peer's budget and no remote task runs    *)
(* for free: the budget of a peer grows only by a task of that peer that has *)
(* passed the matrix and a gate, and the step that dispatches it charges it  *)
(* (execute, peerTaskBudget).                                                *)
THEOREM BudgetIsExact == Spec => ChargedExactly
<1> DEFINE AllSound == \A t \in Tasks : Sound(t)
           Charged == /\ \A p \in Peers : peerUsed'[p] > peerUsed[p] =>
                            \E t \in Tasks : /\ pc[t] = "admit" /\ pc'[t] # "admit"
                                             /\ call[t].peer = p
                                             /\ {"matrix", "gate"} \subseteq since[t]
                      /\ \A t \in Tasks :
                            pc'[t] = "run" /\ pc[t] # "run" /\ call'[t].via = "network" =>
                                peerUsed'[call[t].peer] = peerUsed[call[t].peer] + 1
<1>1. TypeInv /\ AllSound /\ [Next]_vars => [Charged]_vars
  <2>1. ASSUME NEW t \in Tasks, AllSound, Admit(t)
        PROVE  pc[t] = "admit" /\ {"matrix", "gate"} \subseteq since[t]
    BY <2>1 DEF Admit, Sound
  <2>2. ASSUME TypeInv, AllSound, Step PROVE Charged
    BY <2>1, <2>2, ChargeStep
  <2>3. QED
    BY <2>2 DEF Next
<1>2. QED
  BY <1>1, TypeInvariance, SoundInvariance, PTL DEF Spec, ChargedExactly

=============================================================================
