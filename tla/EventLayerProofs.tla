-------------------------- MODULE EventLayerProofs --------------------------
(* For every set of subscribers, subscriptions and emissions: the hub never  *)
(* holds more than its caps allow, and no emission reaches a peer that was   *)
(* not a member at any moment since it began.                                *)
EXTENDS EventLayer, FiniteSetTheorems, TLAPS

\* An emission that looks at a recipient has one, and what its guards have let
\* through was a member at some moment since the emission began.
Cleared(e) ==
    /\ emit[e].pc \in {"guard", "answer"} => emit[e].sub \in Subs
    /\ emit[e].pc = "answer" /\ emit[e].verdict => PeerOf[emit[e].sub] \notin shutOut[e]

AllCleared == \A e \in Emits : Cleared(e)

IInv == TypeOK /\ CapsHold /\ AllCleared

USE WireAssumption, HubAssumption

-----------------------------------------------------------------------------
(* Types *)

\* What the steps that touch the requests make of them.
LEMMA PutType ==
  ASSUME req \in [Subs \X Actions -> Stages], NEW s \in Subs, NEW action \in Actions,
         NEW stage \in Stages, Put(s, action, stage)
  PROVE  req' \in [Subs \X Actions -> Stages]
  BY DEF Put

LEMMA ForgetType ==
  ASSUME TypeOKHub, NEW gone
  PROVE  /\ Forget(gone) \in [Emits -> [pc : {"idle", "loop", "guard", "answer"}, sub : Subs \cup {"none"},
                                        seen : SUBSET Subs, verdict : BOOLEAN]]
         /\ \A e \in Emits : /\ Forget(gone)[e].pc = emit[e].pc /\ Forget(gone)[e].sub = emit[e].sub
                             /\ Forget(gone)[e].verdict = emit[e].verdict
  BY DEF Forget, TypeOKHub

LEMMA NoEmitType ==
  /\ NoEmit \in [pc : {"idle", "loop", "guard", "answer"}, sub : Subs \cup {"none"},
                 seen : SUBSET Subs, verdict : BOOLEAN]
  /\ NoEmit.pc = "idle" /\ NoEmit.verdict = FALSE
  BY DEF NoEmit

\* The hub's steps, by what they touch of the hub's own state.
LEMMA HubType == TypeOK /\ AllCleared /\ HubStep /\ RememberHub => TypeOKHub'
  <1> SUFFICES ASSUME TypeOK, AllCleared, HubStep, RememberHub PROVE TypeOKHub'
    OBVIOUS
  <1> USE DEF TypeOK, TypeOKHub, Entries, hub, maps, gates, wire
  <1>1. shutOut' \in [Emits -> SUBSET Peers]
    BY DEF RememberHub
  <1>2. CASE SweepTimer
    BY <1>1, <1>2, ForgetType DEF SweepTimer, Sweep
  <1>3. ASSUME NEW s \in Subs, Expire(s) PROVE TypeOKHub'
    BY <1>1, <1>3 DEF Expire
  <1>4. ASSUME NEW s \in Subs, ReceiveSubscribe(s) PROVE TypeOKHub'
    BY <1>1, <1>4, ForgetType DEF ReceiveSubscribe, Sweep
  <1>5. ASSUME NEW s \in Subs, PassPeerGate(s) \/ GuardLooks(s) PROVE TypeOKHub'
    BY <1>1, <1>5 DEF PassPeerGate, GuardLooks
  <1>6. ASSUME NEW s \in Subs, RegisterSub(s) PROVE TypeOKHub'
    BY <1>1, <1>6 DEF RegisterSub
  <1>7. ASSUME NEW s \in Subs, ReceiveUnsubscribe(s) PROVE TypeOKHub'
    BY <1>1, <1>7, ForgetType DEF ReceiveUnsubscribe
  <1>8. ASSUME NEW e \in Emits, EmitLocal(e) PROVE TypeOKHub'
    <2>1. [NoEmit EXCEPT !.pc = "loop"] \in
             [pc : {"idle", "loop", "guard", "answer"}, sub : Subs \cup {"none"},
              seen : SUBSET Subs, verdict : BOOLEAN]
      BY DEF NoEmit
    <2>2. emit' \in [Emits -> [pc : {"idle", "loop", "guard", "answer"}, sub : Subs \cup {"none"},
                               seen : SUBSET Subs, verdict : BOOLEAN]]
      BY <1>8, <2>1, ForgetType DEF EmitLocal
    <2>3. table' \in [Subs -> Entries] /\ seqs' \in [Subs -> 0..MaxSeq] /\ UNCHANGED gates
      BY <1>8 DEF EmitLocal
    <2>. QED
      BY <1>1, <2>2, <2>3
  <1>9. ASSUME NEW e \in Emits, NextRecipient(e) PROVE TypeOKHub'
    <2>1. PICK s \in Subs : emit' = [emit EXCEPT ![e] =
                 [pc |-> "guard", sub |-> s, seen |-> emit[e].seen \cup {s}, verdict |-> FALSE]]
      BY <1>9 DEF NextRecipient, Registered
    <2>2. [pc |-> "guard", sub |-> s, seen |-> emit[e].seen \cup {s}, verdict |-> FALSE] \in
             [pc : {"idle", "loop", "guard", "answer"}, sub : Subs \cup {"none"},
              seen : SUBSET Subs, verdict : BOOLEAN]
      OBVIOUS
    <2>. QED
      BY <1>1, <1>9, <2>1, <2>2 DEF NextRecipient
  <1>10. ASSUME NEW e \in Emits, EmitGuardLooks(e) PROVE TypeOKHub'
    <2>1. PICK answer \in {PeerOf[emit[e].sub] \in members, FALSE} :
            emit' = [emit EXCEPT ![e].pc = "answer", ![e].verdict = answer]
      BY <1>10 DEF EmitGuardLooks
    <2>2. answer \in BOOLEAN
      <3>1. (PeerOf[emit[e].sub] \in members) \in BOOLEAN
        OBVIOUS
      <3>2. FALSE \in BOOLEAN
        OBVIOUS
      <3>3. answer = (PeerOf[emit[e].sub] \in members) \/ answer = FALSE
        OBVIOUS
      <3>. QED
        BY <3>1, <3>2, <3>3
    <2>3. [emit[e] EXCEPT !.pc = "answer", !.verdict = answer] \in
             [pc : {"idle", "loop", "guard", "answer"}, sub : Subs \cup {"none"},
              seen : SUBSET Subs, verdict : BOOLEAN]
      BY <2>2
    <2>4. emit' = [emit EXCEPT ![e] = [emit[e] EXCEPT !.pc = "answer", !.verdict = answer]]
      BY <2>1
    <2>. QED
      BY <1>1, <1>10, <2>3, <2>4 DEF EmitGuardLooks
  <1>11. ASSUME NEW e \in Emits, SendOrSkip(e) PROVE TypeOKHub'
    <2>1. emit[e].sub \in Subs
      BY <1>11 DEF SendOrSkip, AllCleared, Cleared
    <2>2. seqs' \in [Subs -> 0..MaxSeq]
      BY <1>11, <2>1 DEF SendOrSkip
    <2>. QED
      BY <1>1, <1>11, <2>2 DEF SendOrSkip, Turn
  <1>12. ASSUME NEW e \in Emits, EmitEnds(e) PROVE TypeOKHub'
    BY <1>1, <1>12, NoEmitType DEF EmitEnds
  <1>13. CASE ChangeGates
    <2>1. exposed' \in BOOLEAN
      BY <1>13 DEF ChangeGates
    <2>2. members' \in SUBSET Peers
      BY <1>13 DEF ChangeGates
    <2>. QED
      BY <1>1, <1>13, <2>1, <2>2 DEF ChangeGates
  <1>14. CASE RestartHub
    <2>1. emit' \in [Emits -> [pc : {"idle", "loop", "guard", "answer"}, sub : Subs \cup {"none"},
                               seen : SUBSET Subs, verdict : BOOLEAN]]
      BY <1>14, NoEmitType DEF RestartHub
    <2>2. /\ table' \in [Subs -> Entries] /\ seqs' \in [Subs -> 0..MaxSeq]
          /\ changes' \in 0..MaxChanges /\ UNCHANGED <<exposed, members>>
      BY <1>14 DEF RestartHub
    <2>. QED
      BY <1>1, <2>1, <2>2
  <1>. QED
    BY <1>2, <1>3, <1>4, <1>5, <1>6, <1>7, <1>8, <1>9, <1>10, <1>11, <1>12, <1>13, <1>14 DEF HubStep

LEMMA WireType == TypeOK /\ AllCleared /\ (HubStep \/ AdapterStep \/ Lose) => TypeOKWire'
  <1> SUFFICES ASSUME TypeOK, AllCleared, HubStep \/ AdapterStep \/ Lose PROVE TypeOKWire'
    OBVIOUS
  <1> USE DEF TypeOK, TypeOKWire, Stages, Actions, hub, maps, gates, wire
  <1>1. CASE Lose
    BY <1>1, PutType DEF Lose, LoseExchange, LoseFrame
  <1>2. CASE AdapterStep
    BY <1>2, PutType DEF AdapterStep, SubscribeRemote, Accepted, Refused, Refresh, UnsubscribeRemote,
                         CloseAdapter, EndProcess, HandleInboundEvent
  <1>3. CASE HubStep
    <2>1. ASSUME NEW e \in Emits, SendOrSkip(e) PROVE TypeOKWire'
      <3>1. emit[e].sub \in Subs
        BY <2>1 DEF SendOrSkip, AllCleared, Cleared
      <3>2. ASSUME seqs[emit[e].sub] < MaxSeq
            PROVE  [sub |-> emit[e].sub, seq |-> seqs[emit[e].sub] + 1] \in Frame
        BY <3>1, <3>2 DEF Frame, TypeOKHub
      <3>. QED
        BY <2>1, <3>2 DEF SendOrSkip
    <2>2. CASE RestartHub
      BY <2>2 DEF RestartHub
    <2>3. ASSUME NEW s \in Subs, \/ ReceiveSubscribe(s) \/ PassPeerGate(s) \/ GuardLooks(s)
                                 \/ RegisterSub(s) \/ ReceiveUnsubscribe(s)
          PROVE TypeOKWire'
      BY <2>3, PutType DEF ReceiveSubscribe, PassPeerGate, GuardLooks, RegisterSub, ReceiveUnsubscribe
    <2>. QED
      BY <1>3, <2>1, <2>2, <2>3 DEF HubStep, SweepTimer, Expire, EmitLocal, NextRecipient,
         EmitGuardLooks, EmitEnds, ChangeGates
  <1>. QED
    BY <1>1, <1>2, <1>3

LEMMA AdapterType == TypeOK /\ AdapterStep => TypeOKAdapter'
  <1> SUFFICES ASSUME TypeOK, AdapterStep PROVE TypeOKAdapter'
    OBVIOUS
  <1> USE DEF TypeOK, TypeOKAdapter, Phases, Timers
  <1>1. ASSUME NEW s \in Subs, \/ SubscribeRemote(s) \/ Accepted(s) \/ Refused(s) \/ Refresh(s)
                               \/ UnsubscribeRemote(s)
        PROVE  TypeOKAdapter'
    <2>1. PICK p \in Phases, q \in Timers : Become(s, p, q)
      BY <1>1 DEF SubscribeRemote, Accepted, Refused, Refresh, UnsubscribeRemote
    <2>2. last' = last
      BY <1>1 DEF SubscribeRemote, Accepted, Refused, Refresh, UnsubscribeRemote
    <2>. QED
      BY <2>1, <2>2 DEF Become
  <1>2. ASSUME NEW p \in Peers, CloseAdapter(p) \/ EndProcess(p) PROVE TypeOKAdapter'
    BY <1>2 DEF CloseAdapter, EndProcess
  <1>3. ASSUME NEW f \in frames, HandleInboundEvent(f) PROVE TypeOKAdapter'
    <2>1. f.sub \in Subs /\ f.seq \in 0..MaxSeq
      BY DEF TypeOKWire, Frame
    <2>. QED
      BY <1>3, <2>1 DEF HandleInboundEvent
  <1>. QED
    BY <1>1, <1>2, <1>3 DEF AdapterStep

-----------------------------------------------------------------------------
(* The caps *)

\* One more of a set below its cap is within it.
LEMMA OneMore ==
  ASSUME NEW S, IsFiniteSet(S), NEW x, NEW n \in Nat, Cardinality(S) < n
  PROVE  Cardinality(S \cup {x}) <= n
  <1>1. Cardinality(S) \in Nat
    BY FS_CardinalityType
  <1>2. Cardinality(S \cup {x}) = IF x \in S THEN Cardinality(S) ELSE Cardinality(S) + 1
    BY FS_AddElement
  <1>. QED
    BY <1>1, <1>2

\* A hub that holds no more than before is within its caps.
LEMMA FewerHold ==
  ASSUME CapsHold, Registered' \subseteq Registered
  PROVE  CapsHold'
  <1>1. IsFiniteSet(Registered)
    BY FS_Subset DEF Registered
  <1>2. ASSUME NEW S, NEW T, S \subseteq T, T \subseteq Registered, NEW n \in Nat, Cardinality(T) <= n
        PROVE  Cardinality(S) <= n
    <2>1. IsFiniteSet(T) /\ IsFiniteSet(S) /\ Cardinality(S) <= Cardinality(T)
      BY <1>1, <1>2, FS_Subset
    <2>2. Cardinality(S) \in Nat /\ Cardinality(T) \in Nat
      BY <2>1, FS_CardinalityType
    <2>. QED
      BY <1>2, <2>1, <2>2
  <1>3. ASSUME NEW p \in Peers PROVE Cardinality({s \in Registered' : PeerOf[s] = p}) <= MaxPerPeer
    BY <1>2 DEF CapsHold
  <1>4. ASSUME NEW s \in Subs PROVE Cardinality(Registered' \cap SameTopic(s)) <= MaxPerTopic
    BY <1>2 DEF CapsHold
  <1>. QED
    BY <1>3, <1>4 DEF CapsHold, SameTopic

LEMMA RegisterHolds ==
  ASSUME TypeOK, CapsHold, NEW s \in Subs, BelowCaps(s), table' = [table EXCEPT ![s] = "live"]
  PROVE  CapsHold'
  <1>1. IsFiniteSet(Registered)
    BY FS_Subset DEF Registered
  <1>2. Registered' = Registered \cup {s}
    BY DEF Registered, TypeOK, TypeOKHub
  <1>3. ASSUME NEW p \in Peers PROVE Cardinality({t \in Registered' : PeerOf[t] = p}) <= MaxPerPeer
    <2> DEFINE Of == {t \in Registered : PeerOf[t] = p}
    <2>1. CASE PeerOf[s] = p
      <3>1. {t \in Registered' : PeerOf[t] = p} = Of \cup {s}
        BY <1>2, <2>1
      <3>2. IsFiniteSet(Of) /\ Cardinality(Of) < MaxPerPeer
        BY <1>1, <2>1, FS_Subset DEF BelowCaps
      <3>. QED
        BY <3>1, <3>2, OneMore
    <2>2. CASE PeerOf[s] # p
      <3>1. {t \in Registered' : PeerOf[t] = p} = Of
        BY <1>2, <2>2
      <3>. QED
        BY <3>1 DEF CapsHold
    <2>. QED
      BY <2>1, <2>2
  <1>4. ASSUME NEW t \in Subs PROVE Cardinality(Registered' \cap SameTopic(t)) <= MaxPerTopic
    <2> DEFINE Of == Registered \cap SameTopic(t)
    <2>1. CASE s \in SameTopic(t)
      <3>1. Registered' \cap SameTopic(t) = Of \cup {s}
        BY <1>2, <2>1
      <3>2. SameTopic(t) = SameTopic(s)
        BY <2>1 DEF SameTopic
      <3>3. IsFiniteSet(Of) /\ Cardinality(Of) < MaxPerTopic
        BY <1>1, <3>2, FS_Subset DEF BelowCaps
      <3>. QED
        BY <3>1, <3>3, OneMore
    <2>2. CASE s \notin SameTopic(t)
      <3>1. Registered' \cap SameTopic(t) = Of
        BY <1>2, <2>2
      <3>. QED
        BY <3>1 DEF CapsHold
    <2>. QED
      BY <2>1, <2>2
  <1>. QED
    BY <1>3, <1>4 DEF CapsHold, SameTopic

LEMMA CapsStep == TypeOK /\ CapsHold /\ [Next]_vars => CapsHold'
  <1> SUFFICES ASSUME TypeOK, CapsHold, [Next]_vars PROVE CapsHold'
    OBVIOUS
  <1> USE DEF hub, maps, gates, wire
  <1>1. ASSUME NEW s \in Subs, RegisterSub(s) PROVE CapsHold'
    <2>1. CASE UNCHANGED table
      BY <2>1, FewerHold DEF Registered
    <2>2. CASE BelowCaps(s) /\ table' = [table EXCEPT ![s] = "live"]
      BY <2>2, RegisterHolds
    <2>. QED
      BY <1>1, <2>1, <2>2 DEF RegisterSub
  <1>2. CASE Adapter \/ Network \/ UNCHANGED vars
    BY <1>2, FewerHold DEF Adapter, Network, vars, Registered
  <1>3. ASSUME HubStep, ~\E s \in Subs : RegisterSub(s) PROVE Registered' \subseteq Registered
    BY <1>3 DEF HubStep, Registered, Kept, TypeOK, TypeOKHub, SweepTimer, Sweep, Expire, ReceiveSubscribe,
       PassPeerGate, GuardLooks, ReceiveUnsubscribe, EmitLocal, NextRecipient, EmitGuardLooks,
       SendOrSkip, EmitEnds, ChangeGates, RestartHub
  <1>. QED
    BY <1>1, <1>2, <1>3, FewerHold DEF Next, Hub

-----------------------------------------------------------------------------
(* The emissions *)

\* An emission that goes on, where it is, keeps what its guards have answered.
LEMMA StaysCleared ==
  ASSUME TypeOK, RememberHub, NEW e \in Emits, Cleared(e),
         emit'[e].pc = emit[e].pc, emit'[e].sub = emit[e].sub, emit'[e].verdict = emit[e].verdict
  PROVE  Cleared(e)'
  BY DEF Cleared, RememberHub

LEMMA ClearedStep == TypeOK /\ AllCleared /\ [Next]_vars => AllCleared'
  <1> SUFFICES ASSUME TypeOK, AllCleared, [Next]_vars, NEW e \in Emits PROVE Cleared(e)'
    BY DEF AllCleared
  <1> USE DEF hub, maps, gates, wire
  <1>1. Cleared(e) /\ emit \in [Emits -> [pc : {"idle", "loop", "guard", "answer"}, sub : Subs \cup {"none"},
                                          seen : SUBSET Subs, verdict : BOOLEAN]]
    BY DEF AllCleared, TypeOK, TypeOKHub
  <1>2. CASE Adapter \/ Network \/ UNCHANGED vars
    BY <1>1, <1>2 DEF Adapter, Network, vars, Cleared
  <1>3. CASE Hub
    <2>1. RememberHub /\ HubStep
      BY <1>3 DEF Hub
    <2>2. CASE emit'[e].pc \in {"idle", "loop"}
      BY <2>2 DEF Cleared
    <2>3. CASE NextRecipient(e)
      BY <1>1, <2>3 DEF NextRecipient, Cleared, Registered
    <2>4. CASE EmitGuardLooks(e)
      <3>1. PICK answer \in {PeerOf[emit[e].sub] \in members, FALSE} :
              emit' = [emit EXCEPT ![e].pc = "answer", ![e].verdict = answer]
        BY <2>4 DEF EmitGuardLooks
      <3>2. emit'[e].sub = emit[e].sub /\ emit'[e].pc = "answer" /\ emit'[e].verdict = answer
        BY <1>1, <3>1
      <3>3. emit[e].pc = "guard" /\ members' = members
        BY <2>4 DEF EmitGuardLooks
      <3>4. shutOut'[e] = shutOut[e] \ members'
        BY <2>1, <3>2, <3>3 DEF RememberHub
      <3>. QED
        BY <1>1, <3>2, <3>3, <3>4 DEF Cleared
    <2>5. CASE emit'[e].pc = emit[e].pc /\ emit'[e].sub = emit[e].sub /\ emit'[e].verdict = emit[e].verdict
      BY <1>1, <2>1, <2>5, StaysCleared
    <2>6. CASE EmitLocal(e) \/ SendOrSkip(e) \/ EmitEnds(e) \/ RestartHub
      <3>1. emit'[e].pc \in {"idle", "loop"}
        BY <1>1, <2>6, NoEmitType, ForgetType DEF EmitLocal, SendOrSkip, Turn, EmitEnds, RestartHub, TypeOK
      <3>. QED
        BY <2>2, <3>1
    <2>7. ASSUME NEW d \in Emits, d # e,
                 EmitLocal(d) \/ NextRecipient(d) \/ EmitGuardLooks(d) \/ SendOrSkip(d) \/ EmitEnds(d)
          PROVE emit'[e].pc = emit[e].pc /\ emit'[e].sub = emit[e].sub /\ emit'[e].verdict = emit[e].verdict
      <3>1. CASE EmitLocal(d)
        <4>1. emit'[e] = Forget(Subs \ Kept)[e]
          BY <2>7, <3>1, ForgetType DEF EmitLocal, TypeOK
        <4>. QED
          BY <4>1, ForgetType DEF TypeOK
      <3>2. CASE NextRecipient(d) \/ EmitGuardLooks(d) \/ SendOrSkip(d) \/ EmitEnds(d)
        <4>1. emit'[e] = emit[e]
          BY <1>1, <2>7, <3>2 DEF NextRecipient, EmitGuardLooks, SendOrSkip, Turn, EmitEnds
        <4>. QED
          BY <4>1
      <3>. QED
        BY <2>7, <3>1, <3>2
    <2>8. ASSUME \/ SweepTimer \/ ChangeGates
                 \/ \E s \in Subs : \/ Expire(s) \/ ReceiveSubscribe(s) \/ PassPeerGate(s) \/ GuardLooks(s)
                                    \/ RegisterSub(s) \/ ReceiveUnsubscribe(s)
          PROVE emit'[e].pc = emit[e].pc /\ emit'[e].sub = emit[e].sub /\ emit'[e].verdict = emit[e].verdict
      <3>1. emit' = emit \/ \E gone : emit' = Forget(gone)
        BY <2>8 DEF SweepTimer, Sweep, ChangeGates, Expire, ReceiveSubscribe, PassPeerGate,
           GuardLooks, RegisterSub, ReceiveUnsubscribe
      <3>. QED
        BY <3>1, ForgetType DEF TypeOK
    <2>. QED
      BY <2>1, <2>3, <2>4, <2>5, <2>6, <2>7, <2>8 DEF HubStep
  <1>. QED
    BY <1>2, <1>3 DEF Next

-----------------------------------------------------------------------------
LEMMA InitIInv == Init => IInv
  <1> SUFFICES ASSUME Init PROVE IInv
    OBVIOUS
  <1>1. TypeOK
    BY NoEmitType DEF Init, InitWire, InitHub, InitAdapter, TypeOK, TypeOKWire, TypeOKHub, TypeOKAdapter,
          Stages, Actions, Frame, Entries, Phases, Timers
  <1>2. AllCleared
    BY NoEmitType DEF Init, InitHub, AllCleared, Cleared
  <1>3. CapsHold
    <2>1. Registered = {}
      BY DEF Init, InitHub, Registered
    <2>2. \A p \in Peers : {s \in Registered : PeerOf[s] = p} = {}
      BY <2>1
    <2>3. \A s \in Subs : Registered \cap SameTopic(s) = {}
      BY <2>1
    <2>. QED
      BY <2>2, <2>3, FS_EmptySet DEF CapsHold
  <1>. QED
    BY <1>1, <1>2, <1>3 DEF IInv

LEMMA StepType == TypeOK /\ AllCleared /\ [Next]_vars => TypeOK'
  <1> SUFFICES ASSUME TypeOK, AllCleared, [Next]_vars PROVE TypeOK'
    OBVIOUS
  <1>1. CASE Hub
    BY <1>1, HubType, WireType DEF Hub, TypeOK, adapter, TypeOKAdapter
  <1>2. CASE Adapter
    BY <1>2, AdapterType, WireType DEF Adapter, TypeOK, hub, maps, gates, TypeOKHub
  <1>3. CASE Network
    BY <1>3, WireType DEF Network, TypeOK, hub, maps, gates, adapter, TypeOKHub, TypeOKAdapter
  <1>4. CASE UNCHANGED vars
    BY <1>4 DEF vars, hub, maps, gates, adapter, wire, TypeOK, TypeOKWire, TypeOKHub, TypeOKAdapter
  <1>. QED
    BY <1>1, <1>2, <1>3, <1>4 DEF Next

LEMMA Invariance == Spec => []IInv
  <1>1. IInv /\ [Next]_vars => IInv'
    BY StepType, CapsStep, ClearedStep DEF IInv
  <1>. QED
    BY <1>1, InitIInv, PTL DEF Spec

\* The subscriptions of a peer and those of a topic stay within the hub's caps,
\* whichever requests pass their gates together and whatever expires meanwhile
\* (subscription-hub.ts handleSubscribe, countForPeer, countForTopic).
THEOREM CapsAreKept == Spec => []CapsHold
  BY Invariance, PTL DEF IInv

\* The only step that sends frames is that of an emission whose guards have
\* answered, and it sends to the recipient they answered for.
LEMMA SendsCleared ==
  ASSUME IInv, Next, NEW f \in frames' \ frames
  PROVE  \E e \in Emits : /\ emit[e].pc = "answer" /\ emit[e].sub = f.sub
                          /\ PeerOf[f.sub] \notin shutOut[e]
  <1>1. PICK e \in Emits : SendOrSkip(e)
    BY DEF Next, Hub, Adapter, Network, Lose, LoseExchange, LoseFrame, HubStep, AdapterStep,
       SweepTimer, Expire, ReceiveSubscribe, PassPeerGate, GuardLooks, RegisterSub,
       ReceiveUnsubscribe, EmitLocal, NextRecipient, EmitGuardLooks, EmitEnds, ChangeGates, RestartHub,
       SubscribeRemote, Accepted, Refused, Refresh, UnsubscribeRemote, CloseAdapter, EndProcess,
       HandleInboundEvent, wire
  <1>2. /\ emit[e].pc = "answer" /\ emit[e].verdict
        /\ f = [sub |-> emit[e].sub, seq |-> seqs[emit[e].sub] + 1]
    BY <1>1 DEF SendOrSkip
  <1>. QED
    BY <1>2 DEF IInv, AllCleared, Cleared

\* A member that was removed gets no event whose emission began after that, even
\* over a subscription that was registered before (subscription-hub.ts emitLocal).
THEOREM RemovedGetsNothing == Spec => RemovedPeerGetsNothing
  <1>1. IInv /\ [Next]_vars =>
          [\A f \in frames' \ frames :
              \E e \in Emits : emit[e].pc = "answer" /\ emit[e].sub = f.sub
                               /\ PeerOf[f.sub] \notin shutOut[e]]_vars
    BY SendsCleared
  <1>. QED
    BY <1>1, Invariance, PTL DEF Spec, RemovedPeerGetsNothing

=============================================================================
