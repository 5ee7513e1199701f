-------------------------- MODULE SubscriptionHub --------------------------
(* The publisher's side, core/src/events/subscription-hub.ts, for one exact  *)
(* topic: who may receive its events.  A request awaits two gates before it  *)
(* is registered, an emission awaits the guards before each recipient, and   *)
(* the loop of an emission runs over the live Map, so registrations,         *)
(* removals, sweeps and other emissions come between any two of its steps.   *)
EXTENDS EventWire

CONSTANTS
    Emits,       \* concurrent calls of emitLocal
    MaxPerPeer,  \* MAX_SUBSCRIPTIONS_PER_PEER
    MaxPerTopic, \* MAX_SUBSCRIPTIONS_PER_TOPIC
    MaxChanges   \* bound on membership and exposure changes and restarts

ASSUME HubAssumption ==
    /\ MaxPerPeer \in Nat \ {0}
    /\ MaxPerTopic \in Nat \ {0}
    /\ MaxChanges \in Nat

VARIABLES
    table,    \* the subscriptions Map: absent, live, or expired and not yet swept
    seqs,     \* the sequences Map, 0 without an entry
    exposed,  \* does exposedEvents cover the topic?
    members,  \* the peers the namespace's subscription guard allows
    emit,     \* each emitLocal: where it is, the recipient it looks at, the
              \* entries its loop has passed, and the guards' verdict
    changes,  \* changes so far
    shutOut   \* history: per emission, the peers that no guard would have let
              \* through at any moment since it began

maps == <<table, seqs>>
gates == <<exposed, members, changes>>
hub == <<maps, emit, gates>>

Entries == {"absent", "live", "expired"}

Registered == {s \in Subs : table[s] # "absent"}

NoEmit == [pc |-> "idle", sub |-> "none", seen |-> {}, verdict |-> FALSE]

InitHub ==
    /\ table = [s \in Subs |-> "absent"]
    /\ seqs = [s \in Subs |-> 0]
    /\ exposed = TRUE
    /\ members = Peers
    /\ emit = [e \in Emits |-> NoEmit]
    /\ changes = 0
    /\ shutOut = [e \in Emits |-> {}]

-----------------------------------------------------------------------------
\* sweep: the expired entries leave both Maps.
Kept == {s \in Subs : table[s] = "live"}

\* A deleted entry that comes back is a new one, which a loop has yet to meet.
Forget(gone) == [e \in Emits |-> [emit[e] EXCEPT !.seen = @ \ gone]]

Sweep ==
    /\ table' = [s \in Subs |-> IF s \in Kept THEN "live" ELSE "absent"]
    /\ seqs' = [s \in Subs |-> IF table[s] = "expired" THEN 0 ELSE seqs[s]]
    /\ emit' = Forget(Subs \ Kept)

\* The interval sweep.
SweepTimer ==
    /\ Registered # Kept
    /\ Sweep
    /\ UNCHANGED <<gates, wire>>

\* expiresAt passes.
Expire(s) ==
    /\ table[s] = "live"
    /\ table' = [table EXCEPT ![s] = "expired"]
    /\ UNCHANGED <<seqs, emit, gates, wire>>

\* handleSubReq, subscribe: sweep, then the awaited peer gate.
ReceiveSubscribe(s) ==
    /\ req[<<s, "subscribe">>] = "sent"
    /\ Sweep
    /\ Put(s, "subscribe", "gate")
    /\ UNCHANGED <<gates, frames>>

\* checkPeerAccess grants and the topic is exposed, or the request is refused;
\* a wildcard topic is not compared with the exposed ones.
PassPeerGate(s) ==
    /\ req[<<s, "subscribe">>] = "gate"
    /\ \/ Put(s, "subscribe", "rejected")
       \/ s \in Wildcards \cup (IF exposed THEN Subs ELSE {}) /\ Put(s, "subscribe", "guard")
    /\ UNCHANGED <<hub, frames>>

\* The guard looks at the membership; one that throws denies.
GuardLooks(s) ==
    /\ req[<<s, "subscribe">>] = "guard"
    /\ \/ Put(s, "subscribe", "rejected")
       \/ PeerOf[s] \in members /\ Put(s, "subscribe", "cleared")
    /\ UNCHANGED <<hub, frames>>

SameTopic(s) == {t \in Subs : (t \in Wildcards) = (s \in Wildcards)}

\* Mutant: the counts skip what has expired and is not yet swept.
BelowCapsLive(s) ==
    /\ Cardinality({t \in Kept : PeerOf[t] = PeerOf[s]}) < MaxPerPeer
    /\ Cardinality(Kept \cap SameTopic(s)) < MaxPerTopic

\* countForPeer, countForTopic: entries not yet swept count, its own included.
BelowCaps(s) ==
    /\ Cardinality({t \in Registered : PeerOf[t] = PeerOf[s]}) < MaxPerPeer
    /\ Cardinality(Registered \cap SameTopic(s)) < MaxPerTopic

\* The rest of handleSubscribe, synchronous: caps, getPeer, registration.
RegisterSub(s) ==
    /\ req[<<s, "subscribe">>] = "cleared"
    /\ \/ /\ BelowCaps(s)
          /\ table' = [table EXCEPT ![s] = "live"]
          /\ Put(s, "subscribe", "accepted")
       \/ /\ Put(s, "subscribe", "rejected")
          /\ UNCHANGED table
    /\ UNCHANGED <<seqs, emit, gates, frames>>

\* handleSubReq, unsubscribe: sweep and delete; nobody waits for the ack.
ReceiveUnsubscribe(s) ==
    /\ req[<<s, "unsubscribe">>] = "sent"
    /\ Put(s, "unsubscribe", "none")
    /\ table' = [t \in Subs |-> IF t \in Kept \ {s} THEN "live" ELSE "absent"]
    /\ seqs' = [t \in Subs |-> IF t \in Registered \ (Kept \ {s}) THEN 0 ELSE seqs[t]]
    /\ emit' = Forget(Subs \ (Kept \ {s}))
    /\ UNCHANGED <<gates, frames>>

-----------------------------------------------------------------------------
Turn(e, where) == emit' = [emit EXCEPT ![e].pc = where]

\* emitLocal: a topic that is not exposed throws, otherwise sweep and loop.
EmitLocal(e) ==
    /\ emit[e].pc = "idle"
    /\ exposed
    /\ table' = [s \in Subs |-> IF s \in Kept THEN "live" ELSE "absent"]
    /\ seqs' = [s \in Subs |-> IF table[s] = "expired" THEN 0 ELSE seqs[s]]
    /\ emit' = [Forget(Subs \ Kept) EXCEPT ![e] = [NoEmit EXCEPT !.pc = "loop"]]
    /\ UNCHANGED <<gates, wire>>

\* The loop turns to an entry it has not passed and asks the guards.
NextRecipient(e) ==
    /\ emit[e].pc = "loop"
    /\ \E s \in Registered \ emit[e].seen :
          emit' = [emit EXCEPT ![e] =
                     [pc |-> "guard", sub |-> s, seen |-> @.seen \cup {s}, verdict |-> FALSE]]
    /\ UNCHANGED <<maps, gates, wire>>

\* Mutant: who was let in when it subscribed is not asked about again.
EmitGuardTrusts(e) ==
    /\ emit[e].pc = "guard"
    /\ emit' = [emit EXCEPT ![e].pc = "answer", ![e].verdict = TRUE]
    /\ UNCHANGED <<maps, gates, wire>>

\* The guard looks; its answer reaches emitLocal later.
EmitGuardLooks(e) ==
    /\ emit[e].pc = "guard"
    /\ \E answer \in {PeerOf[emit[e].sub] \in members, FALSE} :
          emit' = [emit EXCEPT ![e].pc = "answer", ![e].verdict = answer]
    /\ UNCHANGED <<maps, gates, wire>>

\* A denial or the telemetry gate skips the recipient; otherwise the next
\* sequence number is taken and the frame sent, even if the subscription has
\* left the Map meanwhile.
SendOrSkip(e) ==
    LET s == emit[e].sub IN
    /\ emit[e].pc = "answer"
    /\ Turn(e, "loop")
    /\ \/ UNCHANGED <<seqs, frames>>
       \/ /\ emit[e].verdict
          /\ seqs[s] < MaxSeq
          /\ seqs' = [seqs EXCEPT ![s] = @ + 1]
          /\ frames' = frames \cup {[sub |-> s, seq |-> seqs[s] + 1]}
    /\ UNCHANGED <<table, gates, req>>

EmitEnds(e) ==
    /\ emit[e].pc = "loop"
    /\ Registered \subseteq emit[e].seen
    /\ emit' = [emit EXCEPT ![e] = NoEmit]
    /\ UNCHANGED <<maps, gates, wire>>

-----------------------------------------------------------------------------
\* setExposedEvents; the plugin's membership, which the guard reads.
ChangeGates ==
    /\ changes < MaxChanges
    /\ changes' = changes + 1
    /\ \/ exposed' = ~exposed /\ UNCHANGED members
       \/ /\ \E p \in Peers : members' \in {members \cup {p}, members \ {p}}
          /\ UNCHANGED exposed
    /\ UNCHANGED <<maps, emit, wire>>

\* The publisher's process ends and comes back: both Maps start empty, and the
\* requests it was deciding and the emissions under way have died with it.
RestartHub ==
    /\ changes < MaxChanges
    /\ changes' = changes + 1
    /\ table' = [s \in Subs |-> "absent"]
    /\ seqs' = [s \in Subs |-> 0]
    /\ emit' = [e \in Emits |-> NoEmit]
    /\ req' = [x \in Subs \X Actions |-> "none"]
    /\ UNCHANGED <<exposed, members, frames>>

\* The history: a peer that is a member, if only for a moment, is not shut out.
RememberHub ==
    shutOut' = [e \in Emits |->
        IF emit'[e].pc = "idle" THEN {}
        ELSE IF emit[e].pc = "idle" THEN Peers \ members' ELSE shutOut[e] \ members']

\* What the event loop of the publisher runs by itself.
HubStep ==
    \/ SweepTimer
    \/ \E s \in Subs :
          \/ Expire(s)
          \/ ReceiveSubscribe(s)
          \/ PassPeerGate(s)
          \/ GuardLooks(s)
          \/ RegisterSub(s)
          \/ ReceiveUnsubscribe(s)
    \/ \E e \in Emits :
          \/ EmitLocal(e)
          \/ NextRecipient(e)
          \/ EmitGuardLooks(e)
          \/ SendOrSkip(e)
          \/ EmitEnds(e)
    \/ ChangeGates
    \/ RestartHub

TypeOKHub ==
    /\ table \in [Subs -> Entries]
    /\ seqs \in [Subs -> 0..MaxSeq]
    /\ exposed \in BOOLEAN
    /\ members \in SUBSET Peers
    /\ emit \in [Emits -> [pc : {"idle", "loop", "guard", "answer"}, sub : Subs \cup {"none"},
                           seen : SUBSET Subs, verdict : BOOLEAN]]
    /\ changes \in 0..MaxChanges
    /\ shutOut \in [Emits -> SUBSET Peers]
=============================================================================
