----------------------------- MODULE EventLayer -----------------------------
(* The event layer of a node and its subscribers: the publisher's hub and    *)
(* the adapters of the peers that subscribe to it, over exchanges and frames *)
(* that may be lost or reordered.                                            *)
EXTENDS SubscriptionHub, RemoteEventAdapter

vars == <<hub, shutOut, adapter, wire>>

Init == InitWire /\ InitHub /\ InitAdapter

Lose ==
    \/ \E s \in Subs, a \in Actions : LoseExchange(s, a)
    \/ \E f \in frames : LoseFrame(f)

Hub == HubStep /\ RememberHub /\ UNCHANGED adapter

Adapter == AdapterStep /\ UNCHANGED <<hub, shutOut>>

Network == Lose /\ UNCHANGED <<hub, shutOut, adapter>>

Next == Hub \/ Adapter \/ Network

Spec == Init /\ [][Next]_vars

OnHub(A) == A /\ RememberHub /\ UNCHANGED adapter

OnAdapter(A) == A /\ UNCHANGED <<hub, shutOut>>

(* Both event loops run what is ready, timers fire, an exchange is answered  *)
(* or times out, and the ttl of a subscription nobody renews runs out.       *)
(* Nothing makes a peer subscribe, the publisher emit or a frame arrive.     *)
Fairness ==
    /\ WF_vars(OnHub(SweepTimer))
    /\ \A s \in Subs :
          /\ WF_vars(OnHub(ReceiveSubscribe(s)))
          /\ WF_vars(OnHub(PassPeerGate(s)))
          /\ WF_vars(OnHub(GuardLooks(s)))
          /\ WF_vars(OnHub(RegisterSub(s)))
          /\ WF_vars(OnHub(phase[s] = "gone" /\ Expire(s)))
          /\ WF_vars(OnAdapter(Accepted(s)))
          /\ WF_vars(OnAdapter(Refused(s)))
          /\ WF_vars(OnAdapter(Refresh(s)))

FairSpec == Spec /\ Fairness

-----------------------------------------------------------------------------
TypeOK == TypeOKWire /\ TypeOKHub /\ TypeOKAdapter

\* The hard caps of the hub, counted over everything its Map holds, although two
\* requests of a peer may both be past their gates and entries expire meanwhile.
CapsHold ==
    /\ \A p \in Peers : Cardinality({s \in Registered : PeerOf[s] = p}) <= MaxPerPeer
    /\ \A s \in Subs : Cardinality(Registered \cap SameTopic(s)) <= MaxPerTopic

\* "a member removed after subscribing stops receiving immediately": an emission
\* sends nothing to a peer that has not been a member for a moment since it began,
\* whatever was registered and answered before.
RemovedPeerGetsNothing ==
    [][\A f \in frames' \ frames :
          \E e \in Emits : emit[e].pc = "answer" /\ emit[e].sub = f.sub
                           /\ PeerOf[f.sub] \notin shutOut[e]]_vars

\* "a vanished peer is bounded by TTL": once a subscription is given up, lost or
\* gone with its process, the hub forgets it for good, even if the unsubscribe is
\* lost or overtaken by a refresh.
GhostFades(s) == phase[s] = "gone" ~> [](table[s] = "absent")

\* The heartbeat: a subscription that the hub has lost, by expiry or restart, is
\* registered anew or its owner hears of the loss.
HeartbeatHeals(s) ==
    phase[s] = "live" /\ table[s] = "absent" ~> table[s] = "live" \/ phase[s] = "gone"

\* Publisher and subscriber come to agree again whatever was lost between them: no
\* registration outlives its subscription, and no subscription its registration
\* unnoticed.
TablesAgreeAgain(s) == GhostFades(s) /\ HeartbeatHeals(s)

=============================================================================
