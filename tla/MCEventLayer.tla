---------------------------- MODULE MCEventLayer ----------------------------
(* Instance of EventLayer with two scenes: the whole life of one subscription, *)
(* with emissions, changes of the gates and restarts; and three subscriptions  *)
(* of two peers, one of them to the wildcard topic, that compete for room.     *)
EXTENDS EventLayer, TLC

CONSTANTS alice, bob, s1, s2, s3

VARIABLE scene

TwoPeers == s1 :> alice @@ s2 :> alice @@ s3 :> bob

allvars == <<vars, scene>>

InitScenes == Init /\ scene \in {"life", "room"}

NextScenes ==
    /\ UNCHANGED scene
    /\ Next
    /\ scene = "life" => /\ \A s \in Subs \ {s1} : phase'[s] = "fresh"
                         /\ bob \in members'
    /\ scene = "room" => UNCHANGED <<emit, changes>>

Alive(A) == scene = "life" /\ A /\ UNCHANGED scene

\* The fairness of EventLayer, for the subscription that lives.
FairScenes ==
    /\ InitScenes /\ [][NextScenes]_allvars
    /\ WF_allvars(Alive(OnHub(SweepTimer)))
    /\ WF_allvars(Alive(OnHub(ReceiveSubscribe(s1))))
    /\ WF_allvars(Alive(OnHub(PassPeerGate(s1))))
    /\ WF_allvars(Alive(OnHub(GuardLooks(s1))))
    /\ WF_allvars(Alive(OnHub(RegisterSub(s1))))
    /\ WF_allvars(Alive(OnHub(phase[s1] = "gone" /\ Expire(s1))))
    /\ WF_allvars(Alive(OnAdapter(Accepted(s1))))
    /\ WF_allvars(Alive(OnAdapter(Refused(s1))))
    /\ WF_allvars(Alive(OnAdapter(Refresh(s1))))

\* The hub's table and the subscriber's come to agree again, whatever was lost
\* between them (subscription-hub.ts sweep, remote-event-adapter.ts refresh).
TablesAgree == scene = "life" => TablesAgreeAgain(s1)
=============================================================================
