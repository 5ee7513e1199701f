----------------------------- MODULE EventWire -----------------------------
(* What a publisher's SubscriptionHub and its subscribers'                   *)
(* RemoteEventAdapters share (core/src/events/types.ts, event-network.ts):   *)
(* the sub_req/sub_ack exchanges and the event_emit frames between them.     *)
(* Every exchange and every frame has a connection of its own, so frames     *)
(* arrive in any order or not at all.                                        *)
EXTENDS Integers, FiniteSets

CONSTANTS
    Peers,     \* the subscribers, by transport-verified peer id
    Subs,      \* subscription ids; subscribeRemote draws a fresh one each time
    PeerOf,    \* the peer that draws a subscription id
    Wildcards, \* the subscriptions to a `:*` topic; the others name the topic
    MaxSeq     \* bound on the sequence numbers of one subscription

ASSUME WireAssumption ==
    /\ PeerOf \in [Subs -> Peers]
    /\ IsFiniteSet(Subs)
    /\ Wildcards \subseteq Subs
    /\ MaxSeq \in Nat

VARIABLES
    req,       \* per subscription and action: how far the exchange has come
    frames     \* the event_emit frames on their way

wire == <<req, frames>>

Actions == {"subscribe", "unsubscribe"}

\* "sent": on its way; "gate", "guard": the hub awaits checkPeerAccess, then the
\* subscription guards; "cleared": the guards have said yes; "accepted",
\* "rejected": the sub_ack on its way back.
Stages == {"none", "sent", "gate", "guard", "cleared", "accepted", "rejected"}

Frame == [sub : Subs, seq : 1..MaxSeq]

InitWire ==
    /\ req = [x \in Subs \X Actions |-> "none"]
    /\ frames = {}

Put(s, action, stage) == req' = [req EXCEPT ![<<s, action>>] = stage]

\* A request, an ack or a frame is lost with its connection.
LoseExchange(s, action) ==
    /\ req[<<s, action>>] \in {"sent", "accepted", "rejected"}
    /\ Put(s, action, "none")
    /\ UNCHANGED frames

LoseFrame(f) ==
    /\ f \in frames
    /\ frames' = frames \ {f}
    /\ UNCHANGED req

TypeOKWire ==
    /\ req \in [Subs \X Actions -> Stages]
    /\ frames \in SUBSET Frame
=============================================================================
