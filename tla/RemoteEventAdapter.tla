------------------------ MODULE RemoteEventAdapter ------------------------
(* The subscribers' side, core/src/events/remote-event-adapter.ts: each      *)
(* subscription id is drawn, asked for, kept alive by a refresh timer, and   *)
(* torn down by its owner, by a refused refresh, or with its process.  The   *)
(* awaits of subscribeRemote and refresh let a teardown, a frame or a        *)
(* timeout of the exchange come first.                                       *)
EXTENDS EventWire

VARIABLES
    phase,   \* "fresh", "asking" inside subscribeRemote, "live", "gone"
    timer,   \* its refresh: "off", "armed", or "waiting" for the sub_ack
    last     \* lastSequenceNumber

adapter == <<phase, timer, last>>

Phases == {"fresh", "asking", "live", "gone"}
Timers == {"off", "armed", "waiting"}

InitAdapter ==
    /\ phase = [s \in Subs |-> "fresh"]
    /\ timer = [s \in Subs |-> "off"]
    /\ last = [s \in Subs |-> 0]

-----------------------------------------------------------------------------
Become(s, p, t) ==
    /\ phase' = [phase EXCEPT ![s] = p]
    /\ timer' = [timer EXCEPT ![s] = t]

\* subscribeRemote draws an id and awaits the ack.
SubscribeRemote(s) ==
    /\ phase[s] = "fresh"
    /\ Become(s, "asking", "off")
    /\ Put(s, "subscribe", "sent")
    /\ UNCHANGED <<last, frames>>

\* Mutant: an accepted refresh does not schedule the next one.
AcceptedOnce(s) ==
    /\ phase[s] = "asking" \/ timer[s] = "waiting"
    /\ req[<<s, "subscribe">>] = "accepted"
    /\ Put(s, "subscribe", "none")
    /\ IF phase[s] = "asking" THEN Become(s, "live", "armed") ELSE Become(s, phase[s], "off")
    /\ UNCHANGED <<last, frames>>

\* The accepted ack: registered with lastSequenceNumber 0, refresh scheduled.
\* A refresh that is accepted schedules the next one, torn down or not.
Accepted(s) ==
    /\ phase[s] = "asking" \/ timer[s] = "waiting"
    /\ req[<<s, "subscribe">>] = "accepted"
    /\ Put(s, "subscribe", "none")
    /\ Become(s, IF phase[s] = "asking" THEN "live" ELSE phase[s], "armed")
    /\ UNCHANGED <<last, frames>>

\* The rejected ack, or null at the response timeout: subscribeRemote throws,
\* refresh tears down and reports the loss.
Refused(s) ==
    /\ phase[s] = "asking" \/ timer[s] = "waiting"
    /\ Become(s, "gone", "off")
    /\ \/ /\ req[<<s, "subscribe">>] = "rejected"
          /\ Put(s, "subscribe", "none")
       \/ UNCHANGED req
    /\ UNCHANGED <<last, frames>>

\* The timer fires at two thirds of the granted ttl, or later.
Refresh(s) ==
    /\ timer[s] = "armed"
    /\ IF phase[s] = "live"
       THEN Become(s, "live", "waiting") /\ Put(s, "subscribe", "sent")
       ELSE Become(s, phase[s], "off") /\ UNCHANGED req
    /\ UNCHANGED <<last, frames>>

\* unsubscribeRemote: teardown clears an armed timer; a refresh that awaits its
\* ack is not cancelled.
UnsubscribeRemote(s) ==
    /\ phase[s] = "live"
    /\ Become(s, "gone", IF timer[s] = "waiting" THEN "waiting" ELSE "off")
    /\ Put(s, "unsubscribe", "sent")
    /\ UNCHANGED <<last, frames>>

\* close drops subscriptions and timers; what awaits an ack goes on awaiting it.
CloseAdapter(p) ==
    /\ \E s \in Subs : PeerOf[s] = p /\ phase[s] = "live"
    /\ phase' = [s \in Subs |-> IF PeerOf[s] = p /\ phase[s] = "live" THEN "gone" ELSE phase[s]]
    /\ timer' = [s \in Subs |-> IF PeerOf[s] = p /\ timer[s] = "armed" THEN "off" ELSE timer[s]]
    /\ UNCHANGED <<last, wire>>

\* The subscriber's process ends without a word.
EndProcess(p) ==
    /\ \E s \in Subs : PeerOf[s] = p /\ phase[s] \in {"asking", "live"}
    /\ phase' = [s \in Subs |-> IF PeerOf[s] = p THEN "gone" ELSE phase[s]]
    /\ timer' = [s \in Subs |-> IF PeerOf[s] = p THEN "off" ELSE timer[s]]
    /\ UNCHANGED <<last, wire>>

\* handleInboundEvent: a frame of no live subscription, or with a sequence number
\* that is not higher than the last, is dropped, and so is one over the budget.
HandleInboundEvent(f) ==
    /\ f \in frames
    /\ frames' = frames \ {f}
    /\ \/ UNCHANGED last
       \/ /\ phase[f.sub] = "live"
          /\ f.seq > last[f.sub]
          /\ last' = [last EXCEPT ![f.sub] = f.seq]
    /\ UNCHANGED <<phase, timer, req>>

AdapterStep ==
    \/ \E s \in Subs :
          \/ SubscribeRemote(s)
          \/ Accepted(s)
          \/ Refused(s)
          \/ Refresh(s)
          \/ UnsubscribeRemote(s)
    \/ \E p \in Peers : CloseAdapter(p) \/ EndProcess(p)
    \/ \E f \in frames : HandleInboundEvent(f)

TypeOKAdapter ==
    /\ phase \in [Subs -> Phases]
    /\ timer \in [Subs -> Timers]
    /\ last \in [Subs -> 0..MaxSeq]
=============================================================================
