-------------------------------- MODULE Media --------------------------------
(* The media plugin (src/plugins/media) and the gate its frames pass.         *)
(* Calls: the signalling of calls between two nodes.  The caller offers, the  *)
(* callee's operator is asked and its node answers in a task of its own       *)
(* before the offer's task returns.  Each task has its transport's time-out   *)
(* while the other side goes on; a waiter, two maps and the hooks that ask    *)
(* the operator are all that ties the steps together.  Session descriptions   *)
(* and the device are left out; a candidate travels like any task and only    *)
(* fills a list of its call.                                                  *)
(* The frequency gate that every stream of frames rides                       *)
(* (src/core/src/security/telemetry-gate.ts): a sliding window per channel    *)
(* with a cap on messages and one on bytes, a pinch after a sustained burst,  *)
(* and a sweep that forgets the channels nobody has used for a window.        *)
(* Time passes in ticks; every channel has the gate's own window.             *)
(* Sessions: the operator opens one for a peer after the access gate and a    *)
(* confirmation, and its frames ride a channel with the session's own budget  *)
(* until it is closed.  A candidate of the peer is such a frame.              *)
EXTENDS Integers, Sequences, FiniteSets, SequencesExt, FiniteSetsExt

CONSTANTS Nodes, Calls,     \* two nodes, the calls that may be made
          From, To,         \* caller and callee of each call
          MaxCalls          \* MAX_CALLS

\* A node is the caller and its peer the callee.
ASSUME CallsAssumption ==
    /\ From \in [Calls -> Nodes] /\ To \in [Calls -> Nodes]
    /\ \A c \in Calls : From[c] # To[c]

VARIABLES
    trusted,    \* the nodes whose access gate would let the other one through
    calls,      \* per node and call: the state in its map
    dial,       \* initiateCall, per call
    ring,       \* the offer's task and handleOffer, per call
    answer,     \* the answer's task and handleAnswer, per call
    ack,        \* what the offer's task returned
    waiter,     \* pendingAnswer: its promise, and whether the call still holds it
    pending,    \* pendingRequests: pairs of node and call
    prompts,    \* the confirmations an operator still has on the screen
    granted     \* history: what the operators granted in time

media == <<trusted, calls, dial, ring, answer, ack, waiter, pending, prompts, granted>>

Ends == {"ok", "error"}

MediaTypeOK ==
    /\ trusted \subseteq Nodes
    /\ calls \in [Nodes -> [Calls -> {"none", "signaling", "established"}]]
    /\ dial \in [Calls -> {"new", "gate", "ask", "offer", "wait"} \cup Ends]
    /\ ring \in [Calls -> {"none", "sent", "ask", "answer", "done"}]
    /\ answer \in [Calls -> {"none", "sent", "replied", "lost"}]
    /\ ack \in [Calls -> {"none", "accepted", "refused"}]
    /\ waiter \in [Calls -> [is : {"none", "open", "null", "answer"}, held : BOOLEAN]]
    /\ {pending, prompts, granted} \subseteq SUBSET (Nodes \X Calls)

InitMedia ==
    /\ trusted = Nodes
    /\ calls = [n \in Nodes |-> [c \in Calls |-> "none"]]
    /\ dial = [c \in Calls |-> "new"] /\ ring = [c \in Calls |-> "none"]
    /\ answer = [c \in Calls |-> "none"] /\ ack = [c \in Calls |-> "none"]
    /\ waiter = [c \in Calls |-> [is |-> "none", held |-> FALSE]]
    /\ pending = {} /\ prompts = {} /\ granted = {}

Tracked(n) == {c \in Calls : calls[n][c] # "none"}
Put(f, c, v) == [f EXCEPT ![c] = v]
Track(n, c, state) == calls' = [calls EXCEPT ![n][c] = state]

\* Mutant: the timer goes and nobody is told, so that nothing ends the wait.
CleanedForGood(f, w, n, gone) ==
    /\ calls' = [f EXCEPT ![n] = [c \in Calls |-> IF c \in gone THEN "none" ELSE f[n][c]]]
    /\ waiter' = [c \in Calls |-> IF c \in gone /\ From[c] = n /\ w[c].held
                                  THEN [w[c] EXCEPT !.held = FALSE] ELSE w[c]]

\* Every waiter that goes with its call is told.
Cleaned(f, w, n, gone) ==
    /\ calls' = [f EXCEPT ![n] = [c \in Calls |-> IF c \in gone THEN "none" ELSE f[n][c]]]
    /\ waiter' = [c \in Calls |->
          IF c \in gone /\ From[c] = n /\ w[c].held
          THEN [is |-> IF w[c].is = "open" THEN "null" ELSE w[c].is, held |-> FALSE] ELSE w[c]]

cleanupCall(n, c) == Cleaned(calls, waiter, n, {c})

----------------------------------------------------------------------------
(* The operator of either side *)

askForMediaAccess(n, c) ==
    /\ pending' = pending \cup {<<n, c>>}
    /\ prompts' = prompts \cup {<<n, c>>}

\* The caller registers its waiter before the offer leaves.
Offer(c) ==
    /\ Track(From[c], c, "signaling")
    /\ waiter' = Put(waiter, c, [is |-> "open", held |-> TRUE])
    /\ dial' = Put(dial, c, "offer") /\ ring' = Put(ring, c, "sent")
    /\ UNCHANGED <<answer, ack>>

\* The callee tracks the call and sends its answer.
Accept(c) ==
    /\ Track(To[c], c, "signaling")
    /\ ring' = Put(ring, c, "answer") /\ answer' = Put(answer, c, "sent")
    /\ UNCHANGED <<dial, ack, waiter>>

Refused(n, c) ==
    /\ IF n = From[c] THEN dial' = Put(dial, c, "error") /\ UNCHANGED <<ring, ack>>
       ELSE ring' = Put(ring, c, "done") /\ ack' = Put(ack, c, "refused") /\ UNCHANGED dial
    /\ UNCHANGED <<calls, waiter, answer>>

\* The host passes the operator's word on; a request that has expired is gone.
resolveMediaAccess(n, c) ==
    /\ <<n, c>> \in prompts
    /\ prompts' = prompts \ {<<n, c>>} /\ pending' = pending \ {<<n, c>>}
    /\ \/ /\ <<n, c>> \in pending
          /\ granted' = granted \cup {<<n, c>>}
          /\ IF n = From[c] THEN Offer(c) ELSE Accept(c)
       \/ <<n, c>> \in pending /\ Refused(n, c) /\ UNCHANGED granted
       \/ <<n, c>> \notin pending /\ UNCHANGED <<granted, calls, dial, ring, answer, ack, waiter>>
    /\ UNCHANGED trusted

RequestExpires(n, c) ==
    /\ <<n, c>> \in pending
    /\ pending' = pending \ {<<n, c>>}
    /\ Refused(n, c)
    /\ UNCHANGED <<prompts, granted, trusted>>

\* A contact is verified, blocked or given a pass.
TrustChanges(n) ==
    /\ trusted' = IF n \in trusted THEN trusted \ {n} ELSE trusted \cup {n}
    /\ UNCHANGED <<calls, dial, ring, answer, ack, waiter, pending, prompts, granted>>

----------------------------------------------------------------------------
(* initiateCall *)

initiateCall(c) ==
    /\ dial[c] = "new"
    /\ dial' = Put(dial, c, IF Cardinality(Tracked(From[c])) < MaxCalls THEN "gate" ELSE "error")
    /\ UNCHANGED <<trusted, calls, ring, answer, ack, waiter, pending, prompts, granted>>

CallerGate(c) ==
    /\ dial[c] = "gate"
    /\ IF From[c] \in trusted
       THEN dial' = Put(dial, c, "ask") /\ askForMediaAccess(From[c], c)
       ELSE dial' = Put(dial, c, "error") /\ UNCHANGED <<pending, prompts>>
    /\ UNCHANGED <<trusted, calls, ring, answer, ack, waiter, granted>>

\* Mutant: the call is given up and stays in the map.
OfferFailsTracked(c) ==
    /\ dial[c] = "offer"
    /\ dial' = Put(dial, c, "error")
    /\ ring' = IF ring[c] = "sent" THEN Put(ring, c, "done") ELSE ring
    /\ UNCHANGED <<trusted, calls, waiter, answer, ack, pending, prompts, granted>>

\* No answer to the offer's task: not reachable, refused by a broker, too slow.
OfferFails(c) ==
    /\ dial[c] = "offer"
    /\ dial' = Put(dial, c, "error")
    /\ cleanupCall(From[c], c)
    /\ \/ ring[c] = "sent" /\ ring' = Put(ring, c, "done")
       \/ UNCHANGED ring
    /\ UNCHANGED <<trusted, answer, ack, pending, prompts, granted>>

OfferReturns(c) ==
    /\ dial[c] = "offer" /\ ack[c] # "none"
    /\ IF ack[c] = "accepted"
       THEN dial' = Put(dial, c, "wait") /\ UNCHANGED <<calls, waiter>>
       ELSE dial' = Put(dial, c, "error") /\ cleanupCall(From[c], c)
    /\ UNCHANGED <<trusted, ring, answer, ack, pending, prompts, granted>>

\* The timer is disposed of where the call lets go of its waiter.
AnswerTimesOut(c) ==
    /\ waiter[c].is = "open" /\ waiter[c].held
    /\ waiter' = [waiter EXCEPT ![c].is = "null"]
    /\ UNCHANGED <<trusted, calls, dial, ring, answer, ack, pending, prompts, granted>>

Answered(c) ==
    /\ dial[c] = "wait" /\ waiter[c].is # "open"
    /\ IF waiter[c].is = "answer"
       THEN dial' = Put(dial, c, "ok") /\ UNCHANGED <<calls, waiter>>
       ELSE dial' = Put(dial, c, "error") /\ cleanupCall(From[c], c)
    /\ UNCHANGED <<trusted, ring, answer, ack, pending, prompts, granted>>

----------------------------------------------------------------------------
(* handleOffer and handleAnswer *)

\* Whatever the map holds is looked at after the gate and before the operator.
handleOffer(c) ==
    /\ ring[c] = "sent"
    /\ IF /\ To[c] \in trusted
          /\ Cardinality(Tracked(To[c])) < MaxCalls
          /\ Tracked(To[c]) = {}
       THEN ring' = Put(ring, c, "ask") /\ askForMediaAccess(To[c], c) /\ UNCHANGED ack
       ELSE ring' = Put(ring, c, "done") /\ ack' = Put(ack, c, "refused") /\ UNCHANGED <<pending, prompts>>
    /\ UNCHANGED <<trusted, calls, dial, answer, waiter, granted>>

\* The answer is taken by a call this node made and still tracks.
handleAnswer(c) ==
    /\ answer[c] = "sent"
    /\ answer' = Put(answer, c, "replied")
    /\ IF From[c] \in trusted /\ calls[From[c]][c] # "none"
       THEN /\ Track(From[c], c, "established")
            /\ waiter' = IF waiter[c].held
                         THEN Put(waiter, c, [is |-> IF waiter[c].is = "open" THEN "answer" ELSE waiter[c].is,
                                              held |-> FALSE])
                         ELSE waiter
       ELSE UNCHANGED <<calls, waiter>>
    /\ UNCHANGED <<trusted, dial, ring, ack, pending, prompts, granted>>

\* A reply is a success whatever it says; the call may have been hung up.
AnswerReturns(c) ==
    /\ ring[c] = "answer" /\ answer[c] = "replied"
    /\ ring' = Put(ring, c, "done") /\ ack' = Put(ack, c, "accepted")
    /\ calls' = IF calls[To[c]][c] = "none" THEN calls ELSE [calls EXCEPT ![To[c]][c] = "established"]
    /\ UNCHANGED <<trusted, dial, answer, waiter, pending, prompts, granted>>

AnswerFails(c) ==
    /\ ring[c] = "answer"
    /\ ring' = Put(ring, c, "done") /\ ack' = Put(ack, c, "refused")
    /\ cleanupCall(To[c], c)
    /\ \/ answer[c] = "sent" /\ answer' = Put(answer, c, "lost")
       \/ UNCHANGED answer
    /\ UNCHANGED <<trusted, dial, pending, prompts, granted>>

hangup(n) ==
    /\ Tracked(n) # {}
    /\ Cleaned(calls, waiter, n, Tracked(n))
    /\ UNCHANGED <<trusted, dial, ring, answer, ack, pending, prompts, granted>>

----------------------------------------------------------------------------
\* What code, timers and transports do by themselves.
Proceeds(c) ==
    \/ CallerGate(c) \/ OfferReturns(c) \/ Answered(c) \/ handleOffer(c)
    \/ AnswerReturns(c) \/ AnswerFails(c) \/ OfferFails(c) \/ AnswerTimesOut(c)

MediaStep ==
    \/ \E c \in Calls : initiateCall(c) \/ Proceeds(c) \/ handleAnswer(c)
    \/ \E n \in Nodes : TrustChanges(n) \/ hangup(n)
    \/ \E n \in Nodes, c \in Calls : resolveMediaAccess(n, c) \/ RequestExpires(n, c)

----------------------------------------------------------------------------
\* A call that initiateCall reports as made was granted in time by the operators
\* of both nodes, whatever was late, lost or hung up; one it has given up its node
\* tracks no more, even if the answer comes then; and nothing is left signalling
\* that no operation drives.
AnswerIsTrue ==
    \A c \in Calls :
        /\ dial[c] = "ok" => {<<From[c], c>>, <<To[c], c>>} \subseteq granted
        /\ dial[c] = "error" => calls[From[c]][c] = "none"
        /\ calls[From[c]][c] = "signaling" => dial[c] \in {"offer", "wait"}
        /\ calls[To[c]][c] = "signaling" => ring[c] = "answer"

\* Every call that is begun is made or refused, with operators that never answer,
\* tasks that never return, and calls hung up in between.
CallsSettle == \A c \in Calls : dial[c] # "new" ~> dial[c] \in Ends

\* initiateCall always answers, and what it answers is so.
CallsEndTruly == AnswerIsTrue /\ [][AnswerIsTrue']_media /\ CallsSettle

-----------------------------------------------------------------------------
CONSTANTS Channels,
          Window,        \* windowMs
          Default,       \* the caps of a channel that is not registered: [messages, bytes]
          Sizes,         \* the sizes of frames, in units
          MaxTime        \* bound: how far the clock runs

ASSUME GateAssumption == Window \in Nat \ {0} /\ Default.messages \in Nat \ {0}

VARIABLES now, buckets, lastSweep,
          admitted       \* history: per channel, the frames let through of late

telemetry == <<now, buckets, lastSweep, admitted>>

NoBucket == [is |-> FALSE, cap |-> Default, entries |-> {}, denials |-> 0,
             pinchedUntil |-> 0, lastTouch |-> 0]

TelemetryTypeOK ==
    /\ now \in 0..MaxTime /\ lastSweep \in -Window..MaxTime
    /\ \A c \in Channels : buckets[c].is \in BOOLEAN /\ buckets[c].denials \in Nat

InitTelemetry ==
    /\ now = 0 /\ lastSweep = -Window
    /\ buckets = [c \in Channels |-> NoBucket]
    /\ admitted = [c \in Channels |-> {}]

Tick ==
    /\ now < MaxTime
    /\ now' = now + 1
    /\ UNCHANGED <<buckets, lastSweep, admitted>>

registerStream(c, cap) ==
    buckets' = [buckets EXCEPT ![c] = [NoBucket EXCEPT !.is = TRUE, !.cap = cap, !.lastTouch = now]]

closeStream(c) == buckets' = [buckets EXCEPT ![c] = NoBucket]

SweepDue == now - lastSweep >= Window

\* Mutant: what was not used just now is forgotten.
IdleNow(bucket) == bucket.lastTouch < now

Idle(bucket) == bucket.lastTouch < now - Window

maybeSweep == [c \in Channels |-> IF SweepDue /\ Idle(buckets[c]) THEN NoBucket ELSE buckets[c]]

\* The channel as a frame finds it: of a forgotten one, a bucket with the defaults.
Found(c) == [maybeSweep[c] EXCEPT !.is = TRUE]

InTheWindow(frames) == {e \in frames : e.at > now - Window}

\* What consume does first when the channel is not pinched.
Opened(b) ==
    [b EXCEPT !.denials = IF b.pinchedUntil # 0 THEN 0 ELSE @, !.pinchedUntil = 0,
              !.entries = InTheWindow(@), !.lastTouch = now]

Bytes(b) == MapThenSumSet(LAMBDA e : e.bytes, b.entries)

Fits(b, size) == Cardinality(b.entries) < b.cap.messages /\ Bytes(b) + size <= b.cap.bytes

\* An entry is what was let through and when; n tells the frames of one tick apart.
Entry(b, size) == [at |-> now, n |-> Cardinality({e \in b.entries : e.at = now}) + 1, bytes |-> size]

\* deny: the one that exceeds twice the cap pinches the channel.
deny(b) ==
    LET denials == b.denials + 1 IN
        [b EXCEPT !.denials = denials,
                  !.pinchedUntil = IF denials > b.cap.messages * 2 THEN now + Window * 2 ELSE @]

Pinched(c) == Found(c).pinchedUntil > now

consume(c, size) ==
    LET b == Found(c) o == Opened(b) IN
        IF Pinched(c) THEN [b EXCEPT !.lastTouch = now]
        ELSE IF Fits(o, size) THEN [o EXCEPT !.denials = 0, !.entries = @ \cup {Entry(o, size)}]
        ELSE deny(o)

Admits(c, size) == ~Pinched(c) /\ Fits(Opened(Found(c)), size)

checkAndConsume(c, size) ==
    /\ buckets' = [maybeSweep EXCEPT ![c] = consume(c, size)]
    /\ lastSweep' = IF SweepDue THEN now ELSE lastSweep
    /\ admitted' = IF Admits(c, size)
                   THEN [admitted EXCEPT ![c] = InTheWindow(@) \cup {Entry(Opened(Found(c)), size)}]
                   ELSE admitted
    /\ UNCHANGED now

-----------------------------------------------------------------------------
CONSTANTS PeerOf,        \* per session, the peer it is for
          Budget,        \* per session, its clamped telemetry override
          MaxSessions    \* MAX_SESSIONS

\* validateConfig, of the default as of an override.
ASSUME BudgetAssumption == \A c \in Channels : Budget[c].messages \in Nat \ {0}

VARIABLE sessions        \* per session: requestSession and then its life

\* The channel of a session has the session's name.
Sessions == Channels

SessionsTypeOK == sessions \in [Sessions -> {"new", "gate", "ask", "open", "closed"}]

InitSessions == InitTelemetry /\ sessions = [s \in Sessions |-> "new"]

Open == {s \in Sessions : sessions[s] = "open"}

Turns(s, state) == sessions' = [sessions EXCEPT ![s] = state]

requestSession(s) ==
    /\ sessions[s] = "new"
    /\ Turns(s, IF Cardinality(Open) < MaxSessions /\ \A t \in Open : PeerOf[t] # PeerOf[s]
                  THEN "gate" ELSE "closed")
    /\ UNCHANGED telemetry

SessionGate(s) ==
    /\ sessions[s] = "gate"
    /\ Turns(s, "ask") \/ Turns(s, "closed")
    /\ UNCHANGED telemetry

SessionGranted(s) ==
    /\ sessions[s] = "ask"
    /\ Turns(s, "open")
    /\ registerStream(s, Budget[s])
    /\ UNCHANGED <<now, lastSweep, admitted>>

SessionDenied(s) ==
    /\ sessions[s] = "ask"
    /\ Turns(s, "closed")
    /\ UNCHANGED telemetry

closeSession(s) ==
    /\ sessions[s] = "open"
    /\ Turns(s, "closed") /\ closeStream(s)
    /\ UNCHANGED <<now, lastSweep, admitted>>

\* A frame of the stream.
consumeStreamFrame(s) ==
    /\ sessions[s] = "open"
    /\ \E size \in Sizes : checkAndConsume(s, size)
    /\ UNCHANGED sessions

\* A candidate rides the session of its peer, in either direction; without one the
\* access gate and the broker judge it, and nothing is counted.
handleCandidate(p)  == \E s \in Open : PeerOf[s] = p /\ consumeStreamFrame(s)
sendIceCandidate(p) == \E s \in Open : PeerOf[s] = p /\ consumeStreamFrame(s)

SessionsStep ==
    \/ \E s \in Sessions : \/ requestSession(s) \/ SessionGate(s) \/ SessionGranted(s) \/ SessionDenied(s)
                           \/ closeSession(s) \/ consumeStreamFrame(s)
    \/ \E s \in Sessions : handleCandidate(PeerOf[s]) \/ sendIceCandidate(PeerOf[s])
    \/ Tick /\ UNCHANGED sessions

----------------------------------------------------------------------------
InWindow(c) == Cardinality(InTheWindow(admitted[c]))

Larger(i, j) == IF i > j THEN i ELSE j

\* However the sweeps, the closings and the frames of the channels fall, no window
\* lets more frames of a channel through than its own cap or the default.
WindowHolds == \A c \in Channels : InWindow(c) <= Larger(Budget[c].messages, Default.messages)

=============================================================================
