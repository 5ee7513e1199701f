------------------------------- MODULE Libp2p -------------------------------
(* The WAN transport (plugins/network-libp2p): a task rides a stream of its   *)
(* own to a peer whose transport key is part of its address, and both ends     *)
(* prove their identity on it before the task is sent.  The streams, their     *)
(* encryption and the relays are the library's.  A node is this one ("here")   *)
(* or the peer ("there"); both come and go.                                   *)
EXTENDS Naturals, Sequences

CONSTANTS WanCalls,   \* calls of sendTask
          MaxStops    \* bound: how often a node goes

VARIABLES up,        \* the nodes whose provider is ready
          stops,     \* bound
          stream,    \* per call: both ends of its stream and the frames between them
          answer,    \* per call: what sendTask returned
          handled    \* per call: how often the far task handler ran

wan == <<up, stops, stream, answer, handled>>

Ends == {"here", "there"}

NoStream == [client |-> "closed", server |-> "closed", asks |-> <<>>, replies |-> <<>>, cut |-> FALSE]

WanTypeOK ==
    /\ up \subseteq Ends /\ stops \in 0..MaxStops
    /\ \A c \in WanCalls :
          /\ stream[c].client \in {"closed", "dialling", "hello_ack", "signing", "result"}
          /\ stream[c].server \in {"closed", "hello", "signing", "auth", "task", "running"}
          /\ answer[c] \in {"none", "ok", "failed"} /\ handled[c] \in Nat

InitWan ==
    /\ up = {} /\ stops = 0
    /\ stream = [c \in WanCalls |-> NoStream]
    /\ answer = [c \in WanCalls |-> "none"]
    /\ handled = [c \in WanCalls |-> 0]

\* start: with a broker that limits its peers and an identity to prove.  A relay
\* that is down costs the relayed address only.
start(n) ==
    /\ n \notin up /\ up' = up \cup {n}
    /\ UNCHANGED <<stops, stream, answer, handled>>

\* The core server registers its provider and then starts it: until it is up, and
\* if it never comes up, calls find it and fail.
startWanProvider == start("here")

Open(c) == stream[c].client # "closed" \/ stream[c].server # "closed"

\* The node closes its streams.  A handler that runs goes on running.
CutOff(s) == [s EXCEPT !.asks = <<>>, !.replies = <<>>, !.cut = TRUE,
                       !.server = IF @ = "running" THEN @ ELSE "closed"]

stop(n) ==
    /\ n \in up /\ stops < MaxStops
    /\ up' = up \ {n} /\ stops' = stops + 1
    /\ stream' = [c \in WanCalls |-> IF Open(c) THEN CutOff(stream[c]) ELSE stream[c]]
    /\ UNCHANGED <<answer, handled>>

Stream(c, s) == stream' = [stream EXCEPT ![c] = s]

----------------------------------------------------------------------------
(* sendTask *)

\* The promise settles and the session is aborted.
Settles(c, how) ==
    /\ answer' = [answer EXCEPT ![c] = how]
    /\ Stream(c, [stream[c] EXCEPT !.client = "closed", !.replies = <<>>])
    /\ UNCHANGED <<up, stops, handled>>

Awaits(c, step, s) ==
    /\ Stream(c, [s EXCEPT !.client = step])
    /\ UNCHANGED <<up, stops, answer, handled>>

sendTask(c) ==
    /\ answer[c] = "none" /\ stream[c].client = "closed"
    /\ IF "here" \in up THEN Awaits(c, "dialling", stream[c]) ELSE Settles(c, "failed")

\* The address is no address, or the library cannot reach the peer.
DialFails(c) == stream[c].client = "dialling" /\ Settles(c, "failed")

dialProtocol(c) ==
    /\ stream[c].client = "dialling" /\ up = Ends
    /\ Awaits(c, "hello_ack", [stream[c] EXCEPT !.server = "hello", !.asks = <<"hello">>])

ReadsHelloAck(c) ==
    /\ stream[c].client = "hello_ack" /\ stream[c].replies # <<>>
    /\ Awaits(c, "signing", [stream[c] EXCEPT !.replies = Tail(@)])

\* The frames go where the stream still is; the caller does not look.
buildAuthFrame(c) ==
    /\ stream[c].client = "signing"
    /\ Awaits(c, "result", [stream[c] EXCEPT !.asks = IF stream[c].server = "closed" THEN <<>>
                                                      ELSE @ \o <<"auth", "task">>])

ReadsResult(c) ==
    /\ stream[c].client = "result" /\ stream[c].replies # <<>>
    /\ Settles(c, "ok")

\* A timer fires, the stream ends, the signer rejects, the identity is not proven,
\* or the task is too large for the peer.
sendTaskFails(c) ==
    /\ stream[c].client \in {"hello_ack", "signing", "result"}
    /\ Settles(c, "failed")

----------------------------------------------------------------------------
(* handleStream *)

Serves(c, step, s) ==
    /\ Stream(c, [s EXCEPT !.server = step])
    /\ UNCHANGED <<up, stops, answer>>

FrameDue(c, frame) == stream[c].asks # <<>> /\ Head(stream[c].asks) = frame

ReadsHello(c) ==
    /\ stream[c].server = "hello" /\ FrameDue(c, "hello")
    /\ Serves(c, "signing", [stream[c] EXCEPT !.asks = Tail(@)])
    /\ UNCHANGED handled

Reply(s, frame) == IF s.client = "closed" \/ s.cut THEN s ELSE [s EXCEPT !.replies = Append(@, frame)]

buildServerIdentity(c) ==
    /\ stream[c].server = "signing"
    /\ Serves(c, "auth", Reply(stream[c], "hello_ack"))
    /\ UNCHANGED handled

\* The binding is verified against the key that the connection authenticated.
ReadsAuth(c) ==
    /\ stream[c].server = "auth" /\ FrameDue(c, "auth")
    /\ Serves(c, "task", [stream[c] EXCEPT !.asks = Tail(@)])
    /\ UNCHANGED handled

\* The task handler is called with the proven identity.
ReadsTask(c) ==
    /\ stream[c].server = "task" /\ FrameDue(c, "task")
    /\ Serves(c, "running", [stream[c] EXCEPT !.asks = Tail(@)])
    /\ handled' = [handled EXCEPT ![c] = @ + 1]

\* The result is sent and the stream aborted behind it.  It may not be sendable,
\* and it may be lost.
handlerReturns(c) ==
    /\ stream[c].server = "running"
    /\ \/ Serves(c, "closed", Reply(stream[c], "result"))
       \/ Serves(c, "closed", stream[c])
    /\ UNCHANGED handled

\* A timer fires, a frame is not what is due, the stream ends, the signer rejects.
handleStreamReturns(c) ==
    /\ stream[c].server \in {"hello", "signing", "auth", "task"}
    /\ Serves(c, "closed", [stream[c] EXCEPT !.asks = <<>>])
    /\ UNCHANGED handled

ClientProceeds(c) == \/ sendTask(c) \/ DialFails(c) \/ dialProtocol(c) \/ ReadsHelloAck(c)
                     \/ buildAuthFrame(c) \/ ReadsResult(c) \/ sendTaskFails(c)

WanStep ==
    \/ startWanProvider \/ start("there")
    \/ \E n \in Ends : stop(n)
    \/ \E c \in WanCalls :
          \/ ClientProceeds(c)
          \/ ReadsHello(c) \/ buildServerIdentity(c) \/ ReadsAuth(c) \/ ReadsTask(c)
          \/ handlerReturns(c) \/ handleStreamReturns(c)

\* Timers fire, the library gives up a dial in the end, and the vault signs.
WanFails(c) == DialFails(c) \/ sendTaskFails(c)

=============================================================================
