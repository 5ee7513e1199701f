------------------------------ MODULE LanClient ------------------------------
(* The calling half of a provider: sendTask under the timeout and retries of *)
(* ctx.network (core/src/plugin-loader, core/src/network/retry.ts), and the  *)
(* handshake-only connections of a capability probe and a unicast ping; and  *)
(* the discovery that feeds it, with its heartbeats and its stale sweep.     *)
EXTENDS LanServer

CONSTANTS
    Wanted,     \* the persistent peer id a call is addressed to
    MaxRetries  \* maxRetries

ASSUME CallAssumption == Wanted \in [Calls -> People] /\ MaxRetries \in Nat

VARIABLES
    known,      \* the keys of `discovered`, in the order of the Map
    book,       \* the address on record of a discovered instance
    caps,       \* peerCapabilities: the peer id that a handshake proved
    probing,    \* capabilityProbes: the instances that have an entry
    call,       \* where each call is
    attempts,   \* how often it has been tried
    route       \* the target that a call has looked up

caller == <<call, attempts, route>>
client == <<known, book, caps, probing, caller>>

Known == {known[n] : n \in DOMAIN known}

InitClient ==
    /\ known = <<>>
    /\ book = [i \in Instances |-> Nobody]
    /\ caps = [i \in Instances |-> Nobody]
    /\ probing = {}
    /\ call = [k \in Calls |-> "idle"]
    /\ attempts = [k \in Calls |-> 0]
    /\ route = [k \in Calls |-> Nobody]

Outcomes == {"ok", "failed", "dropped"}

TypeOKClient ==
    /\ known \in UNION {[1..n -> Instances] : n \in 0..Cardinality(Instances)}
    /\ Cardinality(Known) = Len(known)
    /\ book \in [Instances -> Addresses \cup {Nobody}]
    /\ caps \in [Instances -> People \cup {Nobody}]
    /\ probing \subseteq Instances
    /\ call \in [Calls -> {"idle", "sent", "backoff"} \cup Outcomes]
    /\ attempts \in [Calls -> 0..MaxRetries + 1]
    /\ route \in [Calls -> (Instances \X Addresses) \cup {Nobody}]

-----------------------------------------------------------------------------
\* Mutant: a lost connection rejects the promise of sendTask.
RejectsOnDrop(how) == how = "dropped"

\* sendTask resolves with an error result whatever becomes of its connection.
Rejects(how) == FALSE

\* withRetry goes on after a rejection only.
CallAfter(k, how) ==
    IF Rejects(how) /\ attempts[k] <= MaxRetries THEN "backoff" ELSE how

\* `finish`: this node closes its end of x, and the promise of its use settles.
Finish(x, c, how) ==
    /\ Put(x, [c EXCEPT !.client = "closed", !.down = <<>>])
    /\ call' = IF c.use = "task" THEN [call EXCEPT ![c.call] = CallAfter(c.call, how)]
               ELSE call
    /\ caps' = IF how = "proven" THEN [caps EXCEPT ![c.peer] = owner[c.far]] ELSE caps
    /\ probing' = IF c.use = "probe" THEN probing \ {c.peer} ELSE probing
    /\ route' = [k \in Calls |-> IF call'[k] \in Outcomes THEN Nobody ELSE route[k]]
    /\ UNCHANGED <<known, book, attempts>>

Admits(i) == slots[i].connections < MaxConnections

Answered(x, i) ==
    [conn[x] EXCEPT !.far = i, !.server = IF Admits(i) THEN "hello" ELSE "closed"]

Greets(x, i) ==
    Put(x, [Answered(x, i) EXCEPT !.client = "hello_ack",
                                  !.up = IF Admits(i) THEN <<"hello">> ELSE <<>>])

Admission(i) == IF Admits(i) THEN Count(i, "connections", 1) ELSE UNCHANGED slots

\* Mutant: the presented certificate is not compared with the announced one.
ConnectTrusting(x, i) ==
    /\ conn[x].client = "dial"
    /\ Listening(i, conn[x].address)
    /\ Admission(i)
    /\ Greets(x, i) /\ UNCHANGED client
    /\ UNCHANGED <<lan, ran>>

\* The TLS session is up: an address at its limit is hung up on, and the caller
\* goes on only if the certificate is the one announced for the peer.
Connect(x, i) ==
    /\ conn[x].client = "dial"
    /\ Listening(i, conn[x].address)
    /\ Admission(i)
    /\ IF i = conn[x].peer
       THEN Greets(x, i) /\ UNCHANGED client
       ELSE Finish(x, Answered(x, i), "failed")
    /\ UNCHANGED <<lan, ran>>

\* Nobody listens, the far end has closed, or the connection was cut.
LoseConnection(x) ==
    /\ \/ conn[x].client = "dial" /\ ~\E i \in Instances : Listening(i, conn[x].address)
       \/ /\ conn[x].client \in {"hello_ack", "proving", "result"}
          /\ conn[x].server = "closed" \/ conn[x].cut
          /\ conn[x].down = <<>>
    /\ Finish(x, conn[x], "dropped")
    /\ UNCHANGED <<lan, server>>

\* HANDSHAKE_TIMEOUT_MS, RESPONSE_TIMEOUT_MS: the provider's timer is armed before
\* that of withTimeout, and fires first.
TimeOut(x) ==
    /\ conn[x].client # "closed"
    /\ Finish(x, conn[x], "failed")
    /\ UNCHANGED <<lan, server>>

\* hello_ack proves the peer's identity: a probe is done, a task may be too large
\* for the peer, and any other connection goes on to prove our own.
ReadHelloAck(x) ==
    /\ conn[x].client = "hello_ack"
    /\ conn[x].down # <<>>
    /\ \/ /\ conn[x].use = "probe"
          /\ Finish(x, conn[x], "proven")
       \/ /\ conn[x].use # "probe"
          /\ Put(x, [conn[x] EXCEPT !.client = "proving", !.down = <<>>])
          /\ caps' = IF conn[x].use = "task"
                     THEN [caps EXCEPT ![conn[x].peer] = owner[conn[x].far]] ELSE caps
          /\ UNCHANGED <<known, book, probing, caller>>
       \/ /\ conn[x].use = "task"
          /\ Put(x, [conn[x] EXCEPT !.client = "closed", !.down = <<>>])
          /\ caps' = [caps EXCEPT ![conn[x].peer] = owner[conn[x].far]]
          /\ call' = [call EXCEPT ![conn[x].call] = "failed"]
          /\ route' = [route EXCEPT ![conn[x].call] = Nobody]
          /\ UNCHANGED <<known, book, probing, attempts>>
    /\ UNCHANGED <<lan, server>>

\* The signer has signed: auth goes out, and what the connection is for; a ping
\* and an event have then ended.  A subscription or an event may be too large for the
\* peer, and ends after auth.
Prove(x) ==
    /\ conn[x].client = "proving"
    /\ LET sent(frames) == [conn[x] EXCEPT !.up = IF @ = <<>> /\ ~conn[x].cut
                                /\ conn[x].server # "closed" THEN frames ELSE <<>>]
           use == conn[x].use
       IN \/ /\ use \in {"task", "sub_req"}
             /\ Put(x, [sent(<<"auth", use>>) EXCEPT !.client = "result"])
             /\ UNCHANGED client
          \/ use = "event_emit" /\ Finish(x, sent(<<"auth", use>>), "ok")
          \/ use \in {"sub_req", "event_emit"} /\ Finish(x, sent(<<"auth">>), "failed")
          \/ use = "ping" /\ Finish(x, sent(<<"auth">>), "proven")
    /\ UNCHANGED <<lan, server>>

ReadResult(x) ==
    /\ conn[x].client = "result"
    /\ conn[x].down # <<>>
    /\ Finish(x, conn[x], IF Head(conn[x].down) \in {"result", "sub_ack"} THEN "ok" ELSE "failed")
    /\ UNCHANGED <<lan, server>>

-----------------------------------------------------------------------------
\* listPeers: the identity a handshake proved, or the one mDNS claims.
PeerIdOf(i) == IF caps[i] # Nobody THEN caps[i] ELSE owner[i]

\* The first of the discovered instances that has the peer id.
Targets(p) == {n \in DOMAIN known : PeerIdOf(known[n]) = p}
Target(p) == known[CHOOSE n \in Targets(p) : \A m \in Targets(p) : n <= m]

Aim(k) == IF call[k] = "backoff" THEN route[k]
          ELSE <<Target(Wanted[k]), book[Target(Wanted[k])]>>

\* ctx.network.sendTask looks its peer up once and dials; a retry dials again.
SendTask(k) ==
    /\ k \in scene.calls
    /\ call[k] = "backoff" \/ (call[k] = "idle" /\ Targets(Wanted[k]) # {})
    /\ \E x \in Free : Put(x, Dialled("task", Aim(k)[1], k, Aim(k)[2]))
    /\ call' = [call EXCEPT ![k] = "sent"]
    /\ attempts' = [attempts EXCEPT ![k] = @ + 1]
    /\ route' = [route EXCEPT ![k] = Aim(k)]
    /\ UNCHANGED <<lan, server, known, book, caps, probing>>

\* "peer is not currently reachable"
SendTaskNowhere(k) ==
    /\ k \in scene.calls
    /\ call[k] = "idle"
    /\ Targets(Wanted[k]) = {}
    /\ call' = [call EXCEPT ![k] = "failed"]
    /\ UNCHANGED <<lan, server, conn, known, book, caps, probing,
                   attempts, route>>

\* sendSubReq, sendEvent: one connection, to a peer on record, and no retry.
SendFrame(i, use) ==
    /\ scene.exchanges > 0 /\ i \in Known
    /\ \E x \in Free : Put(x, Dialled(use, i, Nobody, book[i]))
    /\ scene' = [scene EXCEPT !.exchanges = @ - 1]
    /\ UNCHANGED <<life, owner, home, server, client>>

ClientStep ==
    \/ \E x \in Conns :
          \/ \E i \in Instances : Connect(x, i)
          \/ LoseConnection(x)
          \/ TimeOut(x)
          \/ ReadHelloAck(x)
          \/ Prove(x)
          \/ ReadResult(x)
    \/ \E k \in Calls : SendTask(k) \/ SendTaskNowhere(k)
    \/ \E i \in Instances, use \in {"sub_req", "event_emit"} : SendFrame(i, use)
-----------------------------------------------------------------------------
(* Discovery: mDNS announcements and goodbyes, peers that register themselves *)
(* by a verified connection, the sweep of silent peers, and the probes and    *)
(* pings that follow.                                                         *)
VARIABLES
    air         \* the mDNS packet that is on its way to us, if any

\* "announce": an mDNS record, new or repeated; "goodbye": the withdrawn record.
Sent == [kind : {"announce", "goodbye"}, from : Instances, address : Addresses]

InitDiscovery == air = {}

TypeOKDiscovery == air \subseteq Sent

-----------------------------------------------------------------------------
Record(i, a) ==
    /\ known' = IF i \in Known THEN known ELSE Append(known, i)
    /\ book' = [book EXCEPT ![i] = a]

\* A Map keeps the order of its keys when some of them are deleted.
Without(s, gone) ==
    LET rest[n \in 0..Len(s)] ==
          IF n = 0 THEN <<>>
          ELSE IF s[n] \in gone THEN rest[n - 1] ELSE Append(rest[n - 1], s[n])
    IN rest[Len(s)]

\* this.discovered.delete and its three companions.
Forget(gone) ==
    /\ known' = Without(known, gone)
    /\ book' = [i \in Instances |-> IF i \in gone THEN Nobody ELSE book[i]]
    /\ caps' = [i \in Instances |-> IF i \in gone THEN Nobody ELSE caps[i]]
    /\ probing' = probing \ gone

\* pingPeer: a unicast ping, unless the last one was less than
\* pingMinIntervalMs ago.
Ping(i, a) ==
    \/ UNCHANGED conn
    \/ \E x \in Free : Put(x, Dialled("ping", i, Nobody, a))

Hears(m, kind) == m \in air /\ m.kind = kind /\ air' = air \ {m}

\* onServiceUp: the peer may have restarted, so nothing proven of it still holds.
OnServiceUp(m) ==
    /\ Hears(m, "announce")
    /\ Record(m.from, m.address)
    /\ caps' = [caps EXCEPT ![m.from] = Nobody]
    /\ Ping(m.from, m.address)
    /\ UNCHANGED <<lan, server, probing, caller>>

\* onServiceHeartbeat: address and lastSeen of a peer on record; any other is new.
OnServiceHeartbeat(m) ==
    /\ Hears(m, "announce")
    /\ Record(m.from, m.address)
    /\ caps' = IF m.from \in Known THEN caps ELSE [caps EXCEPT ![m.from] = Nobody]
    /\ Ping(m.from, m.address)
    /\ UNCHANGED <<lan, server, probing, caller>>

OnServiceDown(m) ==
    /\ Hears(m, "goodbye")
    /\ Forget({m.from})
    /\ UNCHANGED <<lan, server, conn, caller>>

\* registerReversePeer: a caller whose ping has proven its identity is put on
\* record at the port it named.
RegisterReversePeer(i) ==
    /\ life[i] = "up"
    /\ Record(i, home[i])
    /\ UNCHANGED <<lan, server, conn, caps, probing, caller, air>>

\* Mutant: the sweep spares a peer while its capabilities are known.
PruneUnproven(silent) ==
    LET gone == {i \in silent : caps[i] = Nobody}
    IN /\ gone # {}
       /\ Forget(gone)
       /\ UNCHANGED <<lan, server, conn, caller, air>>

\* pruneStalePeers: those that heartbeatTtlMs have passed without a sign of; they
\* may be any of those on record, for announcements may be lost.
PruneStalePeers(silent) ==
    /\ silent # {}
    /\ Forget(silent)
    /\ UNCHANGED <<lan, server, conn, caller, air>>

\* discover: every peer on record is probed whose capabilities are not known, for
\* which no probe is under way and none has failed within PROBE_RETRY_MS.
Discover ==
    \E unknown \in SUBSET {i \in Known \ probing : caps[i] = Nobody} :
       /\ unknown # {}
       /\ \E line \in [unknown -> Free] :
             /\ \A i, j \in unknown : i # j => line[i] # line[j]
             /\ conn' = [x \in Conns |->
                    IF \E i \in unknown : line[i] = x
                    THEN LET i == CHOOSE j \in unknown : line[j] = x
                         IN Dialled("probe", i, Nobody, book[i])
                    ELSE conn[x]]
       /\ probing' = probing \cup unknown
       /\ UNCHANGED <<lan, server, known, book, caps, caller, air>>

DiscoveryStep ==
    \/ \E m \in air :
          \/ OnServiceUp(m)
          \/ OnServiceHeartbeat(m)
          \/ OnServiceDown(m)
    \/ \E silent \in SUBSET Known : PruneStalePeers(silent)
    \/ Discover
    \/ \E i \in Instances : RegisterReversePeer(i)
=============================================================================
