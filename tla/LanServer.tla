------------------------------ MODULE LanServer ------------------------------
(* The connections of one network-light provider to the peers of its LAN, and *)
(* the serving half of a provider                                             *)
(* (plugins/network-light/src/network-light-provider.ts).  Every task, every  *)
(* handshake, every subscription and every event has a TLS connection of its  *)
(* own, on which frames arrive in order until one side closes it or the       *)
(* network cuts it.  PeerLimiter                                              *)
(* (plugins/network-light/src/peer-limiter.ts) limits the one address that    *)
(* calls.                                                                     *)
EXTENDS Integers, FiniteSets, Sequences

CONSTANTS
    Instances,  \* the peers' provider runs: mDNS instance id, certificate, port
    People,     \* persistent peer ids
    Addresses,  \* host:port pairs of the LAN
    Calls,      \* calls of ctx.network.sendTask
    Owners,     \* who may run an instance
    Homes,      \* where an instance may start to listen
    Nobody,     \* no instance, no person, no address, no call
    Conns,      \* connections under way at a time
    Scenes      \* bounds: the instances, calls and connections of a behaviour,
                \* and its numbers of departures, moves and cuts (changes) and
                \* of subscriptions and events (exchanges)

ASSUME LanAssumption ==
    /\ Owners \in [Instances -> SUBSET People]
    /\ Homes \in [Instances -> SUBSET Addresses]
    /\ Scenes \subseteq [instances : SUBSET Instances, calls : SUBSET Calls,
                        conns : SUBSET Conns, changes : Nat, exchanges : Nat]
    /\ IsFiniteSet(Conns)
    /\ Nobody \notin Instances \cup People

VARIABLES
    life,       \* "unborn", "up", "leaving" (stop awaits server.close), "down"
    owner,      \* the identity an instance proves
    home,       \* where it listens, while it does
    conn,       \* the connections of this node to the instances
    scene       \* what is still to happen of one of the Scenes

lan == <<life, owner, home, scene>>

(* A connection is opened for a use, to the instance that was looked up, at  *)
(* the address then on record.  far: the instance that answered it.  client, *)
(* server: how far the two ends are.  up, down: frames not yet read.  work:  *)
(* a handler of the far end still runs for it.                               *)
Unused == [use |-> "none", peer |-> Nobody, call |-> Nobody, address |-> Nobody,
           far |-> Nobody, client |-> "closed", server |-> "closed",
           up |-> <<>>, down |-> <<>>, cut |-> FALSE, work |-> FALSE]

Dialled(use, i, k, a) ==
    [Unused EXCEPT !.use = use, !.peer = i, !.call = k, !.address = a, !.client = "dial"]

UpFrames == {"hello", "auth", "task", "sub_req", "event_emit"}
DownFrames == {"hello_ack", "result", "busy", "sub_ack"}

Queues(Frames, n) == UNION {[1..m -> Frames] : m \in 0..n}

Conn == [use : {"none", "task", "probe", "ping", "sub_req", "event_emit"}, peer : Instances \cup {Nobody},
         call : Calls \cup {Nobody}, address : Addresses \cup {Nobody},
         far : Instances \cup {Nobody},
         client : {"dial", "hello_ack", "proving", "result", "closed"},
         server : {"hello", "ready", "authenticated", "closed"},
         up : Queues(UpFrames, 2), down : Queues(DownFrames, 1),
         cut : BOOLEAN, work : BOOLEAN]

Free == {x \in scene.conns : conn[x].use = "none"}

\* A connection that both ends have done with is no more.
Put(x, c) ==
    conn' = [conn EXCEPT ![x] =
               IF c.client = "closed" /\ c.server = "closed" /\ ~c.work THEN Unused ELSE c]

Listening(i, a) == life[i] = "up" /\ home[i] = a

ServedBy(i) == {x \in Conns : conn[x].far = i /\ conn[x].server # "closed"}
WorkingFor(i) == {x \in Conns : conn[x].far = i /\ conn[x].work}

Change == scene.changes > 0 /\ scene' = [scene EXCEPT !.changes = @ - 1]

\* The network drops a connection with everything on its way.
Cut(x) ==
    /\ Change
    /\ conn[x].far # Nobody /\ ~conn[x].cut
    /\ Put(x, [conn[x] EXCEPT !.cut = TRUE, !.up = <<>>, !.down = <<>>])
    /\ UNCHANGED <<life, owner, home>>

InitWire ==
    /\ life = [i \in Instances |-> "unborn"]
    /\ owner = [i \in Instances |-> Nobody]
    /\ home = [i \in Instances |-> Nobody]
    /\ conn = [x \in Conns |-> Unused]
    /\ scene \in Scenes

TypeOKWire ==
    /\ life \in [Instances -> {"unborn", "up", "leaving", "down"}]
    /\ owner \in [Instances -> People \cup {Nobody}]
    /\ home \in [Instances -> Addresses \cup {Nobody}]
    /\ conn \in [Conns -> Conn]
    /\ \E s \in Scenes : \E n \in 0..s.changes, e \in 0..s.exchanges :
          scene = [s EXCEPT !.changes = n, !.exchanges = e]

-----------------------------------------------------------------------------
CONSTANTS
    MaxConnections, \* maxConnectionsPerIp
    MaxTasks        \* maxConcurrentTasksPerIp

ASSUME LimitAssumption == MaxConnections \in Nat /\ MaxTasks \in Nat

VARIABLES
    slots,      \* per instance: the connections and the tasks the limiter counts
    ran         \* per call and instance: how often the task handler was called

server == <<slots, ran>>

Count(i, which, step) ==
    slots' = [slots EXCEPT ![i][which] =
                IF step = -1 /\ @ <= 1 THEN 0 ELSE @ + step]

InitServer ==
    /\ slots = [i \in Instances |-> [connections |-> 0, tasks |-> 0]]
    /\ ran = [k \in Calls |-> [i \in Instances |-> 0]]

TypeOKServer ==
    /\ slots \in [Instances -> [connections : Nat, tasks : Nat]]
    /\ ran \in [Calls -> [Instances -> Nat]]

-----------------------------------------------------------------------------
\* socket.destroy, and the "close" event that gives the connection slot back.
Hangup(x, c) ==
    /\ Put(x, [c EXCEPT !.server = "closed", !.up = <<>>])
    /\ Count(c.far, "connections", -1)

\* The frame handlers read the head of `up`, in the phase the frame is for.
Reads(x, frame, phase) ==
    /\ conn[x].server = phase
    /\ conn[x].up # <<>>
    /\ Head(conn[x].up) = frame

Rest(x) == [conn[x] EXCEPT !.up = Tail(@)]

\* allowRequest: the window's budget may be spent.
OverBudget(x) ==
    /\ \/ Reads(x, "hello", "hello")
       \/ \E f \in {"task", "sub_req"} : Reads(x, f, "authenticated")
    /\ Hangup(x, conn[x])
    /\ UNCHANGED <<lan, ran>>

\* hello is answered with hello_ack once the signer has signed it.
ReadHello(x) ==
    /\ Reads(x, "hello", "hello")
    /\ Put(x, [Rest(x) EXCEPT !.server = "ready", !.down = Append(@, "hello_ack")])
    /\ UNCHANGED <<lan, server>>

\* auth: the caller's identity is bound to its certificate and both nonces.
ReadAuth(x) ==
    /\ Reads(x, "auth", "ready")
    /\ Put(x, [Rest(x) EXCEPT !.server = "authenticated"])
    /\ UNCHANGED <<lan, server>>

\* Mutant: the limit is looked at, and no slot taken.
ReadTaskUncounted(x) ==
    /\ Reads(x, "task", "authenticated")
    /\ Put(x, [Rest(x) EXCEPT !.work = TRUE])
    /\ ran' = [ran EXCEPT ![conn[x].call][conn[x].far] = @ + 1]
    /\ UNCHANGED <<lan, slots>>

\* task: refused when its address has too many in flight, else handed over.
ReadTask(x) ==
    /\ Reads(x, "task", "authenticated")
    /\ IF slots[conn[x].far].tasks >= MaxTasks
       THEN /\ Put(x, [Rest(x) EXCEPT !.down = Append(@, "busy")])
            /\ UNCHANGED server
       ELSE /\ Put(x, [Rest(x) EXCEPT !.work = TRUE])
            /\ Count(conn[x].far, "tasks", 1)
            /\ ran' = [ran EXCEPT ![conn[x].call][conn[x].far] = @ + 1]
    /\ UNCHANGED lan

\* sub_req: counts as a task, and its refusal is a sub_ack, too.
ReadSubReq(x) ==
    /\ Reads(x, "sub_req", "authenticated")
    /\ IF slots[conn[x].far].tasks >= MaxTasks
       THEN /\ Put(x, [Rest(x) EXCEPT !.down = Append(@, "sub_ack")])
            /\ UNCHANGED slots
       ELSE /\ Put(x, [Rest(x) EXCEPT !.work = TRUE])
            /\ Count(conn[x].far, "tasks", 1)
    /\ UNCHANGED <<lan, ran>>

\* event_emit: handed over without a slot and without an answer.
ReadEvent(x) ==
    /\ Reads(x, "event_emit", "authenticated")
    /\ Put(x, Rest(x))
    /\ UNCHANGED <<lan, server>>

\* handleMessage, handleSubReqMessage: the answer goes to a socket that may be gone,
\* the slot back.
HandlerEnds(x) ==
    /\ conn[x].work
    /\ Put(x, [conn[x] EXCEPT !.work = FALSE,
                              !.down = IF conn[x].server = "closed" \/ conn[x].cut THEN @
                                       ELSE Append(@, IF conn[x].use = "task" THEN "result"
                                                      ELSE "sub_ack")])
    /\ Count(conn[x].far, "tasks", -1)
    /\ UNCHANGED <<lan, ran>>

\* The handshake timer runs until hello has been read.
HandshakeTimesOut(x) ==
    /\ conn[x].server = "hello"
    /\ Hangup(x, conn[x])
    /\ UNCHANGED <<lan, ran>>

\* The caller's end is closed, and what it had sent is read or lost.
ServerSeesClose(x) ==
    /\ conn[x].server # "closed"
    /\ conn[x].cut \/ (conn[x].client = "closed" /\ conn[x].up = <<>>)
    /\ Hangup(x, conn[x])
    /\ UNCHANGED <<lan, ran>>

ServerStep ==
    \E x \in Conns :
       \/ OverBudget(x)
       \/ ReadHello(x)
       \/ ReadAuth(x)
       \/ ReadTask(x)
       \/ ReadSubReq(x)
       \/ ReadEvent(x)
       \/ HandlerEnds(x)
       \/ HandshakeTimesOut(x)
       \/ ServerSeesClose(x)

=============================================================================
