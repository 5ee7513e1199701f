--------------------------------- MODULE Lan ---------------------------------
(* A node on its LAN: the provider that discovers, probes and calls, and the *)
(* peers that come, move, restart as a new instance, and go with or without  *)
(* a word, while announcements are lost and connections are cut.  Beside it   *)
(* the WAN transport of the same node.  They share no state, so a behaviour    *)
(* without instances is one of the WAN transport.                             *)
EXTENDS LanClient, Libp2p

vars == <<lan, conn, server, client, air, wan>>

Init == InitWire /\ InitServer /\ InitClient /\ InitDiscovery /\ InitWan

quiet == <<client, air>>

\* start: a fresh instance id and certificate, at an address nobody else has.
Start(i, p, a) ==
    /\ life[i] = "unborn"
    /\ i \in scene.instances
    /\ p \in Owners[i] /\ a \in Homes[i]
    /\ ~\E j \in Instances : Listening(j, a)
    /\ life' = [life EXCEPT ![i] = "up"]
    /\ owner' = [owner EXCEPT ![i] = p]
    /\ home' = [home EXCEPT ![i] = a]
    /\ UNCHANGED <<scene, conn, server, quiet>>

\* One message of theirs at a time is on its way to us.
Sends(i, kind) ==
    /\ air = {}
    /\ air' = {[kind |-> kind, from |-> i, address |-> home[i]]}

\* reannounce, on a timer.
Announce(i) ==
    /\ life[i] = "up"
    /\ Sends(i, "announce")
    /\ UNCHANGED <<lan, conn, server, client>>

\* stop: unpublishAll, and server.close lets open connections end.
Leave(i) ==
    /\ life[i] = "up"
    /\ Change
    /\ life' = [life EXCEPT ![i] = "leaving"]
    /\ home' = [home EXCEPT ![i] = Nobody]
    /\ Sends(i, "goodbye")
    /\ UNCHANGED <<owner, conn, server, client>>

\* The process ends, and its ends of the connections with it.
End(i) ==
    /\ \/ life[i] = "leaving" /\ UNCHANGED scene
       \/ life[i] = "up" /\ Change
    /\ life' = [life EXCEPT ![i] = "down"]
    /\ home' = [home EXCEPT ![i] = Nobody]
    /\ conn' = [x \in Conns |->
                  IF conn[x].far # i THEN conn[x]
                  ELSE IF conn[x].client = "closed" THEN Unused
                  ELSE [conn[x] EXCEPT !.server = "closed", !.up = <<>>, !.work = FALSE]]
    /\ slots' = [slots EXCEPT ![i] = [connections |-> 0, tasks |-> 0]]
    /\ UNCHANGED <<owner, ran, quiet>>

\* The machine gets another address: its listener is on every interface, and
\* connections to the old one are cut.
Move(i, a) ==
    /\ life[i] = "up"
    /\ Change
    /\ a # home[i]
    /\ ~\E j \in Instances : Listening(j, a)
    /\ home' = [home EXCEPT ![i] = a]
    /\ conn' = [x \in Conns |->
                  IF conn[x].far = i
                  THEN [conn[x] EXCEPT !.cut = TRUE, !.up = <<>>, !.down = <<>>]
                  ELSE conn[x]]
    /\ UNCHANGED <<life, owner, server, quiet>>

Lose(m) ==
    /\ air' = air \ {m}
    /\ UNCHANGED <<lan, conn, server, client>>

Environment ==
    \/ \E i \in Instances :
          \/ \E p \in People, a \in Addresses : Start(i, p, a)
          \/ Announce(i)
          \/ Leave(i)
          \/ End(i)
          \/ \E a \in Addresses : Move(i, a)
    \/ \E x \in Conns : Cut(x) /\ UNCHANGED <<server, client, air>>
    \/ \E m \in air : Lose(m)

Serving == ServerStep /\ UNCHANGED quiet

Calling == ClientStep /\ UNCHANGED air

OnLan(Step) == Step /\ UNCHANGED wan

OnWan(Step) == scene.instances = {} /\ Step /\ UNCHANGED <<lan, conn, server, client, air>>

Next == OnLan(Environment \/ Serving \/ Calling \/ DiscoveryStep) \/ OnWan(WanStep)

Spec == Init /\ [][Next]_vars

(* Timers fire in this node.  A running peer announces itself over and over, *)
(* and not every announcement is lost (strongly fair, for one packet at a    *)
(* time is in the air); one that is gone has been silent for heartbeatTtlMs  *)
(* when some sweep comes.  Nothing makes a peer answer, a handler return or  *)
(* a connection last.                                                        *)
Fairness ==
    /\ WF_vars(OnLan(\E m \in air : Lose(m)))
    /\ \A x \in Conns : WF_vars(OnLan(TimeOut(x) /\ UNCHANGED air))
    /\ \A i \in Instances :
          /\ WF_vars(OnLan(life[i] = "down" /\ i \in Known /\ PruneStalePeers({i})))
          /\ SF_vars(OnLan(Announce(i)))
          /\ SF_vars(OnLan(\E m \in air : m.from = i /\ OnServiceHeartbeat(m)))
    /\ \A c \in WanCalls : WF_vars(OnWan(WanFails(c)))

FairSpec == Spec /\ Fairness

-----------------------------------------------------------------------------
TypeOK == TypeOKWire /\ TypeOKServer /\ TypeOKClient /\ TypeOKDiscovery /\ WanTypeOK

\* "Fase 1B": a task runs only at the peer it was meant for, and what is on record
\* as proven of an instance is its own identity, although addresses change hands
\* between the look-up, the connection and the answer.
IdentityIsProven ==
    /\ \A k \in Calls, i \in Instances : ran[k][i] > 0 => owner[i] = Wanted[k]
    /\ \A i \in Instances : caps[i] \in {Nobody, owner[i]}

RanTimes(k) ==
    Cardinality({r \in Instances \X (1..MaxRetries + 1) : ran[k][r[1]] >= r[2]})

Told(k) == CASE call[k] = "idle" -> "nothing"
             [] call[k] \in {"sent", "backoff"} -> "wait"
             [] call[k] = "ok" -> "ok"
             [] call[k] \in {"failed", "dropped"} -> "failed"

WanTold(c) == IF answer[c] = "none"
              THEN IF stream[c].client = "closed" THEN "nothing" ELSE "wait"
              ELSE answer[c]

OneTask == INSTANCE RemoteTask WITH
    Tasks <- Calls \cup WanCalls,
    told  <- [k \in Calls \cup WanCalls |-> IF k \in Calls THEN Told(k) ELSE WanTold(k)],
    runs  <- [k \in Calls \cup WanCalls |-> IF k \in Calls THEN RanTimes(k) ELSE handled[k]]

\* Over both transports a remote call runs at most once wherever its connections end
\* up and however often it is tried, one that is reported as done has run, and "a
\* silent peer can never hang a caller indefinitely".
ImplementsRemoteTask == OneTask!Spec

\* The limiter's counts are the open connections and the running handlers, and
\* neither exceeds its cap, whatever ends first.
LimitsHold ==
    \A i \in Instances :
       /\ slots[i].connections = Cardinality(ServedBy(i))
       /\ slots[i].connections <= MaxConnections
       /\ slots[i].tasks = Cardinality(WorkingFor(i))
       /\ slots[i].tasks <= MaxTasks

\* A peer that is called is found where it now runs, although it moved or came
\* back as another instance: what is on record of its earlier instance, which the
\* look-up meets first, gives way without an mDNS "down".
RunsAt(p, i) ==
    life[i] = "up" /\ \A j \in Instances \ {i} : owner[j] = p => life[j] = "down"

FoundAt(p, i) ==
    Targets(p) # {} /\ LET j == Target(p) IN j = i /\ book[j] = home[i]

PeerIsFoundAgain ==
    []<>(\A k \in Calls, i \in Instances :
            owner[i] = Wanted[k] /\ RunsAt(owner[i], i) => FoundAt(owner[i], i))
=============================================================================
