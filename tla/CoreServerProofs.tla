--------------------------- MODULE CoreServerProofs ---------------------------
(* Facts about a node's process, for every set of requests, keys, first       *)
(* states and failing awaits, and for any number of starts: its variables     *)
(* keep their types; as long as every start is a networked one, no write of   *)
(* the vault mixes a second key into it, and a data directory has one peer    *)
(* ID; and for an operator who waits for each answer, the transports that run *)
(* are those that unlock, lock, pause and resume make of them.                *)
EXTENDS CoreServer, FiniteSetTheorems, TLAPS

Ops == {"none", "start", "unlock", "lock", "pause", "resume", "stop"}
Ats == {"idle", "file", "verify", "boot", "init", "identity", "wan",
        "stop", "stopWan", "exit"}

\* While no process runs, nothing is under way; while one does, it has a key.
UpHasKey ==
    IF server.up
    THEN masterKey \in Keys
    ELSE /\ ~server.unlocked
         /\ \A t \in Threads : job[t].at = "idle"
         /\ \A c \in Callers : caller[c].at = "idle"

\* What a call of getOrCreateIdentity holds at each place.
CallerKnows ==
    \A c \in Callers :
        /\ caller[c].at \in {"writePrivate", "writePublic"} => caller[c].pair \in Pairs
        /\ caller[c].at = "done" => caller[c].public \in Pairs /\ identity # None

\* What an operation holds at each await.
JobKnows ==
    \A t \in Threads :
        /\ job[t].at \in {"file", "verify"} => job[t].key \in Keys
        /\ job[t].at = "wan" => identity # None

TypeInv == TypeOK /\ UpHasKey /\ CallerKnows /\ JobKnows

\* Once the node was let open, every entry of the vault is sealed by its key.
Opened ==
    \/ server.unlocked
    \/ \E t \in Threads : job[t].at = "boot"
    \/ \E c \in Callers : caller[c].at # "idle"

Fits == \A s \in Secrets : vault[s] # None => vault[s].key = masterKey

OpenedFits == Opened => Fits

-----------------------------------------------------------------------------
(* The parts the actions are made of *)

\* A field of the server takes any value of its type.
LEMMA ServerUpdates ==
    ASSUME NEW s \in ServerRecord, NEW p \in Providers \union {None}, NEW b \in BOOLEAN
    PROVE  /\ [s EXCEPT !.paused = b] \in ServerRecord
           /\ [s EXCEPT !.unlocked = b] \in ServerRecord
           /\ [s EXCEPT !.booted = b] \in ServerRecord
           /\ [s EXCEPT !.provider = p] \in ServerRecord
           /\ [s EXCEPT !.wan = p] \in ServerRecord
  BY DEF ServerRecord

\* No operation ends with the server up or open that was not.
LEMMA AfterKeeps ==
    ASSUME NEW s \in ServerRecord, NEW op
    PROVE  /\ After(op, s) \in ServerRecord
           /\ After(op, s).up = s.up
           /\ After(op, s).unlocked => s.unlocked
  BY DEF ServerRecord, After

\* Only t moves, to at.
Moves(t, at) ==
    /\ job' \in [Threads -> JobRecord]
    /\ job'[t].at = at
    /\ \A u \in Threads \ {t} : job'[u] = job[u]

\* A thread that awaits has moved there with what it carries.
LEMMA AwaitMoves ==
    ASSUME job \in [Threads -> JobRecord], NEW t \in Threads, NEW at \in Ats,
           NEW op \in Ops, NEW key \in Keys \union {None},
           NEW target \in Providers \union {None},
           Await(t, at, op, key, target)
    PROVE  Moves(t, at) /\ job'[t].key = key
<1> DEFINE j == [at |-> at, op |-> op, key |-> key, target |-> target]
<1>1. j \in JobRecord
  BY DEF JobRecord, Ats, Ops
<1>2. job' = [job EXCEPT ![t] = j]
  BY DEF Await
<1> HIDE DEF j
<1>3. job' \in [Threads -> JobRecord] /\ job'[t] = j
      /\ \A u \in Threads \ {t} : job'[u] = job[u]
  BY <1>1, <1>2
<1>4. QED
  BY <1>3 DEF Moves, j

\* A thread that does nothing is well typed.
LEMMA NoJobType == NoJob \in JobRecord /\ NoJob.at = "idle"
  BY DEF NoJob, JobRecord

\* The fields that an operation leaves.
Leaves(s) ==
    /\ server' \in ServerRecord
    /\ server'.up = s.up
    /\ server'.unlocked => s.unlocked

\* An operation ends idle, a stop at the exit of the process.
LEMMA EndMoves ==
    ASSUME job \in [Threads -> JobRecord], NEW t \in Threads, NEW op \in Ops,
           NEW s \in ServerRecord, End(t, op, s)
    PROVE  Leaves(s) /\ \E at \in {"idle", "exit"} : Moves(t, at)
<1>1. Leaves(s)
  BY AfterKeeps DEF End, Leaves
<1>2. CASE op = "stop"
  BY <1>1, <1>2, AwaitMoves DEF End, Ats, Ops
<1>3. CASE op # "stop"
  <2>1. job' = [job EXCEPT ![t] = NoJob]
    BY <1>3 DEF End
  <2>2. Moves(t, "idle")
    BY <2>1, NoJobType DEF Moves
  <2>3. QED
    BY <1>1, <2>2
<1>4. QED
  BY <1>2, <1>3

\* Calling for the identity starts the call, or ends it with the pair in memory.
Calls(c) ==
    /\ caller' \in [Callers -> CallerRecord]
    /\ \A d \in Callers \ {c} : caller'[d] = caller[d]
    /\ \/ caller'[c].at = "public"
       \/ caller'[c].at = "done" /\ caller'[c].public \in Pairs /\ identity # None

\* A place is a record of a call.
LEMMA PlaceType ==
    ASSUME NEW at \in {"idle", "public", "private", "writePrivate", "writePublic", "done"},
           NEW public \in Pairs \union {None}, NEW pair \in Pairs \union {None}
    PROVE  /\ Place(at, public, pair) \in CallerRecord
           /\ Place(at, public, pair).at = at
           /\ Place(at, public, pair).public = public
           /\ Place(at, public, pair).pair = pair
  BY DEF Place, CallerRecord

\* The two ways of CallIdentity are those of Calls.
LEMMA CallIdentityCalls ==
    ASSUME IdentityTypeOK, NEW c \in Callers, CallIdentity(c)
    PROVE  Calls(c)
<1>1. CASE identity # None
  <2>1. identity.public \in Pairs
    BY <1>1 DEF IdentityTypeOK
  <2> DEFINE v == Place("done", identity.public, None)
  <2>2. caller' = [caller EXCEPT ![c] = v]
    BY <1>1 DEF CallIdentity
  <2>3. v \in CallerRecord /\ v.at = "done" /\ v.public = identity.public
    BY <2>1, PlaceType
  <2> HIDE DEF v
  <2>4. /\ caller' \in [Callers -> CallerRecord]
        /\ caller'[c] = v
        /\ \A d \in Callers \ {c} : caller'[d] = caller[d]
    BY <2>2, <2>3 DEF IdentityTypeOK
  <2>5. QED
    BY <1>1, <2>1, <2>3, <2>4 DEF Calls
<1>2. CASE identity = None
  <2> DEFINE v == Place("public", None, None)
  <2>1. caller' = [caller EXCEPT ![c] = v]
    BY <1>2 DEF CallIdentity
  <2>2. v \in CallerRecord /\ v.at = "public"
    BY PlaceType
  <2> HIDE DEF v
  <2>3. QED
    BY <2>1, <2>2 DEF Calls, IdentityTypeOK
<1>3. QED
  BY <1>1, <1>2

\* Whoever may ask for the identity is a caller.
LEMMA ThreadsAreCallers == Threads \subseteq Callers /\ "events" \in Callers
  BY NodeAssumption

\* startP2P ends or awaits the identity.
LEMMA StartP2PMoves ==
    ASSUME TypeOK, NEW t \in Threads, NEW op \in Ops, NEW s \in ServerRecord,
           StartP2P(t, op, s)
    PROVE  /\ Leaves(s)
           /\ \E at \in {"idle", "exit", "identity"} : Moves(t, at)
           /\ caller' = caller \/ Calls(t)
<1>1. CASE networking
  <2>1. Moves(t, "identity")
    BY <1>1, AwaitMoves DEF StartP2P, Ats, TypeOK, ServerTypeOK
  <2>2. Calls(t)
    BY <1>1, CallIdentityCalls, ThreadsAreCallers DEF StartP2P, TypeOK
  <2>3. QED
    BY <1>1, <2>1, <2>2 DEF StartP2P, Leaves
<1>2. CASE ~networking
  BY <1>2, EndMoves DEF StartP2P, TypeOK, ServerTypeOK
<1>3. QED
  BY <1>1, <1>2

\* The second half of stopP2P ends or awaits the WAN provider.
LEMMA StopWanMoves ==
    ASSUME TypeOK, NEW t \in Threads, NEW op \in Ops, NEW s \in ServerRecord,
           StopWan(t, op, s)
    PROVE  /\ Leaves(s)
           /\ \E at \in {"idle", "exit", "stopWan"} : Moves(t, at)
<1>1. CASE s.wan # None
  <2>1. s.wan \in Providers \union {None}
    BY DEF ServerRecord
  <2>2. Moves(t, "stopWan")
    BY <1>1, <2>1, AwaitMoves DEF StopWan, Ats, TypeOK, ServerTypeOK
  <2>3. QED
    BY <1>1, <2>2 DEF StopWan, Leaves
<1>2. CASE s.wan = None
  BY <1>2, EndMoves DEF StopWan, TypeOK, ServerTypeOK
<1>3. QED
  BY <1>1, <1>2

\* stopP2P ends or awaits one of the two providers.
LEMMA StopP2PMoves ==
    ASSUME TypeOK, NEW t \in Threads, NEW op \in Ops, StopP2P(t, op)
    PROVE  /\ Leaves(server)
           /\ \E at \in {"idle", "exit", "stopWan", "stop"} : Moves(t, at)
<1>1. CASE server.provider # None
  <2>1. server.provider \in Providers \union {None} /\ server \in ServerRecord
    BY DEF ServerRecord, TypeOK, ServerTypeOK
  <2>2. Moves(t, "stop")
    BY <1>1, <2>1, AwaitMoves DEF StopP2P, Ats, TypeOK, ServerTypeOK
  <2>3. QED
    BY <1>1, <2>1, <2>2 DEF StopP2P, Leaves
<1>2. CASE server.provider = None
  BY <1>2, StopWanMoves DEF StopP2P, TypeOK, ServerTypeOK
<1>3. QED
  BY <1>1, <1>2

\* finishBoot asks for the identity of an open node only.
LEMMA FinishBootMoves ==
    ASSUME TypeOK, NEW t \in Threads, NEW op \in Ops, NEW s \in ServerRecord,
           FinishBoot(t, op, s)
    PROVE  /\ Leaves(s)
           /\ \E at \in {"idle", "exit", "identity", "boot"} : Moves(t, at)
           /\ caller' = caller \/ (Calls(t) /\ s.unlocked)
           /\ s.booted => \E at \in {"idle", "exit", "identity"} : Moves(t, at)
<1>0. s.booted \in BOOLEAN /\ s.unlocked \in BOOLEAN /\ s.paused \in BOOLEAN
  BY DEF ServerRecord
<1>1. CASE s.booted = FALSE
  <2>1. Moves(t, "boot") /\ server' = s /\ caller' = caller
    BY <1>1, AwaitMoves DEF FinishBoot, Ats, TypeOK, ServerTypeOK
  <2>2. Leaves(s)
    BY <2>1 DEF Leaves
  <2>3. QED
    BY <1>1, <2>1, <2>2
<1>2. CASE s.booted = TRUE /\ s.unlocked = TRUE /\ s.paused = FALSE
  BY <1>2, StartP2PMoves DEF FinishBoot
<1>3. CASE s.booted = TRUE /\ ~(s.unlocked = TRUE /\ s.paused = FALSE)
  <2>1. End(t, op, s) /\ caller' = caller
    BY <1>0, <1>3 DEF FinishBoot
  <2>2. QED
    BY <2>1, EndMoves DEF TypeOK, ServerTypeOK
<1>4. QED
  BY <1>0, <1>1, <1>2, <1>3

-----------------------------------------------------------------------------
(* One step of one operation *)

\* What such a step leaves alone, and what it takes care of.
Careful(t, at) ==
    /\ server.up /\ server'.up
    /\ UNCHANGED <<vault, identity, queue, made, networking, starts>>
    /\ masterKey' \in Keys
    /\ server' \in ServerRecord
    /\ running' \subseteq Providers
    /\ announced' \subseteq [peer : Pairs, key : Pairs]
    /\ Moves(t, at)
    /\ at \in {"file", "verify"} => job'[t].key \in Keys
    /\ at = "wan" => identity # None
    /\ caller' \in [Callers -> CallerRecord]
    /\ CallerKnows'

\* A careful step keeps the types and what each call knows.
LEMMA CarefulKeeps ==
    ASSUME TypeInv, NEW t \in Threads, NEW at, Careful(t, at)
    PROVE  TypeInv'
<1> USE DEF TypeInv
<1>1. IdentityTypeOK'
  BY DEF IdentityTypeOK, TypeOK, Careful
<1>2. ServerTypeOK'
  BY DEF ServerTypeOK, TypeOK, Careful, Moves
<1>3. UpHasKey'
  BY DEF UpHasKey, Careful
<1>4. CallerKnows'
  BY DEF Careful
<1>5. JobKnows'
  <2> SUFFICES ASSUME NEW u \in Threads
               PROVE  /\ job'[u].at \in {"file", "verify"} => job'[u].key \in Keys
                      /\ job'[u].at = "wan" => identity' # None
    BY DEF JobKnows
  <2>1. CASE u = t
    BY <2>1 DEF Careful, Moves
  <2>2. CASE u # t
    <3>1. job'[u] = job[u] /\ identity' = identity
      BY <2>2 DEF Careful, Moves
    <3>2. QED
      BY <3>1 DEF JobKnows
  <2>3. QED
    BY <2>1, <2>2
<1>6. QED
  BY <1>1, <1>2, <1>3, <1>4, <1>5 DEF TypeOK

\* Nothing opens the node that was not open.
Shut(t, at) ==
    /\ UNCHANGED <<vault, masterKey>>
    /\ server'.unlocked => Opened
    /\ at = "boot" => Opened
    /\ \A c \in Callers : caller'[c].at # "idle" => caller[c].at # "idle" \/ Opened
    /\ Moves(t, at)

\* A step that opens nothing keeps the entries and the key together.
LEMMA ShutKeeps ==
    ASSUME OpenedFits, NEW t \in Threads, NEW at, Shut(t, at)
    PROVE  OpenedFits'
<1>1. Opened' => Opened
  BY DEF Opened, Shut, Moves
<1>2. Fits => Fits'
  BY DEF Fits, Shut
<1>3. QED
  BY <1>1, <1>2 DEF OpenedFits

\* The facts about an operation under way.
LEMMA UnderWay ==
    ASSUME TypeInv, NEW t \in Threads
    PROVE  /\ server \in ServerRecord /\ job \in [Threads -> JobRecord]
           /\ job[t].op \in Ops
           /\ job[t].target \in Providers \union {None}
           /\ job[t].key \in Keys \union {None}
           /\ job[t].at # "idle" => server.up
           /\ server.up => masterKey \in Keys
           /\ server.unlocked => server.up
           /\ t \in Callers
           /\ running \subseteq Providers
           /\ announced \subseteq [peer : Pairs, key : Pairs]
           /\ caller \in [Callers -> CallerRecord]
<1>1. /\ server \in ServerRecord /\ job \in [Threads -> JobRecord]
      /\ caller \in [Callers -> CallerRecord]
      /\ running \subseteq Providers /\ announced \subseteq [peer : Pairs, key : Pairs]
  BY DEF TypeInv, TypeOK, ServerTypeOK, IdentityTypeOK
<1>2. job[t] \in JobRecord
  BY <1>1
<1>3. QED
  BY <1>1, <1>2, ThreadsAreCallers DEF JobRecord, Ops, TypeInv, UpHasKey

\* A new call knows what it has to.
LEMMA CallsKnow ==
    ASSUME TypeInv, NEW c \in Callers, caller' = caller \/ Calls(c), UNCHANGED identity
    PROVE  /\ caller' \in [Callers -> CallerRecord]
           /\ CallerKnows'
<1>1. CASE caller' = caller
  BY <1>1 DEF TypeInv, TypeOK, IdentityTypeOK, CallerKnows
<1>2. CASE Calls(c)
  <2>1. caller' \in [Callers -> CallerRecord]
    BY <1>2 DEF Calls
  <2>2. ASSUME NEW d \in Callers
        PROVE  /\ caller'[d].at \in {"writePrivate", "writePublic"} => caller'[d].pair \in Pairs
               /\ caller'[d].at = "done" => caller'[d].public \in Pairs /\ identity' # None
    <3>1. CASE d = c
      BY <1>2, <3>1 DEF Calls
    <3>2. CASE d # c
      <4>1. caller'[d] = caller[d]
        BY <1>2, <3>2 DEF Calls
      <4>2. QED
        BY <4>1 DEF TypeInv, CallerKnows
    <3>3. QED
      BY <3>1, <3>2
  <2>3. Pairs' = Pairs
    BY DEF Pairs
  <2>4. QED
    BY <2>1, <2>2, <2>3 DEF CallerKnows
<1>3. QED
  BY <1>1, <1>2

Keeps == TypeInv' /\ (OpenedFits => OpenedFits')

\* A step that leaves the vault, its key and the pair in memory as they are.
LEMMA QuietKeeps ==
    ASSUME TypeInv, NEW t \in Threads, NEW c \in Callers, NEW s \in ServerRecord,
           server.up, s.up, s.unlocked => server.unlocked, Leaves(s),
           UNCHANGED <<vault, masterKey, identity, queue, made, networking, starts>>,
           \E at \in {"idle", "exit", "stop", "stopWan", "init", "identity"} : Moves(t, at),
           caller' = caller \/ (Calls(c) /\ Opened),
           running' \subseteq Providers,
           announced' \subseteq [peer : Pairs, key : Pairs]
    PROVE  Keeps
<1>1. PICK at \in {"idle", "exit", "stop", "stopWan", "init", "identity"} : Moves(t, at)
  OBVIOUS
<1>2. Careful(t, at)
  <2>1. caller' \in [Callers -> CallerRecord] /\ CallerKnows'
    BY CallsKnow
  <2>2. masterKey \in Keys
    BY UnderWay
  <2>3. QED
    BY <1>1, <2>1, <2>2 DEF Careful, Leaves
<1>3. Shut(t, at)
  <2>1. server'.unlocked => Opened
    BY DEF Leaves, Opened
  <2>2. ASSUME NEW d \in Callers, caller'[d].at # "idle"
        PROVE  caller[d].at # "idle" \/ Opened
    BY <2>2
  <2>3. QED
    BY <1>1, <2>1, <2>2 DEF Shut
<1>4. QED
  BY <1>2, <1>3, CarefulKeeps, ShutKeeps DEF Keeps

\* lockVault, pause and stop call stopP2P.
LEMMA StopsKeep ==
    ASSUME TypeInv, NEW t \in Threads,
           Lock(t) \/ Pause(t) \/ (t = "main" /\ Stop)
    PROVE  Keeps
<1>1. PICK op \in Ops : StopP2P(t, op)
  BY DEF Lock, Pause, Stop, Ops
<1>2. server.up /\ UNCHANGED <<identityVars, networking, running, announced, starts>>
  BY DEF Lock, Pause, Stop, Asks
<1>3. Leaves(server) /\ \E at \in {"idle", "exit", "stopWan", "stop"} : Moves(t, at)
  BY <1>1, StopP2PMoves DEF TypeInv
<1>4. QED
  BY <1>2, <1>3, UnderWay, QuietKeeps DEF identityVars

\* resume calls startP2P of an open node.
LEMMA ResumeKeeps ==
    ASSUME TypeInv, NEW r \in Threads, Resume(r)
    PROVE  Keeps
<1>1. /\ server.up /\ server.unlocked
      /\ UNCHANGED <<vault, masterKey, identity, queue, made, networking,
                     running, announced, starts>>
      /\ StartP2P(r, "resume", server)
  BY DEF Resume, Asks
<1>2. /\ Leaves(server)
      /\ \E at \in {"idle", "exit", "identity"} : Moves(r, at)
      /\ caller' = caller \/ Calls(r)
  BY <1>1, StartP2PMoves, UnderWay DEF TypeInv, Ops
<1>3. QED
  BY <1>1, <1>2, UnderWay, QuietKeeps DEF Opened

\* A provider has stopped.
LEMMA DownKeeps ==
    ASSUME TypeInv, NEW t \in Threads, LanDown(t) \/ WanDown(t)
    PROVE  Keeps
<1> DEFINE s == IF LanDown(t) THEN [server EXCEPT !.provider = None]
                              ELSE [server EXCEPT !.wan = None]
<1>1. s \in ServerRecord /\ s.up = server.up /\ s.unlocked = server.unlocked
  <2>1. server \in ServerRecord
    BY UnderWay
  <2>2. QED
    BY <2>1, ServerUpdates DEF ServerRecord
<1>2. Leaves(s) /\ \E at \in {"idle", "exit", "stopWan"} : Moves(t, at)
  <2>1. CASE LanDown(t)
    <3>1. StopWan(t, job[t].op, s)
      BY <2>1 DEF LanDown
    <3> HIDE DEF s
    <3>2. QED
      BY <3>1, <1>1, StopWanMoves, UnderWay DEF TypeInv
  <2>2. CASE ~LanDown(t)
    <3>1. End(t, job[t].op, s)
      BY <2>2 DEF WanDown
    <3> HIDE DEF s
    <3>2. QED
      BY <3>1, <1>1, EndMoves, UnderWay
  <2>3. QED
    BY <2>1, <2>2
<1> HIDE DEF s
<1>3. /\ server.up /\ running' \subseteq Providers
      /\ UNCHANGED <<identityVars, networking, announced, starts>>
  BY UnderWay DEF LanDown, WanDown
<1>4. QED
  BY <1>1, <1>2, <1>3, UnderWay, QuietKeeps DEF identityVars

\* The plugins are booted; the event layer may ask for the identity.
LEMMA BootHostKeeps ==
    ASSUME TypeInv, NEW t \in Threads, BootHost(t)
    PROVE  Keeps
<1>1. Moves(t, "init")
  BY AwaitMoves, UnderWay DEF BootHost, Ats
<1>2. Opened /\ server.up
  BY UnderWay DEF BootHost, Opened
<1>3. caller' = caller \/ Calls("events")
  BY CallIdentityCalls, ThreadsAreCallers DEF BootHost, TypeInv, TypeOK
<1>4. /\ UNCHANGED <<vault, masterKey, identity, queue, made, networking,
                     running, announced, starts>>
      /\ server' = server
  BY DEF BootHost
<1>5. Leaves(server)
  BY <1>4, UnderWay DEF Leaves
<1>6. QED
  BY <1>1, <1>2, <1>3, <1>4, <1>5, UnderWay, ThreadsAreCallers, QuietKeeps

\* Governance and PAL are there; finishBoot goes on.
LEMMA InitDoneKeeps ==
    ASSUME TypeInv, NEW t \in Threads, InitDone(t)
    PROVE  Keeps
<1> DEFINE s == [server EXCEPT !.booted = TRUE]
<1>1. s \in ServerRecord /\ s.up = server.up /\ s.unlocked = server.unlocked /\ s.booted
  BY UnderWay, ServerUpdates DEF ServerRecord
<1>2. FinishBoot(t, job[t].op, s)
  BY DEF InitDone
<1> HIDE DEF s
<1>3. /\ Leaves(s)
      /\ \E at \in {"idle", "exit", "identity"} : Moves(t, at)
      /\ caller' = caller \/ (Calls(t) /\ s.unlocked)
  BY <1>1, <1>2, FinishBootMoves, UnderWay DEF TypeInv
<1>4. /\ server.up
      /\ UNCHANGED <<vault, masterKey, identity, queue, made, networking,
                     running, announced, starts>>
  BY UnderWay DEF InitDone
<1>5. QED
  BY <1>1, <1>3, <1>4, UnderWay, QuietKeeps DEF Opened

\* An unlock brings a key to try.
LEMMA UnlockKeeps ==
    ASSUME TypeInv, NEW r \in Threads, Unlock(r)
    PROVE  Keeps
<1>1. PICK k \in Keys : Await(r, "file", "unlock", k, None)
  BY DEF Unlock
<1>2. /\ server.up
      /\ UNCHANGED <<identityVars, networking, server, running, announced, starts>>
  BY DEF Unlock, Asks
<1>3. Moves(r, "file") /\ job'[r].key = k
  BY <1>1, AwaitMoves, UnderWay DEF Ats, Ops
<1>4. caller' \in [Callers -> CallerRecord] /\ CallerKnows'
  BY <1>2, CallsKnow, UnderWay DEF identityVars
<1>5. Careful(r, "file")
  BY <1>1, <1>2, <1>3, <1>4, UnderWay DEF Careful, identityVars
<1>6. Shut(r, "file")
  BY <1>2, <1>3 DEF Shut, Opened, identityVars
<1>7. QED
  BY <1>5, <1>6, CarefulKeeps, ShutKeeps DEF Keeps

\* A key is installed that every entry, if there are any, is sealed by.
LEMMA InstallKeeps ==
    ASSUME TypeInv, NEW r \in Threads, job[r].at \in {"file", "verify"}, Install(r),
           \A s \in Secrets : vault[s] # None => vault[s].key = job[r].key,
           UNCHANGED <<vault, identity, queue, made, scene, networking, running,
                       announced, starts>>
    PROVE  Keeps
<1> DEFINE s == [server EXCEPT !.unlocked = TRUE, !.paused = FALSE]
<1>1. s \in ServerRecord /\ s.up = server.up
  BY UnderWay DEF ServerRecord
<1>2. FinishBoot(r, "unlock", s) /\ masterKey' = job[r].key
  BY DEF Install
<1> HIDE DEF s
<1>3. /\ Leaves(s)
      /\ \E at \in {"idle", "exit", "identity", "boot"} : Moves(r, at)
      /\ caller' = caller \/ Calls(r)
  BY <1>1, <1>2, FinishBootMoves DEF TypeInv, Ops
<1>4. PICK at \in {"idle", "exit", "identity", "boot"} : Moves(r, at)
  BY <1>3
<1>5. caller' \in [Callers -> CallerRecord] /\ CallerKnows'
  BY <1>3, CallsKnow, UnderWay
<1>6. job[r].key \in Keys
  BY DEF TypeInv, JobKnows
<1>7. server.up
  BY UnderWay
<1>8. Careful(r, at)
  BY <1>1, <1>2, <1>3, <1>4, <1>5, <1>6, <1>7, UnderWay DEF Careful, Leaves
<1>9. Fits'
  BY <1>2 DEF Fits, Secrets
<1>10. QED
  BY <1>8, <1>9, CarefulKeeps DEF Keeps, OpenedFits

\* unlockVault installs a key that fits, or none.
LEMMA ChecksKeep ==
    ASSUME TypeInv, NEW r \in Threads, CheckVaultFile(r) \/ CheckKey(r)
    PROVE  Keeps
<1>1. /\ job[r].at \in {"file", "verify"}
      /\ UNCHANGED <<vault, identity, queue, made, scene, networking, running,
                     announced, starts>>
  BY DEF CheckVaultFile, CheckKey
<1>2. CASE Install(r) /\ \A s \in Secrets : vault[s] # None => vault[s].key = job[r].key
  BY <1>1, <1>2, InstallKeeps
<1>3. CASE /\ Await(r, "verify", "unlock", job[r].key, None)
           /\ UNCHANGED <<masterKey, server, caller>>
  <2>1. Moves(r, "verify") /\ job'[r].key = job[r].key
    <3>1. "verify" \in Ats /\ "unlock" \in Ops
      BY DEF Ats, Ops
    <3>2. QED
      BY <1>3, <3>1, AwaitMoves, UnderWay
  <2>2. job[r].key \in Keys
    BY <1>1 DEF TypeInv, JobKnows
  <2>3. caller' \in [Callers -> CallerRecord] /\ CallerKnows'
    BY <1>1, <1>3, CallsKnow, UnderWay
  <2>4. Careful(r, "verify")
    BY <1>1, <1>3, <2>1, <2>2, <2>3, UnderWay DEF Careful
  <2>5. Shut(r, "verify")
    BY <1>1, <1>3, <2>1 DEF Shut, Opened
  <2>6. QED
    BY <2>4, <2>5, CarefulKeeps, ShutKeeps DEF Keeps
<1>4. CASE End(r, "unlock", server) /\ UNCHANGED <<masterKey, caller>>
  <2>1. Leaves(server) /\ \E at \in {"idle", "exit"} : Moves(r, at)
    BY <1>4, EndMoves, UnderWay DEF Ops
  <2>2. QED
    BY <1>1, <1>4, <2>1, UnderWay, QuietKeeps
<1>5. QED
  BY <1>2, <1>3, <1>4 DEF CheckVaultFile, CheckKey, HasVaultFile, VerifyKey

\* The WAN provider is up under the pair in memory.
LEMMA WanUpKeeps ==
    ASSUME TypeInv, NEW t \in Threads, WanUp(t)
    PROVE  Keeps
<1> DEFINE s == [server EXCEPT !.wan = NewProvider]
<1>1. NewProvider \in Providers
  BY DEF WanUp, NewProvider, Unused
<1>2. s \in ServerRecord /\ s.up = server.up /\ s.unlocked = server.unlocked
  BY <1>1, UnderWay, ServerUpdates DEF ServerRecord
<1>3. identity \in [public : Pairs, private : Pairs]
  BY DEF WanUp, TypeInv, JobKnows, TypeOK, IdentityTypeOK
<1>4. /\ running' \subseteq Providers
      /\ announced' \subseteq [peer : Pairs, key : Pairs]
  BY <1>1, <1>3, UnderWay DEF WanUp, Runs
<1>5. /\ End(t, job[t].op, s)
      /\ server.up
      /\ UNCHANGED <<identityVars, networking, starts>>
  BY UnderWay DEF WanUp
<1> HIDE DEF s
<1>6. Leaves(s) /\ \E at \in {"idle", "exit"} : Moves(t, at)
  BY <1>2, <1>5, EndMoves, UnderWay
<1>7. QED
  BY <1>2, <1>4, <1>5, <1>6, UnderWay, QuietKeeps DEF identityVars

\* A caller that does not call is well typed.
LEMMA NotCalledType == NotCalled \in CallerRecord /\ NotCalled.at = "idle"
  BY DEF NotCalled, Place, CallerRecord

\* Forgetting a finished call keeps what the others know.
LEMMA ForgetsCall ==
    ASSUME TypeInv, NEW t \in Callers, caller' = [caller EXCEPT ![t] = NotCalled],
           UNCHANGED identity
    PROVE  /\ caller' \in [Callers -> CallerRecord] /\ CallerKnows'
           /\ \A c \in Callers : caller'[c].at # "idle" => caller[c].at # "idle"
<1>1. caller \in [Callers -> CallerRecord]
  BY DEF TypeInv, TypeOK, IdentityTypeOK
<1>2. \A c \in Callers : caller'[c] = NotCalled \/ caller'[c] = caller[c]
  BY <1>1
<1>3. caller' \in [Callers -> CallerRecord]
  BY <1>1, NotCalledType
<1>4. CallerKnows'
  BY <1>2, NotCalledType DEF CallerKnows, TypeInv, Pairs
<1>5. QED
  BY <1>2, <1>3, <1>4, NotCalledType

\* The LAN provider is up under the public half that the call returned.
LEMMA LanUpKeeps ==
    ASSUME TypeInv, NEW t \in Threads, LanUp(t)
    PROVE  Keeps
<1> DEFINE s == [server EXCEPT !.provider = NewProvider]
<1>1. NewProvider \in Providers
  BY DEF LanUp, NewProvider, Unused
<1>2. s \in ServerRecord /\ s.up = server.up /\ s.unlocked = server.unlocked
  BY <1>1, UnderWay, ServerUpdates DEF ServerRecord
<1>3. identity # None /\ caller[t].public \in Pairs
  BY UnderWay DEF LanUp, TypeInv, CallerKnows
<1>4. identity.private \in Pairs
  BY <1>3 DEF TypeInv, TypeOK, IdentityTypeOK
<1>5. /\ running' \subseteq Providers
      /\ announced' \subseteq [peer : Pairs, key : Pairs]
  BY <1>1, <1>3, <1>4, UnderWay DEF LanUp, Runs
<1>6. /\ server.up
      /\ UNCHANGED <<vault, masterKey, identity, queue, made, networking, starts>>
      /\ \/ server' = s /\ Await(t, "wan", job[t].op, None, None)
         \/ End(t, job[t].op, s)
  BY UnderWay DEF LanUp
<1> HIDE DEF s
<1>7. Leaves(s) /\ \E at \in {"idle", "exit", "wan"} : Moves(t, at)
  <2>1. CASE End(t, job[t].op, s)
    BY <1>2, <2>1, EndMoves, UnderWay
  <2>2. CASE server' = s /\ Await(t, "wan", job[t].op, None, None)
    <3>1. "wan" \in Ats
      BY DEF Ats
    <3>2. Moves(t, "wan")
      BY <2>2, <3>1, AwaitMoves, UnderWay
    <3>3. QED
      BY <1>2, <2>2, <3>2 DEF Leaves
  <2>3. QED
    BY <1>6, <2>1, <2>2
<1>8. PICK at \in {"idle", "exit", "wan"} : Moves(t, at)
  BY <1>7
<1>9. /\ caller' \in [Callers -> CallerRecord] /\ CallerKnows'
      /\ \A c \in Callers : caller'[c].at # "idle" => caller[c].at # "idle"
  BY <1>6, ForgetsCall, UnderWay DEF LanUp
<1>10. Careful(t, at)
  BY <1>2, <1>3, <1>5, <1>6, <1>7, <1>8, <1>9, UnderWay DEF Careful, Leaves
<1>11. Shut(t, at)
  BY <1>2, <1>6, <1>7, <1>8, <1>9 DEF Shut, Opened, Leaves
<1>12. QED
  BY <1>10, <1>11, CarefulKeeps, ShutKeeps DEF Keeps

\* Without a process nothing is open or under way.
LEMMA GoneKeeps ==
    ASSUME TypeInv, Gone
    PROVE  Keeps
<1>1. Down \in ServerRecord
  BY DEF Down, ServerRecord
<1>2. ServerTypeOK'
  BY <1>1, NoJobType DEF Gone, ServerTypeOK, TypeInv, TypeOK
<1>3. IdentityTypeOK'
  BY NotCalledType DEF Gone, ForgetIdentity, IdentityTypeOK, TypeInv, TypeOK
<1>4. /\ ~server'.up /\ ~server'.unlocked
      /\ \A t \in Threads : job'[t].at = "idle"
      /\ \A c \in Callers : caller'[c].at = "idle"
  BY NoJobType, NotCalledType DEF Gone, ForgetIdentity, Down
<1>5. UpHasKey' /\ CallerKnows' /\ JobKnows' /\ ~Opened'
  BY <1>4 DEF UpHasKey, CallerKnows, JobKnows, Opened
<1>6. QED
  BY <1>2, <1>3, <1>5 DEF Keeps, TypeInv, TypeOK, OpenedFits

\* A rejected await ends the operation or the process.
LEMMA FailsKeeps ==
    ASSUME TypeInv, NEW t \in Threads, Fails(t)
    PROVE  Keeps
<1>1. CASE Gone
  BY <1>1, GoneKeeps
<1>2. CASE /\ job' = [job EXCEPT ![t] = NoJob]
           /\ caller' = [caller EXCEPT ![t] = NotCalled]
           /\ UNCHANGED <<vault, masterKey, identity, queue, made, scene, networking,
                          server, running, announced, starts>>
  <2>1. Moves(t, "idle")
    BY <1>2, NoJobType, UnderWay DEF Moves
  <2>2. /\ caller' \in [Callers -> CallerRecord] /\ CallerKnows'
        /\ \A c \in Callers : caller'[c].at # "idle" => caller[c].at # "idle"
    BY <1>2, ForgetsCall, UnderWay
  <2>3. CASE server.up
    <3>1. Careful(t, "idle")
      BY <1>2, <2>1, <2>2, <2>3, UnderWay DEF Careful
    <3>2. Shut(t, "idle")
      BY <1>2, <2>1, <2>2 DEF Shut, Opened
    <3>3. QED
      BY <3>1, <3>2, CarefulKeeps, ShutKeeps DEF Keeps
  <2>4. QED
    BY <2>3, UnderWay, NodeAssumption DEF Fails
<1>3. QED
  BY <1>1, <1>2 DEF Fails, Abort

\* A start finds no process, and what is under way is nothing.
LEMMA StartKeeps ==
    ASSUME TypeInv, Start
    PROVE  TypeInv' /\ (Modes = {TRUE} => OpenedFits')
<1>1. /\ ~server.up /\ ~server.unlocked
      /\ \A t \in Threads : job[t].at = "idle"
      /\ \A c \in Callers : caller[c].at = "idle"
  BY DEF Start, TypeInv, UpHasKey, TypeOK, ServerTypeOK
<1>2. /\ masterKey' \in Keys /\ networking' \in BOOLEAN
      /\ starts' \in 0..MaxStarts
      /\ UNCHANGED <<vault, identity, caller, queue, made, running, announced>>
  BY NodeAssumption DEF Start, TypeInv, TypeOK, ServerTypeOK
<1>3. IdentityTypeOK' /\ CallerKnows'
  BY <1>2 DEF IdentityTypeOK, TypeInv, TypeOK, CallerKnows
<1>4. CASE HasVaultFile /\ networking'
  <2>1. server' = [Down EXCEPT !.up = TRUE] /\ job' = job
    BY <1>4 DEF Start
  <2>2. server' \in ServerRecord /\ server'.up /\ ~server'.unlocked
    BY <2>1 DEF Down, ServerRecord
  <2>3. ServerTypeOK' /\ UpHasKey' /\ JobKnows'
    BY <1>2, <2>1, <2>2 DEF ServerTypeOK, TypeInv, TypeOK, UpHasKey, JobKnows
  <2>4. ~Opened'
    BY <1>1, <1>2, <2>1, <2>2 DEF Opened
  <2>5. QED
    BY <1>3, <2>3, <2>4 DEF TypeInv, TypeOK, OpenedFits
<1>5. CASE ~(HasVaultFile /\ networking')
  <2>1. /\ server' = [Down EXCEPT !.up = TRUE, !.unlocked = TRUE]
        /\ Await("main", "boot", "start", None, None)
    BY <1>5 DEF Start
  <2>2. server' \in ServerRecord /\ server'.up
    BY <2>1 DEF Down, ServerRecord
  <2>3. Moves("main", "boot") /\ "main" \in Threads
    BY <2>1, AwaitMoves DEF Ats, Ops, Threads, TypeInv, TypeOK, ServerTypeOK
  <2>4. ServerTypeOK' /\ UpHasKey'
    BY <1>2, <2>2, <2>3 DEF ServerTypeOK, TypeInv, TypeOK, UpHasKey, Moves
  <2>5. JobKnows'
    BY <1>1, <2>3 DEF JobKnows, Moves
  <2>6. Modes = {TRUE} => Fits'
    <3>1. Modes = {TRUE} => networking'
      BY DEF Start
    <3>2. QED
      BY <1>2, <1>5, <3>1 DEF Fits, HasVaultFile, Secrets
  <2>7. QED
    BY <1>3, <2>4, <2>5, <2>6 DEF TypeInv, TypeOK, OpenedFits
<1>6. QED
  BY <1>4, <1>5

-----------------------------------------------------------------------------
(* The steps of getOrCreateIdentity *)

\* Only c moves, to a place whose locals are what they have to be.
Advances(c, p) ==
    /\ p \in CallerRecord
    /\ caller' = [caller EXCEPT ![c] = p]
    /\ p.at \in {"writePrivate", "writePublic"} => p.pair \in Pairs
    /\ p.at = "done" => p.public \in Pairs /\ identity' # None
    /\ identity # None => identity' # None

\* A step of one call leaves the other calls what they know.
LEMMA AdvancesKeeps ==
    ASSUME TypeInv, NEW c \in Callers, caller[c].at # "idle", NEW p, Advances(c, p),
           vault' \in [Secrets -> Entry \union {None}],
           identity' \in [public : Pairs, private : Pairs] \union {None},
           queue' \in Seq(Callers), made' \in 0..MaxPairs,
           UNCHANGED <<masterKey, networking, server, job, running, announced, starts>>
    PROVE  /\ TypeInv'
           /\ \A d \in Callers : caller'[d].at # "idle" => caller[d].at # "idle"
<1>1. caller \in [Callers -> CallerRecord]
  BY DEF TypeInv, TypeOK, IdentityTypeOK
<1>2. /\ caller' \in [Callers -> CallerRecord]
      /\ caller'[c] = p
      /\ \A d \in Callers \ {c} : caller'[d] = caller[d]
  BY <1>1 DEF Advances
<1>3. IdentityTypeOK' /\ ServerTypeOK'
  BY <1>2 DEF IdentityTypeOK, ServerTypeOK, TypeInv, TypeOK
<1>4. CallerKnows'
  <2> SUFFICES ASSUME NEW d \in Callers
               PROVE  /\ caller'[d].at \in {"writePrivate", "writePublic"} => caller'[d].pair \in Pairs
                      /\ caller'[d].at = "done" => caller'[d].public \in Pairs /\ identity' # None
    BY DEF CallerKnows, Pairs
  <2>1. CASE d = c
    BY <1>2, <2>1 DEF Advances
  <2>2. CASE d # c
    BY <1>2, <2>2 DEF Advances, TypeInv, CallerKnows
  <2>3. QED
    BY <2>1, <2>2
<1>5. JobKnows'
  BY DEF JobKnows, Advances, TypeInv
<1>6. server.up
  BY DEF TypeInv, UpHasKey
<1>7. UpHasKey'
  BY <1>6 DEF UpHasKey, TypeInv
<1>8. \A d \in Callers : caller'[d].at # "idle" => caller[d].at # "idle"
  BY <1>2
<1>9. QED
  BY <1>3, <1>4, <1>5, <1>7, <1>8 DEF TypeInv, TypeOK

\* A read of the vault yields a pair or nothing.
LEMMA GetSecretType ==
    ASSUME IdentityTypeOK, NEW s \in Secrets
    PROVE  GetSecret(s) \in Pairs \union {None}
  BY DEF IdentityTypeOK, GetSecret, Entry

\* A pair in memory is not the absence of one.
LEMMA PairIsNotNone == None \notin [public : Pairs, private : Pairs]
  BY IdentityAssumption DEF Pairs

\* The first read of getOrCreateIdentity.
LEMMA ReadPublicKeeps ==
    ASSUME TypeInv, NEW c \in Callers, ReadPublic(c),
           UNCHANGED <<networking, server, job, running, announced, starts>>
    PROVE  Keeps
<1> DEFINE p == Place("private", GetSecret("public"), None)
<1>1. IdentityTypeOK
  BY DEF TypeInv, TypeOK
<1>2. p \in CallerRecord /\ p.at = "private"
  BY <1>1, GetSecretType, PlaceType DEF Secrets
<1>3. caller[c].at # "idle" /\ caller' = [caller EXCEPT ![c] = p]
      /\ UNCHANGED <<vault, masterKey, identity, queue, made>>
  BY DEF ReadPublic
<1> HIDE DEF p
<1>4. Advances(c, p)
  BY <1>2, <1>3 DEF Advances
<1>5. TypeInv' /\ \A d \in Callers : caller'[d].at # "idle" => caller[d].at # "idle"
  BY <1>1, <1>3, <1>4, AdvancesKeeps DEF IdentityTypeOK
<1>6. QED
  BY <1>3, <1>5 DEF Keeps, OpenedFits, Opened, Fits

\* The second read, and the pair that is taken up or made.
LEMMA ReadPrivateKeeps ==
    ASSUME TypeInv, NEW c \in Callers, ReadPrivate(c),
           UNCHANGED <<networking, server, job, running, announced, starts>>
    PROVE  Keeps
<1>1. IdentityTypeOK /\ caller[c].at # "idle" /\ UNCHANGED <<vault, masterKey>>
  BY DEF TypeInv, TypeOK, ReadPrivate
<1>2. caller[c] \in CallerRecord
  BY <1>1 DEF IdentityTypeOK
<1>3. TypeInv' /\ \A d \in Callers : caller'[d].at # "idle" => caller[d].at # "idle"
  <2>1. CASE Reuse(c) /\ caller[c].public # None /\ GetSecret("private") # None
    <3> DEFINE p == Place("done", caller[c].public, None)
    <3>1. caller[c].public \in Pairs /\ GetSecret("private") \in Pairs
      BY <1>1, <1>2, <2>1, GetSecretType DEF CallerRecord, Secrets
    <3>2. p \in CallerRecord /\ p.at = "done" /\ p.public \in Pairs
      BY <3>1, PlaceType
    <3>3. /\ identity' = [public |-> caller[c].public, private |-> GetSecret("private")]
          /\ caller' = [caller EXCEPT ![c] = p]
          /\ UNCHANGED <<queue, made>>
      BY <2>1 DEF Reuse
    <3> HIDE DEF p
    <3>4. identity' \in [public : Pairs, private : Pairs]
      BY <3>1, <3>3
    <3>5. identity' # None
      BY <3>4, PairIsNotNone
    <3>6. Advances(c, p)
      BY <3>2, <3>3, <3>5 DEF Advances
    <3>7. QED
      BY <1>1, <3>3, <3>4, <3>6, AdvancesKeeps DEF IdentityTypeOK
  <2>2. CASE Generate(c)
    <3> DEFINE p == Place("writePrivate", None, made + 1)
    <3>1. made + 1 \in Pairs /\ made' \in 0..MaxPairs
      BY <1>1, <2>2, IdentityAssumption DEF IdentityTypeOK, Generate, Pairs
    <3>2. p \in CallerRecord /\ p.at = "writePrivate" /\ p.pair \in Pairs
      BY <3>1, PlaceType
    <3>3. queue' \in Seq(Callers) /\ caller' = [caller EXCEPT ![c] = p] /\ identity' = identity
      BY <1>1, <2>2 DEF Generate, IdentityTypeOK
    <3> HIDE DEF p
    <3>4. Advances(c, p)
      BY <3>2, <3>3 DEF Advances
    <3>5. QED
      BY <1>1, <3>1, <3>3, <3>4, AdvancesKeeps DEF IdentityTypeOK
  <2>3. QED
    BY <2>1, <2>2 DEF ReadPrivate
<1>4. QED
  BY <1>1, <1>3 DEF Keeps, OpenedFits, Opened, Fits

\* A write of one half by c, at either place.
Writes(c, s) ==
    /\ caller[c].at \in {"writePrivate", "writePublic"}
    /\ s \in Secrets
    /\ SetSecret(s, caller[c].pair)
    /\ UNCHANGED masterKey

\* A write seals one half by the key that the others are sealed by.
LEMMA WritesFit ==
    ASSUME TypeInv, NEW c \in Callers, NEW s, Writes(c, s)
    PROVE  /\ vault' \in [Secrets -> Entry \union {None}]
           /\ OpenedFits => Fits /\ Fits'
           /\ vault'[s] # None /\ vault'[s].key = masterKey
<1>1. caller[c].pair \in Pairs /\ masterKey \in Keys
  BY DEF Writes, TypeInv, CallerKnows, UpHasKey
<1> DEFINE e == [pair |-> caller[c].pair, key |-> masterKey]
<1>2. e \in Entry /\ e.key = masterKey
  BY <1>1 DEF Entry
<1>3. e # None
  BY <1>2, IdentityAssumption DEF Entry, Pairs
<1>4. s \in Secrets /\ vault' = [vault EXCEPT ![s] = e] /\ masterKey' = masterKey
  BY DEF Writes, SetSecret
<1>5. vault \in [Secrets -> Entry \union {None}]
  BY DEF TypeInv, TypeOK, IdentityTypeOK
<1> HIDE DEF e
<1>6. /\ vault' \in [Secrets -> Entry \union {None}]
      /\ vault'[s] = e
      /\ \A u \in Secrets \ {s} : vault'[u] = vault[u]
  BY <1>2, <1>4, <1>5
<1>7. OpenedFits => Fits
  BY DEF OpenedFits, Opened, Writes
<1>8. Fits => Fits'
  <2> SUFFICES ASSUME Fits, NEW u \in Secrets, vault'[u] # None
               PROVE  vault'[u].key = masterKey'
    BY DEF Fits, Secrets
  <2>1. CASE u = s
    BY <1>2, <1>4, <1>6, <2>1
  <2>2. CASE u # s
    BY <1>4, <1>6, <2>2 DEF Fits
  <2>3. QED
    BY <2>1, <2>2
<1>9. QED
  BY <1>2, <1>3, <1>6, <1>7, <1>8

\* The private half is written.
LEMMA WritePrivateKeeps ==
    ASSUME TypeInv, NEW c \in Callers, WritePrivate(c),
           UNCHANGED <<networking, server, job, running, announced, starts>>
    PROVE  Keeps
<1> DEFINE p == Place("writePublic", None, caller[c].pair)
<1>1. IdentityTypeOK /\ caller[c].pair \in Pairs
  BY DEF TypeInv, TypeOK, WritePrivate, CallerKnows
<1>2. p \in CallerRecord /\ p.at = "writePublic" /\ p.pair \in Pairs
  BY <1>1, PlaceType
<1>3. Writes(c, "private")
  BY DEF WritePrivate, Writes, Secrets
<1>4. caller' = [caller EXCEPT ![c] = p] /\ UNCHANGED <<masterKey, identity, made>>
  BY DEF WritePrivate
<1>5. queue' \in Seq(Callers)
  BY <1>1 DEF WritePrivate, IdentityTypeOK
<1> HIDE DEF p
<1>6. Advances(c, p)
  BY <1>2, <1>4 DEF Advances
<1>7. TypeInv'
  BY <1>1, <1>3, <1>4, <1>5, <1>6, WritesFit, AdvancesKeeps DEF IdentityTypeOK, WritePrivate
<1>8. QED
  BY <1>3, <1>7, WritesFit DEF Keeps, OpenedFits

\* The public half is written and the pair counts.
LEMMA WritePublicKeeps ==
    ASSUME TypeInv, NEW c \in Callers, WritePublic(c),
           UNCHANGED <<networking, server, job, running, announced, starts>>
    PROVE  Keeps
<1> DEFINE p == Place("done", caller[c].pair, None)
<1>1. IdentityTypeOK /\ caller[c].pair \in Pairs
  BY DEF TypeInv, TypeOK, WritePublic, CallerKnows
<1>2. p \in CallerRecord /\ p.at = "done" /\ p.public \in Pairs
  BY <1>1, PlaceType
<1>3. Writes(c, "public")
  BY DEF WritePublic, Writes, Secrets
<1>4. /\ caller' = [caller EXCEPT ![c] = p] /\ UNCHANGED <<masterKey, made>>
      /\ identity' = [public |-> caller[c].pair, private |-> caller[c].pair]
  BY DEF WritePublic
<1>5. queue' \in Seq(Callers)
  BY <1>1 DEF WritePublic, IdentityTypeOK
<1>6. identity' \in [public : Pairs, private : Pairs]
  BY <1>1, <1>4
<1> HIDE DEF p
<1>7. Advances(c, p)
  BY <1>2, <1>4, <1>6, PairIsNotNone DEF Advances
<1>8. TypeInv'
  BY <1>1, <1>3, <1>4, <1>5, <1>6, <1>7, WritesFit, AdvancesKeeps DEF IdentityTypeOK, WritePublic
<1>9. QED
  BY <1>3, <1>8, WritesFit DEF Keeps, OpenedFits

-----------------------------------------------------------------------------
(* The theorems *)

\* Before the first start.
LEMMA InitKeeps == Init => TypeInv /\ OpenedFits
<1> SUFFICES ASSUME Init PROVE TypeInv /\ OpenedFits
  OBVIOUS
<1>1. IdentityTypeOK
  BY NodeAssumption, NotCalledType DEF Init, IdentityTypeOK
<1>2. ServerTypeOK
  BY NodeAssumption, NoJobType DEF Init, ServerTypeOK, Down, ServerRecord
<1>3. UpHasKey /\ CallerKnows /\ JobKnows /\ ~Opened
  BY NotCalledType, NoJobType
     DEF Init, UpHasKey, CallerKnows, JobKnows, Opened, Down
<1>4. QED
  BY <1>1, <1>2, <1>3 DEF TypeInv, TypeOK, OpenedFits

\* Every action keeps the invariant; the starts need networked ones.
LEMMA NextKeeps ==
    ASSUME TypeInv, Next
    PROVE  TypeInv' /\ (Modes = {TRUE} /\ OpenedFits => OpenedFits')
<1> USE DEF Keeps
<1>1. CASE Start
  BY <1>1, StartKeeps
<1>2. CASE Stop
  BY <1>2, StopsKeep DEF Threads
<1>3. CASE Exit \/ Crash
  BY <1>3, GoneKeeps DEF Exit, Crash
<1>4. ASSUME NEW c \in Callers, IdentityStep(c),
             UNCHANGED <<scene, networking, server, job, running, announced, starts>>
      PROVE  Keeps
  BY <1>4, ReadPublicKeeps, ReadPrivateKeeps, WritePrivateKeeps, WritePublicKeeps
     DEF IdentityStep
<1>5. ASSUME NEW t \in Threads, Progress(t) \/ Fails(t)
      PROVE  Keeps
  BY <1>5, ChecksKeep, BootHostKeeps, InitDoneKeeps, LanUpKeeps, WanUpKeeps, DownKeeps,
     FailsKeeps DEF Progress
<1>6. ASSUME NEW r \in Requests, Unlock(r) \/ Lock(r) \/ Pause(r) \/ Resume(r)
      PROVE  Keeps
  BY <1>6, UnlockKeeps, StopsKeep, ResumeKeeps DEF Threads
<1>7. QED
  BY <1>1, <1>2, <1>3, <1>4, <1>5, <1>6 DEF Next, Identity

\* A stuttering step keeps it too.
LEMMA StutterKeeps ==
    ASSUME TypeInv, UNCHANGED vars
    PROVE  TypeInv' /\ (OpenedFits => OpenedFits')
<1> USE DEF vars
<1>1. IdentityTypeOK' /\ ServerTypeOK'
  BY DEF IdentityTypeOK, ServerTypeOK, TypeInv, TypeOK
<1>2. UpHasKey' /\ CallerKnows' /\ JobKnows'
  BY DEF UpHasKey, CallerKnows, JobKnows, TypeInv
<1>3. OpenedFits => OpenedFits'
  BY DEF OpenedFits, Opened, Fits
<1>4. QED
  BY <1>1, <1>2, <1>3 DEF TypeInv, TypeOK

\* The fields of the server, the operations under way, the vault, the pair in
\* memory and each call for it keep their types through starts, crashes and
\* rejected awaits (CoreServer, IdentityManager.getOrCreateIdentity).
THEOREM TypeCorrect == Spec => []TypeOK
<1>1. Init => TypeInv
  BY InitKeeps
<1>2. TypeInv /\ [Next]_vars => TypeInv'
  BY NextKeeps, StutterKeeps
<1>3. TypeInv => TypeOK
  BY DEF TypeInv
<1>4. QED
  BY <1>1, <1>2, <1>3, PTL DEF Spec

\* A step that changes the vault writes one half, sealed by the key of the node;
\* every entry being sealed by it already, the keys that open the vault stay.
LEMMA StepKeepsKeys ==
    ASSUME TypeInv, OpenedFits, [Next]_vars
    PROVE  [\A k \in Keys : VerifyKey(k) => VerifyKey(k)']_vault
<1>1. CASE UNCHANGED vault
  BY <1>1
<1>2. ASSUME NEW c \in Callers, NEW s, Writes(c, s), NEW k \in Keys, VerifyKey(k)
      PROVE  VerifyKey(k)'
  <2>1. Fits /\ Fits' /\ vault'[s] # None /\ s \in Secrets /\ masterKey' = masterKey
    BY <1>2, WritesFit DEF Writes
  <2>2. k = masterKey
    BY <1>2, <2>1 DEF VerifyKey, HasVaultFile, Fits
  <2>3. HasVaultFile'
    BY <2>1 DEF HasVaultFile, Secrets
  <2>4. QED
    BY <2>1, <2>2, <2>3 DEF VerifyKey, Fits, Secrets
<1>3. UNCHANGED vault \/ \E c \in Callers, s \in Secrets : Writes(c, s)
  <2>1. ASSUME NEW c \in Callers, IdentityStep(c)
        PROVE  UNCHANGED vault \/ \E s \in Secrets : Writes(c, s)
    BY <2>1 DEF IdentityStep, ReadPublic, ReadPrivate, WritePrivate, WritePublic, Writes, Secrets
  <2>2. ASSUME Gone PROVE UNCHANGED vault
    BY <2>2 DEF Gone, ForgetIdentity
  <2>3. ASSUME NEW t \in Threads, Progress(t) PROVE UNCHANGED vault
    BY <2>3 DEF Progress, CheckVaultFile, CheckKey, BootHost, InitDone, LanUp, WanUp,
                LanDown, WanDown, identityVars
  <2>4. ASSUME NEW t \in Threads, Fails(t) PROVE UNCHANGED vault
    BY <2>2, <2>4 DEF Fails, Abort
  <2>5. ASSUME NEW r \in Requests, Unlock(r) \/ Lock(r) \/ Pause(r) \/ Resume(r)
        PROVE  UNCHANGED vault
    BY <2>5 DEF Unlock, Lock, Pause, Resume, identityVars
  <2>6. CASE Start \/ Stop \/ Exit \/ Crash
    BY <2>2, <2>6 DEF Start, Stop, Exit, Crash, identityVars
  <2>7. CASE UNCHANGED vars
    BY <2>7 DEF vars
  <2>8. QED
    BY <2>1, <2>3, <2>4, <2>5, <2>6, <2>7 DEF Next, Identity
<1>4. QED
  BY <1>1, <1>2, <1>3

\* As long as every start is a networked one, a key that opens the vault goes on
\* opening it: through wrong keys at a start or an unlock, crashes between the
\* two writes of a pair, and any number of requests at once, unlockVault's check
\* keeps another key's entries out.
THEOREM KeysStay ==
    ASSUME Modes = {TRUE}
    PROVE  Spec => KeysStayValid
<1>1. Init => TypeInv /\ OpenedFits
  BY InitKeeps
<1>2. TypeInv /\ OpenedFits /\ [Next]_vars => TypeInv' /\ OpenedFits'
  BY NextKeeps, StutterKeeps
<1>3. TypeInv /\ OpenedFits /\ [Next]_vars
        => [\A k \in Keys : VerifyKey(k) => VerifyKey(k)']_vault
  BY StepKeepsKeys
<1>4. QED
  BY <1>1, <1>2, <1>3, PTL DEF Spec, KeysStayValid

-----------------------------------------------------------------------------
(* The course of an operation *)

\* The awaits of an operation, and who runs it.
Stages(op) ==
    CASE op = "none"   -> {"idle"}
      [] op = "start"  -> {"boot", "init", "identity", "wan"}
      [] op = "unlock" -> {"file", "verify", "boot", "init", "identity", "wan"}
      [] op = "resume" -> {"identity", "wan"}
      [] op = "stop"   -> {"stop", "stopWan", "exit"}
      [] OTHER         -> {"stop", "stopWan"}

OpsOf(t) == IF t = "main" THEN {"none", "start", "stop"}
                          ELSE {"none", "unlock", "lock", "pause", "resume"}

Courses ==
    \A t \in Threads : job[t].op \in OpsOf(t) /\ job[t].at \in Stages(job[t].op)

\* An operation under way that is not the stop of the process.
Moving(t) == job[t].at # "idle" /\ job[t].op # "stop"

\* The operator asks one thing at a time.
Alone == \E r \in Requests : scene.requests = {r}

OneMoves ==
    /\ \A t \in Threads : Moving(t) => t \in scene.requests \union {"main"}
    /\ Alone => \A t, u \in Threads : Moving(t) /\ Moving(u) => t = u

\* t is over, or at an await of op; a stop is over with its process only.
Turn(t, op) ==
    \E j \in JobRecord :
        /\ job' = [job EXCEPT ![t] = j]
        /\ \/ j = NoJob /\ op # "stop"
           \/ j.op = op /\ j.at \in Stages(op) \ {"idle"}

\* What any step may do to the operations under way.
Turns ==
    \/ job' = job
    \/ Gone
    \/ \E t \in Threads : job[t].at # "idle" /\ Turn(t, job[t].op)
    \/ job["main"].at = "idle" /\ Turn("main", "stop")
    \/ Turn("main", "start") /\ \A u \in Threads : job[u].at = "idle"
    \/ \E r \in Requests, op \in {"unlock", "lock", "pause", "resume"} :
          Asks(r) /\ Turn(r, op)

\* A turn names one thread and its next place.
LEMMA TurnMoves ==
    ASSUME TypeInv, NEW t \in Threads, NEW op, Turn(t, op)
    PROVE  /\ job' \in [Threads -> JobRecord]
           /\ \A u \in Threads \ {t} : job'[u] = job[u]
           /\ \/ job'[t] = NoJob /\ op # "stop"
              \/ job'[t].op = op /\ job'[t].at \in Stages(op) \ {"idle"}
  BY UnderWay DEF Turn

\* What an idle thread has, and what one under way has not.
LEMMA IdleCourse ==
    ASSUME Courses, NEW t \in Threads
    PROVE  /\ job[t].op = "none" <=> job[t].at = "idle"
           /\ job[t].at \in Stages(job[t].op)
           /\ job[t].op \in OpsOf(t)
  BY DEF Courses, Stages, OpsOf

LEMMA NoJobCourse == NoJob.op = "none" /\ NoJob.at = "idle" /\ NoJob.at \in Stages("none")
  BY DEF NoJob, Stages

\* A turn of an operation that is t's keeps to the course.
LEMMA TurnKeepsCourse ==
    ASSUME TypeInv, Courses, NEW t \in Threads, NEW op \in OpsOf(t), Turn(t, op)
    PROVE  Courses'
<1> SUFFICES ASSUME NEW u \in Threads
             PROVE  job'[u].op \in OpsOf(u) /\ job'[u].at \in Stages(job'[u].op)
  BY DEF Courses
<1>1. CASE u # t
  BY <1>1, TurnMoves DEF Courses
<1>2. CASE u = t
  <2>1. CASE job'[t] = NoJob
    BY <1>2, <2>1, NoJobCourse DEF OpsOf
  <2>2. CASE job'[t].op = op /\ job'[t].at \in Stages(op)
    BY <1>2, <2>2
  <2>3. QED
    BY <2>1, <2>2, TurnMoves
<1>3. QED
  BY <1>1, <1>2

\* Every step keeps to the courses, and one operation at a time under way.
LEMMA TurnsKeep ==
    ASSUME TypeInv, Courses, OneMoves, Turns, scene' = scene
    PROVE  Courses' /\ OneMoves'
<1>1. Alone' = Alone
  BY DEF Alone
<1>2. CASE job' = job
  BY <1>1, <1>2 DEF Courses, OneMoves, Moving
<1>3. CASE Gone
  <2>1. \A t \in Threads : job'[t] = NoJob
    BY <1>3 DEF Gone
  <2>2. QED
    BY <2>1, NoJobCourse DEF Courses, OneMoves, Moving, OpsOf
<1>4. ASSUME NEW t \in Threads, job[t].at # "idle", Turn(t, job[t].op)
      PROVE  Courses' /\ OneMoves'
  <2>1. job[t].op \in OpsOf(t) /\ job[t].op # "none"
    BY <1>4, IdleCourse
  <2>2. \A u \in Threads : Moving(u)' => Moving(u)
    BY <1>4, <2>1, TurnMoves, NoJobCourse DEF Moving
  <2>3. QED
    BY <1>1, <1>4, <2>1, <2>2, TurnKeepsCourse DEF OneMoves
<1>5. CASE job["main"].at = "idle" /\ Turn("main", "stop")
  <2>1. "main" \in Threads /\ "stop" \in OpsOf("main")
    BY DEF Threads, OpsOf
  <2>2. \A u \in Threads : Moving(u)' => Moving(u)
    BY <1>5, <2>1, TurnMoves DEF Moving
  <2>3. QED
    BY <1>1, <1>5, <2>1, <2>2, TurnKeepsCourse DEF OneMoves
<1>6. CASE Turn("main", "start") /\ \A u \in Threads : job[u].at = "idle"
  <2>1. "main" \in Threads /\ "start" \in OpsOf("main")
    BY DEF Threads, OpsOf
  <2>2. \A u \in Threads : Moving(u)' => u = "main"
    BY <1>6, <2>1, TurnMoves DEF Moving
  <2>3. QED
    BY <1>1, <1>6, <2>1, <2>2, TurnKeepsCourse DEF OneMoves
<1>7. ASSUME NEW r \in Requests, NEW op \in {"unlock", "lock", "pause", "resume"},
             Asks(r), Turn(r, op)
      PROVE  Courses' /\ OneMoves'
  <2>1. r \in Threads /\ op \in OpsOf(r) /\ r \in scene.requests
    BY <1>7, NodeAssumption DEF Threads, OpsOf, Asks
  <2>2. ~Moving("main")
    <3>1. "main" \in Threads
      BY DEF Threads
    <3>2. job["main"].op \in {"none", "start", "stop"}
      BY <3>1, IdleCourse DEF OpsOf
    <3>3. job["main"].op # "start"
      BY <1>7 DEF Asks
    <3>4. QED
      BY <3>1, <3>2, <3>3, IdleCourse DEF Moving
  <2>3. \A u \in Threads : Moving(u)' => u = r \/ Moving(u)
    BY <1>7, <2>1, TurnMoves DEF Moving
  <2>4. ASSUME Alone, NEW u \in Threads, Moving(u)' PROVE u = r
    BY <2>1, <2>2, <2>3, <2>4 DEF OneMoves, Alone
  <2>5. \A u \in Threads : Moving(u)' => u \in scene.requests \union {"main"}
    BY <2>1, <2>3 DEF OneMoves
  <2>6. QED
    BY <1>1, <1>7, <2>1, <2>4, <2>5, TurnKeepsCourse DEF OneMoves
<1>8. QED
  BY <1>2, <1>3, <1>4, <1>5, <1>6, <1>7 DEF Turns

\* The awaits that an operation comes to next are on its course.
LEMMA AwaitTurns ==
    ASSUME NEW t \in Threads, NEW op \in Ops, NEW at \in Stages(op) \ {"idle"},
           NEW target \in Providers \union {None}, NEW key \in Keys \union {None},
           Await(t, at, op, key, target)
    PROVE  Turn(t, op)
<1> DEFINE j == [at |-> at, op |-> op, key |-> key, target |-> target]
<1>1. at \in Ats
  BY DEF Stages, Ats, Ops
<1>2. j \in JobRecord /\ j.op = op /\ j.at = at
  BY <1>1 DEF JobRecord, Ats, Ops
<1>3. job' = [job EXCEPT ![t] = j]
  BY DEF Await
<1> HIDE DEF j
<1>4. QED
  BY <1>2, <1>3 DEF Turn

LEMMA EndTurns ==
    ASSUME NEW t \in Threads, NEW op \in Ops, NEW s, End(t, op, s)
    PROVE  Turn(t, op)
<1>1. CASE op = "stop"
  <2>1. "exit" \in Stages(op) \ {"idle"} /\ Await(t, "exit", op, None, None)
    BY <1>1 DEF End, Stages
  <2>2. QED
    BY <2>1, AwaitTurns
<1>2. CASE op # "stop"
  BY <1>2, NoJobType DEF End, Turn
<1>3. QED
  BY <1>1, <1>2

LEMMA StopWanTurns ==
    ASSUME NEW t \in Threads, NEW op \in {"lock", "pause", "stop"},
           NEW s \in ServerRecord, StopWan(t, op, s)
    PROVE  Turn(t, op)
<1>1. op \in Ops /\ "stopWan" \in Stages(op) \ {"idle"} /\ s.wan \in Providers \union {None}
  BY DEF Ops, Stages, ServerRecord
<1>2. QED
  BY <1>1, AwaitTurns, EndTurns DEF StopWan

LEMMA StopP2PTurns ==
    ASSUME TypeInv, NEW t \in Threads, NEW op \in {"lock", "pause", "stop"}, StopP2P(t, op)
    PROVE  Turn(t, op)
<1>1. /\ op \in Ops /\ "stop" \in Stages(op) \ {"idle"}
      /\ server \in ServerRecord /\ server.provider \in Providers \union {None}
  BY UnderWay DEF Ops, Stages, ServerRecord
<1>2. QED
  BY <1>1, AwaitTurns, StopWanTurns DEF StopP2P

LEMMA StartP2PTurns ==
    ASSUME NEW t \in Threads, NEW op \in {"start", "unlock", "resume"}, NEW s,
           StartP2P(t, op, s)
    PROVE  Turn(t, op)
<1>1. op \in Ops /\ "identity" \in Stages(op) \ {"idle"}
  BY DEF Ops, Stages
<1>2. QED
  BY <1>1, AwaitTurns, EndTurns DEF StartP2P

LEMMA FinishBootTurns ==
    ASSUME NEW t \in Threads, NEW op \in {"start", "unlock"}, NEW s, FinishBoot(t, op, s)
    PROVE  Turn(t, op)
<1>1. op \in Ops /\ "boot" \in Stages(op) \ {"idle"}
  BY DEF Ops, Stages
<1>2. QED
  BY <1>1, AwaitTurns, EndTurns, StartP2PTurns DEF FinishBoot

\* The operation that a place belongs to.
LEMMA OpAt ==
    ASSUME TypeInv, Courses, NEW t \in Threads
    PROVE  /\ job[t].op \in Ops
           /\ job[t].at \in {"file", "verify"} => job[t].op = "unlock"
           /\ job[t].at \in {"boot", "init"} => job[t].op \in {"start", "unlock"}
           /\ job[t].at \in {"identity", "wan"} => job[t].op \in {"start", "unlock", "resume"}
           /\ job[t].at \in {"stop", "stopWan"} => job[t].op \in {"lock", "pause", "stop"}
<1>1. job[t].op \in Ops /\ job[t].at \in Stages(job[t].op)
  BY UnderWay DEF Courses
<1>2. QED
  BY <1>1 DEF Ops, Stages

\* A rejected await: the operation is over, and a start takes the process with it.
LEMMA FailsTurns ==
    ASSUME TypeInv, Courses, NEW t \in Threads, Fails(t)
    PROVE  /\ job[t].at \in {"boot", "init", "identity", "wan"}
           /\ Turns
<1>1. job[t].at \in {"boot", "init", "identity", "wan"}
  BY NodeAssumption DEF Fails
<1>2. CASE Gone
  BY <1>1, <1>2 DEF Turns
<1>3. CASE job' = [job EXCEPT ![t] = NoJob]
  <2>1. job[t].op # "stop" /\ job[t].at # "idle"
    BY <1>1, OpAt
  <2>2. Turn(t, job[t].op)
    BY <1>3, <2>1, NoJobType DEF Turn
  <2>3. QED
    BY <1>1, <2>1, <2>2 DEF Turns
<1>4. QED
  BY <1>2, <1>3 DEF Fails, Abort

\* The steps of an operation under way.
LEMMA ProgressTurns ==
    ASSUME TypeInv, Courses, NEW t \in Threads, Progress(t)
    PROVE  job[t].at # "idle" /\ Turn(t, job[t].op)
<1>1. job[t].op \in Ops
  BY OpAt
<1>2. CASE CheckVaultFile(t) \/ CheckKey(t)
  <2>1. job[t].at \in {"file", "verify"} /\ job[t].op = "unlock"
    BY <1>2, OpAt DEF CheckVaultFile, CheckKey
  <2>2. "verify" \in Stages("unlock") \ {"idle"} /\ job[t].key \in Keys \union {None}
    BY UnderWay DEF Stages
  <2>3. CASE \E s : FinishBoot(t, "unlock", s)
    BY <2>1, <2>3, FinishBootTurns
  <2>4. CASE Await(t, "verify", "unlock", job[t].key, None)
    BY <1>1, <2>1, <2>2, <2>4, AwaitTurns
  <2>5. CASE End(t, "unlock", server)
    BY <1>1, <2>1, <2>5, EndTurns
  <2>6. QED
    BY <1>2, <2>3, <2>4, <2>5, <2>1 DEF CheckVaultFile, CheckKey, Install
<1>3. CASE BootHost(t)
  <2>1. job[t].at = "boot" /\ Await(t, "init", job[t].op, None, None)
    BY <1>3 DEF BootHost
  <2>2. "init" \in Stages(job[t].op) \ {"idle"}
    BY <2>1, OpAt DEF Stages
  <2>3. QED
    BY <1>1, <2>1, <2>2, AwaitTurns
<1>4. CASE InitDone(t)
  BY <1>4, OpAt, FinishBootTurns DEF InitDone
<1>5. CASE LanUp(t)
  <2>1. job[t].at = "identity"
    BY <1>5 DEF LanUp
  <2>2. "wan" \in Stages(job[t].op) \ {"idle"}
    BY <2>1, OpAt DEF Stages
  <2>3. \/ Await(t, "wan", job[t].op, None, None)
        \/ \E s : End(t, job[t].op, s)
    BY <1>5 DEF LanUp
  <2>4. QED
    BY <1>1, <2>1, <2>2, <2>3, AwaitTurns, EndTurns
<1>6. CASE WanUp(t) \/ WanDown(t)
  <2>1. job[t].at # "idle" /\ \E s : End(t, job[t].op, s)
    BY <1>6 DEF WanUp, WanDown
  <2>2. QED
    BY <1>1, <2>1, EndTurns
<1>7. CASE LanDown(t)
  <2> DEFINE s == [server EXCEPT !.provider = None]
  <2>1. s \in ServerRecord
    BY UnderWay, ServerUpdates
  <2>2. job[t].at = "stop" /\ StopWan(t, job[t].op, s)
    BY <1>7 DEF LanDown
  <2> HIDE DEF s
  <2>3. QED
    BY <2>1, <2>2, OpAt, StopWanTurns
<1>8. QED
  BY <1>2, <1>3, <1>4, <1>5, <1>6, <1>7 DEF Progress

\* The requests that the operator makes.
LEMMA RequestTurns ==
    ASSUME TypeInv, NEW r \in Requests, Unlock(r) \/ Lock(r) \/ Pause(r) \/ Resume(r)
    PROVE  \E op \in {"unlock", "lock", "pause", "resume"} : Asks(r) /\ Turn(r, op)
<1>1. r \in Threads
  BY DEF Threads
<1>2. CASE Unlock(r)
  <2>1. Asks(r) /\ \E k \in Keys : Await(r, "file", "unlock", k, None)
    BY <1>2 DEF Unlock
  <2>2. "file" \in Stages("unlock") \ {"idle"} /\ "unlock" \in Ops
    BY DEF Stages, Ops
  <2>3. QED
    BY <1>1, <2>1, <2>2, AwaitTurns
<1>3. CASE Lock(r) \/ Pause(r)
  BY <1>1, <1>3, StopP2PTurns DEF Lock, Pause
<1>4. CASE Resume(r)
  BY <1>1, <1>4, StartP2PTurns DEF Resume
<1>5. QED
  BY <1>2, <1>3, <1>4

\* Each step is one of the turns, and the scene stays.
LEMMA NextTurns ==
    ASSUME TypeInv, Courses, [Next]_vars
    PROVE  Turns /\ scene' = scene
<1>1. CASE Start
  <2>1. \A t \in Threads : job[t].at = "idle"
    BY <1>1 DEF Start, TypeInv, UpHasKey
  <2>2. "main" \in Threads /\ "boot" \in Stages("start") \ {"idle"} /\ "start" \in Ops
    BY DEF Threads, Stages, Ops
  <2>3. job' = job \/ Turn("main", "start")
    BY <1>1, <2>2, AwaitTurns DEF Start
  <2>4. QED
    BY <1>1, <2>1, <2>3 DEF Start, Turns
<1>2. CASE Stop
  <2>1. "main" \in Threads /\ job["main"].at = "idle"
    BY <1>2, NoJobType DEF Stop, Threads
  <2>2. QED
    BY <1>2, <2>1, StopP2PTurns DEF Stop, Turns
<1>3. CASE Exit \/ Crash
  BY <1>3 DEF Exit, Crash, Gone, Turns
<1>4. CASE Identity \/ UNCHANGED vars
  BY <1>4 DEF Identity, Turns, vars
<1>5. ASSUME NEW t \in Threads, Progress(t) PROVE Turns /\ scene' = scene
  <2>1. Turns
    BY <1>5, ProgressTurns DEF Turns
  <2>2. scene' = scene
    BY <1>5 DEF Progress, CheckVaultFile, CheckKey, BootHost, InitDone, LanUp, WanUp,
                LanDown, WanDown
  <2>3. QED
    BY <2>1, <2>2
<1>6. ASSUME NEW t \in Threads, Fails(t) PROVE Turns /\ scene' = scene
  BY <1>6, FailsTurns DEF Fails, Abort, Gone
<1>7. ASSUME NEW r \in Requests, Unlock(r) \/ Lock(r) \/ Pause(r) \/ Resume(r)
      PROVE  Turns /\ scene' = scene
  <2>1. Turns
    BY <1>7, RequestTurns DEF Turns
  <2>2. QED
    BY <1>7, <2>1 DEF Unlock, Lock, Pause, Resume
<1>8. QED
  BY <1>1, <1>2, <1>3, <1>4, <1>5, <1>6, <1>7 DEF Next


-----------------------------------------------------------------------------
(* The transports of an operator who waits for each answer *)

\* Between the awaits: what runs is on record; nothing runs while the node is
\* locked, nor, but for a resume on its way, while it is paused.
Steady ==
    /\ running \subseteq {server.provider, server.wan}
    /\ ~server.unlocked => running = {}
    /\ server.paused => running = {} \/ \E t \in Threads : job[t].at = "wan"

\* What an operation may count on at each await.
CountsOn(j) ==
    /\ j.at \in {"file", "verify"} => ~server.unlocked
    /\ j.at \in {"boot", "init"} => running = {} /\ server.unlocked /\ ~server.paused
    /\ j.at = "identity" =>
         running = {} /\ server.unlocked /\ (server.paused => j.op = "resume")
    /\ j.at = "wan" =>
         /\ running \subseteq {server.provider} /\ server.unlocked
         /\ server.paused => j.op = "resume"
    /\ j.at = "stop" => j.target = server.provider
    /\ j.at = "stopWan" => j.target = server.wan /\ running \subseteq {server.wan}

Undisturbed == Alone /\ job["main"].op # "stop"

TransportsInv == Undisturbed => Steady /\ \A t \in Threads : CountsOn(job[t])

\* No other operation is under way.
Sole(t) == \A u \in Threads \ {t} : job[u].at = "idle"

\* After a step of t alone, it is enough to look at t.
Fine(t) == CountsOn(job[t]) /\ Steady

LEMMA IdleCountsOnNothing ==
    ASSUME NEW j, j.at = "idle"
    PROVE  CountsOn(j)
  BY DEF CountsOn

LEMMA SoleIsFine ==
    ASSUME NEW t \in Threads, Sole(t)', Fine(t)'
    PROVE  TransportsInv'
<1>1. ASSUME NEW u \in Threads PROVE CountsOn(job[u])'
  <2>1. CASE u = t
    BY <2>1 DEF Fine
  <2>2. CASE u # t
    BY <2>2 DEF Sole, CountsOn
  <2>3. QED
    BY <2>1, <2>2
<1>2. QED
  BY <1>1 DEF TransportsInv, Fine

\* Whoever is under way, undisturbed, is so alone.
LEMMA UnderWayIsSole ==
    ASSUME Courses, OneMoves, Undisturbed, NEW t \in Threads, job[t].at # "idle"
    PROVE  Sole(t) /\ job[t].op # "stop"
<1>1. \A u \in Threads : job[u].op # "stop"
  BY IdleCourse DEF OpsOf, Undisturbed
<1>2. QED
  BY <1>1 DEF Sole, OneMoves, Moving, Undisturbed

\* Whoever asks, undisturbed, asks alone.
LEMMA AskingIsSole ==
    ASSUME Courses, OneMoves, Undisturbed, NEW r \in Requests, Asks(r)
    PROVE  Sole(r) /\ r \in Threads
<1>1. "main" \in Threads /\ r \in Threads
  BY DEF Threads
<1>2. job["main"].op = "none"
  BY <1>1, IdleCourse DEF OpsOf, Undisturbed, Asks
<1>3. job["main"].at = "idle"
  BY <1>1, <1>2, IdleCourse
<1>4. ASSUME NEW u \in Threads \ {r} PROVE job[u].at = "idle"
  <2>1. CASE u = "main"
    BY <1>3, <2>1
  <2>2. CASE u # "main"
    <3>1. job[u].op # "stop"
      BY <2>2, IdleCourse DEF OpsOf
    <3>2. u \notin scene.requests
      BY DEF Undisturbed, Alone, Asks
    <3>3. QED
      BY <2>2, <3>1, <3>2 DEF OneMoves, Moving
  <2>3. QED
    BY <2>1, <2>2
<1>5. QED
  BY <1>1, <1>4 DEF Sole

\* A turn leaves the others idle.
LEMMA TurnIsSole ==
    ASSUME TypeInv, NEW t \in Threads, NEW op, Sole(t), Turn(t, op)
    PROVE  Sole(t)'
  BY TurnMoves DEF Sole

\* A stop of the process goes on until the process is gone.
LEMMA StopStays ==
    ASSUME TypeInv, Courses, Turns, job["main"].op = "stop", ~Gone
    PROVE  job'["main"].op = "stop"
<1>1. "main" \in Threads
  BY DEF Threads
<1>2. job["main"].at # "idle"
  BY <1>1, IdleCourse
<1>3. ASSUME NEW t \in Threads, Turn(t, job[t].op) PROVE job'["main"].op = "stop"
  BY <1>1, <1>3, TurnMoves
<1>4. ASSUME NEW r \in Requests, NEW op, Turn(r, op) PROVE job'["main"].op = "stop"
  <2>1. r \in Threads /\ r # "main"
    BY NodeAssumption DEF Threads
  <2>2. QED
    BY <1>1, <1>4, <2>1, TurnMoves
<1>5. QED
  BY <1>1, <1>2, <1>3, <1>4 DEF Turns

\* The record that a thread awaits with, and what a finished one leaves.
LEMMA AwaitSets ==
    ASSUME TypeInv, NEW t \in Threads, NEW at, NEW op, NEW key, NEW target,
           Await(t, at, op, key, target)
    PROVE  job'[t].at = at /\ job'[t].op = op /\ job'[t].target = target
  BY UnderWay DEF Await

LEMMA EndSets ==
    ASSUME TypeInv, NEW t \in Threads, NEW op, op # "stop",
           NEW s \in ServerRecord, End(t, op, s)
    PROVE  /\ job'[t].at = "idle"
           /\ server'.provider = s.provider /\ server'.wan = s.wan
           /\ op # "lock" => server'.unlocked = s.unlocked
           /\ op = "lock" => ~server'.unlocked
           /\ op \notin {"pause", "resume"} => server'.paused = s.paused
           /\ op = "pause" => server'.paused
           /\ op = "resume" => ~server'.paused
<1>1. job'[t].at = "idle"
  BY UnderWay, NoJobType DEF End
<1>2. server' = After(op, s)
  BY DEF End
<1>3. QED
  BY <1>1, <1>2 DEF After, ServerRecord


\* An operation that ends leaves what runs on record, and nothing running if it
\* leaves the node locked or paused.
LEMMA EndFine ==
    ASSUME TypeInv, NEW t \in Threads, NEW op, op # "stop",
           NEW s \in ServerRecord, End(t, op, s),
           running' \subseteq {s.provider, s.wan},
           ~s.unlocked \/ op \in {"lock", "pause"} => running' = {},
           s.paused /\ op # "resume" => running' = {}
    PROVE  Fine(t)'
<1>1. s.unlocked \in BOOLEAN /\ s.paused \in BOOLEAN
  BY DEF ServerRecord
<1>2. job'[t].at = "idle"
  BY EndSets
<1>3. Steady'
  BY <1>1, EndSets DEF Steady
<1>4. QED
  BY <1>2, <1>3, IdleCountsOnNothing DEF Fine, CountsOn

\* The LAN provider is down; what may run is the WAN provider.
LEMMA StopWanFine ==
    ASSUME TypeInv, NEW t \in Threads, NEW op \in {"lock", "pause"},
           NEW s \in ServerRecord, StopWan(t, op, s),
           running' \subseteq {s.wan} \ {None},
           ~s.unlocked \/ s.paused => running' = {}
    PROVE  Fine(t)'
<1>1. CASE s.wan # None
  <2>1. server' = s /\ Await(t, "stopWan", op, None, s.wan)
    BY <1>1 DEF StopWan
  <2>2. job'[t].at = "stopWan" /\ job'[t].target = s.wan
    BY <2>1, AwaitSets
  <2>3. QED
    BY <2>1, <2>2 DEF Fine, CountsOn, Steady
<1>2. CASE s.wan = None
  <2>1. running' = {} /\ End(t, op, s)
    BY <1>2 DEF StopWan
  <2>2. QED
    BY <2>1, EndFine
<1>3. QED
  BY <1>1, <1>2

LEMMA StopP2PFine ==
    ASSUME TypeInv, NEW t \in Threads, NEW op \in {"lock", "pause"},
           StopP2P(t, op), UNCHANGED running,
           running \subseteq {server.provider, server.wan},
           ~server.unlocked \/ server.paused => running = {}
    PROVE  Fine(t)'
<1>1. server \in ServerRecord /\ None \notin running
  BY UnderWay, NodeAssumption
<1>2. CASE server.provider # None
  <2>1. server' = server /\ Await(t, "stop", op, None, server.provider)
    BY <1>2 DEF StopP2P
  <2>2. job'[t].at = "stop" /\ job'[t].target = server.provider
    BY <2>1, AwaitSets
  <2>3. QED
    BY <2>1, <2>2 DEF Fine, CountsOn, Steady
<1>3. CASE server.provider = None
  <2>1. StopWan(t, op, server) /\ running' \subseteq {server.wan} \ {None}
    BY <1>1, <1>3 DEF StopP2P
  <2>2. QED
    BY <1>1, <2>1, StopWanFine
<1>4. QED
  BY <1>2, <1>3

\* Nothing runs when the transports are started.
LEMMA StartP2PFine ==
    ASSUME TypeInv, NEW t \in Threads, NEW op \in {"start", "unlock", "resume"},
           NEW s \in ServerRecord, StartP2P(t, op, s), running' = {},
           s.unlocked, s.paused => op = "resume"
    PROVE  Fine(t)'
<1>1. CASE networking
  <2>1. server' = s /\ Await(t, "identity", op, None, None)
    BY <1>1 DEF StartP2P
  <2>2. job'[t].at = "identity" /\ job'[t].op = op
    BY <2>1, AwaitSets
  <2>3. QED
    BY <2>1, <2>2 DEF Fine, CountsOn, Steady
<1>2. CASE ~networking
  BY <1>2, EndFine DEF StartP2P
<1>3. QED
  BY <1>1, <1>2

LEMMA FinishBootFine ==
    ASSUME TypeInv, NEW t \in Threads, NEW op \in {"start", "unlock"},
           NEW s \in ServerRecord, FinishBoot(t, op, s), running' = {},
           s.unlocked, ~s.paused
    PROVE  Fine(t)'
<1>1. CASE ~s.booted
  <2>1. server' = s /\ Await(t, "boot", op, None, None)
    BY <1>1 DEF FinishBoot
  <2>2. job'[t].at = "boot" /\ job'[t].op = op
    BY <2>1, AwaitSets
  <2>3. QED
    BY <2>1, <2>2 DEF Fine, CountsOn, Steady
<1>2. CASE s.booted
  BY <1>2, StartP2PFine DEF FinishBoot
<1>3. QED
  BY <1>1, <1>2

-----------------------------------------------------------------------------
(* Each step of an undisturbed operation *)

\* unlockVault finds a locked node, in which nothing runs.
LEMMA ChecksFine ==
    ASSUME TypeInv, NEW r \in Threads, Fine(r), CheckVaultFile(r) \/ CheckKey(r)
    PROVE  Fine(r)'
<1>1. /\ job[r].at \in {"file", "verify"} /\ running' = running
      /\ ~server.unlocked /\ running = {}
  BY DEF CheckVaultFile, CheckKey, Fine, CountsOn, Steady
<1>2. CASE Install(r)
  <2> DEFINE s == [server EXCEPT !.unlocked = TRUE, !.paused = FALSE]
  <2>1. s \in ServerRecord /\ s.unlocked /\ ~s.paused
    BY UnderWay DEF ServerRecord
  <2>2. FinishBoot(r, "unlock", s)
    BY <1>2 DEF Install
  <2> HIDE DEF s
  <2>3. QED
    BY <1>1, <2>1, <2>2, FinishBootFine
<1>3. CASE Await(r, "verify", "unlock", job[r].key, None) /\ server' = server
  <2>1. job'[r].at = "verify"
    BY <1>3, AwaitSets
  <2>2. QED
    BY <1>1, <1>3, <2>1 DEF Fine, CountsOn, Steady
<1>4. CASE End(r, "unlock", server)
  BY <1>1, <1>4, UnderWay, EndFine
<1>5. QED
  BY <1>2, <1>3, <1>4 DEF CheckVaultFile, CheckKey

\* The boot starts from silence.
LEMMA BootFine ==
    ASSUME TypeInv, Courses, NEW t \in Threads, Fine(t), BootHost(t) \/ InitDone(t)
    PROVE  Fine(t)'
<1>1. /\ job[t].at \in {"boot", "init"} /\ running' = running
      /\ running = {} /\ server.unlocked /\ ~server.paused
      /\ job[t].op \in {"start", "unlock"}
  BY OpAt DEF BootHost, InitDone, Fine, CountsOn
<1>2. CASE BootHost(t)
  <2>1. server' = server /\ Await(t, "init", job[t].op, None, None)
    BY <1>2 DEF BootHost
  <2>2. job'[t].at = "init"
    BY <2>1, AwaitSets
  <2>3. QED
    BY <1>1, <2>1, <2>2 DEF Fine, CountsOn, Steady
<1>3. CASE InitDone(t)
  <2> DEFINE s == [server EXCEPT !.booted = TRUE]
  <2>1. s \in ServerRecord /\ s.unlocked /\ ~s.paused
    BY <1>1, UnderWay DEF ServerRecord
  <2>2. FinishBoot(t, job[t].op, s)
    BY <1>3 DEF InitDone
  <2> HIDE DEF s
  <2>3. QED
    BY <1>1, <2>1, <2>2, FinishBootFine
<1>4. QED
  BY <1>2, <1>3

\* A transport that comes up goes on record.
LEMMA UpFine ==
    ASSUME TypeInv, Courses, NEW t \in Threads, Fine(t), LanUp(t) \/ WanUp(t)
    PROVE  Fine(t)'
<1>1. /\ job[t].at \in {"identity", "wan"} /\ server.unlocked
      /\ server.paused => job[t].op = "resume"
      /\ job[t].op \in {"start", "unlock", "resume"}
      /\ server \in ServerRecord
  BY OpAt, UnderWay DEF LanUp, WanUp, Fine, CountsOn
<1>2. NewProvider \in Providers
  BY DEF LanUp, WanUp, NewProvider, Unused
<1>3. CASE LanUp(t)
  <2> DEFINE s == [server EXCEPT !.provider = NewProvider]
  <2>1. /\ s \in ServerRecord /\ s.provider = NewProvider
        /\ s.unlocked = server.unlocked /\ s.paused = server.paused
    BY <1>1, <1>2, ServerUpdates DEF ServerRecord
  <2>2. running' = {NewProvider}
    BY <1>3 DEF LanUp, Runs, Fine, CountsOn
  <2>3. \/ server' = s /\ Await(t, "wan", job[t].op, None, None)
        \/ End(t, job[t].op, s)
    BY <1>3 DEF LanUp
  <2> HIDE DEF s
  <2>4. CASE server' = s /\ Await(t, "wan", job[t].op, None, None)
    <3>1. job'[t].at = "wan" /\ job'[t].op = job[t].op
      BY <2>4, AwaitSets
    <3>2. QED
      BY <1>1, <2>1, <2>2, <2>4, <3>1 DEF Fine, CountsOn, Steady
  <2>5. CASE End(t, job[t].op, s)
    BY <1>1, <2>1, <2>2, <2>5, EndFine
  <2>6. QED
    BY <2>3, <2>4, <2>5
<1>4. CASE WanUp(t)
  <2> DEFINE s == [server EXCEPT !.wan = NewProvider]
  <2>1. /\ s \in ServerRecord /\ s.provider = server.provider /\ s.wan = NewProvider
        /\ s.unlocked = server.unlocked /\ s.paused = server.paused
    BY <1>1, <1>2, ServerUpdates DEF ServerRecord
  <2>2. running' \subseteq {server.provider, NewProvider} /\ End(t, job[t].op, s)
    BY <1>4 DEF WanUp, Runs, Fine, CountsOn
  <2> HIDE DEF s
  <2>3. QED
    BY <1>1, <2>1, <2>2, EndFine
<1>5. QED
  BY <1>3, <1>4

\* A transport that is stopped is the one that is on record.
LEMMA DownFine ==
    ASSUME TypeInv, Courses, NEW t \in Threads, Fine(t), Sole(t), job[t].op # "stop",
           LanDown(t) \/ WanDown(t)
    PROVE  Fine(t)'
<1>1. /\ job[t].at \in {"stop", "stopWan"} /\ job[t].op \in {"lock", "pause"}
      /\ server \in ServerRecord /\ None \notin running
  BY OpAt, UnderWay, NodeAssumption DEF LanDown, WanDown
<1>2. ~server.unlocked \/ server.paused => running = {}
  <2>1. \A u \in Threads : job[u].at # "wan"
    BY <1>1 DEF Sole
  <2>2. QED
    BY <2>1 DEF Fine, Steady
<1>3. CASE LanDown(t)
  <2> DEFINE s == [server EXCEPT !.provider = None]
  <2>1. /\ s \in ServerRecord /\ s.wan = server.wan
        /\ s.unlocked = server.unlocked /\ s.paused = server.paused
    BY <1>1, ServerUpdates DEF ServerRecord
  <2>2. job[t].target = server.provider /\ running \subseteq {server.provider, server.wan}
    BY <1>3 DEF LanDown, Fine, CountsOn, Steady
  <2>3. running' = running \ {server.provider} /\ StopWan(t, job[t].op, s)
    BY <1>3, <2>2 DEF LanDown
  <2> HIDE DEF s
  <2>4. running' \subseteq {s.wan} \ {None}
    BY <1>1, <2>1, <2>2, <2>3
  <2>5. QED
    BY <1>1, <1>2, <2>1, <2>3, <2>4, StopWanFine
<1>4. CASE WanDown(t)
  <2> DEFINE s == [server EXCEPT !.wan = None]
  <2>1. s \in ServerRecord
    BY <1>1, ServerUpdates
  <2>2. running' = {} /\ End(t, job[t].op, s)
    BY <1>4 DEF WanDown, Fine, CountsOn
  <2> HIDE DEF s
  <2>3. QED
    BY <1>1, <2>1, <2>2, EndFine
<1>5. QED
  BY <1>3, <1>4


\* A start finds no process and nothing running.
LEMMA StartIsFine ==
    ASSUME TypeInv, Courses, OneMoves, TransportsInv, Undisturbed, Start
    PROVE  TransportsInv'
<1>1. /\ ~server.unlocked /\ running' = running
      /\ \A t \in Threads : job[t].at = "idle"
  BY DEF Start, TypeInv, UpHasKey, TypeOK, ServerTypeOK
<1>2. running' = {}
  BY <1>1 DEF TransportsInv, Steady
<1>3. CASE server' = [Down EXCEPT !.up = TRUE] /\ job' = job
  <2>1. \A t \in Threads : CountsOn(job[t])'
    BY <1>1, <1>3 DEF CountsOn
  <2>2. Steady'
    BY <1>2, <1>3 DEF Steady, Down
  <2>3. QED
    BY <2>1, <2>2 DEF TransportsInv
<1>4. CASE /\ server' = [Down EXCEPT !.up = TRUE, !.unlocked = TRUE]
           /\ Await("main", "boot", "start", None, None)
  <2>1. "main" \in Threads /\ server'.unlocked /\ ~server'.paused
    BY <1>4 DEF Threads, Down
  <2>2. job'["main"].at = "boot"
    BY <1>4, <2>1, AwaitSets
  <2>3. Fine("main")'
    BY <1>2, <2>1, <2>2 DEF Fine, CountsOn, Steady
  <2>4. Sole("main")'
    <3>1. "boot" \in Stages("start") \ {"idle"} /\ "start" \in Ops
      BY DEF Stages, Ops
    <3>2. Turn("main", "start")
      BY <1>4, <2>1, <3>1, AwaitTurns
    <3>3. QED
      BY <1>1, <2>1, <3>2, TurnIsSole DEF Sole
  <2>5. QED
    BY <2>1, <2>3, <2>4, SoleIsFine
<1>5. QED
  BY <1>3, <1>4 DEF Start

\* An await that rejects before a transport is up leaves none.
LEMMA FailIsFine ==
    ASSUME "wan" \notin Faults, TypeInv, Courses, NEW t \in Threads, Fine(t),
           Fails(t), ~Gone
    PROVE  Fine(t)'
<1>1. /\ job[t].at \in {"boot", "init", "identity"}
      /\ job' = [job EXCEPT ![t] = NoJob] /\ UNCHANGED <<server, running>>
  BY NodeAssumption DEF Fails, Abort
<1>2. running = {} /\ job'[t] = NoJob
  BY <1>1, UnderWay DEF Fine, CountsOn
<1>3. CountsOn(job[t])'
  BY <1>2, NoJobType, IdleCountsOnNothing DEF CountsOn
<1>4. QED
  BY <1>1, <1>2, <1>3 DEF Fine, Steady

\* What an undisturbed request starts from.
LEMMA RequestIsFine ==
    ASSUME TypeInv, NEW r \in Threads, Asks(r), Sole(r), Fine(r),
           Unlock(r) \/ Lock(r) \/ Pause(r) \/ Resume(r)
    PROVE  Fine(r)'
<1>1. job[r].at = "idle" /\ server \in ServerRecord
  BY UnderWay, NoJobType DEF Asks
<1>2. /\ running \subseteq {server.provider, server.wan}
      /\ ~server.unlocked \/ server.paused => running = {}
  BY <1>1 DEF Fine, Steady, Sole
<1>3. CASE Unlock(r)
  <2>1. /\ ~server.unlocked /\ UNCHANGED <<server, running>>
        /\ \E k : Await(r, "file", "unlock", k, None)
    BY <1>3 DEF Unlock
  <2>2. job'[r].at = "file"
    BY <2>1, AwaitSets
  <2>3. QED
    BY <1>2, <2>1, <2>2 DEF Fine, CountsOn, Steady
<1>4. CASE Lock(r) \/ Pause(r)
  BY <1>2, <1>4, StopP2PFine DEF Lock, Pause
<1>5. CASE Resume(r)
  <2>1. /\ server.unlocked /\ server.paused /\ running' = {}
        /\ StartP2P(r, "resume", server)
    BY <1>2, <1>5 DEF Resume
  <2>2. QED
    BY <1>1, <2>1, StartP2PFine
<1>6. QED
  BY <1>3, <1>4, <1>5

\* No step lets a transport off the record.
LEMMA NextKeepsTransports ==
    ASSUME "wan" \notin Faults, TypeInv, Courses, OneMoves, TransportsInv, [Next]_vars
    PROVE  TransportsInv'
<1> SUFFICES ASSUME Undisturbed' PROVE TransportsInv'
  BY DEF TransportsInv
<1>0. Turns /\ scene' = scene
  BY NextTurns
<1>1. CASE Gone
  <2>1. server' = Down /\ running' = {} /\ \A t \in Threads : job'[t] = NoJob
    BY <1>1 DEF Gone
  <2>2. \A t \in Threads : CountsOn(job[t])'
    BY <2>1, NoJobType DEF CountsOn
  <2>3. Steady'
    BY <2>1 DEF Steady, Down
  <2>4. QED
    BY <2>2, <2>3 DEF TransportsInv
<1>2. CASE ~Gone
  <2>1. Undisturbed
    BY <1>0, <1>2, StopStays DEF Undisturbed, Alone
  <2>2. Steady /\ \A t \in Threads : CountsOn(job[t])
    BY <2>1 DEF TransportsInv
  <2>3. CASE Start
    BY <2>1, <2>3, StartIsFine
  <2>4. ASSUME Stop PROVE FALSE
    <3>1. "main" \in Threads /\ StopP2P("main", "stop")
      BY <2>4 DEF Stop, Threads
    <3>2. Turn("main", "stop")
      BY <3>1, StopP2PTurns
    <3>3. QED
      BY <3>1, <3>2, TurnMoves DEF Undisturbed
  <2>5. CASE Identity \/ UNCHANGED vars
    <3>1. UNCHANGED <<server, job, running>>
      BY <2>5 DEF Identity, vars
    <3>2. QED
      BY <2>2, <3>1 DEF TransportsInv, Steady, CountsOn
  <2>6. ASSUME NEW t \in Threads, Progress(t) \/ Fails(t) PROVE TransportsInv'
    <3>1. job[t].at # "idle"
      BY <2>6, ProgressTurns, FailsTurns
    <3>2. Sole(t) /\ job[t].op # "stop" /\ Fine(t)
      BY <2>1, <2>2, <3>1, UnderWayIsSole DEF Fine
    <3>3. Fine(t)'
      BY <1>2, <2>6, <3>2, ChecksFine, BootFine, UpFine, DownFine, FailIsFine DEF Progress
    <3>4. Sole(t)'
      <4>1. CASE Progress(t)
        BY <3>2, <4>1, ProgressTurns, TurnIsSole
      <4>2. CASE Fails(t)
        BY <1>2, <3>2, <4>2, UnderWay DEF Fails, Abort, Sole
      <4>3. QED
        BY <2>6, <4>1, <4>2
    <3>5. QED
      BY <3>3, <3>4, SoleIsFine
  <2>7. ASSUME NEW r \in Requests, Unlock(r) \/ Lock(r) \/ Pause(r) \/ Resume(r)
        PROVE  TransportsInv'
    <3>1. PICK op \in {"unlock", "lock", "pause", "resume"} : Asks(r) /\ Turn(r, op)
      BY <2>7, RequestTurns
    <3>2. Sole(r) /\ r \in Threads /\ Fine(r)
      BY <2>1, <2>2, <3>1, AskingIsSole DEF Fine
    <3>3. Fine(r)' /\ Sole(r)'
      BY <2>7, <3>1, <3>2, RequestIsFine, TurnIsSole
    <3>4. QED
      BY <3>2, <3>3, SoleIsFine
  <2>8. QED
    BY <1>2, <2>3, <2>4, <2>5, <2>6, <2>7 DEF Next, Exit, Crash
<1>3. QED
  BY <1>1, <1>2

NodeInv == TypeInv /\ Courses /\ OneMoves /\ scene \in Scenes

LEMMA InitIsNode == Init => NodeInv /\ TransportsInv
<1> SUFFICES ASSUME Init PROVE NodeInv /\ TransportsInv
  OBVIOUS
<1>1. \A t \in Threads : job[t] = NoJob
  BY DEF Init
<1>2. TypeInv /\ scene \in Scenes /\ server = Down /\ running = {}
  BY InitKeeps DEF Init
<1>3. Courses /\ OneMoves
  BY <1>1, NoJobCourse DEF Courses, OneMoves, Moving, OpsOf
<1>4. TransportsInv
  BY <1>1, <1>2, NoJobType DEF TransportsInv, Steady, CountsOn, Down
<1>5. QED
  BY <1>2, <1>3, <1>4 DEF NodeInv

LEMMA NextIsNode ==
    ASSUME NodeInv, [Next]_vars
    PROVE  NodeInv'
<1>1. TypeInv'
  BY NextKeeps, StutterKeeps DEF NodeInv
<1>2. Turns /\ scene' = scene
  BY NextTurns DEF NodeInv
<1>3. QED
  BY <1>1, <1>2, TurnsKeep DEF NodeInv

\* For an operator who waits for each answer, and if the WAN provider always
\* starts, nothing runs in a locked node, nor in a paused one at rest, and what
\* runs at rest is on record, through wrong keys, rejected awaits, crashes and
\* restarts (finishBoot, unlockVault, lockVault, setNetworkPaused).
THEOREM TransportsAreFollowed ==
    ASSUME "wan" \notin Faults
    PROVE  Spec => []TransportsFollow
<1>1. Init => NodeInv /\ TransportsInv
  BY InitIsNode
<1>2. NodeInv /\ TransportsInv /\ [Next]_vars => NodeInv' /\ TransportsInv'
  BY NextIsNode, NextKeepsTransports DEF NodeInv
<1>3. NodeInv /\ TransportsInv => TransportsFollow
  <2> SUFFICES ASSUME NodeInv, TransportsInv, OneAtATime
               PROVE  /\ running \subseteq {server.provider, server.wan}
                      /\ ~server.unlocked => running = {}
                      /\ server.paused /\ AtRest => running = {}
    BY DEF TransportsFollow, LockedIsSilent, NoTransportLeaks
  <2>1. scene.requests \subseteq Requests /\ IsFiniteSet(scene.requests)
    BY NodeAssumption, FS_Subset DEF NodeInv
  <2>2. Alone
    BY <2>1, FS_Singleton DEF Alone, OneAtATime
  <2>3. Steady
    BY <2>2 DEF TransportsInv, Undisturbed, OneAtATime
  <2>4. AtRest => \A t \in Threads : job[t].at = "idle"
    BY NoJobType DEF AtRest
  <2>5. QED
    BY <2>3, <2>4 DEF Steady
<1>4. QED
  BY <1>1, <1>2, <1>3, PTL DEF Spec


-----------------------------------------------------------------------------
(* One data directory, one peer ID *)

\* Both halves of one pair are in the vault.
Whole(v, n) == \A s \in Secrets : v[s] # None /\ v[s].pair = n

\* A call that has read nothing but the pair n, and makes no other.
Reads(k, n) ==
    /\ k.at \in {"idle", "public", "private", "done"}
    /\ k.at \in {"private", "done"} => k.public = n

\* The pair n is the node's: on disk, in memory and in every call.
Settled(n) ==
    /\ Whole(vault, n)
    /\ identity \in {None, [public |-> n, private |-> n]}
    /\ announced \subseteq {[peer |-> n, key |-> n]}
    /\ \A c \in Callers : Reads(caller[c], n)

\* A call on the way to the first pair, made by an operation that awaits it.
Makes(c) ==
    /\ c \in Threads /\ job[c].at = "identity"
    /\ caller[c].public = None
    /\ caller[c].at \in {"public", "private", "writePrivate", "writePublic"}
    /\ caller[c].at = "writePublic" =>
         vault["private"] # None /\ vault["private"].pair = caller[c].pair

\* There is no pair yet: a crash left the private half of one at most.
Fresh ==
    /\ vault["public"] = None
    /\ identity = None /\ announced = {}
    /\ Alone /\ ~scene.events
    /\ \A c \in Callers : caller[c].at # "idle" => Makes(c)

\* What a step does to the calls and to what was announced, other than a step
\* of a call or the end of the process.
Asked ==
    \/ caller' = caller
    \/ \E t \in Threads : CallIdentity(t) /\ job'[t].at = "identity"
    \/ scene.events /\ CallIdentity("events")
    \/ \E t \in Threads : caller' = [caller EXCEPT ![t] = NotCalled]

Announces ==
    \/ announced' = announced
    \/ \E t \in Threads :
         /\ caller[t].at = "done"
         /\ announced' = announced \union
                {[peer |-> caller[t].public, key |-> identity.private]}
    \/ /\ identity # None
       /\ announced' = announced \union
              {[peer |-> identity.public, key |-> identity.private]}

GoesOnAsking ==
    \A t \in Threads : job[t].at = "identity" => job'[t] = job[t] \/ caller'[t] = NotCalled

Bystands ==
    UNCHANGED <<vault, identity, scene>> /\ Asked /\ Announces /\ GoesOnAsking

\* startP2P and finishBoot call for the identity where they go on to await it.
LEMMA StartP2PCalls ==
    ASSUME TypeInv, NEW t \in Threads, NEW op, NEW s, StartP2P(t, op, s)
    PROVE  caller' = caller \/ (CallIdentity(t) /\ job'[t].at = "identity")
<1>1. CASE networking
  <2>1. CallIdentity(t) /\ Await(t, "identity", op, None, None)
    BY <1>1 DEF StartP2P
  <2>2. QED
    BY <2>1, AwaitSets
<1>2. CASE ~networking
  BY <1>2 DEF StartP2P
<1>3. QED
  BY <1>1, <1>2

LEMMA FinishBootCalls ==
    ASSUME TypeInv, NEW t \in Threads, NEW op, NEW s, FinishBoot(t, op, s)
    PROVE  caller' = caller \/ (CallIdentity(t) /\ job'[t].at = "identity")
  BY StartP2PCalls DEF FinishBoot

\* The steps of an operation, seen from the calls.
LEMMA ProgressBystands ==
    ASSUME TypeInv, Courses, NEW t \in Threads, Progress(t)
    PROVE  Bystands
<1>1. \A u \in Threads \ {t} : job'[u] = job[u]
  BY ProgressTurns, TurnMoves
<1>2. CASE LanUp(t)
  <2>1. caller[t].at = "done" /\ caller' = [caller EXCEPT ![t] = NotCalled]
    BY <1>2 DEF LanUp
  <2>2. caller'[t] = NotCalled
    BY <2>1, UnderWay
  <2>3. announced' = announced \union
           {[peer |-> caller[t].public, key |-> identity.private]}
    BY <1>2 DEF LanUp, Runs
  <2>4. UNCHANGED <<vault, identity, scene>>
    BY <1>2 DEF LanUp
  <2>5. QED
    BY <1>1, <2>1, <2>2, <2>3, <2>4 DEF Bystands, Asked, Announces, GoesOnAsking
<1>3. CASE WanUp(t)
  <2>1. job[t].at = "wan" /\ UNCHANGED <<vault, identity, scene, caller>>
    BY <1>3 DEF WanUp, identityVars
  <2>2. identity # None
    BY <2>1 DEF TypeInv, JobKnows
  <2>3. announced' = announced \union
           {[peer |-> identity.public, key |-> identity.private]}
    BY <1>3 DEF WanUp, Runs
  <2>4. QED
    BY <1>1, <2>1, <2>2, <2>3 DEF Bystands, Asked, Announces, GoesOnAsking
<1>4. CASE LanDown(t) \/ WanDown(t)
  BY <1>1, <1>4 DEF LanDown, WanDown, identityVars, Bystands, Asked, Announces, GoesOnAsking
<1>5. CASE CheckVaultFile(t) \/ CheckKey(t) \/ BootHost(t) \/ InitDone(t)
  <2>1. /\ job[t].at # "identity"
        /\ UNCHANGED <<vault, identity, scene, announced>>
    BY <1>5 DEF CheckVaultFile, CheckKey, BootHost, InitDone
  <2>2. Asked
    BY <1>5, FinishBootCalls
       DEF CheckVaultFile, CheckKey, Install, BootHost, InitDone, Asked
  <2>3. QED
    BY <1>1, <2>1, <2>2 DEF Bystands, Announces, GoesOnAsking
<1>6. QED
  BY <1>2, <1>3, <1>4, <1>5 DEF Progress

LEMMA NextBystands ==
    ASSUME TypeInv, Courses, Next
    PROVE  \/ Gone
           \/ \E c \in Callers :
                /\ IdentityStep(c)
                /\ UNCHANGED <<scene, job, announced>>
           \/ Bystands
<1>1. CASE Start
  <2>1. \A t \in Threads : job[t].at = "idle"
    BY <1>1 DEF Start, TypeInv, UpHasKey
  <2>2. QED
    BY <1>1, <2>1 DEF Start, Bystands, Asked, Announces, GoesOnAsking
<1>2. CASE Stop
  <2>1. "main" \in Threads /\ job["main"].at = "idle" /\ StopP2P("main", "stop")
    BY <1>2, NoJobType DEF Stop, Threads
  <2>2. \A u \in Threads \ {"main"} : job'[u] = job[u]
    BY <2>1, StopP2PTurns, TurnMoves
  <2>3. UNCHANGED <<vault, identity, scene, caller, announced>>
    BY <1>2 DEF Stop, identityVars
  <2>4. QED
    BY <2>1, <2>2, <2>3 DEF Bystands, Asked, Announces, GoesOnAsking
<1>3. CASE Exit \/ Crash
  BY <1>3 DEF Exit, Crash
<1>4. CASE Identity
  BY <1>4 DEF Identity
<1>5. ASSUME NEW t \in Threads, Progress(t) PROVE Bystands
  BY <1>5, ProgressBystands
<1>6. ASSUME NEW t \in Threads, Fails(t), ~Gone PROVE Bystands
  <2>1. /\ job' = [job EXCEPT ![t] = NoJob]
        /\ caller' = [caller EXCEPT ![t] = NotCalled]
        /\ UNCHANGED <<vault, identity, scene, announced>>
    BY <1>6 DEF Fails, Abort
  <2>2. caller'[t] = NotCalled /\ \A u \in Threads \ {t} : job'[u] = job[u]
    BY <2>1, UnderWay
  <2>3. QED
    BY <2>1, <2>2 DEF Bystands, Asked, Announces, GoesOnAsking
<1>7. ASSUME NEW r \in Requests, Unlock(r) \/ Lock(r) \/ Pause(r) \/ Resume(r)
      PROVE  Bystands
  <2>1. r \in Threads
    BY DEF Threads
  <2>2. PICK op : Asks(r) /\ Turn(r, op)
    BY <1>7, RequestTurns
  <2>3. job[r].at = "idle" /\ \A u \in Threads \ {r} : job'[u] = job[u]
    BY <2>1, <2>2, TurnMoves, NoJobType DEF Asks
  <2>4. UNCHANGED <<vault, identity, scene, announced>>
    BY <1>7 DEF Unlock, Lock, Pause, Resume, identityVars
  <2>5. Asked
    BY <1>7, <2>1, StartP2PCalls DEF Unlock, Lock, Pause, Resume, identityVars, Asked
  <2>6. QED
    BY <2>3, <2>4, <2>5 DEF Bystands, Announces, GoesOnAsking
<1>8. QED
  BY <1>1, <1>2, <1>3, <1>4, <1>5, <1>6, <1>7 DEF Next

\* A call under way gets what CallIdentity gives it, or is forgotten.
LEMMA AskedCalls ==
    ASSUME TypeInv, Asked, NEW c \in Callers, caller'[c] # caller[c]
    PROVE  \/ caller'[c] = NotCalled
           \/ /\ \/ c \in Threads /\ job'[c].at = "identity"
                 \/ c = "events" /\ scene.events
              /\ caller'[c] = IF identity # None THEN Place("done", identity.public, None)
                                                 ELSE Place("public", None, None)
<1>1. caller \in [Callers -> CallerRecord] /\ Threads \subseteq Callers /\ "events" \in Callers
  BY ThreadsAreCallers DEF TypeInv, TypeOK, IdentityTypeOK
<1>2. ASSUME NEW d \in Callers, CallIdentity(d)
      PROVE  /\ c = d
             /\ caller'[c] = IF identity # None THEN Place("done", identity.public, None)
                                                ELSE Place("public", None, None)
  BY <1>1, <1>2 DEF CallIdentity
<1>3. ASSUME NEW t \in Threads, caller' = [caller EXCEPT ![t] = NotCalled]
      PROVE  caller'[c] = NotCalled
  BY <1>1, <1>3
<1>4. QED
  BY <1>1, <1>2, <1>3 DEF Asked


\* A pair that is settled stays, whoever asks for it.
LEMMA SettledBystands ==
    ASSUME TypeInv, NEW n \in Pairs, Settled(n), Bystands
    PROVE  Settled(n)'
<1> DEFINE both == [public |-> n, private |-> n]
<1>1. identity # None => identity.public = n /\ identity.private = n
  BY DEF Settled
<1>2. announced' \subseteq {[peer |-> n, key |-> n]}
  <2>1. ASSUME NEW t \in Threads, caller[t].at = "done"
        PROVE  caller[t].public = n /\ identity # None
    BY <2>1, ThreadsAreCallers DEF Settled, Reads, TypeInv, CallerKnows
  <2>2. QED
    BY <1>1, <2>1 DEF Settled, Bystands, Announces
<1>3. ASSUME NEW c \in Callers PROVE Reads(caller'[c], n)
  <2>1. CASE caller'[c] = caller[c]
    BY <2>1 DEF Settled
  <2>2. CASE caller'[c] = NotCalled
    BY <2>2, NotCalledType DEF Reads
  <2>3. CASE identity = None /\ caller'[c] = Place("public", None, None)
    BY <2>3, PlaceType DEF Reads
  <2>4. CASE identity # None /\ caller'[c] = Place("done", identity.public, None)
    <3>1. caller'[c] = Place("done", n, None)
      BY <1>1, <2>4
    <3>2. QED
      BY <3>1, PlaceType DEF Reads
  <2>5. QED
    BY <2>1, <2>2, <2>3, <2>4, AskedCalls DEF Bystands
<1>4. QED
  BY <1>2, <1>3 DEF Settled, Bystands, Reads, Whole

\* With the key that fits, a call reads the pair and takes it up.
LEMMA SettledSteps ==
    ASSUME TypeInv, OpenedFits, NEW n \in Pairs, Settled(n), NEW c \in Callers,
           IdentityStep(c), UNCHANGED announced
    PROVE  Settled(n)'
<1>1. caller[c].at \in {"public", "private"} /\ (ReadPublic(c) \/ ReadPrivate(c))
  BY DEF IdentityStep, ReadPublic, ReadPrivate, WritePrivate, WritePublic, Settled, Reads
<1>2. Fits
  BY <1>1 DEF OpenedFits, Opened
<1>3. \A s \in Secrets : GetSecret(s) = n
  BY <1>2 DEF Fits, GetSecret, Settled, Whole
<1>4. n # None /\ "public" \in Secrets /\ "private" \in Secrets
  BY IdentityAssumption DEF Pairs, Secrets
<1>5. ASSUME NEW k, caller' = [caller EXCEPT ![c] = k], Reads(k, n)
      PROVE  \A d \in Callers : Reads(caller'[d], n)
  BY <1>5 DEF Settled, TypeInv, TypeOK, IdentityTypeOK
<1>6. CASE ReadPublic(c)
  <2>1. caller' = [caller EXCEPT ![c] = Place("private", n, None)]
    BY <1>3, <1>4, <1>6 DEF ReadPublic
  <2>2. Reads(Place("private", n, None), n)
    BY PlaceType DEF Reads
  <2>3. UNCHANGED <<vault, identity>>
    BY <1>6 DEF ReadPublic
  <2>4. QED
    BY <1>5, <2>1, <2>2, <2>3 DEF Settled, Whole, Reads
<1>7. CASE ReadPrivate(c)
  <2>1. caller[c].public = n
    BY <1>7 DEF ReadPrivate, Settled, Reads
  <2>2. Reuse(c) /\ vault' = vault
    BY <1>3, <1>4, <1>7, <2>1 DEF ReadPrivate
  <2>3. /\ caller' = [caller EXCEPT ![c] = Place("done", n, None)]
        /\ identity' = [public |-> n, private |-> n]
    BY <1>3, <1>4, <2>1, <2>2 DEF Reuse
  <2>4. Reads(Place("done", n, None), n)
    BY PlaceType DEF Reads
  <2>5. QED
    BY <1>5, <2>2, <2>3, <2>4 DEF Settled, Whole, Reads
<1>8. QED
  BY <1>1, <1>6, <1>7


\* Before the first pair, whoever asks for it awaits it.
LEMMA FreshBystands ==
    ASSUME TypeInv, Fresh, Bystands
    PROVE  Fresh'
<1>1. Alone' /\ ~scene'.events /\ vault'["public"] = None /\ identity' = None
  BY DEF Fresh, Bystands, Alone
<1>2. announced' = {}
  <2>1. ASSUME NEW t \in Threads PROVE caller[t].at # "done"
    BY ThreadsAreCallers DEF Fresh, Makes
  <2>2. QED
    BY <2>1 DEF Fresh, Bystands, Announces
<1>3. ASSUME NEW c \in Callers, caller'[c].at # "idle"
      PROVE  Makes(c)'
  <2>1. CASE caller'[c] = caller[c]
    <3>1. Makes(c)
      BY <1>3, <2>1 DEF Fresh
    <3>2. job'[c] = job[c]
      BY <1>3, <3>1, NotCalledType DEF Makes, Bystands, GoesOnAsking
    <3>3. QED
      BY <2>1, <3>1, <3>2 DEF Makes, Bystands
  <2>2. CASE caller'[c] # caller[c]
    <3>1. /\ c \in Threads /\ job'[c].at = "identity"
          /\ caller'[c] = Place("public", None, None)
      BY <1>3, <2>2, AskedCalls, NotCalledType DEF Fresh, Bystands
    <3>2. QED
      BY <3>1, PlaceType DEF Makes
  <2>3. QED
    BY <2>1, <2>2
<1>4. QED
  BY <1>1, <1>2, <1>3 DEF Fresh

\* The only call under way reads no public half, makes a pair and writes the
\* private half of it first.
LEMMA FreshSteps ==
    ASSUME TypeInv, Courses, OneMoves, Fresh, NEW c \in Callers, IdentityStep(c),
           UNCHANGED <<scene, job, announced>>
    PROVE  Fresh' \/ \E n \in Pairs : Settled(n)'
<1>1. caller[c].at # "idle" /\ Makes(c)
  BY DEF IdentityStep, ReadPublic, ReadPrivate, WritePrivate, WritePublic, Fresh
<1>2. ASSUME NEW d \in Callers \ {c} PROVE caller[d].at = "idle"
  <2>1. ASSUME NEW e \in Callers, Makes(e) PROVE Moving(e) /\ e \in Threads
    BY <2>1, OpAt DEF Makes, Moving
  <2>2. QED
    BY <1>1, <2>1 DEF Fresh, OneMoves
<1>3. /\ caller \in [Callers -> CallerRecord]
      /\ vault \in [Secrets -> Entry \union {None}]
      /\ "public" \in Secrets /\ "private" \in Secrets
  BY DEF TypeInv, TypeOK, IdentityTypeOK, Secrets
<1>4. ASSUME NEW k, caller' = [caller EXCEPT ![c] = k]
      PROVE  /\ caller'[c] = k
             /\ \A d \in Callers \ {c} : caller'[d].at = "idle"
  BY <1>2, <1>3, <1>4
<1>5. ASSUME NEW k, caller' = [caller EXCEPT ![c] = k], Makes(c)',
             vault'["public"] = None, identity' = None
      PROVE  Fresh'
  <2>1. \A d \in Callers : caller'[d].at # "idle" => d = c
    BY <1>4, <1>5
  <2>2. QED
    BY <1>5, <2>1 DEF Fresh, Alone
<1>6. caller[c].at \in {"writePrivate", "writePublic"} => caller[c].pair \in Pairs
  BY DEF TypeInv, CallerKnows
<1>7. CASE ReadPublic(c)
  <2>1. GetSecret("public") = None
    BY DEF GetSecret, Fresh
  <2>2. /\ caller' = [caller EXCEPT ![c] = Place("private", None, None)]
        /\ UNCHANGED <<vault, identity>>
    BY <1>7, <2>1 DEF ReadPublic
  <2>3. Makes(c)'
    <3>1. caller'[c] = Place("private", None, None)
      BY <1>4, <2>2
    <3>2. QED
      BY <1>1, <3>1, PlaceType DEF Makes
  <2>4. QED
    BY <1>5, <2>2, <2>3 DEF Fresh
<1>8. CASE ReadPrivate(c)
  <2> DEFINE k == Place("writePrivate", None, made + 1)
  <2>1. Generate(c) /\ vault' = vault
    BY <1>1, <1>8 DEF ReadPrivate, Makes
  <2>2. made + 1 \in Pairs
    BY <2>1, IdentityAssumption DEF Generate, Pairs, TypeInv, TypeOK, IdentityTypeOK
  <2>3. k.at = "writePrivate" /\ k.public = None
    BY <2>2, PlaceType
  <2>4. caller' = [caller EXCEPT ![c] = k] /\ identity' = identity
    BY <2>1 DEF Generate
  <2> HIDE DEF k
  <2>5. Makes(c)'
    <3>1. caller'[c] = k
      BY <1>4, <2>4
    <3>2. QED
      BY <1>1, <2>3, <3>1 DEF Makes
  <2>6. QED
    BY <1>5, <2>1, <2>4, <2>5 DEF Fresh
<1>9. CASE WritePrivate(c)
  <2> DEFINE k == Place("writePublic", None, caller[c].pair)
  <2>1. Writes(c, "private") /\ caller[c].pair \in Pairs
    BY <1>6, <1>9 DEF WritePrivate, Writes, Secrets
  <2>2. k.at = "writePublic" /\ k.public = None /\ k.pair = caller[c].pair
    BY <2>1, PlaceType
  <2>3. caller' = [caller EXCEPT ![c] = k] /\ identity' = identity
    BY <1>9 DEF WritePrivate
  <2> HIDE DEF k
  <2>4. vault'["private"] # None /\ vault'["private"].pair = caller[c].pair
        /\ vault'["public"] = vault["public"]
    BY <1>3, <2>1, WritesFit DEF Writes, SetSecret
  <2>5. Makes(c)'
    <3>1. caller'[c] = k
      BY <1>4, <2>3
    <3>2. QED
      BY <1>1, <2>2, <2>4, <3>1 DEF Makes
  <2>6. QED
    BY <1>5, <2>3, <2>4, <2>5 DEF Fresh
<1>10. CASE WritePublic(c)
  <2>0. PICK n \in Pairs : n = caller[c].pair
    BY <1>6, <1>10 DEF WritePublic
  <2>1. Writes(c, "public")
    BY <1>10 DEF WritePublic, Writes, Secrets
  <2>2. /\ caller' = [caller EXCEPT ![c] = Place("done", n, None)]
        /\ identity' = [public |-> n, private |-> n]
    BY <1>10, <2>0 DEF WritePublic
  <2>3. vault["private"] # None /\ vault["private"].pair = n
    BY <1>1, <1>10, <2>0 DEF Makes, WritePublic
  <2>4. vault'["public"] # None /\ vault'["public"].pair = n
    BY <1>3, <2>0, <2>1, WritesFit DEF Writes, SetSecret
  <2>5. vault'["private"] = vault["private"]
    BY <1>3, <2>1 DEF Writes, SetSecret
  <2>6. Whole(vault', n)
    BY <2>3, <2>4, <2>5 DEF Whole, Secrets
  <2>7. Reads(Place("done", n, None), n)
    BY PlaceType DEF Reads
  <2>8. \A d \in Callers : Reads(caller'[d], n)
    BY <1>4, <2>2, <2>7 DEF Reads
  <2>9. announced' = {}
    BY DEF Fresh
  <2>10. Settled(n)'
    BY <2>2, <2>6, <2>8, <2>9 DEF Settled, Whole, Reads
  <2>11. QED
    BY <2>10
<1>11. QED
  BY <1>7, <1>8, <1>9, <1>10 DEF IdentityStep

\* What is on disk and what was announced outlive the process.
LEMMA GoneKeepsIdentity ==
    ASSUME TypeInv, Gone, scene' = scene
    PROVE  /\ Fresh => Fresh'
           /\ \A n \in Pairs : Settled(n) => Settled(n)'
<1>1. /\ \A c \in Callers : caller'[c].at = "idle"
      /\ identity' = None /\ UNCHANGED <<vault, announced>>
  BY NotCalledType DEF Gone, ForgetIdentity
<1>2. Fresh => Fresh'
  BY <1>1 DEF Fresh, Alone
<1>3. \A n \in Pairs : Settled(n) => Settled(n)'
  BY <1>1 DEF Settled, Whole, Reads
<1>4. QED
  BY <1>2, <1>3

IdentityInv == Fresh \/ \E n \in Pairs : Settled(n)

LEMMA NextKeepsIdentity ==
    ASSUME NodeInv, OpenedFits, IdentityInv, [Next]_vars
    PROVE  IdentityInv'
<1> USE DEF NodeInv
<1>1. CASE UNCHANGED vars
  BY <1>1 DEF vars, IdentityInv, Fresh, Alone, Makes, Settled, Whole, Reads
<1>2. CASE Gone
  BY <1>2, NextTurns, GoneKeepsIdentity DEF IdentityInv
<1>3. CASE Bystands
  BY <1>3, FreshBystands, SettledBystands DEF IdentityInv
<1>4. ASSUME NEW c \in Callers, IdentityStep(c), UNCHANGED <<scene, job, announced>>
      PROVE  IdentityInv'
  <2>1. CASE Fresh
    BY <1>4, <2>1, FreshSteps DEF IdentityInv
  <2>2. ASSUME NEW n \in Pairs, Settled(n) PROVE IdentityInv'
    BY <1>4, <2>2, SettledSteps DEF IdentityInv
  <2>3. QED
    BY <2>1, <2>2 DEF IdentityInv
<1>5. QED
  BY <1>1, <1>2, <1>3, <1>4, NextBystands

\* A data directory that has its pair, or one that has none and whose operator
\* asks one thing at a time, with no plugin that guards topics.
Founded(s) ==
    \/ \E n \in Pairs : Whole(s.vault, n)
    \/ /\ s.vault["public"] = None /\ ~s.events
       /\ \E r \in Requests : s.requests = {r}

\* As long as every start is a networked one, a data directory with its pair has
\* one peer ID, under which every transport of every process runs, and proves it
\* with that pair's private half; so does one that makes its pair in a first run
\* by one call at a time, whatever crashes between the two writes of a pair leave
\* behind and whichever keys are tried (IdentityManager.getOrCreateIdentity).
THEOREM OneIdentity ==
    ASSUME Modes = {TRUE}, \A s \in Scenes : Founded(s)
    PROVE  Spec => []IdentityIsKept
<1>1. Init => NodeInv /\ OpenedFits /\ IdentityInv
  <2> SUFFICES ASSUME Init PROVE IdentityInv
    BY InitKeeps, InitIsNode
  <2>1. /\ Founded(scene) /\ vault = scene.vault
        /\ \A c \in Callers : caller[c] = NotCalled
        /\ identity = None /\ announced = {}
    BY DEF Init
  <2>2. ASSUME NEW n \in Pairs, Whole(vault, n) PROVE Settled(n)
    BY <2>1, <2>2, NotCalledType DEF Settled, Reads
  <2>3. CASE scene.vault["public"] = None /\ ~scene.events
             /\ \E r \in Requests : scene.requests = {r}
    BY <2>1, <2>3, NotCalledType DEF Fresh, Alone, IdentityInv
  <2>4. QED
    BY <2>1, <2>2, <2>3 DEF Founded, IdentityInv
<1>2. NodeInv /\ OpenedFits /\ IdentityInv /\ [Next]_vars
        => NodeInv' /\ OpenedFits' /\ IdentityInv'
  BY NextIsNode, NextKeepsIdentity, NextKeeps, StutterKeeps DEF NodeInv
<1>3. IdentityInv => IdentityIsKept
  <2>1. CASE Fresh
    BY <2>1, FS_EmptySet DEF Fresh, IdentityIsKept
  <2>2. ASSUME NEW n \in Pairs, Settled(n) PROVE IdentityIsKept
    <3> DEFINE a == [peer |-> n, key |-> n]
    <3>1. a.peer = a.key /\ (announced = {} \/ announced = {a})
      BY <2>2 DEF Settled
    <3> HIDE DEF a
    <3>2. Cardinality(announced) = 0 \/ Cardinality(announced) = 1
      BY <3>1, FS_EmptySet, FS_Singleton
    <3>3. QED
      BY <3>1, <3>2 DEF IdentityIsKept
  <2>3. QED
    BY <2>1, <2>2 DEF IdentityInv
<1>4. QED
  BY <1>1, <1>2, <1>3, PTL DEF Spec
=============================================================================
