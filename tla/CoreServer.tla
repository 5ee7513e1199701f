------------------------------ MODULE CoreServer ------------------------------
(* The life of a node's process (apps/core-server/src/app.ts, network.ts,     *)
(* wan-provider.ts): start, the vault's lock gate, the deferred boot, and the *)
(* transports that unlock, lock, pause, resume and stop bring up and down,    *)
(* each a chain of awaited calls that interleaves with the others.            *)
EXTENDS IdentityManager, FiniteSets

CONSTANTS
    Requests,    \* HTTP requests of the operator that can be under way at once
    Providers,   \* instances of a network provider
    Modes,       \* values that options.networking takes over the starts
    Faults,      \* at which awaits a call may reject
    Scenes,      \* what there is to begin with, see MCCoreServer
    MaxStarts    \* bound: starts of the process

VARIABLES
    scene,
    networking,  \* options.networking of this process
    server,      \* the fields of the CoreServer
    job,         \* per request, and for start and stop ("main"): where it is
    running,     \* providers that have started and not stopped
    announced,   \* history: peer IDs under which a transport ran, with the
                 \*   private key that was there to prove them
    starts

vars == <<vault, masterKey, identity, caller, queue, made, scene, networking,
          server, job, running, announced, starts>>

Threads == Requests \union {"main"}

ASSUME NodeAssumption ==
    /\ None \notin Providers
    /\ IsFiniteSet(Requests) /\ "main" \notin Requests
    /\ Modes \subseteq BOOLEAN
    /\ Faults \subseteq {"boot", "init", "identity", "wan"}
    /\ MaxStarts \in Nat
    /\ Threads \union {"events"} \subseteq Callers
    /\ \A s \in Scenes : /\ s.vault \in [Secrets -> Entry \union {None}]
                         /\ s.made \in 0..MaxPairs
                         /\ s.requests \subseteq Requests

Down == [up |-> FALSE, unlocked |-> FALSE, paused |-> FALSE, booted |-> FALSE,
         provider |-> None, wan |-> None]

NoJob == [at |-> "idle", op |-> "none", key |-> None, target |-> None]

ServerRecord ==
    [up : BOOLEAN, unlocked : BOOLEAN, paused : BOOLEAN, booted : BOOLEAN,
     provider : Providers \union {None}, wan : Providers \union {None}]

JobRecord ==
    [at : {"idle", "file", "verify", "boot", "init", "identity", "wan",
           "stop", "stopWan", "exit"},
     op : {"none", "start", "unlock", "lock", "pause", "resume", "stop"},
     key : Keys \union {None},
     target : Providers \union {None}]

ServerTypeOK ==
    /\ networking \in BOOLEAN
    /\ server \in ServerRecord
    /\ job \in [Threads -> JobRecord]
    /\ running \subseteq Providers
    /\ announced \subseteq [peer : Pairs, key : Pairs]
    /\ starts \in 0..MaxStarts

Init ==
    /\ scene \in Scenes
    /\ vault = scene.vault
    /\ made = scene.made
    /\ masterKey = None /\ identity = None /\ queue = <<>>
    /\ caller = [c \in Callers |-> NotCalled]
    /\ networking \in Modes
    /\ server = Down
    /\ job = [t \in Threads |-> NoJob]
    /\ running = {} /\ announced = {}
    /\ starts = 0

-----------------------------------------------------------------------------
(* Starting and stopping the transports *)

\* What an operation does to the fields when its last await is over.
After(op, s) ==
    CASE op = "resume" -> [s EXCEPT !.paused = FALSE]
      [] op = "pause"  -> [s EXCEPT !.paused = TRUE]
      [] op = "lock"   -> [s EXCEPT !.unlocked = FALSE]
      [] OTHER         -> s

\* t goes on to its next await, or is over.
Await(t, at, op, key, target) ==
    job' = [job EXCEPT ![t] = [at |-> at, op |-> op, key |-> key, target |-> target]]

End(t, op, s) ==
    /\ server' = After(op, s)
    /\ IF op = "stop" THEN Await(t, "exit", op, None, None)
                      ELSE job' = [job EXCEPT ![t] = NoJob]

\* startP2P up to its first await.
StartP2P(t, op, s) ==
    IF networking
    THEN /\ server' = s
         /\ Await(t, "identity", op, None, None)
         /\ CallIdentity(t)
    ELSE End(t, op, s) /\ UNCHANGED caller

\* stopP2P: the provider that it stops is the one on record when it is called.
StopWan(t, op, s) ==
    IF s.wan # None
    THEN server' = s /\ Await(t, "stopWan", op, None, s.wan)
    ELSE End(t, op, s)

StopP2P(t, op) ==
    IF server.provider # None
    THEN UNCHANGED server /\ Await(t, "stop", op, None, server.provider)
    ELSE StopWan(t, op, server)

Unused == Providers \ (running \union {server.provider, server.wan})
NewProvider == CHOOSE p \in Unused : TRUE

\* A transport that is up announces the peer ID it was given and proves it with
\* the private key that the IdentityManager holds.
Runs(p, peer) ==
    /\ running' = running \union {p}
    /\ announced' = announced \union {[peer |-> peer, key |-> identity.private]}

LanUp(t) ==
    /\ job[t].at = "identity" /\ caller[t].at = "done" /\ Unused # {}
    /\ LET p == NewProvider IN
         /\ Runs(p, caller[t].public)
         /\ LET s == [server EXCEPT !.provider = p] IN
            IF scene.wan THEN server' = s /\ Await(t, "wan", job[t].op, None, None)
                          ELSE End(t, job[t].op, s)
    /\ caller' = [caller EXCEPT ![t] = NotCalled]
    /\ UNCHANGED <<vault, masterKey, identity, queue, made, scene, networking, starts>>

WanUp(t) ==
    /\ job[t].at = "wan" /\ Unused # {}
    /\ LET p == NewProvider IN
         /\ Runs(p, identity.public)
         /\ End(t, job[t].op, [server EXCEPT !.wan = p])
    /\ UNCHANGED <<identityVars, scene, networking, starts>>

\* Mutant: the provider is dropped from the record and not stopped.
LanDownUnstopped(t) ==
    /\ job[t].at = "stop"
    /\ StopWan(t, job[t].op, [server EXCEPT !.provider = None])
    /\ UNCHANGED <<identityVars, scene, networking, running, announced, starts>>

LanDown(t) ==
    /\ job[t].at = "stop"
    /\ running' = running \ {job[t].target}
    /\ StopWan(t, job[t].op, [server EXCEPT !.provider = None])
    /\ UNCHANGED <<identityVars, scene, networking, announced, starts>>

WanDown(t) ==
    /\ job[t].at = "stopWan"
    /\ running' = running \ {job[t].target}
    /\ End(t, job[t].op, [server EXCEPT !.wan = None])
    /\ UNCHANGED <<identityVars, scene, networking, announced, starts>>

-----------------------------------------------------------------------------
(* The process *)

Gone ==
    /\ ForgetIdentity
    /\ server' = Down
    /\ job' = [t \in Threads |-> NoJob]
    /\ running' = {}
    /\ UNCHANGED <<scene, networking, announced, starts>>

\* start: locked if there is a vault to protect, else straight into the boot.
Start ==
    /\ ~server.up /\ starts < MaxStarts
    /\ starts' = starts + 1
    /\ networking' \in Modes
    /\ masterKey' \in Keys
    /\ IF HasVaultFile /\ networking'
         THEN /\ server' = [Down EXCEPT !.up = TRUE]
              /\ UNCHANGED job
         ELSE /\ server' = [Down EXCEPT !.up = TRUE, !.unlocked = TRUE]
              /\ Await("main", "boot", "start", None, None)
    /\ UNCHANGED <<vault, identity, caller, queue, made, scene, running, announced>>

\* SIGTERM: stop the transports, then exit.
Stop ==
    /\ server.up /\ job["main"] = NoJob
    /\ StopP2P("main", "stop")
    /\ UNCHANGED <<identityVars, scene, networking, running, announced, starts>>

Exit == job["main"].at = "exit" /\ Gone

Crash == scene.crash /\ server.up /\ Gone

-----------------------------------------------------------------------------
(* finishBoot *)

FinishBoot(t, op, s) ==
    IF ~s.booted
    THEN server' = s /\ Await(t, "boot", op, None, None) /\ UNCHANGED caller
    ELSE IF s.unlocked /\ ~s.paused
         THEN StartP2P(t, op, s)
         ELSE End(t, op, s) /\ UNCHANGED caller

\* PluginHost.boot.  A plugin that guards its topics builds the event layer as
\* it is activated, once, and that asks for the identity without being awaited.
BootHost(t) ==
    /\ job[t].at = "boot"
    /\ Await(t, "init", job[t].op, None, None)
    /\ IF scene.events /\ caller["events"].at = "idle"
         THEN CallIdentity("events")
         ELSE UNCHANGED caller
    /\ UNCHANGED <<vault, masterKey, identity, queue, made, scene, networking,
                   server, running, announced, starts>>

\* initGovernance and initPAL have loaded their files.
InitDone(t) ==
    /\ job[t].at = "init"
    /\ FinishBoot(t, job[t].op, [server EXCEPT !.booted = TRUE])
    /\ UNCHANGED <<vault, masterKey, identity, queue, made, scene, networking,
                   running, announced, starts>>

\* An awaited call rejects: the operation ends there, a start with its process.
Abort(t) ==
    IF job[t].op = "start" THEN Gone
    ELSE /\ job' = [job EXCEPT ![t] = NoJob]
         /\ caller' = [caller EXCEPT ![t] = NotCalled]
         /\ UNCHANGED <<vault, masterKey, identity, queue, made, scene, networking,
                        server, running, announced, starts>>

Fails(t) ==
    /\ job[t].at \in Faults
    /\ job[t].at = "identity" => caller[t].at = "done"
    /\ Abort(t)

-----------------------------------------------------------------------------
(* The requests.  They come in once start has told the boot token. *)

\* Bound: providers for whatever may still start one.
Room == 2 * Cardinality({t \in Threads : job[t] # NoJob}) + 2 <= Cardinality(Unused)

Asks(r) ==
    /\ r \in scene.requests /\ Room
    /\ server.up /\ job["main"].op # "start" /\ job[r] = NoJob

Unlock(r) ==
    /\ Asks(r) /\ ~server.unlocked
    /\ \E k \in Keys : Await(r, "file", "unlock", k, None)
    /\ UNCHANGED <<identityVars, scene, networking, server, running, announced, starts>>

\* unlockVault after its checks: the key is installed and the node opens.
Install(r) ==
    /\ masterKey' = job[r].key
    /\ FinishBoot(r, "unlock", [server EXCEPT !.unlocked = TRUE, !.paused = FALSE])

CheckVaultFile(r) ==
    /\ job[r].at = "file"
    /\ IF HasVaultFile
         THEN Await(r, "verify", "unlock", job[r].key, None)
              /\ UNCHANGED <<masterKey, server, caller>>
         ELSE Install(r)
    /\ UNCHANGED <<vault, identity, queue, made, scene, networking, running, announced, starts>>

\* Mutant: any key is taken.
CheckKeyTrusting(r) ==
    /\ job[r].at = "verify"
    /\ Install(r)
    /\ UNCHANGED <<vault, identity, queue, made, scene, networking, running, announced, starts>>

CheckKey(r) ==
    /\ job[r].at = "verify"
    /\ IF VerifyKey(job[r].key)
         THEN Install(r)
         ELSE End(r, "unlock", server) /\ UNCHANGED <<masterKey, caller>>
    /\ UNCHANGED <<vault, identity, queue, made, scene, networking, running, announced, starts>>

Lock(r) ==
    /\ Asks(r) /\ server.unlocked /\ server.booted
    /\ StopP2P(r, "lock")
    /\ UNCHANGED <<identityVars, scene, networking, running, announced, starts>>

Pause(r) ==
    /\ Asks(r) /\ server.unlocked /\ ~server.paused
    /\ StopP2P(r, "pause")
    /\ UNCHANGED <<identityVars, scene, networking, running, announced, starts>>

Resume(r) ==
    /\ Asks(r) /\ server.unlocked /\ server.paused
    /\ StartP2P(r, "resume", server)
    /\ UNCHANGED <<vault, masterKey, identity, queue, made, scene, networking,
                   running, announced, starts>>

-----------------------------------------------------------------------------

Identity ==
    /\ \E c \in Callers : IdentityStep(c)
    /\ UNCHANGED <<scene, networking, server, job, running, announced, starts>>

Progress(t) ==
    \/ CheckVaultFile(t) \/ CheckKey(t) \/ BootHost(t) \/ InitDone(t)
    \/ LanUp(t) \/ WanUp(t) \/ LanDown(t) \/ WanDown(t)

Next ==
    \/ Start \/ Stop \/ Exit \/ Crash
    \/ Identity
    \/ \E t \in Threads : Progress(t) \/ Fails(t)
    \/ \E r \in Requests : Unlock(r) \/ Lock(r) \/ Pause(r) \/ Resume(r)

Spec == Init /\ [][Next]_vars

\* The event loop goes on: what awaits a file or a socket gets its answer.
Fairness ==
    /\ WF_vars(Identity) /\ WF_vars(Exit)
    /\ \A t \in Threads : WF_vars(Progress(t))

FairSpec == Spec /\ Fairness

-----------------------------------------------------------------------------
(* Properties *)

TypeOK == IdentityTypeOK /\ ServerTypeOK

AtRest == \A t \in Threads : job[t] = NoJob

\* The operator waits for each answer, and the process does not stop meanwhile.
OneAtATime == Cardinality(scene.requests) = 1 /\ job["main"].op # "stop"

\* lockVault and setNetworkPaused stop every transport: asked one at a time,
\* none runs while the vault is locked, and none while the network is paused
\* and nothing is under way.
LockedIsSilent ==
    OneAtATime =>
        /\ ~server.unlocked => running = {}
        /\ server.paused /\ AtRest => running = {}

\* What runs is on record, so that the next lock, pause or stop finds it.
NoTransportLeaks ==
    OneAtATime /\ AtRest => running \subseteq {server.provider, server.wan}

\* The transports are what lock, unlock, pause and resume make of them.
TransportsFollow == LockedIsSilent /\ NoTransportLeaks

\* Over all restarts, crashes and keys tried, a data directory has one peer ID,
\* and the private key held with it is its own (getOrCreateIdentity).
IdentityIsKept ==
    /\ Cardinality(announced) <= 1
    /\ \A a \in announced : a.peer = a.key

\* A key that opens the vault goes on opening it: no write mixes another key in.
KeysStayValid == [][\A k \in Keys : VerifyKey(k) => VerifyKey(k)']_vault

\* Each request is answered, whatever it waits for.
RequestsSettle == \A r \in Requests : []<>(job[r] = NoJob)

=============================================================================
