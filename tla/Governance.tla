----------------------------- MODULE Governance -----------------------------
(* The permission matrix of the core server: what the operator allows each     *)
(* peer, which the task broker asks before it runs a skill for that peer, and   *)
(* the stream on which operator interfaces follow it                           *)
(* (src/apps/core-server/src/governance, routes/governance.ts).  The rates and  *)
(* times of entries are left out, and their topics, which are checked when they *)
(* are stored as skills are and which nothing asks for afterwards.             *)

CONSTANTS Grantees,   \* the peers
          Surfaces,   \* the skills that plugins expose to the network
          Admins,     \* writes of the operator under way
          Viewers     \* clients of the stream

VARIABLES
    governed,   \* "down", "up", or "stopped" with requests that still run
    offered,    \* the surfaces that active plugins expose now
    matrix,     \* memory: PeerMatrixStore.entries; file: governance-matrix.json
    writes,     \* per write: its step, its peer and entry, and the list it persists
    ticked,     \* GovernanceStream.snapshot, whose signature is the last one sent
    viewers     \* per client: is it subscribed, and what its frames say

governance == <<governed, offered, matrix, writes, ticked, viewers>>

Unset     == [set |-> FALSE, allows |-> {}]
Entries   == {Unset} \cup [set : {TRUE}, allows : SUBSET Surfaces]
NoEntries == [p \in Grantees |-> Unset]
NoWrite   == [step |-> "idle", peer |-> CHOOSE p \in Grantees : TRUE, entry |-> Unset, list |-> NoEntries]
Away      == [on |-> FALSE, sees |-> NoEntries]

GovernanceTypeOK ==
    /\ governed \in {"down", "up", "stopped"} /\ offered \subseteq Surfaces
    /\ \A e \in {matrix.memory, matrix.file, ticked} : e \in [Grantees -> Entries]
    /\ \A w \in Admins : writes[w].step \in {"idle", "confirm", "persist"}
    /\ \A v \in Viewers : viewers[v].on \in BOOLEAN

InitGovernance ==
    /\ governed = "down" /\ offered = Surfaces
    /\ matrix = [memory |-> NoEntries, file |-> NoEntries]
    /\ writes = [w \in Admins |-> NoWrite]
    /\ ticked = NoEntries /\ viewers = [v \in Viewers |-> Away]

\* A file of an unknown shape, or with an entry no write could have made, ends the
\* start; entries are taken as they are, whatever is exposed by now.
loadMatrix == matrix' = [matrix EXCEPT !.memory = matrix.file]

\* After the plugins are active: a stream that has replayed nothing yet.
initGovernance ==
    /\ governed = "down" /\ governed' = "up"
    /\ loadMatrix
    /\ ticked' = NoEntries
    /\ UNCHANGED <<offered, writes, viewers>>

\* Plugins go and come back while the server runs.
pluginChanges(s) ==
    /\ governed # "down"
    /\ offered' = IF s \in offered THEN offered \ {s} ELSE offered \cup {s}
    /\ UNCHANGED <<governed, matrix, writes, ticked, viewers>>

----------------------------------------------------------------------------
(* Writes: over HTTP or the governance-ui skills *)

Becomes(w, to) == writes' = [writes EXCEPT ![w] = to]

\* The request is well formed, and the operator is asked to confirm it.
setPermissions(w, p, e) ==
    /\ governed = "up" /\ writes[w].step = "idle"
    /\ Becomes(w, [NoWrite EXCEPT !.step = "confirm", !.peer = p, !.entry = e])
    /\ UNCHANGED <<governed, offered, matrix, ticked, viewers>>

removePermissions(w, p) == setPermissions(w, p, Unset)

\* The skills of governance-ui take the way of the HTTP routes.
registerGovernanceSkills(w, p) ==
    \/ removePermissions(w, p)
    \/ \E allows \in SUBSET Surfaces : setPermissions(w, p, [set |-> TRUE, allows |-> allows])

\* TrustTierGate.authorize rejects: the operator denied, or nobody could be asked.
denied(w) ==
    /\ writes[w].step = "confirm" /\ Becomes(w, NoWrite)
    /\ UNCHANGED <<governed, offered, matrix, ticked, viewers>>

\* AccessDeniedError is for a surface that no active plugin exposes by now.
Storable(e) == e.allows \subseteq offered

\* remove: an entry that is gone needs no write.
Changes(p, e) == e.set \/ matrix.memory[p].set

\* The confirmed write: memory has it at once, and the whole list goes to the file.
storeEntry(w) ==
    /\ writes[w].step = "confirm"
    /\ LET p == writes[w].peer
           e == writes[w].entry
           list == [matrix.memory EXCEPT ![p] = e]
       IN IF Storable(e) /\ Changes(p, e)
          THEN /\ matrix' = [matrix EXCEPT !.memory = list]
               /\ Becomes(w, [writes[w] EXCEPT !.step = "persist", !.list = list])
          ELSE Becomes(w, NoWrite) /\ UNCHANGED matrix
    /\ UNCHANGED <<governed, offered, ticked, viewers>>

\* Two writes may land in either order, and the later one may carry the older list.
persist(w) ==
    /\ writes[w].step = "persist"
    /\ matrix' = [matrix EXCEPT !.file = writes[w].list]
    /\ Becomes(w, NoWrite)
    /\ UNCHANGED <<governed, offered, ticked, viewers>>

\* The caller gets a 500, and memory keeps the entry.
matrixWriteFails(w) ==
    /\ writes[w].step = "persist" /\ Becomes(w, NoWrite)
    /\ UNCHANGED <<governed, offered, matrix, ticked, viewers>>

\* What the broker asks before it runs a skill: no entry narrows nothing.
isAllowed(entries, p, s) == entries[p].set => s \in entries[p].allows

----------------------------------------------------------------------------
(* GovernanceStream *)

\* Mutant: a fresh client is sent the matrix of the moment.
subscribeLive(v) ==
    /\ governed = "up" /\ ~viewers[v].on
    /\ viewers' = [viewers EXCEPT ![v] = [on |-> TRUE, sees |-> matrix.memory]]
    /\ UNCHANGED <<governed, offered, matrix, writes, ticked>>

\* A fresh client is sent the last snapshot, unless it is empty.
subscribe(v) ==
    /\ governed = "up" /\ ~viewers[v].on
    /\ viewers' = [viewers EXCEPT ![v] = [on |-> TRUE, sees |-> ticked]]
    /\ UNCHANGED <<governed, offered, matrix, writes, ticked>>

unsubscribe(v) ==
    /\ viewers[v].on /\ viewers' = [viewers EXCEPT ![v] = Away]
    /\ UNCHANGED <<governed, offered, matrix, writes, ticked>>

\* The heartbeat: what differs from the last snapshot is broadcast.
tick ==
    /\ governed = "up" /\ ticked' = matrix.memory
    /\ viewers' = [v \in Viewers |->
           IF viewers[v].on /\ ticked # matrix.memory
           THEN [on |-> TRUE, sees |-> matrix.memory] ELSE viewers[v]]
    /\ UNCHANGED <<governed, offered, matrix, writes>>

\* CoreServer.stop lets every client go.
stopStream ==
    /\ governed = "up" /\ governed' = "stopped"
    /\ viewers' = [v \in Viewers |-> Away]
    /\ UNCHANGED <<offered, matrix, writes, ticked>>

\* The process ends or crashes, and a write under way may be lost.
endGovernance ==
    /\ governed # "down" /\ governed' = "down"
    /\ matrix' = [matrix EXCEPT !.memory = NoEntries]
    /\ writes' = [w \in Admins |-> NoWrite]
    /\ ticked' = NoEntries /\ viewers' = [v \in Viewers |-> Away]
    /\ offered' = Surfaces

GovernanceStep ==
    \/ initGovernance \/ tick \/ stopStream \/ endGovernance
    \/ \E s \in Surfaces : pluginChanges(s)
    \/ \E w \in Admins, p \in Grantees : registerGovernanceSkills(w, p)
    \/ \E w \in Admins : denied(w) \/ storeEntry(w) \/ persist(w) \/ matrixWriteFails(w)
    \/ \E v \in Viewers : subscribe(v) \/ unsubscribe(v)

----------------------------------------------------------------------------
\* "A matrix entry can only ever narrow": a write lets a peer through to a surface
\* only if an active plugin exposes it when the write is stored, however long the
\* operator thought about it, or if the peer's entry is gone.
NothingIsWidened ==
    [][governed # "down" /\ governed' # "down" =>
         \A p \in Grantees, s \in Surfaces :
             isAllowed(matrix'.memory, p, s) /\ ~isAllowed(matrix.memory, p, s)
                => s \in offered \/ ~matrix'.memory[p].set]_governance

\* Every client comes to see the matrix as it stands, whenever it subscribed and
\* however often the matrix returned to an earlier state between two heartbeats.
ViewersFollow ==
    []<>(governed = "up" => \A v \in Viewers : viewers[v].on => viewers[v].sees = matrix.memory)

MatrixHolds == NothingIsWidened /\ ViewersFollow

=============================================================================
