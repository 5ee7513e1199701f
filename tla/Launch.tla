------------------------------- MODULE Launch -------------------------------
(* The desktop app and the core server it spawns: the entry point it picks,   *)
(* the handshake over the child's stdout, the guard that keeps a second       *)
(* server off the data directory, and how the two end                         *)
(* (apps/desktop-shell/src-tauri/src/lib.rs and sidecar.rs,                   *)
(* apps/core-server/src/index.ts and instance-guard.ts).                      *)
EXTENDS Naturals, FiniteSets

CONSTANTS Apps,        \* desktop apps over one data directory
          Pids, NoPid, \* process ids the system gives to servers
          Builds,      \* "release", "debug"
          Findings,    \* the sets of entry points there may be
          MaxLaunches  \* bound

ASSUME LaunchAssumption ==
    /\ NoPid \notin Pids /\ "empty" \notin Pids \cup {NoPid}
    /\ Builds \subseteq {"release", "debug"}
    /\ Findings \subseteq SUBSET {"env", "sea", "script"}

VARIABLES
    layout,
    app,      \* per app: its place, window, entry point, child, and whether the
              \* ready line waits to be read
    proc,     \* per server's pid: its place; "dead" until its parent waits for it
    pidFile,  \* core-server.pid: NoPid without it, "empty", or the pid in it
    raced,    \* history: two servers were between the guard's read and its write
    orphans,  \* history: servers whose app died before them
    launches

launchVars == <<layout, app, proc, pidFile, raced, orphans, launches>>

Closed == [at |-> "off", window |-> "none", entry |-> "none", child |-> NoPid, line |-> FALSE]

InitLaunch ==
    /\ layout \in [build : Builds, found : Findings]
    /\ app = [a \in Apps |-> Closed]
    /\ proc = [p \in Pids |-> "free"]
    /\ pidFile = NoPid /\ raced = FALSE /\ orphans = {} /\ launches = 0

Parents(p) == {a \in Apps : app[a].child = p}

\* A process that has ended keeps its pid until its parent waits for it.
Ends(p) == [proc EXCEPT ![p] = IF Parents(p) = {} THEN "free" ELSE "dead"]

----------------------------------------------------------------------------
(* The app *)

\* pick_entrypoint, as resolve_core_command calls it: its argument `release` is
\* cfg!(debug_assertions), which holds in a debug build.
pickEntrypoint ==
    LET release == layout.build = "debug"
        order == IF release THEN <<"env", "sea", "script">> ELSE <<"env", "script", "sea">>
        first == CHOOSE i \in 1..4 : /\ i = 4 \/ order[i] \in layout.found
                                     /\ \A j \in 1..(i - 1) : order[j] \notin layout.found
    IN IF first = 4 THEN "none" ELSE order[first]

\* setup spawns the child and waits for its ready line before there is a window.
spawnCoreSidecar(a) ==
    /\ app[a].at = "off" /\ launches < MaxLaunches /\ pickEntrypoint # "none"
    /\ \E p \in Pids :
          /\ proc[p] = "free"
          /\ proc' = [proc EXCEPT ![p] = "guard"]
          /\ app' = [app EXCEPT ![a] = [Closed EXCEPT !.at = "boot", !.entry = pickEntrypoint,
                                                      !.child = p]]
          /\ orphans' = orphans \ {p}
    /\ launches' = launches + 1
    /\ UNCHANGED <<layout, pidFile, raced>>

Shown(a, child) == [app EXCEPT ![a].at = "up", ![a].window = "shown", ![a].child = child,
                               ![a].line = FALSE]

\* No entry point, or the system refuses to spawn it: the app runs without a server.
spawnFails(a) ==
    /\ app[a].at = "off" /\ launches < MaxLaunches
    /\ app' = Shown(a, NoPid) /\ launches' = launches + 1
    /\ UNCHANGED <<layout, proc, pidFile, raced, orphans>>

\* Whether the server still runs by then is not asked.
readReadyLine(a) ==
    /\ app[a].at = "boot" /\ app[a].line
    /\ app' = Shown(a, app[a].child)
    /\ UNCHANGED <<layout, proc, pidFile, raced, orphans, launches>>

\* kill and wait.
Reaped(a) == [p \in Pids |-> IF p = app[a].child THEN "free" ELSE proc[p]]

\* Mutant: a server that is late is left to itself.
giveUpWaiting(a) ==
    /\ app[a].at = "boot"
    /\ app' = Shown(a, NoPid)
    /\ UNCHANGED <<layout, proc, pidFile, raced, orphans, launches>>

\* READY_TIMEOUT; whether the line came in that moment makes no difference.
readyTimesOut(a) ==
    /\ app[a].at = "boot"
    /\ proc' = Reaped(a) /\ app' = Shown(a, NoPid)
    /\ UNCHANGED <<layout, pidFile, raced, orphans, launches>>

\* The child's stdout ends without a ready line.
stdoutEnds(a) ==
    /\ app[a].at = "boot" /\ ~app[a].line /\ proc[app[a].child] = "dead"
    /\ proc' = Reaped(a) /\ app' = Shown(a, NoPid)
    /\ UNCHANGED <<layout, pidFile, raced, orphans, launches>>

\* The close button hides the window; the tray brings it back.
closeRequested(a) ==
    /\ app[a].window = "shown"
    /\ app' = [app EXCEPT ![a].window = "hidden"]
    /\ UNCHANGED <<layout, proc, pidFile, raced, orphans, launches>>

showMainWindow(a) ==
    /\ app[a].window = "hidden"
    /\ app' = [app EXCEPT ![a].window = "shown"]
    /\ UNCHANGED <<layout, proc, pidFile, raced, orphans, launches>>

\* Quit in the tray: the child is killed, not asked to stop.
quitApp(a) ==
    /\ app[a].at = "up"
    /\ proc' = Reaped(a) /\ app' = [app EXCEPT ![a] = Closed]
    /\ UNCHANGED <<layout, pidFile, raced, orphans, launches>>

\* The app crashes or is killed: nobody stops its server.
appDies(a) ==
    LET p == app[a].child IN
    /\ app[a].at # "off"
    /\ app' = [app EXCEPT ![a] = Closed]
    /\ IF p # NoPid /\ proc[p] # "dead"
       THEN orphans' = orphans \cup {p} /\ UNCHANGED proc
       ELSE proc' = Reaped(a) /\ UNCHANGED orphans
    /\ UNCHANGED <<layout, pidFile, raced, launches>>

----------------------------------------------------------------------------
(* The server *)

\* kill(pid, 0) finds a process that nobody has waited for yet.
processIsAlive(p) == proc[p] # "free"

\* Mutant: who is on record is not asked for.
mayClaimAnyway(p) == pidFile # "empty"

mayClaim(p) == pidFile # "empty" /\ (pidFile \in {NoPid, p} \/ ~processIsAlive(pidFile))

\* acquireInstanceLock reads the file and then writes it anew.
readPidFile(p) ==
    /\ proc[p] = "guard"
    /\ IF mayClaim(p)
       THEN /\ proc' = [proc EXCEPT ![p] = "claim"]
            /\ raced' = (raced \/ \E q \in Pids : proc[q] \in {"claim", "write"})
       ELSE proc' = Ends(p) /\ UNCHANGED raced
    /\ UNCHANGED <<layout, app, pidFile, orphans, launches>>

openPidFile(p) ==
    /\ proc[p] = "claim"
    /\ pidFile' = "empty" /\ proc' = [proc EXCEPT ![p] = "write"]
    /\ UNCHANGED <<layout, app, raced, orphans, launches>>

writePid(p) ==
    /\ proc[p] = "write"
    /\ pidFile' = p /\ proc' = [proc EXCEPT ![p] = "boot"]
    /\ UNCHANGED <<layout, app, raced, orphans, launches>>

\* start has returned and the handlers of signals are there: the line is written.
printReadyLine(p) ==
    /\ proc[p] = "boot"
    /\ proc' = [proc EXCEPT ![p] = "up"]
    /\ app' = [a \in Apps |-> IF app[a].child = p THEN [app[a] EXCEPT !.line = TRUE] ELSE app[a]]
    /\ UNCHANGED <<layout, pidFile, raced, orphans, launches>>

\* removeIfOwn reads the file first: its own pid leads on to the unlink.
removeIfOwn(p, own, other) ==
    /\ proc' = IF pidFile = p THEN own ELSE other
    /\ UNCHANGED <<layout, app, pidFile, raced, orphans, launches>>

\* start releases the lock and throws, and main's catch exits.
bootFails(p) == proc[p] = "boot" /\ removeIfOwn(p, [proc EXCEPT ![p] = "exit"], Ends(p))

\* An error that nobody catches: the exit handler removes the file last of all.
fatalError(p) == proc[p] = "up" /\ removeIfOwn(p, [proc EXCEPT ![p] = "exit"], Ends(p))

\* SIGTERM or SIGINT: stop releases the lock before it closes anything.
shutdown(p) ==
    /\ proc[p] = "up"
    /\ removeIfOwn(p, [proc EXCEPT ![p] = "stop"], [proc EXCEPT ![p] = "stopping"])

unlinkPidFile(p) ==
    /\ proc[p] \in {"exit", "stop"} /\ pidFile' = NoPid
    /\ proc' = IF proc[p] = "exit" THEN Ends(p) ELSE [proc EXCEPT ![p] = "stopping"]
    /\ UNCHANGED <<layout, app, raced, orphans, launches>>

\* Transports and sockets are closed, and the process exits.
stopped(p) ==
    /\ proc[p] = "stopping" /\ proc' = Ends(p)
    /\ UNCHANGED <<layout, app, pidFile, raced, orphans, launches>>

\* Killed, by a signal nothing handles yet or by a crash of the runtime.
serverDies(p) ==
    /\ proc[p] \notin {"free", "dead"} /\ proc' = Ends(p)
    /\ UNCHANGED <<layout, app, pidFile, raced, orphans, launches>>

LaunchStep ==
    \/ \E a \in Apps :
          \/ spawnCoreSidecar(a) \/ spawnFails(a) \/ readReadyLine(a) \/ readyTimesOut(a)
          \/ stdoutEnds(a) \/ closeRequested(a) \/ showMainWindow(a) \/ quitApp(a) \/ appDies(a)
    \/ \E p \in Pids :
          \/ readPidFile(p) \/ openPidFile(p) \/ writePid(p) \/ printReadyLine(p)
          \/ bootFails(p) \/ fatalError(p) \/ shutdown(p) \/ unlinkPidFile(p) \/ stopped(p) \/ serverDies(p)

LaunchSpec == InitLaunch /\ [][LaunchStep]_launchVars

----------------------------------------------------------------------------
(* Properties *)

\* However apps and servers start, crash and are killed in whatever order, two
\* servers work on the data directory only if both were inside the guard at once;
\* one that has begun to stop no longer counts (instance-guard.ts
\* acquireInstanceLock, removeIfOwn).
OneServer == ~raced => Cardinality({p \in Pids : proc[p] \in {"boot", "up"}}) <= 1

\* No server outlives its app, on whichever way its start or the app ends, unless
\* the app itself died (sidecar.rs spawn_core_sidecar, SidecarHandle.stop).
NoServerLeftBehind ==
    \A p \in Pids : proc[p] # "free" => Parents(p) # {} \/ p \in orphans

\* A data directory has one server at a time, and none that nobody will stop.
ServersAccounted == OneServer /\ NoServerLeftBehind

\* "release - the SEA binary wins (a shipped app has no Node)" (sidecar.rs:192).
ReleaseRunsBinary ==
    \A a \in Apps : layout.build = "release" /\ "sea" \in layout.found /\ "env" \notin layout.found
                      => app[a].entry \in {"none", "sea"}

=============================================================================
