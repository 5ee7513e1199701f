------------------------------- MODULE Webview -------------------------------
(* The webview of the desktop app: the bridge, which keeps a WebSocket to the *)
(* core server and asks it over HTTP, and the app state, which shows the lock *)
(* gate from the answers and events as they come in                          *)
(* (apps/desktop-shell/src/services/core-bridge.ts, state/AppState.tsx), with *)
(* the lock gate's routes and the event bus of the server.                    *)
EXTENDS Naturals, Sequences, FiniteSets

CONSTANTS Chains,        \* chains of calls of the webview under way at once
          Other,       \* a call of some other client of the server
          Sockets, NoSocket,
          MaxChanges   \* bound: operations on the gate and lost connections

VARIABLES
    gate,     \* the server: locked, networkPaused, booted
    ask,      \* per chain: what it is, the call it awaits, and the answer
    socket,   \* per WebSocket: its place, and the events on their way
    bridge,   \* the bridge: dev (mounted twice), config cached, opens that await it,
              \* its socket, reconnect timers, state
    view,     \* the app state: gateKnown, locked, paused, vault
    changes

webviewVars == <<gate, ask, socket, bridge, view, changes>>

Clients == Chains \cup {Other}

Failed  == [ok |-> FALSE, locked |-> FALSE, paused |-> FALSE]
Ok      == [Failed EXCEPT !.ok = TRUE]
NoAsk   == [op |-> "none", step |-> "idle", at |-> "asked", answer |-> Failed]
Unopened == [at |-> "none", feed |-> <<>>]

\* connect() of the mount, which React's StrictMode follows with disconnect() and
\* connect() in a dev build: two opens await the configuration then.
InitWebview ==
    /\ gate \in {[locked |-> l, paused |-> FALSE, booted |-> ~l] : l \in BOOLEAN}
    /\ ask = [c \in Clients |-> NoAsk]
    /\ socket = [s \in Sockets |-> Unopened]
    /\ bridge \in {[dev |-> d, cached |-> FALSE, opens |-> IF d THEN 2 ELSE 1,
                    socket |-> NoSocket, timers |-> 0, state |-> "reconnecting"] : d \in BOOLEAN}
    /\ view = [known |-> FALSE, locked |-> TRUE, paused |-> FALSE, vault |-> "empty"]
    /\ changes \in 0..MaxChanges

Costs == changes > 0 /\ changes' = changes - 1

----------------------------------------------------------------------------
(* The bridge's WebSocket *)

\* initialLockHint tells the app state what the boot handshake said; the gate may
\* be another by now, and gateKnown stays as it is.
resolveBackendConfig ==
    /\ ~bridge.cached /\ bridge' = [bridge EXCEPT !.cached = TRUE]
    /\ \E hint \in BOOLEAN : view' = [view EXCEPT !.locked = hint]
    /\ UNCHANGED <<gate, ask, socket, changes>>

\* Mutant: as long as a socket is not open it is taken for none.
mustOpenAgain == bridge.socket = NoSocket \/ socket[bridge.socket].at = "connecting"

mustOpen == bridge.socket = NoSocket

NewSocket(b, s) ==
    /\ socket[s].at = "none"
    /\ socket' = [socket EXCEPT ![s].at = "connecting"]
    /\ bridge' = [b EXCEPT !.socket = s]

\* The second of two opens that had both found no socket makes one as well.
openResumes(s) ==
    /\ bridge.cached /\ bridge.opens > 0
    /\ NewSocket([bridge EXCEPT !.opens = @ - 1], s)
    /\ UNCHANGED <<gate, ask, view, changes>>

onopen(s) ==
    /\ socket[s].at = "connecting"
    /\ socket' = [socket EXCEPT ![s].at = "open"]
    /\ bridge' = [bridge EXCEPT !.state = "connected"]
    /\ UNCHANGED <<gate, ask, view, changes>>

\* The connection fails or is lost, with what is on its way.  onerror closes the
\* socket that the bridge has by then.
connectionLost(s) ==
    /\ socket[s].at \in {"connecting", "open"} /\ Costs
    /\ \E lost \in {{s}, {s, bridge.socket} \ {NoSocket}} :
          socket' = [x \in Sockets |-> IF x \in lost THEN [at |-> "closing", feed |-> <<>>]
                                                     ELSE socket[x]]
    /\ UNCHANGED <<gate, ask, bridge, view>>

\* onclose forgets the socket of the bridge, whichever closed.
onclose(s) ==
    /\ socket[s].at = "closing"
    /\ socket' = [socket EXCEPT ![s] = Unopened]
    /\ bridge' = [bridge EXCEPT !.socket = NoSocket, !.timers = @ + 1, !.state = "reconnecting"]
    /\ UNCHANGED <<gate, ask, view, changes>>

reconnect ==
    /\ bridge.timers > 0
    /\ LET b == [bridge EXCEPT !.timers = @ - 1] IN
       IF mustOpen
       THEN \E s \in Sockets : NewSocket([b EXCEPT !.state = "reconnecting"], s)
       ELSE bridge' = b /\ UNCHANGED socket
    /\ UNCHANGED <<gate, ask, view, changes>>

----------------------------------------------------------------------------
(* The server *)

Broadcast(event) ==
    socket' = [s \in Sockets |-> IF socket[s].at = "open"
                                 THEN [socket[s] EXCEPT !.feed = Append(@, event)] ELSE socket[s]]

Answers(c, answer) == ask' = [ask EXCEPT ![c].at = "answered", ![c].answer = answer]

ServesHealth(c) ==
    /\ ask[c].step = "health"
    /\ Answers(c, [ok |-> TRUE, locked |-> gate.locked, paused |-> gate.paused])
    /\ UNCHANGED <<gate, socket>>

\* The keys, and 403 while the vault is locked.
ServesVault(c) ==
    /\ ask[c].step = "vault"
    /\ Answers(c, IF gate.locked THEN Failed ELSE Ok)
    /\ UNCHANGED <<gate, socket>>

\* unlockVault opens the gate, boots, and tells of it only then.
ServesUnlock(c) ==
    /\ ask[c].step = "unlock"
    /\ IF gate.locked
       THEN /\ gate' = [gate EXCEPT !.locked = FALSE, !.paused = FALSE]
            /\ ask' = [ask EXCEPT ![c].at = "boots"]
       ELSE Answers(c, Ok) /\ UNCHANGED gate
    /\ UNCHANGED socket

ServesLock(c) ==
    /\ ask[c].step = "lock" /\ Answers(c, Ok)
    /\ IF ~gate.locked /\ gate.booted
       THEN gate' = [gate EXCEPT !.locked = TRUE] /\ Broadcast("locked")
       ELSE UNCHANGED <<gate, socket>>

ServesPause(c, paused) ==
    /\ ask[c].step = IF paused THEN "pause" ELSE "resume"
    /\ Answers(c, IF gate.locked THEN Failed ELSE Ok)
    /\ IF ~gate.locked /\ gate.paused # paused
       THEN /\ gate' = [gate EXCEPT !.paused = paused]
            /\ Broadcast(IF paused THEN "paused" ELSE "resumed")
       ELSE UNCHANGED <<gate, socket>>

Serves(c) ==
    /\ ask[c].step # "idle" /\ ask[c].at = "asked"
    /\ \/ ServesHealth(c) \/ ServesVault(c) \/ ServesUnlock(c) \/ ServesLock(c)
       \/ \E paused \in BOOLEAN : ServesPause(c, paused)
    /\ UNCHANGED <<bridge, view, changes>>

finishUnlock(c) ==
    /\ ask[c].at = "boots" /\ Answers(c, Ok)
    /\ gate' = [gate EXCEPT !.booted = TRUE] /\ Broadcast("unlocked")
    /\ UNCHANGED <<bridge, view, changes>>

----------------------------------------------------------------------------
(* The app state *)

Starts(c, op, step) ==
    /\ ask[c] = NoAsk
    /\ ask' = [ask EXCEPT ![c] = [NoAsk EXCEPT !.op = op, !.step = step]]

Awaits(c, step) == ask' = [ask EXCEPT ![c] = [@ EXCEPT !.step = step, !.at = "asked", !.answer = Failed]]
Over(c)         == ask' = [ask EXCEPT ![c] = NoAsk]

\* refreshHealth on mount and every ten seconds.
poll(c) ==
    /\ Starts(c, "poll", "health") /\ UNCHANGED <<gate, socket, bridge, view, changes>>

\* The lock screen, the tray and another client; the tray's toggle goes by the view.
\* The mount and vault:updated read the keys.
operate(c) ==
    /\ Costs
    /\ \/ c = Other /\ \E step \in {"unlock", "lock", "pause", "resume"} : Starts(c, step, step)
       \/ c # Other /\ view.known /\ view.locked /\ Starts(c, "unlock", "unlock")
       \/ c # Other /\ (Starts(c, "lock", "lock") \/ Starts(c, "vault", "vault"))
       \/ c # Other /\ Starts(c, "network", IF view.paused THEN "resume" ELSE "pause")
    /\ UNCHANGED <<gate, socket, bridge, view>>

\* Mutant: a locked gate leaves the keys where they are.
AfterGateOnly(v, answer) ==
    [v EXCEPT !.known = TRUE, !.locked = answer.locked, !.paused = answer.paused]

AfterHealth(v, answer) ==
    [v EXCEPT !.known = TRUE, !.locked = answer.locked, !.paused = answer.paused,
              !.vault = IF answer.locked THEN "empty" ELSE @]

\* refreshHealth; it catches what fails.  lockVault and unlockVault go on from there.
healthIn(c) ==
    LET v == IF ask[c].answer.ok THEN AfterHealth(view, ask[c].answer) ELSE view IN
    /\ ask[c].step = "health"
    /\ view' = IF ask[c].op = "lock" THEN [v EXCEPT !.vault = "empty"] ELSE v
    /\ IF ask[c].op = "unlock" THEN Awaits(c, "vault") ELSE Over(c)

vaultIn(c) ==
    /\ ask[c].step = "vault" /\ Over(c)
    /\ view' = IF ask[c].answer.ok THEN [view EXCEPT !.vault = "full"] ELSE view

operationIn(c) ==
    /\ ask[c].step \in {"unlock", "lock", "pause", "resume"} /\ UNCHANGED view
    /\ IF ask[c].answer.ok THEN Awaits(c, "health") ELSE Over(c)

answerIn(c) ==
    /\ ask[c].at = "answered"
    /\ IF c = Other THEN Over(c) /\ UNCHANGED view
                    ELSE healthIn(c) \/ vaultIn(c) \/ operationIn(c)
    /\ UNCHANGED <<gate, socket, bridge, changes>>

\* The server fails at it, or the answer is lost.
callFails(c) ==
    /\ c # Other /\ ask[c].step # "idle" /\ ask[c].at = "asked" /\ Costs
    /\ Answers(c, Failed)
    /\ UNCHANGED <<gate, socket, bridge, view>>

\* routeEvent.  Bound: an unlocked gate waits for a chain to ask for the keys with.
onmessage(s) ==
    LET event == Head(socket[s].feed) IN
    /\ socket[s].feed # <<>>
    /\ socket' = [socket EXCEPT ![s].feed = Tail(@)]
    /\ view' = CASE event = "unlocked" -> [view EXCEPT !.locked = FALSE]
                 [] event = "locked"   -> [view EXCEPT !.locked = TRUE, !.vault = "empty"]
                 [] OTHER              -> [view EXCEPT !.paused = event = "paused"]
    /\ IF event = "unlocked" THEN \E c \in Chains : Starts(c, "vault", "vault") ELSE UNCHANGED ask
    /\ UNCHANGED <<gate, bridge, changes>>

BridgeStep ==
    \/ resolveBackendConfig \/ reconnect
    \/ \E s \in Sockets : openResumes(s) \/ onopen(s) \/ onclose(s)

AskStep(c) == Serves(c) \/ finishUnlock(c) \/ answerIn(c)

WebviewStep ==
    \/ BridgeStep
    \/ \E s \in Sockets : onmessage(s) \/ connectionLost(s)
    \/ \E c \in Clients : AskStep(c) \/ operate(c) \/ callFails(c)
    \/ \E c \in Chains : poll(c)

----------------------------------------------------------------------------
(* Properties *)

\* A bridge that is mounted once has one WebSocket, so no event comes in twice
\* (core-bridge.ts open, onclose, scheduleReconnect).
OneFeed ==
    ~bridge.dev => Cardinality({s \in Sockets : socket[s].at \in {"connecting", "open"}}) <= 1

\* Whatever events and answers overtook one another, were lost or failed, the app
\* comes to show the gate as it is, with no keys while it is locked, and the bridge
\* to be connected (AppState.tsx refreshHealth, routeEvent, the poll).
ViewConverges ==
    <>[]( /\ view.known /\ view.locked = gate.locked /\ view.paused = gate.paused
          /\ view.locked => view.vault = "empty"
          /\ bridge.state = "connected" )

WebviewSpec ==
    /\ InitWebview /\ [][WebviewStep]_webviewVars /\ WF_webviewVars(BridgeStep)
    /\ \A c \in Clients : WF_webviewVars(AskStep(c)) /\ WF_webviewVars(c \in Chains /\ poll(c))
    /\ \A s \in Sockets : WF_webviewVars(onmessage(s))

=============================================================================
