----------------------- MODULE SandboxedPluginAdapter -----------------------
(* The host's side of a sandboxed plugin,                                    *)
(* core/src/sandbox/sandboxed-plugin-adapter.ts: its life from spawn to stop *)
(* or crash, the requests it awaits, and the broker skills it answers for.   *)
(* The frames of one chunk are dispatched one after the other before a       *)
(* promise that one of them resolves goes on.                                *)
EXTENDS SandboxRunner

VARIABLES
    state,      \* AdapterState
    pending,    \* the requests that await an answer
    registered, \* the broker's skills of this plugin
    jobs,       \* promises resolved in this chunk: "start" and "startFails" of
                \* start, "shutdown" of shutdown
    beating,    \* the heartbeat interval
    stopping,   \* shutdown: "no", "asking", "waiting" for the exit, "done"
    calls       \* each invocation, from the broker's handler to its outcome

host == <<state, pending, registered, jobs, beating, stopping, calls>>

States == {"spawning", "running", "crashed", "stopped"}
Requests == Calls \cup {"initialize", "heartbeat", "shutdown"}
Outcomes == {"ok", "error", "timeout", "crash"}

InitHost ==
    /\ state = "spawning"
    /\ pending = {}
    /\ registered = {}
    /\ jobs = {}
    /\ beating = FALSE
    /\ stopping = "no"
    /\ calls = [c \in Calls |-> "idle"]

-----------------------------------------------------------------------------
Outcome(c, outcome) == calls' = [calls EXCEPT ![c] = outcome]

Over == state \in {"crashed", "stopped"}

\* Mutant: the pending requests are dropped without a rejection.
CleanUpSilently(done) ==
    /\ registered' = {}
    /\ pending' = {}
    /\ jobs' = (jobs \ done) \cup ({"shutdown"} \cap pending)
    /\ UNCHANGED calls

\* cleanupRegisteredAndPending: unregister every skill, reject every request; a
\* rejected shutdown request lets shutdown go on.
CleanUp(done) ==
    /\ registered' = {}
    /\ pending' = {}
    /\ jobs' = (jobs \ done) \cup ({"shutdown"} \cap pending)
    /\ calls' = [c \in Calls |-> IF c \in pending THEN "crash" ELSE calls[c]]

\* SIGKILL; rest is what the child's channel holds for the host.
KillChild(rest) ==
    IF Alive
    THEN /\ child' = "dead"
         /\ chan' = [chan EXCEPT !["child"] = Truncated(rest)]
         /\ UNCHANGED <<boot, skills, asked, settled, handling, ran>>
    ELSE /\ chan' = [chan EXCEPT !["child"] = rest]
         /\ UNCHANGED runner

\* killAndCrash leaves a crashed or stopped sandbox as it is, and the transport
\* open.
KillAndCrash(done, rest) ==
    IF Over
    THEN /\ jobs' = jobs \ done
         /\ chan' = [chan EXCEPT !["child"] = rest]
         /\ UNCHANGED <<state, pending, registered, beating, stopping, calls, runner>>
    ELSE /\ state' = "crashed"
         /\ beating' = FALSE
         /\ CleanUp(done)
         /\ KillChild(rest)
         /\ UNCHANGED stopping

\* No chunk is being dispatched: timers and callers may run.
Idle == jobs = {}

-----------------------------------------------------------------------------
\* start: spawn, and send initialize.
Start ==
    /\ Idle
    /\ state = "spawning"
    /\ child = "none"
    /\ child' = "up"
    /\ pending' = {"initialize"}
    /\ Send("host", Message("initialize", "host"))
    /\ UNCHANGED <<boot, skills, asked, settled, handling, ran, open,
                   state, registered, jobs, beating, stopping, calls>>

\* What goes on in the host when the request is answered; a call's outcome is its own.
Resumed(r, answer) ==
    IF r = "initialize" THEN {IF answer = "answer" THEN "start" ELSE "startFails"}
                        ELSE {r} \cap {"shutdown"}

\* A response: whoever awaits it goes on; an unknown id is dropped.
Response(r, answer) ==
    /\ Take("child")
    /\ pending' = pending \ {r}
    /\ calls' = [c \in Calls |-> IF c = r /\ r \in pending
                                 THEN IF answer = "answer" THEN "ok" ELSE "error"
                                 ELSE calls[c]]
    /\ jobs' = jobs \cup (IF r \in pending THEN Resumed(r, answer) ELSE {})
    /\ UNCHANGED <<state, registered, beating, stopping>>

\* skill:register: the name, the options and the permissions they need are held
\* against the host's manifest.
RegisterSkill(s) ==
    /\ \/ /\ registered' = registered \cup {s}
          /\ TakeAndSend("child", "host", Message("granted", s))
       \/ /\ TakeAndSend("child", "host", Message("denied", s))
          /\ UNCHANGED registered
    /\ UNCHANGED <<state, pending, jobs, beating, stopping, calls>>

\* skill:unregister.
UnregisterSkill(s) ==
    /\ registered' = registered \ {s}
    /\ TakeAndSend("child", "host", Message("dropped", s))
    /\ UNCHANGED <<state, pending, jobs, beating, stopping, calls>>

\* Mutant: a stopped adapter goes on serving its child's requests.
HostReadsAlways ==
    /\ open
    /\ Arrived("child")
    /\ LET m == Received("child") IN
       \/ m.kind \in {"answer", "failed"} /\ Response(m.about, m.kind) /\ UNCHANGED runner
       \/ m.kind = "register" /\ RegisterSkill(m.about) /\ UNCHANGED runner
       \/ m.kind = "unregister" /\ UnregisterSkill(m.about) /\ UNCHANGED runner
       \/ m.kind = "crash" /\ KillAndCrash({}, Taken(chan["child"]))
    /\ UNCHANGED open

\* The message handler; a stopped adapter drops the frame.
HostReads ==
    /\ open
    /\ Arrived("child")
    /\ LET m == Received("child") IN
       IF state = "stopped"
       THEN Take("child") /\ UNCHANGED <<host, runner>>
       ELSE \/ m.kind \in {"answer", "failed"} /\ Response(m.about, m.kind) /\ UNCHANGED runner
            \/ m.kind = "register" /\ RegisterSkill(m.about) /\ UNCHANGED runner
            \/ m.kind = "unregister" /\ UnregisterSkill(m.about) /\ UNCHANGED runner
            \/ m.kind = "crash" /\ KillAndCrash({}, Taken(chan["child"]))
    /\ UNCHANGED open

\* start goes on: the adapter runs, whatever the rest of the chunk has done.
Started ==
    /\ "start" \in jobs
    /\ jobs' = jobs \ {"start"}
    /\ state' = "running"
    /\ beating' = TRUE
    /\ UNCHANGED <<pending, registered, stopping, calls, runner, chan, open>>

\* The catch of start.
StartFails ==
    /\ "startFails" \in jobs
    /\ KillAndCrash({"startFails"}, chan["child"])
    /\ UNCHANGED open

\* initialize or a heartbeat times out.
RequestTimesOut(r) ==
    /\ Idle
    /\ r \in pending \cap {"initialize", "heartbeat"}
    /\ KillAndCrash({}, chan["child"])
    /\ UNCHANGED open

\* ping, which a closed transport refuses.
Ping ==
    /\ Idle
    /\ beating
    /\ state = "running"
    /\ "heartbeat" \notin pending
    /\ IF open
       THEN /\ pending' = pending \cup {"heartbeat"}
            /\ Send("host", Message("heartbeat", "host"))
            /\ UNCHANGED <<state, registered, jobs, beating, stopping, calls, runner>>
       ELSE KillAndCrash({}, chan["child"])
    /\ UNCHANGED open

-----------------------------------------------------------------------------
\* The broker has captured the skill's handler and is about to run it.
Capture(c) ==
    /\ Idle
    /\ calls[c] = "idle"
    /\ SkillOf[c] \in registered
    /\ Outcome(c, "captured")
    /\ UNCHANGED <<state, pending, registered, jobs, beating, stopping, runner, chan, open>>

\* invoke: only a running sandbox with an open transport is asked.
Invoke(c) ==
    /\ Idle
    /\ calls[c] = "captured"
    /\ IF state = "running" /\ open
       THEN /\ Outcome(c, "sent")
            /\ pending' = pending \cup {c}
            /\ Send("host", Message("invoke", c))
       ELSE /\ Outcome(c, "crash")
            /\ UNCHANGED <<pending, chan>>
    /\ UNCHANGED <<state, registered, jobs, beating, stopping, runner, open>>

\* The hard timeout of a call takes the sandbox with it.
CallTimesOut(c) ==
    /\ Idle
    /\ c \in pending
    /\ state' = "crashed"
    /\ beating' = FALSE
    /\ registered' = {}
    /\ pending' = {}
    /\ jobs' = {"shutdown"} \cap pending
    /\ calls' = [d \in Calls |-> IF d = c THEN "timeout" ELSE
                                 IF d \in pending THEN "crash" ELSE calls[d]]
    /\ KillChild(chan["child"])
    /\ UNCHANGED <<stopping, open>>

-----------------------------------------------------------------------------
\* shutdown asks a running child to end; otherwise it stops at once.
Shutdown ==
    /\ Idle
    /\ state # "stopped"
    /\ stopping = "no"
    /\ beating' = FALSE
    /\ IF state = "running" /\ open
       THEN /\ stopping' = "asking"
            /\ pending' = pending \cup {"shutdown"}
            /\ Send("host", Message("shutdown", "host"))
            /\ UNCHANGED <<state, registered, jobs, calls>>
       ELSE /\ stopping' = "waiting"
            /\ state' = "stopped"
            /\ CleanUp({})
            /\ UNCHANGED chan
    /\ UNCHANGED <<runner, open>>

\* The request is answered, rejected or timed out.
ShutdownGoesOn ==
    /\ \/ "shutdown" \in jobs
       \/ Idle /\ "shutdown" \in pending
    /\ stopping' = "waiting"
    /\ state' = "stopped"
    /\ registered' = {}
    /\ pending' = {}
    /\ jobs' = jobs \ {"shutdown"}
    /\ calls' = [c \in Calls |-> IF c \in pending THEN "crash" ELSE calls[c]]
    /\ UNCHANGED <<beating, runner, chan, open>>

\* The exit, or 150 ms and a SIGKILL; then the transport closes.
ShutdownEnds ==
    /\ Idle
    /\ stopping = "waiting"
    /\ stopping' = "done"
    /\ KillChild(chan["child"])
    /\ open' = FALSE
    /\ UNCHANGED <<state, pending, registered, jobs, beating, calls>>

\* kill.
Kill ==
    /\ Idle
    /\ state # "stopped"
    /\ state' = "stopped"
    /\ beating' = FALSE
    /\ CleanUp({})
    /\ KillChild(chan["child"])
    /\ open' = FALSE
    /\ UNCHANGED stopping

\* The child's stdout ends when all of it is read, or the host writes to a dead
\* child, or the plugin writes something that is no frame to its stdout.
ChannelFails ==
    /\ Idle
    /\ open
    /\ \/ child = "dead" /\ (chan["child"].pipe = <<>> \/ chan["host"].pipe # <<>>)
       \/ Alive /\ boot # "idle"
    /\ open' = FALSE
    /\ KillAndCrash({}, Empty)

HostStep ==
    \/ Start
    \/ HostReads
    \/ Started
    \/ StartFails
    \/ \E r \in Requests : RequestTimesOut(r)
    \/ Ping
    \/ \E c \in Calls : Capture(c) \/ Invoke(c) \/ CallTimesOut(c)
    \/ Shutdown
    \/ ShutdownGoesOn
    \/ ShutdownEnds
    \/ Kill
    \/ ChannelFails

TypeOKHost ==
    /\ state \in States
    /\ pending \subseteq Requests
    /\ registered \subseteq Skills
    /\ jobs \subseteq {"start", "startFails", "shutdown"}
    /\ beating \in BOOLEAN
    /\ stopping \in {"no", "asking", "waiting", "done"}
    /\ calls \in [Calls -> Outcomes \cup {"idle", "captured", "sent"}]
    /\ \A c \in Calls : c \in pending => calls[c] = "sent"

-----------------------------------------------------------------------------
(* A sandboxed plugin: the adapter and the plugin's process over their two    *)
(* streams, with timeouts, crashes and kills at any moment.                   *)
vars == <<chan, open, runner, host>>

Init == InitChannel /\ InitRunner /\ InitHost

Next == HostStep \/ (RunnerStep /\ UNCHANGED host)

Spec == Init /\ [][Next]_vars

(* Timers fire and promises go on in the host; a child on its way out ends.  *)
(* The child owes nothing: its plugin may hang or flood.                     *)
Fairness ==
    /\ WF_vars(Started)
    /\ WF_vars(StartFails)
    /\ WF_vars(RequestTimesOut("initialize"))
    /\ \A c \in Calls : WF_vars(Invoke(c)) /\ WF_vars(CallTimesOut(c))
    /\ WF_vars(ShutdownGoesOn)
    /\ WF_vars(ShutdownEnds)

FairSpec == Spec /\ Fairness

-----------------------------------------------------------------------------
TypeOK == TypeOKRunner /\ TypeOKHost

\* "Fail-closed execution": a call that the broker hands to a sandboxed plugin
\* comes to an end, whether the child answers, hangs, crashes or is stopped.
CallsSettle == \A c \in Calls : calls[c] \in {"captured", "sent"} ~> calls[c] \in Outcomes

\* A crashed or stopped sandbox leaves no process behind, although a child that
\* was asked to shut down may hang.
NoOrphan == state \in {"crashed", "stopped"} ~> child \in {"none", "dead"}

\* A stopped sandbox serves nothing any more: frames that were under way register
\* nothing in the broker, and nothing brings it back.
StoppedIsFinal == [][state = "stopped" => state' = "stopped" /\ registered' = {}]_vars

\* The end of a sandbox, on both sides of the pipe: the host serves nothing of it
\* any more, and its process does not outlive it.
EndsForGood == NoOrphan /\ StoppedIsFinal

\* A call runs at most once in the child, and one that the broker was told has
\* succeeded has run.
RunsAtMostOnce ==
    \A c \in Calls : ran[c] <= 1 /\ (calls[c] = "ok" => ran[c] = 1)

\* "the runner must wait for these to settle before answering initialize, or the
\* host can dispatch to a skill the sandbox has not registered yet": a call of a
\* skill that activate registers is never refused.
AnnouncedSkillIsFound ==
    [][\A c \in Calls :
          (/\ SkillOf[c] \in Announced
           /\ Arrived("host")
           /\ Received("host") = Message("invoke", c)[1]
           /\ chan'["host"] = Taken(chan["host"])
           /\ Alive)
          => ran'[c] = ran[c] + 1]_vars
=============================================================================
