---------------------------- MODULE SandboxRunner ----------------------------
(* The sandboxed process and its channel.                                     *)
(* core/src/sandbox/ipc-transport.ts, once in the host and once in the        *)
(* sandboxed process: framed messages over the child's stdin and stdout, with *)
(* a write queue that waits for 'drain' when the stream is full.              *)
(* core/src/sandbox/runner.ts activates its plugin, registers the plugin's    *)
(* skills with the host, runs the calls it is sent, answers heartbeats, and   *)
(* ends on request, with its channel, or with a crash that it reports.        *)
(* Frames of one chunk are handled one after the other before the promises    *)
(* they resolve go on.                                                        *)
EXTENDS Naturals, Sequences, FiniteSets, SequencesExt

CONSTANTS
    MaxPipe,   \* the unread frames that the operating system's pipe holds
    HighWater  \* the frames a stream buffers when write() begins to answer false

\* A frame that passes the mark alone is written again for ever.
ASSUME StreamAssumption == MaxPipe \in Nat /\ HighWater \in Nat \ {0, 1}

VARIABLES
    chan,      \* by sender: writeQueue, flushing, and the frames written and not
               \* yet read, of which the stream buffers what the pipe cannot hold
    open       \* is the host's transport open?

Sides == {"host", "child"}

Empty == [queue |-> <<>>, flushing |-> FALSE, pipe |-> <<>>]

InitChannel ==
    /\ chan = [side \in Sides |-> Empty]
    /\ open = TRUE

\* Mutant: a frame that finds others before it is written twice.
FlushTwice(ch) ==
    [ch EXCEPT !.queue = <<>>, !.pipe = @ \o ch.queue \o IF @ = <<>> THEN <<>> ELSE ch.queue]

\* flushWrites: the head is written and shifted until a write answers false; the
\* frame of that write stays at the head and waits for 'drain'.
Flush(ch) ==
    LET room == MaxPipe + HighWater - 1 - Len(ch.pipe)
    IN  IF Len(ch.queue) <= room
        THEN [queue |-> <<>>, flushing |-> FALSE, pipe |-> ch.pipe \o ch.queue]
        ELSE [queue |-> SubSeq(ch.queue, room + 1, Len(ch.queue)),
              flushing |-> TRUE,
              pipe |-> ch.pipe \o SubSeq(ch.queue, 1, room + 1)]

\* send: the frames join the queue, which is flushed unless 'drain' is awaited.
Sent(ch, messages) ==
    LET queued == [ch EXCEPT !.queue = @ \o messages]
    IN  IF ch.flushing THEN queued ELSE Flush(queued)

\* The other side decodes a frame; once the stream buffers nothing, 'drain'
\* flushes the queue.
Taken(ch) ==
    LET rest == [ch EXCEPT !.pipe = Tail(@)]
    IN  IF ch.flushing /\ Len(rest.pipe) <= MaxPipe THEN Flush(rest) ELSE rest

\* The sender's process ends: what its stream buffers is lost.
Truncated(ch) ==
    [Empty EXCEPT !.pipe = IF Len(ch.pipe) > MaxPipe THEN SubSeq(ch.pipe, 1, MaxPipe) ELSE ch.pipe]

Arrived(side) == chan[side].pipe # <<>>

Received(side) == Head(chan[side].pipe)

Send(side, messages) == chan' = [chan EXCEPT ![side] = Sent(@, messages)]

Take(side) == chan' = [chan EXCEPT ![side] = Taken(@)]

TakeAndSend(from, side, messages) ==
    chan' = [chan EXCEPT ![from] = Taken(@), ![side] = Sent(@, messages)]

-----------------------------------------------------------------------------
CONSTANTS
    Skills,    \* the plugin's skills
    Announced, \* those that activate registers; the others come and go later
    Calls,     \* invocations of the plugin's skills
    SkillOf    \* the skill that an invocation is for

ASSUME PluginAssumption ==
    /\ IsFiniteSet(Skills)
    /\ Announced \subseteq Skills
    /\ SkillOf \in [Calls -> Skills]
    /\ Calls \cap {"initialize", "heartbeat", "shutdown", "host"} = {}   \* a call has an id of its own

VARIABLES
    child,     \* "none", "up", "exiting" within 25 ms, or "dead"
    boot,      \* "idle", "activating" or "active"
    skills,    \* the skills Map
    asked,     \* the skills with a register or unregister round-trip under way
    settled,   \* the answered round-trips whose promises have yet to go on
    handling,  \* the calls whose handlers run
    ran        \* history: how often each call's handler was started

runner == <<child, boot, skills, asked, settled, handling, ran>>

InitRunner ==
    /\ child = "none"
    /\ boot = "idle"
    /\ skills = {}
    /\ asked = {}
    /\ settled = {}
    /\ handling = {}
    /\ ran = [c \in Calls |-> 0]

Message(kind, about) == <<[kind |-> kind, about |-> about]>>

Alive == child \in {"up", "exiting"}

\* No promise of the last chunk is waiting.
Quiet == Alive /\ settled = {}

-----------------------------------------------------------------------------
\* initialize: load the plugin and call activate, which registers its skills; a
\* plugin that does not load answers and ends.
Initialize ==
    /\ boot = "idle"
    /\ \/ /\ boot' = "activating"
          /\ asked' = Announced
          /\ TakeAndSend("host", "child",
                         SetToSeq({[kind |-> "register", about |-> s] : s \in Announced}))
          /\ UNCHANGED child
       \/ /\ TakeAndSend("host", "child", Message("failed", "initialize"))
          /\ child' = "exiting"
          /\ UNCHANGED <<boot, asked>>
    /\ UNCHANGED <<skills, settled, handling, ran>>

\* invokeSkill: only an active plugin's registered skill has a handler to run.
InvokeSkill(c) ==
    IF boot = "active" /\ SkillOf[c] \in skills
    THEN /\ handling' = handling \cup {c}
         /\ ran' = [ran EXCEPT ![c] = @ + 1]
         /\ Take("host")
         /\ UNCHANGED <<child, boot, skills, asked, settled>>
    ELSE /\ TakeAndSend("host", "child", Message("failed", c))
         /\ UNCHANGED runner

\* The host's answer to a round-trip.
HostAnswers(answer, s) ==
    /\ Take("host")
    /\ asked' = asked \ {s}
    /\ settled' = IF s \in asked THEN settled \cup {<<answer, s>>} ELSE settled
    /\ UNCHANGED <<child, boot, skills, handling, ran>>

AcknowledgeShutdown ==
    /\ TakeAndSend("host", "child", Message("answer", "shutdown"))
    /\ child' = "exiting"
    /\ UNCHANGED <<boot, skills, asked, settled, handling, ran>>

AnswerHeartbeat ==
    /\ TakeAndSend("host", "child", Message("answer", "heartbeat"))
    /\ UNCHANGED runner

RunnerReads ==
    /\ Alive
    /\ Arrived("host")
    /\ LET m == Received("host") IN
       \/ m.kind = "initialize" /\ Initialize
       \/ m.kind = "invoke" /\ InvokeSkill(m.about)
       \/ m.kind \in {"granted", "denied", "dropped"} /\ HostAnswers(m.kind, m.about)
       \/ m.kind = "heartbeat" /\ AnswerHeartbeat
       \/ m.kind = "shutdown" /\ AcknowledgeShutdown
    /\ UNCHANGED open

\* The promise of a round-trip goes on: the local Map follows the host; a denial
\* fails activate, or rejects a promise that nobody handles.
GoOn ==
    /\ Alive
    /\ \E answer \in {"granted", "denied", "dropped"}, s \in Skills :
          /\ <<answer, s>> \in settled /\ settled' = settled \ {<<answer, s>>}
          /\ \/ answer = "granted" /\ skills' = skills \cup {s} /\ UNCHANGED <<child, chan>>
             \/ answer = "dropped" /\ skills' = skills \ {s} /\ UNCHANGED <<child, chan>>
             \/ /\ answer = "denied"
                /\ \E m \in {Message("crash", "host")}
                          \cup (IF boot = "activating" THEN {Message("failed", "initialize")}
                                ELSE {}) :
                      Send("child", m)
                /\ child' = "exiting"
                /\ UNCHANGED skills
    /\ UNCHANGED <<boot, asked, handling, ran, open>>

\* Mutant: initialize is answered as soon as activate has returned.
ActivateEarly ==
    /\ Quiet
    /\ boot = "activating"
    /\ boot' = "active"
    /\ Send("child", Message("answer", "initialize"))
    /\ UNCHANGED <<child, skills, asked, settled, handling, ran, open>>

\* All of pendingSkillOps have settled, and initialize is answered.
Activate ==
    /\ Quiet
    /\ boot = "activating"
    /\ asked = {}
    /\ boot' = "active"
    /\ Send("child", Message("answer", "initialize"))
    /\ UNCHANGED <<child, skills, asked, settled, handling, ran, open>>

\* The handler returns or throws.
HandlerEnds(c) ==
    /\ Quiet
    /\ c \in handling
    /\ handling' = handling \ {c}
    /\ \E outcome \in {"answer", "failed"} : Send("child", Message(outcome, c))
    /\ UNCHANGED <<child, boot, skills, asked, settled, ran, open>>

\* The plugin registers or unregisters a skill from a timer or a handler.
LateSkill(s) ==
    /\ Quiet
    /\ child = "up"
    /\ boot = "active"
    /\ s \notin Announced \cup asked
    /\ asked' = asked \cup {s}
    /\ Send("child", Message(IF s \in skills THEN "unregister" ELSE "register", s))
    /\ UNCHANGED <<child, boot, skills, settled, handling, ran, open>>

\* sendToHost gives up on a round-trip after ten seconds.
GiveUp(s) ==
    /\ Quiet
    /\ s \in asked
    /\ asked' = asked \ {s}
    /\ settled' = {<<"denied", s>>}
    /\ UNCHANGED <<child, boot, skills, handling, ran, chan, open>>

\* uncaughtException, unhandledRejection: tell the host and end.
Uncaught ==
    /\ Quiet
    /\ child = "up"
    /\ child' = "exiting"
    /\ Send("child", Message("crash", "host"))
    /\ UNCHANGED <<boot, skills, asked, settled, handling, ran, open>>

\* The host closed the channel.
StdinEnds ==
    /\ Quiet
    /\ child = "up"
    /\ ~open
    /\ chan["host"].pipe = <<>>
    /\ child' = "exiting"
    /\ UNCHANGED <<boot, skills, asked, settled, handling, ran, chan, open>>

Exit ==
    /\ child = "exiting"
    /\ child' = "dead"
    /\ chan' = [chan EXCEPT !["child"] = Truncated(@)]
    /\ UNCHANGED <<boot, skills, asked, settled, handling, ran, open>>

\* An out-of-memory kill or a signal from outside.
KilledFromOutside ==
    /\ Alive
    /\ child' = "dead"
    /\ chan' = [chan EXCEPT !["child"] = Truncated(@)]
    /\ UNCHANGED <<boot, skills, asked, settled, handling, ran, open>>

RunnerStep ==
    \/ RunnerReads
    \/ GoOn
    \/ Activate
    \/ \E c \in Calls : HandlerEnds(c)
    \/ \E s \in Skills : LateSkill(s) \/ GiveUp(s)
    \/ Uncaught
    \/ StdinEnds
    \/ Exit
    \/ KilledFromOutside

TypeOKRunner ==
    /\ child \in {"none", "up", "exiting", "dead"}
    /\ boot \in {"idle", "activating", "active"}
    /\ skills \subseteq Skills
    /\ asked \subseteq Skills
    /\ settled \subseteq {"granted", "denied", "dropped"} \X Skills
    /\ handling \subseteq Calls
    /\ ran \in [Calls -> Nat]

=============================================================================
