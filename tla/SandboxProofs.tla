---------------------------- MODULE SandboxProofs ----------------------------
(* For any plugin and any number of calls.  A stopped sandbox stays stopped    *)
(* and serves nothing, whatever frames and promises were under way.  While no  *)
(* stream reports that it is full, a call runs at most once in the child, and  *)
(* one that the broker was told has succeeded has run; the run sandbox_resend  *)
(* shows that a full stream makes flushWrites write a frame twice.  Whether or *)
(* not the streams fill, a call of a skill that activate registers finds it.   *)
EXTENDS SandboxedPluginAdapter, SequenceTheorems, FiniteSetTheorems, TLAPS

\* A start that is to go on belongs to a sandbox that nobody has asked to shut
\* down, and what has stopped awaits nothing.
LifeInv ==
    /\ state = "stopped" => registered = {} /\ pending = {} /\ "start" \notin jobs
    /\ "start" \in jobs => "initialize" \notin pending /\ "shutdown" \notin pending \cup jobs
    /\ "initialize" \in pending => state = "spawning"
    /\ state = "spawning" => "shutdown" \notin pending \cup jobs

LEMMA CrashLives ==
    ASSUME LifeInv, NEW done, NEW rest, KillAndCrash(done, rest)
    PROVE  LifeInv' /\ (state = "stopped" => state' = "stopped" /\ registered' = {})
  BY DEF KillAndCrash, Over, CleanUp, LifeInv

LEMMA HostLives ==
    ASSUME LifeInv, HostStep
    PROVE  LifeInv' /\ (state = "stopped" => state' = "stopped" /\ registered' = {})
  <1>1. CASE Start
    BY <1>1 DEF Start, Idle, LifeInv
  <1>2. CASE HostReads
    <2> DEFINE m == Received("child")
    <2>1. CASE state = "stopped"
      BY <1>2, <2>1 DEF HostReads, host, LifeInv
    <2>2. CASE state # "stopped" /\ Response(m.about, m.kind)
      <3>1. PICK r : r = m.about
        OBVIOUS
      <3>2. UNCHANGED <<state, registered>> /\ pending' = pending \ {r}
        BY <2>2, <3>1 DEF Response
      <3>3. \/ jobs' = jobs
            \/ r \in pending /\ r = "initialize" /\ jobs' \in {jobs \cup {"start"}, jobs \cup {"startFails"}}
            \/ r \in pending /\ r = "shutdown" /\ jobs' = jobs \cup {"shutdown"}
        BY <2>2, <3>1 DEF Response, Resumed
      <3>. QED BY <2>2, <3>2, <3>3 DEF LifeInv
    <2>3. CASE state # "stopped" /\ (RegisterSkill(m.about) \/ UnregisterSkill(m.about))
      BY <2>3 DEF RegisterSkill, UnregisterSkill, LifeInv
    <2>4. CASE KillAndCrash({}, Taken(chan["child"]))
      BY <2>4, CrashLives
    <2>. QED BY <1>2, <2>1, <2>2, <2>3, <2>4 DEF HostReads
  <1>3. CASE Started
    BY <1>3 DEF Started, LifeInv
  <1>4. CASE StartFails
    BY <1>4, CrashLives DEF StartFails
  <1>5. CASE \E r \in Requests : RequestTimesOut(r)
    BY <1>5, CrashLives DEF RequestTimesOut
  <1>6. CASE Ping
    <2>1. CASE open
      BY <1>6, <2>1 DEF Ping, Idle, LifeInv
    <2>2. CASE ~open
      BY <1>6, <2>2, CrashLives DEF Ping
    <2>. QED BY <2>1, <2>2
  <1>7. CASE \E c \in Calls : Capture(c) \/ Invoke(c) \/ CallTimesOut(c)
    <2>1. PICK c \in Calls : Capture(c) \/ Invoke(c) \/ CallTimesOut(c)
      BY <1>7
    <2>2. CASE Capture(c)
      BY <2>2 DEF Capture, LifeInv
    <2>3. CASE Invoke(c)
      BY <2>3, PluginAssumption DEF Invoke, Idle, LifeInv
    <2>4. CASE CallTimesOut(c)
      BY <2>4 DEF CallTimesOut, Idle, LifeInv
    <2>. QED BY <2>1, <2>2, <2>3, <2>4
  <1>8. CASE Shutdown
    BY <1>8 DEF Shutdown, Idle, CleanUp, LifeInv
  <1>9. CASE ShutdownGoesOn
    BY <1>9 DEF ShutdownGoesOn, Idle, LifeInv
  <1>10. CASE ShutdownEnds
    BY <1>10 DEF ShutdownEnds, LifeInv
  <1>11. CASE Kill
    BY <1>11 DEF Kill, Idle, CleanUp, LifeInv
  <1>12. CASE ChannelFails
    BY <1>12, CrashLives DEF ChannelFails
  <1>. QED
    BY <1>1, <1>2, <1>3, <1>4, <1>5, <1>6, <1>7, <1>8, <1>9, <1>10, <1>11, <1>12 DEF HostStep

\* A stopped sandbox serves nothing any more, and nothing brings it back: start's
\* continuation sets the state whatever the rest of its chunk has done, but no
\* shutdown is under way then.
THEOREM StoppedForGood == Spec => StoppedIsFinal
  <1>1. Init => LifeInv
    BY DEF Init, InitHost, LifeInv
  <1>2. LifeInv /\ [Next]_vars => LifeInv' /\ (state = "stopped" => state' = "stopped" /\ registered' = {})
    <2> SUFFICES ASSUME LifeInv, [Next]_vars
                 PROVE  LifeInv' /\ (state = "stopped" => state' = "stopped" /\ registered' = {})
      OBVIOUS
    <2>1. CASE HostStep
      BY <2>1, HostLives
    <2>2. CASE UNCHANGED host
      BY <2>2 DEF host, LifeInv
    <2>. QED BY <2>1, <2>2 DEF Next, vars
  <1>3. LifeInv /\ [Next]_vars => [state = "stopped" => state' = "stopped" /\ registered' = {}]_vars
    BY <1>2
  <1>. QED
    BY <1>1, <1>2, <1>3, PTL DEF Spec, StoppedIsFinal


-----------------------------------------------------------------------------
(* How often a call runs *)

Kinds == {"initialize", "invoke", "heartbeat", "shutdown", "granted", "denied", "dropped",
          "answer", "failed", "register", "unregister", "crash"}

Frame == [kind : Kinds, about : Calls \cup Skills \cup {"initialize", "heartbeat", "shutdown", "host"}]

\* No stream has reported that it is full: what is sent is written once, at once.
NeverFull == \A side \in Sides : ~chan[side].flushing

Channel == [queue : {<<>>}, flushing : {FALSE}, pipe : Seq(Frame)]

\* No two frames ask for the same call, and a call that is asked for has been sent
\* and has not run.
Asks(q, r, cs) ==
    /\ \A i, j \in 1..Len(q) : q[i].kind = "invoke" /\ q[j].kind = "invoke" /\ q[i].about = q[j].about => i = j
    /\ \A i \in 1..Len(q) : q[i].kind = "invoke" =>
          q[i].about \in Calls /\ r[q[i].about] = 0 /\ cs[q[i].about] \notin {"idle", "captured"}

\* A call that is answered has run.
Answers(q, r) ==
    \A i \in 1..Len(q) : q[i].kind = "answer" /\ q[i].about \in Calls => r[q[i].about] = 1

\* What the two sides know of a call.
Books(r, cs, hs, ps) ==
    /\ r \in [Calls -> 0..1]
    /\ cs \in [Calls -> Outcomes \cup {"idle", "captured", "sent"}]
    /\ \A c \in Calls : /\ cs[c] \in {"idle", "captured"} => r[c] = 0
                        /\ c \in hs \/ cs[c] = "ok" => r[c] = 1
                        /\ c \in ps => cs[c] = "sent"

OnceInv ==
    /\ chan \in [Sides -> Channel]
    /\ Books(ran, calls, handling, pending)
    /\ Asks(chan["host"].pipe, ran, calls)
    /\ Answers(chan["child"].pipe, ran)


\* A channel that never fills: send adds to the pipe, reading takes from it, and a
\* process that ends leaves a beginning of it.
LEMMA SentFacts ==
    ASSUME NEW ch \in Channel, NEW ms \in Seq(Frame), ~Sent(ch, ms).flushing
    PROVE  Sent(ch, ms) \in Channel /\ Sent(ch, ms).pipe = ch.pipe \o ms
  <1>1. PICK queued : queued = [ch EXCEPT !.queue = @ \o ms]
    OBVIOUS
  <1>2. ch.queue = <<>> /\ ch.flushing = FALSE /\ ch.pipe \in Seq(Frame) /\ Len(ch.pipe) \in Nat
    BY LenProperties DEF Channel
  <1>3. <<>> \o ms = ms
    BY ConcatEmptySeq
  <1>4. queued.queue = ms /\ queued.pipe = ch.pipe
    BY <1>1, <1>2, <1>3 DEF Channel
  <1>5. Sent(ch, ms) = Flush(queued)
    BY <1>1, <1>2 DEF Sent
  <1>6. Flush(queued) = [queue |-> <<>>, flushing |-> FALSE, pipe |-> ch.pipe \o ms]
    BY <1>4, <1>5 DEF Flush
  <1>7. ch.pipe \o ms \in Seq(Frame)
    BY <1>2, ConcatProperties
  <1>. QED
    BY <1>5, <1>6, <1>7 DEF Channel

LEMMA TakenFacts ==
    ASSUME NEW ch \in Channel, ch.pipe # <<>>
    PROVE  Taken(ch) \in Channel /\ Taken(ch).pipe = Tail(ch.pipe)
  <1>1. ch.flushing = FALSE /\ Tail(ch.pipe) \in Seq(Frame)
    BY HeadTailProperties DEF Channel
  <1>. QED
    BY <1>1 DEF Taken, Channel

LEMMA TruncatedFacts ==
    ASSUME NEW ch \in Channel
    PROVE  /\ Truncated(ch) \in Channel
           /\ \A i \in 1..Len(Truncated(ch).pipe) :
                 i \in 1..Len(ch.pipe) /\ Truncated(ch).pipe[i] = ch.pipe[i]
  <1>1. ch.pipe \in Seq(Frame) /\ Len(ch.pipe) \in Nat
    BY LenProperties DEF Channel
  <1>2. CASE Len(ch.pipe) > MaxPipe
    <2>1. PICK cut : cut = SubSeq(ch.pipe, 1, MaxPipe)
      OBVIOUS
    <2>2. \A i \in 1..MaxPipe : i \in 1..Len(ch.pipe) /\ ch.pipe[i] \in Frame
      BY <1>1, <1>2, StreamAssumption, ElementOfSeq
    <2>3. /\ cut \in Seq(Frame) /\ Len(cut) = IF 1 <= MaxPipe THEN MaxPipe - 1 + 1 ELSE 0
          /\ \A i \in 1..MaxPipe - 1 + 1 : cut[i] = ch.pipe[1 + i - 1]
      BY <2>1, <2>2, StreamAssumption, SubSeqProperties, 1 \in Int, MaxPipe \in Int
    <2>4. Len(cut) = MaxPipe /\ \A i \in 1..MaxPipe : cut[i] = ch.pipe[i]
      BY <2>3, StreamAssumption
    <2>5. PICK k : k = [Empty EXCEPT !.pipe = cut]
      OBVIOUS
    <2>6. k = [queue |-> <<>>, flushing |-> FALSE, pipe |-> cut]
      BY <2>5 DEF Empty
    <2>7. Truncated(ch) = k
      BY <1>2, <2>1, <2>5 DEF Truncated
    <2>. QED BY <2>2, <2>3, <2>4, <2>6, <2>7 DEF Channel
  <1>3. CASE ~(Len(ch.pipe) > MaxPipe)
    <2>1. PICK k : k = [Empty EXCEPT !.pipe = ch.pipe]
      OBVIOUS
    <2>2. k = [queue |-> <<>>, flushing |-> FALSE, pipe |-> ch.pipe]
      BY <2>1 DEF Empty
    <2>3. Truncated(ch) = k
      BY <1>3, <2>1 DEF Truncated
    <2>. QED BY <1>1, <2>2, <2>3 DEF Channel
  <1>. QED
    BY <1>2, <1>3

LEMMA Sends ==
    ASSUME chan \in [Sides -> Channel], NEW side \in Sides, NEW ms \in Seq(Frame), Send(side, ms), NeverFull'
    PROVE  /\ chan' \in [Sides -> Channel] /\ chan'[side].pipe = chan[side].pipe \o ms
           /\ \A other \in Sides : other # side => chan'[other] = chan[other]
  <1>1. chan'[side] = Sent(chan[side], ms) /\ \A other \in Sides : other # side => chan'[other] = chan[other]
    BY DEF Send
  <1>2. ~Sent(chan[side], ms).flushing
    BY <1>1 DEF NeverFull
  <1>3. Sent(chan[side], ms) \in Channel /\ Sent(chan[side], ms).pipe = chan[side].pipe \o ms
    BY <1>2, SentFacts
  <1>. QED
    BY <1>1, <1>3 DEF Send

LEMMA Takes ==
    ASSUME chan \in [Sides -> Channel], NEW side \in Sides, Arrived(side), Take(side)
    PROVE  /\ chan' \in [Sides -> Channel] /\ chan'[side].pipe = Tail(chan[side].pipe)
           /\ \A other \in Sides : other # side => chan'[other] = chan[other]
  <1>1. Taken(chan[side]) \in Channel /\ Taken(chan[side]).pipe = Tail(chan[side].pipe)
    BY TakenFacts DEF Arrived
  <1>. QED
    BY <1>1 DEF Take

LEMMA TakesAndSends ==
    ASSUME chan \in [Sides -> Channel], NEW from \in Sides, NEW side \in Sides, from # side,
           NEW ms \in Seq(Frame), Arrived(from), TakeAndSend(from, side, ms), NeverFull'
    PROVE  /\ chan' \in [Sides -> Channel] /\ chan'[from].pipe = Tail(chan[from].pipe)
           /\ chan'[side].pipe = chan[side].pipe \o ms
  <1>1. chan'[from] = Taken(chan[from]) /\ chan'[side] = Sent(chan[side], ms)
    BY DEF TakeAndSend
  <1>2. Taken(chan[from]) \in Channel /\ Taken(chan[from]).pipe = Tail(chan[from].pipe)
    BY TakenFacts DEF Arrived
  <1>3. ~Sent(chan[side], ms).flushing
    BY <1>1 DEF NeverFull
  <1>4. Sent(chan[side], ms) \in Channel /\ Sent(chan[side], ms).pipe = chan[side].pipe \o ms
    BY <1>3, SentFacts
  <1>5. \A s \in Sides : s = from \/ s = side
    BY DEF Sides
  <1>. QED
    BY <1>1, <1>2, <1>4, <1>5 DEF TakeAndSend


\* What a pipe asks and answers, when it is read and when it is added to.
LEMMA AsksTail ==
    ASSUME NEW q \in Seq(Frame), q # <<>>, NEW r, NEW cs, Asks(q, r, cs)
    PROVE  /\ Asks(Tail(q), r, cs)
           /\ q[1].kind = "invoke" => \A i \in 1..Len(Tail(q)) :
                 Tail(q)[i].kind = "invoke" => Tail(q)[i].about # q[1].about
  <1>1. /\ Len(q) \in Nat /\ Len(q) >= 1 /\ Len(Tail(q)) = Len(q) - 1
        /\ \A i \in 1..Len(Tail(q)) : i + 1 \in 1..Len(q) /\ i + 1 # 1 /\ Tail(q)[i] = q[i + 1]
    BY HeadTailProperties, LenProperties
  <1>2. 1 \in 1..Len(q) /\ \A i \in 1..Len(Tail(q)) : i \in Int
    BY <1>1
  <1>3. \A i, j \in Int : i + 1 = j + 1 => i = j
    OBVIOUS
  <1>. QED
    BY <1>1, <1>2, <1>3 DEF Asks

LEMMA AsksNoMore ==
    ASSUME NEW q \in Seq(Frame), NEW ms \in Seq(Frame), NEW r, NEW cs, Asks(q, r, cs),
           \A i \in 1..Len(ms) : ms[i].kind # "invoke"
    PROVE  Asks(q \o ms, r, cs)
  <1>1. /\ Len(q) \in Nat /\ Len(ms) \in Nat /\ Len(q \o ms) = Len(q) + Len(ms)
        /\ \A i \in 1..Len(q) + Len(ms) : (q \o ms)[i] = IF i <= Len(q) THEN q[i] ELSE ms[i - Len(q)]
    BY ConcatProperties, LenProperties
  <1>2. ASSUME NEW i \in 1..Len(q \o ms), (q \o ms)[i].kind = "invoke"
        PROVE  i \in 1..Len(q) /\ (q \o ms)[i] = q[i]
    <2>1. CASE i <= Len(q)
      BY <1>1, <2>1
    <2>2. CASE ~(i <= Len(q))
      <3>1. PICK j \in 1..Len(ms) : j = i - Len(q)
        BY <1>1, <2>2
      <3>. QED BY <1>1, <1>2, <2>2, <3>1
    <2>. QED BY <2>1, <2>2
  <1>. QED
    BY <1>2 DEF Asks

LEMMA AnswersTail ==
    ASSUME NEW q \in Seq(Frame), q # <<>>, NEW r, Answers(q, r)
    PROVE  Answers(Tail(q), r)
  <1>1. /\ Len(q) \in Nat /\ Len(Tail(q)) = Len(q) - 1
        /\ \A i \in 1..Len(Tail(q)) : i + 1 \in 1..Len(q) /\ Tail(q)[i] = q[i + 1]
    BY HeadTailProperties, LenProperties
  <1>. QED
    BY <1>1 DEF Answers

LEMMA AnswersMore ==
    ASSUME NEW q \in Seq(Frame), NEW ms \in Seq(Frame), NEW r, Answers(q, r), Answers(ms, r)
    PROVE  Answers(q \o ms, r)
  <1>1. /\ Len(q) \in Nat /\ Len(ms) \in Nat /\ Len(q \o ms) = Len(q) + Len(ms)
        /\ \A i \in 1..Len(q) + Len(ms) : (q \o ms)[i] = IF i <= Len(q) THEN q[i] ELSE ms[i - Len(q)]
    BY ConcatProperties, LenProperties
  <1>2. ASSUME NEW i \in 1..Len(q \o ms)
        PROVE  \/ i \in 1..Len(q) /\ (q \o ms)[i] = q[i]
               \/ \E j \in 1..Len(ms) : (q \o ms)[i] = ms[j]
    <2>1. CASE i <= Len(q)
      BY <1>1, <2>1
    <2>2. CASE ~(i <= Len(q))
      <3>1. PICK j \in 1..Len(ms) : j = i - Len(q)
        BY <1>1, <2>2
      <3>. QED BY <1>1, <2>2, <3>1
    <2>. QED BY <2>1, <2>2
  <1>. QED
    BY <1>2 DEF Answers

\* A message is one frame.
LEMMA MessageFacts ==
    ASSUME NEW kind \in Kinds, NEW about, [kind |-> kind, about |-> about] \in Frame
    PROVE  /\ Message(kind, about) \in Seq(Frame) /\ Len(Message(kind, about)) = 1
           /\ Message(kind, about)[1].kind = kind /\ Message(kind, about)[1].about = about
  BY DEF Message

\* The skills that activate announces are as many requests to register them.
LEMMA AnnouncementFacts ==
    ASSUME NEW S, S = {[kind |-> "register", about |-> s] : s \in Announced}
    PROVE  SetToSeq(S) \in Seq(Frame) /\ \A i \in 1..Len(SetToSeq(S)) : SetToSeq(S)[i].kind = "register"
  <1>1. IsFiniteSet(Announced) /\ Announced \subseteq Skills
    BY PluginAssumption, FS_Subset
  <1>2. IsFiniteSet(S)
    <2>1. PICK f : f = [s \in Announced |-> [kind |-> "register", about |-> s]]
      OBVIOUS
    <2>2. f \in Surjection(Announced, S)
      BY <2>1 DEF Surjection
    <2>. QED BY <1>1, <2>2, FS_Surjection
  <1>3. Cardinality(S) \in Nat /\ ExistsBijection(1..Cardinality(S), S)
    BY <1>2, FS_CardinalityType
  <1>4. \E f \in [1..Cardinality(S) -> S] : IsInjective(f)
    BY <1>3 DEF ExistsBijection, Bijection, Injection, IsInjective
  <1>5. SetToSeq(S) \in [1..Cardinality(S) -> S]
    BY <1>4 DEF SetToSeq
  <1>6. S \subseteq Frame /\ \A m \in S : m.kind = "register"
    BY <1>1 DEF Frame, Kinds
  <1>7. SetToSeq(S) \in Seq(S)
    <2>1. PICK n \in Nat : SetToSeq(S) \in [1..n -> S]
      BY <1>3, <1>5
    <2>2. ASSUME NEW T, NEW k \in Nat, NEW g \in [1..k -> T] PROVE g \in Seq(T)
      BY <2>2, SeqDef
    <2>. QED BY <2>1, <2>2
  <1>8. SetToSeq(S) \in Seq(Frame)
    BY <1>6, <1>7, SeqMonotonic
  <1>9. \A i \in 1..Len(SetToSeq(S)) : SetToSeq(S)[i] \in S
    BY <1>7, ElementOfSeq
  <1>. QED
    BY <1>6, <1>8, <1>9

\* A step that starts no handler keeps the books when the pipes still agree with
\* them, a call that had been sent stays so or has its outcome, and only a call that
\* has run is told to have succeeded.
LEMMA Later ==
    ASSUME OnceInv, ran' = ran, handling' \subseteq handling, chan' \in [Sides -> Channel],
           Asks(chan'["host"].pipe, ran, calls), Answers(chan'["child"].pipe, ran),
           calls' \in [Calls -> Outcomes \cup {"idle", "captured", "sent"}],
           \A c \in Calls : /\ calls'[c] \in {"idle", "captured"} => calls[c] \in {"idle", "captured"}
                            /\ calls'[c] = "ok" => ran[c] = 1
                            /\ c \in pending' => calls'[c] = "sent"
    PROVE  OnceInv'
  <1>1. Books(ran, calls', handling', pending')
    BY DEF OnceInv, Books
  <1>2. Asks(chan'["host"].pipe, ran, calls')
    BY DEF Asks
  <1>. QED
    BY <1>1, <1>2 DEF OnceInv

\* Nothing but the channel changes.
LEMMA OnlyFrames ==
    ASSUME OnceInv, UNCHANGED <<ran, calls, pending>>, handling' \subseteq handling, chan' \in [Sides -> Channel],
           Asks(chan'["host"].pipe, ran, calls), Answers(chan'["child"].pipe, ran)
    PROVE  OnceInv'
  <1>1. /\ calls' \in [Calls -> Outcomes \cup {"idle", "captured", "sent"}]
        /\ \A c \in Calls : /\ calls'[c] \in {"idle", "captured"} => calls[c] \in {"idle", "captured"}
                            /\ calls'[c] = "ok" => ran[c] = 1
                            /\ c \in pending' => calls'[c] = "sent"
    BY DEF OnceInv, Books
  <1>. QED
    BY <1>1, Later


\* The host's pipe is read and the child may write, or the other way round.
LEMMA OnlyReads ==
    ASSUME OnceInv, NEW side \in Sides, Arrived(side), Take(side), UNCHANGED <<ran, calls, pending, handling>>
    PROVE  OnceInv'
  <1>1. /\ chan' \in [Sides -> Channel] /\ chan'[side].pipe = Tail(chan[side].pipe)
        /\ \A other \in Sides : other # side => chan'[other] = chan[other]
    BY Takes DEF OnceInv
  <1>2. chan[side].pipe \in Seq(Frame) /\ chan[side].pipe # <<>>
    BY DEF OnceInv, Channel, Arrived
  <1>3. Asks(chan'["host"].pipe, ran, calls) /\ Answers(chan'["child"].pipe, ran)
    <2>1. CASE side = "host"
      BY <1>1, <1>2, <2>1, AsksTail DEF OnceInv, Sides
    <2>2. CASE side = "child"
      BY <1>1, <1>2, <2>2, AnswersTail DEF OnceInv, Sides
    <2>. QED BY <2>1, <2>2 DEF Sides
  <1>. QED
    BY <1>1, <1>3, OnlyFrames

LEMMA ChildSends ==
    ASSUME OnceInv, NeverFull', NEW ms \in Seq(Frame), Answers(ms, ran), Send("child", ms),
           UNCHANGED <<ran, calls, pending>>, handling' \subseteq handling
    PROVE  OnceInv'
  <1>1. /\ chan' \in [Sides -> Channel] /\ chan'["child"].pipe = chan["child"].pipe \o ms
        /\ chan'["host"] = chan["host"]
    BY Sends DEF OnceInv, Sides
  <1>2. Answers(chan["child"].pipe \o ms, ran)
    BY AnswersMore DEF OnceInv, Channel, Sides
  <1>. QED
    BY <1>1, <1>2, OnlyFrames DEF OnceInv

LEMMA ChildAnswers ==
    ASSUME OnceInv, NeverFull', NEW ms \in Seq(Frame), Answers(ms, ran), Arrived("host"),
           TakeAndSend("host", "child", ms), UNCHANGED <<ran, calls, pending, handling>>
    PROVE  OnceInv'
  <1>1. /\ chan' \in [Sides -> Channel] /\ chan'["host"].pipe = Tail(chan["host"].pipe)
        /\ chan'["child"].pipe = chan["child"].pipe \o ms
    BY TakesAndSends DEF OnceInv, Sides
  <1>2. Answers(chan["child"].pipe \o ms, ran)
    BY AnswersMore DEF OnceInv, Channel, Sides
  <1>3. Asks(Tail(chan["host"].pipe), ran, calls)
    BY AsksTail DEF OnceInv, Channel, Sides, Arrived
  <1>. QED
    BY <1>1, <1>2, <1>3, OnlyFrames

\* What is said of anything but a call that has run answers for no call.
LEMMA SaysNothing ==
    ASSUME NEW kind \in Kinds, NEW about \in Calls \cup Skills \cup {"initialize", "heartbeat", "shutdown", "host"},
           NEW r, kind = "answer" /\ about \in Calls => r[about] = 1
    PROVE  /\ Message(kind, about) \in Seq(Frame) /\ Answers(Message(kind, about), r)
           /\ kind # "invoke" => \A i \in 1..Len(Message(kind, about)) : Message(kind, about)[i].kind # "invoke"
  <1>1. /\ Message(kind, about) \in Seq(Frame) /\ Len(Message(kind, about)) = 1
        /\ Message(kind, about)[1].kind = kind /\ Message(kind, about)[1].about = about
    BY MessageFacts DEF Frame
  <1>. QED
    BY <1>1 DEF Answers

\* The child's process ends, and what its stream buffers is lost.
LEMMA ChildEnds ==
    ASSUME OnceInv, NEW rest \in Channel, Answers(rest.pipe, ran)
    PROVE  Truncated(rest) \in Channel /\ Answers(Truncated(rest).pipe, ran)
  BY TruncatedFacts DEF Answers

\* The first frame that a pipe holds.
LEMMA HeadFacts ==
    ASSUME OnceInv, NEW side \in Sides, Arrived(side)
    PROVE  /\ Received(side) \in Frame /\ Received(side) = chan[side].pipe[1]
           /\ 1 \in 1..Len(chan[side].pipe) /\ chan[side].pipe \in Seq(Frame)
  <1>1. chan[side].pipe \in Seq(Frame) /\ chan[side].pipe # <<>>
    BY DEF OnceInv, Channel, Arrived
  <1>. QED
    BY <1>1, HeadTailProperties, LenProperties, ElementOfSeq DEF Received

\* invokeSkill starts the handler of the call at the head of the pipe: no frame that
\* is left asks for it again.
LEMMA InvokesOnce ==
    ASSUME OnceInv, NeverFull', Arrived("host"), Received("host").kind = "invoke",
           InvokeSkill(Received("host").about), UNCHANGED host
    PROVE  OnceInv'
  <1>1. PICK c : c = Received("host").about
    OBVIOUS
  <1>2. /\ Received("host") = chan["host"].pipe[1] /\ 1 \in 1..Len(chan["host"].pipe)
        /\ chan["host"].pipe \in Seq(Frame) /\ chan["host"].pipe # <<>>
    BY HeadFacts DEF Sides, Arrived
  <1>3. c \in Calls /\ ran[c] = 0 /\ calls[c] \notin {"idle", "captured"}
    BY <1>1, <1>2 DEF OnceInv, Asks
  <1>4. CASE boot = "active" /\ SkillOf[c] \in skills
    <2>1. handling' = handling \cup {c} /\ ran' = [ran EXCEPT ![c] = @ + 1] /\ Take("host")
      BY <1>1, <1>4 DEF InvokeSkill
    <2>2. /\ chan' \in [Sides -> Channel] /\ chan'["host"].pipe = Tail(chan["host"].pipe)
          /\ chan'["child"] = chan["child"]
      BY <2>1, Takes DEF OnceInv, Sides
    <2>3. /\ Asks(Tail(chan["host"].pipe), ran, calls)
          /\ \A i \in 1..Len(Tail(chan["host"].pipe)) :
                Tail(chan["host"].pipe)[i].kind = "invoke" => Tail(chan["host"].pipe)[i].about # c
      BY <1>1, <1>2, AsksTail DEF OnceInv
    <2>4. ran \in [Calls -> 0..1] /\ ran' \in [Calls -> 0..1] /\ ran'[c] = 1 /\ \A d \in Calls : d # c => ran'[d] = ran[d]
      BY <1>3, <2>1 DEF OnceInv, Books
    <2>5. Asks(chan'["host"].pipe, ran', calls)
      BY <2>2, <2>3, <2>4 DEF Asks
    <2>6. Answers(chan'["child"].pipe, ran')
      BY <2>2, <2>4, <1>3 DEF OnceInv, Answers
    <2>7. calls' = calls /\ pending' = pending
      BY DEF host
    <2>8. Books(ran', calls, handling', pending)
      BY <1>3, <2>1, <2>4 DEF OnceInv, Books
    <2>. QED BY <2>2, <2>5, <2>6, <2>7, <2>8 DEF OnceInv
  <1>5. CASE ~(boot = "active" /\ SkillOf[c] \in skills)
    <2>1. TakeAndSend("host", "child", Message("failed", c)) /\ UNCHANGED <<ran, handling, calls, pending>>
      BY <1>1, <1>5 DEF InvokeSkill, runner, host
    <2>2. Message("failed", c) \in Seq(Frame) /\ Answers(Message("failed", c), ran)
      BY <1>3, SaysNothing DEF Kinds
    <2>. QED BY <2>1, <2>2, ChildAnswers
  <1>. QED
    BY <1>4, <1>5


LEMMA RunnerRunsOnce ==
    ASSUME OnceInv, NeverFull', RunnerStep, UNCHANGED host
    PROVE  OnceInv'
  <1>. DEFINE Abouts == Calls \cup Skills \cup {"initialize", "heartbeat", "shutdown", "host"}
  <1>1. UNCHANGED <<calls, pending>>
    BY DEF host
  <1>2. CASE RunnerReads
    <2> DEFINE m == Received("host")
    <2>1. Arrived("host") /\ m \in Frame
      BY <1>2, HeadFacts DEF RunnerReads, Sides
    <2>2. CASE m.kind = "initialize" /\ Initialize
      <3>1. PICK S : S = {[kind |-> "register", about |-> s] : s \in Announced}
        OBVIOUS
      <3>2. CASE TakeAndSend("host", "child", SetToSeq(S))
        <4>1. SetToSeq(S) \in Seq(Frame) /\ Answers(SetToSeq(S), ran)
          BY <3>1, AnnouncementFacts DEF Answers
        <4>2. UNCHANGED <<ran, handling>>
          BY <2>2 DEF Initialize
        <4>. QED BY <1>1, <2>1, <3>2, <4>1, <4>2, ChildAnswers
      <3>3. CASE TakeAndSend("host", "child", Message("failed", "initialize"))
        <4>1. /\ Message("failed", "initialize") \in Seq(Frame)
              /\ Answers(Message("failed", "initialize"), ran)
          BY SaysNothing DEF Kinds
        <4>2. UNCHANGED <<ran, handling>>
          BY <2>2 DEF Initialize
        <4>. QED BY <1>1, <2>1, <3>3, <4>1, <4>2, ChildAnswers
      <3>. QED BY <2>2, <3>1, <3>2, <3>3 DEF Initialize
    <2>3. CASE m.kind = "invoke" /\ InvokeSkill(m.about)
      BY <2>1, <2>3, InvokesOnce
    <2>4. CASE HostAnswers(m.kind, m.about)
      BY <1>1, <2>1, <2>4, OnlyReads DEF HostAnswers, Sides
    <2>5. CASE AnswerHeartbeat
      <3>1. /\ Message("answer", "heartbeat") \in Seq(Frame)
            /\ Answers(Message("answer", "heartbeat"), ran)
        BY SaysNothing, PluginAssumption DEF Kinds
      <3>. QED BY <1>1, <2>1, <2>5, <3>1, ChildAnswers DEF AnswerHeartbeat, runner
    <2>6. CASE AcknowledgeShutdown
      <3>1. /\ Message("answer", "shutdown") \in Seq(Frame)
            /\ Answers(Message("answer", "shutdown"), ran)
        BY SaysNothing, PluginAssumption DEF Kinds
      <3>. QED BY <1>1, <2>1, <2>6, <3>1, ChildAnswers DEF AcknowledgeShutdown
    <2>. QED BY <1>2, <2>2, <2>3, <2>4, <2>5, <2>6 DEF RunnerReads
  <1>3. ASSUME UNCHANGED <<ran, handling, chan>> PROVE OnceInv'
    BY <1>1, <1>3, OnlyFrames DEF OnceInv
  <1>4. ASSUME NEW kind \in {"crash", "failed", "register", "unregister", "answer"}, NEW about \in Abouts,
               kind = "answer" /\ about \in Calls => ran[about] = 1,
               Send("child", Message(kind, about)), UNCHANGED ran, handling' \subseteq handling
        PROVE  OnceInv'
    <2>1. kind \in Kinds
      BY DEF Kinds
    <2>2. Message(kind, about) \in Seq(Frame) /\ Answers(Message(kind, about), ran)
      BY <1>4, <2>1, SaysNothing
    <2>. QED BY <1>1, <1>4, <2>2, ChildSends
  <1>5. CASE GoOn
    <2>1. UNCHANGED <<ran, handling>>
      BY <1>5 DEF GoOn
    <2>2. CASE UNCHANGED chan
      BY <1>3, <2>1, <2>2
    <2>3. CASE Send("child", Message("crash", "host"))
      BY <1>4, <2>1, <2>3
    <2>4. CASE Send("child", Message("failed", "initialize"))
      BY <1>4, <2>1, <2>4
    <2>. QED BY <1>5, <2>2, <2>3, <2>4 DEF GoOn
  <1>6. CASE Activate
    BY <1>4, <1>6, PluginAssumption DEF Activate
  <1>7. CASE \E c \in Calls : HandlerEnds(c)
    <2>1. PICK c \in Calls : HandlerEnds(c)
      BY <1>7
    <2>2. c \in handling /\ handling' = handling \ {c} /\ ran' = ran
      BY <2>1 DEF HandlerEnds
    <2>3. ran[c] = 1
      BY <2>2 DEF OnceInv, Books
    <2>4. PICK outcome \in {"answer", "failed"} : Send("child", Message(outcome, c))
      BY <2>1 DEF HandlerEnds
    <2>. QED BY <1>4, <2>2, <2>3, <2>4
  <1>8. CASE \E s \in Skills : LateSkill(s) \/ GiveUp(s)
    <2>1. PICK s \in Skills : LateSkill(s) \/ GiveUp(s)
      BY <1>8
    <2>2. CASE LateSkill(s)
      <3>1. PICK kind \in {"register", "unregister"} : Send("child", Message(kind, s))
        BY <2>2 DEF LateSkill
      <3>. QED BY <1>4, <2>2, <3>1 DEF LateSkill
    <2>3. CASE GiveUp(s)
      BY <1>3, <2>3 DEF GiveUp
    <2>. QED BY <2>1, <2>2, <2>3
  <1>9. CASE Uncaught
    BY <1>4, <1>9 DEF Uncaught
  <1>10. CASE StdinEnds
    BY <1>3, <1>10 DEF StdinEnds
  <1>11. CASE Exit \/ KilledFromOutside
    <2>1. chan' = [chan EXCEPT !["child"] = Truncated(@)] /\ UNCHANGED <<ran, handling>>
      BY <1>11 DEF Exit, KilledFromOutside
    <2>2. Truncated(chan["child"]) \in Channel /\ Answers(Truncated(chan["child"]).pipe, ran)
      BY ChildEnds DEF OnceInv, Sides
    <2>. QED BY <1>1, <2>1, <2>2, OnlyFrames DEF OnceInv, Sides
  <1>. QED
    BY <1>2, <1>5, <1>6, <1>7, <1>8, <1>9, <1>10, <1>11 DEF RunnerStep

\* SIGKILL, and the promises that are rejected with it.
LEMMA CrashRunsOnce ==
    ASSUME OnceInv, NEW done, NEW rest \in Channel, Answers(rest.pipe, ran), KillAndCrash(done, rest)
    PROVE  OnceInv'
  <1>1. Truncated(rest) \in Channel /\ Answers(Truncated(rest).pipe, ran)
    BY ChildEnds
  <1>2. UNCHANGED <<ran, handling>> /\ \/ chan' = [chan EXCEPT !["child"] = rest]
                                       \/ chan' = [chan EXCEPT !["child"] = Truncated(rest)]
    BY DEF KillAndCrash, KillChild, runner
  <1>3. chan' \in [Sides -> Channel] /\ chan'["host"] = chan["host"] /\ Answers(chan'["child"].pipe, ran)
    BY <1>1, <1>2 DEF OnceInv, Sides
  <1>4. CASE Over
    BY <1>2, <1>3, <1>4, OnlyFrames DEF KillAndCrash, OnceInv
  <1>5. CASE ~Over
    <2>1. pending' = {} /\ calls' = [c \in Calls |-> IF c \in pending THEN "crash" ELSE calls[c]]
      BY <1>5 DEF KillAndCrash, CleanUp
    <2>2. /\ calls' \in [Calls -> Outcomes \cup {"idle", "captured", "sent"}]
          /\ \A c \in Calls : /\ calls'[c] \in {"idle", "captured"} => calls[c] \in {"idle", "captured"}
                              /\ calls'[c] = "ok" => ran[c] = 1
                              /\ c \in pending' => calls'[c] = "sent"
      BY <2>1 DEF OnceInv, Books, Outcomes
    <2>. QED BY <1>2, <1>3, <2>2, Later DEF OnceInv
  <1>. QED
    BY <1>4, <1>5


\* The host asks for something that is no call.
LEMMA HostSends ==
    ASSUME OnceInv, NeverFull', NEW kind \in {"initialize", "heartbeat", "shutdown"},
           Send("host", Message(kind, "host")), UNCHANGED <<ran, handling, calls>>,
           Calls \cap pending' \subseteq pending
    PROVE  OnceInv'
  <1>1. /\ Message(kind, "host") \in Seq(Frame)
        /\ \A i \in 1..Len(Message(kind, "host")) : Message(kind, "host")[i].kind # "invoke"
    BY SaysNothing DEF Kinds
  <1>2. /\ chan' \in [Sides -> Channel] /\ chan'["host"].pipe = chan["host"].pipe \o Message(kind, "host")
        /\ chan'["child"] = chan["child"]
    BY <1>1, Sends DEF OnceInv, Sides
  <1>3. Asks(chan'["host"].pipe, ran, calls)
    BY <1>1, <1>2, AsksNoMore DEF OnceInv, Channel, Sides
  <1>4. /\ calls' \in [Calls -> Outcomes \cup {"idle", "captured", "sent"}]
        /\ \A c \in Calls : /\ calls'[c] \in {"idle", "captured"} => calls[c] \in {"idle", "captured"}
                            /\ calls'[c] = "ok" => ran[c] = 1
                            /\ c \in pending' => calls'[c] = "sent"
    BY DEF OnceInv, Books
  <1>. QED
    BY <1>2, <1>3, <1>4, Later DEF OnceInv

\* The host answers a round-trip of a skill.
LEMMA HostAnswersSkill ==
    ASSUME OnceInv, NeverFull', NEW kind \in {"granted", "denied", "dropped"}, NEW about,
           Arrived("child"), Received("child").about = about,
           TakeAndSend("child", "host", Message(kind, about)), UNCHANGED <<ran, handling, calls, pending>>
    PROVE  OnceInv'
  <1>1. Received("child") \in Frame /\ chan["child"].pipe \in Seq(Frame) /\ chan["child"].pipe # <<>>
    BY HeadFacts DEF Sides, Arrived
  <1>2. /\ Message(kind, about) \in Seq(Frame)
        /\ \A i \in 1..Len(Message(kind, about)) : Message(kind, about)[i].kind # "invoke"
    BY <1>1, SaysNothing DEF Kinds, Frame
  <1>3. /\ chan' \in [Sides -> Channel] /\ chan'["child"].pipe = Tail(chan["child"].pipe)
        /\ chan'["host"].pipe = chan["host"].pipe \o Message(kind, about)
    BY <1>2, TakesAndSends DEF OnceInv, Sides
  <1>4. Asks(chan'["host"].pipe, ran, calls)
    BY <1>2, <1>3, AsksNoMore DEF OnceInv, Channel, Sides
  <1>5. Answers(chan'["child"].pipe, ran)
    BY <1>1, <1>3, AnswersTail DEF OnceInv
  <1>. QED
    BY <1>3, <1>4, <1>5, OnlyFrames

\* The broker is told what the child answered: an answer for a call that has run.
LEMMA ResponseIsTrue ==
    ASSUME OnceInv, Arrived("child"), Received("child").kind \in {"answer", "failed"},
           Response(Received("child").about, Received("child").kind), UNCHANGED runner
    PROVE  OnceInv'
  <1>1. PICK r : r = Received("child").about
    OBVIOUS
  <1>2. PICK answer : answer = Received("child").kind
    OBVIOUS
  <1>3. /\ Received("child") = chan["child"].pipe[1] /\ 1 \in 1..Len(chan["child"].pipe)
        /\ chan["child"].pipe \in Seq(Frame) /\ chan["child"].pipe # <<>>
    BY HeadFacts DEF Sides, Arrived
  <1>4. answer = "answer" /\ r \in Calls => ran[r] = 1
    BY <1>1, <1>2, <1>3 DEF OnceInv, Answers
  <1>5. /\ Take("child") /\ pending' = pending \ {r}
        /\ calls' = [c \in Calls |-> IF c = r /\ r \in pending
                                     THEN IF answer = "answer" THEN "ok" ELSE "error"
                                     ELSE calls[c]]
        /\ UNCHANGED <<ran, handling>>
    BY <1>1, <1>2 DEF Response, runner
  <1>6. /\ chan' \in [Sides -> Channel] /\ chan'["child"].pipe = Tail(chan["child"].pipe)
        /\ chan'["host"] = chan["host"]
    BY <1>5, Takes DEF OnceInv, Sides
  <1>7. Answers(chan'["child"].pipe, ran)
    BY <1>3, <1>6, AnswersTail DEF OnceInv
  <1>8. /\ calls' \in [Calls -> Outcomes \cup {"idle", "captured", "sent"}]
        /\ \A c \in Calls : /\ calls'[c] \in {"idle", "captured"} => calls[c] \in {"idle", "captured"}
                            /\ calls'[c] = "ok" => ran[c] = 1
                            /\ c \in pending' => calls'[c] = "sent"
    BY <1>4, <1>5 DEF OnceInv, Books, Outcomes
  <1>. QED
    BY <1>5, <1>6, <1>7, <1>8, Later DEF OnceInv

\* invoke: the only frame that asks for the call.
LEMMA InvokeAsksOnce ==
    ASSUME OnceInv, NeverFull', NEW c \in Calls, Invoke(c)
    PROVE  OnceInv'
  <1>1. calls[c] = "captured" /\ UNCHANGED <<ran, handling>>
    BY DEF Invoke, runner
  <1>2. ran[c] = 0 /\ c \notin handling /\ c \notin pending
    BY <1>1 DEF OnceInv, Books
  <1>3. CASE state = "running" /\ open
    <2>1. PICK ms : ms = Message("invoke", c)
      OBVIOUS
    <2>2. calls' = [calls EXCEPT ![c] = "sent"] /\ pending' = pending \cup {c} /\ Send("host", ms)
      BY <1>3, <2>1 DEF Invoke, Outcome
    <2>3. ms \in Seq(Frame) /\ Len(ms) = 1 /\ ms[1].kind = "invoke" /\ ms[1].about = c
      <3>1. "invoke" \in Kinds /\ [kind |-> "invoke", about |-> c] \in Frame
        BY DEF Kinds, Frame
      <3>. QED BY <2>1, <3>1, MessageFacts
    <2>4. /\ chan' \in [Sides -> Channel] /\ chan'["host"].pipe = chan["host"].pipe \o ms
          /\ chan'["child"] = chan["child"]
      BY <2>2, <2>3, Sends DEF OnceInv, Sides
    <2>5. PICK q \in Seq(Frame) : q = chan["host"].pipe
      BY DEF OnceInv, Channel, Sides
    <2>6. /\ Len(q) \in Nat /\ Len(q \o ms) = Len(q) + 1
          /\ \A i \in 1..Len(q) + 1 : (q \o ms)[i] = IF i <= Len(q) THEN q[i] ELSE ms[i - Len(q)]
      <3>1. /\ Len(q) \in Nat /\ Len(q \o ms) = Len(q) + Len(ms)
            /\ \A i \in 1..Len(q) + Len(ms) : (q \o ms)[i] = IF i <= Len(q) THEN q[i] ELSE ms[i - Len(q)]
        BY <2>3, ConcatProperties, LenProperties
      <3>. QED BY <2>3, <3>1
    <2>7. \A i \in 1..Len(q) + 1 : \/ i \in 1..Len(q) /\ (q \o ms)[i] = q[i]
                                   \/ i = Len(q) + 1 /\ (q \o ms)[i] = ms[1]
      BY <2>6
    <2>8. \A i \in 1..Len(q) : q[i].kind = "invoke" => q[i].about # c
      BY <1>1, <2>5 DEF OnceInv, Asks
    <2>9. Asks(q, ran, calls)
      BY <2>5 DEF OnceInv
    <2>10. /\ calls'[c] = "sent" /\ \A d \in Calls : d # c => calls'[d] = calls[d]
           /\ calls' \in [Calls -> Outcomes \cup {"idle", "captured", "sent"}]
      BY <2>2 DEF OnceInv, Books
    <2>11. Asks(q \o ms, ran, calls')
      BY <1>2, <2>3, <2>6, <2>7, <2>8, <2>9, <2>10 DEF Asks
    <2>12. Books(ran, calls', handling, pending')
      BY <1>2, <2>2, <2>10 DEF OnceInv, Books
    <2>. QED BY <1>1, <2>4, <2>5, <2>11, <2>12 DEF OnceInv
  <1>4. CASE ~(state = "running" /\ open)
    <2>1. calls' = [calls EXCEPT ![c] = "crash"] /\ UNCHANGED <<pending, chan>>
      BY <1>4 DEF Invoke, Outcome
    <2>2. /\ calls' \in [Calls -> Outcomes \cup {"idle", "captured", "sent"}]
          /\ \A d \in Calls : /\ calls'[d] \in {"idle", "captured"} => calls[d] \in {"idle", "captured"}
                              /\ calls'[d] = "ok" => ran[d] = 1
                              /\ d \in pending' => calls'[d] = "sent"
      BY <1>2, <2>1 DEF OnceInv, Books, Outcomes
    <2>. QED BY <1>1, <2>1, <2>2, Later DEF OnceInv
  <1>. QED
    BY <1>3, <1>4


LEMMA HostRunsOnce ==
    ASSUME OnceInv, NeverFull', HostStep
    PROVE  OnceInv'
  <1>1. chan["child"] \in Channel /\ Answers(chan["child"].pipe, ran)
    BY DEF OnceInv, Sides
  <1>2. ASSUME NEW done, KillAndCrash(done, chan["child"]) PROVE OnceInv'
    BY <1>1, <1>2, CrashRunsOnce
  \* CleanUp, and what a timed out call adds: nobody is told that a call succeeded.
  <1>3. ASSUME UNCHANGED ran, UNCHANGED handling, chan' = chan \/ KillChild(chan["child"]),
               calls' \in [Calls -> Outcomes \cup {"idle", "captured", "sent"}],
               \A c \in Calls : /\ calls'[c] \in {"idle", "captured"} => calls[c] \in {"idle", "captured"}
                                /\ calls'[c] = "ok" => ran[c] = 1
                                /\ c \in pending' => calls'[c] = "sent"
        PROVE  OnceInv'
    <2>1. Truncated(chan["child"]) \in Channel /\ Answers(Truncated(chan["child"]).pipe, ran)
      BY <1>1, ChildEnds
    <2>2. \/ chan' = [chan EXCEPT !["child"] = chan["child"]]
          \/ chan' = [chan EXCEPT !["child"] = Truncated(chan["child"])]
      BY <1>3 DEF KillChild, OnceInv
    <2>3. /\ chan' \in [Sides -> Channel] /\ Asks(chan'["host"].pipe, ran, calls)
          /\ Answers(chan'["child"].pipe, ran)
      BY <1>1, <2>1, <2>2 DEF OnceInv, Sides
    <2>. QED BY <1>3, <2>3, Later
  <1>4. ASSUME pending' = {}, NEW c \in Calls \cup {"none"},
               calls' = [d \in Calls |-> IF d = c THEN "timeout" ELSE
                                         IF d \in pending THEN "crash" ELSE calls[d]]
        PROVE  /\ calls' \in [Calls -> Outcomes \cup {"idle", "captured", "sent"}]
               /\ \A d \in Calls : /\ calls'[d] \in {"idle", "captured"} => calls[d] \in {"idle", "captured"}
                                   /\ calls'[d] = "ok" => ran[d] = 1
                                   /\ d \in pending' => calls'[d] = "sent"
    BY <1>4 DEF OnceInv, Books, Outcomes
  <1>5. ASSUME pending' = {},
               calls' = [d \in Calls |-> IF d \in pending THEN "crash" ELSE calls[d]]
        PROVE  /\ calls' \in [Calls -> Outcomes \cup {"idle", "captured", "sent"}]
               /\ \A d \in Calls : /\ calls'[d] \in {"idle", "captured"} => calls[d] \in {"idle", "captured"}
                                   /\ calls'[d] = "ok" => ran[d] = 1
                                   /\ d \in pending' => calls'[d] = "sent"
    BY <1>5 DEF OnceInv, Books, Outcomes
  <1>6. KillChild(chan["child"]) => UNCHANGED <<ran, handling>>
    BY DEF KillChild, runner
  <1>7. CASE Start
    BY <1>7, HostSends, PluginAssumption DEF Start
  <1>8. CASE HostReads
    <2> DEFINE m == Received("child")
    <2>1. Arrived("child") /\ m \in Frame
      BY <1>8, HeadFacts DEF HostReads, Sides
    <2>2. CASE state = "stopped"
      BY <1>8, <2>1, <2>2, OnlyReads DEF HostReads, host, runner, Sides
    <2>3. CASE m.kind \in {"answer", "failed"} /\ Response(m.about, m.kind) /\ UNCHANGED runner
      BY <2>1, <2>3, ResponseIsTrue
    <2>4. CASE RegisterSkill(m.about) /\ UNCHANGED runner
      <3>1. PICK kind \in {"granted", "denied", "dropped"} :
               TakeAndSend("child", "host", Message(kind, m.about))
        BY <2>4 DEF RegisterSkill
      <3>. QED BY <2>1, <2>4, <3>1, HostAnswersSkill DEF RegisterSkill, runner
    <2>5. CASE UnregisterSkill(m.about) /\ UNCHANGED runner
      BY <2>1, <2>5, HostAnswersSkill DEF UnregisterSkill, runner
    <2>6. CASE KillAndCrash({}, Taken(chan["child"]))
      <3>1. Taken(chan["child"]) \in Channel /\ Taken(chan["child"]).pipe = Tail(chan["child"].pipe)
        BY <1>1, <2>1, TakenFacts DEF Arrived
      <3>2. Answers(Tail(chan["child"].pipe), ran)
        BY <1>1, <2>1, AnswersTail DEF Arrived, Channel
      <3>. QED BY <2>6, <3>1, <3>2, CrashRunsOnce
    <2>. QED BY <1>8, <2>2, <2>3, <2>4, <2>5, <2>6 DEF HostReads
  <1>9. CASE Started
    BY <1>1, <1>9, OnlyFrames DEF Started, runner, OnceInv
  <1>10. CASE StartFails
    BY <1>2, <1>10 DEF StartFails
  <1>11. CASE \E r \in Requests : RequestTimesOut(r)
    BY <1>2, <1>11 DEF RequestTimesOut
  <1>12. CASE Ping
    <2>1. CASE open
      BY <1>12, <2>1, HostSends, PluginAssumption DEF Ping, runner
    <2>2. CASE ~open
      BY <1>2, <1>12, <2>2 DEF Ping
    <2>. QED BY <2>1, <2>2
  <1>13. CASE \E c \in Calls : Capture(c) \/ Invoke(c) \/ CallTimesOut(c)
    <2>1. PICK c \in Calls : Capture(c) \/ Invoke(c) \/ CallTimesOut(c)
      BY <1>13
    <2>2. CASE Capture(c)
      <3>1. calls[c] = "idle" /\ calls' = [calls EXCEPT ![c] = "captured"]
            /\ UNCHANGED <<ran, handling, chan, pending>>
        BY <2>2 DEF Capture, Outcome, runner
      <3>2. /\ calls' \in [Calls -> Outcomes \cup {"idle", "captured", "sent"}]
            /\ \A d \in Calls : /\ calls'[d] \in {"idle", "captured"} => calls[d] \in {"idle", "captured"}
                                /\ calls'[d] = "ok" => ran[d] = 1
                                /\ d \in pending' => calls'[d] = "sent"
        BY <3>1 DEF OnceInv, Books, Outcomes
      <3>. QED BY <1>3, <3>1, <3>2
    <2>3. CASE Invoke(c)
      BY <2>3, InvokeAsksOnce
    <2>4. CASE CallTimesOut(c)
      BY <1>3, <1>4, <1>6, <2>4 DEF CallTimesOut
    <2>. QED BY <2>1, <2>2, <2>3, <2>4
  <1>14. CASE Shutdown
    <2>1. CASE state = "running" /\ open
      BY <1>14, <2>1, HostSends, PluginAssumption DEF Shutdown, runner
    <2>2. CASE ~(state = "running" /\ open)
      BY <1>3, <1>5, <1>14, <2>2 DEF Shutdown, CleanUp, runner
    <2>. QED BY <2>1, <2>2
  <1>15. CASE ShutdownGoesOn
    BY <1>3, <1>5, <1>15 DEF ShutdownGoesOn, runner
  <1>16. CASE ShutdownEnds
    <2>1. KillChild(chan["child"]) /\ UNCHANGED <<pending, calls>>
      BY <1>16 DEF ShutdownEnds
    <2>2. /\ calls' \in [Calls -> Outcomes \cup {"idle", "captured", "sent"}]
          /\ \A d \in Calls : /\ calls'[d] \in {"idle", "captured"} => calls[d] \in {"idle", "captured"}
                              /\ calls'[d] = "ok" => ran[d] = 1
                              /\ d \in pending' => calls'[d] = "sent"
      BY <2>1 DEF OnceInv, Books
    <2>. QED BY <1>3, <1>6, <2>1, <2>2
  <1>17. CASE Kill
    BY <1>3, <1>5, <1>6, <1>17 DEF Kill, CleanUp
  <1>18. CASE ChannelFails
    <2>1. Empty \in Channel /\ Answers(Empty.pipe, ran)
      BY LenProperties DEF Empty, Channel, Answers
    <2>. QED BY <1>18, <2>1, CrashRunsOnce DEF ChannelFails
  <1>. QED
    BY <1>7, <1>8, <1>9, <1>10, <1>11, <1>12, <1>13, <1>14, <1>15, <1>16, <1>17, <1>18 DEF HostStep

\* A call runs at most once in the child, and one that the broker was told has
\* succeeded has run: the id of the request is the call's own, and a frame that is
\* read is gone.  It holds as long as no stream is full, and not beyond.
THEOREM RunsOnce == Spec /\ []NeverFull => []RunsAtMostOnce
  <1>1. Init => OnceInv
    <2>1. Init => /\ chan \in [Sides -> Channel] /\ \A side \in Sides : Len(chan[side].pipe) = 0
      BY LenProperties DEF Init, InitChannel, Empty, Channel
    <2>2. Init => Books(ran, calls, handling, pending)
      BY DEF Init, InitRunner, InitHost, Books
    <2>. QED BY <2>1, <2>2 DEF OnceInv, Asks, Answers, Sides
  <1>2. OnceInv /\ NeverFull' /\ [Next]_vars => OnceInv'
    <2> SUFFICES ASSUME OnceInv, NeverFull', [Next]_vars
                 PROVE  OnceInv'
      OBVIOUS
    <2>1. CASE HostStep
      BY <2>1, HostRunsOnce
    <2>2. CASE RunnerStep /\ UNCHANGED host
      BY <2>2, RunnerRunsOnce
    <2>3. CASE UNCHANGED vars
      BY <2>3, OnlyFrames DEF vars, host, runner, OnceInv
    <2>. QED BY <2>1, <2>2, <2>3 DEF Next
  <1>3. OnceInv => RunsAtMostOnce
    BY DEF OnceInv, Books, RunsAtMostOnce
  <1>. QED
    BY <1>1, <1>2, <1>3, PTL DEF Spec


-----------------------------------------------------------------------------
(* What activate registers is found *)

Stream == [queue : Seq(Frame), flushing : {TRUE, FALSE}, pipe : Seq(Frame)]

\* A stream that does not wait for 'drain' has written all it was given, and has room.
Flows(ch) == ch.flushing = FALSE => ch.queue = <<>> /\ Len(ch.pipe) < MaxPipe + HighWater

\* What a channel still has for its reader.
Held(q) == {q[i] : i \in 1..Len(q)}

Carried(ch) == Held(ch.pipe) \cup Held(ch.queue)

Begun(m) == m.kind = "answer" /\ m.about = "initialize"

Refused(m) == m.kind = "crash" \/ (m.kind = "failed" /\ m.about = "initialize")

\* activate has returned, and every skill it announced is in the Map.
Ready == boot = "active" /\ Announced \subseteq skills

\* The host does not read that the plugin is active without having read before that
\* it failed.
Led(q) == \A i \in 1..Len(q) : Begun(q[i]) => \E j \in 1..Len(q) : j < i /\ Refused(q[j])

Behind(ch) == Led(ch.pipe) /\ (Led(ch.queue) \/ \E m \in Held(ch.pipe) : Refused(m))

\* A skill of activate is in the Map or on its way there.
Coming(s) == s \in skills \/ s \in asked \/ <<"granted", s>> \in settled \/ <<"denied", s>> \in settled

\* No frame gets lost or overtakes another, though a full stream writes one twice: what
\* the host reads before the answer to initialize tells it of every failure of activate.
FoundInv ==
    /\ LifeInv
    /\ chan \in [Sides -> Stream] /\ \A side \in Sides : Flows(chan[side])
    /\ ran \in [Calls -> Nat]
    /\ child = "none" => boot = "idle" /\ chan["child"] = Empty
    /\ \A m \in Carried(chan["child"]) : m.kind = "unregister" => m.about \notin Announced
    /\ \A m \in Carried(chan["host"]) : m.kind = "dropped" => m.about \notin Announced
    /\ \A s \in Announced : <<"dropped", s>> \notin settled
    /\ state = "running" \/ "start" \in jobs => Ready
    /\ \A m \in Carried(chan["host"]) : m.kind = "invoke" => Ready
    /\ "initialize" \in pending => Ready \/ Behind(chan["child"])
    /\ "initialize" \in pending /\ boot = "activating" =>
          \/ ~Alive
          \/ \E m \in Carried(chan["child"]) : Refused(m)
          \/ \A s \in Announced : Coming(s)


\* What two sequences of frames hold together, and what the parts of one hold.
LEMMA Joined ==
    ASSUME NEW p \in Seq(Frame), NEW q \in Seq(Frame)
    PROVE  /\ p \o q \in Seq(Frame) /\ Len(p \o q) = Len(p) + Len(q) /\ Len(p) \in Nat /\ Len(q) \in Nat
           /\ \A i \in 1..Len(p) : i \in 1..Len(p \o q) /\ (p \o q)[i] = p[i]
           /\ \A i \in 1..Len(q) : Len(p) + i \in 1..Len(p \o q) /\ (p \o q)[Len(p) + i] = q[i]
           /\ \A i \in 1..Len(p \o q) : \/ i \in 1..Len(p) /\ (p \o q)[i] = p[i]
                                        \/ /\ i - Len(p) \in 1..Len(q) /\ (p \o q)[i] = q[i - Len(p)]
                                           /\ i > Len(p)
  <1>1. /\ p \o q \in Seq(Frame) /\ Len(p \o q) = Len(p) + Len(q) /\ Len(p) \in Nat /\ Len(q) \in Nat
        /\ \A i \in 1..Len(p) + Len(q) : (p \o q)[i] = IF i <= Len(p) THEN p[i] ELSE q[i - Len(p)]
    BY ConcatProperties, LenProperties
  <1>2. ASSUME NEW i \in 1..Len(q)
        PROVE  Len(p) + i \in 1..Len(p \o q) /\ (p \o q)[Len(p) + i] = q[i]
    <2>1. PICK j \in 1..Len(p) + Len(q) : j = Len(p) + i
      BY <1>1
    <2>2. (p \o q)[j] = q[j - Len(p)] /\ j - Len(p) = i
      BY <1>1, <2>1
    <2>. QED BY <1>1, <2>1, <2>2
  <1>3. ASSUME NEW i \in 1..Len(p)
        PROVE  i \in 1..Len(p \o q) /\ (p \o q)[i] = p[i]
    BY <1>1
  <1>4. ASSUME NEW i \in 1..Len(p \o q)
        PROVE  \/ i \in 1..Len(p) /\ (p \o q)[i] = p[i]
               \/ /\ i - Len(p) \in 1..Len(q) /\ (p \o q)[i] = q[i - Len(p)]
                  /\ i > Len(p)
    BY <1>1
  <1>. QED
    BY <1>1, <1>2, <1>3, <1>4

LEMMA Parted ==
    ASSUME NEW q \in Seq(Frame), NEW n \in Nat, n < Len(q)
    PROVE  /\ SubSeq(q, 1, n + 1) \in Seq(Frame) /\ Len(SubSeq(q, 1, n + 1)) = n + 1
           /\ \A i \in 1..n + 1 : i \in 1..Len(q) /\ SubSeq(q, 1, n + 1)[i] = q[i]
           /\ SubSeq(q, n + 1, Len(q)) \in Seq(Frame) /\ Len(SubSeq(q, n + 1, Len(q))) = Len(q) - n
           /\ \A i \in 1..Len(q) - n : n + i \in 1..Len(q) /\ SubSeq(q, n + 1, Len(q))[i] = q[n + i]
  <1>1. Len(q) \in Nat /\ Len(q) >= n + 1
    BY LenProperties
  <1>2. /\ \A i \in 1..n + 1 : i \in 1..Len(q) /\ q[i] \in Frame
        /\ \A i \in n + 1..Len(q) : i \in 1..Len(q) /\ q[i] \in Frame
    BY <1>1, ElementOfSeq
  <1>3. /\ SubSeq(q, 1, n + 1) \in Seq(Frame)
        /\ Len(SubSeq(q, 1, n + 1)) = IF 1 <= n + 1 THEN n + 1 - 1 + 1 ELSE 0
        /\ \A i \in 1..n + 1 - 1 + 1 : SubSeq(q, 1, n + 1)[i] = q[1 + i - 1]
    BY <1>1, <1>2, SubSeqProperties, 1 \in Int, n + 1 \in Int
  <1>4. /\ SubSeq(q, n + 1, Len(q)) \in Seq(Frame)
        /\ Len(SubSeq(q, n + 1, Len(q))) = IF n + 1 <= Len(q) THEN Len(q) - (n + 1) + 1 ELSE 0
        /\ \A i \in 1..Len(q) - (n + 1) + 1 : SubSeq(q, n + 1, Len(q))[i] = q[n + 1 + i - 1]
    BY <1>1, <1>2, SubSeqProperties, Len(q) \in Int, n + 1 \in Int
  <1>5. \A i \in 1..n + 1 : 1 + i - 1 = i
    OBVIOUS
  <1>6. Len(q) - (n + 1) + 1 = Len(q) - n /\ \A i \in 1..Len(q) - n : n + 1 + i - 1 = n + i /\ n + i \in 1..Len(q)
    BY <1>1
  <1>. QED
    BY <1>1, <1>2, <1>3, <1>4, <1>5, <1>6

LEMMA HeldTogether ==
    ASSUME NEW p \in Seq(Frame), NEW q \in Seq(Frame)
    PROVE  Held(p \o q) = Held(p) \cup Held(q) /\ Held(<<>>) = {}
  <1>1. Held(p \o q) \subseteq Held(p) \cup Held(q)
    BY Joined DEF Held
  <1>2. Held(p) \subseteq Held(p \o q)
    BY Joined DEF Held
  <1>3. ASSUME NEW i \in 1..Len(q) PROVE q[i] \in Held(p \o q)
    <2>1. Len(p) + i \in 1..Len(p \o q) /\ (p \o q)[Len(p) + i] = q[i]
      BY Joined
    <2>. QED BY <2>1 DEF Held
  <1>4. Held(<<>>) = {}
    BY LenProperties DEF Held
  <1>. QED
    BY <1>1, <1>2, <1>3, <1>4 DEF Held

LEMMA LedTogether ==
    ASSUME NEW p \in Seq(Frame), NEW q \in Seq(Frame), Led(p), Led(q) \/ \E m \in Held(p) : Refused(m)
    PROVE  Led(p \o q)
  <1> SUFFICES ASSUME NEW i \in 1..Len(p \o q), Begun((p \o q)[i])
               PROVE  \E j \in 1..Len(p \o q) : j < i /\ Refused((p \o q)[j])
    BY DEF Led
  <1>1. Len(p) \in Nat /\ Len(q) \in Nat
    BY Joined
  <1>2. CASE i \in 1..Len(p) /\ (p \o q)[i] = p[i]
    <2>1. PICK j \in 1..Len(p) : j < i /\ Refused(p[j])
      BY <1>2 DEF Led
    <2>2. j \in 1..Len(p \o q) /\ (p \o q)[j] = p[j]
      BY Joined
    <2>. QED BY <2>1, <2>2
  <1>3. CASE i - Len(p) \in 1..Len(q) /\ (p \o q)[i] = q[i - Len(p)] /\ i > Len(p)
    <2>1. CASE Led(q)
      <3>1. PICK k \in 1..Len(q) : k = i - Len(p)
        BY <1>3
      <3>2. PICK j \in 1..Len(q) : j < k /\ Refused(q[j])
        BY <1>3, <2>1, <3>1 DEF Led
      <3>3. Len(p) + j \in 1..Len(p \o q) /\ (p \o q)[Len(p) + j] = q[j]
        BY Joined
      <3>4. Len(p) + j < i
        BY <1>1, <3>1, <3>2
      <3>. QED BY <3>2, <3>3, <3>4
    <2>2. CASE \E m \in Held(p) : Refused(m)
      <3>1. PICK j \in 1..Len(p) : Refused(p[j])
        BY <2>2 DEF Held
      <3>2. j \in 1..Len(p \o q) /\ (p \o q)[j] = p[j]
        BY Joined
      <3>3. j < i
        BY <1>1, <1>3
      <3>. QED BY <3>1, <3>2, <3>3
    <2>. QED BY <2>1, <2>2
  <1>. QED
    BY <1>2, <1>3, Joined

\* A queue that is cut where a write answered false: its frame is in both parts.
Written(q, n) == SubSeq(q, 1, n + 1)

Waiting(q, n) == SubSeq(q, n + 1, Len(q))

LEMMA CutParts ==
    ASSUME NEW q \in Seq(Frame), NEW n \in Nat, n < Len(q)
    PROVE  \A one, two : one = Written(q, n) /\ two = Waiting(q, n) =>
           /\ one \in Seq(Frame) /\ Len(one) = n + 1 /\ two \in Seq(Frame) /\ Len(two) = Len(q) - n
           /\ Held(q) = Held(one) \cup Held(two)
           /\ Led(q) => Led(one) /\ (Led(two) \/ \E m \in Held(one) : Refused(m))
  <1> TAKE one, two
  <1> HAVE one = Written(q, n) /\ two = Waiting(q, n)
  <1>1. Len(q) \in Nat
    BY LenProperties
  <1>2. /\ one \in Seq(Frame) /\ Len(one) = n + 1
        /\ \A i \in 1..n + 1 : i \in 1..Len(q) /\ one[i] = q[i]
        /\ two \in Seq(Frame) /\ Len(two) = Len(q) - n
        /\ \A i \in 1..Len(q) - n : n + i \in 1..Len(q) /\ two[i] = q[n + i]
    BY Parted DEF Written, Waiting
  <1>3. ASSUME NEW i \in 1..Len(q)
        PROVE  \/ i \in 1..Len(one) /\ one[i] = q[i]
               \/ i - n \in 1..Len(two) /\ two[i - n] = q[i]
    <2>1. CASE i <= n + 1
      BY <1>2, <2>1
    <2>2. CASE ~(i <= n + 1)
      <3>1. PICK k \in 1..Len(q) - n : k = i - n
        BY <1>1, <2>2
      <3>. QED BY <1>2, <3>1
    <2>. QED BY <2>1, <2>2
  <1>4. Held(q) = Held(one) \cup Held(two)
    <2>1. Held(q) \subseteq Held(one) \cup Held(two)
      BY <1>3 DEF Held
    <2>2. Held(one) \subseteq Held(q)
      BY <1>2 DEF Held
    <2>3. Held(two) \subseteq Held(q)
      BY <1>2 DEF Held
    <2>. QED BY <2>1, <2>2, <2>3
  <1>5. ASSUME Led(q) PROVE Led(one)
    <2> SUFFICES ASSUME NEW i \in 1..Len(one), Begun(one[i])
                 PROVE  \E j \in 1..Len(one) : j < i /\ Refused(one[j])
      BY DEF Led
    <2>1. PICK j \in 1..Len(q) : j < i /\ Refused(q[j])
      BY <1>2, <1>5 DEF Led
    <2>. QED BY <1>2, <2>1
  <1>6. ASSUME Led(q), ~\E m \in Held(one) : Refused(m) PROVE Led(two)
    <2> SUFFICES ASSUME NEW i \in 1..Len(two), Begun(two[i])
                 PROVE  \E j \in 1..Len(two) : j < i /\ Refused(two[j])
      BY DEF Led
    <2>1. n + i \in 1..Len(q) /\ Begun(q[n + i])
      BY <1>2
    <2>2. PICK j \in 1..Len(q) : j < n + i /\ Refused(q[j])
      BY <1>6, <2>1 DEF Led
    <2>3. ~(j \in 1..Len(one) /\ one[j] = q[j])
      BY <1>6, <2>2 DEF Held
    <2>4. j - n \in 1..Len(two) /\ two[j - n] = q[j] /\ j - n < i
      BY <1>3, <2>2, <2>3
    <2>. QED BY <2>2, <2>4
  <1>. QED
    BY <1>2, <1>4, <1>5, <1>6

\* flushWrites hands on what it had, if a frame twice, and in the order it had it.
LEMMA FlushFacts ==
    ASSUME NEW ch \in Stream, Len(ch.pipe) < MaxPipe + HighWater
    PROVE  /\ Flush(ch) \in Stream /\ Flows(Flush(ch)) /\ Carried(Flush(ch)) = Carried(ch)
           /\ Behind(ch) => Behind(Flush(ch))
           /\ Len(Flush(ch).pipe) >= Len(ch.pipe)
           /\ Flush(ch).flushing = TRUE => Len(Flush(ch).queue) = Len(ch.queue) + Len(ch.pipe) + 1 - MaxPipe - HighWater
  <1>1. /\ ch.queue \in Seq(Frame) /\ ch.pipe \in Seq(Frame) /\ Len(ch.queue) \in Nat /\ Len(ch.pipe) \in Nat
        /\ MaxPipe \in Nat /\ HighWater \in Nat
    BY LenProperties, StreamAssumption DEF Stream
  <1>2. MaxPipe + HighWater - 1 - Len(ch.pipe) \in Nat
    BY <1>1
  <1>3. PICK room \in Nat : room = MaxPipe + HighWater - 1 - Len(ch.pipe)
    BY <1>2
  <1>4. CASE Len(ch.queue) <= room
    <2>1. PICK all \in Seq(Frame) : all = ch.pipe \o ch.queue
      BY <1>1, ConcatProperties
    <2>2. PICK f : f = [queue |-> <<>>, flushing |-> FALSE, pipe |-> all]
      OBVIOUS
    <2>3. Flush(ch) = f
      BY <1>3, <1>4, <2>1, <2>2 DEF Flush
    <2>4. <<>> \in Seq(Frame) /\ Len(all) = Len(ch.pipe) + Len(ch.queue)
      BY <1>1, <2>1, Joined
    <2>5. f \in Stream /\ Flows(f) /\ Len(f.pipe) >= Len(ch.pipe)
      BY <1>1, <1>3, <1>4, <2>2, <2>4 DEF Stream, Flows
    <2>6. Carried(f) = Carried(ch)
      BY <1>1, <2>1, <2>2, HeldTogether DEF Carried
    <2>7. Behind(ch) => Behind(f)
      <3>1. Led(<<>>)
        BY LenProperties DEF Led
      <3>2. Behind(ch) => Led(all)
        BY <1>1, <2>1, LedTogether DEF Behind
      <3>. QED BY <2>2, <3>1, <3>2 DEF Behind
    <2>8. f.flushing # TRUE
      BY <2>2
    <2>. QED BY <2>3, <2>5, <2>6, <2>7, <2>8
  <1>5. CASE ~(Len(ch.queue) <= room)
    <2>1. PICK one : one = SubSeq(ch.queue, 1, room + 1)
      OBVIOUS
    <2>2. PICK two : two = SubSeq(ch.queue, room + 1, Len(ch.queue))
      OBVIOUS
    <2>3. /\ one \in Seq(Frame) /\ Len(one) = room + 1 /\ two \in Seq(Frame) /\ Len(two) = Len(ch.queue) - room
          /\ Held(ch.queue) = Held(one) \cup Held(two)
          /\ Led(ch.queue) => Led(one) /\ (Led(two) \/ \E m \in Held(one) : Refused(m))
      <3>1. room < Len(ch.queue)
        BY <1>1, <1>5
      <3>2. PICK q \in Seq(Frame) : q = ch.queue
        BY <1>1
      <3>3. /\ one \in Seq(Frame) /\ Len(one) = room + 1 /\ two \in Seq(Frame) /\ Len(two) = Len(q) - room
            /\ Held(q) = Held(one) \cup Held(two)
            /\ Led(q) => Led(one) /\ (Led(two) \/ \E m \in Held(one) : Refused(m))
        <4>1. one = Written(q, room) /\ two = Waiting(q, room)
          BY <2>1, <2>2, <3>2 DEF Written, Waiting
        <4>2. room < Len(q)
          BY <3>1, <3>2
        <4>. QED BY <1>3, <3>2, <4>1, <4>2, CutParts
      <3>. QED BY <3>2, <3>3
    <2>4. PICK all \in Seq(Frame) : all = ch.pipe \o one
      BY <1>1, <2>3, ConcatProperties
    <2>5. PICK f : f = [queue |-> two, flushing |-> TRUE, pipe |-> all]
      OBVIOUS
    <2>6. Flush(ch) = f
      BY <1>3, <1>5, <2>1, <2>2, <2>4, <2>5 DEF Flush
    <2>7. Len(all) = Len(ch.pipe) + Len(one)
      BY <1>1, <2>3, <2>4, Joined
    <2>8. f \in Stream /\ Flows(f) /\ Len(f.pipe) >= Len(ch.pipe)
      BY <1>1, <2>3, <2>5, <2>7 DEF Stream, Flows
    <2>9. Held(all) = Held(ch.pipe) \cup Held(one)
      BY <1>1, <2>3, <2>4, HeldTogether
    <2>10. Carried(f) = Carried(ch)
      BY <2>3, <2>5, <2>9 DEF Carried
    <2>11. Behind(ch) => Behind(f)
      <3> SUFFICES ASSUME Behind(ch) PROVE Behind(f)
        OBVIOUS
      <3>1. CASE \E m \in Held(ch.pipe) : Refused(m)
        <4>1. Led(all)
          BY <1>1, <2>3, <2>4, <3>1, LedTogether DEF Behind
        <4>. QED BY <2>5, <2>9, <3>1, <4>1 DEF Behind
      <3>2. CASE Led(ch.queue)
        <4>1. Led(all)
          BY <1>1, <2>3, <2>4, <3>2, LedTogether DEF Behind
        <4>. QED BY <2>3, <2>5, <2>9, <3>2, <4>1 DEF Behind
      <3>. QED BY <3>1, <3>2 DEF Behind
    <2>12. Len(f.queue) = Len(ch.queue) + Len(ch.pipe) + 1 - MaxPipe - HighWater
      <3>1. Len(f.queue) = Len(ch.queue) - room
        BY <2>3, <2>5
      <3>. QED BY <1>1, <1>3, <3>1
    <2>. QED BY <2>6, <2>8, <2>10, <2>11, <2>12
  <1>. QED
    BY <1>4, <1>5


\* send: the frames come after what the channel carries.
LEMMA StreamSends ==
    ASSUME NEW ch \in Stream, Flows(ch), NEW ms \in Seq(Frame)
    PROVE  /\ Sent(ch, ms) \in Stream /\ Flows(Sent(ch, ms)) /\ Carried(Sent(ch, ms)) = Carried(ch) \cup Held(ms)
           /\ Behind(ch) /\ (Led(ms) \/ \E m \in Carried(ch) : Refused(m)) => Behind(Sent(ch, ms))
           /\ ch.flushing = TRUE => Sent(ch, ms).flushing = TRUE /\ Len(Sent(ch, ms).queue) = Len(ch.queue) + Len(ms)
           /\ ch.flushing = FALSE => Len(Sent(ch, ms).pipe) >= Len(ch.pipe)
  <1>1. ch.queue \in Seq(Frame) /\ ch.pipe \in Seq(Frame) /\ ch.flushing \in {TRUE, FALSE}
    BY DEF Stream
  <1>2. PICK line \in Seq(Frame) : line = ch.queue \o ms
    BY <1>1, ConcatProperties
  <1>3. PICK k : k = [ch EXCEPT !.queue = line]
    OBVIOUS
  <1>4. k = [queue |-> line, flushing |-> ch.flushing, pipe |-> ch.pipe]
    BY <1>3 DEF Stream
  <1>5. k \in Stream /\ Sent(ch, ms) = IF ch.flushing THEN k ELSE Flush(k)
    BY <1>1, <1>2, <1>3, <1>4 DEF Stream, Sent
  <1>6. Held(line) = Held(ch.queue) \cup Held(ms) /\ Len(line) = Len(ch.queue) + Len(ms)
    BY <1>1, <1>2, HeldTogether, Joined
  <1>7. Carried(k) = Carried(ch) \cup Held(ms)
    BY <1>4, <1>6 DEF Carried
  <1>8. ASSUME Behind(ch), Led(ms) \/ \E m \in Carried(ch) : Refused(m)
        PROVE  Behind(k)
    <2>1. CASE \E m \in Held(ch.pipe) : Refused(m)
      BY <1>4, <1>8, <2>1 DEF Behind
    <2>2. CASE Led(ch.queue) /\ ~\E m \in Held(ch.pipe) : Refused(m)
      <3>1. Led(ms) \/ \E m \in Held(ch.queue) : Refused(m)
        BY <1>8, <2>2 DEF Carried
      <3>2. Led(line)
        BY <1>1, <1>2, <2>2, <3>1, LedTogether
      <3>. QED BY <1>4, <1>8, <3>2 DEF Behind
    <2>. QED BY <1>8, <2>1, <2>2 DEF Behind
  <1>9. CASE ch.flushing = TRUE
    <2>1. Sent(ch, ms) = k /\ k.flushing = TRUE
      BY <1>4, <1>5, <1>9
    <2>2. Flows(k)
      BY <2>1 DEF Flows
    <2>. QED BY <1>4, <1>5, <1>6, <1>7, <1>8, <1>9, <2>1, <2>2
  <1>10. CASE ch.flushing = FALSE
    <2>1. Sent(ch, ms) = Flush(k)
      BY <1>5, <1>10
    <2>2. Len(k.pipe) < MaxPipe + HighWater
      BY <1>4, <1>10 DEF Flows
    <2>3. /\ Flush(k) \in Stream /\ Flows(Flush(k)) /\ Carried(Flush(k)) = Carried(k)
          /\ Behind(k) => Behind(Flush(k))
          /\ Len(Flush(k).pipe) >= Len(k.pipe)
      BY <1>5, <2>2, FlushFacts
    <2>. QED BY <1>4, <1>7, <1>8, <1>10, <2>1, <2>3
  <1>. QED
    BY <1>1, <1>9, <1>10

\* Reading takes the head, and may make room for what waits.
LEMMA StreamTakes ==
    ASSUME NEW ch \in Stream, Flows(ch), ch.pipe # <<>>
    PROVE  /\ Taken(ch) \in Stream /\ Flows(Taken(ch)) /\ Carried(ch) = {Head(ch.pipe)} \cup Carried(Taken(ch))
           /\ Head(ch.pipe) \in Frame
           /\ Behind(ch) => ~Begun(Head(ch.pipe)) /\ (Refused(Head(ch.pipe)) \/ Behind(Taken(ch)))
           /\ ch.flushing = FALSE => Len(Taken(ch).pipe) < Len(ch.pipe)
           /\ ch.flushing = TRUE => \/ Taken(ch).flushing = FALSE
                                    \/ Len(Taken(ch).queue) < Len(ch.queue)
                                    \/ Len(Taken(ch).pipe) < Len(ch.pipe) /\ Len(Taken(ch).queue) <= Len(ch.queue)
  <1>1. ch.queue \in Seq(Frame) /\ ch.pipe \in Seq(Frame) /\ ch.flushing \in {TRUE, FALSE} /\ Len(ch.queue) \in Nat
    BY LenProperties DEF Stream
  <1>2. PICK q \in Seq(Frame) : q = ch.pipe /\ q # <<>>
    BY <1>1
  <1>3. /\ Head(q) = q[1] /\ Head(q) \in Frame /\ Len(q) \in Nat /\ Len(q) >= 1
        /\ Tail(q) \in Seq(Frame) /\ Len(Tail(q)) = Len(q) - 1
        /\ \A i \in 1..Len(Tail(q)) : i + 1 \in 1..Len(q) /\ Tail(q)[i] = q[i + 1]
    <2>1. Len(q) \in Nat /\ Len(q) >= 1 /\ Head(q) = q[1] /\ Tail(q) \in Seq(Frame) /\ Len(Tail(q)) = Len(q) - 1
          /\ \A i \in 1..Len(Tail(q)) : i + 1 \in 1..Len(q) /\ Tail(q)[i] = q[i + 1]
      BY <1>2, HeadTailProperties, LenProperties
    <2>. QED BY <1>2, <2>1, ElementOfSeq
  <1>4. \A i \in 1..Len(q) : i = 1 \/ (i - 1 \in 1..Len(Tail(q)) /\ Tail(q)[i - 1] = q[i])
    BY <1>3
  <1>5. Held(q) = {Head(q)} \cup Held(Tail(q))
    <2>1. Held(q) \subseteq {Head(q)} \cup Held(Tail(q))
      <3> SUFFICES ASSUME NEW i \in 1..Len(q) PROVE q[i] \in {Head(q)} \cup Held(Tail(q))
        BY DEF Held
      <3>1. CASE i = 1
        BY <1>3, <3>1
      <3>2. CASE i # 1
        BY <1>4, <3>2 DEF Held
      <3>. QED BY <3>1, <3>2
    <2>2. Held(Tail(q)) \subseteq Held(q) /\ Head(q) \in Held(q)
      BY <1>3 DEF Held
    <2>. QED BY <2>1, <2>2
  <1>6. PICK rest : rest = [ch EXCEPT !.pipe = Tail(@)]
    OBVIOUS
  <1>7. rest = [queue |-> ch.queue, flushing |-> ch.flushing, pipe |-> Tail(q)]
    BY <1>2, <1>6 DEF Stream
  <1>8. rest \in Stream
    BY <1>1, <1>3, <1>7 DEF Stream
  <1>9. Taken(ch) = IF ch.flushing /\ Len(rest.pipe) <= MaxPipe THEN Flush(rest) ELSE rest
    BY <1>6 DEF Taken
  <1>10. Carried(ch) = {Head(q)} \cup Carried(rest)
    BY <1>2, <1>5, <1>7 DEF Carried
  <1>11. ASSUME Behind(ch) PROVE ~Begun(Head(q)) /\ (Refused(Head(q)) \/ Behind(rest))
    <2>1. Led(q)
      BY <1>2, <1>11 DEF Behind
    <2>2. ~Begun(Head(q))
      BY <1>3, <2>1 DEF Led
    <2>3. ASSUME ~Refused(Head(q)) PROVE Led(Tail(q))
      <3> SUFFICES ASSUME NEW i \in 1..Len(Tail(q)), Begun(Tail(q)[i])
                   PROVE  \E j \in 1..Len(Tail(q)) : j < i /\ Refused(Tail(q)[j])
        BY DEF Led
      <3>1. PICK j \in 1..Len(q) : j < i + 1 /\ Refused(q[j])
        BY <1>3, <2>1 DEF Led
      <3>2. j # 1
        BY <1>3, <2>3, <3>1
      <3>3. j - 1 \in 1..Len(Tail(q)) /\ Tail(q)[j - 1] = q[j] /\ j - 1 < i
        BY <1>3, <1>4, <3>1, <3>2
      <3>. QED BY <3>1, <3>3
    <2>4. ASSUME ~Refused(Head(q)) PROVE Led(ch.queue) \/ \E m \in Held(Tail(q)) : Refused(m)
      BY <1>2, <1>5, <1>11, <2>4 DEF Behind
    <2>. QED BY <1>7, <2>2, <2>3, <2>4 DEF Behind
  <1>12. CASE ch.flushing /\ Len(rest.pipe) <= MaxPipe
    <2>1. Len(rest.pipe) < MaxPipe + HighWater - 1 /\ MaxPipe \in Nat /\ HighWater \in Nat /\ Len(rest.pipe) \in Nat
      BY <1>3, <1>7, <1>12, StreamAssumption
    <2>2. /\ Flush(rest) \in Stream /\ Flows(Flush(rest)) /\ Carried(Flush(rest)) = Carried(rest)
          /\ Behind(rest) => Behind(Flush(rest))
          /\ Flush(rest).flushing = TRUE =>
                Len(Flush(rest).queue) = Len(rest.queue) + Len(rest.pipe) + 1 - MaxPipe - HighWater
      <3>1. Len(rest.pipe) < MaxPipe + HighWater
        BY <2>1
      <3>. QED BY <1>8, <3>1, FlushFacts
    <2>3. Flush(rest).flushing = FALSE \/ Len(Flush(rest).queue) < Len(ch.queue)
      BY <1>1, <1>7, <2>1, <2>2 DEF Stream
    <2>4. ch.flushing = TRUE /\ Taken(ch) = Flush(rest)
      BY <1>1, <1>9, <1>12
    <2>. QED BY <1>2, <1>3, <1>10, <1>11, <2>2, <2>3, <2>4
  <1>13. CASE ~(ch.flushing /\ Len(rest.pipe) <= MaxPipe)
    <2>1. Taken(ch) = rest
      BY <1>9, <1>13
    <2>2. Flows(rest)
      BY <1>2, <1>3, <1>7, StreamAssumption DEF Flows
    <2>3. Len(rest.pipe) < Len(ch.pipe) /\ rest.queue = ch.queue /\ Len(rest.queue) <= Len(ch.queue)
      BY <1>1, <1>2, <1>3, <1>7
    <2>. QED BY <1>2, <1>3, <1>8, <1>10, <1>11, <2>1, <2>2, <2>3
  <1>. QED
    BY <1>12, <1>13

\* What is not read is not gone: only a reading makes a channel what Taken makes of it.
LEMMA OnlyReadingTakes ==
    ASSUME NEW ch \in Stream, Flows(ch), ch.pipe # <<>>
    PROVE  Taken(ch) # ch /\ \A ms \in Seq(Frame) : Len(ms) > 0 => Taken(ch) # Sent(ch, ms)
  <1>1. ch.flushing \in {TRUE, FALSE} /\ Len(ch.queue) \in Nat /\ Len(ch.pipe) \in Nat
    BY LenProperties DEF Stream
  <1>2. PICK t : t = Taken(ch)
    OBVIOUS
  <1>3. /\ t \in Stream
        /\ ch.flushing = FALSE => Len(t.pipe) < Len(ch.pipe)
        /\ ch.flushing = TRUE => \/ t.flushing = FALSE
                                 \/ Len(t.queue) < Len(ch.queue)
                                 \/ Len(t.pipe) < Len(ch.pipe) /\ Len(t.queue) <= Len(ch.queue)
    BY <1>2, StreamTakes
  <1>4. Len(t.queue) \in Nat /\ Len(t.pipe) \in Nat
    BY <1>3, LenProperties DEF Stream
  <1>5. t # ch
    <2> SUFFICES ASSUME t = ch PROVE FALSE
      OBVIOUS
    <2>1. t.flushing = ch.flushing /\ Len(t.queue) = Len(ch.queue) /\ Len(t.pipe) = Len(ch.pipe)
      OBVIOUS
    <2>2. CASE ch.flushing = TRUE
      <3>1. t.flushing # FALSE
        BY <2>1, <2>2
      <3>. QED BY <1>1, <1>3, <2>1, <2>2, <3>1
    <2>3. CASE ch.flushing = FALSE
      BY <1>1, <1>3, <2>1, <2>3
    <2>. QED BY <1>1, <2>2, <2>3
  <1>6. ASSUME NEW ms \in Seq(Frame), Len(ms) > 0 PROVE t # Sent(ch, ms)
    <2> SUFFICES ASSUME t = Sent(ch, ms) PROVE FALSE
      OBVIOUS
    <2>1. /\ ch.flushing = TRUE => t.flushing = TRUE /\ Len(t.queue) = Len(ch.queue) + Len(ms)
          /\ ch.flushing = FALSE => Len(t.pipe) >= Len(ch.pipe)
      BY StreamSends
    <2>2. Len(ms) \in Nat
      BY LenProperties
    <2>3. CASE ch.flushing = TRUE
      <3>1. t.flushing = TRUE /\ Len(t.queue) = Len(ch.queue) + Len(ms) /\ Len(ms) > 0
        BY <1>6, <2>1, <2>3
      <3>2. t.flushing # FALSE
        BY <3>1
      <3>3. Len(t.queue) > Len(ch.queue)
        BY <1>1, <1>4, <2>2, <3>1
      <3>4. Len(t.queue) < Len(ch.queue) \/ Len(t.queue) <= Len(ch.queue)
        BY <1>3, <2>3, <3>2
      <3>. QED BY <1>1, <1>4, <3>3, <3>4
    <2>4. CASE ch.flushing = FALSE
      <3>1. Len(t.pipe) < Len(ch.pipe) /\ Len(t.pipe) >= Len(ch.pipe)
        BY <1>3, <2>1, <2>4
      <3>. QED BY <1>1, <1>4, <3>1
    <2>. QED BY <1>1, <2>3, <2>4
  <1>. QED
    BY <1>2, <1>5, <1>6

LEMMA StreamEnds ==
    ASSUME NEW ch \in Stream
    PROVE  /\ Truncated(ch) \in Stream /\ Flows(Truncated(ch)) /\ Carried(Truncated(ch)) \subseteq Carried(ch)
           /\ Behind(ch) => Behind(Truncated(ch))
  <1>1. ch.pipe \in Seq(Frame) /\ Len(ch.pipe) \in Nat /\ <<>> \in Seq(Frame) /\ Len(<<>>) = 0
    BY LenProperties DEF Stream
  <1>2. PICK cut : cut = IF Len(ch.pipe) > MaxPipe THEN SubSeq(ch.pipe, 1, MaxPipe) ELSE ch.pipe
    OBVIOUS
  <1>3. /\ cut \in Seq(Frame) /\ Len(cut) \in Nat /\ Len(cut) <= MaxPipe
        /\ \A i \in 1..Len(cut) : i \in 1..Len(ch.pipe) /\ cut[i] = ch.pipe[i]
    <2>1. CASE Len(ch.pipe) > MaxPipe
      <3>1. \A i \in 1..MaxPipe : i \in 1..Len(ch.pipe) /\ ch.pipe[i] \in Frame
        BY <1>1, <2>1, StreamAssumption, ElementOfSeq
      <3>2. /\ cut \in Seq(Frame) /\ Len(cut) = IF 1 <= MaxPipe THEN MaxPipe - 1 + 1 ELSE 0
            /\ \A i \in 1..MaxPipe - 1 + 1 : cut[i] = ch.pipe[1 + i - 1]
        BY <1>2, <2>1, <3>1, StreamAssumption, SubSeqProperties, 1 \in Int, MaxPipe \in Int
      <3>3. Len(cut) = MaxPipe /\ \A i \in 1..MaxPipe : cut[i] = ch.pipe[i]
        BY <3>2, StreamAssumption
      <3>. QED BY <3>1, <3>2, <3>3, StreamAssumption
    <2>2. CASE ~(Len(ch.pipe) > MaxPipe)
      BY <1>1, <1>2, <2>2, StreamAssumption
    <2>. QED BY <2>1, <2>2
  <1>4. PICK k : k = [Empty EXCEPT !.pipe = cut]
    OBVIOUS
  <1>5. k = [queue |-> <<>>, flushing |-> FALSE, pipe |-> cut]
    BY <1>4 DEF Empty
  <1>6. Truncated(ch) = k
    BY <1>2, <1>4 DEF Truncated
  <1>7. k \in Stream /\ Flows(k)
    BY <1>1, <1>3, <1>5, StreamAssumption DEF Stream, Flows
  <1>8. Held(cut) \subseteq Held(ch.pipe)
    BY <1>3 DEF Held
  <1>9. Held(<<>>) = {} /\ Led(<<>>)
    BY <1>1 DEF Held, Led
  <1>10. ASSUME Led(ch.pipe) PROVE Led(cut)
    <2> SUFFICES ASSUME NEW i \in 1..Len(cut), Begun(cut[i])
                 PROVE  \E j \in 1..Len(cut) : j < i /\ Refused(cut[j])
      BY DEF Led
    <2>1. PICK j \in 1..Len(ch.pipe) : j < i /\ Refused(ch.pipe[j])
      BY <1>3, <1>10 DEF Led
    <2>2. j \in 1..Len(cut)
      BY <1>1, <1>3, <2>1
    <2>. QED BY <1>3, <2>1, <2>2
  <1>. QED
    BY <1>5, <1>6, <1>7, <1>8, <1>9, <1>10 DEF Carried, Behind


Abouts == Calls \cup Skills \cup {"initialize", "heartbeat", "shutdown", "host"}

LEMMA OneFrame ==
    ASSUME NEW kind \in Kinds, NEW about \in Abouts
    PROVE  /\ Message(kind, about) \in Seq(Frame) /\ Len(Message(kind, about)) = 1
           /\ Held(Message(kind, about)) = {[kind |-> kind, about |-> about]}
  <1>1. [kind |-> kind, about |-> about] \in Frame
    BY DEF Frame, Abouts
  <1>2. /\ Message(kind, about) \in Seq(Frame) /\ Len(Message(kind, about)) = 1
        /\ Message(kind, about)[1] = [kind |-> kind, about |-> about]
    BY <1>1, MessageFacts DEF Message
  <1>. QED
    BY <1>2 DEF Held

\* What a step of the host does to its own channel: it is added to, and read by nobody.
HostTells ==
    /\ chan'["host"] \in Stream /\ Flows(chan'["host"])
    /\ \A m \in Carried(chan'["host"]) : m \in Carried(chan["host"]) \/
          ((m.kind = "dropped" => m.about \notin Announced) /\ (m.kind = "invoke" => Ready))
    /\ Arrived("host") => chan'["host"] # Taken(chan["host"])

LEMMA HostRests ==
    ASSUME FoundInv, chan'["host"] = chan["host"]
    PROVE  HostTells
  BY OnlyReadingTakes DEF FoundInv, HostTells, Sides, Arrived

LEMMA HostWrites ==
    ASSUME FoundInv, NEW kind \in Kinds, NEW about \in Abouts,
           chan'["host"] = Sent(chan["host"], Message(kind, about)),
           kind = "dropped" => about \notin Announced, kind = "invoke" => Ready
    PROVE  HostTells
  <1>1. chan["host"] \in Stream /\ Flows(chan["host"])
    BY DEF FoundInv, Sides
  <1>2. PICK ms \in Seq(Frame) : ms = Message(kind, about) /\ Len(ms) = 1 /\ Held(ms) = {[kind |-> kind, about |-> about]}
    BY OneFrame
  <1>3. PICK s : s = Sent(chan["host"], ms)
    OBVIOUS
  <1>4. s \in Stream /\ Flows(s) /\ Carried(s) = Carried(chan["host"]) \cup Held(ms)
    BY <1>1, <1>2, <1>3, StreamSends
  <1>5. Arrived("host") => s # Taken(chan["host"])
    BY <1>1, <1>2, <1>3, OnlyReadingTakes DEF Arrived
  <1>6. s = chan'["host"]
    BY <1>2, <1>3
  <1>. QED
    BY <1>2, <1>4, <1>5, <1>6 DEF HostTells

\* What a step of the host does to the channel it reads.
ChildHeard ==
    /\ chan'["child"] \in Stream /\ Flows(chan'["child"])
    /\ Carried(chan'["child"]) \subseteq Carried(chan["child"])
    /\ child' \in {child, "dead"}
    /\ child' = "none" => chan'["child"] = Empty
    /\ "initialize" \in pending' =>
          /\ "initialize" \in pending
          /\ Behind(chan["child"]) => Behind(chan'["child"])
          /\ (\E m \in Carried(chan["child"]) : Refused(m)) =>
                child' = "dead" \/ \E m \in Carried(chan'["child"]) : Refused(m)

LEMMA NothingHeard ==
    ASSUME FoundInv, chan'["child"] = chan["child"], child' = child, "initialize" \in pending' => "initialize" \in pending
    PROVE  ChildHeard
  BY DEF FoundInv, ChildHeard, Sides

LEMMA FrameHeard ==
    ASSUME FoundInv, Arrived("child"), chan'["child"] = Taken(chan["child"]), child' = child,
           "initialize" \in pending' => "initialize" \in pending /\ ~Refused(Received("child"))
    PROVE  ChildHeard
  <1>1. chan["child"] \in Stream /\ Flows(chan["child"]) /\ chan["child"].pipe # <<>>
    BY DEF FoundInv, Sides, Arrived
  <1>2. PICK t : t = Taken(chan["child"])
    OBVIOUS
  <1>3. /\ t \in Stream /\ Flows(t) /\ Carried(chan["child"]) = {Received("child")} \cup Carried(t)
        /\ Behind(chan["child"]) => Refused(Received("child")) \/ Behind(t)
    BY <1>1, <1>2, StreamTakes DEF Received
  <1>4. child # "none"
    BY <1>1 DEF FoundInv, Empty
  <1>. QED
    BY <1>2, <1>3, <1>4 DEF ChildHeard

LEMMA ChildKilled ==
    ASSUME FoundInv, NEW rest \in Stream, Flows(rest), Carried(rest) \subseteq Carried(chan["child"]),
           child = "none" => rest = Empty, KillChild(rest),
           "initialize" \in pending' => "initialize" \in pending /\ rest = chan["child"]
    PROVE  ChildHeard /\ chan'["host"] = chan["host"] /\ UNCHANGED <<boot, skills, asked, settled, ran>>
           /\ chan' = [side \in Sides |-> chan'[side]]
  <1>1. /\ Truncated(rest) \in Stream /\ Flows(Truncated(rest)) /\ Carried(Truncated(rest)) \subseteq Carried(rest)
        /\ Behind(rest) => Behind(Truncated(rest))
    BY StreamEnds
  <1>2. CASE Alive
    <2>1. child' = "dead" /\ chan' = [chan EXCEPT !["child"] = Truncated(rest)] /\ UNCHANGED <<boot, skills, asked, settled, ran>>
      BY <1>2 DEF KillChild
    <2>2. chan'["child"] = Truncated(rest) /\ chan'["host"] = chan["host"] /\ chan' = [side \in Sides |-> chan'[side]]
      BY <2>1 DEF FoundInv, Sides
    <2>3. PICK t : t = Truncated(rest)
      OBVIOUS
    <2>4. t \in Stream /\ Flows(t) /\ Carried(t) \subseteq Carried(rest) /\ (Behind(rest) => Behind(t)) /\ chan'["child"] = t
      BY <1>1, <2>2, <2>3
    <2>5. ASSUME "initialize" \in pending'
          PROVE  "initialize" \in pending /\ (Behind(chan["child"]) => Behind(t))
      <3>1. "initialize" \in pending /\ rest = chan["child"]
        BY <2>5
      <3>2. Behind(chan["child"]) => Behind(rest)
        BY <3>1
      <3>. QED BY <2>4, <3>1, <3>2
    <2>. QED BY <2>1, <2>2, <2>4, <2>5 DEF ChildHeard
  <1>3. CASE ~Alive
    <2>1. child' = child /\ chan' = [chan EXCEPT !["child"] = rest] /\ UNCHANGED <<boot, skills, asked, settled, ran>>
      BY <1>3 DEF KillChild, runner
    <2>2. chan'["child"] = rest /\ chan'["host"] = chan["host"] /\ chan' = [side \in Sides |-> chan'[side]]
      BY <2>1 DEF FoundInv, Sides
    <2>3. ASSUME "initialize" \in pending'
          PROVE  /\ "initialize" \in pending
                 /\ Behind(chan["child"]) => Behind(chan'["child"])
                 /\ (\E m \in Carried(chan["child"]) : Refused(m)) =>
                       child' = "dead" \/ \E m \in Carried(chan'["child"]) : Refused(m)
      <3>1. "initialize" \in pending /\ chan'["child"] = chan["child"]
        BY <2>2, <2>3
      <3>. QED BY <3>1
    <2>4. child' = "none" => chan'["child"] = Empty
      BY <2>1, <2>2
    <2>5. /\ chan'["child"] \in Stream /\ Flows(chan'["child"])
          /\ Carried(chan'["child"]) \subseteq Carried(chan["child"])
          /\ child' \in {child, "dead"}
      BY <2>1, <2>2
    <2>. QED BY <2>1, <2>2, <2>3, <2>4, <2>5 DEF ChildHeard
  <1>. QED
    BY <1>2, <1>3

LEMMA FoundLater ==
    ASSUME FoundInv, LifeInv', HostTells, ChildHeard, chan' = [side \in Sides |-> chan'[side]],
           UNCHANGED <<boot, skills, asked, settled, ran>>,
           state' = "running" \/ "start" \in jobs' => Ready
    PROVE  FoundInv'
  <1>1. chan' \in [Sides -> Stream] /\ \A side \in Sides : Flows(chan'[side])
    BY DEF HostTells, ChildHeard, Sides
  <1>2. Ready' <=> Ready
    BY DEF Ready
  <1>3. /\ \A m \in Carried(chan'["child"]) : m.kind = "unregister" => m.about \notin Announced
        /\ \A m \in Carried(chan'["host"]) : m.kind = "dropped" => m.about \notin Announced
        /\ \A m \in Carried(chan'["host"]) : m.kind = "invoke" => Ready
    BY DEF FoundInv, HostTells, ChildHeard
  <1>4. "initialize" \in pending' => Ready \/ Behind(chan'["child"])
    BY DEF FoundInv, ChildHeard
  <1>5. "initialize" \in pending' /\ boot = "activating" =>
          \/ child' \notin {"up", "exiting"}
          \/ \E m \in Carried(chan'["child"]) : Refused(m)
          \/ \A s \in Announced : Coming(s)
    BY DEF FoundInv, ChildHeard, Alive
  <1>6. child' = "none" => boot = "idle" /\ chan'["child"] = Empty
    BY DEF FoundInv, ChildHeard
  <1>7. \A s : Coming(s)' <=> Coming(s)
    BY DEF Coming
  <1>8. ran \in [Calls -> Nat] /\ \A s \in Announced : <<"dropped", s>> \notin settled
    BY DEF FoundInv
  <1>. QED
    BY <1>1, <1>2, <1>3, <1>4, <1>5, <1>6, <1>7, <1>8 DEF FoundInv, Alive

LEMMA CrashFinds ==
    ASSUME FoundInv, NEW rest \in Stream, Flows(rest), Carried(rest) \subseteq Carried(chan["child"]),
           child = "none" => rest = Empty, NEW done, KillAndCrash(done, rest)
    PROVE  FoundInv' /\ HostTells
  <1>1. LifeInv' /\ state' # "spawning"
    <2>1. LifeInv'
      BY CrashLives DEF FoundInv
    <2>. QED BY <2>1 DEF KillAndCrash, Over
  <1>2. "initialize" \notin pending'
    BY <1>1 DEF LifeInv
  <1>3. ~(state' = "running" \/ "start" \in jobs') \/ Ready
    BY DEF KillAndCrash, Over, CleanUp, FoundInv
  <1>4. CASE Over
    <2>1. chan' = [chan EXCEPT !["child"] = rest] /\ UNCHANGED runner
      BY <1>4 DEF KillAndCrash
    <2>2. chan'["child"] = rest /\ chan'["host"] = chan["host"] /\ chan' = [side \in Sides |-> chan'[side]]
      BY <2>1 DEF FoundInv, Sides
    <2>3. ChildHeard
      BY <1>2, <2>1, <2>2 DEF ChildHeard, runner
    <2>4. HostTells
      BY <2>2, HostRests
    <2>. QED BY <1>1, <1>3, <2>1, <2>2, <2>3, <2>4, FoundLater DEF runner
  <1>5. CASE ~Over
    <2>1. KillChild(rest)
      BY <1>5 DEF KillAndCrash
    <2>2. /\ ChildHeard /\ chan'["host"] = chan["host"] /\ UNCHANGED <<boot, skills, asked, settled, ran>>
          /\ chan' = [side \in Sides |-> chan'[side]]
      BY <1>2, <2>1, ChildKilled
    <2>3. HostTells
      BY <2>2, HostRests
    <2>. QED BY <1>1, <1>3, <2>2, <2>3, FoundLater
  <1>. QED
    BY <1>4, <1>5


\* The effects on the two channels of what the host sends, reads, or reads and answers.
LEMMA HostSendsFrame ==
    ASSUME FoundInv, LifeInv', NEW kind \in Kinds, NEW about \in Abouts, Send("host", Message(kind, about)),
           kind # "dropped", kind = "invoke" => Ready,
           \/ child' = child /\ ("initialize" \in pending' => "initialize" \in pending)
           \/ child' = "up" /\ chan["child"] = Empty /\ boot = "idle",
           UNCHANGED <<boot, skills, asked, settled, ran>>,
           state' = "running" \/ "start" \in jobs' => Ready
    PROVE  FoundInv' /\ HostTells
  <1>1. /\ chan'["host"] = Sent(chan["host"], Message(kind, about)) /\ chan'["child"] = chan["child"]
        /\ chan' = [side \in Sides |-> chan'[side]]
    BY DEF Send, FoundInv, Sides
  <1>2. HostTells
    BY <1>1, HostWrites
  <1>3. CASE child' = child /\ ("initialize" \in pending' => "initialize" \in pending)
    BY <1>1, <1>2, <1>3, NothingHeard, FoundLater
  <1>4. CASE child' = "up" /\ chan["child"] = Empty /\ boot = "idle"
    <2>1. Led(<<>>) /\ Empty.pipe = <<>> /\ Empty.queue = <<>>
      BY LenProperties DEF Led, Empty
    <2>2. Behind(Empty)
      BY <2>1 DEF Behind
    <2>3. chan' \in [Sides -> Stream] /\ \A side \in Sides : Flows(chan'[side])
      BY <1>1, <1>2 DEF HostTells, FoundInv, Sides
    <2>4. /\ \A m \in Carried(chan'["child"]) : m.kind = "unregister" => m.about \notin Announced
          /\ \A m \in Carried(chan'["host"]) : m.kind = "dropped" => m.about \notin Announced
          /\ \A m \in Carried(chan'["host"]) : m.kind = "invoke" => Ready
      BY <1>1, <1>2 DEF FoundInv, HostTells
    <2>5. /\ Ready' <=> Ready
          /\ \A s : Coming(s)' <=> Coming(s)
      BY DEF Ready, Coming
    <2>. QED BY <1>1, <1>2, <1>4, <2>2, <2>3, <2>4, <2>5 DEF FoundInv, Alive
  <1>. QED
    BY <1>3, <1>4

LEMMA HostReadsFrame ==
    ASSUME FoundInv, LifeInv', Arrived("child"), child' = child, UNCHANGED <<boot, skills, asked, settled, ran>>,
           \/ Take("child")
           \/ \E kind \in {"granted", "denied", "dropped"} :
                 /\ TakeAndSend("child", "host", Message(kind, Received("child").about))
                 /\ kind = "dropped" => Received("child").kind = "unregister",
           "initialize" \in pending' => "initialize" \in pending /\ ~Refused(Received("child")),
           state' = "running" \/ "start" \in jobs' => Ready
    PROVE  FoundInv' /\ HostTells
  <1>1. /\ chan'["child"] = Taken(chan["child"]) /\ chan' = [side \in Sides |-> chan'[side]]
        /\ \/ chan'["host"] = chan["host"]
           \/ \E kind \in {"granted", "denied", "dropped"} :
                 /\ chan'["host"] = Sent(chan["host"], Message(kind, Received("child").about))
                 /\ kind = "dropped" => Received("child").kind = "unregister"
    BY DEF Take, TakeAndSend, FoundInv, Sides
  <1>2. ChildHeard
    BY <1>1, FrameHeard
  <1>3. Received("child") \in Frame /\ Received("child") \in Carried(chan["child"])
    <2>1. chan["child"] \in Stream /\ Flows(chan["child"]) /\ chan["child"].pipe # <<>>
      BY DEF FoundInv, Sides, Arrived
    <2>. QED BY <2>1, StreamTakes DEF Received
  <1>4. Received("child").kind = "unregister" => Received("child").about \notin Announced
    BY <1>3 DEF FoundInv
  <1>5. HostTells
    <2>1. CASE chan'["host"] = chan["host"]
      BY <2>1, HostRests
    <2>2. ASSUME NEW kind \in {"granted", "denied", "dropped"},
                 chan'["host"] = Sent(chan["host"], Message(kind, Received("child").about)),
                 kind = "dropped" => Received("child").kind = "unregister"
          PROVE  HostTells
      <3>1. kind \in Kinds /\ Received("child").about \in Abouts
        BY <1>3 DEF Kinds, Frame, Abouts
      <3>. QED BY <1>4, <2>2, <3>1, HostWrites
    <2>. QED BY <1>1, <2>1, <2>2
  <1>. QED
    BY <1>1, <1>2, <1>5, FoundLater

LEMMA HostIdles ==
    ASSUME FoundInv, LifeInv', UNCHANGED <<runner, chan>>, "initialize" \in pending' => "initialize" \in pending,
           state' = "running" \/ "start" \in jobs' => Ready
    PROVE  FoundInv' /\ HostTells
  <1>1. chan' = [side \in Sides |-> chan'[side]]
    BY DEF FoundInv
  <1>. QED
    BY <1>1, HostRests, NothingHeard, FoundLater DEF runner

LEMMA HostFinds ==
    ASSUME FoundInv, HostStep
    PROVE  FoundInv' /\ HostTells
  <1>1. LifeInv /\ LifeInv'
    BY HostLives DEF FoundInv
  <1>2. chan["child"] \in Stream /\ Flows(chan["child"]) /\ (child = "none" => chan["child"] = Empty)
    BY DEF FoundInv, Sides
  <1>3. ASSUME NEW done, KillAndCrash(done, chan["child"]) PROVE FoundInv' /\ HostTells
    BY <1>2, <1>3, CrashFinds
  <1>4. ASSUME KillChild(chan["child"]), "initialize" \in pending' => "initialize" \in pending,
               state' = "running" \/ "start" \in jobs' => Ready
        PROVE  FoundInv' /\ HostTells
    <2>1. /\ ChildHeard /\ chan'["host"] = chan["host"] /\ UNCHANGED <<boot, skills, asked, settled, ran>>
          /\ chan' = [side \in Sides |-> chan'[side]]
      BY <1>2, <1>4, ChildKilled
    <2>. QED BY <1>1, <1>4, <2>1, HostRests, FoundLater
  <1>5. state = "running" \/ "start" \in jobs => Ready
    BY DEF FoundInv
  <1>6. \A kind \in {"initialize", "heartbeat", "shutdown", "invoke"} : kind \in Kinds
    BY DEF Kinds
  <1>7. "host" \in Abouts /\ Calls \subseteq Abouts
    BY DEF Abouts
  <1>8. CASE Start
    <2>1. Send("host", Message("initialize", "host")) /\ child' = "up" /\ chan["child"] = Empty /\ boot = "idle"
      BY <1>8 DEF Start, FoundInv
    <2>2. UNCHANGED <<boot, skills, asked, settled, ran, state, jobs>>
      BY <1>8 DEF Start
    <2>. QED BY <1>1, <1>5, <1>6, <1>7, <2>1, <2>2, HostSendsFrame
  <1>9. CASE HostReads
    <2> DEFINE m == Received("child")
    <2>1. Arrived("child") /\ chan["child"].pipe # <<>>
      BY <1>9 DEF HostReads, Arrived
    <2>2. CASE state = "stopped"
      <3>1. Take("child") /\ UNCHANGED <<host, runner>> /\ "initialize" \notin pending
        BY <1>1, <1>9, <2>2 DEF HostReads, LifeInv
      <3>. QED BY <1>1, <1>5, <2>1, <3>1, HostReadsFrame DEF host, runner
    <2>3. CASE m.kind \in {"answer", "failed"} /\ Response(m.about, m.kind) /\ UNCHANGED runner
      <3>1. PICK r : r = m.about
        OBVIOUS
      <3>2. PICK answer : answer = m.kind
        OBVIOUS
      <3>3. /\ Take("child") /\ pending' = pending \ {r} /\ state' = state
            /\ jobs' = jobs \cup (IF r \in pending THEN Resumed(r, answer) ELSE {})
        BY <2>3, <3>1, <3>2 DEF Response
      <3>4. "start" \in jobs' => "start" \in jobs \/ ("initialize" \in pending /\ r = "initialize" /\ answer = "answer")
        BY <3>3 DEF Resumed
      <3>5. "initialize" \in pending /\ r = "initialize" /\ answer = "answer" => Ready
        <4> SUFFICES ASSUME "initialize" \in pending, r = "initialize", answer = "answer", ~Ready PROVE FALSE
          OBVIOUS
        <4>1. Behind(chan["child"]) /\ Begun(m)
          BY <3>1, <3>2 DEF FoundInv, Begun
        <4>. QED BY <1>2, <2>1, <4>1, StreamTakes DEF Received
      <3>6. "initialize" \in pending' => "initialize" \in pending /\ ~Refused(m)
        BY <2>3, <3>1, <3>2, <3>3 DEF Refused
      <3>. QED BY <1>1, <1>5, <2>1, <2>3, <3>3, <3>4, <3>5, <3>6, HostReadsFrame DEF runner
    <2>4. CASE m.kind = "register" /\ RegisterSkill(m.about) /\ UNCHANGED runner
      <3>1. PICK kind \in {"granted", "denied"} : TakeAndSend("child", "host", Message(kind, m.about))
        BY <2>4 DEF RegisterSkill
      <3>2. UNCHANGED <<state, pending, jobs>> /\ ~Refused(m)
        BY <2>4 DEF RegisterSkill, Refused
      <3>. QED BY <1>1, <1>5, <2>1, <2>4, <3>1, <3>2, HostReadsFrame DEF runner
    <2>5. CASE m.kind = "unregister" /\ UnregisterSkill(m.about) /\ UNCHANGED runner
      <3>1. TakeAndSend("child", "host", Message("dropped", m.about))
        BY <2>5 DEF UnregisterSkill
      <3>2. UNCHANGED <<state, pending, jobs>> /\ ~Refused(m)
        BY <2>5 DEF UnregisterSkill, Refused
      <3>. QED BY <1>1, <1>5, <2>1, <2>5, <3>1, <3>2, HostReadsFrame DEF runner
    <2>6. CASE KillAndCrash({}, Taken(chan["child"]))
      <3>1. PICK t : t = Taken(chan["child"])
        OBVIOUS
      <3>2. t \in Stream /\ Flows(t) /\ Carried(t) \subseteq Carried(chan["child"])
        BY <1>2, <2>1, <3>1, StreamTakes
      <3>3. child # "none"
        BY <1>2, <2>1 DEF Empty
      <3>. QED BY <2>6, <3>1, <3>2, <3>3, CrashFinds
    <2>. QED BY <1>9, <2>2, <2>3, <2>4, <2>5, <2>6 DEF HostReads
  <1>10. CASE Started
    BY <1>1, <1>5, <1>10, HostIdles DEF Started
  <1>11. CASE StartFails
    BY <1>3, <1>11 DEF StartFails
  <1>12. CASE \E r \in Requests : RequestTimesOut(r)
    BY <1>3, <1>12 DEF RequestTimesOut
  <1>13. CASE Ping
    <2>1. CASE open
      <3>1. Send("host", Message("heartbeat", "host")) /\ pending' = pending \cup {"heartbeat"} /\ UNCHANGED <<state, jobs, runner>>
        BY <1>13, <2>1 DEF Ping
      <3>. QED BY <1>1, <1>5, <1>6, <1>7, <3>1, HostSendsFrame DEF runner
    <2>2. CASE ~open
      BY <1>3, <1>13, <2>2 DEF Ping
    <2>. QED BY <2>1, <2>2
  <1>14. CASE \E c \in Calls : Capture(c) \/ Invoke(c) \/ CallTimesOut(c)
    <2>1. PICK c \in Calls : Capture(c) \/ Invoke(c) \/ CallTimesOut(c)
      BY <1>14
    <2>2. CASE Capture(c)
      BY <1>1, <1>5, <2>2, HostIdles DEF Capture
    <2>3. CASE Invoke(c)
      <3>1. UNCHANGED <<state, jobs, runner>> /\ c # "initialize"
        BY <2>3, PluginAssumption DEF Invoke
      <3>2. CASE state = "running" /\ open
        <4>1. Send("host", Message("invoke", c)) /\ pending' = pending \cup {c} /\ Ready
          BY <1>5, <2>3, <3>2 DEF Invoke
        <4>. QED BY <1>1, <1>5, <1>6, <1>7, <3>1, <4>1, HostSendsFrame DEF runner
      <3>3. CASE ~(state = "running" /\ open)
        <4>1. UNCHANGED <<pending, chan>>
          BY <2>3, <3>3 DEF Invoke
        <4>. QED BY <1>1, <1>5, <3>1, <4>1, HostIdles
      <3>. QED BY <3>2, <3>3
    <2>4. CASE CallTimesOut(c)
      BY <1>4, <2>4 DEF CallTimesOut
    <2>. QED BY <2>1, <2>2, <2>3, <2>4
  <1>15. CASE Shutdown
    <2>1. CASE state = "running" /\ open
      <3>1. Send("host", Message("shutdown", "host")) /\ pending' = pending \cup {"shutdown"} /\ UNCHANGED <<state, jobs, runner>>
        BY <1>15, <2>1 DEF Shutdown
      <3>. QED BY <1>1, <1>5, <1>6, <1>7, <3>1, HostSendsFrame DEF runner
    <2>2. CASE ~(state = "running" /\ open)
      <3>1. pending' = {} /\ state' = "stopped" /\ ("start" \in jobs' => "start" \in jobs) /\ UNCHANGED <<runner, chan>>
        BY <1>15, <2>2 DEF Shutdown, CleanUp
      <3>. QED BY <1>1, <1>5, <3>1, HostIdles
    <2>. QED BY <2>1, <2>2
  <1>16. CASE ShutdownGoesOn
    BY <1>1, <1>5, <1>16, HostIdles DEF ShutdownGoesOn
  <1>17. CASE ShutdownEnds
    BY <1>4, <1>5, <1>17 DEF ShutdownEnds
  <1>18. CASE Kill
    <2>1. KillChild(chan["child"]) /\ pending' = {} /\ state' = "stopped" /\ ("start" \in jobs' => "start" \in jobs)
      BY <1>18 DEF Kill, CleanUp
    <2>. QED BY <1>4, <1>5, <2>1
  <1>19. CASE ChannelFails
    <2>1. Empty \in Stream /\ Flows(Empty) /\ Carried(Empty) = {}
      BY LenProperties, StreamAssumption DEF Empty, Stream, Flows, Carried, Held
    <2>. QED BY <1>19, <2>1, CrashFinds DEF ChannelFails
  <1>. QED
    BY <1>8, <1>9, <1>10, <1>11, <1>12, <1>13, <1>14, <1>15, <1>16, <1>17, <1>18, <1>19 DEF HostStep


\* What a step of the child does to the channel it writes: ms joins it, which may be nothing.
Says(ms) ==
    /\ ms \in Seq(Frame)
    /\ chan'["child"] = Sent(chan["child"], ms) \/ (ms = <<>> /\ chan'["child"] = chan["child"])
    /\ \A m \in Held(ms) : m.kind = "unregister" => m.about \notin Announced

LEMMA RunnerLater ==
    ASSUME FoundInv, Alive, child' \in {"up", "exiting"}, UNCHANGED host, ran' \in [Calls -> Nat],
           chan' = [side \in Sides |-> chan'[side]],
           chan'["host"] = chan["host"] \/ (Arrived("host") /\ chan'["host"] = Taken(chan["host"])),
           NEW ms, Says(ms),
           "initialize" \in pending =>
               \A m \in Held(ms) : Begun(m) => Ready' \/ \E n \in Carried(chan["child"]) : Refused(n),
           Ready => Ready',
           \A s \in Announced : <<"dropped", s>> \notin settled',
           "initialize" \in pending /\ boot' = "activating" =>
               \/ \E m \in Held(ms) : Refused(m)
               \/ boot = "activating" /\ \A s \in Announced : Coming(s) => Coming(s)'
               \/ \A s \in Announced : Coming(s)'
    PROVE  FoundInv'
  <1>1. LifeInv' /\ UNCHANGED <<state, pending, jobs>>
    BY DEF FoundInv, LifeInv, host
  <1>2. chan["host"] \in Stream /\ Flows(chan["host"]) /\ chan["child"] \in Stream /\ Flows(chan["child"])
    BY DEF FoundInv, Sides
  <1>3. chan'["host"] \in Stream /\ Flows(chan'["host"]) /\ Carried(chan'["host"]) \subseteq Carried(chan["host"])
    <2>1. PICK t : t = Taken(chan["host"])
      OBVIOUS
    <2>2. Arrived("host") => t \in Stream /\ Flows(t) /\ Carried(t) \subseteq Carried(chan["host"])
      BY <1>2, <2>1, StreamTakes DEF Arrived
    <2>. QED BY <1>2, <2>1, <2>2
  <1>4. /\ chan'["child"] \in Stream /\ Flows(chan'["child"])
        /\ Carried(chan'["child"]) = Carried(chan["child"]) \cup Held(ms)
        /\ Behind(chan["child"]) /\ (Led(ms) \/ \E m \in Carried(chan["child"]) : Refused(m)) => Behind(chan'["child"])
    <2>1. CASE chan'["child"] = Sent(chan["child"], ms)
      <3>1. PICK t : t = Sent(chan["child"], ms)
        OBVIOUS
      <3>2. /\ t \in Stream /\ Flows(t) /\ Carried(t) = Carried(chan["child"]) \cup Held(ms)
            /\ Behind(chan["child"]) /\ (Led(ms) \/ \E m \in Carried(chan["child"]) : Refused(m)) => Behind(t)
        BY <1>2, <3>1, StreamSends DEF Says
      <3>. QED BY <2>1, <3>1, <3>2
    <2>2. CASE ms = <<>> /\ chan'["child"] = chan["child"]
      <3>1. Held(ms) = {}
        BY <2>2, LenProperties DEF Held
      <3>. QED BY <1>2, <2>2, <3>1
    <2>. QED BY <2>1, <2>2 DEF Says
  <1>5. /\ \A m \in Carried(chan'["child"]) : m.kind = "unregister" => m.about \notin Announced
        /\ \A m \in Carried(chan'["host"]) : m.kind = "dropped" => m.about \notin Announced
        /\ \A m \in Carried(chan'["host"]) : m.kind = "invoke" => Ready'
    BY <1>3, <1>4 DEF FoundInv, Says
  <1>6. state = "running" \/ "start" \in jobs => Ready'
    BY DEF FoundInv
  <1>7. "initialize" \in pending => Ready' \/ Behind(chan'["child"])
    <2> SUFFICES ASSUME "initialize" \in pending, ~Ready' PROVE Behind(chan'["child"])
      OBVIOUS
    <2>1. Behind(chan["child"])
      BY DEF FoundInv
    <2>2. Led(ms) \/ \E n \in Carried(chan["child"]) : Refused(n)
      BY DEF Led, Held
    <2>. QED BY <1>4, <2>1, <2>2
  <1>8. "initialize" \in pending /\ boot' = "activating" =>
          \/ \E m \in Carried(chan'["child"]) : Refused(m)
          \/ \A s \in Announced : Coming(s)'
    BY <1>4 DEF FoundInv
  <1>. QED
    BY <1>1, <1>3, <1>4, <1>5, <1>6, <1>7, <1>8 DEF FoundInv, Sides

\* The child's process ends: what the stream holds in its memory is lost.
LEMMA RunnerEnds ==
    ASSUME FoundInv, Alive, child' = "dead", chan' = [chan EXCEPT !["child"] = Truncated(@)],
           UNCHANGED <<boot, skills, asked, settled, ran, host>>
    PROVE  FoundInv'
  <1>1. LifeInv' /\ UNCHANGED <<state, pending, jobs>>
    BY DEF FoundInv, LifeInv, host
  <1>2. PICK t : t = Truncated(chan["child"])
    OBVIOUS
  <1>3. /\ t \in Stream /\ Flows(t) /\ Carried(t) \subseteq Carried(chan["child"])
        /\ Behind(chan["child"]) => Behind(t)
    BY <1>2, StreamEnds DEF FoundInv, Sides
  <1>4. chan'["child"] = t /\ chan'["host"] = chan["host"] /\ chan' = [side \in Sides |-> chan'[side]]
    BY <1>2 DEF FoundInv, Sides
  <1>5. chan' \in [Sides -> Stream] /\ \A side \in Sides : Flows(chan'[side])
    BY <1>3, <1>4 DEF FoundInv, Sides
  <1>6. Ready' <=> Ready
    BY DEF Ready
  <1>7. "initialize" \in pending => Ready \/ Behind(t)
    BY <1>3 DEF FoundInv
  <1>8. \A m \in Carried(t) : m.kind = "unregister" => m.about \notin Announced
    BY <1>3 DEF FoundInv
  <1>. QED
    BY <1>1, <1>4, <1>5, <1>6, <1>7, <1>8 DEF FoundInv, Alive


\* One frame joins what the child writes.
LEMMA SaysOne ==
    ASSUME FoundInv, NEW kind \in Kinds, NEW about \in Abouts, kind = "unregister" => about \notin Announced,
           chan'["child"] = Sent(chan["child"], Message(kind, about))
    PROVE  \E ms : Says(ms) /\ Held(ms) = {[kind |-> kind, about |-> about]}
  <1>1. PICK ms \in Seq(Frame) : ms = Message(kind, about) /\ Held(ms) = {[kind |-> kind, about |-> about]}
    BY OneFrame
  <1>2. chan'["child"] = Sent(chan["child"], ms)
    BY <1>1
  <1>. QED
    BY <1>1, <1>2 DEF Says

LEMMA SaysNoFrame ==
    ASSUME FoundInv, NEW ms, ms = <<>>, chan'["child"] = chan["child"]
    PROVE  Says(ms) /\ Held(ms) = {}
  <1>1. Held(ms) = {}
    BY LenProperties DEF Held
  <1>2. ms \in Seq(Frame)
    OBVIOUS
  <1>. QED
    BY <1>1, <1>2 DEF Says

\* What the runner does with a frame of the host.
LEMMA ReadingFinds ==
    ASSUME FoundInv, RunnerReads, UNCHANGED host
    PROVE  FoundInv'
  <1> DEFINE m == Received("host")
  <1>1. Alive /\ Arrived("host") /\ child \in {"up", "exiting"}
    BY DEF RunnerReads, Alive
  <1>2. m \in Frame /\ m \in Carried(chan["host"])
    <2>1. chan["host"] \in Stream /\ Flows(chan["host"]) /\ chan["host"].pipe # <<>>
      BY <1>1 DEF FoundInv, Sides, Arrived
    <2>. QED BY <2>1, StreamTakes DEF Received
  <1>3. m.about \in Abouts
    BY <1>2 DEF Frame, Abouts
  <1>4. ASSUME NEW ms, TakeAndSend("host", "child", ms)
        PROVE  /\ chan' = [side \in Sides |-> chan'[side]] /\ chan'["host"] = Taken(chan["host"])
               /\ chan'["child"] = Sent(chan["child"], ms)
    BY <1>4 DEF TakeAndSend, FoundInv, Sides
  <1>5. ASSUME Take("host")
        PROVE  /\ chan' = [side \in Sides |-> chan'[side]] /\ chan'["host"] = Taken(chan["host"])
               /\ \E ms : ms = <<>> /\ Says(ms) /\ Held(ms) = {}
    <2>1. /\ chan' = [side \in Sides |-> chan'[side]] /\ chan'["host"] = Taken(chan["host"])
          /\ chan'["child"] = chan["child"]
      BY <1>5 DEF Take, FoundInv, Sides
    <2>2. PICK ms : ms = <<>>
      OBVIOUS
    <2>3. chan'["child"] = chan["child"]
      BY <2>1
    <2>4. Says(ms) /\ Held(ms) = {}
      BY <2>2, <2>3, SaysNoFrame
    <2>. QED BY <2>1, <2>2, <2>4
  <1>6. ran \in [Calls -> Nat] /\ \A s \in Announced : <<"dropped", s>> \notin settled
    BY DEF FoundInv
  <1>7. \A kind \in {"failed", "answer", "crash"} : kind \in Kinds /\ kind # "unregister"
    BY DEF Kinds
  <1>8. CASE Initialize
    <2>1. boot = "idle" /\ ~Ready /\ UNCHANGED <<skills, settled, ran>>
      BY <1>8 DEF Initialize, Ready
    <2>2. CASE boot' = "activating"
      <3>1. PICK S : S = {[kind |-> "register", about |-> s] : s \in Announced}
        OBVIOUS
      <3>2. PICK ms : ms = SetToSeq(S)
        OBVIOUS
      <3>3. ms \in Seq(Frame) /\ \A i \in 1..Len(ms) : ms[i].kind = "register"
        BY <3>1, <3>2, AnnouncementFacts
      <3>4. asked' = Announced /\ TakeAndSend("host", "child", ms) /\ child' = child
        BY <1>8, <2>1, <2>2, <3>1, <3>2 DEF Initialize
      <3>5. \A k \in Held(ms) : k.kind = "register"
        BY <3>3 DEF Held
      <3>6. Says(ms) /\ \A k \in Held(ms) : ~Begun(k)
        BY <1>4, <3>3, <3>4, <3>5 DEF Says, Begun
      <3>7. \A s \in Announced : Coming(s)'
        BY <3>4 DEF Coming
      <3>. QED BY <1>1, <1>4, <1>6, <2>1, <3>4, <3>6, <3>7, RunnerLater
    <2>3. CASE boot' # "activating"
      <3>1. TakeAndSend("host", "child", Message("failed", "initialize")) /\ child' = "exiting"
        BY <1>8, <2>3 DEF Initialize
      <3>2. "initialize" \in Abouts
        BY DEF Abouts
      <3>3. PICK ms : Says(ms) /\ Held(ms) = {[kind |-> "failed", about |-> "initialize"]}
        BY <1>4, <1>7, <3>1, <3>2, SaysOne
      <3>4. \A k \in Held(ms) : ~Begun(k)
        BY <3>3 DEF Begun
      <3>. QED BY <1>1, <1>4, <1>6, <2>1, <2>3, <3>1, <3>3, <3>4, RunnerLater
    <2>. QED BY <2>2, <2>3
  <1>9. CASE InvokeSkill(m.about)
    <2>1. PICK c : c = m.about
      OBVIOUS
    <2>2. CASE boot = "active" /\ SkillOf[c] \in skills
      <3>1. Take("host") /\ UNCHANGED <<child, boot, skills, asked, settled>> /\ ran' = [ran EXCEPT ![c] = @ + 1]
        BY <1>9, <2>1, <2>2 DEF InvokeSkill
      <3>2. ran' \in [Calls -> Nat]
        <4>1. c \in Calls => ran[c] + 1 \in Nat
          BY <1>6
        <4>2. ran' = [d \in Calls |-> IF d = c THEN ran[c] + 1 ELSE ran[d]]
          BY <1>6, <3>1
        <4>. QED BY <1>6, <4>1, <4>2
      <3>3. Ready' <=> Ready
        BY <3>1 DEF Ready
      <3>. QED BY <1>1, <1>5, <1>6, <2>2, <3>1, <3>2, <3>3, RunnerLater
    <2>3. CASE ~(boot = "active" /\ SkillOf[c] \in skills)
      <3>1. TakeAndSend("host", "child", Message("failed", c)) /\ UNCHANGED runner
        BY <1>9, <2>1, <2>3 DEF InvokeSkill
      <3>2. PICK ms : Says(ms) /\ Held(ms) = {[kind |-> "failed", about |-> c]}
        BY <1>3, <1>4, <1>7, <2>1, <3>1, SaysOne
      <3>3. \A k \in Held(ms) : ~Begun(k)
        BY <3>2 DEF Begun
      <3>4. (Ready' <=> Ready) /\ \A s : Coming(s)' <=> Coming(s)
        BY <3>1 DEF Ready, Coming, runner
      <3>. QED BY <1>1, <1>4, <1>6, <3>1, <3>2, <3>3, <3>4, RunnerLater DEF runner
    <2>. QED BY <2>2, <2>3
  <1>10. CASE m.kind \in {"granted", "denied", "dropped"} /\ HostAnswers(m.kind, m.about)
    <2>1. PICK s : s = m.about
      OBVIOUS
    <2>2. PICK answer \in {"granted", "denied", "dropped"} : answer = m.kind
      BY <1>10
    <2>3. /\ Take("host") /\ asked' = asked \ {s} /\ UNCHANGED <<child, boot, skills, ran>>
          /\ settled' = IF s \in asked THEN settled \cup {<<answer, s>>} ELSE settled
      BY <1>10, <2>1, <2>2 DEF HostAnswers
    <2>4. answer = "dropped" => s \notin Announced
      BY <1>2, <2>1, <2>2 DEF FoundInv
    <2>5. \A t \in Announced : <<"dropped", t>> \notin settled'
      BY <1>6, <2>3, <2>4
    <2>6. \A t \in Announced : Coming(t) => Coming(t)'
      BY <2>2, <2>3, <2>4 DEF Coming
    <2>7. Ready' <=> Ready
      BY <2>3 DEF Ready
    <2>. QED BY <1>1, <1>5, <1>6, <2>3, <2>5, <2>6, <2>7, RunnerLater
  <1>11. CASE AnswerHeartbeat
    <2>1. TakeAndSend("host", "child", Message("answer", "heartbeat")) /\ UNCHANGED runner /\ "heartbeat" \in Abouts
      BY <1>11 DEF AnswerHeartbeat, Abouts
    <2>2. PICK ms : Says(ms) /\ Held(ms) = {[kind |-> "answer", about |-> "heartbeat"]}
      BY <1>4, <1>7, <2>1, SaysOne
    <2>3. \A k \in Held(ms) : ~Begun(k)
      BY <2>2 DEF Begun
    <2>4. (Ready' <=> Ready) /\ \A s : Coming(s)' <=> Coming(s)
      BY <2>1 DEF Ready, Coming, runner
    <2>. QED BY <1>1, <1>4, <1>6, <2>1, <2>2, <2>3, <2>4, RunnerLater DEF runner
  <1>12. CASE AcknowledgeShutdown
    <2>1. /\ TakeAndSend("host", "child", Message("answer", "shutdown")) /\ "shutdown" \in Abouts /\ child' = "exiting"
          /\ UNCHANGED <<boot, skills, asked, settled, ran>>
      BY <1>12 DEF AcknowledgeShutdown, Abouts
    <2>2. PICK ms : Says(ms) /\ Held(ms) = {[kind |-> "answer", about |-> "shutdown"]}
      BY <1>4, <1>7, <2>1, SaysOne
    <2>3. \A k \in Held(ms) : ~Begun(k)
      BY <2>2 DEF Begun
    <2>4. (Ready' <=> Ready) /\ \A s : Coming(s)' <=> Coming(s)
      BY <2>1 DEF Ready, Coming
    <2>. QED BY <1>1, <1>4, <1>6, <2>1, <2>2, <2>3, <2>4, RunnerLater
  <1>. QED
    BY <1>8, <1>9, <1>10, <1>11, <1>12 DEF RunnerReads


\* Everything else that the child does leaves its stdin as it is.
LEMMA RunnerFinds ==
    ASSUME FoundInv, RunnerStep, UNCHANGED host
    PROVE  FoundInv' /\ (RunnerReads \/ chan'["host"] = chan["host"])
  <1>1. ran \in [Calls -> Nat] /\ \A s \in Announced : <<"dropped", s>> \notin settled
    BY DEF FoundInv
  <1>2. ASSUME NEW ms, Send("child", ms)
        PROVE  /\ chan' = [side \in Sides |-> chan'[side]] /\ chan'["host"] = chan["host"]
               /\ chan'["child"] = Sent(chan["child"], ms)
    BY <1>2 DEF Send, FoundInv, Sides
  <1>3. ASSUME UNCHANGED chan
        PROVE  /\ chan' = [side \in Sides |-> chan'[side]] /\ chan'["host"] = chan["host"]
               /\ \E ms : ms = <<>> /\ Says(ms) /\ Held(ms) = {}
    <2>1. chan' = [side \in Sides |-> chan'[side]] /\ chan'["host"] = chan["host"] /\ chan'["child"] = chan["child"]
      BY <1>3 DEF FoundInv
    <2>2. PICK ms : ms = <<>>
      OBVIOUS
    <2>3. chan'["child"] = chan["child"]
      BY <2>1
    <2>4. Says(ms) /\ Held(ms) = {}
      BY <2>2, <2>3, SaysNoFrame
    <2>. QED BY <2>1, <2>2, <2>4
  <1>4. {"failed", "answer", "crash", "register", "unregister"} \subseteq Kinds
    BY DEF Kinds
  <1>5. {"host", "initialize"} \subseteq Abouts /\ Calls \subseteq Abouts /\ Skills \subseteq Abouts
    BY DEF Abouts
  <1>6. CASE RunnerReads
    BY <1>6, ReadingFinds
  <1>7. CASE GoOn
    <2>1. Alive /\ UNCHANGED <<boot, asked, ran>> /\ child' \in {"up", "exiting"}
      BY <1>7 DEF GoOn, Alive
    <2>2. PICK answer \in {"granted", "denied", "dropped"}, s \in Skills :
             /\ <<answer, s>> \in settled /\ settled' = settled \ {<<answer, s>>}
             /\ \/ answer = "granted" /\ skills' = skills \cup {s} /\ UNCHANGED <<child, chan>>
                \/ answer = "dropped" /\ skills' = skills \ {s} /\ UNCHANGED <<child, chan>>
                \/ /\ answer = "denied" /\ UNCHANGED skills
                   /\ \/ Send("child", Message("crash", "host"))
                      \/ boot = "activating" /\ Send("child", Message("failed", "initialize"))
      BY <1>7 DEF GoOn
    <2>3. \A t \in Announced : <<"dropped", t>> \notin settled'
      BY <1>1, <2>2
    <2>4. CASE answer = "denied"
      <3>1. skills' = skills /\ (Ready' <=> Ready)
        BY <2>1, <2>2, <2>4 DEF Ready
      <3>2. PICK kind \in {"crash", "failed"}, about \in {"host", "initialize"} :
               /\ Send("child", Message(kind, about))
               /\ kind = "failed" => about = "initialize"
        BY <2>2, <2>4
      <3>3. chan'["child"] = Sent(chan["child"], Message(kind, about))
        BY <1>2, <3>2
      <3>4. PICK ms : Says(ms) /\ Held(ms) = {[kind |-> kind, about |-> about]}
        BY <1>4, <1>5, <3>3, SaysOne
      <3>5. \A m \in Held(ms) : Refused(m) /\ ~Begun(m)
        BY <3>2, <3>4 DEF Refused, Begun
      <3>6. \E m \in Held(ms) : Refused(m)
        BY <3>4, <3>5
      <3>. QED BY <1>1, <1>2, <2>1, <2>3, <3>1, <3>2, <3>4, <3>5, <3>6, RunnerLater
    <2>5. CASE answer # "denied"
      <3>1. UNCHANGED <<child, chan>>
        BY <2>2, <2>5
      <3>2. PICK ms : ms = <<>> /\ Says(ms) /\ Held(ms) = {}
        BY <1>3, <3>1
      <3>3. answer = "dropped" => s \notin Announced
        BY <1>1, <2>2
      <3>4. Ready => Ready'
        BY <2>1, <2>2, <3>3 DEF Ready
      <3>5. ASSUME NEW t \in Announced, Coming(t) PROVE Coming(t)'
        <4>1. CASE answer = "granted"
          <5>1. skills' = skills \cup {s} /\ settled' = settled \ {<<"granted", s>>} /\ asked' = asked
            BY <2>1, <2>2, <4>1
          <5>. QED BY <3>5, <5>1 DEF Coming
        <4>2. CASE answer = "dropped"
          <5>1. skills' = skills \ {s} /\ settled' = settled \ {<<"dropped", s>>} /\ asked' = asked /\ t # s
            BY <2>1, <2>2, <3>3, <4>2
          <5>. QED BY <3>5, <5>1 DEF Coming
        <4>. QED BY <2>2, <2>5, <4>1, <4>2
      <3>. QED BY <1>1, <1>3, <2>1, <2>3, <3>1, <3>2, <3>4, <3>5, RunnerLater
    <2>. QED BY <2>4, <2>5
  <1>8. CASE Activate
    <2>1. /\ Alive /\ settled = {} /\ boot = "activating" /\ asked = {} /\ boot' = "active"
          /\ Send("child", Message("answer", "initialize")) /\ UNCHANGED <<child, skills, asked, settled, ran>>
      BY <1>8 DEF Activate, Quiet
    <2>2. PICK ms : Says(ms) /\ Held(ms) = {[kind |-> "answer", about |-> "initialize"]}
      BY <1>2, <1>4, <1>5, <2>1, SaysOne
    <2>3. "initialize" \in pending => Ready' \/ \E n \in Carried(chan["child"]) : Refused(n)
      <3> SUFFICES ASSUME "initialize" \in pending, ~\E n \in Carried(chan["child"]) : Refused(n) PROVE Ready'
        OBVIOUS
      <3>1. \A s \in Announced : Coming(s)
        BY <2>1 DEF FoundInv
      <3>2. \A s \in Announced : s \in skills
        BY <2>1, <3>1 DEF Coming
      <3>. QED BY <2>1, <3>2 DEF Ready
    <2>4. ~Ready
      BY <2>1 DEF Ready
    <2>5. child' \in {"up", "exiting"} /\ boot' # "activating"
      BY <2>1 DEF Alive
    <2>. QED BY <1>1, <1>2, <2>1, <2>2, <2>3, <2>4, <2>5, RunnerLater
  <1>9. CASE \E c \in Calls : HandlerEnds(c)
    <2>1. PICK c \in Calls : HandlerEnds(c)
      BY <1>9
    <2>2. PICK outcome \in {"answer", "failed"} : Send("child", Message(outcome, c))
      BY <2>1 DEF HandlerEnds
    <2>3. Alive /\ child' \in {"up", "exiting"} /\ UNCHANGED <<child, boot, skills, asked, settled, ran>>
      BY <2>1 DEF HandlerEnds, Quiet, Alive
    <2>4. PICK ms : Says(ms) /\ Held(ms) = {[kind |-> outcome, about |-> c]}
      BY <1>2, <1>4, <1>5, <2>2, SaysOne
    <2>5. \A m \in Held(ms) : ~Begun(m)
      BY <2>4, PluginAssumption DEF Begun
    <2>6. (Ready' <=> Ready) /\ \A s : Coming(s)' <=> Coming(s)
      BY <2>3 DEF Ready, Coming
    <2>. QED BY <1>1, <1>2, <2>2, <2>3, <2>4, <2>5, <2>6, RunnerLater
  <1>10. CASE \E s \in Skills : LateSkill(s) \/ GiveUp(s)
    <2>1. PICK s \in Skills : LateSkill(s) \/ GiveUp(s)
      BY <1>10
    <2>2. CASE LateSkill(s)
      <3>1. /\ s \notin Announced /\ asked' = asked \cup {s} /\ Alive /\ child' \in {"up", "exiting"}
            /\ UNCHANGED <<child, boot, skills, settled, ran>>
        BY <2>2 DEF LateSkill, Quiet, Alive
      <3>2. PICK kind \in {"register", "unregister"} : Send("child", Message(kind, s))
        BY <2>2 DEF LateSkill
      <3>3. PICK ms : Says(ms) /\ Held(ms) = {[kind |-> kind, about |-> s]}
        BY <1>2, <1>4, <1>5, <3>1, <3>2, SaysOne
      <3>4. \A m \in Held(ms) : ~Begun(m)
        BY <3>3 DEF Begun
      <3>5. (Ready' <=> Ready) /\ \A t : Coming(t) => Coming(t)'
        BY <3>1 DEF Ready, Coming
      <3>. QED BY <1>1, <1>2, <3>1, <3>2, <3>3, <3>4, <3>5, RunnerLater
    <2>3. CASE GiveUp(s)
      <3>1. /\ asked' = asked \ {s} /\ settled = {} /\ settled' = {<<"denied", s>>}
            /\ Alive /\ child' \in {"up", "exiting"} /\ UNCHANGED <<child, boot, skills, ran, chan>>
        BY <2>3 DEF GiveUp, Quiet, Alive
      <3>2. PICK ms : ms = <<>> /\ Says(ms) /\ Held(ms) = {}
        BY <1>3, <3>1
      <3>3. (Ready' <=> Ready) /\ \A t : Coming(t) => Coming(t)'
        BY <3>1 DEF Ready, Coming
      <3>4. \A t \in Announced : <<"dropped", t>> \notin settled'
        BY <3>1
      <3>. QED BY <1>1, <1>3, <3>1, <3>2, <3>3, <3>4, RunnerLater
    <2>. QED BY <2>1, <2>2, <2>3
  <1>11. CASE Uncaught
    <2>1. /\ Alive /\ child' = "exiting" /\ Send("child", Message("crash", "host"))
          /\ UNCHANGED <<boot, skills, asked, settled, ran>>
      BY <1>11 DEF Uncaught, Quiet
    <2>2. PICK ms : Says(ms) /\ Held(ms) = {[kind |-> "crash", about |-> "host"]}
      BY <1>2, <1>4, <1>5, <2>1, SaysOne
    <2>3. \A m \in Held(ms) : ~Begun(m)
      BY <2>2 DEF Begun
    <2>4. (Ready' <=> Ready) /\ \A t : Coming(t) => Coming(t)'
      BY <2>1 DEF Ready, Coming
    <2>. QED BY <1>1, <1>2, <2>1, <2>2, <2>3, <2>4, RunnerLater
  <1>12. CASE StdinEnds
    <2>1. Alive /\ child' = "exiting" /\ UNCHANGED <<boot, skills, asked, settled, ran, chan>>
      BY <1>12 DEF StdinEnds, Quiet
    <2>2. PICK ms : ms = <<>> /\ Says(ms) /\ Held(ms) = {}
      BY <1>3, <2>1
    <2>3. (Ready' <=> Ready) /\ \A t : Coming(t) => Coming(t)'
      BY <2>1 DEF Ready, Coming
    <2>. QED BY <1>1, <1>3, <2>1, <2>2, <2>3, RunnerLater
  <1>13. CASE Exit \/ KilledFromOutside
    <2>1. /\ Alive /\ child' = "dead" /\ chan' = [chan EXCEPT !["child"] = Truncated(@)]
          /\ UNCHANGED <<boot, skills, asked, settled, ran>>
      BY <1>13 DEF Exit, KilledFromOutside, Alive
    <2>2. chan'["host"] = chan["host"]
      BY <2>1 DEF FoundInv, Sides
    <2>. QED BY <2>1, <2>2, RunnerEnds
  <1>. QED
    BY <1>6, <1>7, <1>8, <1>9, <1>10, <1>11, <1>12, <1>13 DEF RunnerStep

\* The runner awaits the round-trips of activate before it answers initialize, and a
\* denied one ends it: the host hands a call to a sandbox only when every skill that
\* activate announced is in the sandbox's Map, whatever the plugin and the streams do.
THEOREM AnnouncedFound == Spec => AnnouncedSkillIsFound
  <1> DEFINE Asked(c) == /\ SkillOf[c] \in Announced
                         /\ Arrived("host")
                         /\ Received("host") = Message("invoke", c)[1]
                         /\ chan'["host"] = Taken(chan["host"])
                         /\ Alive
             Found == \A c \in Calls : Asked(c) => ran'[c] = ran[c] + 1
  <1>1. Init => FoundInv
    <2> SUFFICES ASSUME Init PROVE FoundInv
      OBVIOUS
    <2>1. Empty \in Stream /\ Flows(Empty) /\ Carried(Empty) = {}
      BY LenProperties, StreamAssumption DEF Empty, Stream, Flows, Carried, Held
    <2>2. LifeInv
      BY DEF Init, InitHost, LifeInv
    <2>3. chan = [side \in Sides |-> Empty] /\ ran = [c \in Calls |-> 0] /\ settled = {} /\ pending = {} /\ jobs = {}
          /\ boot = "idle" /\ state = "spawning"
      BY DEF Init, InitChannel, InitRunner, InitHost
    <2>4. chan["host"] = Empty /\ chan["child"] = Empty
      BY <2>3 DEF Sides
    <2>. QED BY <2>1, <2>2, <2>3, <2>4 DEF FoundInv
  <1>2. FoundInv /\ [Next]_vars => FoundInv' /\ (RunnerReads \/ ~Arrived("host") \/ chan'["host"] # Taken(chan["host"]))
    <2> SUFFICES ASSUME FoundInv, [Next]_vars
                 PROVE  FoundInv' /\ (RunnerReads \/ ~Arrived("host") \/ chan'["host"] # Taken(chan["host"]))
      OBVIOUS
    <2>1. CASE HostStep
      <3>1. FoundInv' /\ HostTells
        BY <2>1, HostFinds
      <3>. QED BY <3>1 DEF HostTells
    <2>2. chan'["host"] = chan["host"] => ~Arrived("host") \/ chan'["host"] # Taken(chan["host"])
      <3> SUFFICES ASSUME chan'["host"] = chan["host"]
                   PROVE  ~Arrived("host") \/ chan'["host"] # Taken(chan["host"])
        OBVIOUS
      <3>1. HostTells
        BY HostRests
      <3>. QED BY <3>1 DEF HostTells
    <2>3. CASE RunnerStep /\ UNCHANGED host
      <3>1. FoundInv' /\ (RunnerReads \/ chan'["host"] = chan["host"])
        BY <2>3, RunnerFinds
      <3>. QED BY <2>2, <3>1
    <2>4. CASE UNCHANGED vars
      <3>1. UNCHANGED <<chan, child, boot, skills, asked, settled, ran, state, pending, registered, jobs>>
        BY <2>4 DEF vars, runner, host
      <3>2. FoundInv'
        BY <3>1 DEF FoundInv, LifeInv, Alive, Ready, Coming
      <3>. QED BY <2>2, <3>1, <3>2
    <2>. QED BY <2>1, <2>3, <2>4 DEF Next
  <1>3. FoundInv /\ [Next]_vars => [Found]_vars
    <2> SUFFICES ASSUME FoundInv, [Next]_vars, NEW c \in Calls, Asked(c)
                 PROVE  ran'[c] = ran[c] + 1
      OBVIOUS
    <2>1. RunnerReads
      BY <1>2
    <2>2. Received("host").kind = "invoke" /\ Received("host").about = c
      BY DEF Message
    <2>3. Received("host") \in Carried(chan["host"])
      <3>1. chan["host"] \in Stream /\ Flows(chan["host"]) /\ chan["host"].pipe # <<>>
        BY DEF FoundInv, Sides, Arrived
      <3>. QED BY <3>1, StreamTakes DEF Received
    <2>4. boot = "active" /\ SkillOf[c] \in skills
      BY <2>2, <2>3 DEF FoundInv, Ready
    <2>5. InvokeSkill(c)
      BY <2>1, <2>2 DEF RunnerReads
    <2>. QED BY <2>4, <2>5 DEF InvokeSkill, FoundInv
  <1>. QED
    BY <1>1, <1>2, <1>3, PTL DEF Spec, AnnouncedSkillIsFound
=============================================================================
