------------------------------ MODULE LanProofs ------------------------------
(* Proofs about Lan, for every set of instances, calls and connections: the  *)
(* limits of a serving peer are kept exactly, a task runs only where the     *)
(* identity it was meant for has been proven, and both transports implement  *)
(* RemoteTask but for its liveness.  All rest on what one connection may     *)
(* look like, whichever of its two ends acts (Shape).                        *)
EXTENDS Lan, FiniteSetTheorems, SequenceTheorems, WellFoundedInduction, TLAPS

-----------------------------------------------------------------------------
\* What may be on its way to the far end of a connection.
Sendings(c) == {<<>>, <<"hello">>, <<"auth">>, <<"auth", c.use>>, <<c.use>>}

\* The protocol of one connection: a frame goes out only when the one before it
\* has been answered, so no more than one answer is ever on its way, and nothing is
\* sent to a handler that runs.
Shape(c) ==
    /\ c \in Conn
    /\ c.use = "none" => c = Unused
    /\ c.client = "dial" => c.far = Nobody
    /\ c.far = Nobody => /\ c.client \in {"dial", "closed"} /\ c.server = "closed"
                         /\ c.up = <<>> /\ c.down = <<>> /\ ~c.work
    /\ c.up \in Sendings(c)
    /\ c.up = <<"hello">> => c.client \in {"hello_ack", "closed"}
    /\ c.up \notin {<<>>, <<"hello">>} => c.client \in {"result", "closed"}
    /\ c.client \notin {"result", "closed"} => ~c.work
    /\ c.up # <<>> \/ c.work \/ c.client = "proving" => c.down = <<>>
    /\ c.up # <<>> => ~c.work

Shaped == \A x \in Conns : Shape(conn[x])

\* What may still be to happen.
Stage == [instances : SUBSET Instances, calls : SUBSET Calls, conns : SUBSET Conns,
          changes : Nat, exchanges : Nat]

\* Where the instances are, and what this node has on record of them: an inductive
\* invariant.
RecordsInv ==
    /\ life \in [Instances -> {"unborn", "up", "leaving", "down"}]
    /\ home \in [Instances -> Addresses \cup {Nobody}]
    /\ \A i \in Instances : life[i] = "up" => home[i] \in Addresses
    /\ known \in Seq(Instances)
    /\ book \in [Instances -> Addresses \cup {Nobody}]
    /\ TypeOKDiscovery
    /\ scene \in Stage

\* No call waits for a retry, for no attempt rejects: inductive with ServingInv.
NeverRetried == call \in [Calls -> {"idle", "sent"} \cup Outcomes]

\* The serving half, as TypeOK has it, and the limits: inductive with the two above.
ServingInv ==
    /\ TypeOKServer
    /\ scene.conns \subseteq Conns
    /\ conn \in [Conns -> Conn]
    /\ Shaped
    /\ LimitsHold

-----------------------------------------------------------------------------
\* What a connection is for, and who is at its far end while frames go there.
Meant(c) ==
    /\ c.client \in {"hello_ack", "proving"} \/ c.up # <<>> => c.far = c.peer
    /\ c.use = "task" => /\ c.call \in Calls /\ c.peer \in Instances
                         /\ owner[c.peer] = Wanted[c.call]

\* An identity is proven of the instance it belongs to: inductive with
\* the three above.
IdentityInv ==
    /\ owner \in [Instances -> People \cup {Nobody}]
    /\ \A i \in Instances : life[i] = "unborn" => owner[i] = Nobody
    /\ caps \in [Instances -> People \cup {Nobody}]
    /\ \A x \in Conns : Meant(conn[x])
    /\ IdentityIsProven

-----------------------------------------------------------------------------
\* A set of numbers has a least one.
LEMMA Least ==
    ASSUME NEW T, T \subseteq Nat, T # {}
    PROVE  \E n \in T : \A m \in T : n <= m
<1>1. IsWellFoundedOn(OpToRel(<, Nat), Nat) BY NatLessThanWellFounded
<1>2. PICK n \in T : \A m \in T : ~ (<<m, n>> \in OpToRel(<, Nat)) BY <1>1, WFMin
<1>3. ASSUME NEW m \in T PROVE n <= m
  <2>1. ~ (m < n) BY <1>2, <1>3 DEF OpToRel
  <2> QED BY <2>1
<1> QED BY <1>3

\* What is left of a sequence is a sequence: there is such a recursive function, for
\* otherwise there is a least number up to which there is none, and its values are
\* sequences, for otherwise there is a first that is not.
LEMMA WithoutIsSeq ==
    ASSUME NEW S, NEW s \in Seq(S), NEW gone
    PROVE  Without(s, gone) \in Seq(S)
<1> DEFINE Last(f, n) == IF n = 0 THEN <<>>
                         ELSE IF s[n] \in gone THEN f[n - 1] ELSE Append(f[n - 1], s[n])
           Has(f, m) == f = [n \in 0..m |-> Last(f, n)]
           Bad == {m \in 0..Len(s) : \A f : ~Has(f, m)}
<1>0. Len(s) \in Nat OBVIOUS
<1>1. Bad = {}
  <2> SUFFICES ASSUME Bad # {} PROVE FALSE OBVIOUS
  <2>0. Bad \subseteq Nat BY <1>0
  <2> HIDE DEF Bad
  <2>1. PICK m \in Bad : \A k \in Bad : m <= k BY <2>0, Least
  <2> USE DEF Bad
  <2>2. m \in Nat /\ m <= Len(s) /\ \A f : ~Has(f, m) BY <1>0, <2>1
  <2>3. m # 0
    <3> DEFINE e == [n \in 0..0 |-> <<>>]
    <3>1. e = [n \in 0..0 |-> Last(e, n)] OBVIOUS
    <3>2. Has(e, 0) BY <3>1
    <3> QED BY <2>2, <3>2
  <2>4. m - 1 \in 0..Len(s) BY <1>0, <2>2, <2>3
  <2>5. m - 1 \notin Bad
    <3> HIDE DEF Bad
    <3> QED BY <2>1, <2>2
  <2>6. PICK f : Has(f, m - 1) BY <2>4, <2>5
  <2> DEFINE g == [n \in 0..m |-> IF n = m THEN Last(f, n) ELSE f[n]]
  <2>7. ASSUME NEW n \in 0..m PROVE g[n] = Last(g, n)
    <3>1. g[n] = Last(f, n)
      <4>1. CASE n = m BY <4>1
      <4>2. CASE n # m
        <5>1. n \in 0..(m - 1) BY <2>2, <4>2
        <5>2. f = [i \in 0..(m - 1) |-> Last(f, i)] BY <2>6
        <5> HIDE DEF Last
        <5>3. f[n] = Last(f, n) BY <5>1, <5>2
        <5> QED BY <4>2, <5>3
      <4> QED BY <4>1, <4>2
    <3>2. n # 0 => g[n - 1] = f[n - 1] BY <2>2
    <3>3. Last(g, n) = Last(f, n) BY <3>2
    <3> QED BY <3>1, <3>3
  <2>8. g = [n \in 0..m |-> Last(g, n)]
    <3>1. g = [n \in 0..m |-> g[n]] OBVIOUS
    <3> HIDE DEF g, Last
    <3> QED BY <2>7, <3>1
  <2> QED BY <2>2, <2>8
<1>2. \E f : Has(f, Len(s))
  <2> HIDE DEF Has
  <2> QED BY <1>0, <1>1
<1> DEFINE rest == CHOOSE f : Has(f, Len(s))
<1>3. Has(rest, Len(s))
  <2> HIDE DEF Has
  <2> QED BY <1>2
<1>4. Without(s, gone) = rest[Len(s)] BY DEF Without
<1> HIDE DEF rest
<1> DEFINE Odd == {m \in 0..Len(s) : rest[m] \notin Seq(S)}
<1>5. Odd = {}
  <2> SUFFICES ASSUME Odd # {} PROVE FALSE OBVIOUS
  <2>0. Odd \subseteq Nat BY <1>0
  <2> HIDE DEF Odd
  <2>1. PICK m \in Odd : \A k \in Odd : m <= k BY <2>0, Least
  <2>2. m \in 0..Len(s) /\ rest[m] \notin Seq(S) BY <2>1 DEF Odd
  <2>3. rest[m] = Last(rest, m)
    <3>1. rest = [n \in 0..Len(s) |-> Last(rest, n)] BY <1>3
    <3> HIDE DEF Last
    <3> QED BY <2>2, <3>1
  <2>4. m # 0 BY <2>2, <2>3
  <2>5. m - 1 \in 0..Len(s) /\ m - 1 < m BY <1>0, <2>2, <2>4
  <2>6. m - 1 \notin Odd BY <2>1, <2>5, <2>2
  <2>7. rest[m - 1] \in Seq(S) /\ s[m] \in S BY <2>2, <2>4, <2>5, <2>6 DEF Odd
  <2> QED BY <2>2, <2>3, <2>4, <2>7
<1> QED BY <1>0, <1>4, <1>5

-----------------------------------------------------------------------------
\* The queues of a connection, spelled out.
LEMMA QueueTypes ==
    /\ <<>> \in Queues(UpFrames, 2) /\ <<>> \in Queues(DownFrames, 1)
    /\ \A f \in UpFrames : <<f>> \in Queues(UpFrames, 2)
    /\ \A f \in UpFrames, g \in UpFrames : <<f, g>> \in Queues(UpFrames, 2)
    /\ \A f \in DownFrames : <<f>> \in Queues(DownFrames, 1)
<1>1. <<>> \in Queues(UpFrames, 2) /\ <<>> \in Queues(DownFrames, 1)
  <2>1. <<>> \in [1..0 -> UpFrames] /\ <<>> \in [1..0 -> DownFrames] OBVIOUS
  <2> QED BY <2>1 DEF Queues
<1>2. ASSUME NEW f \in UpFrames PROVE <<f>> \in Queues(UpFrames, 2)
  <2>1. <<f>> \in [1..1 -> UpFrames] OBVIOUS
  <2> QED BY <2>1 DEF Queues
<1>3. ASSUME NEW f \in UpFrames, NEW g \in UpFrames PROVE <<f, g>> \in Queues(UpFrames, 2)
  <2>1. <<f, g>> \in [1..2 -> UpFrames] OBVIOUS
  <2> QED BY <2>1 DEF Queues
<1>4. ASSUME NEW f \in DownFrames PROVE <<f>> \in Queues(DownFrames, 1)
  <2>1. <<f>> \in [1..1 -> DownFrames] OBVIOUS
  <2> QED BY <2>1 DEF Queues
<1> QED BY <1>1, <1>2, <1>3, <1>4

LEMMA OneFrame ==
    \A f : Append(<<>>, f) = <<f>> /\ <<f>> # <<>>
<1> TAKE f
<1>1. Len(<<f>>) = 1 /\ Len(<<>>) = 0 OBVIOUS
<1>2. Append(<<>>, f) = <<f>> OBVIOUS
<1> QED BY <1>1, <1>2

\* Put drops a connection that both ends have done with.
Kept(c) == IF c.client = "closed" /\ c.server = "closed" /\ ~c.work THEN Unused ELSE c

LEMMA UnusedIsShaped == Shape(Unused)
BY QueueTypes DEF Shape, Unused, Conn, Sendings

LEMMA KeptIsShaped ==
    ASSUME NEW c, Shape(c)
    PROVE  Shape(Kept(c))
BY UnusedIsShaped DEF Kept

\* A new connection is empty.
LEMMA DialledIsShaped ==
    ASSUME NEW use \in {"task", "probe", "ping", "sub_req", "event_emit"},
           NEW i \in Instances, NEW k \in Calls \cup {Nobody},
           NEW a \in Addresses \cup {Nobody}
    PROVE  Shape(Dialled(use, i, k, a))
BY QueueTypes DEF Shape, Dialled, Unused, Conn, Sendings

\* What the head of a queue says of the whole of it.
LEMMA HeadSays ==
    ASSUME NEW c, Shape(c), c.up # <<>>
    PROVE  /\ Head(c.up) = "hello" => c.up = <<"hello">>
           /\ Tail(c.up) \in {<<>>, <<c.use>>}
           /\ Head(c.up) \notin {"hello", "auth"} => c.up = <<c.use>> /\ Head(c.up) = c.use
           /\ Head(c.up) # "auth" => Tail(c.up) = <<>>
           /\ Tail(c.up) \in Queues(UpFrames, 2)
           /\ Tail(c.up) # c.up
<1>1. c.use \notin {"hello", "auth"} /\ c.up \in Sendings(c) /\ c.up \in Queues(UpFrames, 2)
  BY DEF Shape, Conn
<1>2. CASE c.up = <<"hello">>
  BY <1>2, QueueTypes
<1>3. CASE c.up = <<"auth">>
  BY <1>3, QueueTypes
<1>4. CASE c.up = <<"auth", c.use>>
  <2>1. Tail(c.up) = <<c.use>> /\ Head(c.up) = "auth" /\ Len(c.up) = 2 BY <1>4
  <2>2. Len(Tail(c.up)) = 1 BY <2>1
  <2>3. c.use \in UpFrames
    <3>1. PICK n \in 0..2 : c.up \in [1..n -> UpFrames] BY <1>1 DEF Queues
    <3>2. n = 2 BY <2>1, <3>1
    <3>3. c.up[2] \in UpFrames BY <3>1, <3>2
    <3> QED BY <3>3, <1>4
  <2> QED BY <1>4, <2>1, <2>2, <2>3, QueueTypes
<1>5. CASE c.up = <<c.use>>
  BY <1>5, <1>1, QueueTypes
<1> QED BY <1>1, <1>2, <1>3, <1>4, <1>5 DEF Sendings
-----------------------------------------------------------------------------
\* The connections a peer serves and works for, after one of them has changed.
LEMMA PutCounts ==
    ASSUME conn \in [Conns -> Conn], NEW x \in Conns, NEW c \in Conn, Put(x, c),
           NEW i \in Instances
    PROVE  /\ ServedBy(i)' = IF c.far = i /\ c.server # "closed"
                             THEN ServedBy(i) \cup {x} ELSE ServedBy(i) \ {x}
           /\ WorkingFor(i)' = IF c.far = i /\ c.work
                               THEN WorkingFor(i) \cup {x} ELSE WorkingFor(i) \ {x}
<1>1. conn' = [conn EXCEPT ![x] = Kept(c)] BY DEF Put, Kept
<1>2. /\ Kept(c).far = i /\ Kept(c).server # "closed" <=> c.far = i /\ c.server # "closed"
      /\ Kept(c).far = i /\ Kept(c).work <=> c.far = i /\ c.work
  BY LanAssumption DEF Kept, Unused
<1>3. \A y \in Conns : conn'[y] = IF y = x THEN Kept(c) ELSE conn[y] BY <1>1
<1>4. /\ ServedBy(i)' = {y \in Conns : conn'[y].far = i /\ conn'[y].server # "closed"}
      /\ WorkingFor(i)' = {y \in Conns : conn'[y].far = i /\ conn'[y].work}
  BY DEF ServedBy, WorkingFor
<1> QED BY <1>2, <1>3, <1>4 DEF ServedBy, WorkingFor

LEMMA FiniteCounts ==
    ASSUME NEW i \in Instances
    PROVE  /\ IsFiniteSet(ServedBy(i)) /\ Cardinality(ServedBy(i)) \in Nat
           /\ IsFiniteSet(WorkingFor(i)) /\ Cardinality(WorkingFor(i)) \in Nat
<1>1. IsFiniteSet(Conns) BY LanAssumption
<1>2. ServedBy(i) \subseteq Conns /\ WorkingFor(i) \subseteq Conns
  BY DEF ServedBy, WorkingFor
<1>3. IsFiniteSet(ServedBy(i)) /\ IsFiniteSet(WorkingFor(i)) BY <1>1, <1>2, FS_Subset
<1> QED BY <1>3, FS_CardinalityType

\* What the rest of the invariant says after one connection has changed.
LEMMA PutKeepsShape ==
    ASSUME ServingInv, NEW x \in Conns, NEW c, Shape(c), Put(x, c)
    PROVE  conn' \in [Conns -> Conn] /\ Shaped'
<1>1. conn' = [conn EXCEPT ![x] = Kept(c)] BY DEF Put, Kept
<1>2. Shape(Kept(c)) BY KeptIsShaped
<1>3. Kept(c) \in Conn BY <1>2 DEF Shape
<1>4. conn \in [Conns -> Conn] /\ \A y \in Conns : Shape(conn[y]) BY DEF ServingInv, Shaped
<1>5. \A y \in Conns : Shape(conn'[y]) BY <1>1, <1>2, <1>4
<1>6. Shaped' BY <1>5 DEF Shaped, Shape, Conn, Unused, Sendings
<1> QED BY <1>1, <1>3, <1>4, <1>6

\* A step that opens no connection, ends none, and starts or ends no handler.
LEMMA SameCounts ==
    ASSUME ServingInv, NEW x \in Conns, NEW c, Shape(c), Put(x, c),
           \A i \in Instances : /\ c.far = i /\ c.server # "closed"
                                     <=> conn[x].far = i /\ conn[x].server # "closed"
                                /\ c.far = i /\ c.work <=> conn[x].far = i /\ conn[x].work,
           UNCHANGED slots, scene'.conns = scene.conns, ran' \in [Calls -> [Instances -> Nat]]
    PROVE  ServingInv'
<1>1. conn' \in [Conns -> Conn] /\ Shaped' BY PutKeepsShape
<1>2. ASSUME NEW i \in Instances
      PROVE  ServedBy(i)' = ServedBy(i) /\ WorkingFor(i)' = WorkingFor(i)
  <2>1. c \in Conn /\ conn \in [Conns -> Conn] BY DEF Shape, ServingInv
  <2>2. /\ x \in ServedBy(i) <=> conn[x].far = i /\ conn[x].server # "closed"
        /\ x \in WorkingFor(i) <=> conn[x].far = i /\ conn[x].work
    BY DEF ServedBy, WorkingFor
  <2>3. /\ ServedBy(i)' = IF c.far = i /\ c.server # "closed"
                          THEN ServedBy(i) \cup {x} ELSE ServedBy(i) \ {x}
        /\ WorkingFor(i)' = IF c.far = i /\ c.work
                            THEN WorkingFor(i) \cup {x} ELSE WorkingFor(i) \ {x}
    BY <2>1, PutCounts
  <2>4. ServedBy(i)' = ServedBy(i)
    <3>1. CASE x \in ServedBy(i) BY <3>1, <2>2, <2>3
    <3>2. CASE x \notin ServedBy(i) BY <3>2, <2>2, <2>3
    <3> QED BY <3>1, <3>2
  <2>5. WorkingFor(i)' = WorkingFor(i)
    <3>1. CASE x \in WorkingFor(i) BY <3>1, <2>2, <2>3
    <3>2. CASE x \notin WorkingFor(i) BY <3>2, <2>2, <2>3
    <3> QED BY <3>1, <3>2
  <2> QED BY <2>4, <2>5
<1>3. LimitsHold' BY <1>2 DEF ServingInv, LimitsHold
<1>4. TypeOKServer' BY DEF ServingInv, TypeOKServer
<1> QED BY <1>1, <1>3, <1>4 DEF ServingInv
-----------------------------------------------------------------------------
\* The limiter adds one, or takes one away unless there is none.
LEMMA CountIs ==
    ASSUME TypeOKServer, NEW j \in Instances, NEW which \in {"connections", "tasks"},
           NEW step \in {-1, 1}, Count(j, which, step)
    PROVE  /\ slots' \in [Instances -> [connections : Nat, tasks : Nat]]
           /\ \A i \in Instances, w \in {"connections", "tasks"} :
                 slots'[i][w] = IF i = j /\ w = which
                                THEN IF step = -1 /\ slots[i][w] <= 1 THEN 0
                                     ELSE slots[i][w] + step
                                ELSE slots[i][w]
<1> DEFINE n == IF step = -1 /\ slots[j][which] <= 1 THEN 0 ELSE slots[j][which] + step
<1>1. slots \in [Instances -> [connections : Nat, tasks : Nat]] BY DEF TypeOKServer
<1>2. slots[j][which] \in Nat BY <1>1
<1>3. n \in Nat BY <1>2
<1>4. slots' = [slots EXCEPT ![j] = [slots[j] EXCEPT ![which] = n]] BY <1>1 DEF Count
<1>5. [slots[j] EXCEPT ![which] = n] \in [connections : Nat, tasks : Nat]
  <2>1. CASE which = "connections" BY <1>1, <1>3, <2>1
  <2>2. CASE which = "tasks" BY <1>1, <1>3, <2>2
  <2> QED BY <2>1, <2>2
<1>6. \A w \in {"connections", "tasks"} :
         [slots[j] EXCEPT ![which] = n][w] = IF w = which THEN n ELSE slots[j][w]
  BY <1>1
<1> QED BY <1>1, <1>4, <1>5, <1>6

\* The other instances notice nothing of a connection to j.
LEMMA OthersKeepCounts ==
    ASSUME ServingInv, NEW x \in Conns, NEW c, Shape(c), Put(x, c),
           NEW j \in Instances, c.far \in {j, Nobody}, conn[x].far \in {j, Nobody},
           NEW i \in Instances, i # j
    PROVE  ServedBy(i)' = ServedBy(i) /\ WorkingFor(i)' = WorkingFor(i)
<1>1. c \in Conn /\ conn \in [Conns -> Conn] BY DEF Shape, ServingInv
<1>2. c.far # i /\ conn[x].far # i BY LanAssumption
<1>3. x \notin ServedBy(i) /\ x \notin WorkingFor(i) BY <1>2 DEF ServedBy, WorkingFor
<1>4. ServedBy(i)' = ServedBy(i) \ {x} /\ WorkingFor(i)' = WorkingFor(i) \ {x}
  BY <1>1, <1>2, PutCounts
<1> QED BY <1>3, <1>4

\* The connection of a caller ends, or a new one begins.
LEMMA ConnectionCounts ==
    ASSUME ServingInv, NEW x \in Conns, NEW c, Shape(c), Put(x, c),
           NEW j \in Instances, c.far = j, conn[x].far \in {j, Nobody},
           c.work = (conn[x].far = j /\ conn[x].work),
           \/ /\ conn[x].far = j /\ conn[x].server # "closed" /\ c.server = "closed"
              /\ Count(j, "connections", -1)
           \/ /\ conn[x].server = "closed" /\ c.server # "closed"
              /\ Admits(j) /\ Count(j, "connections", 1),
           UNCHANGED ran, scene'.conns = scene.conns
    PROVE  ServingInv'
<1>1. conn' \in [Conns -> Conn] /\ Shaped' BY PutKeepsShape
<1>2. TypeOKServer /\ LimitsHold /\ conn \in [Conns -> Conn] /\ c \in Conn
  BY DEF ServingInv, Shape
<1>3. slots' \in [Instances -> [connections : Nat, tasks : Nat]] BY <1>2, CountIs
<1>4. TypeOKServer' BY <1>2, <1>3 DEF TypeOKServer
<1>5. \A i \in Instances : i # j =>
         slots'[i].connections = slots[i].connections /\ slots'[i].tasks = slots[i].tasks
  BY <1>2, CountIs
<1>6. slots'[j].tasks = slots[j].tasks BY <1>2, CountIs
<1>7. WorkingFor(j)' = WorkingFor(j)
  <2>1. x \in WorkingFor(j) <=> c.work BY DEF WorkingFor
  <2>2. WorkingFor(j)' = IF c.far = j /\ c.work THEN WorkingFor(j) \cup {x} ELSE WorkingFor(j) \ {x}
    BY <1>2, PutCounts
  <2>3. CASE x \in WorkingFor(j) BY <2>1, <2>2, <2>3
  <2>4. CASE x \notin WorkingFor(j) BY <2>1, <2>2, <2>4
  <2> QED BY <2>3, <2>4
<1>8. ServedBy(j)' = IF c.server # "closed" THEN ServedBy(j) \cup {x} ELSE ServedBy(j) \ {x}
  BY <1>2, PutCounts
<1>9. /\ slots'[j].connections = Cardinality(ServedBy(j)')
      /\ slots'[j].connections <= MaxConnections
  <2>0. IsFiniteSet(ServedBy(j)) /\ Cardinality(ServedBy(j)) \in Nat BY FiniteCounts
  <2>1. slots[j].connections = Cardinality(ServedBy(j)) /\ slots[j].connections <= MaxConnections
    BY <1>2 DEF LimitsHold
  <2>2. CASE c.server = "closed"
    <3>1. Count(j, "connections", -1) BY <2>2
    <3>2. slots'[j].connections = IF slots[j].connections <= 1 THEN 0 ELSE slots[j].connections - 1
      BY <1>2, <3>1, CountIs
    <3>3. x \in ServedBy(j) BY <2>2 DEF ServedBy
    <3>4. Cardinality(ServedBy(j) \ {x}) = Cardinality(ServedBy(j)) - 1
      BY <2>0, <3>3, FS_RemoveElement
    <3>5. Cardinality(ServedBy(j) \ {x}) \in Nat
      BY <2>0, FS_Subset, FS_CardinalityType
    <3> QED BY <1>8, <2>0, <2>1, <2>2, <3>2, <3>4, <3>5, LimitAssumption
  <2>3. CASE c.server # "closed"
    <3>1. Count(j, "connections", 1) /\ Admits(j) /\ conn[x].server = "closed" BY <2>3
    <3>2. slots'[j].connections = slots[j].connections + 1 BY <1>2, <3>1, CountIs
    <3>3. x \notin ServedBy(j) BY <3>1 DEF ServedBy
    <3>4. Cardinality(ServedBy(j) \cup {x}) = Cardinality(ServedBy(j)) + 1
      BY <2>0, <3>3, FS_AddElement
    <3> QED BY <1>8, <2>0, <2>1, <2>3, <3>1, <3>2, <3>4, LimitAssumption DEF Admits
  <2> QED BY <2>2, <2>3
<1>10. ASSUME NEW i \in Instances
       PROVE  /\ slots'[i].connections = Cardinality(ServedBy(i)')
              /\ slots'[i].connections <= MaxConnections
              /\ slots'[i].tasks = Cardinality(WorkingFor(i)')
              /\ slots'[i].tasks <= MaxTasks
  <2>1. CASE i = j BY <1>2, <1>6, <1>7, <1>9, <2>1 DEF LimitsHold
  <2>2. CASE i # j
    <3>1. ServedBy(i)' = ServedBy(i) /\ WorkingFor(i)' = WorkingFor(i) BY <2>2, OthersKeepCounts
    <3> QED BY <1>2, <1>5, <2>2, <3>1 DEF LimitsHold
  <2> QED BY <2>1, <2>2
<1>11. LimitsHold' BY <1>10 DEF LimitsHold
<1> QED BY <1>1, <1>4, <1>11 DEF ServingInv
\* A handler ends, or a new one begins.
LEMMA HandlerCounts ==
    ASSUME ServingInv, NEW x \in Conns, NEW c, Shape(c), Put(x, c),
           NEW j \in Instances, c.far = j, conn[x].far = j,
           c.server # "closed" <=> conn[x].server # "closed",
           \/ conn[x].work /\ ~c.work /\ Count(j, "tasks", -1)
           \/ ~conn[x].work /\ c.work /\ slots[j].tasks < MaxTasks /\ Count(j, "tasks", 1),
           ran' \in [Calls -> [Instances -> Nat]], scene'.conns = scene.conns
    PROVE  ServingInv'
<1>1. conn' \in [Conns -> Conn] /\ Shaped' BY PutKeepsShape
<1>2. TypeOKServer /\ LimitsHold /\ conn \in [Conns -> Conn] /\ c \in Conn
  BY DEF ServingInv, Shape
<1>3. slots' \in [Instances -> [connections : Nat, tasks : Nat]] BY <1>2, CountIs
<1>4. TypeOKServer' BY <1>2, <1>3 DEF TypeOKServer
<1>5. \A i \in Instances : i # j =>
         slots'[i].connections = slots[i].connections /\ slots'[i].tasks = slots[i].tasks
  BY <1>2, CountIs
<1>6. slots'[j].connections = slots[j].connections BY <1>2, CountIs
<1>7. ServedBy(j)' = ServedBy(j)
  <2>1. x \in ServedBy(j) <=> c.server # "closed" BY DEF ServedBy
  <2>2. ServedBy(j)' = IF c.server # "closed" THEN ServedBy(j) \cup {x} ELSE ServedBy(j) \ {x}
    BY <1>2, PutCounts
  <2>3. CASE x \in ServedBy(j) BY <2>1, <2>2, <2>3
  <2>4. CASE x \notin ServedBy(j) BY <2>1, <2>2, <2>4
  <2> QED BY <2>3, <2>4
<1>8. WorkingFor(j)' = IF c.far = j /\ c.work THEN WorkingFor(j) \cup {x} ELSE WorkingFor(j) \ {x}
  BY <1>2, PutCounts
<1>9. slots'[j].tasks = Cardinality(WorkingFor(j)') /\ slots'[j].tasks <= MaxTasks
  <2>0. IsFiniteSet(WorkingFor(j)) /\ Cardinality(WorkingFor(j)) \in Nat BY FiniteCounts
  <2>1. slots[j].tasks = Cardinality(WorkingFor(j)) /\ slots[j].tasks <= MaxTasks
    BY <1>2 DEF LimitsHold
  <2>2. CASE ~c.work
    <3>1. conn[x].work /\ Count(j, "tasks", -1) BY <2>2
    <3>2. slots'[j].tasks = IF slots[j].tasks <= 1 THEN 0 ELSE slots[j].tasks - 1
      BY <1>2, <3>1, CountIs
    <3>3. x \in WorkingFor(j) BY <3>1 DEF WorkingFor
    <3>4. Cardinality(WorkingFor(j) \ {x}) = Cardinality(WorkingFor(j)) - 1
      BY <2>0, <3>3, FS_RemoveElement
    <3>5. Cardinality(WorkingFor(j) \ {x}) \in Nat
      BY <2>0, FS_Subset, FS_CardinalityType
    <3> QED BY <1>8, <2>0, <2>1, <2>2, <3>2, <3>4, <3>5, LimitAssumption
  <2>3. CASE c.work
    <3>1. ~conn[x].work /\ slots[j].tasks < MaxTasks /\ Count(j, "tasks", 1) BY <2>3
    <3>2. slots'[j].tasks = slots[j].tasks + 1 BY <1>2, <3>1, CountIs
    <3>3. x \notin WorkingFor(j) BY <3>1 DEF WorkingFor
    <3>4. Cardinality(WorkingFor(j) \cup {x}) = Cardinality(WorkingFor(j)) + 1
      BY <2>0, <3>3, FS_AddElement
    <3> QED BY <1>8, <2>0, <2>1, <2>3, <3>1, <3>2, <3>4, LimitAssumption
  <2> QED BY <2>2, <2>3
<1>10. ASSUME NEW i \in Instances
       PROVE  /\ slots'[i].connections = Cardinality(ServedBy(i)')
              /\ slots'[i].connections <= MaxConnections
              /\ slots'[i].tasks = Cardinality(WorkingFor(i)')
              /\ slots'[i].tasks <= MaxTasks
  <2>1. CASE i = j BY <1>2, <1>6, <1>7, <1>9, <2>1 DEF LimitsHold
  <2>2. CASE i # j
    <3>1. ServedBy(i)' = ServedBy(i) /\ WorkingFor(i)' = WorkingFor(i) BY <2>2, OthersKeepCounts
    <3> QED BY <1>2, <1>5, <2>2, <3>1 DEF LimitsHold
  <2> QED BY <2>1, <2>2
<1>11. LimitsHold' BY <1>10 DEF LimitsHold
<1> QED BY <1>1, <1>4, <1>11 DEF ServingInv
-----------------------------------------------------------------------------
\* The serving half.
LEMMA FarIsThere ==
    ASSUME ServingInv, NEW x \in Conns
    PROVE  /\ Shape(conn[x]) /\ conn[x] \in Conn
           /\ conn[x].far \in Instances \cup {Nobody}
           /\ conn[x].server # "closed" \/ conn[x].work \/ conn[x].client \notin {"dial", "closed"}
                 => conn[x].far \in Instances
BY DEF ServingInv, Shaped, Shape, Conn

LEMMA HangupKeeps ==
    ASSUME ServingInv, NEW x \in Conns, conn[x].server # "closed", Hangup(x, conn[x]),
           UNCHANGED <<lan, ran>>
    PROVE  ServingInv'
<1> DEFINE c == [conn[x] EXCEPT !.server = "closed", !.up = <<>>]
<1>1. Shape(conn[x]) /\ conn[x].far \in Instances BY FarIsThere
<1>2. Shape(c)
  <2>1. c \in Conn BY <1>1, QueueTypes DEF Shape, Conn
  <2>2. /\ c.use = conn[x].use /\ c.client = conn[x].client /\ c.far = conn[x].far
        /\ c.server = "closed" /\ c.up = <<>> /\ c.down = conn[x].down /\ c.work = conn[x].work
    BY <1>1 DEF Shape, Conn
  <2> QED BY <1>1, <2>1, <2>2 DEF Shape, Unused, Sendings
<1>3. c.far = conn[x].far /\ c.work = conn[x].work /\ c.server = "closed"
  BY <1>1 DEF Shape, Conn
<1>4. Put(x, c) /\ Count(conn[x].far, "connections", -1) BY DEF Hangup
<1>5. UNCHANGED ran /\ scene'.conns = scene.conns BY DEF lan
<1> HIDE DEF c
<1>6. conn[x].work \in BOOLEAN BY <1>1 DEF Shape, Conn
<1> QED BY <1>1, <1>2, <1>3, <1>4, <1>5, <1>6, ConnectionCounts

LEMMA ReadHelloKeeps ==
    ASSUME ServingInv, NEW x \in Conns, ReadHello(x)
    PROVE  ServingInv'
<1> DEFINE c == [Rest(x) EXCEPT !.server = "ready", !.down = Append(@, "hello_ack")]
<1>1. Shape(conn[x]) /\ conn[x].server = "hello" /\ conn[x].up # <<>>
      /\ Head(conn[x].up) = "hello"
  BY FarIsThere DEF ReadHello, Reads
<1>2. conn[x].up = <<"hello">> /\ Tail(conn[x].up) = <<>> BY <1>1, HeadSays
<1>3. conn[x].down = <<>> BY <1>1 DEF Shape
<1>4. c = [conn[x] EXCEPT !.up = <<>>, !.server = "ready", !.down = <<"hello_ack">>]
  <2>1. Append(conn[x].down, "hello_ack") = <<"hello_ack">> BY <1>3, OneFrame
  <2>2. Rest(x) = [conn[x] EXCEPT !.up = <<>>] BY <1>1, <1>2 DEF Rest, Shape, Conn
  <2>3. Rest(x).down = conn[x].down BY <1>1, <2>2 DEF Shape, Conn
  <2> QED BY <1>1, <2>1, <2>2, <2>3 DEF Shape, Conn
<1>5. Shape(c)
  <2>1. c \in Conn BY <1>1, <1>4, QueueTypes DEF Shape, Conn, DownFrames
  <2>2. /\ c.use = conn[x].use /\ c.client = conn[x].client /\ c.far = conn[x].far
        /\ c.server = "ready" /\ c.up = <<>> /\ c.work = conn[x].work
    BY <1>1, <1>4 DEF Shape, Conn
  <2> QED BY <1>1, <1>2, <2>1, <2>2 DEF Shape, Unused, Sendings
<1>6. c.far = conn[x].far /\ c.work = conn[x].work /\ c.server # "closed"
  BY <1>1, <1>4 DEF Shape, Conn
<1>7. Put(x, c) /\ UNCHANGED <<lan, server>> BY DEF ReadHello
<1>8. ran' \in [Calls -> [Instances -> Nat]] /\ UNCHANGED slots /\ scene'.conns = scene.conns
  BY <1>7 DEF lan, server, ServingInv, TypeOKServer
<1> HIDE DEF c
<1> QED BY <1>1, <1>5, <1>6, <1>7, <1>8, SameCounts

LEMMA ReadAuthKeeps ==
    ASSUME ServingInv, NEW x \in Conns, ReadAuth(x)
    PROVE  ServingInv'
<1> DEFINE c == [Rest(x) EXCEPT !.server = "authenticated"]
<1>1. Shape(conn[x]) /\ conn[x].server = "ready" /\ conn[x].up # <<>>
      /\ Head(conn[x].up) = "auth"
  BY FarIsThere DEF ReadAuth, Reads
<1>2. /\ Tail(conn[x].up) \in {<<>>, <<conn[x].use>>} /\ Tail(conn[x].up) \in Queues(UpFrames, 2)
      /\ conn[x].up # <<"hello">> /\ conn[x].up # <<>> /\ <<conn[x].use>> # <<"hello">>
  BY <1>1, HeadSays DEF Shape, Conn
<1>3. c = [conn[x] EXCEPT !.up = Tail(conn[x].up), !.server = "authenticated"]
  BY <1>1 DEF Rest, Shape, Conn
<1>4. Shape(c)
  <2>1. c \in Conn BY <1>1, <1>2, <1>3 DEF Shape, Conn
  <2>2. /\ c.use = conn[x].use /\ c.client = conn[x].client /\ c.far = conn[x].far
        /\ c.server = "authenticated" /\ c.up = Tail(conn[x].up) /\ c.down = conn[x].down
        /\ c.work = conn[x].work
    BY <1>1, <1>3 DEF Shape, Conn
  <2>3. conn[x].down = <<>> /\ ~conn[x].work /\ conn[x].client \in {"result", "closed"}
    BY <1>1, <1>2 DEF Shape
  <2>4. c.up \in Sendings(c) BY <1>2, <2>2 DEF Sendings
  <2>5. conn[x].use # "none" /\ conn[x].far # Nobody BY <1>1 DEF Shape, Unused
  <2> QED BY <2>1, <2>2, <2>3, <2>4, <2>5, <1>2, OneFrame DEF Shape
<1>5. c.far = conn[x].far /\ c.work = conn[x].work /\ c.server # "closed"
  BY <1>1, <1>3 DEF Shape, Conn
<1>6. Put(x, c) /\ UNCHANGED <<lan, server>> BY DEF ReadAuth
<1>7. ran' \in [Calls -> [Instances -> Nat]] /\ UNCHANGED slots /\ scene'.conns = scene.conns
  BY <1>6 DEF lan, server, ServingInv, TypeOKServer
<1> HIDE DEF c
<1> QED BY <1>1, <1>4, <1>5, <1>6, <1>7, SameCounts
\* A connection whose last frame has been read.
Over(c, w, dn) == [c EXCEPT !.up = <<>>, !.work = w, !.down = dn]

\* A frame that a connection is for has been read: there is no other on its way.
LEMMA HandedOver ==
    ASSUME NEW c, Shape(c), c.server = "authenticated", c.up # <<>>,
           Head(c.up) \notin {"hello", "auth"},
           NEW w \in BOOLEAN, NEW dn \in Queues(DownFrames, 1), ~w \/ dn = <<>>
    PROVE  /\ Shape(Over(c, w, dn)) /\ Over(c, w, dn).far = c.far
           /\ Over(c, w, dn).server = c.server /\ Over(c, w, dn).work = w
           /\ c.up = <<c.use>> /\ Head(c.up) = c.use /\ Tail(c.up) = <<>>
           /\ c.down = <<>> /\ ~c.work
<1> DEFINE d == Over(c, w, dn)
<1>1. c.up = <<c.use>> /\ Head(c.up) = c.use /\ Tail(c.up) = <<>> BY HeadSays
<1>2. c \in Conn /\ c.use # "hello" /\ c.use # "none" /\ c.far # Nobody
  BY <1>1 DEF Shape, Unused, Conn
<1>3. c.up # <<"hello">> /\ c.client \in {"result", "closed"} /\ c.down = <<>> /\ ~c.work
  <2>1. c.up # <<"hello">> BY <1>1, <1>2
  <2> QED BY <2>1 DEF Shape
<1>4. d \in Conn BY <1>2, QueueTypes DEF Conn, Over
<1>5. /\ d.use = c.use /\ d.client = c.client /\ d.far = c.far /\ d.server = c.server
      /\ d.up = <<>> /\ d.down = dn /\ d.work = w
  BY <1>2 DEF Conn, Over
<1> HIDE DEF d
<1>6. Shape(d) BY <1>2, <1>3, <1>4, <1>5, OneFrame DEF Shape, Sendings
<1> QED BY <1>1, <1>3, <1>5, <1>6 DEF d

\* A task or a subscription: refused at the limit, or counted and handed over.
LEMMA RequestKeeps ==
    ASSUME ServingInv, NEW x \in Conns, NEW f \in {"task", "sub_req"}, Reads(x, f, "authenticated"),
           NEW refusal \in {"busy", "sub_ack"},
           IF slots[conn[x].far].tasks >= MaxTasks
           THEN /\ Put(x, [Rest(x) EXCEPT !.down = Append(@, refusal)])
                /\ UNCHANGED slots
           ELSE /\ Put(x, [Rest(x) EXCEPT !.work = TRUE])
                /\ Count(conn[x].far, "tasks", 1),
           ran' \in [Calls -> [Instances -> Nat]], UNCHANGED lan
    PROVE  ServingInv'
<1> DEFINE c == conn[x]
           refused == Over(c, FALSE, <<refusal>>)
           served == Over(c, TRUE, <<>>)
<1>1. /\ Shape(c) /\ c \in Conn /\ c.server = "authenticated" /\ c.up # <<>>
      /\ Head(c.up) \notin {"hello", "auth"} /\ c.far \in Instances
  BY FarIsThere DEF Reads
<1>2. <<refusal>> \in Queues(DownFrames, 1) /\ <<>> \in Queues(DownFrames, 1)
  BY QueueTypes DEF DownFrames
<1>3. /\ Shape(refused) /\ refused.far = c.far /\ refused.server = c.server /\ ~refused.work
      /\ Tail(c.up) = <<>> /\ c.down = <<>> /\ ~c.work
  BY <1>1, <1>2, HandedOver
<1>4. Shape(served) /\ served.far = c.far /\ served.server = c.server /\ served.work
  BY <1>1, <1>2, HandedOver
<1>5. Append(c.down, refusal) = <<refusal>> BY <1>3, OneFrame
<1>6. [Rest(x) EXCEPT !.down = Append(@, refusal)] = refused
  <2>1. Rest(x) = [c EXCEPT !.up = <<>>] BY <1>3 DEF Rest
  <2>2. Rest(x).down = c.down BY <1>1, <2>1 DEF Conn
  <2> QED BY <1>1, <1>3, <1>5, <2>1, <2>2 DEF Conn, Over
<1>7. [Rest(x) EXCEPT !.work = TRUE] = served
  BY <1>1, <1>3 DEF Rest, Conn, Over
<1>8. scene'.conns = scene.conns BY DEF lan
<1> HIDE DEF refused, served
<1>9. CASE slots[c.far].tasks >= MaxTasks
  <2>1. Put(x, refused) /\ UNCHANGED slots BY <1>6, <1>9
  <2> QED BY <1>1, <1>3, <1>8, <2>1, SameCounts
<1>10. CASE ~(slots[c.far].tasks >= MaxTasks)
  <2>1. Put(x, served) /\ Count(c.far, "tasks", 1) BY <1>7, <1>10
  <2>2. slots[c.far].tasks \in Nat BY <1>1 DEF ServingInv, TypeOKServer
  <2>3. slots[c.far].tasks < MaxTasks BY <1>10, <2>2, LimitAssumption
  <2> QED BY <1>1, <1>3, <1>4, <1>8, <2>1, <2>3, HandlerCounts
<1> QED BY <1>9, <1>10

LEMMA ReadTaskKeeps ==
    ASSUME ServingInv, NEW x \in Conns, ReadTask(x)
    PROVE  ServingInv'
<1>1. ran \in [Calls -> [Instances -> Nat]] BY DEF ServingInv, TypeOKServer
<1>2. ASSUME NEW k, NEW i \in Instances
      PROVE  [ran EXCEPT ![k][i] = @ + 1] \in [Calls -> [Instances -> Nat]]
  <2>1. CASE k \in Calls
    <3>1. [ran[k] EXCEPT ![i] = @ + 1] \in [Instances -> Nat] BY <1>1, <2>1
    <3> QED BY <1>1, <2>1, <3>1
  <2>2. CASE k \notin Calls BY <1>1, <2>2
  <2> QED BY <2>1, <2>2
<1>3. conn[x].far \in Instances BY FarIsThere DEF ReadTask, Reads
<1>4. \/ ran' = ran
      \/ ran' = [ran EXCEPT ![conn[x].call][conn[x].far] = @ + 1]
  BY DEF ReadTask, server
<1>5. ran' \in [Calls -> [Instances -> Nat]] BY <1>1, <1>2, <1>3, <1>4
<1> QED BY <1>5, RequestKeeps DEF ReadTask, server

LEMMA ReadSubReqKeeps ==
    ASSUME ServingInv, NEW x \in Conns, ReadSubReq(x)
    PROVE  ServingInv'
<1>1. ran' \in [Calls -> [Instances -> Nat]] BY DEF ReadSubReq, ServingInv, TypeOKServer
<1> QED BY <1>1, RequestKeeps DEF ReadSubReq

LEMMA ReadEventKeeps ==
    ASSUME ServingInv, NEW x \in Conns, ReadEvent(x)
    PROVE  ServingInv'
<1> DEFINE c == conn[x]
           read == Over(c, FALSE, <<>>)
<1>1. /\ Shape(c) /\ c \in Conn /\ c.server = "authenticated" /\ c.up # <<>>
      /\ Head(c.up) \notin {"hello", "auth"} /\ c.far \in Instances
  BY FarIsThere DEF Reads, ReadEvent
<1>2. /\ Shape(read) /\ read.far = c.far /\ read.server = c.server /\ ~read.work
      /\ Tail(c.up) = <<>> /\ c.down = <<>> /\ ~c.work
  BY <1>1, QueueTypes, HandedOver
<1>3. Rest(x) = read BY <1>1, <1>2 DEF Rest, Conn, Over
<1>4. Put(x, read) /\ UNCHANGED <<lan, server>> BY <1>3 DEF ReadEvent
<1>5. ran' \in [Calls -> [Instances -> Nat]] /\ UNCHANGED slots /\ scene'.conns = scene.conns
  BY <1>4 DEF lan, server, ServingInv, TypeOKServer
<1> HIDE DEF read
<1> QED BY <1>1, <1>2, <1>4, <1>5, SameCounts

LEMMA HandlerEndsKeeps ==
    ASSUME ServingInv, NEW x \in Conns, HandlerEnds(x)
    PROVE  ServingInv'
<1> DEFINE c == conn[x]
           f == IF c.use = "task" THEN "result" ELSE "sub_ack"
           dn == IF c.server = "closed" \/ c.cut THEN c.down ELSE Append(c.down, f)
           d == [c EXCEPT !.work = FALSE, !.down = dn]
<1>1. Shape(c) /\ c \in Conn /\ c.work /\ c.far \in Instances
  BY FarIsThere DEF HandlerEnds
<1>2. c.down = <<>> /\ c.up = <<>> BY <1>1 DEF Shape
<1>3. dn \in Queues(DownFrames, 1)
  BY <1>2, OneFrame, QueueTypes DEF DownFrames
<1>4. Put(x, d) /\ Count(c.far, "tasks", -1) /\ UNCHANGED <<lan, ran>>
  BY <1>1 DEF HandlerEnds, Conn
<1>5. d \in Conn BY <1>1, <1>3 DEF Conn
<1>6. /\ d.use = c.use /\ d.client = c.client /\ d.far = c.far /\ d.server = c.server
      /\ d.up = <<>> /\ ~d.work
  BY <1>1, <1>2 DEF Conn
<1>7. c.use # "none" /\ c.client \in {"result", "closed"}
  BY <1>1 DEF Shape, Unused
<1>8. Shape(d) BY <1>1, <1>5, <1>6, <1>7, OneFrame DEF Shape, Sendings
<1>9. ran' \in [Calls -> [Instances -> Nat]] /\ scene'.conns = scene.conns
  BY <1>4 DEF lan, ServingInv, TypeOKServer
<1> HIDE DEF d
<1> QED BY <1>1, <1>4, <1>6, <1>8, <1>9, HandlerCounts
LEMMA ServerStepKeeps ==
    ASSUME ServingInv, ServerStep
    PROVE  ServingInv'
<1> PICK x \in Conns : \/ OverBudget(x) \/ ReadHello(x) \/ ReadAuth(x) \/ ReadTask(x)
                       \/ ReadSubReq(x) \/ ReadEvent(x) \/ HandlerEnds(x)
                       \/ HandshakeTimesOut(x) \/ ServerSeesClose(x)
  BY DEF ServerStep
<1>1. CASE OverBudget(x)
  <2>1. conn[x].server # "closed" BY <1>1 DEF OverBudget, Reads
  <2> QED BY <1>1, <2>1, HangupKeeps DEF OverBudget
<1>2. CASE HandshakeTimesOut(x) BY <1>2, HangupKeeps DEF HandshakeTimesOut
<1>3. CASE ServerSeesClose(x) BY <1>3, HangupKeeps DEF ServerSeesClose
<1> QED
  BY <1>1, <1>2, <1>3, ReadHelloKeeps, ReadAuthKeeps, ReadTaskKeeps, ReadSubReqKeeps,
     ReadEventKeeps, HandlerEndsKeeps

-----------------------------------------------------------------------------
\* The calling half.  A caller is done with a connection.
Done(c) == [c EXCEPT !.client = "closed", !.down = <<>>]

LEMMA DoneIsShaped ==
    ASSUME NEW c, Shape(c)
    PROVE  /\ Shape(Done(c)) /\ Done(c).far = c.far /\ Done(c).server = c.server
           /\ Done(c).work = c.work
<1> DEFINE d == Done(c)
<1>1. c \in Conn BY DEF Shape
<1>2. d \in Conn BY <1>1, QueueTypes DEF Conn, Done
<1>3. /\ d.use = c.use /\ d.client = "closed" /\ d.far = c.far /\ d.server = c.server
      /\ d.up = c.up /\ d.down = <<>> /\ d.work = c.work
  BY <1>1 DEF Conn, Done
<1>4. c.use = "none" => d = Unused
  <2>1. c.use = "none" => c = Unused BY DEF Shape
  <2>2. Unused \in Conn /\ Unused.client = "closed" /\ Unused.down = <<>>
    BY UnusedIsShaped DEF Shape, Unused
  <2>3. Done(Unused) = Unused BY <2>2 DEF Done, Conn
  <2> QED BY <2>1, <2>3
<1> HIDE DEF d
<1>5. Shape(d) BY <1>2, <1>3, <1>4 DEF Shape, Sendings
<1> QED BY <1>3, <1>5 DEF d

LEMMA FinishKeeps ==
    ASSUME ServingInv, NEW x \in Conns, NEW how, Finish(x, conn[x], how), UNCHANGED <<lan, server>>
    PROVE  ServingInv'
<1>1. Shape(conn[x]) BY FarIsThere
<1>2. Put(x, Done(conn[x])) BY DEF Finish, Done
<1>3. ran' \in [Calls -> [Instances -> Nat]] /\ UNCHANGED slots /\ scene'.conns = scene.conns
  BY DEF lan, server, ServingInv, TypeOKServer
<1> QED BY <1>1, <1>2, <1>3, DoneIsShaped, SameCounts

\* A caller that has proven itself sends what the connection is for.
Sending(c, u, cl) == [c EXCEPT !.up = u, !.client = cl, !.down = <<>>]

LEMMA SendingIsShaped ==
    ASSUME NEW c, Shape(c), c.client = "proving", NEW cl \in {"result", "closed"},
           NEW u \in {<<>>, <<"auth">>, <<"auth", c.use>>},
           u = <<"auth", c.use>> => c.use \in {"task", "sub_req", "event_emit"}
    PROVE  /\ Shape(Sending(c, u, cl)) /\ Sending(c, u, cl).far = c.far
           /\ Sending(c, u, cl).server = c.server /\ Sending(c, u, cl).work = c.work
<1> DEFINE d == Sending(c, u, cl)
<1>1. /\ c \in Conn /\ ~c.work /\ c.use # "none" /\ c.far # Nobody
  BY DEF Shape, Unused
<1>2. u \in Queues(UpFrames, 2) BY QueueTypes DEF UpFrames
<1>3. d \in Conn BY <1>1, <1>2, QueueTypes DEF Conn, Sending
<1>4. /\ d.use = c.use /\ d.client = cl /\ d.far = c.far /\ d.server = c.server
      /\ d.up = u /\ d.down = <<>> /\ d.work = c.work
  BY <1>1 DEF Conn, Sending
<1>5. u # <<"hello">>
  <2>1. Head(<<"auth">>) = "auth" /\ Head(<<"auth", c.use>>) = "auth" /\ Head(<<"hello">>) = "hello"
    OBVIOUS
  <2> QED BY <2>1, OneFrame
<1> HIDE DEF d
<1>6. Shape(d) BY <1>1, <1>3, <1>4, <1>5 DEF Shape, Sendings
<1> QED BY <1>4, <1>6 DEF d

LEMMA ProveKeeps ==
    ASSUME ServingInv, NEW x \in Conns, Prove(x)
    PROVE  ServingInv'
<1> DEFINE c == conn[x]
           frames(full) == IF full THEN <<"auth", c.use>> ELSE <<"auth">>
           u(full) == IF c.up = <<>> /\ ~c.cut /\ c.server # "closed" THEN frames(full) ELSE <<>>
           s(full) == [c EXCEPT !.up = u(full)]
<1>1. Shape(c) /\ c \in Conn /\ c.client = "proving" /\ c.down = <<>>
  BY FarIsThere DEF Prove, Shape
<1>2. \/ c.use \in {"task", "sub_req"} /\ Put(x, [s(TRUE) EXCEPT !.client = "result"])
      \/ c.use = "event_emit" /\ Put(x, Done(s(TRUE)))
      \/ Put(x, Done(s(FALSE)))
  BY <1>1 DEF Prove, Finish, Done
<1>3. /\ [s(TRUE) EXCEPT !.client = "result"] = Sending(c, u(TRUE), "result")
      /\ Done(s(TRUE)) = Sending(c, u(TRUE), "closed")
      /\ Done(s(FALSE)) = Sending(c, u(FALSE), "closed")
  BY <1>1 DEF Sending, Done, Conn
<1>4. PICK full \in BOOLEAN, cl \in {"result", "closed"} :
         /\ full => c.use \in {"task", "sub_req", "event_emit"}
         /\ Put(x, Sending(c, u(full), cl))
  BY <1>2, <1>3
<1>5. u(full) \in {<<>>, <<"auth">>, <<"auth", c.use>>} OBVIOUS
<1>6. u(full) = <<"auth", c.use>> => c.use \in {"task", "sub_req", "event_emit"}
  <2>1. <<"auth">> # <<"auth", c.use>> /\ <<>> # <<"auth", c.use>>
    <3>1. Len(<<"auth">>) = 1 /\ Len(<<>>) = 0 /\ Len(<<"auth", c.use>>) = 2 OBVIOUS
    <3> QED BY <3>1
  <2> QED BY <1>4, <2>1
<1>7. UNCHANGED <<lan, server>> BY DEF Prove
<1>8. ran' \in [Calls -> [Instances -> Nat]] /\ UNCHANGED slots /\ scene'.conns = scene.conns
  BY <1>7 DEF lan, server, ServingInv, TypeOKServer
<1> DEFINE d == Sending(c, u(full), cl)
<1> HIDE DEF u
<1>9. Shape(d) /\ d.far = c.far /\ d.server = c.server /\ d.work = c.work
  BY <1>1, <1>5, <1>6, SendingIsShaped
<1>10. Put(x, d) BY <1>4
<1> HIDE DEF d
<1> QED BY <1>8, <1>9, <1>10, SameCounts
\* The connection that a caller dialled has been answered.
Met(c, i, s, cl, u) ==
    [c EXCEPT !.far = i, !.server = s, !.client = cl, !.up = u, !.down = <<>>]

LEMMA MetIsShaped ==
    ASSUME NEW c, Shape(c), c.client = "dial", NEW i \in Instances,
           NEW s \in {"hello", "closed"}, NEW cl \in {"hello_ack", "closed"},
           NEW u \in {<<>>, <<"hello">>}
    PROVE  /\ Shape(Met(c, i, s, cl, u)) /\ Met(c, i, s, cl, u).far = i
           /\ Met(c, i, s, cl, u).server = s /\ ~Met(c, i, s, cl, u).work
           /\ Met(c, i, s, cl, u).use = c.use
<1> DEFINE d == Met(c, i, s, cl, u)
<1>1. c \in Conn /\ ~c.work /\ c.use # "none" /\ i # Nobody
  BY LanAssumption DEF Shape, Unused
<1>2. u \in Queues(UpFrames, 2) BY QueueTypes DEF UpFrames
<1>3. d \in Conn BY <1>1, <1>2, QueueTypes DEF Conn, Met
<1>4. /\ d.use = c.use /\ d.client = cl /\ d.far = i /\ d.server = s
      /\ d.up = u /\ d.down = <<>> /\ d.work = c.work
  BY <1>1 DEF Conn, Met
<1> HIDE DEF d
<1>5. Shape(d) BY <1>1, <1>3, <1>4, OneFrame DEF Shape, Sendings
<1> QED BY <1>1, <1>4, <1>5 DEF d

LEMMA ConnectKeeps ==
    ASSUME ServingInv, NEW x \in Conns, NEW i \in Instances, Connect(x, i)
    PROVE  ServingInv'
<1> DEFINE c == conn[x]
           s == IF Admits(i) THEN "hello" ELSE "closed"
           u == IF Admits(i) THEN <<"hello">> ELSE <<>>
<1>1. /\ Shape(c) /\ c \in Conn /\ c.client = "dial" /\ c.down = <<>> /\ c.up = <<>>
      /\ c.far = Nobody /\ c.server = "closed" /\ ~c.work
  BY FarIsThere DEF Connect, Shape
<1>2. PICK cl \in {"hello_ack", "closed"}, v \in {<<>>, <<"hello">>} : Put(x, Met(c, i, s, cl, v))
  <2>1. CASE i = c.peer
    <3>1. Put(x, [Answered(x, i) EXCEPT !.client = "hello_ack", !.up = u])
      BY <2>1 DEF Connect, Greets
    <3>2. [Answered(x, i) EXCEPT !.client = "hello_ack", !.up = u] = Met(c, i, s, "hello_ack", u)
      BY <1>1 DEF Answered, Met, Conn
    <3> QED BY <3>1, <3>2
  <2>2. CASE i # c.peer
    <3>1. Put(x, [Answered(x, i) EXCEPT !.client = "closed", !.down = <<>>])
      BY <2>2 DEF Connect, Finish
    <3>2. [Answered(x, i) EXCEPT !.client = "closed", !.down = <<>>] = Met(c, i, s, "closed", <<>>)
      BY <1>1 DEF Answered, Met, Conn
    <3> QED BY <3>1, <3>2
  <2> QED BY <2>1, <2>2
<1> DEFINE d == Met(c, i, s, cl, v)
<1>3. Shape(d) /\ d.far = i /\ d.server = s /\ ~d.work /\ Put(x, d)
  BY <1>1, <1>2, MetIsShaped
<1>4. /\ IF Admits(i) THEN Count(i, "connections", 1) ELSE UNCHANGED slots
      /\ UNCHANGED ran /\ scene'.conns = scene.conns
  BY DEF Connect, Admission, lan
<1>5. d.work \in BOOLEAN BY <1>3 DEF Shape, Conn
<1> HIDE DEF d
<1>6. CASE Admits(i) BY <1>1, <1>3, <1>4, <1>5, <1>6, ConnectionCounts
<1>7. CASE ~Admits(i)
  <2>1. ran' \in [Calls -> [Instances -> Nat]] BY <1>4 DEF ServingInv, TypeOKServer
  <2>2. d.server = "closed" BY <1>3, <1>7
  <2> QED BY <1>1, <1>3, <1>4, <1>7, <2>1, <2>2, SameCounts
<1> QED BY <1>6, <1>7

LEMMA ReadHelloAckKeeps ==
    ASSUME ServingInv, NEW x \in Conns, ReadHelloAck(x)
    PROVE  ServingInv'
<1> DEFINE c == conn[x]
           d == [c EXCEPT !.client = "proving", !.down = <<>>]
<1>1. Shape(c) /\ c \in Conn /\ c.client = "hello_ack" /\ c.down # <<>>
  BY FarIsThere DEF ReadHelloAck
<1>2. UNCHANGED <<lan, server>> BY DEF ReadHelloAck
<1>3. ran' \in [Calls -> [Instances -> Nat]] /\ UNCHANGED slots /\ scene'.conns = scene.conns
  BY <1>2 DEF lan, server, ServingInv, TypeOKServer
<1>4. Put(x, Done(c)) \/ Put(x, d) BY DEF ReadHelloAck, Finish, Done
<1>5. Shape(d) /\ d.far = c.far /\ d.server = c.server /\ d.work = c.work
  <2>1. d \in Conn BY <1>1, QueueTypes DEF Conn
  <2>2. /\ d.use = c.use /\ d.client = "proving" /\ d.far = c.far /\ d.server = c.server
        /\ d.up = c.up /\ d.down = <<>> /\ d.work = c.work
    BY <1>1 DEF Conn
  <2>3. c.use # "none" /\ c.far # Nobody /\ c.up = <<>> /\ ~c.work BY <1>1 DEF Shape, Unused
  <2> HIDE DEF d
  <2>4. Shape(d) BY <2>1, <2>2, <2>3, OneFrame DEF Shape, Sendings
  <2> QED BY <2>2, <2>4
<1> HIDE DEF d
<1>6. CASE Put(x, d) BY <1>3, <1>5, <1>6, SameCounts
<1>7. CASE Put(x, Done(c)) BY <1>1, <1>3, <1>7, DoneIsShaped, SameCounts
<1> QED BY <1>4, <1>6, <1>7

\* A new connection counts for nobody yet.
LEMMA DialKeeps ==
    ASSUME ServingInv, NEW x \in Free,
           NEW use \in {"task", "probe", "ping", "sub_req", "event_emit"},
           NEW i \in Instances, NEW k \in Calls \cup {Nobody},
           NEW a \in Addresses \cup {Nobody}, Put(x, Dialled(use, i, k, a)),
           UNCHANGED server, scene'.conns = scene.conns
    PROVE  ServingInv'
<1> DEFINE d == Dialled(use, i, k, a)
<1>1. x \in Conns /\ conn[x].use = "none" BY DEF ServingInv, Free
<1>2. conn[x] = Unused BY <1>1, FarIsThere DEF Shape
<1>3. Shape(d) BY DialledIsShaped
<1>4. d.server = "closed" /\ ~d.work /\ conn[x].server = "closed" /\ ~conn[x].work
  BY <1>2 DEF Dialled, Unused
<1>5. ran' \in [Calls -> [Instances -> Nat]] /\ UNCHANGED slots
  BY DEF server, ServingInv, TypeOKServer
<1> HIDE DEF d
<1> QED BY <1>1, <1>3, <1>4, <1>5, SameCounts DEF d
-----------------------------------------------------------------------------
\* What this node has on record.
LEMMA RecordTypes ==
    ASSUME RecordsInv, NEW i \in Instances, NEW a \in Addresses \cup {Nobody}, Record(i, a)
    PROVE  known' \in Seq(Instances) /\ book' \in [Instances -> Addresses \cup {Nobody}]
BY DEF RecordsInv, Record

LEMMA ForgetTypes ==
    ASSUME RecordsInv, NEW gone, Forget(gone)
    PROVE  known' \in Seq(Instances) /\ book' \in [Instances -> Addresses \cup {Nobody}]
BY WithoutIsSeq DEF RecordsInv, Forget

LEMMA ChangeTypes ==
    ASSUME scene \in Stage, Change
    PROVE  scene' \in Stage /\ scene'.conns = scene.conns
BY DEF Stage, Change

LEMMA RecordsStep ==
    ASSUME RecordsInv, Next
    PROVE  RecordsInv'
<1> USE DEF RecordsInv, TypeOKDiscovery
<1>1. ASSUME NEW i \in Instances, NEW p \in People, NEW a \in Addresses, Start(i, p, a)
      PROVE  RecordsInv'
  BY <1>1 DEF Start, quiet, client
<1>2. ASSUME NEW i \in Instances, Announce(i)
      PROVE  RecordsInv'
  <2>1. air' \subseteq Sent BY <1>2 DEF Announce, Sends, Sent
  <2> QED BY <1>2, <2>1 DEF Announce, lan, client
<1>3. ASSUME NEW i \in Instances, Leave(i)
      PROVE  RecordsInv'
  <2>1. air' \subseteq Sent BY <1>3 DEF Leave, Sends, Sent
  <2>2. scene' \in Stage BY <1>3, ChangeTypes DEF Leave
  <2> QED BY <1>3, <2>1, <2>2 DEF Leave, client
<1>4. ASSUME NEW i \in Instances, End(i)
      PROVE  RecordsInv'
  <2>1. scene' \in Stage BY <1>4, ChangeTypes DEF End
  <2> QED BY <1>4, <2>1 DEF End, quiet, client
<1>5. ASSUME NEW i \in Instances, NEW a \in Addresses, Move(i, a)
      PROVE  RecordsInv'
  <2>1. scene' \in Stage BY <1>5, ChangeTypes DEF Move
  <2> QED BY <1>5, <2>1 DEF Move, quiet, client
<1>6. ASSUME NEW x \in Conns, Cut(x), UNCHANGED <<server, client, air>>
      PROVE  RecordsInv'
  <2>1. scene' \in Stage BY <1>6, ChangeTypes DEF Cut
  <2> QED BY <1>6, <2>1 DEF Cut, client
<1>7. ASSUME NEW m \in air, Lose(m)
      PROVE  RecordsInv'
  BY <1>7 DEF Lose, lan, client
<1>8. CASE Serving
  <2>1. UNCHANGED <<lan, quiet>>
    BY <1>8 DEF Serving, ServerStep, OverBudget, ReadHello, ReadAuth, ReadTask, ReadSubReq,
       ReadEvent, HandlerEnds, HandshakeTimesOut, ServerSeesClose
  <2> QED BY <2>1 DEF lan, quiet, client
<1>9. CASE Calling
  <2>1. ASSUME NEW x \in Conns, NEW c, NEW how, Finish(x, c, how)
        PROVE  UNCHANGED <<known, book>>
    BY <2>1 DEF Finish
  <2>2. ASSUME NEW x \in Conns,
               \/ \E i \in Instances : Connect(x, i)
               \/ LoseConnection(x) \/ TimeOut(x) \/ ReadHelloAck(x) \/ Prove(x) \/ ReadResult(x)
        PROVE  UNCHANGED <<known, book, lan>>
    BY <2>1, <2>2 DEF Connect, LoseConnection, TimeOut, ReadHelloAck, Prove, ReadResult, client
  <2>3. ASSUME NEW k \in Calls, SendTask(k) \/ SendTaskNowhere(k)
        PROVE  UNCHANGED <<known, book, lan>>
    BY <2>3 DEF SendTask, SendTaskNowhere
  <2>4. ASSUME NEW i \in Instances, NEW use \in {"sub_req", "event_emit"}, SendFrame(i, use)
        PROVE  UNCHANGED <<known, book, life, home>> /\ scene' \in Stage
    <3>1. scene' \in Stage BY <2>4 DEF SendFrame, Stage
    <3> QED BY <2>4, <3>1 DEF SendFrame, client
  <2>5. UNCHANGED <<known, book, life, home, air>> /\ scene' \in Stage
    BY <1>9, <2>2, <2>3, <2>4 DEF Calling, ClientStep, lan
  <2> QED BY <2>5
<1>10. CASE DiscoveryStep
  <2>1. ASSUME NEW m \in air, OnServiceUp(m) \/ OnServiceHeartbeat(m)
        PROVE  RecordsInv'
    <3>1. m.from \in Instances /\ m.address \in Addresses BY DEF Sent
    <3>2. Record(m.from, m.address) /\ air' = air \ {m} /\ UNCHANGED lan
      BY <2>1 DEF OnServiceUp, OnServiceHeartbeat, Hears
    <3>3. known' \in Seq(Instances) /\ book' \in [Instances -> Addresses \cup {Nobody}]
      BY <3>1, <3>2, RecordTypes
    <3> QED BY <3>2, <3>3 DEF lan
  <2>2. ASSUME NEW m \in air, OnServiceDown(m)
        PROVE  RecordsInv'
    <3>1. Forget({m.from}) /\ air' = air \ {m} /\ UNCHANGED lan
      BY <2>2 DEF OnServiceDown, Hears
    <3>2. known' \in Seq(Instances) /\ book' \in [Instances -> Addresses \cup {Nobody}]
      BY <3>1, ForgetTypes
    <3> QED BY <3>1, <3>2 DEF lan
  <2>3. ASSUME NEW silent \in SUBSET Known, PruneStalePeers(silent)
        PROVE  RecordsInv'
    <3>1. Forget(silent) /\ UNCHANGED <<lan, air>> BY <2>3 DEF PruneStalePeers
    <3>2. known' \in Seq(Instances) /\ book' \in [Instances -> Addresses \cup {Nobody}]
      BY <3>1, ForgetTypes
    <3> QED BY <3>1, <3>2 DEF lan
  <2>4. CASE Discover BY <2>4 DEF Discover, lan
  <2>5. ASSUME NEW i \in Instances, RegisterReversePeer(i)
        PROVE  RecordsInv'
    <3>1. Record(i, home[i]) /\ UNCHANGED <<lan, air>> BY <2>5 DEF RegisterReversePeer
    <3>2. known' \in Seq(Instances) /\ book' \in [Instances -> Addresses \cup {Nobody}]
      BY <3>1, RecordTypes
    <3> QED BY <3>1, <3>2 DEF lan
  <2> QED BY <1>10, <2>1, <2>2, <2>3, <2>4, <2>5 DEF DiscoveryStep
<1>11. CASE OnWan(WanStep) BY <1>11 DEF OnWan, lan, client
<1> QED
  BY <1>1, <1>2, <1>3, <1>4, <1>5, <1>6, <1>7, <1>8, <1>9, <1>10, <1>11
  DEF Next, OnLan, Environment
-----------------------------------------------------------------------------
\* Whatever becomes of its connection, a call has an outcome, and is not retried.
LEMMA FinishSettles ==
    ASSUME NeverRetried, NEW x, NEW c, NEW how, Finish(x, c, how),
           c.use = "task" => how \in Outcomes
    PROVE  NeverRetried'
<1>1. CallAfter(c.call, how) = how BY DEF CallAfter, Rejects
<1>2. CASE c.use = "task"
  <2>1. call' = [call EXCEPT ![c.call] = how] BY <1>1, <1>2 DEF Finish
  <2> QED BY <1>2, <2>1 DEF NeverRetried
<1>3. CASE c.use # "task"
  <2>1. call' = call BY <1>3 DEF Finish
  <2> QED BY <2>1 DEF NeverRetried
<1> QED BY <1>2, <1>3

LEMMA NeverRetriedStep ==
    ASSUME ServingInv, NeverRetried, Next
    PROVE  NeverRetried'
<1>1. ASSUME UNCHANGED call PROVE NeverRetried' BY <1>1 DEF NeverRetried
<1>2. CASE Environment
  <2>1. UNCHANGED call
    BY <1>2 DEF Environment, Start, Announce, Leave, End, Move, Cut, Lose, quiet, client, caller
  <2> QED BY <1>1, <2>1
<1>3. CASE Serving
  <2>1. UNCHANGED call BY <1>3 DEF Serving, quiet, client, caller
  <2> QED BY <1>1, <2>1
<1>4. CASE Calling
  <2>1. ASSUME NEW x \in Conns, NEW i \in Instances, Connect(x, i)
        PROVE  NeverRetried'
    <3>1. CASE i = conn[x].peer
      <4>1. UNCHANGED call BY <2>1, <3>1 DEF Connect, client, caller
      <4> QED BY <1>1, <4>1
    <3>2. CASE i # conn[x].peer
      <4>1. Finish(x, Answered(x, i), "failed") BY <2>1, <3>2 DEF Connect
      <4> QED BY <4>1, FinishSettles DEF Outcomes
    <3> QED BY <3>1, <3>2
  <2>2. ASSUME NEW x \in Conns, LoseConnection(x) \/ TimeOut(x) \/ ReadResult(x)
        PROVE  NeverRetried'
    <3>1. \E how \in Outcomes : Finish(x, conn[x], how)
      BY <2>2 DEF LoseConnection, TimeOut, ReadResult, Outcomes
    <3> QED BY <3>1, FinishSettles
  <2>3. ASSUME NEW x \in Conns, ReadHelloAck(x)
        PROVE  NeverRetried'
    <3>1. \/ conn[x].use = "probe" /\ Finish(x, conn[x], "proven")
          \/ UNCHANGED call
          \/ call' = [call EXCEPT ![conn[x].call] = "failed"]
      BY <2>3 DEF ReadHelloAck, caller
    <3>2. CASE conn[x].use = "probe" /\ Finish(x, conn[x], "proven") BY <3>2, FinishSettles
    <3>3. CASE call' = [call EXCEPT ![conn[x].call] = "failed"]
      BY <3>3 DEF NeverRetried, Outcomes
    <3> QED BY <1>1, <3>1, <3>2, <3>3
  <2>4. ASSUME NEW x \in Conns, Prove(x)
        PROVE  NeverRetried'
    <3>1. conn[x] \in Conn BY FarIsThere
    <3>2. \A u : [conn[x] EXCEPT !.up = u].use = conn[x].use BY <3>1 DEF Conn
    <3>3. \/ UNCHANGED client
          \/ \E u : Finish(x, [conn[x] EXCEPT !.up = u], "ok")
          \/ \E u : Finish(x, [conn[x] EXCEPT !.up = u], "failed")
          \/ conn[x].use = "ping" /\ \E u : Finish(x, [conn[x] EXCEPT !.up = u], "proven")
      BY <2>4 DEF Prove
    <3>4. CASE UNCHANGED client BY <1>1, <3>4 DEF client, caller
    <3>5. CASE \/ \E u : Finish(x, [conn[x] EXCEPT !.up = u], "ok")
               \/ \E u : Finish(x, [conn[x] EXCEPT !.up = u], "failed")
      BY <3>5, FinishSettles DEF Outcomes
    <3>6. CASE conn[x].use = "ping" /\ \E u : Finish(x, [conn[x] EXCEPT !.up = u], "proven")
      <4>1. PICK u : Finish(x, [conn[x] EXCEPT !.up = u], "proven") BY <3>6
      <4>2. [conn[x] EXCEPT !.up = u].use # "task" BY <3>2, <3>6
      <4> QED BY <4>1, <4>2, FinishSettles
    <3> QED BY <3>3, <3>4, <3>5, <3>6
  <2>5. ASSUME NEW k \in Calls, SendTask(k) \/ SendTaskNowhere(k)
        PROVE  NeverRetried'
    BY <2>5 DEF SendTask, SendTaskNowhere, NeverRetried, Outcomes
  <2>6. ASSUME NEW i \in Instances, NEW use \in {"sub_req", "event_emit"}, SendFrame(i, use)
        PROVE  NeverRetried'
    <3>1. UNCHANGED call BY <2>6 DEF SendFrame, client, caller
    <3> QED BY <1>1, <3>1
  <2> QED BY <1>4, <2>1, <2>2, <2>3, <2>4, <2>5, <2>6 DEF Calling, ClientStep
<1>5. CASE DiscoveryStep
  <2>1. UNCHANGED call
    BY <1>5 DEF DiscoveryStep, OnServiceUp, OnServiceHeartbeat, OnServiceDown, PruneStalePeers,
       Discover, RegisterReversePeer, caller
  <2> QED BY <1>1, <2>1
<1>6. CASE OnWan(WanStep)
  <2>1. UNCHANGED call BY <1>6 DEF OnWan, client, caller
  <2> QED BY <1>1, <2>1
<1> QED BY <1>2, <1>3, <1>4, <1>5, <1>6 DEF Next, OnLan
-----------------------------------------------------------------------------
\* The peer that a call is addressed to.
LEMMA TargetIsKnown ==
    ASSUME known \in Seq(Instances), NEW p, Targets(p) # {}
    PROVE  Target(p) \in Instances /\ PeerIdOf(Target(p)) = p
<1>1. Targets(p) \subseteq Nat BY DEF Targets
<1>2. \E n \in Targets(p) : \A m \in Targets(p) : n <= m BY <1>1, Least
<1> DEFINE n == CHOOSE n \in Targets(p) : \A m \in Targets(p) : n <= m
<1>3. n \in Targets(p) BY <1>2
<1>4. Target(p) = known[n] BY DEF Target
<1> HIDE DEF n
<1> QED BY <1>3, <1>4 DEF Targets

LEMMA AimIsKnown ==
    ASSUME RecordsInv, NeverRetried, NEW k \in Calls, SendTask(k)
    PROVE  /\ Aim(k)[1] \in Instances /\ Aim(k)[2] \in Addresses \cup {Nobody}
           /\ PeerIdOf(Aim(k)[1]) = Wanted[k]
<1>1. call[k] # "backoff" BY DEF NeverRetried, Outcomes
<1>2. Targets(Wanted[k]) # {} BY <1>1 DEF SendTask
<1>3. Aim(k) = <<Target(Wanted[k]), book[Target(Wanted[k])]>> BY <1>1 DEF Aim
<1>4. Target(Wanted[k]) \in Instances /\ PeerIdOf(Target(Wanted[k])) = Wanted[k]
  BY <1>2, TargetIsKnown DEF RecordsInv
<1> QED BY <1>3, <1>4 DEF RecordsInv

LEMMA ClientStepKeeps ==
    ASSUME RecordsInv, NeverRetried, ServingInv, ClientStep
    PROVE  ServingInv'
<1>1. ASSUME NEW x \in Conns, NEW i \in Instances, Connect(x, i)
      PROVE  ServingInv'
  BY <1>1, ConnectKeeps
<1>2. ASSUME NEW x \in Conns, LoseConnection(x) \/ TimeOut(x) \/ ReadResult(x)
      PROVE  ServingInv'
  BY <1>2, FinishKeeps DEF LoseConnection, TimeOut, ReadResult
<1>3. ASSUME NEW x \in Conns, ReadHelloAck(x) \/ Prove(x)
      PROVE  ServingInv'
  BY <1>3, ReadHelloAckKeeps, ProveKeeps
<1>4. ASSUME NEW k \in Calls, SendTask(k)
      PROVE  ServingInv'
  <2>1. PICK x \in Free : Put(x, Dialled("task", Aim(k)[1], k, Aim(k)[2]))
    BY <1>4 DEF SendTask
  <2>2. UNCHANGED server /\ scene'.conns = scene.conns BY <1>4 DEF SendTask, lan
  <2> QED BY <1>4, <2>1, <2>2, AimIsKnown, DialKeeps
<1>5. ASSUME NEW k \in Calls, SendTaskNowhere(k)
      PROVE  ServingInv'
  <2>1. UNCHANGED <<conn, slots, ran, scene>> BY <1>5 DEF SendTaskNowhere, lan, server
  <2> QED BY <2>1 DEF ServingInv, TypeOKServer, Shaped, LimitsHold, ServedBy, WorkingFor
<1>6. ASSUME NEW i \in Instances, NEW use \in {"sub_req", "event_emit"}, SendFrame(i, use)
      PROVE  ServingInv'
  <2>1. PICK x \in Free : Put(x, Dialled(use, i, Nobody, book[i])) BY <1>6 DEF SendFrame
  <2>2. UNCHANGED server /\ scene'.conns = scene.conns
    BY <1>6 DEF SendFrame, RecordsInv, Stage
  <2>3. book[i] \in Addresses \cup {Nobody} BY DEF RecordsInv
  <2> QED BY <2>1, <2>2, <2>3, DialKeeps
<1> QED BY <1>1, <1>2, <1>3, <1>4, <1>5, <1>6 DEF ClientStep

-----------------------------------------------------------------------------
\* The environment.
LEMMA SameServing ==
    ASSUME ServingInv, UNCHANGED <<conn, slots, ran>>, scene'.conns = scene.conns
    PROVE  ServingInv'
BY DEF ServingInv, TypeOKServer, Shaped, LimitsHold, ServedBy, WorkingFor

\* A connection that the network drops.
Dropped(c) == [c EXCEPT !.cut = TRUE, !.up = <<>>, !.down = <<>>]

LEMMA DroppedIsShaped ==
    ASSUME NEW c, Shape(c), c.far # Nobody
    PROVE  /\ Shape(Dropped(c)) /\ Dropped(c).far = c.far /\ Dropped(c).server = c.server
           /\ Dropped(c).work = c.work
<1> DEFINE d == Dropped(c)
<1>1. c \in Conn /\ c.use # "none" BY DEF Shape, Unused
<1>2. d \in Conn BY <1>1, QueueTypes DEF Conn, Dropped
<1>3. /\ d.use = c.use /\ d.client = c.client /\ d.far = c.far /\ d.server = c.server
      /\ d.up = <<>> /\ d.down = <<>> /\ d.work = c.work
  BY <1>1 DEF Conn, Dropped
<1> HIDE DEF d
<1>4. Shape(d) BY <1>1, <1>2, <1>3, OneFrame DEF Shape, Sendings
<1> QED BY <1>3, <1>4 DEF d

LEMMA CutKeeps ==
    ASSUME RecordsInv, ServingInv, NEW x \in Conns, Cut(x), UNCHANGED server
    PROVE  ServingInv'
<1>1. Shape(conn[x]) /\ conn[x].far # Nobody BY FarIsThere DEF Cut
<1>2. Put(x, Dropped(conn[x])) BY DEF Cut, Dropped
<1>3. scene'.conns = scene.conns BY ChangeTypes DEF Cut, RecordsInv
<1>4. ran' \in [Calls -> [Instances -> Nat]] /\ UNCHANGED slots
  BY DEF server, ServingInv, TypeOKServer
<1> QED BY <1>1, <1>2, <1>3, <1>4, DroppedIsShaped, SameCounts

LEMMA MoveKeeps ==
    ASSUME RecordsInv, ServingInv, NEW i \in Instances, NEW a \in Addresses, Move(i, a)
    PROVE  ServingInv'
<1>1. conn' = [x \in Conns |-> IF conn[x].far = i THEN Dropped(conn[x]) ELSE conn[x]]
  BY DEF Move, Dropped
<1>2. ASSUME NEW x \in Conns
      PROVE  /\ Shape(conn'[x]) /\ conn'[x].far = conn[x].far
             /\ conn'[x].server = conn[x].server /\ conn'[x].work = conn[x].work
  <2>1. Shape(conn[x]) BY FarIsThere
  <2>2. conn[x].far = i => conn[x].far # Nobody BY LanAssumption
  <2>3. conn'[x] = IF conn[x].far = i THEN Dropped(conn[x]) ELSE conn[x] BY <1>1
  <2> QED BY <2>1, <2>2, <2>3, DroppedIsShaped
<1>3. conn' \in [Conns -> Conn] BY <1>1, <1>2 DEF Shape
<1>4. Shaped' BY <1>2 DEF Shaped, Shape, Conn, Unused, Sendings
<1>5. ASSUME NEW j \in Instances
      PROVE  ServedBy(j)' = ServedBy(j) /\ WorkingFor(j)' = WorkingFor(j)
  BY <1>2 DEF ServedBy, WorkingFor
<1>6. UNCHANGED <<slots, ran>> BY DEF Move, server
<1>7. LimitsHold' BY <1>5, <1>6 DEF ServingInv, LimitsHold
<1>8. scene'.conns = scene.conns BY ChangeTypes DEF Move, RecordsInv
<1> QED BY <1>3, <1>4, <1>6, <1>7, <1>8 DEF ServingInv, TypeOKServer

\* A connection whose far end is no more.
Ended(c) ==
    IF c.client = "closed" THEN Unused
    ELSE [c EXCEPT !.server = "closed", !.up = <<>>, !.work = FALSE]

LEMMA EndedIsShaped ==
    ASSUME NEW c, Shape(c), c.far # Nobody
    PROVE  /\ Shape(Ended(c)) /\ Ended(c).server = "closed" /\ ~Ended(c).work
           /\ Ended(c).far \in {c.far, Nobody}
<1> DEFINE d == [c EXCEPT !.server = "closed", !.up = <<>>, !.work = FALSE]
<1>1. c \in Conn /\ c.use # "none" BY DEF Shape, Unused
<1>2. d \in Conn BY <1>1, QueueTypes DEF Conn
<1>3. /\ d.use = c.use /\ d.client = c.client /\ d.far = c.far /\ d.server = "closed"
      /\ d.up = <<>> /\ d.down = c.down /\ ~d.work
  BY <1>1 DEF Conn
<1>4. Unused.server = "closed" /\ ~Unused.work /\ Unused.far = Nobody BY DEF Unused
<1>5. Ended(c) = IF c.client = "closed" THEN Unused ELSE d BY DEF Ended
<1> HIDE DEF d
<1>6. Shape(d) BY <1>1, <1>2, <1>3, OneFrame DEF Shape, Sendings
<1> QED BY <1>3, <1>4, <1>5, <1>6, UnusedIsShaped

LEMMA EndKeeps ==
    ASSUME RecordsInv, ServingInv, NEW i \in Instances, End(i)
    PROVE  ServingInv'
<1>1. conn' = [x \in Conns |-> IF conn[x].far = i THEN Ended(conn[x]) ELSE conn[x]]
  BY DEF End, Ended
<1>2. ASSUME NEW x \in Conns
      PROVE  /\ Shape(conn'[x])
             /\ conn[x].far = i => /\ conn'[x].server = "closed" /\ ~conn'[x].work
                                   /\ conn'[x].far \in {i, Nobody}
             /\ conn[x].far # i => conn'[x] = conn[x]
  <2>1. Shape(conn[x]) BY FarIsThere
  <2>2. conn[x].far = i => conn[x].far # Nobody BY LanAssumption
  <2>3. conn'[x] = IF conn[x].far = i THEN Ended(conn[x]) ELSE conn[x] BY <1>1
  <2> QED BY <2>1, <2>2, <2>3, EndedIsShaped
<1>3. conn' \in [Conns -> Conn] BY <1>1, <1>2 DEF Shape
<1>4. Shaped' BY <1>2 DEF Shaped, Shape, Conn, Unused, Sendings
<1>5. /\ UNCHANGED ran
      /\ slots' = [slots EXCEPT ![i] = [connections |-> 0, tasks |-> 0]]
  BY DEF End
<1>6. TypeOKServer' BY <1>5 DEF ServingInv, TypeOKServer
<1>7. ASSUME NEW j \in Instances, j # i
      PROVE  ServedBy(j)' = ServedBy(j) /\ WorkingFor(j)' = WorkingFor(j) /\ slots'[j] = slots[j]
  <2>1. j # Nobody BY LanAssumption
  <2>2. slots'[j] = slots[j] BY <1>5, <1>7 DEF ServingInv, TypeOKServer
  <2>3. \A x \in Conns : conn[x].far = i => conn'[x].far # j BY <1>2, <1>7, <2>1
  <2>4. \A x \in Conns : conn[x].far # i => conn'[x] = conn[x] BY <1>2
  <2>5. ServedBy(j)' = ServedBy(j) BY <1>7, <2>3, <2>4 DEF ServedBy
  <2>6. WorkingFor(j)' = WorkingFor(j) BY <1>7, <2>3, <2>4 DEF WorkingFor
  <2> QED BY <2>2, <2>5, <2>6
<1>8. ServedBy(i)' = {} /\ WorkingFor(i)' = {} BY <1>2 DEF ServedBy, WorkingFor
<1>9. slots'[i].connections = 0 /\ slots'[i].tasks = 0
  BY <1>5 DEF ServingInv, TypeOKServer
<1>10. ASSUME NEW j \in Instances
       PROVE  /\ slots'[j].connections = Cardinality(ServedBy(j)')
              /\ slots'[j].connections <= MaxConnections
              /\ slots'[j].tasks = Cardinality(WorkingFor(j)')
              /\ slots'[j].tasks <= MaxTasks
  <2>1. CASE j = i BY <1>8, <1>9, <2>1, FS_EmptySet, LimitAssumption
  <2>2. CASE j # i BY <1>7, <2>2 DEF ServingInv, LimitsHold
  <2> QED BY <2>1, <2>2
<1>11. LimitsHold' BY <1>10 DEF LimitsHold
<1>12. scene'.conns = scene.conns BY ChangeTypes DEF End, RecordsInv
<1> QED BY <1>3, <1>4, <1>6, <1>11, <1>12 DEF ServingInv
-----------------------------------------------------------------------------
\* Discovery.
LEMMA PingKeeps ==
    ASSUME ServingInv, NEW i \in Instances, NEW a \in Addresses, Ping(i, a), UNCHANGED <<lan, server>>
    PROVE  ServingInv'
<1>1. scene'.conns = scene.conns /\ UNCHANGED <<slots, ran>> BY DEF lan, server
<1>2. CASE UNCHANGED conn BY <1>1, <1>2, SameServing
<1>3. CASE \E x \in Free : Put(x, Dialled("ping", i, Nobody, a)) BY <1>1, <1>3, DialKeeps
<1> QED BY <1>2, <1>3 DEF Ping

LEMMA DiscoverKeeps ==
    ASSUME RecordsInv, ServingInv, Discover
    PROVE  ServingInv'
<1>0. PICK unknown \in SUBSET {i \in Known \ probing : caps[i] = Nobody} :
         \E line \in [unknown -> Free] :
            conn' = [x \in Conns |->
                       IF \E i \in unknown : line[i] = x
                       THEN LET i == CHOOSE j \in unknown : line[j] = x
                            IN Dialled("probe", i, Nobody, book[i])
                       ELSE conn[x]]
  BY DEF Discover
<1>1. PICK line \in [unknown -> Free] :
         conn' = [x \in Conns |->
                    IF \E i \in unknown : line[i] = x
                    THEN LET i == CHOOSE j \in unknown : line[j] = x
                         IN Dialled("probe", i, Nobody, book[i])
                    ELSE conn[x]]
  BY <1>0
<1>2. unknown \subseteq Instances BY DEF Known, RecordsInv
<1>3. ASSUME NEW x \in Conns
      PROVE  /\ Shape(conn'[x])
             /\ \/ conn'[x] = conn[x]
                \/ /\ conn[x].server = "closed" /\ ~conn[x].work
                   /\ conn'[x].server = "closed" /\ ~conn'[x].work
  <2>1. CASE \E i \in unknown : line[i] = x
    <3> DEFINE i == CHOOSE j \in unknown : line[j] = x
    <3>1. i \in unknown /\ line[i] = x BY <2>1
    <3>2. conn'[x] = Dialled("probe", i, Nobody, book[i]) BY <1>1, <2>1
    <3> HIDE DEF i
    <3>3. i \in Instances /\ book[i] \in Addresses \cup {Nobody}
      BY <1>2, <3>1 DEF RecordsInv
    <3>4. Shape(conn'[x]) BY <3>2, <3>3, DialledIsShaped
    <3>5. conn'[x].server = "closed" /\ ~conn'[x].work BY <3>2 DEF Dialled, Unused
    <3>6. x \in Free BY <3>1
    <3>7. conn[x] = Unused BY <3>6, FarIsThere DEF Free, Shape
    <3>8. conn[x].server = "closed" /\ ~conn[x].work BY <3>7 DEF Unused
    <3> QED BY <3>4, <3>5, <3>8
  <2>2. CASE ~\E i \in unknown : line[i] = x
    <3>1. conn'[x] = conn[x] BY <1>1, <2>2
    <3> QED BY <3>1, FarIsThere
  <2> QED BY <2>1, <2>2
<1>4. conn' \in [Conns -> Conn] BY <1>1, <1>3 DEF Shape
<1>5. Shaped' BY <1>3 DEF Shaped, Shape, Conn, Unused, Sendings
<1>6. ASSUME NEW j \in Instances
      PROVE  ServedBy(j)' = ServedBy(j) /\ WorkingFor(j)' = WorkingFor(j)
  BY <1>3 DEF ServedBy, WorkingFor
<1>7. UNCHANGED <<slots, ran, scene>> BY DEF Discover, lan, server
<1>8. LimitsHold' BY <1>6, <1>7 DEF ServingInv, LimitsHold
<1> QED BY <1>4, <1>5, <1>7, <1>8 DEF ServingInv, TypeOKServer

LEMMA ServingStep ==
    ASSUME RecordsInv, NeverRetried, ServingInv, Next
    PROVE  ServingInv'
<1>1. CASE Environment
  <2>1. ASSUME NEW i \in Instances, NEW p \in People, NEW a \in Addresses, Start(i, p, a)
        PROVE  ServingInv'
    BY <2>1, SameServing DEF Start, server
  <2>2. ASSUME NEW i \in Instances, Announce(i)
        PROVE  ServingInv'
    BY <2>2, SameServing DEF Announce, server, lan
  <2>3. ASSUME NEW i \in Instances, Leave(i)
        PROVE  ServingInv'
    <3>1. scene'.conns = scene.conns BY <2>3, ChangeTypes DEF Leave, RecordsInv
    <3> QED BY <2>3, <3>1, SameServing DEF Leave, server
  <2>4. ASSUME NEW m \in air, Lose(m)
        PROVE  ServingInv'
    BY <2>4, SameServing DEF Lose, server, lan
  <2> QED BY <1>1, <2>1, <2>2, <2>3, <2>4, EndKeeps, MoveKeeps, CutKeeps DEF Environment
<1>2. CASE Serving BY <1>2, ServerStepKeeps DEF Serving
<1>3. CASE Calling BY <1>3, ClientStepKeeps DEF Calling
<1>4. CASE DiscoveryStep
  <2>1. ASSUME NEW m \in air, OnServiceUp(m) \/ OnServiceHeartbeat(m)
        PROVE  ServingInv'
    <3>1. m.from \in Instances /\ m.address \in Addresses
      BY DEF Sent, RecordsInv, TypeOKDiscovery
    <3>2. Ping(m.from, m.address) /\ UNCHANGED <<lan, server>>
      BY <2>1 DEF OnServiceUp, OnServiceHeartbeat
    <3> QED BY <3>1, <3>2, PingKeeps
  <2>2. ASSUME \/ \E m \in air : OnServiceDown(m)
               \/ \E silent \in SUBSET Known : PruneStalePeers(silent)
               \/ \E i \in Instances : RegisterReversePeer(i)
        PROVE  ServingInv'
    BY <2>2, SameServing DEF OnServiceDown, PruneStalePeers, RegisterReversePeer, lan, server
  <2> QED BY <1>4, <2>1, <2>2, DiscoverKeeps DEF DiscoveryStep
<1>5. CASE OnWan(WanStep) BY <1>5, SameServing DEF OnWan, lan, server
<1> QED BY <1>1, <1>2, <1>3, <1>4, <1>5 DEF Next, OnLan

LEMMA ServingInit ==
    ASSUME Init
    PROVE  RecordsInv /\ NeverRetried /\ ServingInv
<1> USE DEF Init, InitWire, InitServer, InitClient, InitDiscovery
<1>1. scene \in Stage BY LanAssumption DEF Stage
<1>2. RecordsInv BY <1>1 DEF RecordsInv, TypeOKDiscovery
<1>3. NeverRetried BY DEF NeverRetried
<1>4. conn \in [Conns -> Conn] /\ Shaped
  BY UnusedIsShaped DEF Shape, Shaped
<1>5. TypeOKServer BY DEF TypeOKServer
<1>6. ASSUME NEW i \in Instances
      PROVE  ServedBy(i) = {} /\ WorkingFor(i) = {}
  BY DEF ServedBy, WorkingFor, Unused
<1>7. LimitsHold
  <2>1. ASSUME NEW i \in Instances
        PROVE  /\ slots[i].connections = 0 /\ slots[i].tasks = 0
               /\ Cardinality(ServedBy(i)) = 0 /\ Cardinality(WorkingFor(i)) = 0
    <3>1. Cardinality(ServedBy(i)) = 0 /\ Cardinality(WorkingFor(i)) = 0
      BY <1>6, FS_EmptySet
    <3>2. slots[i] = [connections |-> 0, tasks |-> 0] OBVIOUS
    <3> QED BY <3>1, <3>2
  <2>2. MaxConnections \in Nat /\ MaxTasks \in Nat BY LimitAssumption
  <2> HIDE DEF Init, InitWire, InitServer, InitClient, InitDiscovery
  <2> QED BY <2>1, <2>2 DEF LimitsHold
<1> QED BY <1>1, <1>2, <1>3, <1>4, <1>5, <1>7 DEF ServingInv, Stage

LEMMA ServingStutter ==
    ASSUME RecordsInv, NeverRetried, ServingInv, UNCHANGED vars
    PROVE  RecordsInv' /\ NeverRetried' /\ ServingInv'
<1> USE DEF vars, lan, server, client, caller
<1>1. RecordsInv' BY DEF RecordsInv, TypeOKDiscovery
<1>2. NeverRetried' BY DEF NeverRetried
<1>3. ServingInv' BY SameServing
<1> QED BY <1>1, <1>2, <1>3

LEMMA ServingIsKept == Spec => [](RecordsInv /\ NeverRetried /\ ServingInv)
<1>1. RecordsInv /\ NeverRetried /\ ServingInv /\ [Next]_vars
         => (RecordsInv /\ NeverRetried /\ ServingInv)'
  BY RecordsStep, NeverRetriedStep, ServingStep, ServingStutter
<1> QED BY <1>1, ServingInit, PTL DEF Spec

\* The counts of PeerLimiter are the open connections and the running handlers of
\* every peer, and neither exceeds its cap, whichever of the two ends, the network or
\* the peer's process ends first.
THEOREM LimitsAreKept == Spec => []LimitsHold
<1>1. ServingInv => LimitsHold BY DEF ServingInv
<1> QED BY <1>1, ServingIsKept, PTL

-----------------------------------------------------------------------------
\* What a connection is for does not change while it lasts.
LEMMA MeantPut ==
    ASSUME ServingInv, IdentityInv, NEW x \in Conns, NEW c, Put(x, c), Meant(c), UNCHANGED owner
    PROVE  \A y \in Conns : Meant(conn[y])'
<1>1. conn' = [conn EXCEPT ![x] = Kept(c)] BY DEF Put, Kept
<1>2. Meant(Unused) BY DEF Meant, Unused
<1>3. Meant(Kept(c)) BY <1>2 DEF Kept
<1>4. \A y \in Conns : conn'[y] = IF y = x THEN Kept(c) ELSE conn[y]
  BY <1>1 DEF ServingInv
<1>5. \A y \in Conns : Meant(conn'[y]) BY <1>3, <1>4 DEF IdentityInv
<1> QED BY <1>5 DEF Meant

LEMMA MeantFollows ==
    ASSUME NEW c, Meant(c), NEW d, d.use = c.use, d.peer = c.peer, d.call = c.call, d.far = c.far,
           d.client \in {"hello_ack", "proving"} => c.client \in {"hello_ack", "proving"},
           d.up # <<>> => c.up # <<>>
    PROVE  Meant(d)
BY DEF Meant

LEMMA MeantDial ==
    ASSUME NEW use, NEW i \in Instances, NEW k, NEW a,
           use = "task" => k \in Calls /\ owner[i] = Wanted[k]
    PROVE  Meant(Dialled(use, i, k, a))
BY DEF Meant, Dialled, Unused

\* A step that gives an instance no identity, proves none and runs nothing.
LEMMA SameIdentity ==
    ASSUME IdentityInv, UNCHANGED <<owner, caps, ran>>,
           \A i \in Instances : life'[i] = "unborn" => life[i] = "unborn",
           \A y \in Conns : Meant(conn[y])'
    PROVE  IdentityInv'
BY DEF IdentityInv, IdentityIsProven

\* A handshake with the instance a peer was dialled at proves its identity.
LEMMA ProvenIdentity ==
    ASSUME IdentityInv, UNCHANGED <<owner, ran, life>>, NEW i, NEW j \in Instances, i = j,
           caps' = [caps EXCEPT ![i] = owner[j]],
           \A y \in Conns : Meant(conn[y])'
    PROVE  IdentityInv'
<1>1. owner[j] \in People \cup {Nobody} BY DEF IdentityInv
<1>2. caps' \in [Instances -> People \cup {Nobody}] BY <1>1 DEF IdentityInv
<1>3. \A n \in Instances : caps'[n] \in {Nobody, owner[n]}
  BY DEF IdentityInv, IdentityIsProven
<1> QED BY <1>2, <1>3 DEF IdentityInv, IdentityIsProven

-----------------------------------------------------------------------------
\* A step of the serving end of x.
ServesOn(x) ==
    \/ OverBudget(x) \/ ReadHello(x) \/ ReadAuth(x) \/ ReadTask(x) \/ ReadSubReq(x)
    \/ ReadEvent(x) \/ HandlerEnds(x) \/ HandshakeTimesOut(x) \/ ServerSeesClose(x)

\* A step on x that is of the same use, and sends nothing to its far end.
Goes(x, c) ==
    /\ c.use = conn[x].use /\ c.peer = conn[x].peer /\ c.call = conn[x].call
    /\ c.far = conn[x].far /\ c.client = conn[x].client
    /\ c.up # <<>> => conn[x].up # <<>>

Follows(x) == \E c : Put(x, c) /\ Goes(x, c)

\* The serving half runs a task at the instance it was meant for.
LEMMA ServerFollows ==
    ASSUME ServingInv, NEW x \in Conns, ServesOn(x)
    PROVE  Follows(x)
<1>1. conn[x] \in Conn BY FarIsThere
<1>2. CASE OverBudget(x) \/ HandshakeTimesOut(x) \/ ServerSeesClose(x)
  <2>1. Put(x, [conn[x] EXCEPT !.server = "closed", !.up = <<>>])
    BY <1>2 DEF OverBudget, HandshakeTimesOut, ServerSeesClose, Hangup
  <2>2. Goes(x, [conn[x] EXCEPT !.server = "closed", !.up = <<>>]) BY <1>1 DEF Conn, Goes
  <2> QED BY <2>1, <2>2 DEF Follows
<1>3. CASE HandlerEnds(x)
  <2>1. \E dn : Put(x, [conn[x] EXCEPT !.work = FALSE, !.down = dn]) BY <1>3 DEF HandlerEnds
  <2>2. \A dn : Goes(x, [conn[x] EXCEPT !.work = FALSE, !.down = dn]) BY <1>1 DEF Conn, Goes
  <2> QED BY <2>1, <2>2 DEF Follows
<1>4. CASE \/ ReadHello(x) \/ ReadAuth(x) \/ ReadTask(x) \/ ReadSubReq(x) \/ ReadEvent(x)
  <2>1. conn[x].up # <<>> BY <1>4 DEF ReadHello, ReadAuth, ReadTask, ReadSubReq, ReadEvent, Reads
  <2>2. \A u, s, dn, w :
           /\ Goes(x, [[conn[x] EXCEPT !.up = u] EXCEPT !.server = s, !.down = dn])
           /\ Goes(x, [[conn[x] EXCEPT !.up = u] EXCEPT !.server = s])
           /\ Goes(x, [[conn[x] EXCEPT !.up = u] EXCEPT !.down = dn])
           /\ Goes(x, [[conn[x] EXCEPT !.up = u] EXCEPT !.work = w])
           /\ Goes(x, [conn[x] EXCEPT !.up = u])
    BY <1>1, <2>1 DEF Conn, Goes
  <2>3. CASE ReadHello(x)
    <3>1. \E u, s, dn : Put(x, [[conn[x] EXCEPT !.up = u] EXCEPT !.server = s, !.down = dn])
      BY <2>3 DEF ReadHello, Rest
    <3> QED BY <2>2, <3>1 DEF Follows
  <2>4. CASE ReadAuth(x) BY <2>2, <2>4 DEF ReadAuth, Rest, Follows
  <2>5. CASE ReadTask(x)
    <3>1. \/ \E u, dn : Put(x, [[conn[x] EXCEPT !.up = u] EXCEPT !.down = dn])
          \/ \E u, w : Put(x, [[conn[x] EXCEPT !.up = u] EXCEPT !.work = w])
      BY <2>5 DEF ReadTask, Rest
    <3> QED BY <2>2, <3>1 DEF Follows
  <2>6. CASE ReadSubReq(x)
    <3>1. \/ \E u, dn : Put(x, [[conn[x] EXCEPT !.up = u] EXCEPT !.down = dn])
          \/ \E u, w : Put(x, [[conn[x] EXCEPT !.up = u] EXCEPT !.work = w])
      BY <2>6 DEF ReadSubReq, Rest
    <3> QED BY <2>2, <3>1 DEF Follows
  <2>7. CASE ReadEvent(x) BY <2>2, <2>7 DEF ReadEvent, Rest, Follows
  <2> QED BY <1>4, <2>3, <2>4, <2>5, <2>6, <2>7
<1> QED BY <1>2, <1>3, <1>4 DEF ServesOn

LEMMA ServerKeepsIdentity ==
    ASSUME ServingInv, IdentityInv, ServerStep, UNCHANGED caps
    PROVE  IdentityInv'
<1>0. PICK x \in Conns : ServesOn(x)
  BY DEF ServerStep, ServesOn
<1>1. UNCHANGED <<life, owner>>
  BY <1>0 DEF ServesOn, OverBudget, ReadHello, ReadAuth, ReadTask, ReadSubReq, ReadEvent, HandlerEnds,
     HandshakeTimesOut, ServerSeesClose, lan
<1>2. Meant(conn[x]) BY DEF IdentityInv
<1>3. PICK c : Put(x, c) /\ Goes(x, c) BY <1>0, ServerFollows DEF Follows
<1>4. Meant(c) BY <1>2, <1>3, MeantFollows DEF Goes
<1>5. \A y \in Conns : Meant(conn[y])' BY <1>1, <1>3, <1>4, MeantPut
<1>6. CASE ReadTask(x)
  <2>1. /\ Shape(conn[x]) /\ conn[x].up # <<>> /\ Head(conn[x].up) = "task"
        /\ conn[x].far \in Instances
    BY <1>6, FarIsThere DEF ReadTask, Reads
  <2>2. conn[x].use = "task" BY <2>1, HeadSays
  <2>3. conn[x].call \in Calls /\ owner[conn[x].far] = Wanted[conn[x].call]
    BY <1>2, <2>1, <2>2 DEF Meant
  <2>4. \/ UNCHANGED ran
        \/ ran' = [ran EXCEPT ![conn[x].call][conn[x].far] = @ + 1]
    BY <1>6 DEF ReadTask, server
  <2>5. ran \in [Calls -> [Instances -> Nat]] BY DEF ServingInv, TypeOKServer
  <2>6. ASSUME NEW k \in Calls, NEW i \in Instances
        PROVE  ran'[k][i] = ran[k][i] \/ (k = conn[x].call /\ i = conn[x].far)
    BY <2>3, <2>4, <2>5
  <2>7. \A k \in Calls, i \in Instances : ran'[k][i] > 0 => owner[i] = Wanted[k]
    BY <2>3, <2>6 DEF IdentityInv, IdentityIsProven
  <2> QED BY <1>1, <1>5, <2>7 DEF IdentityInv, IdentityIsProven
<1>7. CASE ~ReadTask(x)
  <2>1. UNCHANGED ran
    BY <1>0, <1>7 DEF ServesOn, OverBudget, ReadHello, ReadAuth, ReadSubReq, ReadEvent, HandlerEnds,
       HandshakeTimesOut, ServerSeesClose, server
  <2> QED BY <1>1, <1>5, <2>1, SameIdentity
<1> QED BY <1>6, <1>7

-----------------------------------------------------------------------------
\* A caller that is done with a connection, and has proven nothing by it.
LEMMA FinishKeepsIdentity ==
    ASSUME ServingInv, IdentityInv, NEW x \in Conns, NEW c \in Conn, Meant(c), NEW how,
           Finish(x, c, how), how # "proven", UNCHANGED <<lan, ran>>
    PROVE  IdentityInv'
<1>1. Put(x, Done(c)) /\ UNCHANGED <<owner, caps, life, ran>> BY DEF Finish, Done, lan
<1>2. /\ Done(c).use = c.use /\ Done(c).peer = c.peer /\ Done(c).call = c.call
      /\ Done(c).far = c.far /\ Done(c).client = "closed" /\ Done(c).up = c.up
  BY DEF Done, Conn
<1>3. Meant(Done(c)) BY <1>2, MeantFollows
<1>4. \A y \in Conns : Meant(conn[y])' BY <1>1, <1>3, MeantPut
<1> QED BY <1>1, <1>4, SameIdentity

\* The peer is who it was taken for, and the connection has done its work.
LEMMA FinishProves ==
    ASSUME ServingInv, IdentityInv, NEW x \in Conns, NEW c \in Conn, Meant(c),
           Finish(x, c, "proven"), UNCHANGED <<lan, ran>>,
           c.client \in {"hello_ack", "proving"}, c.far \in Instances
    PROVE  IdentityInv'
<1>1. /\ Put(x, Done(c)) /\ UNCHANGED <<owner, life, ran>>
      /\ caps' = [caps EXCEPT ![c.peer] = owner[c.far]]
  BY DEF Finish, Done, lan
<1>2. /\ Done(c).use = c.use /\ Done(c).peer = c.peer /\ Done(c).call = c.call
      /\ Done(c).far = c.far /\ Done(c).client = "closed" /\ Done(c).up = c.up
  BY DEF Done, Conn
<1>3. Meant(Done(c)) BY <1>2, MeantFollows
<1>4. \A y \in Conns : Meant(conn[y])' BY <1>1, <1>3, MeantPut
<1>5. c.peer = c.far BY DEF Meant
<1> QED BY <1>1, <1>4, <1>5, ProvenIdentity

LEMMA ConnectKeepsIdentity ==
    ASSUME ServingInv, IdentityInv, NEW x \in Conns, NEW i \in Instances, Connect(x, i)
    PROVE  IdentityInv'
<1>1. /\ Shape(conn[x]) /\ conn[x] \in Conn /\ conn[x].client = "dial" /\ conn[x].up = <<>>
      /\ Meant(conn[x]) /\ UNCHANGED <<lan, ran>>
  BY FarIsThere DEF Connect, Shape, IdentityInv
<1>2. CASE i = conn[x].peer
  <2> DEFINE u == IF Admits(i) THEN <<"hello">> ELSE <<>>
             s == IF Admits(i) THEN "hello" ELSE "closed"
             d == [[conn[x] EXCEPT !.far = i, !.server = s] EXCEPT !.client = "hello_ack", !.up = u]
  <2>1. Put(x, d) /\ UNCHANGED <<owner, caps, life>>
    BY <1>2, <1>1 DEF Connect, Greets, Answered, client, lan
  <2>2. d.use = conn[x].use /\ d.peer = conn[x].peer /\ d.call = conn[x].call /\ d.far = i
    BY <1>1 DEF Conn
  <2> HIDE DEF d
  <2>3. Meant(d) BY <1>1, <1>2, <2>2 DEF Meant
  <2>4. \A y \in Conns : Meant(conn[y])' BY <2>1, <2>3, MeantPut
  <2> QED BY <1>1, <2>1, <2>4, SameIdentity
<1>3. CASE i # conn[x].peer
  <2> DEFINE d == Answered(x, i)
  <2>1. /\ d.use = conn[x].use /\ d.peer = conn[x].peer /\ d.call = conn[x].call
        /\ d.client = "dial" /\ d.up = <<>> /\ d \in Conn
    BY <1>1 DEF Conn, Answered
  <2>2. Finish(x, d, "failed") BY <1>3 DEF Connect
  <2> HIDE DEF d
  <2>3. Meant(d) BY <1>1, <2>1 DEF Meant
  <2> QED BY <1>1, <2>1, <2>2, <2>3, FinishKeepsIdentity
<1> QED BY <1>2, <1>3

LEMMA ReadHelloAckKeepsIdentity ==
    ASSUME ServingInv, IdentityInv, NEW x \in Conns, ReadHelloAck(x)
    PROVE  IdentityInv'
<1> DEFINE c == conn[x]
           d == [c EXCEPT !.client = "proving", !.down = <<>>]
<1>1. /\ c \in Conn /\ c.client = "hello_ack" /\ c.far \in Instances /\ Meant(c) /\ c.peer = c.far
      /\ UNCHANGED <<lan, ran, owner, life>>
  BY FarIsThere DEF ReadHelloAck, IdentityInv, Meant, server, lan
<1>2. \/ Finish(x, c, "proven")
      \/ /\ Put(x, d) \/ Put(x, Done(c))
         /\ caps' = [caps EXCEPT ![c.peer] = owner[c.far]] \/ UNCHANGED caps
  BY DEF ReadHelloAck, Done
<1>3. CASE Finish(x, c, "proven") BY <1>1, <1>3, FinishProves
<1>4. CASE /\ Put(x, d) \/ Put(x, Done(c))
           /\ caps' = [caps EXCEPT ![c.peer] = owner[c.far]] \/ UNCHANGED caps
  <2>1. /\ d.use = c.use /\ d.peer = c.peer /\ d.call = c.call /\ d.far = c.far /\ d.up = c.up
        /\ Done(c).use = c.use /\ Done(c).peer = c.peer /\ Done(c).call = c.call
        /\ Done(c).far = c.far /\ Done(c).client = "closed" /\ Done(c).up = c.up
    BY <1>1 DEF Done, Conn
  <2> HIDE DEF d
  <2>2. Meant(d) /\ Meant(Done(c)) BY <1>1, <2>1, MeantFollows
  <2>3. \A y \in Conns : Meant(conn[y])' BY <1>1, <1>4, <2>2, MeantPut
  <2>4. CASE caps' = [caps EXCEPT ![c.peer] = owner[c.far]] BY <1>1, <2>3, <2>4, ProvenIdentity
  <2>5. CASE UNCHANGED caps BY <1>1, <2>3, <2>5, SameIdentity
  <2> QED BY <1>4, <2>4, <2>5
<1> QED BY <1>2, <1>3, <1>4

LEMMA ProveKeepsIdentity ==
    ASSUME ServingInv, IdentityInv, NEW x \in Conns, Prove(x)
    PROVE  IdentityInv'
<1> DEFINE c == conn[x]
<1>1. /\ c \in Conn /\ c.client = "proving" /\ c.far \in Instances /\ Meant(c) /\ c.peer = c.far
      /\ UNCHANGED <<lan, ran, owner, life>>
  BY FarIsThere DEF Prove, IdentityInv, Meant, server, lan
<1>2. PICK u \in {<<>>, <<"auth">>, <<"auth", c.use>>} :
         \/ Put(x, [[c EXCEPT !.up = u] EXCEPT !.client = "result"]) /\ UNCHANGED client
                /\ c.use \in {"task", "sub_req"}
         \/ Finish(x, [c EXCEPT !.up = u], "ok") /\ c.use = "event_emit"
         \/ Finish(x, [c EXCEPT !.up = u], "failed") /\ u # <<"auth", c.use>>
         \/ Finish(x, [c EXCEPT !.up = u], "proven") /\ u # <<"auth", c.use>>
  <2>1. <<"auth">> # <<"auth", c.use>> /\ <<>> # <<"auth", c.use>>
    <3>1. Len(<<"auth">>) = 1 /\ Len(<<>>) = 0 /\ Len(<<"auth", c.use>>) = 2 OBVIOUS
    <3> QED BY <3>1
  <2> QED BY <2>1 DEF Prove
<1> DEFINE b == [c EXCEPT !.up = u]
           d == [b EXCEPT !.client = "result"]
<1>3. u \in Queues(UpFrames, 2) \/ u = <<"auth", c.use>> BY QueueTypes DEF UpFrames
<1>4. c.use \in UpFrames => <<"auth", c.use>> \in Queues(UpFrames, 2) BY QueueTypes DEF UpFrames
<1>5. /\ b.use = c.use /\ b.peer = c.peer /\ b.call = c.call /\ b.far = c.far
      /\ b.client = "proving" /\ d.use = c.use /\ d.peer = c.peer /\ d.call = c.call
      /\ d.far = c.far
      /\ u \in Queues(UpFrames, 2) => b \in Conn
  BY <1>1 DEF Conn
<1>6. (Put(x, d) /\ UNCHANGED client) \/ \E how \in {"ok", "failed", "proven"} : Finish(x, b, how)
  BY <1>2
<1>7. u \in Queues(UpFrames, 2)
  BY <1>2, <1>3, <1>4 DEF UpFrames
<1> HIDE DEF b, d
<1>8. Meant(b) /\ Meant(d) BY <1>1, <1>5 DEF Meant
<1>9. CASE Put(x, d) /\ UNCHANGED client
  <2>1. \A y \in Conns : Meant(conn[y])' BY <1>1, <1>8, <1>9, MeantPut
  <2>2. UNCHANGED caps BY <1>9 DEF client
  <2> QED BY <1>1, <2>1, <2>2, SameIdentity
<1>10. CASE \E how \in {"ok", "failed"} : Finish(x, b, how)
  BY <1>1, <1>5, <1>7, <1>8, <1>10, FinishKeepsIdentity
<1>11. CASE Finish(x, b, "proven")
  BY <1>1, <1>5, <1>7, <1>8, <1>11, FinishProves
<1> QED BY <1>6, <1>9, <1>10, <1>11

LEMMA CallingKeepsIdentity ==
    ASSUME RecordsInv, NeverRetried, ServingInv, IdentityInv, ClientStep
    PROVE  IdentityInv'
<1>1. ASSUME NEW x \in Conns, LoseConnection(x) \/ TimeOut(x) \/ ReadResult(x)
      PROVE  IdentityInv'
  <2>1. conn[x] \in Conn /\ Meant(conn[x]) BY FarIsThere DEF IdentityInv
  <2>2. PICK how \in {"ok", "failed", "dropped"} : Finish(x, conn[x], how)
    BY <1>1 DEF LoseConnection, TimeOut, ReadResult
  <2>3. UNCHANGED <<lan, ran>> BY <1>1 DEF LoseConnection, TimeOut, ReadResult, server
  <2> QED BY <2>1, <2>2, <2>3, FinishKeepsIdentity
<1>2. ASSUME NEW k \in Calls, SendTask(k)
      PROVE  IdentityInv'
  <2> DEFINE i == Aim(k)[1]
  <2>1. PICK x \in Free : Put(x, Dialled("task", i, k, Aim(k)[2])) BY <1>2 DEF SendTask
  <2>2. i \in Instances /\ PeerIdOf(i) = Wanted[k] BY <1>2, AimIsKnown
  <2>3. owner[i] = Wanted[k]
    <3>1. caps[i] \in {Nobody, owner[i]} BY <2>2 DEF IdentityInv, IdentityIsProven
    <3> QED BY <2>2, <3>1 DEF PeerIdOf
  <2>4. UNCHANGED <<owner, life, caps, ran>> BY <1>2 DEF SendTask, lan, server
  <2> HIDE DEF i
  <2>5. Meant(Dialled("task", i, k, Aim(k)[2])) BY <2>2, <2>3, MeantDial
  <2>6. x \in Conns BY DEF Free, ServingInv
  <2>7. \A y \in Conns : Meant(conn[y])' BY <2>1, <2>4, <2>5, <2>6, MeantPut
  <2> QED BY <2>4, <2>7, SameIdentity
<1>3. ASSUME NEW k \in Calls, SendTaskNowhere(k)
      PROVE  IdentityInv'
  BY <1>3 DEF SendTaskNowhere, lan, server, IdentityInv, IdentityIsProven, Meant
<1>4. ASSUME NEW i \in Instances, NEW use \in {"sub_req", "event_emit"}, SendFrame(i, use)
      PROVE  IdentityInv'
  <2>1. PICK x \in Free : Put(x, Dialled(use, i, Nobody, book[i])) BY <1>4 DEF SendFrame
  <2>2. UNCHANGED <<owner, life, caps, ran>> BY <1>4 DEF SendFrame, server, client
  <2>3. Meant(Dialled(use, i, Nobody, book[i])) BY MeantDial
  <2>4. x \in Conns BY DEF Free, ServingInv
  <2>5. \A y \in Conns : Meant(conn[y])' BY <2>1, <2>2, <2>3, <2>4, MeantPut
  <2> QED BY <2>2, <2>5, SameIdentity
<1> QED
  BY <1>1, <1>2, <1>3, <1>4, ConnectKeepsIdentity, ReadHelloAckKeepsIdentity,
     ProveKeepsIdentity DEF ClientStep

\* Discovery proves nothing, and what it forgets is no longer proven.
LEMMA ForgottenIdentity ==
    ASSUME IdentityInv, UNCHANGED <<owner, life, ran>>,
           caps' \in [Instances -> People \cup {Nobody}],
           \A i \in Instances : caps'[i] \in {Nobody, caps[i]},
           \A y \in Conns : Meant(conn[y])'
    PROVE  IdentityInv'
BY DEF IdentityInv, IdentityIsProven

LEMMA DiscoveryKeepsIdentity ==
    ASSUME RecordsInv, ServingInv, IdentityInv, DiscoveryStep
    PROVE  IdentityInv'
<1>1. UNCHANGED <<owner, life, ran>>
  BY DEF DiscoveryStep, OnServiceUp, OnServiceHeartbeat, OnServiceDown, PruneStalePeers,
     Discover, RegisterReversePeer, lan, server
<1>2. caps \in [Instances -> People \cup {Nobody}] BY DEF IdentityInv
<1>3. ASSUME UNCHANGED conn PROVE \A y \in Conns : Meant(conn[y])'
  BY <1>1, <1>3 DEF IdentityInv, Meant
<1>4. ASSUME NEW m \in air, OnServiceUp(m) \/ OnServiceHeartbeat(m)
      PROVE  IdentityInv'
  <2>1. m.from \in Instances BY DEF Sent, RecordsInv, TypeOKDiscovery
  <2>2. /\ caps' = [caps EXCEPT ![m.from] = Nobody] \/ UNCHANGED caps
        /\ Ping(m.from, m.address)
    BY <1>4 DEF OnServiceUp, OnServiceHeartbeat
  <2>3. caps' \in [Instances -> People \cup {Nobody}]
        /\ \A i \in Instances : caps'[i] \in {Nobody, caps[i]}
    BY <1>2, <2>2
  <2>4. CASE UNCHANGED conn BY <1>1, <1>3, <2>3, <2>4, ForgottenIdentity
  <2>5. ASSUME NEW x \in Free, Put(x, Dialled("ping", m.from, Nobody, m.address))
        PROVE  IdentityInv'
    <3>1. x \in Conns BY DEF Free, ServingInv
    <3>2. Meant(Dialled("ping", m.from, Nobody, m.address)) BY <2>1, MeantDial
    <3>3. \A y \in Conns : Meant(conn[y])' BY <1>1, <2>5, <3>1, <3>2, MeantPut
    <3> QED BY <1>1, <2>3, <3>3, ForgottenIdentity
  <2> QED BY <2>2, <2>4, <2>5 DEF Ping
<1>5. ASSUME NEW gone, Forget(gone), UNCHANGED conn
      PROVE  IdentityInv'
  <2>1. caps' = [i \in Instances |-> IF i \in gone THEN Nobody ELSE caps[i]] BY <1>5 DEF Forget
  <2>2. caps' \in [Instances -> People \cup {Nobody}]
        /\ \A i \in Instances : caps'[i] \in {Nobody, caps[i]}
    BY <1>2, <2>1
  <2> QED BY <1>1, <1>3, <1>5, <2>2, ForgottenIdentity
<1>6. CASE Discover
  <2>1. PICK unknown \in SUBSET {i \in Known \ probing : caps[i] = Nobody} :
           \E line \in [unknown -> Free] :
              conn' = [x \in Conns |->
                         IF \E i \in unknown : line[i] = x
                         THEN LET i == CHOOSE j \in unknown : line[j] = x
                              IN Dialled("probe", i, Nobody, book[i])
                         ELSE conn[x]]
    BY <1>6 DEF Discover
  <2>2. unknown \subseteq Instances BY DEF Known, RecordsInv
  <2>3. ASSUME NEW y \in Conns
        PROVE  conn'[y] = conn[y] \/ \E i \in Instances : conn'[y] = Dialled("probe", i, Nobody, book[i])
    <3>1. PICK line \in [unknown -> Free] :
             conn'[y] = IF \E i \in unknown : line[i] = y
                        THEN LET i == CHOOSE j \in unknown : line[j] = y
                             IN Dialled("probe", i, Nobody, book[i])
                        ELSE conn[y]
      BY <2>1
    <3>2. CASE \E i \in unknown : line[i] = y
      <4> DEFINE i == CHOOSE j \in unknown : line[j] = y
      <4>1. i \in unknown BY <3>2
      <4>2. conn'[y] = Dialled("probe", i, Nobody, book[i]) BY <3>1, <3>2
      <4> HIDE DEF i
      <4> QED BY <2>2, <4>1, <4>2
    <3> QED BY <3>1, <3>2
  <2>4. \A y \in Conns : Meant(conn'[y]) BY <2>3, MeantDial DEF IdentityInv
  <2>5. \A y \in Conns : Meant(conn[y])' BY <1>1, <2>4 DEF Meant
  <2>6. UNCHANGED caps BY <1>6 DEF Discover
  <2> QED BY <1>1, <2>5, <2>6, SameIdentity
<1>7. ASSUME NEW i \in Instances, RegisterReversePeer(i)
      PROVE  IdentityInv'
  <2>1. UNCHANGED <<conn, caps>> BY <1>7 DEF RegisterReversePeer
  <2> QED BY <1>1, <1>3, <2>1, SameIdentity
<1> QED
  BY <1>4, <1>5, <1>6, <1>7
  DEF DiscoveryStep, OnServiceDown, PruneStalePeers

\* An instance that starts is new to everybody, and the others keep their identity.
LEMMA StartKeepsIdentity ==
    ASSUME ServingInv, IdentityInv, NEW i \in Instances, NEW p \in People, NEW a \in Addresses,
           life \in [Instances -> {"unborn", "up", "leaving", "down"}], Start(i, p, a)
    PROVE  IdentityInv'
<1>1. owner[i] = Nobody /\ Nobody \notin People BY LanAssumption DEF Start, IdentityInv
<1>2. /\ owner' = [owner EXCEPT ![i] = p] /\ life' = [life EXCEPT ![i] = "up"]
      /\ UNCHANGED <<conn, caps, ran>>
  BY DEF Start, quiet, client, server
<1>3. \A k \in Calls : Wanted[k] \in People BY CallAssumption
<1>4. ASSUME NEW y \in Conns PROVE Meant(conn[y])'
  <2>1. Meant(conn[y]) BY DEF IdentityInv
  <2>2. conn[y].use = "task" => conn[y].peer # i BY <1>1, <1>3, <2>1 DEF Meant
  <2>3. \A j \in Instances : j # i => owner'[j] = owner[j] BY <1>2 DEF IdentityInv
  <2> QED BY <1>2, <2>1, <2>2, <2>3 DEF Meant
<1>5. \A k \in Calls, j \in Instances : ran'[k][j] > 0 => owner'[j] = Wanted[k]
  <2>1. \A k \in Calls, j \in Instances : ran[k][j] > 0 => owner[j] = Wanted[k]
    BY DEF IdentityInv, IdentityIsProven
  <2>2. \A j \in Instances : owner'[j] = owner[j] \/ owner[j] = Nobody
    BY <1>1, <1>2 DEF IdentityInv
  <2> QED BY <1>1, <1>2, <1>3, <2>1, <2>2
<1>6. \A j \in Instances : caps'[j] \in {Nobody, owner'[j]}
  BY <1>1, <1>2 DEF IdentityInv, IdentityIsProven
<1>7. owner' \in [Instances -> People \cup {Nobody}] BY <1>2 DEF IdentityInv
<1>8. \A j \in Instances : life'[j] = "unborn" => owner'[j] = Nobody
  BY <1>2 DEF IdentityInv
<1>9. caps' \in [Instances -> People \cup {Nobody}] BY <1>2 DEF IdentityInv
<1> QED BY <1>4, <1>5, <1>6, <1>7, <1>8, <1>9 DEF IdentityInv, IdentityIsProven

LEMMA EnvironmentKeepsIdentity ==
    ASSUME RecordsInv, ServingInv, IdentityInv, Environment
    PROVE  IdentityInv'
<1>1. ASSUME NEW i \in Instances, NEW p \in People, NEW a \in Addresses, Start(i, p, a)
      PROVE  IdentityInv'
  BY <1>1, StartKeepsIdentity DEF RecordsInv
<1>2. ASSUME UNCHANGED <<owner, caps, ran, conn>>,
             \A i \in Instances : life'[i] = "unborn" => life[i] = "unborn"
      PROVE  IdentityInv'
  BY <1>2, SameIdentity DEF IdentityInv, Meant
<1>3. ASSUME NEW i \in Instances, Announce(i) \/ Leave(i)
      PROVE  IdentityInv'
  <2>1. UNCHANGED <<owner, caps, ran, conn>> BY <1>3 DEF Announce, Leave, lan, server, client
  <2>2. life' \in {life, [life EXCEPT ![i] = "leaving"]} BY <1>3 DEF Announce, Leave, lan
  <2>3. \A j \in Instances : life'[j] = "unborn" => life[j] = "unborn"
    BY <2>2 DEF RecordsInv
  <2> QED BY <1>2, <2>1, <2>3
<1>4. ASSUME NEW i \in Instances, End(i)
      PROVE  IdentityInv'
  <2>1. /\ conn' = [x \in Conns |-> IF conn[x].far = i THEN Ended(conn[x]) ELSE conn[x]]
        /\ UNCHANGED <<owner, caps, ran>> /\ life' = [life EXCEPT ![i] = "down"]
    BY <1>4 DEF End, Ended, quiet, client
  <2>2. ASSUME NEW y \in Conns PROVE Meant(conn'[y])
    <3>1. conn[y] \in Conn /\ Meant(conn[y]) BY FarIsThere DEF IdentityInv
    <3> DEFINE d == [conn[y] EXCEPT !.server = "closed", !.up = <<>>, !.work = FALSE]
    <3>2. /\ d.use = conn[y].use /\ d.peer = conn[y].peer /\ d.call = conn[y].call
          /\ d.far = conn[y].far /\ d.client = conn[y].client /\ d.up = <<>>
      BY <3>1 DEF Conn
    <3> HIDE DEF d
    <3>3. Meant(d) BY <3>1, <3>2, MeantFollows
    <3>4. Meant(Unused) BY DEF Meant, Unused
    <3>5. conn'[y] \in {d, Unused, conn[y]} BY <2>1 DEF Ended, d
    <3> QED BY <3>1, <3>3, <3>4, <3>5
  <2>3. \A y \in Conns : Meant(conn[y])' BY <2>1, <2>2 DEF Meant
  <2>4. \A j \in Instances : life'[j] = "unborn" => life[j] = "unborn"
    BY <2>1 DEF RecordsInv
  <2> QED BY <2>1, <2>3, <2>4, SameIdentity
<1>5. ASSUME NEW i \in Instances, NEW a \in Addresses, Move(i, a)
      PROVE  IdentityInv'
  <2>1. /\ conn' = [x \in Conns |-> IF conn[x].far = i THEN Dropped(conn[x]) ELSE conn[x]]
        /\ UNCHANGED <<owner, caps, ran, life>>
    BY <1>5 DEF Move, Dropped, quiet, client, server
  <2>2. ASSUME NEW y \in Conns PROVE Meant(conn'[y])
    <3>1. conn[y] \in Conn /\ Meant(conn[y]) BY FarIsThere DEF IdentityInv
    <3> DEFINE d == Dropped(conn[y])
    <3>2. /\ d.use = conn[y].use /\ d.peer = conn[y].peer /\ d.call = conn[y].call
          /\ d.far = conn[y].far /\ d.client = conn[y].client /\ d.up = <<>>
      BY <3>1 DEF Conn, Dropped
    <3> HIDE DEF d
    <3>3. Meant(d) BY <3>1, <3>2, MeantFollows
    <3>4. conn'[y] \in {d, conn[y]} BY <2>1 DEF d
    <3> QED BY <3>1, <3>3, <3>4
  <2>3. \A y \in Conns : Meant(conn[y])' BY <2>1, <2>2 DEF Meant
  <2> QED BY <2>1, <2>3, SameIdentity
<1>6. ASSUME NEW x \in Conns, Cut(x), UNCHANGED <<server, client, air>>
      PROVE  IdentityInv'
  <2>1. Put(x, Dropped(conn[x])) /\ UNCHANGED <<owner, caps, ran, life>>
    BY <1>6 DEF Cut, Dropped, client, server
  <2> DEFINE d == Dropped(conn[x])
  <2>2. conn[x] \in Conn /\ Meant(conn[x]) BY FarIsThere DEF IdentityInv
  <2>3. /\ d.use = conn[x].use /\ d.peer = conn[x].peer /\ d.call = conn[x].call
        /\ d.far = conn[x].far /\ d.client = conn[x].client /\ d.up = <<>>
    BY <2>2 DEF Conn, Dropped
  <2> HIDE DEF d
  <2>4. Meant(d) BY <2>2, <2>3, MeantFollows
  <2>5. \A y \in Conns : Meant(conn[y])' BY <2>1, <2>4, MeantPut DEF d
  <2> QED BY <2>1, <2>5, SameIdentity
<1>7. ASSUME NEW m \in air, Lose(m)
      PROVE  IdentityInv'
  <2>1. UNCHANGED <<owner, caps, ran, conn, life>> BY <1>7 DEF Lose, lan, server, client
  <2> QED BY <1>2, <2>1
<1> QED BY <1>1, <1>3, <1>4, <1>5, <1>6, <1>7 DEF Environment

LEMMA IdentityStep ==
    ASSUME RecordsInv, NeverRetried, ServingInv, IdentityInv, [Next]_vars
    PROVE  IdentityInv'
<1>1. ASSUME UNCHANGED <<life, owner, caps, ran, conn>> PROVE IdentityInv'
  BY <1>1, SameIdentity DEF IdentityInv, Meant
<1>2. CASE Environment BY <1>2, EnvironmentKeepsIdentity
<1>3. CASE Serving
  <2>1. ServerStep /\ UNCHANGED caps BY <1>3 DEF Serving, quiet, client
  <2> QED BY <2>1, ServerKeepsIdentity
<1>4. CASE Calling BY <1>4, CallingKeepsIdentity DEF Calling
<1>5. CASE DiscoveryStep BY <1>5, DiscoveryKeepsIdentity
<1>6. CASE OnWan(WanStep) \/ UNCHANGED vars
  <2>1. UNCHANGED <<life, owner, caps, ran, conn>>
    BY <1>6 DEF OnWan, vars, lan, server, client
  <2> QED BY <1>1, <2>1
<1> QED BY <1>2, <1>3, <1>4, <1>5, <1>6 DEF Next, OnLan

LEMMA IdentityInit ==
    ASSUME Init
    PROVE  IdentityInv
BY DEF Init, InitWire, InitServer, InitClient, IdentityInv, IdentityIsProven, Meant, Unused

\* A task runs only at the instance whose owner it was addressed to, and what is on
\* record as proven of an instance is its own identity, wherever the instances move
\* and whoever takes over an address between the look-up, the connection and the
\* answer (NetworkLightProvider.sendTask, proveIdentity, registerReversePeer).
THEOREM IdentityHolds == Spec => []IdentityIsProven
<1>1. IdentityInv => IdentityIsProven BY DEF IdentityInv
<1>2. RecordsInv /\ NeverRetried /\ ServingInv /\ IdentityInv /\ [Next]_vars => IdentityInv'
  BY IdentityStep
<1> QED BY <1>1, <1>2, IdentityInit, ServingIsKept, PTL DEF Spec

-----------------------------------------------------------------------------
\* That both transports implement RemoteTask, but for its liveness.  First a stream
\* of the WAN transport.
Streams == [client : {"closed", "dialling", "hello_ack", "signing", "result"},
            server : {"closed", "hello", "signing", "auth", "task", "running"},
            asks : {<<>>, <<"hello">>, <<"auth", "task">>, <<"task">>}, replies : {<<>>, <<"hello_ack">>, <<"result">>},
            cut : BOOLEAN]

\* How far the two ends of a stream are, the answer and the runs of its task agree: a
\* stream that has not sent the task or not read it has not run it, and a result
\* comes from a run.
OneStream(s, a, h) ==
    /\ s.client \in {"dialling", "hello_ack", "signing"} =>
          /\ h = 0 /\ s.server \notin {"task", "running"}
          /\ s.asks = <<>> \/ (s.asks = <<"hello">> /\ s.server = "hello")
    /\ s.client = "dialling" => s.server = "closed"
    /\ s.client = "dialling" \/ s.server \in {"hello", "signing"} => s.replies = <<>>
    /\ s.client = "signing" => s.replies = <<>>
    /\ s.client \in {"signing", "result"} => s.server \notin {"hello", "signing"}
    /\ s.client = "hello_ack" => s.replies \in {<<>>, <<"hello_ack">>}
    /\ s.client = "result" /\ s.replies # <<>> => h = 1 /\ s.server = "closed"
    /\ s.server \in {"hello", "signing", "auth", "task"} => h = 0
    /\ s.server = "running" => h = 1
    /\ s.client = "closed" /\ a = "none" => s.server = "closed" /\ s.replies = <<>> /\ s.asks = <<>> /\ h = 0
    /\ a # "none" => s.client = "closed"
    /\ a = "ok" => h = 1 /\ s.server = "closed"

\* Inductive by itself.
WanInv ==
    /\ stream \in [WanCalls -> Streams]
    /\ answer \in [WanCalls -> {"none", "ok", "failed"}]
    /\ handled \in [WanCalls -> {0, 1}]
    /\ \A c \in WanCalls : OneStream(stream[c], answer[c], handled[c])

\* What an abstract task may do in one step: told from a to b, run from r to s times.
Moves(a, r, b, s) ==
    \/ a = b /\ r = s
    \/ a = "nothing" /\ b = "wait" /\ r = s
    \/ a \in {"wait", "failed"} /\ b = a /\ r = 0 /\ s = 1
    \/ a = "wait" /\ b = "ok" /\ r = 1 /\ s = 1
    \/ a \in {"nothing", "wait"} /\ b = "failed" /\ r = s

\* What the caller of a stream that is answered with a was told.
Says(s, a) == IF a = "none" THEN IF s.client = "closed" THEN "nothing" ELSE "wait" ELSE a

\* Of all streams that of c goes on, as its task may.
GoesOn(c) ==
    /\ Moves(WanTold(c), handled[c], WanTold(c)', handled'[c])
    /\ \A d \in WanCalls \ {c} : WanTold(d)' = WanTold(d) /\ handled'[d] = handled[d]

LEMMA StreamStep ==
    ASSUME WanInv, NEW c \in WanCalls, NEW t \in Streams, NEW b \in {"none", "ok", "failed"}, NEW g \in {0, 1},
           stream' = [stream EXCEPT ![c] = t], answer' = [answer EXCEPT ![c] = b],
           handled' = [handled EXCEPT ![c] = g],
           OneStream(t, b, g), Moves(Says(stream[c], answer[c]), handled[c], Says(t, b), g)
    PROVE  WanInv' /\ GoesOn(c)
<1>1. /\ stream' \in [WanCalls -> Streams] /\ stream'[c] = t
      /\ \A d \in WanCalls \ {c} : stream'[d] = stream[d]
  BY DEF WanInv
<1>2. /\ answer' \in [WanCalls -> {"none", "ok", "failed"}] /\ answer'[c] = b
      /\ \A d \in WanCalls \ {c} : answer'[d] = answer[d]
  BY DEF WanInv
<1>3. /\ handled' \in [WanCalls -> {0, 1}] /\ handled'[c] = g
      /\ \A d \in WanCalls \ {c} : handled'[d] = handled[d]
  BY DEF WanInv
<1>4. ASSUME NEW d \in WanCalls PROVE OneStream(stream'[d], answer'[d], handled'[d])
  <2>1. CASE d = c BY <2>1, <1>1, <1>2, <1>3
  <2>2. CASE d # c BY <2>2, <1>1, <1>2, <1>3 DEF WanInv
  <2> QED BY <2>1, <2>2
<1>5. WanInv' BY <1>1, <1>2, <1>3, <1>4 DEF WanInv
<1>6. \A d \in WanCalls : /\ WanTold(d) = Says(stream[d], answer[d])
                          /\ WanTold(d)' = Says(stream'[d], answer'[d])
  BY DEF WanTold, Says
<1> QED BY <1>1, <1>2, <1>3, <1>5, <1>6 DEF GoesOn

\* What is known of a stream that goes on.
LEMMA StreamFacts ==
    ASSUME WanInv, NEW c \in WanCalls
    PROVE  /\ stream[c] \in Streams /\ answer[c] \in {"none", "ok", "failed"} /\ handled[c] \in {0, 1}
           /\ OneStream(stream[c], answer[c], handled[c])
           /\ answer = [answer EXCEPT ![c] = answer[c]] /\ handled = [handled EXCEPT ![c] = handled[c]]
  BY DEF WanInv

LEMMA Frames ==
    /\ Tail(<<"hello">>) = <<>> /\ Tail(<<"task">>) = <<>> /\ Tail(<<"auth", "task">>) = <<"task">>
    /\ Tail(<<"hello_ack">>) = <<>> /\ Tail(<<"result">>) = <<>>
    /\ Head(<<"hello">>) = "hello" /\ Head(<<"task">>) = "task" /\ Head(<<"auth", "task">>) = "auth"
    /\ <<>> \o <<"auth", "task">> = <<"auth", "task">>
    /\ <<"hello">> # <<>> /\ <<"task">> # <<>> /\ <<"auth", "task">> # <<>>
    /\ <<"hello_ack">> # <<>> /\ <<"result">> # <<>>
    /\ \A f : Append(<<>>, f) = <<f>>
  BY OneFrame

\* The calling end of a stream.
LEMMA WanClient ==
    ASSUME WanInv, NEW c \in WanCalls, ClientProceeds(c)
    PROVE  WanInv' /\ GoesOn(c)
<1> DEFINE s == stream[c]
           a == answer[c]
           h == handled[c]
<1>1. /\ s \in Streams /\ a \in {"none", "ok", "failed"} /\ h \in {0, 1} /\ OneStream(s, a, h)
      /\ answer = [answer EXCEPT ![c] = a] /\ handled = [handled EXCEPT ![c] = h]
  BY StreamFacts
<1>2. CASE sendTask(c) /\ "here" \in up
  <2> DEFINE t == [s EXCEPT !.client = "dialling"]
  <2>1. a = "none" /\ s.client = "closed"
    BY <1>2 DEF sendTask, Awaits, Stream
  <2>2. /\ stream' = [stream EXCEPT ![c] = t] /\ answer' = [answer EXCEPT ![c] = a]
        /\ handled' = [handled EXCEPT ![c] = h]
    BY <1>2, <1>1, <2>1 DEF sendTask, Awaits, Stream, OneStream
  <2>3. t \in Streams /\ t.client = "dialling" /\ t.server = s.server /\ t.asks = s.asks /\ t.replies = s.replies
    BY <1>1, <2>1, Frames DEF Streams, OneStream, Reply
  <2> HIDE DEF t
  <2>4. OneStream(t, a, h) /\ Moves(Says(s, a), h, Says(t, a), h)
    BY <1>1, <2>1, <2>3, Frames DEF OneStream, Moves, Says, Streams
  <2> QED BY <1>1, <2>2, <2>3, <2>4, StreamStep
<1>3. CASE sendTask(c) /\ "here" \notin up
  <2> DEFINE t == [s EXCEPT !.client = "closed", !.replies = <<>>]
  <2>1. a = "none" /\ s.client = "closed"
    BY <1>3 DEF sendTask, Settles, Stream
  <2>2. /\ stream' = [stream EXCEPT ![c] = t] /\ answer' = [answer EXCEPT ![c] = "failed"]
        /\ handled' = [handled EXCEPT ![c] = h]
    BY <1>3, <1>1, <2>1 DEF sendTask, Settles, Stream, OneStream
  <2>3. t \in Streams /\ t.client = "closed" /\ t.server = s.server /\ t.asks = s.asks /\ t.replies = <<>>
    BY <1>1, <2>1, Frames DEF Streams, OneStream, Reply
  <2> HIDE DEF t
  <2>4. OneStream(t, "failed", h) /\ Moves(Says(s, a), h, Says(t, "failed"), h)
    BY <1>1, <2>1, <2>3, Frames DEF OneStream, Moves, Says, Streams
  <2> QED BY <1>1, <2>2, <2>3, <2>4, StreamStep
<1>4. CASE DialFails(c) \/ sendTaskFails(c)
  <2> DEFINE t == [s EXCEPT !.client = "closed", !.replies = <<>>]
  <2>1. s.client \in {"dialling", "hello_ack", "signing", "result"}
    BY <1>4 DEF DialFails, sendTaskFails, Settles, Stream
  <2>2. /\ stream' = [stream EXCEPT ![c] = t] /\ answer' = [answer EXCEPT ![c] = "failed"]
        /\ handled' = [handled EXCEPT ![c] = h]
    BY <1>4, <1>1, <2>1 DEF DialFails, sendTaskFails, Settles, Stream, OneStream
  <2>3. t \in Streams /\ t.client = "closed" /\ t.server = s.server /\ t.asks = s.asks /\ t.replies = <<>>
    BY <1>1, <2>1, Frames DEF Streams, OneStream, Reply
  <2> HIDE DEF t
  <2>4. OneStream(t, "failed", h) /\ Moves(Says(s, a), h, Says(t, "failed"), h)
    BY <1>1, <2>1, <2>3, Frames DEF OneStream, Moves, Says, Streams
  <2> QED BY <1>1, <2>2, <2>3, <2>4, StreamStep
<1>5. CASE dialProtocol(c)
  <2> DEFINE t == [[s EXCEPT !.server = "hello", !.asks = <<"hello">>] EXCEPT !.client = "hello_ack"]
  <2>1. s.client = "dialling"
    BY <1>5 DEF dialProtocol, Awaits, Stream
  <2>2. /\ stream' = [stream EXCEPT ![c] = t] /\ answer' = [answer EXCEPT ![c] = a]
        /\ handled' = [handled EXCEPT ![c] = h]
    BY <1>5, <1>1, <2>1 DEF dialProtocol, Awaits, Stream, OneStream
  <2>3. t \in Streams /\ t.client = "hello_ack" /\ t.server = "hello" /\ t.asks = <<"hello">> /\ t.replies = s.replies
    BY <1>1, <2>1, Frames DEF Streams, OneStream, Reply
  <2> HIDE DEF t
  <2>4. OneStream(t, a, h) /\ Moves(Says(s, a), h, Says(t, a), h)
    BY <1>1, <2>1, <2>3, Frames DEF OneStream, Moves, Says, Streams
  <2> QED BY <1>1, <2>2, <2>3, <2>4, StreamStep
<1>6. CASE ReadsHelloAck(c)
  <2> DEFINE t == [[s EXCEPT !.replies = Tail(@)] EXCEPT !.client = "signing"]
  <2>1. s.client = "hello_ack" /\ s.replies # <<>>
    BY <1>6 DEF ReadsHelloAck, Awaits, Stream
  <2>2. /\ stream' = [stream EXCEPT ![c] = t] /\ answer' = [answer EXCEPT ![c] = a]
        /\ handled' = [handled EXCEPT ![c] = h]
    BY <1>6, <1>1, <2>1 DEF ReadsHelloAck, Awaits, Stream, OneStream
  <2>3. t \in Streams /\ t.client = "signing" /\ t.server = s.server /\ t.asks = s.asks /\ t.replies = Tail(s.replies)
    BY <1>1, <2>1, Frames DEF Streams, OneStream, Reply
  <2> HIDE DEF t
  <2>4. OneStream(t, a, h) /\ Moves(Says(s, a), h, Says(t, a), h)
    BY <1>1, <2>1, <2>3, Frames DEF OneStream, Moves, Says, Streams
  <2> QED BY <1>1, <2>2, <2>3, <2>4, StreamStep
<1>7. CASE buildAuthFrame(c)
  <2> DEFINE t == [[s EXCEPT !.asks = IF s.server = "closed" THEN <<>> ELSE @ \o <<"auth", "task">>] EXCEPT !.client = "result"]
  <2>1. s.client = "signing"
    BY <1>7 DEF buildAuthFrame, Awaits, Stream
  <2>2. /\ stream' = [stream EXCEPT ![c] = t] /\ answer' = [answer EXCEPT ![c] = a]
        /\ handled' = [handled EXCEPT ![c] = h]
    BY <1>7, <1>1, <2>1 DEF buildAuthFrame, Awaits, Stream, OneStream
  <2>3. t \in Streams /\ t.client = "result" /\ t.server = s.server /\ t.replies = s.replies
    BY <1>1, <2>1, Frames DEF Streams, OneStream, Reply
  <2> HIDE DEF t
  <2>4. OneStream(t, a, h) /\ Moves(Says(s, a), h, Says(t, a), h)
    BY <1>1, <2>1, <2>3, Frames DEF OneStream, Moves, Says, Streams
  <2> QED BY <1>1, <2>2, <2>3, <2>4, StreamStep
<1>8. CASE ReadsResult(c)
  <2> DEFINE t == [s EXCEPT !.client = "closed", !.replies = <<>>]
  <2>1. s.client = "result" /\ s.replies # <<>>
    BY <1>8 DEF ReadsResult, Settles, Stream
  <2>2. /\ stream' = [stream EXCEPT ![c] = t] /\ answer' = [answer EXCEPT ![c] = "ok"]
        /\ handled' = [handled EXCEPT ![c] = h]
    BY <1>8, <1>1, <2>1 DEF ReadsResult, Settles, Stream, OneStream
  <2>3. t \in Streams /\ t.client = "closed" /\ t.server = s.server /\ t.asks = s.asks /\ t.replies = <<>>
    BY <1>1, <2>1, Frames DEF Streams, OneStream, Reply
  <2> HIDE DEF t
  <2>4. OneStream(t, "ok", h) /\ Moves(Says(s, a), h, Says(t, "ok"), h)
    BY <1>1, <2>1, <2>3, Frames DEF OneStream, Moves, Says, Streams
  <2> QED BY <1>1, <2>2, <2>3, <2>4, StreamStep
<1> QED BY <1>2, <1>3, <1>4, <1>5, <1>6, <1>7, <1>8 DEF ClientProceeds, sendTask

\* The serving end.
LEMMA WanServer ==
    ASSUME WanInv, NEW c \in WanCalls,
           \/ ReadsHello(c) \/ buildServerIdentity(c) \/ ReadsAuth(c) \/ ReadsTask(c)
           \/ handlerReturns(c) \/ handleStreamReturns(c)
    PROVE  WanInv' /\ GoesOn(c)
<1> DEFINE s == stream[c]
           a == answer[c]
           h == handled[c]
<1>1. /\ s \in Streams /\ a \in {"none", "ok", "failed"} /\ h \in {0, 1} /\ OneStream(s, a, h)
      /\ answer = [answer EXCEPT ![c] = a] /\ handled = [handled EXCEPT ![c] = h]
  BY StreamFacts
<1>2. CASE ReadsHello(c)
  <2> DEFINE t == [[s EXCEPT !.asks = Tail(@)] EXCEPT !.server = "signing"]
  <2>1. s.server = "hello" /\ s.asks # <<>> /\ Head(s.asks) = "hello"
    BY <1>2 DEF ReadsHello, FrameDue, Serves, Stream
  <2>2. /\ stream' = [stream EXCEPT ![c] = t] /\ answer' = [answer EXCEPT ![c] = a]
        /\ handled' = [handled EXCEPT ![c] = h]
    BY <1>2, <1>1, <2>1 DEF ReadsHello, FrameDue, Serves, Stream, OneStream
  <2>3. t \in Streams /\ t.client = s.client /\ t.server = "signing" /\ t.asks = Tail(s.asks) /\ t.replies = s.replies
    BY <1>1, <2>1, Frames DEF Streams, OneStream, Reply
  <2> HIDE DEF t
  <2>4. OneStream(t, a, h) /\ Moves(Says(s, a), h, Says(t, a), h)
    BY <1>1, <2>1, <2>3, Frames DEF OneStream, Moves, Says, Streams
  <2> QED BY <1>1, <2>2, <2>3, <2>4, StreamStep
<1>3. CASE buildServerIdentity(c)
  <2> DEFINE t == [Reply(s, "hello_ack") EXCEPT !.server = "auth"]
  <2>1. s.server = "signing"
    BY <1>3 DEF buildServerIdentity, Serves, Stream
  <2>2. /\ stream' = [stream EXCEPT ![c] = t] /\ answer' = [answer EXCEPT ![c] = a]
        /\ handled' = [handled EXCEPT ![c] = h]
    BY <1>3, <1>1, <2>1 DEF buildServerIdentity, Serves, Stream, OneStream
  <2>3. t \in Streams /\ t.client = s.client /\ t.server = "auth" /\ t.asks = s.asks /\ t.replies \in {s.replies, <<"hello_ack">>} /\ (s.client = "closed" => t.replies = s.replies)
    BY <1>1, <2>1, Frames DEF Streams, OneStream, Reply
  <2> HIDE DEF t
  <2>4. OneStream(t, a, h) /\ Moves(Says(s, a), h, Says(t, a), h)
    BY <1>1, <2>1, <2>3, Frames DEF OneStream, Moves, Says, Streams
  <2> QED BY <1>1, <2>2, <2>3, <2>4, StreamStep
<1>4. CASE ReadsAuth(c)
  <2> DEFINE t == [[s EXCEPT !.asks = Tail(@)] EXCEPT !.server = "task"]
  <2>1. s.server = "auth" /\ s.asks # <<>> /\ Head(s.asks) = "auth"
    BY <1>4 DEF ReadsAuth, FrameDue, Serves, Stream
  <2>2. /\ stream' = [stream EXCEPT ![c] = t] /\ answer' = [answer EXCEPT ![c] = a]
        /\ handled' = [handled EXCEPT ![c] = h]
    BY <1>4, <1>1, <2>1 DEF ReadsAuth, FrameDue, Serves, Stream, OneStream
  <2>3. t \in Streams /\ t.client = s.client /\ t.server = "task" /\ t.asks = Tail(s.asks) /\ t.replies = s.replies
    BY <1>1, <2>1, Frames DEF Streams, OneStream, Reply
  <2> HIDE DEF t
  <2>4. OneStream(t, a, h) /\ Moves(Says(s, a), h, Says(t, a), h)
    BY <1>1, <2>1, <2>3, Frames DEF OneStream, Moves, Says, Streams
  <2> QED BY <1>1, <2>2, <2>3, <2>4, StreamStep
<1>5. CASE ReadsTask(c)
  <2> DEFINE t == [[s EXCEPT !.asks = Tail(@)] EXCEPT !.server = "running"]
  <2>1. s.server = "task" /\ s.asks # <<>> /\ Head(s.asks) = "task"
    BY <1>5 DEF ReadsTask, FrameDue, Serves, Stream
  <2>2. /\ stream' = [stream EXCEPT ![c] = t] /\ answer' = [answer EXCEPT ![c] = a]
        /\ handled' = [handled EXCEPT ![c] = 1]
    <3>1. handled[c] + 1 = 1
      BY <1>1, <2>1 DEF OneStream
    <3>2. handled' = [handled EXCEPT ![c] = handled[c] + 1] /\ UNCHANGED answer
      BY <1>5 DEF ReadsTask, Serves
    <3>3. stream' = [stream EXCEPT ![c] = t]
      BY <1>5 DEF ReadsTask, Serves, Stream
    <3> QED BY <1>1, <3>1, <3>2, <3>3
  <2>3. t \in Streams /\ t.client = s.client /\ t.server = "running" /\ t.asks = Tail(s.asks) /\ t.replies = s.replies
    BY <1>1, <2>1, Frames DEF Streams, OneStream, Reply
  <2> HIDE DEF t
  <2>4. OneStream(t, a, 1) /\ Moves(Says(s, a), h, Says(t, a), 1)
    BY <1>1, <2>1, <2>3, Frames DEF OneStream, Moves, Says, Streams
  <2> QED BY <1>1, <2>2, <2>3, <2>4, StreamStep
<1>6. CASE handlerReturns(c) /\ Serves(c, "closed", Reply(stream[c], "result"))
  <2> DEFINE t == [Reply(s, "result") EXCEPT !.server = "closed"]
  <2>1. s.server = "running"
    BY <1>6 DEF handlerReturns, Serves, Stream
  <2>2. /\ stream' = [stream EXCEPT ![c] = t] /\ answer' = [answer EXCEPT ![c] = a]
        /\ handled' = [handled EXCEPT ![c] = h]
    BY <1>6, <1>1, <2>1 DEF handlerReturns, Serves, Stream, OneStream
  <2>3. t \in Streams /\ t.client = s.client /\ t.server = "closed" /\ t.asks = s.asks /\ t.replies \in {s.replies, <<"result">>} /\ (s.client = "closed" => t.replies = s.replies)
    BY <1>1, <2>1, Frames DEF Streams, OneStream, Reply
  <2> HIDE DEF t
  <2>4. OneStream(t, a, h) /\ Moves(Says(s, a), h, Says(t, a), h)
    BY <1>1, <2>1, <2>3, Frames DEF OneStream, Moves, Says, Streams
  <2> QED BY <1>1, <2>2, <2>3, <2>4, StreamStep
<1>7. CASE handlerReturns(c) /\ Serves(c, "closed", stream[c])
  <2> DEFINE t == [s EXCEPT !.server = "closed"]
  <2>1. s.server = "running"
    BY <1>7 DEF handlerReturns, Serves, Stream
  <2>2. /\ stream' = [stream EXCEPT ![c] = t] /\ answer' = [answer EXCEPT ![c] = a]
        /\ handled' = [handled EXCEPT ![c] = h]
    BY <1>7, <1>1, <2>1 DEF handlerReturns, Serves, Stream, OneStream
  <2>3. t \in Streams /\ t.client = s.client /\ t.server = "closed" /\ t.asks = s.asks /\ t.replies = s.replies
    BY <1>1, <2>1, Frames DEF Streams, OneStream, Reply
  <2> HIDE DEF t
  <2>4. OneStream(t, a, h) /\ Moves(Says(s, a), h, Says(t, a), h)
    BY <1>1, <2>1, <2>3, Frames DEF OneStream, Moves, Says, Streams
  <2> QED BY <1>1, <2>2, <2>3, <2>4, StreamStep
<1>8. CASE handleStreamReturns(c)
  <2> DEFINE t == [[s EXCEPT !.asks = <<>>] EXCEPT !.server = "closed"]
  <2>1. s.server \in {"hello", "signing", "auth", "task"}
    BY <1>8 DEF handleStreamReturns, Serves, Stream
  <2>2. /\ stream' = [stream EXCEPT ![c] = t] /\ answer' = [answer EXCEPT ![c] = a]
        /\ handled' = [handled EXCEPT ![c] = h]
    BY <1>8, <1>1, <2>1 DEF handleStreamReturns, Serves, Stream, OneStream
  <2>3. t \in Streams /\ t.client = s.client /\ t.server = "closed" /\ t.asks = <<>> /\ t.replies = s.replies
    BY <1>1, <2>1, Frames DEF Streams, OneStream, Reply
  <2> HIDE DEF t
  <2>4. OneStream(t, a, h) /\ Moves(Says(s, a), h, Says(t, a), h)
    BY <1>1, <2>1, <2>3, Frames DEF OneStream, Moves, Says, Streams
  <2> QED BY <1>1, <2>2, <2>3, <2>4, StreamStep
<1> QED BY <1>2, <1>3, <1>4, <1>5, <1>6, <1>7, <1>8 DEF handlerReturns

LEMMA WanMoves ==
    ASSUME WanInv, WanStep
    PROVE  /\ WanInv'
           /\ \/ \E c \in WanCalls : GoesOn(c)
              \/ \A c \in WanCalls : WanTold(c)' = WanTold(c) /\ handled'[c] = handled[c]
<1>1. ASSUME NEW n, start(n)
      PROVE  WanInv' /\ \A c \in WanCalls : WanTold(c)' = WanTold(c) /\ handled'[c] = handled[c]
  BY <1>1 DEF start, WanInv, WanTold
<1>2. ASSUME NEW n, stop(n)
      PROVE  WanInv' /\ \A c \in WanCalls : WanTold(c)' = WanTold(c) /\ handled'[c] = handled[c]
  <2>1. /\ stream' = [c \in WanCalls |-> IF Open(c) THEN CutOff(stream[c]) ELSE stream[c]]
        /\ UNCHANGED <<answer, handled>>
    BY <1>2 DEF stop
  <2>2. ASSUME NEW c \in WanCalls
        PROVE  /\ stream'[c] \in Streams /\ OneStream(stream'[c], answer[c], handled[c])
               /\ stream'[c].client = stream[c].client
    <3>1. stream[c] \in Streams /\ OneStream(stream[c], answer[c], handled[c])
      BY StreamFacts
    <3>2. PICK t : t = CutOff(stream[c])
      OBVIOUS
    <3>3. /\ t \in Streams /\ t.client = stream[c].client /\ t.asks = <<>> /\ t.replies = <<>>
          /\ t.server = IF stream[c].server = "running" THEN "running" ELSE "closed"
      BY <3>1, <3>2 DEF CutOff, Streams
    <3>4. OneStream(t, answer[c], handled[c])
      BY <3>1, <3>3 DEF OneStream
    <3> QED BY <2>1, <3>1, <3>2, <3>3, <3>4
  <2>3. WanInv'
    BY <2>1, <2>2 DEF WanInv
  <2> QED BY <2>1, <2>2, <2>3 DEF WanTold
<1> QED
  BY <1>1, <1>2, WanClient, WanServer DEF WanStep, startWanProvider

LEMMA WanBegins == InitWan => WanInv
  BY DEF InitWan, WanInv, NoStream, Streams, OneStream

-----------------------------------------------------------------------------
\* The calls over TLS: a task that has not run, and one that ran once at one instance.
NotRun(k) == \A i \in Instances : ran[k][i] = 0
RunOnce(k) == \E i \in Instances : ran[k] = [j \in Instances |-> IF j = i THEN 1 ELSE 0]

\* A connection that may still carry its task to the far end.
Pending(c) == c.client \in {"dial", "hello_ack", "proving"} \/ c.up # <<>>

Answers(c) == c.down \in {<<"result">>, <<"sub_ack">>}

\* What a connection for a task says of its call: whether it is under way, and whether
\* its task has run.
Duty(c) ==
    c.use = "task" =>
       /\ c.call \in Calls /\ call[c.call] # "idle"
       /\ c.client # "closed" => call[c.call] = "sent"
       /\ Pending(c) => NotRun(c.call)
       /\ c.work \/ Answers(c) => RunOnce(c.call)

\* No two connections are for one call, and the call was told no more than is true: an
\* inductive invariant with ServingInv and NeverRetried.
OnceInv ==
    /\ \A x \in Conns : Duty(conn[x])
    /\ \A x, y \in Conns :
          conn[x].use = "task" /\ conn[y].use = "task" /\ conn[x].call = conn[y].call => x = y
    /\ \A k \in Calls : /\ NotRun(k) \/ RunOnce(k)
                        /\ call[k] = "idle" => NotRun(k)
                        /\ call[k] = "ok" => RunOnce(k)

\* d follows c on a connection, and takes on nothing new.
Weaker(c, d) ==
    /\ d.use = c.use /\ d.call = c.call
    /\ d.client # "closed" => c.client # "closed"
    /\ Pending(d) => Pending(c)
    /\ d.work \/ Answers(d) => c.work \/ Answers(c)

Quiet == \A k \in Calls : Told(k)' = Told(k) /\ RanTimes(k)' = RanTimes(k)

\* Of all calls that of k goes on, as its task may.
CallGoesOn(k) ==
    /\ Moves(Told(k), RanTimes(k), Told(k)', RanTimes(k)')
    /\ \A j \in Calls \ {k} : Told(j)' = Told(j) /\ RanTimes(j)' = RanTimes(j)

Goings == Quiet \/ \E k \in Calls : CallGoesOn(k)

LEMMA Ran ==
    ASSUME NEW k \in Calls
    PROVE  /\ NotRun(k) /\ ran \in [Calls -> [Instances -> Nat]] => RanTimes(k) = 0
           /\ RunOnce(k) => RanTimes(k) = 1 /\ ~NotRun(k)
<1> DEFINE R == {r \in Instances \X (1..MaxRetries + 1) : ran[k][r[1]] >= r[2]}
<1>1. ASSUME NotRun(k), ran \in [Calls -> [Instances -> Nat]] PROVE RanTimes(k) = 0
  <2>1. R = {} BY <1>1, CallAssumption DEF NotRun
  <2> QED BY <2>1, FS_EmptySet DEF RanTimes
<1>2. ASSUME RunOnce(k) PROVE RanTimes(k) = 1 /\ ~NotRun(k)
  <2>1. PICK i \in Instances : ran[k] = [j \in Instances |-> IF j = i THEN 1 ELSE 0]
    BY <1>2 DEF RunOnce
  <2>2. ran[k][i] = 1 /\ \A j \in Instances : j # i => ran[k][j] = 0 BY <2>1
  <2>3. 1 \in 1..MaxRetries + 1 BY CallAssumption
  <2>4. ASSUME NEW r \in Instances \X (1..MaxRetries + 1)
        PROVE  ran[k][r[1]] >= r[2] <=> r = <<i, 1>>
    <3>1. PICK j \in Instances, n \in 1..MaxRetries + 1 : r = <<j, n>> OBVIOUS
    <3>2. n \in Int /\ n >= 1 BY CallAssumption
    <3>3. CASE j = i BY <2>2, <3>1, <3>2, <3>3
    <3>4. CASE j # i BY <2>2, <3>1, <3>2, <3>4
    <3> QED BY <3>3, <3>4
  <2>5. R = {<<i, 1>>} BY <2>3, <2>4
  <2>6. Cardinality({<<i, 1>>}) = 1 BY FS_Singleton
  <2>7. RanTimes(k) = 1 BY <2>5, <2>6 DEF RanTimes
  <2>8. ~NotRun(k) BY <2>2 DEF NotRun
  <2> QED BY <2>7, <2>8
<1> QED BY <1>1, <1>2

LEMMA DutyFollows ==
    ASSUME NEW c, NEW d, Duty(c), Weaker(c, d)
    PROVE  Duty(d)
BY DEF Duty, Weaker

\* A step that settles no call and runs no task.
LEMMA QuietKeeps ==
    ASSUME OnceInv, UNCHANGED <<call, ran>>,
           \A x \in Conns : conn'[x].use # "task" \/ Weaker(conn[x], conn'[x])
    PROVE  OnceInv' /\ Quiet
<1>1. \A k \in Calls : (NotRun(k)' <=> NotRun(k)) /\ (RunOnce(k)' <=> RunOnce(k))
  BY DEF NotRun, RunOnce
<1>2. ASSUME NEW x \in Conns PROVE Duty(conn[x])'
  <2>1. Duty(conn'[x])
    <3>1. CASE conn'[x].use # "task" BY <3>1 DEF Duty
    <3>2. CASE Weaker(conn[x], conn'[x]) BY <3>2, DutyFollows DEF OnceInv
    <3> QED BY <3>1, <3>2
  <2> QED BY <2>1 DEF Duty, NotRun, RunOnce, Pending, Answers
<1>3. \A x \in Conns : conn'[x].use = "task" => conn[x].use = "task" /\ conn[x].call = conn'[x].call
  BY DEF Weaker
<1>4. Quiet BY DEF Quiet, Told, RanTimes
<1> QED BY <1>1, <1>2, <1>3, <1>4 DEF OnceInv

LEMMA QuietPut ==
    ASSUME ServingInv, OnceInv, UNCHANGED <<call, ran>>, NEW x \in Conns, NEW c, Put(x, c),
           c.use # "task" \/ Weaker(conn[x], c)
    PROVE  OnceInv' /\ Quiet
<1>1. \A y \in Conns : conn'[y] = IF y = x THEN Kept(c) ELSE conn[y] BY DEF Put, Kept, ServingInv
<1>2. ASSUME NEW y \in Conns PROVE conn'[y].use # "task" \/ Weaker(conn[y], conn'[y])
  <2>1. CASE y # x BY <1>1, <2>1 DEF Weaker
  <2>2. CASE y = x BY <1>1, <2>2 DEF Kept, Unused
  <2> QED BY <2>1, <2>2
<1> QED BY <1>2, QuietKeeps

\* A caller that is done with the connection of its task tells how it went.
LEMMA SettleKeeps ==
    ASSUME ServingInv, NeverRetried, OnceInv, NEW x \in Conns, NEW d, Put(x, d), Weaker(conn[x], d),
           d.client = "closed", conn[x].client # "closed", conn[x].use = "task",
           NEW how \in Outcomes, call' = [call EXCEPT ![conn[x].call] = how], UNCHANGED ran,
           how = "ok" => RunOnce(conn[x].call)
    PROVE  OnceInv' /\ Goings
<1>1. \A y \in Conns : conn'[y] = IF y = x THEN Kept(d) ELSE conn[y] BY DEF Put, Kept, ServingInv
<1>2. PICK k \in Calls : k = conn[x].call BY DEF OnceInv, Duty
<1>3. Duty(conn[x]) /\ call[k] = "sent" BY <1>2 DEF OnceInv, Duty
<1>4. call'[k] = how /\ \A j \in Calls : j # k => call'[j] = call[j] BY <1>2 DEF NeverRetried
<1>5. \A j \in Calls : (NotRun(j)' <=> NotRun(j)) /\ (RunOnce(j)' <=> RunOnce(j)) BY DEF NotRun, RunOnce
<1>6. ASSUME NEW y \in Conns PROVE Duty(conn[y])'
  <2>1. CASE y = x
    <3>1. Duty(d) BY <1>3, DutyFollows
    <3>2. Duty(Unused) BY DEF Duty, Unused
    <3>3. /\ Kept(d).use = "task" => Kept(d) = d /\ d.call = k
          /\ d.client = "closed"
      BY <1>2 DEF Kept, Unused, Weaker
    <3>4. conn'[y] = Kept(d) BY <1>1, <2>1
    <3>5. how # "idle" BY DEF Outcomes
    <3> HIDE DEF Kept
    <3> QED BY <1>2, <1>4, <3>1, <3>3, <3>4, <3>5 DEF Duty, NotRun, RunOnce, Pending, Answers
  <2>2. CASE y # x
    <3>1. Duty(conn[y]) /\ conn'[y] = conn[y] BY <1>1, <2>2 DEF OnceInv
    <3>2. conn[y].use = "task" => conn[y].call \in Calls /\ conn[y].call # k
      BY <1>2, <2>2, <3>1 DEF OnceInv, Duty
    <3> QED BY <1>4, <3>1, <3>2 DEF Duty, NotRun, RunOnce, Pending, Answers
  <2> QED BY <2>1, <2>2
<1>7. \A y \in Conns : conn'[y].use = "task" => conn[y].use = "task" /\ conn[y].call = conn'[y].call
  BY <1>1 DEF Kept, Unused, Weaker
<1>8. \A j \in Calls : RanTimes(j)' = RanTimes(j) BY DEF RanTimes
<1>9. OnceInv' BY <1>2, <1>4, <1>5, <1>6, <1>7 DEF OnceInv, Outcomes
<1>10. CallGoesOn(k)
  <2>1. Told(k) = "wait" BY <1>3 DEF Told
  <2>2. Told(k)' = IF how = "ok" THEN "ok" ELSE "failed" BY <1>4 DEF Told, Outcomes
  <2>3. how = "ok" => RanTimes(k) = 1 BY <1>2, Ran
  <2>4. \A j \in Calls \ {k} : Told(j)' = Told(j) BY <1>4 DEF Told
  <2> QED BY <1>8, <2>1, <2>2, <2>3, <2>4 DEF CallGoesOn, Moves
<1> QED BY <1>9, <1>10 DEF Goings

LEMMA FinishGoes ==
    ASSUME ServingInv, NeverRetried, OnceInv, NEW x \in Conns, NEW c \in Conn, NEW how, Finish(x, c, how),
           UNCHANGED ran, Weaker(conn[x], c), c.client # "closed",
           c.use = "task" => how \in Outcomes /\ (how = "ok" => RunOnce(c.call))
    PROVE  OnceInv' /\ Goings
<1>1. Put(x, Done(c)) BY DEF Finish, Done
<1>2. /\ Done(c).use = c.use /\ Done(c).call = c.call /\ Done(c).client = "closed"
      /\ Done(c).up = c.up /\ Done(c).work = c.work /\ Done(c).down = <<>>
  BY DEF Done, Conn
<1>3. Weaker(conn[x], Done(c)) BY <1>2, OneFrame DEF Weaker, Pending, Answers
<1>4. CASE c.use # "task"
  <2>1. UNCHANGED call BY <1>4 DEF Finish
  <2> QED BY <1>1, <1>3, <2>1, QuietPut DEF Goings
<1>5. CASE c.use = "task"
  <2>1. CallAfter(c.call, how) = how BY DEF CallAfter, Rejects
  <2>2. call' = [call EXCEPT ![c.call] = how] BY <1>5, <2>1 DEF Finish
  <2>3. conn[x].use = "task" /\ conn[x].call = c.call /\ conn[x].client # "closed" BY <1>5 DEF Weaker
  <2> QED BY <1>1, <1>2, <1>3, <1>5, <2>2, <2>3, SettleKeeps
<1> QED BY <1>4, <1>5

LEMMA ConnectGoes ==
    ASSUME ServingInv, NeverRetried, OnceInv, NEW x \in Conns, NEW i \in Instances, Connect(x, i)
    PROVE  OnceInv' /\ Goings
<1>1. conn[x] \in Conn /\ conn[x].client = "dial" /\ UNCHANGED ran BY FarIsThere DEF Connect
<1>2. CASE i = conn[x].peer
  <2> DEFINE u == IF Admits(i) THEN <<"hello">> ELSE <<>>
             s == IF Admits(i) THEN "hello" ELSE "closed"
             d == [[conn[x] EXCEPT !.far = i, !.server = s] EXCEPT !.client = "hello_ack", !.up = u]
  <2>1. Put(x, d) /\ UNCHANGED call BY <1>2 DEF Connect, Greets, Answered, client, caller
  <2>2. /\ d.use = conn[x].use /\ d.call = conn[x].call /\ d.work = conn[x].work
        /\ d.down = conn[x].down
    BY <1>1 DEF Conn
  <2> HIDE DEF d
  <2>3. Weaker(conn[x], d) BY <1>1, <2>2 DEF Weaker, Pending, Answers
  <2> QED BY <1>1, <2>1, <2>3, QuietPut DEF Goings
<1>3. CASE i # conn[x].peer
  <2> DEFINE d == Answered(x, i)
  <2>1. /\ d.use = conn[x].use /\ d.call = conn[x].call /\ d.work = conn[x].work
        /\ d.down = conn[x].down /\ d.client = "dial" /\ d \in Conn
    BY <1>1 DEF Conn, Answered
  <2>2. Finish(x, d, "failed") BY <1>3 DEF Connect
  <2> HIDE DEF d
  <2>3. Weaker(conn[x], d) BY <1>1, <2>1 DEF Weaker, Pending, Answers
  <2> QED BY <1>1, <2>1, <2>2, <2>3, FinishGoes DEF Outcomes
<1> QED BY <1>2, <1>3

LEMMA ReadHelloAckGoes ==
    ASSUME ServingInv, NeverRetried, OnceInv, NEW x \in Conns, ReadHelloAck(x)
    PROVE  OnceInv' /\ Goings
<1> DEFINE c == conn[x]
           d == [c EXCEPT !.client = "proving", !.down = <<>>]
<1>1. c \in Conn /\ c.client = "hello_ack" /\ UNCHANGED ran BY FarIsThere DEF ReadHelloAck, server
<1>2. CASE c.use = "probe" /\ Finish(x, c, "proven")
  <2>1. Weaker(c, c) BY DEF Weaker
  <2> QED BY <1>1, <1>2, <2>1, FinishGoes
<1>3. CASE Put(x, d) /\ UNCHANGED call
  <2>1. d.use = c.use /\ d.call = c.call /\ d.work = c.work /\ d.down = <<>> BY <1>1 DEF Conn
  <2> HIDE DEF d
  <2>2. Weaker(c, d) BY <1>1, <2>1, OneFrame DEF Weaker, Pending, Answers
  <2> QED BY <1>1, <1>3, <2>2, QuietPut DEF Goings
<1>4. CASE c.use = "task" /\ Put(x, Done(c)) /\ call' = [call EXCEPT ![c.call] = "failed"]
  <2>1. /\ Done(c).use = c.use /\ Done(c).call = c.call /\ Done(c).client = "closed"
        /\ Done(c).up = c.up /\ Done(c).work = c.work /\ Done(c).down = <<>>
    BY <1>1 DEF Done, Conn
  <2>2. Weaker(c, Done(c)) BY <2>1, OneFrame DEF Weaker, Pending, Answers
  <2> QED BY <1>1, <1>4, <2>1, <2>2, SettleKeeps DEF Outcomes
<1> QED BY <1>2, <1>3, <1>4 DEF ReadHelloAck, Done, caller

LEMMA ProveGoes ==
    ASSUME ServingInv, NeverRetried, OnceInv, NEW x \in Conns, Prove(x)
    PROVE  OnceInv' /\ Goings
<1> DEFINE c == conn[x]
<1>1. Shape(c) /\ c \in Conn /\ c.client = "proving" /\ UNCHANGED ran BY FarIsThere DEF Prove, server
<1>2. PICK u \in {<<>>, <<"auth">>, <<"auth", c.use>>} :
         \/ Put(x, [[c EXCEPT !.up = u] EXCEPT !.client = "result"]) /\ UNCHANGED client
         \/ c.use # "task" /\ (u = <<"auth", c.use>> => c.use \in UpFrames)
               /\ \E how : Finish(x, [c EXCEPT !.up = u], how)
  <2>1. <<"auth">> # <<"auth", c.use>> /\ <<>> # <<"auth", c.use>>
    <3>1. Len(<<"auth">>) = 1 /\ Len(<<>>) = 0 /\ Len(<<"auth", c.use>>) = 2 OBVIOUS
    <3> QED BY <3>1
  <2> QED BY <2>1 DEF Prove, UpFrames
<1> DEFINE b == [c EXCEPT !.up = u]
           d == [b EXCEPT !.client = "result"]
<1>3. /\ b.use = c.use /\ b.call = c.call /\ b.work = c.work /\ b.down = c.down /\ b.client = "proving"
      /\ d.use = c.use /\ d.call = c.call /\ d.work = c.work /\ d.down = c.down
  BY <1>1 DEF Conn
<1>4. (u = <<"auth", c.use>> => c.use \in UpFrames) => b \in Conn BY <1>1, QueueTypes DEF Conn, UpFrames
<1> HIDE DEF b, d
<1>5. Weaker(c, b) /\ Weaker(c, d) BY <1>1, <1>3 DEF Weaker, Pending, Answers
<1>6. CASE Put(x, d) /\ UNCHANGED client
  <2>1. UNCHANGED call BY <1>6 DEF client, caller
  <2> QED BY <1>1, <1>5, <1>6, <2>1, QuietPut DEF Goings
<1>7. CASE c.use # "task" /\ b \in Conn /\ \E how : Finish(x, b, how)
  BY <1>1, <1>3, <1>5, <1>7, FinishGoes
<1> QED BY <1>2, <1>4, <1>6, <1>7 DEF b, d

LEMMA EndOfCallGoes ==
    ASSUME ServingInv, NeverRetried, OnceInv, NEW x \in Conns, LoseConnection(x) \/ TimeOut(x) \/ ReadResult(x)
    PROVE  OnceInv' /\ Goings
<1>1. Shape(conn[x]) /\ conn[x] \in Conn /\ Duty(conn[x]) BY FarIsThere DEF OnceInv
<1>2. conn[x].client # "closed" /\ UNCHANGED ran BY DEF LoseConnection, TimeOut, ReadResult, server
<1>3. Weaker(conn[x], conn[x]) BY DEF Weaker
<1>4. CASE LoseConnection(x) \/ TimeOut(x)
  <2>1. PICK how \in {"failed", "dropped"} : Finish(x, conn[x], how) BY <1>4 DEF LoseConnection, TimeOut
  <2> QED BY <1>1, <1>2, <1>3, <2>1, FinishGoes DEF Outcomes
<1>5. CASE ReadResult(x)
  <2>1. PICK f \in DownFrames : conn[x].down = <<f>>
    <3>1. PICK n \in 0..1 : conn[x].down \in [1..n -> DownFrames] BY <1>1 DEF Conn, Queues
    <3>2. conn[x].down # <<>> BY <1>5 DEF ReadResult
    <3>3. n = 1 BY <3>1, <3>2
    <3>4. conn[x].down[1] \in DownFrames BY <3>1, <3>3
    <3>5. conn[x].down = <<conn[x].down[1]>> BY <3>1, <3>3
    <3> QED BY <3>4, <3>5
  <2>2. Head(conn[x].down) = f BY <2>1
  <2>3. PICK how \in {"ok", "failed"} : Finish(x, conn[x], how) /\ (how = "ok" => f \in {"result", "sub_ack"})
    BY <1>5, <2>2 DEF ReadResult
  <2>4. how = "ok" => Answers(conn[x]) BY <2>1, <2>3 DEF Answers
  <2>5. conn[x].use = "task" /\ how = "ok" => RunOnce(conn[x].call) BY <1>1, <2>4 DEF Duty
  <2> QED BY <1>1, <1>2, <1>3, <2>3, <2>5, FinishGoes DEF Outcomes
<1> QED BY <1>4, <1>5

\* The far end reads a task, and runs it.
LEMMA RunGoes ==
    ASSUME ServingInv, NeverRetried, OnceInv, NEW x \in Conns, Reads(x, "task", "authenticated"),
           Put(x, [Rest(x) EXCEPT !.work = TRUE]),
           ran' = [ran EXCEPT ![conn[x].call][conn[x].far] = @ + 1], UNCHANGED call
    PROVE  OnceInv' /\ Goings
<1> DEFINE c == conn[x]
           d == [[c EXCEPT !.up = Tail(@)] EXCEPT !.work = TRUE]
<1>1. /\ Shape(c) /\ c \in Conn /\ c.up # <<>> /\ Head(c.up) = "task" /\ Duty(c)
      /\ c.far \in Instances /\ ran \in [Calls -> [Instances -> Nat]]
  BY FarIsThere DEF Reads, OnceInv, ServingInv, TypeOKServer
<1>2. c.use = "task" /\ Tail(c.up) = <<>> /\ c.up = <<"task">> BY <1>1, HeadSays
<1>3. PICK k \in Calls : k = c.call BY <1>1, <1>2 DEF Duty
<1>4. NotRun(k) /\ call[k] # "idle" /\ call[k] # "ok"
  BY <1>1, <1>2, <1>3, Ran DEF Duty, Pending, OnceInv
<1>5. c.client \in {"result", "closed"}
  <2>1. Head(<<"hello">>) = "hello" OBVIOUS
  <2> QED BY <1>1, <2>1 DEF Shape
<1>6. /\ d.use = "task" /\ d.call = k /\ d.client = c.client /\ d.up = <<>> /\ d.work
  BY <1>1, <1>2, <1>3 DEF Conn
<1>7. /\ ran'[k] = [j \in Instances |-> IF j = c.far THEN 1 ELSE 0]
      /\ \A j \in Calls : j # k => ran'[j] = ran[j]
  <2>1. ran' = [ran EXCEPT ![k] = [ran[k] EXCEPT ![c.far] = ran[k][c.far] + 1]] BY <1>1, <1>3
  <2>2. ran'[k] = [ran[k] EXCEPT ![c.far] = ran[k][c.far] + 1] BY <1>1, <2>1
  <2>3. \A j \in Instances : ran'[k][j] = IF j = c.far THEN 1 ELSE 0
    BY <1>1, <1>4, <2>2 DEF NotRun
  <2>4. ran'[k] = [j \in Instances |-> ran'[k][j]] BY <1>1, <2>2
  <2> QED BY <1>1, <2>1, <2>3, <2>4
<1>8. RunOnce(k)' BY <1>1, <1>7 DEF RunOnce
<1>9. \A j \in Calls : j # k => (NotRun(j)' <=> NotRun(j)) /\ (RunOnce(j)' <=> RunOnce(j))
  BY <1>7 DEF NotRun, RunOnce
<1>10. conn' = [conn EXCEPT ![x] = d]
  <2>1. Kept(d) = d BY <1>6 DEF Kept
  <2>2. conn' = [conn EXCEPT ![x] = Kept(d)] BY DEF Put, Kept, Rest
  <2> QED BY <2>1, <2>2
<1> HIDE DEF d
<1>11. conn'[x] = d /\ \A y \in Conns : y # x => conn'[y] = conn[y] BY <1>10 DEF ServingInv
<1>12. ASSUME NEW y \in Conns PROVE Duty(conn[y])'
  <2>1. CASE y = x
    <3>1. c.client # "closed" => call[k] = "sent" BY <1>1, <1>2, <1>3 DEF Duty
    <3>2. conn'[y].call = k /\ conn'[y].client = c.client /\ conn'[y].up = <<>>
      BY <1>6, <1>11, <2>1
    <3>3. ~Pending(conn[y])' BY <1>5, <3>2 DEF Pending
    <3>4. RunOnce(conn[y].call)' BY <1>8, <3>2 DEF RunOnce
    <3>5. call'[conn'[y].call] # "idle" /\ (conn'[y].client # "closed" => call'[conn'[y].call] = "sent")
      BY <1>4, <3>1, <3>2
    <3> QED BY <3>2, <3>3, <3>4, <3>5 DEF Duty, Pending, RunOnce, NotRun
  <2>2. CASE y # x
    <3>1. Duty(conn[y]) /\ conn'[y] = conn[y] BY <1>11, <2>2 DEF OnceInv
    <3>2. conn[y].use = "task" => conn[y].call \in Calls /\ conn[y].call # k
      BY <1>2, <1>3, <2>2, <3>1 DEF OnceInv, Duty
    <3>3. Pending(conn[y])' <=> Pending(conn[y]) BY <3>1 DEF Pending
    <3>4. Answers(conn[y])' <=> Answers(conn[y]) BY <3>1 DEF Answers
    <3>5. conn[y].use = "task" => /\ NotRun(conn[y].call)' <=> NotRun(conn[y].call)
                                  /\ RunOnce(conn[y].call)' <=> RunOnce(conn[y].call)
      <4>1. ASSUME conn[y].use = "task"
            PROVE  conn'[y].call = conn[y].call /\ ran'[conn[y].call] = ran[conn[y].call]
        BY <1>7, <3>1, <3>2, <4>1
      <4> QED BY <4>1 DEF NotRun, RunOnce
    <3> QED BY <3>1, <3>3, <3>4, <3>5 DEF Duty
  <2> QED BY <2>1, <2>2
<1>13. \A y \in Conns : conn'[y].use = "task" => conn[y].use = "task" /\ conn[y].call = conn'[y].call
  BY <1>2, <1>3, <1>6, <1>11
<1>14. OnceInv'
  BY <1>4, <1>8, <1>9, <1>12, <1>13 DEF OnceInv
<1>15. CallGoesOn(k)
  <2>1. Told(k) \in {"wait", "failed"} /\ Told(k)' = Told(k)
    BY <1>4 DEF Told, NeverRetried, Outcomes
  <2>2. RanTimes(k) = 0 BY <1>1, <1>4, Ran
  <2>3. RanTimes(k)' = 1
    <3>1. \A j \in Instances : ran'[k][j] = IF j = c.far THEN 1 ELSE 0 BY <1>7
    <3>2. 1 \in 1..MaxRetries + 1 BY CallAssumption
    <3>3. ASSUME NEW r \in Instances \X (1..MaxRetries + 1)
          PROVE  ran'[k][r[1]] >= r[2] <=> r = <<c.far, 1>>
      <4>1. PICK j \in Instances, n \in 1..MaxRetries + 1 : r = <<j, n>> OBVIOUS
      <4>2. n \in Int /\ n >= 1 BY CallAssumption
      <4>3. CASE j = c.far BY <3>1, <4>1, <4>2, <4>3
      <4>4. CASE j # c.far BY <3>1, <4>1, <4>2, <4>4
      <4> QED BY <4>3, <4>4
    <3>4. {r \in Instances \X (1..MaxRetries + 1) : ran'[k][r[1]] >= r[2]} = {<<c.far, 1>>}
      BY <1>1, <3>2, <3>3
    <3>5. Cardinality({<<c.far, 1>>}) = 1 BY FS_Singleton
    <3> QED BY <3>4, <3>5 DEF RanTimes
  <2>4. \A j \in Calls \ {k} : Told(j)' = Told(j) /\ RanTimes(j)' = RanTimes(j)
    BY <1>7 DEF Told, RanTimes
  <2> QED BY <2>1, <2>2, <2>3, <2>4 DEF CallGoesOn, Moves
<1> QED BY <1>14, <1>15 DEF Goings

\* Anything else that the far end does starts no task.
LEMMA ServerGoes ==
    ASSUME ServingInv, NeverRetried, OnceInv, NEW x \in Conns, ServesOn(x), UNCHANGED call
    PROVE  OnceInv' /\ Goings
<1> DEFINE c == conn[x]
<1>1. Shape(c) /\ c \in Conn /\ Duty(c) BY FarIsThere DEF OnceInv
<1>2. CASE OverBudget(x) \/ HandshakeTimesOut(x) \/ ServerSeesClose(x)
  <2> DEFINE d == [c EXCEPT !.server = "closed", !.up = <<>>]
  <2>1. Put(x, d) /\ UNCHANGED ran
    BY <1>2 DEF OverBudget, HandshakeTimesOut, ServerSeesClose, Hangup
  <2>2. /\ d.use = c.use /\ d.call = c.call /\ d.work = c.work /\ d.down = c.down
        /\ d.client = c.client /\ d.up = <<>>
    BY <1>1 DEF Conn
  <2> HIDE DEF d
  <2>3. Weaker(c, d) BY <2>2 DEF Weaker, Pending, Answers
  <2> QED BY <2>1, <2>3, QuietPut DEF Goings
<1>3. CASE HandlerEnds(x)
  <2>1. PICK dn : Put(x, [c EXCEPT !.work = FALSE, !.down = dn]) BY <1>3 DEF HandlerEnds
  <2> DEFINE d == [c EXCEPT !.work = FALSE, !.down = dn]
  <2>2. d.use = c.use /\ d.call = c.call /\ d.client = c.client /\ d.up = c.up /\ ~d.work
    BY <1>1 DEF Conn
  <2>3. c.work /\ UNCHANGED ran BY <1>3 DEF HandlerEnds
  <2> HIDE DEF d
  <2>4. Weaker(c, d) BY <2>2, <2>3 DEF Weaker, Pending
  <2> QED BY <2>1, <2>3, <2>4, QuietPut DEF Goings, d
<1>4. ASSUME c.up # <<>>, UNCHANGED ran, NEW u, NEW s, NEW f \in {"hello_ack", "busy"},
             NEW dn, dn = c.down \/ dn = Append(c.down, f),
             Put(x, [c EXCEPT !.up = u, !.server = s, !.down = dn])
      PROVE  OnceInv' /\ Goings
  <2> DEFINE d == [c EXCEPT !.up = u, !.server = s, !.down = dn]
  <2>1. d.use = c.use /\ d.call = c.call /\ d.client = c.client /\ d.work = c.work /\ d.down = dn
    BY <1>1 DEF Conn
  <2>2. c.down = <<>> /\ <<f>> \notin {<<"result">>, <<"sub_ack">>} BY <1>1, <1>4 DEF Shape
  <2>3. Put(x, d) BY <1>4
  <2> HIDE DEF d
  <2>4. Weaker(c, d) BY <1>4, <2>1, <2>2, OneFrame DEF Weaker, Pending, Answers
  <2> QED BY <1>4, <2>3, <2>4, QuietPut DEF Goings
<1>5. ASSUME NEW frame, NEW phase, Reads(x, frame, phase)
      PROVE  c.up # <<>> /\ Head(c.up) = frame
  BY <1>5 DEF Reads
<1>6. CASE ReadHello(x)
  <2>1. Put(x, [c EXCEPT !.up = Tail(c.up), !.server = "ready", !.down = Append(c.down, "hello_ack")]) /\ UNCHANGED ran
    BY <1>6, <1>1 DEF ReadHello, Rest, Conn, server
  <2>2. c.up # <<>> BY <1>5, <1>6 DEF ReadHello
  <2> QED BY <1>4, <2>1, <2>2
<1>7. CASE ReadAuth(x)
  <2>1. Put(x, [c EXCEPT !.up = Tail(c.up), !.server = "authenticated", !.down = c.down]) /\ UNCHANGED ran
    BY <1>7, <1>1 DEF ReadAuth, Rest, Conn, server
  <2>2. c.up # <<>> BY <1>5, <1>7 DEF ReadAuth
  <2> QED BY <1>4, <2>1, <2>2
<1>8. CASE ReadTask(x)
  <2>1. c.up # <<>> BY <1>5, <1>8 DEF ReadTask
  <2>2. CASE slots[c.far].tasks >= MaxTasks
    <3>1. Put(x, [c EXCEPT !.up = Tail(c.up), !.server = c.server, !.down = Append(c.down, "busy")]) /\ UNCHANGED ran
      BY <1>8, <1>1, <2>2 DEF ReadTask, Rest, Conn, server
    <3> QED BY <1>4, <2>1, <3>1
  <2>3. CASE ~(slots[c.far].tasks >= MaxTasks)
    BY <1>8, <2>3, RunGoes DEF ReadTask
  <2> QED BY <2>2, <2>3
<1>9. CASE ReadSubReq(x) \/ ReadEvent(x)
  <2>1. c.use # "task"
    <3>1. c.up # <<>> /\ Head(c.up) \in {"sub_req", "event_emit"} BY <1>5, <1>9 DEF ReadSubReq, ReadEvent
    <3> QED BY <1>1, <3>1, HeadSays
  <2>2. PICK d : Put(x, d) /\ Goes(x, d) BY <1>9, ServerFollows DEF ServesOn, Follows
  <2>3. UNCHANGED ran BY <1>9 DEF ReadSubReq, ReadEvent, server
  <2> QED BY <2>1, <2>2, <2>3, QuietPut DEF Goes, Goings
<1> QED BY <1>2, <1>3, <1>6, <1>7, <1>8, <1>9 DEF ServesOn

\* A call dials, and nothing is known of its task.
LEMMA SendGoes ==
    ASSUME RecordsInv, NeverRetried, ServingInv, OnceInv, NEW k \in Calls, SendTask(k)
    PROVE  OnceInv' /\ Goings
<1>1. PICK x \in Free : Put(x, Dialled("task", Aim(k)[1], k, Aim(k)[2])) BY DEF SendTask
<1> DEFINE d == Dialled("task", Aim(k)[1], k, Aim(k)[2])
<1>2. /\ d.use = "task" /\ d.call = k /\ d.client = "dial" /\ ~d.work /\ d.down = <<>>
  BY DEF Dialled, Unused
<1>3. x \in Conns /\ conn[x].use = "none" BY DEF Free, ServingInv
<1>4. conn' = [conn EXCEPT ![x] = d]
  <2>1. Kept(d) = d BY <1>2 DEF Kept
  <2> QED BY <1>1, <2>1 DEF Put, Kept
<1> HIDE DEF d
<1>5. conn'[x] = d /\ \A y \in Conns : y # x => conn'[y] = conn[y] BY <1>3, <1>4 DEF ServingInv
<1>6. /\ call[k] = "idle" /\ call' = [call EXCEPT ![k] = "sent"] /\ UNCHANGED ran
  BY DEF SendTask, NeverRetried, Outcomes, server
<1>7. call'[k] = "sent" /\ \A j \in Calls : j # k => call'[j] = call[j] BY <1>6 DEF NeverRetried
<1>8. NotRun(k) BY <1>6 DEF OnceInv
<1>9. \A j \in Calls : (NotRun(j)' <=> NotRun(j)) /\ (RunOnce(j)' <=> RunOnce(j))
  BY <1>6 DEF NotRun, RunOnce
<1>10. \A y \in Conns : conn[y].use = "task" => conn[y].call \in Calls /\ conn[y].call # k
  BY <1>6 DEF OnceInv, Duty
<1>11. ASSUME NEW y \in Conns PROVE Duty(conn[y])'
  <2>1. CASE y = x
    <3>1. conn'[y].call = k /\ conn'[y].client = "dial" /\ ~conn'[y].work /\ conn'[y].down = <<>>
      BY <1>2, <1>5, <2>1
    <3>2. ~Answers(conn[y])' BY <3>1, OneFrame DEF Answers
    <3>3. NotRun(conn[y].call)' BY <1>6, <1>8, <3>1 DEF NotRun
    <3> QED BY <1>7, <3>1, <3>2, <3>3 DEF Duty
  <2>2. CASE y # x
    <3>1. Duty(conn[y]) /\ conn'[y] = conn[y] BY <1>5, <2>2 DEF OnceInv
    <3> QED BY <1>6, <1>7, <1>10, <3>1 DEF Duty, NotRun, RunOnce, Pending, Answers
  <2> QED BY <2>1, <2>2
<1>12. \A y, z \in Conns :
          conn'[y].use = "task" /\ conn'[z].use = "task" /\ conn'[y].call = conn'[z].call => y = z
  BY <1>2, <1>5, <1>10 DEF OnceInv
<1>13. OnceInv' BY <1>7, <1>9, <1>11, <1>12 DEF OnceInv
<1>14. CallGoesOn(k)
  <2>1. Told(k) = "nothing" /\ Told(k)' = "wait" BY <1>6, <1>7 DEF Told
  <2>2. \A j \in Calls : RanTimes(j)' = RanTimes(j) BY <1>6 DEF RanTimes
  <2>3. \A j \in Calls \ {k} : Told(j)' = Told(j) BY <1>7 DEF Told
  <2> QED BY <2>1, <2>2, <2>3 DEF CallGoesOn, Moves
<1> QED BY <1>13, <1>14 DEF Goings

LEMMA SendNowhereGoes ==
    ASSUME NeverRetried, OnceInv, NEW k \in Calls, SendTaskNowhere(k)
    PROVE  OnceInv' /\ Goings
<1>1. /\ call[k] = "idle" /\ call' = [call EXCEPT ![k] = "failed"] /\ UNCHANGED <<conn, ran>>
  BY DEF SendTaskNowhere, server
<1>2. call'[k] = "failed" /\ \A j \in Calls : j # k => call'[j] = call[j] BY <1>1 DEF NeverRetried
<1>3. \A j \in Calls : (NotRun(j)' <=> NotRun(j)) /\ (RunOnce(j)' <=> RunOnce(j))
  BY <1>1 DEF NotRun, RunOnce
<1>4. ASSUME NEW y \in Conns PROVE Duty(conn[y])'
  <2>1. Duty(conn[y]) BY DEF OnceInv
  <2>2. conn[y].use = "task" => conn[y].call \in Calls /\ conn[y].call # k BY <1>1, <2>1 DEF Duty
  <2> QED BY <1>1, <1>2, <2>1, <2>2 DEF Duty, NotRun, RunOnce, Pending, Answers
<1>5. OnceInv' BY <1>1, <1>2, <1>3, <1>4 DEF OnceInv
<1>6. CallGoesOn(k)
  <2>1. Told(k) = "nothing" /\ Told(k)' = "failed" BY <1>1, <1>2 DEF Told
  <2>2. \A j \in Calls : RanTimes(j)' = RanTimes(j) BY <1>1 DEF RanTimes
  <2>3. \A j \in Calls \ {k} : Told(j)' = Told(j) BY <1>2 DEF Told
  <2> QED BY <2>1, <2>2, <2>3 DEF CallGoesOn, Moves
<1> QED BY <1>5, <1>6 DEF Goings

LEMMA CallingGoes ==
    ASSUME RecordsInv, NeverRetried, ServingInv, OnceInv, ClientStep
    PROVE  OnceInv' /\ Goings
<1>1. ASSUME NEW i \in Instances, NEW use \in {"sub_req", "event_emit"}, SendFrame(i, use)
      PROVE  OnceInv' /\ Goings
  <2>1. PICK x \in Free : Put(x, Dialled(use, i, Nobody, book[i])) BY <1>1 DEF SendFrame
  <2>2. UNCHANGED <<call, ran>> BY <1>1 DEF SendFrame, server, client, caller
  <2>3. Dialled(use, i, Nobody, book[i]).use # "task" BY DEF Dialled, Unused
  <2>4. x \in Conns BY DEF Free, ServingInv
  <2> QED BY <2>1, <2>2, <2>3, <2>4, QuietPut DEF Goings
<1> QED
  BY <1>1, ConnectGoes, EndOfCallGoes, ReadHelloAckGoes, ProveGoes, SendGoes, SendNowhereGoes DEF ClientStep

\* What discovery dials, it dials for itself.
LEMMA DiscoveryGoes ==
    ASSUME RecordsInv, ServingInv, OnceInv, DiscoveryStep
    PROVE  OnceInv' /\ Goings
<1>1. UNCHANGED <<call, ran>>
  BY DEF DiscoveryStep, OnServiceUp, OnServiceHeartbeat, OnServiceDown, PruneStalePeers,
     Discover, RegisterReversePeer, caller, server
<1>2. ASSUME UNCHANGED conn PROVE OnceInv' /\ Goings
  BY <1>1, <1>2, QuietKeeps DEF Weaker, Goings
<1>3. ASSUME NEW i, NEW a, Ping(i, a) PROVE OnceInv' /\ Goings
  <2>1. ASSUME NEW x \in Free, Put(x, Dialled("ping", i, Nobody, a)) PROVE OnceInv' /\ Goings
    <3>1. Dialled("ping", i, Nobody, a).use # "task" BY DEF Dialled, Unused
    <3>2. x \in Conns BY DEF Free, ServingInv
    <3> QED BY <1>1, <2>1, <3>1, <3>2, QuietPut DEF Goings
  <2> QED BY <1>2, <1>3, <2>1 DEF Ping
<1>4. CASE Discover
  <2>1. PICK unknown : \E line \in [unknown -> Free] :
              conn' = [x \in Conns |->
                         IF \E i \in unknown : line[i] = x
                         THEN LET i == CHOOSE j \in unknown : line[j] = x
                              IN Dialled("probe", i, Nobody, book[i])
                         ELSE conn[x]]
    BY <1>4 DEF Discover
  <2>2. \A i, a : Dialled("probe", i, Nobody, a).use # "task" BY DEF Dialled, Unused
  <2>3. \A y \in Conns : conn'[y].use # "task" \/ conn'[y] = conn[y] BY <2>1, <2>2
  <2> QED BY <1>1, <2>3, QuietKeeps DEF Weaker, Goings
<1> QED
  BY <1>2, <1>3, <1>4 DEF DiscoveryStep, OnServiceUp, OnServiceHeartbeat, OnServiceDown, PruneStalePeers,
     RegisterReversePeer

LEMMA EnvironmentGoes ==
    ASSUME ServingInv, OnceInv, Environment
    PROVE  OnceInv' /\ Goings
<1>1. UNCHANGED <<call, ran>>
  BY DEF Environment, Start, Announce, Leave, End, Move, Cut, Lose, quiet, client, caller, server
<1>2. ASSUME UNCHANGED conn PROVE OnceInv' /\ Goings
  BY <1>1, <1>2, QuietKeeps DEF Weaker, Goings
<1>3. ASSUME NEW c \in Conn PROVE Weaker(c, Dropped(c))
  <2>1. /\ Dropped(c).use = c.use /\ Dropped(c).call = c.call /\ Dropped(c).client = c.client
        /\ Dropped(c).work = c.work /\ Dropped(c).up = <<>> /\ Dropped(c).down = <<>>
    BY <1>3 DEF Dropped, Conn
  <2> QED BY <2>1, OneFrame DEF Weaker, Pending, Answers
<1>4. ASSUME NEW i \in Instances, End(i) PROVE OnceInv' /\ Goings
  <2>1. ASSUME NEW y \in Conns PROVE conn'[y].use # "task" \/ Weaker(conn[y], conn'[y])
    <3>1. conn[y] \in Conn BY FarIsThere
    <3> DEFINE d == [conn[y] EXCEPT !.server = "closed", !.up = <<>>, !.work = FALSE]
    <3>2. /\ d.use = conn[y].use /\ d.call = conn[y].call /\ d.client = conn[y].client
          /\ ~d.work /\ d.up = <<>> /\ d.down = conn[y].down
      BY <3>1 DEF Conn
    <3>3. conn'[y] \in {conn[y], Unused, d} BY <1>4 DEF End
    <3> HIDE DEF d
    <3>4. Weaker(conn[y], d) BY <3>2 DEF Weaker, Pending, Answers
    <3>5. Unused.use # "task" /\ Weaker(conn[y], conn[y]) BY DEF Unused, Weaker
    <3> QED BY <3>3, <3>4, <3>5
  <2> QED BY <1>1, <2>1, QuietKeeps DEF Goings
<1>5. ASSUME NEW i \in Instances, NEW a \in Addresses, Move(i, a) PROVE OnceInv' /\ Goings
  <2>1. ASSUME NEW y \in Conns PROVE Weaker(conn[y], conn'[y])
    <3>1. conn'[y] \in {conn[y], Dropped(conn[y])} BY <1>5 DEF Move, Dropped
    <3>2. Weaker(conn[y], conn[y]) BY DEF Weaker
    <3>3. Weaker(conn[y], Dropped(conn[y])) BY <1>3, FarIsThere
    <3> QED BY <3>1, <3>2, <3>3
  <2> QED BY <1>1, <2>1, QuietKeeps DEF Goings
<1>6. ASSUME NEW x \in Conns, Cut(x) PROVE OnceInv' /\ Goings
  <2>1. Put(x, Dropped(conn[x])) BY <1>6 DEF Cut, Dropped
  <2>2. Weaker(conn[x], Dropped(conn[x])) BY <1>3, FarIsThere
  <2> QED BY <1>1, <2>1, <2>2, QuietPut DEF Goings
<1> QED BY <1>2, <1>4, <1>5, <1>6 DEF Environment, Start, Announce, Leave, Lose, lan

-----------------------------------------------------------------------------
\* What the abstract task of a call is told, and how often it runs.
ToldAll == [k \in Calls \cup WanCalls |-> IF k \in Calls THEN Told(k) ELSE WanTold(k)]
RunsAll == [k \in Calls \cup WanCalls |-> IF k \in Calls THEN RanTimes(k) ELSE handled[k]]

LEMMA TaskStep ==
    ASSUME NEW k \in Calls \cup WanCalls,
           Moves(ToldAll[k], RunsAll[k], ToldAll'[k], RunsAll'[k]),
           \A j \in (Calls \cup WanCalls) \ {k} : ToldAll'[j] = ToldAll[j] /\ RunsAll'[j] = RunsAll[j]
    PROVE  [OneTask!Next]_(OneTask!vars)
<1> DEFINE S == Calls \cup WanCalls
<1>1. /\ ToldAll = [j \in S |-> ToldAll[j]] /\ ToldAll' = [j \in S |-> ToldAll'[j]]
      /\ RunsAll = [j \in S |-> RunsAll[j]] /\ RunsAll' = [j \in S |-> RunsAll'[j]]
  BY DEF ToldAll, RunsAll
<1>2. /\ ToldAll' = [ToldAll EXCEPT ![k] = ToldAll'[k]]
      /\ RunsAll' = [RunsAll EXCEPT ![k] = RunsAll'[k]]
  BY <1>1
<1>3. ToldAll'[k] = ToldAll[k] => UNCHANGED ToldAll
  BY <1>1, <1>2
<1>4. RunsAll'[k] = RunsAll[k] => UNCHANGED RunsAll
  BY <1>1, <1>2
<1>5. /\ OneTask!vars = <<ToldAll, RunsAll>>
      /\ OneTask!Call(k) <=> /\ ToldAll[k] = "nothing" /\ ToldAll' = [ToldAll EXCEPT ![k] = "wait"]
                              /\ UNCHANGED RunsAll
      /\ OneTask!Run(k) <=> /\ ToldAll[k] \in {"wait", "failed"} /\ RunsAll[k] = 0
                             /\ RunsAll' = [RunsAll EXCEPT ![k] = 1] /\ UNCHANGED ToldAll
      /\ OneTask!Succeed(k) <=> /\ ToldAll[k] = "wait" /\ RunsAll[k] = 1
                                 /\ ToldAll' = [ToldAll EXCEPT ![k] = "ok"] /\ UNCHANGED RunsAll
      /\ OneTask!Fail(k) <=> /\ ToldAll[k] \in {"nothing", "wait"}
                              /\ ToldAll' = [ToldAll EXCEPT ![k] = "failed"] /\ UNCHANGED RunsAll
  BY DEF OneTask!vars, OneTask!Call, OneTask!Run, OneTask!Succeed, OneTask!Fail, ToldAll, RunsAll
<1>6. OneTask!Next <=> \E j \in S : OneTask!Call(j) \/ OneTask!Run(j) \/ OneTask!Succeed(j) \/ OneTask!Fail(j)
  BY DEF OneTask!Next
<1>7. CASE ToldAll[k] = ToldAll'[k] /\ RunsAll[k] = RunsAll'[k]
  <2>1. UNCHANGED <<ToldAll, RunsAll>> BY <1>3, <1>4, <1>7
  <2> QED BY <2>1 DEF OneTask!vars, ToldAll, RunsAll
<1>8. CASE ToldAll[k] = "nothing" /\ ToldAll'[k] = "wait" /\ RunsAll[k] = RunsAll'[k]
  <2>1. OneTask!Call(k) BY <1>2, <1>4, <1>5, <1>8
  <2> QED BY <1>6, <2>1
<1>9. CASE ToldAll[k] \in {"wait", "failed"} /\ ToldAll'[k] = ToldAll[k] /\ RunsAll[k] = 0 /\ RunsAll'[k] = 1
  <2>1. OneTask!Run(k) BY <1>2, <1>3, <1>5, <1>9
  <2> QED BY <1>6, <2>1
<1>10. CASE ToldAll[k] = "wait" /\ ToldAll'[k] = "ok" /\ RunsAll[k] = 1 /\ RunsAll'[k] = 1
  <2>1. OneTask!Succeed(k) BY <1>2, <1>4, <1>5, <1>10
  <2> QED BY <1>6, <2>1
<1>11. CASE ToldAll[k] \in {"nothing", "wait"} /\ ToldAll'[k] = "failed" /\ RunsAll[k] = RunsAll'[k]
  <2>1. OneTask!Fail(k) BY <1>2, <1>4, <1>5, <1>11
  <2> QED BY <1>6, <2>1
<1> QED BY <1>7, <1>8, <1>9, <1>10, <1>11 DEF Moves

\* Where nothing changes for any task, nothing changes.
LEMMA NoTaskMoves ==
    ASSUME \A k \in Calls \cup WanCalls : ToldAll'[k] = ToldAll[k] /\ RunsAll'[k] = RunsAll[k]
    PROVE  UNCHANGED OneTask!vars
<1>1. UNCHANGED <<ToldAll, RunsAll>>
  BY DEF ToldAll, RunsAll
<1> QED BY <1>1 DEF OneTask!vars, ToldAll, RunsAll

\* A step of one call, or of one stream, is a step of its abstract task.
LEMMA CallStep ==
    ASSUME Goings, UNCHANGED wan
    PROVE  [OneTask!Next]_(OneTask!vars)
<1>1. /\ \A k \in Calls : /\ ToldAll[k] = Told(k) /\ ToldAll'[k] = Told(k)'
                          /\ RunsAll[k] = RanTimes(k) /\ RunsAll'[k] = RanTimes(k)'
      /\ \A c \in WanCalls \ Calls : ToldAll'[c] = ToldAll[c] /\ RunsAll'[c] = RunsAll[c]
  BY DEF ToldAll, RunsAll, WanTold, wan
<1>2. CASE Quiet
  <2>1. \A k \in Calls \cup WanCalls : ToldAll'[k] = ToldAll[k] /\ RunsAll'[k] = RunsAll[k]
    BY <1>1, <1>2 DEF Quiet
  <2> QED BY <2>1, NoTaskMoves
<1>3. ASSUME NEW k \in Calls, CallGoesOn(k) PROVE [OneTask!Next]_(OneTask!vars)
  <2>1. Moves(ToldAll[k], RunsAll[k], ToldAll'[k], RunsAll'[k]) BY <1>1, <1>3 DEF CallGoesOn
  <2>2. \A j \in (Calls \cup WanCalls) \ {k} : ToldAll'[j] = ToldAll[j] /\ RunsAll'[j] = RunsAll[j]
    BY <1>1, <1>3 DEF CallGoesOn
  <2> QED BY <2>1, <2>2, TaskStep
<1> QED BY <1>2, <1>3 DEF Goings

LEMMA StreamsStep ==
    ASSUME WanInv, WanStep, UNCHANGED <<call, ran>>
    PROVE  [OneTask!Next]_(OneTask!vars)
<1>1. /\ \A k \in Calls : ToldAll'[k] = ToldAll[k] /\ RunsAll'[k] = RunsAll[k]
      /\ \A c \in WanCalls \ Calls : /\ ToldAll[c] = WanTold(c) /\ ToldAll'[c] = WanTold(c)'
                                     /\ RunsAll[c] = handled[c] /\ RunsAll'[c] = handled'[c]
  <2>1. \A k \in Calls : Told(k)' = Told(k) /\ RanTimes(k)' = RanTimes(k) BY DEF Told, RanTimes
  <2> QED BY <2>1 DEF ToldAll, RunsAll
<1>2. ASSUME \A c \in WanCalls \ Calls : WanTold(c)' = WanTold(c) /\ handled'[c] = handled[c]
      PROVE  [OneTask!Next]_(OneTask!vars)
  <2>1. \A k \in Calls \cup WanCalls : ToldAll'[k] = ToldAll[k] /\ RunsAll'[k] = RunsAll[k]
    BY <1>1, <1>2
  <2> QED BY <2>1, NoTaskMoves
<1>3. ASSUME NEW c \in WanCalls, GoesOn(c) PROVE [OneTask!Next]_(OneTask!vars)
  <2>1. CASE c \in Calls BY <1>2, <1>3, <2>1 DEF GoesOn
  <2>2. CASE c \notin Calls
    <3>1. Moves(ToldAll[c], RunsAll[c], ToldAll'[c], RunsAll'[c]) BY <1>1, <1>3, <2>2 DEF GoesOn
    <3>2. \A j \in (Calls \cup WanCalls) \ {c} : ToldAll'[j] = ToldAll[j] /\ RunsAll'[j] = RunsAll[j]
      BY <1>1, <1>3 DEF GoesOn
    <3> QED BY <3>1, <3>2, TaskStep
  <2> QED BY <2>1, <2>2
<1> QED BY <1>2, <1>3, WanMoves

LEMMA OnceStep ==
    ASSUME RecordsInv, NeverRetried, ServingInv, OnceInv, WanInv, [Next]_vars
    PROVE  OnceInv' /\ WanInv' /\ [OneTask!Next]_(OneTask!vars)
<1>1. ASSUME OnceInv', Goings, UNCHANGED wan
      PROVE  OnceInv' /\ WanInv' /\ [OneTask!Next]_(OneTask!vars)
  <2>1. WanInv' BY <1>1 DEF WanInv, wan
  <2> QED BY <1>1, <2>1, CallStep
<1>2. ASSUME UNCHANGED <<conn, call, ran>> PROVE OnceInv' /\ Goings
  BY <1>2, QuietKeeps DEF Weaker, Goings
<1>3. CASE OnLan(Environment) BY <1>1, <1>3, EnvironmentGoes DEF OnLan
<1>4. CASE OnLan(Serving)
  <2>1. PICK x \in Conns : ServesOn(x) BY <1>4 DEF OnLan, Serving, ServerStep, ServesOn
  <2>2. UNCHANGED <<call, wan>> BY <1>4 DEF OnLan, Serving, quiet, client, caller
  <2> QED BY <1>1, <2>1, <2>2, ServerGoes
<1>5. CASE OnLan(Calling) BY <1>1, <1>5, CallingGoes DEF OnLan, Calling
<1>6. CASE OnLan(DiscoveryStep) BY <1>1, <1>6, DiscoveryGoes DEF OnLan
<1>7. CASE OnWan(WanStep)
  <2>1. WanStep /\ UNCHANGED <<conn, call, ran>> BY <1>7 DEF OnWan, server, client, caller
  <2> QED BY <1>2, <2>1, WanMoves, StreamsStep
<1>8. CASE UNCHANGED vars
  <2>1. UNCHANGED <<conn, call, ran, wan>> BY <1>8 DEF vars, server, client, caller
  <2> QED BY <1>1, <1>2, <2>1
<1> QED BY <1>3, <1>4, <1>5, <1>6, <1>7, <1>8 DEF Next, OnLan

LEMMA OnceInit ==
    ASSUME Init
    PROVE  OnceInv /\ WanInv /\ OneTask!Init
<1>1. WanInv BY WanBegins DEF Init
<1>2. /\ \A x \in Conns : conn[x] = Unused
      /\ \A k \in Calls : call[k] = "idle" /\ NotRun(k)
      /\ ran \in [Calls -> [Instances -> Nat]]
  BY DEF Init, InitWire, InitServer, InitClient, NotRun
<1>3. OnceInv BY <1>2 DEF OnceInv, Duty, Unused
<1>4. \A k \in Calls : Told(k) = "nothing" /\ RanTimes(k) = 0 BY <1>2, Ran DEF Told
<1>5. \A c \in WanCalls : WanTold(c) = "nothing" /\ handled[c] = 0
  BY DEF Init, InitWan, NoStream, WanTold
<1>6. OneTask!Init BY <1>4, <1>5 DEF OneTask!Init
<1> QED BY <1>1, <1>3, <1>6

\* Over both transports a task runs at one instance at the most and there once, a
\* caller that is told "ok" has had it run, and what a caller was told never changes:
\* whatever ends first of connection, peer, handler and deadline (sendTask of
\* NetworkLightProvider and of Libp2pProvider).
THEOREM BothRunAtMostOnce == Spec => OneTask!Safety
<1>1. Init => OnceInv /\ WanInv /\ OneTask!Init BY OnceInit
<1>2. RecordsInv /\ NeverRetried /\ ServingInv /\ OnceInv /\ WanInv /\ [Next]_vars
         => OnceInv' /\ WanInv' /\ [OneTask!Next]_(OneTask!vars)
  BY OnceStep
<1> QED BY <1>1, <1>2, ServingIsKept, PTL DEF Spec, OneTask!Safety

=============================================================================
