--------------------------- MODULE DesktopProofs ----------------------------
(* What goes on around one data directory, for any number of processes.       *)
(* Where file-lock.ts keeps its promise: one call per process (the write      *)
(* queue's shape), owners faster than staleAfterMs, releases that succeed,    *)
(* and either no process dies or at most two calls exist: then a live lock is *)
(* never stolen and FileLock implements Mutex; three callers and a crash are  *)
(* enough to steal one.                                                       *)
(* For any number of desktop apps and process ids: a data directory has one   *)
(* server at a time unless two were inside the guard at once, and every       *)
(* server has an app that will stop it unless its app died.                   *)
(* And for any number of calls on the documents in it: none undoes what       *)
(* another did, within the project of the tasks plugin or to another document *)
(* of one file, what is stored is whole, and the work of a project stays in   *)
(* order.                                                                     *)
EXTENDS FileLock, Launch, Tasks, FiniteSetTheorems, TLAPS


SafeInstance ==
    /\ ~Slow /\ ~UnlinkFails
    /\ \A c, d \in Callers : ProcOf[c] = ProcOf[d] => c = d
    /\ Crashable = {} \/ \A c, d, e \in Callers : c = d \/ d = e \/ c = e

(* The file on disk belongs to a call that is creating, holding or releasing *)
(* it, or to a dead one; a call about to steal is the only one left.         *)
FileHasOwner == lockFile # NoFile => pc[lockFile.creator] \in Owning \cup {"dead"}

OwnerHasFile ==
    \A c \in Callers : pc[c] \in Owning => lockFile # NoFile /\ lockFile.creator = c

OldIsDead == lockFile # NoFile /\ lockFile.old => pc[lockFile.creator] = "dead"

DeadIsDead ==
    \A c \in Callers : /\ pc[c] = "dead" <=> ProcOf[c] \notin alive
                       /\ pc[c] = "dead" => ProcOf[c] \in Crashable

NoReentry ==
    /\ \A p \in held : \E c \in Callers : ProcOf[c] = p /\ pc[c] \in {"crit", "inner"}
    /\ \A c \in Callers : pc[c] # "nested"

StealerIsAlone ==
    \A c, d \in Callers : pc[c] = "unlink" /\ c # d => pc[d] = "dead"

IInv ==
    /\ TypeOK
    /\ FileHasOwner
    /\ OwnerHasFile
    /\ OldIsDead
    /\ DeadIsDead
    /\ NoReentry
    /\ StealerIsAlone

-----------------------------------------------------------------------------
(* Every variable of every behaviour keeps its type: the shape of the lock   *)
(* file, heldLocks, the live pids and the program counters.                  *)
THEOREM TypeCorrect == Spec => []TypeOK
<1> USE LockAssumption
<1>1. Init => TypeOK
  BY DEF Init, TypeOK, PcValues
<1>2. TypeOK /\ [Next]_vars => TypeOK'
  <2> SUFFICES ASSUME TypeOK, [Next]_vars PROVE TypeOK'
    OBVIOUS
  <2> USE DEF TypeOK, PcValues, Goto
  <2>1. ASSUME NEW c \in Callers, Perhaps(c)
        PROVE  TypeOK'
    BY <2>1 DEF Perhaps, Start, Reenter, OpenRefused, CreateFails, Throws
  <2>2. ASSUME NEW c \in Callers, Judge(c) PROVE TypeOK'
    BY <2>2 DEF Judge, ReadOwner, StatAge, StealUnlink
  <2>3. ASSUME NEW c \in Callers, OpenExclusive(c) PROVE TypeOK'
    <3>1. CASE lockFile = NoFile
      <4>1. lockFile' = File(c) /\ File(c) \in [creator : Callers, payload : BOOLEAN, old : BOOLEAN]
        BY <2>3, <3>1 DEF OpenExclusive, File
      <4>2. QED
        BY <2>3, <3>1, <4>1 DEF OpenExclusive
    <3>2. CASE lockFile # NoFile
      BY <2>3, <3>2 DEF OpenExclusive
    <3>3. QED
      BY <3>1, <3>2
  <2>4. ASSUME NEW c \in Callers, WritePayload(c) PROVE TypeOK'
    BY <2>4 DEF WritePayload
  <2>5. ASSUME NEW c \in Callers, EnterSection(c) PROVE TypeOK'
    BY <2>5 DEF EnterSection
  <2>6. ASSUME NEW c \in Callers,
               PollOrTimeout(c) \/ LeaveInner(c) \/ LeaveSection(c) \/ OwnUnlink(c)
        PROVE  TypeOK'
    BY <2>6 DEF PollOrTimeout, LeaveInner, LeaveSection, OwnUnlink
  <2>7. ASSUME NEW p \in Procs, Crash(p) PROVE TypeOK'
    BY <2>7 DEF Crash
  <2>8. CASE AgeOut
    BY <2>8 DEF AgeOut
  <2>9. CASE UNCHANGED vars
    BY <2>9 DEF vars
  <2>10. QED
    BY <2>1, <2>2, <2>3, <2>4, <2>5, <2>6, <2>7, <2>8, <2>9 DEF Next, Step, Create
<1>3. QED
  BY <1>1, <1>2, PTL DEF Spec

-----------------------------------------------------------------------------
LEMMA InitIInv == Init => IInv
  BY LockAssumption
  DEF Init, IInv, TypeOK, PcValues, FileHasOwner, OwnerHasFile, OldIsDead,
      DeadIsDead, NoReentry, StealerIsAlone, Owning

\* Steps of a call that never touch the disk: judging, waiting, starting.
LEMMA QuietStep ==
  ASSUME SafeInstance, IInv, TypeOK', NEW c \in Callers,
         \/ Start(c) \/ OpenRefused(c) \/ ReadOwner(c) \/ StatAge(c)
         \/ PollOrTimeout(c) \/ Throws(c) \/ (OpenExclusive(c) /\ lockFile # NoFile)
  PROVE  IInv'
<1> USE LockAssumption
<1> USE DEF SafeInstance, IInv, TypeOK, PcValues, Owning, Goto
<1> DEFINE where == pc'[c]
<1>1. /\ UNCHANGED <<lockFile, held, alive>>
      /\ pc' = [pc EXCEPT ![c] = where]
      /\ pc[c] \in {"idle", "try", "stale", "age", "unlink", "wait"}
      /\ where \in {"idle", "try", "stale", "age", "wait", "unlink"}
  BY DEF Start, OpenRefused, ReadOwner, StatAge, PollOrTimeout, Throws, OpenExclusive,
         NoReentry
<1>2. where = "unlink" => lockFile # NoFile /\ pc[lockFile.creator] = "dead"
  BY DEF Start, OpenRefused, ReadOwner, StatAge, PollOrTimeout, Throws, OpenExclusive,
         DeadIsDead, OldIsDead
<1>3. where = "unlink" => \A d \in Callers : c # d => pc[d] = "dead"
  <2> SUFFICES ASSUME where = "unlink", NEW d \in Callers, c # d
               PROVE  pc[d] = "dead"
    OBVIOUS
  <2>1. lockFile.creator \in Callers /\ pc[lockFile.creator] = "dead"
    BY <1>2
  <2>2. Crashable # {}
    BY <2>1 DEF DeadIsDead
  <2>3. lockFile.creator = d
    BY <1>1, <2>1, <2>2
  <2>4. QED
    BY <2>1, <2>3
<1>4. (FileHasOwner /\ OwnerHasFile /\ OldIsDead)'
  BY <1>1 DEF FileHasOwner, OwnerHasFile, OldIsDead
<1>5. (DeadIsDead /\ NoReentry)'
  BY <1>1 DEF DeadIsDead, NoReentry
<1>6. StealerIsAlone'
  BY <1>1, <1>3 DEF StealerIsAlone
<1>7. QED
  BY <1>4, <1>5, <1>6

\* Steps of the owner between its create and its unlink.
LEMMA OwnerStep ==
  ASSUME SafeInstance, IInv, TypeOK', NEW c \in Callers,
         \/ WritePayload(c) \/ CreateFails(c) \/ EnterSection(c)
         \/ Reenter(c) \/ LeaveInner(c) \/ LeaveSection(c)
  PROVE  IInv'
<1> USE LockAssumption
<1> USE DEF SafeInstance, IInv, TypeOK, PcValues, Owning, Goto
<1>1. /\ pc[c] \in Owning
      /\ pc' = [pc EXCEPT ![c] = pc'[c]]
      /\ pc'[c] \in {"close", "cleanup", "crit", "inner", "release"}
      /\ alive' = alive
  BY DEF WritePayload, CreateFails, EnterSection, Reenter, LeaveInner, LeaveSection, NoReentry
<1>2. /\ lockFile # NoFile /\ lockFile.creator = c
      /\ lockFile' # NoFile /\ lockFile'.creator = c /\ lockFile'.old = lockFile.old
  <2>1. lockFile # NoFile /\ lockFile.creator = c
    BY <1>1 DEF OwnerHasFile
  <2>2. lockFile \in [creator : Callers, payload : BOOLEAN, old : BOOLEAN]
    BY <2>1
  <2>3. \/ lockFile' = lockFile
        \/ lockFile' = [lockFile EXCEPT !.payload = TRUE]
    BY <2>1 DEF WritePayload, CreateFails, EnterSection, Reenter, LeaveInner, LeaveSection
  <2>4. [lockFile EXCEPT !.payload = TRUE]
          \in [creator : Callers, payload : BOOLEAN, old : BOOLEAN]
    BY <2>2
  <2>5. QED
    BY <2>1, <2>2, <2>3, <2>4
<1>3. (FileHasOwner /\ OwnerHasFile /\ OldIsDead)'
  BY <1>1, <1>2 DEF FileHasOwner, OwnerHasFile, OldIsDead
<1>4. (DeadIsDead /\ StealerIsAlone)'
  BY <1>1 DEF DeadIsDead, StealerIsAlone
<1>5. NoReentry'
  <2>1. CASE EnterSection(c)
    BY <1>1, <2>1 DEF EnterSection, NoReentry
  <2>2. CASE LeaveSection(c)
    BY <1>1, <2>2 DEF LeaveSection, NoReentry
  <2>3. CASE WritePayload(c) \/ CreateFails(c) \/ Reenter(c) \/ LeaveInner(c)
    BY <1>1, <2>3 DEF WritePayload, CreateFails, Reenter, LeaveInner, NoReentry
  <2>4. QED
    BY <2>1, <2>2, <2>3
<1>6. QED
  BY <1>3, <1>4, <1>5

\* The O_EXCL create, and the two unlinks: the owner's and the stealer's.
LEMMA FileStep ==
  ASSUME SafeInstance, IInv, TypeOK', NEW c \in Callers,
         (OpenExclusive(c) /\ lockFile = NoFile) \/ OwnUnlink(c) \/ StealUnlink(c)
  PROVE  IInv'
<1> USE LockAssumption
<1> USE DEF SafeInstance, IInv, TypeOK, PcValues, Owning, Goto
<1>1. CASE OpenExclusive(c) /\ lockFile = NoFile
  <2>a. File(c) \in [creator : Callers, payload : BOOLEAN, old : BOOLEAN]
    BY DEF File
  <2>b. lockFile' = File(c) /\ File(c).creator = c /\ ~File(c).old
    BY <1>1 DEF OpenExclusive, File
  <2>1. /\ pc[c] = "try"
        /\ pc' = [pc EXCEPT ![c] = "write"]
        /\ UNCHANGED <<held, alive>>
        /\ lockFile' # NoFile /\ lockFile'.creator = c /\ ~lockFile'.old
    BY <1>1, <2>a, <2>b DEF OpenExclusive
  <2>2. (FileHasOwner /\ OwnerHasFile /\ OldIsDead)'
    BY <1>1, <2>1 DEF FileHasOwner, OwnerHasFile, OldIsDead
  <2>3. (DeadIsDead /\ NoReentry /\ StealerIsAlone)'
    BY <2>1 DEF DeadIsDead, NoReentry, StealerIsAlone
  <2>4. QED
    BY <2>2, <2>3
<1>2. CASE OwnUnlink(c)
  <2>1. /\ pc[c] \in {"release", "cleanup"}
        /\ pc' = [pc EXCEPT ![c] = "idle"]
        /\ UNCHANGED <<held, alive>>
        /\ lockFile' = NoFile
    BY <1>2 DEF OwnUnlink
  <2>2. (FileHasOwner /\ OwnerHasFile /\ OldIsDead)'
    BY <2>1 DEF FileHasOwner, OwnerHasFile, OldIsDead
  <2>3. (DeadIsDead /\ NoReentry /\ StealerIsAlone)'
    BY <2>1 DEF DeadIsDead, NoReentry, StealerIsAlone
  <2>4. QED
    BY <2>2, <2>3
<1>3. CASE StealUnlink(c)
  <2>1. /\ pc[c] = "unlink"
        /\ pc' = [pc EXCEPT ![c] = "wait"]
        /\ UNCHANGED <<held, alive>>
        /\ lockFile' = NoFile
    BY <1>3 DEF StealUnlink
  <2>2. \A d \in Callers : d # c => pc[d] = "dead"
    BY <2>1 DEF StealerIsAlone
  <2>3. (FileHasOwner /\ OwnerHasFile /\ OldIsDead)'
    BY <2>1, <2>2 DEF FileHasOwner, OwnerHasFile, OldIsDead
  <2>4. (DeadIsDead /\ NoReentry /\ StealerIsAlone)'
    BY <2>1 DEF DeadIsDead, NoReentry, StealerIsAlone
  <2>5. QED
    BY <2>3, <2>4
<1>4. QED
  BY <1>1, <1>2, <1>3

LEMMA CrashStep ==
  ASSUME SafeInstance, IInv, TypeOK', NEW p \in Procs, Crash(p)
  PROVE  IInv'
<1> USE LockAssumption
<1> USE DEF SafeInstance, IInv, TypeOK, PcValues, Owning
<1>1. /\ p \in Crashable /\ p \in alive
      /\ alive' = alive \ {p} /\ held' = held \ {p}
      /\ lockFile' = lockFile
      /\ \A c \in Callers : pc'[c] = IF ProcOf[c] = p THEN "dead" ELSE pc[c]
  BY DEF Crash
<1>2. (FileHasOwner /\ OwnerHasFile /\ OldIsDead)'
  BY <1>1 DEF FileHasOwner, OwnerHasFile, OldIsDead
<1>3. DeadIsDead'
  BY <1>1 DEF DeadIsDead
<1>4. NoReentry'
  BY <1>1 DEF NoReentry
<1>5. StealerIsAlone'
  BY <1>1 DEF StealerIsAlone
<1>6. QED
  BY <1>2, <1>3, <1>4, <1>5

LEMMA AgeStep ==
  ASSUME SafeInstance, IInv, TypeOK', AgeOut
  PROVE  IInv'
<1> USE DEF SafeInstance, IInv, TypeOK, PcValues, Owning
<1>1. /\ lockFile # NoFile /\ pc[lockFile.creator] = "dead"
      /\ lockFile \in [creator : Callers, payload : BOOLEAN, old : BOOLEAN]
      /\ UNCHANGED <<held, alive, pc>>
  BY DEF AgeOut, FileHasOwner
<1>2. lockFile' # NoFile /\ lockFile'.creator = lockFile.creator
  <2>1. [lockFile EXCEPT !.old = TRUE]
          \in [creator : Callers, payload : BOOLEAN, old : BOOLEAN]
    BY <1>1
  <2>2. lockFile' = [lockFile EXCEPT !.old = TRUE]
    BY DEF AgeOut
  <2>3. QED
    BY <1>1, <2>1, <2>2, LockAssumption
<1>3. (FileHasOwner /\ OwnerHasFile /\ OldIsDead)'
  BY <1>1, <1>2 DEF FileHasOwner, OwnerHasFile, OldIsDead
<1>4. (DeadIsDead /\ NoReentry /\ StealerIsAlone)'
  BY <1>1 DEF DeadIsDead, NoReentry, StealerIsAlone
<1>5. QED
  BY <1>3, <1>4

LEMMA NextIInv ==
  ASSUME SafeInstance, IInv, TypeOK', [Next]_vars
  PROVE  IInv'
<1>1. ASSUME NEW c \in Callers, Step(c) \/ Perhaps(c)
      PROVE  IInv'
  BY <1>1, QuietStep, OwnerStep, FileStep DEF Step, Perhaps, Judge, Create
<1>2. ASSUME NEW p \in Procs, Crash(p) PROVE IInv'
  BY <1>2, CrashStep
<1>3. CASE AgeOut
  BY <1>3, AgeStep
<1>4. CASE UNCHANGED vars
  BY <1>4 DEF vars, IInv, TypeOK, FileHasOwner, OwnerHasFile, OldIsDead,
              DeadIsDead, NoReentry, StealerIsAlone
<1>5. QED
  BY <1>1, <1>2, <1>3, <1>4 DEF Next

\* The inductive invariant behind the theorems below.
LEMMA Invariance == SafeInstance /\ Spec => []IInv
<1>1. SafeInstance /\ IInv /\ TypeOK' /\ [Next]_vars => IInv'
  BY NextIInv
<1>2. Spec => []TypeOK /\ [][Next]_vars
  BY TypeCorrect, PTL DEF Spec
<1>3. SafeInstance => []SafeInstance
  <2>1. SafeInstance /\ [TRUE]_vars => SafeInstance'
    BY DEF SafeInstance
  <2>2. QED
    BY <2>1, PTL
<1>4. QED
  BY <1>1, <1>2, <1>3, InitIInv, PTL DEF Spec

-----------------------------------------------------------------------------
(* Two callbacks that run at once are in one process: the lock of            *)
(* withFileLock excludes every other process.                                *)
THEOREM Exclusion == SafeInstance /\ Spec => []MutualExclusion
<1>1. IInv => MutualExclusion
  BY DEF IInv, OwnerHasFile, NoReentry, MutualExclusion, InSection, Owning
<1>2. QED
  BY <1>1, Invariance, PTL

(* The callback that runs under the lock has its own lock file on disk.      *)
THEOREM HolderHasFile == SafeInstance /\ Spec => []HolderOwnsFile
<1>1. IInv => HolderOwnsFile
  BY DEF IInv, OwnerHasFile, HolderOwnsFile, Owning
<1>2. QED
  BY <1>1, Invariance, PTL

(* From its create to the end of its callback, no step of any process        *)
(* removes a live owner's file (the steal of tryAcquire, another's release). *)
THEOREM NeverStolen == SafeInstance /\ Spec => LiveLockNeverStolen
<1>1. ASSUME IInv, IInv', [Next]_vars, NEW c \in Callers,
             lockFile # NoFile, lockFile.creator = c,
             pc[c] \in {"write", "close", "crit", "inner"}
      PROVE  lockFile' # NoFile /\ lockFile'.creator = c
  <2> USE DEF IInv, TypeOK, Owning
  <2>1. CASE pc'[c] \in Owning
    BY <1>1, <2>1 DEF OwnerHasFile
  <2>2. CASE pc'[c] \notin Owning
    <3>1. ASSUME NEW d \in Callers, Step(d) \/ Perhaps(d)
          PROVE  FALSE
      <4> USE DEF PcValues, Goto
      <4>1. CASE d = c
        BY <1>1, <2>2, <3>1, <4>1 DEF Perhaps, Start, Reenter, Throws, LeaveInner, Step, OpenRefused,
          CreateFails, Judge,
          Create, ReadOwner, StatAge, StealUnlink, OpenExclusive, WritePayload,
          EnterSection, PollOrTimeout, LeaveSection, OwnUnlink
      <4>2. CASE d # c
        <5>1. pc' = [pc EXCEPT ![d] = pc'[d]]
          BY <3>1 DEF Perhaps, Start, Reenter, Throws, LeaveInner, Step, OpenRefused,
          CreateFails, Judge,
            Create, ReadOwner, StatAge, StealUnlink, OpenExclusive, WritePayload,
            EnterSection, PollOrTimeout, LeaveSection, OwnUnlink
        <5>2. pc'[c] = pc[c]
          BY <1>1, <4>2, <5>1
        <5>3. QED
          BY <1>1, <2>2, <5>2
      <4>3. QED
        BY <4>1, <4>2
    <3>2. lockFile' = lockFile
      BY <1>1, <2>2, <3>1 DEF Next, Crash, AgeOut, vars
    <3>3. QED
      BY <1>1, <3>2
  <2>3. QED
    BY <2>1, <2>2
<1>2. IInv /\ IInv' /\ [Next]_vars =>
        [\A c \in Callers :
          /\ lockFile # NoFile
          /\ lockFile.creator = c
          /\ pc[c] \in {"write", "close", "crit", "inner"}
          => lockFile' # NoFile /\ lockFile'.creator = c]_vars
  BY <1>1
<1>3. QED
  BY <1>2, Invariance, PTL DEF LiveLockNeverStolen, Spec

LEMMA InsideStep ==
  ASSUME IInv, IInv', [Next]_vars
  PROVE  [Lock!Next]_({ProcOf[c] : c \in {d \in Callers : pc[d] \in InSection}})
<1> DEFINE in == {ProcOf[c] : c \in {d \in Callers : pc[d] \in InSection}}
<1> USE LockAssumption DEF IInv, TypeOK, PcValues, Goto, InSection
<1>1. ASSUME NEW c \in Callers, EnterSection(c) PROVE Lock!Enter(ProcOf[c])
  <2>1. \A d \in Callers : pc[d] \notin InSection /\ (pc'[d] \in InSection <=> d = c)
    BY <1>1 DEF EnterSection, OwnerHasFile, NoReentry, Owning
  <2>2. in = {} /\ in' = {ProcOf[c]}
    BY <2>1
  <2>3. QED
    BY <2>2 DEF Lock!Enter
<1>2. ASSUME NEW c \in Callers, pc[c] \in {"crit", "inner"}, pc'[c] \notin {"crit", "inner"}
      PROVE  Lock!Leave(ProcOf[c])
  <2>1. \A d \in Callers : pc[d] \in InSection <=> d = c
    BY <1>2 DEF OwnerHasFile, NoReentry, Owning
  <2>2. \A d \in Callers : pc'[d] \notin InSection
    BY <1>2, <2>1 DEF Next, vars, Perhaps, Start, Reenter, Throws,
      LeaveInner, Step, OpenRefused, CreateFails, Judge, Create,
      ReadOwner, StatAge, StealUnlink, OpenExclusive, WritePayload, EnterSection,
      PollOrTimeout, LeaveSection, OwnUnlink, Crash, AgeOut, NoReentry
  <2>3. in = {ProcOf[c]} /\ in' = {}
    BY <2>1, <2>2
  <2>4. QED
    BY <2>3 DEF Lock!Leave
<1>3. ASSUME \A c \in Callers : ~EnterSection(c),
             \A c \in Callers : pc[c] \in {"crit", "inner"} => pc'[c] \in {"crit", "inner"}
      PROVE  in' = in
  <2>1. ASSUME NEW d \in Callers, pc'[d] \in {"crit", "inner"}
        PROVE  pc[d] \in {"crit", "inner"}
    <3>1. ASSUME NEW c \in Callers, Step(c) \/ Perhaps(c)
          PROVE  pc'[d] = pc[d] \/ pc[d] \in {"crit", "inner"}
      <4>1. ~EnterSection(c)
        BY <1>3
      <4>2. /\ pc' = [pc EXCEPT ![c] = pc'[c]]
            /\ pc'[c] \in {"crit", "inner"} => pc[c] \in {"crit", "inner"}
        BY <3>1, <4>1 DEF Perhaps, Start, Reenter, Throws, LeaveInner, Step,
          OpenRefused, CreateFails, Judge, Create, ReadOwner, StatAge, StealUnlink,
          OpenExclusive, WritePayload, PollOrTimeout, LeaveSection, OwnUnlink
      <4>3. QED
        BY <2>1, <4>2
    <3>2. ASSUME NEW p \in Procs, Crash(p) PROVE pc'[d] = pc[d]
      BY <2>1, <3>2 DEF Crash
    <3>3. CASE AgeOut \/ UNCHANGED vars
      BY <2>1, <3>3 DEF AgeOut, vars
    <3>4. QED
      BY <2>1, <3>1, <3>2, <3>3 DEF Next
  <2>2. \A d \in Callers : pc[d] \in InSection <=> pc'[d] \in InSection
    BY <1>3, <2>1 DEF NoReentry
  <2>3. QED
    BY <2>2
<1>4. QED
  BY <1>1, <1>2, <1>3 DEF Lock!Next

(* FileLock implements Mutex: seen from outside, the lock file, the staleness *)
(* checks and the polls are one process at a time entering and leaving.       *)
THEOREM Refinement == SafeInstance /\ Spec => ImplementsMutex
<1>1. Init => Lock!Init
  BY DEF Init, Lock!Init, InSection
<1>2. QED
  BY <1>1, InsideStep, Invariance, PTL DEF ImplementsMutex, Lock!Spec, Spec

-----------------------------------------------------------------------------
(* The servers of a data directory *)


\* The places of a server's process.
Places == {"free", "dead", "guard", "claim", "write", "boot", "up", "exit", "stop", "stopping"}

App == [at : {"off", "boot", "up"}, window : {"none", "shown", "hidden"},
        entry : {"none", "env", "sea", "script"}, child : Pids \cup {NoPid}, line : BOOLEAN]

LaunchTypeOK ==
    /\ app \in [Apps -> App]
    /\ proc \in [Pids -> Places]
    /\ pidFile \in Pids \cup {NoPid, "empty"}
    /\ raced \in BOOLEAN /\ orphans \subseteq Pids

\* Inside the guard, and at work as the owner of the pid file.
Inside == {"claim", "write"}
Owns   == {"boot", "up", "exit", "stop"}

\* Who owns the file is named in it, and while somebody is inside the guard nobody
\* else is inside or owns the file: an owner is alive, so that nobody gets in.
FileNamesOwner == \A p \in Pids : proc[p] \in Owns => pidFile = p
AloneInside    == \A p, q \in Pids : proc[p] \in Inside /\ proc[q] \in Inside \cup Owns => p = q

GuardInv == ~raced => FileNamesOwner /\ AloneInside

\* An app that is not there has no server.
ChildOfNobody == \A a \in Apps : app[a].at = "off" => app[a].child = NoPid

LaunchInv == LaunchTypeOK /\ GuardInv /\ ChildOfNobody /\ NoServerLeftBehind

-----------------------------------------------------------------------------

LEMMA InitLaunchInv == InitLaunch => LaunchInv
  <1> SUFFICES ASSUME InitLaunch PROVE LaunchInv
    OBVIOUS
  <1> USE DEF InitLaunch
  <1>1. LaunchTypeOK
    BY DEF LaunchTypeOK, App, Closed, Places
  <1>2. GuardInv
    BY DEF GuardInv, FileNamesOwner, AloneInside, Inside, Owns
  <1>3. ChildOfNobody
    BY DEF ChildOfNobody, Closed
  <1>4. NoServerLeftBehind
    BY DEF NoServerLeftBehind
  <1>. QED
    BY <1>1, <1>2, <1>3, <1>4 DEF LaunchInv

\* Where the entry point is looked for, one of the kinds of Findings or none is found.
LEMMA EntryType == pickEntrypoint \in {"none", "env", "sea", "script"}
  <1> DEFINE order == IF layout.build = "debug" THEN <<"env", "sea", "script">>
                                                ELSE <<"env", "script", "sea">>
             Is(i) == /\ i = 4 \/ order[i] \in layout.found
                      /\ \A j \in 1..(i - 1) : order[j] \notin layout.found
             first == CHOOSE i \in 1..4 : Is(i)
  <1>1. pickEntrypoint = IF first = 4 THEN "none" ELSE order[first]
    BY DEF pickEntrypoint
  <1>2. \E i \in 1..4 : Is(i)
    <2>1. CASE order[1] \in layout.found
      BY <2>1, Is(1)
    <2>2. CASE order[1] \notin layout.found /\ order[2] \in layout.found
      BY <2>2, Is(2)
    <2>3. CASE order[1] \notin layout.found /\ order[2] \notin layout.found /\ order[3] \in layout.found
      BY <2>3, Is(3)
    <2>4. CASE \A j \in 1..3 : order[j] \notin layout.found
      BY <2>4, Is(4)
    <2>. HIDE DEF order
    <2>. QED
      BY <2>1, <2>2, <2>3, <2>4
  <1>3. first \in 1..4
    <2>. HIDE DEF Is
    <2>. QED BY <1>2
  <1>. QED
    BY <1>1, <1>3

USE DEF launchVars

LEMMA ShownType ==
  ASSUME LaunchTypeOK, NEW a \in Apps, NEW child \in Pids \cup {NoPid}
  PROVE  Shown(a, child) \in [Apps -> App]
  <1>1. app[a] \in App
    BY DEF LaunchTypeOK
  <1>2. [app[a] EXCEPT !.at = "up", !.window = "shown", !.child = child, !.line = FALSE] \in App
    BY <1>1 DEF App
  <1>3. Shown(a, child) =
          [app EXCEPT ![a] = [app[a] EXCEPT !.at = "up", !.window = "shown", !.child = child, !.line = FALSE]]
    BY DEF Shown, LaunchTypeOK
  <1>. QED
    BY <1>2, <1>3 DEF LaunchTypeOK

LEMMA StepType == LaunchTypeOK /\ [LaunchStep]_launchVars => LaunchTypeOK'
  <1> SUFFICES ASSUME LaunchTypeOK, [LaunchStep]_launchVars PROVE LaunchTypeOK'
    OBVIOUS
  <1> USE DEF LaunchTypeOK, Places, Ends, Reaped
  <1>1. ASSUME NEW a \in Apps, spawnCoreSidecar(a) PROVE LaunchTypeOK'
    <2>1. PICK p \in Pids :
            /\ proc' = [proc EXCEPT ![p] = "guard"]
            /\ app' = [app EXCEPT ![a] = [Closed EXCEPT !.at = "boot", !.entry = pickEntrypoint, !.child = p]]
            /\ orphans' = orphans \ {p}
      BY <1>1 DEF spawnCoreSidecar
    <2>2. [Closed EXCEPT !.at = "boot", !.entry = pickEntrypoint, !.child = p] \in App
      BY EntryType DEF Closed, App
    <2>. QED
      BY <1>1, <2>1, <2>2 DEF spawnCoreSidecar
  <1>2. ASSUME NEW a \in Apps, spawnFails(a) PROVE LaunchTypeOK'
    BY <1>2, ShownType DEF spawnFails
  <1>3. ASSUME NEW a \in Apps, readReadyLine(a) PROVE LaunchTypeOK'
    <2>1. app[a].child \in Pids \cup {NoPid}
      BY DEF App
    <2>2. app' \in [Apps -> App]
      <3>. HIDE DEF LaunchTypeOK
      <3>. QED
        BY <1>3, <2>1, ShownType DEF readReadyLine
    <2>. QED
      BY <1>3, <2>2 DEF readReadyLine
  <1>4. ASSUME NEW a \in Apps, readyTimesOut(a) \/ stdoutEnds(a) PROVE LaunchTypeOK'
    BY <1>4, ShownType DEF readyTimesOut, stdoutEnds
  <1>5. ASSUME NEW a \in Apps, closeRequested(a) \/ showMainWindow(a) PROVE LaunchTypeOK'
    BY <1>5 DEF closeRequested, showMainWindow, App
  <1>6. ASSUME NEW a \in Apps, quitApp(a) PROVE LaunchTypeOK'
    BY <1>6 DEF quitApp, App, Closed
  <1>7. ASSUME NEW a \in Apps, appDies(a) PROVE LaunchTypeOK'
    BY <1>7 DEF appDies, App, Closed
  <1>8. ASSUME NEW p \in Pids, readPidFile(p) PROVE LaunchTypeOK'
    BY <1>8 DEF readPidFile
  <1>9. ASSUME NEW p \in Pids, openPidFile(p) \/ writePid(p) PROVE LaunchTypeOK'
    BY <1>9 DEF openPidFile, writePid
  <1>10. ASSUME NEW p \in Pids, printReadyLine(p) PROVE LaunchTypeOK'
    <2>1. \A a \in Apps : [app[a] EXCEPT !.line = TRUE] \in App
      BY DEF App
    <2>. QED
      BY <1>10, <2>1 DEF printReadyLine
  <1>11. ASSUME NEW p \in Pids, bootFails(p) \/ fatalError(p) \/ shutdown(p) PROVE LaunchTypeOK'
    BY <1>11 DEF bootFails, fatalError, shutdown, removeIfOwn
  <1>12. ASSUME NEW p \in Pids, unlinkPidFile(p) \/ stopped(p) \/ serverDies(p) PROVE LaunchTypeOK'
    BY <1>12 DEF unlinkPidFile, stopped, serverDies
  <1>13. CASE UNCHANGED launchVars
    BY <1>13
  <1>. QED
    BY <1>1, <1>2, <1>3, <1>4, <1>5, <1>6, <1>7, <1>8, <1>9, <1>10, <1>11, <1>12, <1>13
    DEF LaunchStep

\* What the app does to processes: it makes one that is free enter the guard, and
\* otherwise frees its child.
LEMMA AppStepInProc ==
  ASSUME LaunchTypeOK, NEW a \in Apps,
         \/ spawnFails(a) \/ readReadyLine(a) \/ readyTimesOut(a) \/ stdoutEnds(a)
         \/ closeRequested(a) \/ showMainWindow(a) \/ quitApp(a) \/ appDies(a)
  PROVE  \A p \in Pids : proc'[p] \in {proc[p], "free"}
  BY DEF LaunchTypeOK, spawnFails, readReadyLine, readyTimesOut, stdoutEnds, closeRequested,
         showMainWindow, quitApp, appDies, Reaped

LEMMA AppStepElse ==
  ASSUME NEW a \in Apps,
         \/ spawnCoreSidecar(a)
         \/ spawnFails(a) \/ readReadyLine(a) \/ readyTimesOut(a) \/ stdoutEnds(a)
         \/ closeRequested(a) \/ showMainWindow(a) \/ quitApp(a) \/ appDies(a)
  PROVE  pidFile' = pidFile /\ raced' = raced
  BY DEF spawnCoreSidecar, spawnFails, readReadyLine, readyTimesOut, stdoutEnds, closeRequested,
         showMainWindow, quitApp, appDies

LEMMA StepGuard == LaunchTypeOK /\ GuardInv /\ [LaunchStep]_launchVars => GuardInv'
  <1> SUFFICES ASSUME LaunchTypeOK, GuardInv, [LaunchStep]_launchVars, ~raced'
               PROVE  FileNamesOwner' /\ AloneInside'
    BY DEF GuardInv
  <1> USE DEF FileNamesOwner, AloneInside, Inside, Owns
  <1>a. ~raced /\ FileNamesOwner /\ AloneInside
    <2>1. ~raced
      BY AppStepElse DEF LaunchStep, readPidFile, openPidFile, writePid, printReadyLine, bootFails,
         fatalError, shutdown, removeIfOwn, unlinkPidFile, stopped, serverDies
    <2>. QED
      BY <2>1 DEF GuardInv
  <1>1. ASSUME NEW a \in Apps, spawnCoreSidecar(a) PROVE FileNamesOwner' /\ AloneInside'
    <2>1. PICK p \in Pids : proc' = [proc EXCEPT ![p] = "guard"]
      BY <1>1 DEF spawnCoreSidecar
    <2>. QED
      BY <1>a, <1>1, <2>1, AppStepElse DEF LaunchTypeOK
  <1>2. ASSUME NEW a \in Apps,
               \/ spawnFails(a) \/ readReadyLine(a) \/ readyTimesOut(a) \/ stdoutEnds(a)
               \/ closeRequested(a) \/ showMainWindow(a) \/ quitApp(a) \/ appDies(a)
        PROVE FileNamesOwner' /\ AloneInside'
    <2>1. \A p \in Pids : proc'[p] \in {proc[p], "free"}
      BY <1>2, AppStepInProc
    <2>2. pidFile' = pidFile
      BY <1>2, AppStepElse
    <2>. QED
      BY <1>a, <2>1, <2>2
  <1>3. ASSUME NEW p \in Pids, readPidFile(p) PROVE FileNamesOwner' /\ AloneInside'
    <2>1. CASE mayClaim(p)
      <3>1. /\ proc' = [proc EXCEPT ![p] = "claim"] /\ pidFile' = pidFile
            /\ \A q \in Pids : proc[q] \notin Inside
        BY <1>3, <2>1 DEF readPidFile
      <3>2. \A q \in Pids \ {p} : proc[q] \notin Owns
        BY <1>a, <2>1, LaunchAssumption DEF mayClaim, processIsAlive
      <3>3. proc[p] \notin Owns
        BY <1>3 DEF readPidFile
      <3>. QED
        BY <1>a, <3>1, <3>2, <3>3 DEF LaunchTypeOK
    <2>2. CASE ~mayClaim(p)
      BY <1>a, <1>3, <2>2 DEF readPidFile, Ends, LaunchTypeOK
    <2>. QED
      BY <2>1, <2>2
  <1>4. ASSUME NEW p \in Pids, openPidFile(p) \/ writePid(p) PROVE FileNamesOwner' /\ AloneInside'
    <2>1. proc[p] \in Inside /\ \A q \in Pids \ {p} : proc[q] \notin Inside \cup Owns
      BY <1>a, <1>4 DEF openPidFile, writePid
    <2>2. CASE openPidFile(p)
      BY <1>a, <2>1, <2>2 DEF openPidFile, LaunchTypeOK
    <2>3. CASE writePid(p)
      BY <1>a, <2>1, <2>3 DEF writePid, LaunchTypeOK
    <2>. QED
      BY <1>4, <2>2, <2>3
  <1>5. ASSUME NEW p \in Pids, printReadyLine(p) \/ bootFails(p) \/ fatalError(p) \/ shutdown(p)
        PROVE FileNamesOwner' /\ AloneInside'
    BY <1>a, <1>5 DEF printReadyLine, bootFails, fatalError, shutdown, removeIfOwn, Ends, LaunchTypeOK
  <1>6. ASSUME NEW p \in Pids, unlinkPidFile(p) PROVE FileNamesOwner' /\ AloneInside'
    <2>1. pidFile = p /\ \A q \in Pids \ {p} : proc[q] \notin Owns
      BY <1>a, <1>6 DEF unlinkPidFile
    <2>. QED
      BY <1>a, <1>6, <2>1 DEF unlinkPidFile, Ends, LaunchTypeOK
  <1>7. ASSUME NEW p \in Pids, stopped(p) \/ serverDies(p) PROVE FileNamesOwner' /\ AloneInside'
    BY <1>a, <1>7 DEF stopped, serverDies, Ends, LaunchTypeOK
  <1>8. CASE UNCHANGED launchVars
    BY <1>a, <1>8
  <1>. QED
    BY <1>1, <1>2, <1>3, <1>4, <1>5, <1>6, <1>7, <1>8 DEF LaunchStep

LEMMA StepChild == LaunchTypeOK /\ ChildOfNobody /\ [LaunchStep]_launchVars => ChildOfNobody'
  <1> SUFFICES ASSUME LaunchTypeOK, ChildOfNobody, [LaunchStep]_launchVars,
                      NEW a \in Apps, app'[a].at = "off"
               PROVE  app'[a].child = NoPid
    BY DEF ChildOfNobody
  <1> USE DEF LaunchTypeOK, App
  <1>1. CASE app'[a] = app[a]
    BY <1>1 DEF ChildOfNobody
  <1>2. ASSUME NEW p \in Pids, printReadyLine(p) PROVE app'[a].child = NoPid
    <2>1. app'[a].at = app[a].at /\ app'[a].child = app[a].child
      BY <1>2 DEF printReadyLine
    <2>. QED
      BY <2>1 DEF ChildOfNobody
  <1>3. ASSUME NEW b \in Apps, spawnCoreSidecar(b), app'[a] # app[a] PROVE app'[a].child = NoPid
    <2>1. app'[a].at = "boot"
      BY <1>3 DEF spawnCoreSidecar, Closed
    <2>. QED
      BY <2>1
  <1>4. ASSUME NEW b \in Apps, app'[a] # app[a],
               spawnFails(b) \/ readReadyLine(b) \/ readyTimesOut(b) \/ stdoutEnds(b)
        PROVE app'[a].child = NoPid
    <2>1. PICK child : app' = Shown(b, child)
      BY <1>4 DEF spawnFails, readReadyLine, readyTimesOut, stdoutEnds
    <2>2. app'[a].at = "up"
      BY <1>4, <2>1 DEF Shown
    <2>. QED
      BY <2>2
  <1>5. ASSUME NEW b \in Apps, closeRequested(b) \/ showMainWindow(b) PROVE app'[a].child = NoPid
    <2>1. app'[a].at = app[a].at /\ app'[a].child = app[a].child
      BY <1>5 DEF closeRequested, showMainWindow
    <2>. QED
      BY <2>1 DEF ChildOfNobody
  <1>6. ASSUME NEW b \in Apps, app'[a] # app[a], quitApp(b) \/ appDies(b)
        PROVE app'[a].child = NoPid
    BY <1>6 DEF quitApp, appDies, Closed
  <1>7. ASSUME NEW p \in Pids,
               \/ readPidFile(p) \/ openPidFile(p) \/ writePid(p) \/ bootFails(p) \/ fatalError(p)
               \/ shutdown(p) \/ unlinkPidFile(p) \/ stopped(p) \/ serverDies(p)
        PROVE app' = app
    BY <1>7 DEF readPidFile, openPidFile, writePid, bootFails, fatalError, shutdown, removeIfOwn,
                unlinkPidFile, stopped, serverDies
  <1>. QED
    BY <1>1, <1>2, <1>3, <1>4, <1>5, <1>6, <1>7 DEF LaunchStep

LEMMA StepChildren ==
  LaunchTypeOK /\ ChildOfNobody /\ NoServerLeftBehind /\ [LaunchStep]_launchVars => NoServerLeftBehind'
  <1> SUFFICES ASSUME LaunchTypeOK, ChildOfNobody, NoServerLeftBehind, [LaunchStep]_launchVars,
                      NEW p \in Pids, proc'[p] # "free"
               PROVE  Parents(p)' # {} \/ p \in orphans'
    BY DEF NoServerLeftBehind
  <1> USE DEF Parents
  <1>1. CASE proc[p] # "free" /\ p \in orphans
    <2>1. p \in orphans'
      BY <1>1 DEF LaunchStep, LaunchTypeOK, spawnCoreSidecar, spawnFails, readReadyLine,
         readyTimesOut, stdoutEnds, closeRequested, showMainWindow, quitApp, appDies,
         readPidFile, openPidFile, writePid, printReadyLine, bootFails, fatalError, shutdown,
         removeIfOwn, unlinkPidFile, stopped, serverDies
    <2>. QED
      BY <2>1
  <1>2. CASE \E a \in Apps : app[a].child = p /\ app'[a].child = p
    BY <1>2
  <1>3. ASSUME NEW b \in Apps, spawnCoreSidecar(b), proc[p] = "free" PROVE Parents(p)' # {}
    <2>1. PICK q \in Pids :
            /\ proc' = [proc EXCEPT ![q] = "guard"]
            /\ app' = [app EXCEPT ![b] = [Closed EXCEPT !.at = "boot", !.entry = pickEntrypoint, !.child = q]]
      BY <1>3 DEF spawnCoreSidecar
    <2>2. p = q
      BY <1>3, <2>1 DEF LaunchTypeOK
    <2>3. app'[b].child = p
      BY <2>1, <2>2 DEF LaunchTypeOK, Closed
    <2>. QED
      BY <2>3
  <1>4. ASSUME NEW a \in Apps, app[a].child = p, app'[a].child # p, proc[p] # "free"
        PROVE p \in orphans'
    <2>1. app[a].at # "off" /\ p # NoPid
      BY <1>4, LaunchAssumption DEF ChildOfNobody
    <2>2. ASSUME NEW b \in Apps, spawnCoreSidecar(b) \/ spawnFails(b) PROVE FALSE
      BY <1>4, <2>1, <2>2 DEF spawnCoreSidecar, spawnFails, Shown, LaunchTypeOK
    <2>3. ASSUME NEW b \in Apps, readReadyLine(b) \/ closeRequested(b) \/ showMainWindow(b)
          PROVE FALSE
      BY <1>4, <2>3 DEF readReadyLine, closeRequested, showMainWindow, Shown, LaunchTypeOK, App
    <2>4. ASSUME NEW b \in Apps, readyTimesOut(b) \/ stdoutEnds(b) \/ quitApp(b) PROVE FALSE
      <3>1. a = b
        BY <1>4, <2>4 DEF readyTimesOut, stdoutEnds, quitApp, Shown, LaunchTypeOK
      <3>. QED
        BY <1>4, <2>4, <3>1 DEF readyTimesOut, stdoutEnds, quitApp, Reaped
    <2>5. ASSUME NEW b \in Apps, appDies(b) PROVE p \in orphans'
      <3>1. a = b
        BY <1>4, <2>5 DEF appDies, LaunchTypeOK
      <3>. QED
        BY <1>4, <2>1, <2>5, <3>1 DEF appDies, Reaped
    <2>6. ASSUME NEW q \in Pids, printReadyLine(q) PROVE FALSE
      BY <1>4, <2>6 DEF printReadyLine, LaunchTypeOK, App
    <2>7. ASSUME NEW q \in Pids,
                 \/ readPidFile(q) \/ openPidFile(q) \/ writePid(q) \/ bootFails(q) \/ fatalError(q)
                 \/ shutdown(q) \/ unlinkPidFile(q) \/ stopped(q) \/ serverDies(q)
          PROVE FALSE
      BY <1>4, <2>7 DEF readPidFile, openPidFile, writePid, bootFails, fatalError, shutdown,
                        removeIfOwn, unlinkPidFile, stopped, serverDies
    <2>. QED
      BY <1>4, <2>2, <2>3, <2>4, <2>5, <2>6, <2>7 DEF LaunchStep
  <1>5. CASE proc[p] = "free"
    <2>1. ASSUME NEW b \in Apps,
                 \/ spawnFails(b) \/ readReadyLine(b) \/ readyTimesOut(b) \/ stdoutEnds(b)
                 \/ closeRequested(b) \/ showMainWindow(b) \/ quitApp(b) \/ appDies(b)
          PROVE FALSE
      BY <1>5, <2>1, AppStepInProc
    <2>2. ASSUME NEW q \in Pids,
                 \/ readPidFile(q) \/ openPidFile(q) \/ writePid(q) \/ printReadyLine(q)
                 \/ bootFails(q) \/ fatalError(q) \/ shutdown(q) \/ unlinkPidFile(q) \/ stopped(q)
                 \/ serverDies(q)
          PROVE q # p /\ proc'[p] = "free"
      BY <1>5, <2>2 DEF readPidFile, openPidFile, writePid, printReadyLine, bootFails, fatalError,
                 shutdown, removeIfOwn, unlinkPidFile, stopped, serverDies, Ends, LaunchTypeOK, mayClaim
    <2>. QED
      BY <1>3, <1>5, <2>1, <2>2 DEF LaunchStep
  <1>. QED
    BY <1>1, <1>2, <1>4, <1>5 DEF NoServerLeftBehind

-----------------------------------------------------------------------------

LEMMA LaunchInvariance == LaunchSpec => []LaunchInv
  <1>1. LaunchInv /\ [LaunchStep]_launchVars => LaunchInv'
    BY StepType, StepGuard, StepChild, StepChildren DEF LaunchInv
  <1>. QED
    BY <1>1, InitLaunchInv, PTL DEF LaunchSpec

\* Whoever works on the data directory is the one named in the pid file.
LEMMA OneServerHolds == LaunchTypeOK /\ GuardInv => OneServer
  <1> SUFFICES ASSUME LaunchTypeOK, GuardInv, ~raced
               PROVE  Cardinality({p \in Pids : proc[p] \in {"boot", "up"}}) <= 1
    BY DEF OneServer
  <1> DEFINE S == {p \in Pids : proc[p] \in {"boot", "up"}}
  <1>1. S = {} \/ S = {pidFile}
    BY DEF GuardInv, FileNamesOwner, Owns
  <1>2. Cardinality(S) \in {0, 1}
    BY <1>1, FS_EmptySet, FS_Singleton
  <1>. QED
    BY <1>2

\* However apps and servers start, crash and are killed in whatever order, the pid
\* file admits a second server only while one is between reading it and writing it,
\* and a server nobody will stop has lost its app (instance-guard.ts
\* acquireInstanceLock, removeIfOwn; sidecar.rs spawn_core_sidecar, SidecarHandle.stop).
THEOREM Accounted == LaunchSpec => []ServersAccounted
  <1>1. LaunchInv => ServersAccounted
    BY OneServerHolds DEF LaunchInv, ServersAccounted
  <1>. QED
    BY <1>1, LaunchInvariance, PTL

-----------------------------------------------------------------------------
(* The project: only the first entry of its queue runs, and between its load  *)
(* and its save nothing else writes.                                          *)
OpsShape ==
    /\ ops = [o \in Ops |-> ops[o]]
    /\ \A o \in Ops : ops[o] \in [step : {ops[o].step}, by : {ops[o].by}, doc : {ops[o].doc}]

Running(o) == ops[o].step \in {"loaded", "known", "saved"}

FirstRuns ==
    /\ queue \in Seq(Ops)
    /\ \A o \in Ops : Running(o) => MyTurn(o)

LoadedIsStored == \A o \in Ops : ops[o].step \in {"loaded", "known"} => ops[o].doc = doc

ProjectInv == OpsShape /\ FirstRuns /\ LoadedIsStored

\* An operation that waits for its turn, or has it, is done with.
LEMMA SettleKeeps ==
    ASSUME ProjectInv, NEW o \in Ops, MyTurn(o), Settle(o), UNCHANGED doc
    PROVE  ProjectInv'
  <1> USE DEF ProjectInv, FirstRuns, Running, MyTurn
  <1>1. queue' \in Seq(Ops)
    BY DEF Settle
  <1>2. /\ ops' = [p \in Ops |-> IF p = o THEN Idle ELSE ops[p]]
    BY DEF Settle, OpsShape
  <1>3. \A p \in Ops : ops'[p].step \notin {"loaded", "known", "saved"}
    BY <1>2 DEF Idle
  <1>4. OpsShape'
    BY <1>2 DEF OpsShape, Idle
  <1> QED
    BY <1>1, <1>3, <1>4 DEF LoadedIsStored

\* Whatever a save writes, no other operation has loaded what it overwrites.
LEMMA SaveKeeps ==
    ASSUME ProjectInv, NEW o \in Ops, NEW d, ops[o].step \in {"loaded", "known"}, Save(o, d)
    PROVE  ProjectInv'
  <1> USE DEF ProjectInv, FirstRuns, Running, MyTurn
  <1>1. PICK r : r = [ops[o] EXCEPT !.step = "saved", !.doc = NoDoc]
    OBVIOUS
  <1>2. r \in [step : {"saved"}, by : {ops[o].by}, doc : {NoDoc}]
    BY <1>1 DEF OpsShape
  <1>3. ops' = [p \in Ops |-> IF p = o THEN r ELSE ops[p]]
    BY <1>1 DEF Save, OpsShape
  <1>4. queue' = queue
    BY DEF Save
  <1>5. OpsShape'
    BY <1>2, <1>3 DEF OpsShape
  <1>6. FirstRuns'
    BY <1>2, <1>3, <1>4
  <1>7. \A p \in Ops : p # o => ~Running(p)
    OBVIOUS
  <1>8. LoadedIsStored'
    BY <1>2, <1>3, <1>7 DEF LoadedIsStored
  <1> QED
    BY <1>5, <1>6, <1>8

\* Each mutation, the owner's or a member's, saves what it made of what it loaded.
LEMMA EachSaves ==
    ASSUME TasksStep
    PROVE  \/ TasksCrash
           \/ \E o \in Ops : Enqueue(o) \/ Load(o) \/ SenderKnown(o) \/ Refuse(o) \/ afterMutation(o)
           \/ \E o \in Ops : ops[o].step \in {"loaded", "known"} /\ \E d : Save(o, d)
  <1> SUFFICES ASSUME NEW o \in Ops,
                      \/ AddTask(o) \/ UpdateTask(o) \/ SetDependency(o) \/ SetDependencies(o)
                      \/ DelegateTask(o) \/ AddMember(o) \/ AttachData(o)
                      \/ CreateSubtask(o) \/ MoveTask(o) \/ UpdateStatus(o) \/ LogTime(o)
                      \/ AnswerDelegation(o) \/ SubmitCompletionProof(o) \/ RequestDependencies(o)
               PROVE  ops[o].step \in {"loaded", "known"} /\ \E d : Save(o, d)
    BY DEF TasksStep
  <1>1. CASE AddTask(o) \/ UpdateTask(o) \/ SetDependency(o)
    BY <1>1, Zenon DEF AddTask, UpdateTask, SetDependency, OwnerRuns
  <1>2. CASE DelegateTask(o) \/ AddMember(o) \/ AttachData(o)
    BY <1>2, Zenon DEF DelegateTask, AddMember, AttachData, OwnerRuns
  <1>3. CASE CreateSubtask(o) \/ MoveTask(o) \/ UpdateStatus(o) \/ LogTime(o)
    BY <1>3, Zenon DEF CreateSubtask, MoveTask, UpdateStatus, LogTime, MemberRuns
  <1>4. CASE AnswerDelegation(o) \/ SubmitCompletionProof(o)
    BY <1>4, Zenon DEF AnswerDelegation, SubmitCompletionProof, MemberRuns
  <1>5. CASE SetDependencies(o) \/ RequestDependencies(o)
    BY <1>5, Zenon DEF SetDependencies, RequestDependencies, NewDependencies, OwnerRuns, MemberRuns
  <1> QED
    BY <1>1, <1>2, <1>3, <1>4, <1>5

LEMMA ProjectStep ==
    ASSUME ProjectInv, [TasksStep]_tasksVars
    PROVE  ProjectInv'
  <1> USE DEF ProjectInv, FirstRuns, Running, MyTurn
  <1>1. ASSUME NEW o \in Ops, Enqueue(o)
        PROVE  ProjectInv'
    <2>1. PICK r : r = [ops[o] EXCEPT !.step = "queued"]
      OBVIOUS
    <2>2. r \in [step : {"queued"}, by : {ops[o].by}, doc : {ops[o].doc}]
      BY <2>1 DEF OpsShape
    <2>3. ops' = [p \in Ops |-> IF p = o THEN r ELSE ops[p]]
      BY <1>1, <2>1 DEF Enqueue, OpsShape
    <2>4. queue' \in Seq(Ops) /\ (queue # <<>> => queue' # <<>> /\ Head(queue') = Head(queue))
      BY <1>1 DEF Enqueue
    <2>5. OpsShape'
      BY <2>2, <2>3 DEF OpsShape
    <2>6. FirstRuns'
      BY <2>2, <2>3, <2>4
    <2>7. LoadedIsStored'
      BY <1>1, <2>2, <2>3 DEF LoadedIsStored, Enqueue
    <2> QED
      BY <2>5, <2>6, <2>7
  <1>2. ASSUME NEW o \in Ops, Load(o)
        PROVE  ProjectInv'
    <2>1. PICK p \in {Owner} \cup doc.members :
             ops' = [ops EXCEPT ![o] = [step |-> "loaded", by |-> p, doc |-> doc]]
      BY <1>2 DEF Load
    <2>2. ops' = [q \in Ops |-> IF q = o THEN [step |-> "loaded", by |-> p, doc |-> doc] ELSE ops[q]]
      BY <2>1 DEF OpsShape
    <2>3. MyTurn(o) /\ UNCHANGED <<doc, queue>>
      BY <1>2 DEF Load
    <2>4. OpsShape'
      BY <2>2 DEF OpsShape
    <2>5. FirstRuns'
      BY <2>2, <2>3
    <2>6. LoadedIsStored'
      BY <2>2, <2>3 DEF LoadedIsStored
    <2> QED
      BY <2>4, <2>5, <2>6
  <1>3. ASSUME NEW o \in Ops, SenderKnown(o)
        PROVE  ProjectInv'
    <2>1. PICK r : r = [ops[o] EXCEPT !.step = "known"]
      OBVIOUS
    <2>2. r \in [step : {"known"}, by : {ops[o].by}, doc : {ops[o].doc}]
      BY <2>1 DEF OpsShape
    <2>3. ops' = [p \in Ops |-> IF p = o THEN r ELSE ops[p]]
      BY <1>3, <2>1 DEF SenderKnown, OpsShape
    <2>4. ops[o].step = "loaded" /\ UNCHANGED <<doc, queue>>
      BY <1>3 DEF SenderKnown
    <2>5. OpsShape'
      BY <2>2, <2>3 DEF OpsShape
    <2>6. FirstRuns'
      BY <2>2, <2>3, <2>4
    <2>7. LoadedIsStored'
      BY <2>2, <2>3, <2>4 DEF LoadedIsStored
    <2> QED
      BY <2>5, <2>6, <2>7
  <1>4. ASSUME NEW o \in Ops, Refuse(o) \/ afterMutation(o)
        PROVE  ProjectInv'
    <2>1. MyTurn(o) /\ Settle(o) /\ UNCHANGED doc
      BY <1>4 DEF Refuse, afterMutation
    <2> QED
      BY <2>1, SettleKeeps
  <1>5. CASE TasksCrash
    <2>1. /\ ops' = [o \in Ops |-> Idle]
          /\ queue' = <<>>
      BY <1>5 DEF TasksCrash
    <2>2. OpsShape' /\ LoadedIsStored' /\ \A o \in Ops : ~Running(o)'
      BY <2>1 DEF OpsShape, LoadedIsStored, Idle
    <2>3. queue' \in Seq(Ops)
      BY <2>1
    <2> QED
      BY <2>2, <2>3
  <1>6. CASE UNCHANGED tasksVars
    BY <1>6 DEF tasksVars, OpsShape, LoadedIsStored
  <1> QED
    BY <1>1, <1>2, <1>3, <1>4, <1>5, <1>6, EachSaves, SaveKeeps

LEMMA InitProject == InitTasks => ProjectInv
  <1> SUFFICES ASSUME InitTasks PROVE ProjectInv
    OBVIOUS
  <1>1. ops = [o \in Ops |-> Idle] /\ queue = <<>>
    BY DEF InitTasks
  <1>2. queue \in Seq(Ops)
    BY <1>1
  <1> QED
    BY <1>1, <1>2 DEF ProjectInv, OpsShape, FirstRuns, Running, LoadedIsStored, Idle

\* What an operation of the tasks plugin writes back was made of the document as it
\* then is, for any number of operations, tasks and members.
LEMMA ProjectIsKept == TasksSpec => ProjectKept
  <1>1. ProjectInv => [\A o \in Ops : ops[o].step \in {"loaded", "known"} /\ ops'[o].step = "saved"
                          => ops[o].doc = doc]_tasksVars
    BY DEF ProjectInv, LoadedIsStored
  <1> QED
    BY <1>1, InitProject, ProjectStep, PTL DEF TasksSpec, ProjectKept
-----------------------------------------------------------------------------
(* The object graphs: a copy is whole when it is loaded, each skill leaves it *)
(* whole, and the one call that writes has read the file as it is.            *)

\* A graph as its plugin makes it: whole, and every object with one holder.
Sane(g) ==
    /\ g \in Graph /\ Whole(g)
    /\ \A o \in Objects, h, i \in Objects \cup {Root} :
          <<h, o>> \in g.links /\ <<i, o>> \in g.links => h = i

Files == [Keys -> Graph \cup {Nothing}]

DocumentsTypeOK ==
    /\ file \in Files
    /\ under \in [Skills -> [step : {"idle", "loaded", "queued", "writing"}, key : Keys \cup {Nothing},
                             graph : Graph \cup {Nothing}, read : Files \cup {Nothing}]]
    /\ lines \in [Runs -> Seq(Skills)]

\* Who writes is alone inside the lock and first in its line.
WriterIsAlone ==
    \A s \in Skills : under[s].step = "writing" =>
        inside = {RunsIn[s]} /\ FirstInLine(s) /\ under[s].read = file

CopiesAreSane ==
    /\ \A k \in Keys : file[k] # Nothing => Sane(file[k])
    /\ \A s \in Skills : under[s].step # "idle" => under[s].key \in Keys /\ Sane(under[s].graph)
    /\ \A s \in Skills : under[s].step = "loaded" => under[s].graph # Nothing

DocumentsInv == DocumentsTypeOK /\ WriterIsAlone /\ CopiesAreSane

LEMMA SaneStart ==
    /\ Sane(createDocument)
    /\ \A o \in Objects, c \in Classes \ {"record"} : Sane(addObject(createDocument, o, c, Root))
  <1> USE DocumentsAssumption DEF Objects, Classes
  <1>1. createDocument \in Graph /\ createDocument.links = {}
        /\ \A o \in Objects : createDocument.class[o] = "none"
    BY DEF createDocument, Graph
  <1>2. Sane(createDocument)
    BY <1>1 DEF Sane, Whole
  <1>3. ASSUME NEW o \in Objects, NEW c \in Classes \ {"record"}
        PROVE  Sane(addObject(createDocument, o, c, Root))
    <2> DEFINE g == addObject(createDocument, o, c, Root)
    <2>1. g.links = {<<Root, o>>}
      BY <1>1 DEF addObject
    <2>2. g.class = [p \in Objects |-> IF p = o THEN c ELSE "none"]
      BY DEF addObject, createDocument
    <2>3. g = [class |-> g.class, links |-> g.links]
      BY DEF addObject
    <2>4. g \in Graph
      BY <2>1, <2>2, <2>3 DEF Graph
    <2> HIDE DEF g
    <2>5. Whole(g)
      BY <2>1, <2>2 DEF Whole
    <2> QED
      BY <2>1, <2>4, <2>5 DEF Sane, g
  <1> QED
    BY <1>2, <1>3

\* A new object with a link from the root, or a record with a link from its table.
LEMMA SaneAdd ==
    ASSUME NEW g, Sane(g), NEW o \in Objects, g.class[o] = "none", NEW c \in Classes, NEW h,
           \/ c # "record" /\ h = Root
           \/ c = "record" /\ h \in Objects /\ g.class[h] = "table"
    PROVE  Sane(addObject(g, o, c, h))
  <1> USE DocumentsAssumption
  <1> DEFINE a == addObject(g, o, c, h)
  <1>1. g \in Graph /\ g.class \in [Objects -> Classes \cup {"none"}]
        /\ g.links \subseteq (Objects \cup {Root}) \X Objects
    BY DEF Sane, Graph
  <1>2. a.links = g.links \cup {<<h, o>>}
    BY DEF addObject
  <1>3. a.class = [p \in Objects |-> IF p = o THEN c ELSE g.class[p]]
    BY <1>1 DEF addObject
  <1>4. a = [class |-> a.class, links |-> a.links]
    BY DEF addObject
  <1>5. a \in Graph
    BY <1>1, <1>2, <1>3, <1>4 DEF Graph
  <1>6. c # "none" /\ Root \notin Objects
    BY DEF Classes, Objects
  <1> HIDE DEF a
  <1>7. \A l \in g.links : l = <<l[1], l[2]>> /\ l[1] \in Objects \cup {Root} /\ l[2] \in Objects
    BY <1>1
  <1>8. \A l \in g.links : l[2] # o /\ l[1] # o
    BY <1>6 DEF Sane, Whole
  <1>9. \A l \in a.links : /\ a.class[l[2]] # "none"
                           /\ IF a.class[l[2]] = "record" THEN l[1] # Root /\ a.class[l[1]] = "table"
                                                          ELSE l[1] = Root
    <2> SUFFICES ASSUME NEW l \in a.links
                 PROVE  /\ a.class[l[2]] # "none"
                        /\ IF a.class[l[2]] = "record" THEN l[1] # Root /\ a.class[l[1]] = "table"
                                                       ELSE l[1] = Root
      OBVIOUS
    <2>1. CASE l \in g.links
      BY <2>1, <1>3, <1>7, <1>8 DEF Sane, Whole
    <2>2. CASE l = <<h, o>>
      BY <2>2, <1>3, <1>6
    <2> QED
      BY <2>1, <2>2, <1>2
  <1>10. \A p \in Objects : a.class[p] # "none" => \E i \in Objects \cup {Root} : <<i, p>> \in a.links
    BY <1>2, <1>3 DEF Sane, Whole
  <1>11. Whole(a)
    BY <1>9, <1>10 DEF Whole
  <1>12. ASSUME NEW p \in Objects, NEW i \in Objects \cup {Root}, NEW j \in Objects \cup {Root},
                <<i, p>> \in a.links, <<j, p>> \in a.links
         PROVE  i = j
    BY <1>12, <1>2, <1>8 DEF Sane
  <1> QED
    BY <1>5, <1>11, <1>12 DEF Sane, a

\* An object that holds nothing is taken out with its one link.
LEMMA SaneRemove ==
    ASSUME NEW g, Sane(g), NEW o \in Objects, NEW h \in Objects \cup {Root}, <<h, o>> \in g.links,
           \/ h = Root /\ g.class[o] = "layer"
           \/ h \in Objects
    PROVE  Sane(removeObject(g, o, h))
  <1> USE DocumentsAssumption
  <1> DEFINE a == removeObject(g, o, h)
  <1>1. g \in Graph /\ g.class \in [Objects -> Classes \cup {"none"}]
        /\ g.links \subseteq (Objects \cup {Root}) \X Objects
    BY DEF Sane, Graph
  <1>2. a.links = g.links \ {<<h, o>>}
    BY DEF removeObject
  <1>3. a.class = [p \in Objects |-> IF p = o THEN "none" ELSE g.class[p]]
    BY <1>1 DEF removeObject
  <1>4. a = [class |-> a.class, links |-> a.links]
    BY DEF removeObject
  <1>5. a \in Graph
    BY <1>1, <1>2, <1>3, <1>4 DEF Graph
  <1>6. Root \notin Objects
    BY DEF Objects
  <1> HIDE DEF a
  <1>7. \A l \in g.links : l = <<l[1], l[2]>> /\ l[1] \in Objects \cup {Root} /\ l[2] \in Objects
    BY <1>1
  <1>8. g.class[o] # "table"
    BY <1>6 DEF Sane, Whole
  <1>9. \A l \in a.links : l \in g.links /\ l[2] # o
    BY <1>2, <1>7 DEF Sane
  <1>10. \A l \in a.links : /\ a.class[l[2]] # "none"
                            /\ IF a.class[l[2]] = "record" THEN l[1] # Root /\ a.class[l[1]] = "table"
                                                           ELSE l[1] = Root
    BY <1>3, <1>7, <1>8, <1>9 DEF Sane, Whole
  <1>11. \A p \in Objects : a.class[p] # "none" => \E i \in Objects \cup {Root} : <<i, p>> \in a.links
    BY <1>2, <1>3 DEF Sane, Whole
  <1>12. Whole(a)
    BY <1>10, <1>11 DEF Whole
  <1> QED
    BY <1>2, <1>5, <1>12 DEF Sane, a
\* A call joins its line with a copy that is whole.
LEMMA SetKeyKeeps ==
    ASSUME DocumentsInv, NEW s \in Skills, under[s].step \in {"idle", "loaded"},
           NEW k \in Keys, NEW g, Sane(g), SetKey(s, k, g)
    PROVE  DocumentsInv'
  <1> USE DocumentsAssumption DEF DocumentsInv
  <1> DEFINE r == [step |-> "queued", key |-> k, graph |-> g, read |-> Nothing]
  <1>1. under' = [under EXCEPT ![s] = r] /\ UNCHANGED <<file, inside>>
    BY DEF SetKey
  <1>2. lines' = [lines EXCEPT ![RunsIn[s]] = Append(@, s)]
    BY DEF SetKey
  <1>3. r \in [step : {"queued"}, key : {k}, graph : {g}, read : {Nothing}] /\ g \in Graph
    BY DEF Sane
  <1>4. \A t \in Skills : under'[t] = IF t = s THEN r ELSE under[t]
    BY <1>1 DEF DocumentsTypeOK
  <1>5. DocumentsTypeOK'
    BY <1>1, <1>2, <1>3 DEF DocumentsTypeOK
  <1>6. \A p \in Runs : lines[p] # <<>> => lines'[p] # <<>> /\ Head(lines'[p]) = Head(lines[p])
    <2> SUFFICES ASSUME NEW p \in Runs, lines[p] # <<>>
                 PROVE  lines'[p] # <<>> /\ Head(lines'[p]) = Head(lines[p])
      OBVIOUS
    <2>1. lines[p] \in Seq(Skills) /\ lines'[p] \in {lines[p], Append(lines[p], s)}
      BY <1>2 DEF DocumentsTypeOK
    <2> QED
      BY <2>1
  <1>7. WriterIsAlone'
    BY <1>1, <1>4, <1>6 DEF WriterIsAlone, FirstInLine
  <1>8. CopiesAreSane'
    BY <1>1, <1>4 DEF CopiesAreSane
  <1> QED
    BY <1>5, <1>7, <1>8

\* The first of a line leaves it, the only writer if it wrote.
LEMMA SetEndsKeeps ==
    ASSUME DocumentsInv, NEW s \in Skills, SetEnds(s), FirstInLine(s),
           \A t \in Skills : t # s /\ under[t].step = "writing" =>
               /\ RunsIn[t] # RunsIn[s] /\ under[t].read = file' /\ inside' = {RunsIn[t]},
           file' \in Files, \A k \in Keys : file'[k] # Nothing => Sane(file'[k])
    PROVE  DocumentsInv'
  <1> USE DocumentsAssumption DEF DocumentsInv
  <1>1. under' = [under EXCEPT ![s] = NotUnderWay] /\ lines' = [lines EXCEPT ![RunsIn[s]] = Tail(@)]
    BY DEF SetEnds
  <1>2. \A t \in Skills : under'[t] = IF t = s THEN NotUnderWay ELSE under[t]
    BY <1>1 DEF DocumentsTypeOK
  <1>3. NotUnderWay \in [step : {"idle"}, key : {Nothing}, graph : {Nothing}, read : {Nothing}]
    BY DEF NotUnderWay
  <1>4. Tail(lines[RunsIn[s]]) \in Seq(Skills)
    BY DEF DocumentsTypeOK, FirstInLine
  <1>5. DocumentsTypeOK'
    BY <1>1, <1>3, <1>4 DEF DocumentsTypeOK
  <1>6. \A p \in Runs : p # RunsIn[s] => lines'[p] = lines[p]
    BY <1>1 DEF DocumentsTypeOK
  <1>7. WriterIsAlone'
    BY <1>2, <1>3, <1>6 DEF WriterIsAlone, FirstInLine
  <1>8. CopiesAreSane'
    BY <1>2, <1>3 DEF CopiesAreSane
  <1> QED
    BY <1>5, <1>7, <1>8

LEMMA readKeeps ==
    ASSUME DocumentsInv, NEW s \in Skills, readAll(s)
    PROVE  DocumentsInv'
  <1> USE DocumentsAssumption DEF DocumentsInv
  <1>1. PICK r : r = [under[s] EXCEPT !.step = "writing", !.read = file]
    OBVIOUS
  <1>2. r \in [step : {"writing"}, key : {under[s].key}, graph : {under[s].graph}, read : {file}]
    BY <1>1 DEF DocumentsTypeOK
  <1>3. /\ \A t \in Skills : under'[t] = IF t = s THEN r ELSE under[t]
        /\ under' = [under EXCEPT ![s] = r]
    BY <1>1 DEF readAll, DocumentsTypeOK
  <1>4. /\ UNCHANGED <<file, lines>> /\ inside = {} /\ inside' = {RunsIn[s]}
        /\ FirstInLine(s) /\ under[s].step = "queued"
    BY DEF readAll, StorageLock!Enter
  <1>5. DocumentsTypeOK'
    BY <1>2, <1>3, <1>4 DEF DocumentsTypeOK
  <1>6. \A t \in Skills : under[t].step # "writing"
    BY <1>4 DEF WriterIsAlone
  <1>7. WriterIsAlone'
    BY <1>2, <1>3, <1>4, <1>6 DEF WriterIsAlone, FirstInLine
  <1>8. CopiesAreSane'
    BY <1>2, <1>3, <1>4 DEF CopiesAreSane
  <1> QED
    BY <1>5, <1>7, <1>8

\* Two writers would be the first of one line.
LEMMA OneWriter ==
    ASSUME DocumentsInv, NEW s \in Skills, NEW t \in Skills,
           under[s].step = "writing", under[t].step = "writing"
    PROVE  s = t
  <1>1. RunsIn[s] = RunsIn[t]
    BY DEF DocumentsInv, WriterIsAlone
  <1> QED
    BY <1>1 DEF DocumentsInv, WriterIsAlone, FirstInLine

LEMMA SetKeeps ==
    ASSUME DocumentsInv, NEW s \in Skills, writeAll(s) \/ setFails(s)
    PROVE  DocumentsInv'
  <1>1. CASE under[s].step = "writing"
    <2>1. \A t \in Skills : t # s => under[t].step # "writing"
      BY <1>1, OneWriter
    <2>2. FirstInLine(s) /\ SetEnds(s)
      BY <1>1 DEF DocumentsInv, WriterIsAlone, writeAll, setFails
    <2>3. file' = file \/ file' = [file EXCEPT ![under[s].key] = under[s].graph]
      BY <1>1 DEF DocumentsInv, WriterIsAlone, writeAll, setFails
    <2>4. under[s].key \in Keys /\ Sane(under[s].graph) /\ under[s].graph \in Graph
      BY <1>1 DEF DocumentsInv, CopiesAreSane, Sane
    <2>5. file' \in Files /\ \A k \in Keys : file'[k] # Nothing => Sane(file'[k])
      BY <2>3, <2>4 DEF DocumentsInv, CopiesAreSane, DocumentsTypeOK, Files
    <2> QED
      BY <2>1, <2>2, <2>5, SetEndsKeeps
  <1>2. CASE under[s].step # "writing"
    <2>1. FirstInLine(s) /\ SetEnds(s) /\ UNCHANGED <<file, inside>>
      BY <1>2 DEF writeAll, setFails
    <2>2. \A t \in Skills : t # s /\ under[t].step = "writing" =>
             RunsIn[t] # RunsIn[s] /\ under[t].read = file' /\ inside' = {RunsIn[t]}
      BY <2>1 DEF DocumentsInv, WriterIsAlone, FirstInLine
    <2>3. file' \in Files /\ \A k \in Keys : file'[k] # Nothing => Sane(file'[k])
      BY <2>1 DEF DocumentsInv, DocumentsTypeOK, CopiesAreSane
    <2> QED
      BY <2>1, <2>2, <2>3, SetEndsKeeps
  <1> QED
    BY <1>1, <1>2

LEMMA DiesKeeps ==
    ASSUME DocumentsInv, NEW p \in Runs, Dies(p)
    PROVE  DocumentsInv'
  <1> USE DocumentsAssumption DEF DocumentsInv
  <1>1. \A s \in Skills : under'[s] = IF RunsIn[s] = p THEN NotUnderWay ELSE under[s]
    BY DEF Dies
  <1>2. /\ under' = [s \in Skills |-> IF RunsIn[s] = p THEN NotUnderWay ELSE under[s]]
        /\ lines' = [lines EXCEPT ![p] = <<>>] /\ inside' = inside \ {p} /\ UNCHANGED file
    BY DEF Dies
  <1>3. NotUnderWay \in [step : {"idle"}, key : {Nothing}, graph : {Nothing}, read : {Nothing}]
    BY DEF NotUnderWay
  <1>4. <<>> \in Seq(Skills)
    OBVIOUS
  <1>5. DocumentsTypeOK'
    BY <1>2, <1>3, <1>4 DEF DocumentsTypeOK
  <1>6. \A q \in Runs : q # p => lines'[q] = lines[q]
    BY <1>2 DEF DocumentsTypeOK
  <1>7. WriterIsAlone'
    BY <1>1, <1>2, <1>3, <1>6 DEF WriterIsAlone, FirstInLine
  <1>8. CopiesAreSane'
    BY <1>1, <1>2, <1>3 DEF CopiesAreSane
  <1> QED
    BY <1>5, <1>7, <1>8

\* What a skill sets is the copy it loaded, made larger or smaller by one object, or as
\* it was; or a new document.
LEMMA SkillSets ==
    ASSUME DocumentsInv, NEW s \in Skills,
           \/ addLayer(s) \/ aiGenerateImage(s) \/ embedInCanvas(s) \/ embedInNote(s) \/ createTable(s)
           \/ \E k \in Keys : createCanvas(s, k) \/ createNote(s, k) \/ createDatabase(s, k)
           \/ \E o \in Objects : updateLayer(s, o) \/ deleteLayer(s, o) \/ aiTransformBlock(s, o) \/ insertRecord(s, o)
           \/ \E t, o \in Objects : updateRecord(s, t, o) \/ deleteRecord(s, t, o)
    PROVE  /\ under[s].step \in {"idle", "loaded"}
           /\ \E k \in Keys : \E g : Sane(g) /\ SetKey(s, k, g)
  <1> USE DocumentsAssumption DEF Objects
  <1>1. under[s].step = "loaded" => under[s].key \in Keys /\ Sane(Copy(s)) /\ Copy(s) # Nothing
    BY DEF DocumentsInv, CopiesAreSane, Copy
  <1>2. ASSUME NEW c \in Classes, NEW h, adds(s, c, h),
               (c # "record" /\ h = Root) \/ (c = "record" /\ h \in Objects /\ Copy(s).class[h] = "table")
        PROVE  under[s].step = "loaded" /\ \E k \in Keys : \E g : Sane(g) /\ SetKey(s, k, g)
    <2>1. under[s].step = "loaded" /\ Unused(s)
      BY <1>2 DEF adds
    <2>2. Copy(s).class[s] = "none"
      BY <2>1, <1>1 DEF Unused, Has, Copy
    <2>3. Sane(addObject(Copy(s), s, c, h))
      BY <1>1, <1>2, <2>1, <2>2, SaneAdd
    <2> QED
      BY <1>1, <1>2, <2>1, <2>3 DEF adds, saveDocument
  <1>3. ASSUME NEW o \in Objects, NEW c, rewrites(s, o, c)
        PROVE  under[s].step = "loaded" /\ \E k \in Keys : \E g : Sane(g) /\ SetKey(s, k, g)
    BY <1>1, <1>3 DEF rewrites, saveDocument
  <1>4. ASSUME NEW o \in Objects, NEW h \in Objects \cup {Root}, removes(s, o, h),
               (h = Root /\ Copy(s).class[o] = "layer") \/ h \in Objects
        PROVE  under[s].step = "loaded" /\ \E k \in Keys : \E g : Sane(g) /\ SetKey(s, k, g)
    <2>1. under[s].step = "loaded" /\ <<h, o>> \in Copy(s).links
      BY <1>4 DEF removes
    <2>2. Sane(removeObject(Copy(s), o, h))
      BY <1>1, <1>4, <2>1, SaneRemove
    <2> QED
      BY <1>1, <1>4, <2>1, <2>2 DEF removes, saveDocument
  <1>5. ASSUME NEW k \in Keys, NEW g, createGraph(s, k, g), Sane(g)
        PROVE  under[s].step = "idle" /\ \E l \in Keys : \E h : Sane(h) /\ SetKey(s, l, h)
    BY <1>5 DEF createGraph
  <1>6. CASE addLayer(s) \/ aiGenerateImage(s) \/ embedInCanvas(s) \/ embedInNote(s) \/ createTable(s)
    BY <1>6, <1>2 DEF addLayer, aiGenerateImage, embedInCanvas, embedInNote, createTable, Classes
  <1>7. CASE \E k \in Keys : createCanvas(s, k) \/ createNote(s, k) \/ createDatabase(s, k)
    <2>1. Sane(createDocument) /\ Sane(addObject(createDocument, s, "block", Root))
      BY SaneStart DEF Classes
    <2> QED
      BY <1>7, <1>5, <2>1 DEF createCanvas, createNote, createDatabase
  <1>8. CASE \E o \in Objects : updateLayer(s, o) \/ deleteLayer(s, o) \/ aiTransformBlock(s, o)
    BY <1>8, <1>3, <1>4 DEF updateLayer, deleteLayer, aiTransformBlock
  <1>9. CASE \E o \in Objects : insertRecord(s, o)
    BY <1>9, <1>2 DEF insertRecord, findTable, Classes
  <1>10. CASE \E t, o \in Objects : updateRecord(s, t, o) \/ deleteRecord(s, t, o)
    BY <1>10, <1>3, <1>4 DEF updateRecord, deleteRecord
  <1> QED
    BY <1>6, <1>7, <1>8, <1>9, <1>10

LEMMA LoadKeeps ==
    ASSUME DocumentsInv, NEW s \in Skills,
           skillFails(s) \/ \E k \in Keys : getDocument(s, k)
    PROVE  DocumentsInv'
  <1> USE DocumentsAssumption DEF DocumentsInv
  <1>1. PICK r \in [step : {"idle", "loaded"}, key : Keys \cup {Nothing},
                    graph : Graph \cup {Nothing}, read : Files \cup {Nothing}] :
           /\ under' = [under EXCEPT ![s] = r]
           /\ r.step # "idle" => r.key \in Keys /\ Sane(r.graph) /\ r.graph # Nothing
    <2>1. CASE skillFails(s)
      <3>1. NotUnderWay \in [step : {"idle"}, key : {Nothing}, graph : {Nothing}, read : {Nothing}]
        BY DEF NotUnderWay
      <3>2. under' = [under EXCEPT ![s] = NotUnderWay]
        BY <2>1 DEF skillFails
      <3> HIDE DEF NotUnderWay
      <3> QED
        BY <3>1, <3>2
    <2>2. CASE \E k \in Keys : getDocument(s, k)
      <3>1. PICK k \in Keys : getDocument(s, k)
        BY <2>2
      <3>2. file[k] # Nothing /\ Sane(file[k]) /\ file[k] \in Graph
        BY <3>1 DEF getDocument, CopiesAreSane, Sane
      <3>3. PICK l : l = [step |-> "loaded", key |-> k, graph |-> file[k], read |-> Nothing]
        OBVIOUS
      <3>4. l \in [step : {"loaded"}, key : {k}, graph : {file[k]}, read : {Nothing}]
        BY <3>3
      <3>5. under' = [under EXCEPT ![s] = l]
        BY <3>1, <3>3 DEF getDocument
      <3> QED
        BY <3>2, <3>4, <3>5
    <2> QED
      BY <2>1, <2>2
  <1>2. UNCHANGED <<file, lines, inside>>
    BY DEF skillFails, getDocument
  <1>3. \A t \in Skills : under'[t] = IF t = s THEN r ELSE under[t]
    BY <1>1 DEF DocumentsTypeOK
  <1>4. DocumentsTypeOK'
    BY <1>1, <1>2 DEF DocumentsTypeOK
  <1>5. WriterIsAlone'
    BY <1>1, <1>2, <1>3 DEF WriterIsAlone, FirstInLine
  <1>6. CopiesAreSane'
    BY <1>1, <1>2, <1>3 DEF CopiesAreSane
  <1> QED
    BY <1>4, <1>5, <1>6

LEMMA DocumentsStepKeeps ==
    ASSUME DocumentsInv, [DocumentsStep]_documents
    PROVE  DocumentsInv'
  <1>1. ASSUME NEW s \in Skills,
               \/ addLayer(s) \/ aiGenerateImage(s) \/ embedInCanvas(s) \/ embedInNote(s) \/ createTable(s)
               \/ \E k \in Keys : createCanvas(s, k) \/ createNote(s, k) \/ createDatabase(s, k)
               \/ \E o \in Objects : updateLayer(s, o) \/ deleteLayer(s, o) \/ aiTransformBlock(s, o) \/ insertRecord(s, o)
               \/ \E t, o \in Objects : updateRecord(s, t, o) \/ deleteRecord(s, t, o)
        PROVE  DocumentsInv'
    BY <1>1, SkillSets, SetKeyKeeps
  <1>2. ASSUME NEW s \in Skills,
               \/ readAll(s) \/ writeAll(s) \/ setFails(s) \/ skillFails(s)
               \/ \E k \in Keys : getDocument(s, k)
        PROVE  DocumentsInv'
    BY <1>2, readKeeps, SetKeeps, LoadKeeps
  <1>3. CASE UNCHANGED documents
    BY <1>3 DEF documents, DocumentsInv, DocumentsTypeOK, WriterIsAlone, FirstInLine, CopiesAreSane
  <1> QED
    BY <1>1, <1>2, <1>3, DiesKeeps DEF DocumentsStep

LEMMA InitDocumentsInv == InitDocuments => DocumentsInv
  <1> SUFFICES ASSUME InitDocuments PROVE DocumentsInv
    OBVIOUS
  <1> USE DocumentsAssumption
  <1>1. /\ under = [s \in Skills |-> NotUnderWay] /\ lines = [p \in Runs |-> <<>>]
        /\ plugin \in Plugins
        /\ file \in [Keys -> {Nothing, addObject(createDocument, First, FirstPart[plugin], Root)}]
    BY DEF InitDocuments
  <1>2. FirstPart[plugin] \in Classes \ {"record"} /\ First \in Objects
    BY <1>1 DEF Plugins, FirstPart, Classes, Objects
  <1>3. PICK g : g = addObject(createDocument, First, FirstPart[plugin], Root)
    OBVIOUS
  <1>4. Sane(g) /\ g \in Graph
    BY <1>2, <1>3, SaneStart DEF Sane
  <1>5. NotUnderWay \in [step : {"idle"}, key : {Nothing}, graph : {Nothing}, read : {Nothing}]
    BY DEF NotUnderWay
  <1>6. <<>> \in Seq(Skills)
    OBVIOUS
  <1>7. DocumentsTypeOK
    BY <1>1, <1>3, <1>4, <1>5, <1>6 DEF DocumentsTypeOK, Files
  <1>8. WriterIsAlone /\ CopiesAreSane
    BY <1>1, <1>3, <1>4, <1>5 DEF WriterIsAlone, CopiesAreSane
  <1> QED
    BY <1>7, <1>8 DEF DocumentsInv

\* Only a call's set changes the file, and only the document the call is about.
LEMMA OnlyItsDocument ==
    ASSUME DocumentsInv, [DocumentsStep]_documents, NEW k \in Keys, file'[k] # file[k]
    PROVE  \E s \in Skills : under[s].step = "writing" /\ under[s].key = k /\ file'[k] = under[s].graph
  <1>1. PICK s \in Skills : writeAll(s)
    <2>1. \A s \in Skills : readAll(s) \/ setFails(s) \/ skillFails(s) => file' = file
      BY DEF readAll, setFails, skillFails
    <2>2. \A p \in Runs : Dies(p) => file' = file
      BY DEF Dies
    <2>3. \A s \in Skills, l \in Keys : getDocument(s, l) => file' = file
      BY DEF getDocument
    <2>4. \A s \in Skills, l \in Keys : \A g : SetKey(s, l, g) => file' = file
      BY DEF SetKey
    <2>5. ASSUME NEW s \in Skills,
                 \/ addLayer(s) \/ aiGenerateImage(s) \/ embedInCanvas(s) \/ embedInNote(s) \/ createTable(s)
                 \/ \E l \in Keys : createCanvas(s, l) \/ createNote(s, l) \/ createDatabase(s, l)
                 \/ \E o \in Objects : updateLayer(s, o) \/ deleteLayer(s, o) \/ aiTransformBlock(s, o) \/ insertRecord(s, o)
                 \/ \E t, o \in Objects : updateRecord(s, t, o) \/ deleteRecord(s, t, o)
          PROVE  file' = file
      BY <2>4, <2>5, SkillSets
    <2>6. CASE UNCHANGED documents
      BY <2>6 DEF documents
    <2> QED
      BY <2>1, <2>2, <2>3, <2>5, <2>6 DEF DocumentsStep
  <1>2. under[s].step = "writing" /\ under[s].read = file
    BY <1>1 DEF writeAll, DocumentsInv, WriterIsAlone
  <1>3. file' = [file EXCEPT ![under[s].key] = under[s].graph]
    BY <1>1, <1>2 DEF writeAll
  <1> QED
    BY <1>2, <1>3 DEF DocumentsInv, DocumentsTypeOK, Files

LEMMA DocumentsAreKept == DocumentsSpec => DocumentsKept
  <1>1. DocumentsInv /\ [DocumentsStep]_documents =>
           [\A k \in Keys : file'[k] # file[k] =>
              \E s \in Skills : under[s].step = "writing" /\ under[s].key = k /\ file'[k] = under[s].graph]_documents
    BY OnlyItsDocument
  <1>2. DocumentsInv => StoredWhole
    BY DEF DocumentsInv, CopiesAreSane, StoredWhole, Sane
  <1> QED
    BY <1>1, <1>2, InitDocumentsInv, DocumentsStepKeeps, PTL DEF DocumentsSpec, DocumentsKept, OnlyOwnDocument

\* No mutation is lost, whatever overlaps: see NoMutationLost.
THEOREM MutationsKept == TasksSpec /\ DocumentsSpec => NoMutationLost
  BY ProjectIsKept, DocumentsAreKept DEF NoMutationLost

-----------------------------------------------------------------------------
(* The order of the work in a project: what its graphs reach, and that none of *)
(* the write paths closes a cycle or lets a task run ahead of another.         *)

\* A graph whose edges stay within it.
Within(g) == \A x \in DOMAIN g : g[x] \subseteq DOMAIN g

\* Closure is the smallest set that holds from and that the edges do not lead out of.
LEMMA ClosureIs ==
    ASSUME NEW g, Within(g), NEW from \in SUBSET DOMAIN g
    PROVE  /\ from \subseteq Closure(g, from) /\ Closure(g, from) \subseteq DOMAIN g
           /\ \A x \in Closure(g, from) : g[x] \subseteq Closure(g, from)
           /\ \A S \in SUBSET DOMAIN g :
                 from \subseteq S /\ (\A x \in S : g[x] \subseteq S) => Closure(g, from) \subseteq S
  <1> DEFINE Shut(S) == from \subseteq S /\ \A x \in S : g[x] \subseteq S
  <1>1. \A x : x \in Closure(g, from) <=> x \in DOMAIN g /\ \A S \in SUBSET DOMAIN g : Shut(S) => x \in S
    BY DEF Closure, ShutSets
  <1>2. ASSUME NEW x \in Closure(g, from), NEW y \in g[x] PROVE y \in Closure(g, from)
    <2>1. y \in DOMAIN g
      BY <1>1, <1>2 DEF Within
    <2>2. ASSUME NEW S \in SUBSET DOMAIN g, Shut(S) PROVE y \in S
      BY <1>1, <1>2, <2>2
    <2> QED
      BY <1>1, <2>1, <2>2
  <1> QED
    BY <1>1, <1>2

\* Acyclic says it with the sets themselves.
LEMMA AcyclicIs ==
    ASSUME NEW g
    PROVE  Acyclic(g) <=> \A x \in DOMAIN g : x \notin Closure(g, g[x])
  BY DEF Acyclic, Closure

LEMMA NothingFollows ==
    ASSUME NEW g, Within(g)
    PROVE  Closure(g, {}) \subseteq {}
  <1>1. PICK none \in SUBSET DOMAIN g : none = {}
    OBVIOUS
  <1>2. none \subseteq none /\ \A x \in none : g[x] \subseteq none
    BY <1>1
  <1>3. Closure(g, none) \subseteq none
    BY <1>2, ClosureIs
  <1> QED
    BY <1>1, <1>3

\* A node gets an edge to a set from which it is not reached, and may lose others.
LEMMA EdgeKeeps ==
    ASSUME NEW g, Within(g), Acyclic(g), NEW i \in DOMAIN g, NEW P \in SUBSET DOMAIN g,
           i \notin Closure(g, P),
           NEW h, DOMAIN h = DOMAIN g, h[i] \subseteq g[i] \cup P, \A x \in DOMAIN g : x # i => h[x] = g[x]
    PROVE  Within(h) /\ Acyclic(h)
  <1>1. Within(h)
    BY DEF Within
  <1> DEFINE C == Closure(g, P)
  <1>2. P \subseteq C /\ C \subseteq DOMAIN g /\ \A x \in C : g[x] \subseteq C
    BY ClosureIs
  <1>3. ASSUME NEW x \in DOMAIN g PROVE x \notin Closure(h, h[x])
    <2> DEFINE R == Closure(g, g[x])
    <2>1. /\ g[x] \subseteq R /\ R \subseteq DOMAIN g /\ \A y \in R : g[y] \subseteq R
          /\ \A S \in SUBSET DOMAIN g : g[x] \subseteq S /\ (\A y \in S : g[y] \subseteq S) => R \subseteq S
      <3>1. g[x] \in SUBSET DOMAIN g
        BY DEF Within
      <3> QED
        BY <3>1, ClosureIs
    <2>2. x \notin R
      BY AcyclicIs
    <2>3. h[x] \in SUBSET DOMAIN h
      BY <1>1 DEF Within
    <2>4. ASSUME NEW S \in SUBSET DOMAIN g, h[x] \subseteq S, \A y \in S : h[y] \subseteq S, x \notin S
          PROVE  x \notin Closure(h, h[x])
      BY <1>1, <2>3, <2>4, ClosureIs
    <2> HIDE DEF C, R
    <2>5. CASE i \notin R /\ x # i
      BY <2>1, <2>2, <2>4, <2>5
    <2>6. CASE x = i
      <3>1. x \notin R \cup C /\ h[x] \subseteq R \cup C
        BY <1>2, <2>1, <2>2, <2>6 DEF C
      <3>2. \A y \in R \cup C : h[y] \subseteq R \cup C
        BY <1>2, <2>1, <2>6, <3>1
      <3> QED
        BY <1>2, <2>1, <2>4, <3>1, <3>2
    <2>7. CASE i \in R /\ x # i
      <3>1. x \notin C
        BY <1>2, <2>1, <2>7 DEF C
      <3>2. h[x] \subseteq R \cup C
        BY <2>1, <2>7
      <3>3. \A y \in R \cup C : h[y] \subseteq R \cup C
        <4>1. h[i] \subseteq R \cup C
          BY <1>2, <2>1, <2>7
        <4> QED
          BY <1>2, <2>1, <4>1
      <3> QED
        BY <1>2, <2>1, <2>2, <2>4, <3>1, <3>2, <3>3
    <2> QED
      BY <2>5, <2>6, <2>7
  <1> QED
    BY <1>1, <1>3, AcyclicIs

\* A node that nothing leads to comes in.
LEMMA NodeKeeps ==
    ASSUME NEW g, Within(g), Acyclic(g), NEW i, i \notin DOMAIN g,
           NEW h, DOMAIN h = DOMAIN g \cup {i}, h[i] \subseteq DOMAIN g, \A x \in DOMAIN g : h[x] = g[x]
    PROVE  Within(h) /\ Acyclic(h)
  <1>1. Within(h)
    BY DEF Within
  <1>2. ASSUME NEW x \in DOMAIN h PROVE x \notin Closure(h, h[x])
    <2>1. h[x] \in SUBSET DOMAIN h
      BY <1>1 DEF Within
    <2>2. ASSUME NEW S \in SUBSET DOMAIN g, h[x] \subseteq S, \A y \in S : g[y] \subseteq S, x \notin S
          PROVE  x \notin Closure(h, h[x])
      <3>1. S \in SUBSET DOMAIN h /\ \A y \in S : h[y] \subseteq S
        BY <2>2
      <3> QED
        BY <1>1, <2>1, <2>2, <3>1, ClosureIs
    <2>3. CASE x = i
      BY <2>2, <2>3 DEF Within
    <2>4. CASE x # i
      <3>1. x \in DOMAIN g /\ g[x] \in SUBSET DOMAIN g /\ h[x] = g[x]
        BY <2>4 DEF Within
      <3>2. /\ g[x] \subseteq Closure(g, g[x]) /\ Closure(g, g[x]) \subseteq DOMAIN g
            /\ \A y \in Closure(g, g[x]) : g[y] \subseteq Closure(g, g[x])
        BY <3>1, ClosureIs
      <3>3. x \notin Closure(g, g[x])
        BY <3>1, AcyclicIs
      <3> QED
        BY <2>2, <3>1, <3>2, <3>3
    <2> QED
      BY <2>3, <2>4
  <1> QED
    BY <1>1, <1>2, AcyclicIs

\* A project whose graphs are over its own tasks and acyclic, its two dependency
\* fields one graph.
Ordered(d) ==
    /\ d \in [tasks : {d.tasks}, members : {d.members}]
    /\ d.tasks \in [DOMAIN d.tasks -> Task] /\ DOMAIN d.tasks \subseteq Ids /\ IsFiniteSet(DOMAIN d.tasks)
    /\ \A i \in DOMAIN d.tasks : d.tasks[i].deps \in {d.tasks[i].preds, Absent}
    /\ Within(PredecessorGraph(d)) /\ Acyclic(PredecessorGraph(d))
    /\ Within(ParentGraph(d)) /\ Acyclic(ParentGraph(d))

\* What DoneInOrder says of a step from d to e.
InOrder(d, e) ==
    \A i \in DOMAIN e.tasks :
       LET now == e.tasks[i].status
           was == IF i \in DOMAIN d.tasks THEN d.tasks[i].status ELSE "open"
       IN now \in {"in-progress", "done"} /\ now # was
             => \A j \in dependenciesOf(e.tasks[i]) : e.tasks[j].status = "done"

\* The same tasks with the same places in the graphs.
SamePlaces(d, e) ==
    /\ DOMAIN e.tasks = DOMAIN d.tasks
    /\ \A i \in DOMAIN d.tasks : /\ e.tasks[i].parent = d.tasks[i].parent
                                 /\ e.tasks[i].preds = d.tasks[i].preds
                                 /\ e.tasks[i].deps = d.tasks[i].deps

Shapely(e) ==
    e \in [tasks : {e.tasks}, members : {e.members}] /\ e.tasks \in [DOMAIN e.tasks -> Task]

LEMMA PlacesKeep ==
    ASSUME NEW d, Ordered(d), NEW e, Shapely(e), SamePlaces(d, e)
    PROVE  Ordered(e) /\ childrenOf(e) = childrenOf(d)
  <1>1. PredecessorGraph(e) = PredecessorGraph(d) /\ ParentGraph(e) = ParentGraph(d)
    BY DEF SamePlaces, PredecessorGraph, ParentGraph
  <1>2. childrenOf(e) = childrenOf(d)
    BY DEF SamePlaces, childrenOf
  <1> QED
    BY <1>1, <1>2 DEF Ordered, SamePlaces, Shapely

\* Who the tasks belong to and how they are delegated is not their order.
LEMMA SameWork ==
    ASSUME NEW d, Ordered(d), NEW e, Shapely(e), SamePlaces(d, e),
           \A i \in DOMAIN d.tasks : e.tasks[i].status = d.tasks[i].status
    PROVE  Ordered(e) /\ InOrder(d, e)
  <1>1. InOrder(d, e)
    BY DEF InOrder, SamePlaces
  <1> QED
    BY <1>1, PlacesKeep

\* In an ordered project the task that waits is not among those it waits for.
LEMMA NotItsOwn ==
    ASSUME NEW d, Ordered(d), NEW i \in DOMAIN d.tasks
    PROVE  /\ dependenciesOf(d.tasks[i]) = d.tasks[i].preds
           /\ d.tasks[i].preds \subseteq DOMAIN d.tasks \ {i}
  <1>1. dependenciesOf(d.tasks[i]) = d.tasks[i].preds
    BY DEF Ordered, dependenciesOf
  <1> DEFINE g == PredecessorGraph(d)
  <1>2. i \in DOMAIN g /\ DOMAIN g = DOMAIN d.tasks /\ g[i] = d.tasks[i].preds
    BY DEF PredecessorGraph
  <1>3. Within(g) /\ Acyclic(g)
    BY DEF Ordered
  <1> HIDE DEF g
  <1>4. g[i] \in SUBSET DOMAIN g /\ i \notin Closure(g, g[i])
    BY <1>2, <1>3, AcyclicIs DEF Within
  <1>5. g[i] \subseteq Closure(g, g[i])
    BY <1>3, <1>4, ClosureIs
  <1> QED
    BY <1>1, <1>2, <1>4, <1>5

\* A task's status is set, and its descendants follow it to done: n is m with the new
\* status, and the dependencies were asked of either.
LEMMA StatusKeeps ==
    ASSUME NEW m, Ordered(m), NEW i \in DOMAIN m.tasks, NEW st \in Statuses,
           NEW n, Shapely(n), SamePlaces(m, n), n.tasks[i].status = st,
           \A k \in DOMAIN m.tasks : k # i => n.tasks[k].status = m.tasks[k].status,
           MayTake(m, i, st) \/ MayTake(n, i, st)
    PROVE  Ordered(cascadeDone(n, i, st)) /\ InOrder(m, cascadeDone(n, i, st))
  <1>1. Ordered(n) /\ childrenOf(n) = childrenOf(m) /\ DOMAIN n.tasks = DOMAIN m.tasks
    BY PlacesKeep DEF SamePlaces
  <1>2. PICK c \in {m, n} : MayTake(c, i, st)
    OBVIOUS
  <1>3. PICK T : T = Subtree(m, i) /\ T = Subtree(n, i) /\ T = Subtree(c, i)
    BY <1>1 DEF Subtree
  <1>4. i \in T
    <2>1. Within(childrenOf(m)) /\ DOMAIN childrenOf(m) = DOMAIN m.tasks
      BY DEF childrenOf, Within
    <2>2. {i} \in SUBSET DOMAIN childrenOf(m)
      BY <2>1
    <2> QED
      BY <1>3, <2>1, <2>2, ClosureIs DEF Subtree
  <1>5. \A k \in DOMAIN m.tasks :
           /\ dependenciesOf(m.tasks[k]) = m.tasks[k].preds /\ dependenciesOf(n.tasks[k]) = m.tasks[k].preds
           /\ dependenciesOf(c.tasks[k]) = m.tasks[k].preds
           /\ m.tasks[k].preds \subseteq DOMAIN m.tasks \ {k}
    BY <1>1, NotItsOwn DEF SamePlaces
  <1>6. \A k \in DOMAIN m.tasks : blockingDependencies(c, k) = {}
            => \A j \in m.tasks[k].preds : c.tasks[j].status = "done"
    BY <1>5 DEF blockingDependencies
  <1>7. CASE st = "done"
    <2> DEFINE e == cascadeDone(n, i, st)
    <2>1. e = [n EXCEPT !.tasks = [j \in DOMAIN n.tasks |->
                 IF j \in T \ {i} THEN [n.tasks[j] EXCEPT !.status = "done"] ELSE n.tasks[j]]]
      BY <1>3, <1>7 DEF cascadeDone
    <2>2. /\ e \in [tasks : {e.tasks}, members : {e.members}]
          /\ e.tasks = [j \in DOMAIN n.tasks |->
                 IF j \in T \ {i} THEN [n.tasks[j] EXCEPT !.status = "done"] ELSE n.tasks[j]]
      BY <2>1 DEF Shapely
    <2> HIDE DEF e
    <2>3. \A j \in DOMAIN n.tasks : n.tasks[j] \in Task
      BY DEF Shapely
    <2>4. \A j \in DOMAIN n.tasks :
             /\ e.tasks[j] \in Task /\ e.tasks[j].parent = n.tasks[j].parent
             /\ e.tasks[j].preds = n.tasks[j].preds /\ e.tasks[j].deps = n.tasks[j].deps
             /\ e.tasks[j].status = IF j \in T THEN "done" ELSE n.tasks[j].status
      BY <1>1, <1>4, <1>7, <2>2, <2>3 DEF Task, Statuses
    <2>5. Ordered(e)
      <3>1. Shapely(e) /\ SamePlaces(n, e)
        BY <2>2, <2>4 DEF Shapely, SamePlaces
      <3> QED
        BY <1>1, <3>1, PlacesKeep
    <2>6. \A k \in T : blockingDependencies(c, k) = {}
      BY <1>2, <1>3, <1>7 DEF MayTake, assertCanComplete
    <2>7. ASSUME NEW k \in DOMAIN e.tasks, e.tasks[k].status # m.tasks[k].status,
                 NEW j \in dependenciesOf(e.tasks[k])
          PROVE  e.tasks[j].status = "done"
      <3>1. k \in DOMAIN m.tasks /\ k \in DOMAIN n.tasks
        BY <1>1, <2>2, <2>7
      <3>2. k \in T
        BY <1>4, <2>4, <2>7, <3>1
      <3>3. j \in m.tasks[k].preds /\ j \in DOMAIN m.tasks
        <4>1. dependenciesOf(e.tasks[k]) = dependenciesOf(n.tasks[k])
          BY <2>4, <3>1 DEF dependenciesOf
        <4> QED
          BY <1>5, <2>7, <3>1, <4>1
      <3>4. c.tasks[j].status = "done"
        BY <1>6, <2>6, <3>1, <3>2, <3>3
      <3>5. n.tasks[j].status = "done"
        BY <1>2, <1>7, <3>3, <3>4
      <3> QED
        BY <1>1, <2>4, <3>3, <3>5
    <2>8. InOrder(m, e)
      BY <1>1, <2>2, <2>7 DEF InOrder
    <2> QED
      BY <2>5, <2>8 DEF e
  <1>8. CASE st # "done"
    <2>1. cascadeDone(n, i, st) = n
      BY <1>8 DEF cascadeDone
    <2>2. ASSUME NEW k \in DOMAIN n.tasks, n.tasks[k].status \in {"in-progress", "done"},
                 n.tasks[k].status # m.tasks[k].status, NEW j \in dependenciesOf(n.tasks[k])
          PROVE  n.tasks[j].status = "done"
      <3>1. k = i /\ st = "in-progress"
        BY <1>1, <1>8, <2>2
      <3>2. blockingDependencies(c, i) = {}
        BY <1>2, <3>1 DEF MayTake, assertCanStart
      <3>3. j \in m.tasks[i].preds /\ j \in DOMAIN m.tasks /\ j # i
        BY <1>1, <1>5, <2>2, <3>1
      <3>4. c.tasks[j].status = "done"
        BY <1>6, <3>2, <3>3
      <3> QED
        BY <1>2, <3>3, <3>4
    <2>3. InOrder(m, n)
      BY <1>1, <2>2 DEF InOrder
    <2> QED
      BY <1>1, <2>1, <2>3
  <1> QED
    BY <1>7, <1>8

\* One task of a project is written.
LEMMA OneWritten ==
    ASSUME NEW d, Ordered(d), NEW i \in DOMAIN d.tasks, NEW t \in Task, NEW e, e = [d EXCEPT !.tasks[i] = t]
    PROVE  /\ Shapely(e) /\ DOMAIN e.tasks = DOMAIN d.tasks /\ e.tasks[i] = t
           /\ \A k \in DOMAIN d.tasks : k # i => e.tasks[k] = d.tasks[k]
  <1>1. e \in [tasks : {e.tasks}, members : {e.members}] /\ e.tasks = [d.tasks EXCEPT ![i] = t]
    BY DEF Ordered
  <1> QED
    BY <1>1 DEF Ordered, Shapely

LEMMA ParentKeeps ==
    ASSUME NEW d, Ordered(d), NEW i \in DOMAIN d.tasks, NEW parent \in DOMAIN d.tasks \cup {NoTask},
           parent # d.tasks[i].parent => ~wouldCreateParentCycle(d, i, parent),
           NEW e, Shapely(e), DOMAIN e.tasks = DOMAIN d.tasks,
           \A k \in DOMAIN d.tasks :
              /\ e.tasks[k].parent = IF k = i THEN parent ELSE d.tasks[k].parent
              /\ e.tasks[k].preds = d.tasks[k].preds /\ e.tasks[k].deps = d.tasks[k].deps
    PROVE  Ordered(e)
  <1>1. PredecessorGraph(e) = PredecessorGraph(d)
    BY DEF PredecessorGraph
  <1> DEFINE g == ParentGraph(d)
             h == ParentGraph(e)
             P == IF parent = d.tasks[i].parent THEN {} ELSE {parent} \ {NoTask}
  <1>2. /\ DOMAIN g = DOMAIN d.tasks /\ DOMAIN h = DOMAIN g
        /\ \A x \in DOMAIN g : x # i => h[x] = g[x]
        /\ h[i] \subseteq g[i] \cup P /\ P \in SUBSET DOMAIN g
    BY DEF ParentGraph
  <1>3. Within(g) /\ Acyclic(g)
    BY DEF Ordered
  <1>4. i \notin Closure(g, P)
    <2>1. CASE P = {}
      <3>1. Closure(g, {}) \subseteq {}
        BY <1>3, NothingFollows
      <3> QED
        BY <2>1, <3>1
    <2>2. CASE P # {}
      <3>1. P = {parent} /\ ~wouldCreateParentCycle(d, i, parent) /\ parent # NoTask
        BY <2>2
      <3> QED
        BY <3>1 DEF wouldCreateParentCycle
    <2> QED
      BY <2>1, <2>2
  <1> HIDE DEF g, h, P
  <1>5. Within(h) /\ Acyclic(h)
    BY <1>2, <1>3, <1>4, EdgeKeeps
  <1> QED
    BY <1>1, <1>5 DEF Ordered, Shapely, h

\* addTask and CREATE_SUBTASK: nothing waits for a new task, and it waits for none.
LEMMA AddKeeps ==
    ASSUME NEW d, Ordered(d), NEW i \in Ids \ DOMAIN d.tasks, NEW parent \in DOMAIN d.tasks \cup {NoTask},
           NEW st \in Statuses
    PROVE  Ordered(Added(d, i, NewTask(parent, st))) /\ InOrder(d, Added(d, i, NewTask(parent, st)))
  <1> DEFINE t == NewTask(parent, st)
  <1>1. PICK e : e = Added(d, i, t)
    OBVIOUS
  <1>2. t \in Task /\ t.parent = parent /\ t.preds = {} /\ t.deps = {} /\ t.status = st
    BY DEF NewTask, Task, Ordered
  <1> HIDE DEF t
  <1>3. /\ e \in [tasks : {e.tasks}, members : {e.members}]
        /\ e.tasks = [j \in DOMAIN d.tasks \cup {i} |-> IF j = i THEN t ELSE d.tasks[j]]
    BY <1>1 DEF Added, Ordered
  <1>4. /\ DOMAIN e.tasks = DOMAIN d.tasks \cup {i} /\ DOMAIN e.tasks \subseteq Ids /\ e.tasks[i] = t
        /\ \A j \in DOMAIN d.tasks : e.tasks[j] = d.tasks[j]
        /\ e.tasks \in [DOMAIN e.tasks -> Task]
    BY <1>2, <1>3 DEF Ordered
  <1>5. Within(PredecessorGraph(e)) /\ Acyclic(PredecessorGraph(e))
    <2> DEFINE g == PredecessorGraph(d)
               h == PredecessorGraph(e)
    <2>1. /\ DOMAIN g = DOMAIN d.tasks /\ DOMAIN h = DOMAIN g \cup {i} /\ h[i] = {}
          /\ \A x \in DOMAIN g : h[x] = g[x]
      BY <1>2, <1>4 DEF PredecessorGraph
    <2>2. Within(g) /\ Acyclic(g)
      BY DEF Ordered
    <2> HIDE DEF g, h
    <2>3. Within(h) /\ Acyclic(h)
      BY <2>1, <2>2, NodeKeeps
    <2> QED
      BY <2>3 DEF h
  <1>6. Within(ParentGraph(e)) /\ Acyclic(ParentGraph(e))
    <2> DEFINE g == ParentGraph(d)
               h == ParentGraph(e)
    <2>1. /\ DOMAIN g = DOMAIN d.tasks /\ DOMAIN h = DOMAIN g \cup {i} /\ h[i] \subseteq DOMAIN g
          /\ \A x \in DOMAIN g : h[x] = g[x]
      BY <1>2, <1>4 DEF ParentGraph
    <2>2. Within(g) /\ Acyclic(g)
      BY DEF Ordered
    <2> HIDE DEF g, h
    <2>3. Within(h) /\ Acyclic(h)
      BY <2>1, <2>2, NodeKeeps
    <2> QED
      BY <2>3 DEF h
  <1>7. \A j \in DOMAIN e.tasks : e.tasks[j].deps \in {e.tasks[j].preds, Absent}
    BY <1>2, <1>4 DEF Ordered
  <1>8. InOrder(d, e)
    BY <1>2, <1>4 DEF InOrder, dependenciesOf
  <1>9. IsFiniteSet(DOMAIN e.tasks)
    BY <1>4, FS_AddElement DEF Ordered
  <1>10. Ordered(e)
    BY <1>3, <1>4, <1>5, <1>6, <1>7, <1>9 DEF Ordered
  <1> QED
    BY <1>1, <1>8, <1>10 DEF t

\* setTaskDependency asks about one edge of the predecessors, setTaskDependencies about
\* the whole graph that would be stored.
LEMMA LinkKeeps ==
    ASSUME NEW d, Ordered(d), NEW i \in DOMAIN d.tasks, NEW ids \in SUBSET DOMAIN d.tasks,
           \/ \E p \in DOMAIN d.tasks : /\ ids = d.tasks[i].preds \cup {p}
                                        /\ p \in d.tasks[i].preds \/ ~wouldCreateCycle(d, i, p)
           \/ ~wouldCreateDependencyCycle(d, i, ids)
    PROVE  /\ Ordered(syncDependencyFields(d, i, ids)) /\ InOrder(d, syncDependencyFields(d, i, ids))
  <1>1. PICK e : e = syncDependencyFields(d, i, ids)
    OBVIOUS
  <1>2. PICK t : t = [[d.tasks[i] EXCEPT !.deps = ids] EXCEPT !.preds = ids]
    OBVIOUS
  <1>3. d.tasks[i] \in Task /\ DOMAIN d.tasks \subseteq Ids
    BY DEF Ordered
  <1>4. t \in Task /\ t.preds = ids /\ t.deps = ids /\ t.parent = d.tasks[i].parent /\ t.status = d.tasks[i].status
    BY <1>2, <1>3 DEF Task
  <1>5. e = [d EXCEPT !.tasks[i] = t]
    BY <1>1, <1>2 DEF syncDependencyFields, Ordered
  <1>6. /\ Shapely(e) /\ DOMAIN e.tasks = DOMAIN d.tasks /\ e.tasks[i] = t
        /\ \A k \in DOMAIN d.tasks : k # i => e.tasks[k] = d.tasks[k]
    BY <1>4, <1>5, OneWritten
  <1> DEFINE g == PredecessorGraph(d)
             h == PredecessorGraph(e)
  <1>7. /\ DOMAIN g = DOMAIN d.tasks /\ DOMAIN h = DOMAIN g
        /\ \A x \in DOMAIN g : x # i => h[x] = g[x]
        /\ h[i] = ids /\ g[i] = d.tasks[i].preds
    BY <1>4, <1>6 DEF PredecessorGraph
  <1>8. Within(g) /\ Acyclic(g)
    BY DEF Ordered
  <1>9. Within(h) /\ Acyclic(h)
    <2>1. ASSUME NEW p \in DOMAIN d.tasks, ids = d.tasks[i].preds \cup {p},
                 p \in d.tasks[i].preds \/ ~wouldCreateCycle(d, i, p)
          PROVE  Within(h) /\ Acyclic(h)
      <3>1. CASE p \in d.tasks[i].preds
        <4>1. h = g
          <5>1. ids = d.tasks[i].preds
            BY <2>1, <3>1
          <5> QED
            BY <1>4, <1>6, <5>1 DEF PredecessorGraph
        <4> QED
          BY <1>8, <4>1
      <3>2. CASE ~wouldCreateCycle(d, i, p)
        <4>1. i \notin Closure(g, {p}) /\ {p} \in SUBSET DOMAIN g /\ h[i] \subseteq g[i] \cup {p}
          BY <1>7, <2>1, <3>2 DEF wouldCreateCycle
        <4>2. \A x \in DOMAIN g : x # i => h[x] = g[x]
          BY <1>7
        <4>3. i \in DOMAIN g /\ DOMAIN h = DOMAIN g
          BY <1>7
        <4> HIDE DEF g, h
        <4> QED
          BY <1>8, <4>1, <4>2, <4>3, EdgeKeeps
      <3> QED
        BY <2>1, <3>1, <3>2
    <2>2. CASE ~wouldCreateDependencyCycle(d, i, ids)
      <3>1. h = [DependencyGraph(d) EXCEPT ![i] = ids]
        <4>1. DependencyGraph(d) = g
          BY NotItsOwn DEF DependencyGraph, PredecessorGraph
        <4>2. h = [x \in DOMAIN g |-> IF x = i THEN ids ELSE g[x]]
          BY <1>4, <1>6 DEF PredecessorGraph
        <4>3. [g EXCEPT ![i] = ids] = [x \in DOMAIN g |-> IF x = i THEN ids ELSE g[x]]
          BY <1>7 DEF PredecessorGraph
        <4> QED
          BY <4>1, <4>2, <4>3
      <3>2. Acyclic(h)
        BY <2>2, <3>1 DEF wouldCreateDependencyCycle
      <3> HIDE DEF g, h
      <3>3. Within(h)
        BY <1>7, <1>8 DEF Within
      <3> QED
        BY <3>2, <3>3
    <2> QED
      BY <2>1, <2>2
  <1>10. ParentGraph(e) = ParentGraph(d)
    BY <1>4, <1>6 DEF ParentGraph
  <1>11. \A k \in DOMAIN e.tasks : e.tasks[k].deps \in {e.tasks[k].preds, Absent}
    BY <1>4, <1>6 DEF Ordered
  <1>12. Ordered(e)
    BY <1>6, <1>9, <1>10, <1>11 DEF Ordered, Shapely
  <1>13. InOrder(d, e)
    BY <1>4, <1>6 DEF InOrder
  <1> QED
    BY <1>1, <1>12, <1>13

\* updateTask: the task may move first, and its status is set in its new place.
LEMMA UpdateKeeps ==
    ASSUME NEW d, Ordered(d), NEW i \in DOMAIN d.tasks, NEW st \in Statuses \cup {"same"},
           NEW parent \in DOMAIN d.tasks \cup {NoTask, d.tasks[i].parent},
           parent # d.tasks[i].parent => ~wouldCreateParentCycle(d, i, parent),
           NEW moved, moved = [d EXCEPT !.tasks[i].status = IF st = "same" THEN @ ELSE st,
                                        !.tasks[i].parent = parent],
           MayTake(moved, i, st)
    PROVE  Ordered(cascadeDone(moved, i, st)) /\ InOrder(d, cascadeDone(moved, i, st))
  <1>1. d.tasks[i] \in Task /\ parent \in Ids \cup {NoTask}
    BY DEF Ordered, Task
  <1>2. parent \in DOMAIN d.tasks \cup {NoTask}
    <2>1. i \in DOMAIN ParentGraph(d) /\ ParentGraph(d)[i] = {d.tasks[i].parent} \ {NoTask}
          /\ DOMAIN ParentGraph(d) = DOMAIN d.tasks
      BY DEF ParentGraph
    <2> QED
      BY <2>1 DEF Ordered, Within
  <1>3. PICK t : t = [d.tasks[i] EXCEPT !.parent = parent]
    OBVIOUS
  <1>4. /\ t \in Task /\ t.parent = parent /\ t.preds = d.tasks[i].preds /\ t.deps = d.tasks[i].deps
        /\ t.status = d.tasks[i].status
    BY <1>1, <1>3 DEF Task
  <1>5. PICK m : m = [d EXCEPT !.tasks[i] = t]
    OBVIOUS
  <1>6. /\ Shapely(m) /\ DOMAIN m.tasks = DOMAIN d.tasks /\ m.tasks[i] = t
        /\ \A k \in DOMAIN d.tasks : k # i => m.tasks[k] = d.tasks[k]
    BY <1>4, <1>5, OneWritten
  <1>7. Ordered(m)
    <2>1. \A k \in DOMAIN d.tasks :
             /\ m.tasks[k].parent = IF k = i THEN parent ELSE d.tasks[k].parent
             /\ m.tasks[k].preds = d.tasks[k].preds /\ m.tasks[k].deps = d.tasks[k].deps
      BY <1>4, <1>6
    <2> QED
      BY <1>2, <1>6, <2>1, ParentKeeps
  <1>8. PICK v : v = IF st = "same" THEN d.tasks[i].status ELSE st
    OBVIOUS
  <1>9. PICK w : w = [d.tasks[i] EXCEPT !.status = v]
    OBVIOUS
  <1>10. PICK u : u = [w EXCEPT !.parent = parent]
    OBVIOUS
  <1>11. /\ Shapely(moved) /\ DOMAIN moved.tasks = DOMAIN m.tasks /\ moved.tasks[i] = u
         /\ \A k \in DOMAIN m.tasks : k # i => moved.tasks[k] = m.tasks[k]
         /\ u \in Task /\ u.parent = parent /\ u.preds = t.preds /\ u.deps = t.deps /\ u.status = v
    <2>1. v \in Statuses
      BY <1>1, <1>8 DEF Task
    <2>2. w \in Task /\ w.preds = t.preds /\ w.deps = t.deps /\ w.status = v
      BY <1>1, <1>4, <1>9, <2>1 DEF Task
    <2>3. u \in Task /\ u.parent = parent /\ u.preds = t.preds /\ u.deps = t.deps /\ u.status = v
      BY <1>1, <1>10, <2>2 DEF Task
    <2>4. PICK n : n = [d EXCEPT !.tasks[i] = w]
      OBVIOUS
    <2>5. /\ Shapely(n) /\ DOMAIN n.tasks = DOMAIN d.tasks /\ n.tasks[i] = w
          /\ \A k \in DOMAIN d.tasks : k # i => n.tasks[k] = d.tasks[k]
      BY <2>2, <2>4, OneWritten
    <2>6. moved = [n EXCEPT !.tasks[i].parent = parent]
      BY <1>8, <1>9, <2>4
    <2>7. moved.tasks = [n.tasks EXCEPT ![i] = u] /\ moved \in [tasks : {moved.tasks}, members : {moved.members}]
      BY <1>10, <2>5, <2>6 DEF Shapely
    <2>8. /\ DOMAIN moved.tasks = DOMAIN n.tasks /\ moved.tasks[i] = u
          /\ \A k \in DOMAIN n.tasks : k # i => moved.tasks[k] = n.tasks[k]
          /\ moved.tasks \in [DOMAIN n.tasks -> Task]
      BY <2>3, <2>5, <2>7 DEF Shapely
    <2> QED
      BY <1>6, <2>3, <2>5, <2>7, <2>8 DEF Shapely
  <1>12. SamePlaces(m, moved)
    BY <1>4, <1>6, <1>11 DEF SamePlaces
  <1>13. PICK e : e = cascadeDone(moved, i, st)
    OBVIOUS
  <1>14. Ordered(e) /\ InOrder(m, e)
    <2>1. CASE st = "same"
      <3>1. e = moved
        BY <1>13, <2>1 DEF cascadeDone
      <3>2. \A k \in DOMAIN m.tasks : moved.tasks[k].status = m.tasks[k].status
        BY <1>4, <1>6, <1>8, <1>11, <2>1
      <3> QED
        BY <1>7, <1>11, <1>12, <3>1, <3>2, SameWork
    <2>2. CASE st \in Statuses
      <3>1. moved.tasks[i].status = st /\ i \in DOMAIN m.tasks
        BY <1>6, <1>8, <1>11, <2>2 DEF Statuses
      <3>2. Shapely(moved) /\ \A k \in DOMAIN m.tasks : k # i => moved.tasks[k].status = m.tasks[k].status
        BY <1>11
      <3>3. Ordered(cascadeDone(moved, i, st)) /\ InOrder(m, cascadeDone(moved, i, st))
        BY <1>7, <1>12, <2>2, <3>1, <3>2, StatusKeeps
      <3> QED
        BY <1>13, <3>3
    <2> QED
      BY <2>1, <2>2
  <1>15. InOrder(d, e)
    <2>1. \A k \in DOMAIN d.tasks : m.tasks[k].status = d.tasks[k].status
      BY <1>4, <1>6
    <2> QED
      BY <1>6, <1>14, <2>1 DEF InOrder
  <1> QED
    BY <1>13, <1>14, <1>15

LEMMA TakesKeep ==
    ASSUME NEW d, Ordered(d), NEW i \in DOMAIN d.tasks, NEW st \in Statuses, MayTake(d, i, st)
    PROVE  /\ Ordered(cascadeDone([d EXCEPT !.tasks[i].status = st], i, st))
           /\ InOrder(d, cascadeDone([d EXCEPT !.tasks[i].status = st], i, st))
  <1>1. PICK t : t = [d.tasks[i] EXCEPT !.status = st]
    OBVIOUS
  <1>2. /\ t \in Task /\ t.parent = d.tasks[i].parent /\ t.preds = d.tasks[i].preds
        /\ t.deps = d.tasks[i].deps /\ t.status = st
    BY <1>1 DEF Task, Ordered
  <1>3. PICK n : n = [d EXCEPT !.tasks[i] = t]
    OBVIOUS
  <1>4. n = [d EXCEPT !.tasks[i].status = st]
    BY <1>1, <1>3
  <1>5. /\ Shapely(n) /\ DOMAIN n.tasks = DOMAIN d.tasks /\ n.tasks[i] = t
        /\ \A k \in DOMAIN d.tasks : k # i => n.tasks[k] = d.tasks[k]
    BY <1>2, <1>3, OneWritten
  <1>6. SamePlaces(d, n)
    BY <1>2, <1>5 DEF SamePlaces
  <1>7. Ordered(cascadeDone(n, i, st)) /\ InOrder(d, cascadeDone(n, i, st))
    BY <1>2, <1>5, <1>6, StatusKeeps
  <1> QED
    BY <1>4, <1>7

LEMMA MoveKeepsOrder ==
    ASSUME NEW d, Ordered(d), NEW i \in DOMAIN d.tasks, NEW parent \in DOMAIN d.tasks \cup {NoTask},
           ~wouldCreateParentCycle(d, i, parent)
    PROVE  Ordered([d EXCEPT !.tasks[i].parent = parent]) /\ InOrder(d, [d EXCEPT !.tasks[i].parent = parent])
  <1>1. PICK t : t = [d.tasks[i] EXCEPT !.parent = parent]
    OBVIOUS
  <1>2. /\ t \in Task /\ t.parent = parent /\ t.preds = d.tasks[i].preds
        /\ t.deps = d.tasks[i].deps /\ t.status = d.tasks[i].status
    BY <1>1 DEF Task, Ordered
  <1>3. PICK e : e = [d EXCEPT !.tasks[i] = t]
    OBVIOUS
  <1>4. e = [d EXCEPT !.tasks[i].parent = parent]
    BY <1>1, <1>3
  <1>5. /\ Shapely(e) /\ DOMAIN e.tasks = DOMAIN d.tasks /\ e.tasks[i] = t
        /\ \A k \in DOMAIN d.tasks : k # i => e.tasks[k] = d.tasks[k]
    BY <1>2, <1>3, OneWritten
  <1>6. Ordered(e)
    BY <1>2, <1>5, ParentKeeps
  <1>7. InOrder(d, e)
    BY <1>2, <1>5 DEF InOrder
  <1> QED
    BY <1>4, <1>6, <1>7

\* A delegation, or the answer to one.
LEMMA DelegationKeeps ==
    ASSUME NEW d, Ordered(d), NEW i \in DOMAIN d.tasks, NEW t \in Task,
           t.parent = d.tasks[i].parent, t.preds = d.tasks[i].preds,
           t.deps = d.tasks[i].deps, t.status = d.tasks[i].status,
           NEW e, e.tasks = [d.tasks EXCEPT ![i] = t], e \in [tasks : {e.tasks}, members : {e.members}]
    PROVE  Ordered(e) /\ InOrder(d, e)
  <1>1. Shapely(e) /\ SamePlaces(d, e)
    BY DEF Shapely, SamePlaces, Ordered
  <1>2. \A k \in DOMAIN d.tasks : e.tasks[k].status = d.tasks[k].status
    OBVIOUS
  <1> QED
    BY <1>1, <1>2, SameWork

LEMMA OrderStep ==
    ASSUME ProjectInv, Ordered(doc), [TasksStep]_tasksVars
    PROVE  Ordered(doc)' /\ InOrder(doc, doc')
  <1>1. ASSUME UNCHANGED doc PROVE Ordered(doc)' /\ InOrder(doc, doc')
    BY <1>1 DEF Ordered, InOrder
  <1>2. ASSUME NEW o \in Ops, NEW e, ops[o].step \in {"loaded", "known"}, Save(o, e), Ordered(e), InOrder(ops[o].doc, e)
        PROVE  Ordered(doc)' /\ InOrder(doc, doc')
    <2>1. ops[o].doc = doc /\ doc' = e
      BY <1>2 DEF ProjectInv, LoadedIsStored, Save
    <2>2. Ordered(doc')
      BY <1>2, <2>1
    <2> QED
      BY <1>2, <2>1, <2>2 DEF Ordered
  <1>3. \A o \in Ops : ops[o].step \in {"loaded", "known"} => Ordered(ops[o].doc)
    BY DEF ProjectInv, LoadedIsStored
  <1>4. ASSUME NEW o \in Ops, AddTask(o) \/ CreateSubtask(o)
        PROVE  Ordered(doc)' /\ InOrder(doc, doc')
    <2>1. PICK d : d = ops[o].doc
      OBVIOUS
    <2>2. PICK i \in Ids \ DOMAIN d.tasks, parent \in DOMAIN d.tasks \cup {NoTask}, st \in Statuses :
             Save(o, Added(d, i, NewTask(parent, st)))
      BY <1>4, <2>1 DEF AddTask, CreateSubtask
    <2>3. ops[o].step \in {"loaded", "known"}
      BY <1>4 DEF AddTask, CreateSubtask, OwnerRuns, MemberRuns
    <2> QED
      BY <1>2, <1>3, <2>1, <2>2, <2>3, AddKeeps
  <1>5. ASSUME NEW o \in Ops, UpdateTask(o)
        PROVE  Ordered(doc)' /\ InOrder(doc, doc')
    <2> DEFINE d == ops[o].doc
    <2>1. PICK i \in DOMAIN d.tasks :
             \E parent \in DOMAIN d.tasks \cup {NoTask, d.tasks[i].parent} :
                /\ parent # d.tasks[i].parent => ~wouldCreateParentCycle(d, i, parent)
                /\ \E st \in Statuses \cup {"same"} :
                      LET moved == [d EXCEPT !.tasks[i].status = IF st = "same" THEN @ ELSE st,
                                             !.tasks[i].parent = parent]
                      IN MayTake(moved, i, st) /\ Save(o, cascadeDone(moved, i, st))
      BY <1>5, Zenon DEF UpdateTask
    <2>2. PICK parent \in DOMAIN d.tasks \cup {NoTask, d.tasks[i].parent} :
             /\ parent # d.tasks[i].parent => ~wouldCreateParentCycle(d, i, parent)
             /\ \E st \in Statuses \cup {"same"} :
                   LET moved == [d EXCEPT !.tasks[i].status = IF st = "same" THEN @ ELSE st,
                                          !.tasks[i].parent = parent]
                   IN MayTake(moved, i, st) /\ Save(o, cascadeDone(moved, i, st))
      BY <2>1, Zenon
    <2>9. PICK st \in Statuses \cup {"same"} :
             LET moved == [d EXCEPT !.tasks[i].status = IF st = "same" THEN @ ELSE st,
                                    !.tasks[i].parent = parent]
             IN MayTake(moved, i, st) /\ Save(o, cascadeDone(moved, i, st))
      BY <2>2, Zenon
    <2>3. ops[o].step \in {"loaded", "known"}
      BY <1>5 DEF UpdateTask, OwnerRuns
    <2>4. PICK moved : moved = [d EXCEPT !.tasks[i].status = IF st = "same" THEN @ ELSE st,
                                         !.tasks[i].parent = parent]
      OBVIOUS
    <2>5. /\ parent # d.tasks[i].parent => ~wouldCreateParentCycle(d, i, parent)
          /\ MayTake(moved, i, st) /\ Save(o, cascadeDone(moved, i, st))
      BY <2>2, <2>9, <2>4
    <2>6. Ordered(d)
      BY <1>3, <2>3
    <2>7. Ordered(cascadeDone(moved, i, st)) /\ InOrder(d, cascadeDone(moved, i, st))
      BY <2>4, <2>5, <2>6, UpdateKeeps
    <2> QED
      BY <1>2, <2>3, <2>5, <2>7
  <1>6. ASSUME NEW o \in Ops, SetDependency(o)
        PROVE  Ordered(doc)' /\ InOrder(doc, doc')
    <2>1. PICK d : d = ops[o].doc
      OBVIOUS
    <2>2. PICK i \in DOMAIN d.tasks, p \in DOMAIN d.tasks :
             /\ p \in d.tasks[i].preds \/ ~wouldCreateCycle(d, i, p)
             /\ Save(o, syncDependencyFields(d, i, d.tasks[i].preds \cup {p}))
      BY <1>6, <2>1 DEF SetDependency
    <2>3. ops[o].step \in {"loaded", "known"} /\ Ordered(d)
      BY <1>3, <1>6, <2>1 DEF SetDependency, OwnerRuns
    <2>4. PICK ids : ids = d.tasks[i].preds \cup {p}
      OBVIOUS
    <2>5. ids \in SUBSET DOMAIN d.tasks
      BY <2>3, <2>4, NotItsOwn
    <2>6. Ordered(syncDependencyFields(d, i, ids)) /\ InOrder(d, syncDependencyFields(d, i, ids))
      BY <2>2, <2>3, <2>4, <2>5, LinkKeeps
    <2> QED
      BY <1>2, <2>1, <2>2, <2>3, <2>4, <2>6
  <1>7. ASSUME NEW o \in Ops, SetDependencies(o) \/ RequestDependencies(o)
        PROVE  Ordered(doc)' /\ InOrder(doc, doc')
    <2>1. PICK d : d = ops[o].doc
      OBVIOUS
    <2>2. PICK i \in DOMAIN d.tasks, ids \in SUBSET DOMAIN d.tasks :
             ~wouldCreateDependencyCycle(d, i, ids) /\ Save(o, syncDependencyFields(d, i, ids))
      BY <1>7, <2>1 DEF SetDependencies, RequestDependencies, NewDependencies
    <2>3. ops[o].step \in {"loaded", "known"} /\ Ordered(d)
      BY <1>3, <1>7, <2>1 DEF SetDependencies, RequestDependencies, OwnerRuns, MemberRuns
    <2>4. Ordered(syncDependencyFields(d, i, ids)) /\ InOrder(d, syncDependencyFields(d, i, ids))
      BY <2>2, <2>3, LinkKeeps
    <2> QED
      BY <1>2, <2>1, <2>2, <2>3, <2>4
  <1>8. ASSUME NEW o \in Ops, MoveTask(o)
        PROVE  Ordered(doc)' /\ InOrder(doc, doc')
    <2>1. PICK d : d = ops[o].doc
      OBVIOUS
    <2>2. PICK i \in DOMAIN d.tasks, parent \in DOMAIN d.tasks \cup {NoTask} :
             ~wouldCreateParentCycle(d, i, parent) /\ Save(o, [d EXCEPT !.tasks[i].parent = parent])
      BY <1>8, <2>1 DEF MoveTask
    <2>3. ops[o].step \in {"loaded", "known"} /\ Ordered(d)
      BY <1>3, <1>8, <2>1 DEF MoveTask, MemberRuns
    <2> QED
      BY <1>2, <2>1, <2>2, <2>3, MoveKeepsOrder
  <1>9. ASSUME NEW o \in Ops, UpdateStatus(o) \/ SubmitCompletionProof(o)
        PROVE  Ordered(doc)' /\ InOrder(doc, doc')
    <2>1. PICK d : d = ops[o].doc
      OBVIOUS
    <2>2. PICK i \in DOMAIN d.tasks, st \in Statuses :
             MayTake(d, i, st) /\ Save(o, cascadeDone([d EXCEPT !.tasks[i].status = st], i, st))
      BY <1>9, <2>1 DEF UpdateStatus, SubmitCompletionProof, MayTake, Statuses
    <2>3. ops[o].step \in {"loaded", "known"} /\ Ordered(d)
      BY <1>3, <1>9, <2>1 DEF UpdateStatus, SubmitCompletionProof, MemberRuns
    <2> QED
      BY <1>2, <2>1, <2>2, <2>3, TakesKeep
  <1>10. ASSUME NEW o \in Ops, DelegateTask(o) \/ AnswerDelegation(o)
         PROVE  Ordered(doc)' /\ InOrder(doc, doc')
    <2>1. PICK d : d = ops[o].doc
      OBVIOUS
    <2>2. ops[o].step \in {"loaded", "known"} /\ Ordered(d)
      BY <1>3, <1>10, <2>1 DEF DelegateTask, AnswerDelegation, OwnerRuns, MemberRuns
    <2>3. CASE DelegateTask(o)
      <3>1. PICK i \in DOMAIN d.tasks, p \in Others :
               Save(o, [d EXCEPT !.members = @ \cup {p}, !.tasks[i].to = p, !.tasks[i].handshake = "pending"])
        BY <2>1, <2>3 DEF DelegateTask
      <3>2. PICK e : e = [d EXCEPT !.members = @ \cup {p}, !.tasks[i].to = p, !.tasks[i].handshake = "pending"]
        OBVIOUS
      <3>3. PICK w : w = [d.tasks[i] EXCEPT !.to = p]
        OBVIOUS
      <3>4. PICK t : t = [w EXCEPT !.handshake = "pending"]
        OBVIOUS
      <3>5. d.tasks[i] \in Task
        BY <2>2 DEF Ordered
      <3>6. /\ t \in Task /\ t.parent = d.tasks[i].parent /\ t.preds = d.tasks[i].preds
            /\ t.deps = d.tasks[i].deps /\ t.status = d.tasks[i].status
        BY <3>3, <3>4, <3>5 DEF Task
      <3>7. PICK d1 : d1 = [d EXCEPT !.members = @ \cup {p}]
        OBVIOUS
      <3>8. d1.tasks = d.tasks /\ d1 \in [tasks : {d1.tasks}, members : {d1.members}]
        BY <2>2, <3>7 DEF Ordered
      <3>9. PICK d2 : d2 = [d1 EXCEPT !.tasks[i] = w]
        OBVIOUS
      <3>10. /\ d2.tasks = [d.tasks EXCEPT ![i] = w] /\ d2 \in [tasks : {d2.tasks}, members : {d2.members}]
        BY <3>8, <3>9
      <3>11. e = [d2 EXCEPT !.tasks[i].handshake = "pending"]
        BY <3>2, <3>3, <3>7, <3>8, <3>9
      <3>12. e.tasks = [d2.tasks EXCEPT ![i] = t] /\ e \in [tasks : {e.tasks}, members : {e.members}]
        BY <3>4, <3>10, <3>11
      <3>13. e.tasks = [d.tasks EXCEPT ![i] = t]
        BY <3>10, <3>12
      <3>14. Ordered(e) /\ InOrder(d, e)
        BY <2>2, <3>6, <3>12, <3>13, DelegationKeeps
      <3> QED
        BY <1>2, <2>1, <2>2, <3>1, <3>2, <3>14
    <2>4. CASE AnswerDelegation(o)
      <3>1. PICK i \in DOMAIN d.tasks, answer_ \in {"accepted", "declined"} :
               d.tasks[i].to = ops[o].by /\ Save(o, [d EXCEPT !.tasks[i].handshake = answer_])
        BY <2>1, <2>4 DEF AnswerDelegation, delegateeOf
      <3>2. d.tasks[i] \in Task
        BY <2>2 DEF Ordered
      <3>3. PICK t : t = [d.tasks[i] EXCEPT !.handshake = answer_]
        OBVIOUS
      <3>4. /\ t \in Task /\ t.parent = d.tasks[i].parent /\ t.preds = d.tasks[i].preds
            /\ t.deps = d.tasks[i].deps /\ t.status = d.tasks[i].status
        BY <3>2, <3>3 DEF Task
      <3>5. PICK e : e = [d EXCEPT !.tasks[i].handshake = answer_]
        OBVIOUS
      <3>6. e.tasks = [d.tasks EXCEPT ![i] = t] /\ e \in [tasks : {e.tasks}, members : {e.members}]
        BY <2>2, <3>3, <3>5 DEF Ordered
      <3>7. Ordered(e) /\ InOrder(d, e)
        BY <2>2, <3>4, <3>6, DelegationKeeps
      <3> QED
        BY <1>2, <2>1, <2>2, <3>1, <3>5, <3>7
    <2> QED
      BY <1>10, <2>3, <2>4
  <1>11. ASSUME NEW o \in Ops, AddMember(o) \/ AttachData(o) \/ LogTime(o)
         PROVE  Ordered(doc)' /\ InOrder(doc, doc')
    <2>1. PICK d : d = ops[o].doc
      OBVIOUS
    <2>2. ops[o].step \in {"loaded", "known"} /\ Ordered(d)
      BY <1>3, <1>11, <2>1 DEF AddMember, AttachData, LogTime, OwnerRuns, MemberRuns
    <2>3. PICK e : Save(o, e) /\ (e = d \/ \E p : e = [d EXCEPT !.members = @ \cup {p}])
      BY <1>11, <2>1 DEF AddMember, AttachData, LogTime
    <2>4. e.tasks = d.tasks /\ e \in [tasks : {e.tasks}, members : {e.members}]
      BY <2>2, <2>3 DEF Ordered
    <2>5. Shapely(e) /\ SamePlaces(d, e)
      BY <2>2, <2>4 DEF Shapely, SamePlaces, Ordered
    <2> QED
      BY <1>2, <2>1, <2>2, <2>3, <2>4, <2>5, SameWork
  <1>12. ASSUME NEW o \in Ops, Enqueue(o) \/ Load(o) \/ SenderKnown(o) \/ Refuse(o) \/ afterMutation(o)
         PROVE  UNCHANGED doc
    BY <1>12 DEF Enqueue, Load, SenderKnown, Refuse, afterMutation
  <1>13. ASSUME TasksCrash \/ UNCHANGED tasksVars
         PROVE  UNCHANGED doc
    BY <1>13 DEF TasksCrash, tasksVars
  <1> QED
    BY <1>1, <1>4, <1>5, <1>6, <1>7, <1>8, <1>9, <1>10, <1>11, <1>12, <1>13 DEF TasksStep

LEMMA InitOrder == InitTasks => Ordered(doc)
  <1> SUFFICES ASSUME InitTasks PROVE Ordered(doc)
    OBVIOUS
  <1>1. CASE doc = NewProject
    <2>1. doc = [tasks |-> <<>>, members |-> {Owner}] /\ DOMAIN doc.tasks = {}
      BY <1>1 DEF NewProject
    <2>2. doc.tasks \in [DOMAIN doc.tasks -> Task]
      BY <2>1
    <2> QED
      BY <2>1, <2>2, FS_EmptySet DEF Ordered, Within, Acyclic, PredecessorGraph, ParentGraph
  <1>2. ASSUME NEW i \in Ids, NEW j \in Ids, i # j, doc = LegacyProject(i, j)
        PROVE  Ordered(doc)
    <2> DEFINE t(k) == [NewTask(NoTask, "open") EXCEPT !.deps = Absent, !.preds = IF k = j THEN {i} ELSE {}]
    <2>1. \A k \in {i, j} : /\ t(k) \in Task /\ t(k).parent = NoTask /\ t(k).deps = Absent
                            /\ t(k).preds = IF k = j THEN {i} ELSE {}
      <3>1. PICK w : w = NewTask(NoTask, "open")
        OBVIOUS
      <3>2. w \in Task /\ w.parent = NoTask
        BY <3>1 DEF NewTask, Task, Statuses
      <3>3. \A k : t(k) = [[w EXCEPT !.deps = Absent] EXCEPT !.preds = IF k = j THEN {i} ELSE {}]
        BY <3>1
      <3>4. PICK v : v = [w EXCEPT !.deps = Absent]
        OBVIOUS
      <3>5. v \in Task /\ v.parent = NoTask /\ v.deps = Absent
        BY <3>2, <3>4 DEF Task
      <3>6. \A P \in SUBSET Ids : /\ [v EXCEPT !.preds = P] \in Task /\ [v EXCEPT !.preds = P].parent = NoTask
                                 /\ [v EXCEPT !.preds = P].deps = Absent /\ [v EXCEPT !.preds = P].preds = P
        BY <3>5 DEF Task
      <3>7. \A k : t(k) = [v EXCEPT !.preds = IF k = j THEN {i} ELSE {}]
        BY <3>3, <3>4
      <3>8. ASSUME NEW k \in {i, j}, NEW P \in SUBSET Ids, P = IF k = j THEN {i} ELSE {}
            PROVE  t(k) \in Task /\ t(k).parent = NoTask /\ t(k).deps = Absent /\ t(k).preds = P
        <4>1. t(k) = [v EXCEPT !.preds = P]
          BY <3>7, <3>8
        <4> HIDE DEF t
        <4> QED
          BY <3>6, <4>1
      <3> HIDE DEF t
      <3> QED
        BY <3>8
    <2>2. doc = [tasks |-> [k \in {i, j} |-> t(k)], members |-> {Owner}]
      BY <1>2 DEF LegacyProject
    <2> HIDE DEF t
    <2>3. /\ doc.tasks \in [DOMAIN doc.tasks -> Task] /\ DOMAIN doc.tasks = {i, j}
          /\ \A k \in {i, j} : /\ doc.tasks[k].parent = NoTask /\ doc.tasks[k].deps = Absent
                               /\ doc.tasks[k].preds = IF k = j THEN {i} ELSE {}
          /\ doc \in [tasks : {doc.tasks}, members : {doc.members}]
      BY <2>1, <2>2
    <2>4. ASSUME NEW g, DOMAIN g = {i, j}, g[i] = {}, g[j] \in {{}, {i}}
          PROVE  Within(g) /\ Acyclic(g)
      <3>1. Within(g)
        BY <2>4 DEF Within
      <3>2. Closure(g, {}) \subseteq {}
        BY <3>1, NothingFollows
      <3>3. {i} \in SUBSET DOMAIN g /\ \A x \in {i} : g[x] \subseteq {i}
        BY <2>4
      <3>4. Closure(g, {i}) \subseteq {i}
        BY <3>1, <3>3, ClosureIs
      <3> QED
        BY <1>2, <2>4, <3>1, <3>2, <3>4, AcyclicIs
    <2>5. /\ DOMAIN PredecessorGraph(doc) = {i, j} /\ PredecessorGraph(doc)[i] = {}
          /\ PredecessorGraph(doc)[j] = {i}
      BY <1>2, <2>3 DEF PredecessorGraph
    <2>6. /\ DOMAIN ParentGraph(doc) = {i, j} /\ ParentGraph(doc)[i] = {} /\ ParentGraph(doc)[j] = {}
      BY <2>3 DEF ParentGraph
    <2>7. IsFiniteSet(DOMAIN doc.tasks)
      <3>1. IsFiniteSet({i} \cup {j}) /\ {i, j} = {i} \cup {j}
        BY FS_Singleton, FS_AddElement
      <3> QED
        BY <2>3, <3>1
    <2> QED
      BY <2>3, <2>4, <2>5, <2>6, <2>7 DEF Ordered
  <1>3. doc = NewProject \/ \E p \in {q \in Ids \X Ids : q[1] # q[2]} : doc = LegacyProject(p[1], p[2])
    BY DEF InitTasks
  <1> QED
    BY <1>1, <1>2, <1>3

LEMMA OrderHolds == Ordered(doc) => NoCycle /\ OneGraph
  <1> SUFFICES ASSUME Ordered(doc) PROVE NoCycle /\ OneGraph
    OBVIOUS
  <1>1. DependencyGraph(doc) = PredecessorGraph(doc)
    BY NotItsOwn DEF DependencyGraph, PredecessorGraph
  <1> QED
    BY <1>1 DEF NoCycle, OneGraph, Ordered

-----------------------------------------------------------------------------
(* The critical path: the recursion of calculateCriticalPath has exactly one   *)
(* solution over an acyclic graph, the size of the longest chain that begins   *)
(* in a task.                                                                  *)

LEMMA LeastOf ==
    ASSUME NEW T, T \subseteq Nat, T # {}
    PROVE  \E n \in T : \A m \in T : n <= m
  <1>1. IsWellFoundedOn(OpToRel(<, Nat), Nat)
    BY NatLessThanWellFounded
  <1>2. PICK n \in T : \A m \in T : ~ (<<m, n>> \in OpToRel(<, Nat))
    BY <1>1, WFMin
  <1>3. ASSUME NEW m \in T PROVE n <= m
    <2>1. ~ (m < n)
      BY <1>2, <1>3 DEF OpToRel
    <2> QED
      BY <2>1
  <1> QED
    BY <1>3

LEMMA MaxIs ==
    ASSUME NEW T, T \subseteq Nat, T # {}, NEW b \in Nat, \A m \in T : m <= b
    PROVE  Max(T) \in T /\ \A m \in T : m <= Max(T)
  <1> DEFINE U == {n \in Nat : \E m \in T : n = b - m}
  <1>1. U \subseteq Nat /\ U # {}
    <2>1. PICK m \in T : m \in Nat /\ m <= b
      OBVIOUS
    <2>2. b - m \in U
      BY <2>1
    <2> QED
      BY <2>2
  <1>2. PICK u \in U : \A n \in U : u <= n
    <2> HIDE DEF U
    <2> QED
      BY <1>1, LeastOf
  <1>3. PICK x \in T : u = b - x
    OBVIOUS
  <1>4. ASSUME NEW m \in T PROVE x >= m
    <2>1. b - m \in U
      OBVIOUS
    <2> QED
      BY <1>2, <1>3, <2>1
  <1>5. \E y \in T : \A m \in T : y >= m
    BY <1>4
  <1>6. Max(T) \in T /\ \A m \in T : Max(T) >= m
    BY <1>5 DEF Max
  <1> QED
    BY <1>6

\* What is reached from one node of an acyclic graph.
Reach(g, x) == Closure(g, {x})

LEMMA ReachIs ==
    ASSUME NEW g, Within(g), Acyclic(g), NEW x \in DOMAIN g
    PROVE  /\ x \in Reach(g, x) /\ Reach(g, x) \subseteq DOMAIN g
           /\ \A y \in Reach(g, x) : Reach(g, y) \subseteq Reach(g, x)
           /\ \A j \in g[x] : /\ j \in DOMAIN g /\ Reach(g, j) \subseteq Reach(g, x)
                              /\ x \notin Reach(g, j)
           /\ \A y \in Reach(g, x) : y # x => \E j \in g[x] : y \in Reach(g, j)
  <1>1. ASSUME NEW y \in DOMAIN g
        PROVE  /\ y \in Reach(g, y) /\ Reach(g, y) \subseteq DOMAIN g
               /\ \A z \in Reach(g, y) : g[z] \subseteq Reach(g, y)
               /\ \A S \in SUBSET DOMAIN g : y \in S /\ (\A z \in S : g[z] \subseteq S) => Reach(g, y) \subseteq S
    <2>1. {y} \in SUBSET DOMAIN g
      OBVIOUS
    <2> QED
      BY <2>1, ClosureIs DEF Reach
  <1>2. g[x] \in SUBSET DOMAIN g
    BY DEF Within
  <1> DEFINE B == Closure(g, g[x])
  <1>3. /\ g[x] \subseteq B /\ B \subseteq DOMAIN g /\ \A y \in B : g[y] \subseteq B
        /\ \A S \in SUBSET DOMAIN g : g[x] \subseteq S /\ (\A y \in S : g[y] \subseteq S) => B \subseteq S
    BY <1>2, ClosureIs
  <1>4. x \notin B
    BY AcyclicIs
  <1> HIDE DEF B
  <1>5. ASSUME NEW y \in Reach(g, x) PROVE Reach(g, y) \subseteq Reach(g, x)
    BY <1>1, <1>5
  <1>6. ASSUME NEW j \in g[x]
        PROVE  j \in DOMAIN g /\ Reach(g, j) \subseteq Reach(g, x) /\ x \notin Reach(g, j)
    <2>1. j \in DOMAIN g
      BY <1>2
    <2>2. Reach(g, j) \subseteq B
      BY <1>1, <1>3, <2>1
    <2>3. j \in Reach(g, x)
      BY <1>1
    <2> QED
      BY <1>4, <1>5, <2>1, <2>2, <2>3
  <1>7. ASSUME NEW y \in Reach(g, x), y # x PROVE \E j \in g[x] : y \in Reach(g, j)
    <2> DEFINE S == {z \in DOMAIN g : \E j \in g[x] : z \in Reach(g, j)}
    <2>1. g[x] \subseteq S
      BY <1>1, <1>2
    <2>2. \A z \in S : g[z] \subseteq S
      BY <1>1, <1>2 DEF Within
    <2> DEFINE R == S \cup {x}
    <2>3. R \in SUBSET DOMAIN g /\ x \in R /\ \A z \in R : g[z] \subseteq R
      BY <2>1, <2>2
    <2>4. Reach(g, x) \subseteq R
      BY <1>1, <2>3
    <2> QED
      BY <1>7, <2>4
  <1> QED
    BY <1>1, <1>5, <1>6, <1>7

\* Tasks of which one always waits for the other.
Chain(g, S) == \A i, j \in S : i \in Reach(g, j) \/ j \in Reach(g, i)

\* Of a chain one task waits for all others.
LEMMA ChainBegins ==
    ASSUME NEW g, Within(g), Acyclic(g), IsFiniteSet(DOMAIN g),
           NEW S \in SUBSET DOMAIN g, S # {}, Chain(g, S)
    PROVE  \E t \in S : S \subseteq Reach(g, t)
  <1> DEFINE T == {n \in Nat : \E x \in S : n = Cardinality(Reach(g, x))}
             b == Cardinality(DOMAIN g)
  <1>1. \A x \in DOMAIN g : /\ Reach(g, x) \in SUBSET DOMAIN g /\ IsFiniteSet(Reach(g, x))
                            /\ Cardinality(Reach(g, x)) \in Nat /\ Cardinality(Reach(g, x)) <= b
    BY ReachIs, FS_Subset, FS_CardinalityType
  <1>2. b \in Nat
    BY FS_CardinalityType
  <1>3. T \subseteq Nat /\ T # {} /\ \A n \in T : n <= b
    BY <1>1
  <1>4. Max(T) \in T /\ \A n \in T : n <= Max(T)
    <2> HIDE DEF T, b
    <2> QED
      BY <1>2, <1>3, MaxIs
  <1>5. PICK t \in S : Max(T) = Cardinality(Reach(g, t))
    BY <1>4
  <1>6. ASSUME NEW y \in S PROVE y \in Reach(g, t)
    <2>1. CASE t \in Reach(g, y)
      <3>1. Reach(g, t) \in SUBSET Reach(g, y)
        BY <2>1, ReachIs
      <3>2. Cardinality(Reach(g, y)) \in T
        BY <1>1
      <3>3. Cardinality(Reach(g, y)) <= Cardinality(Reach(g, t))
        BY <1>4, <1>5, <3>2
      <3>4. IsFiniteSet(Reach(g, y)) /\ Cardinality(Reach(g, y)) \in Nat /\ Cardinality(Reach(g, t)) \in Nat
        BY <1>1
      <3>5. Cardinality(Reach(g, t)) <= Cardinality(Reach(g, y))
        BY <3>1, <3>4, FS_Subset
      <3>6. Reach(g, t) = Reach(g, y)
        BY <3>1, <3>3, <3>4, <3>5, FS_Subset
      <3> QED
        BY <3>6, ReachIs
    <2>2. CASE y \in Reach(g, t)
      BY <2>2
    <2> QED
      BY <2>1, <2>2 DEF Chain
  <1> QED
    BY <1>6

\* The chains that begin in x, and the size of the longest.
ChainsFrom(g, x) == {C \in SUBSET DOMAIN g : Chain(g, C) /\ x \in C /\ C \subseteq Reach(g, x)}

Size(g, x) == Max({n \in Nat : \E C \in ChainsFrom(g, x) : n = Cardinality(C)})

LEMMA SizeIs ==
    ASSUME NEW g, Within(g), Acyclic(g), IsFiniteSet(DOMAIN g), NEW x \in DOMAIN g
    PROVE  /\ Size(g, x) \in Nat /\ Size(g, x) <= Cardinality(DOMAIN g)
           /\ \E C \in ChainsFrom(g, x) : Size(g, x) = Cardinality(C)
           /\ \A C \in ChainsFrom(g, x) : Cardinality(C) \in Nat /\ Cardinality(C) <= Size(g, x)
           /\ {x} \in ChainsFrom(g, x) /\ Cardinality({x}) = 1
  <1> DEFINE T == {n \in Nat : \E C \in ChainsFrom(g, x) : n = Cardinality(C)}
             b == Cardinality(DOMAIN g)
  <1>1. \A C \in ChainsFrom(g, x) : /\ IsFiniteSet(C) /\ Cardinality(C) \in Nat /\ Cardinality(C) <= b
                                    /\ Cardinality(C) \in T
    BY FS_Subset, FS_CardinalityType DEF ChainsFrom
  <1>2. b \in Nat
    BY FS_CardinalityType
  <1>3. {x} \in ChainsFrom(g, x) /\ Cardinality({x}) = 1
    <2>1. x \in Reach(g, x) /\ {x} \in SUBSET DOMAIN g
      BY ReachIs
    <2>2. Chain(g, {x})
      BY <2>1 DEF Chain
    <2> QED
      BY <2>1, <2>2, FS_Singleton DEF ChainsFrom
  <1>4. T \subseteq Nat /\ T # {} /\ \A n \in T : n <= b
    BY <1>1, <1>3
  <1>5. Max(T) \in T /\ \A n \in T : n <= Max(T)
    <2> HIDE DEF T, b
    <2> QED
      BY <1>2, <1>4, MaxIs
  <1>6. Size(g, x) = Max(T)
    BY DEF Size
  <1> QED
    BY <1>1, <1>3, <1>4, <1>5, <1>6

\* The longest chain from a task is one more than the longest from those it waits for.
LEMMA SizeGrows ==
    ASSUME NEW g, Within(g), Acyclic(g), IsFiniteSet(DOMAIN g), NEW x \in DOMAIN g
    PROVE  Size(g, x) = 1 + Max({0} \cup {Size(g, j) : j \in g[x]})
  <1> DEFINE T == {0} \cup {Size(g, j) : j \in g[x]}
             b == Cardinality(DOMAIN g)
  <1>1. \A j \in g[x] : /\ j \in DOMAIN g /\ Reach(g, j) \subseteq Reach(g, x)
                        /\ x \notin Reach(g, j)
    BY ReachIs
  <1>2. b \in Nat /\ T \subseteq Nat /\ T # {} /\ \A n \in T : n <= b
    <2>1. \A j \in g[x] : Size(g, j) \in Nat /\ Size(g, j) <= b
      BY <1>1, SizeIs
    <2>2. b \in Nat
      BY FS_CardinalityType
    <2> HIDE DEF b
    <2> QED
      BY <2>1, <2>2
  <1>3. PICK v : v = Max(T) /\ v \in T /\ \A n \in T : n <= v
    <2> HIDE DEF T, b
    <2> QED
      BY <1>2, MaxIs
  <1>4. v \in Nat /\ Size(g, x) \in Nat
    BY <1>2, <1>3, SizeIs
  <1>5. Size(g, x) <= 1 + v
    <2>1. PICK C \in ChainsFrom(g, x) : Size(g, x) = Cardinality(C)
      BY SizeIs
    <2>2. C \in SUBSET DOMAIN g /\ Chain(g, C) /\ x \in C /\ C \subseteq Reach(g, x) /\ IsFiniteSet(C)
      BY FS_Subset DEF ChainsFrom
    <2>3. PICK B : B = C \ {x}
      OBVIOUS
    <2>4. /\ IsFiniteSet(B) /\ Cardinality(B) = Cardinality(C) - 1 /\ Cardinality(C) \in Nat
          /\ Cardinality(B) \in Nat
      BY <2>2, <2>3, FS_RemoveElement, FS_CardinalityType
    <2>5. CASE B = {}
      <3>1. Cardinality(B) = 0
        BY <2>5, FS_EmptySet
      <3> QED
        BY <1>4, <2>1, <2>4, <3>1
    <2>6. CASE B # {}
      <3>1. B \in SUBSET DOMAIN g /\ Chain(g, B)
        BY <2>2, <2>3 DEF Chain
      <3>2. PICK t \in B : B \subseteq Reach(g, t)
        BY <2>6, <3>1, ChainBegins
      <3>3. t \in Reach(g, x) /\ t # x
        BY <2>2, <2>3, <3>2
      <3>4. PICK j \in g[x] : t \in Reach(g, j)
        BY <3>3, ReachIs
      <3>5. j \in DOMAIN g /\ Reach(g, t) \subseteq Reach(g, j) /\ j \in Reach(g, j)
        BY <1>1, <3>4, ReachIs
      <3>6. B \cup {j} \in ChainsFrom(g, j)
        <4>1. B \cup {j} \in SUBSET DOMAIN g /\ B \cup {j} \subseteq Reach(g, j)
          BY <3>1, <3>2, <3>5
        <4>2. Chain(g, B \cup {j})
          BY <3>1, <4>1 DEF Chain
        <4> QED
          BY <4>1, <4>2 DEF ChainsFrom
      <3>7. /\ Cardinality(B \cup {j}) <= Size(g, j) /\ Cardinality(B \cup {j}) \in Nat
            /\ Size(g, j) \in Nat
        BY <3>5, <3>6, SizeIs
      <3>8. Cardinality(B) <= Cardinality(B \cup {j})
        <4>1. IsFiniteSet(B \cup {j}) /\ B \in SUBSET (B \cup {j})
          BY <2>4, FS_AddElement
        <4> QED
          BY <4>1, FS_Subset
      <3>9. Size(g, j) <= v
        BY <1>3
      <3> QED
        BY <1>4, <2>1, <2>4, <3>7, <3>8, <3>9
    <2> QED
      BY <2>5, <2>6
  <1>6. 1 + v <= Size(g, x)
    <2>1. CASE v = 0
      <3>1. {x} \in ChainsFrom(g, x) /\ Cardinality({x}) = 1
        BY SizeIs
      <3>2. Cardinality({x}) <= Size(g, x)
        BY <3>1, SizeIs
      <3> QED
        BY <1>4, <2>1, <3>1, <3>2
    <2>2. CASE v # 0
      <3>1. PICK j \in g[x] : v = Size(g, j)
        BY <1>3, <2>2
      <3>2. PICK C \in ChainsFrom(g, j) : Size(g, j) = Cardinality(C)
        BY <1>1, SizeIs
      <3>3. C \in SUBSET DOMAIN g /\ Chain(g, C) /\ C \subseteq Reach(g, j) /\ IsFiniteSet(C)
        BY FS_Subset DEF ChainsFrom
      <3>4. x \notin C /\ C \subseteq Reach(g, x) /\ x \in Reach(g, x)
        BY <1>1, <3>3, ReachIs
      <3>5. C \cup {x} \in ChainsFrom(g, x)
        <4>1. Chain(g, C \cup {x})
          BY <3>3, <3>4 DEF Chain
        <4> QED
          BY <3>3, <3>4, <4>1 DEF ChainsFrom
      <3>6. Cardinality(C \cup {x}) = Cardinality(C) + 1
        BY <3>3, <3>4, FS_AddElement
      <3>7. Cardinality(C \cup {x}) <= Size(g, x) /\ Cardinality(C) \in Nat
        BY <3>3, <3>5, SizeIs, FS_CardinalityType
      <3> QED
        BY <1>4, <3>1, <3>2, <3>6, <3>7
    <2> QED
      BY <2>1, <2>2
  <1> QED
    BY <1>3, <1>4, <1>5, <1>6

\* Over an acyclic graph the recursion has one solution.
LEMMA OneSolution ==
    ASSUME NEW g, Within(g), Acyclic(g), IsFiniteSet(DOMAIN g),
           NEW f, f = [i \in DOMAIN g |-> 1 + Max({0} \cup {f[j] : j \in g[i]})]
    PROVE  \A x \in DOMAIN g : f[x] = Size(g, x)
  <1> DEFINE Bad == {x \in DOMAIN g : f[x] # Size(g, x)}
             T == {n \in Nat : \E x \in Bad : n = Cardinality(Reach(g, x))}
  <1> SUFFICES ASSUME Bad # {} PROVE FALSE
    OBVIOUS
  <1>1. \A x \in DOMAIN g : /\ Reach(g, x) \in SUBSET DOMAIN g /\ IsFiniteSet(Reach(g, x))
                            /\ Cardinality(Reach(g, x)) \in Nat
    BY ReachIs, FS_Subset, FS_CardinalityType
  <1>2. T \subseteq Nat /\ T # {}
    BY <1>1
  <1>3. PICK n \in T : \A m \in T : n <= m
    <2> HIDE DEF T
    <2> QED
      BY <1>2, LeastOf
  <1>4. PICK x \in Bad : n = Cardinality(Reach(g, x))
    OBVIOUS
  <1>5. ASSUME NEW j \in g[x] PROVE f[j] = Size(g, j)
    <2>1. /\ j \in DOMAIN g /\ Reach(g, j) \in SUBSET Reach(g, x) /\ Reach(g, j) # Reach(g, x)
      BY ReachIs
    <2>2. /\ IsFiniteSet(Reach(g, x)) /\ Cardinality(Reach(g, x)) \in Nat /\ Cardinality(Reach(g, j)) \in Nat
      BY <1>1, <2>1
    <2>3. Cardinality(Reach(g, j)) < Cardinality(Reach(g, x))
      BY <2>1, <2>2, FS_Subset
    <2>4. j \in Bad => Cardinality(Reach(g, j)) \in T
      BY <2>2
    <2>5. n \in Nat /\ (j \in Bad => n <= Cardinality(Reach(g, j)))
      BY <1>2, <1>3, <2>4
    <2>6. j \notin Bad
      BY <1>4, <2>2, <2>3, <2>5
    <2> QED
      BY <2>1, <2>6
  <1>6. {f[j] : j \in g[x]} = {Size(g, j) : j \in g[x]}
    BY <1>5
  <1>7. f[x] = 1 + Max({0} \cup {f[j] : j \in g[x]})
    OBVIOUS
  <1>8. Size(g, x) = 1 + Max({0} \cup {Size(g, j) : j \in g[x]})
    BY SizeGrows
  <1> QED
    BY <1>6, <1>7, <1>8

LEMMA LongestIs ==
    ASSUME NEW g, Within(g), Acyclic(g), IsFiniteSet(DOMAIN g)
    PROVE  Max({0} \cup {Size(g, i) : i \in DOMAIN g}) = LongestChain(g)
  <1> DEFINE P == {0} \cup {Size(g, i) : i \in DOMAIN g}
             Q == {Cardinality(S) : S \in {C \in SUBSET DOMAIN g : Chain(g, C)}}
             b == Cardinality(DOMAIN g)
  <1>1. \A S \in SUBSET DOMAIN g : Cardinality(S) \in Nat /\ Cardinality(S) <= b
    BY FS_Subset, FS_CardinalityType
  <1>2. b \in Nat
    BY FS_CardinalityType
  <1>3. \A i \in DOMAIN g : /\ Size(g, i) \in Nat /\ Size(g, i) <= b
                            /\ \E C \in SUBSET DOMAIN g : Chain(g, C) /\ Size(g, i) = Cardinality(C)
    BY SizeIs DEF ChainsFrom
  <1>4. 0 \in Q
    <2>1. {} \in SUBSET DOMAIN g /\ Chain(g, {}) /\ Cardinality({}) = 0
      BY FS_EmptySet DEF Chain
    <2> QED
      BY <2>1
  <1>5. P \subseteq Q
    BY <1>3, <1>4
  <1>6. ASSUME NEW q \in Q PROVE \E p \in P : q <= p
    <2>1. PICK S \in SUBSET DOMAIN g : Chain(g, S) /\ q = Cardinality(S)
      OBVIOUS
    <2>2. CASE S = {}
      BY <2>1, <2>2, FS_EmptySet
    <2>3. CASE S # {}
      <3>1. PICK t \in S : S \subseteq Reach(g, t)
        BY <2>1, <2>3, ChainBegins
      <3>2. t \in DOMAIN g /\ S \in ChainsFrom(g, t)
        BY <2>1, <3>1 DEF ChainsFrom
      <3>3. q <= Size(g, t)
        BY <2>1, <3>2, SizeIs
      <3> QED
        BY <3>2, <3>3
    <2> QED
      BY <2>2, <2>3
  <1>7. P \subseteq Nat /\ P # {} /\ \A p \in P : p <= b
    BY <1>2, <1>3
  <1>8. Q \subseteq Nat /\ Q # {} /\ \A q \in Q : q <= b
    BY <1>1, <1>4
  <1>9. LongestChain(g) = Max(Q)
    <2> DEFINE after == [j \in DOMAIN g |-> Closure(g, {j})]
               Linked(S) == \A i, j \in S : i \in after[j] \/ j \in after[i]
    <2>1. \A S \in SUBSET DOMAIN g : Linked(S) <=> Chain(g, S)
      BY DEF Chain, Reach
    <2>2. {C \in SUBSET DOMAIN g : Linked(C)} = {C \in SUBSET DOMAIN g : Chain(g, C)}
      BY <2>1
    <2>3. LongestChain(g) = Max({Cardinality(S) : S \in {C \in SUBSET DOMAIN g : Linked(C)}})
      BY DEF LongestChain
    <2> HIDE DEF Linked
    <2> QED
      BY <2>2, <2>3
  <1> HIDE DEF P, Q, b
  <1>10. Max(P) \in P /\ \A p \in P : p <= Max(P)
    BY <1>2, <1>7, MaxIs
  <1>11. Max(Q) \in Q /\ \A q \in Q : q <= Max(Q)
    BY <1>2, <1>8, MaxIs
  <1>12. PICK p \in P : Max(Q) <= p
    BY <1>6, <1>11
  <1>13. Max(P) <= Max(Q) /\ p <= Max(P)
    BY <1>5, <1>10, <1>11
  <1>14. Max(P) \in Nat /\ Max(Q) \in Nat /\ p \in Nat
    BY <1>7, <1>8, <1>10, <1>11
  <1>15. Max(P) = Max(Q)
    BY <1>12, <1>13, <1>14
  <1> QED
    BY <1>9, <1>15 DEF P

LEMMA PathHolds == Ordered(doc) => PathIsLongest
  <1> SUFFICES ASSUME Ordered(doc), \A i \in DOMAIN doc.tasks : doc.tasks[i].deps # Absent
               PROVE  calculateCriticalPath(doc) = LongestChain(DependencyGraph(doc))
    BY DEF PathIsLongest
  <1>1. PICK g : g = DependencyGraph(doc)
    OBVIOUS
  <1>2. /\ DOMAIN g = DOMAIN doc.tasks
        /\ \A i \in DOMAIN doc.tasks : taskLikeOf(doc.tasks[i]) = g[i]
    BY <1>1 DEF DependencyGraph, dependenciesOf, taskLikeOf
  <1>3. g = PredecessorGraph(doc)
    BY <1>1, NotItsOwn DEF DependencyGraph, PredecessorGraph
  <1>4. Within(g) /\ Acyclic(g) /\ IsFiniteSet(DOMAIN g)
    BY <1>2, <1>3 DEF Ordered
  <1> DEFINE Rec(f) == [i \in DOMAIN doc.tasks |->
                          1 + Max({0} \cup {f[j] : j \in taskLikeOf(doc.tasks[i])})]
             path == CHOOSE f : f = Rec(f)
  <1>5. calculateCriticalPath(doc) = Max({0} \cup {path[i] : i \in DOMAIN doc.tasks})
    BY DEF calculateCriticalPath
  <1>6. ASSUME NEW f
        PROVE  Rec(f) = [i \in DOMAIN g |-> 1 + Max({0} \cup {f[j] : j \in g[i]})]
    BY <1>2
  <1>7. PICK f : f = [i \in DOMAIN g |-> Size(g, i)]
    OBVIOUS
  <1>8. f = Rec(f)
    <2>1. ASSUME NEW i \in DOMAIN g
          PROVE  f[i] = 1 + Max({0} \cup {f[j] : j \in g[i]})
      <3>1. {f[j] : j \in g[i]} = {Size(g, j) : j \in g[i]}
        BY <1>4, <1>7 DEF Within
      <3> QED
        BY <1>4, <1>7, <3>1, SizeGrows
    <2>2. f = [i \in DOMAIN g |-> 1 + Max({0} \cup {f[j] : j \in g[i]})]
      BY <1>7, <2>1
    <2>3. Rec(f) = [i \in DOMAIN g |-> 1 + Max({0} \cup {f[j] : j \in g[i]})]
      BY <1>6
    <2> HIDE DEF Rec
    <2> QED
      BY <2>2, <2>3
  <1>9. path = Rec(path)
    <2> HIDE DEF Rec
    <2> QED
      BY <1>8
  <1> HIDE DEF path
  <1>10. path = [i \in DOMAIN g |-> 1 + Max({0} \cup {path[j] : j \in g[i]})]
    <2>1. Rec(path) = [i \in DOMAIN g |-> 1 + Max({0} \cup {path[j] : j \in g[i]})]
      BY <1>6
    <2> QED
      BY <1>9, <2>1
  <1>11. \A x \in DOMAIN g : path[x] = Size(g, x)
    BY <1>4, <1>10, OneSolution
  <1>12. {path[i] : i \in DOMAIN doc.tasks} = {Size(g, i) : i \in DOMAIN g}
    BY <1>2, <1>11
  <1> QED
    BY <1>1, <1>4, <1>5, <1>12, LongestIs

(* Whatever the calls on a project do and in whatever order, dependencies and   *)
(* parents stay without a cycle (wouldCreateCycle, wouldCreateDependencyCycle,  *)
(* wouldCreateParentCycle), block-list and predecessors stay one graph          *)
(* (syncDependencyFields), its longest chain is what calculateCriticalPath      *)
(* finds, and a task starts or is done, itself or by cascadeDone, after all it  *)
(* waits for (assertCanStart, assertCanComplete).                               *)
THEOREM WorkInOrder == TasksSpec => WorkIsOrdered
  <1>1. ProjectInv /\ Ordered(doc) /\ [TasksStep]_tasksVars => Ordered(doc)' /\ InOrder(doc, doc')
    BY OrderStep
  <1>2. ProjectInv /\ [TasksStep]_tasksVars => ProjectInv'
    BY ProjectStep
  <1>3. InitTasks => ProjectInv /\ Ordered(doc)
    BY InitProject, InitOrder
  <1>4. Ordered(doc) => NoCycle /\ OneGraph /\ PathIsLongest
    BY OrderHolds, PathHolds
  <1>5. InOrder(doc, doc') =>
          [\A i \in DOMAIN doc'.tasks :
             LET now == doc'.tasks[i].status
                 was == IF i \in DOMAIN doc.tasks THEN doc.tasks[i].status ELSE "open"
             IN now \in {"in-progress", "done"} /\ now # was
                   => \A j \in dependenciesOf(doc'.tasks[i]) : doc'.tasks[j].status = "done"]_doc
    BY DEF InOrder
  <1> QED
    BY <1>1, <1>2, <1>3, <1>4, <1>5, PTL DEF TasksSpec, WorkIsOrdered, DoneInOrder

=============================================================================
