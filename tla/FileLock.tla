------------------------------ MODULE FileLock ------------------------------
(* The cross-process storage lock of core/src/storage/file-lock.ts, for one  *)
(* target path.  A call of withFileLock creates `.<name>.lock` with O_EXCL,  *)
(* writes its pid into it, runs the callback and unlinks the file.  Every    *)
(* file system call is awaited, so each is a step of its own, and the        *)
(* callers of all processes interleave between them.                         *)
CONSTANTS
    Procs,      \* operating system processes; a restarted one is a new element
    Callers,    \* concurrent calls of withFileLock for the path
    ProcOf,     \* the process a call runs in
    NoFile,     \* no lock file on disk
    Crashable,  \* the processes that may die
    Slow,       \* may a live owner keep its file longer than staleAfterMs?
    Windows,    \* does the platform report transient sharing violations?
    UnlinkFails \* may the removal of one's own lock file fail for good?

ASSUME LockAssumption ==
    /\ ProcOf \in [Callers -> Procs]
    /\ Crashable \subseteq Procs
    /\ Slow \in BOOLEAN
    /\ Windows \in BOOLEAN
    /\ UnlinkFails \in BOOLEAN
    /\ NoFile \notin [creator : Callers, payload : BOOLEAN, old : BOOLEAN]

VARIABLES
    lockFile,   \* NoFile, or the call that created it, whether the pid is
                \* readable in it, and whether it is older than staleAfterMs
    held,       \* heldLocks of each process: the processes that have the path in it
    alive,      \* the processes kill(pid, 0) finds
    pc          \* where each call is

vars == <<lockFile, held, alive, pc>>

(* "try": about to open O_EXCL; "stale", "age", "unlink": judging and        *)
(* removing somebody else's file; "wait": held, before the deadline check;   *)
(* "write", "close": creating; "crit": the callback under the lock; "inner": *)
(* a second withFileLock called by that callback; "nested": the callback of  *)
(* an unrelated call that found the path in heldLocks; "release", "cleanup": *)
(* about to unlink its own file, after the callback or a failed write.       *)
PcValues == {"idle", "try", "stale", "age", "unlink", "wait", "write", "close",
             "crit", "inner", "nested", "release", "cleanup", "dead"}

\* a call that created the lock file and has not yet unlinked it
Owning == {"write", "close", "crit", "inner", "release", "cleanup"}

\* a call that runs the callback passed to withFileLock
InSection == {"crit", "inner", "nested"}

File(c) == [creator |-> c, payload |-> FALSE, old |-> FALSE]

Goto(c, where) == pc' = [pc EXCEPT ![c] = where]

Init ==
    /\ lockFile = NoFile
    /\ held = {}
    /\ alive = Procs
    /\ pc = [c \in Callers |-> "idle"]

-----------------------------------------------------------------------------
\* withFileLock is called: a process that has the path in heldLocks runs the
\* callback at once, any other starts polling.
Start(c) ==
    /\ pc[c] = "idle"
    /\ Goto(c, IF ProcOf[c] \in held THEN "nested" ELSE "try")
    /\ UNCHANGED <<lockFile, held, alive>>

\* Mutant: opened with "w", so that an existing lock file is overwritten.
OpenShared(c) ==
    /\ pc[c] = "try"
    /\ lockFile' = File(c)
    /\ Goto(c, "write")
    /\ UNCHANGED <<held, alive>>

\* fs.open(lockPath, "wx"): creates the file, or fails with EEXIST.
OpenExclusive(c) ==
    /\ pc[c] = "try"
    /\ \/ /\ lockFile = NoFile
          /\ lockFile' = File(c)
          /\ Goto(c, "write")
       \/ /\ lockFile # NoFile
          /\ Goto(c, "stale")
          /\ UNCHANGED lockFile
    /\ UNCHANGED <<held, alive>>

\* Windows refuses CREATE_NEW for a moment: reported as held.
OpenRefused(c) ==
    /\ Windows
    /\ pc[c] = "try"
    /\ Goto(c, "wait")
    /\ UNCHANGED <<lockFile, held, alive>>

\* Mutant: a readable payload is taken for a live owner.
ReadOwnerTrusting(c) ==
    /\ pc[c] = "stale"
    /\ Goto(c, IF lockFile # NoFile /\ ~lockFile.payload THEN "age" ELSE "wait")
    /\ UNCHANGED <<lockFile, held, alive>>

\* isStale reads the file: gone or owned by a live pid is not stale, owned by
\* a dead pid is, and an unreadable payload is left to the age check.
ReadOwner(c) ==
    /\ pc[c] = "stale"
    /\ \/ /\ lockFile = NoFile
          /\ Goto(c, "wait")
       \/ /\ lockFile # NoFile
          /\ lockFile.payload
          /\ Goto(c, IF ProcOf[lockFile.creator] \in alive THEN "wait" ELSE "unlink")
       \/ /\ lockFile # NoFile
          /\ ~lockFile.payload \/ Windows
          /\ Goto(c, "age")
    /\ UNCHANGED <<lockFile, held, alive>>

\* Mutant: the age is not compared with staleAfterMs.
StatAgeless(c) ==
    /\ pc[c] = "age"
    /\ Goto(c, IF lockFile # NoFile THEN "unlink" ELSE "wait")
    /\ UNCHANGED <<lockFile, held, alive>>

\* lockFileAgeExceeds; a file that vanished is not stale.
StatAge(c) ==
    /\ pc[c] = "age"
    /\ Goto(c, IF lockFile # NoFile /\ lockFile.old THEN "unlink" ELSE "wait")
    /\ UNCHANGED <<lockFile, held, alive>>

\* The steal: fs.unlink by path, whatever file is there by now.
StealUnlink(c) ==
    /\ pc[c] = "unlink"
    /\ lockFile' = NoFile
    /\ Goto(c, "wait")
    /\ UNCHANGED <<held, alive>>

\* "held": sleep retryIntervalMs and try again, or throw at the deadline.
PollOrTimeout(c) ==
    /\ pc[c] = "wait"
    /\ Goto(c, "try") \/ Goto(c, "idle")
    /\ UNCHANGED <<lockFile, held, alive>>

\* handle.writeFile(owner); a file unlinked meanwhile is written into the void.
WritePayload(c) ==
    /\ pc[c] = "write"
    /\ lockFile' = IF lockFile # NoFile /\ lockFile.creator = c
                   THEN [lockFile EXCEPT !.payload = TRUE]
                   ELSE lockFile
    /\ Goto(c, "close")
    /\ UNCHANGED <<held, alive>>

\* writeFile or close throws: the catch block will unlink the path.
CreateFails(c) ==
    /\ pc[c] \in {"write", "close"}
    /\ Goto(c, "cleanup")
    /\ UNCHANGED <<lockFile, held, alive>>

\* handle.close() returns, heldLocks.add, and the callback starts.
EnterSection(c) ==
    /\ pc[c] = "close"
    /\ held' = held \cup {ProcOf[c]}
    /\ Goto(c, "crit")
    /\ UNCHANGED <<lockFile, alive>>

\* The callback locks the path again (the queue's callback calls
\* atomicWriteFile): heldLocks has it, so the inner callback runs at once.
Reenter(c) ==
    /\ pc[c] = "crit"
    /\ ProcOf[c] \in held
    /\ Goto(c, "inner")
    /\ UNCHANGED <<lockFile, held, alive>>

LeaveInner(c) ==
    /\ pc[c] = "inner"
    /\ Goto(c, "crit")
    /\ UNCHANGED <<lockFile, held, alive>>

\* The callback settles; the holder drops heldLocks before it unlinks.
LeaveSection(c) ==
    /\ \/ /\ pc[c] = "crit"
          /\ held' = held \ {ProcOf[c]}
          /\ Goto(c, "release")
       \/ /\ pc[c] = "nested"
          /\ Goto(c, "idle")
          /\ UNCHANGED held
    /\ UNCHANGED <<lockFile, alive>>

\* An open, read, stat or steal fails with an error that is not retryable.
Throws(c) ==
    /\ pc[c] \in {"try", "stale", "age", "unlink"}
    /\ Goto(c, "idle")
    /\ UNCHANGED <<lockFile, held, alive>>

\* releaseLock, or the unlink of the failed creation: by path, ENOENT is fine.
\* When every retry fails, the file of a live owner stays.
OwnUnlink(c) ==
    /\ pc[c] \in {"release", "cleanup"}
    /\ lockFile' \in (IF UnlinkFails THEN {NoFile, lockFile} ELSE {NoFile})
    /\ Goto(c, "idle")
    /\ UNCHANGED <<held, alive>>

\* The process dies; its lock file stays on disk.
Crash(p) ==
    /\ p \in Crashable \cap alive
    /\ alive' = alive \ {p}
    /\ held' = held \ {p}
    /\ pc' = [c \in Callers |-> IF ProcOf[c] = p THEN "dead" ELSE pc[c]]
    /\ UNCHANGED lockFile

\* staleAfterMs pass; unless Slow, no live owner is that slow.
AgeOut ==
    /\ lockFile # NoFile
    /\ ~lockFile.old
    /\ Slow \/ pc[lockFile.creator] \notin Owning
    /\ lockFile' = [lockFile EXCEPT !.old = TRUE]
    /\ UNCHANGED <<held, alive, pc>>

Judge(c) == ReadOwner(c) \/ StatAge(c) \/ StealUnlink(c)

Create(c) == OpenExclusive(c) \/ WritePayload(c) \/ EnterSection(c)

Step(c) ==
    \/ Judge(c)
    \/ Create(c)
    \/ PollOrTimeout(c)
    \/ LeaveInner(c)
    \/ LeaveSection(c)
    \/ OwnUnlink(c)

\* What nothing obliges to happen: a call, a nested call, an I/O error.
Perhaps(c) ==
    \/ Start(c)
    \/ Reenter(c)
    \/ OpenRefused(c)
    \/ CreateFails(c)
    \/ Throws(c)

Next ==
    \/ \E c \in Callers : Step(c) \/ Perhaps(c)
    \/ \E p \in Procs : Crash(p)
    \/ AgeOut

Spec == Init /\ [][Next]_vars

\* An open that is not refused, a read of the payload that is not refused.
JudgeOwner(c) == ReadOwner(c) /\ pc'[c] # "age"

(* The event loop of a live process runs every continuation that is ready;   *)
(* the application goes on writing the path; and the file system does not    *)
(* refuse the same call forever.  Nothing makes a callback nest, an I/O error happen or *)
(* a process die.                                                            *)
FairSpec ==
    /\ Spec
    /\ \A c \in Callers : /\ WF_vars(Step(c))
                          /\ WF_vars(Start(c))
                          /\ SF_vars(OpenExclusive(c))
                          /\ SF_vars(JudgeOwner(c))
                          /\ SF_vars(StealUnlink(c))

-----------------------------------------------------------------------------
TypeOK ==
    /\ lockFile \in [creator : Callers, payload : BOOLEAN, old : BOOLEAN] \cup {NoFile}
    /\ held \in SUBSET Procs
    /\ alive \in SUBSET Procs
    /\ pc \in [Callers -> PcValues]

\* Callbacks of two processes never run at the same time, however their opens,
\* reads, stats, unlinks and deaths interleave.
MutualExclusion ==
    \A c, d \in Callers :
        pc[c] \in InSection /\ pc[d] \in InSection => ProcOf[c] = ProcOf[d]

\* A callback that the lock protects has its own lock file on disk to keep
\* every other process out.
HolderOwnsFile ==
    \A c \in Callers : pc[c] \in {"crit", "inner"} => lockFile # NoFile /\ lockFile.creator = c

\* "A lock whose owning process is still alive is never stolen": from the
\* O_EXCL create to the end of the callback no step removes the owner's file.
LiveLockNeverStolen ==
    [][\A c \in Callers :
          /\ lockFile # NoFile
          /\ lockFile.creator = c
          /\ pc[c] \in {"write", "close", "crit", "inner"}
          => lockFile' # NoFile /\ lockFile'.creator = c]_vars

\* "A dead process is freed immediately": the lock file of a dead owner does
\* not stay while some process goes on writing the path; no caller is shut out
\* for good by a crash between create and release.
DeadOwner == lockFile # NoFile /\ lockFile.payload /\ ProcOf[lockFile.creator] \notin alive

DeadLockFreed ==
    DeadOwner ~> ~DeadOwner \/ \A c \in Callers : pc[c] = "dead"

\* FileLock implements Mutex: the processes inside are those in a callback.
Lock == INSTANCE Mutex WITH inside <- {ProcOf[c] : c \in {d \in Callers : pc[d] \in InSection}}

ImplementsMutex == Lock!Spec
=============================================================================
