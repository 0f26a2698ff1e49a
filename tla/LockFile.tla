------------------------------ MODULE LockFile ------------------------------
(***************************************************************************)
(* The lock files of src/src/state/locks.ts: a lock is a file created with *)
(* O_EXCL, that names its holder's pid; a file whose holder is dead, or    *)
(* that names nobody and is old, is renamed away before the attempt to     *)
(* create it.  Processes run concurrently, and every file-system call is a *)
(* step of its own: between the look at the file and the rename another    *)
(* process may have done anything.                                         *)
(***************************************************************************)
EXTENDS Integers, FiniteSets

CONSTANTS
    Proc,        \* the processes that use locks
    Name,        \* the names of locks
    Stale,       \* the locks whose callers pass staleMs
    Mortal,      \* the processes that may be killed
    MaxFailures  \* bound: how often a write to a lock file may fail

ASSUME LockAssumption ==
    /\ Stale \subseteq Name
    /\ Mortal \subseteq Proc
    /\ MaxFailures \in Nat

VARIABLES
    lock,     \* what is at the path of each lock
    pc,       \* where each process is in acquireLock
    want,     \* the lock it is after, or has
    failures, \* bound on failed writes
    stolen    \* history: locks taken from a process that had them

lockVars == <<lock, pc, want, failures, stolen>>

-----------------------------------------------------------------------------
\* A lock file, named after the process that created it; until that process
\* has written to it, it is empty.  aged: its mtime is further back than
\* staleMs.
LockContent == [owner : Proc, written : BOOLEAN, aged : BOOLEAN]
NoFile == [owner |-> "none"]

\* idle: not after a lock; look, stat, take: removeStaleLock; open, write: the
\* creation; busy: LockBusyError; held: between acquire and release; dead:
\* killed; recycled: killed, and its pid is now that of some other program.
Gone == {"dead", "recycled"}
Phase == {"idle", "look", "stat", "take", "open", "write", "busy", "held"} \cup Gone

Exists(n) == lock[n] # NoFile

\* The process has created the file and not yet removed it.
Has(p, n) == pc[p] \in {"write", "held"} /\ want[p] = n

\* isProcessAlive: a signal 0 finds no process only while no program has the pid.
IsProcessAlive(p) == pc[p] # "dead"

\* Slip: a file without a usable pid counts as held.
EmptyIsAlive(n) ==
    IF ~Exists(n) THEN "absent"
    ELSE IF ~lock[n].written \/ IsProcessAlive(lock[n].owner) THEN "alive" ELSE "dead"

\* holderStateFromContent
HolderState(n) ==
    IF ~Exists(n) THEN "absent"
    ELSE IF ~lock[n].written THEN "unknown"
    ELSE IF IsProcessAlive(lock[n].owner) THEN "alive" ELSE "dead"

RecordsPid(p, n) == Exists(n) /\ lock[n].written /\ lock[n].owner = p

Goto(p, phase) == pc' = [pc EXCEPT ![p] = phase]

\* What removing the file at n's path takes away from the process that has it.
TakenFrom(p, n) ==
    IF Exists(n) /\ lock[n].owner # p /\ Has(lock[n].owner, n) THEN {n} ELSE {}

-----------------------------------------------------------------------------
LockInit ==
    /\ lock = [n \in Name |-> NoFile]
    /\ pc = [p \in Proc |-> "idle"]
    /\ want \in [Proc -> Name]
    /\ failures = 0
    /\ stolen = {}

Start(p, n) ==
    /\ pc[p] = "idle"
    /\ Goto(p, "look")
    /\ want' = [want EXCEPT ![p] = n]
    /\ UNCHANGED <<lock, failures, stolen>>

\* removeStaleLock reads the file and decides on what it read.
ReadHolder(p) ==
    /\ pc[p] = "look"
    /\ LET holder == HolderState(want[p]) IN
       Goto(p, CASE holder = "dead" -> "take"
                 [] holder = "unknown" /\ want[p] \in Stale -> "stat"
                 [] OTHER -> "open")
    /\ UNCHANGED <<lock, want, failures, stolen>>

\* It named nobody: only its age tells, that of the file that is there now.
StatHolder(p) ==
    /\ pc[p] = "stat"
    /\ Goto(p, IF Exists(want[p]) /\ lock[want[p]].aged THEN "take" ELSE "open")
    /\ UNCHANGED <<lock, want, failures, stolen>>

\* takeoverLock: the rename moves away whatever is at the path by now.
Takeover(p) ==
    /\ pc[p] = "take"
    /\ Goto(p, "open")
    /\ lock' = [lock EXCEPT ![want[p]] = NoFile]
    /\ stolen' = stolen \cup TakenFrom(p, want[p])
    /\ UNCHANGED <<want, failures>>

\* Slip: opened with "w" in place of "wx".
OpenTruncating(p) ==
    /\ pc[p] = "open"
    /\ lock' = [lock EXCEPT ![want[p]] = [owner |-> p, written |-> FALSE, aged |-> FALSE]]
    /\ Goto(p, "write")
    /\ UNCHANGED <<want, failures, stolen>>

\* open(path, "wx")
OpenExclusive(p) ==
    /\ pc[p] = "open"
    /\ IF Exists(want[p])
         THEN Goto(p, "busy") /\ UNCHANGED lock
         ELSE /\ Goto(p, "write")
              /\ lock' = [lock EXCEPT ![want[p]] = [owner |-> p, written |-> FALSE, aged |-> FALSE]]
    /\ UNCHANGED <<want, failures, stolen>>

\* acquireLockSyncWithRetry tries again from the look until its deadline ...
Retry(p) ==
    /\ pc[p] = "busy"
    /\ Goto(p, "look")
    /\ UNCHANGED <<lock, want, failures, stolen>>

\* ... acquireLock and acquireLockSync raise LockBusyError at once.
GiveUp(p) ==
    /\ pc[p] = "busy"
    /\ Goto(p, "idle")
    /\ UNCHANGED <<lock, want, failures, stolen>>

\* The metadata goes to the open file, which may no longer be at the path.
WriteMetadata(p) ==
    /\ pc[p] = "write"
    /\ Goto(p, "held")
    /\ lock' = IF Exists(want[p]) /\ lock[want[p]].owner = p
                 THEN [lock EXCEPT ![want[p]].written = TRUE, ![want[p]].aged = FALSE]
                 ELSE lock
    /\ UNCHANGED <<want, failures, stolen>>

\* A full disk: the error leaves through the finally that only closes the file,
\* and the empty file stays.
WriteFails(p) ==
    /\ pc[p] = "write"
    /\ failures < MaxFailures
    /\ failures' = failures + 1
    /\ Goto(p, "idle")
    /\ UNCHANGED <<lock, want, stolen>>

\* Slip: an overstayed lock is left to be taken over.
ReleaseIfFresh(p) ==
    /\ pc[p] = "held"
    /\ Goto(p, "idle")
    /\ lock' = IF Exists(want[p]) /\ lock[want[p]].aged
                 THEN lock ELSE [lock EXCEPT ![want[p]] = NoFile]
    /\ stolen' = stolen \cup TakenFrom(p, want[p])
    /\ UNCHANGED <<want, failures>>

\* release(): removes whatever is at the path.
Release(p) ==
    /\ pc[p] = "held"
    /\ Goto(p, "idle")
    /\ lock' = [lock EXCEPT ![want[p]] = NoFile]
    /\ stolen' = stolen \cup TakenFrom(p, want[p])
    /\ UNCHANGED <<want, failures>>

-----------------------------------------------------------------------------
\* The environment.

Kill(p) ==
    /\ p \in Mortal
    /\ pc[p] \notin Gone
    /\ Goto(p, "dead")
    /\ UNCHANGED <<lock, want, failures, stolen>>

\* The system gives the pid of a dead process to another program, which ends.
RecyclePid(p) ==
    /\ pc[p] = "dead"
    /\ Goto(p, "recycled")
    /\ UNCHANGED <<lock, want, failures, stolen>>

RetirePid(p) ==
    /\ pc[p] = "recycled"
    /\ Goto(p, "dead")
    /\ UNCHANGED <<lock, want, failures, stolen>>

\* staleMs goes by since the file was last written to.
Age(n) ==
    /\ Exists(n)
    /\ ~lock[n].aged
    /\ lock' = [lock EXCEPT ![n].aged = TRUE]
    /\ UNCHANGED <<pc, want, failures, stolen>>

\* The steps a running process takes without being asked.
Step(p) ==
    \/ ReadHolder(p) \/ StatHolder(p) \/ Takeover(p) \/ OpenExclusive(p)
    \/ WriteMetadata(p) \/ Release(p)

LockNext ==
    \/ \E p \in Proc :
        \/ \E n \in Name : Start(p, n)
        \/ Step(p) \/ Retry(p) \/ GiveUp(p) \/ WriteFails(p)
        \/ Kill(p) \/ RecyclePid(p) \/ RetirePid(p)
    \/ \E n \in Name : Age(n)

LockSpec == LockInit /\ [][LockNext]_lockVars

\* A process that runs gets on with it, a process that found the lock busy
\* retries or gives up, and time passes.
LockFairness ==
    /\ \A p \in Proc : WF_lockVars(Step(p)) /\ WF_lockVars(Retry(p) \/ GiveUp(p))
    /\ \A n \in Name : WF_lockVars(Age(n))

LockFairSpec == LockSpec /\ LockFairness

-----------------------------------------------------------------------------
LockTypeOK ==
    /\ lock \in [Name -> LockContent \cup {NoFile}]
    /\ pc \in [Proc -> Phase]
    /\ want \in [Proc -> Name]
    /\ failures \in 0 .. MaxFailures
    /\ stolen \subseteq Name

\* At most one process is between acquire and release of a lock, as long as no
\* removal has ever taken the lock from a process that had it: the takeover race
\* is the only way two callers of acquireLock come to work side by side.
MutexUnlessStolen ==
    \A n \in Name \ stolen : \A p, q \in Proc : Has(p, n) /\ Has(q, n) => p = q

\* A lock file that names a running process belongs to one that has the lock.
\* Such a file is never taken over, so one left behind by a process that goes on
\* would shut everybody out for as long as that process lives.
NamesOnlyHolders ==
    \A p \in Proc, n \in Name : RecordsPid(p, n) => Has(p, n) \/ pc[p] \in Gone

\* Nobody is locked out for ever by what a crash or a full disk left behind:
\* once every other process is out of the way for good, one that asks again and
\* again for a lock with a stale window gets it again and again.
GetsTheLock ==
    \A p \in Proc, n \in Stale :
      /\ <>[](\A q \in Proc \ {p} : pc[q] \in {"idle", "dead"})
      /\ []<>(pc[p] = "look" /\ want[p] = n)
      => []<>(pc[p] = "held" /\ want[p] = n)

\* While no process is killed and no caller passes a stale window, the lock
\* files implement Mutex.
LockMutex == INSTANCE Mutex WITH holders <- [n \in Name |-> {p \in Proc : Has(p, n)}]

ImplementsMutex == LockMutex!Spec
=============================================================================
