--------------------------- MODULE LockFileProofs ---------------------------
(***************************************************************************)
(* Theorems about LockFile for any processes and lock names: what the lock *)
(* files do guarantee whatever is killed and however calls interleave, and *)
(* that they are a mutex when nothing is ever taken over.                  *)
(***************************************************************************)
EXTENDS LockFile, TLAPS

\* A process that has a lock nobody ever stole finds its own file at the path.
OwnsItsFile ==
    \A n \in Name \ stolen : \A p \in Proc :
      Has(p, n) => Exists(n) /\ lock[n].owner = p

\* The file a process is about to write to is still empty.
EmptyUntilWritten == \A p \in Proc : pc[p] = "write" => ~RecordsPid(p, want[p])

LockInv == LockTypeOK /\ OwnsItsFile /\ EmptyUntilWritten /\ NamesOnlyHolders

LEMMA NoFileIsNoContent == NoFile \notin LockContent
  BY DEF NoFile, LockContent

-----------------------------------------------------------------------------
LEMMA LockInitInv == LockInit => LockInv
  BY LockAssumption DEF LockInit, LockInv, LockTypeOK, Phase, Gone, OwnsItsFile, EmptyUntilWritten,
     NamesOnlyHolders, Has, RecordsPid, Exists

\* Steps that move a process on and touch no file: they may not drop or gain a
\* lock.
LEMMA MoveOn ==
  ASSUME LockInv, NEW p \in Proc, NEW phase \in Phase, Goto(p, phase),
         pc[p] \notin {"write", "held"} \cup Gone, phase \notin {"write", "held"} \cup Gone,
         UNCHANGED <<lock, failures, stolen>>,
         want' \in [Proc -> Name],
         \A q \in Proc \ {p} : want'[q] = want[q]
  PROVE  LockInv'
<1> USE DEF LockInv, LockTypeOK
<1>1. LockTypeOK'
  BY DEF Goto
<1>2. \A q \in Proc, n \in Name : Has(q, n)' <=> Has(q, n)
  BY DEF Goto, Has, Phase
<1>3. \A q \in Proc, n \in Name : RecordsPid(q, n)' <=> RecordsPid(q, n)
  BY DEF RecordsPid, Exists
<1>4. \A q \in Proc : (pc'[q] = "write" <=> pc[q] = "write") /\ (pc[q] = "write" => want'[q] = want[q])
  BY DEF Goto
<1>5. \A q \in Proc : pc'[q] \in Gone <=> pc[q] \in Gone
  BY DEF Goto
<1>6. OwnsItsFile'
  BY <1>2 DEF OwnsItsFile, Exists
<1>7. EmptyUntilWritten'
  BY <1>3, <1>4 DEF EmptyUntilWritten
<1>8. NamesOnlyHolders'
  BY <1>2, <1>3, <1>5 DEF NamesOnlyHolders
<1> QED
  BY <1>1, <1>6, <1>7, <1>8

LEMMA Looking ==
  ASSUME LockInv, NEW p \in Proc,
         \/ \E n \in Name : Start(p, n)
         \/ ReadHolder(p) \/ StatHolder(p) \/ Retry(p) \/ GiveUp(p)
  PROVE  LockInv'
<1> USE DEF LockInv, LockTypeOK, Phase, Gone
<1>1. CASE \E n \in Name : Start(p, n)
  <2>1. PICK n \in Name : Start(p, n)
    BY <1>1
  <2>2. want' \in [Proc -> Name] /\ \A q \in Proc \ {p} : want'[q] = want[q]
    BY <2>1 DEF Start
  <2> QED
    BY <2>1, <2>2, MoveOn DEF Start
<1>2. CASE ReadHolder(p)
  <2>1. PICK phase \in {"take", "stat", "open"} : Goto(p, phase)
    BY <1>2 DEF ReadHolder
  <2> QED
    BY <1>2, <2>1, MoveOn DEF ReadHolder
<1>3. CASE StatHolder(p)
  <2>1. PICK phase \in {"take", "open"} : Goto(p, phase)
    BY <1>3 DEF StatHolder
  <2> QED
    BY <1>3, <2>1, MoveOn DEF StatHolder
<1>4. CASE Retry(p)
  BY <1>4, MoveOn DEF Retry
<1>5. CASE GiveUp(p)
  BY <1>5, MoveOn DEF GiveUp
<1> QED
  BY <1>1, <1>2, <1>3, <1>4, <1>5

\* A removal leaves nothing at the path, and marks the lock as stolen unless
\* nobody else had it.
LEMMA Removing ==
  ASSUME LockInv, NEW p \in Proc, Takeover(p) \/ Release(p)
  PROVE  LockInv'
<1> DEFINE n == want[p]
<1> USE DEF LockInv, LockTypeOK
<1>1. /\ lock' = [lock EXCEPT ![n] = NoFile]
      /\ stolen' = stolen \cup TakenFrom(p, n)
      /\ UNCHANGED <<want, failures>>
      /\ \E phase \in {"open", "idle"} : Goto(p, phase)
      /\ pc[p] \in {"take", "held"}
  BY DEF Takeover, Release
<1>2. LockTypeOK'
  BY <1>1 DEF Goto, Phase, Gone, TakenFrom
<1>3. \A q \in Proc, k \in Name : Has(q, k)' => Has(q, k) /\ q # p
  BY <1>1 DEF Has, Goto
<1>4. ASSUME NEW k \in Name \ stolen', NEW q \in Proc, Has(q, k)'
      PROVE  Exists(k)' /\ lock'[k].owner = q
  <2>1. Has(q, k) /\ q # p /\ k \notin stolen
    BY <1>1, <1>3, <1>4
  <2>2. Exists(k) /\ lock[k].owner = q
    BY <2>1 DEF OwnsItsFile
  <2>3. k # n
    BY <1>1, <1>4, <2>1, <2>2 DEF TakenFrom
  <2> QED
    BY <1>1, <2>2, <2>3 DEF Exists
<1>5. \A q \in Proc, k \in Name : RecordsPid(q, k)' => RecordsPid(q, k) /\ k # n
  BY <1>1, NoFileIsNoContent DEF RecordsPid, Exists
<1>6. EmptyUntilWritten'
  BY <1>1, <1>5 DEF EmptyUntilWritten, Goto
<1>7. ASSUME NEW q \in Proc, NEW k \in Name, RecordsPid(q, k)'
      PROVE  Has(q, k)' \/ pc'[q] \in Gone
  <2>1. k # n /\ (Has(q, k) \/ pc[q] \in Gone)
    BY <1>5, <1>7 DEF NamesOnlyHolders
  <2>2. q # p
    BY <1>1, <2>1 DEF Has, Gone
  <2> QED
    BY <1>1, <2>1, <2>2 DEF Has, Goto
<1> QED
  BY <1>2, <1>4, <1>6, <1>7 DEF OwnsItsFile, NamesOnlyHolders

LEMMA Opening ==
  ASSUME LockInv, NEW p \in Proc, OpenExclusive(p)
  PROVE  LockInv'
<1> DEFINE n == want[p]
<1> USE DEF LockInv, LockTypeOK
<1>1. CASE Exists(n)
  BY <1>1, MoveOn DEF OpenExclusive, Phase, Gone
<1>2. CASE ~Exists(n)
  <2>1. /\ pc[p] = "open"
        /\ lock' = [lock EXCEPT ![n] = [owner |-> p, written |-> FALSE, aged |-> FALSE]]
        /\ pc' = [pc EXCEPT ![p] = "write"]
        /\ UNCHANGED <<want, failures, stolen>>
    BY <1>2 DEF OpenExclusive, Goto
  <2>2. LockTypeOK'
    BY <2>1 DEF LockContent, Phase
  <2>3. lock'[n] # NoFile /\ lock'[n].owner = p /\ ~lock'[n].written
    <3> DEFINE empty == [owner |-> p, written |-> FALSE, aged |-> FALSE]
    <3>1. lock'[n] = empty
      BY <2>1
    <3>2. empty \in LockContent
      BY DEF LockContent
    <3>3. empty.owner = p /\ ~empty.written
      OBVIOUS
    <3>4. empty # NoFile
      <4> HIDE DEF empty
      <4> QED
        BY <3>2, NoFileIsNoContent
    <3> HIDE DEF empty
    <3> QED
      BY <3>1, <3>3, <3>4
  <2>4. ASSUME NEW k \in Name \ stolen', NEW q \in Proc, Has(q, k)'
        PROVE  Exists(k)' /\ lock'[k].owner = q
    <3>1. CASE k = n
      BY <1>2, <2>1, <2>3, <2>4, <3>1 DEF OwnsItsFile, Has, Exists
    <3>2. CASE k # n
      BY <2>1, <2>4, <3>2 DEF OwnsItsFile, Has, Exists
    <3> QED
      BY <3>1, <3>2
  <2>5. \A q \in Proc, k \in Name : RecordsPid(q, k)' => RecordsPid(q, k) /\ k # n
    BY <2>1, <2>3 DEF RecordsPid, Exists
  <2>6. EmptyUntilWritten'
    BY <2>1, <2>5 DEF EmptyUntilWritten
  <2>7. NamesOnlyHolders'
    BY <2>1, <2>5 DEF NamesOnlyHolders, Has, Gone
  <2> QED
    BY <2>2, <2>4, <2>6, <2>7 DEF OwnsItsFile
<1> QED
  BY <1>1, <1>2

LEMMA Writing ==
  ASSUME LockInv, NEW p \in Proc, WriteMetadata(p)
  PROVE  LockInv'
<1> DEFINE n == want[p]
<1> USE DEF LockInv, LockTypeOK
<1>1. /\ pc[p] = "write"
      /\ pc' = [pc EXCEPT ![p] = "held"]
      /\ UNCHANGED <<want, failures, stolen>>
  BY DEF WriteMetadata, Goto
<1>2. \A q \in Proc, k \in Name : Has(q, k)' <=> Has(q, k)
  BY <1>1 DEF Has
<1>3. CASE Exists(n) /\ lock[n].owner = p
  <2>1. lock' = [lock EXCEPT ![n].written = TRUE, ![n].aged = FALSE] /\ lock[n] \in LockContent
    BY <1>3 DEF WriteMetadata, Exists
  <2>2. lock'[n] \in LockContent /\ lock'[n].owner = p
    BY <1>3, <2>1 DEF LockContent
  <2>3. \A k \in Name : Exists(k)' = Exists(k) /\ (Exists(k) => lock'[k].owner = lock[k].owner)
    BY <1>3, <2>1, <2>2, NoFileIsNoContent DEF Exists
  <2>4. \A q \in Proc, k \in Name : RecordsPid(q, k)' => RecordsPid(q, k) \/ (q = p /\ k = n)
    BY <2>1, <2>2 DEF RecordsPid, Exists
  <2>5. LockTypeOK'
    BY <1>1, <2>1, <2>2 DEF Phase
  <2>6. OwnsItsFile'
    BY <1>1, <1>2, <2>3 DEF OwnsItsFile
  <2>7. EmptyUntilWritten'
    BY <1>1, <2>4 DEF EmptyUntilWritten
  <2>8. NamesOnlyHolders'
    BY <1>1, <1>2, <2>4 DEF NamesOnlyHolders, Has, Gone
  <2> QED
    BY <2>5, <2>6, <2>7, <2>8
<1>4. CASE ~(Exists(n) /\ lock[n].owner = p)
  BY <1>1, <1>2, <1>4 DEF WriteMetadata, Phase, OwnsItsFile, EmptyUntilWritten, NamesOnlyHolders,
     RecordsPid, Exists, Gone
<1> QED
  BY <1>3, <1>4

\* A failed write and a kill drop a lock and leave its file.
LEMMA Dropping ==
  ASSUME LockInv, NEW p \in Proc, WriteFails(p) \/ Kill(p) \/ RecyclePid(p) \/ RetirePid(p)
  PROVE  LockInv'
<1> USE DEF LockInv, LockTypeOK
<1>1. PICK phase \in {"idle", "dead", "recycled"} : pc' = [pc EXCEPT ![p] = phase]
  BY DEF WriteFails, Kill, RecyclePid, RetirePid, Goto
<1>2. UNCHANGED <<lock, want, stolen>> /\ failures' \in 0 .. MaxFailures
  BY LockAssumption DEF WriteFails, Kill, RecyclePid, RetirePid
<1>3. \A q \in Proc, k \in Name : Has(q, k)' => Has(q, k)
  BY <1>1, <1>2 DEF Has
<1>4. \A q \in Proc, k \in Name : RecordsPid(q, k)' <=> RecordsPid(q, k)
  BY <1>2 DEF RecordsPid, Exists
<1>5. ASSUME NEW q \in Proc, NEW k \in Name, RecordsPid(q, k)
      PROVE  Has(q, k)' \/ pc'[q] \in Gone
  <2>1. CASE q # p
    BY <1>1, <1>2, <1>5, <2>1 DEF NamesOnlyHolders, Has
  <2>2. CASE q = p /\ WriteFails(p)
    BY <1>5, <2>2 DEF WriteFails, NamesOnlyHolders, EmptyUntilWritten, Has, Gone
  <2>3. CASE q = p /\ ~WriteFails(p)
    BY <1>1, <2>3 DEF Kill, RecyclePid, RetirePid, Goto, Gone
  <2> QED
    BY <2>1, <2>2, <2>3
<1>6. LockTypeOK'
  BY <1>1, <1>2 DEF Phase, Gone
<1>7. OwnsItsFile' /\ EmptyUntilWritten'
  BY <1>1, <1>2, <1>3, <1>4 DEF OwnsItsFile, EmptyUntilWritten, Exists
<1> QED
  BY <1>4, <1>5, <1>6, <1>7 DEF NamesOnlyHolders

LEMMA Ageing ==
  ASSUME LockInv, NEW n \in Name, Age(n)
  PROVE  LockInv'
<1> USE DEF LockInv, LockTypeOK
<1>1. lock[n] \in LockContent /\ lock' = [lock EXCEPT ![n].aged = TRUE] /\ UNCHANGED <<pc, want, failures, stolen>>
  BY DEF Age, Exists
<1>2. lock'[n] \in LockContent /\ lock'[n].owner = lock[n].owner /\ lock'[n].written = lock[n].written
  BY <1>1 DEF LockContent
<1>3. \A k \in Name : /\ Exists(k)' = Exists(k)
                      /\ lock'[k].owner = lock[k].owner
                      /\ lock'[k].written = lock[k].written
  BY <1>1, <1>2, NoFileIsNoContent DEF Exists
<1>4. \A q \in Proc, k \in Name : /\ Has(q, k)' <=> Has(q, k)
                                  /\ RecordsPid(q, k)' <=> RecordsPid(q, k)
  BY <1>1, <1>3 DEF Has, RecordsPid
<1>5. LockTypeOK'
  BY <1>1, <1>2
<1> QED
  BY <1>1, <1>3, <1>4, <1>5 DEF OwnsItsFile, EmptyUntilWritten, NamesOnlyHolders

LEMMA LockStepInv == LockInv /\ [LockNext]_lockVars => LockInv'
<1> SUFFICES ASSUME LockInv, [LockNext]_lockVars PROVE LockInv'
  OBVIOUS
<1>1. CASE UNCHANGED lockVars
  BY <1>1 DEF lockVars, LockInv, LockTypeOK, OwnsItsFile, EmptyUntilWritten, NamesOnlyHolders, Has,
     RecordsPid, Exists
<1>2. ASSUME NEW n \in Name, Age(n) PROVE LockInv'
  BY <1>2, Ageing
<1>3. ASSUME NEW p \in Proc,
             \/ \E n \in Name : Start(p, n)
             \/ Step(p) \/ Retry(p) \/ GiveUp(p) \/ WriteFails(p)
             \/ Kill(p) \/ RecyclePid(p) \/ RetirePid(p)
      PROVE  LockInv'
  BY <1>3, Looking, Removing, Opening, Writing, Dropping DEF Step
<1> QED
  BY <1>1, <1>2, <1>3 DEF LockNext

THEOREM LockInvariance == LockSpec => []LockInv
  BY LockInitInv, LockStepInv, PTL DEF LockSpec

-----------------------------------------------------------------------------
\* The lock module's state is well-typed.
THEOREM LockTypeCorrect == LockSpec => []LockTypeOK
<1>1. LockInv => LockTypeOK
  BY DEF LockInv
<1> QED
  BY <1>1, LockInvariance, PTL

\* Two callers of acquireLock have a lock at once only after a removal took it
\* from one of them.
THEOREM StolenOrExclusive == LockSpec => []MutexUnlessStolen
<1>1. LockInv => MutexUnlessStolen
  BY DEF LockInv, OwnsItsFile, MutexUnlessStolen
<1> QED
  BY <1>1, LockInvariance, PTL

\* No process that goes on running leaves a lock file with its pid behind.
THEOREM NoOrphanOfTheLiving == LockSpec => []NamesOnlyHolders
<1>1. LockInv => NamesOnlyHolders
  BY DEF LockInv
<1> QED
  BY <1>1, LockInvariance, PTL

-----------------------------------------------------------------------------
\* The processes that have the lock n.
Holders(n) == {p \in Proc : Has(p, n)}

\* As long as nothing was stolen, a step gives a lock to one process while
\* nobody has it, or takes it from the only one, which may have been killed.
\* What a takeover removes is then no one's.
LEMMA MutexStep ==
  ASSUME LockInv, stolen = {}, [LockNext]_lockVars
  PROVE  [LockMutex!Next]_([n \in Name |-> Holders(n)])
<1> DEFINE h == [n \in Name |-> Holders(n)]
<1> USE DEF LockInv, LockTypeOK
<1>1. ASSUME \A q \in Proc, k \in Name : Has(q, k)' <=> Has(q, k)
      PROVE  h' = h
  BY <1>1 DEF Holders
<1>2. CASE UNCHANGED lockVars
  BY <1>1, <1>2 DEF lockVars, Has
<1>3. ASSUME NEW n \in Name, Age(n) PROVE h' = h
  BY <1>1, <1>3 DEF Age, Has
<1>4. ASSUME NEW p \in Proc, NEW n \in Name, Start(p, n) PROVE h' = h
  BY <1>1, <1>4 DEF Start, Goto, Has
<1>5. ASSUME NEW p \in Proc,
             ReadHolder(p) \/ StatHolder(p) \/ Takeover(p) \/ Retry(p) \/ GiveUp(p) \/ WriteMetadata(p)
      PROVE  h' = h
  BY <1>1, <1>5 DEF ReadHolder, StatHolder, Takeover, Retry, GiveUp, WriteMetadata, Goto, Has
<1>6. ASSUME NEW p \in Proc, OpenExclusive(p) PROVE h' = h \/ LockMutex!Next
  <2>1. CASE Exists(want[p])
    BY <1>1, <1>6, <2>1 DEF OpenExclusive, Goto, Has
  <2>2. CASE ~Exists(want[p])
    <3>1. pc' = [pc EXCEPT ![p] = "write"] /\ want' = want /\ pc[p] = "open"
      BY <1>6, <2>2 DEF OpenExclusive, Goto
    <3>2. h[want[p]] = {}
      BY <2>2 DEF OwnsItsFile, Holders
    <3>3. \A k \in Name : h'[k] = IF k = want[p] THEN {p} ELSE h[k]
      <4>1. \A q \in Proc, k \in Name : Has(q, k)' <=> Has(q, k) \/ (q = p /\ k = want[p])
        BY <3>1 DEF Has
      <4>2. h'[want[p]] = {p} /\ want[p] \in Name
        BY <3>2, <4>1 DEF Holders
      <4>3. \A k \in Name : k # want[p] => h'[k] = h[k]
        BY <4>1 DEF Holders
      <4> QED
        BY <4>2, <4>3
    <3>4. LockMutex!Acquire(p, want[p])
      BY <3>2, <3>3 DEF LockMutex!Acquire, Holders
    <3> QED
      BY <3>4 DEF LockMutex!Next
  <2> QED
    BY <2>1, <2>2
<1>7. ASSUME NEW p \in Proc, Has(p, want[p]), want' = want, NEW phase \in {"idle", "dead", "recycled"},
             pc' = [pc EXCEPT ![p] = phase]
      PROVE  LockMutex!Next
  <2>1. want[p] \in Name
    OBVIOUS
  <2>2. h[want[p]] = {p}
    BY <1>7 DEF OwnsItsFile, Holders
  <2>3. \A k \in Name : h'[k] = IF k = want[p] THEN {} ELSE h[k]
    <3>1. \A q \in Proc, k \in Name : Has(q, k)' <=> Has(q, k) /\ q # p
      BY <1>7 DEF Has
    <3>2. \A k \in Name : k # want[p] => ~Has(p, k)
      BY DEF Has
    <3> QED
      BY <2>1, <2>2, <3>1, <3>2 DEF Holders
  <2>4. h' = [h EXCEPT ![want[p]] = {}]
    BY <2>3
  <2>5. LockMutex!Release(p, want[p])
    BY <2>2, <2>4 DEF LockMutex!Release, Holders
  <2> QED
    BY <2>1, <2>5 DEF LockMutex!Next
<1>8. ASSUME NEW p \in Proc, Release(p) \/ WriteFails(p) \/ Kill(p) \/ RecyclePid(p) \/ RetirePid(p)
      PROVE  h' = h \/ LockMutex!Next
  <2>1. want' = want /\ \E phase \in {"idle", "dead", "recycled"} : pc' = [pc EXCEPT ![p] = phase]
    BY <1>8 DEF Release, WriteFails, Kill, RecyclePid, RetirePid, Goto
  <2>2. CASE Has(p, want[p])
    BY <1>7, <2>1, <2>2
  <2>3. CASE ~Has(p, want[p])
    BY <1>1, <2>1, <2>3 DEF Has
  <2> QED
    BY <2>2, <2>3
<1> QED
  BY <1>2, <1>3, <1>4, <1>5, <1>6, <1>8 DEF LockNext, Step

\* In a behaviour in which no removal takes a lock from a process that has it,
\* the lock files are a mutex, whatever is killed and however many stale locks
\* are taken over (state/locks.ts:39-82).
THEOREM MutexUntilStolen == LockSpec /\ [](stolen = {}) => ImplementsMutex
<1>1. LockInit => LockMutex!Init
  BY DEF LockInit, LockMutex!Init, Has
<1>2. LockInv /\ stolen = {} /\ [LockNext]_lockVars
        => [LockMutex!Next]_([n \in Name |-> {p \in Proc : Has(p, n)}])
  BY MutexStep DEF Holders
<1> QED
  BY <1>1, <1>2, LockInvariance, PTL DEF LockSpec, ImplementsMutex, LockMutex!Spec

-----------------------------------------------------------------------------
-----------------------------------------------------------------------------
\* What it takes for a lock to be stolen: a process that had it was killed, or
\* its callers pass a stale window.
MayBeStolen(n) == n \in Stale \/ \E q \in Mortal : pc[q] \in Gone /\ want[q] = n

TheftInv ==
    /\ \A p \in Proc : pc[p] \in Gone => p \in Mortal
    /\ \A p \in Proc, n \in Name : RecordsPid(p, n) => want[p] = n
    /\ \A p \in Proc : pc[p] = "stat" => want[p] \in Stale
    /\ \A p \in Proc : pc[p] = "take" => MayBeStolen(want[p])
    /\ \A n \in stolen : MayBeStolen(n)

\* The dead stay dead, and after the lock they were after.
LEMMA CausesStay ==
  ASSUME LockInv, [LockNext]_lockVars, NEW n \in Name, MayBeStolen(n)
  PROVE  MayBeStolen(n)'
<1> USE DEF LockInv, LockTypeOK, Gone
<1>1. ASSUME NEW q \in Proc, pc[q] \in Gone PROVE pc'[q] \in Gone /\ want'[q] = want[q]
  BY <1>1 DEF LockNext, lockVars, Start, Step, ReadHolder, StatHolder, Takeover, OpenExclusive, WriteMetadata,
     Release, Retry, GiveUp, WriteFails, Kill, RecyclePid, RetirePid, Age, Goto
<1> QED
  BY <1>1, LockAssumption DEF MayBeStolen

\* A process moves by its own step, or by what happens to it.
Own(p) ==
    \/ \E n \in Name : Start(p, n)
    \/ Step(p) \/ Retry(p) \/ GiveUp(p) \/ WriteFails(p)
    \/ Kill(p) \/ RecyclePid(p) \/ RetirePid(p)

LEMMA OwnSteps ==
  ASSUME LockTypeOK, [LockNext]_lockVars, NEW p \in Proc
  PROVE  (UNCHANGED <<pc[p], want[p]>>) \/ Own(p)
<1>1. ASSUME NEW q \in Proc, q # p, Own(q) PROVE UNCHANGED <<pc[p], want[p]>>
  <2>1. ASSUME NEW n \in Name, Start(q, n) PROVE UNCHANGED <<pc[p], want[p]>>
    BY <1>1, <2>1 DEF Start, Goto, LockTypeOK
  <2>2. CASE ReadHolder(q) \/ StatHolder(q) \/ Takeover(q)
    <3>1. want' = want /\ \E phase : Goto(q, phase)
      BY <2>2 DEF ReadHolder, StatHolder, Takeover
    <3> QED
      BY <1>1, <3>1 DEF Goto, LockTypeOK
  <2>3. CASE OpenExclusive(q)
    BY <1>1, <2>3 DEF OpenExclusive, Goto, LockTypeOK
  <2>4. CASE WriteMetadata(q) \/ Release(q) \/ WriteFails(q)
    <3>1. want' = want /\ \E phase : Goto(q, phase)
      BY <2>4 DEF WriteMetadata, Release, WriteFails
    <3> QED
      BY <1>1, <3>1 DEF Goto, LockTypeOK
  <2>5. CASE Retry(q) \/ GiveUp(q) \/ Kill(q) \/ RecyclePid(q) \/ RetirePid(q)
    <3>1. want' = want /\ \E phase : Goto(q, phase)
      BY <2>5 DEF Retry, GiveUp, Kill, RecyclePid, RetirePid
    <3> QED
      BY <1>1, <3>1 DEF Goto, LockTypeOK
  <2> QED
    BY <1>1, <2>1, <2>2, <2>3, <2>4, <2>5 DEF Own, Step
<1>2. ASSUME (\E n \in Name : Age(n)) \/ UNCHANGED lockVars PROVE UNCHANGED <<pc[p], want[p]>>
  BY <1>2 DEF Age, lockVars
<1>3. (\E q \in Proc : Own(q)) \/ (\E n \in Name : Age(n)) \/ UNCHANGED lockVars
  BY DEF LockNext, Own
<1> QED
  BY <1>1, <1>2, <1>3

\* A file comes to name a process when that process writes to its own.
LEMMA RecordedWhenWritten ==
  ASSUME LockInv, [LockNext]_lockVars, NEW p \in Proc, NEW n \in Name, RecordsPid(p, n)', ~RecordsPid(p, n)
  PROVE  \E q \in Proc : WriteMetadata(q) /\ n = want[q] /\ lock[n] \in LockContent /\ lock[n].owner = q
<1> USE DEF LockInv, LockTypeOK
<1>1. CASE lock'[n] = lock[n]
  BY <1>1 DEF RecordsPid, Exists
<1>2. ASSUME Age(n) PROVE FALSE
  <2>1. lock[n] \in LockContent /\ lock'[n] = [lock[n] EXCEPT !.aged = TRUE]
    BY <1>2 DEF Age, Exists
  <2>2. lock'[n].written = lock[n].written /\ lock'[n].owner = lock[n].owner /\ lock[n] # NoFile
    BY <2>1, NoFileIsNoContent DEF LockContent
  <2> QED
    BY <2>2 DEF RecordsPid, Exists
<1>3. ASSUME NEW q \in Proc, Takeover(q) \/ Release(q), n = want[q] PROVE FALSE
  BY <1>3, NoFileIsNoContent DEF Takeover, Release, RecordsPid, Exists
<1>4. ASSUME NEW q \in Proc, OpenExclusive(q), n = want[q], lock'[n] # lock[n] PROVE FALSE
  BY <1>4 DEF OpenExclusive, RecordsPid, Exists
<1>5. ASSUME NEW q \in Proc, WriteMetadata(q), n = want[q], lock'[n] # lock[n]
      PROVE  lock[n] \in LockContent /\ lock[n].owner = q
  BY <1>5 DEF WriteMetadata, Exists
<1>6. CASE lock'[n] # lock[n]
  <2>1. \/ Age(n)
        \/ \E q \in Proc : n = want[q] /\ (Takeover(q) \/ Release(q) \/ OpenExclusive(q) \/ WriteMetadata(q))
    BY <1>6 DEF LockNext, lockVars, Start, Step, ReadHolder, StatHolder, Takeover, OpenExclusive, WriteMetadata,
       Release, Retry, GiveUp, WriteFails, Kill, RecyclePid, RetirePid, Age
  <2> QED
    BY <1>2, <1>3, <1>4, <1>5, <1>6, <2>1
<1> QED
  BY <1>1, <1>6

LEMMA TheftStep ==
  ASSUME LockInv, TheftInv, [LockNext]_lockVars
  PROVE  TheftInv'
<1> USE DEF LockInv, LockTypeOK, TheftInv
<1>0. \A n \in Name : MayBeStolen(n) => MayBeStolen(n)'
  BY CausesStay
<1>1. ASSUME NEW p \in Proc, pc'[p] \in Gone PROVE p \in Mortal
  <2>1. CASE pc'[p] = pc[p] \/ Kill(p) \/ RecyclePid(p) \/ RetirePid(p)
    BY <1>1, <2>1 DEF Kill, RecyclePid, RetirePid, Gone
  <2>2. CASE (\E n \in Name : Start(p, n)) \/ Step(p) \/ Retry(p) \/ GiveUp(p) \/ WriteFails(p)
    BY <1>1, <2>2 DEF Start, Step, ReadHolder, StatHolder, Takeover, OpenExclusive, WriteMetadata, Release,
       Retry, GiveUp, WriteFails, Goto, Gone
  <2> QED
    BY <2>1, <2>2, OwnSteps DEF Own
<1>2. ASSUME NEW p \in Proc, NEW n \in Name, RecordsPid(p, n)' PROVE want'[p] = n
  <2>1. CASE RecordsPid(p, n)
    <3>1. Has(p, n) \/ pc[p] \in Gone
      BY <2>1 DEF NamesOnlyHolders
    <3>2. want'[p] = want[p]
      BY <3>1, OwnSteps DEF Own, Has, Gone, Start, Step, ReadHolder, StatHolder, Takeover, OpenExclusive,
         WriteMetadata, Release, Retry, GiveUp, WriteFails, Kill, RecyclePid, RetirePid
    <3> QED
      BY <2>1, <3>2
  <2>2. CASE ~RecordsPid(p, n)
    <3>1. PICK q \in Proc : WriteMetadata(q) /\ n = want[q] /\ lock[n] \in LockContent /\ lock[n].owner = q
      BY <1>2, <2>2, RecordedWhenWritten
    <3>2. lock'[n].owner = q
      BY <3>1 DEF WriteMetadata, LockContent, Exists
    <3> QED
      BY <1>2, <3>1, <3>2 DEF RecordsPid, WriteMetadata
  <2> QED
    BY <2>1, <2>2
<1>3. ASSUME NEW p \in Proc, pc'[p] = "stat" PROVE want'[p] \in Stale
  <2>1. (UNCHANGED <<pc[p], want[p]>>) \/ ReadHolder(p)
    BY <1>3, OwnSteps DEF Own, Start, Step, StatHolder, Takeover, OpenExclusive, WriteMetadata,
       Release, Retry, GiveUp, WriteFails, Kill, RecyclePid, RetirePid, Goto
  <2> QED
    BY <1>3, <2>1 DEF ReadHolder, Goto
<1>4. ASSUME NEW p \in Proc, pc'[p] = "take" PROVE MayBeStolen(want[p])' /\ want'[p] = want[p]
  <2>1. \/ pc[p] = "take" /\ want'[p] = want[p]
        \/ ReadHolder(p) \/ StatHolder(p)
    BY <1>4, OwnSteps DEF Own, Start, Step, Takeover, OpenExclusive, WriteMetadata,
       Release, Retry, GiveUp, WriteFails, Kill, RecyclePid, RetirePid, Goto
  <2>2. want'[p] = want[p]
    BY <2>1 DEF ReadHolder, StatHolder
  <2>3. MayBeStolen(want[p])
    <3>1. CASE pc[p] = "take"
      BY <3>1
    <3>2. CASE StatHolder(p)
      BY <3>2 DEF StatHolder, MayBeStolen
    <3>3. CASE ReadHolder(p)
      <4> DEFINE n == want[p]
                 q == lock[n].owner
      <4>1. HolderState(n) = "dead"
        BY <1>4, <3>3 DEF ReadHolder, Goto
      <4>2. RecordsPid(q, n) /\ pc[q] = "dead" /\ lock[n] \in LockContent
        BY <4>1 DEF HolderState, IsProcessAlive, RecordsPid, Exists
      <4>3. q \in Proc
        BY <4>2 DEF LockContent
      <4>4. q \in Mortal /\ pc[q] \in Gone /\ want[q] = n
        BY <4>2, <4>3 DEF Gone
      <4> QED
        BY <4>4 DEF MayBeStolen
    <3> QED
      BY <2>1, <3>1, <3>2, <3>3
  <2> QED
    BY <1>0, <2>2, <2>3
<1>5. ASSUME NEW n \in stolen' PROVE MayBeStolen(n)'
  <2>1. CASE n \in stolen
    BY <1>0, <2>1
  <2>2. CASE n \notin stolen
    <3>1. PICK p \in Proc : (Takeover(p) \/ Release(p)) /\ n \in TakenFrom(p, want[p])
      BY <1>5, <2>2 DEF LockNext, lockVars, Start, Step, ReadHolder, StatHolder, Takeover, OpenExclusive,
         WriteMetadata, Release, Retry, GiveUp, WriteFails, Kill, RecyclePid, RetirePid, Age
    <3>2. n = want[p] /\ lock[n].owner # p
      BY <3>1 DEF TakenFrom
    \* Who releases a lock that was never stolen finds its own file.
    <3>3. ~Release(p)
      BY <2>2, <3>2 DEF Release, OwnsItsFile, Has
    <3>4. MayBeStolen(n)
      BY <3>1, <3>2, <3>3 DEF Takeover
    <3> QED
      BY <1>0, <3>2, <3>4
  <2> QED
    BY <2>1, <2>2
<1>6. \A p \in Proc : pc'[p] = "take" => MayBeStolen(want[p])'
  BY <1>4
<1> QED
  BY <1>1, <1>2, <1>3, <1>5, <1>6

\* A lock is stolen from a process that has it only if another that had the same
\* lock was killed, or its callers pass a stale window: the race needs a crash,
\* or a lock file that stood empty for that long (locks.ts:187-226).
THEOREM TheftNeedsACrash == LockSpec => [](\A n \in stolen : MayBeStolen(n))
<1>1. LockInit => TheftInv
  BY NoFileIsNoContent DEF LockInit, TheftInv, Gone, RecordsPid, Exists
<1>2. LockInv /\ TheftInv /\ [LockNext]_lockVars => TheftInv'
  BY TheftStep
<1>3. TheftInv => \A n \in stolen : MayBeStolen(n)
  BY DEF TheftInv
<1> QED
  BY <1>1, <1>2, <1>3, LockInvariance, PTL DEF LockSpec

\* While no process is killed and no caller passes a stale window, the lock
\* files are a mutex.
THEOREM LockFilesAreAMutex ==
  ASSUME Mortal = {}, Stale = {}
  PROVE  LockSpec => ImplementsMutex
<1>1. (\A n \in stolen : MayBeStolen(n)) => stolen = {}
  BY DEF MayBeStolen
<1> QED
  BY <1>1, TheftNeedsACrash, MutexUntilStolen, PTL
=============================================================================
