------------------------ MODULE InstallSessionProofs ------------------------
(***************************************************************************)
(* Theorems about one protected install (InstallSession): the safety       *)
(* properties of its run, for any number of failed writes of proxy.json.   *)
(***************************************************************************)
EXTENDS InstallSession, TLAPS

\* proxy.json holds nothing the worker did not decide, and all it decided if it
\* is there and its last write went through.
FileIsMemory ==
    /\ file.decisions \subseteq decided
    /\ ~file.ready => file.decisions = {}
    /\ file.ready /\ ~lost.last => file.decisions = decided

\* How far the package manager is, by the phase of the launcher.
ChildFollowsLauncher ==
    /\ launcher \in {"idle", "asking", "starting"} => child = "none"
    /\ launcher \in {"stopping", "cleaning", "done"} => child # "running" \/ exit = "signal"

\* Nobody but a running package manager can make the directory once the worker
\* is gone; the pid is written into a directory that is there.
NothingIsLeft ==
    /\ launcher = "idle" => worker = "none" /\ dir = "absent"
    /\ launcher = "cleaning" => ~Alive
    /\ pidFile => Present
    /\ LeavesNothingBehind

\* The inductive invariant.
SessionInv == TypeOK /\ FileIsMemory /\ ChildFollowsLauncher /\ NothingIsLeft

LEMMA SessionInit == Init => SessionInv
<1>. SUFFICES ASSUME Init PROVE SessionInv
  OBVIOUS
<1>1. file = [ready |-> FALSE, decisions |-> {}] /\ file \in ProxyFile
  BY DEF Init, NoFile, ProxyFile
<1>2. lost \in [count : 0..MaxLost, last : BOOLEAN]
  BY SessionAssumption DEF Init
<1>3. TypeOK
  BY <1>1, <1>2 DEF Init, TypeOK, LauncherPhase, WorkerPhase, ExitCode
<1>4. FileIsMemory
  BY <1>1 DEF Init, FileIsMemory
<1>. QED  BY <1>3, <1>4 DEF Init, SessionInv, ChildFollowsLauncher, NothingIsLeft,
       LeavesNothingBehind

\* The steps that leave proxy.json and the worker's decisions as they are.
LEMMA FileIsMemoryKept ==
  ASSUME FileIsMemory, UNCHANGED <<file, memory>>
  PROVE  FileIsMemory'
  BY DEF FileIsMemory, memory

LEMMA FileIsMemoryRemoved ==
  ASSUME FileIsMemory, RemoveDir, UNCHANGED memory
  PROVE  FileIsMemory'
  BY DEF FileIsMemory, RemoveDir, NoFile, memory

\* A write keeps the file a copy of the memory it is given.
LEMMA FileIsMemoryWritten ==
  ASSUME FileIsMemory, NEW decisions, decided \subseteq decisions, decided' = decisions,
         lost \in [count : 0..MaxLost, last : BOOLEAN], WriteState(decisions)
  PROVE  FileIsMemory'
  BY DEF FileIsMemory, WriteState

-----------------------------------------------------------------------------
LEMMA RemovedIsTyped ==
  ASSUME RemoveDir
  PROVE  file' \in ProxyFile /\ pidFile' \in BOOLEAN /\ dir' \in {"absent", "young", "old"}
  BY DEF RemoveDir, NoFile, ProxyFile

\* A removal by another command disturbs no process.
LEMMA RemovedTypeOK ==
  ASSUME TypeOK, RemoveDir, uninstalled' \in BOOLEAN,
         UNCHANGED <<dg, child, worker, closed, inbox, reused, memory>>
  PROVE  TypeOK'
  BY RemovedIsTyped DEF TypeOK, RemoveDir, dg, inbox, memory

\* The end of a process leaves the rest typed, with the directory or without.
LEMMA EndedTypeOK ==
  ASSUME TypeOK, launcher' \in LauncherPhase, worker' \in WorkerPhase, signal' \in BOOLEAN,
         RemoveDir \/ UNCHANGED disk,
         UNCHANGED <<ready, exit, child, closed, stdin, others, memory>>
  PROVE  TypeOK'
<1>1. file' \in ProxyFile /\ pidFile' \in BOOLEAN /\ dir' \in {"absent", "young", "old"}
  BY RemovedIsTyped DEF TypeOK, disk
<1>2. lost' = lost /\ decided' = decided
  BY DEF memory
<1>. QED  BY <1>1, <1>2 DEF TypeOK, others

LEMMA WrittenIsTyped ==
  ASSUME TypeOK, NEW decisions \in SUBSET Action, WriteState(decisions)
  PROVE  /\ file' \in ProxyFile
         /\ dir' \in {"absent", "young", "old"}
         /\ lost' \in [count : 0..MaxLost, last : BOOLEAN]
<1>1. CASE /\ dir' = "young"
           /\ file' = [ready |-> TRUE, decisions |-> decisions]
           /\ lost' = [lost EXCEPT !.last = FALSE]
  BY <1>1 DEF TypeOK, ProxyFile
<1>2. CASE /\ lost.count < MaxLost
           /\ lost' = [count |-> lost.count + 1, last |-> TRUE]
           /\ UNCHANGED <<dir, file>>
  <2>1. lost.count + 1 \in 0..MaxLost
    BY <1>2, SessionAssumption DEF TypeOK
  <2>. QED  BY <1>2, <2>1 DEF TypeOK
<1>. QED  BY <1>1, <1>2 DEF WriteState

LEMMA ExitOfIsTyped == ExitOf \in ExitCode
  BY DEF ExitOf, ExitCode

LEMMA LauncherStep ==
  ASSUME SessionInv, LauncherNext PROVE SessionInv'
<1>. USE DEF SessionInv, TypeOK, ChildFollowsLauncher, NothingIsLeft, LeavesNothingBehind,
         LauncherPhase, WorkerPhase, Alive, Present, dg, inbox, disk, others, memory
<1>1. ASSUME NEW phase \in {"asking", "starting"}, StartWorker(phase) PROVE SessionInv'
  BY <1>1, FileIsMemoryKept DEF StartWorker
<1>2. CASE CannotStart
  BY <1>2, FileIsMemoryKept DEF CannotStart, ExitCode
<1>3. CASE WaitForProxyReady
  BY <1>3, FileIsMemoryKept DEF WaitForProxyReady
<1>4. CASE GoOn
  BY <1>4, FileIsMemoryKept DEF GoOn
<1>5. CASE Discard
  BY <1>5, FileIsMemoryKept DEF Discard, BeginStop, EndStdin, ExitCode
<1>6. CASE StartFails
  BY <1>6, FileIsMemoryKept DEF StartFails, BeginStop, ExitCode
<1>7. CASE Spawn
  BY <1>7, FileIsMemoryKept DEF Spawn
<1>8. CASE SpawnFails
  BY <1>8, FileIsMemoryKept DEF SpawnFails, BeginStop, EndStdin, ExitCode
<1>9. CASE Finish
  BY <1>9, FileIsMemoryKept, ExitOfIsTyped DEF Finish, BeginStop, EndStdin
<1>10. CASE StopWorker
  BY <1>10, FileIsMemoryKept DEF StopWorker
<1>11. CASE CleanUp
  <2>1. RemoveDir /\ UNCHANGED memory
    BY <1>11 DEF CleanUp
  <2>2. FileIsMemory'
    BY <2>1, FileIsMemoryRemoved
  <2>3. dir' = "absent" /\ pidFile' = FALSE /\ file' \in ProxyFile
    BY <2>1, RemovedIsTyped DEF RemoveDir
  <2>4. TypeOK'
    <3>1. launcher' \in LauncherPhase /\ worker' \in WorkerPhase /\ signal' \in BOOLEAN
      BY <1>11 DEF CleanUp
    <3>2. UNCHANGED <<ready, exit, child, closed, stdin, others, memory>>
      BY <1>11 DEF CleanUp
    <3>. HIDE DEF TypeOK, disk, others, memory
    <3>. QED  BY <2>1, <3>1, <3>2, EndedTypeOK DEF SessionInv
  <2>5. NothingIsLeft' /\ ChildFollowsLauncher'
    BY <1>11, <2>3 DEF CleanUp
  <2>. QED  BY <2>2, <2>4, <2>5
<1>. QED  BY <1>1, <1>2, <1>3, <1>4, <1>5, <1>6, <1>7, <1>8, <1>9, <1>10, <1>11
          DEF LauncherNext

\* What the four ways to call it share.
LEMMA ShutdownStep ==
  ASSUME SessionInv, Shutdown, UNCHANGED <<dg, child, others, memory>>,
         stdin' \in {"open", "ended", "heard"}, signal' \in BOOLEAN
  PROVE  SessionInv'
<1>. USE DEF SessionInv, TypeOK, ChildFollowsLauncher, NothingIsLeft, LeavesNothingBehind,
         WorkerPhase, Alive, Present, dg, disk, others, memory
<1>1. CASE RemoveDir /\ worker' = "exited" /\ closed' = TRUE /\ worker # "none"
  <2>1. FileIsMemory'
    BY <1>1, FileIsMemoryRemoved
  <2>2. dir' = "absent" /\ pidFile' = FALSE /\ file' \in ProxyFile
    BY <1>1, RemovedIsTyped DEF RemoveDir
  <2>3. TypeOK'
    BY <1>1, <2>2
  <2>4. NothingIsLeft' /\ ChildFollowsLauncher'
    BY <1>1, <2>2
  <2>. QED  BY <2>1, <2>3, <2>4
<1>2. CASE worker = "up" /\ worker' = "closing" /\ closed' = TRUE /\ UNCHANGED disk
  BY <1>2, FileIsMemoryKept
<1>3. CASE worker = "closing" /\ worker' = "exited" /\ UNCHANGED <<closed, disk>>
  BY <1>3, FileIsMemoryKept
<1>. QED  BY <1>1, <1>2, <1>3 DEF Shutdown

LEMMA WorkerStep ==
  ASSUME SessionInv, WorkerNext PROVE SessionInv'
<1>. USE DEF SessionInv, TypeOK, ChildFollowsLauncher, NothingIsLeft, LeavesNothingBehind,
         WorkerPhase, Alive, Present, dg, inbox, disk, others, memory
<1>1. CASE Boot
  BY <1>1, FileIsMemoryKept DEF Boot
<1>2. CASE Listen
  <2>1. decided \in SUBSET Action /\ decided' = decided /\ WriteState(decided)
    BY <1>2 DEF Listen
  <2>2. FileIsMemory'
    BY <2>1, FileIsMemoryWritten
  <2>3. /\ file' \in ProxyFile /\ dir' \in {"absent", "young", "old"}
        /\ lost' \in [count : 0..MaxLost, last : BOOLEAN]
    BY <2>1, WrittenIsTyped
  <2>4. dir' = dir \/ dir' = "young"
    BY <2>1 DEF WriteState
  <2>5. TypeOK'
    BY <1>2, <2>1, <2>3 DEF Listen
  <2>6. NothingIsLeft' /\ ChildFollowsLauncher'
    BY <1>2, <2>4 DEF Listen
  <2>. QED  BY <2>2, <2>5, <2>6
<1>3. ASSUME NEW action \in Action, Decide(action) PROVE SessionInv'
  <2>1. /\ decided \cup {action} \in SUBSET Action
        /\ decided' = decided \cup {action} /\ WriteState(decided \cup {action})
    BY <1>3 DEF Decide
  <2>2. FileIsMemory'
    BY <2>1, FileIsMemoryWritten
  <2>3. /\ file' \in ProxyFile /\ dir' \in {"absent", "young", "old"}
        /\ lost' \in [count : 0..MaxLost, last : BOOLEAN]
    BY <2>1, WrittenIsTyped
  <2>4. dir' = dir \/ dir' = "young"
    BY <2>1 DEF WriteState
  <2>5. TypeOK'
    BY <1>3, <2>1, <2>3 DEF Decide
  <2>6. NothingIsLeft' /\ ChildFollowsLauncher'
    BY <1>3, <2>4 DEF Decide
  <2>. QED  BY <2>2, <2>5, <2>6
<1>4. CASE OnStdinEnd
  BY <1>4, ShutdownStep DEF OnStdinEnd
<1>5. CASE OnSignal
  <2>1. CASE Shutdown
    BY <1>5, <2>1, ShutdownStep DEF OnSignal
  <2>2. CASE worker = "booting" /\ worker' = "killed" /\ UNCHANGED <<closed, disk>>
    <3>1. FileIsMemory'
      BY <1>5, <2>2, FileIsMemoryKept DEF OnSignal
    <3>2. TypeOK'
      <4>1. launcher' \in LauncherPhase /\ worker' \in WorkerPhase /\ signal' \in BOOLEAN
        BY <1>5, <2>2 DEF OnSignal
      <4>2. UNCHANGED <<ready, exit, child, closed, stdin, others, memory>> /\ UNCHANGED disk
        BY <1>5, <2>2 DEF OnSignal
      <4>. HIDE DEF TypeOK, disk, others, memory
      <4>. QED  BY <4>1, <4>2, EndedTypeOK DEF SessionInv
    <3>. QED  BY <1>5, <2>2, <3>1, <3>2 DEF OnSignal
  <2>. QED  BY <1>5, <2>1, <2>2 DEF OnSignal
<1>6. CASE OnOrphaned
  BY <1>6, ShutdownStep DEF OnOrphaned
<1>7. CASE OnFatal
  BY <1>7, ShutdownStep DEF OnFatal
<1>8. CASE CloseDone
  <2>1. RemoveDir /\ UNCHANGED memory
    BY <1>8 DEF CloseDone
  <2>2. FileIsMemory'
    BY <2>1, FileIsMemoryRemoved
  <2>3. dir' = "absent" /\ pidFile' = FALSE /\ file' \in ProxyFile
    BY <2>1, RemovedIsTyped DEF RemoveDir
  <2>4. TypeOK'
    BY <1>8, <2>3 DEF CloseDone
  <2>5. NothingIsLeft' /\ ChildFollowsLauncher'
    BY <1>8, <2>3 DEF CloseDone
  <2>. QED  BY <2>2, <2>4, <2>5
<1>. QED  BY <1>1, <1>2, <1>3, <1>4, <1>5, <1>6, <1>7, <1>8 DEF WorkerNext

LEMMA OutsideStep ==
  ASSUME SessionInv, ChildNext \/ OthersNext PROVE SessionInv'
<1>. USE DEF SessionInv, TypeOK, ChildFollowsLauncher, NothingIsLeft, LeavesNothingBehind,
         LauncherPhase, WorkerPhase, ExitCode, Alive, Present, dg, inbox, disk, others, memory
<1>1. CASE ChildCaches
  BY <1>1, FileIsMemoryKept DEF ChildCaches
<1>2. ASSUME NEW result \in {"ok", "error"}, ChildEnds(result) PROVE SessionInv'
  BY <1>2, FileIsMemoryKept DEF ChildEnds
<1>3. CASE WorkerKilled
  BY <1>3, FileIsMemoryKept DEF WorkerKilled
<1>4. CASE LauncherKilled
  BY <1>4, FileIsMemoryKept DEF LauncherKilled, EndStdin
<1>5. CASE Interrupt
  <2>1. CASE launcher = "running" /\ BeginStop("signal") /\ EndStdin
    BY <2>1, FileIsMemoryKept DEF BeginStop, EndStdin
  <2>2. CASE launcher \in {"asking", "starting", "stopping", "cleaning"} /\ launcher' = "killed"
    BY <1>5, <2>2, FileIsMemoryKept DEF Interrupt, BeginStop, EndStdin
  <2>. QED  BY <1>5, <2>1, <2>2 DEF Interrupt
<1>6. CASE Age
  BY <1>6, FileIsMemoryKept DEF Age
<1>7. CASE PidTaken \/ PidFreed
  BY <1>7, FileIsMemoryKept DEF PidTaken, PidFreed
<1>8. CASE Prune
  <2>1. RemoveDir /\ UNCHANGED memory
    BY <1>8 DEF Prune
  <2>2. FileIsMemory'
    BY <2>1, FileIsMemoryRemoved
  <2>3. dir' = "absent" /\ pidFile' = FALSE /\ file' \in ProxyFile
    BY <2>1, RemovedIsTyped DEF RemoveDir
  <2>4. TypeOK'
    BY <1>8, <2>1, RemovedTypeOK DEF Prune
  <2>5. NothingIsLeft' /\ ChildFollowsLauncher'
    BY <1>8, <2>3 DEF Prune
  <2>. QED  BY <2>2, <2>4, <2>5
<1>9. CASE Uninstall
  <2>1. RemoveDir /\ UNCHANGED memory
    BY <1>9 DEF Uninstall
  <2>2. FileIsMemory'
    BY <2>1, FileIsMemoryRemoved
  <2>3. dir' = "absent" /\ pidFile' = FALSE /\ file' \in ProxyFile
    BY <2>1, RemovedIsTyped DEF RemoveDir
  <2>4. TypeOK'
    BY <1>9, <2>1, RemovedTypeOK DEF Uninstall
  <2>5. NothingIsLeft' /\ ChildFollowsLauncher'
    BY <1>9, <2>3 DEF Uninstall
  <2>. QED  BY <2>2, <2>4, <2>5
<1>. QED  BY <1>1, <1>2, <1>3, <1>4, <1>5, <1>6, <1>7, <1>8, <1>9 DEF ChildNext, OthersNext

\* SessionInv is an invariant.
THEOREM SessionInvariant == Spec => []SessionInv
<1>1. SessionInv /\ [Next]_vars => SessionInv'
  <2>. SUFFICES ASSUME SessionInv, [Next]_vars PROVE SessionInv'
    OBVIOUS
  <2>1. CASE Next
    BY <2>1, LauncherStep, WorkerStep, OutsideStep DEF Next
  <2>2. CASE UNCHANGED vars
    BY <2>2 DEF SessionInv, TypeOK, FileIsMemory, ChildFollowsLauncher, NothingIsLeft,
       LeavesNothingBehind, Alive, Present, vars, dg, inbox, disk, others, memory
  <2>. QED  BY <2>1, <2>2
<1>. QED  BY SessionInit, <1>1, PTL DEF Spec

\* Every variable has a value the program can give it (InstallSession).
THEOREM SessionTypes == Spec => []TypeOK
  BY SessionInvariant, PTL DEF SessionInv

\* A dg that stopped its worker leaves neither worker nor directory behind, but
\* for what a package manager that outlived a signal makes anew (run.ts,
\* stopProxyWorker).
THEOREM NothingLeftBehind == Spec => []LeavesNothingBehind
  BY SessionInvariant, PTL DEF SessionInv, NothingIsLeft

-----------------------------------------------------------------------------
\* Only Finish makes dg exit with 0.
LEMMA ZeroStep ==
  ASSUME SessionInv, Next, exit # "zero", exit' = "zero"
  PROVE  Finish
  BY DEF Next, LauncherNext, ChildNext, WorkerNext, OthersNext, StartWorker, CannotStart,
     WaitForProxyReady, GoOn, Discard, StartFails, BeginStop, Spawn, SpawnFails, ChildEnds,
     StopWorker, CleanUp, Boot, Listen, Decide, OnStdinEnd, OnSignal, OnOrphaned, OnFatal,
     CloseDone, WorkerKilled, LauncherKilled, Interrupt, ChildCaches, Age, PidTaken, PidFreed,
     Prune, Uninstall, dg

\* An install exits with 0 only if the package manager did and the worker had
\* decided something and blocked nothing, but for a failed last write of
\* proxy.json (run.ts, runWithProductionProxy).
THEOREM ZeroIsVerified == Spec => ExitZeroIsVerified
<1>1. SessionInv /\ Next /\ exit # "zero" /\ exit' = "zero" =>
        child = "ok" /\ decided # {} /\ ("block" \in decided => lost.last)
  <2>. SUFFICES ASSUME SessionInv, Next, exit # "zero", exit' = "zero"
                PROVE  child = "ok" /\ decided # {} /\ ("block" \in decided => lost.last)
    OBVIOUS
  <2>1. Finish
    BY ZeroStep
  <2>2. /\ child = "ok" /\ file.decisions # {} /\ "block" \notin file.decisions
    BY <2>1 DEF Finish, BeginStop, ExitOf
  <2>3. FileIsMemory /\ lost.last \in BOOLEAN /\ file.ready \in BOOLEAN
    BY DEF SessionInv, TypeOK, ProxyFile
  <2>. QED  BY <2>2, <2>3 DEF FileIsMemory
<1>2. SessionInv /\ [Next]_vars =>
        [ exit # "zero" /\ exit' = "zero" =>
            child = "ok" /\ decided # {} /\ ("block" \in decided => lost.last) ]_vars
  BY <1>1
<1>. QED  BY <1>2, SessionInvariant, PTL DEF Spec, ExitZeroIsVerified

\* A worker's pid file goes only as that worker exits, or with dg uninstall
\* (sessions.ts, pruneDeadSessionsSync).
THEOREM LiveSessionsAreKept == Spec => LiveSessionsStay
<1>. DEFINE Kept == Alive /\ pidFile /\ ~pidFile' =>
                      worker' = "exited" \/ uninstalled' # uninstalled
<1>1. ASSUME SessionInv, Next PROVE Kept
  <2>1. CASE UNCHANGED pidFile
    BY <2>1
  <2>2. CASE Prune
    BY <2>2 DEF Prune, SessionWorkerAlive
  <2>3. CASE Uninstall
    BY <2>3 DEF Uninstall
  <2>4. CASE CleanUp
    BY <1>1, <2>4 DEF CleanUp, SessionInv, NothingIsLeft
  <2>5. CASE Boot
    BY <1>1, <2>5 DEF Boot, SessionInv, NothingIsLeft
  <2>6. CASE worker' = "exited"
    BY <2>6
  <2>7. UNCHANGED pidFile \/ Prune \/ Uninstall \/ CleanUp \/ Boot \/ worker' = "exited"
    BY <1>1 DEF Next, LauncherNext, ChildNext, WorkerNext, OthersNext, StartWorker,
       CannotStart, WaitForProxyReady, GoOn, Discard, StartFails, BeginStop, Spawn,
       SpawnFails, Finish, ChildEnds, StopWorker, Listen, Decide, OnStdinEnd, OnSignal,
       OnOrphaned, OnFatal, Shutdown, CloseDone, WorkerKilled, LauncherKilled, Interrupt,
       ChildCaches, Age, PidTaken, PidFreed, disk
  <2>. QED  BY <2>1, <2>2, <2>3, <2>4, <2>5, <2>6, <2>7
<1>2. SessionInv /\ [Next]_vars => [Kept]_vars
  BY <1>1
<1>. QED  BY <1>2, SessionInvariant, PTL DEF Spec, LiveSessionsStay
=============================================================================
