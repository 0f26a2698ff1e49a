--------------------------- MODULE InstallSession ---------------------------
(***************************************************************************)
(* One protected install: the launcher that starts a proxy worker, runs    *)
(* the package manager behind it and turns what the worker left in         *)
(* proxy.json into an exit code (src/src/launcher/run.ts), the worker      *)
(* (src/src/proxy/worker.ts), and the session directory they share         *)
(* (src/src/state/sessions.ts), which other dg commands prune.  Any of     *)
(* them may be killed or interrupted anywhere.  Installs share nothing, so *)
(* one is enough; one that is restarted with a force override is another.  *)
(***************************************************************************)
EXTENDS Integers

CONSTANT MaxLost   \* bound: how often a write of proxy.json may fail

ASSUME SessionAssumption == MaxLost \in Nat

VARIABLES
    launcher,  \* the dg process
    ready,     \* what waitForProxyReady told it
    exit,      \* what it exits with
    child,     \* the package manager
    worker,    \* the proxy worker
    closed,    \* the worker's flag of that name
    stdin,     \* the pipe from launcher to worker
    signal,    \* a SIGTERM or SIGINT is on its way to the worker
    dir,       \* the session directory: absent, young, or older than a day
    pidFile,   \* the worker's pid is written there
    reused,    \* another program has the dead worker's pid: not yet, now, no longer
    decided,   \* the actions of the decisions in the worker's memory
    file,      \* proxy.json
    lost,      \* failed writes of it, and whether the last write was one
    uninstalled  \* dg uninstall has been run

dg == <<launcher, ready, exit>>
inbox == <<stdin, signal>>
disk == <<dir, pidFile, file>>
memory == <<decided, lost>>
others == <<reused, uninstalled>>
vars == <<dg, child, worker, closed, inbox, disk, others, memory>>

-----------------------------------------------------------------------------
\* asking: the preflight prompt of a live install, whose worker starts already;
\* running: the package manager runs, under the proxy's signal handlers.
LauncherPhase == {"idle", "asking", "starting", "running", "stopping",
                  "cleaning", "done", "killed"}

\* booting: the handlers are not in place; exited: it called process.exit.
WorkerPhase == {"none", "booting", "starting", "up", "closing", "exited", "killed"}
Alive == worker \in {"booting", "starting", "up", "closing"}

Action == {"pass", "warn", "block"}
ExitCode == {"none", "zero", "child", "two", "error", "signal"}

\* readProxySessionState: what a missing proxy.json counts as.
NoFile == [ready |-> FALSE, decisions |-> {}]
ProxyFile == [ready : BOOLEAN, decisions : SUBSET Action]

Present == dir # "absent"

\* rmSync of the directory, with all that is in it.
RemoveDir == dir' = "absent" /\ pidFile' = FALSE /\ file' = NoFile

EndStdin == stdin' = IF stdin = "open" THEN "ended" ELSE stdin

Init ==
    /\ launcher = "idle" /\ ready = FALSE /\ exit = "none" /\ child = "none"
    /\ worker = "none" /\ closed = FALSE /\ stdin = "open" /\ signal = FALSE
    /\ dir = "absent" /\ pidFile = FALSE /\ file = NoFile /\ reused = "no"
    /\ uninstalled = FALSE /\ decided = {} /\ lost = [count |-> 0, last |-> FALSE]

-----------------------------------------------------------------------------
\* The launcher.

\* createSessionSync and the spawn of the worker; a live install asks meanwhile.
StartWorker(phase) ==
    /\ launcher = "idle"
    /\ launcher' = phase
    /\ worker' = "booting"
    /\ dir' = "young"
    /\ UNCHANGED <<ready, exit, child, closed, inbox, pidFile, file, others, memory>>

\* The worker cannot be spawned: a decision to block, and no session.
CannotStart ==
    /\ launcher = "idle"
    /\ launcher' = "done"
    /\ exit' = "two"
    /\ UNCHANGED <<ready, child, worker, closed, inbox, disk, others, memory>>

WaitForProxyReady ==
    /\ launcher \in {"asking", "starting"}
    /\ file.ready
    /\ ready' = TRUE
    /\ UNCHANGED <<launcher, exit, child, worker, closed, inbox, disk, others, memory>>

\* The user goes on, and the install awaits the prepared worker.
GoOn ==
    /\ launcher = "asking"
    /\ launcher' = "starting"
    /\ UNCHANGED <<ready, exit, child, worker, closed, inbox, disk, others, memory>>

\* terminateProxyProcess begins: SIGTERM.
BeginStop(code) ==
    /\ launcher' = "stopping"
    /\ exit' = code
    /\ signal' = (signal \/ Alive)
    /\ UNCHANGED <<ready, child, worker, closed, disk, others, memory>>

\* The prepared worker is discarded: cancelled, or to be restarted with force.
Discard ==
    /\ launcher = "asking" /\ ready
    /\ BeginStop("two")
    /\ EndStdin

\* waitForProxyReady gave up; the worker may be on its way all the same.
StartFails ==
    /\ launcher \in {"asking", "starting"} /\ ~ready
    /\ BeginStop("two")
    /\ UNCHANGED stdin

Spawn ==
    /\ launcher = "starting" /\ ready
    /\ launcher' = "running"
    /\ child' = "running"
    /\ UNCHANGED <<ready, exit, worker, closed, inbox, disk, others, memory>>

\* preverified.json or the cache cannot be written.
SpawnFails ==
    /\ launcher = "starting" /\ ready
    /\ BeginStop("error")
    /\ EndStdin

ChildEnds(result) ==
    /\ child = "running"
    /\ child' = result
    /\ UNCHANGED <<dg, worker, closed, inbox, disk, others, memory>>

\* The exit code, from the package manager's own and readProxySessionState.
ExitOf ==
    IF "block" \in file.decisions THEN "two"
    ELSE IF child = "error" THEN "child"
    ELSE IF file.decisions = {} THEN "two" ELSE "zero"

Finish ==
    /\ launcher = "running"
    /\ child \in {"ok", "error"}
    /\ BeginStop(ExitOf)
    /\ EndStdin

\* Slip: SIGTERM is sent and not waited for.
StopUnwaited ==
    /\ launcher = "stopping"
    /\ launcher' = "cleaning"
    /\ UNCHANGED <<ready, exit, child, worker, closed, inbox, disk, others, memory>>

\* terminateProxyProcess ends: the worker is gone, by SIGKILL if need be.
StopWorker ==
    /\ launcher = "stopping"
    /\ launcher' = "cleaning"
    /\ worker' = IF Alive THEN "killed" ELSE worker
    /\ UNCHANGED <<ready, exit, child, closed, inbox, disk, others, memory>>

CleanUp ==
    /\ launcher = "cleaning"
    /\ launcher' = "done"
    /\ RemoveDir
    /\ UNCHANGED <<ready, exit, child, worker, closed, inbox, others, memory>>

-----------------------------------------------------------------------------
\* The worker.

\* It reads session.json and writes its pid; without the directory it crashes.
Boot ==
    /\ worker = "booting"
    /\ worker' = IF Present THEN "starting" ELSE "killed"
    /\ pidFile' = Present
    /\ UNCHANGED <<dg, child, closed, inbox, dir, file, others, memory>>

\* writeProxyState: the whole state, in a directory made anew if need be; a
\* failure is noted and goes unheard.
WriteState(decisions) ==
    \/ /\ dir' = "young"
       /\ file' = [ready |-> TRUE, decisions |-> decisions]
       /\ lost' = [lost EXCEPT !.last = FALSE]
    \/ /\ lost.count < MaxLost
       /\ lost' = [count |-> lost.count + 1, last |-> TRUE]
       /\ UNCHANGED <<dir, file>>

\* startProductionHttpProxy.
Listen ==
    /\ worker = "starting"
    /\ worker' = "up"
    /\ WriteState(decided)
    /\ UNCHANGED <<dg, child, closed, inbox, pidFile, others, decided>>

\* Slip: the file gets the new decision only.
DecideOverwriting(action) ==
    /\ worker \in {"up", "closing"} /\ child # "none"
    /\ decided' = decided \cup {action}
    /\ WriteState({action})
    /\ UNCHANGED <<dg, child, worker, closed, inbox, pidFile, others>>

\* recordDecision, for a package manager that may be gone by now.
Decide(action) ==
    /\ worker \in {"up", "closing"} /\ child # "none"
    /\ decided' = decided \cup {action}
    /\ WriteState(decided \cup {action})
    /\ UNCHANGED <<dg, child, worker, closed, inbox, pidFile, others>>

\* shutdown: the first call of close() closes the proxy, if there is one, which
\* takes a while only when it has connections, and then removes the directory;
\* a later one returns and the process exits.
Shutdown ==
    \/ /\ worker = "starting" \/ (worker = "up" /\ child = "none")
       /\ worker' = "exited"
       /\ closed' = TRUE
       /\ RemoveDir
    \/ /\ worker = "up" /\ child # "none"
       /\ worker' = "closing"
       /\ closed' = TRUE
       /\ UNCHANGED disk
    \/ /\ worker = "closing"
       /\ closed
       /\ worker' = "exited"
       /\ UNCHANGED <<closed, disk>>

OnStdinEnd ==
    /\ stdin = "ended"
    /\ stdin' = "heard"
    /\ Shutdown
    /\ UNCHANGED <<dg, child, signal, others, memory>>

\* While it boots there is no handler, and the signal ends it.
OnSignal ==
    /\ signal
    /\ signal' = FALSE
    /\ \/ Shutdown
       \/ worker = "booting" /\ worker' = "killed" /\ UNCHANGED <<closed, disk>>
    /\ UNCHANGED <<dg, child, stdin, others, memory>>

\* The poll of the parent's pid.
OnOrphaned ==
    /\ launcher \in {"done", "killed"}
    /\ Shutdown
    /\ UNCHANGED <<dg, child, inbox, others, memory>>

\* exitOnFatal: an uncaught exception or an unhandled rejection.
OnFatal ==
    /\ Shutdown
    /\ UNCHANGED <<dg, child, inbox, others, memory>>

\* The server is closed: the first call of close() goes on.
CloseDone ==
    /\ worker = "closing"
    /\ worker' = "exited"
    /\ RemoveDir
    /\ UNCHANGED <<dg, child, closed, inbox, others, memory>>

-----------------------------------------------------------------------------
\* Around them.

WorkerKilled ==
    /\ Alive
    /\ worker' = "killed"
    /\ UNCHANGED <<dg, child, closed, inbox, disk, others, memory>>

\* SIGKILL, or a signal dg does not handle; the kernel closes the pipe.
LauncherKilled ==
    /\ launcher \in {"asking", "starting", "running", "stopping", "cleaning"}
    /\ launcher' = "killed"
    /\ exit' = "signal"
    /\ EndStdin
    /\ UNCHANGED <<ready, child, worker, closed, signal, disk, others, memory>>

\* Ctrl-C goes to the worker too; only while the package manager runs does
\* the launcher have a handler, installProxySignalHandlers.
Interrupt ==
    \/ /\ launcher = "running"
       /\ BeginStop("signal")
       /\ EndStdin
    \/ /\ launcher \in {"asking", "starting", "stopping", "cleaning"}
       /\ launcher' = "killed"
       /\ exit' = "signal"
       /\ EndStdin
       /\ signal' = (signal \/ Alive)
       /\ UNCHANGED <<ready, child, worker, closed, disk, others, memory>>

\* The package manager's cache is in the session directory (prepareProxyCacheDir).
ChildCaches ==
    /\ child = "running"
    /\ dir' = "young"
    /\ UNCHANGED <<dg, child, worker, closed, inbox, pidFile, file, others, memory>>

\* A day passes without an entry made or removed in the directory.
Age ==
    /\ dir = "young"
    /\ dir' = "old"
    /\ UNCHANGED <<dg, child, worker, closed, inbox, pidFile, file, others, memory>>

PidTaken ==
    /\ worker \in {"exited", "killed"} /\ reused = "no"
    /\ reused' = "now"
    /\ UNCHANGED <<dg, child, worker, closed, inbox, disk, uninstalled, memory>>

PidFreed ==
    /\ reused = "now"
    /\ reused' = "past"
    /\ UNCHANGED <<dg, child, worker, closed, inbox, disk, uninstalled, memory>>

\* sessionWorkerAlive
SessionWorkerAlive == pidFile /\ (Alive \/ reused = "now")

\* Slip: the age decides alone.
PruneByAge ==
    /\ dir = "old"
    /\ RemoveDir
    /\ UNCHANGED <<dg, child, worker, closed, inbox, others, memory>>

\* Slip: without a pid file the worker counts as alive.
PruneWithPidFile ==
    /\ dir = "old" /\ pidFile /\ ~SessionWorkerAlive
    /\ RemoveDir
    /\ UNCHANGED <<dg, child, worker, closed, inbox, others, memory>>

\* Any other dg command: pruneDeadSessionsSync.
Prune ==
    /\ dir = "old" /\ ~SessionWorkerAlive
    /\ RemoveDir
    /\ UNCHANGED <<dg, child, worker, closed, inbox, others, memory>>

\* dg uninstall removes the state directory, and with --keep-config its old
\* sessions (sweepStaleSessionsSync), and asks for no pid.
Uninstall ==
    /\ ~uninstalled
    /\ uninstalled' = TRUE
    /\ RemoveDir
    /\ UNCHANGED <<dg, child, worker, closed, inbox, reused, memory>>

-----------------------------------------------------------------------------
LauncherNext ==
    \/ \E phase \in {"asking", "starting"} : StartWorker(phase)
    \/ CannotStart \/ WaitForProxyReady \/ GoOn \/ Discard \/ StartFails
    \/ Spawn \/ SpawnFails \/ Finish \/ StopWorker \/ CleanUp

ChildNext == ChildCaches \/ \E result \in {"ok", "error"} : ChildEnds(result)

WorkerNext ==
    \/ Boot \/ Listen \/ (\E action \in Action : Decide(action))
    \/ OnStdinEnd \/ OnSignal \/ OnOrphaned \/ OnFatal \/ CloseDone

OthersNext ==
    \/ WorkerKilled \/ LauncherKilled \/ Interrupt
    \/ Age \/ PidTaken \/ PidFreed \/ Prune \/ Uninstall

Next == LauncherNext \/ ChildNext \/ WorkerNext \/ OthersNext

Spec == Init /\ [][Next]_vars

\* The scheduler runs every process, a package manager ends, time passes, and
\* dg is used again; nobody need answer a prompt, and nothing need fail.
Fairness ==
    /\ WF_vars(StartFails \/ Spawn) /\ WF_vars(Finish)
    /\ WF_vars(StopWorker) /\ WF_vars(CleanUp)
    /\ WF_vars(\E result \in {"ok", "error"} : ChildEnds(result))
    /\ WF_vars(Boot) /\ WF_vars(Listen)
    /\ WF_vars(OnStdinEnd) /\ WF_vars(OnSignal) /\ WF_vars(CloseDone)
    /\ WF_vars(Age) /\ WF_vars(PidFreed) /\ WF_vars(Prune)

FairSpec == Spec /\ Fairness

-----------------------------------------------------------------------------
\* Properties.

\* Every variable has a value the program can give it.
TypeOK ==
    /\ launcher \in LauncherPhase /\ ready \in BOOLEAN /\ exit \in ExitCode
    /\ child \in {"none", "running", "ok", "error"}
    /\ worker \in WorkerPhase /\ closed \in BOOLEAN
    /\ stdin \in {"open", "ended", "heard"} /\ signal \in BOOLEAN
    /\ dir \in {"absent", "young", "old"} /\ pidFile \in BOOLEAN
    /\ file \in ProxyFile /\ reused \in {"no", "now", "past"} /\ uninstalled \in BOOLEAN
    /\ decided \in SUBSET Action /\ lost \in [count : 0..MaxLost, last : BOOLEAN]

\* dg exits with 0 only for an install that the package manager finished and of
\* which the worker had decided something and blocked nothing, whatever was
\* killed, swept or re-created before; only the failure of the very last write
\* of proxy.json can hide a decision (run.ts, runWithProductionProxy).
ExitZeroIsVerified ==
    [][ exit # "zero" /\ exit' = "zero" =>
          /\ child = "ok"
          /\ decided # {}
          /\ "block" \in decided => lost.last ]_vars

\* A dg that stopped its worker leaves neither worker nor directory behind, and
\* neither comes back, except for a directory that a package manager which
\* outlived a signal makes anew (run.ts, stopProxyWorker).
LeavesNothingBehind ==
    launcher = "done" => ~Alive /\ (Present => child = "running" \/ exit = "signal")

\* The directory of a worker that has written its pid there is removed by that
\* worker as it exits or by dg uninstall, and by no prune (sessions.ts,
\* pruneDeadSessionsSync).
LiveSessionsStay ==
    [][ Alive /\ pidFile /\ ~pidFile' =>
          worker' = "exited" \/ uninstalled' # uninstalled ]_vars

\* Once dg is gone, however it went, the worker ends and the directory goes
\* (worker.ts, shutdown; sessions.ts, pruneDeadSessionsSync).
SessionsGoAway == launcher \in {"done", "killed"} ~> ~Alive /\ ~Present
=============================================================================
