------------------------------ MODULE Service -------------------------------
(***************************************************************************)
(* Service mode: a proxy worker that outlives the command that started it  *)
(* (src/src/service/worker.ts), the commands that start, stop and restart  *)
(* it and let the operating system trust its CA (service/state.ts,         *)
(* trust-store.ts), and the worker's own refresh of that trust when its CA *)
(* rotates (trust-refresh.ts).  Commands and refreshes exclude each other  *)
(* by the service lock (LockFile); a worker closes whenever the signal     *)
(* reaches it, a command may be killed between any two of its steps, and   *)
(* the trust store may refuse.                                             *)
(***************************************************************************)
EXTENDS Integers

CONSTANTS
    MaxWorkers,   \* bound: how many workers are started
    MaxRotations, \* bound: how often each rotates its CA
    MaxFaults     \* bound: kills of commands, refusals of the trust store, failed writes

ASSUME ServiceAssumption ==
    MaxWorkers \in Nat /\ MaxRotations \in Nat /\ MaxFaults \in Nat

VARIABLES
    cmd,          \* the command or refresh that has the service lock
    state,        \* service.json
    record,       \* trust-store.json: the certificate dg says the system trusts
    refreshError, \* trust-refresh-error.json is there
    runtime,      \* runtime.json: the worker it names
    anchors,      \* dg's certificates the operating system trusts
    provider,     \* of the trust store: a directory of files, the macOS keychain, or
                  \* Linux's, a directory from which a command makes what is trusted
    phase,        \* of each worker
    told,         \* the workers with a SIGTERM on its way
    rotations,    \* of each worker's CA
    dir,          \* the workers whose session directory, with the CA, is there
    faults,
    lost          \* history: anchors and workers out of the books after a fault

files == <<state, record, refreshError, runtime>>
workers == <<phase, told, rotations, dir>>
vars == <<cmd, files, anchors, provider, workers, faults, lost>>

-----------------------------------------------------------------------------
Worker == 1..MaxWorkers
NoWorker == 0
Cert == Worker \X (0..MaxRotations)
NoCert == <<NoWorker, 0>>

Op == {"none", "run", "stop", "trust", "untrust", "uninstall", "refresh"}
At == {"idle", "spawn", "wait", "remove", "install", "record", "unrecord", "wipe", "write"}

\* What a command carries from step to step: the worker it starts or runs in,
\* and the certificate it is to install.
Command == {c \in [op : Op, at : At, worker : Worker \cup {NoWorker}, plan : Cert \cup {NoCert}] :
              c.at = "wait" => c.worker # NoWorker}
Provider == {"file", "keychain", "linux"}

Idle == [op |-> "none", at |-> "idle", worker |-> NoWorker, plan |-> NoCert]
Run(at, worker) == [op |-> "run", at |-> at, worker |-> worker, plan |-> NoCert]

EmptyState == [configured |-> FALSE, running |-> FALSE, trusted |-> FALSE, proxy |-> NoWorker]

Alive(w) == phase[w] \in {"booting", "up"}

\* The first certificate of a worker's CA file.
ActiveCert(w) == <<w, rotations[w]>>

\* readState: installed is what service.json says and trust-store.json confirms.
ReadState == [state EXCEPT !.trusted = @ /\ record # NoCert]

\* readRuntime(paths) ?? current.proxy
Named == IF runtime # NoWorker THEN runtime ELSE state.proxy

Goto(at) == cmd' = [cmd EXCEPT !.at = at]

Init ==
    /\ cmd = Idle /\ state = EmptyState /\ record = NoCert /\ refreshError = FALSE
    /\ runtime = NoWorker /\ anchors = {} /\ provider \in Provider
    /\ phase = [w \in Worker |-> "none"] /\ told = {}
    /\ rotations = [w \in Worker |-> 0] /\ dir = {}
    /\ faults = 0 /\ lost = [anchors |-> {}, workers |-> {}, record |-> FALSE]

\* What a command that is cut short leaves out of the books: an anchor without
\* the record, a worker without service.json, for any worker that closes
\* removes runtime.json, and one that comes late replaces it, and the record of
\* an anchor that trust uninstall has removed, or on Linux just its file.
Forget == lost' = [anchors |-> lost.anchors \cup (anchors \ {record'}),
                   workers |-> lost.workers \cup ({cmd.worker, state.proxy} \ {state'.proxy, NoWorker}),
                   record |-> lost.record \/ (cmd.op = "untrust" /\ (cmd.at = "unrecord" \/ anchors' # anchors))]

-----------------------------------------------------------------------------
\* The commands, from the lock to its release.

\* configureService
Configure ==
    /\ cmd = Idle
    /\ state' = [ReadState EXCEPT !.configured = TRUE]
    /\ UNCHANGED <<cmd, record, refreshError, runtime, anchors, provider, workers, faults, lost>>

\* cleanupRuntime: SIGTERM, and both the directory and runtime.json at once.
CleanupRuntime ==
    /\ told' = IF Named # NoWorker /\ Alive(Named) THEN told \cup {Named} ELSE told
    /\ dir' = dir \ {Named}
    /\ runtime' = NoWorker
    /\ UNCHANGED <<phase, rotations>>

\* startService finds the worker it named healthy.
StartNoop ==
    /\ cmd = Idle /\ state.configured /\ state.running
    /\ runtime # NoWorker /\ phase[runtime] = "up"
    /\ state' = [ReadState EXCEPT !.proxy = runtime]
    /\ UNCHANGED <<cmd, record, refreshError, runtime, anchors, provider, workers, faults, lost>>

\* startService, restartService
BeginRun ==
    /\ cmd = Idle /\ state.configured
    /\ CleanupRuntime
    /\ cmd' = Run("spawn", NoWorker)
    /\ UNCHANGED <<state, record, refreshError, anchors, provider, faults, lost>>

\* startServiceProxyRuntime, to the wait
Spawn ==
    /\ cmd.op = "run" /\ cmd.at = "spawn"
    /\ \E w \in Worker :
         /\ phase[w] = "none" /\ \A v \in Worker : v < w => phase[v] # "none"
         /\ phase' = [phase EXCEPT ![w] = "booting"]
         /\ dir' = dir \cup {w}
         /\ cmd' = Run("wait", w)
    /\ UNCHANGED <<files, anchors, provider, told, rotations, faults, lost>>

\* waitForRuntime finds it; removeTrustRecordIfDrifted compares.
Started ==
    /\ cmd.op = "run" /\ cmd.at = "wait"
    /\ runtime = cmd.worker
    /\ Goto(IF record \notin {NoCert, ActiveCert(runtime)} THEN "remove" ELSE "write")
    /\ UNCHANGED <<files, anchors, provider, workers, faults, lost>>

\* The worker is not healthy in time: it is told to go, and the command fails.
StartFails ==
    /\ cmd.op = "run" /\ cmd.at = "wait"
    /\ runtime # cmd.worker
    /\ told' = IF Alive(cmd.worker) THEN told \cup {cmd.worker} ELSE told
    /\ dir' = dir \ {cmd.worker}
    /\ cmd' = Idle
    /\ UNCHANGED <<files, anchors, provider, phase, rotations, faults>>
    /\ Forget

\* Slip: the worker is looked for in runtime.json only.
StopByRuntimeFile ==
    /\ cmd = Idle /\ state.configured
    /\ told' = IF runtime # NoWorker /\ Alive(runtime) THEN told \cup {runtime} ELSE told
    /\ dir' = dir \ {runtime}
    /\ runtime' = NoWorker
    /\ cmd' = [Idle EXCEPT !.op = "stop", !.at = "write"]
    /\ UNCHANGED <<phase, rotations, state, record, refreshError, anchors, provider, faults, lost>>

\* stopService
BeginStop ==
    /\ cmd = Idle /\ state.configured
    /\ CleanupRuntime
    /\ cmd' = [Idle EXCEPT !.op = "stop", !.at = "write"]
    /\ UNCHANGED <<state, record, refreshError, anchors, provider, faults, lost>>

\* Slip: a record that is there is replaced, its anchor left where it is.
TrustOverOld ==
    /\ cmd = Idle /\ state.configured /\ Named \in dir
    /\ record # ActiveCert(Named)
    /\ cmd' = [Idle EXCEPT !.op = "trust", !.at = "install", !.plan = ActiveCert(Named)]
    /\ UNCHANGED <<files, anchors, provider, workers, faults, lost>>

\* installServiceTrust, when the record does not already name the active CA.
BeginTrust ==
    /\ cmd = Idle /\ state.configured /\ Named \in dir
    /\ record # ActiveCert(Named)
    /\ cmd' = [Idle EXCEPT !.op = "trust", !.plan = ActiveCert(Named),
                           !.at = IF record = NoCert THEN "install" ELSE "remove"]
    /\ UNCHANGED <<files, anchors, provider, workers, faults, lost>>

TrustNoop ==
    /\ cmd = Idle /\ state.configured /\ Named \in dir
    /\ record = ActiveCert(Named)
    /\ state' = [state EXCEPT !.trusted = TRUE]
    /\ refreshError' = FALSE
    /\ UNCHANGED <<cmd, record, runtime, anchors, provider, workers, faults, lost>>

\* uninstallServiceTrust, without and with a record
BeginUntrust ==
    /\ cmd = Idle
    /\ \/ /\ record = NoCert
          /\ refreshError' = FALSE
          /\ state' = [state EXCEPT !.trusted = FALSE]
          /\ UNCHANGED cmd
       \/ /\ record # NoCert
          /\ cmd' = [Idle EXCEPT !.op = "untrust", !.at = "remove"]
          /\ UNCHANGED <<refreshError, state>>
    /\ UNCHANGED <<record, runtime, anchors, provider, workers, faults, lost>>

\* uninstallService
BeginUninstall ==
    /\ cmd = Idle
    /\ CleanupRuntime
    /\ cmd' = [Idle EXCEPT !.op = "uninstall",
                           !.at = IF record = NoCert THEN "wipe" ELSE "remove"]
    /\ UNCHANGED <<state, record, refreshError, anchors, provider, faults, lost>>

AfterRemoval == CASE cmd.op \in {"run", "untrust"} -> "unrecord"
                  [] cmd.op \in {"trust", "refresh"} -> "install"
                  [] OTHER -> "wipe"

\* Slip: the record is rewritten before the trust store has the certificate.
RemoveAndRecord ==
    /\ cmd.at = "remove"
    /\ provider = "keychain" => record \in anchors
    /\ anchors' = anchors \ {record}
    /\ record' = IF cmd.op = "trust" THEN cmd.plan ELSE record
    /\ Goto(AfterRemoval)
    /\ UNCHANGED <<state, refreshError, runtime, provider, workers, faults, lost>>

\* applyTrustUninstall; the keychain's tool fails for what is not there.
RemoveAnchor ==
    /\ cmd.at = "remove"
    /\ provider = "keychain" => record \in anchors
    /\ anchors' = anchors \ {record}
    /\ Goto(AfterRemoval)
    /\ UNCHANGED <<files, provider, workers, faults, lost>>

\* A command ends with the error; a refresh notes it (writeTrustRefreshError).
Fails ==
    /\ cmd' = Idle
    /\ refreshError' = (refreshError \/ cmd.op = "refresh")
    /\ UNCHANGED <<state, record, runtime, provider, workers>>
    /\ Forget

\* Linux removes the file of the certificate before the command that may fail:
\* what the system trusts then follows with the next update, of any package.
RemoveFails ==
    /\ cmd.at = "remove"
    /\ \/ provider = "keychain" /\ record \notin anchors /\ UNCHANGED faults
       \/ faults < MaxFaults /\ faults' = faults + 1
    /\ anchors' \in {anchors} \cup IF provider = "linux" THEN {anchors \ {record}} ELSE {}
    /\ Fails

\* applyTrustInstall, and after it a refresh sweeps other dg files away
\* (sweepStaleDgTrustFiles, not in a keychain; on Linux the bundle follows with
\* the next update).  A file bears the name the command chose; a keychain knows
\* the certificate that the CA file holds by now.
InstallAnchor ==
    /\ cmd.at = "install"
    /\ cmd.plan[1] \in dir
    /\ LET anchor == IF provider = "keychain" THEN ActiveCert(cmd.plan[1]) ELSE cmd.plan
       IN  /\ anchors' = IF cmd.op = "refresh" /\ provider # "keychain" THEN {anchor} ELSE anchors \cup {anchor}
           /\ lost' = [lost EXCEPT !.anchors = @ \cup ({anchor} \ {cmd.plan})]
    /\ refreshError' = (refreshError /\ cmd.op = "refresh")
    /\ Goto("record")
    /\ UNCHANGED <<state, record, runtime, provider, workers, faults>>

\* Linux takes its file away again when the command after it fails.
InstallFails ==
    /\ cmd.at = "install"
    /\ \/ cmd.plan[1] \notin dir /\ UNCHANGED faults
       \/ faults < MaxFaults /\ faults' = faults + 1
    /\ anchors' \in {anchors} \cup IF provider = "linux" THEN {anchors \ {cmd.plan}} ELSE {}
    /\ Fails

\* writeServiceTrustRecord
WriteRecord ==
    /\ cmd.at = "record"
    /\ record' = cmd.plan
    /\ IF cmd.op = "refresh" THEN cmd' = Idle /\ refreshError' = FALSE
                             ELSE Goto("write") /\ UNCHANGED refreshError
    /\ UNCHANGED <<state, runtime, anchors, provider, workers, faults, lost>>

\* The anchor is there, and nothing names it.
WriteRecordFails ==
    /\ cmd.at = "record"
    /\ faults < MaxFaults /\ faults' = faults + 1
    /\ UNCHANGED anchors
    /\ Fails

Unrecord ==
    /\ cmd.at = "unrecord"
    /\ record' = NoCert
    /\ refreshError' = (refreshError /\ cmd.op = "run")
    /\ Goto("write")
    /\ UNCHANGED <<state, runtime, anchors, provider, workers, faults, lost>>

\* writeState, the last step of all but an uninstall.
WriteState ==
    /\ cmd.at = "write"
    /\ state' = CASE cmd.op = "run" -> [ReadState EXCEPT !.running = TRUE, !.proxy = cmd.worker]
                  [] cmd.op = "stop" -> [ReadState EXCEPT !.running = FALSE, !.proxy = NoWorker]
                  [] OTHER -> [state EXCEPT !.trusted = (cmd.op = "trust")]
    /\ cmd' = Idle
    /\ UNCHANGED <<record, refreshError, runtime, anchors, provider, workers, faults, lost>>

\* The record and the whole service directory.
Wipe ==
    /\ cmd.at = "wipe"
    /\ record' = NoCert /\ state' = EmptyState /\ refreshError' = FALSE /\ runtime' = NoWorker
    /\ cmd' = Idle
    /\ UNCHANGED <<anchors, provider, workers, faults, lost>>

-----------------------------------------------------------------------------
\* The command is killed, or a write of it fails; a refresh dies with its worker.
Abandon ==
    /\ cmd # Idle
    /\ faults < MaxFaults /\ faults' = faults + 1
    /\ cmd' = Idle
    /\ phase' = IF cmd.op = "refresh" THEN [phase EXCEPT ![cmd.worker] = "gone"] ELSE phase
    /\ UNCHANGED <<files, anchors, provider, told, rotations, dir>>
    /\ Forget

\* dg uninstall without --service removes the state directory (setup/plan.ts,
\* uninstallSetup).  It takes another lock, and is not run here in the middle
\* of a service command.
UninstallSetup ==
    /\ cmd = Idle
    /\ record' = NoCert /\ state' = EmptyState /\ refreshError' = FALSE /\ runtime' = NoWorker
    /\ dir' = {}
    /\ UNCHANGED <<cmd, anchors, provider, phase, told, rotations, faults>>
    /\ Forget

-----------------------------------------------------------------------------
\* The worker.  While it refreshes the trust it does nothing else.
Free(w) == ~(cmd.op = "refresh" /\ cmd.worker = w)

\* It ends by writing runtime.json; it may have begun before its session.json
\* was removed, without which it cannot, and its CA then makes the directory
\* again, if it was not there before.
Boot(w) ==
    /\ phase[w] = "booting"
    /\ \/ phase' = [phase EXCEPT ![w] = "up"] /\ runtime' = w /\ dir' \in {dir, dir \cup {w}}
       \/ w \notin dir /\ phase' = [phase EXCEPT ![w] = "gone"] /\ UNCHANGED <<runtime, dir>>
    /\ UNCHANGED <<cmd, state, record, refreshError, anchors, provider, told, rotations,
                   faults, lost>>

\* close() removes runtime.json, whichever worker it names by now.
Close(w) ==
    /\ Alive(w) /\ Free(w)
    /\ phase' = [phase EXCEPT ![w] = "gone"]
    /\ runtime' = NoWorker
    /\ UNCHANGED <<cmd, state, record, refreshError, anchors, provider, told, rotations, dir,
                   faults, lost>>

\* A signal before the handlers are there, or the end of the machine's day.
Die(w) ==
    /\ Alive(w) /\ Free(w)
    /\ phase' = [phase EXCEPT ![w] = "gone"]
    /\ UNCHANGED <<cmd, files, anchors, provider, told, rotations, dir, faults, lost>>

\* rotateIfDue: the new CA is written, and the trust refreshed unless the lock
\* is busy, which is swallowed, or nothing is recorded.
Rotate(w) ==
    /\ phase[w] = "up" /\ Free(w)
    /\ rotations[w] < MaxRotations
    /\ rotations' = [rotations EXCEPT ![w] = @ + 1]
    /\ dir' = dir \cup {w}
    /\ cmd' = IF cmd = Idle /\ record # NoCert
                THEN [op |-> "refresh", at |-> "remove", worker |-> w,
                      plan |-> <<w, rotations[w] + 1>>]
                ELSE cmd
    /\ UNCHANGED <<files, anchors, provider, phase, told, faults, lost>>

\* The session of a service has no pid file: after a day without a write, as on a
\* machine that slept over its rotation, any dg command prunes it (sessions.ts,
\* pruneDeadSessionsSync).
PruneSession(w) ==
    /\ w \in dir /\ phase[w] # "booting" /\ cmd.worker # w
    /\ dir' = dir \ {w}
    /\ UNCHANGED <<cmd, files, anchors, provider, phase, told, rotations, faults, lost>>

Next ==
    \/ Configure \/ StartNoop \/ BeginRun \/ Spawn \/ Started \/ StartFails \/ BeginStop
    \/ BeginTrust \/ TrustNoop \/ BeginUntrust \/ BeginUninstall
    \/ RemoveAnchor \/ RemoveFails \/ InstallAnchor \/ InstallFails
    \/ WriteRecord \/ WriteRecordFails \/ Unrecord \/ WriteState \/ Wipe
    \/ Abandon \/ UninstallSetup
    \/ \E w \in Worker : Boot(w) \/ Close(w) \/ Die(w) \/ Rotate(w) \/ PruneSession(w)

Spec == Init /\ [][Next]_vars

-----------------------------------------------------------------------------
\* Properties.

\* Every variable has a value the program can give it.
TypeOK ==
    /\ cmd \in Command
    /\ state \in [configured : BOOLEAN, running : BOOLEAN, trusted : BOOLEAN,
                  proxy : Worker \cup {NoWorker}]
    /\ record \in Cert \cup {NoCert} /\ refreshError \in BOOLEAN
    /\ runtime \in Worker \cup {NoWorker}
    /\ anchors \subseteq Cert /\ provider \in Provider
    /\ phase \in [Worker -> {"none", "booting", "up", "gone"}]
    /\ told \subseteq Worker /\ rotations \in [Worker -> 0..MaxRotations]
    /\ dir \subseteq Worker /\ faults \in 0..MaxFaults
    /\ lost \in [anchors : SUBSET Cert, workers : SUBSET Worker, record : BOOLEAN]

\* A certificate of dg's that the system trusts is the one on record, so that dg
\* can take it back, unless a kill, a failed write of the record, dg uninstall or
\* a rotation under an install into a keychain came in between (state.ts, installServiceTrust; trust-store.ts,
\* writeServiceTrustRecord: "so a torn write can't drop the trustInstalled state
\* while the OS still trusts the CA").
AnchorsRecorded ==
    \A c \in anchors : c = record \/ c \in lost.anchors \/ (cmd.at = "record" /\ c = cmd.plan)

\* A worker that nobody has told to go is one that a command will find, to stop
\* it, unless a start was cut short or dg uninstall forgot it (state.ts,
\* cleanupRuntime; worker.ts, close).
WorkersNamed ==
    lost.workers = {} =>
        \A w \in Worker : Alive(w) /\ w \notin told => w \in {runtime, state.proxy, cmd.worker}

\* What dg service status says at any moment, for it takes no lock, is so: trust
\* installed, no drift and no error, of a running worker whose CA is on disk, means
\* that the system trusts that CA, but while a command or the refresh of a worker
\* that should be gone has taken it away and has not written so yet, after a trust
\* uninstall cut short there, on Linux also by the command that fails once the file
\* of the certificate is gone (trust-store.ts, applyTrustUninstall), or after a
\* start cut short (state.ts, applyRuntimeDiagnostics; trust-refresh.ts).
ReportsTrust ==
    /\ state.running /\ ReadState.trusted /\ ~refreshError
    /\ Named \in dir /\ phase[Named] = "up" /\ record = ActiveCert(Named)
Exchanging == cmd.at \in {"unrecord", "install", "record"}
StatusHonest ==
    ReportsTrust /\ ~lost.record /\ lost.workers = {} /\ ~Exchanging => record \in anchors
=============================================================================
