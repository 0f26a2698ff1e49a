--------------------------- MODULE ServiceProofs ----------------------------
(***************************************************************************)
(* Theorems about the service (Service): its types, and that the trust dg  *)
(* gave can be taken back, for any number of workers, rotations and        *)
(* faults.                                                                 *)
(***************************************************************************)
EXTENDS Service, TLAPS

\* Between the removal of the recorded anchor and the next write of the record
\* no anchor but the one being installed is trusted.
SwapInv ==
    cmd.at \in {"unrecord", "wipe", "install", "record"} =>
        \A c \in anchors : c \in lost.anchors \/ (cmd.at = "record" /\ c = cmd.plan)

\* The inductive invariant.
TrustInv == TypeOK /\ AnchorsRecorded /\ SwapInv

LEMMA ServiceInit == Init => TrustInv
<1>. SUFFICES ASSUME Init PROVE TrustInv
  OBVIOUS
<1>1. 0 \in 0..MaxRotations /\ 0 \in 0..MaxFaults
  BY ServiceAssumption
<1>2. lost \in [anchors : SUBSET Cert, workers : SUBSET Worker, record : BOOLEAN]
  BY DEF Init
<1>3. cmd \in Command /\ state \in [configured : BOOLEAN, running : BOOLEAN, trusted : BOOLEAN,
                                    proxy : Worker \cup {NoWorker}]
  BY DEF Init, Idle, Command, Op, At, EmptyState
<1>. QED  BY <1>1, <1>2, <1>3 DEF Init, TrustInv, TypeOK, AnchorsRecorded, SwapInv

-----------------------------------------------------------------------------
\* What the shared parts of the actions keep.

LEMMA NoCertNames == NoCert \notin Cert
  BY DEF NoCert, Cert, Worker, NoWorker

\* A command that is cut short notes the anchors it leaves without a record.
LEMMA ForgetIsSound ==
  ASSUME TypeOK, Forget, record' \in Cert \cup {NoCert}, anchors' \subseteq anchors,
         cmd' = Idle, state'.proxy \in Worker \cup {NoWorker}
  PROVE  /\ lost' \in [anchors : SUBSET Cert, workers : SUBSET Worker, record : BOOLEAN]
         /\ AnchorsRecorded' /\ SwapInv'
<1>1. /\ anchors \in SUBSET Cert /\ lost.anchors \in SUBSET Cert /\ lost.workers \in SUBSET Worker
      /\ lost.record \in BOOLEAN
      /\ cmd.worker \in Worker \cup {NoWorker} /\ state.proxy \in Worker \cup {NoWorker}
  BY DEF TypeOK, Command
<1>2. ({cmd.worker, state.proxy} \ {state'.proxy, NoWorker}) \subseteq Worker
  BY <1>1
<1>3. lost' \in [anchors : SUBSET Cert, workers : SUBSET Worker, record : BOOLEAN]
  BY <1>1, <1>2 DEF Forget
<1>4. \A c \in anchors' : c = record' \/ c \in lost'.anchors
  BY DEF Forget
<1>. QED  BY <1>3, <1>4 DEF AnchorsRecorded, SwapInv, Idle

LEMMA CleanupIsTyped ==
  ASSUME TypeOK, CleanupRuntime
  PROVE  /\ told' \subseteq Worker /\ dir' \subseteq Worker
         /\ runtime' \in Worker \cup {NoWorker}
         /\ phase' = phase /\ rotations' = rotations
  BY DEF TypeOK, CleanupRuntime, Named

LEMMA GotoIsTyped ==
  ASSUME TypeOK, NEW at \in At \ {"wait"}, Goto(at)
  PROVE  /\ cmd' \in Command /\ cmd'.at = at
         /\ cmd'.plan = cmd.plan /\ cmd'.op = cmd.op /\ cmd'.worker = cmd.worker
  BY DEF TypeOK, Goto, Command

\* A step that neither the trust nor its books take part in.
LEMMA BooksKept ==
  ASSUME AnchorsRecorded, SwapInv, UNCHANGED <<record, anchors, lost>>,
         \/ cmd.at # "record" /\ cmd'.at \in {"idle", "spawn", "wait", "write", "remove"}
         \/ UNCHANGED cmd
  PROVE  AnchorsRecorded' /\ SwapInv'
  BY DEF AnchorsRecorded, SwapInv

-----------------------------------------------------------------------------
\* The types, action by action.

LEMMA CommandTypes ==
  ASSUME TypeOK,
         \/ Configure \/ StartNoop \/ BeginRun \/ Spawn \/ Started \/ BeginStop
         \/ BeginTrust \/ TrustNoop \/ BeginUntrust \/ BeginUninstall
  PROVE  TypeOK'
<1>. USE DEF files, workers
<1>1. Run("spawn", NoWorker) \in Command /\ \A w \in Worker : Run("wait", w) \in Command
  BY DEF Run, Command, Op, At, Worker, NoWorker
<1>2. ReadState \in [configured : BOOLEAN, running : BOOLEAN, trusted : BOOLEAN,
                     proxy : Worker \cup {NoWorker}]
  BY DEF TypeOK, ReadState
<1>3. CASE Configure
  BY <1>2, <1>3 DEF Configure, TypeOK
<1>4. CASE StartNoop
  BY <1>2, <1>4 DEF StartNoop, TypeOK
<1>5. CASE BeginRun
  BY <1>1, <1>5, CleanupIsTyped DEF BeginRun, TypeOK, At
<1>6. CASE Spawn
  <2>1. PICK w \in Worker : /\ phase' = [phase EXCEPT ![w] = "booting"]
                            /\ dir' = dir \cup {w}
                            /\ cmd' = Run("wait", w)
    BY <1>6 DEF Spawn
  <2>. QED  BY <1>1, <1>6, <2>1 DEF Spawn, TypeOK, At
<1>7. CASE Started
  BY <1>7, GotoIsTyped DEF Started, TypeOK, At
<1>8. CASE BeginStop
  <2>1. [Idle EXCEPT !.op = "stop", !.at = "write"] \in Command
    BY DEF Idle, Command, Op, At
  <2>. QED  BY <1>8, <2>1, CleanupIsTyped DEF BeginStop, TypeOK
<1>9. CASE BeginTrust
  <2>1. ActiveCert(Named) \in Cert
    BY <1>9 DEF BeginTrust, TypeOK, ActiveCert, Cert
  <2>2. \A at \in At \ {"wait"} : [Idle EXCEPT !.op = "trust", !.plan = ActiveCert(Named), !.at = at] \in Command
    BY <2>1 DEF Idle, Command, Op, At
  <2>. QED  BY <1>9, <2>2 DEF BeginTrust, TypeOK, At
<1>10. CASE TrustNoop
  BY <1>10 DEF TrustNoop, TypeOK
<1>11. CASE BeginUntrust
  <2>1. [Idle EXCEPT !.op = "untrust", !.at = "remove"] \in Command
    BY DEF Idle, Command, Op, At
  <2>. QED  BY <1>11, <2>1 DEF BeginUntrust, TypeOK
<1>12. CASE BeginUninstall
  <2>1. \A at \in At \ {"wait"} : [Idle EXCEPT !.op = "uninstall", !.at = at] \in Command
    BY DEF Idle, Command, Op, At
  <2>. QED  BY <1>12, <2>1, CleanupIsTyped DEF BeginUninstall, TypeOK, At
<1>. QED  BY <1>3, <1>4, <1>5, <1>6, <1>7, <1>8, <1>9, <1>10, <1>11, <1>12

LEMMA AfterRemovalIsTyped == AfterRemoval \in {"unrecord", "install", "wipe"}
  BY DEF AfterRemoval

\* What is installed is a certificate of some worker.
LEMMA InstalledIsCert ==
  ASSUME TypeOK, InstallAnchor
  PROVE  cmd.plan \in Cert /\ ActiveCert(cmd.plan[1]) \in Cert
<1>1. cmd.plan[1] \in Worker /\ cmd.plan \in Cert \cup {NoCert}
  BY DEF InstallAnchor, TypeOK, Command
<1>2. cmd.plan # NoCert
  BY <1>1 DEF NoCert, NoWorker, Worker
<1>3. rotations[cmd.plan[1]] \in 0..MaxRotations
  BY <1>1 DEF TypeOK
<1>. QED  BY <1>1, <1>2, <1>3 DEF ActiveCert, Cert

LEMMA TrustTypes ==
  ASSUME TypeOK,
         RemoveAnchor \/ InstallAnchor \/ WriteRecord \/ Unrecord \/ WriteState \/ Wipe
  PROVE  TypeOK'
<1>. USE DEF files, workers
<1>1. CASE RemoveAnchor
  <2>1. cmd' \in Command
    BY <1>1, AfterRemovalIsTyped, GotoIsTyped DEF RemoveAnchor, At
  <2>. QED  BY <1>1, <2>1 DEF RemoveAnchor, TypeOK
<1>2. CASE InstallAnchor
  <2>. DEFINE anchor == IF provider = "keychain" THEN ActiveCert(cmd.plan[1]) ELSE cmd.plan
  <2>1. anchor \in Cert
    BY <1>2, InstalledIsCert
  <2>2. cmd' \in Command
    BY <1>2, GotoIsTyped DEF InstallAnchor, At
  <2>3. anchors' \in SUBSET Cert
    <3>1. anchors' = {anchor} \/ anchors' = anchors \cup {anchor}
      BY <1>2 DEF InstallAnchor
    <3>. QED  BY <2>1, <3>1 DEF TypeOK
  <2>4. lost' \in [anchors : SUBSET Cert, workers : SUBSET Worker, record : BOOLEAN]
    <3>1. lost' = [lost EXCEPT !.anchors = @ \cup ({anchor} \ {cmd.plan})]
      BY <1>2 DEF InstallAnchor
    <3>2. lost.anchors \cup ({anchor} \ {cmd.plan}) \in SUBSET Cert
      BY <2>1 DEF TypeOK
    <3>. HIDE DEF anchor
    <3>. QED  BY <3>1, <3>2 DEF TypeOK
  <2>. QED  BY <1>2, <2>2, <2>3, <2>4 DEF InstallAnchor, TypeOK
<1>3. CASE WriteRecord
  <2>1. cmd' \in Command
    BY <1>3, GotoIsTyped DEF WriteRecord, Idle, Command, Op, At
  <2>2. record' \in Cert \cup {NoCert}
    BY <1>3 DEF WriteRecord, TypeOK, Command
  <2>. QED  BY <1>3, <2>1, <2>2 DEF WriteRecord, TypeOK
<1>4. CASE Unrecord
  <2>1. cmd' \in Command
    BY <1>4, GotoIsTyped DEF Unrecord, At
  <2>. QED  BY <1>4, <2>1 DEF Unrecord, TypeOK
<1>5. CASE WriteState
  <2>1. cmd' \in Command
    BY <1>5 DEF WriteState, Idle, Command, Op, At
  <2>2. cmd.worker \in Worker \cup {NoWorker}
    BY DEF TypeOK, Command
  <2>3. state' \in [configured : BOOLEAN, running : BOOLEAN, trusted : BOOLEAN,
                    proxy : Worker \cup {NoWorker}]
    BY <1>5, <2>2 DEF WriteState, ReadState, TypeOK
  <2>. QED  BY <1>5, <2>1, <2>3 DEF WriteState, TypeOK
<1>6. CASE Wipe
  BY <1>6 DEF Wipe, TypeOK, Idle, Command, Op, At, EmptyState
<1>. QED  BY <1>1, <1>2, <1>3, <1>4, <1>5, <1>6

\* A command that is cut short, and dg uninstall, keep the whole invariant: what
\* they leave out of the books they note.
LEMMA CutShort ==
  ASSUME TypeOK,
         \/ StartFails \/ RemoveFails \/ InstallFails \/ WriteRecordFails \/ Abandon
         \/ UninstallSetup
  PROVE  TrustInv'
<1>. USE DEF files, workers
<1>1. Idle \in Command
  BY DEF Idle, Command, Op, At
<1>2. cmd.worker \in Worker \cup {NoWorker}
  BY DEF TypeOK, Command
<1>3. CASE StartFails
  <2>1. AnchorsRecorded' /\ SwapInv'
        /\ lost' \in [anchors : SUBSET Cert, workers : SUBSET Worker, record : BOOLEAN]
    BY <1>3, ForgetIsSound DEF StartFails, TypeOK
  <2>2. told' \subseteq Worker
    <3>1. told' = told \/ (Alive(cmd.worker) /\ told' = told \cup {cmd.worker})
      BY <1>3 DEF StartFails
    <3>2. cmd.worker \in Worker
      BY <1>3 DEF StartFails, TypeOK, Command
    <3>. QED  BY <3>1, <3>2 DEF TypeOK
  <2>. QED  BY <1>1, <1>3, <2>1, <2>2 DEF StartFails, TypeOK, TrustInv
<1>4. CASE RemoveFails \/ InstallFails \/ WriteRecordFails
  <2>1. Fails /\ faults' \in 0..MaxFaults /\ anchors' \subseteq anchors
    BY <1>4, ServiceAssumption DEF RemoveFails, InstallFails, WriteRecordFails, TypeOK
  <2>2. AnchorsRecorded' /\ SwapInv'
        /\ lost' \in [anchors : SUBSET Cert, workers : SUBSET Worker, record : BOOLEAN]
    BY <2>1, ForgetIsSound DEF Fails, TypeOK
  <2>. QED  BY <1>1, <2>1, <2>2 DEF Fails, TypeOK, TrustInv
<1>5. CASE Abandon
  <2>1. AnchorsRecorded' /\ SwapInv'
        /\ lost' \in [anchors : SUBSET Cert, workers : SUBSET Worker, record : BOOLEAN]
    BY <1>5, ForgetIsSound DEF Abandon, TypeOK
  <2>2. phase' \in [Worker -> {"none", "booting", "up", "gone"}]
    BY <1>5 DEF Abandon, TypeOK
  <2>3. faults' \in 0..MaxFaults
    BY <1>5, ServiceAssumption DEF Abandon, TypeOK
  <2>. QED  BY <1>1, <1>5, <2>1, <2>2, <2>3 DEF Abandon, TypeOK, TrustInv
<1>6. CASE UninstallSetup
  <2>1. cmd' = Idle
    BY <1>6 DEF UninstallSetup
  <2>2. AnchorsRecorded' /\ SwapInv'
        /\ lost' \in [anchors : SUBSET Cert, workers : SUBSET Worker, record : BOOLEAN]
    BY <1>6, <2>1, ForgetIsSound DEF UninstallSetup, TypeOK, EmptyState
  <2>. QED  BY <1>1, <1>6, <2>2 DEF UninstallSetup, TypeOK, TrustInv, EmptyState
<1>. QED  BY <1>3, <1>4, <1>5, <1>6

-----------------------------------------------------------------------------
\* The steps of the workers touch the books only by beginning a refresh.
LEMMA WorkerSteps ==
  ASSUME TrustInv, NEW w \in Worker,
         Boot(w) \/ Close(w) \/ Die(w) \/ Rotate(w) \/ PruneSession(w)
  PROVE  TrustInv'
<1>. USE DEF files, workers, TrustInv
<1>1. CASE Boot(w)
  BY <1>1, BooksKept DEF Boot, TypeOK
<1>2. CASE Close(w)
  BY <1>2, BooksKept DEF Close, TypeOK
<1>3. CASE Die(w)
  BY <1>3, BooksKept DEF Die, TypeOK
<1>4. CASE Rotate(w)
  <2>1. rotations[w] \in 0..MaxRotations /\ rotations[w] + 1 \in 0..MaxRotations
    BY <1>4, ServiceAssumption DEF Rotate, TypeOK
  <2>2. rotations' \in [Worker -> 0..MaxRotations]
    BY <1>4, <2>1 DEF Rotate, TypeOK
  <2>3. [op |-> "refresh", at |-> "remove", worker |-> w, plan |-> <<w, rotations[w] + 1>>]
          \in Command
    BY <2>1 DEF Command, Op, At, Cert
  <2>4. cmd' \in Command
    BY <1>4, <2>3 DEF Rotate, TypeOK
  <2>5. AnchorsRecorded' /\ SwapInv'
    <3>1. UNCHANGED cmd \/ (cmd = Idle /\ cmd'.at = "remove")
      BY <1>4 DEF Rotate
    <3>. QED  BY <1>4, <3>1, BooksKept DEF Rotate, Idle
  <2>. QED  BY <1>4, <2>2, <2>4, <2>5 DEF Rotate, TypeOK
<1>5. CASE PruneSession(w)
  BY <1>5, BooksKept DEF PruneSession, TypeOK
<1>. QED  BY <1>1, <1>2, <1>3, <1>4, <1>5

\* The commands, up to the trust store.
LEMMA CommandSteps ==
  ASSUME TrustInv,
         \/ Configure \/ StartNoop \/ BeginRun \/ Spawn \/ Started \/ BeginStop
         \/ BeginTrust \/ TrustNoop \/ BeginUntrust \/ BeginUninstall
  PROVE  TrustInv'
<1>. USE DEF files, workers, TrustInv
<1>1. TypeOK'
  BY CommandTypes
<1>2. CASE Configure \/ StartNoop \/ TrustNoop
  BY <1>1, <1>2, BooksKept DEF Configure, StartNoop, TrustNoop
<1>3. CASE BeginRun \/ BeginStop
  <2>1. cmd.at # "record" /\ cmd'.at \in {"spawn", "write"}
    <3>1. CASE BeginRun
      BY <3>1 DEF BeginRun, Run, Idle
    <3>2. CASE BeginStop
      BY <3>2 DEF BeginStop, Idle
    <3>. QED  BY <1>3, <3>1, <3>2
  <2>2. UNCHANGED <<record, anchors, lost>>
    BY <1>3 DEF BeginRun, BeginStop
  <2>. QED  BY <1>1, <2>1, <2>2, BooksKept
<1>4. CASE Spawn
  BY <1>1, <1>4, BooksKept DEF Spawn, Run
<1>5. CASE Started
  BY <1>1, <1>5, BooksKept, GotoIsTyped DEF Started, At
<1>6. \A c \in anchors : record = NoCert /\ cmd = Idle => c \in lost.anchors
  BY NoCertNames DEF AnchorsRecorded, TypeOK, Idle
<1>7. CASE BeginTrust
  <2>1. cmd'.at = IF record = NoCert THEN "install" ELSE "remove"
    BY <1>7 DEF BeginTrust, Idle
  <2>. QED  BY <1>1, <1>6, <1>7, <2>1 DEF BeginTrust, AnchorsRecorded, SwapInv, Idle
<1>8. CASE BeginUntrust
  <2>1. UNCHANGED cmd \/ (cmd = Idle /\ cmd'.at = "remove")
    BY <1>8 DEF BeginUntrust, Idle
  <2>. QED  BY <1>1, <1>8, <2>1, BooksKept DEF BeginUntrust, Idle
<1>9. CASE BeginUninstall
  <2>1. cmd'.at = IF record = NoCert THEN "wipe" ELSE "remove"
    BY <1>9 DEF BeginUninstall, Idle
  <2>. QED  BY <1>1, <1>6, <1>9, <2>1 DEF BeginUninstall, AnchorsRecorded, SwapInv, Idle
<1>. QED  BY <1>2, <1>3, <1>4, <1>5, <1>7, <1>8, <1>9

\* The trust store and its record.
LEMMA TrustSteps ==
  ASSUME TrustInv,
         RemoveAnchor \/ InstallAnchor \/ WriteRecord \/ Unrecord \/ WriteState \/ Wipe
  PROVE  TrustInv'
<1>. USE DEF files, workers, TrustInv
<1>1. TypeOK'
  BY TrustTypes
<1>2. CASE RemoveAnchor
  <2>1. cmd'.at = AfterRemoval /\ cmd'.at # "record"
    BY <1>2, AfterRemovalIsTyped, GotoIsTyped DEF RemoveAnchor, At
  <2>2. \A c \in anchors' : c \in lost'.anchors
    BY <1>2 DEF RemoveAnchor, AnchorsRecorded
  <2>. QED  BY <1>1, <1>2, <2>1, <2>2 DEF AnchorsRecorded, SwapInv
<1>3. CASE InstallAnchor
  <2>. DEFINE anchor == IF provider = "keychain" THEN ActiveCert(cmd.plan[1]) ELSE cmd.plan
  <2>1. cmd'.at = "record" /\ cmd'.plan = cmd.plan
    BY <1>3, GotoIsTyped DEF InstallAnchor, At
  <2>2. \A c \in anchors' : c = anchor \/ c \in anchors
    BY <1>3 DEF InstallAnchor
  <2>3. lost'.anchors = lost.anchors \cup ({anchor} \ {cmd.plan})
    BY <1>3 DEF InstallAnchor, TypeOK
  <2>4. \A c \in anchors : c \in lost.anchors
    BY <1>3 DEF InstallAnchor, SwapInv
  <2>. HIDE DEF anchor
  <2>5. \A c \in anchors' : c \in lost'.anchors \/ c = cmd.plan
    BY <2>2, <2>3, <2>4
  <2>. QED  BY <1>1, <2>1, <2>5 DEF AnchorsRecorded, SwapInv
<1>4. CASE WriteRecord
  <2>1. cmd'.at \in {"idle", "write"}
    BY <1>4, GotoIsTyped DEF WriteRecord, Idle, At
  <2>. QED  BY <1>1, <1>4, <2>1 DEF WriteRecord, AnchorsRecorded, SwapInv
<1>5. CASE Unrecord
  <2>1. cmd'.at = "write"
    BY <1>5, GotoIsTyped DEF Unrecord, At
  <2>. QED  BY <1>1, <1>5, <2>1 DEF Unrecord, AnchorsRecorded, SwapInv
<1>6. CASE WriteState
  BY <1>1, <1>6, BooksKept DEF WriteState, Idle
<1>7. CASE Wipe
  BY <1>1, <1>7 DEF Wipe, AnchorsRecorded, SwapInv, Idle
<1>. QED  BY <1>2, <1>3, <1>4, <1>5, <1>6, <1>7

LEMMA TrustStep == TrustInv /\ [Next]_vars => TrustInv'
<1>. SUFFICES ASSUME TrustInv, [Next]_vars PROVE TrustInv'
  OBVIOUS
<1>1. CASE UNCHANGED vars
  BY <1>1 DEF vars, files, workers, TrustInv, TypeOK, AnchorsRecorded, SwapInv
<1>2. CASE Configure \/ StartNoop \/ BeginRun \/ Spawn \/ Started \/ BeginStop
           \/ BeginTrust \/ TrustNoop \/ BeginUntrust \/ BeginUninstall
  BY <1>2, CommandSteps
<1>3. CASE RemoveAnchor \/ InstallAnchor \/ WriteRecord \/ Unrecord \/ WriteState \/ Wipe
  BY <1>3, TrustSteps
<1>4. CASE StartFails \/ RemoveFails \/ InstallFails \/ WriteRecordFails \/ Abandon
           \/ UninstallSetup
  BY <1>4, CutShort DEF TrustInv
<1>5. CASE \E w \in Worker : Boot(w) \/ Close(w) \/ Die(w) \/ Rotate(w) \/ PruneSession(w)
  BY <1>5, WorkerSteps
<1>. QED  BY <1>1, <1>2, <1>3, <1>4, <1>5 DEF Next

LEMMA TrustInvariant == Spec => []TrustInv
<1>. QED  BY ServiceInit, TrustStep, PTL DEF Spec

-----------------------------------------------------------------------------
\* The variables of the service keep their types (service/state.ts).
THEOREM ServiceTypes == Spec => []TypeOK
<1>1. TrustInv => TypeOK
  BY DEF TrustInv
<1>. QED  BY <1>1, TrustInvariant, PTL

\* Every certificate of dg's that the system trusts is on record, but for those
\* the model names (trust-store.ts, writeServiceTrustRecord).
THEOREM TrustIsRecorded == Spec => []AnchorsRecorded
<1>1. TrustInv => AnchorsRecorded
  BY DEF TrustInv
<1>. QED  BY <1>1, TrustInvariant, PTL
-----------------------------------------------------------------------------
\* The names of the workers, and what status may say of the trust.

\* Which step belongs to which command.
Shape ==
    /\ cmd.at \in {"spawn", "wait"} => cmd.op = "run"
    /\ cmd.at = "remove" => cmd.op \in {"run", "trust", "untrust", "uninstall", "refresh"}
    /\ cmd.at \in {"install", "record"} => cmd.op \in {"trust", "refresh"}
    /\ cmd.at = "unrecord" => cmd.op \in {"run", "untrust"}
    /\ cmd.at = "wipe" => cmd.op = "uninstall"
    /\ cmd.at = "write" => cmd.op \in {"run", "stop", "trust", "untrust"}
    /\ cmd.op = "run" => (cmd.at = "spawn" <=> cmd.worker = NoWorker)
    /\ cmd.op \in {"trust", "refresh"} => cmd.plan # NoCert
    /\ cmd.op = "refresh" => cmd.plan[1] = cmd.worker

\* Only workers that were started have names, directories and certificates, and
\* no certificate is newer than its worker's last.
Dated ==
    /\ \A c \in {record, cmd.plan} \ {NoCert} : phase[c[1]] # "none" /\ c[2] <= rotations[c[1]]
    /\ \A w \in dir \cup ({runtime, state.proxy, cmd.worker} \ {NoWorker}) : phase[w] # "none"

Untold == {w \in Worker : Alive(w) /\ w \notin told}

\* At most one worker is alive and untold, and it has the name it should have at
\* this step of the command; runtime.json names no other.
InTheBooks ==
  lost.workers = {} =>
    /\ \A w \in Worker : phase[w] = "booting" => cmd.at = "wait" /\ cmd.worker = w
    /\ runtime # NoWorker => phase[runtime] # "booting"
    /\ cmd.op = "run" /\ cmd.at = "spawn" => Untold = {} /\ runtime = NoWorker
    /\ cmd.op = "run" /\ cmd.at # "spawn" =>
         Untold \subseteq {cmd.worker} /\ runtime \in {NoWorker, cmd.worker} /\ cmd.worker # state.proxy
    /\ cmd.op \in {"stop", "uninstall"} => Untold = {} /\ runtime = NoWorker
    /\ cmd.op \notin {"run", "stop", "uninstall"} =>
         Untold \subseteq {state.proxy} /\ runtime \in {NoWorker, state.proxy}

\* The record is of the CA that the named worker has on disk.
Current == state.proxy \in dir /\ record = ActiveCert(state.proxy)

\* A record that is current has its anchor; whoever takes an anchor away does so
\* when its record is not current, but for trust uninstall, which says so at the
\* end, and the refresh of a worker that no longer has a name.
Replaced ==
  lost.workers = {} =>
    /\ cmd.op = "trust" /\ cmd.at # "write" => ~Current
    /\ cmd.op = "refresh" /\ cmd.worker = state.proxy => ~Current
    /\ cmd.op \in {"run", "uninstall"} => ~Current
    /\ cmd.op = "run" /\ cmd.worker # NoWorker => record = NoCert \/ record[1] # cmd.worker
    /\ cmd.at = "record" => cmd.plan \in anchors \/ cmd.plan # ActiveCert(cmd.plan[1])
    /\ \/ Current => record \in anchors
       \/ lost.record
       \/ cmd.op = "untrust" /\ cmd.at = "unrecord"
       \/ cmd.op = "refresh" /\ cmd.worker # state.proxy /\ cmd.at \in {"install", "record"}

NamesInv == Shape /\ Dated /\ InTheBooks /\ Replaced

\* The two forms of a step of BeginUntrust.
LEMMA UntrustBegins ==
  ASSUME BeginUntrust
  PROVE  /\ cmd = Idle /\ state'.proxy = state.proxy
         /\ UNCHANGED <<record, runtime, anchors, provider, workers, faults, lost>>
         /\ \/ cmd' = cmd
            \/ cmd' = [op |-> "untrust", at |-> "remove", worker |-> NoWorker, plan |-> NoCert]
<1>1. CASE UNCHANGED cmd /\ state' = [state EXCEPT !.trusted = FALSE]
  BY <1>1 DEF BeginUntrust
<1>2. CASE cmd' = [Idle EXCEPT !.op = "untrust", !.at = "remove"] /\ UNCHANGED state
  BY <1>2 DEF BeginUntrust, Idle
<1>. QED  BY <1>1, <1>2 DEF BeginUntrust

\* A command that is cut short leaves no worker out of the books only if the one
\* it holds is the one with a name, or none.
LEMMA ForgetNotes ==
  ASSUME TypeOK, Forget, lost'.workers = {}
  PROVE  /\ lost.workers = {}
         /\ {cmd.worker, state.proxy} \subseteq {state'.proxy, NoWorker}
         /\ lost'.record = (lost.record \/ (cmd.op = "untrust" /\ (cmd.at = "unrecord" \/ anchors' # anchors)))
<1>1. lost'.workers = lost.workers \cup ({cmd.worker, state.proxy} \ {state'.proxy, NoWorker})
      /\ lost'.record = (lost.record \/ (cmd.op = "untrust" /\ (cmd.at = "unrecord" \/ anchors' # anchors)))
  BY DEF Forget
<1>. QED  BY <1>1

\* A command goes through its own steps.
LEMMA ShapeStep ==
  ASSUME TypeOK, TypeOK', NamesInv, Next
  PROVE  Shape'
<1>. USE DEF TypeOK, NamesInv, Shape,
         Goto, Run, Idle, CleanupRuntime, Named, ReadState, EmptyState, AfterRemoval, Fails,
         Alive, ActiveCert, files, workers, NoCert, NoWorker, Command, Cert, Worker
<1>1. CASE Configure
  BY <1>1 DEF Configure
<1>2. CASE StartNoop
  BY <1>2 DEF StartNoop
<1>3. CASE BeginRun
  BY <1>3 DEF BeginRun
<1>4. CASE Spawn
  BY <1>4 DEF Spawn
<1>5. CASE Started
  BY <1>5 DEF Started
<1>6. CASE StartFails
  BY <1>6 DEF StartFails
<1>7. CASE BeginStop
  BY <1>7 DEF BeginStop
<1>8. CASE BeginTrust
  BY <1>8 DEF BeginTrust
<1>9. CASE TrustNoop
  BY <1>9 DEF TrustNoop
<1>10. CASE BeginUntrust
  BY <1>10, UntrustBegins
<1>11. CASE BeginUninstall
  BY <1>11 DEF BeginUninstall
<1>12. CASE RemoveAnchor
  BY <1>12 DEF RemoveAnchor
<1>13. CASE RemoveFails
  BY <1>13 DEF RemoveFails
<1>14. CASE InstallAnchor
  BY <1>14 DEF InstallAnchor
<1>15. CASE InstallFails
  BY <1>15 DEF InstallFails
<1>16. CASE WriteRecord
  BY <1>16 DEF WriteRecord
<1>17. CASE WriteRecordFails
  BY <1>17 DEF WriteRecordFails
<1>18. CASE Unrecord
  BY <1>18 DEF Unrecord
<1>19. CASE WriteState
  BY <1>19 DEF WriteState
<1>20. CASE Wipe
  BY <1>20 DEF Wipe
<1>21. CASE Abandon
  BY <1>21 DEF Abandon
<1>22. CASE UninstallSetup
  BY <1>22 DEF UninstallSetup
<1>23. ASSUME NEW w \in Worker, Boot(w) PROVE Shape'
  BY <1>23 DEF Boot
<1>24. ASSUME NEW w \in Worker, Close(w) PROVE Shape'
  BY <1>24 DEF Close, Free
<1>25. ASSUME NEW w \in Worker, Die(w) PROVE Shape'
  BY <1>25 DEF Die, Free
<1>26. ASSUME NEW w \in Worker, Rotate(w) PROVE Shape'
  BY <1>26 DEF Rotate, Free
<1>27. ASSUME NEW w \in Worker, PruneSession(w) PROVE Shape'
  BY <1>27 DEF PruneSession
<1>. QED
  BY <1>1, <1>2, <1>3, <1>4, <1>5, <1>6, <1>7, <1>8, <1>9, <1>10,
     <1>11, <1>12, <1>13, <1>14, <1>15, <1>16, <1>17, <1>18, <1>19, <1>20,
     <1>21, <1>22, <1>23, <1>24, <1>25, <1>26, <1>27 DEF Next

\* A rotation takes no worker back.
LEMMA RotationsGrow ==
  ASSUME TypeOK, NEW w \in Worker, rotations' = [rotations EXCEPT ![w] = @ + 1]
  PROVE  \A v \in Worker : rotations[v] <= rotations'[v]
<1>1. rotations \in [Worker -> Int]
  BY DEF TypeOK
<1>. QED  BY <1>1

\* Workers are started before anything bears their name.
LEMMA DatedStep ==
  ASSUME TypeOK, TypeOK', NamesInv, Next
  PROVE  Dated'
<1>. USE DEF TypeOK, NamesInv, Shape, Dated, InTheBooks,
         Goto, Run, Idle, CleanupRuntime, Named, ReadState, EmptyState, AfterRemoval, Fails,
         Alive, ActiveCert, files, workers, NoCert, NoWorker, Command, Cert, Worker
<1>1. CASE Configure
  BY <1>1 DEF Configure
<1>2. CASE StartNoop
  BY <1>2 DEF StartNoop
<1>3. CASE BeginRun
  BY <1>3 DEF BeginRun
<1>4. CASE Spawn
  BY <1>4 DEF Spawn
<1>5. CASE Started
  BY <1>5 DEF Started
<1>6. CASE StartFails
  BY <1>6 DEF StartFails
<1>7. CASE BeginStop
  BY <1>7 DEF BeginStop
<1>8. CASE BeginTrust
  BY <1>8 DEF BeginTrust
<1>9. CASE TrustNoop
  BY <1>9 DEF TrustNoop
<1>10. CASE BeginUntrust
  BY <1>10, UntrustBegins
<1>11. CASE BeginUninstall
  BY <1>11 DEF BeginUninstall
<1>12. CASE RemoveAnchor
  BY <1>12 DEF RemoveAnchor
<1>13. CASE RemoveFails
  BY <1>13 DEF RemoveFails
<1>14. CASE InstallAnchor
  BY <1>14 DEF InstallAnchor
<1>15. CASE InstallFails
  BY <1>15 DEF InstallFails
<1>16. CASE WriteRecord
  BY <1>16 DEF WriteRecord
<1>17. CASE WriteRecordFails
  BY <1>17 DEF WriteRecordFails
<1>18. CASE Unrecord
  <2>1. record' = NoCert /\ UNCHANGED <<state, runtime, rotations, phase, dir>>
    BY <1>18 DEF Unrecord
  <2>2. cmd'.worker = cmd.worker /\ cmd'.plan = cmd.plan
    BY <1>18 DEF Unrecord
  <2>. QED  BY <2>1, <2>2
<1>19. CASE WriteState
  <2>1. state'.proxy \in {state.proxy, NoWorker, cmd.worker}
    BY <1>19 DEF WriteState
  <2>2. cmd' = Idle /\ UNCHANGED <<record, runtime, rotations, phase, dir>>
    BY <1>19 DEF WriteState
  <2>. QED  BY <2>1, <2>2
<1>20. CASE Wipe
  BY <1>20 DEF Wipe
<1>21. CASE Abandon
  BY <1>21 DEF Abandon
<1>22. CASE UninstallSetup
  BY <1>22 DEF UninstallSetup
<1>23. ASSUME NEW w \in Worker, Boot(w) PROVE Dated'
  <2>1. phase[w] # "none" /\ runtime' \in {runtime, w}
    BY <1>23 DEF Boot
  <2>2. \A v \in Worker : phase[v] # "none" => phase'[v] # "none"
    BY <1>23 DEF Boot
  <2>3. UNCHANGED <<cmd, state, record, rotations>> /\ dir' \subseteq dir \cup {w}
    BY <1>23 DEF Boot
  <2>4. \A c \in {record, cmd.plan} \ {NoCert} :
          c[1] \in Worker /\ phase[c[1]] # "none" /\ c[2] <= rotations[c[1]]
    OBVIOUS
  <2>5. \A v \in dir \cup ({runtime, state.proxy, cmd.worker} \ {NoWorker}) :
          v \in Worker /\ phase[v] # "none"
    OBVIOUS
  <2>6. \A c \in {record', cmd'.plan} \ {NoCert} : phase'[c[1]] # "none" /\ c[2] <= rotations'[c[1]]
    BY <2>2, <2>3, <2>4
  <2>7. \A v \in dir' \cup ({runtime', state'.proxy, cmd'.worker} \ {NoWorker}) : phase'[v] # "none"
    BY <2>1, <2>2, <2>3, <2>5
  <2>. QED  BY <2>6, <2>7
<1>24. ASSUME NEW w \in Worker, Close(w) PROVE Dated'
  BY <1>24 DEF Close, Free
<1>25. ASSUME NEW w \in Worker, Die(w) PROVE Dated'
  BY <1>25 DEF Die, Free
<1>26. ASSUME NEW w \in Worker, Rotate(w) PROVE Dated'
  <2>1. /\ phase[w] = "up" /\ dir' = dir \cup {w} /\ UNCHANGED <<state, record, runtime, phase>>
        /\ rotations' = [rotations EXCEPT ![w] = @ + 1]
    BY <1>26 DEF Rotate
  <2>2. cmd'.worker \in {cmd.worker, w} /\ cmd'.plan \in {cmd.plan, <<w, rotations'[w]>>}
    BY <1>26 DEF Rotate
  <2>3. \A v \in Worker : rotations[v] <= rotations'[v]
    BY <2>1, RotationsGrow
  <2>4. \A c \in {record, cmd.plan} \ {NoCert} :
          c[1] \in Worker /\ c[2] \in Int /\ phase[c[1]] # "none" /\ c[2] <= rotations[c[1]]
    OBVIOUS
  <2>5. \A c \in {record', cmd'.plan} \ {NoCert} : phase'[c[1]] # "none" /\ c[2] <= rotations'[c[1]]
    BY <2>1, <2>2, <2>3, <2>4
  <2>6. \A v \in dir' \cup ({runtime', state'.proxy, cmd'.worker} \ {NoWorker}) : phase'[v] # "none"
    BY <2>1, <2>2
  <2>. QED  BY <2>5, <2>6
<1>27. ASSUME NEW w \in Worker, PruneSession(w) PROVE Dated'
  BY <1>27 DEF PruneSession
<1>. QED
  BY <1>1, <1>2, <1>3, <1>4, <1>5, <1>6, <1>7, <1>8, <1>9, <1>10,
     <1>11, <1>12, <1>13, <1>14, <1>15, <1>16, <1>17, <1>18, <1>19, <1>20,
     <1>21, <1>22, <1>23, <1>24, <1>25, <1>26, <1>27 DEF Next

\* A step that fails leaves the books as they are.
LEMMA FailsKeepsBooks ==
  ASSUME TypeOK, NamesInv, Fails
  PROVE  InTheBooks'
<1>. SUFFICES ASSUME lost'.workers = {} PROVE InTheBooks'
  BY DEF InTheBooks
<1>1. cmd' = Idle /\ UNCHANGED <<state, runtime, phase, told>> /\ Forget
  BY DEF Fails, workers
<1>2. lost.workers = {} /\ cmd.worker \in {NoWorker, state.proxy}
  BY <1>1, ForgetNotes
<1>3. cmd.op = "run" => cmd.at = "spawn"
  BY <1>2 DEF NamesInv, InTheBooks, Shape
<1>4. Untold' = Untold /\ Untold \subseteq {state.proxy} /\ runtime \in {NoWorker, state.proxy}
  BY <1>1, <1>2, <1>3 DEF NamesInv, InTheBooks, Untold, Alive
<1>5. \A w \in Worker : phase[w] # "booting"
  BY <1>2, <1>3 DEF NamesInv, InTheBooks, Shape, TypeOK, Command, NoWorker, Worker
<1>. QED  BY <1>1, <1>4, <1>5 DEF InTheBooks, Idle, TypeOK

\* No worker gets lost, unless a command that starts one is cut short.
LEMMA BooksStep ==
  ASSUME TypeOK, TypeOK', NamesInv, Next
  PROVE  InTheBooks'
<1>. USE DEF TypeOK, NamesInv, Shape, Dated, InTheBooks, Untold,
         Goto, Run, Idle, CleanupRuntime, Named, ReadState, EmptyState, AfterRemoval, Fails,
         Alive, ActiveCert, files, workers, NoCert, NoWorker, Command, Cert, Worker
<1>1. CASE Configure
  BY <1>1 DEF Configure
<1>2. CASE StartNoop
  BY <1>2 DEF StartNoop
<1>3. CASE BeginRun
  BY <1>3 DEF BeginRun
<1>4. CASE Spawn
  BY <1>4 DEF Spawn
<1>5. CASE Started
  BY <1>5 DEF Started
<1>6. CASE StartFails
  <2>1. lost'.workers # {}
    BY <1>6, ForgetNotes DEF StartFails
  <2>. QED  BY <2>1
<1>7. CASE BeginStop
  BY <1>7 DEF BeginStop
<1>8. CASE BeginTrust
  BY <1>8 DEF BeginTrust
<1>9. CASE TrustNoop
  BY <1>9 DEF TrustNoop
<1>10. CASE BeginUntrust
  BY <1>10, UntrustBegins
<1>11. CASE BeginUninstall
  BY <1>11 DEF BeginUninstall
<1>12. CASE RemoveAnchor
  BY <1>12 DEF RemoveAnchor
<1>13. CASE RemoveFails
  <2>1. Fails
    BY <1>13 DEF RemoveFails
  <2>. QED  BY <2>1, FailsKeepsBooks
<1>14. CASE InstallAnchor
  BY <1>14 DEF InstallAnchor
<1>15. CASE InstallFails
  <2>1. Fails
    BY <1>15 DEF InstallFails
  <2>. QED  BY <2>1, FailsKeepsBooks
<1>16. CASE WriteRecord
  BY <1>16 DEF WriteRecord
<1>17. CASE WriteRecordFails
  <2>1. Fails
    BY <1>17 DEF WriteRecordFails
  <2>. QED  BY <2>1, FailsKeepsBooks
<1>18. CASE Unrecord
  BY <1>18 DEF Unrecord
<1>19. CASE WriteState
  BY <1>19 DEF WriteState
<1>20. CASE Wipe
  BY <1>20 DEF Wipe
<1>21. CASE Abandon
  <2>. SUFFICES ASSUME lost'.workers = {} PROVE InTheBooks'
    OBVIOUS
  <2>1. lost.workers = {} /\ cmd.worker \in {NoWorker, state.proxy}
    BY <1>21, ForgetNotes DEF Abandon
  <2>2. cmd.op = "run" => cmd.at = "spawn"
    BY <2>1
  <2>3. phase' = phase \/ phase' = [phase EXCEPT ![cmd.worker] = "gone"]
    BY <1>21 DEF Abandon
  <2>. QED  BY <1>21, <2>1, <2>2, <2>3 DEF Abandon
<1>22. CASE UninstallSetup
  <2>. SUFFICES ASSUME lost'.workers = {} PROVE InTheBooks'
    OBVIOUS
  <2>1. lost.workers = {} /\ state.proxy \in {NoWorker, state'.proxy}
    BY <1>22, ForgetNotes DEF UninstallSetup
  <2>2. cmd = Idle /\ cmd' = Idle /\ UNCHANGED <<phase, told>>
        /\ state'.proxy = NoWorker /\ runtime' = NoWorker
    BY <1>22 DEF UninstallSetup
  <2>3. Untold = {} /\ Untold' = Untold
    BY <2>1, <2>2
  <2>. QED  BY <2>1, <2>2, <2>3
<1>23. ASSUME NEW w \in Worker, Boot(w) PROVE InTheBooks'
  BY <1>23 DEF Boot
<1>24. ASSUME NEW w \in Worker, Close(w) PROVE InTheBooks'
  BY <1>24 DEF Close, Free
<1>25. ASSUME NEW w \in Worker, Die(w) PROVE InTheBooks'
  BY <1>25 DEF Die, Free
<1>26. ASSUME NEW w \in Worker, Rotate(w) PROVE InTheBooks'
  BY <1>26 DEF Rotate, Free
<1>27. ASSUME NEW w \in Worker, PruneSession(w) PROVE InTheBooks'
  BY <1>27 DEF PruneSession
<1>. QED
  BY <1>1, <1>2, <1>3, <1>4, <1>5, <1>6, <1>7, <1>8, <1>9, <1>10,
     <1>11, <1>12, <1>13, <1>14, <1>15, <1>16, <1>17, <1>18, <1>19, <1>20,
     <1>21, <1>22, <1>23, <1>24, <1>25, <1>26, <1>27 DEF Next

\* No step takes the anchor of a current record and leaves it at that.
LEMMA ReplacedStep ==
  ASSUME TypeOK, TypeOK', NamesInv, Next
  PROVE  Replaced'
<1>. USE DEF TypeOK, NamesInv, Shape, Dated, InTheBooks, Replaced, Untold, Current,
         Goto, Run, Idle, CleanupRuntime, Named, ReadState, EmptyState, AfterRemoval, Fails,
         Alive, ActiveCert, files, workers, NoCert, NoWorker, Command, Cert, Worker
<1>1. CASE Configure
  BY <1>1 DEF Configure
<1>2. CASE StartNoop
  BY <1>2 DEF StartNoop
<1>3. CASE BeginRun
  BY <1>3 DEF BeginRun
<1>4. CASE Spawn
  BY <1>4 DEF Spawn
<1>5. CASE Started
  BY <1>5 DEF Started
<1>6. CASE StartFails
  <2>1. lost'.workers # {}
    BY <1>6, ForgetNotes DEF StartFails
  <2>. QED  BY <2>1
<1>7. CASE BeginStop
  BY <1>7 DEF BeginStop
<1>8. CASE BeginTrust
  BY <1>8 DEF BeginTrust
<1>9. CASE TrustNoop
  BY <1>9 DEF TrustNoop
<1>10. CASE BeginUntrust
  BY <1>10, UntrustBegins
<1>11. CASE BeginUninstall
  BY <1>11 DEF BeginUninstall
<1>12. CASE RemoveAnchor
  BY <1>12 DEF RemoveAnchor
<1>13. CASE RemoveFails
  <2>. SUFFICES ASSUME lost'.workers = {} PROVE Replaced'
    OBVIOUS
  <2>1. /\ lost.workers = {} /\ cmd.worker \in {NoWorker, state.proxy}
        /\ lost'.record = (lost.record \/ (cmd.op = "untrust" /\ (cmd.at = "unrecord" \/ anchors' # anchors)))
    BY <1>13, ForgetNotes DEF RemoveFails
  <2>2. /\ cmd' = Idle /\ UNCHANGED <<state, record, rotations, dir>>
        /\ anchors' = anchors \/ anchors' = anchors \ {record}
    BY <1>13 DEF RemoveFails
  <2>3. cmd.at = "remove"
    BY <1>13 DEF RemoveFails
  <2>4. cmd.op # "untrust" => ~Current
    BY <2>1, <2>3
  <2>5. Current' <=> Current
    BY <2>2
  <2>6. cmd.op = "untrust" => lost'.record \/ anchors' = anchors
    BY <2>1
  <2>7. Current => record \in anchors \/ lost.record
    BY <2>1, <2>3, <2>4
  <2>8. Current' => record' \in anchors' \/ lost'.record
    BY <2>1, <2>2, <2>4, <2>5, <2>6, <2>7
  <2>. QED  BY <2>2, <2>8
<1>14. CASE InstallAnchor
  BY <1>14 DEF InstallAnchor
<1>15. CASE InstallFails
  <2>. SUFFICES ASSUME lost'.workers = {} PROVE Replaced'
    OBVIOUS
  <2>1. /\ lost.workers = {} /\ cmd.worker \in {NoWorker, state.proxy}
        /\ lost'.record = (lost.record \/ (cmd.op = "untrust" /\ (cmd.at = "unrecord" \/ anchors' # anchors)))
    BY <1>15, ForgetNotes DEF InstallFails
  <2>2. /\ cmd' = Idle /\ UNCHANGED <<state, record, rotations, dir>>
        /\ anchors' = anchors \/ anchors' = anchors \ {cmd.plan}
    BY <1>15 DEF InstallFails
  <2>3. cmd.at = "install"
    BY <1>15 DEF InstallFails
  <2>4. ~Current
    BY <2>1, <2>3
  <2>5. ~Current'
    BY <2>2, <2>4
  <2>. QED  BY <2>2, <2>5
<1>16. CASE WriteRecord
  BY <1>16 DEF WriteRecord
<1>17. CASE WriteRecordFails
  <2>. SUFFICES ASSUME lost'.workers = {} PROVE Replaced'
    OBVIOUS
  <2>1. /\ lost.workers = {} /\ cmd.worker \in {NoWorker, state.proxy}
        /\ lost'.record = (lost.record \/ (cmd.op = "untrust" /\ (cmd.at = "unrecord" \/ anchors' # anchors)))
    BY <1>17, ForgetNotes DEF WriteRecordFails
  <2>2. cmd' = Idle /\ UNCHANGED <<state, record, anchors, rotations, dir>>
    BY <1>17 DEF WriteRecordFails
  <2>. QED  BY <2>1, <2>2
<1>18. CASE Unrecord
  BY <1>18 DEF Unrecord
<1>19. CASE WriteState
  <2>1. state'.proxy \in {state.proxy, NoWorker, cmd.worker}
    BY <1>19 DEF WriteState
  <2>2. /\ cmd.op = "run" => state'.proxy = cmd.worker
        /\ cmd.op \notin {"run", "stop"} => state'.proxy = state.proxy
    BY <1>19 DEF WriteState
  <2>3. cmd' = Idle /\ UNCHANGED <<record, rotations, dir, anchors, lost>>
    BY <1>19 DEF WriteState
  <2>4. cmd.op = "stop" => state'.proxy = NoWorker
    BY <1>19 DEF WriteState
  <2>5. cmd.op = "refresh" => cmd.at # "write"
    OBVIOUS
  <2>. QED  BY <1>19, <2>1, <2>2, <2>3, <2>4, <2>5 DEF WriteState
<1>20. CASE Wipe
  BY <1>20 DEF Wipe
<1>21. CASE Abandon
  <2>. SUFFICES ASSUME lost'.workers = {} PROVE Replaced'
    OBVIOUS
  <2>1. /\ lost.workers = {} /\ cmd.worker \in {NoWorker, state.proxy}
        /\ lost'.record = (lost.record \/ (cmd.op = "untrust" /\ (cmd.at = "unrecord" \/ anchors' # anchors)))
    BY <1>21, ForgetNotes DEF Abandon
  <2>2. cmd' = Idle /\ UNCHANGED <<state, record, anchors, rotations, dir>>
    BY <1>21 DEF Abandon
  <2>. QED  BY <2>1, <2>2
<1>22. CASE UninstallSetup
  BY <1>22 DEF UninstallSetup
<1>23. ASSUME NEW w \in Worker, Boot(w) PROVE Replaced'
  BY <1>23 DEF Boot
<1>24. ASSUME NEW w \in Worker, Close(w) PROVE Replaced'
  BY <1>24 DEF Close, Free
<1>25. ASSUME NEW w \in Worker, Die(w) PROVE Replaced'
  BY <1>25 DEF Die, Free
<1>26. ASSUME NEW w \in Worker, Rotate(w) PROVE Replaced'
  BY <1>26 DEF Rotate, Free
<1>27. ASSUME NEW w \in Worker, PruneSession(w) PROVE Replaced'
  BY <1>27 DEF PruneSession
<1>. QED
  BY <1>1, <1>2, <1>3, <1>4, <1>5, <1>6, <1>7, <1>8, <1>9, <1>10,
     <1>11, <1>12, <1>13, <1>14, <1>15, <1>16, <1>17, <1>18, <1>19, <1>20,
     <1>21, <1>22, <1>23, <1>24, <1>25, <1>26, <1>27 DEF Next

LEMMA NamesStep == TypeOK /\ TypeOK' /\ NamesInv /\ [Next]_vars => NamesInv'
<1>. SUFFICES ASSUME TypeOK, TypeOK', NamesInv, [Next]_vars PROVE NamesInv'
  OBVIOUS
<1>1. CASE Next
  BY <1>1, ShapeStep, DatedStep, BooksStep, ReplacedStep DEF NamesInv
<1>2. CASE UNCHANGED vars
  BY <1>2 DEF vars, files, workers, NamesInv, Shape, Dated, InTheBooks, Replaced,
              Untold, Current, Alive, ActiveCert
<1>. QED  BY <1>1, <1>2

LEMMA NamesInit == Init => NamesInv
  BY DEF Init, NamesInv, Shape, Dated, InTheBooks, Replaced, Untold, Current, Alive, ActiveCert,
         Idle, EmptyState, NoCert, NoWorker, Worker

LEMMA NamesInvariant == Spec => []NamesInv
<1>. QED  BY NamesInit, NamesStep, ServiceTypes, PTL DEF Spec

\* A worker that nobody has told to go has a name by which a command will find
\* it (service/state.ts, cleanupRuntime; worker.ts, close), whatever the order in
\* which workers boot, close, die and rotate and commands are killed.
THEOREM WorkersAreNamed == Spec => []WorkersNamed
<1>1. NamesInv => WorkersNamed
  BY DEF NamesInv, InTheBooks, WorkersNamed, Untold, NoWorker
<1>. QED  BY <1>1, NamesInvariant, PTL

\* When dg service status reports the trust as installed, without drift or error,
\* the system trusts the CA of the running worker, in the middle of a command too,
\* but for the moments and faults the property names (state.ts,
\* applyRuntimeDiagnostics; trust-store.ts; trust-refresh.ts).
THEOREM StatusIsHonest == Spec => []StatusHonest
<1>1. TypeOK /\ NamesInv => StatusHonest
  <2>. SUFFICES ASSUME TypeOK, NamesInv, ReportsTrust, ~lost.record, lost.workers = {}, ~Exchanging
                PROVE  record \in anchors
    BY DEF StatusHonest
  <2>1. Named \in dir /\ record = ActiveCert(Named) /\ record # NoCert
    BY DEF ReportsTrust, ReadState, TypeOK
  <2>2. CASE cmd.op \notin {"run", "stop", "uninstall"}
    <3>1. Named = state.proxy
      BY <2>2 DEF NamesInv, InTheBooks, Named
    <3>. QED  BY <2>1, <3>1 DEF NamesInv, Replaced, Current, Exchanging
  <2>3. CASE cmd.op \in {"stop", "uninstall"}
    <3>1. Named = state.proxy
      BY <2>3 DEF NamesInv, InTheBooks, Named
    <3>. QED  BY <2>1, <2>3, <3>1 DEF NamesInv, Replaced, Current
  <2>4. CASE cmd.op = "run"
    <3>1. Named = state.proxy \/ (Named = cmd.worker /\ cmd.worker # NoWorker)
      BY <2>4 DEF NamesInv, InTheBooks, Named
    <3>2. Named # state.proxy
      BY <2>1, <2>4 DEF NamesInv, Replaced, Current
    <3>. QED  BY <2>1, <2>4, <3>1, <3>2 DEF NamesInv, Replaced, ActiveCert
  <2>. QED  BY <2>2, <2>3, <2>4
<1>. QED  BY <1>1, ServiceTypes, NamesInvariant, PTL
=============================================================================
