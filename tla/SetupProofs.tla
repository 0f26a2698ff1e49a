----------------------------- MODULE SetupProofs -----------------------------
(***************************************************************************)
(* The user's hook is kept, and an uninstall leaves nothing of dg's,       *)
(* through any sequence of commands, all parts of the setup at once:       *)
(* shims, the hook and the agents, an uninstall and an agents command      *)
(* beside it, crashes and other hands in the files.                        *)
(***************************************************************************)
EXTENDS Setup, TLAPS

HookOriginal == Backup \cup {None}

\* A path has at most one entry of a kind; the hook's names a backup or nothing.
Sound(entries) ==
    /\ entries \subseteq Entry
    /\ \A e, f \in entries : (e.path = f.path /\ e.legacy = f.legacy) => e = f
    /\ \A e \in entries : e.path = "pre-commit" => ~e.legacy /\ e.original \in HookOriginal

RegTypes ==
    /\ Sound(registry)
    /\ regLock \in {"free", "torn", "cmd", "agents"}
    /\ excused \subseteq Path

CmdTypes ==
    \/ cmd = Idle
    \/ cmd \in [do : {"setup"}, at : {"shims", "rc", "record"}]
    \/ cmd \in [do : {"guard"}, at : {"take", "write", "record"}, chain : HookOriginal]
    \/ cmd \in [do : {"off"}, at : {"remove", "restore", "forget"}, forget : SUBSET Entry,
                original : HookOriginal]
    \/ /\ cmd \in [do : {"uninstall"}, at : {"entry", "restore", "forget"}, todo : SUBSET Entry,
                   keep : BOOLEAN, self : BOOLEAN, original : {"none", "dg-created"} \cup Backup]
       /\ Sound(cmd.todo)

HookerTypes ==
    \/ hooker = Idle
    \/ /\ hooker \in [do : {"on", "off"},
                      at : {"file", "made", "legacy", "record", "route", "asked", "forget", "forget-legacy", "unroute"},
                      agent : Agent, made : BOOLEAN, holding : BOOLEAN, seen : SUBSET Entry]
       /\ Sound(hooker.seen)
       /\ hooker.holding => hooker.at \in {"legacy", "record", "forget", "forget-legacy"}

ShellTypes == shims \in [Shim -> ShimState] /\ rc \subseteq Piece

HookTypes ==
    /\ hookTarget \in HookFile
    /\ backups \in [Backup -> UserHook \cup {None}]
    /\ owed \in UserHook \cup {None}

AgentTypes ==
    /\ settings \in [Agent -> File \cup {Absent}]
    /\ environ \in [Agent -> Environ]
    /\ routeBackup \in [Agent -> Environ \cup {"absent"}]
    /\ service \in Port \cup {Stopped}

Types == RegTypes /\ CmdTypes /\ HookerTypes /\ ShellTypes /\ HookTypes /\ AgentTypes

-----------------------------------------------------------------------------
\* The hook's part of some entries.
HookPart(entries) == {e \in entries : e.path = "pre-commit"}

\* What the agents command is about to write is as it was, for the hook.
SeenIsCurrent ==
    (hooker.do # "idle" /\ hooker.holding /\ regLock = "agents")
        => HookPart(hooker.seen) = HookPart(registry)

\* The hook was taken away by the guard at work, which has its name.
Taken == cmd.do = "guard" /\ cmd.at \in {"write", "record"}

\* Who holds the name of the hook dg owes, as the command at work goes on.
NameIsHeld ==
    /\ HookState # "foreign"
    /\ HookState = "managed" => HoldsOwed(hookTarget.chain)
    /\ Taken => HoldsOwed(cmd.chain)
    /\ ~Taken => HookEntries # {} /\ HoldsOwed(RegistryOriginal)
    /\ cmd.do = "off" => cmd.at # "forget" /\ HoldsOwed(cmd.original)
    /\ cmd.do = "uninstall" =>
         /\ cmd.at = "entry" => \E e \in HookEntries : e \in cmd.todo
         /\ cmd.at = "restore" => HoldsOwed(cmd.original)
         /\ cmd.at # "forget"

Kept ==
    "pre-commit" \notin excused => SeenIsCurrent /\ (owed # None => NameIsHeld)

\* The guard records what it has written.
Placed == GuardAt("record") => HookState = "managed" /\ hookTarget.chain = cmd.chain

HookInv == Types /\ Kept /\ Placed

-----------------------------------------------------------------------------
LEMMA SoundPart == ASSUME NEW S, Sound(S), NEW T \in SUBSET S PROVE Sound(T)
BY DEF Sound

LEMMA SoundMerged ==
    ASSUME NEW S, Sound(S), NEW N, Sound(N), \A n \in N : ~n.legacy
    PROVE  Sound(Merged(S, N))
BY DEF Sound, Merged, Entry

LEMMA MergedElsewhere ==
    ASSUME NEW S, NEW N, HookPart(N) = {}
    PROVE  HookPart(Merged(S, N)) = HookPart(S)
BY DEF HookPart, Merged

LEMMA NewIsSound ==
    ASSUME NEW P \in SUBSET Path, NEW o \in {"none", "dg-created"} \cup Backup,
           "pre-commit" \in P => o \in HookOriginal
    PROVE  /\ Sound({NewEntry(p, o) : p \in P})
           /\ \A n \in {NewEntry(p, o) : p \in P} : ~n.legacy
           /\ "pre-commit" \notin P => HookPart({NewEntry(p, o) : p \in P}) = {}
<1> DEFINE N == {NewEntry(p, o) : p \in P}
<1>1. \A n \in N : \E p \in P : n = [path |-> p, original |-> o, legacy |-> FALSE]
  BY DEF NewEntry
<1> HIDE DEF N
<1>2. ASSUME NEW n \in N
      PROVE  /\ n \in Entry /\ n.path \in P /\ n.original = o /\ n.legacy = FALSE
             /\ n = [path |-> n.path, original |-> o, legacy |-> FALSE]
  <2>1. PICK p \in P : n = [path |-> p, original |-> o, legacy |-> FALSE]
    BY <1>1
  <2> QED  BY <2>1 DEF Entry
<1>3. \A e, f \in N : e.path = f.path => e = f
  BY <1>2
<1> QED  BY <1>2, <1>3 DEF Sound, HookPart, N

\* A hook has one entry.
LEMMA OneOriginal ==
    ASSUME Sound(registry), NEW e \in HookEntries PROVE RegistryOriginal = e.original /\ HookEntries = {e}
<1>1. HookEntries = {e}
  BY DEF Sound, HookEntries, EntryOf, Entry
<1>2. {f.original : f \in HookEntries} = {e.original}
  BY <1>1
<1> QED
  BY <1>1, <1>2 DEF RegistryOriginal

LEMMA OriginalTyped == Sound(registry) => RegistryOriginal \in HookOriginal
<1> SUFFICES ASSUME Sound(registry) PROVE RegistryOriginal \in HookOriginal
  OBVIOUS
<1>1. CASE HookEntries = {}
  BY <1>1 DEF RegistryOriginal, HookOriginal
<1>2. ASSUME NEW e \in HookEntries PROVE RegistryOriginal \in HookOriginal
  BY <1>2, OneOriginal DEF HookEntries, EntryOf, Sound
<1> QED
  BY <1>1, <1>2

LEMMA HookEntriesArePart == Sound(registry) => HookEntries = HookPart(registry)
BY DEF Sound, HookEntries, EntryOf, HookPart

LEMMA TypesSayOK == Types => SetupTypeOK
BY DEF Types, RegTypes, ShellTypes, HookTypes, AgentTypes, Sound, SetupTypeOK, Absent

LEMMA KeptSaysKept == HookInv => ChainedHookIsKept
<1> SUFFICES ASSUME HookInv, owed # None, "pre-commit" \notin excused
             PROVE  \E b \in Backup :
            /\ backups[b] = owed
            /\ \/ HookState = "managed" /\ hookTarget.chain = b
               \/ \E e \in HookEntries : e.original = b
               \/ cmd.do = "guard" /\ cmd.chain = b
               \/ cmd.do \in {"off", "uninstall"} /\ cmd.original = b
  BY DEF ChainedHookIsKept
<1>1. NameIsHeld
  BY DEF HookInv, Kept
<1>2. CASE Taken
  BY <1>1, <1>2 DEF NameIsHeld, HoldsOwed, Taken
<1>3. CASE ~Taken
  <2>1. PICK e \in HookEntries : TRUE
    BY <1>1, <1>3 DEF NameIsHeld
  <2>2. e.original = RegistryOriginal
    BY <2>1, OneOriginal DEF HookInv, Types, RegTypes
  <2> QED  BY <1>1, <1>3, <2>1, <2>2 DEF NameIsHeld, HoldsOwed
<1> QED  BY <1>2, <1>3
-----------------------------------------------------------------------------
(* Which steps touch what.                                                 *)

LEMMA RegistryFrame ==
    SetupNext =>
        \/ UNCHANGED registry
        \/ RecordSetup \/ RecordHook \/ OffForget \/ SaveRegistry
        \/ ForgetEntries \/ RemoveDirectories \/ CorruptRegistry
<1>1. StartSetup \/ WriteShims \/ WriteRc \/ RecordSetupBusy \/ RefreshSetup \/ EditShim \/ EditRc \/ ChangePackage => UNCHANGED registry
  BY DEF StartSetup, WriteShims, WriteRc, RecordSetupBusy, RefreshSetup, EditShim, EditRc, ChangePackage, Keep
<1>2. StartGuard \/ TakeForeign \/ TakeManaged \/ TakeFresh \/ WriteHook \/ RecordHookBusy \/ StartOff \/ OffRemove \/ OffRestore \/ EditHook \/ LinkHook => UNCHANGED registry
  BY DEF StartGuard, TakeForeign, TakeManaged, TakeFresh, WriteHook, RecordHookBusy, StartOff, OffRemove, OffRestore, EditHook, LinkHook, Keep
<1>3. StartAgentOn \/ RefuseFile \/ WriteFile \/ AskMade \/ TakeRegistry \/ RegistryBusy \/ Route \/ StartAgentOff \/ TakeOut \/ AskWhoMade \/ TakeOutAsked \/ Unroute \/ EditSettings \/ ServiceChanges => UNCHANGED registry
  BY DEF StartAgentOn, RefuseFile, WriteFile, AskMade, TakeRegistry, RegistryBusy, Route, StartAgentOff, TakeOut, AskWhoMade, TakeOutAsked, Unroute, EditSettings, ServiceChanges, Keep
<1>4. StartUninstall \/ ReverseEntry \/ ReverseRestore \/ Sweep => UNCHANGED registry
  BY DEF StartUninstall, ReverseEntry, ReverseRestore, Sweep, Keep, ReverseRcFails, SweepOldFails, ReverseAgentFails
<1>5. CrashCmd \/ CrashHooker => UNCHANGED registry
  BY DEF CrashCmd, CrashHooker
<1> QED  BY <1>1, <1>2, <1>3, <1>4, <1>5 DEF SetupNext, ShellStep, HookStep, AgentStep, UninstallStep, CommonStep

LEMMA LockFrame ==
    SetupNext =>
        \/ UNCHANGED regLock
        \/ RecordSetup \/ RecordHook \/ OffForget \/ StartOff \/ TakeRegistry \/ SaveRegistry
        \/ ForgetEntries \/ RemoveDirectories \/ CrashCmd \/ CrashHooker
<1>1. StartSetup \/ WriteShims \/ WriteRc \/ RecordSetupBusy \/ RefreshSetup \/ EditShim \/ EditRc \/ ChangePackage => UNCHANGED regLock
  BY DEF StartSetup, WriteShims, WriteRc, RecordSetupBusy, RefreshSetup, EditShim, EditRc, ChangePackage, Keep
<1>2. StartGuard \/ TakeForeign \/ TakeManaged \/ TakeFresh \/ WriteHook \/ RecordHookBusy \/ OffRemove \/ OffRestore \/ EditHook \/ LinkHook => UNCHANGED regLock
  BY DEF StartGuard, TakeForeign, TakeManaged, TakeFresh, WriteHook, RecordHookBusy, OffRemove, OffRestore, EditHook, LinkHook, Keep
<1>3. StartAgentOn \/ RefuseFile \/ WriteFile \/ AskMade \/ RegistryBusy \/ Route \/ StartAgentOff \/ TakeOut \/ AskWhoMade \/ TakeOutAsked \/ Unroute \/ EditSettings \/ ServiceChanges => UNCHANGED regLock
  BY DEF StartAgentOn, RefuseFile, WriteFile, AskMade, RegistryBusy, Route, StartAgentOff, TakeOut, AskWhoMade, TakeOutAsked, Unroute, EditSettings, ServiceChanges, Keep
<1>4. StartUninstall \/ ReverseEntry \/ ReverseRestore \/ Sweep => UNCHANGED regLock
  BY DEF StartUninstall, ReverseEntry, ReverseRestore, Sweep, Keep, ReverseRcFails, SweepOldFails, ReverseAgentFails
<1>5. CorruptRegistry => UNCHANGED regLock
  BY DEF CorruptRegistry
<1> QED  BY <1>1, <1>2, <1>3, <1>4, <1>5 DEF SetupNext, ShellStep, HookStep, AgentStep, UninstallStep, CommonStep

LEMMA HookerFrame ==
    SetupNext =>
        \/ UNCHANGED hooker
        \/ StartAgentOn \/ RefuseFile \/ WriteFile \/ AskMade \/ TakeRegistry \/ SaveRegistry
        \/ RegistryBusy \/ Route \/ StartAgentOff \/ TakeOut \/ AskWhoMade \/ TakeOutAsked \/ Unroute \/ CrashHooker
<1>1. ShellStep => UNCHANGED hooker
  BY DEF ShellStep, StartSetup, WriteShims, WriteRc, RecordSetup, RecordSetupBusy,
         RefreshSetup, EditShim, EditRc, ChangePackage
<1>2. HookStep => UNCHANGED hooker
  BY DEF HookStep, StartGuard, TakeForeign, TakeManaged, TakeFresh, WriteHook, RecordHook,
         RecordHookBusy, StartOff, OffRemove, OffRestore, OffForget, EditHook, LinkHook
<1>3. UninstallStep => UNCHANGED hooker
  BY DEF UninstallStep, StartUninstall, ReverseEntry, ReverseRestore, Sweep, ForgetEntries, RemoveDirectories
<1>4. EditSettings \/ ServiceChanges \/ CrashCmd \/ CorruptRegistry => UNCHANGED hooker
  BY DEF EditSettings, ServiceChanges, CrashCmd, CorruptRegistry
<1> QED  BY <1>1, <1>2, <1>3, <1>4 DEF SetupNext, AgentStep, CommonStep

LEMMA AgentStepsKeepCmd == AgentStep => UNCHANGED cmd
BY DEF AgentStep, StartAgentOn, RefuseFile, WriteFile, AskMade, TakeRegistry, SaveRegistry,
       RegistryBusy, Route, StartAgentOff, TakeOut, AskWhoMade, TakeOutAsked, Unroute, EditSettings, ServiceChanges

\* Only these take a path from those excused.
LEMMA ExcusedFrame ==
    ASSUME SetupNext, NEW p \in excused, p \notin excused'
    PROVE  \/ RecordSetup /\ p \in Shim \cup {"rc"} /\ (p = "rc" => "headless" \notin rc)
           \/ RefreshSetup /\ p \in Shim /\ EntryOf(p) # {}
           \/ RecordHook /\ p = "pre-commit" /\ HoldsOwed(cmd.chain)
           \/ /\ SaveRegistry /\ hooker.at = "record" /\ p = hooker.agent
              /\ hooker.made = (p \in created) /\ Hooked(p) /\ environ[p] \notin Port
              /\ cmd.do # "uninstall"
<1> USE DEF Excuse, Keep
<1>1. StartSetup \/ WriteShims \/ WriteRc \/ RecordSetupBusy \/ EditShim \/ EditRc \/ ChangePackage => excused \subseteq excused'
  BY DEF StartSetup, WriteShims, WriteRc, RecordSetupBusy, EditShim, EditRc, ChangePackage
<1>2. StartGuard \/ TakeForeign \/ TakeManaged \/ TakeFresh \/ WriteHook \/ RecordHookBusy \/ StartOff => excused \subseteq excused'
  BY DEF StartGuard, TakeForeign, TakeManaged, TakeFresh, WriteHook, RecordHookBusy, StartOff
<1>3. OffRemove \/ OffRestore \/ OffForget \/ EditHook \/ LinkHook => excused \subseteq excused'
  BY DEF OffRemove, OffRestore, OffForget, EditHook, LinkHook, PutBackFails
<1>4. StartAgentOn \/ RefuseFile \/ WriteFile \/ AskMade \/ TakeRegistry \/ RegistryBusy \/ Route => excused \subseteq excused'
  BY DEF StartAgentOn, RefuseFile, WriteFile, AskMade, TakeRegistry, RegistryBusy, Route
<1>5. StartAgentOff \/ TakeOut \/ AskWhoMade \/ TakeOutAsked \/ Unroute \/ EditSettings \/ ServiceChanges => excused \subseteq excused'
  BY DEF StartAgentOff, TakeOut, AskWhoMade, TakeOutAsked, Unroute, EditSettings, ServiceChanges
<1>6. UninstallStep => excused \subseteq excused'
  BY DEF UninstallStep, StartUninstall, ReverseEntry, ReverseRestore, Sweep, ForgetEntries, RemoveDirectories, PutBackFails,
         ReverseRcFails, SweepOldFails, ReverseAgentFails
<1>7. CommonStep => excused \subseteq excused'
  BY DEF CommonStep, CrashCmd, CrashHooker, CorruptRegistry
<1>8. RecordSetup => p \in Shim \cup {"rc"} /\ (p = "rc" => "headless" \notin rc)
  BY DEF RecordSetup
<1>9. RefreshSetup => p \in Shim /\ EntryOf(p) # {}
  BY DEF RefreshSetup
<1>10. RecordHook => p = "pre-commit" /\ HoldsOwed(cmd.chain)
  BY DEF RecordHook
<1>11. SaveRegistry => /\ hooker.at = "record" /\ p = hooker.agent
                       /\ hooker.made = (p \in created) /\ Hooked(p) /\ environ[p] \notin Port
                       /\ cmd.do # "uninstall"
  BY DEF SaveRegistry, Overlaps
<1> QED  BY <1>1, <1>2, <1>3, <1>4, <1>5, <1>6, <1>7, <1>8, <1>9, <1>10, <1>11
         DEF SetupNext, ShellStep, HookStep, AgentStep

-----------------------------------------------------------------------------
\* The types, of one component after another.
LEMMA ShellTyped == Types /\ SetupNext => ShellTypes'
<1> SUFFICES ASSUME Types, SetupNext PROVE ShellTypes'
  OBVIOUS
<1> USE DEF Types, ShellTypes
<1>1. CASE UNCHANGED <<shims, rc>>
  BY <1>1
<1>2. HookStep \/ AgentStep => UNCHANGED <<shims, rc>>
  BY DEF HookStep, AgentStep, shellVars, hookVars, agentVars
<1>3. StartSetup \/ RecordSetup \/ RecordSetupBusy \/ ChangePackage => UNCHANGED <<shims, rc>>
  BY DEF StartSetup, RecordSetup, RecordSetupBusy, ChangePackage, Keep, Excuse, shellVars, hookVars, agentVars
<1>4. StartUninstall \/ ReverseRestore \/ ForgetEntries => UNCHANGED <<shims, rc>>
  BY DEF StartUninstall, ReverseRestore, ForgetEntries, Keep, Excuse, shellVars, hookVars, agentVars
<1>5. CommonStep => UNCHANGED <<shims, rc>>
  BY DEF CommonStep, CrashCmd, CrashHooker, CorruptRegistry, shellVars, hookVars, agentVars
<1>6. CASE WriteShims
  BY <1>6 DEF WriteShims, ShimState
<1>7. CASE WriteRc
  BY <1>7 DEF WriteRc, WithRcBlock, StripRcBlock, Piece
<1>8. CASE RefreshSetup
  BY <1>8 DEF RefreshSetup, ShimState
<1>9. CASE EditShim
  BY <1>9 DEF EditShim, ShimState
<1>10. CASE EditRc
  BY <1>10 DEF EditRc, Piece
<1>11. CASE ReverseEntry
  BY <1>11 DEF ReverseEntry, ReverseShim, ReverseRc, ReverseRcFails, StripRcBlock, ShimState, RemoveOwnHook, shellVars
<1>12. CASE Sweep
  BY <1>12 DEF Sweep, SweepOld, SweepOldFails, SweepLegacy
<1>13. CASE RemoveDirectories
  BY <1>13 DEF RemoveDirectories, ShimState
<1> QED  BY <1>1, <1>6, <1>7, <1>8, <1>9, <1>10, <1>11, <1>12, <1>13, <1>2, <1>3, <1>4, <1>5 DEF SetupNext, ShellStep, UninstallStep

LEMMA HookTyped == Types /\ SetupNext => HookTypes'
<1> SUFFICES ASSUME Types, SetupNext PROVE HookTypes'
  OBVIOUS
<1> USE DEF Types, HookTypes
<1>1. CASE UNCHANGED <<hookTarget, backups, owed>>
  BY <1>1
<1>2. ShellStep \/ AgentStep => UNCHANGED <<hookTarget, backups, owed>>
  BY DEF ShellStep, AgentStep, shellVars, hookVars, agentVars
<1>3. StartGuard \/ TakeManaged \/ TakeFresh \/ RecordHook \/ RecordHookBusy \/ StartOff \/ OffForget => UNCHANGED <<hookTarget, backups, owed>>
  BY DEF StartGuard, TakeManaged, TakeFresh, RecordHook, RecordHookBusy, StartOff, OffForget, Keep, Excuse, shellVars, hookVars, agentVars
<1>4. StartUninstall \/ Sweep \/ ForgetEntries \/ RemoveDirectories => UNCHANGED <<hookTarget, backups, owed>>
  BY DEF StartUninstall, Sweep, ForgetEntries, RemoveDirectories, Keep, Excuse, shellVars, hookVars, agentVars
<1>5. CommonStep => UNCHANGED <<hookTarget, backups, owed>>
  BY DEF CommonStep, CrashCmd, CrashHooker, CorruptRegistry, shellVars, hookVars, agentVars
<1>6. CASE TakeForeign
  BY <1>6, HookAssumption DEF TakeForeign, HookFile, NoHook, None, HookState, HookOriginal
<1>7. CASE WriteHook
  BY <1>7 DEF WriteHook, HookFile, NoHook, None, HookState, HookOriginal, CmdTypes, Idle, GuardAt
<1>8. CASE OffRemove
  BY <1>8 DEF OffRemove, RemoveOwnHook, HookFile, NoHook, None, HookState, HookOriginal
<1>9. CASE OffRestore
  BY <1>9 DEF OffRestore, PutBack, PutBackFails, hookVars, HookFile, NoHook, None, HookState, HookOriginal
<1>10. CASE EditHook
  BY <1>10 DEF EditHook, HookFile, NoHook, None, HookState, HookOriginal
<1>11. CASE LinkHook
  BY <1>11, HookAssumption DEF LinkHook, HookFile, NoHook, None, HookState, HookOriginal
<1>12. CASE ReverseEntry
  BY <1>12 DEF ReverseEntry, RemoveOwnHook, hookVars, HookFile, NoHook, None, HookState, HookOriginal
<1>13. CASE ReverseRestore
  BY <1>13 DEF ReverseRestore, PutBack, PutBackFails, hookVars, HookFile, NoHook, None, HookState, HookOriginal
<1> QED  BY <1>1, <1>6, <1>7, <1>8, <1>9, <1>10, <1>11, <1>12, <1>13, <1>2, <1>3, <1>4, <1>5 DEF SetupNext, HookStep, UninstallStep

LEMMA Working ==
    Types /\ hooker.do # "idle" =>
        /\ hooker.do \in {"on", "off"} /\ hooker.agent \in Agent
        /\ hooker.made \in BOOLEAN /\ hooker.holding \in BOOLEAN
        /\ hooker.at \in {"file", "made", "legacy", "record", "route", "asked", "forget", "forget-legacy", "unroute"}
        /\ hooker.holding => hooker.at \in {"legacy", "record", "forget", "forget-legacy"}
        /\ Sound(hooker.seen)
BY DEF Types, HookerTypes, Idle

\* What the agents command writes about the registry is sound, and not about the hook.
LEMMA EditedElsewhere ==
    ASSUME Types, Wants
    PROVE  Sound(Edited) /\ HookPart(Edited) = HookPart(registry)
<1> DEFINE a == hooker.agent
           new == NewEntry(a, IF hooker.made THEN "dg-created" ELSE "none")
<1>1. /\ a \in Agent /\ a # "pre-commit" /\ Sound(registry) /\ registry \subseteq Entry
      /\ hooker.at \in {"legacy", "record", "forget", "forget-legacy"}
  BY Working, RegistryAssumption DEF Wants, Types, RegTypes, Sound, RegistryAssumption
<1>2. CASE hooker.at \in {"legacy", "forget-legacy"}
  <2>1. Edited = {e \in registry : e.path # a \/ ~e.legacy}
    BY <1>2 DEF Edited
  <2> QED  BY <1>1, <2>1, SoundPart DEF HookPart
<1>3. CASE hooker.at = "forget"
  <2>1. Edited = {e \in registry : e.path # a \/ e.legacy}
    BY <1>3 DEF Edited
  <2> QED  BY <1>1, <2>1, SoundPart DEF HookPart
<1>4. CASE hooker.at = "record"
  <2>1. Edited = Merged(registry, {new})
    BY <1>4 DEF Edited
  <2>2. new \in Entry /\ new.path = a /\ ~new.legacy
    BY <1>1 DEF NewEntry, Entry, Path
  <2>3. Sound({new}) /\ HookPart({new}) = {}
    <3> HIDE DEF new
    <3> QED  BY <1>1, <2>2 DEF Sound, HookPart
  <2> HIDE DEF new
  <2> QED  BY <1>1, <2>1, <2>2, <2>3, SoundMerged, MergedElsewhere
<1> QED  BY <1>1, <1>2, <1>3, <1>4

LEMMA UnhookTyped ==
    ASSUME AgentTypes, NEW a \in Agent, NEW made, Unhook(a, made)
    PROVE  settings' \in [Agent -> File \cup {Absent}] /\ environ' \in [Agent -> Environ]
<1>1. CASE ~Hooked(a)
  BY <1>1 DEF Unhook, AgentTypes
<1>2. CASE Hooked(a)
  <2>1. settings[a] \in File
    BY <1>2 DEF Hooked, Is, AgentTypes, Absent
  <2>2. [settings[a] EXCEPT !.hook = FALSE] \in File
    BY <2>1 DEF File
  <2>3. "none" \in Environ
    BY DEF Environ
  <2> DEFINE gone == a \in Owned \/ (OnlyHook(a) /\ made)
  <2>4. /\ settings' = [settings EXCEPT ![a] = IF gone THEN Absent ELSE [@ EXCEPT !.hook = FALSE]]
        /\ environ' = [environ EXCEPT ![a] = IF gone /\ a \notin Toml THEN "none" ELSE @]
    BY <1>2 DEF Unhook
  <2> HIDE DEF gone
  <2>5. settings' \in [Agent -> File \cup {Absent}]
    BY <2>2, <2>4 DEF AgentTypes
  <2> QED  BY <2>3, <2>4, <2>5 DEF AgentTypes
<1> QED  BY <1>1, <1>2

LEMMA AgentTyped == Types /\ SetupNext => AgentTypes'
<1> SUFFICES ASSUME Types, SetupNext PROVE AgentTypes'
  OBVIOUS
<1> USE DEF Types, AgentTypes
<1>1. CASE UNCHANGED <<settings, environ, routeBackup, service>>
  BY <1>1
<1>2. ShellStep \/ HookStep => UNCHANGED <<settings, environ, routeBackup, service>>
  BY DEF ShellStep, HookStep, shellVars, hookVars, agentVars
<1>3. StartAgentOn \/ RefuseFile \/ AskMade \/ TakeRegistry \/ SaveRegistry \/ RegistryBusy \/ StartAgentOff \/ AskWhoMade => UNCHANGED <<settings, environ, routeBackup, service>>
  BY DEF StartAgentOn, RefuseFile, AskMade, AskWhoMade, TakeRegistry, SaveRegistry, RegistryBusy, StartAgentOff, Keep, Excuse, shellVars, hookVars, agentVars
<1>4. StartUninstall \/ ReverseRestore \/ Sweep \/ ForgetEntries => UNCHANGED <<settings, environ, routeBackup, service>>
  BY DEF StartUninstall, ReverseRestore, Sweep, ForgetEntries, Keep, Excuse, shellVars, hookVars, agentVars
<1>5. CommonStep => UNCHANGED <<settings, environ, routeBackup, service>>
  BY DEF CommonStep, CrashCmd, CrashHooker, CorruptRegistry, shellVars, hookVars, agentVars
<1>6. CASE WriteFile
  BY <1>6 DEF WriteFile, File, Absent, Is, HookerTypes, Idle, At, Refuses
<1>7. CASE Route
  <2>1. hooker.agent \in Agent
    BY <1>7, Working DEF Route, At
  <2>2. [there |-> TRUE, users |-> FALSE, hook |-> FALSE, broken |-> FALSE] \in File
    BY DEF File
  <2>3. settings' \in [Agent -> File \cup {Absent}]
    BY <1>7, <2>1, <2>2 DEF Route
  <2>4. service # Stopped => service \in Environ
    BY DEF Environ
  <2>5. environ' \in [Agent -> Environ] /\ routeBackup' \in [Agent -> Environ \cup {"absent"}]
    BY <1>7, <2>1, <2>4 DEF Route
  <2> QED  BY <1>7, <2>3, <2>5 DEF Route
<1>8. CASE TakeOut
  <2>1. hooker.agent \in Agent
    BY <1>8, Working DEF TakeOut, At
  <2>2. settings' \in [Agent -> File \cup {Absent}] /\ environ' \in [Agent -> Environ]
    BY <1>8, <2>1, UnhookTyped DEF TakeOut
  <2> QED  BY <1>8, <2>2 DEF TakeOut
<1>9. CASE Unroute
  BY <1>9 DEF Unroute, File, Absent, Is, HookerTypes, Environ, Idle, At
<1>10. CASE EditSettings
  <2>1. PICK a \in Agent, broken \in BOOLEAN :
          settings' = [settings EXCEPT ![a] =
              [there |-> TRUE, users |-> TRUE, hook |-> Is(a, "hook") /\ a \notin Owned, broken |-> broken]]
    BY <1>10 DEF EditSettings
  <2>2. [there |-> TRUE, users |-> TRUE, hook |-> Is(a, "hook") /\ a \notin Owned, broken |-> broken] \in File
    BY DEF File
  <2>3. settings' \in [Agent -> File \cup {Absent}]
    BY <2>1, <2>2
  <2> QED  BY <1>10, <2>3 DEF EditSettings
<1>11. CASE ServiceChanges
  BY <1>11 DEF ServiceChanges, Port, Stopped
<1>12. CASE ReverseEntry
  <2>1. PICK e \in cmd.todo : UNCHANGED agentVars \/ (e.path \in Agent /\ ReverseAgent(e.path, e.original = "dg-created"))
    BY <1>12 DEF ReverseEntry, ReverseAgentFails
  <2>2. CASE UNCHANGED agentVars
    BY <1>1, <2>2 DEF agentVars
  <2>3. CASE e.path \in Agent /\ ReverseAgent(e.path, e.original = "dg-created")
    <3>1. settings' \in [Agent -> File \cup {Absent}] /\ environ' \in [Agent -> Environ]
      BY <2>3, UnhookTyped DEF ReverseAgent
    <3> QED  BY <2>3, <3>1 DEF ReverseAgent
  <2> QED  BY <2>1, <2>2, <2>3
<1>13. CASE RemoveDirectories
  BY <1>13 DEF RemoveDirectories, Environ
<1>14. CASE TakeOutAsked
  <2>1. hooker.agent \in Agent
    BY <1>14, Working DEF TakeOutAsked, At
  <2>2. [there |-> TRUE, users |-> FALSE, hook |-> FALSE, broken |-> FALSE] \in File /\ "none" \in Environ
    BY DEF File, Environ
  <2> QED  BY <1>14, <2>1, <2>2 DEF TakeOutAsked
<1> QED  BY <1>1, <1>6, <1>7, <1>8, <1>9, <1>10, <1>11, <1>12, <1>13, <1>14, <1>2, <1>3, <1>4, <1>5 DEF SetupNext, AgentStep, UninstallStep

LEMMA HookerTyped == Types /\ SetupNext => HookerTypes'
<1> SUFFICES ASSUME Types, SetupNext PROVE HookerTypes'
  OBVIOUS
<1> USE DEF Types, HookerTypes, Idle
<1>1. CASE UNCHANGED hooker
  BY <1>1
<1>5. CASE StartAgentOn
  BY <1>5 DEF StartAgentOn, Sound
<1>6. CASE RefuseFile
  BY <1>6 DEF RefuseFile
<1>7. CASE WriteFile
  BY <1>7 DEF WriteFile, At
<1>8. CASE AskMade
  BY <1>8 DEF AskMade, At
<1>9. CASE TakeRegistry
  <2>1. Sound(Edited) /\ Edited \in SUBSET Entry
    BY <1>9, EditedElsewhere DEF TakeRegistry, Sound
  <2> QED  BY <1>9, <2>1 DEF TakeRegistry, Wants
<1>10. CASE SaveRegistry
  <2>1. /\ hooker.do \in {"on", "off"} /\ hooker.holding
        /\ hooker.at \in {"legacy", "record", "forget", "forget-legacy"}
        /\ hooker \in [do : {"on", "off"},
                      at : {"file", "made", "legacy", "record", "route", "asked", "forget", "forget-legacy", "unroute"},
                      agent : Agent, made : BOOLEAN, holding : BOOLEAN, seen : SUBSET Entry]
    BY <1>10, Working DEF SaveRegistry
  <2> DEFINE next == CASE hooker.at = "legacy" -> "made" [] hooker.at = "record" -> "route"
                       [] hooker.at = "forget" -> (IF hooker.agent \in Owned THEN "unroute" ELSE "forget-legacy")
                       [] hooker.at = "forget-legacy" -> "unroute"
  <2>2. next \in {"made", "route", "unroute", "forget-legacy"}
    BY <2>1
  <2>3. hooker' = [hooker EXCEPT !.holding = FALSE, !.seen = {}, !.at = next]
    BY <1>10 DEF SaveRegistry
  <2> HIDE DEF next
  <2> QED  BY <2>1, <2>2, <2>3 DEF Sound
<1>11. CASE RegistryBusy
  BY <1>11 DEF RegistryBusy
<1>12. CASE Route
  BY <1>12 DEF Route
<1>13. CASE StartAgentOff
  BY <1>13 DEF StartAgentOff, Sound
<1>14. CASE TakeOut
  BY <1>14 DEF TakeOut, At, Goto
<1>15. CASE Unroute
  BY <1>15 DEF Unroute
<1>16. CASE CrashHooker
  BY <1>16 DEF CrashHooker
<1>17. CASE AskWhoMade
  BY <1>17 DEF AskWhoMade, At, Goto
<1>18. CASE TakeOutAsked
  BY <1>18 DEF TakeOutAsked, At, Goto
<1> QED  BY <1>1, <1>5, <1>6, <1>7, <1>8, <1>9, <1>10, <1>11, <1>12, <1>13, <1>14, <1>15, <1>16, <1>17, <1>18, HookerFrame

LEMMA ManagedHook ==
    Types /\ HookState = "managed" =>
        /\ hookTarget.by = "dg" /\ hookTarget.chain \in HookOriginal /\ hookTarget.linked \in BOOLEAN
BY HookAssumption DEF Types, HookTypes, HookFile, HookState, NoHook, None, HookOriginal, HookAssumption

LEMMA CmdKinds ==
    Types =>
        /\ cmd.do \in {"idle", "setup", "guard", "off", "uninstall"}
        /\ cmd.do = "idle" => cmd = Idle
        /\ cmd.do = "setup" => cmd \in [do : {"setup"}, at : {"shims", "rc", "record"}]
        /\ cmd.do = "guard" =>
             cmd \in [do : {"guard"}, at : {"take", "write", "record"}, chain : HookOriginal]
        /\ cmd.do = "off" =>
             cmd \in [do : {"off"}, at : {"remove", "restore", "forget"}, forget : SUBSET Entry,
                     original : HookOriginal]
        /\ cmd.do = "uninstall" =>
             /\ cmd \in [do : {"uninstall"}, at : {"entry", "restore", "forget"}, todo : SUBSET Entry,
                        keep : BOOLEAN, self : BOOLEAN, original : {"none", "dg-created"} \cup Backup]
             /\ Sound(cmd.todo)
BY DEF Types, CmdTypes, Idle

LEMMA CmdTyped == Types /\ SetupNext => CmdTypes'
<1> SUFFICES ASSUME Types, SetupNext PROVE CmdTypes'
  OBVIOUS
<1> USE DEF Types, CmdTypes, Idle
<1>1. CASE UNCHANGED cmd
  BY <1>1
<1>2. AgentStep => UNCHANGED cmd
  BY AgentStepsKeepCmd
<1>3. RefreshSetup \/ EditShim \/ EditRc \/ ChangePackage => UNCHANGED cmd
  BY DEF RefreshSetup, EditShim, EditRc, ChangePackage, Keep, Excuse, shellVars, hookVars, agentVars
<1>4. EditHook \/ LinkHook => UNCHANGED cmd
  BY DEF EditHook, LinkHook, Keep, Excuse, shellVars, hookVars, agentVars
<1>5. CrashHooker \/ CorruptRegistry => UNCHANGED cmd
  BY DEF CrashHooker, CorruptRegistry, Keep, Excuse, shellVars, hookVars, agentVars
<1>6. CASE StartSetup
  BY <1>6, CmdKinds DEF StartSetup
<1>7. CASE WriteShims
  BY <1>7, CmdKinds DEF WriteShims, SetupAt
<1>8. CASE WriteRc
  BY <1>8, CmdKinds DEF WriteRc, SetupAt
<1>9. CASE RecordSetup
  BY <1>9, CmdKinds DEF RecordSetup
<1>10. CASE RecordSetupBusy
  BY <1>10, CmdKinds DEF RecordSetupBusy
<1>11. CASE StartGuard
  BY <1>11 DEF StartGuard, HookOriginal
<1>12. CASE TakeForeign
  BY <1>12, CmdKinds, OriginalTyped DEF TakeForeign, GuardAt, HookOriginal, RegTypes, HookState, HookTypes, HookFile, NoHook, None
<1>13. CASE TakeManaged
  <2>1. /\ hookTarget.chain \in HookOriginal /\ RegistryOriginal \in HookOriginal
        /\ cmd \in [do : {"guard"}, at : {"take", "write", "record"}, chain : HookOriginal]
    BY <1>13, HookAssumption, CmdKinds, OriginalTyped, ManagedHook DEF TakeManaged, GuardAt, RegTypes
  <2> QED  BY <1>13, <2>1 DEF TakeManaged
<1>14. CASE TakeFresh
  BY <1>14, CmdKinds, OriginalTyped DEF TakeFresh, GuardAt, HookOriginal, RegTypes, HookState, HookTypes, HookFile, NoHook, None
<1>15. CASE WriteHook
  BY <1>15, CmdKinds, OriginalTyped DEF WriteHook, GuardAt, HookOriginal, RegTypes, HookState, HookTypes, HookFile, NoHook, None
<1>16. CASE RecordHook
  BY <1>16, CmdKinds DEF RecordHook
<1>17. CASE RecordHookBusy
  BY <1>17, CmdKinds DEF RecordHookBusy
<1>18. CASE StartOff
  <2>1. /\ Mine \in SUBSET Entry /\ RegistryOriginal \in HookOriginal
        /\ HookState = "managed" => hookTarget.chain \in HookOriginal
    BY ManagedHook, OriginalTyped DEF RegTypes, Sound, Mine, HookEntries, EntryOf
  <2>2. Mine # {} \/ HookState = "managed"
    BY <1>18 DEF StartOff
  <2> DEFINE original == IF Mine # {} THEN RegistryOriginal ELSE hookTarget.chain
  <2>3. original \in HookOriginal /\ cmd' = [do |-> "off", at |-> "remove", forget |-> Mine, original |-> original]
    BY <1>18, <2>1, <2>2 DEF StartOff
  <2> HIDE DEF original
  <2> QED  BY <2>1, <2>3
<1>19. CASE OffRemove
  BY <1>19, CmdKinds DEF OffRemove, RemoveOwnHook
<1>20. CASE OffRestore
  BY <1>20, CmdKinds DEF OffRestore, PutBack, PutBackFails
<1>21. CASE OffForget
  BY <1>21, CmdKinds DEF OffForget
<1>22. CASE StartUninstall
  <2>1. PICK keep \in BOOLEAN, self \in BOOLEAN :
          cmd' = [do |-> "uninstall", at |-> "entry", todo |-> registry, keep |-> keep,
                  self |-> self, original |-> "none"]
    BY <1>22 DEF StartUninstall
  <2>2. Sound(registry) /\ registry \in SUBSET Entry
    BY DEF RegTypes, Sound
  <2>3. cmd'.todo = registry
    BY <2>1
  <2> QED  BY <2>1, <2>2, <2>3 DEF Sound
<1>23. CASE ReverseEntry
  <2>1. /\ cmd \in [do : {"uninstall"}, at : {"entry", "restore", "forget"}, todo : SUBSET Entry,
                   keep : BOOLEAN, self : BOOLEAN, original : {"none", "dg-created"} \cup Backup]
        /\ Sound(cmd.todo)
    BY <1>23, CmdKinds DEF ReverseEntry, UninstallAt
  <2>2. PICK e \in cmd.todo :
          LET next == [cmd EXCEPT !.todo = @ \ {e}] IN
          cmd' = next \/ cmd' = [next EXCEPT !.at = "restore", !.original = e.original]
    BY <1>23 DEF ReverseEntry, RemoveOwnHook
  <2>3. cmd.todo \ {e} \in SUBSET Entry /\ Sound(cmd.todo \ {e})
    BY <2>1, SoundPart
  <2>4. e.original \in {"none", "dg-created"} \cup Backup
    BY <2>1, <2>2 DEF Entry
  <2>5. cmd'.todo = cmd.todo \ {e}
    BY <2>1, <2>2
  <2>6. Sound(cmd.todo)'
    BY <2>3, <2>5 DEF Sound
  <2>7. cmd' \in [do : {"uninstall"}, at : {"entry", "restore", "forget"}, todo : SUBSET Entry,
                 keep : BOOLEAN, self : BOOLEAN, original : {"none", "dg-created"} \cup Backup]
    BY <2>1, <2>2, <2>3, <2>4
  <2> QED  BY <2>6, <2>7
<1>24. CASE ReverseRestore
  <2>1. /\ cmd \in [do : {"uninstall"}, at : {"entry", "restore", "forget"}, todo : SUBSET Entry,
                   keep : BOOLEAN, self : BOOLEAN, original : {"none", "dg-created"} \cup Backup]
        /\ Sound(cmd.todo)
    BY <1>24, CmdKinds DEF ReverseRestore, UninstallAt
  <2>2. cmd' = [cmd EXCEPT !.at = "entry"]
    BY <1>24 DEF ReverseRestore, PutBack, PutBackFails
  <2>3. cmd'.todo = cmd.todo
    BY <2>1, <2>2
  <2>4. Sound(cmd.todo)'
    BY <2>1, <2>3 DEF Sound
  <2> QED  BY <2>1, <2>2, <2>4
<1>25. CASE Sweep
  <2>1. /\ cmd \in [do : {"uninstall"}, at : {"entry", "restore", "forget"}, todo : SUBSET Entry,
                   keep : BOOLEAN, self : BOOLEAN, original : {"none", "dg-created"} \cup Backup]
        /\ Sound(cmd.todo) /\ cmd' = [cmd EXCEPT !.at = "forget"]
    BY <1>25, CmdKinds DEF Sweep, UninstallAt
  <2>2. cmd'.todo = cmd.todo
    BY <2>1
  <2>3. Sound(cmd.todo)'
    BY <2>1, <2>2 DEF Sound
  <2> QED  BY <2>1, <2>3
<1>26. CASE ForgetEntries
  BY <1>26, CmdKinds DEF ForgetEntries
<1>27. CASE RemoveDirectories
  BY <1>27, CmdKinds DEF RemoveDirectories
<1>28. CASE CrashCmd
  BY <1>28, CmdKinds DEF CrashCmd
<1> QED  BY <1>1, <1>6, <1>7, <1>8, <1>9, <1>10, <1>11, <1>12, <1>13, <1>14, <1>15, <1>16, <1>17, <1>18, <1>19, <1>20, <1>21, <1>22, <1>23, <1>24, <1>25, <1>26, <1>27, <1>28, <1>2, <1>3, <1>4, <1>5 DEF SetupNext, ShellStep, HookStep, UninstallStep, CommonStep

\* What setup records is sound, and not about the hook.
LEMMA ShellEntries ==
    LET new == {NewEntry(p, "none") : p \in Shim \cup {"rc"}} IN
    Sound(new) /\ (\A n \in new : ~n.legacy) /\ HookPart(new) = {}
<1> DEFINE P == Shim \cup {"rc"}
<1>1. P \in SUBSET Path /\ "pre-commit" \notin P
  BY RegistryAssumption DEF Path, RegistryAssumption
<1>2. "none" \in {"none", "dg-created"} \cup Backup
  OBVIOUS
<1> HIDE DEF P
<1>3. /\ Sound({NewEntry(p, "none") : p \in P})
      /\ \A n \in {NewEntry(p, "none") : p \in P} : ~n.legacy
      /\ HookPart({NewEntry(p, "none") : p \in P}) = {}
  BY <1>1, <1>2, NewIsSound
<1> QED  BY <1>3 DEF P

LEMMA RegistrySound == Types /\ SetupNext => Sound(registry)'
<1> SUFFICES ASSUME Types, SetupNext PROVE Sound(registry)'
  OBVIOUS
<1> USE DEF Types, RegTypes
<1>1. CASE UNCHANGED registry
  BY <1>1
<1>7. CASE RecordSetup
  <2> DEFINE new == {NewEntry(p, "none") : p \in Shim \cup {"rc"}}
  <2>1. Sound(new) /\ \A n \in new : ~n.legacy
    BY ShellEntries DEF new
  <2> HIDE DEF new
  <2>2. Sound(Merged(registry, new))
    BY <2>1, SoundMerged
  <2>3. registry' = Merged(registry, new)
    BY <1>7 DEF RecordSetup, new
  <2> QED  BY <2>2, <2>3 DEF Sound
<1>8. CASE RecordHook
  <2> DEFINE new == NewEntry("pre-commit", cmd.chain)
  <2>1. new \in Entry /\ new.path = "pre-commit" /\ new.original \in HookOriginal /\ ~new.legacy
    BY <1>8, CmdKinds DEF RecordHook, GuardAt, NewEntry, Entry, Path, HookOriginal, None
  <2> HIDE DEF new
  <2>2. Sound({new}) /\ \A n \in {new} : ~n.legacy
    BY <2>1 DEF Sound
  <2>3. Sound(Merged(registry, {new}))
    BY <2>2, SoundMerged
  <2>4. registry' = Merged(registry, {new})
    BY <1>8 DEF RecordHook, new
  <2> QED  BY <2>3, <2>4 DEF Sound
<1>9. CASE OffForget
  <2>1. registry' \in SUBSET registry
    BY <1>9 DEF OffForget
  <2> QED  BY <2>1 DEF Sound
<1>10. CASE SaveRegistry
  <2>1. registry' = hooker.seen /\ Sound(hooker.seen)
    BY <1>10, Working DEF SaveRegistry
  <2> QED  BY <2>1 DEF Sound
<1>11. CASE ForgetEntries
  BY <1>11 DEF ForgetEntries, Sound
<1>12. CASE RemoveDirectories
  BY <1>12 DEF RemoveDirectories, Sound
<1>13. CASE CorruptRegistry
  BY <1>13 DEF CorruptRegistry, Sound
<1> QED  BY <1>1, <1>7, <1>8, <1>9, <1>10, <1>11, <1>12, <1>13, RegistryFrame

LEMMA LockTyped == Types /\ SetupNext => regLock' \in {"free", "torn", "cmd", "agents"}
<1> SUFFICES ASSUME Types, SetupNext PROVE regLock' \in {"free", "torn", "cmd", "agents"}
  OBVIOUS
<1> USE DEF Types, RegTypes
<1>1. CASE UNCHANGED regLock
  BY <1>1
<1>7. CASE RecordSetup
  BY <1>7 DEF RecordSetup
<1>8. CASE RecordHook
  BY <1>8 DEF RecordHook
<1>9. CASE OffForget
  BY <1>9 DEF OffForget
<1>10. CASE StartOff
  BY <1>10 DEF StartOff
<1>11. CASE TakeRegistry
  BY <1>11 DEF TakeRegistry
<1>12. CASE SaveRegistry
  BY <1>12 DEF SaveRegistry
<1>13. CASE ForgetEntries
  BY <1>13 DEF ForgetEntries
<1>14. CASE RemoveDirectories
  BY <1>14 DEF RemoveDirectories
<1>15. CASE CrashCmd
  BY <1>15 DEF CrashCmd
<1>16. CASE CrashHooker
  BY <1>16 DEF CrashHooker
<1> QED  BY <1>1, <1>7, <1>8, <1>9, <1>10, <1>11, <1>12, <1>13, <1>14, <1>15, <1>16, LockFrame

LEMMA ExcusedTyped == Types /\ SetupNext => excused' \subseteq Path
<1> SUFFICES ASSUME Types, SetupNext PROVE excused' \subseteq Path
  OBVIOUS
<1> USE DEF Types, RegTypes, Path, Excuse, Keep
<1>1. CASE UNCHANGED excused
  BY <1>1
<1>2. StartSetup \/ WriteShims \/ WriteRc \/ ChangePackage => UNCHANGED excused
  BY DEF StartSetup, WriteShims, WriteRc, ChangePackage, Keep, Excuse, shellVars, hookVars, agentVars
<1>3. StartGuard \/ TakeForeign \/ TakeManaged \/ WriteHook \/ StartOff \/ OffRemove \/ OffForget \/ LinkHook => UNCHANGED excused
  BY DEF StartGuard, TakeForeign, TakeManaged, WriteHook, StartOff, OffRemove, OffForget, LinkHook, Keep, Excuse, shellVars, hookVars, agentVars
<1>4. StartAgentOn \/ RefuseFile \/ AskMade \/ TakeRegistry \/ StartAgentOff \/ TakeOutAsked \/ Unroute \/ ServiceChanges => UNCHANGED excused
  BY DEF StartAgentOn, RefuseFile, AskMade, TakeRegistry, StartAgentOff, TakeOutAsked, Unroute, ServiceChanges, Keep, Excuse, shellVars, hookVars, agentVars
<1>5. ForgetEntries \/ RemoveDirectories => UNCHANGED excused
  BY DEF ForgetEntries, RemoveDirectories
<1>6. CASE RecordSetup
  BY <1>6 DEF RecordSetup
<1>7. CASE RecordSetupBusy
  BY <1>7 DEF RecordSetupBusy
<1>8. CASE RefreshSetup
  BY <1>8 DEF RefreshSetup
<1>9. CASE EditShim
  BY <1>9 DEF EditShim
<1>10. CASE EditRc
  BY <1>10 DEF EditRc
<1>11. CASE TakeFresh
  BY <1>11 DEF TakeFresh
<1>12. CASE RecordHook
  BY <1>12 DEF RecordHook
<1>13. CASE RecordHookBusy
  BY <1>13 DEF RecordHookBusy
<1>14. CASE OffRestore
  BY <1>14 DEF OffRestore, PutBackFails
<1>15. CASE EditHook
  BY <1>15 DEF EditHook
<1>16. CASE WriteFile
  BY <1>16, Working DEF WriteFile, At, Wants, Overlaps
<1>17. CASE SaveRegistry
  <2>1. hooker.agent \in Agent /\ Changed(hooker.seen) \subseteq Path
    BY <1>17, Working DEF SaveRegistry, Changed
  <2> QED  BY <1>17, <2>1 DEF SaveRegistry, Overlaps
<1>18. CASE RegistryBusy
  BY <1>18, Working DEF RegistryBusy, At, Wants, Overlaps
<1>19. CASE Route
  BY <1>19, Working DEF Route, At, Wants, Overlaps
<1>20. CASE TakeOut
  BY <1>20, Working DEF TakeOut, At, Wants, Overlaps
<1>21. CASE EditSettings
  BY <1>21 DEF EditSettings
<1>22. CASE StartUninstall
  BY <1>22, Working DEF StartUninstall, At, Wants, Overlaps
<1>23. CASE ReverseRestore
  BY <1>23 DEF ReverseRestore, PutBackFails
<1>24. CASE CrashCmd
  BY <1>24 DEF CrashCmd
<1>25. CASE CrashHooker
  BY <1>25, Working DEF CrashHooker, At, Wants, Overlaps
<1>26. CASE CorruptRegistry
  BY <1>26 DEF CorruptRegistry
<1>27. CASE AskWhoMade
  BY <1>27, Working DEF AskWhoMade, At, Overlaps
<1>28. CASE ReverseEntry
  BY <1>28 DEF ReverseEntry, ReverseRcFails, ReverseAgentFails
<1>29. CASE Sweep
  BY <1>29 DEF Sweep, SweepOldFails
<1> QED  BY <1>1, <1>6, <1>7, <1>8, <1>9, <1>10, <1>11, <1>12, <1>13, <1>14, <1>15, <1>16, <1>17, <1>18, <1>19, <1>20, <1>21, <1>22, <1>23, <1>24, <1>25, <1>26, <1>27, <1>28, <1>29,
         <1>2, <1>3, <1>4, <1>5 DEF SetupNext, ShellStep, HookStep, AgentStep, UninstallStep, CommonStep

LEMMA TypesKeep == Types /\ [SetupNext]_setupVars => Types'
<1> SUFFICES ASSUME Types, [SetupNext]_setupVars PROVE Types'
  OBVIOUS
<1>1. CASE SetupNext
  <2>1. RegTypes'
    BY <1>1, RegistrySound, LockTyped, ExcusedTyped DEF RegTypes, Path
  <2>2. ShellTypes' /\ HookTypes' /\ AgentTypes' /\ HookerTypes' /\ CmdTypes'
    BY <1>1, ShellTyped, HookTyped, AgentTyped, HookerTyped, CmdTyped
  <2> QED  BY <2>1, <2>2 DEF Types
<1>2. CASE UNCHANGED setupVars
  BY <1>2 DEF setupVars, regVars, shellVars, hookVars, agentVars, Types, RegTypes, CmdTypes, HookerTypes,
              ShellTypes, HookTypes, AgentTypes
<1> QED  BY <1>1, <1>2

-----------------------------------------------------------------------------
\* The user's hook, in the steps of one kind after another.
LEMMA SameOriginal == HookEntries' = HookEntries => RegistryOriginal' = RegistryOriginal
BY DEF RegistryOriginal

\* A step that is about something else, or begins or ends a command with no hook in hand.
LEMMA Elsewhere ==
    ASSUME HookInv, UNCHANGED <<hookTarget, backups, owed>>, HookEntries' = HookEntries,
           "pre-commit" \in excused => "pre-commit" \in excused',
           \/ UNCHANGED cmd
           \/ ~Taken /\ (cmd'.do \in {"idle", "setup"} \/ (cmd'.do = "guard" /\ cmd'.at = "take")),
           "pre-commit" \notin excused' => SeenIsCurrent'
    PROVE  Kept' /\ Placed'
<1>1. RegistryOriginal' = RegistryOriginal
  BY SameOriginal
<1>2. HookState' = HookState
  BY DEF HookState
<1>3. Placed'
  BY <1>2 DEF Placed, HookInv, GuardAt, Taken
<1>4. ASSUME "pre-commit" \notin excused', owed' # None PROVE NameIsHeld'
  <2>1. NameIsHeld
    BY <1>4 DEF HookInv, Kept
  <2>2. CASE UNCHANGED cmd
    BY <2>1, <2>2, <1>1, <1>2 DEF NameIsHeld, HoldsOwed, Taken
  <2>3. CASE ~Taken /\ (cmd'.do \in {"idle", "setup"} \/ (cmd'.do = "guard" /\ cmd'.at = "take"))
    BY <2>1, <2>3, <1>1, <1>2 DEF NameIsHeld, HoldsOwed, Taken
  <2> QED  BY <2>2, <2>3
<1> QED  BY <1>3, <1>4 DEF Kept

LEMMA SeenStays ==
    ASSUME SeenIsCurrent, UNCHANGED hooker, HookPart(registry)' = HookPart(registry),
           regLock' = "agents" => regLock = "agents"
    PROVE  SeenIsCurrent'
BY DEF SeenIsCurrent, HookPart

LEMMA SameHookEntries ==
    ASSUME Sound(registry), Sound(registry)', HookPart(registry)' = HookPart(registry)
    PROVE  HookEntries' = HookEntries
<1>1. HookEntries = HookPart(registry)
  BY HookEntriesArePart
<1>2. HookEntries' = HookPart(registry)'
  BY DEF Sound, HookEntries, EntryOf, HookPart
<1> QED  BY <1>1, <1>2

LEMMA ShellKeeps == HookInv /\ ShellStep => Kept' /\ Placed'
<1> SUFFICES ASSUME HookInv, ShellStep PROVE Kept' /\ Placed'
  OBVIOUS
<1>1. UNCHANGED <<hookTarget, backups, owed, hooker>>
  BY DEF ShellStep, hookVars, agentVars, StartSetup, WriteShims, WriteRc, RecordSetup, RecordSetupBusy,
         RefreshSetup, EditShim, EditRc, ChangePackage
<1>2. /\ "pre-commit" \in excused <=> "pre-commit" \in excused'
      /\ regLock' = regLock \/ regLock' = "free"
  BY RegistryAssumption DEF RegistryAssumption, ShellStep, StartSetup, WriteShims, WriteRc, RecordSetup,
         RecordSetupBusy, RefreshSetup, EditShim, EditRc, ChangePackage, Keep, Excuse
<1>3. UNCHANGED cmd \/ (~Taken /\ cmd'.do \in {"idle", "setup"})
  <2>1. CASE StartSetup
    BY <2>1 DEF StartSetup, Taken
  <2>2. CASE WriteShims \/ WriteRc
    BY <2>2, CmdKinds DEF WriteShims, WriteRc, SetupAt, Taken, HookInv
  <2>3. CASE RecordSetup \/ RecordSetupBusy
    BY <2>3 DEF RecordSetup, RecordSetupBusy, SetupAt, Taken, Idle
  <2>4. CASE RefreshSetup \/ EditShim \/ EditRc \/ ChangePackage
    BY <2>4 DEF RefreshSetup, EditShim, EditRc, ChangePackage
  <2> QED  BY <2>1, <2>2, <2>3, <2>4 DEF ShellStep
<1>4. Sound(registry) /\ Sound(registry)'
  BY RegistrySound DEF SetupNext, HookInv, Types, RegTypes
<1>5. HookPart(registry)' = HookPart(registry)
  <2>1. CASE RecordSetup
    BY <2>1, ShellEntries, MergedElsewhere DEF RecordSetup
  <2>2. CASE ~RecordSetup
    <3>1. UNCHANGED registry
      BY <2>2 DEF ShellStep, StartSetup, WriteShims, WriteRc,
         RecordSetupBusy, RefreshSetup, EditShim, EditRc, ChangePackage, Keep, Excuse
    <3> QED  BY <3>1 DEF HookPart
  <2> QED  BY <2>1, <2>2
<1>6. HookEntries' = HookEntries
  BY <1>4, <1>5, SameHookEntries
<1>7. "pre-commit" \notin excused' => SeenIsCurrent'
  BY <1>1, <1>2, <1>5, SeenStays DEF HookInv, Kept
<1> QED  BY <1>1, <1>2, <1>3, <1>6, <1>7, Elsewhere
LEMMA AgentKeeps == HookInv /\ AgentStep => Kept' /\ Placed'
<1> SUFFICES ASSUME HookInv, AgentStep PROVE Kept' /\ Placed'
  OBVIOUS
<1>1. UNCHANGED <<hookTarget, backups, owed, cmd>>
  BY DEF AgentStep, hookVars, StartAgentOn, RefuseFile, WriteFile, AskMade, TakeRegistry, SaveRegistry,
         RegistryBusy, Route, StartAgentOff, TakeOut, AskWhoMade, TakeOutAsked, Unroute, EditSettings, ServiceChanges
<1>2. Types /\ Sound(registry) /\ Sound(registry)'
  BY RegistrySound DEF SetupNext, HookInv, Types, RegTypes
<1>3. hooker.do # "idle" => hooker.agent # "pre-commit"
  BY <1>2, Working, RegistryAssumption DEF RegistryAssumption
<1>4. /\ "pre-commit" \in excused => "pre-commit" \in excused'
      /\ HookPart(registry)' = HookPart(registry) \/ "pre-commit" \in excused'
      /\ "pre-commit" \notin excused' => SeenIsCurrent'
  <2>1. CASE SaveRegistry
    <3>1. "pre-commit" \in excused => "pre-commit" \in excused'
      BY <1>3, <2>1 DEF SaveRegistry
    <3>2. HookPart(hooker.seen) = HookPart(registry) \/ "pre-commit" \in excused'
      <4>1. CASE regLock = "agents" /\ "pre-commit" \notin excused'
        BY <2>1, <3>1, <4>1 DEF SaveRegistry, HookInv, Kept, SeenIsCurrent
      <4>2. CASE regLock # "agents" /\ "pre-commit" \notin excused'
        <5>1. "pre-commit" \notin Changed(hooker.seen)
          BY <1>3, <2>1, <4>2 DEF SaveRegistry
        <5> QED  BY <5>1 DEF Changed, HookPart, Path
      <4> QED  BY <4>1, <4>2
    <3>3. HookPart(registry)' = HookPart(hooker.seen)
      BY <2>1 DEF SaveRegistry, HookPart
    <3>4. SeenIsCurrent'
      BY <2>1 DEF SaveRegistry, SeenIsCurrent
    <3> QED  BY <3>1, <3>2, <3>3, <3>4
  <2>2. CASE TakeRegistry
    <3>1. HookPart(Edited) = HookPart(registry)
      BY <1>2, <2>2, EditedElsewhere DEF TakeRegistry
    <3>2. UNCHANGED <<registry, excused>> /\ hooker' = [hooker EXCEPT !.holding = TRUE, !.seen = Edited]
      BY <2>2 DEF TakeRegistry
    <3>3. HookPart(registry)' = HookPart(registry)
      BY <3>2 DEF HookPart
    <3>4. hooker'.seen = Edited
      BY <1>2, <2>2, <3>2 DEF TakeRegistry, Wants, Types, HookerTypes, Idle
    <3>5. HookPart(hooker.seen)' = HookPart(registry)'
      BY <3>1, <3>3, <3>4 DEF HookPart
    <3> QED  BY <3>2, <3>3, <3>5 DEF SeenIsCurrent
  <2>3. CASE StartAgentOn \/ RefuseFile \/ WriteFile \/ AskMade \/ RegistryBusy \/ Route \/ StartAgentOff
             \/ TakeOut \/ AskWhoMade \/ TakeOutAsked \/ Unroute \/ EditSettings \/ ServiceChanges
    <3>1. UNCHANGED <<registry, regLock>>
      BY <2>3 DEF StartAgentOn, RefuseFile, WriteFile, AskMade, RegistryBusy, Route, StartAgentOff,
                  TakeOut, AskWhoMade, TakeOutAsked, Unroute, EditSettings, ServiceChanges, Keep
    <3>2. "pre-commit" \in excused => "pre-commit" \in excused'
      BY <2>3 DEF StartAgentOn, RefuseFile, WriteFile, AskMade, RegistryBusy, Route, StartAgentOff,
                  TakeOut, AskWhoMade, TakeOutAsked, Unroute, EditSettings, ServiceChanges, Keep, Excuse
    <3>3. UNCHANGED hooker \/ hooker'.do = "idle" \/ ~hooker'.holding
      <4>1. CASE StartAgentOn \/ StartAgentOff
        BY <4>1 DEF StartAgentOn, StartAgentOff
      <4>2. CASE RefuseFile \/ RegistryBusy \/ Route \/ Unroute
        BY <4>2 DEF RefuseFile, RegistryBusy, Route, Unroute, Idle
      <4>3. CASE WriteFile \/ AskMade \/ TakeOut \/ AskWhoMade \/ TakeOutAsked
        BY <1>2, <4>3 DEF WriteFile, AskMade, TakeOut, AskWhoMade, TakeOutAsked, At, Goto, Types, HookerTypes, Idle
      <4>4. CASE EditSettings \/ ServiceChanges
        BY <4>4 DEF EditSettings, ServiceChanges
      <4> QED  BY <2>3, <4>1, <4>2, <4>3, <4>4
    <3>4. HookPart(registry)' = HookPart(registry)
      BY <3>1 DEF HookPart
    <3>5. CASE UNCHANGED hooker
      BY <3>1, <3>2, <3>4, <3>5, SeenStays DEF HookInv, Kept
    <3>6. CASE hooker'.do = "idle" \/ ~hooker'.holding
      BY <3>2, <3>4, <3>6 DEF SeenIsCurrent
    <3> QED  BY <3>3, <3>5, <3>6
  <2> QED  BY <2>1, <2>2, <2>3 DEF AgentStep
<1>5. CASE HookPart(registry)' = HookPart(registry)
  BY <1>1, <1>2, <1>4, <1>5, SameHookEntries, Elsewhere
<1>6. CASE "pre-commit" \in excused'
  BY <1>1, <1>6 DEF Kept, HookInv, Placed, GuardAt, HookState
<1> QED  BY <1>4, <1>5, <1>6

LEMMA CommonKeeps == HookInv /\ CommonStep => Kept' /\ Placed'
<1> SUFFICES ASSUME HookInv, CommonStep PROVE Kept' /\ Placed'
  OBVIOUS
<1>1. UNCHANGED <<hookTarget, backups, owed>>
  BY DEF CommonStep, hookVars, CrashCmd, CrashHooker
<1>2. CASE CorruptRegistry
  BY <1>1, <1>2 DEF CorruptRegistry, Excuse, Path, Kept, HookInv, Placed, GuardAt, HookState
<1>3. CASE CrashHooker
  <2>1. UNCHANGED <<registry, cmd>> /\ hooker' = Idle /\ ("pre-commit" \in excused => "pre-commit" \in excused')
    BY <1>3 DEF CrashHooker, Excuse
  <2>2. HookEntries' = HookEntries /\ SeenIsCurrent'
    BY <2>1 DEF HookEntries, EntryOf, SeenIsCurrent, Idle
  <2> QED  BY <1>1, <2>1, <2>2, Elsewhere
<1>4. CASE CrashCmd
  <2>1. UNCHANGED <<registry, hooker>> /\ cmd' = Idle
    BY <1>4 DEF CrashCmd
  <2>2. /\ "pre-commit" \in excused => "pre-commit" \in excused'
        /\ Taken => "pre-commit" \in excused'
        /\ regLock' = "agents" => regLock = "agents"
    BY <1>4 DEF CrashCmd, Taken
  <2>3. HookEntries' = HookEntries /\ HookPart(registry)' = HookPart(registry)
    BY <2>1 DEF HookEntries, EntryOf, HookPart
  <2>4. CASE "pre-commit" \in excused'
    BY <2>1, <2>4 DEF Kept, Placed, GuardAt, Idle
  <2>5. CASE "pre-commit" \notin excused'
    BY <1>1, <2>1, <2>2, <2>3, <2>5, SeenStays, Elsewhere DEF Idle, HookInv, Kept
  <2> QED  BY <2>4, <2>5
<1> QED  BY <1>2, <1>3, <1>4 DEF CommonStep
\* The replaced hook goes back, or stays where it is.
LEMMA PutBackKeeps ==
    ASSUME HookInv, NEW original, NEW next, PutBack(original, next),
           "pre-commit" \notin excused, owed # None => HoldsOwed(original)
    PROVE  owed' = None \/ (UNCHANGED <<hookTarget, backups, owed>> /\ owed = None)
BY DEF PutBack, HoldsOwed

\* dg's own hook goes, and somebody else's is there only when none is owed.
LEMMA RemoveKeeps ==
    ASSUME HookInv, NEW restore, NEW skip, RemoveOwnHook(restore, skip), "pre-commit" \notin excused
    PROVE  /\ UNCHANGED <<backups, owed>>
           /\ owed # None => HookState' = "fresh" /\ cmd' = restore
BY DEF RemoveOwnHook, HookInv, Kept, NameIsHeld, HookState, NoHook, None

LEMMA HookKeeps == HookInv /\ HookStep => Kept' /\ Placed'
<1> SUFFICES ASSUME HookInv, HookStep PROVE Kept' /\ Placed'
  OBVIOUS
<1>1. UNCHANGED hooker
  BY DEF HookStep, StartGuard, TakeForeign, TakeManaged, TakeFresh, WriteHook, RecordHook,
         RecordHookBusy, StartOff, OffRemove, OffRestore, OffForget, EditHook, LinkHook
<1>2. Types /\ Types' /\ Sound(registry)
  BY TypesKeep DEF SetupNext, HookInv, Types, RegTypes
<1>3. ASSUME UNCHANGED registry, regLock' = "agents" => regLock = "agents",
             "pre-commit" \in excused => "pre-commit" \in excused'
      PROVE  /\ HookEntries' = HookEntries /\ RegistryOriginal' = RegistryOriginal
             /\ "pre-commit" \notin excused' => SeenIsCurrent'
  BY <1>1, <1>3, SameOriginal DEF HookEntries, EntryOf, HookInv, Kept, SeenIsCurrent, HookPart
<1>4. CASE StartGuard
  <2>1. /\ UNCHANGED <<registry, regLock, excused, hookTarget, backups, owed>>
        /\ ~Taken /\ cmd'.do = "guard" /\ cmd'.at = "take"
    BY <1>4 DEF StartGuard, hookVars, Taken
  <2> QED  BY <1>3, <2>1, Elsewhere
<1>5. CASE TakeForeign
  <2>1. PICK b \in Backup :
          /\ backups' = [backups EXCEPT ![b] = hookTarget.by]
          /\ cmd' = [cmd EXCEPT !.at = "write", !.chain = b]
    BY <1>5 DEF TakeForeign
  <2>2. /\ UNCHANGED <<registry, regLock, excused>> /\ owed' = hookTarget.by /\ hookTarget' = NoHook
        /\ cmd.do = "guard"
    BY <1>5 DEF TakeForeign, Keep, GuardAt
  <2>3. cmd'.do = "guard" /\ cmd'.at = "write" /\ cmd'.chain = b
    BY <1>2, <2>1, <2>2, CmdKinds
  <2>4. backups'[b] = owed'
    BY <1>2, <2>1, <2>2 DEF Types, HookTypes
  <2>5. HookState' = "fresh"
    BY <2>2 DEF HookState, NoHook, None
  <2> QED  BY <1>3, <2>2, <2>3, <2>4, <2>5 DEF Kept, Placed, NameIsHeld, HoldsOwed, Taken, GuardAt
<1>6. CASE TakeManaged
  <2>1. /\ UNCHANGED <<registry, regLock, excused, hookTarget, backups, owed>> /\ HookState = "managed"
        /\ cmd.do = "guard"
        /\ cmd' = [cmd EXCEPT !.at = "write",
                 !.chain = IF hookTarget.chain # None THEN hookTarget.chain ELSE RegistryOriginal]
    BY <1>6 DEF TakeManaged, Keep, GuardAt, hookVars
  <2>2. /\ cmd'.do = "guard" /\ cmd'.at = "write"
        /\ hookTarget.chain # None => cmd'.chain = hookTarget.chain
    BY <1>2, <2>1, CmdKinds
  <2>3. ASSUME "pre-commit" \notin excused, owed # None
        PROVE  HoldsOwed(hookTarget.chain) /\ hookTarget.chain # None
    BY <2>1, <2>3, RegistryAssumption DEF HookInv, Kept, NameIsHeld, HoldsOwed, RegistryAssumption, None
  <2>4. HookState' = HookState
    BY <2>1 DEF HookState
  <2> QED  BY <1>3, <2>1, <2>2, <2>3, <2>4 DEF Kept, Placed, NameIsHeld, HoldsOwed, Taken, GuardAt
<1>7. CASE TakeFresh
  <2>1. /\ UNCHANGED <<registry, regLock, hookTarget, backups, owed>> /\ cmd.do = "guard"
        /\ cmd' = [cmd EXCEPT !.at = "write"]
        /\ "pre-commit" \in excused => "pre-commit" \in excused'
        /\ owed = None \/ "pre-commit" \in excused'
    BY <1>7 DEF TakeFresh, GuardAt, hookVars, Excuse
  <2>2. cmd'.at = "write"
    BY <1>2, <2>1, CmdKinds
  <2> QED  BY <1>3, <2>1, <2>2 DEF Kept, Placed, GuardAt
<1>8. CASE WriteHook
  <2>1. /\ UNCHANGED <<registry, regLock, excused, backups, owed>> /\ cmd.do = "guard" /\ cmd.at = "write"
        /\ cmd' = [cmd EXCEPT !.at = "record"]
        /\ hookTarget' = [by |-> "dg", chain |-> cmd.chain, linked |-> FALSE]
    BY <1>8 DEF WriteHook, Keep, GuardAt
  <2>2. cmd'.do = "guard" /\ cmd'.at = "record" /\ cmd'.chain = cmd.chain
    BY <1>2, <2>1, CmdKinds
  <2>3. HookState' = "managed" /\ hookTarget'.chain = cmd.chain
    BY <2>1 DEF HookState, None
  <2> QED  BY <1>3, <2>1, <2>2, <2>3 DEF HookInv, Kept, Placed, NameIsHeld, HoldsOwed, Taken, GuardAt
<1>9. CASE RecordHook
  <2> DEFINE new == NewEntry("pre-commit", cmd.chain)
  <2>1. /\ UNCHANGED <<hookTarget, backups, owed>> /\ cmd.do = "guard" /\ cmd.at = "record"
        /\ registry' = Merged(registry, {new}) /\ regLock' = "free" /\ cmd' = Idle
        /\ excused' = IF HoldsOwed(cmd.chain) THEN excused \ {"pre-commit"} ELSE excused
    BY <1>9 DEF RecordHook, GuardAt, hookVars
  <2>2. new.path = "pre-commit" /\ new.original = cmd.chain /\ new.legacy = FALSE
    BY DEF NewEntry
  <2> HIDE DEF new
  <2>3. HookEntries' = {new}
    BY <1>2, <2>1, <2>2 DEF HookEntries, EntryOf, Merged, Sound, Entry
  <2>4. {e.original : e \in HookEntries'} = {cmd.chain}
    BY <2>2, <2>3
  <2>5. RegistryOriginal' = cmd.chain
    BY <2>3, <2>4 DEF RegistryOriginal
  <2>6. HookState' = "managed" /\ hookTarget'.chain = cmd.chain
    BY <2>1 DEF HookInv, Placed, GuardAt, HookState
  <2>7. "pre-commit" \notin excused' => owed = None \/ HoldsOwed(cmd.chain)
    BY <2>1 DEF HookInv, Kept, NameIsHeld, Taken
  <2>8. SeenIsCurrent'
    BY <2>1 DEF SeenIsCurrent
  <2> QED  BY <2>1, <2>3, <2>5, <2>6, <2>7, <2>8 DEF Kept, Placed, NameIsHeld, HoldsOwed, Taken, GuardAt, Idle
<1>10. CASE RecordHookBusy
  <2>1. /\ UNCHANGED <<registry, regLock, hookTarget, backups, owed>> /\ cmd.do = "guard" /\ cmd.at = "record"
        /\ cmd' = Idle
        /\ "pre-commit" \in excused => "pre-commit" \in excused'
        /\ (RegistryOriginal = cmd.chain /\ HookEntries # {}) \/ "pre-commit" \in excused'
    BY <1>10 DEF RecordHookBusy, GuardAt, hookVars, Excuse
  <2>2. HookState' = HookState
    BY <2>1 DEF HookState
  <2> QED  BY <1>3, <2>1, <2>2 DEF HookInv, Kept, Placed, NameIsHeld, HoldsOwed, Taken, GuardAt, Idle
<1>11. CASE StartOff
  <2> DEFINE original == IF Mine # {} THEN RegistryOriginal ELSE hookTarget.chain
  <2>1. /\ UNCHANGED <<registry, excused, hookTarget, backups, owed>> /\ cmd.do = "idle" /\ regLock' = "cmd"
        /\ Mine # {} \/ HookState = "managed"
        /\ cmd'.do = "off" /\ cmd'.at = "remove" /\ cmd'.original = original
    BY <1>11 DEF StartOff, hookVars
  <2>2. ASSUME "pre-commit" \notin excused, owed # None PROVE HoldsOwed(original)
    BY <2>1, <2>2 DEF HookInv, Kept, NameIsHeld, Taken
  <2>3. HookState' = HookState
    BY <2>1 DEF HookState
  <2> HIDE DEF original
  <2> QED  BY <1>3, <2>1, <2>2, <2>3 DEF HookInv, Kept, Placed, NameIsHeld, HoldsOwed, Taken, GuardAt
<1>12. CASE OffRemove
  <2>1. /\ UNCHANGED <<registry, regLock, excused>> /\ cmd.do = "off" /\ cmd.at = "remove"
        /\ RemoveOwnHook([cmd EXCEPT !.at = "restore"], [cmd EXCEPT !.at = "forget"])
    BY <1>12 DEF OffRemove, Keep
  <2>2. ASSUME "pre-commit" \notin excused, owed # None
        PROVE  HookState' = "fresh" /\ cmd' = [cmd EXCEPT !.at = "restore"]
    BY <2>1, <2>2, RemoveKeeps
  <2>3. /\ cmd'.do = "off" /\ UNCHANGED <<backups, owed>>
        /\ cmd' = [cmd EXCEPT !.at = "restore"] => cmd'.at = "restore" /\ cmd'.original = cmd.original
    BY <1>2, <2>1, CmdKinds DEF RemoveOwnHook
  <2> QED  BY <1>3, <2>1, <2>2, <2>3 DEF HookInv, Kept, Placed, NameIsHeld, HoldsOwed, Taken, GuardAt
<1>13. CASE OffRestore
  <2>1. cmd.do = "off" /\ cmd.at = "restore" /\ UNCHANGED <<registry, regLock>>
    BY <1>13 DEF OffRestore, Keep
  <2>2. cmd'.do = "off" /\ cmd'.at = "forget"
    BY <1>2, <1>13, <2>1, CmdKinds DEF OffRestore, PutBack, PutBackFails
  <2>3. /\ "pre-commit" \in excused => "pre-commit" \in excused'
        /\ "pre-commit" \notin excused' => owed' = None
    <3>1. CASE PutBack(cmd.original, [cmd EXCEPT !.at = "forget"]) /\ Keep
      <4>1. "pre-commit" \notin excused /\ owed # None => HoldsOwed(cmd.original)
        BY <2>1 DEF HookInv, Kept, NameIsHeld
      <4> QED  BY <3>1, <4>1, PutBackKeeps DEF Keep
    <3>2. CASE PutBackFails(cmd.original, [cmd EXCEPT !.at = "forget"])
      BY <3>2 DEF PutBackFails, Excuse
    <3> QED  BY <1>13, <3>1, <3>2 DEF OffRestore
  <2> QED  BY <1>3, <2>1, <2>2, <2>3 DEF Kept, Placed, GuardAt
<1>14. CASE OffForget
  <2>1. /\ UNCHANGED <<excused, hookTarget, backups, owed>> /\ regLock' = "free" /\ cmd' = Idle
        /\ cmd.do = "off" /\ cmd.at = "forget"
    BY <1>14 DEF OffForget, hookVars
  <2> QED  BY <2>1 DEF HookInv, Kept, Placed, NameIsHeld, SeenIsCurrent, GuardAt, Idle
<1>15. CASE EditHook
  <2>1. /\ UNCHANGED <<registry, regLock, cmd, owed>> /\ cmd.do = "idle"
        /\ "pre-commit" \in excused => "pre-commit" \in excused'
        /\ owed = None \/ "pre-commit" \in excused'
    BY <1>15 DEF EditHook, Excuse
  <2> QED  BY <1>3, <2>1 DEF Kept, Placed, GuardAt
<1>16. CASE LinkHook
  <2>1. /\ UNCHANGED <<registry, regLock, cmd, excused, backups, owed>> /\ cmd.do = "idle"
        /\ HookState = "managed" /\ hookTarget' = [hookTarget EXCEPT !.linked = TRUE]
    BY <1>16 DEF LinkHook
  <2>2. HookState' = "managed" /\ hookTarget'.chain = hookTarget.chain
    BY <1>2, <2>1, ManagedHook, HookAssumption
    DEF Types, HookTypes, HookFile, HookState, NoHook, None, HookAssumption
  <2> QED  BY <1>3, <2>1, <2>2 DEF HookInv, Kept, Placed, NameIsHeld, HoldsOwed, Taken, GuardAt
<1> QED  BY <1>4, <1>5, <1>6, <1>7, <1>8, <1>9, <1>10, <1>11, <1>12, <1>13, <1>14, <1>15, <1>16 DEF HookStep
LEMMA UninstallKeeps == HookInv /\ UninstallStep => Kept' /\ Placed'
<1> SUFFICES ASSUME HookInv, UninstallStep PROVE Kept' /\ Placed'
  OBVIOUS
<1>1. UNCHANGED hooker
  BY DEF UninstallStep, StartUninstall, ReverseEntry, ReverseRestore, Sweep, ForgetEntries, RemoveDirectories
<1>2. Types /\ Types' /\ Sound(registry)
  BY TypesKeep DEF SetupNext, HookInv, Types, RegTypes
<1>3. ASSUME UNCHANGED <<registry, regLock>>, "pre-commit" \in excused => "pre-commit" \in excused'
      PROVE  /\ HookEntries' = HookEntries /\ RegistryOriginal' = RegistryOriginal
             /\ "pre-commit" \notin excused' => SeenIsCurrent'
  BY <1>1, <1>3, SameOriginal DEF HookEntries, EntryOf, HookInv, Kept, SeenIsCurrent, HookPart
<1>4. CASE StartUninstall
  <2>1. /\ UNCHANGED <<registry, regLock, hookTarget, backups, owed>> /\ cmd.do = "idle"
        /\ cmd'.do = "uninstall" /\ cmd'.at = "entry" /\ cmd'.todo = registry
        /\ "pre-commit" \in excused => "pre-commit" \in excused'
    BY <1>4 DEF StartUninstall, hookVars
  <2>2. HookState' = HookState /\ HookEntries \subseteq registry
    BY <2>1 DEF HookState, HookEntries, EntryOf
  <2> QED  BY <1>3, <2>1, <2>2 DEF HookInv, Kept, Placed, NameIsHeld, HoldsOwed, Taken, GuardAt
<1>5. CASE ReverseEntry
  <2>1. /\ UNCHANGED <<registry, regLock>> /\ cmd.do = "uninstall" /\ cmd.at = "entry"
        /\ excused \subseteq excused'
    BY <1>5 DEF ReverseEntry, Keep, UninstallAt, ReverseRcFails, ReverseAgentFails, Excuse
  <2>2. PICK e \in cmd.todo :
          LET next == [cmd EXCEPT !.todo = @ \ {e}] IN
          \/ e.path # "pre-commit" /\ cmd' = next /\ UNCHANGED hookVars
          \/ /\ e.path = "pre-commit"
             /\ RemoveOwnHook([next EXCEPT !.at = "restore", !.original = e.original], next)
    <3> USE RegistryAssumption DEF RegistryAssumption
    <3> QED  BY <1>5 DEF ReverseEntry
  <2> DEFINE next == [cmd EXCEPT !.todo = @ \ {e}]
             restore == [next EXCEPT !.at = "restore", !.original = e.original]
  <2>3. /\ next.do = "uninstall" /\ next.at = "entry" /\ next.todo = cmd.todo \ {e}
        /\ restore.do = "uninstall" /\ restore.at = "restore" /\ restore.original = e.original
    BY <1>2, <2>1, CmdKinds
  <2>4. /\ \/ e.path # "pre-commit" /\ cmd' = next /\ UNCHANGED hookVars
           \/ e.path = "pre-commit" /\ RemoveOwnHook(restore, next)
        /\ cmd'.do = "uninstall"
    BY <2>2, <2>3 DEF RemoveOwnHook
  <2> HIDE DEF next, restore
  <2>5. CASE e.path # "pre-commit" /\ cmd' = next /\ UNCHANGED hookVars
    <3>1. HookState' = HookState /\ UNCHANGED <<hookTarget, backups, owed>> /\ \A f \in HookEntries : f # e
      BY <2>5 DEF hookVars, HookState, HookEntries, EntryOf
    <3> QED  BY <1>3, <2>1, <2>3, <2>5, <3>1
             DEF HookInv, Kept, Placed, NameIsHeld, HoldsOwed, Taken, GuardAt
  <2>6. CASE e.path = "pre-commit" /\ RemoveOwnHook(restore, next)
    <3>1. UNCHANGED <<backups, owed>>
      BY <2>6 DEF RemoveOwnHook
    <3>2. ASSUME "pre-commit" \notin excused, owed # None
          PROVE  /\ HookState' = "fresh" /\ cmd' = restore
                 /\ HookEntries # {} /\ HoldsOwed(RegistryOriginal) /\ RegistryOriginal = e.original
      <4>1. HookState' = "fresh" /\ cmd' = restore
        BY <2>6, <3>2, RemoveKeeps
      <4>2. NameIsHeld /\ ~Taken
        BY <2>1, <3>2 DEF HookInv, Kept, Taken
      <4>3. PICK f \in HookEntries : f \in cmd.todo
        BY <2>1, <4>2 DEF NameIsHeld
      <4>4. Sound(cmd.todo)
        BY <1>2, <2>1, CmdKinds
      <4>5. f = e
        BY <2>6, <4>3, <4>4 DEF Sound, HookEntries, EntryOf, Entry
      <4>6. RegistryOriginal = e.original
        BY <1>2, <4>3, <4>5, OneOriginal
      <4> QED  BY <4>1, <4>2, <4>3, <4>6 DEF NameIsHeld
    <3> QED  BY <1>3, <2>1, <2>3, <2>4, <3>1, <3>2 DEF Kept, Placed, NameIsHeld, HoldsOwed, Taken, GuardAt
  <2> QED  BY <2>4, <2>5, <2>6
<1>6. CASE ReverseRestore
  <2>1. cmd.do = "uninstall" /\ cmd.at = "restore" /\ UNCHANGED <<registry, regLock>>
    BY <1>6 DEF ReverseRestore, Keep, UninstallAt
  <2>2. cmd'.do = "uninstall" /\ cmd'.at = "entry"
    BY <1>2, <1>6, <2>1, CmdKinds DEF ReverseRestore, PutBack, PutBackFails
  <2>3. /\ "pre-commit" \in excused => "pre-commit" \in excused'
        /\ "pre-commit" \notin excused' => owed' = None
    <3>1. CASE PutBack(cmd.original, [cmd EXCEPT !.at = "entry"]) /\ Keep
      <4>1. "pre-commit" \notin excused /\ owed # None => HoldsOwed(cmd.original)
        BY <2>1 DEF HookInv, Kept, NameIsHeld
      <4> QED  BY <3>1, <4>1, PutBackKeeps DEF Keep
    <3>2. CASE PutBackFails(cmd.original, [cmd EXCEPT !.at = "entry"])
      BY <3>2 DEF PutBackFails, Excuse
    <3> QED  BY <1>6, <3>1, <3>2 DEF ReverseRestore
  <2> QED  BY <1>3, <2>1, <2>2, <2>3 DEF Kept, Placed, GuardAt
<1>7. CASE Sweep
  <2>1. /\ UNCHANGED <<registry, regLock, hookTarget, backups, owed>> /\ excused \subseteq excused'
        /\ cmd.do = "uninstall" /\ cmd.at = "entry" /\ cmd.todo = {} /\ cmd' = [cmd EXCEPT !.at = "forget"]
    BY <1>7 DEF Sweep, Keep, UninstallAt, hookVars, SweepOldFails, Excuse
  <2>2. cmd'.do = "uninstall"
    BY <1>2, <2>1, CmdKinds
  <2> QED  BY <1>3, <2>1, <2>2 DEF HookInv, Kept, Placed, NameIsHeld, GuardAt
<1>8. CASE ForgetEntries
  <2>1. /\ UNCHANGED <<excused, hookTarget, backups, owed>> /\ cmd' = Idle
        /\ cmd.do = "uninstall" /\ cmd.at = "forget"
        /\ regLock' = "free" \/ UNCHANGED <<registry, regLock>>
    BY <1>8 DEF ForgetEntries, UninstallAt, hookVars
  <2>2. regLock' = "free" => SeenIsCurrent'
    BY DEF SeenIsCurrent
  <2> QED  BY <1>3, <2>1, <2>2 DEF HookInv, Kept, Placed, NameIsHeld, GuardAt, Idle
<1>9. CASE RemoveDirectories
  <2>1. /\ UNCHANGED <<excused, hookTarget, backups, owed>> /\ regLock' = "free" /\ cmd' = Idle
        /\ cmd.do = "uninstall" /\ cmd.at = "forget"
    BY <1>9 DEF RemoveDirectories, UninstallAt, hookVars
  <2> QED  BY <2>1 DEF HookInv, Kept, Placed, NameIsHeld, SeenIsCurrent, GuardAt, Idle
<1> QED  BY <1>4, <1>5, <1>6, <1>7, <1>8, <1>9 DEF UninstallStep

LEMMA HookInvKeeps == HookInv /\ [SetupNext]_setupVars => HookInv'
<1> SUFFICES ASSUME HookInv, [SetupNext]_setupVars PROVE HookInv'
  OBVIOUS
<1>1. Types'
  BY TypesKeep DEF HookInv
<1>2. Kept' /\ Placed'
  <2>1. CASE SetupNext
    BY <2>1, ShellKeeps, HookKeeps, AgentKeeps, UninstallKeeps, CommonKeeps DEF SetupNext
  <2>2. CASE UNCHANGED setupVars
    <3>1. UNCHANGED <<registry, regLock, cmd, hooker, excused, hookTarget, backups, owed>>
      BY <2>2 DEF setupVars, regVars, hookVars
    <3>2. HookEntries' = HookEntries /\ ("pre-commit" \notin excused' => SeenIsCurrent')
      BY <3>1 DEF HookEntries, EntryOf, HookPart, SeenIsCurrent, HookInv, Kept
    <3> QED  BY <3>1, <3>2, Elsewhere
  <2> QED  BY <2>1, <2>2
<1> QED  BY <1>1, <1>2 DEF HookInv

LEMMA HookInvInit == SetupInit => HookInv
<1> SUFFICES ASSUME SetupInit PROVE HookInv
  OBVIOUS
<1>1. Sound(registry)
  <2>1. PICK A \in SUBSET Agent : registry = {[path |-> a, original |-> "none", legacy |-> TRUE] : a \in A}
    BY DEF SetupInit, AgentInit
  <2>2. ASSUME NEW e \in registry
        PROVE  e \in Entry /\ e.path # "pre-commit" /\ e = [path |-> e.path, original |-> "none", legacy |-> TRUE]
    <3>1. PICK a \in A : e = [path |-> a, original |-> "none", legacy |-> TRUE]
      BY <2>1, <2>2
    <3>2. e.path = a /\ a # "pre-commit" /\ a \in Path
      BY <3>1, RegistryAssumption DEF Path, RegistryAssumption
    <3> QED  BY <3>1, <3>2 DEF Entry
  <2> QED  BY <2>2 DEF Sound
<1> USE DEF SetupInit, RegistryInit, ShellInit, HookInit, AgentInit, Idle
<1>2. ShellTypes /\ HookTypes
  BY DEF ShellTypes, HookTypes, ShimState, Piece, HookFile, None
<1>3. AgentTypes
  BY DEF AgentTypes, File, Absent, Environ, Port, Stopped
<1>4. Types
  BY <1>1, <1>2, <1>3 DEF Types, RegTypes, CmdTypes, HookerTypes
<1> QED  BY <1>4 DEF HookInv, Kept, Placed, SeenIsCurrent, GuardAt

-----------------------------------------------------------------------------
(* Where the trace of dg at a path is on record.                           *)

EntriesAt(entries, p) == {e \in entries : e.path = p}
Recorded(entries, p) == \E e \in entries : e.path = p /\ ~e.legacy

Holding == hooker.do # "idle" /\ hooker.holding

\* Only an older release's entries of agents are legacy, and they say nothing more.
PlainLegacy(entries) == \A e \in entries : e.legacy => e.original = "none"

\* While it has the lock, an agents command keeps what is recorded of other paths.
SeenKeeps ==
    (Holding /\ regLock = "agents") =>
        /\ \A p \in Path \ {hooker.agent} : EntriesAt(registry, p) \subseteq EntriesAt(hooker.seen, p)
        /\ \A b \in Agent \ {hooker.agent} :
             b \notin excused => EntriesAt(hooker.seen, b) = EntriesAt(registry, b)

MadeByDg(entries, a) == \E e \in entries : e.path = a /\ ~e.legacy /\ e.original = "dg-created"
NoLegacy(entries, a) == \A e \in entries : e.path = a => ~e.legacy

\* What it is about to write of its own agent.
SeenOwn ==
    (Holding /\ hooker.do = "on") =>
        LET a == hooker.agent IN
        /\ hooker.at = "record" =>
             \E e \in hooker.seen :
                 /\ e.path = a
                 /\ hooker.made => e.original = "dg-created"
                 /\ a \notin Owned => \A f \in hooker.seen : f.path = a => f = e
        /\ hooker.at = "legacy" =>
             /\ NoLegacy(hooker.seen, a)
             /\ (a \notin excused /\ MadeByDg(registry, a)) => MadeByDg(hooker.seen, a)

LegacyGone ==
    (hooker.do = "on" /\ hooker.agent \notin Owned /\ hooker.at \in {"made", "record"})
        => NoLegacy(registry, hooker.agent)

OffForgetsHook == cmd.do = "off" => \A e \in cmd.forget : e.path = "pre-commit"

\* On and off go each their own way.
StepsApart ==
    hooker.do # "idle" =>
        /\ hooker.at \in {"legacy", "made", "record", "route"} => hooker.do = "on"
        /\ hooker.at \in {"asked", "forget", "forget-legacy", "unroute"} => hooker.do = "off"

EntriesInv ==
    PlainLegacy(registry) /\ (Holding => PlainLegacy(hooker.seen))
    /\ StepsApart /\ SeenKeeps /\ SeenOwn /\ LegacyGone /\ OffForgetsHook

\* Who asks after a file saw nothing in it but dg's hook, and no environment to keep.
AskedInv ==
    At("off", "asked") =>
        LET a == hooker.agent IN
        a \notin Owned /\ (a \notin Toml => routeBackup[a] # "users" /\ environ[a] = "none")

\* A shim or a block that is there is dg's and recorded, or about to be; an
\* uninstall has its entry still to undo.
ShimsWritten == (SetupAt("rc") \/ SetupAt("record")) => \A s \in Shim : shims[s] = "dg"

ShimInv(s) ==
    (s \notin excused /\ shims[s] # "absent") =>
        /\ shims[s] = "dg"
        /\ Recorded(registry, s) \/ SetupAt("rc") \/ SetupAt("record")
        /\ cmd.do = "uninstall" => cmd.at # "forget" /\ Recorded(cmd.todo, s)

RcInv ==
    "rc" \notin excused =>
        /\ "headless" \notin rc
        /\ HasSentinel(rc) =>
             /\ Recorded(registry, "rc") \/ SetupAt("record")
             /\ cmd.do = "uninstall" => cmd.at # "forget" /\ Recorded(cmd.todo, "rc")
        /\ (cmd.do = "uninstall" /\ cmd.at = "forget") => "legacy" \notin rc

ShellInv == ShimsWritten /\ (\A s \in Shim : ShimInv(s)) /\ RcInv

ManagedInv ==
    ("pre-commit" \notin excused /\ HookState = "managed") =>
        /\ Recorded(registry, "pre-commit") \/ GuardAt("record")
        /\ cmd.do = "off" => cmd.at = "remove"
        /\ cmd.do = "uninstall" => cmd.at = "entry" /\ Recorded(cmd.todo, "pre-commit")

\* Who wrote what in an agent's file, excused or not.
FilesInv(a) ==
    /\ a \in created => settings[a].there /\ ~Is(a, "users") /\ ~Is(a, "broken")
    /\ (a \in Owned /\ Is(a, "hook")) => ~Is(a, "users")
    /\ a \notin Toml =>
         /\ (environ[a] = "users" \/ routeBackup[a] = "users") => Is(a, "users")
         /\ ~settings[a].there => environ[a] = "none"

AgentTrace(a) == Is(a, "hook") \/ a \in created

Writing(a) == hooker.do = "on" /\ hooker.agent = a /\ hooker.at \in {"legacy", "made", "record"}
Taking(a) == hooker.do = "off" /\ hooker.agent = a /\ hooker.at \in {"forget", "forget-legacy", "unroute"}

\* Entries from which an uninstall can tell what to do about an agent's file.
ToldBy(entries, a) ==
    /\ EntriesAt(entries, a) # {}
    /\ (a \in created /\ a \notin Owned) => \A e \in EntriesAt(entries, a) : e.original = "dg-created"

\* dg's hook can be seen, and a file dg made has nothing else in it.
Removable(a) ==
    ~Is(a, "broken") /\ (AgentTrace(a) => Is(a, "hook") /\ (a \in created => OnlyHook(a)))

Told(a) == AgentTrace(a) => (Writing(a) \/ ToldBy(registry, a)) /\ ~Taking(a)

\* The command at work knows that dg made the file, or finds it in the registry.
Remembered(a) ==
    (Writing(a) /\ a \in created /\ a \notin Owned) =>
        /\ hooker.at \in {"legacy", "made"} => hooker.made \/ MadeByDg(registry, a)
        /\ hooker.at = "record" => hooker.made

StillToUndo(a) ==
    cmd.do = "uninstall" =>
        ~Writing(a) /\ (AgentTrace(a) => cmd.at # "forget" /\ ToldBy(cmd.todo, a))

AgentInv(a) == a \notin excused => Removable(a) /\ Told(a) /\ Remembered(a) /\ StillToUndo(a)

AgentsInv == \A a \in Agent : FilesInv(a) /\ AgentInv(a)

TraceInv == HookInv /\ EntriesInv /\ ShellInv /\ ManagedInv /\ AgentsInv /\ AskedInv

-----------------------------------------------------------------------------
(* How an uninstall goes on.                                               *)

LEMMA UninstallGoesOn ==
    ASSUME Types
    PROVE  /\ ReverseEntry =>
                /\ cmd.do = "uninstall" /\ cmd.at = "entry" /\ cmd'.do = "uninstall"
                /\ UNCHANGED <<registry, regLock, hooker>> /\ excused \subseteq excused'
                /\ \E e \in cmd.todo :
                     /\ cmd'.todo = cmd.todo \ {e}
                     /\ \/ /\ e.path \in Shim /\ ReverseShim(e.path) /\ cmd'.at = "entry"
                           /\ UNCHANGED <<hookVars, agentVars>>
                        \/ /\ e.path = "rc" /\ ReverseRc /\ cmd'.at = "entry"
                           /\ UNCHANGED <<hookVars, agentVars>>
                        \/ /\ e.path = "pre-commit" /\ UNCHANGED <<shellVars, agentVars>>
                           /\ HookState = "foreign" => cmd'.at = "entry" /\ UNCHANGED hookVars
                           /\ HookState # "foreign" => cmd'.at = "restore" /\ hookTarget' = NoHook
                        \/ /\ e.path \in Agent /\ ReverseAgent(e.path, e.original = "dg-created")
                           /\ cmd'.at = "entry" /\ UNCHANGED <<shellVars, hookVars>>
                        \/ /\ e.path \in Agent \cup {"rc"} /\ e.path \in excused'
                           /\ cmd'.at = "entry" /\ UNCHANGED <<shellVars, hookVars, agentVars>>
           /\ ReverseRestore =>
                /\ cmd.do = "uninstall" /\ cmd.at = "restore" /\ cmd'.do = "uninstall" /\ cmd'.at = "entry"
                /\ cmd'.todo = cmd.todo /\ excused \subseteq excused'
                /\ UNCHANGED <<registry, regLock, hooker, shellVars, agentVars>>
           /\ Sweep =>
                /\ cmd.do = "uninstall" /\ cmd.at = "entry" /\ cmd.todo = {}
                /\ cmd'.do = "uninstall" /\ cmd'.at = "forget" /\ UNCHANGED shims
                /\ rc' = SweepLegacy(rc) \/ (UNCHANGED rc /\ "rc" \in excused')
                /\ excused \subseteq excused'
                /\ UNCHANGED <<registry, regLock, hooker, hookVars, agentVars>>
<1> DEFINE Kind == [do : {"uninstall"}, at : {"entry", "restore", "forget"}, todo : SUBSET Entry,
                    keep : BOOLEAN, self : BOOLEAN, original : {"none", "dg-created"} \cup Backup]
<1>1. cmd.do = "uninstall" => cmd \in Kind
  BY CmdKinds
<1>2. ASSUME cmd \in Kind, NEW todo, NEW original
      PROVE  LET next == [cmd EXCEPT !.todo = todo]
                 restore == [next EXCEPT !.at = "restore", !.original = original] IN
             /\ next.do = "uninstall" /\ next.at = cmd.at /\ next.todo = todo
             /\ restore.do = "uninstall" /\ restore.at = "restore" /\ restore.todo = todo
  BY <1>2
<1>3. ASSUME cmd \in Kind, NEW at
      PROVE  LET next == [cmd EXCEPT !.at = at] IN
             next.do = "uninstall" /\ next.at = at /\ next.todo = cmd.todo
  BY <1>3
<1> HIDE DEF Kind
<1>4. ASSUME ReverseEntry
      PROVE  /\ cmd.do = "uninstall" /\ cmd.at = "entry" /\ cmd'.do = "uninstall"
             /\ UNCHANGED <<registry, regLock, hooker>> /\ excused \subseteq excused'
             /\ \E e \in cmd.todo :
                     /\ cmd'.todo = cmd.todo \ {e}
                     /\ \/ /\ e.path \in Shim /\ ReverseShim(e.path) /\ cmd'.at = "entry"
                           /\ UNCHANGED <<hookVars, agentVars>>
                        \/ /\ e.path = "rc" /\ ReverseRc /\ cmd'.at = "entry"
                           /\ UNCHANGED <<hookVars, agentVars>>
                        \/ /\ e.path = "pre-commit" /\ UNCHANGED <<shellVars, agentVars>>
                           /\ HookState = "foreign" => cmd'.at = "entry" /\ UNCHANGED hookVars
                           /\ HookState # "foreign" => cmd'.at = "restore" /\ hookTarget' = NoHook
                        \/ /\ e.path \in Agent /\ ReverseAgent(e.path, e.original = "dg-created")
                           /\ cmd'.at = "entry" /\ UNCHANGED <<shellVars, hookVars>>
                        \/ /\ e.path \in Agent \cup {"rc"} /\ e.path \in excused'
                           /\ cmd'.at = "entry" /\ UNCHANGED <<shellVars, hookVars, agentVars>>
  <2>1. /\ cmd.do = "uninstall" /\ cmd.at = "entry" /\ UNCHANGED <<registry, regLock, hooker>>
        /\ excused \subseteq excused'
    BY <1>4 DEF ReverseEntry, UninstallAt, Keep, ReverseRcFails, ReverseAgentFails, Excuse
  <2>2. PICK e \in cmd.todo :
         LET next == [cmd EXCEPT !.todo = @ \ {e}] IN
         \/ /\ e.path \in Shim /\ ReverseShim(e.path)
            /\ cmd' = next /\ UNCHANGED <<hookVars, agentVars>>
         \/ /\ e.path = "rc" /\ ReverseRc
            /\ cmd' = next /\ UNCHANGED <<hookVars, agentVars>>
         \/ /\ e.path = "pre-commit"
            /\ RemoveOwnHook([next EXCEPT !.at = "restore", !.original = e.original], next)
            /\ UNCHANGED <<shellVars, agentVars>>
         \/ /\ e.path \in Agent /\ ReverseAgent(e.path, e.original = "dg-created")
            /\ cmd' = next /\ UNCHANGED <<shellVars, hookVars>>
         \/ /\ e.path \in Agent \cup {"rc"} /\ e.path \in excused'
            /\ cmd' = next /\ UNCHANGED <<shellVars, hookVars, agentVars>>
    BY <1>4 DEF ReverseEntry, ReverseRcFails, ReverseAgentFails, Excuse
  <2> DEFINE next == [cmd EXCEPT !.todo = cmd.todo \ {e}]
             restore == [next EXCEPT !.at = "restore", !.original = e.original]
  <2>3. /\ next.do = "uninstall" /\ next.at = "entry" /\ next.todo = cmd.todo \ {e}
        /\ restore.do = "uninstall" /\ restore.at = "restore" /\ restore.todo = cmd.todo \ {e}
    BY <1>1, <1>2, <2>1
  <2>4. next = [cmd EXCEPT !.todo = @ \ {e}]
    OBVIOUS
  <2>5. \/ /\ e.path \in Shim /\ ReverseShim(e.path)
           /\ cmd' = next /\ UNCHANGED <<hookVars, agentVars>>
        \/ /\ e.path = "rc" /\ ReverseRc
           /\ cmd' = next /\ UNCHANGED <<hookVars, agentVars>>
        \/ /\ e.path = "pre-commit" /\ RemoveOwnHook(restore, next)
           /\ UNCHANGED <<shellVars, agentVars>>
        \/ /\ e.path \in Agent /\ ReverseAgent(e.path, e.original = "dg-created")
           /\ cmd' = next /\ UNCHANGED <<shellVars, hookVars>>
        \/ /\ e.path \in Agent \cup {"rc"} /\ e.path \in excused'
           /\ cmd' = next /\ UNCHANGED <<shellVars, hookVars, agentVars>>
    BY <2>2, <2>4
  <2> HIDE DEF next, restore
  <2>6. CASE e.path = "pre-commit" /\ RemoveOwnHook(restore, next) /\ UNCHANGED <<shellVars, agentVars>>
    <3>1. /\ HookState = "foreign" => cmd' = next /\ UNCHANGED hookVars
          /\ HookState # "foreign" => cmd' = restore /\ hookTarget' = NoHook
      <4>1. HookState \in {"fresh", "managed", "foreign"} /\ (HookState = "fresh" => hookTarget = NoHook)
        BY DEF HookState, Types, HookTypes, HookFile, NoHook, None
      <4> QED  BY <2>6, <4>1 DEF RemoveOwnHook, hookVars
    <3> QED  BY <2>1, <2>3, <2>6, <3>1
  <2> QED  BY <2>1, <2>3, <2>5, <2>6
<1>5. ASSUME ReverseRestore
      PROVE  /\ cmd.do = "uninstall" /\ cmd.at = "restore" /\ cmd'.do = "uninstall" /\ cmd'.at = "entry"
             /\ cmd'.todo = cmd.todo /\ excused \subseteq excused'
             /\ UNCHANGED <<registry, regLock, hooker, shellVars, agentVars>>
  <2> DEFINE next == [cmd EXCEPT !.at = "entry"]
  <2>1. cmd.do = "uninstall" /\ cmd.at = "restore" /\ UNCHANGED <<registry, regLock, hooker, shellVars, agentVars>>
    BY <1>5 DEF ReverseRestore, UninstallAt, Keep
  <2>2. cmd' = next /\ excused \subseteq excused'
    BY <1>5 DEF ReverseRestore, PutBack, PutBackFails, Keep, Excuse
  <2>3. next.do = "uninstall" /\ next.at = "entry" /\ next.todo = cmd.todo
    BY <1>1, <1>3, <2>1
  <2> QED  BY <2>1, <2>2, <2>3
<1>6. ASSUME Sweep
      PROVE  /\ cmd.do = "uninstall" /\ cmd.at = "entry" /\ cmd.todo = {}
             /\ cmd'.do = "uninstall" /\ cmd'.at = "forget" /\ UNCHANGED shims
             /\ rc' = SweepLegacy(rc) \/ (UNCHANGED rc /\ "rc" \in excused')
             /\ excused \subseteq excused'
             /\ UNCHANGED <<registry, regLock, hooker, hookVars, agentVars>>
  BY <1>1, <1>3, <1>6 DEF Sweep, UninstallAt, Keep, SweepOld, SweepOldFails, Excuse
<1> QED  BY <1>4, <1>5, <1>6

-----------------------------------------------------------------------------
(* The entries.                                                            *)

LEMMA MergedAt ==
    ASSUME NEW S, NEW N, NEW p, \A n \in N : n.path # p
    PROVE  EntriesAt(Merged(S, N), p) = EntriesAt(S, p)
BY DEF EntriesAt, Merged

LEMMA MergedPlain ==
    ASSUME NEW S, NEW N, PlainLegacy(S), \A n \in N : ~n.legacy
    PROVE  PlainLegacy(Merged(S, N))
BY DEF PlainLegacy, Merged

LEMMA NewIs == ASSUME NEW p, NEW o PROVE LET e == NewEntry(p, o) IN e.path = p /\ e.original = o /\ ~e.legacy
BY DEF NewEntry

\* What the agents command is about to write.
LEMMA EditedIs ==
    ASSUME hooker.at \in {"legacy", "record", "forget", "forget-legacy"}
    PROVE  LET a == hooker.agent
               new == NewEntry(a, IF hooker.made THEN "dg-created" ELSE "none") IN
           /\ hooker.at \in {"legacy", "forget-legacy"} => Edited = {e \in registry : e.path # a \/ ~e.legacy}
           /\ hooker.at = "record" => Edited = Merged(registry, {new})
           /\ hooker.at = "forget" => Edited = {e \in registry : e.path # a \/ e.legacy}
           /\ \A p : p # a => EntriesAt(Edited, p) = EntriesAt(registry, p)
           /\ PlainLegacy(registry) => PlainLegacy(Edited)
<1> DEFINE a == hooker.agent
           new == NewEntry(a, IF hooker.made THEN "dg-created" ELSE "none")
<1>1. hooker.at \in {"legacy", "forget-legacy"} => Edited = {e \in registry : e.path # a \/ ~e.legacy}
  BY DEF Edited
<1>2. hooker.at = "record" => Edited = Merged(registry, {new})
  BY DEF Edited
<1>3. hooker.at = "forget" => Edited = {e \in registry : e.path # a \/ e.legacy}
  BY DEF Edited
<1>4. new.path = a /\ ~new.legacy
  BY NewIs
<1> HIDE DEF new
<1>5. ASSUME NEW p, p # a PROVE EntriesAt(Edited, p) = EntriesAt(registry, p)
  <2>1. EntriesAt(Merged(registry, {new}), p) = EntriesAt(registry, p)
    BY <1>4, <1>5, MergedAt
  <2>2. CASE hooker.at = "record"
    BY <1>2, <2>1, <2>2
  <2>3. CASE hooker.at # "record"
    BY <1>1, <1>3, <1>5, <2>3 DEF EntriesAt
  <2> QED  BY <2>2, <2>3
<1>6. ASSUME PlainLegacy(registry) PROVE PlainLegacy(Edited)
  <2>1. PlainLegacy(Merged(registry, {new}))
    BY <1>4, <1>6, MergedPlain
  <2>2. CASE hooker.at = "record"
    BY <1>2, <2>1, <2>2
  <2>3. CASE hooker.at # "record"
    BY <1>1, <1>3, <1>6, <2>3 DEF PlainLegacy
  <2> QED  BY <2>2, <2>3
<1> QED  BY <1>1, <1>2, <1>3, <1>5, <1>6 DEF new

LEMMA Saved ==
    Types /\ SaveRegistry =>
        /\ Holding /\ hooker'.holding = FALSE /\ hooker' # hooker /\ registry' = hooker.seen
        /\ hooker'.do = hooker.do /\ hooker'.agent = hooker.agent /\ hooker'.made = hooker.made
        /\ hooker.agent \in Agent
        /\ \/ hooker.at = "legacy" /\ hooker'.at = "made"
           \/ hooker.at = "record" /\ hooker'.at = "route"
           \/ hooker.at \in {"forget", "forget-legacy"} /\ hooker'.at \in {"forget-legacy", "unroute"}
        /\ UNCHANGED <<cmd, spent, agentVars>>
<1> SUFFICES ASSUME Types, SaveRegistry
             PROVE  /\ Holding /\ hooker'.holding = FALSE /\ hooker' # hooker /\ registry' = hooker.seen
        /\ hooker'.do = hooker.do /\ hooker'.agent = hooker.agent /\ hooker'.made = hooker.made
        /\ hooker.agent \in Agent
        /\ \/ hooker.at = "legacy" /\ hooker'.at = "made"
           \/ hooker.at = "record" /\ hooker'.at = "route"
           \/ hooker.at \in {"forget", "forget-legacy"} /\ hooker'.at \in {"forget-legacy", "unroute"}
        /\ UNCHANGED <<cmd, spent, agentVars>>
  OBVIOUS
<1>1. hooker.do # "idle" /\ hooker.holding /\ hooker.agent \in Agent /\ hooker.at \in {"legacy", "record", "forget", "forget-legacy"}
  BY Working DEF SaveRegistry
<1>2. hooker'.holding = FALSE
  BY DEF SaveRegistry, Types, HookerTypes, Idle
<1>3. /\ hooker'.do = hooker.do /\ hooker'.agent = hooker.agent /\ hooker'.made = hooker.made
      /\ hooker'.at = CASE hooker.at = "legacy" -> "made" [] hooker.at = "record" -> "route"
                         [] hooker.at = "forget" -> (IF hooker.agent \in Owned THEN "unroute" ELSE "forget-legacy")
                         [] hooker.at = "forget-legacy" -> "unroute"
  BY <1>1 DEF SaveRegistry, Types, HookerTypes, Idle
<1>4. registry' = hooker.seen /\ UNCHANGED <<cmd, spent, agentVars>>
  BY DEF SaveRegistry
<1>5. hooker' # hooker
  BY <1>1, <1>2
<1> QED  BY <1>1, <1>2, <1>3, <1>4, <1>5 DEF Holding

\* A command that has the registry's lock goes on by saving, and in no other way.
LEMMA Holder ==
    ASSUME Types, SetupNext
    PROVE  /\ Holding => UNCHANGED hooker \/ SaveRegistry \/ CrashHooker
           /\ Holding' => TakeRegistry \/ (UNCHANGED hooker /\ Holding)
<1> USE Working DEF Holding
<1>1. CASE UNCHANGED hooker
  BY <1>1
<1>2. CASE StartAgentOn \/ StartAgentOff
  BY <1>2 DEF StartAgentOn, StartAgentOff
<1>3. CASE RefuseFile \/ RegistryBusy
  BY <1>3 DEF RefuseFile, RegistryBusy, Idle, At, Wants
<1>4. CASE WriteFile
  BY <1>4 DEF WriteFile, At, Types, HookerTypes, Idle
<1>5. CASE AskMade
  BY <1>5 DEF AskMade, At, Types, HookerTypes, Idle
<1>6. CASE Route \/ Unroute
  BY <1>6 DEF Route, Unroute, At, Idle
<1>7. CASE TakeOut \/ AskWhoMade \/ TakeOutAsked
  BY <1>7 DEF TakeOut, AskWhoMade, TakeOutAsked, At, Goto, Types, HookerTypes, Idle
<1>8. CASE TakeRegistry
  BY <1>8 DEF TakeRegistry, Wants
<1>9. CASE SaveRegistry
  BY <1>9, Saved
<1>10. CASE CrashHooker
  BY <1>10 DEF CrashHooker, Idle
<1> QED  BY <1>1, <1>2, <1>3, <1>4, <1>5, <1>6, <1>7, <1>8, <1>9, <1>10, HookerFrame

\* What a command that takes the lock is about to write.
LEMMA LockTaken == Types /\ TakeRegistry =>
    /\ hooker'.do = hooker.do /\ hooker'.at = hooker.at /\ hooker'.agent = hooker.agent
    /\ hooker'.made = hooker.made /\ hooker'.holding /\ hooker'.seen = Edited
    /\ hooker.do # "idle" /\ hooker.at \in {"legacy", "record", "forget", "forget-legacy"} /\ hooker.agent \in Agent
    /\ UNCHANGED <<registry, cmd, excused, agentVars>>
BY Working DEF TakeRegistry, Wants, Types, HookerTypes, Idle

LEMMA PlainKeeps ==
    Types /\ EntriesInv /\ SetupNext =>
        PlainLegacy(registry)' /\ (Holding => PlainLegacy(hooker.seen))'
<1> SUFFICES ASSUME Types, EntriesInv, SetupNext
             PROVE  PlainLegacy(registry)' /\ (Holding => PlainLegacy(hooker.seen))'
  OBVIOUS
<1> USE DEF PlainLegacy
<1>1. PlainLegacy(registry) /\ (Holding => PlainLegacy(hooker.seen))
  BY DEF EntriesInv
<1>2. PlainLegacy(registry)'
  <2>1. CASE RecordSetup
    <3>1. registry' = Merged(registry, {NewEntry(p, "none") : p \in Shim \cup {"rc"}})
      BY <2>1 DEF RecordSetup
    <3> QED  BY <1>1, <3>1, MergedPlain, ShellEntries DEF PlainLegacy
  <2>2. CASE RecordHook
    <3>1. registry' = Merged(registry, {NewEntry("pre-commit", cmd.chain)})
      BY <2>2 DEF RecordHook
    <3> QED  BY <1>1, <3>1, MergedPlain, NewIs DEF PlainLegacy
  <2>3. CASE SaveRegistry
    BY <1>1, <2>3 DEF SaveRegistry, Holding
  <2>4. CASE OffForget \/ ForgetEntries \/ RemoveDirectories \/ CorruptRegistry \/ UNCHANGED registry
    BY <1>1, <2>4 DEF OffForget, ForgetEntries, RemoveDirectories, CorruptRegistry
  <2> QED  BY <2>1, <2>2, <2>3, <2>4, RegistryFrame
<1>3. ASSUME TakeRegistry PROVE PlainLegacy(hooker.seen)'
  BY <1>1, <1>3, LockTaken, EditedIs
<1>4. ASSUME Holding' PROVE PlainLegacy(hooker.seen)'
  BY <1>1, <1>3, <1>4, Holder
<1> QED  BY <1>2, <1>4

LEMMA SeenIsKept == Types /\ EntriesInv /\ SetupNext => SeenKeeps'
<1> SUFFICES ASSUME Types, EntriesInv, SetupNext, Holding', regLock' = "agents"
             PROVE  /\ \A p \in Path \ {hooker'.agent} :
                         EntriesAt(registry', p) \subseteq EntriesAt(hooker'.seen, p)
                    /\ \A b \in Agent \ {hooker'.agent} :
                         b \notin excused' => EntriesAt(hooker'.seen, b) = EntriesAt(registry', b)
  BY DEF SeenKeeps, EntriesAt
<1>1. CASE TakeRegistry
  <2>1. /\ hooker'.seen = Edited /\ hooker'.agent = hooker.agent /\ UNCHANGED registry
        /\ hooker.at \in {"legacy", "record", "forget", "forget-legacy"} /\ hooker.agent \in Agent
    BY <1>1, LockTaken
  <2>2. ASSUME NEW p, p # hooker.agent PROVE EntriesAt(Edited, p) = EntriesAt(registry, p)
    BY <2>1, <2>2, EditedIs
  <2>3. Agent \subseteq Path
    BY DEF Path
  <2> QED  BY <2>1, <2>2, <2>3
<1>2. CASE UNCHANGED hooker /\ Holding /\ ~TakeRegistry
  <2>1. regLock = "agents" /\ ~SaveRegistry
    BY <1>2, LockFrame, Working
       DEF RecordSetup, RecordHook, OffForget, StartOff, SaveRegistry, ForgetEntries, RemoveDirectories,
           CrashCmd, CrashHooker, Holding, Idle, Types, HookerTypes
  <2>2. UNCHANGED registry \/ CorruptRegistry
    BY <1>2, <2>1, RegistryFrame
       DEF RecordSetup, RecordHook, OffForget, CmdMayLock, ForgetEntries, RemoveDirectories
  <2>3. SeenKeeps
    BY DEF EntriesInv
  <2>4. CASE UNCHANGED registry
    <3>1. ASSUME NEW b \in Agent, b \notin excused', b # hooker.agent PROVE b \notin excused
      BY <2>1, <3>1, ExcusedFrame, RegistryAssumption DEF RegistryAssumption
    <3> QED  BY <1>2, <2>1, <2>3, <2>4, <3>1 DEF SeenKeeps
  <2>5. CASE CorruptRegistry
    BY <1>2, <2>5 DEF CorruptRegistry, Excuse, EntriesAt, Path
  <2> QED  BY <2>2, <2>4, <2>5
<1> QED  BY <1>1, <1>2, Holder

\* No other than an agents command adds to an agent's entries.
LEMMA AgentEntries ==
    ASSUME Types, EntriesInv, SetupNext, NEW b \in Agent
    PROVE  \/ SaveRegistry
           \/ EntriesAt(registry, b)' = EntriesAt(registry, b)
           \/ registry' = {} /\ CorruptRegistry /\ b \in excused'
           \/ registry' = {} /\ (ForgetEntries \/ RemoveDirectories)
<1>1. CASE RecordSetup
  <2>1. registry' = Merged(registry, {NewEntry(p, "none") : p \in Shim \cup {"rc"}}) /\ b \notin Shim \cup {"rc"}
    BY <1>1, RegistryAssumption DEF RecordSetup, RegistryAssumption
  <2>2. \A n \in {NewEntry(p, "none") : p \in Shim \cup {"rc"}} : n.path # b
    BY <2>1, NewIs
  <2>3. EntriesAt(Merged(registry, {NewEntry(p, "none") : p \in Shim \cup {"rc"}}), b) = EntriesAt(registry, b)
    BY <2>2, MergedAt
  <2> QED  BY <2>1, <2>3 DEF EntriesAt
<1>2. CASE RecordHook
  <2>1. registry' = Merged(registry, {NewEntry("pre-commit", cmd.chain)}) /\ b # "pre-commit"
    BY <1>2, RegistryAssumption DEF RecordHook, RegistryAssumption
  <2>2. \A n \in {NewEntry("pre-commit", cmd.chain)} : n.path # b
    BY <2>1, NewIs
  <2>3. EntriesAt(Merged(registry, {NewEntry("pre-commit", cmd.chain)}), b) = EntriesAt(registry, b)
    BY <2>2, MergedAt
  <2> QED  BY <2>1, <2>3 DEF EntriesAt
<1>3. CASE OffForget
  <2>1. registry' = registry \ cmd.forget /\ b # "pre-commit" /\ \A e \in cmd.forget : e.path = "pre-commit"
    BY <1>3, RegistryAssumption DEF OffForget, RegistryAssumption, EntriesInv, OffForgetsHook
  <2> QED  BY <2>1 DEF EntriesAt
<1>4. CASE CorruptRegistry
  BY <1>4 DEF CorruptRegistry, Excuse, Path
<1>5. CASE ForgetEntries
  BY <1>5 DEF ForgetEntries, EntriesAt
<1>6. CASE RemoveDirectories
  BY <1>6 DEF RemoveDirectories
<1>7. CASE UNCHANGED registry
  BY <1>7 DEF EntriesAt
<1> QED  BY <1>1, <1>2, <1>3, <1>4, <1>5, <1>6, <1>7, RegistryFrame

LEMMA ForgetsKeep == Types /\ EntriesInv /\ SetupNext => OffForgetsHook'
<1> SUFFICES ASSUME Types, EntriesInv, SetupNext PROVE OffForgetsHook'
  OBVIOUS
<1> USE DEF OffForgetsHook
<1>1. OffForgetsHook
  BY DEF EntriesInv
<1>2. CASE cmd'.do # "off"
  BY <1>2
<1>3. CASE StartOff
  BY <1>3 DEF StartOff, Mine, HookEntries, EntryOf
<1>4. CASE OffRemove
  BY <1>1, <1>4, CmdKinds DEF OffRemove, RemoveOwnHook
<1>5. CASE OffRestore
  BY <1>1, <1>5, CmdKinds DEF OffRestore, PutBack, PutBackFails
<1>6. CASE UNCHANGED cmd
  BY <1>1, <1>6
<1>7. StartSetup \/ RecordSetup \/ RecordSetupBusy => cmd'.do # "off"
  BY DEF StartSetup, RecordSetup, RecordSetupBusy, Idle
<1>8. WriteShims \/ WriteRc => cmd'.do # "off"
  BY CmdKinds DEF WriteShims, WriteRc, SetupAt
<1>9. RefreshSetup \/ EditShim \/ EditRc \/ ChangePackage => UNCHANGED cmd
  BY DEF RefreshSetup, EditShim, EditRc, ChangePackage
<1>10. StartGuard \/ RecordHook \/ RecordHookBusy \/ OffForget => cmd'.do # "off"
  BY DEF StartGuard, RecordHook, RecordHookBusy, OffForget, Idle
<1>11. TakeForeign \/ TakeManaged \/ TakeFresh \/ WriteHook => cmd'.do # "off"
  BY CmdKinds DEF TakeForeign, TakeManaged, TakeFresh, WriteHook, GuardAt
<1>12. EditHook \/ LinkHook => UNCHANGED cmd
  BY DEF EditHook, LinkHook
<1>13. StartUninstall \/ ForgetEntries \/ RemoveDirectories => cmd'.do # "off"
  BY DEF StartUninstall, ForgetEntries, RemoveDirectories, Idle
<1>14. ReverseEntry \/ ReverseRestore \/ Sweep => cmd'.do # "off"
  BY UninstallGoesOn
<1>15. CommonStep => UNCHANGED cmd \/ cmd'.do # "off"
  BY DEF CommonStep, CrashCmd, CrashHooker, CorruptRegistry, Idle
<1> QED  BY <1>2, <1>3, <1>4, <1>5, <1>6, <1>7, <1>8, <1>9, <1>10, <1>11, <1>12, <1>13, <1>14, <1>15, AgentStepsKeepCmd
         DEF SetupNext, ShellStep, HookStep, UninstallStep

LEMMA MadeAt ==
    ASSUME NEW S, NEW T, NEW a, EntriesAt(T, a) \subseteq EntriesAt(S, a)
    PROVE  (MadeByDg(T, a) => MadeByDg(S, a)) /\ (NoLegacy(S, a) => NoLegacy(T, a))
BY DEF EntriesAt, MadeByDg, NoLegacy

\* But for the agents command's own writing, an agent's entries become no more.
LEMMA AgentEntriesShrink ==
    ASSUME Types, EntriesInv, SetupNext, ~SaveRegistry, NEW b \in Agent
    PROVE  EntriesAt(registry', b) \subseteq EntriesAt(registry, b)
BY AgentEntries DEF EntriesAt

LEMMA SeenOwnKeeps == Types /\ EntriesInv /\ SetupNext => SeenOwn'
<1> DEFINE Own(a, seen, at, made, reg, exc) ==
        /\ at = "record" =>
             \E e \in seen :
                 /\ e.path = a
                 /\ made => e.original = "dg-created"
                 /\ a \notin Owned => \A f \in seen : f.path = a => f = e
        /\ at = "legacy" =>
             /\ NoLegacy(seen, a)
             /\ (a \notin exc /\ MadeByDg(reg, a)) => MadeByDg(seen, a)
<1> SUFFICES ASSUME Types, EntriesInv, SetupNext, Holding', hooker'.do = "on"
             PROVE  Own(hooker'.agent, hooker'.seen, hooker'.at, hooker'.made, registry', excused')
  BY DEF SeenOwn, NoLegacy, MadeByDg
<1> DEFINE a == hooker.agent
<1>1. SeenOwn /\ LegacyGone /\ registry \subseteq Entry
  BY DEF EntriesInv, Types, RegTypes, Sound
<1>2. CASE TakeRegistry
  <2>1. /\ hooker'.seen = Edited /\ hooker'.agent = a /\ hooker'.at = hooker.at /\ hooker'.made = hooker.made
        /\ hooker.do = "on" /\ UNCHANGED <<registry, excused>>
        /\ hooker.at \in {"legacy", "record", "forget", "forget-legacy"} /\ a \in Agent
    BY <1>2, LockTaken
  <2>2. CASE hooker.at = "record"
    <3> DEFINE new == NewEntry(a, IF hooker.made THEN "dg-created" ELSE "none")
    <3>1. new.path = a /\ new.legacy = FALSE /\ (hooker.made => new.original = "dg-created")
      BY DEF NewEntry
    <3>2. Edited = Merged(registry, {new})
      BY <2>2, EditedIs
    <3> HIDE DEF new
    <3>3. new \in Edited
      BY <3>2 DEF Merged
    <3>4. ASSUME a \notin Owned, NEW f \in Edited, f.path = a PROVE f = new
      <4>1. NoLegacy(registry, a)
        BY <1>1, <2>1, <2>2, <3>4 DEF LegacyGone
      <4> QED  BY <1>1, <3>1, <3>2, <3>4, <4>1 DEF Merged, NoLegacy, Entry
    <3> QED  BY <2>1, <2>2, <3>1, <3>3, <3>4
  <2>3. CASE hooker.at = "legacy"
    <3>1. Edited = {e \in registry : e.path # a \/ ~e.legacy}
      BY <2>3, EditedIs
    <3>2. NoLegacy(Edited, a) /\ (MadeByDg(registry, a) => MadeByDg(Edited, a))
      BY <3>1 DEF NoLegacy, MadeByDg
    <3> QED  BY <2>1, <2>3, <3>2
  <2> QED  BY <2>1, <2>2, <2>3
<1>3. CASE UNCHANGED hooker /\ Holding
  <2>1. a \in Agent /\ ~SaveRegistry
    BY <1>3, Saved, Working DEF Holding
  <2>2. a \notin excused' => a \notin excused
    BY <2>1, ExcusedFrame, RegistryAssumption DEF RegistryAssumption
  <2>3. MadeByDg(registry', a) => MadeByDg(registry, a)
    BY <2>1, AgentEntriesShrink, MadeAt
  <2>4. Own(a, hooker.seen, hooker.at, hooker.made, registry, excused)
    BY <1>1, <1>3 DEF SeenOwn
  <2> QED  BY <1>3, <2>2, <2>3, <2>4
<1> QED  BY <1>2, <1>3, Holder

LEMMA LegacyStaysGone == Types /\ EntriesInv /\ SetupNext => LegacyGone'
<1> SUFFICES ASSUME Types, EntriesInv, SetupNext, hooker'.do = "on", hooker'.agent \notin Owned,
                    hooker'.at \in {"made", "record"}
             PROVE  NoLegacy(registry', hooker'.agent)
  BY DEF LegacyGone, NoLegacy
<1>1. SeenOwn /\ LegacyGone
  BY DEF EntriesInv
<1>2. CASE UNCHANGED hooker
  <2>1. ~SaveRegistry /\ hooker.agent \in Agent
    BY <1>2, Saved, Working
  <2>2. EntriesAt(registry', hooker.agent) \subseteq EntriesAt(registry, hooker.agent)
    BY <2>1, AgentEntriesShrink
  <2>3. NoLegacy(registry, hooker.agent)
    BY <1>1, <1>2 DEF LegacyGone
  <2> QED  BY <1>2, <2>2, <2>3, MadeAt
<1>3. CASE TakeRegistry
  BY <1>1, <1>3, LockTaken DEF LegacyGone
<1>4. CASE AskMade
  <2>1. UNCHANGED registry /\ hooker.do = "on" /\ hooker.at = "made" /\ hooker'.agent = hooker.agent
    BY <1>4 DEF AskMade, At, Keep, Types, HookerTypes, Idle
  <2> QED  BY <1>1, <2>1 DEF LegacyGone
<1>5. CASE SaveRegistry
  <2>1. /\ registry' = hooker.seen /\ hooker.do = "on" /\ hooker'.agent = hooker.agent /\ Holding
        /\ hooker.at = "legacy"
    BY <1>5, Saved
  <2> QED  BY <1>1, <2>1 DEF SeenOwn
<1>6. CASE WriteFile
  <2>1. hooker'.agent = hooker.agent /\ (hooker'.at = "made" => hooker.agent \in Owned) /\ hooker'.at # "record"
    BY <1>6 DEF WriteFile, At, Types, HookerTypes, Idle
  <2> QED  BY <2>1
<1>7. CASE StartAgentOn \/ StartAgentOff
  BY <1>7 DEF StartAgentOn, StartAgentOff
<1>8. CASE RefuseFile \/ RegistryBusy \/ Route \/ Unroute \/ CrashHooker
  BY <1>8 DEF RefuseFile, RegistryBusy, Route, Unroute, CrashHooker, Idle
<1>9. CASE TakeOut \/ AskWhoMade \/ TakeOutAsked
  BY <1>9 DEF TakeOut, AskWhoMade, TakeOutAsked, At, Goto, Types, HookerTypes, Idle
<1> QED  BY <1>2, <1>3, <1>4, <1>5, <1>6, <1>7, <1>8, <1>9, HookerFrame

LEMMA StepsStayApart == Types /\ EntriesInv /\ SetupNext => StepsApart'
<1> SUFFICES ASSUME Types, EntriesInv, SetupNext PROVE StepsApart'
  OBVIOUS
<1> USE DEF StepsApart
<1>1. StepsApart
  BY DEF EntriesInv
<1>2. CASE UNCHANGED hooker
  BY <1>1, <1>2
<1>3. CASE TakeRegistry
  BY <1>1, <1>3, LockTaken
<1>4. CASE AskMade
  BY <1>1, <1>4 DEF AskMade, At, Types, HookerTypes, Idle
<1>5. CASE SaveRegistry
  BY <1>1, <1>5, Saved DEF Holding
<1>6. CASE WriteFile
  BY <1>6 DEF WriteFile, At, Types, HookerTypes, Idle
<1>7. CASE StartAgentOn \/ StartAgentOff
  BY <1>7 DEF StartAgentOn, StartAgentOff
<1>8. CASE RefuseFile \/ RegistryBusy \/ Route \/ Unroute \/ CrashHooker
  BY <1>8 DEF RefuseFile, RegistryBusy, Route, Unroute, CrashHooker, Idle
<1>9. CASE TakeOut \/ AskWhoMade \/ TakeOutAsked
  BY <1>9 DEF TakeOut, AskWhoMade, TakeOutAsked, At, Goto, Types, HookerTypes, Idle
<1> QED  BY <1>2, <1>3, <1>4, <1>5, <1>6, <1>7, <1>8, <1>9, HookerFrame

-----------------------------------------------------------------------------
(* The entries.                                                            *)

LEMMA EntriesInvKeeps == TraceInv /\ SetupNext => EntriesInv'
<1> SUFFICES ASSUME TraceInv, SetupNext PROVE EntriesInv'
  OBVIOUS
<1>1. Types /\ EntriesInv
  BY DEF TraceInv, HookInv
<1>2. PlainLegacy(registry)' /\ (Holding => PlainLegacy(hooker.seen))'
  BY <1>1, PlainKeeps
<1>3. SeenKeeps'
  BY <1>1, SeenIsKept
<1>4. SeenOwn'
  BY <1>1, SeenOwnKeeps
<1>5. LegacyGone'
  BY <1>1, LegacyStaysGone
<1>6. OffForgetsHook'
  BY <1>1, ForgetsKeep
<1>7. StepsApart'
  BY <1>1, StepsStayApart
<1> QED  BY <1>2, <1>3, <1>4, <1>5, <1>6, <1>7 DEF EntriesInv


\* A save keeps what is recorded elsewhere, or excuses it.
LEMMA OthersSaved ==
    ASSUME Types, EntriesInv, SetupNext, SaveRegistry, NEW p \in Path, p \notin excused', p # hooker.agent
    PROVE  /\ EntriesAt(registry, p) \subseteq EntriesAt(registry', p)
           /\ p \in Agent => EntriesAt(registry', p) = EntriesAt(registry, p)
<1>1. registry' = hooker.seen /\ Holding
  BY Saved
<1>2. CASE regLock = "agents"
  <2>1. p \in Agent => p \notin excused
    BY ExcusedFrame, RegistryAssumption, Saved DEF RegistryAssumption, RecordSetup, RefreshSetup, RecordHook
  <2> QED  BY <1>1, <1>2, <2>1 DEF EntriesInv, SeenKeeps
<1>3. CASE regLock # "agents"
  <2>1. p \notin Changed(hooker.seen)
    BY <1>3 DEF SaveRegistry
  <2> QED  BY <1>1, <2>1 DEF Changed, EntriesAt
<1> QED  BY <1>2, <1>3

LEMMA MergedRecorded ==
    ASSUME NEW S, NEW N, NEW p, Recorded(S, p) PROVE Recorded(Merged(S, N), p)
BY DEF Recorded, Merged

\* Once recorded, a path stays so until an uninstall or `off` is through with it.
LEMMA StaysRecorded ==
    ASSUME Types, EntriesInv, SetupNext, NEW p \in Path \ Agent, p \notin excused', Recorded(registry, p)
    PROVE  \/ Recorded(registry', p)
           \/ ForgetEntries \/ RemoveDirectories
           \/ OffForget /\ p = "pre-commit"
<1>1. CASE RecordSetup \/ RecordHook
  BY <1>1, MergedRecorded DEF RecordSetup, RecordHook
<1>2. CASE OffForget
  BY <1>2 DEF OffForget, EntriesInv, OffForgetsHook, Recorded
<1>3. CASE SaveRegistry
  <2>1. EntriesAt(registry, p) \subseteq EntriesAt(registry', p)
    BY <1>3, OthersSaved, Saved
  <2> QED  BY <2>1 DEF EntriesAt, Recorded
<1>4. CASE CorruptRegistry
  BY <1>4 DEF CorruptRegistry, Excuse
<1>5. CASE UNCHANGED registry
  BY <1>5
<1> QED  BY <1>1, <1>2, <1>3, <1>4, <1>5, RegistryFrame

\* Without their entries undone, an uninstall leaves the shell's files as they are.
LEMMA ShellStepsKeepShell == TraceInv /\ ShellStep => ShellInv'
<1> SUFFICES ASSUME TraceInv, ShellStep PROVE ShellInv'
  OBVIOUS
<1>1. Types /\ EntriesInv /\ ShellInv /\ SetupNext
  BY DEF TraceInv, HookInv, SetupNext
<1>2. ShimsWritten /\ RcInv /\ \A s \in Shim : ShimInv(s)
  BY <1>1 DEF ShellInv
<1>3. \A s \in Shim : s \in Path \ Agent /\ s # "rc" /\ "rc" \in Path \ Agent
  BY RegistryAssumption DEF Path, RegistryAssumption
<1> USE DEF ShellInv, ShimsWritten, ShimInv, RcInv, SetupAt
<1>4. CASE StartSetup
  BY <1>2, <1>4 DEF StartSetup, shellVars, HasSentinel
<1>5. CASE WriteShims
  <2>1. cmd'.do = "setup" /\ cmd'.at = "rc"
    BY <1>1, <1>5, CmdKinds DEF WriteShims
  <2> QED  BY <1>2, <1>5, <2>1 DEF WriteShims, Keep, HasSentinel
<1>6. CASE WriteRc
  <2>1. cmd'.do = "setup" /\ cmd'.at = "record" /\ cmd.at = "rc"
    BY <1>1, <1>6, CmdKinds DEF WriteRc
  <2> QED  BY <1>2, <1>6, <2>1 DEF WriteRc, Keep, HasSentinel, WithRcBlock, StripRcBlock
<1>7. CASE RecordSetup
  <2>1. cmd' = Idle /\ UNCHANGED shellVars /\ (\A s \in Shim : shims[s] = "dg")
        /\ ("rc" \notin excused' => "headless" \notin rc)
    BY <1>2, <1>7 DEF RecordSetup
  <2>2. \A p \in Shim \cup {"rc"} : Recorded(registry', p)
    <3> SUFFICES ASSUME NEW p \in Shim \cup {"rc"} PROVE Recorded(registry', p)
      OBVIOUS
    <3>1. NewEntry(p, "none") \in registry'
      BY <1>7 DEF RecordSetup, Merged
    <3> QED  BY <3>1, NewIs DEF Recorded
  <2> QED  BY <2>1, <2>2 DEF Idle, shellVars, HasSentinel
<1>8. CASE RecordSetupBusy
  <2>1. cmd' = Idle /\ UNCHANGED <<registry, shims, rc>> /\ excused \subseteq excused'
        /\ \A p \in Shim \cup {"rc"} : p \notin excused' => Recorded(registry, p)
    BY <1>8 DEF RecordSetupBusy, Excuse, shellVars, EntryOf, Recorded
  <2> QED  BY <1>2, <2>1 DEF Idle, HasSentinel
<1>9. CASE RefreshSetup
  <2>1. cmd.do = "idle" /\ UNCHANGED <<registry, cmd, rc>> /\ ("rc" \in excused => "rc" \in excused')
    BY <1>3, <1>9 DEF RefreshSetup
  <2>2. PICK sentinel \in SUBSET {s \in Shim : shims[s] = "drifted"} :
          /\ shims' = [s \in Shim |-> IF s \in {t \in Shim : shims[t] = "dg"} \cup sentinel THEN "dg" ELSE shims[s]]
          /\ excused' = excused \ {s \in sentinel : EntryOf(s) # {}}
    BY <1>9 DEF RefreshSetup
  <2>3. ASSUME NEW s \in Shim, s \notin excused', shims'[s] # "absent"
        PROVE  shims'[s] = "dg" /\ Recorded(registry, s)
    <3>1. CASE s \in excused
      BY <2>2, <2>3, <3>1 DEF EntryOf, Recorded
    <3>2. CASE s \notin excused
      BY <1>2, <2>1, <2>2, <2>3, <3>2
    <3> QED  BY <3>1, <3>2
  <2> QED  BY <1>2, <2>1, <2>3 DEF HasSentinel
<1>10. CASE EditShim
  BY <1>2, <1>10 DEF EditShim, Excuse, HasSentinel, Types, ShellTypes
<1>11. CASE EditRc
  BY <1>2, <1>11 DEF EditRc, Excuse, HasSentinel
<1>12. CASE ChangePackage
  BY <1>2, <1>12 DEF ChangePackage, HasSentinel
<1> QED  BY <1>4, <1>5, <1>6, <1>7, <1>8, <1>9, <1>10, <1>11, <1>12 DEF ShellStep

\* Steps that leave the shell's files alone, and what there is to undo of them.
LEMMA ShellStays ==
    ASSUME TraceInv, SetupNext, UNCHANGED <<shims, rc>>, ~ForgetEntries, ~RemoveDirectories,
           \A p \in Shim \cup {"rc"} : p \in excused => p \in excused',
           \/ UNCHANGED cmd
           \/ cmd.do # "setup" /\ cmd'.do \notin {"setup", "uninstall"}
           \/ /\ cmd.do = "idle" /\ cmd'.do = "uninstall" /\ cmd'.at = "entry"
              /\ cmd'.todo = registry
           \/ /\ cmd.do = "uninstall" /\ cmd'.do = "uninstall" /\ cmd'.at # "forget"
              /\ \A p \in Shim \cup {"rc"} : Recorded(cmd.todo, p) => Recorded(cmd'.todo, p)
    PROVE  ShellInv'
<1>1. Types /\ EntriesInv /\ ShellInv
  BY DEF TraceInv, HookInv
<1>2. ASSUME NEW p \in Shim \cup {"rc"}, p \notin excused', Recorded(registry, p)
      PROVE  Recorded(registry', p)
  <2>1. p \in Path \ Agent /\ p # "pre-commit"
    BY RegistryAssumption DEF RegistryAssumption, Path
  <2> QED  BY <1>1, <1>2, <2>1, StaysRecorded
<1>3. ASSUME NEW s \in Shim PROVE ShimInv(s)'
  <2> SUFFICES ASSUME s \notin excused', shims[s] # "absent"
               PROVE  /\ shims[s] = "dg"
                      /\ Recorded(registry', s) \/ SetupAt("rc")' \/ SetupAt("record")'
                      /\ cmd'.do = "uninstall" => cmd'.at # "forget" /\ Recorded(cmd'.todo, s)
    BY DEF ShimInv, Recorded
  <2>1. /\ shims[s] = "dg"
        /\ Recorded(registry, s) \/ SetupAt("rc") \/ SetupAt("record")
        /\ cmd.do = "uninstall" => cmd.at # "forget" /\ Recorded(cmd.todo, s)
    BY <1>1 DEF ShellInv, ShimInv
  <2>2. Recorded(registry, s) => Recorded(registry', s)
    BY <1>2
  <2> QED  BY <2>1, <2>2 DEF SetupAt
<1>4. RcInv'
  <2>1. RcInv /\ ("rc" \notin excused' => "rc" \notin excused)
    BY <1>1 DEF ShellInv
  <2>2. "rc" \notin excused' /\ Recorded(registry, "rc") => Recorded(registry', "rc")
    BY <1>2
  <2>3. HasSentinel(rc)' <=> HasSentinel(rc)
    BY DEF HasSentinel
  <2> QED  BY <2>1, <2>2, <2>3 DEF SetupAt, RcInv
<1>5. ShimsWritten'
  BY <1>1 DEF ShellInv, ShimsWritten, SetupAt
<1> QED  BY <1>3, <1>4, <1>5 DEF ShellInv

LEMMA HookStepsAreOther ==
    HookStep /\ Types =>
        /\ UNCHANGED cmd \/ (cmd.do \notin {"setup", "uninstall"} /\ cmd'.do \notin {"setup", "uninstall"})
        /\ \A p \in Path \ {"pre-commit"} : p \in excused' <=> p \in excused
<1> SUFFICES ASSUME HookStep, Types
             PROVE  /\ UNCHANGED cmd \/ (cmd.do \notin {"setup", "uninstall"} /\ cmd'.do \notin {"setup", "uninstall"})
                    /\ \A p \in Path \ {"pre-commit"} : p \in excused' <=> p \in excused
  OBVIOUS
<1>1. CASE StartGuard \/ StartOff
  BY <1>1 DEF StartGuard, StartOff
<1>2. CASE TakeForeign \/ TakeManaged \/ TakeFresh \/ WriteHook
  BY <1>2, CmdKinds DEF TakeForeign, TakeManaged, TakeFresh, WriteHook, GuardAt, Keep, Excuse
<1>3. CASE RecordHook \/ RecordHookBusy
  BY <1>3 DEF RecordHook, RecordHookBusy, GuardAt, Idle, Excuse
<1>4. CASE OffRemove
  BY <1>4, CmdKinds DEF OffRemove, RemoveOwnHook, Keep
<1>5. CASE OffRestore
  BY <1>5, CmdKinds DEF OffRestore, PutBack, PutBackFails, Keep, Excuse
<1>6. CASE OffForget
  BY <1>6 DEF OffForget, Idle
<1>7. CASE EditHook \/ LinkHook
  BY <1>7 DEF EditHook, LinkHook, Excuse
<1> QED  BY <1>1, <1>2, <1>3, <1>4, <1>5, <1>6, <1>7 DEF HookStep

\* An agents command gives no account of other paths.
LEMMA AgentStepsExcuse ==
    Types /\ AgentStep => \A p \in Path \ Agent : p \in excused => p \in excused'
<1>1. StartAgentOn \/ RefuseFile \/ WriteFile \/ AskMade \/ TakeRegistry \/ RegistryBusy \/ Route => excused \subseteq excused'
  BY DEF StartAgentOn, RefuseFile, WriteFile, AskMade, TakeRegistry, RegistryBusy, Route, Excuse, Keep
<1>2. StartAgentOff \/ TakeOut \/ AskWhoMade \/ TakeOutAsked \/ Unroute \/ EditSettings \/ ServiceChanges => excused \subseteq excused'
  BY DEF StartAgentOff, TakeOut, AskWhoMade, TakeOutAsked, Unroute, EditSettings, ServiceChanges, Excuse, Keep
<1>3. Types /\ SaveRegistry => hooker.agent \in Agent /\ excused \ {hooker.agent} \subseteq excused'
  BY Saved DEF SaveRegistry
<1> QED  BY <1>1, <1>2, <1>3 DEF AgentStep

LEMMA ShellInvKeeps == TraceInv /\ SetupNext => ShellInv'
<1> SUFFICES ASSUME TraceInv, SetupNext PROVE ShellInv'
  OBVIOUS
<1>1. Types /\ EntriesInv /\ ShellInv
  BY DEF TraceInv, HookInv
<1>2. Shim \cup {"rc"} \subseteq Path \ {"pre-commit"} /\ (Shim \cup {"rc"}) \cap Agent = {} /\ "rc" \notin Shim
  BY RegistryAssumption DEF Path, RegistryAssumption
<1>3. CASE ShellStep
  BY <1>3, ShellStepsKeepShell
<1>4. CASE HookStep
  <2>1. UNCHANGED <<shims, rc>> /\ ~ForgetEntries /\ ~RemoveDirectories
    BY <1>1, <1>4, HookStepsAreOther DEF HookStep, shellVars, ForgetEntries, RemoveDirectories, UninstallAt, Idle
  <2>2. \A p \in Shim \cup {"rc"} : p \in excused => p \in excused'
    BY <1>1, <1>2, <1>4, HookStepsAreOther
  <2> QED  BY <1>1, <1>4, <2>1, <2>2, HookStepsAreOther, ShellStays
<1>5. CASE AgentStep
  <2>1. UNCHANGED <<shims, rc, cmd>>
    BY <1>5, AgentStepsKeepCmd DEF AgentStep, shellVars
  <2>2. ~ForgetEntries /\ ~RemoveDirectories
    BY <2>1 DEF ForgetEntries, RemoveDirectories, UninstallAt, Idle
  <2>3. \A p \in Shim \cup {"rc"} : p \in excused => p \in excused'
    BY <1>1, <1>2, <1>5, AgentStepsExcuse
  <2> QED  BY <2>1, <2>2, <2>3, ShellStays
<1>6. CASE StartUninstall
  <2>1. UNCHANGED <<shims, rc>> /\ excused \subseteq excused' /\ cmd.do = "idle" /\ cmd'.do = "uninstall"
        /\ cmd'.at = "entry" /\ cmd'.todo = registry
    BY <1>6 DEF StartUninstall, shellVars
  <2> QED  BY <2>1, ShellStays DEF ForgetEntries, RemoveDirectories, UninstallAt
<1>7. CASE ReverseEntry
  <2>1. /\ cmd.do = "uninstall" /\ cmd.at = "entry" /\ cmd'.do = "uninstall" /\ UNCHANGED registry
        /\ excused \subseteq excused'
    BY <1>1, <1>7, UninstallGoesOn
  <2>2. PICK e \in cmd.todo :
          /\ cmd'.todo = cmd.todo \ {e}
          /\ \/ e.path \in Shim /\ ReverseShim(e.path) /\ cmd'.at = "entry"
             \/ e.path = "rc" /\ ReverseRc /\ cmd'.at = "entry"
             \/ e.path = "pre-commit" /\ UNCHANGED shellVars /\ cmd'.at \in {"entry", "restore"}
             \/ e.path \in Agent /\ UNCHANGED shellVars /\ cmd'.at = "entry"
             \/ e.path = "rc" /\ "rc" \in excused' /\ UNCHANGED shellVars /\ cmd'.at = "entry"
    <3>1. HookState = "foreign" \/ HookState # "foreign"
      OBVIOUS
    <3> QED  BY <1>1, <1>7, UninstallGoesOn
  <2>3. ASSUME NEW p, p # e.path, Recorded(cmd.todo, p) PROVE Recorded(cmd'.todo, p)
    BY <2>2, <2>3 DEF Recorded
  <2>4. CASE e.path = "pre-commit" \/ e.path \in Agent
    <3>1. UNCHANGED <<shims, rc>> /\ cmd'.at # "forget"
      BY <1>2, <2>2, <2>4, RegistryAssumption DEF shellVars, RegistryAssumption
    <3>2. \A p \in Shim \cup {"rc"} : Recorded(cmd.todo, p) => Recorded(cmd'.todo, p)
      BY <1>2, <2>3, <2>4
    <3> QED  BY <2>1, <3>1, <3>2, ShellStays DEF ForgetEntries, RemoveDirectories, UninstallAt
  <2>5. CASE e.path \in Shim /\ ReverseShim(e.path) /\ cmd'.at = "entry"
    <3>1. /\ shims' = [shims EXCEPT ![e.path] = IF @ = "dg" THEN "absent" ELSE @]
          /\ UNCHANGED rc /\ e.path # "rc"
      BY <1>2, <2>5 DEF ReverseShim
    <3>2. ASSUME NEW s \in Shim PROVE shims'[s] = "absent" \/ (shims'[s] = shims[s] /\ (shims[s] = "dg" => s # e.path))
      BY <1>1, <3>1 DEF Types, ShellTypes
    <3>3. \A s \in Shim : ShimInv(s) /\ (s # e.path /\ Recorded(cmd.todo, s) => Recorded(cmd'.todo, s))
      BY <1>1, <2>3 DEF ShellInv
    <3>4. RcInv /\ (Recorded(cmd.todo, "rc") => Recorded(cmd'.todo, "rc"))
      BY <1>1, <2>3, <3>1 DEF ShellInv
    <3>5. RcInv'
      BY <2>1, <2>5, <3>1, <3>4 DEF RcInv, SetupAt, HasSentinel
    <3>6. \A s \in Shim : ShimInv(s)'
      BY <2>1, <2>5, <3>2, <3>3 DEF ShimInv, SetupAt
    <3> QED  BY <2>1, <3>5, <3>6 DEF ShellInv, ShimsWritten, SetupAt
  <2>6. CASE e.path = "rc" /\ ReverseRc /\ cmd'.at = "entry"
    <3>1. rc' = (IF HasSentinel(rc) THEN StripRcBlock(rc) ELSE rc) /\ UNCHANGED shims
      BY <2>6 DEF ReverseRc
    <3>2. RcInv /\ \A s \in Shim : ShimInv(s) /\ (Recorded(cmd.todo, s) => Recorded(cmd'.todo, s))
      BY <1>1, <1>2, <2>3, <2>6 DEF ShellInv
    <3>3. RcInv'
      BY <2>1, <2>6, <3>1, <3>2 DEF RcInv, SetupAt, HasSentinel, StripRcBlock
    <3>4. \A s \in Shim : ShimInv(s)'
      BY <2>1, <2>6, <3>1, <3>2 DEF ShimInv, SetupAt
    <3> QED  BY <2>1, <3>3, <3>4 DEF ShellInv, ShimsWritten, SetupAt
  <2>7. CASE e.path = "rc" /\ "rc" \in excused' /\ UNCHANGED shellVars /\ cmd'.at = "entry"
    <3>1. \A s \in Shim : ShimInv(s) /\ (Recorded(cmd.todo, s) => Recorded(cmd'.todo, s))
      BY <1>1, <1>2, <2>3, <2>7 DEF ShellInv
    <3>2. \A s \in Shim : ShimInv(s)'
      BY <2>1, <2>7, <3>1 DEF ShimInv, SetupAt, shellVars
    <3> QED  BY <2>1, <2>7, <3>2 DEF ShellInv, RcInv, ShimsWritten, SetupAt
  <2> QED  BY <2>2, <2>4, <2>5, <2>6, <2>7
<1>8. CASE ReverseRestore
  <2>1. /\ cmd.do = "uninstall" /\ cmd'.do = "uninstall" /\ cmd.at = "restore" /\ cmd'.at = "entry"
        /\ cmd'.todo = cmd.todo /\ excused \subseteq excused' /\ UNCHANGED <<shims, rc>>
    BY <1>1, <1>8, UninstallGoesOn DEF shellVars
  <2> QED  BY <2>1, ShellStays DEF ForgetEntries, RemoveDirectories, UninstallAt
<1>9. CASE Sweep
  <2>1. /\ cmd.do = "uninstall" /\ cmd.at = "entry" /\ cmd.todo = {} /\ cmd'.do = "uninstall" /\ cmd'.at = "forget"
        /\ UNCHANGED <<registry, shims>> /\ excused \subseteq excused'
        /\ rc' = SweepLegacy(rc) \/ (UNCHANGED rc /\ "rc" \in excused')
    BY <1>1, <1>9, UninstallGoesOn
  <2>2. rc' = rc \ {"legacy"} \/ "rc" \in excused'
    BY <2>1 DEF SweepLegacy
  <2>3. \A p : ~Recorded(cmd.todo, p)
    BY <2>1 DEF Recorded
  <2>4. \A s \in Shim : ShimInv(s)'
    BY <1>1, <2>1, <2>2, <2>3 DEF ShellInv, ShimInv, SetupAt
  <2>5. RcInv'
    BY <1>1, <2>1, <2>2, <2>3 DEF ShellInv, RcInv, SetupAt, HasSentinel
  <2> QED  BY <2>1, <2>4, <2>5 DEF ShellInv, ShimsWritten, SetupAt
<1>10. CASE ForgetEntries \/ RemoveDirectories
  <2>1. /\ cmd.do = "uninstall" /\ cmd.at = "forget" /\ cmd' = Idle /\ UNCHANGED <<excused, rc>>
        /\ \A s \in Shim : shims'[s] = shims[s] \/ shims'[s] = "absent"
    BY <1>10 DEF ForgetEntries, RemoveDirectories, UninstallAt, shellVars
  <2>2. \A s \in Shim : ShimInv(s)'
    BY <1>1, <2>1 DEF ShellInv, ShimInv, SetupAt, Idle
  <2>3. RcInv'
    BY <1>1, <2>1 DEF ShellInv, RcInv, SetupAt, HasSentinel, Idle
  <2> QED  BY <2>1, <2>2, <2>3 DEF ShellInv, ShimsWritten, SetupAt, Idle
<1>11. CASE CrashCmd
  <2>1. /\ cmd.do # "idle" /\ cmd' = Idle /\ UNCHANGED <<registry, shims, rc>> /\ excused \subseteq excused'
        /\ cmd.do = "setup" => \A p \in Shim \cup {"rc"} : EntryOf(p) = {} => p \in excused'
    BY <1>11 DEF CrashCmd, shellVars
  <2>2. \A p \in Shim \cup {"rc"} : EntryOf(p) # {} => Recorded(registry, p)
    BY DEF EntryOf, Recorded
  <2>3. CASE cmd.do # "setup"
    <3>1. (~ForgetEntries /\ ~RemoveDirectories) \/ (cmd.do = "uninstall" /\ cmd.at = "forget")
      BY DEF ForgetEntries, RemoveDirectories, UninstallAt
    <3>2. CASE cmd.do = "uninstall" /\ cmd.at = "forget"
      <4>1. \A s \in Shim : ShimInv(s)'
        BY <1>1, <2>1, <3>2 DEF ShellInv, ShimInv, SetupAt, Idle
      <4>2. RcInv'
        BY <1>1, <2>1, <3>2 DEF ShellInv, RcInv, SetupAt, HasSentinel, Idle
      <4> QED  BY <2>1, <4>1, <4>2 DEF ShellInv, ShimsWritten, SetupAt, Idle
    <3>3. CASE ~ForgetEntries /\ ~RemoveDirectories
      BY <2>1, <2>3, <3>3, ShellStays DEF Idle
    <3> QED  BY <3>1, <3>2, <3>3
  <2>4. CASE cmd.do = "setup"
    <3>1. \A s \in Shim : ShimInv(s)'
      BY <1>1, <2>1, <2>2, <2>4 DEF ShellInv, ShimInv, SetupAt, Idle
    <3>2. RcInv'
      BY <1>1, <2>1, <2>2, <2>4 DEF ShellInv, RcInv, SetupAt, HasSentinel, Idle
    <3> QED  BY <2>1, <3>1, <3>2 DEF ShellInv, ShimsWritten, SetupAt, Idle
  <2> QED  BY <2>3, <2>4
<1>12. CASE CrashHooker
  <2>1. UNCHANGED <<shims, rc, cmd>> /\ excused \subseteq excused'
    BY <1>12 DEF CrashHooker, Excuse, shellVars
  <2>2. ~ForgetEntries /\ ~RemoveDirectories
    BY <2>1 DEF ForgetEntries, RemoveDirectories, UninstallAt, Idle
  <2> QED  BY <2>1, <2>2, ShellStays
<1>13. CASE CorruptRegistry /\ UNCHANGED shellVars
  <2>1. UNCHANGED <<shims, rc, cmd>> /\ Path \subseteq excused'
    BY <1>13 DEF CorruptRegistry, Excuse, shellVars
  <2> QED  BY <1>1, <1>2, <2>1 DEF ShellInv, ShimInv, RcInv, ShimsWritten, SetupAt
<1> QED  BY <1>3, <1>4, <1>5, <1>6, <1>7, <1>8, <1>9, <1>10, <1>11, <1>12, <1>13
         DEF SetupNext, UninstallStep, CommonStep

-----------------------------------------------------------------------------
(* dg's hook.                                                              *)

\* Only a guard-commit puts dg's hook there.
LEMMA NotManaged ==
    ASSUME HookTypes
    PROVE  /\ hookTarget' = NoHook => HookState' # "managed"
           /\ hookTarget' \in [by : UserHook] => HookState' # "managed"
           /\ UNCHANGED hookTarget => HookState' = HookState
           /\ \A original, next : (PutBack(original, next) /\ HookState' = "managed") => HookState = "managed"
<1>1. hookTarget' = NoHook => HookState' # "managed"
  BY DEF NoHook, HookState, None
<1>2. hookTarget' \in [by : UserHook] => HookState' # "managed"
  BY HookAssumption DEF HookState, HookAssumption
<1>3. UNCHANGED hookTarget => HookState' = HookState
  BY DEF HookState
<1>4. ASSUME NEW original, NEW next, PutBack(original, next), HookState' = "managed" PROVE HookState = "managed"
  <2>1. CASE UNCHANGED hookTarget
    BY <1>3, <1>4, <2>1
  <2>2. CASE original \in Backup /\ backups[original] # None /\ hookTarget' = [by |-> backups[original]]
    <3>1. hookTarget' \in [by : UserHook]
      BY <2>2 DEF HookTypes
    <3> QED  BY <1>2, <1>4, <3>1
  <2> QED  BY <1>4, <2>1, <2>2 DEF PutBack
<1> QED  BY <1>1, <1>2, <1>3, <1>4

\* Steps that leave dg's hook, its entry and what there is to undo of it.
LEMMA ManagedStays ==
    ASSUME TraceInv, HookState' = "managed" => HookState = "managed",
           "pre-commit" \in excused => "pre-commit" \in excused',
           "pre-commit" \notin excused' /\ Recorded(registry, "pre-commit") => Recorded(registry', "pre-commit"),
           \/ UNCHANGED cmd
           \/ ~GuardAt("record") /\ cmd'.do \notin {"off", "uninstall"}
           \/ /\ cmd.do = "uninstall" /\ cmd'.do = "uninstall" /\ cmd'.at = cmd.at
              /\ Recorded(cmd.todo, "pre-commit") => Recorded(cmd'.todo, "pre-commit")
    PROVE  ManagedInv'
<1> SUFFICES ASSUME "pre-commit" \notin excused', HookState' = "managed"
             PROVE  /\ Recorded(registry', "pre-commit") \/ GuardAt("record")'
                    /\ cmd'.do = "off" => cmd'.at = "remove"
                    /\ cmd'.do = "uninstall" => cmd'.at = "entry" /\ Recorded(cmd'.todo, "pre-commit")
  BY DEF ManagedInv, Recorded
<1>1. /\ Recorded(registry, "pre-commit") \/ GuardAt("record")
      /\ cmd.do = "off" => cmd.at = "remove"
      /\ cmd.do = "uninstall" => cmd.at = "entry" /\ Recorded(cmd.todo, "pre-commit")
  BY DEF TraceInv, ManagedInv
<1> QED  BY <1>1 DEF GuardAt

LEMMA HookKeepsManaged == TraceInv /\ HookStep => ManagedInv'
<1> SUFFICES ASSUME TraceInv, HookStep PROVE ManagedInv'
  OBVIOUS
<1>1. Types /\ HookTypes /\ EntriesInv /\ ManagedInv /\ SetupNext
  BY DEF TraceInv, HookInv, SetupNext, Types
<1>2. CASE HookState' # "managed" \/ "pre-commit" \in excused'
  BY <1>2 DEF ManagedInv
<1>3. CASE StartGuard \/ TakeManaged \/ TakeFresh
  <2>1. /\ UNCHANGED <<registry, hookTarget>> /\ excused \subseteq excused' /\ ~GuardAt("record")
        /\ cmd'.do = "guard"
    <3>1. CASE StartGuard
      BY <3>1 DEF StartGuard, GuardAt, hookVars
    <3>2. CASE TakeManaged \/ TakeFresh
      <4>1. /\ UNCHANGED <<registry, hookTarget>> /\ excused \subseteq excused' /\ cmd.do = "guard" /\ cmd.at = "take"
            /\ \E chain : cmd' = [cmd EXCEPT !.at = "write", !.chain = chain] \/ cmd' = [cmd EXCEPT !.at = "write"]
        BY <3>2 DEF TakeManaged, TakeFresh, GuardAt, Keep, Excuse, hookVars
      <4> QED  BY <1>1, <4>1, CmdKinds DEF GuardAt
    <3> QED  BY <1>3, <3>1, <3>2
  <2>2. HookState' = HookState
    BY <2>1 DEF HookState
  <2> QED  BY <2>1, <2>2, ManagedStays
<1>4. CASE TakeForeign
  BY <1>1, <1>2, <1>4, NotManaged DEF TakeForeign
<1>5. CASE WriteHook
  <2>1. cmd'.do = "guard" /\ cmd'.at = "record"
    BY <1>1, <1>5, CmdKinds DEF WriteHook, GuardAt
  <2> QED  BY <2>1 DEF ManagedInv, GuardAt
<1>6. CASE RecordHook
  <2>1. NewEntry("pre-commit", cmd.chain) \in registry' /\ cmd' = Idle
    BY <1>6 DEF RecordHook, Merged
  <2>2. Recorded(registry', "pre-commit")
    BY <2>1, NewIs DEF Recorded
  <2> QED  BY <2>1, <2>2 DEF ManagedInv, Idle, Recorded
<1>7. CASE RecordHookBusy
  <2>1. cmd' = Idle /\ UNCHANGED registry /\ ("pre-commit" \notin excused' => Recorded(registry, "pre-commit"))
    BY <1>7 DEF RecordHookBusy, Excuse, HookEntries, EntryOf, Recorded
  <2> QED  BY <2>1 DEF ManagedInv, Idle
<1>8. CASE StartOff
  <2>1. UNCHANGED <<registry, excused, hookTarget>> /\ cmd.do = "idle" /\ cmd'.do = "off" /\ cmd'.at = "remove"
    BY <1>8 DEF StartOff, hookVars
  <2>2. HookState' = HookState
    BY <2>1 DEF HookState
  <2> QED  BY <1>1, <2>1, <2>2 DEF ManagedInv, GuardAt
<1>9. CASE OffRemove
  <2>1. hookTarget' = IF HookState = "managed" THEN NoHook ELSE hookTarget
    BY <1>9 DEF OffRemove, RemoveOwnHook
  <2> QED  BY <1>1, <1>2, <2>1, NotManaged
<1>10. CASE OffRestore
  <2>1. "pre-commit" \notin excused => HookState # "managed"
    BY <1>1, <1>10 DEF OffRestore, ManagedInv
  <2>2. CASE PutBackFails(cmd.original, [cmd EXCEPT !.at = "forget"])
    BY <1>2, <2>2 DEF PutBackFails, Excuse
  <2>3. CASE PutBack(cmd.original, [cmd EXCEPT !.at = "forget"]) /\ Keep
    <3>1. HookState' = "managed" => HookState = "managed"
      BY <1>1, <2>3, NotManaged
    <3> QED  BY <1>2, <2>1, <2>3, <3>1 DEF Keep
  <2> QED  BY <1>10, <2>2, <2>3 DEF OffRestore
<1>11. CASE OffForget
  <2>1. cmd.do = "off" /\ cmd.at = "forget" /\ UNCHANGED <<excused, hookTarget>>
    BY <1>11 DEF OffForget, hookVars
  <2>2. HookState' = HookState
    BY <2>1 DEF HookState
  <2> QED  BY <1>1, <1>2, <2>1, <2>2 DEF ManagedInv
<1>12. CASE EditHook
  <2>1. hookTarget' = NoHook \/ hookTarget' \in [by : UserHook]
    BY <1>12 DEF EditHook
  <2> QED  BY <1>1, <1>2, <2>1, NotManaged
<1>13. CASE LinkHook
  BY <1>13, ManagedStays DEF LinkHook
<1> QED  BY <1>3, <1>4, <1>5, <1>6, <1>7, <1>8, <1>9, <1>10, <1>11, <1>12, <1>13 DEF HookStep

LEMMA ManagedInvKeeps == TraceInv /\ SetupNext => ManagedInv'
<1> SUFFICES ASSUME TraceInv, SetupNext PROVE ManagedInv'
  OBVIOUS
<1>1. Types /\ HookTypes /\ EntriesInv /\ ManagedInv
  BY DEF TraceInv, HookInv, Types
<1>2. "pre-commit" \in Path \ Agent /\ "pre-commit" \notin Shim \cup {"rc"}
  BY RegistryAssumption DEF Path, RegistryAssumption
<1>3. UNCHANGED hookTarget => HookState' = HookState
  BY DEF HookState
<1>4. CASE HookStep
  BY <1>4, HookKeepsManaged
<1>5. CASE ShellStep \/ AgentStep
  <2>1. UNCHANGED hookTarget
    BY <1>5 DEF ShellStep, AgentStep, hookVars
  <2>2. UNCHANGED cmd \/ (~GuardAt("record") /\ cmd'.do \notin {"off", "uninstall"})
    <3>1. StartSetup \/ RecordSetup \/ RecordSetupBusy => ~GuardAt("record") /\ cmd'.do \notin {"off", "uninstall"}
      BY DEF StartSetup, RecordSetup, RecordSetupBusy, SetupAt, GuardAt, Idle
    <3>2. WriteShims \/ WriteRc => ~GuardAt("record") /\ cmd'.do \notin {"off", "uninstall"}
      BY <1>1, CmdKinds DEF WriteShims, WriteRc, SetupAt, GuardAt
    <3>3. RefreshSetup \/ EditShim \/ EditRc \/ ChangePackage => UNCHANGED cmd
      BY DEF RefreshSetup, EditShim, EditRc, ChangePackage
    <3> QED  BY <1>5, <3>1, <3>2, <3>3, AgentStepsKeepCmd DEF ShellStep
  <2>3. "pre-commit" \in excused => "pre-commit" \in excused'
    <3>1. ShellStep => ("pre-commit" \in excused => "pre-commit" \in excused')
      BY <1>2 DEF ShellStep, StartSetup, WriteShims, WriteRc, RecordSetup,
         RecordSetupBusy, RefreshSetup, EditShim, EditRc, ChangePackage, Keep, Excuse
    <3> QED  BY <1>1, <1>2, <1>5, <3>1, AgentStepsExcuse
  <2>4. "pre-commit" \notin excused' /\ Recorded(registry, "pre-commit") => Recorded(registry', "pre-commit")
    <3>1. UNCHANGED registry \/ RecordSetup \/ SaveRegistry
      <4>1. StartSetup \/ WriteShims \/ WriteRc \/ RecordSetupBusy \/ RefreshSetup \/ EditShim \/ EditRc \/ ChangePackage => UNCHANGED registry
        BY DEF StartSetup, WriteShims, WriteRc, RecordSetupBusy, RefreshSetup, EditShim, EditRc, ChangePackage, Keep
      <4>2. StartAgentOn \/ RefuseFile \/ WriteFile \/ AskMade \/ TakeRegistry \/ RegistryBusy \/ Route \/ StartAgentOff \/ TakeOut \/ AskWhoMade \/ TakeOutAsked \/ Unroute \/ EditSettings \/ ServiceChanges => UNCHANGED registry
        BY DEF StartAgentOn, RefuseFile, WriteFile, AskMade, TakeRegistry, RegistryBusy, Route, StartAgentOff, TakeOut, AskWhoMade, TakeOutAsked, Unroute, EditSettings, ServiceChanges, Keep
      <4> QED  BY <1>5, <4>1, <4>2 DEF ShellStep, AgentStep
    <3>2. CASE RecordSetup
      BY <3>2, MergedRecorded DEF RecordSetup
    <3>3. CASE SaveRegistry
      <4>1. hooker.agent \in Agent
        BY <1>1, <3>3, Saved
      <4>2. "pre-commit" \notin excused' => EntriesAt(registry, "pre-commit") \subseteq EntriesAt(registry', "pre-commit")
        BY <1>1, <1>2, <3>3, <4>1, OthersSaved
      <4> QED  BY <4>2 DEF EntriesAt, Recorded
    <3> QED  BY <3>1, <3>2, <3>3
  <2> QED  BY <1>3, <2>1, <2>2, <2>3, <2>4, ManagedStays
<1>6. CASE StartUninstall
  <2>1. /\ UNCHANGED <<registry, hookTarget>> /\ excused \subseteq excused' /\ cmd.do = "idle" /\ cmd'.do = "uninstall"
        /\ cmd'.at = "entry" /\ cmd'.todo = registry
    BY <1>6 DEF StartUninstall, hookVars
  <2> QED  BY <1>1, <1>3, <2>1 DEF ManagedInv, GuardAt
<1>7. CASE ReverseEntry
  <2>1. /\ cmd.do = "uninstall" /\ cmd.at = "entry" /\ cmd'.do = "uninstall" /\ UNCHANGED registry
        /\ excused \subseteq excused'
    BY <1>1, <1>7, UninstallGoesOn
  <2>2. PICK e \in cmd.todo :
          /\ cmd'.todo = cmd.todo \ {e}
          /\ \/ e.path # "pre-commit" /\ UNCHANGED hookVars /\ cmd'.at = "entry"
             \/ /\ e.path = "pre-commit"
                /\ HookState = "foreign" => UNCHANGED hookVars
                /\ HookState # "foreign" => hookTarget' = NoHook
    <3>1. \A s \in Shim \cup Agent \cup {"rc"} : s # "pre-commit"
      BY RegistryAssumption DEF RegistryAssumption
    <3> QED  BY <1>1, <1>7, <3>1, UninstallGoesOn
  <2>3. CASE e.path # "pre-commit" /\ UNCHANGED hookVars /\ cmd'.at = "entry"
    <3>1. Recorded(cmd.todo, "pre-commit") => Recorded(cmd'.todo, "pre-commit")
      BY <2>2, <2>3 DEF Recorded
    <3>2. HookState' = HookState
      BY <1>3, <2>3 DEF hookVars
    <3> QED  BY <2>1, <2>3, <3>1, <3>2, ManagedStays
  <2>4. CASE e.path = "pre-commit"
    <3>1. HookState' # "managed"
      BY <1>1, <1>3, <2>2, <2>4, NotManaged DEF hookVars
    <3> QED  BY <3>1 DEF ManagedInv
  <2> QED  BY <2>2, <2>3, <2>4
<1>8. CASE ReverseRestore
  <2>1. cmd.do = "uninstall" /\ cmd.at = "restore" /\ excused \subseteq excused'
    BY <1>1, <1>8, UninstallGoesOn
  <2>2. HookState' = "managed" => HookState = "managed"
    <3>1. CASE PutBack(cmd.original, [cmd EXCEPT !.at = "entry"])
      BY <1>1, <3>1, NotManaged
    <3>2. CASE PutBackFails(cmd.original, [cmd EXCEPT !.at = "entry"])
      BY <1>3, <3>2 DEF PutBackFails, hookVars
    <3> QED  BY <1>8, <3>1, <3>2 DEF ReverseRestore
  <2> QED  BY <1>1, <2>1, <2>2 DEF ManagedInv
<1>9. CASE Sweep
  <2>1. cmd.do = "uninstall" /\ cmd.todo = {} /\ UNCHANGED hookVars /\ excused \subseteq excused'
    BY <1>1, <1>9, UninstallGoesOn
  <2> QED  BY <1>1, <1>3, <2>1 DEF ManagedInv, Recorded, hookVars
<1>10. CASE ForgetEntries \/ RemoveDirectories
  <2>1. cmd.do = "uninstall" /\ cmd.at = "forget" /\ UNCHANGED <<excused, hookVars>>
    BY <1>10 DEF ForgetEntries, RemoveDirectories, UninstallAt
  <2> QED  BY <1>1, <1>3, <2>1 DEF ManagedInv, hookVars
<1>11. CASE CrashCmd
  <2>1. /\ UNCHANGED <<registry, hookTarget>> /\ cmd' = Idle /\ excused \subseteq excused'
        /\ GuardAt("record") => "pre-commit" \in excused'
    BY <1>11 DEF CrashCmd, GuardAt, hookVars
  <2> QED  BY <1>1, <1>3, <2>1 DEF ManagedInv, Idle
<1>12. CASE CrashHooker
  <2>1. UNCHANGED <<registry, cmd, hookTarget>> /\ excused \subseteq excused'
    BY <1>12 DEF CrashHooker, Excuse, hookVars
  <2> QED  BY <1>3, <2>1, ManagedStays
<1>13. CASE CorruptRegistry
  BY <1>2, <1>13 DEF CorruptRegistry, Excuse, ManagedInv
<1> QED  BY <1>4, <1>5, <1>6, <1>7, <1>8, <1>9, <1>10, <1>11, <1>12, <1>13
         DEF SetupNext, UninstallStep, CommonStep

-----------------------------------------------------------------------------
(* The agents' files.                                                      *)

LEMMA FilesFrame ==
    SetupNext =>
        \/ UNCHANGED <<settings, environ, created, routeBackup>>
        \/ WriteFile \/ Route \/ Unroute \/ TakeOut \/ TakeOutAsked \/ EditSettings \/ ReverseEntry \/ RemoveDirectories
<1>1. ShellStep \/ HookStep => UNCHANGED agentVars
  BY DEF ShellStep, HookStep
<1>2. StartAgentOn \/ RefuseFile \/ AskMade \/ AskWhoMade \/ TakeRegistry \/ SaveRegistry \/ RegistryBusy \/ StartAgentOff => UNCHANGED agentVars
  BY DEF StartAgentOn, RefuseFile, AskMade, AskWhoMade, TakeRegistry, SaveRegistry, RegistryBusy, StartAgentOff
<1>3. ServiceChanges => UNCHANGED <<settings, environ, created, routeBackup>>
  BY DEF ServiceChanges
<1>4. StartUninstall \/ ReverseRestore \/ Sweep \/ ForgetEntries => UNCHANGED agentVars
  BY DEF StartUninstall, ReverseRestore, Sweep, ForgetEntries
<1>5. CommonStep => UNCHANGED agentVars
  BY DEF CommonStep, CrashCmd, CrashHooker
<1>6. UNCHANGED agentVars => UNCHANGED <<settings, environ, created, routeBackup>>
  BY DEF agentVars
<1> QED  BY <1>1, <1>2, <1>3, <1>4, <1>5, <1>6 DEF SetupNext, AgentStep, UninstallStep

LEMMA FilesStay ==
    ASSUME NEW b \in Agent, FilesInv(b), settings'[b] = settings[b], environ'[b] = environ[b],
           routeBackup'[b] \in {routeBackup[b], "absent"}, b \in created' => b \in created
    PROVE  FilesInv(b)'
BY DEF FilesInv, Is

LEMMA FileTyped ==
    ASSUME Types, NEW a \in Agent
    PROVE  /\ settings[a].there => settings[a] \in File
           /\ ~settings[a].there => settings[a] = Absent
<1>1. settings[a] \in File \/ settings[a] = Absent
  BY DEF Types, AgentTypes
<1>2. (\A f \in File : f.there) /\ ~Absent.there
  BY DEF File, Absent
<1> QED  BY <1>1, <1>2

\* What taking the hook out does to the file, and to no other.
LEMMA UnhookEffect ==
    ASSUME Types, NEW a \in Agent, NEW made, Unhook(a, made)
    PROVE  LET gone == a \in Owned \/ (OnlyHook(a) /\ made) IN
           /\ \A b \in Agent \ {a} : /\ settings'[b] = settings[b] /\ environ'[b] = environ[b]
                                     /\ b \in created' <=> b \in created
           /\ ~Hooked(a) => UNCHANGED <<settings, environ, created>>
           /\ Hooked(a) /\ gone =>
                /\ ~settings'[a].there /\ a \notin created'
                /\ environ'[a] = IF a \in Toml THEN environ[a] ELSE "none"
           /\ Hooked(a) /\ ~gone =>
                /\ settings'[a].there /\ ~settings'[a].hook /\ settings'[a].users = settings[a].users
                /\ settings'[a].broken = settings[a].broken /\ environ'[a] = environ[a]
                /\ a \in created' <=> a \in created
<1> DEFINE gone == a \in Owned \/ (OnlyHook(a) /\ made)
<1> SUFFICES
           /\ \A b \in Agent \ {a} : /\ settings'[b] = settings[b] /\ environ'[b] = environ[b]
                                     /\ b \in created' <=> b \in created
           /\ ~Hooked(a) => UNCHANGED <<settings, environ, created>>
           /\ Hooked(a) /\ gone =>
                /\ ~settings'[a].there /\ a \notin created'
                /\ environ'[a] = IF a \in Toml THEN environ[a] ELSE "none"
           /\ Hooked(a) /\ ~gone =>
                /\ settings'[a].there /\ ~settings'[a].hook /\ settings'[a].users = settings[a].users
                /\ settings'[a].broken = settings[a].broken /\ environ'[a] = environ[a]
                /\ a \in created' <=> a \in created
  OBVIOUS
<1>1. CASE ~Hooked(a)
  BY <1>1 DEF Unhook
<1>2. CASE Hooked(a)
  <2>1. /\ settings' = [settings EXCEPT ![a] = IF gone THEN Absent ELSE [@ EXCEPT !.hook = FALSE]]
        /\ environ' = [environ EXCEPT ![a] = IF gone /\ a \notin Toml THEN "none" ELSE @]
        /\ created' = IF gone THEN created \ {a} ELSE created
    BY <1>2 DEF Unhook
  <2>2. settings[a] \in File
    BY <1>2, FileTyped DEF Hooked, Is
  <2>3. LET file == [settings[a] EXCEPT !.hook = FALSE] IN
        file.there /\ ~file.hook /\ file.users = settings[a].users /\ file.broken = settings[a].broken
    BY <2>2 DEF File
  <2> HIDE DEF gone
  <2>4. /\ settings'[a] = IF gone THEN Absent ELSE [settings[a] EXCEPT !.hook = FALSE]
        /\ environ'[a] = IF gone /\ a \notin Toml THEN "none" ELSE environ[a]
        /\ \A b \in Agent \ {a} : settings'[b] = settings[b] /\ environ'[b] = environ[b]
    BY <2>1 DEF Types, AgentTypes
  <2>5. CASE gone
    BY <1>2, <2>1, <2>4, <2>5 DEF Absent
  <2>6. CASE ~gone
    <3>1. settings'[a] = [settings[a] EXCEPT !.hook = FALSE] /\ environ'[a] = environ[a] /\ created' = created
      BY <2>1, <2>4, <2>6
    <3> QED  BY <1>2, <2>3, <2>4, <2>6, <3>1
  <2> QED  BY <2>5, <2>6
<1> QED  BY <1>1, <1>2

LEMMA UnhookKeepsFiles ==
    ASSUME Types, NEW a \in Agent, NEW made, Unhook(a, made), UNCHANGED routeBackup,
           NEW b \in Agent, FilesInv(b)
    PROVE  FilesInv(b)'
<1> DEFINE gone == a \in Owned \/ (OnlyHook(a) /\ made)
<1>1. CASE b # a \/ ~Hooked(a)
  <2>1. settings'[b] = settings[b] /\ environ'[b] = environ[b] /\ (b \in created' <=> b \in created)
    BY <1>1, UnhookEffect
  <2> QED  BY <2>1, FilesStay
<1>2. CASE b = a /\ Hooked(a) /\ gone
  <2>1. /\ ~settings'[a].there /\ a \notin created'
        /\ a \notin Toml => environ'[a] = "none"
    BY <1>2, UnhookEffect
  <2>2. ~Is(a, "users")
    BY <1>2 DEF FilesInv, Hooked, OnlyHook
  <2> QED  BY <1>2, <2>1, <2>2 DEF FilesInv, Is
<1>3. CASE b = a /\ Hooked(a) /\ ~gone
  <2>1. /\ settings'[a].there /\ ~settings'[a].hook /\ settings'[a].users = settings[a].users
        /\ settings'[a].broken = settings[a].broken /\ environ'[a] = environ[a]
        /\ a \in created' <=> a \in created
    BY <1>3, UnhookEffect
  <2> QED  BY <1>3, <2>1 DEF FilesInv, Is, Hooked
<1> QED  BY <1>1, <1>2, <1>3

LEMMA Written ==
    ASSUME Types, WriteFile
    PROVE  LET a == hooker.agent IN
           /\ a \in Agent /\ hooker.do = "on" /\ hooker.at = "file" /\ ~Refuses(a)
           /\ settings'[a].there /\ settings'[a].hook /\ ~settings'[a].broken /\ settings'[a].users = Is(a, "users")
           /\ \A b \in Agent \ {a} : settings'[b] = settings[b]
           /\ created' = IF settings[a].there THEN created ELSE created \cup {a}
           /\ hooker'.do = "on" /\ hooker'.agent = a /\ hooker'.made = ~settings[a].there /\ ~hooker'.holding
           /\ hooker'.at = IF a \in Owned THEN "made" ELSE "legacy"
           /\ UNCHANGED <<registry, regLock, cmd, environ, routeBackup>>
           /\ excused' = excused \cup Overlaps
<1> DEFINE a == hooker.agent
<1>1. a \in Agent /\ hooker.do = "on" /\ hooker.at = "file" /\ ~Refuses(a)
  BY Working DEF WriteFile, At
<1>2. /\ settings' = [settings EXCEPT ![a] =
              [there |-> TRUE, users |-> Is(a, "users"), hook |-> TRUE, broken |-> FALSE]]
      /\ created' = IF ~settings[a].there THEN created \cup {a} ELSE created
      /\ hooker' = [hooker EXCEPT !.at = IF a \in Owned THEN "made" ELSE "legacy", !.made = ~settings[a].there]
      /\ UNCHANGED <<registry, regLock, cmd, environ, routeBackup>>
      /\ excused' = excused \cup Overlaps
  BY DEF WriteFile, Excuse
<1>3. /\ settings'[a] = [there |-> TRUE, users |-> Is(a, "users"), hook |-> TRUE, broken |-> FALSE]
      /\ \A b \in Agent \ {a} : settings'[b] = settings[b]
  BY <1>1, <1>2 DEF Types, AgentTypes
<1>4. /\ hooker'.do = "on" /\ hooker'.agent = a /\ hooker'.made = ~settings[a].there /\ ~hooker'.holding
      /\ hooker'.at = IF a \in Owned THEN "made" ELSE "legacy"
  BY <1>1, <1>2 DEF Types, HookerTypes, Idle
<1> QED  BY <1>1, <1>2, <1>3, <1>4

LEMMA FilesKeep == TraceInv /\ SetupNext => \A b \in Agent : FilesInv(b)'
<1> SUFFICES ASSUME TraceInv, SetupNext, NEW b \in Agent PROVE FilesInv(b)'
  OBVIOUS
<1>1. Types /\ FilesInv(b)
  BY DEF TraceInv, HookInv, AgentsInv
<1>2. CASE UNCHANGED <<settings, environ, created, routeBackup>>
  BY <1>1, <1>2, FilesStay
<1>3. CASE WriteFile
  <2>1. CASE b # hooker.agent
    <3>1. settings'[b] = settings[b] /\ environ'[b] = environ[b] /\ routeBackup'[b] = routeBackup[b]
          /\ (b \in created' => b \in created)
      BY <1>1, <1>3, <2>1, Written
    <3> QED  BY <1>1, <3>1, FilesStay
  <2>2. CASE b = hooker.agent
    <3>1. /\ settings'[b].there /\ settings'[b].hook /\ ~settings'[b].broken /\ settings'[b].users = Is(b, "users")
          /\ ~Refuses(b) /\ UNCHANGED <<environ, routeBackup>>
          /\ created' = IF settings[b].there THEN created ELSE created \cup {b}
      BY <1>1, <1>3, <2>2, Written
    <3> QED  BY <1>1, <3>1 DEF FilesInv, Is, Refuses, Hooked
  <2> QED  BY <2>1, <2>2
<1>4. CASE Route
  <2> DEFINE a == hooker.agent
  <2>1. a \in Agent /\ UNCHANGED created
    BY <1>1, <1>4, Working DEF Route, At
  <2>2. CASE UNCHANGED <<settings, environ, routeBackup>>
    BY <1>1, <2>1, <2>2, FilesStay
  <2>3. CASE /\ settings' = [settings EXCEPT ![a] =
                    IF a \notin Toml /\ ~settings[a].there
                    THEN [there |-> TRUE, users |-> FALSE, hook |-> FALSE, broken |-> FALSE] ELSE @]
             /\ environ' = [environ EXCEPT ![a] = service]
             /\ routeBackup' = [routeBackup EXCEPT ![a] = IF a \in Toml THEN @ ELSE environ[a]]
             /\ service # Stopped
    <3>1. service \in Port
      BY <1>1, <2>3 DEF Types, AgentTypes
    <3>2. CASE b # a
      <4>1. settings'[b] = settings[b] /\ environ'[b] = environ[b] /\ routeBackup'[b] = routeBackup[b]
        BY <1>1, <2>3, <3>2 DEF Types, AgentTypes
      <4> QED  BY <1>1, <2>1, <4>1, FilesStay
    <3>3. CASE b = a
      <4>1. /\ settings'[b] = IF b \notin Toml /\ ~settings[b].there
                              THEN [there |-> TRUE, users |-> FALSE, hook |-> FALSE, broken |-> FALSE] ELSE settings[b]
            /\ environ'[b] = service /\ routeBackup'[b] = IF b \in Toml THEN routeBackup[b] ELSE environ[b]
        BY <1>1, <2>3, <3>3 DEF Types, AgentTypes
      <4> QED  BY <1>1, <2>1, <3>1, <4>1 DEF FilesInv, Is, Port
    <3> QED  BY <3>2, <3>3
  <2> QED  BY <1>4, <2>2, <2>3 DEF Route
<1>5. CASE Unroute
  <2> DEFINE a == hooker.agent
  <2>1. /\ environ' = [environ EXCEPT ![a] =
              IF a \in Toml THEN (IF @ \in Port THEN "none" ELSE @)
              ELSE IF routeBackup[a] # "absent" /\ settings[a].there /\ ~Is(a, "broken")
                   THEN routeBackup[a] ELSE @]
        /\ routeBackup' = [routeBackup EXCEPT ![a] = IF Is(a, "broken") THEN @ ELSE "absent"]
        /\ UNCHANGED <<settings, created>> /\ a \in Agent
    BY <1>1, <1>5, Working DEF Unroute, At
  <2>2. CASE b # a
    <3>1. settings'[b] = settings[b] /\ environ'[b] = environ[b] /\ routeBackup'[b] = routeBackup[b]
      BY <1>1, <2>1, <2>2 DEF Types, AgentTypes
    <3> QED  BY <1>1, <2>1, <3>1, FilesStay
  <2>3. CASE b = a
    <3>1. /\ b \notin Toml =>
                environ'[b] = IF routeBackup[b] # "absent" /\ settings[b].there /\ ~Is(b, "broken")
                              THEN routeBackup[b] ELSE environ[b]
          /\ routeBackup'[b] \in {routeBackup[b], "absent"}
      BY <1>1, <2>1, <2>3 DEF Types, AgentTypes
    <3> QED  BY <1>1, <2>1, <3>1 DEF FilesInv, Is
  <2> QED  BY <2>2, <2>3
<1>6. CASE TakeOut
  <2>1. hooker.agent \in Agent
    BY <1>1, <1>6, Working DEF TakeOut, At
  <2> QED  BY <1>1, <1>6, <2>1, UnhookKeepsFiles DEF TakeOut
<1>7. CASE EditSettings
  <2>1. PICK a \in Agent, broken \in BOOLEAN :
          /\ settings' = [settings EXCEPT ![a] =
              [there |-> TRUE, users |-> TRUE, hook |-> Is(a, "hook") /\ a \notin Owned, broken |-> broken]]
          /\ created' = created \ {a}
    BY <1>7 DEF EditSettings
  <2>2. UNCHANGED <<environ, routeBackup>>
    BY <1>7 DEF EditSettings
  <2>3. CASE b # a
    <3>1. settings'[b] = settings[b]
      BY <1>1, <2>1, <2>3 DEF Types, AgentTypes
    <3> QED  BY <1>1, <2>1, <2>2, <3>1, FilesStay
  <2>4. CASE b = a
    <3>1. settings'[b] = [there |-> TRUE, users |-> TRUE, hook |-> Is(b, "hook") /\ b \notin Owned, broken |-> broken]
      BY <1>1, <2>1, <2>4 DEF Types, AgentTypes
    <3>2. settings'[b].there /\ settings'[b].users /\ (b \in Owned => ~settings'[b].hook) /\ b \notin created'
      <4>1. settings'[b].there /\ settings'[b].users /\ b \notin created'
        BY <2>1, <2>4, <3>1
      <4>2. ASSUME b \in Owned PROVE ~settings'[b].hook
        <5>1. settings'[b] = [there |-> TRUE, users |-> TRUE, hook |-> FALSE, broken |-> broken]
          BY <3>1, <4>2
        <5> QED  BY <5>1
      <4> QED  BY <4>1, <4>2
    <3> QED  BY <2>2, <3>2 DEF FilesInv, Is
  <2> QED  BY <2>3, <2>4
<1>8. CASE ReverseEntry
  <2>1. PICK e \in cmd.todo : UNCHANGED agentVars \/ (e.path \in Agent /\ ReverseAgent(e.path, e.original = "dg-created"))
    BY <1>8 DEF ReverseEntry, ReverseAgentFails
  <2>2. CASE UNCHANGED agentVars
    BY <1>1, <2>2, FilesStay DEF agentVars
  <2>3. CASE e.path \in Agent /\ ReverseAgent(e.path, e.original = "dg-created")
    <3>1. Unhook(e.path, e.original = "dg-created") /\ UNCHANGED routeBackup
      BY <2>3 DEF ReverseAgent
    <3> DEFINE a == e.path
               made == e.original = "dg-created"
    <3>2. a \in Agent /\ Unhook(a, made)
      BY <2>3, <3>1
    <3> HIDE DEF a, made
    <3> QED  BY <1>1, <3>1, <3>2, UnhookKeepsFiles
  <2> QED  BY <2>1, <2>2, <2>3
<1>9. CASE RemoveDirectories
  <2>1. UNCHANGED <<settings, environ, created>> /\ routeBackup'[b] = "absent"
    BY <1>9 DEF RemoveDirectories
  <2> QED  BY <1>1, <2>1, FilesStay
<1>10. CASE TakeOutAsked
  <2> DEFINE a == hooker.agent
             empty == [there |-> TRUE, users |-> FALSE, hook |-> FALSE, broken |-> FALSE]
             made == \E e \in registry : e.path = a /\ e.original = "dg-created"
  <2>1. /\ settings' = [settings EXCEPT ![a] = IF made THEN Absent ELSE empty]
        /\ environ' = [environ EXCEPT ![a] = IF a \in Toml THEN @ ELSE "none"]
        /\ created' = IF made THEN created \ {a} ELSE created
        /\ UNCHANGED routeBackup /\ a \in Agent
    BY <1>1, <1>10, Working DEF TakeOutAsked, At
  <2>2. a \notin Owned /\ (a \notin Toml => routeBackup[a] # "users")
    BY <1>10 DEF TakeOutAsked, TraceInv, AskedInv
  <2> HIDE DEF made
  <2>3. CASE b # a
    <3>1. settings'[b] = settings[b] /\ environ'[b] = environ[b] /\ (b \in created' => b \in created)
      BY <1>1, <2>1, <2>3 DEF Types, AgentTypes
    <3> QED  BY <1>1, <2>1, <3>1, FilesStay
  <2>4. CASE b = a
    <3>1. /\ settings'[b] = IF made THEN Absent ELSE empty
          /\ b \notin Toml => environ'[b] = "none"
          /\ made => b \notin created'
      BY <1>1, <2>1, <2>4 DEF Types, AgentTypes
    <3>2. CASE made
      BY <2>1, <2>2, <2>4, <3>1, <3>2 DEF FilesInv, Is, Absent
    <3>3. CASE ~made
      BY <2>1, <2>2, <2>4, <3>1, <3>3 DEF FilesInv, Is
    <3> QED  BY <3>2, <3>3
  <2> QED  BY <2>3, <2>4
<1> QED  BY <1>2, <1>3, <1>4, <1>5, <1>6, <1>7, <1>8, <1>9, <1>10, FilesFrame

\* What was seen of the file's environment stays so until the file is written.
LEMMA AskedKeeps == TraceInv /\ SetupNext => AskedInv'
<1> SUFFICES ASSUME TraceInv, SetupNext, At("off", "asked")'
             PROVE  LET a == hooker'.agent IN
                    a \notin Owned /\ (a \notin Toml => routeBackup'[a] # "users" /\ environ'[a] = "none")
  BY DEF AskedInv, At
<1>1. Types /\ AskedInv /\ \A b \in Agent : FilesInv(b)
  BY DEF TraceInv, HookInv, AgentsInv
<1>2. AskWhoMade \/ UNCHANGED hooker
  <2>1. ~StartAgentOn /\ ~StartAgentOff
    BY DEF StartAgentOn, StartAgentOff, At
  <2>2. ~RefuseFile /\ ~RegistryBusy /\ ~Route /\ ~Unroute /\ ~CrashHooker
    BY DEF RefuseFile, RegistryBusy, Route, Unroute, CrashHooker, Idle, At
  <2>3. ~WriteFile /\ ~AskMade /\ ~TakeOut /\ ~TakeOutAsked
    <3>1. ~WriteFile
      BY <1>1, Written DEF At
    <3>2. ~AskMade
      BY <1>1 DEF AskMade, At, Types, HookerTypes, Idle
    <3>3. ~TakeOut
      BY <1>1 DEF TakeOut, At, Goto, Types, HookerTypes, Idle
    <3>4. ~TakeOutAsked
      BY <1>1 DEF TakeOutAsked, At, Goto, Types, HookerTypes, Idle
    <3> QED  BY <3>1, <3>2, <3>3, <3>4
  <2>4. ~TakeRegistry /\ ~SaveRegistry
    BY <1>1, LockTaken, Saved DEF At
  <2> QED  BY <2>1, <2>2, <2>3, <2>4, HookerFrame
<1> DEFINE a == hooker.agent
<1>3. CASE AskWhoMade
  <2>1. a \in Agent /\ hooker'.agent = a /\ MustAsk(a) /\ UNCHANGED <<environ, routeBackup>>
    BY <1>1, <1>3, Working DEF AskWhoMade, At, Goto, agentVars, Types, HookerTypes, Idle
  <2>2. ~Is(a, "users") /\ (a \notin Toml => environ[a] = "none") /\ a \notin Owned
    BY <2>1 DEF MustAsk, OnlyHook
  <2>3. a \notin Toml => routeBackup[a] # "users"
    BY <1>1, <2>1, <2>2 DEF FilesInv
  <2> QED  BY <2>1, <2>2, <2>3
<1>4. CASE UNCHANGED hooker
  <2>1. /\ At("off", "asked") /\ a \in Agent /\ a \notin Owned
        /\ a \notin Toml => routeBackup[a] # "users" /\ environ[a] = "none"
    BY <1>1, <1>4, Working DEF At, AskedInv
  <2>2. UNCHANGED <<environ, routeBackup>> \/ EditSettings \/ ReverseEntry \/ RemoveDirectories
    <3>1. ~WriteFile /\ ~Route /\ ~Unroute /\ ~TakeOut /\ ~TakeOutAsked
      BY <1>1, <1>4, <2>1 DEF WriteFile, Route, Unroute, TakeOut, TakeOutAsked, At, Goto, Types, HookerTypes, Idle
    <3> QED  BY <3>1, FilesFrame
  <2>3. EditSettings => UNCHANGED <<environ, routeBackup>>
    BY DEF EditSettings
  <2>4. RemoveDirectories => UNCHANGED environ /\ routeBackup' = [c \in Agent |-> "absent"]
    BY DEF RemoveDirectories
  <2>5. CASE ReverseEntry
    <3>1. PICK e \in cmd.todo : UNCHANGED agentVars \/ (e.path \in Agent /\ ReverseAgent(e.path, e.original = "dg-created"))
      BY <2>5 DEF ReverseEntry, ReverseAgentFails
    <3>2. CASE UNCHANGED agentVars
      BY <1>4, <2>1, <3>2 DEF agentVars
    <3>3. CASE e.path \in Agent /\ ReverseAgent(e.path, e.original = "dg-created")
      <4> DEFINE made == e.original = "dg-created"
                 c == e.path
      <4>1. c \in Agent /\ Unhook(c, made) /\ UNCHANGED routeBackup
        BY <3>3 DEF ReverseAgent
      <4> HIDE DEF made, c
      <4>2. a \notin Toml => environ'[a] = "none"
        <5>1. CASE a # c
          BY <1>1, <2>1, <4>1, <5>1, UnhookEffect
        <5>2. CASE a = c
          BY <1>1, <2>1, <4>1, <5>2, UnhookEffect
        <5> QED  BY <5>1, <5>2
      <4> QED  BY <1>4, <2>1, <4>1, <4>2
    <3> QED  BY <3>1, <3>2, <3>3
  <2>6. CASE RemoveDirectories
    BY <1>4, <2>1, <2>4, <2>6
  <2>7. CASE UNCHANGED <<environ, routeBackup>>
    BY <1>4, <2>1, <2>7
  <2> QED  BY <2>2, <2>3, <2>5, <2>6, <2>7
<1> QED  BY <1>2, <1>3, <1>4

\* A step that leaves an agent's file alone, what is recorded of it, and how far an
\* agents command has come with it.
LEMMA AgentStays ==
    ASSUME NEW b \in Agent, AgentInv(b), b \notin excused' => b \notin excused,
           settings'[b] = settings[b], environ'[b] = environ[b], b \in created' <=> b \in created,
           EntriesAt(registry', b) = EntriesAt(registry, b),
           \/ UNCHANGED hooker
           \/ ~Writing(b) /\ ~Writing(b)' /\ ~Taking(b)'
           \/ /\ hooker'.do = hooker.do /\ hooker'.agent = hooker.agent /\ hooker'.at = hooker.at
              /\ hooker'.made = hooker.made,
           \/ UNCHANGED cmd
           \/ cmd'.do # "uninstall"
           \/ cmd'.at # "forget" /\ cmd'.todo = registry /\ ~Writing(b)' /\ ~Writing(b)
           \/ /\ cmd.do = "uninstall" /\ cmd'.at # "forget" /\ EntriesAt(cmd'.todo, b) = EntriesAt(cmd.todo, b)
              /\ UNCHANGED hooker
    PROVE  AgentInv(b)'
<1> SUFFICES ASSUME b \notin excused' PROVE Removable(b)' /\ Told(b)' /\ Remembered(b)' /\ StillToUndo(b)'
  BY DEF AgentInv
<1>1. Removable(b) /\ Told(b) /\ Remembered(b) /\ StillToUndo(b)
  BY DEF AgentInv
<1>2. AgentTrace(b)' <=> AgentTrace(b)
  BY DEF AgentTrace, Is
<1>3. Removable(b)'
  BY <1>1, <1>2 DEF Removable, Is, OnlyHook
<1>4. ToldBy(registry, b) => ToldBy(registry, b)'
  BY DEF ToldBy, EntriesAt
<1>5. MadeByDg(registry, b) => MadeByDg(registry, b)'
  <2>1. MadeByDg(registry, b) => MadeByDg(registry', b)
    BY MadeAt
  <2> QED  BY <2>1 DEF MadeByDg
<1>6. Told(b)' /\ Remembered(b)'
  <2>1. \/ UNCHANGED hooker
        \/ ~Writing(b) /\ ~Writing(b)' /\ ~Taking(b)'
        \/ /\ (Writing(b) <=> Writing(b)') /\ (Taking(b) <=> Taking(b)')
           /\ hooker'.at = hooker.at /\ hooker'.made = hooker.made
    BY DEF Writing, Taking
  <2>2. CASE UNCHANGED hooker
    <3>1. (Writing(b) <=> Writing(b)') /\ (Taking(b) <=> Taking(b)')
      BY <2>2 DEF Writing, Taking
    <3> QED  BY <1>1, <1>2, <1>4, <1>5, <2>2, <3>1 DEF Told, Remembered
  <2>3. CASE ~Writing(b) /\ ~Writing(b)' /\ ~Taking(b)'
    BY <1>1, <1>2, <1>4, <2>3 DEF Told, Remembered
  <2>4. CASE /\ (Writing(b) <=> Writing(b)') /\ (Taking(b) <=> Taking(b)')
             /\ hooker'.at = hooker.at /\ hooker'.made = hooker.made
    BY <1>1, <1>2, <1>4, <1>5, <2>4 DEF Told, Remembered
  <2> QED  BY <2>1, <2>2, <2>3, <2>4
<1>7. StillToUndo(b)'
  <2>1. Writing(b)' => Writing(b)
    BY DEF Writing
  <2>2. CASE UNCHANGED cmd
    <3>1. ToldBy(cmd.todo, b) => ToldBy(cmd.todo, b)'
      BY <2>2 DEF ToldBy, EntriesAt
    <3> QED  BY <1>1, <1>2, <2>1, <2>2, <3>1 DEF StillToUndo
  <2>3. CASE cmd'.do # "uninstall"
    BY <2>3 DEF StillToUndo
  <2>4. CASE cmd'.at # "forget" /\ cmd'.todo = registry /\ ~Writing(b)' /\ ~Writing(b)
    <3>1. ToldBy(registry, b) => ToldBy(cmd.todo, b)'
      BY <2>4 DEF ToldBy, EntriesAt
    <3> QED  BY <1>1, <1>2, <2>4, <3>1 DEF StillToUndo, Told
  <2>5. CASE /\ cmd.do = "uninstall" /\ cmd'.at # "forget" /\ EntriesAt(cmd'.todo, b) = EntriesAt(cmd.todo, b)
             /\ UNCHANGED hooker
    <3>1. ToldBy(cmd.todo, b) => ToldBy(cmd.todo, b)'
      BY <2>5 DEF ToldBy, EntriesAt
    <3> QED  BY <1>1, <1>2, <2>1, <2>5, <3>1 DEF StillToUndo
  <2> QED  BY <2>2, <2>3, <2>4, <2>5
<1> QED  BY <1>3, <1>6, <1>7

LEMMA NoTrace ==
    ASSUME NEW b \in Agent, ~AgentTrace(b)', ~Is(b, "broken")', ~Writing(b)'
    PROVE  AgentInv(b)'
BY DEF AgentInv, Removable, Told, Remembered, StillToUndo

\* Where dg's hook can be found, taking it out leaves nothing of dg's.
LEMMA UnhookLeavesNothing ==
    ASSUME Types, NEW b \in Agent, NEW made, Unhook(b, made), Removable(b),
           (b \in created /\ b \notin Owned) => made
    PROVE  ~AgentTrace(b)' /\ ~Is(b, "broken")'
<1> DEFINE gone == b \in Owned \/ (OnlyHook(b) /\ made)
<1>1. CASE ~Hooked(b)
  <2>1. UNCHANGED <<settings, environ, created>>
    BY <1>1, UnhookEffect
  <2> QED  BY <1>1, <2>1 DEF Removable, AgentTrace, Hooked, Is
<1>2. CASE Hooked(b) /\ gone
  <2>1. ~settings'[b].there /\ b \notin created'
    BY <1>2, UnhookEffect
  <2> QED  BY <2>1 DEF AgentTrace, Is
<1>3. CASE Hooked(b) /\ ~gone
  <2>1. /\ ~settings'[b].hook /\ settings'[b].broken = settings[b].broken
        /\ b \in created' <=> b \in created
    BY <1>3, UnhookEffect
  <2> QED  BY <1>3, <2>1 DEF AgentTrace, Is, Removable, Hooked
<1> QED  BY <1>1, <1>2, <1>3

\* What the shell's and the hook's commands do is nothing to an agent.
LEMMA OthersKeepAgents ==
    ASSUME TraceInv, ShellStep \/ HookStep, NEW b \in Agent
    PROVE  AgentInv(b)'
<1>1. Types /\ EntriesInv /\ AgentInv(b) /\ SetupNext
  BY DEF TraceInv, HookInv, AgentsInv, SetupNext
<1>2. b \in Path /\ b # "pre-commit" /\ b \notin Shim \cup {"rc"}
  BY RegistryAssumption DEF Path, RegistryAssumption
<1>3. UNCHANGED <<settings, environ, created>>
  BY DEF ShellStep, HookStep, agentVars
<1>4. UNCHANGED hooker
  <2>1. ShellStep => UNCHANGED hooker
    BY DEF ShellStep, StartSetup, WriteShims, WriteRc, RecordSetup, RecordSetupBusy,
         RefreshSetup, EditShim, EditRc, ChangePackage
  <2>2. HookStep => UNCHANGED hooker
    BY DEF HookStep, StartGuard, TakeForeign, TakeManaged, TakeFresh, WriteHook, RecordHook,
         RecordHookBusy, StartOff, OffRemove, OffRestore, OffForget, EditHook, LinkHook
  <2> QED  BY <2>1, <2>2
<1>5. UNCHANGED cmd \/ (cmd.do # "uninstall" /\ cmd'.do # "uninstall")
  <2>1. StartSetup \/ RecordSetup \/ RecordSetupBusy => cmd.do # "uninstall" /\ cmd'.do # "uninstall"
    BY DEF StartSetup, RecordSetup, RecordSetupBusy, SetupAt, Idle
  <2>2. WriteShims \/ WriteRc => cmd.do # "uninstall" /\ cmd'.do # "uninstall"
    BY <1>1, CmdKinds DEF WriteShims, WriteRc, SetupAt
  <2>3. RefreshSetup \/ EditShim \/ EditRc \/ ChangePackage => UNCHANGED cmd
    BY DEF RefreshSetup, EditShim, EditRc, ChangePackage
  <2>4. HookStep => UNCHANGED cmd \/ (cmd.do # "uninstall" /\ cmd'.do # "uninstall")
    BY <1>1, HookStepsAreOther
  <2> QED  BY <2>1, <2>2, <2>3, <2>4 DEF ShellStep
<1>6. b \notin excused' => b \notin excused
  <2>1. ShellStep => (b \notin excused' => b \notin excused)
    BY <1>2 DEF ShellStep, StartSetup, WriteShims, WriteRc, RecordSetup,
         RecordSetupBusy, RefreshSetup, EditShim, EditRc, ChangePackage, Keep, Excuse
  <2> QED  BY <1>1, <1>2, <2>1, HookStepsAreOther
<1>7. CASE EntriesAt(registry, b)' = EntriesAt(registry, b)
  <2>1. EntriesAt(registry', b) = EntriesAt(registry, b)
    BY <1>7 DEF EntriesAt
  <2> QED  BY <1>1, <1>3, <1>4, <1>5, <1>6, <2>1, AgentStays
<1>8. CASE b \in excused'
  BY <1>8 DEF AgentInv
<1>9. ~SaveRegistry /\ ~ForgetEntries /\ ~RemoveDirectories
  BY <1>1, <1>4, <1>5, Saved DEF ForgetEntries, RemoveDirectories, UninstallAt, Idle
<1> QED  BY <1>1, <1>7, <1>8, <1>9, AgentEntries

LEMMA UninstallKeepsAgents ==
    ASSUME TraceInv, UninstallStep \/ CommonStep, NEW b \in Agent
    PROVE  AgentInv(b)'
<1>1. Types /\ EntriesInv /\ AgentInv(b) /\ SetupNext
  BY DEF TraceInv, HookInv, AgentsInv, SetupNext
<1>2. b \in Path /\ b # "pre-commit" /\ b \notin Shim \cup {"rc"}
  BY RegistryAssumption DEF Path, RegistryAssumption
<1>3. CASE b \in excused'
  BY <1>3 DEF AgentInv
<1>4. CASE StartUninstall
  <2>1. /\ cmd.do = "idle" /\ cmd'.do = "uninstall" /\ cmd'.at = "entry" /\ cmd'.todo = registry
        /\ excused' = IF hooker.do = "idle" THEN excused ELSE excused \cup {hooker.agent}
        /\ UNCHANGED <<registry, hooker, settings, environ, created>>
    BY <1>4 DEF StartUninstall, agentVars
  <2>2. b \in excused' \/ (~Writing(b) /\ ~Writing(b)')
    BY <2>1 DEF Writing
  <2>3. ASSUME ~Writing(b), ~Writing(b)' PROVE AgentInv(b)'
    BY <1>1, <2>1, <2>3, AgentStays
  <2> QED  BY <1>3, <2>2, <2>3
<1>5. CASE ReverseEntry
  <2>1. /\ cmd.do = "uninstall" /\ cmd.at = "entry" /\ cmd'.do = "uninstall"
        /\ UNCHANGED <<registry, hooker>> /\ excused \subseteq excused'
    BY <1>1, <1>5, UninstallGoesOn
  <2>2. PICK e \in cmd.todo :
          /\ cmd'.todo = cmd.todo \ {e} /\ cmd'.at # "forget"
          /\ \/ e.path \notin Agent /\ UNCHANGED agentVars
             \/ e.path \in Agent /\ ReverseAgent(e.path, e.original = "dg-created")
             \/ e.path \in Agent /\ e.path \in excused' /\ UNCHANGED agentVars
    <3>1. HookState = "foreign" \/ HookState # "foreign"
      OBVIOUS
    <3>2. \A s \in Shim \cup {"rc", "pre-commit"} : s \notin Agent
      BY RegistryAssumption DEF RegistryAssumption
    <3> QED  BY <1>1, <1>5, <3>1, <3>2, UninstallGoesOn
  <2>3. CASE e.path = b /\ b \notin excused'
    <3> DEFINE made == e.original = "dg-created"
    <3>1. Unhook(b, made)
      BY <2>2, <2>3 DEF ReverseAgent
    <3>2. SUFFICES ASSUME b \notin excused PROVE AgentInv(b)'
      BY <1>3, <2>1
    <3>3. Removable(b) /\ StillToUndo(b)
      BY <1>1, <3>2 DEF AgentInv
    <3>4. (b \in created /\ b \notin Owned) => made
      <4>1. e \in EntriesAt(cmd.todo, b)
        BY <2>2, <2>3 DEF EntriesAt
      <4> QED  BY <2>1, <3>3, <4>1 DEF StillToUndo, ToldBy, AgentTrace
    <3> HIDE DEF made
    <3>5. ~AgentTrace(b)' /\ ~Is(b, "broken")'
      BY <1>1, <3>1, <3>3, <3>4, UnhookLeavesNothing
    <3>6. ~Writing(b)'
      BY <2>1, <3>3 DEF StillToUndo, Writing
    <3> QED  BY <3>5, <3>6, NoTrace
  <2>4. CASE e.path # b
    <3>1. settings'[b] = settings[b] /\ environ'[b] = environ[b] /\ (b \in created' <=> b \in created)
      <4>1. CASE UNCHANGED agentVars
        BY <4>1 DEF agentVars
      <4>2. CASE e.path \in Agent /\ ReverseAgent(e.path, e.original = "dg-created")
        <5> DEFINE a == e.path
                   made == e.original = "dg-created"
        <5>1. a \in Agent /\ Unhook(a, made) /\ a # b
          BY <2>4, <4>2 DEF ReverseAgent
        <5> HIDE DEF a, made
        <5> QED  BY <1>1, <5>1, UnhookEffect
      <4> QED  BY <2>2, <4>1, <4>2
    <3>2. EntriesAt(cmd'.todo, b) = EntriesAt(cmd.todo, b)
      BY <2>2, <2>4 DEF EntriesAt
    <3> QED  BY <1>1, <2>1, <2>2, <3>1, <3>2, AgentStays
  <2> QED  BY <1>3, <2>3, <2>4
<1>6. CASE ReverseRestore
  <2>1. /\ cmd.do = "uninstall" /\ cmd'.at = "entry" /\ cmd'.todo = cmd.todo /\ excused \subseteq excused'
        /\ UNCHANGED <<registry, hooker, settings, environ, created>>
    BY <1>1, <1>6, UninstallGoesOn DEF agentVars
  <2> QED  BY <1>1, <2>1, AgentStays
<1>7. CASE Sweep
  <2>1. /\ cmd.do = "uninstall" /\ cmd.todo = {} /\ UNCHANGED <<hooker, settings, environ, created>>
        /\ excused \subseteq excused'
    BY <1>1, <1>7, UninstallGoesOn DEF agentVars
  <2>2. SUFFICES ASSUME b \notin excused PROVE AgentInv(b)'
    BY <1>3, <2>1
  <2>3. ~AgentTrace(b) /\ ~Is(b, "broken") /\ ~Writing(b)
    BY <1>1, <2>1, <2>2 DEF AgentInv, StillToUndo, ToldBy, EntriesAt, Removable
  <2>4. ~AgentTrace(b)' /\ ~Is(b, "broken")' /\ ~Writing(b)'
    BY <2>1, <2>3 DEF AgentTrace, Is, Writing
  <2> QED  BY <2>4, NoTrace
<1>8. CASE ForgetEntries \/ RemoveDirectories
  <2>1. /\ cmd.do = "uninstall" /\ cmd.at = "forget" /\ UNCHANGED <<excused, hooker, settings, environ, created>>
    BY <1>8 DEF ForgetEntries, RemoveDirectories, UninstallAt, agentVars
  <2>2. SUFFICES ASSUME b \notin excused PROVE AgentInv(b)'
    BY <1>3, <2>1
  <2>3. ~AgentTrace(b) /\ ~Is(b, "broken") /\ ~Writing(b)
    BY <1>1, <2>1, <2>2 DEF AgentInv, StillToUndo, Removable
  <2>4. ~AgentTrace(b)' /\ ~Is(b, "broken")' /\ ~Writing(b)'
    BY <2>1, <2>3 DEF AgentTrace, Is, Writing
  <2> QED  BY <2>4, NoTrace
<1>9. CASE CrashCmd
  <2>1. cmd' = Idle /\ UNCHANGED <<registry, hooker, settings, environ, created>> /\ excused \subseteq excused'
    BY <1>9 DEF CrashCmd, agentVars
  <2> QED  BY <1>1, <2>1, AgentStays DEF Idle
<1>10. CASE CrashHooker
  <2>1. /\ hooker' = Idle /\ UNCHANGED <<registry, cmd, settings, environ, created>> /\ excused \subseteq excused'
        /\ Writing(b) => b \in excused'
    BY <1>10 DEF CrashHooker, agentVars, Excuse, Writing
  <2>2. ~Writing(b)' /\ ~Taking(b)'
    BY <2>1 DEF Writing, Taking, Idle
  <2>3. ASSUME ~Writing(b) PROVE AgentInv(b)'
    BY <1>1, <2>1, <2>2, <2>3, AgentStays
  <2> QED  BY <1>3, <2>1, <2>3
<1>11. CASE CorruptRegistry
  BY <1>2, <1>3, <1>11 DEF CorruptRegistry, Excuse
<1> QED  BY <1>4, <1>5, <1>6, <1>7, <1>8, <1>9, <1>10, <1>11 DEF UninstallStep, CommonStep

\* What the agents command does to its own agent.
LEMMA WriteKeepsAgent ==
    ASSUME TraceInv, SetupNext, WriteFile, NEW b \in Agent, b = hooker.agent
    PROVE  AgentInv(b)'
<1>1. Types /\ EntriesInv /\ AgentInv(b) /\ FilesInv(b)
  BY DEF TraceInv, HookInv, AgentsInv
<1>2. /\ hooker.do = "on" /\ hooker.at = "file" /\ ~Refuses(b)
      /\ settings'[b].there /\ settings'[b].hook /\ ~settings'[b].broken /\ settings'[b].users = Is(b, "users")
      /\ created' = IF settings[b].there THEN created ELSE created \cup {b}
      /\ hooker'.do = "on" /\ hooker'.agent = b /\ hooker'.made = ~settings[b].there
      /\ hooker'.at = IF b \in Owned THEN "made" ELSE "legacy"
      /\ UNCHANGED <<registry, cmd, environ>>
      /\ excused' = excused \cup Overlaps
  BY <1>1, Written
<1> SUFFICES ASSUME b \notin excused' PROVE Removable(b)' /\ Told(b)' /\ Remembered(b)' /\ StillToUndo(b)'
  BY DEF AgentInv
<1>3. b \notin excused /\ cmd.do # "uninstall"
  BY <1>2 DEF Overlaps
<1>4. Removable(b) /\ Told(b) /\ ~Writing(b) /\ ~Taking(b)
  BY <1>1, <1>2, <1>3 DEF AgentInv, Writing, Taking
<1>5. Is(b, "hook")' /\ ~Is(b, "broken")'
  BY <1>2 DEF Is
<1>6. b \in created' => OnlyHook(b)'
  <2>1. CASE settings[b].there
    <3>1. ASSUME b \in created PROVE ~Is(b, "users") /\ (environ[b] = "none" \/ b \in Toml)
      BY <1>4, <3>1 DEF Removable, AgentTrace, OnlyHook
    <3> QED  BY <1>2, <2>1, <3>1 DEF OnlyHook, Is
  <2>2. CASE ~settings[b].there
    BY <1>1, <1>2, <2>2 DEF OnlyHook, Is, FilesInv
  <2> QED  BY <2>1, <2>2
<1>7. Removable(b)'
  BY <1>5, <1>6 DEF Removable
<1>8. Writing(b)' /\ ~Taking(b)'
  BY <1>2 DEF Writing, Taking
<1>9. Told(b)'
  BY <1>8 DEF Told
<1>10. Remembered(b)'
  <2> SUFFICES ASSUME b \in created', b \notin Owned PROVE hooker'.made \/ MadeByDg(registry, b)'
    BY <1>2 DEF Remembered
  <2>1. CASE ~settings[b].there
    BY <1>2, <2>1
  <2>2. CASE settings[b].there
    <3>1. ToldBy(registry, b) /\ b \in created
      BY <1>2, <1>4, <2>2 DEF Told, AgentTrace
    <3>2. PICK e \in registry : e.path = b /\ e.original = "dg-created"
      BY <3>1 DEF ToldBy, EntriesAt
    <3>3. ~e.legacy
      BY <1>1, <3>2 DEF EntriesInv, PlainLegacy
    <3> QED  BY <1>2, <3>2, <3>3 DEF MadeByDg
  <2> QED  BY <2>1, <2>2
<1>11. StillToUndo(b)'
  BY <1>2, <1>3 DEF StillToUndo
<1> QED  BY <1>7, <1>9, <1>10, <1>11

LEMMA AskKeepsAgent ==
    ASSUME TraceInv, SetupNext, AskMade, NEW b \in Agent, b = hooker.agent
    PROVE  AgentInv(b)'
<1>1. Types /\ AgentInv(b)
  BY DEF TraceInv, HookInv, AgentsInv
<1> DEFINE made == hooker.made \/ \E e \in registry : e.path = b /\ e.original = "dg-created"
<1>2. /\ hooker.do = "on" /\ hooker.at = "made" /\ UNCHANGED <<registry, cmd, excused, settings, environ, created>>
      /\ hooker' = [hooker EXCEPT !.at = "record", !.made = made]
  BY DEF AskMade, At, Keep, agentVars
<1>3. MadeByDg(registry, b) => made
  BY DEF MadeByDg
<1>4. hooker.made => made
  OBVIOUS
<1> HIDE DEF made
<1>5. hooker'.do = "on" /\ hooker'.agent = b /\ hooker'.at = "record" /\ hooker'.made = made
  BY <1>1, <1>2 DEF Types, HookerTypes, Idle
<1> SUFFICES ASSUME b \notin excused PROVE Removable(b)' /\ Told(b)' /\ Remembered(b)' /\ StillToUndo(b)'
  BY <1>2 DEF AgentInv
<1>6. Removable(b) /\ Remembered(b) /\ StillToUndo(b) /\ Writing(b) /\ Writing(b)' /\ ~Taking(b)'
  BY <1>1, <1>2, <1>5 DEF AgentInv, Writing, Taking
<1>7. Removable(b)'
  BY <1>2, <1>6 DEF Removable, Is, AgentTrace, OnlyHook
<1>8. Told(b)'
  BY <1>6 DEF Told
<1>9. Remembered(b)'
  BY <1>2, <1>3, <1>4, <1>5, <1>6 DEF Remembered
<1>10. StillToUndo(b)'
  BY <1>2, <1>6 DEF StillToUndo
<1> QED  BY <1>7, <1>8, <1>9, <1>10

LEMMA SaveKeepsAgent ==
    ASSUME TraceInv, SetupNext, SaveRegistry, NEW b \in Agent, b = hooker.agent
    PROVE  AgentInv(b)'
<1>1. Types /\ EntriesInv /\ AgentInv(b) /\ FilesInv(b) /\ SeenOwn /\ StepsApart
  BY DEF TraceInv, HookInv, AgentsInv, EntriesInv
<1>2. /\ Holding /\ registry' = hooker.seen
      /\ hooker'.do = hooker.do /\ hooker'.agent = b /\ hooker'.made = hooker.made
      /\ \/ hooker.at = "legacy" /\ hooker'.at = "made"
         \/ hooker.at = "record" /\ hooker'.at = "route"
         \/ hooker.at \in {"forget", "forget-legacy"} /\ hooker'.at \in {"forget-legacy", "unroute"}
      /\ UNCHANGED <<cmd, settings, environ, created>>
  BY <1>1, Saved DEF agentVars
<1> SUFFICES ASSUME b \notin excused' PROVE Removable(b)' /\ Told(b)' /\ Remembered(b)' /\ StillToUndo(b)'
  BY DEF AgentInv
<1>3. (Removable(b) <=> Removable(b)') /\ (AgentTrace(b) <=> AgentTrace(b)')
  BY <1>2 DEF Removable, AgentTrace, Is, OnlyHook
<1>4. ASSUME b \in excused
      PROVE  /\ hooker.at = "record" /\ hooker.made = (b \in created) /\ Hooked(b) /\ environ[b] \notin Port
             /\ cmd.do # "uninstall"
  <2>1. b \notin Shim \cup {"rc"} /\ b # "pre-commit"
    BY RegistryAssumption DEF RegistryAssumption
  <2> QED  BY <1>4, <2>1, ExcusedFrame
<1>5. b \notin excused => Removable(b) /\ Told(b) /\ Remembered(b) /\ StillToUndo(b)
  BY <1>1 DEF AgentInv
<1>6. CASE hooker.at = "legacy"
  <2>1. hooker.do = "on" /\ hooker'.at = "made" /\ b \notin excused
    BY <1>1, <1>2, <1>4, <1>6 DEF StepsApart, Holding
  <2>2. Writing(b) /\ Writing(b)' /\ ~Taking(b)'
    BY <1>2, <1>6, <2>1 DEF Writing, Taking
  <2>3. MadeByDg(registry, b) => MadeByDg(registry, b)'
    <3>1. MadeByDg(registry, b) => MadeByDg(hooker.seen, b)
      BY <1>1, <1>2, <1>6, <2>1 DEF SeenOwn
    <3> QED  BY <1>2, <3>1 DEF MadeByDg
  <2>4. Remembered(b)'
    BY <1>2, <1>5, <1>6, <2>1, <2>2, <2>3 DEF Remembered
  <2>5. StillToUndo(b)'
    BY <1>2, <1>5, <2>1, <2>2 DEF StillToUndo
  <2> QED  BY <1>3, <1>5, <2>1, <2>2, <2>4, <2>5 DEF Told
<1>7. CASE hooker.at = "record"
  <2>1. hooker.do = "on" /\ hooker'.at = "route"
    BY <1>1, <1>2, <1>7 DEF StepsApart, Holding
  <2>2. ~Writing(b)' /\ ~Taking(b)'
    BY <2>1 DEF Writing, Taking
  <2>3. Removable(b)
    <3>1. CASE b \notin excused
      BY <1>5, <3>1
    <3>2. CASE b \in excused
      <4>1. Is(b, "hook") /\ ~Is(b, "broken")
        BY <1>4, <3>2 DEF Hooked
      <4>2. b \in created => OnlyHook(b)
        BY <1>1, <1>4, <3>2 DEF FilesInv, OnlyHook, Types, AgentTypes, Environ
      <4> QED  BY <4>1, <4>2 DEF Removable
    <3> QED  BY <3>1, <3>2
  <2>4. (b \in created /\ b \notin Owned) => hooker.made
    <3>1. CASE b \notin excused
      BY <1>2, <1>5, <1>7, <2>1, <3>1 DEF Remembered, Writing
    <3>2. CASE b \in excused
      BY <1>4, <3>2
    <3> QED  BY <3>1, <3>2
  <2>5. ToldBy(registry, b)'
    <3>1. PICK e \in hooker.seen :
             /\ e.path = b
             /\ hooker.made => e.original = "dg-created"
             /\ b \notin Owned => \A f \in hooker.seen : f.path = b => f = e
      BY <1>1, <1>2, <1>7, <2>1 DEF SeenOwn
    <3> QED  BY <1>2, <2>4, <3>1 DEF ToldBy, EntriesAt
  <2>6. Told(b)'
    BY <2>2, <2>5 DEF Told
  <2>7. StillToUndo(b)'
    <3>1. cmd.do # "uninstall"
      <4>1. CASE b \notin excused
        BY <1>2, <1>5, <1>7, <2>1, <4>1 DEF StillToUndo, Writing
      <4>2. CASE b \in excused
        BY <1>4, <4>2
      <4> QED  BY <4>1, <4>2
    <3> QED  BY <1>2, <3>1 DEF StillToUndo
  <2> QED  BY <1>3, <2>2, <2>3, <2>6, <2>7 DEF Remembered
<1>8. CASE hooker.at \in {"forget", "forget-legacy"}
  <2>1. hooker.do = "off" /\ b \notin excused /\ hooker'.at \in {"forget-legacy", "unroute"}
    BY <1>1, <1>2, <1>4, <1>8 DEF StepsApart, Holding
  <2>2. ~AgentTrace(b)
    BY <1>2, <1>5, <1>8, <2>1 DEF Told, Taking
  <2>3. ~Writing(b)'
    BY <2>1 DEF Writing
  <2> QED  BY <1>3, <1>5, <2>1, <2>2, <2>3 DEF Told, Remembered, StillToUndo
<1> QED  BY <1>2, <1>6, <1>7, <1>8

LEMMA TakeOutKeepsAgent ==
    ASSUME TraceInv, SetupNext, TakeOut, NEW b \in Agent, b = hooker.agent
    PROVE  AgentInv(b)'
<1>1. Types /\ EntriesInv /\ AgentInv(b)
  BY DEF TraceInv, HookInv, AgentsInv
<1>2. /\ hooker.do = "off" /\ hooker.at = "file" /\ ~MustAsk(b) /\ Unhook(b, FALSE) /\ hooker'.do = "off"
      /\ (Hooked(b) /\ b \in created /\ ~OnlyHook(b)) => b \in excused'
      /\ UNCHANGED <<registry, cmd>> /\ excused \subseteq excused'
  BY <1>1 DEF TakeOut, At, Goto, Types, HookerTypes, Idle
<1> SUFFICES ASSUME b \notin excused' PROVE AgentInv(b)'
  BY DEF AgentInv
<1>3. Removable(b) /\ Told(b) /\ ~Writing(b) /\ b \notin excused
  BY <1>1, <1>2 DEF AgentInv, Writing
<1>4. ~(b \in created /\ b \notin Owned)
  BY <1>2, <1>3 DEF Removable, MustAsk, Hooked, AgentTrace
<1>5. ~AgentTrace(b)' /\ ~Is(b, "broken")'
  BY <1>1, <1>2, <1>3, <1>4, UnhookLeavesNothing
<1>6. ~Writing(b)'
  BY <1>2 DEF Writing
<1> QED  BY <1>5, <1>6, NoTrace

LEMMA TakeOutAskedKeepsAgent ==
    ASSUME TraceInv, SetupNext, TakeOutAsked, NEW b \in Agent, b = hooker.agent
    PROVE  AgentInv(b)'
<1>1. Types /\ EntriesInv /\ AgentInv(b) /\ b \notin Owned
  BY DEF TraceInv, HookInv, AgentsInv, AskedInv, TakeOutAsked
<1> DEFINE made == \E e \in registry : e.path = b /\ e.original = "dg-created"
           empty == [there |-> TRUE, users |-> FALSE, hook |-> FALSE, broken |-> FALSE]
<1>2. /\ hooker.do = "off" /\ hooker.at = "asked" /\ hooker'.do = "off" /\ UNCHANGED excused
      /\ settings' = [settings EXCEPT ![b] = IF made THEN Absent ELSE empty]
      /\ created' = IF made THEN created \ {b} ELSE created
  BY <1>1 DEF TakeOutAsked, At, Goto, Keep, Types, HookerTypes, Idle
<1> SUFFICES ASSUME b \notin excused PROVE AgentInv(b)'
  BY <1>2 DEF AgentInv
<1>3. Told(b) /\ ~Writing(b)
  BY <1>1, <1>2 DEF AgentInv, Writing
<1>4. b \in created => made
  BY <1>1, <1>3 DEF Told, ToldBy, EntriesAt, AgentTrace
<1> HIDE DEF made
<1>5. settings'[b] = IF made THEN Absent ELSE empty
  BY <1>1, <1>2 DEF Types, AgentTypes
<1>6. ~AgentTrace(b)' /\ ~Is(b, "broken")'
  BY <1>2, <1>4, <1>5 DEF AgentTrace, Is, Absent
<1>7. ~Writing(b)'
  BY <1>2 DEF Writing
<1> QED  BY <1>6, <1>7, NoTrace

\* And to another's nothing.
LEMMA AgentCommandsKeep ==
    ASSUME TraceInv, AgentStep, NEW b \in Agent
    PROVE  AgentInv(b)'
<1>1. Types /\ EntriesInv /\ AgentInv(b) /\ FilesInv(b) /\ SetupNext
  BY DEF TraceInv, HookInv, AgentsInv, SetupNext
<1>2. UNCHANGED cmd
  BY AgentStepsKeepCmd
<1>3. CASE b \in excused'
  BY <1>3 DEF AgentInv
<1>4. CASE StartAgentOn \/ StartAgentOff
  <2>1. /\ UNCHANGED <<registry, excused, settings, environ, created>> /\ hooker.do = "idle" /\ hooker'.at = "file"
    BY <1>4 DEF StartAgentOn, StartAgentOff, agentVars
  <2>2. ~Writing(b) /\ ~Writing(b)' /\ ~Taking(b)'
    BY <2>1 DEF Writing, Taking
  <2> QED  BY <1>1, <1>2, <2>1, <2>2, AgentStays
<1>5. CASE RefuseFile
  <2>1. /\ UNCHANGED <<registry, excused, settings, environ, created>> /\ hooker.at = "file" /\ hooker' = Idle
    BY <1>5 DEF RefuseFile, At, Keep, agentVars
  <2>2. ~Writing(b) /\ ~Writing(b)' /\ ~Taking(b)'
    BY <2>1 DEF Writing, Taking, Idle
  <2> QED  BY <1>1, <1>2, <2>1, <2>2, AgentStays
<1>6. CASE WriteFile
  <2>1. CASE b = hooker.agent
    BY <1>1, <1>6, <2>1, WriteKeepsAgent
  <2>2. CASE b # hooker.agent
    <3>1. /\ settings'[b] = settings[b] /\ (b \in created' <=> b \in created) /\ UNCHANGED <<registry, environ>>
          /\ hooker'.agent = hooker.agent /\ excused \subseteq excused'
      BY <1>1, <1>6, <2>2, Written
    <3>2. ~Writing(b) /\ ~Writing(b)' /\ ~Taking(b)'
      BY <2>2, <3>1 DEF Writing, Taking
    <3> QED  BY <1>1, <1>2, <3>1, <3>2, AgentStays
  <2> QED  BY <2>1, <2>2
<1>7. CASE AskMade
  <2>1. CASE b = hooker.agent
    BY <1>1, <1>7, <2>1, AskKeepsAgent
  <2>2. CASE b # hooker.agent
    <3>1. /\ UNCHANGED <<registry, excused, settings, environ, created>> /\ hooker'.agent = hooker.agent
      BY <1>1, <1>7 DEF AskMade, At, Keep, agentVars, Types, HookerTypes, Idle
    <3>2. ~Writing(b) /\ ~Writing(b)' /\ ~Taking(b)'
      BY <2>2, <3>1 DEF Writing, Taking
    <3> QED  BY <1>1, <1>2, <3>1, <3>2, AgentStays
  <2> QED  BY <2>1, <2>2
<1>8. CASE TakeRegistry
  <2>1. /\ UNCHANGED <<registry, excused, settings, environ, created>>
        /\ hooker'.do = hooker.do /\ hooker'.agent = hooker.agent /\ hooker'.at = hooker.at /\ hooker'.made = hooker.made
    BY <1>1, <1>8, LockTaken DEF agentVars
  <2> QED  BY <1>1, <1>2, <2>1, AgentStays
<1>9. CASE SaveRegistry
  <2>1. CASE b = hooker.agent
    BY <1>1, <1>9, <2>1, SaveKeepsAgent
  <2>2. CASE b # hooker.agent /\ b \notin excused'
    <3>1. EntriesAt(registry', b) = EntriesAt(registry, b)
      BY <1>1, <1>9, <2>2, OthersSaved DEF Path
    <3>2. /\ UNCHANGED <<settings, environ, created>> /\ hooker'.agent = hooker.agent
      BY <1>1, <1>9, Saved DEF agentVars
    <3>3. ~Writing(b) /\ ~Writing(b)' /\ ~Taking(b)'
      BY <2>2, <3>2 DEF Writing, Taking
    <3>4. b \notin excused' => b \notin excused
      BY <1>9, <2>2 DEF SaveRegistry
    <3> QED  BY <1>1, <1>2, <3>1, <3>2, <3>3, <3>4, AgentStays
  <2> QED  BY <1>3, <2>1, <2>2
<1>10. CASE RegistryBusy
  <2>1. /\ UNCHANGED <<registry, settings, environ, created>> /\ hooker' = Idle /\ excused \subseteq excused'
        /\ Writing(b) => b \in excused'
    BY <1>10 DEF RegistryBusy, Excuse, Writing, agentVars
  <2>2. ~Writing(b)' /\ ~Taking(b)'
    BY <2>1 DEF Writing, Taking, Idle
  <2>3. ASSUME ~Writing(b) PROVE AgentInv(b)'
    BY <1>1, <1>2, <2>1, <2>2, <2>3, AgentStays
  <2> QED  BY <1>3, <2>1, <2>3
<1>11. CASE Route
  <2>1. /\ UNCHANGED <<registry, created>> /\ hooker' = Idle /\ excused \subseteq excused' /\ hooker.at = "route"
        /\ hooker.agent \in Agent
    BY <1>1, <1>11, Working DEF Route, At, Excuse
  <2>2. ~Writing(b) /\ ~Writing(b)' /\ ~Taking(b)'
    BY <2>1 DEF Writing, Taking, Idle
  <2>3. (settings'[b] = settings[b] /\ environ'[b] = environ[b]) \/ b \in excused'
    <3>1. CASE service # Stopped
      <4>1. hooker.agent \in excused'
        BY <1>11, <3>1 DEF Route, Excuse
      <4>2. b # hooker.agent => settings'[b] = settings[b] /\ environ'[b] = environ[b]
        BY <1>1, <1>11, <2>1 DEF Route, Types, AgentTypes
      <4> QED  BY <4>1, <4>2
    <3>2. CASE service = Stopped
      BY <1>11, <3>2 DEF Route
    <3> QED  BY <3>1, <3>2
  <2>4. ASSUME settings'[b] = settings[b], environ'[b] = environ[b] PROVE AgentInv(b)'
    BY <1>1, <1>2, <2>1, <2>2, <2>4, AgentStays
  <2> QED  BY <1>3, <2>3, <2>4
<1>12. CASE TakeOut
  <2>1. CASE b = hooker.agent
    BY <1>1, <1>12, <2>1, TakeOutKeepsAgent
  <2>2. CASE b # hooker.agent
    <3> DEFINE a == hooker.agent
               made == FALSE
    <3>1. /\ a \in Agent /\ Unhook(a, made) /\ UNCHANGED registry /\ hooker'.agent = a
          /\ excused \subseteq excused'
      BY <1>1, <1>12, Working DEF TakeOut, At, Goto, Types, HookerTypes, Idle
    <3>2. a # b
      BY <2>2
    <3>3. ~Writing(b) /\ ~Writing(b)' /\ ~Taking(b)'
      BY <2>2, <3>1 DEF Writing, Taking
    <3> HIDE DEF a, made
    <3>4. settings'[b] = settings[b] /\ environ'[b] = environ[b] /\ (b \in created' <=> b \in created)
      BY <1>1, <3>1, <3>2, UnhookEffect
    <3> QED  BY <1>1, <1>2, <3>1, <3>3, <3>4, AgentStays
  <2> QED  BY <2>1, <2>2
<1>13. CASE Unroute
  <2>1. /\ UNCHANGED <<registry, excused, settings, created>> /\ hooker' = Idle /\ hooker.at = "unroute"
        /\ hooker.do = "off" /\ hooker.agent \in Agent
    BY <1>1, <1>13, Working DEF Unroute, At, Keep
  <2>2. ~Writing(b) /\ ~Writing(b)' /\ ~Taking(b)'
    BY <2>1 DEF Writing, Taking, Idle
  <2>3. CASE b = hooker.agent /\ b \notin excused
    <3>1. ~AgentTrace(b) /\ ~Is(b, "broken")
      BY <1>1, <2>1, <2>3 DEF AgentInv, Told, Taking, Removable
    <3>2. ~AgentTrace(b)' /\ ~Is(b, "broken")'
      BY <2>1, <3>1 DEF AgentTrace, Is
    <3> QED  BY <2>2, <3>2, NoTrace
  <2>4. CASE b # hooker.agent
    <3>1. environ'[b] = environ[b]
      BY <1>1, <1>13, <2>1, <2>4 DEF Unroute, Types, AgentTypes
    <3> QED  BY <1>1, <1>2, <2>1, <2>2, <3>1, AgentStays
  <2> QED  BY <1>3, <2>1, <2>3, <2>4
<1>14. CASE EditSettings
  <2>1. PICK a \in Agent, broken \in BOOLEAN :
         /\ settings' = [settings EXCEPT ![a] =
                [there |-> TRUE, users |-> TRUE, hook |-> Is(a, "hook") /\ a \notin Owned, broken |-> broken]]
         /\ IF broken \/ a \in Owned THEN Excuse({a}) ELSE UNCHANGED excused
         /\ created' = created \ {a}
    BY <1>14 DEF EditSettings
  <2>2. UNCHANGED <<registry, hooker, environ>> /\ excused \subseteq excused'
    BY <1>14 DEF EditSettings, Excuse
  <2>3. CASE b # a
    <3>1. settings'[b] = settings[b] /\ (b \in created' <=> b \in created)
      BY <1>1, <2>1, <2>3 DEF Types, AgentTypes
    <3> QED  BY <1>1, <1>2, <2>2, <3>1, AgentStays
  <2>4. CASE b = a /\ b \notin excused'
    <3>1. ~broken /\ b \notin Owned /\ b \notin created' /\ b \notin excused
      BY <2>1, <2>2, <2>4 DEF Excuse
    <3>2. settings'[b] = [there |-> TRUE, users |-> TRUE, hook |-> Is(b, "hook") /\ b \notin Owned, broken |-> broken]
      BY <1>1, <2>1, <2>4 DEF Types, AgentTypes
    <3>3. ~Is(b, "broken")' /\ (Is(b, "hook")' => Is(b, "hook"))
      <4>1. CASE ~Is(b, "hook")
        <5>1. settings'[b] = [there |-> TRUE, users |-> TRUE, hook |-> FALSE, broken |-> FALSE]
          BY <3>1, <3>2, <4>1
        <5> QED  BY <5>1 DEF Is
      <4>2. CASE Is(b, "hook")
        <5>1. settings'[b].broken = broken
          BY <3>2
        <5> QED  BY <3>1, <4>2, <5>1 DEF Is
      <4> QED  BY <4>1, <4>2
    <3>4. Removable(b)' /\ (AgentTrace(b)' => AgentTrace(b))
      BY <3>1, <3>3 DEF Removable, AgentTrace
    <3>5. (Writing(b)' <=> Writing(b)) /\ (Taking(b)' <=> Taking(b))
      BY <2>2 DEF Writing, Taking
    <3>6. ToldBy(registry, b) => ToldBy(registry, b)'
      BY <2>2, <3>1 DEF ToldBy, EntriesAt
    <3>7. ToldBy(cmd.todo, b) => ToldBy(cmd.todo, b)'
      BY <1>2, <3>1 DEF ToldBy, EntriesAt
    <3>8. Told(b) /\ StillToUndo(b)
      BY <1>1, <3>1 DEF AgentInv
    <3>9. Told(b)' /\ Remembered(b)'
      BY <3>1, <3>4, <3>5, <3>6, <3>8 DEF Told, Remembered
    <3>10. StillToUndo(b)'
      BY <1>2, <3>4, <3>5, <3>7, <3>8 DEF StillToUndo
    <3> QED  BY <3>4, <3>9, <3>10 DEF AgentInv
  <2> QED  BY <1>3, <2>3, <2>4
<1>15. CASE ServiceChanges
  <2>1. UNCHANGED <<registry, hooker, excused, settings, environ, created>>
    BY <1>15 DEF ServiceChanges
  <2> QED  BY <1>1, <1>2, <2>1, AgentStays
<1>16. CASE AskWhoMade
  <2>1. /\ UNCHANGED <<registry, settings, environ, created>> /\ excused \subseteq excused'
        /\ hooker.do = "off" /\ hooker'.do = "off" /\ hooker'.at = "asked"
    BY <1>1, <1>16 DEF AskWhoMade, At, Goto, Excuse, agentVars, Types, HookerTypes, Idle
  <2>2. ~Writing(b) /\ ~Writing(b)' /\ ~Taking(b)'
    BY <2>1 DEF Writing, Taking
  <2> QED  BY <1>1, <1>2, <2>1, <2>2, AgentStays
<1>17. CASE TakeOutAsked
  <2>1. CASE b = hooker.agent
    BY <1>1, <1>17, <2>1, TakeOutAskedKeepsAgent
  <2>2. CASE b # hooker.agent
    <3>1. /\ settings'[b] = settings[b] /\ environ'[b] = environ[b] /\ (b \in created' <=> b \in created)
          /\ hooker'.agent = hooker.agent /\ UNCHANGED <<registry, excused>>
      BY <1>1, <1>17, <2>2, Working DEF TakeOutAsked, At, Goto, Keep, Types, AgentTypes, HookerTypes, Idle
    <3>2. ~Writing(b) /\ ~Writing(b)' /\ ~Taking(b)'
      BY <2>2, <3>1 DEF Writing, Taking
    <3> QED  BY <1>1, <1>2, <3>1, <3>2, AgentStays
  <2> QED  BY <2>1, <2>2
<1> QED  BY <1>4, <1>5, <1>6, <1>7, <1>8, <1>9, <1>10, <1>11, <1>12, <1>13, <1>14, <1>15, <1>16, <1>17 DEF AgentStep

-----------------------------------------------------------------------------
(* Nothing is left when an uninstall ends.                                 *)

LEMMA TraceInvInit == SetupInit => TraceInv
<1> SUFFICES ASSUME SetupInit PROVE TraceInv
  OBVIOUS
<1>1. HookInv
  BY HookInvInit
<1>2. cmd.do = "idle" /\ hooker.do = "idle"
  BY DEF SetupInit, RegistryInit, Idle
<1>3. /\ \A e \in registry : e.legacy /\ e.original = "none"
      /\ \A a \in Agent : Is(a, "hook") => \E e \in registry : e.path = a
  <2>1. registry = {[path |-> a, original |-> "none", legacy |-> TRUE] : a \in {b \in Agent : Is(b, "hook")}}
    BY DEF SetupInit, AgentInit
  <2>2. ASSUME NEW a \in Agent, Is(a, "hook") PROVE \E e \in registry : e.path = a
    <3>1. [path |-> a, original |-> "none", legacy |-> TRUE] \in registry
      BY <2>1, <2>2
    <3> QED  BY <3>1
  <2>3. \A e \in registry : e.legacy /\ e.original = "none"
    BY <2>1
  <2> QED  BY <2>2, <2>3
<1>4. EntriesInv
  BY <1>2, <1>3 DEF EntriesInv, PlainLegacy, Holding, SeenKeeps, SeenOwn, LegacyGone, OffForgetsHook, StepsApart
<1>5. ShellInv
  BY <1>2 DEF SetupInit, ShellInit, ShellInv, ShimsWritten, ShimInv, RcInv, SetupAt, HasSentinel
<1>6. ManagedInv
  <2>1. HookState # "managed"
    BY HookAssumption DEF SetupInit, HookInit, HookState, NoHook, None, HookAssumption
  <2> QED  BY <2>1 DEF ManagedInv
<1>7. ASSUME NEW a \in Agent PROVE FilesInv(a) /\ AgentInv(a)
  <2>1. /\ a \notin created /\ environ[a] \in {"none", "users"} /\ routeBackup[a] = "absent"
        /\ settings[a] \in {Absent} \cup [there : {TRUE}, users : {TRUE}, hook : BOOLEAN, broken : {FALSE}]
        /\ a \in Owned => ~Is(a, "hook")
        /\ (a \notin Toml /\ ~settings[a].there) => environ[a] = "none"
    BY DEF SetupInit, AgentInit
  <2>2. settings[a].there => settings[a].users /\ ~settings[a].broken
    <3>1. ~Absent.there
      BY DEF Absent
    <3> QED  BY <2>1, <3>1
  <2>3. FilesInv(a)
    BY <2>1, <2>2 DEF FilesInv, Is
  <2>4. Removable(a)
    BY <2>1, <2>2 DEF Removable, AgentTrace, Is
  <2>5. Told(a) /\ Remembered(a) /\ StillToUndo(a)
    BY <1>2, <1>3, <2>1 DEF Told, Remembered, StillToUndo, AgentTrace, ToldBy, EntriesAt, Writing, Taking
  <2> QED  BY <2>3, <2>4, <2>5 DEF AgentInv
<1> QED  BY <1>1, <1>2, <1>4, <1>5, <1>6, <1>7 DEF TraceInv, AgentsInv, AskedInv, At

LEMMA TraceInvKeeps == TraceInv /\ [SetupNext]_setupVars => TraceInv'
<1> SUFFICES ASSUME TraceInv, [SetupNext]_setupVars PROVE TraceInv'
  OBVIOUS
<1>1. HookInv'
  BY HookInvKeeps DEF TraceInv
<1>2. CASE SetupNext
  <2>1. EntriesInv' /\ ShellInv' /\ ManagedInv'
    BY <1>2, EntriesInvKeeps, ShellInvKeeps, ManagedInvKeeps
  <2>2. \A b \in Agent : FilesInv(b)'
    BY <1>2, FilesKeep
  <2>3. \A b \in Agent : AgentInv(b)'
    BY <1>2, OthersKeepAgents, UninstallKeepsAgents, AgentCommandsKeep DEF SetupNext
  <2> QED  BY <1>1, <1>2, <2>1, <2>2, <2>3, AskedKeeps DEF TraceInv, AgentsInv
<1>3. CASE UNCHANGED setupVars
  <2>1. /\ UNCHANGED <<registry, regLock, cmd, hooker, excused, shims, rc, hookTarget>>
        /\ UNCHANGED <<settings, environ, routeBackup, created>>
    BY <1>3 DEF setupVars, regVars, shellVars, hookVars, agentVars
  <2>2. EntriesInv' /\ ShellInv' /\ ManagedInv' /\ AgentsInv'
    <3>1. EntriesInv /\ ShellInv /\ ManagedInv /\ AgentsInv
      BY DEF TraceInv
    <3>2. EntriesInv'
      BY <2>1, <3>1 DEF EntriesInv, PlainLegacy, Holding, SeenKeeps, EntriesAt, SeenOwn, NoLegacy, MadeByDg,
                        LegacyGone, OffForgetsHook, StepsApart
    <3>3. ShellInv'
      BY <2>1, <3>1 DEF ShellInv, ShimsWritten, ShimInv, RcInv, SetupAt, Recorded, HasSentinel
    <3>4. ManagedInv'
      BY <2>1, <3>1 DEF ManagedInv, HookState, Recorded, GuardAt
    <3>5. AgentsInv'
      <4> SUFFICES ASSUME NEW a \in Agent PROVE FilesInv(a)' /\ AgentInv(a)'
        BY DEF AgentsInv
      <4>1. FilesInv(a) /\ AgentInv(a)
        BY <3>1 DEF AgentsInv
      <4>2. FilesInv(a)'
        BY <2>1, <4>1, FilesStay
      <4>3. AgentInv(a)'
        BY <2>1, <4>1, AgentStays
      <4> QED  BY <4>2, <4>3
    <3> QED  BY <3>2, <3>3, <3>4, <3>5
  <2>3. AskedInv'
    BY <2>1 DEF TraceInv, AskedInv, At
  <2> QED  BY <1>1, <2>2, <2>3 DEF TraceInv
<1> QED  BY <1>2, <1>3

\* What Trace says of each kind of path.
LEMMA Traces ==
    /\ \A s \in Shim : Trace(s) <=> shims[s] # "absent"
    /\ Trace("rc") <=> HasSentinel(rc) \/ "legacy" \in rc
    /\ Trace("pre-commit") <=> HookState = "managed" \/ owed # None
    /\ \A a \in Agent : Trace(a) <=> AgentTrace(a)
BY RegistryAssumption DEF Trace, RegistryAssumption, AgentTrace

LEMMA NothingLeft ==
    ASSUME TraceInv, cmd.do = "uninstall", cmd.at = "forget", NEW p \in Path \ excused
    PROVE  ~Trace(p)
<1>1. CASE p \in Shim
  BY <1>1, Traces DEF TraceInv, ShellInv, ShimInv
<1>2. CASE p = "rc"
  BY <1>2, Traces DEF TraceInv, ShellInv, RcInv
<1>3. CASE p = "pre-commit"
  BY <1>3, Traces DEF TraceInv, ManagedInv, HookInv, Kept, NameIsHeld
<1>4. CASE p \in Agent
  BY <1>4, Traces DEF TraceInv, AgentsInv, AgentInv, StillToUndo
<1> QED  BY <1>1, <1>2, <1>3, <1>4 DEF Path

LEMMA EndLeavesNothing ==
    ASSUME TraceInv, SetupNext, cmd.do = "uninstall", cmd.at = "forget", cmd'.do = "idle",
           NEW p \in Path \ excused
    PROVE  ~Trace(p)'
<1>1. Types
  BY DEF TraceInv, HookInv
<1>2. ForgetEntries \/ RemoveDirectories \/ CrashCmd
  <2>1. ~UNCHANGED cmd
    OBVIOUS
  <2>2. ~ShellStep
    BY <1>1, <2>1 DEF ShellStep, StartSetup, WriteShims, WriteRc, RecordSetup, RecordSetupBusy, RefreshSetup,
                      EditShim, EditRc, ChangePackage, SetupAt
  <2>3. ~HookStep
    BY <1>1, <2>1, HookStepsAreOther
  <2>4. ~AgentStep
    BY <2>1, AgentStepsKeepCmd
  <2>5. ~StartUninstall /\ ~ReverseEntry /\ ~ReverseRestore /\ ~Sweep
    BY <1>1, UninstallGoesOn DEF StartUninstall
  <2>6. ~CrashHooker /\ ~CorruptRegistry
    BY <2>1 DEF CrashHooker, CorruptRegistry
  <2> QED  BY <2>2, <2>3, <2>4, <2>5, <2>6 DEF SetupNext, UninstallStep, CommonStep
<1>3. /\ UNCHANGED <<rc, hookTarget, owed, settings, created>>
      /\ \A s \in Shim : shims'[s] \in {shims[s], "absent"}
  BY <1>2 DEF ForgetEntries, RemoveDirectories, CrashCmd, shellVars, hookVars, agentVars
<1>4. /\ \A s \in Shim : Trace(s)' <=> shims'[s] # "absent"
      /\ Trace("rc")' <=> HasSentinel(rc)' \/ "legacy" \in rc'
      /\ Trace("pre-commit")' <=> HookState' = "managed" \/ owed' # None
      /\ \A a \in Agent : Trace(a)' <=> AgentTrace(a)'
  BY RegistryAssumption DEF Trace, RegistryAssumption, AgentTrace
<1>5. ~Trace(p)
  BY NothingLeft
<1>6. CASE p \in Shim
  BY <1>3, <1>4, <1>5, <1>6, Traces
<1>7. CASE p = "rc"
  BY <1>3, <1>4, <1>5, <1>7, Traces DEF HasSentinel
<1>8. CASE p = "pre-commit"
  <2>1. HookState' = HookState
    BY <1>3 DEF HookState
  <2> QED  BY <1>3, <1>4, <1>5, <1>8, <2>1, Traces
<1>9. CASE p \in Agent
  <2>1. AgentTrace(p)' <=> AgentTrace(p)
    BY <1>3 DEF AgentTrace, Is
  <2> QED  BY <1>4, <1>5, <1>9, <2>1, Traces
<1> QED  BY <1>6, <1>7, <1>8, <1>9 DEF Path

(***************************************************************************)
(* The registry, the files and the hook have their types, and no path has  *)
(* two entries of one kind, whatever commands run, crash or are disturbed  *)
(* (cleanup-registry.ts, plan.ts, git-hook.ts, persistence.ts).            *)
(***************************************************************************)
THEOREM SetupTypeCorrect == SetupSpec => []SetupTypeOK
<1>1. HookInv => SetupTypeOK
  BY TypesSayOK DEF HookInv
<1> QED
  BY <1>1, HookInvInit, HookInvKeeps, PTL DEF SetupSpec

(***************************************************************************)
(* A hook that guard-commit moved aside is still there, and its name is in *)
(* dg's own hook, in the registry or in the hands of the command at work,  *)
(* for any number of commands, agents, backups and crashes                 *)
(* (git-hook.ts:176-224, plan.ts:1675-1708).                               *)
(***************************************************************************)
THEOREM ReplacedHookIsKept == SetupSpec => []ChainedHookIsKept
BY HookInvInit, HookInvKeeps, KeptSaysKept, PTL DEF SetupSpec

(***************************************************************************)
(* An uninstall that runs to its end leaves nothing of dg's: no shim, no   *)
(* block in the shell's rc file, no hook of its own in the repository or   *)
(* in an agent's settings, and the user's own hook is back, but where an   *)
(* entry was lost or never made by a named fault (plan.ts:326-393).        *)
(***************************************************************************)
THEOREM UninstallIsComplete == SetupSpec => UninstallLeavesNothing
<1>1. TraceInv /\ [SetupNext]_setupVars =>
        [(cmd.do = "uninstall" /\ cmd.at = "forget" /\ cmd'.do = "idle" /\ excused' = excused)
            => \A p \in Path \ excused : ~Trace(p)']_setupVars
  BY EndLeavesNothing
<1> QED
  BY <1>1, TraceInvInit, TraceInvKeeps, PTL DEF SetupSpec, UninstallLeavesNothing
==============================================================================
