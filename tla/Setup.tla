-------------------------------- MODULE Setup --------------------------------
(***************************************************************************)
(* What dg setup, dg guard-commit and dg agents write, and dg uninstall    *)
(* takes back (src/src/setup/plan.ts, uninstallSetup): the shell's files,  *)
(* a repository's pre-commit hook and the agents' settings, with the one   *)
(* registry that remembers them.                                           *)
(***************************************************************************)
EXTENDS ShellSetup, GitHook, AgentHooks

setupVars == <<regVars, shellVars, hookVars, agentVars>>

-----------------------------------------------------------------------------
\* dg uninstall, or without keep the fail-open shim's clean-up once the package is
\* gone (all: ~/.dg as well).  The registry is read once, without its lock.
StartUninstall ==
    /\ cmd.do = "idle" /\ Start("commands")
    /\ \E keep \in BOOLEAN, self \in BOOLEAN :
         /\ self => ~keep /\ ~dgThere /\ \E s \in Shim : shims[s] = "dg"
         /\ ~self => dgThere
         /\ cmd' = [do |-> "uninstall", at |-> "entry", todo |-> registry, keep |-> keep,
                    self |-> self, original |-> "none"]
    /\ excused' = IF hooker.do = "idle" THEN excused ELSE excused \cup {hooker.agent}
    /\ UNCHANGED <<registry, regLock, hooker, shellVars, hookVars, agentVars>>

UninstallAt(step) == cmd.do = "uninstall" /\ cmd.at = step

\* One entry after another; a hook's takes two steps.
ReverseEntry ==
    /\ UninstallAt("entry")
    /\ \E e \in cmd.todo :
         LET next == [cmd EXCEPT !.todo = @ \ {e}] IN
         \/ /\ e.path \in Shim /\ ReverseShim(e.path) /\ Keep
            /\ cmd' = next /\ UNCHANGED <<hookVars, agentVars>>
         \/ /\ e.path = "rc"
            /\ \/ ReverseRc /\ Keep
               \/ ReverseRcFails /\ UNCHANGED <<registry, regLock>>
            /\ cmd' = next /\ UNCHANGED <<hookVars, agentVars>>
         \/ /\ e.path = "pre-commit"
            /\ RemoveOwnHook([next EXCEPT !.at = "restore", !.original = e.original], next)
            /\ Keep /\ UNCHANGED <<shellVars, agentVars>>
         \/ /\ e.path \in Agent
            /\ LET made == e.original = "dg-created" IN
               \/ ReverseAgent(e.path, made) /\ Keep
               \/ ReverseAgentFails(e.path, made) /\ UNCHANGED <<registry, regLock>>
            /\ cmd' = next /\ UNCHANGED <<shellVars, hookVars>>
    /\ UNCHANGED hooker

ReverseRestore ==
    /\ UninstallAt("restore")
    /\ LET next == [cmd EXCEPT !.at = "entry"] IN
       \/ PutBack(cmd.original, next) /\ Keep
       \/ PutBackFails(cmd.original, next) /\ UNCHANGED <<registry, regLock>>
    /\ UNCHANGED <<hooker, shellVars, agentVars>>

Sweep ==
    /\ UninstallAt("entry") /\ cmd.todo = {}
    /\ \/ SweepOld /\ Keep
       \/ SweepOldFails /\ UNCHANGED <<registry, regLock>>
    /\ cmd' = [cmd EXCEPT !.at = "forget"]
    /\ UNCHANGED <<hooker, hookVars, agentVars>>

\* --keep-config keeps the directories, and writes a registry without dg's entries.
ForgetEntries ==
    /\ UninstallAt("forget") /\ cmd.keep
    /\ \/ CmdMayLock /\ registry' = {} /\ regLock' = "free"
       \/ CmdFindsBusy /\ UNCHANGED <<registry, regLock>>
    /\ cmd' = Idle
    /\ UNCHANGED <<hooker, excused, spent, shellVars, hookVars, agentVars>>

\* Otherwise the state directory goes: the registry, every lock in it, and what the
\* agents' environments were before dg.  The clean-up removes the shims' directory
\* with it, drifted or not.
RemoveDirectories ==
    /\ UninstallAt("forget") /\ ~cmd.keep
    /\ registry' = {} /\ regLock' = "free"
    /\ routeBackup' = [a \in Agent |-> "absent"]
    /\ shims' = IF cmd.self THEN [s \in Shim |-> "absent"] ELSE shims
    /\ cmd' = Idle
    /\ UNCHANGED <<hooker, excused, spent, rc, pyHook, dgThere, hookVars,
                   settings, environ, service, created>>

-----------------------------------------------------------------------------
\* A crash between two steps.  What was written and not yet recorded is lost, and a
\* hook that was moved aside and not yet named; a lock file that was just created
\* stays empty, one that has the pid is free for the next.
CrashCmd ==
    /\ cmd.do # "idle" /\ Start("faults")
    /\ excused' = excused \cup
         CASE cmd.do = "setup" -> {p \in Shim \cup {"rc"} : EntryOf(p) = {}}
           [] cmd.do = "guard" -> IF cmd.at = "take" THEN {} ELSE {"pre-commit"}
           [] cmd.do = "off" -> IF HookEntries = {} THEN {"pre-commit"} ELSE {}
           [] OTHER -> {}
    /\ regLock' \in {IF regLock = "cmd" THEN "free" ELSE regLock}
                    \cup (IF regLock = "free" THEN {"torn"} ELSE {})
    /\ cmd' = Idle
    /\ UNCHANGED <<registry, hooker, shellVars, hookVars, agentVars>>

CrashHooker ==
    /\ hooker.do # "idle" /\ Start("faults")
    /\ IF hooker.do = "on" /\ hooker.at # "file" /\ hooker.at # "route"
       THEN Excuse({hooker.agent}) ELSE UNCHANGED excused
    /\ regLock' \in {IF hooker.holding /\ regLock = "agents" THEN "free" ELSE regLock}
                    \cup (IF Wants /\ regLock = "free" THEN {"torn"} ELSE {})
    /\ hooker' = Idle
    /\ UNCHANGED <<registry, cmd, shellVars, hookVars, agentVars>>

-----------------------------------------------------------------------------
ShellStep ==
    /\ \/ StartSetup \/ WriteShims \/ WriteRc \/ RecordSetup \/ RecordSetupBusy
       \/ RefreshSetup \/ EditShim \/ EditRc \/ ChangePackage
    /\ UNCHANGED <<hookVars, agentVars>>

HookStep ==
    /\ \/ StartGuard \/ TakeForeign \/ TakeManaged \/ TakeFresh \/ WriteHook
       \/ RecordHook \/ RecordHookBusy
       \/ StartOff \/ OffRemove \/ OffRestore \/ OffForget
       \/ EditHook \/ LinkHook
    /\ UNCHANGED <<shellVars, agentVars>>

AgentStep ==
    /\ \/ StartAgentOn \/ RefuseFile \/ WriteFile \/ AskMade \/ TakeRegistry
       \/ SaveRegistry \/ RegistryBusy \/ Route \/ StartAgentOff \/ TakeOut
       \/ AskWhoMade \/ TakeOutAsked \/ Unroute
       \/ EditSettings \/ ServiceChanges
    /\ UNCHANGED <<shellVars, hookVars>>

UninstallStep ==
    StartUninstall \/ ReverseEntry \/ ReverseRestore \/ Sweep \/ ForgetEntries \/ RemoveDirectories

CommonStep ==
    \/ CrashCmd \/ CrashHooker
    \/ CorruptRegistry /\ UNCHANGED <<shellVars, hookVars, agentVars>>

SetupInit == RegistryInit /\ ShellInit /\ HookInit /\ AgentInit

SetupNext == ShellStep \/ HookStep \/ AgentStep \/ UninstallStep \/ CommonStep

SetupSpec == SetupInit /\ [][SetupNext]_setupVars

-----------------------------------------------------------------------------
\* The types of the variables; no path has two entries of one kind, which uninstall
\* would undo twice.
SetupTypeOK ==
    /\ registry \subseteq Entry
    /\ \A e, f \in registry : (e.path = f.path /\ e.legacy = f.legacy) => e = f
    /\ regLock \in {"free", "torn", "cmd", "agents"}
    /\ excused \subseteq Path
    /\ shims \in [Shim -> ShimState] /\ rc \subseteq Piece
    /\ hookTarget \in HookFile
    /\ backups \in [Backup -> UserHook \cup {None}]
    /\ settings \in [Agent -> File \cup {Absent}]
    /\ environ \in [Agent -> Environ] /\ routeBackup \in [Agent -> Environ \cup {"absent"}]

\* A hook that dg moved aside is still there and can be found: dg's own hook runs
\* it, or the registry names it, or the command at work holds its name.  Crashes,
\* a second guard-commit and `off` that stopped half-way included; excused are a
\* crash with the hook in hand, and what somebody else did to the hook.
ChainedHookIsKept ==
    (owed # None /\ "pre-commit" \notin excused) =>
        \E b \in Backup :
            /\ backups[b] = owed
            /\ \/ HookState = "managed" /\ hookTarget.chain = b
               \/ \E e \in HookEntries : e.original = b
               \/ cmd.do = "guard" /\ cmd.chain = b
               \/ cmd.do \in {"off", "uninstall"} /\ cmd.original = b

\* What is left of dg at a path.
Trace(p) ==
    CASE p \in Shim -> shims[p] # "absent"
      [] p = "rc" -> HasSentinel(rc) \/ "legacy" \in rc
      [] p = "pre-commit" -> HookState = "managed" \/ owed # None
      [] p \in Agent -> Is(p, "hook") \/ p \in created

\* When an uninstall has run to its end, whatever came before it, nothing dg wrote
\* is left anywhere and the replaced hook is back, except at the paths excused.
UninstallLeavesNothing ==
    [][(cmd.do = "uninstall" /\ cmd.at = "forget" /\ cmd'.do = "idle" /\ excused' = excused)
        => \A p \in Path \ excused : ~Trace(p)']_setupVars
=============================================================================
