--------------------------- MODULE CleanupRegistry ---------------------------
(***************************************************************************)
(* The cleanup registry of src/src/state/cleanup-registry.ts and           *)
(* setup/plan.ts: what dg wrote outside its own directories, so that it    *)
(* can be taken back.  Two processes work on it: cmd, the one command that *)
(* holds the setup-uninstall lock, and hooker, a `dg agents` command,      *)
(* which takes only the registry's own lock.  A crash ends a process       *)
(* between any two of its steps.                                           *)
(***************************************************************************)
EXTENDS Naturals, FiniteSets

CONSTANTS
    Shim,        \* the package managers dg shadows
    Agent,       \* the coding agents
    Backup,      \* the names dg may move a hook to
    MaxCommands, \* bound: how many commands are started
    MaxTampers,  \* bound: how often somebody else edits the files
    MaxFaults    \* bound: how many crashes and failed writes

ASSUME RegistryAssumption ==
    /\ Shim \cap Agent = {} /\ {"rc", "pre-commit"} \cap (Shim \cup Agent) = {}
    /\ Backup \cap {"none", "dg-created"} = {}

VARIABLES
    registry, \* the entries recorded
    regLock,  \* the registry's lock file
    cmd,      \* the command that holds the setup-uninstall lock
    hooker,   \* the agents command
    excused,  \* history: paths whose entry was lost, or never made, by a named fault
    spent     \* bounds: commands, tampers and faults so far

regVars == <<registry, regLock, cmd, hooker, excused, spent>>

-----------------------------------------------------------------------------
\* A path dg writes to stands for the kind of what is there as well.
Path == Shim \cup {"rc", "pre-commit"} \cup Agent

\* original: the name a replaced hook was moved to, or that dg made the file.
Entry == [path : Path, original : {"none", "dg-created"} \cup Backup, legacy : BOOLEAN]

NewEntry(path, original) == [path |-> path, original |-> original, legacy |-> FALSE]

Idle == [do |-> "idle"]

\* Slip: an entry made again is added, the old one stays.
AddedTo(entries, new) == entries \cup new

\* mergeRegistry, sameRegistryTarget: an entry replaces the one of its kind, path
\* and sentinel.
Merged(entries, new) ==
    {e \in entries : \A n \in new : e.path # n.path \/ e.legacy # n.legacy} \cup new

\* The registry's entry of a path, by the sentinel of today.
EntryOf(path) == {e \in registry : e.path = path /\ ~e.legacy}

-----------------------------------------------------------------------------
Start(kind) == spent[kind] > 0 /\ spent' = [spent EXCEPT ![kind] = @ - 1]

Keep == UNCHANGED <<registry, regLock, excused, spent>>

Excuse(paths) == excused' = excused \cup paths

\* setup, guard-commit and uninstall give up on a lock that is held, and take over
\* one that has been empty for half an hour (SETUP_UNINSTALL_LOCK_STALE_MS).
CmdMayLock == regLock \in {"free", "torn"}
CmdFindsBusy == regLock \in {"agents", "torn"}

\* recordCleanupEntry and removeCleanupEntry pass no staleMs: an empty lock stays.
HookerMayLock == regLock = "free"
HookerFindsBusy == regLock # "free"

\* loadCleanupRegistry and readRegistry move a file they cannot read aside: to every
\* reader from then on the registry is empty.
CorruptRegistry ==
    /\ Start("tampers")
    /\ registry # {} /\ registry' = {}
    /\ Excuse(Path)
    /\ UNCHANGED <<regLock, cmd, hooker>>

RegistryInit ==
    /\ regLock = "free"
    /\ cmd = Idle /\ hooker = Idle
    /\ excused = {}
    /\ spent = [commands |-> MaxCommands, tampers |-> MaxTampers, faults |-> MaxFaults]
=============================================================================
