------------------------------- MODULE GitHook -------------------------------
(***************************************************************************)
(* The commit guard of src/src/setup/git-hook.ts in one repository: dg     *)
(* puts its own pre-commit hook in the place of the one that is there,     *)
(* which it moves to a name of its own and runs after its own.             *)
(***************************************************************************)
EXTENDS CleanupRegistry

CONSTANT UserHook \* the hooks somebody may write

ASSUME HookAssumption == UserHook \cap {"none", "dg"} = {}

VARIABLES
    hookTarget, \* what is at .../hooks/pre-commit
    backups,    \* the pre-commit.dg-chained-* files
    outside,    \* the hooks directory is not under the repository's root
    owed        \* history: the hook dg took away and has not put back

hookVars == <<hookTarget, backups, outside, owed>>

-----------------------------------------------------------------------------
None == "none"
NoHook == [by |-> None]

\* A hook of somebody's, or dg's, which names the hook it runs after its own;
\* linked: the path is a symbolic link.
HookFile ==
    {NoHook} \cup [by : UserHook]
    \cup [by : {"dg"}, chain : Backup \cup {None}, linked : BOOLEAN]

\* gitHookState
HookState ==
    CASE hookTarget.by = None -> "fresh"
      [] hookTarget.by = "dg" -> "managed"
      [] OTHER -> "foreign"

HookEntries == EntryOf("pre-commit")

RegistryOriginal ==
    LET named == {e.original : e \in HookEntries} IN
    IF named = {} THEN None ELSE CHOOSE o \in named : TRUE

GuardAt(step) == cmd.do = "guard" /\ cmd.at = step

-----------------------------------------------------------------------------
\* applyGitHook, up to the lock: a link to dg's own hook is not replaced.
StartGuard ==
    /\ cmd.do = "idle" /\ Start("commands")
    /\ ~(HookState = "managed" /\ hookTarget.linked)
    /\ cmd' = [do |-> "guard", at |-> "take", chain |-> None]
    /\ UNCHANGED <<registry, regLock, hooker, excused, hookVars>>

\* A hook of somebody else's is moved to a random name.
TakeForeign ==
    /\ GuardAt("take") /\ HookState = "foreign"
    /\ \E b \in Backup :
         /\ backups[b] = None
         /\ backups' = [backups EXCEPT ![b] = hookTarget.by]
         /\ cmd' = [cmd EXCEPT !.at = "write", !.chain = b]
    /\ owed' = hookTarget.by
    /\ hookTarget' = NoHook
    /\ Keep /\ UNCHANGED <<hooker, outside>>

\* The hook dg has to give back, if any, is the one it chains.
HoldsOwed(chain) == owed = None \/ (chain \in Backup /\ backups[chain] = owed)

\* Slip: dg's own hook is rewritten without the hook it chained.
ForgetChain ==
    /\ GuardAt("take") /\ HookState = "managed"
    /\ cmd' = [cmd EXCEPT !.at = "write"]
    /\ Keep /\ UNCHANGED <<hooker, hookVars>>

\* dg's own hook goes on running what it ran.
TakeManaged ==
    /\ GuardAt("take") /\ HookState = "managed"
    /\ cmd' = [cmd EXCEPT !.at = "write",
                          !.chain = IF hookTarget.chain # None THEN hookTarget.chain
                                    ELSE RegistryOriginal]
    /\ Keep /\ UNCHANGED <<hooker, hookVars>>

\* Where dg's own hook was deleted, or a crash left none, the one it chained is
\* forgotten here: the entry that names it is about to be replaced.
TakeFresh ==
    /\ GuardAt("take") /\ HookState = "fresh"
    /\ cmd' = [cmd EXCEPT !.at = "write"]
    /\ IF owed # None THEN Excuse({"pre-commit"}) ELSE UNCHANGED excused
    /\ UNCHANGED <<registry, regLock, spent, hooker, hookVars>>

WriteHook ==
    /\ GuardAt("write")
    /\ hookTarget' = [by |-> "dg", chain |-> cmd.chain, linked |-> FALSE]
    /\ cmd' = [cmd EXCEPT !.at = "record"]
    /\ Keep /\ UNCHANGED <<hooker, backups, outside, owed>>

RecordHook ==
    /\ GuardAt("record") /\ CmdMayLock
    /\ registry' = Merged(registry, {NewEntry("pre-commit", cmd.chain)})
    /\ excused' = IF HoldsOwed(cmd.chain) THEN excused \ {"pre-commit"} ELSE excused
    /\ regLock' = "free"
    /\ cmd' = Idle
    /\ UNCHANGED <<hooker, spent, hookVars>>

\* The hook is there and works, but only its own text says what it replaced: `off`
\* and uninstall believe an older entry first.
RecordHookBusy ==
    /\ GuardAt("record") /\ CmdFindsBusy
    /\ IF RegistryOriginal = cmd.chain /\ HookEntries # {}
       THEN UNCHANGED excused ELSE Excuse({"pre-commit"})
    /\ cmd' = Idle
    /\ UNCHANGED <<registry, regLock, hooker, spent, hookVars>>

-----------------------------------------------------------------------------
\* reverseGitHookEntry: only what is dg's is removed, and only then, or when there
\* is nothing, the replaced hook is put back.  cmd goes on at restore or at skip.
RemoveOwnHook(restore, skip) ==
    /\ hookTarget' = IF HookState = "managed" THEN NoHook ELSE hookTarget
    /\ cmd' = IF HookState = "foreign" THEN skip ELSE restore
    /\ UNCHANGED <<backups, outside, owed>>

PutBack(original, next) ==
    /\ \/ /\ original \in Backup /\ backups[original] # None
          /\ hookTarget' = [by |-> backups[original]]
          /\ owed' = IF owed = backups[original] THEN None ELSE owed
          /\ backups' = [backups EXCEPT ![original] = None]
       \/ /\ original \in Backup => backups[original] = None
          /\ UNCHANGED <<hookTarget, backups, owed>>
    /\ cmd' = next
    /\ UNCHANGED outside

\* A rename that fails is a warning, and the entry is dropped all the same.
PutBackFails(original, next) ==
    /\ original \in Backup /\ backups[original] # None
    /\ Start("faults") /\ Excuse({"pre-commit"})
    /\ cmd' = next
    /\ UNCHANGED hookVars

\* removeGitHookForRepo: both locks, for the entries under the repository's root,
\* and without one for the hook itself.
Mine == IF outside THEN {} ELSE HookEntries

StartOff ==
    /\ cmd.do = "idle" /\ CmdMayLock /\ Start("commands")
    /\ Mine # {} \/ HookState = "managed"
    /\ regLock' = "cmd"
    /\ cmd' = [do |-> "off", at |-> "remove", forget |-> Mine,
               original |-> IF Mine # {} THEN RegistryOriginal ELSE hookTarget.chain]
    /\ UNCHANGED <<registry, hooker, excused, hookVars>>

OffRemove ==
    /\ cmd.do = "off" /\ cmd.at = "remove"
    /\ RemoveOwnHook([cmd EXCEPT !.at = "restore"], [cmd EXCEPT !.at = "forget"])
    /\ Keep /\ UNCHANGED hooker

OffRestore ==
    /\ cmd.do = "off" /\ cmd.at = "restore"
    /\ LET next == [cmd EXCEPT !.at = "forget"] IN
       \/ PutBack(cmd.original, next) /\ Keep
       \/ PutBackFails(cmd.original, next) /\ UNCHANGED <<registry, regLock>>
    /\ UNCHANGED hooker

OffForget ==
    /\ cmd.do = "off" /\ cmd.at = "forget"
    /\ registry' = registry \ cmd.forget
    /\ regLock' = "free"
    /\ cmd' = Idle
    /\ UNCHANGED <<hooker, excused, spent, hookVars>>

-----------------------------------------------------------------------------
\* Somebody writes a hook over what is there, deletes it, or puts dg's hook
\* elsewhere and a link in its place.  The hook dg still holds is from then on
\* at their own risk.
EditHook ==
    /\ cmd.do = "idle" /\ Start("tampers")
    /\ \E now \in {NoHook} \cup [by : UserHook] :
         now # hookTarget /\ hookTarget' = now
    /\ IF HookState = "managed" \/ owed # None
       THEN Excuse({"pre-commit"}) ELSE UNCHANGED excused
    /\ UNCHANGED <<registry, regLock, cmd, hooker, backups, outside, owed>>

LinkHook ==
    /\ cmd.do = "idle" /\ Start("tampers")
    /\ HookState = "managed" /\ ~hookTarget.linked
    /\ hookTarget' = [hookTarget EXCEPT !.linked = TRUE]
    /\ UNCHANGED <<registry, regLock, cmd, hooker, excused, backups, outside, owed>>

HookInit ==
    /\ hookTarget \in {NoHook} \cup [by : UserHook]
    /\ backups = [b \in Backup |-> None]
    /\ outside \in BOOLEAN
    /\ owed = None
=============================================================================
