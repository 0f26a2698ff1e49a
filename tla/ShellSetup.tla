----------------------------- MODULE ShellSetup -----------------------------
(***************************************************************************)
(* The shell part of src/src/setup/plan.ts: the shims, the block in the    *)
(* shell's rc file, and what older releases left.                          *)
(***************************************************************************)
EXTENDS CleanupRegistry

VARIABLES
    shims,  \* what is at the path of each shim
    rc,     \* dg's lines in the rc file
    pyHook, \* an older release's pip hook is in a site-packages directory
    dgThere \* the dg package is installed

shellVars == <<shims, rc, pyHook, dgThere>>

-----------------------------------------------------------------------------
\* drifted: not what dg wrote, though dg's sentinel may still be in it.
ShimState == {"absent", "dg", "drifted"}

\* Pieces of the rc file that dg wrote; somebody may have deleted a block's end
\* marker (open) or its begin marker (headless).  legacy: an older release's.
Piece == {"block", "open", "headless", "legacy", "legacy-open"}

HasSentinel(text) == text \cap {"block", "open", "headless"} # {}

\* stripRcBlockDetailed: pairs of markers, then what follows a begin marker as far
\* as dg wrote it.
StripRcBlock(text) == text \ {"block", "open"}

\* withRcBlock
WithRcBlock(text) == StripRcBlock(text) \cup {"block"}

\* sweepLegacyRcBlocks leaves a legacy block alone that has lost its end.
SweepLegacy(text) == text \ {"legacy"}

-----------------------------------------------------------------------------
SetupAt(step) == cmd.do = "setup" /\ cmd.at = step

\* applySetupPlanWithLock, reached from dg setup, the wizard and the first run: the
\* lock is taken; another command's LockBusyError changes nothing.
StartSetup ==
    /\ cmd.do = "idle" /\ dgThere /\ Start("commands")
    /\ cmd' = [do |-> "setup", at |-> "shims"]
    /\ UNCHANGED <<registry, regLock, hooker, excused, shellVars>>

WriteShims ==
    /\ SetupAt("shims")
    /\ shims' = [s \in Shim |-> "dg"]
    /\ cmd' = [cmd EXCEPT !.at = "rc"]
    /\ Keep /\ UNCHANGED <<hooker, rc, pyHook, dgThere>>

WriteRc ==
    /\ SetupAt("rc")
    /\ rc' = WithRcBlock(rc)
    /\ pyHook' = FALSE
    /\ cmd' = [cmd EXCEPT !.at = "record"]
    /\ Keep /\ UNCHANGED <<hooker, shims, dgThere>>

\* A later setup records what an earlier one did not come to.
RecordSetup ==
    /\ SetupAt("record") /\ CmdMayLock
    /\ registry' = Merged(registry, {NewEntry(p, "none") : p \in Shim \cup {"rc"}})
    /\ regLock' = "free"
    /\ excused' = excused \ {p \in Shim \cup {"rc"} : p = "rc" => "headless" \notin rc}
    /\ cmd' = Idle
    /\ UNCHANGED <<hooker, spent, shellVars>>

\* The throw of the registry's lock leaves shims and block behind, unrecorded.
RecordSetupBusy ==
    /\ SetupAt("record") /\ CmdFindsBusy
    /\ Excuse({p \in Shim \cup {"rc"} : EntryOf(p) = {}})
    /\ cmd' = Idle
    /\ UNCHANGED <<registry, regLock, hooker, spent, shellVars>>

\* refreshSetupOnUpgrade: the shims that are still dg's are written again.
RefreshSetup ==
    /\ cmd.do = "idle" /\ dgThere /\ Start("commands")
    /\ \E first \in Shim, sentinel \in SUBSET {s \in Shim : shims[s] = "drifted"} :
         LET dgs == {s \in Shim : shims[s] = "dg"} \cup sentinel IN
         /\ first \in dgs
         /\ shims' = [s \in Shim |-> IF s \in dgs THEN "dg" ELSE shims[s]]
         /\ excused' = excused \ {s \in sentinel : EntryOf(s) # {}}
    /\ UNCHANGED <<registry, regLock, cmd, hooker, rc, pyHook, dgThere>>

-----------------------------------------------------------------------------
\* removeShim refuses one that is not as dg writes it.
ReverseShim(s) ==
    /\ shims' = [shims EXCEPT ![s] = IF @ = "dg" THEN "absent" ELSE @]
    /\ UNCHANGED <<rc, pyHook, dgThere>>

\* removeRcBlock
ReverseRc ==
    /\ rc' = IF HasSentinel(rc) THEN StripRcBlock(rc) ELSE rc
    /\ UNCHANGED <<shims, pyHook, dgThere>>

\* A file that cannot be written is a warning, and the entry is dropped all the same.
ReverseRcFails ==
    /\ HasSentinel(rc)
    /\ Start("faults") /\ Excuse({"rc"})
    /\ UNCHANGED shellVars

SweepOld ==
    /\ rc' = SweepLegacy(rc)
    /\ pyHook' = FALSE
    /\ UNCHANGED <<shims, dgThere>>

SweepOldFails ==
    /\ "legacy" \in rc
    /\ Start("faults") /\ Excuse({"rc"})
    /\ pyHook' = FALSE
    /\ UNCHANGED <<shims, rc, dgThere>>

-----------------------------------------------------------------------------
\* Somebody edits a shim, or deletes one.
EditShim ==
    /\ cmd.do = "idle" /\ Start("tampers")
    /\ \E s \in Shim, now \in {"absent", "drifted"} :
         /\ shims[s] = "dg"
         /\ shims' = [shims EXCEPT ![s] = now]
         /\ IF now = "drifted" THEN Excuse({s}) ELSE UNCHANGED excused
    /\ UNCHANGED <<registry, regLock, cmd, hooker, rc, pyHook, dgThere>>

\* Somebody deletes the block, or one of its markers.
EditRc ==
    /\ cmd.do = "idle" /\ Start("tampers")
    /\ "block" \in rc
    /\ \E left \in {{}, {"open"}, {"headless"}} : rc' = (rc \ {"block"}) \cup left
    /\ IF "headless" \in rc' THEN Excuse({"rc"}) ELSE UNCHANGED excused
    /\ UNCHANGED <<registry, regLock, cmd, hooker, shims, pyHook, dgThere>>

\* npm uninstall -g, and installing dg again.
ChangePackage ==
    /\ cmd.do = "idle" /\ Start("tampers")
    /\ dgThere' = ~dgThere
    /\ UNCHANGED <<registry, regLock, cmd, hooker, excused, shims, rc, pyHook>>

ShellInit ==
    /\ shims = [s \in Shim |-> "absent"]
    /\ rc \in {{}, {"legacy"}, {"legacy-open"}}
    /\ pyHook \in BOOLEAN
    /\ dgThere = TRUE
=============================================================================
