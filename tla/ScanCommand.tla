----------------------------- MODULE ScanCommand -----------------------------
(***************************************************************************)
(* From the lockfiles of a project, or those staged for a commit, to an    *)
(* exit code: dg scan without its screen, the pre-commit hook it runs as   *)
(* (src/src/scan/command.ts, staged.ts, scanner-report.ts, discovery.ts),  *)
(* and dg verify of a lockfile or a published package (commands/verify.ts, *)
(* verify/preflight.ts, verify/package-check.ts).                          *)
(*                                                                         *)
(* The scanner answers what it likes of each package it is sent, or leaves *)
(* it out; its overall action is at least the worst of those it gives      *)
(* (an assumption about the service).                                      *)
(***************************************************************************)
EXTENDS Decisions, Policy, LockedEntries

CONSTANTS
    Files,      \* lockfiles that occur: format, place, trouble, entries
    Replies,    \* what the scanner may say of a package
    Remembered, \* the decisions of dg.json
    Surfaces    \* hook, staged, machine, plain, lockfile, package

ASSUME ScanAssumption ==
    /\ \A file \in Files : FileOk(file)
    /\ \A a \in Replies : a.action \in ScannerAction \cup {"missing"} /\ AreFindings(a.findings)
    /\ \A e \in Remembered : AreAccepted(e.accepted)

VARIABLES
    surface,    \* the command
    settings,   \* policy.mode, gitHook.onWarn and onIncomplete
    terminal,   \* somebody can be asked
    found,      \* the lockfiles there are, staged or on disk
    manifests,  \* what the package.json files on disk are like
    seen,       \* those whose contents could be had
    step,
    reply,      \* of the scanner, per package
    overall,    \* its action
    yes,        \* the user said so
    code        \* the exit code

scanVars == <<surface, settings, terminal, found, manifests, seen, step, reply, overall, yes, code>>
given == <<surface, settings, terminal, found, manifests>>

NoCode == 99 \* no exit code yet
-----------------------------------------------------------------------------
(* What dg finds in the package.json files by itself (discovery.ts).       *)

\* Clean, with an install script, with a dependency from the network or
\* from a file of this machine, or not to be read as JSON.
Manifest == {"clean", "script", "network", "local", "unreadable"}

\* resolveStatus: what cannot be read comes before what is bad.
ManifestStatus(ms) ==
    IF ms = {} THEN "nothing"
    ELSE IF "unreadable" \in ms THEN "error"
    ELSE IF "network" \in ms THEN "block"
    ELSE IF ms \cap {"script", "local"} # {} THEN "warn" ELSE "pass"
-----------------------------------------------------------------------------
(* Which packages are asked about.                                         *)

\* A directory no scan descends into: vendor, dist, node_modules, hidden.
Ignored(file) == file.place = "vendor"

\* lockfilesPerEcosystem: one lockfile of an ecosystem in a directory.
Shadowed(file, files) ==
    \E other \in files : /\ other.place = file.place
                         /\ EcosystemOf(other.format) = EcosystemOf(file.format)
                         /\ Before(other.format, file.format)

\* discoverScanProjects
Projects(files) ==
    {file \in files : file.format # "cargo" /\ ~Ignored(file) /\ ~Shadowed(file, files)}

Asked(files) ==
    UNION {{[name |-> e.name, ecosystem |-> EcosystemOf(file.format)] : e \in Sent(file)} :
              file \in Projects(files)}

NumSkipped(files) == SumSet({CountSkipped(file) : file \in Projects(files)})
-----------------------------------------------------------------------------
(* What the answer amounts to.                                             *)

\* The report looks an ecosystem up by name and version alone, and the last
\* group to have it wins.
EcosystemSeen(pkg) ==
    IF [name |-> pkg.name, ecosystem |-> "pypi"] \in Asked(seen) THEN "pypi" ELSE pkg.ecosystem

\* A package without an action counts as clean here.
ActionOf(answer) == IF answer.action = "missing" THEN "pass" ELSE answer.action

IsAcknowledged(pkg, answer) ==
    Acknowledged([name |-> <<EcosystemSeen(pkg), pkg.name>>, version |-> "v",
                  action |-> ActionOf(answer), findings |-> answer.findings], Remembered)

AcknowledgedIn(answers) == {p \in DOMAIN answers : IsAcknowledged(p, answers[p])}

Effective(answers, raw) ==
    EffectiveAction(raw, AcknowledgedIn(answers),
                    {ActionOf(answers[p]) : p \in DOMAIN answers \ AcknowledgedIn(answers)})

EffectiveUnlessStrict(answers, raw) ==
    IF settings.mode = "strict" THEN raw ELSE Effective(answers, raw)

\* scanExitCode
ScanExit(action, mode) ==
    CASE action = "block"               -> 2
      [] action = "warn"                -> IF mode = "strict" THEN 2 ELSE 1
      [] action = "analysis_incomplete" -> 4
      [] OTHER                          -> 0

\* failOpen, scannerUnavailable and decideIncomplete
HeldIncomplete == IF settings.onIncomplete = "block" THEN 1 ELSE 0

\* decideWarn: the hook never asks.
WarnExits ==
    CASE settings.onWarn = "allow" -> {0}
      [] settings.onWarn = "block" -> {1}
      [] settings.onWarn = "prompt" /\ (surface = "hook" \/ ~terminal) ->
            {IF settings.mode \in {"warn", "off"} THEN 0 ELSE 1}
      [] OTHER -> {0, 1}

\* Slip: an accepted warning settles the whole commit.
StagedExitsOnceAccepted(answers, raw) ==
    CASE raw = "block" -> {2}
      [] raw = "warn" /\ AcknowledgedIn(answers) # {} -> {0}
      [] raw = "warn" -> WarnExits
      [] raw = "analysis_incomplete" -> {HeldIncomplete}
      [] OTHER -> {0}

\* decideStagedVerdict
StagedExits(answers, raw) ==
    LET effective == EffectiveUnlessStrict(answers, raw)
        some      == AcknowledgedIn(answers) # {}
    IN CASE raw = "block" -> {2}
         [] raw = "warn" /\ some /\ effective = "pass" -> {0}
         [] raw = "warn" /\ some /\ effective = "analysis_incomplete" -> {HeldIncomplete}
         [] raw = "warn" /\ ~(some /\ effective \in {"pass", "analysis_incomplete"}) -> WarnExits
         [] raw = "analysis_incomplete" -> {HeldIncomplete}
         [] OTHER -> {0}
-----------------------------------------------------------------------------
(* The command.                                                            *)

Staged == surface \in {"hook", "staged"}
Finish(c) == step' = "done" /\ code' = c /\ UNCHANGED <<given, seen>>

\* No report of the scanner: what dg found by itself decides.
Unavailable ==
    IF Staged THEN HeldIncomplete
    ELSE CASE ManifestStatus(manifests) = "block" -> 2
           [] ManifestStatus(manifests) = "warn" -> 1
           [] OTHER -> 4

\* stagedLockfilePaths: git diff may fail, and nothing may be staged.
ListStaged ==
    /\ step = "list" /\ surface \in {"hook", "staged", "machine"}
    /\ \/ /\ found = {} /\ Finish(0)
       \/ Finish(IF surface = "machine" THEN 4 ELSE HeldIncomplete)
       \/ /\ found # {} /\ step' = "show" /\ UNCHANGED <<given, seen, code>>
    /\ UNCHANGED <<reply, overall, yes>>

\* materializeStaged: a lockfile git cannot show is left out.
ShowStaged(files) ==
    /\ step = "show"
    /\ seen' = files
    /\ IF files = {} THEN step' = "done" /\ code' = (IF surface = "machine" THEN 4 ELSE HeldIncomplete)
       ELSE step' = "ask" /\ UNCHANGED code
    /\ UNCHANGED <<given, reply, overall, yes>>

\* scanProject, which throws where the path cannot be read.
ScanProject ==
    /\ step = "list" /\ surface = "plain"
    /\ \/ step' = "ask" /\ seen' = found /\ UNCHANGED <<given, code>>
       \/ Finish(4)
    /\ UNCHANGED <<reply, overall, yes>>

\* exitCodeForReport and nothingToScan without a scanner.
LocalExit ==
    CASE ManifestStatus(manifests) = "nothing" -> 10
      [] ManifestStatus(manifests) = "error"   -> 4
      [] ManifestStatus(manifests) = "block"   -> 2
      [] ManifestStatus(manifests) = "warn"    -> 1
      [] OTHER                                 -> 0

\* runScannerScan without anything to ask: skipped, or lockfile_unparsed.
NothingAsked ==
    /\ step = "ask" /\ Asked(seen) = {}
    /\ Finish(IF Staged THEN HeldIncomplete
              ELSE IF NumSkipped(seen) > 0 THEN Unavailable
              ELSE IF surface = "machine" THEN 0 ELSE LocalExit)
    /\ UNCHANGED <<reply, overall, yes>>

\* The worker is missing, dies, times out, or says nothing that can be read.
WorkerFails ==
    /\ step = "ask" /\ Asked(seen) # {}
    /\ Finish(Unavailable)
    /\ UNCHANGED <<reply, overall, yes>>

Respond(answers, raw) ==
    /\ step = "ask" /\ Asked(seen) # {}
    /\ reply' = answers /\ overall' = raw
    /\ step' = "decide"
    /\ UNCHANGED <<given, seen, yes, code>>

\* decideStagedVerdict, or exitCodeForReport.
Decide ==
    /\ step = "decide"
    /\ IF Staged
       THEN \E c \in StagedExits(reply, overall) :
               Finish(c) /\ yes' = (c = 0 /\ terminal /\ surface = "staged" /\ settings.onWarn = "prompt" /\ overall = "warn")
       ELSE Finish(ScanExit(EffectiveUnlessStrict(reply, overall), settings.mode)) /\ UNCHANGED yes
    /\ UNCHANGED <<reply, overall>>
-----------------------------------------------------------------------------
(* dg verify.                                                              *)

\* exitCodeForReport of commands/verify.ts
VerifyExit(status) ==
    CASE status = "block" -> 2 [] status = "error" -> 4 [] status = "warn" -> 1 [] OTHER -> 0

\* verifyLockfile and preflightReport: the worst of what the policy leaves.
LockfileStatus(file) ==
    IF file.trouble = "unreadable" THEN "error"
    ELSE Worst({EvaluatePackagePolicy(VerdictOn(file.format, e), settings.mode) : e \in Observations(file)}
               \cup (IF Malformed(file) THEN {EvaluatePackagePolicy("block", settings.mode)} ELSE {}))

VerifyLockfile(file) ==
    /\ step = "list" /\ surface = "lockfile" /\ file \in found
    /\ seen' = {file} /\ step' = "done" /\ code' = VerifyExit(LockfileStatus(file))
    /\ UNCHANGED <<given, reply, overall, yes>>

\* runPackageCheck: no version, no answer, or no action is incomplete.
Published == [name |-> "published", ecosystem |-> "npm"]
PackageFails ==
    /\ step = "list" /\ surface = "package" /\ Finish(4)
    /\ UNCHANGED <<reply, overall, yes>>
CheckPackage(answer) ==
    /\ step = "list" /\ surface = "package"
    /\ LET action == IF answer.action = "missing" THEN "analysis_incomplete" ELSE answer.action
       IN Finish(ScanExit(action, "block")) /\ overall' = action
    /\ reply' = [p \in {Published} |-> answer]
    /\ UNCHANGED yes
-----------------------------------------------------------------------------
ScanInit ==
    /\ surface \in Surfaces
    /\ settings \in [mode : {"off", "warn", "block", "strict"}, onWarn : {"prompt", "allow", "block"},
                     onIncomplete : {"allow", "block"}]
    /\ terminal \in BOOLEAN
    /\ found \in {files \in SUBSET Files : Cardinality(files) <= 2}
    /\ manifests \in {ms \in SUBSET Manifest : surface = "plain" /\ Cardinality(ms) <= 2}
                     \cup (IF surface = "plain" THEN {} ELSE {{}})
    /\ seen = {} /\ step = "list"
    /\ reply = [p \in {} |-> {}] /\ overall = "pass" /\ yes = FALSE /\ code = NoCode

RawActions(answers) ==
    {a \in ScannerAction : Severity[a] >= Severity[Worst({ActionOf(answers[p]) : p \in DOMAIN answers})]}

ScanNext ==
    \/ ListStaged \/ ScanProject \/ NothingAsked \/ WorkerFails \/ Decide \/ PackageFails
    \/ step = "show" /\ \E files \in SUBSET found : ShowStaged(files)
    \/ /\ step = "ask"
       /\ \E came \in SUBSET Asked(seen) : \E answers \in [came -> Replies] :
             \E raw \in RawActions(answers) : Respond(answers, raw)
    \/ \E file \in found : VerifyLockfile(file)
    \/ \E answer \in Replies : CheckPackage(answer)
-----------------------------------------------------------------------------
\* Findings a decision for the package itself covers, one by one.
TrulyAccepted(pkg, answer) ==
    \E d \in Remembered : /\ d.name = <<pkg.ecosystem, pkg.name>> /\ ~d.expired
                        /\ \A g \in answer.findings : g[1] \in DOMAIN d.accepted /\ g[2] <= d.accepted[g[1]]

\* npm and PyPI packages of one name and version are told apart by nothing.
Twin(pkg) == \E p \in Asked(seen) : p.name = pkg.name /\ p.ecosystem # pkg.ecosystem

WarnMayPass ==
    \/ Staged /\ settings.onWarn = "allow"
    \/ Staged /\ settings.onWarn = "prompt" /\ settings.mode \in {"warn", "off"} /\ (surface = "hook" \/ ~terminal)
    \/ yes

\* An entry of a readable lockfile that is fetched from somewhere else; pnpm
\* names such an entry by its key, and a key is only counted as skipped; of a
\* package-lock of version 1 only the first of a name and version is looked at.
Foreign(file, e) ==
    /\ file.trouble \in {"no", "include"} /\ e.shape = "plain"
    /\ file.format = "package-lock-v1" => e.first
    /\ \/ file.format \in Npm /\ e.resolved \in {"git", "elsewhere"} /\ (file.format = "pnpm" => e.declared = "none")
       \/ file.format = "requirements" /\ e.declared \in {"git", "direct-url"}

(***************************************************************************)
(* Exit zero is never over something bad that was seen: no package that    *)
(* the scanner blocked, none it warned of without an acceptance of just    *)
(* these findings, a yes, or a setting that lets warnings pass; with none  *)
(* to ask about, no manifest that dg itself finds fault with; and, of a    *)
(* lockfile verified by itself, no entry that comes from outside the       *)
(* registry, unless the policy is off (src/README.md, the exit codes).     *)
(***************************************************************************)
BadIsNotZero ==
    code = 0 =>
        /\ \A p \in DOMAIN reply :
              /\ reply[p].action # "block"
              /\ reply[p].action = "warn" =>
                    (WarnMayPass \/ Twin(p) \/ (TrulyAccepted(p, reply[p]) /\ settings.mode # "strict"))
        /\ surface = "plain" /\ Asked(seen) = {} => manifests \subseteq {"clean"}
        /\ surface = "lockfile" /\ settings.mode # "off" => \A file \in seen : \A e \in file.entries : ~Foreign(file, e)

\* Why a staged entry may go unseen although the commit passes.
Unseen(file, e) ==
    \/ file \notin seen                                 \* git could not show it
    \/ \E other \in seen : other # file /\ other.place = file.place
    \/ file.place = "vendor" \/ file.format = "cargo"
    \/ file.trouble # "no"
    \/ e.shape # "plain"
    \/ e.declared # "none" /\ ~(file.format \in {"package-lock", "package-lock-v1"} /\ e.resolved = "registry")
    \/ e.resolved \notin {"none", "registry"}
    \/ /\ file.format = "package-lock-v1" /\ ~e.first    \* a foreign twin came first
       /\ \E o \in file.entries : o.name = e.name /\ o.first /\ OffRegistry(file.format, o)

(***************************************************************************)
(* A commit that the hook lets through while gitHook.onIncomplete and      *)
(* onWarn say block was analyzed: something was asked and answered, every  *)
(* answer is clean or accepted, and an entry that was not asked about is   *)
(* one of those that no scan looks at (Unseen names them; staged.ts,       *)
(* failOpen and decideIncomplete).                                         *)
(***************************************************************************)
IncompleteIsHeld ==
    (surface = "hook" /\ code = 0 /\ found # {} /\ settings.onIncomplete = "block" /\ settings.onWarn = "block") =>
        /\ step = "done" /\ overall \in {"pass", "warn"}
        /\ \A p \in DOMAIN reply :
              \/ reply[p].action \in {"pass", "missing"}
              \/ reply[p].action = "warn" /\ (TrulyAccepted(p, reply[p]) \/ Twin(p))
        /\ \A file \in found : \A e \in file.entries :
              Unseen(file, e) \/ [name |-> e.name, ecosystem |-> EcosystemOf(file.format)] \in Asked(seen)
        /\ DOMAIN reply \subseteq Asked(seen) /\ Asked(seen) # {}
==============================================================================
