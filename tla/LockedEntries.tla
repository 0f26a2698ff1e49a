----------------------------- MODULE LockedEntries -----------------------------
(***************************************************************************)
(* What dg makes of a lockfile (src/src/verify/preflight.ts): the entries  *)
(* it reports on, those it only counts as skipped, and those that a scan   *)
(* sends to the scanner (src/src/scan/collect.ts).  Pure operators.        *)
(*                                                                         *)
(* The text is abstracted to a set of entries; how each format spells      *)
(* where an entry comes from is what the operators below tell apart.       *)
(***************************************************************************)
EXTENDS FiniteSetsExt, Naturals

Npm == {"package-lock", "package-lock-v1", "yarn", "pnpm"}
Pypi == {"pipfile", "poetry", "uv", "requirements"}
Format == Npm \cup Pypi \cup {"cargo"}

\* LOCKFILE_ECOSYSTEMS: in a directory the first of an ecosystem counts; a
\* package-lock is of either version.
Before(f, g) ==
    LET rank == [x \in Format |-> CASE x \in {"package-lock", "package-lock-v1"} -> 1
                                    [] x = "yarn" -> 3     [] x = "pnpm" -> 4
                                    [] x = "pipfile" -> 5  [] x = "poetry" -> 6
                                    [] x = "uv" -> 7       [] x = "requirements" -> 8
                                    [] x = "cargo" -> 9]
    IN rank[f] < rank[g]

EcosystemOf(f) == IF f \in Npm THEN "npm" ELSE IF f \in Pypi THEN "pypi" ELSE "cargo"

\* resolved: where the entry says its bytes are; declared: what the version,
\* the descriptor or the source table says of it (specSourceKind, ...);
\* shape: what else the parser tells apart; a link is one whose target is not in
\* the file, a member is outside node_modules, and aside is what stands for
\* nothing of its own: a bundled entry, an option of pip. Of the entries of one
\* name and version that the parser takes in but once, one is the first.
Source == {"none", "registry", "elsewhere", "git", "file"}
Kind == {"none", "workspace", "local", "git", "direct-url"}
Shape == {"plain", "link", "member", "nameless", "unpinned", "aside", "garbled"}

\* A file is whole, has no usable syntax, is not an object, cannot be read, or
\* includes another that cannot be followed.
Trouble == {"no", "malformed", "not-object", "unreadable", "include"}
Json == {"package-lock", "package-lock-v1", "pipfile"}
(* Why an entry is recorded as skipped, or none.                           *)

\* Slip: what a sibling declares decides, whatever the entry resolves to.
NpmLockReasonAsDeclared(f, e) == e.declared

\* parsePackageLock, walkLegacyDependencies: where the entry resolves to, and
\* only if that is nowhere what is declared of it.
NpmLockReason(f, e) ==
    IF f = "package-lock" /\ e.shape = "link" THEN "local"
    ELSE IF f = "package-lock" /\ e.shape = "member" THEN "workspace"
    ELSE IF e.shape \in {"nameless", "aside", "garbled"} \/ e.resolved = "registry" THEN "none"
    ELSE IF e.resolved = "git" THEN "git"
    ELSE IF e.resolved = "elsewhere" THEN "direct-url"
    ELSE IF f = "package-lock" /\ e.resolved = "file" THEN "local" ELSE e.declared

\* parseYarnLock: the descriptor, or else the resolution, says it, name or not.
YarnReason(e) == IF e.shape \in {"aside", "garbled"} THEN "none" ELSE e.declared

\* pnpmKeySkipReason: the key alone says it.
PnpmReason(e) == IF e.shape \in {"aside", "garbled"} THEN "none" ELSE e.declared

\* collectRequirements: the line is a URL, a path, or a name with either.
RequirementReason(e) ==
    IF e.shape \in {"nameless", "aside", "garbled"} THEN "none" ELSE e.declared

\* parseCargoLock: a crate without a source is of this workspace.
CargoReason(e) == IF e.shape # "nameless" /\ e.resolved = "none" THEN "local" ELSE "none"

\* parsePoetryLock, parseUvLock, parsePipfileLock: the source table.
PythonReason(e) == IF e.shape \in {"nameless", "aside", "garbled"} THEN "none" ELSE e.declared

Reason(f, e) ==
    CASE f \in {"package-lock", "package-lock-v1"} -> NpmLockReason(f, e)
      [] f = "yarn"                                -> YarnReason(e)
      [] f = "pnpm"                                -> PnpmReason(e)
      [] f = "requirements"                        -> RequirementReason(e)
      [] f = "cargo"                               -> CargoReason(e)
      [] OTHER                                     -> PythonReason(e)

\* Off the registry, by what the entry resolves to; only the npm formats have
\* a list of hosts, and the Python ones no URL.
OffRegistry(f, e) ==
    \/ f \in Npm \cup {"cargo"} /\ e.resolved = "git"
    \/ f \in Npm /\ e.resolved = "elsewhere"

\* An entry with a reason is reported on all the same where it is a danger.
Observed(f, e) ==
    /\ e.shape \notin {"nameless", "aside"}
    /\ e.shape = "garbled" => f = "requirements"
    /\ ~(f = "package-lock" /\ e.shape \in {"link", "member"})
    /\ e.shape = "unpinned" => f \notin {"yarn", "pnpm"}
    /\ \/ Reason(f, e) = "none"
       \/ f \in {"package-lock", "package-lock-v1", "yarn"} /\ OffRegistry(f, e)
       \/ f = "requirements" /\ Reason(f, e) \in {"git", "direct-url"}

\* walkLegacyDependencies, collectRequirements: what is taken in but once, by
\* name and version, wherever the others of that name come from.
Once(f, e) ==
    /\ Observed(f, e)
    /\ \/ f = "package-lock-v1"
       \/ f = "requirements" /\ Reason(f, e) = "none" /\ e.shape # "garbled"

Twins(file, e) ==
    {o \in file.entries : /\ Once(file.format, o) /\ o.name = e.name
                          /\ (o.shape = "unpinned" <=> e.shape = "unpinned")}

FileOk(file) ==
    /\ file.format \in Format /\ file.trouble \in Trouble
    /\ file.trouble \in {"malformed", "not-object"} => file.format \in Json
    /\ file.trouble = "include" => file.format = "requirements"
    /\ \A e \in file.entries :
          /\ e.resolved \in Source /\ e.declared \in Kind /\ e.shape \in Shape /\ e.first \in BOOLEAN
          /\ Once(file.format, e) => \E o \in Twins(file, e) : \A t \in Twins(file, e) : t.first <=> t = o

\* lockfileObservation, blockedUnknownSpec, the URL fallback.
VerdictOn(f, e) ==
    CASE e.shape = "garbled"                         -> "block"
      [] f = "requirements" /\ Reason(f, e) # "none" -> "block"
      [] OffRegistry(f, e)                           -> "block"
      [] OTHER                                       -> IF e.hashed THEN "pass" ELSE "warn"

Observations(file) ==
    IF file.trouble \in {"unreadable", "malformed", "not-object"} THEN {}
    ELSE {e \in file.entries : Observed(file.format, e) /\ (Once(file.format, e) => e.first)}

\* A file that is no JSON object is a finding of its own, but for a Pipfile.lock
\* that is JSON and no object; only the JSON formats have a syntax to break.
Malformed(file) ==
    \/ file.trouble = "malformed"
    \/ file.trouble = "not-object" /\ file.format # "pipfile"

\* parseLockfilePackages: what is recorded and not sent anywhere.
ParseError(file) == file.trouble # "no"
SkippedEntries(file) ==
    IF file.trouble \in {"unreadable", "malformed", "not-object"} THEN {}
    ELSE {e \in file.entries : Reason(file.format, e) # "none"}

\* collectScanPackages: the rest goes to the scanner, if it has a version.
Identities(file) == {e \in Observations(file) : VerdictOn(file.format, e) # "block"}
Sent(file) == IF file.format = "cargo" THEN {}
              ELSE {e \in Identities(file) : e.shape # "unpinned"}
CountSkipped(file) ==
    Cardinality(SkippedEntries(file)) + (IF ParseError(file) THEN 1 ELSE 0)
    + Cardinality(Identities(file) \ Sent(file))
===============================================================================
