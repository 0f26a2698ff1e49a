------------------------------ MODULE Decisions ------------------------------
(***************************************************************************)
(* What a package's findings are graded, and which of them a project has   *)
(* accepted in dg.json (src/src/decisions/apply.ts; the ranking is also    *)
(* the one of src/src/api/analyze.ts).  Pure operators, shared by the      *)
(* modules that scan.                                                      *)
(***************************************************************************)
EXTENDS FiniteSetsExt, Functions

ScannerAction == {"pass", "analysis_incomplete", "warn", "block"}

Severity == [pass |-> 0, analysis_incomplete |-> 1, warn |-> 2, block |-> 3]

FromSeverity(s) == CHOOSE a \in ScannerAction : Severity[a] = s

\* The worst of a set of actions; an empty scan passes.
Worst(actions) == FromSeverity(Max({Severity[a] : a \in actions} \cup {0}))

\* ScannerFinding and parseFindings: a severity is 1 to 5, whether it was found
\* or, by category, accepted.
FindingSeverity == 1..5
AreFindings(findings) == \A f \in findings : f[2] \in FindingSeverity
AreAccepted(accepted) == \A c \in DOMAIN accepted : accepted[c] \in FindingSeverity

\* findingFingerprint: the highest severity of each category found; findings
\* are pairs of a category and a severity.
Fingerprint(findings) ==
    [c \in {f[1] : f \in findings} |-> Max({f[2] : f \in {g \in findings : g[1] = c}})]

\* uncoveredFindings: what was not accepted, or not at this severity.
Uncovered(print, accepted) ==
    {c \in DOMAIN print : c \notin DOMAIN accepted \/ print[c] > accepted[c]}

\* scopeMatches and isExpired: an entry is for one version or, written by
\* hand, for any, and may have run out.
Applies(entry, pkg) ==
    /\ entry.name = pkg.name
    /\ entry.version \in {"any", pkg.version}
    /\ ~entry.expired

\* matchDecision: only a warning can be acknowledged.
Acknowledged(pkg, entries) ==
    /\ pkg.action = "warn"
    /\ \E e \in entries : Applies(e, pkg) /\ Uncovered(Fingerprint(pkg.findings), e.accepted) = {}

\* Slip: whatever is acknowledged, the rest passes.
EffectiveDroppingTheRest(raw, acknowledged, rest) ==
    IF acknowledged = {} THEN raw ELSE "pass"

\* applyDecisions: the verdict that is left when the acknowledged packages,
\* given as a set, no longer count; rest is the set of the others' actions.
EffectiveAction(raw, acknowledged, rest) ==
    IF acknowledged = {} \/ Severity[Worst(rest)] >= Severity[raw] THEN raw ELSE Worst(rest)
===============================================================================
