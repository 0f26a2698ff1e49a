------------------------------ MODULE Preflight ------------------------------
(***************************************************************************)
(* What is asked before an install starts: once about the versions named   *)
(* on the command line (src/src/launcher/preflight-prompt.ts), and, for    *)
(* pip, once more about everything pip says it would install               *)
(* (install-preflight.ts, live-install.ts).  Then the package manager runs *)
(* behind the proxy, which honours what the second question settled        *)
(* (module InstallProxy: TrustPreverified).                                *)
(***************************************************************************)
EXTENDS Decisions, Policy, Naturals

CONSTANTS
    Pinned,     \* packages the command line may name with a version
    Deps,       \* packages pip may find beside them
    Said,       \* what the scanner may say of a package
    Honored,    \* the decisions of dg.json that count here
    Spared,     \* packages exempt from the cooldown
    HoldUnknown \* cooldown.onUnknown = "block"

ASSUME PreflightAssumption == \A a \in Said : a.action \in ScannerAction \cup {"missing"}

VARIABLES
    manager,    \* pip, npm, or one without an ecosystem here (npx, cargo)
    asks,       \* stdin and stderr are a terminal, and this is no CI
    live,       \* stdout is a rich terminal, and this is no CI
    force,      \* --dg-force-install
    config,     \* the user's configuration (module Policy)
    pins,       \* versions named on the command line
    phase,      \* named, tree, running, stopped
    exit,
    approved,   \* approvedFlagRanks
    saidFirst,  \* the scanner's first answer, before a question
    saidThen,   \* its second
    agreed,     \* what the user said yes to: packages, and the worst of them
    preverified,\* preverified.json
    override    \* the proxy is asked to let everything through

preVars == <<manager, asks, live, force, config, pins, phase, exit, approved,
             saidFirst, saidThen, agreed, preverified, override>>
setting == <<manager, asks, live, force, config, pins>>

Target == Pinned \cup Deps
Nothing == [p \in {} |-> "pass"]

\* actionRank
Rank(a) == Severity[a]

\* Slip: any approval is good for any answer.
ApprovedAtAll(p, a) == p \in DOMAIN approved

\* isPreflightApproved
IsApproved(p, a) == p \in DOMAIN approved /\ approved[p] >= Rank(a)

\* recordPreflightApprovals: the highest rank is kept.
Approving(old, actions) ==
    [p \in DOMAIN old \cup DOMAIN actions |->
        Max((IF p \in DOMAIN old THEN {old[p]} ELSE {})
            \cup (IF p \in DOMAIN actions THEN {Rank(actions[p])} ELSE {}))]

IsCovered(p, answer) ==
    Acknowledged([name |-> p, version |-> "v", action |-> answer.action, findings |-> answer.findings], Honored)

ActionsOf(packages, answer) == [p \in packages |-> answer[p].action]

\* How an install goes on, and how it stops.
GoTo(next) == phase' = next /\ exit' = exit
Stop(code) == phase' = "stopped" /\ exit' = code
-----------------------------------------------------------------------------
(* The first question: maybePreflightInstallPrompt.                        *)

\* No terminal, no ecosystem, no pinned version, or no answer.
SkipNamed ==
    /\ phase = "named"
    /\ GoTo("tree")
    /\ UNCHANGED <<setting, approved, saidFirst, saidThen, agreed, preverified, override>>

CanAskNamed == phase = "named" /\ asks /\ manager # "other" /\ pins # {}

\* What was answered, and is neither clean nor accepted; what the scanner
\* left out is taken for clean.
FlaggedNamed(answer) ==
    {p \in DOMAIN answer : answer[p].action \notin {"pass", "missing"} /\ ~IsCovered(p, answer[p])}
CoveredNamed(answer) == {p \in DOMAIN answer : IsCovered(p, answer[p])}

HeardNamed(answer) ==
    /\ CanAskNamed
    /\ saidFirst' = answer
    /\ UNCHANGED <<setting, saidThen, preverified>>

NothingNamed(answer) ==
    /\ FlaggedNamed(answer) = {}
    /\ HeardNamed(answer)
    /\ approved' = Approving(approved, ActionsOf(CoveredNamed(answer), answer))
    /\ GoTo("tree")
    /\ UNCHANGED <<agreed, override>>

WorstNamed(answer) == Worst({answer[p].action : p \in FlaggedNamed(answer)})

\* A block is not asked about: what the policy makes of it holds.
ForcedThrough == EnforceProtectedInstall(ProxyVerdict("block", "scanner", FALSE), config, force).action # "block"

BlockNamed(answer) ==
    /\ WorstNamed(answer) = "block"
    /\ HeardNamed(answer)
    /\ approved' = Approving(approved, ActionsOf(CoveredNamed(answer), answer))
    /\ IF ForcedThrough THEN GoTo("tree") ELSE Stop(2)
    /\ UNCHANGED <<agreed, override>>

\* The question names the worst; a yes is for all that is flagged.
YesNamed(answer) ==
    /\ WorstNamed(answer) \in {"warn", "analysis_incomplete"}
    /\ HeardNamed(answer)
    /\ approved' = Approving(approved, ActionsOf(CoveredNamed(answer) \cup FlaggedNamed(answer), answer))
    /\ agreed' = agreed \cup {[packages |-> FlaggedNamed(answer), worst |-> WorstNamed(answer)]}
    /\ GoTo("tree")
    /\ UNCHANGED override

NoNamed(answer) ==
    /\ WorstNamed(answer) \in {"warn", "analysis_incomplete"}
    /\ HeardNamed(answer)
    /\ approved' = Approving(approved, ActionsOf(CoveredNamed(answer), answer))
    /\ \/ Stop(IF WorstNamed(answer) = "warn" THEN 1 ELSE 4)
       \/ Stop(130)
    /\ UNCHANGED <<agreed, override>>
-----------------------------------------------------------------------------
(* The second question: runInstallPreflight and decideFromVerdicts.        *)

\* Not live, forced already, not pip, or pip or the scanner did not answer.
SkipTree ==
    /\ phase = "tree"
    /\ GoTo("running")
    /\ override' = force
    /\ UNCHANGED <<setting, approved, saidFirst, saidThen, agreed, preverified>>

CanAskTree == phase = "tree" /\ live /\ ~force /\ manager = "pip"

IsHeld(p, answer) ==
    /\ config.cooldown /\ p \notin Spared
    /\ \/ answer.cooldown = "quarantine"
       \/ answer.cooldown = "unknown" /\ HoldUnknown

\* A hold of the cooldown counts as a block.
ActionNow(p, answer) ==
    IF IsHeld(p, answer) THEN "block"
    ELSE IF answer.action = "missing" THEN "pass" ELSE answer.action

Unsettled(answer) ==
    {p \in DOMAIN answer : /\ ActionNow(p, answer[p]) \in {"warn", "block"}
                           /\ ~IsApproved(p, ActionNow(p, answer[p]))}
\* A hold is never covered by an accepted warning.
CoveredTree(answer) ==
    {p \in Unsettled(answer) : ActionNow(p, answer[p]) = "warn" /\ IsCovered(p, answer[p])}
Listed(answer) == Unsettled(answer) \ CoveredTree(answer)
Bad(answer) == \E p \in Listed(answer) : ActionNow(p, answer[p]) = "block"
NowOf(packages, answer) == [p \in packages |-> ActionNow(p, answer[p])]

\* preverifiedEntries: handed to the proxy, which asks no more about them.
Preverify(answer) ==
    {[name |-> p, hashed |-> answer[p].hashed,
      cooldownEvaluated |-> config.cooldown /\ answer[p].cooldown # "none"] :
        p \in {q \in DOMAIN answer : answer[q].action \in {"pass", "warn"}}}

HeardTree(answer) ==
    /\ CanAskTree
    /\ saidThen' = answer
    /\ UNCHANGED <<setting, saidFirst>>

\* Nothing to ask about, or nobody to ask.
Unasked(answer) ==
    /\ HeardTree(answer)
    /\ Listed(answer) = {} \/ ~asks
    /\ approved' = IF asks THEN Approving(approved, NowOf(CoveredTree(answer), answer)) ELSE approved
    /\ preverified' = Preverify(answer)
    /\ GoTo("running")
    /\ UNCHANGED <<agreed, override>>

AskedTree(answer) == HeardTree(answer) /\ Listed(answer) # {} /\ asks

\* One yes to a block lets the proxy pass whatever else it would block.
YesTree(answer) ==
    /\ AskedTree(answer)
    /\ approved' = Approving(approved, NowOf(CoveredTree(answer) \cup Listed(answer), answer))
    /\ agreed' = agreed \cup {[packages |-> Listed(answer), worst |-> IF Bad(answer) THEN "block" ELSE "warn"]}
    /\ override' = Bad(answer)
    /\ preverified' = IF Bad(answer) THEN {} ELSE Preverify(answer)
    /\ GoTo("running")

\* EXIT_INSTALL_BLOCKED, or an interrupt.
NoTree(answer) ==
    /\ AskedTree(answer)
    /\ approved' = Approving(approved, NowOf(CoveredTree(answer), answer))
    /\ Stop(2) \/ Stop(130)
    /\ UNCHANGED <<agreed, override, preverified>>
-----------------------------------------------------------------------------
(* The scanner may leave packages out.  The cooldown is only asked for in  *)
(* the second question.                                                    *)
AnswerNamed == UNION {[came -> {a \in Said : a.cooldown = "none"}] : came \in SUBSET pins}
AnswerTree == UNION {[came -> Said] : came \in SUBSET (pins \cup Deps)}

PreInit ==
    /\ manager \in {"pip", "npm", "other"}
    /\ asks \in BOOLEAN /\ live \in BOOLEAN /\ force \in BOOLEAN
    /\ config \in Setting /\ ~config.strictEgress
    /\ pins \in SUBSET Pinned
    /\ phase = "named" /\ exit = 0
    /\ approved = Nothing /\ saidFirst = Nothing /\ saidThen = Nothing
    /\ agreed = {} /\ preverified = {} /\ override = FALSE

PreNext ==
    \/ SkipNamed \/ SkipTree
    \/ CanAskNamed /\ \E answer \in AnswerNamed :
          \/ NothingNamed(answer) \/ BlockNamed(answer) \/ YesNamed(answer) \/ NoNamed(answer)
    \/ CanAskTree /\ \E answer \in AnswerTree :
          Unasked(answer) \/ YesTree(answer) \/ NoTree(answer)
-----------------------------------------------------------------------------
Agreed(p, a) == \E g \in agreed : p \in g.packages /\ Severity[g.worst] >= Severity[a]

\* The second answer stands where there is one: it knows the cooldown.
LastSaid(p) == IF p \in DOMAIN saidThen THEN ActionNow(p, saidThen[p])
               ELSE IF p \in DOMAIN saidFirst THEN saidFirst[p].action ELSE "pass"

(***************************************************************************)
(* On a terminal, an install runs with a package that the last answer      *)
(* blocked, or that the cooldown holds, only if the user said yes to a     *)
(* question about a block, or forced it where the policy blocks at all: a  *)
(* yes to a milder first answer is no yes to a worse second one, and       *)
(* nothing that dg.json accepts lets a block or a hold through             *)
(* (install-preflight.ts:126, isPreflightApproved).                        *)
(***************************************************************************)
BlocksAreAsked ==
    phase = "running" /\ asks /\ config.mode \in {"block", "strict"} /\ ~(force /\ config.allowForce) =>
        \A p \in DOMAIN saidFirst \cup DOMAIN saidThen : LastSaid(p) = "block" => Agreed(p, "block")

(***************************************************************************)
(* What dg.json accepts of a package is what it found once: an install     *)
(* runs with a package that the second answer warns of only if dg.json     *)
(* accepts what that answer found, or the user said yes                    *)
(* (src/README.md:176, "A new finding category, a severity escalation, or  *)
(* a block always resurfaces").                                            *)
(***************************************************************************)
WarningsResurface ==
    phase = "running" /\ asks =>
        \A p \in DOMAIN saidThen :
            LastSaid(p) = "warn" => IsCovered(p, saidThen[p]) \/ Agreed(p, "warn")

\* InstallProxy, TrustPreverified: what the proxy takes from the preflight.
ProxyTrusts(p) ==
    \E e \in preverified : e.name = p /\ e.hashed /\ (e.cooldownEvaluated \/ ~config.cooldown)

(***************************************************************************)
(* Where nobody could be asked, the proxy still enforces: a package that    *)
(* the cooldown holds is not among those the proxy lets through without     *)
(* asking the scanner (test/unit/install-preflight.test.ts:120, "non-TTY    *)
(* never prompts (proceeds; the proxy still enforces during install)").     *)
(***************************************************************************)
ProxyStillEnforces ==
    phase = "running" =>
        \A p \in DOMAIN saidThen :
            IsHeld(p, saidThen[p]) /\ ProxyTrusts(p) => Agreed(p, "block")
==============================================================================
