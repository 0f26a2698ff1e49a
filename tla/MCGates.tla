------------------------------- MODULE MCGates -------------------------------
(***************************************************************************)
(* The gates in front of an install or a commit, and the limit on what an  *)
(* install may buffer, on small instances: a behaviour is about one of     *)
(* them, and the variables of the others stand still.                      *)
(***************************************************************************)
EXTENDS AgentGate, Preflight, ScanCommand, Archive, BufferBudget

VARIABLE part

(* What the scanner may say, and what dg.json accepts.                     *)
Answer(a, c, f) == [action |-> a, cooldown |-> c, findings |-> f]
AgentAnswers == {Answer("pass", "clear", {}), Answer("pass", "quarantine", {}),
                 Answer("pass", "unknown", {}), Answer("block", "clear", {}),
                 Answer("warn", "clear", {<<"net", 1>>}), Answer("warn", "clear", {<<"net", 2>>}),
                 Answer("missing", "clear", {})}
Entry(name, accepted) == [name |-> name, version |-> "any", expired |-> FALSE, accepted |-> accepted]
NetOne == [c \in {"net"} |-> 1]
AgentEntries == {Entry("a", NetOne), [Entry("b", NetOne) EXCEPT !.expired = TRUE]}

Install == [head |-> "manager", parsed |-> TRUE, verb |-> "install", xargs |-> FALSE,
            specs |-> {"a"}, pinned |-> TRUE, dynamic |-> FALSE, remote |-> FALSE,
            garbled |-> FALSE, index |-> FALSE, manifest |-> {}, cut |-> FALSE]
AgentForms ==
    {Install,
     [Install EXCEPT !.head = "other"],
     [Install EXCEPT !.specs = {}, !.manifest = {"a", "b"}, !.pinned = FALSE],
     [Install EXCEPT !.specs = {}, !.manifest = {"b"}, !.cut = TRUE],
     [Install EXCEPT !.index = TRUE],
     [Install EXCEPT !.remote = TRUE, !.specs = {}],
     [Install EXCEPT !.garbled = TRUE],
     [Install EXCEPT !.verb = "dynamic"],
     [Install EXCEPT !.verb = "other", !.head = "cargo"],
     [Install EXCEPT !.head = "cargo"],
     [Install EXCEPT !.parsed = FALSE]}

Told(a, c, f, h) == [action |-> a, cooldown |-> c, findings |-> f, hashed |-> h]
PreSaid == {Told("pass", "none", {}, TRUE), Told("warn", "none", {<<"net", 2>>}, TRUE),
            Told("warn", "none", {<<"net", 1>>}, TRUE),
            Told("analysis_incomplete", "none", {}, TRUE), Told("block", "none", {}, FALSE),
            Told("pass", "quarantine", {}, TRUE), Told("warn", "clear", {<<"net", 1>>}, FALSE),
            Told("warn", "unknown", {<<"net", 1>>}, TRUE), Told("missing", "clear", {}, TRUE)}
PreEntries == {Entry("p", NetOne)}

(* Lockfiles; the entries of the one of version 1 come in pairs, and the    *)
(* second of a pair is of another source than the first.                   *)
Locked(name) == [name |-> name, resolved |-> "registry", declared |-> "none", shape |-> "plain",
                 hashed |-> TRUE, first |-> TRUE]
Lockfile(format, place, entries) == [format |-> format, place |-> place, trouble |-> "no", entries |-> entries]
ScanFiles ==
    {Lockfile("package-lock", "root", {[Locked("x") EXCEPT !.declared = "local"], [Locked("y") EXCEPT !.resolved = "git"]}),
     Lockfile("package-lock-v1", "sub", {Locked("x"),
                                         [Locked("x") EXCEPT !.resolved = "git", !.first = FALSE],
                                         [Locked("y") EXCEPT !.resolved = "elsewhere", !.hashed = FALSE],
                                         [Locked("y") EXCEPT !.declared = "local", !.first = FALSE]}),
     Lockfile("yarn", "root", {[Locked("x") EXCEPT !.shape = "nameless"], [Locked("y") EXCEPT !.declared = "workspace"]}),
     Lockfile("pnpm", "vendor", {Locked("x"), [Locked("y") EXCEPT !.declared = "direct-url"]}),
     Lockfile("requirements", "root", {[Locked("x") EXCEPT !.resolved = "none"],
                                       [Locked("x") EXCEPT !.resolved = "none", !.hashed = FALSE, !.first = FALSE],
                                       [Locked("y") EXCEPT !.resolved = "none", !.declared = "direct-url"]}),
     [Lockfile("requirements", "sub", {[Locked("x") EXCEPT !.resolved = "none", !.shape = "unpinned"],
                                       [Locked("y") EXCEPT !.resolved = "none", !.shape = "garbled"]})
        EXCEPT !.trouble = "include"],
     Lockfile("poetry", "sub", {[Locked("x") EXCEPT !.resolved = "none"],
                                [Locked("y") EXCEPT !.resolved = "none", !.declared = "git"]}),
     [Lockfile("pipfile", "sub", {}) EXCEPT !.trouble = "not-object"],
     [Lockfile("package-lock", "sub", {Locked("x")}) EXCEPT !.trouble = "malformed"],
     Lockfile("cargo", "root", {[Locked("x") EXCEPT !.resolved = "none"], [Locked("y") EXCEPT !.resolved = "git"]})}

Say(a, f) == [action |-> a, findings |-> f]
ScanReplies == {Say("pass", {}), Say("warn", {<<"net", 1>>}), Say("warn", {<<"net", 2>>}),
                Say("block", {}), Say("analysis_incomplete", {}), Say("missing", {})}
ScanEntries == {Entry(<<"npm", "x">>, NetOne), [Entry(<<"pypi", "x">>, NetOne) EXCEPT !.expired = TRUE]}

(* The variables of a gate that no behaviour of this part is about.        *)
NoGate == /\ agent = "unknown" /\ service = TRUE /\ routing = [flag |-> TRUE, loopback |-> TRUE]
          /\ together = FALSE /\ command = [n \in Part |-> Install] /\ shells = [n \in Part |-> 0]
NoPreflight == /\ manager = "other" /\ asks = FALSE /\ live = FALSE /\ force = FALSE
               /\ config = DefaultSetting /\ pins = {}
NoScan == /\ surface = "plain" /\ terminal = FALSE /\ found = {} /\ manifests = {}
          /\ settings = [mode |-> "block", onWarn |-> "prompt", onIncomplete |-> "block"]
NoArchive == zip = NoZip

MCInit ==
    /\ part \in {"agent", "preflight", "scan", "archive", "budget"}
    /\ IF part = "agent" THEN GateInit ELSE NoGate /\ GateInit
    /\ IF part = "preflight" THEN PreInit ELSE NoPreflight /\ PreInit
    /\ IF part = "scan" THEN ScanInit ELSE NoScan /\ ScanInit
    /\ IF part = "archive" THEN ArchiveInit ELSE NoArchive /\ ArchiveInit
    /\ BudgetInit

MCNext ==
    /\ part' = part
    /\ \/ part = "agent" /\ GateNext /\ UNCHANGED <<preVars, scanVars, archiveVars, budgetVars>>
       \/ part = "preflight" /\ PreNext /\ UNCHANGED <<gateVars, scanVars, archiveVars, budgetVars>>
       \/ part = "scan" /\ ScanNext /\ UNCHANGED <<gateVars, preVars, archiveVars, budgetVars>>
       \/ part = "archive" /\ ArchiveNext /\ UNCHANGED <<gateVars, preVars, scanVars, budgetVars>>
       \/ part = "budget" /\ BudgetNext /\ UNCHANGED <<gateVars, preVars, scanVars, archiveVars>>

MCSpec == MCInit /\ [][MCNext]_<<gateVars, preVars, scanVars, archiveVars, budgetVars, part>>
==============================================================================
