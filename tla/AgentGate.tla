------------------------------ MODULE AgentGate ------------------------------
(***************************************************************************)
(* dg hook-exec: a coding agent is about to run a shell command and asks   *)
(* whether it may (src/src/launcher/agent-check.ts, agent-hook-io.ts,      *)
(* agent-hook-exec.ts, manifest-screen.ts).  The command is cut into the   *)
(* simple commands a shell would run, each is screened, and one decision   *)
(* comes back before the agent's own timeout kills the hook.               *)
(*                                                                         *)
(* The text of the command is abstracted: a simple command is a record of  *)
(* what the parser learns about it, and the parser is taken to be right.   *)
(***************************************************************************)
EXTENDS Decisions, Naturals

CONSTANTS
    Parts,        \* number of simple commands in the command line
    Forms,        \* the simple commands that occur
    Answers,      \* what the scanner may say of a package
    Entries,      \* the decisions of dg.json that count here
    Exempt,       \* packages exempt from the cooldown
    BlockUnknown, \* cooldown.onUnknown = "block"
    MaxShells     \* how many sh -c are unwrapped (8 in the code)

Part == 1..Parts
Package == UNION {f.specs \cup f.manifest : f \in Forms}

VARIABLES
    agent,     \* whose contract the answer is written for
    command,   \* the simple commands, in order
    shells,    \* around each of them, how many sh -c or eval
    together,  \* all of them are in one script, whose parts are checked at once
    routing,   \* DG_PROXY_ACTIVE is set, and a proxy URL of this machine
    service,   \* dg's own service proxy is up
    stage,     \* of the check of each part
    result,    \* of each part
    heard,     \* what the scanner said of each part's packages
    left,      \* parts left to the proxy, which was up when it was looked at
    emitted    \* what the agent is told

gateVars == <<agent, command, shells, together, routing, service, stage, result, heard, left, emitted>>
line == <<agent, command, shells, together, routing>>

\* What lexing, unwrapping and classifying tell of a simple command.
CommandHead == {"other", "manager", "cargo", "unsupported"}
Form == [head     : CommandHead,
         parsed   : BOOLEAN,
         verb     : {"install", "dynamic", "other"},
         xargs    : BOOLEAN,
         specs    : SUBSET Package,
         pinned   : BOOLEAN,
         dynamic  : BOOLEAN,
         remote   : BOOLEAN,
         garbled  : BOOLEAN,
         index    : BOOLEAN,
         manifest : SUBSET Package,
         cut      : BOOLEAN]

ASSUME GateAssumption ==
    /\ Parts \in Nat /\ MaxShells \in Nat /\ Forms \subseteq Form
    /\ \A a \in Answers : a.action \in ScannerAction \cup {"missing"} /\ AreFindings(a.findings)
    /\ \A e \in Entries : AreAccepted(e.accepted)

----------------------------------------------------------------------------
(* Reading one simple command. *)

IsManager(f) == f.head \in {"manager", "cargo"}

\* What the shell will only know when it runs the command.
Undecidable(f, depth) ==
    \/ depth > MaxShells
    \/ f.head = "unsupported"
    \/ IsManager(f) /\ f.parsed /\ f.verb = "dynamic"
    \/ f.head = "manager" /\ f.parsed /\ f.verb = "install" /\ (f.xargs \/ f.dynamic)

\* An install of packages that can be named here.
Screenable(f, depth) ==
    f.head = "manager" /\ f.parsed /\ f.verb = "install" /\ ~Undecidable(f, depth)

\* No package on the command line: the manifest's direct dependencies.
ReadsManifest(f) == f.specs = {} /\ ~f.remote
Wanted(f) == IF ReadsManifest(f) THEN f.manifest ELSE f.specs

\* The registry that was screened is not where the bytes come from, or the
\* manifest holds more than is screened.
Unverifiable(f) == f.remote \/ f.index \/ (ReadsManifest(f) /\ f.cut)

\* The proxy counts only if the flag, the address and the service agree.
ProxyLive == routing.flag /\ routing.loopback /\ service

\* undecidableVerdict
LeftToProxy == IF ProxyLive THEN "allow" ELSE "ask"

\* The verdict on a part that needs no scan.
Static(f, depth) ==
    IF Undecidable(f, depth) THEN LeftToProxy
    ELSE IF ~IsManager(f) \/ (f.parsed /\ f.verb = "other") THEN "allow"
    ELSE IF ~f.parsed \/ f.head = "cargo" THEN "ask"
    ELSE IF f.garbled THEN "deny"
    ELSE IF Unverifiable(f) THEN "ask" ELSE "allow"

NeedsScan(f, depth) == Screenable(f, depth) /\ ~f.garbled /\ Wanted(f) # {}
----------------------------------------------------------------------------
(* What the scanner's answer amounts to. *)

Quarantined(p, answer) ==
    /\ p \notin Exempt
    /\ \/ answer.cooldown = "quarantine"
       \/ answer.cooldown = "unknown" /\ BlockUnknown

WarnAccepted(p, answer) ==
    Acknowledged([name |-> p, version |-> "v", action |-> answer.action, findings |-> answer.findings], Entries)

\* A package without an action was not analyzed.
Graded(p, answer) ==
    IF answer.action \in {"block", "missing", "analysis_incomplete"} \/ Quarantined(p, answer) THEN "deny"
    ELSE IF answer.action = "warn" /\ ~WarnAccepted(p, answer) THEN "ask" ELSE "allow"

WorstOf(decisions) ==
    IF "deny" \in decisions THEN "deny" ELSE IF "ask" \in decisions THEN "ask" ELSE "allow"

\* Slip: only what the scanner returned is looked at.
PackagesOfWhatCame(f, answer) == WorstOf({Graded(p, answer[p]) : p \in DOMAIN answer})

\* combinePackages: a package the scanner left out counts as not analyzed. What
\* came back is looked up by normalized name alone, so a package is a name here:
\* where one command names two versions of it, an answer on one is enough.
Packages(f, answer) ==
    WorstOf({Graded(p, answer[p]) : p \in DOMAIN answer}
            \cup {"deny" : p \in Wanted(f) \ DOMAIN answer})

\* combineRaw: one part that is denied denies the command, and so on.
Combine(results) == WorstOf(Range(results))

\* emitDecision: agents that cannot ask block instead.
Reply(who, decision) == IF decision = "allow" THEN "allow"
                        ELSE IF decision = "ask" /\ who = "asks" THEN "ask" ELSE "block"
----------------------------------------------------------------------------
(* The check.  Parts of a line are checked one after the other, those of a *)
(* wrapped script at once.                                                 *)

Running == emitted = "none" /\ stage # <<>>
Turn(n) == Running /\ (together \/ \A m \in 1..(n - 1) : stage[m] = "done")

Settle(n, r) == stage' = [stage EXCEPT ![n] = "done"] /\ result' = [result EXCEPT ![n] = r]

\* maybeAgentHookExec: an agent this version does not know is refused, a
\* payload that cannot be read is denied.
ReadPayload ==
    /\ emitted = "none" /\ stage = <<>>
    /\ \/ agent = "unknown" /\ emitted' = "block" /\ UNCHANGED stage
       \/ agent # "unknown" /\ emitted' = Reply(agent, "deny") /\ UNCHANGED stage
       \/ agent # "unknown" /\ stage' = [n \in Part |-> "waiting"] /\ UNCHANGED emitted
    /\ UNCHANGED <<line, service, result, heard, left>>

CheckStatic(n) ==
    /\ Turn(n) /\ stage[n] = "waiting" /\ ~NeedsScan(command[n], shells[n])
    /\ Settle(n, Static(command[n], shells[n]))
    /\ left' = IF Undecidable(command[n], shells[n]) /\ routing.loopback /\ service
               THEN left \cup {n} ELSE left
    /\ UNCHANGED <<line, service, heard, emitted>>

\* Versions that were not given are looked up at the registry.
Resolve(n) ==
    /\ Turn(n) /\ stage[n] = "waiting" /\ NeedsScan(command[n], shells[n])
    /\ \/ stage' = [stage EXCEPT ![n] = "asking"] /\ UNCHANGED result
       \/ ~command[n].pinned /\ Settle(n, "deny")
    /\ UNCHANGED <<line, service, heard, left, emitted>>

Scanned(n) ==
    /\ Running /\ stage[n] = "asking"
    /\ \E came \in SUBSET Wanted(command[n]) : \E answer \in [came -> Answers] :
          LET f == command[n]
              d == Packages(f, answer)
          IN /\ heard' = [heard EXCEPT ![n] = answer]
             /\ Settle(n, IF d = "allow" /\ Unverifiable(f) THEN "ask" ELSE d)
    /\ UNCHANGED <<line, service, left, emitted>>

\* The scanner cannot be reached, or the session is not signed in.
ScanFails(n) ==
    /\ Running /\ stage[n] = "asking"
    /\ Settle(n, "deny")
    /\ UNCHANGED <<line, service, heard, left, emitted>>

\* The verdict, if it is there before the deadline.
Conclude ==
    /\ Running /\ \A n \in Part : stage[n] = "done"
    /\ emitted' = Reply(agent, Combine(result))
    /\ UNCHANGED <<line, service, stage, result, heard, left>>

\* The deadline passes, or the check throws.
Deadline ==
    /\ Running
    /\ emitted' = Reply(agent, "deny")
    /\ UNCHANGED <<line, service, stage, result, heard, left>>

StopService ==
    /\ service /\ service' = FALSE
    /\ UNCHANGED <<line, stage, result, heard, left, emitted>>
----------------------------------------------------------------------------
GateInit ==
    /\ agent \in {"asks", "blocks", "unknown"}
    /\ command \in [Part -> Forms]
    /\ shells \in [Part -> 0..(MaxShells + 1)]
    /\ together \in BOOLEAN
    /\ together => \A n, m \in Part : shells[n] = shells[m] /\ shells[n] > 0
    /\ routing \in [flag : BOOLEAN, loopback : BOOLEAN]
    /\ service \in BOOLEAN
    /\ stage = <<>>
    /\ result = [n \in Part |-> "none"]
    /\ heard = [n \in Part |-> <<>>]
    /\ left = {}
    /\ emitted = "none"

GateNext ==
    \/ ReadPayload \/ Conclude \/ Deadline \/ StopService
    \/ \E n \in Part : CheckStatic(n) \/ Resolve(n) \/ Scanned(n) \/ ScanFails(n)
----------------------------------------------------------------------------
\* What an install has to show for itself before it may run unasked: every
\* package it names was found clean, or its warning was accepted finding by
\* finding, and comes from where it was screened.
ShownClean(p, answer) ==
    /\ ~Quarantined(p, answer)
    /\ \/ answer.action = "pass"
       \/ /\ answer.action = "warn"
          /\ \E e \in Entries : /\ e.name = p /\ ~e.expired
                                /\ \A g \in answer.findings :
                                      g[1] \in DOMAIN e.accepted /\ g[2] <= e.accepted[g[1]]

Earned(n) ==
    LET f == command[n]
    IN \/ n \in left
       \/ ~Undecidable(f, shells[n]) /\ (~IsManager(f) \/ (f.parsed /\ f.verb = "other"))
       \/ /\ Screenable(f, shells[n]) /\ ~Unverifiable(f)
          /\ \A p \in Wanted(f) : p \in DOMAIN heard[n] /\ ShownClean(p, heard[n][p])

(***************************************************************************)
(* The agent is told to go ahead only if every simple command of the line  *)
(* either installs nothing, or was left to a proxy that was seen to be up, *)
(* or has had each of its packages, told apart by name, found clean:       *)
(* whatever part came first, however deep it was wrapped, and whenever the *)
(* deadline struck (agent-check.ts: "A package the scanner omitted must    *)
(* not be silently allowed", "a slow path fails closed").                  *)
(***************************************************************************)
AllowIsEarned == emitted = "allow" => \A n \in Part : Earned(n)
===============================================================================
