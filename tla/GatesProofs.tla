----------------------------- MODULE GatesProofs -----------------------------
(***************************************************************************)
(* The gates in front of an install or a commit let through only what      *)
(* their invariants say, for any commands, packages, answers of the        *)
(* scanner and decisions of dg.json.                                       *)
(***************************************************************************)
EXTENDS AgentGate, Preflight, ScanCommand, Archive, BufferBudget,
        FiniteSetTheorems, TLAPS

GateSpec == GateInit /\ [][GateNext]_gateVars
PreSpec == PreInit /\ [][PreNext]_preVars
ScanSpec == ScanInit /\ [][ScanNext]_scanVars
ArchiveSpec == ArchiveInit /\ [][ArchiveNext]_archiveVars
BudgetSpec == BudgetInit /\ [][BudgetNext]_budgetVars
-----------------------------------------------------------------------------
(* What an acceptance covers.                                              *)

\* A set of severities has a highest.
LEMMA HighestIs ==
    ASSUME NEW T \in SUBSET FindingSeverity, T # {}
    PROVE  Max(T) \in T /\ \A y \in T : y <= Max(T)
<1>1. \E x \in T : \A y \in T : x >= y
  <2>1. CASE 5 \in T
    BY <2>1 DEF FindingSeverity
  <2>2. CASE 5 \notin T /\ 4 \in T
    BY <2>2 DEF FindingSeverity
  <2>3. CASE 5 \notin T /\ 4 \notin T /\ 3 \in T
    BY <2>3 DEF FindingSeverity
  <2>4. CASE 5 \notin T /\ 4 \notin T /\ 3 \notin T /\ 2 \in T
    BY <2>4 DEF FindingSeverity
  <2>5. CASE 5 \notin T /\ 4 \notin T /\ 3 \notin T /\ 2 \notin T
    <3>1. PICK x \in T : TRUE
      OBVIOUS
    <3>2. \A y \in T : y = 1
      BY <2>5 DEF FindingSeverity
    <3> QED  BY <3>1, <3>2
  <2> QED  BY <2>1, <2>2, <2>3, <2>4, <2>5
<1>2. Max(T) \in T /\ \A y \in T : Max(T) >= y
  BY <1>1 DEF Max
<1> QED  BY <1>2 DEF FindingSeverity

\* When nothing is uncovered, each finding is accepted at its severity.
LEMMA CoveredOneByOne ==
    ASSUME NEW these, NEW accepted, AreFindings(these), AreAccepted(accepted),
           Uncovered(Fingerprint(these), accepted) = {}
    PROVE  \A g \in these : g[1] \in DOMAIN accepted /\ g[2] <= accepted[g[1]]
<1> SUFFICES ASSUME NEW g \in these
             PROVE  g[1] \in DOMAIN accepted /\ g[2] <= accepted[g[1]]
  OBVIOUS
<1> DEFINE alike == {h \in these : h[1] = g[1]}
           T == {f[2] : f \in alike}
<1>1. g[1] \in DOMAIN Fingerprint(these) /\ Fingerprint(these)[g[1]] = Max(T)
  BY DEF Fingerprint
<1>2. T \in SUBSET FindingSeverity /\ g[2] \in T
  BY DEF AreFindings
<1>3. g[2] <= Max(T) /\ Max(T) \in FindingSeverity
  <2> HIDE DEF T
  <2> QED  BY <1>2, HighestIs
<1>4. g[1] \in DOMAIN accepted /\ ~(Max(T) > accepted[g[1]])
  <2> HIDE DEF T
  <2> QED  BY <1>1 DEF Uncovered
<1> QED
  <2> HIDE DEF T
  <2>1. accepted[g[1]] \in FindingSeverity /\ g[2] \in FindingSeverity
    BY <1>2, <1>4 DEF AreAccepted
  <2>2. ASSUME NEW x \in FindingSeverity, NEW y \in FindingSeverity, NEW z \in FindingSeverity,
               x <= y, ~(y > z)
        PROVE  x <= z
    BY <2>2 DEF FindingSeverity
  <2> QED  BY <1>3, <1>4, <2>1, <2>2
-----------------------------------------------------------------------------
(* The agent gate.                                                         *)

Answered == {<<>>} \cup UNION {[came -> Answers] : came \in SUBSET Package}
GateTypes ==
    /\ command \in [Part -> Forms] /\ DOMAIN shells = Part
    /\ stage # <<>> => stage \in [Part -> {"waiting", "asking", "done"}]
    /\ result \in [Part -> {"none", "allow", "ask", "deny"}]
    /\ heard \in [Part -> Answered]

\* Only a part with packages to screen is scanned, and a part that is done with
\* nothing against it has shown it.
PartOK(n) ==
    /\ stage[n] = "asking" => NeedsScan(command[n], shells[n])
    /\ stage[n] = "done" => result[n] # "none"
    /\ stage[n] = "done" /\ result[n] = "allow" => Earned(n)

GateInv ==
    /\ GateTypes
    /\ stage # <<>> => \A n \in Part : PartOK(n)
    /\ AllowIsEarned

\* A package that is graded to go ahead was found clean, or accepted.
LEMMA GradedIsShown ==
    ASSUME NEW p, NEW a \in Answers, Graded(p, a) = "allow"
    PROVE  ShownClean(p, a)
<1>1. a.action \in {"pass", "warn"} /\ ~Quarantined(p, a) /\ (a.action = "warn" => WarnAccepted(p, a))
  BY GateAssumption DEF Graded, ScannerAction
<1>2. CASE a.action = "pass"
  BY <1>1, <1>2 DEF ShownClean
<1>3. CASE a.action = "warn"
  <2>1. PICK e \in Entries : e.name = p /\ ~e.expired
                             /\ Uncovered(Fingerprint(a.findings), e.accepted) = {}
    BY <1>1, <1>3 DEF WarnAccepted, Acknowledged, Applies
  <2>2. AreFindings(a.findings) /\ AreAccepted(e.accepted)
    BY GateAssumption
  <2>3. \A g \in a.findings : g[1] \in DOMAIN e.accepted /\ g[2] <= e.accepted[g[1]]
    BY <2>1, <2>2, CoveredOneByOne
  <2> QED  BY <1>1, <1>3, <2>1, <2>3 DEF ShownClean
<1> QED  BY <1>1, <1>2, <1>3

\* All of them, when the scanner answered for all of them.
LEMMA PackagesAreShown ==
    ASSUME NEW f, NEW came \in SUBSET Wanted(f), NEW answer \in [came -> Answers],
           Packages(f, answer) = "allow"
    PROVE  \A p \in Wanted(f) : p \in DOMAIN answer /\ ShownClean(p, answer[p])
<1> SUFFICES ASSUME NEW p \in Wanted(f)  PROVE p \in came /\ ShownClean(p, answer[p])
  OBVIOUS
<1> DEFINE grades == {Graded(q, answer[q]) : q \in DOMAIN answer} \cup {"deny" : q \in Wanted(f) \ DOMAIN answer}
<1>1. "deny" \notin grades /\ "ask" \notin grades
  BY DEF Packages, WorstOf
<1>2. p \in came
  BY <1>1
<1>3. Graded(p, answer[p]) \in grades
  BY <1>2
<1>4. Graded(p, answer[p]) \in {"allow", "ask", "deny"}
  BY DEF Graded
<1>5. Graded(p, answer[p]) = "allow"
  BY <1>1, <1>3, <1>4
<1> QED  BY <1>2, <1>5, GradedIsShown

\* A part that is settled without a scan, and goes ahead.
LEMMA StaticIsEarned ==
    ASSUME GateTypes, NEW n \in Part, Static(command[n], shells[n]) = "allow",
           ~NeedsScan(command[n], shells[n]),
           command' = command, shells' = shells,
           left' = IF Undecidable(command[n], shells[n]) /\ routing.loopback /\ service
                   THEN left \cup {n} ELSE left
    PROVE  Earned(n)'
<1> DEFINE f == command[n]
           depth == shells[n]
<1>1. f \in Form
  BY GateAssumption DEF GateTypes
<1>2. CASE Undecidable(f, depth)
  <2>1. ProxyLive
    BY <1>2 DEF Static, LeftToProxy
  <2> QED  BY <1>2, <2>1 DEF ProxyLive, Earned
<1>3. CASE ~Undecidable(f, depth) /\ (~IsManager(f) \/ (f.parsed /\ f.verb = "other"))
  BY <1>3 DEF Earned
<1>4. CASE ~Undecidable(f, depth) /\ ~(~IsManager(f) \/ (f.parsed /\ f.verb = "other"))
  <2>1. f.parsed /\ f.head = "manager" /\ ~f.garbled /\ ~Unverifiable(f) /\ f.verb # "other"
    BY <1>4 DEF Static, IsManager
  <2>2. f.verb = "install"
    BY <1>1, <1>4, <2>1 DEF Form, Undecidable, IsManager
  <2>3. Screenable(f, depth) /\ Wanted(f) = {}
    BY <1>4, <2>1, <2>2 DEF Screenable, NeedsScan
  <2> QED  BY <2>1, <2>3 DEF Earned
<1> QED  BY <1>2, <1>3, <1>4

\* What a part has to show does not go away.
LEMMA StaysEarned ==
    ASSUME NEW n \in Part, Earned(n), UNCHANGED <<command, shells>>, left \subseteq left',
           heard'[n] = heard[n]
    PROVE  Earned(n)'
BY DEF Earned

LEMMA GateTypesKept ==
    ASSUME GateTypes, stage # <<>> => \A n \in Part : PartOK(n), [GateNext]_gateVars
    PROVE  GateTypes'
<1> USE DEF GateTypes, line
<1>1. CASE ReadPayload
  BY <1>1 DEF ReadPayload
<1>2. CASE Conclude \/ Deadline \/ StopService \/ UNCHANGED gateVars
  BY <1>2 DEF Conclude, Deadline, StopService, gateVars
<1>3. ASSUME NEW n \in Part, CheckStatic(n)  PROVE GateTypes'
  <2>1. Static(command[n], shells[n]) \in {"allow", "ask", "deny"}
    BY DEF Static, LeftToProxy
  <2> QED  BY <1>3, <2>1 DEF CheckStatic, Turn, Running, Settle
<1>4. ASSUME NEW n \in Part, Resolve(n) \/ ScanFails(n)  PROVE GateTypes'
  BY <1>4 DEF Resolve, ScanFails, Turn, Running, Settle
<1>5. ASSUME NEW n \in Part, Scanned(n)  PROVE GateTypes'
  <2>1. PICK came \in SUBSET Wanted(command[n]) : \E answer \in [came -> Answers] :
           /\ heard' = [heard EXCEPT ![n] = answer]
           /\ Settle(n, IF Packages(command[n], answer) = "allow" /\ Unverifiable(command[n])
                        THEN "ask" ELSE Packages(command[n], answer))
    BY <1>5 DEF Scanned
  <2>2. PICK answer \in [came -> Answers] :
           /\ heard' = [heard EXCEPT ![n] = answer]
           /\ Settle(n, IF Packages(command[n], answer) = "allow" /\ Unverifiable(command[n])
                        THEN "ask" ELSE Packages(command[n], answer))
    BY <2>1
  <2>3. Wanted(command[n]) \subseteq Package
    BY GateAssumption DEF Wanted, Package
  <2>4. answer \in Answered
    BY <2>3 DEF Answered
  <2>5. Packages(command[n], answer) \in {"allow", "ask", "deny"}
    BY DEF Packages, WorstOf
  <2> QED  BY <1>5, <2>2, <2>4, <2>5 DEF Scanned, Running, Settle
<1> QED  BY <1>1, <1>2, <1>3, <1>4, <1>5 DEF GateNext
\* Each step leaves the parts with what they have to show.
LEMMA PartsKept ==
    ASSUME GateTypes, GateTypes', stage # <<>> => \A m \in Part : PartOK(m), [GateNext]_gateVars,
           stage' # <<>>, NEW m \in Part
    PROVE  PartOK(m)'
<1>1. CASE ReadPayload
  <2>1. stage'[m] = "waiting" \/ UNCHANGED stage
    BY <1>1 DEF ReadPayload
  <2>2. stage = <<>>
    BY <1>1 DEF ReadPayload
  <2> QED  BY <2>1, <2>2 DEF PartOK
<1>2. ASSUME UNCHANGED <<command, shells, stage, result, heard, left>>  PROVE PartOK(m)'
  BY <1>2, StaysEarned DEF PartOK
<1>3. CASE Conclude \/ Deadline \/ StopService \/ UNCHANGED gateVars
  BY <1>2, <1>3 DEF Conclude, Deadline, StopService, gateVars, line
<1>4. ASSUME NEW n \in Part, n # m, stage # <<>>, UNCHANGED <<command, shells>>, left \subseteq left',
             heard'[m] = heard[m], stage'[m] = stage[m], result'[m] = result[m]
      PROVE  PartOK(m)'
  BY <1>4, StaysEarned DEF PartOK
<1>5. ASSUME NEW n \in Part, CheckStatic(n)  PROVE PartOK(m)'
  <2>1. /\ UNCHANGED <<command, shells, heard>> /\ left \subseteq left' /\ stage # <<>>
        /\ stage' = [stage EXCEPT ![n] = "done"]
        /\ result' = [result EXCEPT ![n] = Static(command[n], shells[n])]
    BY <1>5 DEF CheckStatic, Turn, Running, Settle, line
  <2>2. CASE n # m
    BY <1>4, <2>1, <2>2 DEF GateTypes
  <2>3. CASE n = m
    <3>1. Static(command[m], shells[m]) # "none"
      BY DEF Static, LeftToProxy
    <3>2. stage'[m] = "done" /\ result'[m] = Static(command[m], shells[m])
      BY <2>1, <2>3 DEF GateTypes
    <3>3. Static(command[m], shells[m]) = "allow" => Earned(m)'
      BY <1>5, <2>3, StaticIsEarned DEF CheckStatic, line
    <3> QED  BY <3>1, <3>2, <3>3 DEF PartOK
  <2> QED  BY <2>2, <2>3
<1>6. ASSUME NEW n \in Part, Resolve(n) \/ ScanFails(n)  PROVE PartOK(m)'
  <2>1. /\ UNCHANGED <<command, shells, heard, left>> /\ stage # <<>>
        /\ \/ /\ stage' = [stage EXCEPT ![n] = "asking"] /\ UNCHANGED result
              /\ NeedsScan(command[n], shells[n])
           \/ stage' = [stage EXCEPT ![n] = "done"] /\ result' = [result EXCEPT ![n] = "deny"]
    BY <1>6 DEF Resolve, ScanFails, Turn, Running, Settle, line
  <2>2. CASE n # m
    BY <1>4, <2>1, <2>2 DEF GateTypes
  <2>3. CASE n = m
    BY <2>1, <2>3 DEF PartOK, GateTypes
  <2> QED  BY <2>2, <2>3
<1>7. ASSUME NEW n \in Part, Scanned(n)  PROVE PartOK(m)'
  <2> DEFINE f == command[n]
  <2>1. PICK came \in SUBSET Wanted(f) : \E answer \in [came -> Answers] :
           /\ heard' = [heard EXCEPT ![n] = answer]
           /\ Settle(n, IF Packages(f, answer) = "allow" /\ Unverifiable(f) THEN "ask" ELSE Packages(f, answer))
    BY <1>7 DEF Scanned
  <2>2. PICK answer \in [came -> Answers] :
           /\ heard' = [heard EXCEPT ![n] = answer]
           /\ Settle(n, IF Packages(f, answer) = "allow" /\ Unverifiable(f) THEN "ask" ELSE Packages(f, answer))
    BY <2>1
  <2>3. UNCHANGED <<command, shells, left>> /\ stage # <<>> /\ stage[n] = "asking"
    BY <1>7 DEF Scanned, Running, line
  <2>4. stage' = [stage EXCEPT ![n] = "done"] /\ DOMAIN result' = Part /\ \A k \in Part : k # n => result'[k] = result[k]
    BY <2>2 DEF Settle, GateTypes
  <2>5. CASE n # m
    BY <1>4, <2>2, <2>3, <2>4, <2>5 DEF GateTypes
  <2>6. CASE n = m
    <3>1. heard'[m] = answer /\ stage'[m] = "done"
      BY <2>2, <2>3, <2>4, <2>6 DEF GateTypes
    <3>2. result'[m] = IF Packages(f, answer) = "allow" /\ Unverifiable(f) THEN "ask" ELSE Packages(f, answer)
      BY <2>2, <2>6 DEF Settle, GateTypes
    <3>3. result'[m] # "none"
      BY <3>2 DEF Packages, WorstOf
    <3>4. ASSUME result'[m] = "allow"  PROVE Earned(m)'
      <4>1. Packages(f, answer) = "allow" /\ ~Unverifiable(f)
        BY <3>2, <3>4
      <4>2. \A p \in Wanted(f) : p \in DOMAIN answer /\ ShownClean(p, answer[p])
        BY <4>1, PackagesAreShown
      <4>3. Screenable(f, shells[m])
        BY <2>3, <2>6 DEF PartOK, NeedsScan
      <4> QED  BY <2>3, <2>6, <3>1, <4>1, <4>2, <4>3 DEF Earned
    <3> QED  BY <3>1, <3>3, <3>4 DEF PartOK
  <2> QED  BY <2>5, <2>6
<1> QED  BY <1>1, <1>3, <1>5, <1>6, <1>7 DEF GateNext

\* What is told is what the parts add up to, and what was told stands.
LEMMA ToldIsEarned ==
    ASSUME GateInv, [GateNext]_gateVars
    PROVE  AllowIsEarned'
<1>1. ASSUME emitted' = emitted, UNCHANGED <<command, shells>>, left \subseteq left',
             emitted = "none" \/ UNCHANGED heard
      PROVE  AllowIsEarned'
  BY <1>1, StaysEarned DEF GateInv, AllowIsEarned
<1>2. CASE ReadPayload
  BY <1>1, <1>2 DEF ReadPayload, Reply, AllowIsEarned, line
<1>3. CASE Conclude
  <2>1. ASSUME emitted' = "allow"  PROVE \A n \in Part : Earned(n)
    <3>1. Combine(result) = "allow"
      BY <1>3, <2>1 DEF Conclude, Reply
    <3>2. "deny" \notin Range(result) /\ "ask" \notin Range(result)
      BY <3>1 DEF Combine, WorstOf
    <3>3. \A n \in Part : result[n] \in {"none", "allow"}
      BY <3>2 DEF GateInv, GateTypes, Range
    <3> QED  BY <1>3, <3>3 DEF GateInv, PartOK, Conclude, Running
  <2> QED  BY <1>3, <2>1, StaysEarned DEF Conclude, AllowIsEarned, line
<1>4. CASE Deadline
  BY <1>4 DEF Deadline, Reply, AllowIsEarned
<1>5. CASE StopService \/ UNCHANGED gateVars
  BY <1>1, <1>5 DEF StopService, gateVars, line
<1>6. ASSUME NEW n \in Part, CheckStatic(n) \/ Resolve(n) \/ Scanned(n) \/ ScanFails(n)
      PROVE  AllowIsEarned'
  BY <1>1, <1>6 DEF CheckStatic, Resolve, Scanned, ScanFails, Turn, Running, line
<1> QED  BY <1>2, <1>3, <1>4, <1>5, <1>6 DEF GateNext

\* The agent is told to go ahead only with parts that install nothing, were
\* left to a proxy that was up, or have each package found clean: for any
\* command lines, packages, answers and decisions (agent-check.ts, runAgentCheck).
THEOREM AllowedIsEarned == GateSpec => []AllowIsEarned
<1>1. GateInit => GateInv
  BY DEF GateInit, GateInv, GateTypes, AllowIsEarned, Answered
<1>2. GateInv /\ [GateNext]_gateVars => GateInv'
  <2> SUFFICES ASSUME GateInv, [GateNext]_gateVars  PROVE GateInv'
    OBVIOUS
  <2>1. GateTypes'
    BY GateTypesKept DEF GateInv
  <2>2. stage' # <<>> => \A n \in Part : PartOK(n)'
    BY <2>1, PartsKept DEF GateInv
  <2>3. AllowIsEarned'
    BY ToldIsEarned
  <2> QED  BY <2>1, <2>2, <2>3 DEF GateInv
<1>3. GateInv => AllowIsEarned
  BY DEF GateInv
<1> QED  BY <1>1, <1>2, <1>3, PTL DEF GateSpec-----------------------------------------------------------------------------
(* The scan of a project or a commit.                                      *)

CommandTypes ==
    /\ settings \in [mode : {"off", "warn", "block", "strict"}, onWarn : {"prompt", "allow", "block"},
                     onIncomplete : {"allow", "block"}]
    /\ terminal \in BOOLEAN /\ yes \in BOOLEAN
    /\ found \subseteq Files /\ manifests \subseteq Manifest /\ seen \subseteq found
    /\ overall \in ScannerAction
    /\ \A p \in DOMAIN reply : reply[p] \in Replies

\* The overall action is no better than any of the answers.
Bounded == \A p \in DOMAIN reply : Severity[ActionOf(reply[p])] <= Severity[overall]

Progress ==
    /\ step \in {"list", "show", "ask"} => DOMAIN reply = {} /\ code = NoCode
    /\ step = "show" => surface \in {"hook", "staged", "machine"}
    /\ step = "ask" => surface \in {"hook", "staged", "machine", "plain"}
    /\ step = "decide" => /\ surface \in {"hook", "staged", "machine", "plain"} /\ code = NoCode
                          /\ Asked(seen) # {} /\ DOMAIN reply \subseteq Asked(seen) /\ Bounded

CommandInv == CommandTypes /\ Progress /\ BadIsNotZero /\ IncompleteIsHeld

\* The worst of a set of actions is in it, or a pass, and none is worse.
LEMMA WorstIs ==
    ASSUME NEW S \in SUBSET ScannerAction
    PROVE  /\ Worst(S) \in ScannerAction
           /\ \A a \in S : Severity[a] <= Severity[Worst(S)]
<1> DEFINE T == {Severity[a] : a \in S} \cup {0}
<1>1. T \subseteq 0..3 /\ 0 \in T
  BY DEF Severity, ScannerAction
<1>2. \E x \in T : \A y \in T : x >= y
  <2>1. CASE 3 \in T
    BY <1>1, <2>1
  <2>2. CASE 3 \notin T /\ 2 \in T
    BY <1>1, <2>2
  <2>3. CASE 3 \notin T /\ 2 \notin T /\ 1 \in T
    BY <1>1, <2>3
  <2>4. CASE 3 \notin T /\ 2 \notin T /\ 1 \notin T
    BY <1>1, <2>4
  <2> QED  BY <2>1, <2>2, <2>3, <2>4
<1>3. Max(T) \in T /\ \A y \in T : Max(T) >= y
  <2> HIDE DEF T
  <2> QED  BY <1>2 DEF Max
<1>4. \A n \in 0..3 : FromSeverity(n) \in ScannerAction /\ Severity[FromSeverity(n)] = n
  <2> SUFFICES ASSUME NEW n \in 0..3
               PROVE  FromSeverity(n) \in ScannerAction /\ Severity[FromSeverity(n)] = n
    OBVIOUS
  <2>1. \E a \in ScannerAction : Severity[a] = n
    BY DEF Severity, ScannerAction
  <2> QED  BY <2>1 DEF FromSeverity
<1>5. Worst(S) = FromSeverity(Max(T))
  BY DEF Worst
<1>6. Worst(S) \in ScannerAction /\ Severity[Worst(S)] = Max(T)
  BY <1>1, <1>3, <1>4, <1>5
<1>7. \A a \in S : Severity[a] \in T
  OBVIOUS
<1> QED  BY <1>3, <1>6, <1>7

\* An action as good as a pass, or as an incomplete analysis, is one of these.
LEMMA NotWorse ==
    ASSUME NEW a \in ScannerAction, NEW b \in ScannerAction, Severity[a] <= Severity[b]
    PROVE  /\ b = "pass" => a = "pass"
           /\ b = "analysis_incomplete" => a \in {"pass", "analysis_incomplete"}
           /\ b = "warn" => a # "block"
           /\ a \in {"warn", "block"} => b \in {"warn", "block"}
BY DEF Severity, ScannerAction

LEMMA ReplyAction ==
    ASSUME CommandTypes, NEW p \in DOMAIN reply
    PROVE  /\ ActionOf(reply[p]) \in ScannerAction
           /\ ActionOf(reply[p]) = reply[p].action \/ (reply[p].action = "missing" /\ ActionOf(reply[p]) = "pass")
BY ScanAssumption DEF CommandTypes, ActionOf, ScannerAction

\* A warning that is acknowledged is accepted finding by finding, for this
\* package or for its namesake of the other ecosystem.
LEMMA AcknowledgedIs ==
    ASSUME CommandTypes, NEW p \in AcknowledgedIn(reply)
    PROVE  reply[p].action = "warn" /\ (Twin(p) \/ TrulyAccepted(p, reply[p]))
<1>1. p \in DOMAIN reply /\ IsAcknowledged(p, reply[p])
  BY DEF AcknowledgedIn
<1>2. reply[p].action = "warn"
  BY <1>1 DEF IsAcknowledged, Acknowledged, ActionOf
<1>3. PICK e \in Remembered : /\ e.name = <<EcosystemSeen(p), p.name>> /\ ~e.expired
                              /\ Uncovered(Fingerprint(reply[p].findings), e.accepted) = {}
  BY <1>1 DEF IsAcknowledged, Acknowledged, Applies
<1>4. AreFindings(reply[p].findings) /\ AreAccepted(e.accepted)
  BY <1>1, ScanAssumption DEF CommandTypes
<1>5. \A g \in reply[p].findings : g[1] \in DOMAIN e.accepted /\ g[2] <= e.accepted[g[1]]
  BY <1>3, <1>4, CoveredOneByOne
<1>6. CASE EcosystemSeen(p) = p.ecosystem
  BY <1>2, <1>3, <1>5, <1>6 DEF TrulyAccepted
<1>7. CASE EcosystemSeen(p) # p.ecosystem
  BY <1>2, <1>7 DEF EcosystemSeen, Twin
<1> QED  BY <1>6, <1>7
Harmless(p) ==
    \/ reply[p].action \in {"pass", "missing", "analysis_incomplete"}
    \/ reply[p].action = "warn" /\ settings.mode # "strict" /\ (Twin(p) \/ TrulyAccepted(p, reply[p]))

\* If what is left of the action is less than a warning, so is each answer,
\* but for the acknowledged ones.
LEMMA RestIsAccepted ==
    ASSUME CommandTypes, Bounded
    PROVE  LET remains == EffectiveUnlessStrict(reply, overall)
           IN /\ remains \in ScannerAction
              /\ remains \in {"pass", "analysis_incomplete"} => \A p \in DOMAIN reply : Harmless(p)
              /\ remains = "pass" => \A p \in DOMAIN reply : reply[p].action # "analysis_incomplete"
              /\ settings.mode = "strict" => remains = overall
<1> DEFINE acked == AcknowledgedIn(reply)
           rest  == {ActionOf(reply[p]) : p \in DOMAIN reply \ acked}
           kept  == EffectiveUnlessStrict(reply, overall)
<1>1. rest \in SUBSET ScannerAction /\ overall \in ScannerAction
  BY ReplyAction DEF CommandTypes
<1>2. Worst(rest) \in ScannerAction /\ \A p \in DOMAIN reply \ acked : Severity[ActionOf(reply[p])] <= Severity[Worst(rest)]
  <2>1. \A p \in DOMAIN reply \ acked : ActionOf(reply[p]) \in rest
    OBVIOUS
  <2> HIDE DEF rest
  <2> QED  BY <1>1, <2>1, WorstIs
<1>3. kept = overall \/ (kept = Worst(rest) /\ settings.mode # "strict")
  BY DEF EffectiveUnlessStrict, Effective, EffectiveAction
<1>4. settings.mode = "strict" => kept = overall
  BY DEF EffectiveUnlessStrict
<1> HIDE DEF rest, kept, acked
<1>5. ASSUME NEW p \in DOMAIN reply, kept \in {"pass", "analysis_incomplete"}
      PROVE  Harmless(p) /\ (kept = "pass" => reply[p].action # "analysis_incomplete")
  <2>1. ActionOf(reply[p]) \in ScannerAction /\ Severity[ActionOf(reply[p])] <= Severity[overall]
    BY ReplyAction DEF Bounded
  <2>2. ASSUME NEW b \in ScannerAction, b = kept, Severity[ActionOf(reply[p])] <= Severity[b]
        PROVE  Harmless(p) /\ (kept = "pass" => reply[p].action # "analysis_incomplete")
    <3>1. ActionOf(reply[p]) \in {"pass", "analysis_incomplete"} /\ (kept = "pass" => ActionOf(reply[p]) = "pass")
      BY <1>5, <2>1, <2>2, NotWorse
    <3> QED  BY <3>1, ReplyAction DEF Harmless
  <2>3. CASE kept = overall
    BY <1>1, <2>1, <2>2, <2>3
  <2>4. CASE kept = Worst(rest) /\ settings.mode # "strict" /\ p \notin acked
    BY <1>2, <2>2, <2>4
  <2>5. CASE settings.mode # "strict" /\ p \in acked
    BY <2>5, AcknowledgedIs DEF Harmless, acked
  <2> QED  BY <1>3, <2>3, <2>4, <2>5
<1> QED  BY <1>1, <1>2, <1>3, <1>4, <1>5 DEF kept

\* A pass alone exits 0.
LEMMA ZeroIsPass ==
    ASSUME NEW a \in ScannerAction, NEW mode
    PROVE  ScanExit(a, mode) = 0 <=> a = "pass"
BY DEF ScanExit, ScannerAction

\* A staged commit that goes through was not warned of, or the warnings are
\* accepted, waved through or agreed to.
LEMMA StagedZero ==
    ASSUME CommandTypes, Bounded, Staged, 0 \in StagedExits(reply, overall)
    PROVE  /\ overall # "block"
           /\ \/ \A p \in DOMAIN reply : Harmless(p)
              \/ overall = "warn" /\ 0 \in WarnExits
           /\ settings.onIncomplete = "block" /\ settings.onWarn = "block" =>
                 /\ overall \in {"pass", "warn"}
                 /\ \A p \in DOMAIN reply : Harmless(p) /\ reply[p].action # "analysis_incomplete"
<1> DEFINE kept == EffectiveUnlessStrict(reply, overall)
           some == AcknowledgedIn(reply) # {}
<1>1. overall \in ScannerAction
  BY DEF CommandTypes
<1>2. /\ kept \in ScannerAction
      /\ kept \in {"pass", "analysis_incomplete"} => \A p \in DOMAIN reply : Harmless(p)
      /\ kept = "pass" => \A p \in DOMAIN reply : reply[p].action # "analysis_incomplete"
  BY RestIsAccepted
<1>3. \A p \in DOMAIN reply : overall \in {"pass", "analysis_incomplete"} => Harmless(p)
  BY <1>1, ReplyAction, NotWorse DEF Bounded, Harmless
<1>4. \A p \in DOMAIN reply : overall = "pass" => reply[p].action # "analysis_incomplete"
  BY <1>1, ReplyAction, NotWorse DEF Bounded, Harmless
<1>5. /\ overall # "block"
      /\ overall = "warn" => \/ some /\ kept = "pass"
                             \/ some /\ kept = "analysis_incomplete" /\ HeldIncomplete = 0
                             \/ 0 \in WarnExits
      /\ overall = "analysis_incomplete" => HeldIncomplete = 0
  <2> HIDE DEF kept, some
  <2>1. StagedExits(reply, overall) =
           CASE overall = "block" -> {2}
             [] overall = "warn" /\ some /\ kept = "pass" -> {0}
             [] overall = "warn" /\ some /\ kept = "analysis_incomplete" -> {HeldIncomplete}
             [] overall = "warn" /\ ~(some /\ kept \in {"pass", "analysis_incomplete"}) -> WarnExits
             [] overall = "analysis_incomplete" -> {HeldIncomplete}
             [] OTHER -> {0}
    BY Zenon DEF StagedExits, kept, some
  <2> QED  BY <2>1
<1>6. settings.onIncomplete = "block" => HeldIncomplete # 0
  BY DEF HeldIncomplete
<1>7. settings.onWarn = "block" => 0 \notin WarnExits
  BY DEF WarnExits
<1> HIDE DEF kept, some
<1> QED  BY <1>1, <1>2, <1>3, <1>4, <1>5, <1>6, <1>7 DEF ScannerAction
\* An entry from outside the registry fails the lockfile it is in.
LEMMA ForeignFails ==
    ASSUME CommandTypes, NEW file \in Files, NEW e \in file.entries, Foreign(file, e), settings.mode # "off"
    PROVE  VerifyExit(LockfileStatus(file)) # 0
<1> DEFINE Left(x) == EvaluatePackagePolicy(VerdictOn(file.format, x), settings.mode)
           marks == {Left(x) : x \in Observations(file)}
                    \cup (IF Malformed(file) THEN {EvaluatePackagePolicy("block", settings.mode)} ELSE {})
<1>1. file.format \in Format /\ file.trouble \in {"no", "include"} /\ e.shape = "plain"
  BY ScanAssumption DEF FileOk, Foreign
<1>2. VerdictOn(file.format, e) = "block"
  BY <1>1 DEF Foreign, VerdictOn, OffRegistry, Reason, RequirementReason, Npm
<1>3. Observed(file.format, e)
  <2>1. CASE file.format \in {"package-lock", "package-lock-v1", "yarn"}
    BY <1>1, <2>1 DEF Foreign, Observed, OffRegistry, Npm
  <2>2. CASE file.format = "pnpm"
    BY <1>1, <2>2 DEF Foreign, Observed, Reason, PnpmReason
  <2>3. CASE file.format = "requirements"
    BY <1>1, <2>3 DEF Foreign, Observed, Reason, RequirementReason, Npm
  <2> QED  BY <2>1, <2>2, <2>3 DEF Foreign, Npm
<1>4. e \in Observations(file)
  <2>1. Once(file.format, e) => e.first
    <3>1. CASE file.format = "requirements"
      BY <1>1, <3>1 DEF Foreign, Once, Reason, RequirementReason, Npm
    <3>2. CASE file.format # "requirements"
      BY <3>2 DEF Foreign, Once
    <3> QED  BY <3>1, <3>2
  <2> QED  BY <1>1, <1>3, <2>1 DEF Observations
<1>5. settings.mode \in {"block", "strict", "warn"}
  BY DEF CommandTypes
<1>6. \A v \in {"pass", "warn", "block"} : EvaluatePackagePolicy(v, settings.mode) \in ScannerAction
  BY <1>5 DEF EvaluatePackagePolicy, ScannerAction
<1>7. \A x : VerdictOn(file.format, x) \in {"pass", "warn", "block"}
  BY DEF VerdictOn
<1>8. marks \in SUBSET ScannerAction
  BY <1>6, <1>7
<1>9. Left(e) \in {"warn", "block"} /\ Left(e) \in marks
  BY <1>2, <1>4, <1>5 DEF EvaluatePackagePolicy
<1>10. LockfileStatus(file) = Worst(marks)
  BY <1>1 DEF LockfileStatus
<1>11. Worst(marks) \in {"warn", "block"}
  <2> HIDE DEF marks, Left
  <2>1. Worst(marks) \in ScannerAction /\ Severity[Left(e)] <= Severity[Worst(marks)]
    BY <1>8, <1>9, WorstIs
  <2> QED  BY <1>8, <1>9, <2>1, NotWorse
<1> QED
  <2> HIDE DEF marks
  <2> QED  BY <1>10, <1>11 DEF VerifyExit

\* Manifests that dg itself finds no fault with.
LEMMA CleanManifests ==
    ASSUME CommandTypes, LocalExit = 0
    PROVE  manifests \subseteq {"clean"}
<1>1. ManifestStatus(manifests) \notin {"error", "block", "warn"}
  BY DEF LocalExit
<1>2. manifests \cap {"unreadable", "network", "script", "local"} = {}
  BY <1>1 DEF ManifestStatus
<1> QED  BY <1>2 DEF CommandTypes, Manifest

\* An entry that nothing explains away is asked about.
LEMMA SeenIsAsked ==
    ASSUME CommandTypes, NEW file \in found, NEW e \in file.entries, ~Unseen(file, e)
    PROVE  [name |-> e.name, ecosystem |-> EcosystemOf(file.format)] \in Asked(seen)
<1>1. file.format \in Format
  BY ScanAssumption DEF CommandTypes, FileOk
<1>2. ~Shadowed(file, seen)
  <2>1. ~Before(file.format, file.format)
    BY <1>1 DEF Before, Format, Npm, Pypi
  <2> QED  BY <2>1 DEF Shadowed, Unseen
<1>3. file \in Projects(seen)
  BY <1>2 DEF Projects, Ignored, Unseen
<1>4. Reason(file.format, e) = "none"
  BY <1>1 DEF Unseen, Reason, NpmLockReason, YarnReason, PnpmReason, RequirementReason, PythonReason
<1>5. Observed(file.format, e)
  BY <1>4 DEF Unseen, Observed
<1>6. VerdictOn(file.format, e) # "block"
  BY <1>4 DEF Unseen, VerdictOn, OffRegistry
<1>7. \E o \in Sent(file) : o.name = e.name
  <2>1. CASE Once(file.format, e) => e.first
    BY <1>5, <1>6, <2>1 DEF Unseen, Sent, Identities, Observations
  <2>2. CASE Once(file.format, e) /\ ~e.first
    <3>1. PICK o \in Twins(file, e) : o.first
      BY <2>2, ScanAssumption DEF CommandTypes, FileOk
    <3>2. o \in file.entries /\ o.name = e.name /\ o.shape # "unpinned" /\ Once(file.format, o)
      BY <3>1 DEF Twins, Unseen
    <3>3. VerdictOn(file.format, o) # "block"
      <4>1. CASE file.format = "requirements"
        BY <3>2, <4>1 DEF Once, VerdictOn, OffRegistry, Npm
      <4>2. CASE file.format = "package-lock-v1"
        <5>1. ~OffRegistry(file.format, o)
          BY <2>2, <3>1, <3>2, <4>2 DEF Unseen
        <5>2. o.shape # "garbled"
          BY <3>2, <4>2 DEF Once, Observed
        <5> QED  BY <4>2, <5>1, <5>2 DEF VerdictOn
      <4> QED  BY <3>2, <4>1, <4>2 DEF Once
    <3>4. o \in Sent(file)
      BY <1>5, <3>1, <3>2, <3>3 DEF Unseen, Sent, Identities, Observations, Once
    <3> QED  BY <3>2, <3>4
  <2> QED  BY <2>1, <2>2
<1> QED  BY <1>3, <1>7 DEF Asked
\* The steps before the scanner is heard, and those after.
BeforeReply == ListStaged \/ ScanProject \/ NothingAsked \/ WorkerFails \/ (\E files \in SUBSET found : step = "show" /\ ShowStaged(files))
Verifies == PackageFails \/ (\E file \in found : VerifyLockfile(file)) \/ (\E answer \in Replies : CheckPackage(answer))
Responds == \E came \in SUBSET Asked(seen) : \E answers \in [came -> Replies] :
               \E raw \in RawActions(answers) : Respond(answers, raw)

LEMMA CommandSteps ==
    ASSUME ScanNext
    PROVE  BeforeReply \/ Responds \/ Decide \/ Verifies
BY DEF ScanNext, BeforeReply, Verifies, Responds

LEMMA CommandTypesKept ==
    ASSUME CommandTypes, [ScanNext]_scanVars
    PROVE  CommandTypes'
<1>1. ASSUME UNCHANGED <<given, reply, overall, yes>>, seen' \subseteq found  PROVE CommandTypes'
  BY <1>1 DEF CommandTypes, given
<1>2. CASE BeforeReply
  <2>1. UNCHANGED <<given, reply, overall, yes>> /\ seen' \in {seen, found} \cup SUBSET found
    BY <1>2 DEF BeforeReply, ListStaged, ScanProject, NothingAsked, WorkerFails, ShowStaged, Finish, given
  <2> QED  BY <1>1, <2>1 DEF CommandTypes
<1>3. CASE Responds
  <2>a. PICK came \in SUBSET Asked(seen) : \E answers \in [came -> Replies] :
           \E raw \in RawActions(answers) : Respond(answers, raw)
    BY <1>3 DEF Responds
  <2>b. PICK answers \in [came -> Replies] : \E raw \in RawActions(answers) : Respond(answers, raw)
    BY <2>a
  <2>1. PICK raw \in RawActions(answers) : Respond(answers, raw)
    BY <2>b
  <2>2. raw \in ScannerAction
    BY DEF RawActions
  <2> QED  BY <2>1, <2>2 DEF Respond, CommandTypes, given
<1>4. CASE Decide
  BY <1>4 DEF Decide, Finish, CommandTypes, given
<1>5. CASE Verifies
  <2>1. CASE PackageFails
    BY <1>1, <2>1 DEF PackageFails, Finish, CommandTypes, given
  <2>2. ASSUME NEW file \in found, VerifyLockfile(file)  PROVE CommandTypes'
    BY <1>1, <2>2 DEF VerifyLockfile
  <2>3. ASSUME NEW a \in Replies, CheckPackage(a)  PROVE CommandTypes'
    <3>1. overall' \in ScannerAction
      BY <2>3, ScanAssumption DEF CheckPackage, ScannerAction
    <3>2. \A p \in DOMAIN reply' : reply'[p] = a
      BY <2>3 DEF CheckPackage
    <3>3. UNCHANGED <<given, seen, yes>>
      BY <2>3 DEF CheckPackage, Finish
    <3> QED  BY <3>1, <3>2, <3>3 DEF CommandTypes, given
  <2> QED  BY <1>5, <2>1, <2>2, <2>3 DEF Verifies
<1>6. CASE UNCHANGED scanVars
  BY <1>1, <1>6 DEF scanVars, given, CommandTypes
<1> QED  BY <1>2, <1>3, <1>4, <1>5, <1>6, CommandSteps

LEMMA ProgressKept ==
    ASSUME CommandTypes, Progress, [ScanNext]_scanVars
    PROVE  Progress'
<1>1. CASE BeforeReply
  <2>1. \/ step' = "done"
        \/ /\ step' = "show" /\ surface \in {"hook", "staged", "machine"}
           /\ step = "list" /\ UNCHANGED <<given, code, reply>>
        \/ /\ step' = "ask" /\ surface \in {"hook", "staged", "machine", "plain"}
           /\ step \in {"list", "show"} /\ UNCHANGED <<given, code, reply>>
    BY <1>1 DEF BeforeReply, ListStaged, ScanProject, NothingAsked, WorkerFails, ShowStaged, Finish, Progress
  <2> QED  BY <2>1 DEF Progress, given
<1>2. CASE Responds
  <2>a. PICK came \in SUBSET Asked(seen) : \E answers \in [came -> Replies] :
           \E raw \in RawActions(answers) : Respond(answers, raw)
    BY <1>2 DEF Responds
  <2>b. PICK answers \in [came -> Replies] : \E raw \in RawActions(answers) : Respond(answers, raw)
    BY <2>a
  <2>1. PICK raw \in RawActions(answers) : Respond(answers, raw)
    BY <2>b
  <2>2. UNCHANGED <<surface, seen, code>> /\ reply' = answers /\ overall' = raw /\ step = "ask" /\ step' = "decide"
        /\ Asked(seen) # {}
    BY <2>1 DEF Respond, given
  <2>3. Asked(seen') # {} /\ DOMAIN reply' \subseteq Asked(seen')
    BY <2>2
  <2> DEFINE acts == {ActionOf(answers[p]) : p \in DOMAIN answers}
  <2>4. acts \in SUBSET ScannerAction
    BY ScanAssumption DEF ActionOf, ScannerAction
  <2>5. \A p \in DOMAIN answers : ActionOf(answers[p]) \in acts
    OBVIOUS
  <2>6. raw \in ScannerAction /\ Severity[raw] >= Severity[Worst(acts)]
    BY DEF RawActions
  <2>7. \A a \in ScannerAction : Severity[a] \in Int
    BY DEF ScannerAction, Severity
  <2>8. \A p \in DOMAIN answers : Severity[ActionOf(answers[p])] <= Severity[raw]
    <3> HIDE DEF acts
    <3>1. Worst(acts) \in ScannerAction /\ \A a \in acts : a \in ScannerAction /\ Severity[a] <= Severity[Worst(acts)]
      BY <2>4, WorstIs
    <3> QED  BY <2>5, <2>6, <2>7, <3>1
  <2>9. Bounded'
    BY <2>2, <2>8 DEF Bounded, ActionOf
  <2> QED  BY <2>2, <2>3, <2>9 DEF Progress
<1>3. CASE Decide
  BY <1>3 DEF Decide, Finish, Progress
<1>4. CASE Verifies
  BY <1>4 DEF Verifies, PackageFails, VerifyLockfile, CheckPackage, Finish, Progress
<1>5. CASE UNCHANGED scanVars
  BY <1>5 DEF scanVars, Progress, Bounded, Asked
<1> QED  BY <1>1, <1>2, <1>3, <1>4, <1>5, CommandSteps
\* Without an answer of the scanner, what exits 0 is not held, and holds nothing bad.
LEMMA SafeBeforeReply ==
    ASSUME CommandInv, BeforeReply
    PROVE  BadIsNotZero' /\ IncompleteIsHeld'
<1>1. step \in {"list", "show", "ask"} /\ UNCHANGED <<given, reply, overall, yes>>
  BY DEF BeforeReply, ListStaged, ScanProject, NothingAsked, WorkerFails, ShowStaged, Finish, given
<1>2. DOMAIN reply = {} /\ code = NoCode
  BY <1>1 DEF CommandInv, Progress
<1>3. surface # "lockfile"
  BY DEF BeforeReply, ListStaged, ScanProject, NothingAsked, WorkerFails, ShowStaged, CommandInv, Progress
<1>4. ASSUME surface = "plain", code' = 0  PROVE manifests \subseteq {"clean"}
  <2>1. ~Staged /\ Unavailable # 0
    BY <1>4 DEF Staged, Unavailable
  <2>2. code' = LocalExit
    BY <1>2, <1>4, <2>1 DEF BeforeReply, ListStaged, ScanProject, NothingAsked, WorkerFails, ShowStaged,
                            Finish, NoCode, CommandInv, Progress
  <2> QED  BY <1>4, <2>2, CleanManifests DEF CommandInv
<1>5. ASSUME surface = "hook", found # {}, settings.onIncomplete = "block"  PROVE code' # 0
  <2>1. Staged /\ HeldIncomplete = 1 /\ Unavailable = 1
    BY <1>5 DEF Staged, HeldIncomplete, Unavailable
  <2> QED  BY <1>2, <1>5, <2>1 DEF BeforeReply, ListStaged, ScanProject, NothingAsked, WorkerFails, ShowStaged,
                                   Finish, NoCode
<1>6. UNCHANGED <<surface, manifests, found, settings>> /\ DOMAIN reply' = {}
  BY <1>1, <1>2 DEF given
<1> QED  BY <1>3, <1>4, <1>5, <1>6 DEF BadIsNotZero, IncompleteIsHeld

\* With an answer, an exit of 0 has settled each package.
LEMMA SafeDecision ==
    ASSUME CommandInv, Decide
    PROVE  BadIsNotZero' /\ IncompleteIsHeld'
<1>1. CommandTypes /\ Bounded /\ Asked(seen) # {} /\ DOMAIN reply \subseteq Asked(seen) /\ surface # "lockfile"
  BY DEF CommandInv, Progress, Decide
<1>2. UNCHANGED <<surface, settings, terminal, found, manifests, seen, reply, overall>> /\ step' = "done"
  BY DEF Decide, Finish, given
<1>3. overall \in ScannerAction /\ \A p \in DOMAIN reply : overall # "block" => reply[p].action # "block"
  BY <1>1, ReplyAction, NotWorse DEF Bounded, CommandTypes, ScannerAction
<1>4. CASE Staged
  <2>1. code' \in StagedExits(reply, overall)
        /\ yes' = (code' = 0 /\ terminal /\ surface = "staged" /\ settings.onWarn = "prompt" /\ overall = "warn")
    BY <1>4 DEF Decide, Finish
  <2>2. ASSUME code' = 0, ~(\A p \in DOMAIN reply : Harmless(p))  PROVE WarnMayPass'
    <3>1. overall = "warn" /\ 0 \in WarnExits
      BY <1>1, <1>4, <2>1, <2>2, StagedZero
    <3> QED  BY <1>1, <1>2, <1>4, <2>1, <2>2, <3>1 DEF WarnExits, WarnMayPass, Staged, CommandTypes
  <2>3. code' = 0 => \A p \in DOMAIN reply : reply[p].action # "block" /\ (Harmless(p) \/ WarnMayPass')
    BY <1>1, <1>3, <1>4, <2>1, <2>2, StagedZero
  <2>4. BadIsNotZero'
    BY <1>1, <1>2, <2>3 DEF BadIsNotZero, Harmless, Twin, TrulyAccepted, Asked
  <2>5. ASSUME surface = "hook", code' = 0, settings.onIncomplete = "block", settings.onWarn = "block"
        PROVE  overall \in {"pass", "warn"} /\ \A p \in DOMAIN reply : Harmless(p) /\ reply[p].action # "analysis_incomplete"
    BY <1>1, <1>4, <2>1, <2>5, StagedZero
  <2>6. \A file \in found : \A e \in file.entries :
           Unseen(file, e) \/ [name |-> e.name, ecosystem |-> EcosystemOf(file.format)] \in Asked(seen)
    BY <1>1, SeenIsAsked
  <2>7. IncompleteIsHeld'
    <3>1. Asked(seen') = Asked(seen)
      BY <1>2
    <3>2. \A file \in found, e \in UNION {f.entries : f \in found} : Unseen(file, e)' = Unseen(file, e)
      BY <1>2 DEF Unseen
    <3> QED  BY <1>1, <1>2, <2>5, <2>6, <3>1, <3>2 DEF IncompleteIsHeld, Harmless, Twin, TrulyAccepted
  <2> QED  BY <2>4, <2>7
<1>5. CASE ~Staged
  <2>1. code' = ScanExit(EffectiveUnlessStrict(reply, overall), settings.mode)
    BY <1>5 DEF Decide, Finish
  <2>2. ASSUME code' = 0  PROVE \A p \in DOMAIN reply : Harmless(p)
    BY <1>1, <2>1, <2>2, RestIsAccepted, ZeroIsPass
  <2>3. BadIsNotZero'
    BY <1>1, <1>2, <2>2 DEF BadIsNotZero, Harmless, Twin, TrulyAccepted, Asked
  <2>4. IncompleteIsHeld'
    BY <1>2, <1>5 DEF IncompleteIsHeld, Staged
  <2> QED  BY <2>3, <2>4
<1> QED  BY <1>4, <1>5

LEMMA SafeVerification ==
    ASSUME CommandInv, Verifies
    PROVE  BadIsNotZero' /\ IncompleteIsHeld'
<1>1. surface \in {"lockfile", "package"} /\ UNCHANGED given
  BY DEF Verifies, PackageFails, VerifyLockfile, CheckPackage, Finish
<1>2. DOMAIN reply = {}
  BY DEF Verifies, PackageFails, VerifyLockfile, CheckPackage, CommandInv, Progress
<1>3. CASE PackageFails
  BY <1>1, <1>3 DEF PackageFails, Finish, BadIsNotZero, IncompleteIsHeld, given
<1>4. ASSUME NEW file \in found, VerifyLockfile(file)  PROVE BadIsNotZero' /\ IncompleteIsHeld'
  <2>1. code' = VerifyExit(LockfileStatus(file)) /\ seen' = {file} /\ reply' = reply
    BY <1>4 DEF VerifyLockfile
  <2>2. code' = 0 /\ settings.mode # "off" => \A e \in file.entries : ~Foreign(file, e)
    BY <2>1, ForeignFails DEF CommandInv, CommandTypes
  <2> QED  BY <1>1, <1>2, <1>4, <2>1, <2>2 DEF VerifyLockfile, BadIsNotZero, IncompleteIsHeld, Foreign, given
<1>5. ASSUME NEW a \in Replies, CheckPackage(a)  PROVE BadIsNotZero' /\ IncompleteIsHeld'
  <2>1. surface = "package" /\ reply' = [p \in {Published} |-> a]
        /\ code' = ScanExit(IF a.action = "missing" THEN "analysis_incomplete" ELSE a.action, "block")
    BY <1>5 DEF CheckPackage, Finish
  <2>2. code' = 0 => a.action = "pass"
    BY <2>1, ScanAssumption, ZeroIsPass DEF ScannerAction
  <2> QED  BY <1>1, <2>1, <2>2 DEF BadIsNotZero, IncompleteIsHeld, given
<1> QED  BY <1>3, <1>4, <1>5 DEF Verifies

LEMMA CommandInvariant == ScanSpec => []CommandInv
<1>1. ScanInit => CommandInv
  <2> SUFFICES ASSUME ScanInit  PROVE CommandInv
    OBVIOUS
  <2>1. found \subseteq Files /\ manifests \subseteq Manifest
    BY DEF ScanInit
  <2>2. DOMAIN reply = {} /\ code = NoCode /\ step = "list" /\ seen = {} /\ overall = "pass" /\ yes = FALSE
    BY DEF ScanInit
  <2>3. CommandTypes
    BY <2>1, <2>2 DEF ScanInit, CommandTypes, ScannerAction
  <2> QED  BY <2>2, <2>3 DEF CommandInv, Progress, BadIsNotZero, IncompleteIsHeld, NoCode
<1>2. CommandInv /\ [ScanNext]_scanVars => CommandInv'
  <2> SUFFICES ASSUME CommandInv, [ScanNext]_scanVars  PROVE CommandInv'
    OBVIOUS
  <2>1. CommandTypes' /\ Progress'
    BY CommandTypesKept, ProgressKept DEF CommandInv
  <2>2. CASE Responds
    <3>1. code' = NoCode
      BY <2>2 DEF Responds, Respond, CommandInv, Progress
    <3> QED  BY <2>1, <3>1 DEF CommandInv, BadIsNotZero, IncompleteIsHeld, NoCode
  <2>3. CASE UNCHANGED scanVars
    <3>1. BadIsNotZero'
      BY <2>3 DEF CommandInv, scanVars, BadIsNotZero, WarnMayPass, Staged, Twin, TrulyAccepted, Foreign
    <3>2. IncompleteIsHeld'
      BY <2>3 DEF CommandInv, scanVars, IncompleteIsHeld, Twin, TrulyAccepted, Unseen
    <3> QED  BY <2>1, <3>1, <3>2 DEF CommandInv
  <2> QED  BY <2>1, <2>2, <2>3, CommandSteps, SafeBeforeReply, SafeDecision, SafeVerification DEF CommandInv
<1> QED  BY <1>1, <1>2, PTL DEF ScanSpec

\* Exit zero is never over something bad that was seen, for any lockfiles,
\* answers and decisions (exitCodeForReport, decideStagedVerdict, verifyLockfile).
THEOREM BadNeverZero == ScanSpec => []BadIsNotZero
<1>1. CommandInv => BadIsNotZero
  BY DEF CommandInv
<1> QED  BY <1>1, CommandInvariant, PTL

\* A commit that the hook lets through, when it is to hold what is incomplete or
\* warned of, was analyzed, for any lockfiles (staged.ts, decideStagedVerdict).
THEOREM IncompleteStaysHeld == ScanSpec => []IncompleteIsHeld
<1>1. CommandInv => IncompleteIsHeld
  BY DEF CommandInv
<1> QED  BY <1>1, CommandInvariant, PTL
-----------------------------------------------------------------------------
(* The questions before an install.                                        *)

Policed == config.mode \in {"block", "strict"} /\ ~(force /\ config.allowForce)

\* An acceptance that the first answer met is kept as an approval of a warning,
\* whatever the second one finds.
AcceptedNow(p) == p \in DOMAIN saidThen /\ IsCovered(p, saidThen[p])
AcceptedFirst(p) == p \in DOMAIN saidFirst /\ IsCovered(p, saidFirst[p])

\* What lets a flagged package through, warnings included: a yes to something as
\* bad, or an acceptance that one of the two answers met.
FlaggedIsSettled ==
    phase = "running" /\ asks /\ Policed =>
        \A p \in DOMAIN saidFirst \cup DOMAIN saidThen :
            LET a == LastSaid(p)
            IN \/ a \notin {"warn", "block"}
               \/ Agreed(p, a)
               \/ a = "warn" /\ (AcceptedNow(p) \/ AcceptedFirst(p))

\* Why an approval is at least of rank r.
Grounds(p, r) ==
    \/ \E g \in agreed : p \in g.packages /\ r <= Severity[g.worst]
    \/ r <= Severity["warn"] /\ AcceptedFirst(p)

Approved == \A p \in DOMAIN approved : approved[p] \in 0..3 /\ Grounds(p, approved[p])

\* What the first answer found is settled.
FirstSettled ==
    Policed =>
        \A p \in DOMAIN saidFirst :
            LET a == saidFirst[p].action
            IN a \notin {"warn", "block"} \/ Agreed(p, a) \/ (a = "warn" /\ AcceptedFirst(p))

Questions ==
    /\ config \in Setting
    /\ phase \in {"named", "tree", "running", "stopped"}
    /\ \A g \in agreed : g.worst \in ScannerAction
    /\ phase = "named" => DOMAIN approved = {} /\ DOMAIN saidFirst = {} /\ DOMAIN saidThen = {} /\ agreed = {}
    /\ phase = "tree" => DOMAIN saidThen = {} /\ Approved /\ FirstSettled

QuestionsInv == Questions /\ FlaggedIsSettled

\* An approval is by the rank of what was approved, where there was none.
LEMMA ApprovingAnew ==
    ASSUME NEW old, DOMAIN old = {}, NEW actions, \A p \in DOMAIN actions : actions[p] \in ScannerAction
    PROVE  /\ DOMAIN Approving(old, actions) = DOMAIN actions
           /\ \A p \in DOMAIN actions : /\ Approving(old, actions)[p] = Severity[actions[p]]
                                        /\ Severity[actions[p]] \in 0..3
<1> SUFFICES ASSUME NEW p \in DOMAIN actions
             PROVE  Approving(old, actions)[p] = Severity[actions[p]] /\ Severity[actions[p]] \in 0..3
  BY DEF Approving
<1>1. Severity[actions[p]] \in 0..3
  BY DEF Severity, ScannerAction
<1>2. Max({Severity[actions[p]]}) = Severity[actions[p]]
  <2> DEFINE n == Severity[actions[p]]
  <2>1. n >= n
    BY <1>1
  <2> HIDE DEF n
  <2> QED  BY <2>1 DEF Max
<1>3. Approving(old, actions)[p] = Max({Severity[actions[p]]})
  <2>1. ({} \cup {Rank(actions[p])}) = {Severity[actions[p]]}
    BY DEF Rank
  <2> QED  BY <2>1 DEF Approving
<1> QED  BY <1>1, <1>2, <1>3

\* Where the policy blocks, a block is not forced through.
LEMMA NotForcedThrough ==
    ASSUME config \in Setting, Policed
    PROVE  ~ForcedThrough
<1>1. config # Corrupt /\ config.mode \in {"block", "strict"}
  BY DEF Policed, Corrupt
<1>2. EvaluatePackagePolicy("block", config.mode) = "block"
  BY <1>1 DEF EvaluatePackagePolicy
<1> QED  BY <1>1, <1>2 DEF ForcedThrough, EnforceProtectedInstall, LoadUserConfigOrDefault, ProxyVerdict,
                           ForceAllowed, Policed

LEMMA CoveredIsWarned ==
    ASSUME NEW p, NEW a, IsCovered(p, a)
    PROVE  a.action = "warn"
BY DEF IsCovered, Acknowledged
\* What is approved on the first answer is covered, or was agreed to.
LEMMA ApprovedFirst ==
    ASSUME Questions, phase = "named", NEW answer, NEW S \in SUBSET (DOMAIN answer),
           saidFirst' = answer, approved' = Approving(approved, ActionsOf(S, answer)),
           \A p \in S : /\ answer[p].action \in ScannerAction
                        /\ \/ IsCovered(p, answer[p])
                           \/ \E g \in agreed' : p \in g.packages /\ Severity[answer[p].action] <= Severity[g.worst]
    PROVE  Approved'
<1> DEFINE acts == ActionsOf(S, answer)
<1>1. DOMAIN acts = S /\ \A p \in S : acts[p] = answer[p].action
  BY DEF ActionsOf
<1>2. DOMAIN approved = {}
  BY DEF Questions
<1> HIDE DEF acts
<1>3. /\ DOMAIN approved' = S
      /\ \A p \in S : approved'[p] = Severity[answer[p].action] /\ approved'[p] \in 0..3
  <2>1. \A p \in DOMAIN acts : acts[p] \in ScannerAction
    BY <1>1
  <2>2. approved' = Approving(approved, acts)
    BY DEF acts
  <2> QED  BY <1>1, <1>2, <2>1, <2>2, ApprovingAnew
<1>4. ASSUME NEW p \in S  PROVE Grounds(p, approved[p])'
  <2>1. CASE IsCovered(p, answer[p])
    <3>1. answer[p].action = "warn"
      BY <2>1, CoveredIsWarned
    <3>2. Severity["warn"] <= Severity["warn"]
      BY DEF Severity
    <3> QED  BY <1>3, <2>1, <3>1, <3>2 DEF Grounds, AcceptedFirst
  <2>2. CASE \E g \in agreed' : p \in g.packages /\ Severity[answer[p].action] <= Severity[g.worst]
    BY <1>3, <2>2 DEF Grounds
  <2> QED  BY <2>1, <2>2
<1> QED  BY <1>3, <1>4 DEF Approved

\* After the first question, or none, the tree is asked about with all settled.
LEMMA FirstKept ==
    ASSUME Questions, CanAskNamed, NEW answer \in AnswerNamed,
           NothingNamed(answer) \/ BlockNamed(answer) \/ YesNamed(answer) \/ NoNamed(answer)
    PROVE  Questions' /\ phase' \in {"tree", "stopped"}
<1>1. phase = "named" /\ UNCHANGED setting /\ saidFirst' = answer /\ saidThen' = saidThen
  BY DEF CanAskNamed, NothingNamed, BlockNamed, YesNamed, NoNamed, HeardNamed
<1>2. \A p \in DOMAIN answer : answer[p].action \in ScannerAction \cup {"missing"}
  BY PreflightAssumption DEF AnswerNamed
<1>3. \A p \in CoveredNamed(answer) : /\ p \in DOMAIN answer /\ IsCovered(p, answer[p])
                                      /\ answer[p].action \in ScannerAction
  BY CoveredIsWarned DEF CoveredNamed, ScannerAction
<1>4. CoveredNamed(answer) \subseteq DOMAIN answer /\ FlaggedNamed(answer) \subseteq DOMAIN answer
  BY DEF CoveredNamed, FlaggedNamed
<1>5. \A p \in DOMAIN answer : \/ p \in FlaggedNamed(answer)
                               \/ answer[p].action \in {"pass", "missing"}
                               \/ answer[p].action = "warn" /\ IsCovered(p, answer[p])
  BY CoveredIsWarned DEF FlaggedNamed
<1>a. \A g \in agreed' : g.worst \in ScannerAction
  <2>1. agreed = {}
    BY <1>1 DEF Questions
  <2>2. \A g \in agreed' : g.worst = WorstNamed(answer) /\ WorstNamed(answer) \in {"warn", "analysis_incomplete"}
    BY <2>1 DEF NothingNamed, BlockNamed, YesNamed, NoNamed
  <2> QED  BY <2>2 DEF ScannerAction
<1>6. ASSUME phase' = "tree", Approved', FirstSettled'  PROVE Questions'
  BY <1>1, <1>a, <1>6 DEF Questions, setting
<1>7. ASSUME phase' = "stopped"  PROVE Questions'
  BY <1>1, <1>a, <1>7 DEF Questions, setting
<1>8. ASSUME approved' = Approving(approved, ActionsOf(CoveredNamed(answer), answer))  PROVE Approved'
  BY <1>1, <1>3, <1>4, <1>8, ApprovedFirst
<1>9. CASE NothingNamed(answer)
  <2>1. FlaggedNamed(answer) = {} /\ phase' = "tree"
        /\ approved' = Approving(approved, ActionsOf(CoveredNamed(answer), answer))
    BY <1>9 DEF NothingNamed, GoTo
  <2>2. FirstSettled'
    BY <1>1, <1>5, <2>1 DEF FirstSettled, AcceptedFirst
  <2> QED  BY <1>6, <1>8, <2>1, <2>2
<1>10. CASE BlockNamed(answer)
  <2>1. approved' = Approving(approved, ActionsOf(CoveredNamed(answer), answer))
        /\ (phase' = "stopped" \/ (phase' = "tree" /\ ForcedThrough))
    BY <1>10 DEF BlockNamed, GoTo, Stop
  <2>2. ForcedThrough => FirstSettled'
    BY <1>1, NotForcedThrough DEF FirstSettled, Policed, Questions, setting
  <2> QED  BY <1>6, <1>7, <1>8, <2>1, <2>2
<1>11. CASE YesNamed(answer)
  <2> DEFINE flagged == FlaggedNamed(answer)
             asked == [packages |-> flagged, worst |-> WorstNamed(answer)]
  <2>1. /\ approved' = Approving(approved, ActionsOf(CoveredNamed(answer) \cup flagged, answer))
        /\ asked \in agreed' /\ phase' = "tree"
    BY <1>11 DEF YesNamed, GoTo
  <2>2. \A p \in flagged : /\ answer[p].action \in ScannerAction
                           /\ Severity[answer[p].action] <= Severity[asked.worst]
    <3> DEFINE acts == {answer[p].action : p \in flagged}
    <3>1. acts \in SUBSET ScannerAction
      BY <1>2 DEF FlaggedNamed
    <3>2. WorstNamed(answer) = Worst(acts)
      BY DEF WorstNamed
    <3>3. \A p \in flagged : answer[p].action \in acts
      OBVIOUS
    <3> HIDE DEF acts
    <3> QED  BY <3>1, <3>2, <3>3, WorstIs
  <2>3. \A p \in flagged : \E g \in agreed' : p \in g.packages /\ Severity[answer[p].action] <= Severity[g.worst]
    BY <2>1, <2>2
  <2>4. Approved'
    <3> HIDE DEF flagged
    <3> QED  BY <1>1, <1>3, <1>4, <2>1, <2>2, <2>3, ApprovedFirst DEF flagged
  <2>5. FirstSettled'
    <3> SUFFICES ASSUME NEW p \in DOMAIN answer
                 PROVE  \/ answer[p].action \notin {"warn", "block"} \/ Agreed(p, answer[p].action)'
                        \/ answer[p].action = "warn" /\ IsCovered(p, answer[p])
      BY <1>1 DEF FirstSettled, AcceptedFirst
    <3>1. CASE p \in flagged
      <4>1. PICK g \in agreed' : p \in g.packages /\ Severity[answer[p].action] <= Severity[g.worst]
        BY <2>3, <3>1
      <4> QED  BY <4>1 DEF Agreed
    <3>2. CASE p \notin flagged
      BY <1>5, <3>2
    <3> QED  BY <3>1, <3>2
  <2> QED  BY <1>6, <2>1, <2>4, <2>5
<1>12. CASE NoNamed(answer)
  BY <1>7, <1>12 DEF NoNamed, Stop
<1> QED  BY <1>6, <1>7, <1>9, <1>10, <1>11, <1>12 DEF NothingNamed, BlockNamed, YesNamed, NoNamed, GoTo, Stop
\* An approval of an action's rank has grounds for that action.
LEMMA ApprovedHasGrounds ==
    ASSUME Questions, Approved, NEW p, NEW a \in {"warn", "block"}, IsApproved(p, a)
    PROVE  Agreed(p, a) \/ (a = "warn" /\ AcceptedFirst(p))
<1>1. approved[p] \in 0..3 /\ Grounds(p, approved[p]) /\ approved[p] >= Severity[a]
  BY DEF Approved, IsApproved, Rank
<1>2. Severity[a] \in 2..3 /\ (Severity[a] <= Severity["warn"] => a = "warn") /\ Severity["warn"] = 2
  BY DEF Severity
<1>3. CASE AcceptedFirst(p) /\ approved[p] <= Severity["warn"]
  BY <1>1, <1>2, <1>3
<1>4. CASE \E g \in agreed : p \in g.packages /\ approved[p] <= Severity[g.worst]
  <2>1. PICK g \in agreed : p \in g.packages /\ approved[p] <= Severity[g.worst]
    BY <1>4
  <2>2. Severity[g.worst] \in 0..3
    BY <2>1 DEF Questions, Severity, ScannerAction
  <2>3. Severity[g.worst] >= Severity[a]
    BY <1>1, <1>2, <2>1, <2>2
  <2> QED  BY <2>1, <2>3 DEF Agreed
<1> QED  BY <1>1, <1>3, <1>4 DEF Grounds
\* What the first answer said is settled, and stays so while nothing newer is said.
LEMMA FirstStaysSettled ==
    ASSUME FirstSettled, Policed, NEW p \in DOMAIN saidFirst, UNCHANGED <<saidFirst, setting>>,
           agreed \subseteq agreed', p \notin DOMAIN saidThen'
    PROVE  \/ LastSaid(p)' \notin {"warn", "block"} \/ (LastSaid(p)' = "warn" /\ AcceptedFirst(p)')
           \/ Agreed(p, LastSaid(p))'
<1> DEFINE a == saidFirst[p].action
<1>1. LastSaid(p)' = a
  BY DEF LastSaid
<1>2. a \notin {"warn", "block"} \/ Agreed(p, a) \/ (a = "warn" /\ AcceptedFirst(p))
  BY DEF FirstSettled
<1>3. AcceptedFirst(p)' = AcceptedFirst(p)
  BY DEF AcceptedFirst
<1>4. Agreed(p, a) => \E g \in agreed' : p \in g.packages /\ Severity[g.worst] >= Severity[a]
  BY DEF Agreed
<1> HIDE DEF a
<1> QED  BY <1>1, <1>2, <1>3, <1>4 DEF Agreed

\* What the second answer says is settled once each package was asked about, was
\* approved before, or is covered.
LEMMA SecondSettled ==
    ASSUME Questions, Approved, NEW answer, NEW p \in DOMAIN answer, saidThen' = answer,
           UNCHANGED <<saidFirst, setting>>, agreed \subseteq agreed',
           p \in Listed(answer) => Agreed(p, LastSaid(p))'
    PROVE  \/ LastSaid(p)' \notin {"warn", "block"}
           \/ LastSaid(p)' = "warn" /\ (AcceptedNow(p)' \/ AcceptedFirst(p)')
           \/ Agreed(p, LastSaid(p))'
<1> DEFINE a == ActionNow(p, answer[p])
<1>1. LastSaid(p)' = a
  BY DEF LastSaid, ActionNow, IsHeld, setting
<1>2. SUFFICES ASSUME a \in {"warn", "block"}, p \notin Listed(answer)
      PROVE  (a = "warn" /\ (AcceptedNow(p)' \/ AcceptedFirst(p)')) \/ Agreed(p, LastSaid(p))'
  BY <1>1
<1>3. CASE IsApproved(p, a)
  <2>1. Agreed(p, a) \/ (a = "warn" /\ AcceptedFirst(p))
    BY <1>2, <1>3, ApprovedHasGrounds
  <2>2. AcceptedFirst(p)' = AcceptedFirst(p)
    BY DEF AcceptedFirst
  <2>3. Agreed(p, a) => \E g \in agreed' : p \in g.packages /\ Severity[g.worst] >= Severity[a]
    BY DEF Agreed
  <2> HIDE DEF a
  <2> QED  BY <1>1, <2>1, <2>2, <2>3 DEF Agreed
<1>4. CASE ~IsApproved(p, a)
  <2>1. p \in CoveredTree(answer)
    BY <1>2, <1>4 DEF Listed, Unsettled
  <2> QED  BY <2>1 DEF CoveredTree, AcceptedNow
<1> QED  BY <1>3, <1>4
\* The second question, or none: the install runs with all of it settled.
LEMMA SecondKept ==
    ASSUME Questions, CanAskTree, NEW answer, Unasked(answer) \/ YesTree(answer) \/ NoTree(answer)
    PROVE  Questions' /\ FlaggedIsSettled'
<1>1. phase = "tree" /\ UNCHANGED <<setting, saidFirst>> /\ saidThen' = answer
  BY DEF CanAskTree, Unasked, YesTree, NoTree, AskedTree, HeardTree
<1>2. Approved /\ FirstSettled
  BY <1>1 DEF Questions
<1>3. agreed' = agreed \/ agreed' = agreed \cup {[packages |-> Listed(answer), worst |-> IF Bad(answer) THEN "block" ELSE "warn"]}
  BY DEF Unasked, YesTree, NoTree
<1>4. phase' \in {"running", "stopped"} /\ agreed \subseteq agreed' /\ \A g \in agreed' : g.worst \in ScannerAction
  BY <1>3 DEF Unasked, YesTree, NoTree, GoTo, Stop, Questions, ScannerAction
<1>5. Questions'
  BY <1>1, <1>4 DEF Questions, setting
<1>6. ASSUME phase' = "running", asks, NEW p \in Listed(answer)  PROVE Agreed(p, LastSaid(p))'
  <2>1. YesTree(answer)
    BY <1>6 DEF Unasked, NoTree, Stop
  <2>2. LastSaid(p)' = ActionNow(p, answer[p]) /\ ActionNow(p, answer[p]) \in {"warn", "block"}
    BY <1>1 DEF LastSaid, ActionNow, IsHeld, setting, Listed, Unsettled
  <2> DEFINE g == [packages |-> Listed(answer), worst |-> IF Bad(answer) THEN "block" ELSE "warn"]
  <2>3. g \in agreed' /\ p \in g.packages
    BY <2>1 DEF YesTree
  <2>4. Severity[g.worst] >= Severity[ActionNow(p, answer[p])]
    BY <2>2 DEF Bad, Severity
  <2> HIDE DEF g
  <2> QED  BY <2>2, <2>3, <2>4 DEF Agreed
<1>7. FlaggedIsSettled'
  <2> SUFFICES ASSUME phase' = "running", asks, Policed, NEW p \in DOMAIN saidFirst \cup DOMAIN answer
               PROVE  \/ LastSaid(p)' \notin {"warn", "block"}
                      \/ LastSaid(p)' = "warn" /\ (AcceptedNow(p)' \/ AcceptedFirst(p)')
                      \/ Agreed(p, LastSaid(p))'
    BY <1>1 DEF FlaggedIsSettled, Policed, setting
  <2>1. CASE p \in DOMAIN answer
    BY <1>1, <1>2, <1>4, <1>6, <2>1, SecondSettled
  <2>2. CASE p \notin DOMAIN answer
    BY <1>1, <1>2, <1>4, <2>2, FirstStaysSettled
  <2> QED  BY <2>1, <2>2
<1> QED  BY <1>5, <1>7

LEMMA QuestionsKept == QuestionsInv /\ [PreNext]_preVars => QuestionsInv'
<1> SUFFICES ASSUME QuestionsInv, [PreNext]_preVars  PROVE QuestionsInv'
  OBVIOUS
<1>1. CASE SkipNamed
  BY <1>1 DEF SkipNamed, GoTo, setting, QuestionsInv, Questions, Approved, FirstSettled, FlaggedIsSettled
<1>2. CASE SkipTree
  <2>1. /\ phase = "tree" /\ phase' = "running" /\ DOMAIN saidThen = {} /\ FirstSettled /\ Questions
        /\ UNCHANGED <<setting, saidFirst, saidThen, agreed>>
    BY <1>2 DEF SkipTree, GoTo, QuestionsInv, Questions
  <2>2. Questions'
    BY <2>1 DEF Questions, setting
  <2>3. FlaggedIsSettled'
    <3> SUFFICES ASSUME Policed, NEW p \in DOMAIN saidFirst
                 PROVE  \/ LastSaid(p)' \notin {"warn", "block"} \/ (LastSaid(p)' = "warn" /\ AcceptedFirst(p)')
                        \/ Agreed(p, LastSaid(p))'
      BY <2>1 DEF FlaggedIsSettled, Policed, setting
    <3>1. p \notin DOMAIN saidThen'
      BY <2>1
    <3> QED  BY <2>1, <3>1, FirstStaysSettled
  <2> QED  BY <2>2, <2>3 DEF QuestionsInv
<1>3. ASSUME CanAskNamed, NEW answer \in AnswerNamed,
             NothingNamed(answer) \/ BlockNamed(answer) \/ YesNamed(answer) \/ NoNamed(answer)
      PROVE  QuestionsInv'
  <2>1. Questions' /\ phase' \in {"tree", "stopped"}
    BY <1>3, FirstKept DEF QuestionsInv
  <2> QED  BY <2>1 DEF QuestionsInv, FlaggedIsSettled
<1>4. ASSUME CanAskTree, NEW answer \in AnswerTree, Unasked(answer) \/ YesTree(answer) \/ NoTree(answer)
      PROVE  QuestionsInv'
  BY <1>4, SecondKept DEF QuestionsInv
<1>5. CASE UNCHANGED preVars
  <2>1. Questions'
    BY <1>5 DEF QuestionsInv, Questions, preVars, Approved, Grounds, FirstSettled, Policed, Agreed, AcceptedFirst
  <2>2. FlaggedIsSettled'
    BY <1>5 DEF QuestionsInv, preVars, FlaggedIsSettled, Policed, LastSaid, ActionNow, IsHeld, Agreed, AcceptedNow, AcceptedFirst
  <2> QED  BY <2>1, <2>2 DEF QuestionsInv
<1> QED  BY <1>1, <1>2, <1>3, <1>4, <1>5 DEF PreNext

\* On a terminal, and where the policy blocks, an install runs only with blocked
\* and held packages whose block was agreed to, for any packages, answers and
\* decisions (maybePreflightInstallPrompt, decideFromVerdicts). Warnings are
\* settled more weakly, and not as src/README.md:176 has it: see
\* WarningsResurface.
THEOREM BlocksStayAsked == PreSpec => []BlocksAreAsked
<1>1. PreInit => QuestionsInv
  BY DEF PreInit, QuestionsInv, Questions, FlaggedIsSettled, Nothing
<1>2. QuestionsInv => BlocksAreAsked
  BY DEF QuestionsInv, FlaggedIsSettled, BlocksAreAsked, Policed
<1> QED  BY <1>1, <1>2, QuestionsKept, PTL DEF PreSpec

\* What the cooldown holds is agreed to before an install runs, if anybody can
\* be asked.
HeldIsAgreed ==
    phase = "running" /\ asks =>
        \A p \in DOMAIN saidThen : IsHeld(p, saidThen[p]) => Agreed(p, "block")

LEMMA HeldStep ==
    ASSUME QuestionsInv, HeldIsAgreed, [PreNext]_preVars
    PROVE  HeldIsAgreed'
<1> SUFFICES ASSUME phase' = "running", asks', NEW p \in DOMAIN saidThen', IsHeld(p, saidThen[p])'
             PROVE  Agreed(p, "block")'
  BY DEF HeldIsAgreed
<1>1. CASE UNCHANGED preVars
  BY <1>1 DEF preVars, HeldIsAgreed, IsHeld, Agreed
<1>2. CASE SkipTree
  BY <1>2 DEF SkipTree, QuestionsInv, Questions
<1>3. CASE SkipNamed
  BY <1>3 DEF SkipNamed, GoTo
<1>4. ASSUME CanAskNamed, NEW answer \in AnswerNamed,
             NothingNamed(answer) \/ BlockNamed(answer) \/ YesNamed(answer) \/ NoNamed(answer)
      PROVE  FALSE
  BY <1>4, FirstKept DEF QuestionsInv
<1>5. ASSUME CanAskTree, NEW answer \in AnswerTree, Unasked(answer) \/ YesTree(answer) \/ NoTree(answer)
      PROVE  Agreed(p, "block")'
  <2>1. /\ phase = "tree" /\ asks /\ Questions /\ Approved /\ saidThen' = answer /\ UNCHANGED setting
        /\ p \in DOMAIN answer /\ IsHeld(p, answer[p]) /\ agreed \subseteq agreed'
    BY <1>5 DEF CanAskTree, Unasked, YesTree, NoTree, AskedTree, HeardTree, QuestionsInv, Questions, IsHeld, setting
  <2>2. ActionNow(p, answer[p]) = "block"
    BY <2>1 DEF ActionNow
  <2>3. CASE IsApproved(p, "block")
    <3>1. Agreed(p, "block")
      BY <2>1, <2>3, ApprovedHasGrounds
    <3> QED  BY <2>1, <3>1 DEF Agreed
  <2>4. CASE ~IsApproved(p, "block")
    <3>1. p \in Listed(answer)
      BY <2>1, <2>2, <2>4 DEF Listed, Unsettled, CoveredTree
    <3>2. YesTree(answer) /\ Bad(answer)
      BY <1>5, <2>1, <2>2, <3>1 DEF Unasked, NoTree, Stop, Bad
    <3> DEFINE g == [packages |-> Listed(answer), worst |-> "block"]
    <3>3. g \in agreed'
      BY <3>2 DEF YesTree
    <3>4. p \in g.packages /\ Severity[g.worst] >= Severity["block"]
      BY <3>1 DEF Severity
    <3> HIDE DEF g
    <3> QED  BY <3>3, <3>4 DEF Agreed
  <2> QED  BY <2>3, <2>4
<1> QED  BY <1>1, <1>2, <1>3, <1>4, <1>5 DEF PreNext

\* Where somebody can be asked, the proxy does enforce: no package the cooldown
\* holds is handed to it as verified without a yes to a block, whatever dg.json
\* accepts, whatever was approved before, and in any mode. It is the install
\* with nobody to ask that preflight_cooldown finds to do so
\* (install-preflight.ts:300, 348).
THEOREM AttendedHoldsAreEnforced == PreSpec => [](asks => ProxyStillEnforces)
<1>1. PreInit => QuestionsInv /\ HeldIsAgreed
  BY DEF PreInit, QuestionsInv, Questions, FlaggedIsSettled, HeldIsAgreed, Nothing
<1>2. HeldIsAgreed => (asks => ProxyStillEnforces)
  BY DEF HeldIsAgreed, ProxyStillEnforces
<1>3. QuestionsInv /\ HeldIsAgreed /\ [PreNext]_preVars => HeldIsAgreed'
  BY HeldStep
<1> QED  BY <1>1, <1>2, <1>3, QuestionsKept, PTL DEF PreSpec

-----------------------------------------------------------------------------
(* A zip is walked by its directory where an extractor would stream it.    *)

\* The constants.
LEMMA SlotsAreNat == MaxSlots \in Nat
BY ArchiveAssumption

\* The entries of the directory, and the lengths that its slots have.
LEMMA ZipTypes ==
    ASSUME NEW z \in ZipFile
    PROVE  /\ DOMAIN z.slots = Slots
           /\ \A o \in Slots : z.slots[o].size \in Nat
           /\ Directory(z) \subseteq Central
           /\ \A e \in Directory(z) : \E i \in DOMAIN z.directory : z.directory[i] = e
           /\ \A i \in DOMAIN z.directory : z.directory[i] \in Directory(z)
<1>1. z.slots \in [Slots -> Slot] /\ z.directory \in BoundedSeq(Central, MaxSlots)
  BY DEF ZipFile
<1>2. \A s \in Slot : s.size \in Nat
  BY SlotsAreNat DEF Slot, Inside
<1>3. PICK m \in 0..MaxSlots : z.directory \in [1..m -> Central]
  BY <1>1 DEF BoundedSeq, SeqOf
<1> QED  BY <1>1, <1>2, <1>3 DEF Directory, Range

\* Where each entry has the size of its slot, the two walks are the same one.
LEMMA StreamedAreWalked ==
    ASSUME NEW z \in ZipFile, ~Mismatch(z), ~Deferred(z)
    PROVE  StreamedSlots(z) \subseteq Walk(z)
<1> DEFINE sizes == [o \in Slots |-> z.slots[o].size]
           V == Walk(z)
<1>1. \A o \in V : Claimed(z)[o] = sizes[o]
  <2> SUFFICES ASSUME NEW o \in V
               PROVE  Claimed(z)[o] = sizes[o]
    OBVIOUS
  <2>1. o \in Slots /\ Claims(z, o) # {}
    BY DEF Mismatch, Walk, Visited
  <2>2. \A e \in Claims(z, o) : e.size = z.slots[o].size
    BY <2>1, ZipTypes DEF Mismatch, Deferred, Claims
  <2>3. (CHOOSE e \in Claims(z, o) : TRUE) \in Claims(z, o)
    BY <2>1
  <2>4. Claimed(z)[o] = (CHOOSE e \in Claims(z, o) : TRUE).size
    BY <2>1 DEF Claimed
  <2> QED  BY <2>1, <2>2, <2>3, <2>4
<1>2. V \in SUBSET Slots
  BY DEF Walk, Visited
<1>3. CASE HeaderAt(z, 0)
  <2>1. Start(z) = 0
    BY <1>3 DEF Start
  <2>2. 0 \in Slots
    BY <1>3, SlotsAreNat DEF HeaderAt, Slots
  <2>3. 0 \in V
    BY <1>3, <2>1, <2>2 DEF Walk, Visited, Closed
  <2>4. ASSUME NEW o \in V, HeaderAt(z, o + sizes[o])
        PROVE  o + sizes[o] \in V
    <3>1. o \in Slots /\ sizes[o] = Claimed(z)[o] /\ sizes[o] \in Nat
      BY <1>1, <1>2, ZipTypes
    <3>2. o + sizes[o] \in Slots
      BY <3>1, <2>4, SlotsAreNat DEF HeaderAt, Slots
    <3>3. \A S \in SUBSET Slots : Closed(z, Start(z), Claimed(z), S) => o + sizes[o] \in S
      <4> SUFFICES ASSUME NEW S \in SUBSET Slots, Closed(z, Start(z), Claimed(z), S)
                   PROVE  o + sizes[o] \in S
        OBVIOUS
      <4>1. o \in S
        BY DEF Walk, Visited
      <4>2. HeaderAt(z, o + Claimed(z)[o])
        BY <2>4, <3>1
      <4>3. o + Claimed(z)[o] \in S
        BY <4>1, <4>2 DEF Closed
      <4> QED  BY <4>3, <3>1
    <3> QED  BY <2>4, <3>2, <3>3 DEF Walk, Visited
  <2>5. Closed(z, 0, sizes, V)
    BY <2>3, <2>4 DEF Closed
  <2> QED  BY <1>2, <2>5 DEF StreamedSlots, Visited
<1>4. CASE ~HeaderAt(z, 0)
  <2>1. Closed(z, 0, sizes, {})
    BY <1>4 DEF Closed
  <2> QED  BY <2>1 DEF StreamedSlots, Visited
<1> QED  BY <1>3, <1>4

\* So what it would extract has a name in the directory.
LEMMA StreamedAreListed ==
    ASSUME NEW z \in ZipFile, ~Mismatch(z), ~Deferred(z), NEW o \in StreamedSlots(z)
    PROVE  \E e \in Directory(z) : e.name = z.slots[o].name
<1>1. o \in Walk(z)
  BY StreamedAreWalked
<1>2. PICK e \in Directory(z) : e.at = o
  BY <1>1 DEF Mismatch, Claims
<1> QED  BY <1>2 DEF Mismatch
-----------------------------------------------------------------------------
(* A tarball: the names that are pending are those of the latest extended  *)
(* headers before the next place.                                          *)

Long(i) == {k \in Since(i) : headers[k].type = "long-name"}
Own(i) == WithPath(Since(i), "pax")
Shared(i) == WithPath(1..(i - 1), "global")
HasLatest(S) == S = {} \/ \E k \in S : \A j \in S : j <= k
Tails(i) == HasLatest(Long(i)) /\ HasLatest(Own(i)) /\ HasLatest(Shared(i))

Following == Len(headers) + 1
Longer(h) == headers \in Seq(Header) /\ h \in Header /\ headers' = Append(headers, h)
TellsOwn(h) == h.type = "pax" /\ h.path # NoPath
TellsShared(h) == h.type = "global" /\ h.path # NoPath

LEMMA LatestIn ==
    ASSUME NEW S \in SUBSET Nat, HasLatest(S), S # {}
    PROVE  Latest(S) \in S /\ \A j \in S : j <= Latest(S)
BY DEF HasLatest, Latest

LEMMA LatestAdded ==
    ASSUME NEW n \in Nat, NEW S \in SUBSET (1..n)
    PROVE  HasLatest(S \cup {n + 1}) /\ Latest(S \cup {n + 1}) = n + 1
<1> DEFINE T == S \cup {n + 1}
<1>1. n + 1 \in T /\ (\A j \in T : j <= n + 1) /\ T \in SUBSET Nat
  OBVIOUS
<1>2. HasLatest(T)
  BY <1>1 DEF HasLatest
<1>3. Latest(T) \in T /\ \A j \in T : j <= Latest(T)
  BY <1>1, <1>2, LatestIn
<1>4. n + 1 <= Latest(T) /\ Latest(T) <= n + 1 /\ Latest(T) \in Nat
  BY <1>1, <1>3
<1> QED  BY <1>2, <1>4

\* Their places are before the one they are for.
LEMMA PlacesBefore ==
    ASSUME NEW i \in Nat
    PROVE  Long(i) \subseteq 1..(i - 1) /\ Own(i) \subseteq 1..(i - 1) /\ Shared(i) \subseteq 1..(i - 1)
BY DEF Long, Own, Shared, Since, WithPath

LEMMA PathIs ==
    ASSUME NEW i
    PROVE  /\ PathFor(i) = IF Own(i) # {} THEN headers[Latest(Own(i))].path
                           ELSE IF Shared(i) # {} THEN headers[Latest(Shared(i))].path
                           ELSE IF Long(i) # {} THEN headers[Latest(Long(i))].name ELSE headers[i].name
           /\ PathFor(i)' = IF Own(i)' # {} THEN headers'[Latest(Own(i)')].path
                            ELSE IF Shared(i)' # {} THEN headers'[Latest(Shared(i)')].path
                            ELSE IF Long(i)' # {} THEN headers'[Latest(Long(i)')].name ELSE headers'[i].name
BY DEF PathFor, Own, Shared, Long, Latest

\* A header read leaves what is in front of it where it was.
LEMMA AppendedIs ==
    ASSUME NEW h, Longer(h)
    PROVE  /\ Following \in Nat /\ Following' = Following + 1 /\ Len(headers) = Following - 1
           /\ DOMAIN headers = 1..(Following - 1) /\ DOMAIN headers' = 1..Following
           /\ headers'[Following] = h
           /\ \A k \in 1..(Following - 1) : headers'[k] = headers[k] /\ headers[k] \in Header
           /\ headers' \in Seq(Header)
BY DEF Longer, Following

LEMMA SinceKept ==
    ASSUME NEW h, Longer(h), NEW i \in 1..Following
    PROVE  Since(i)' = Since(i)
<1>1. \A k \in 1..(i - 1) : \A j \in k..(i - 1) : MemberAt(j)' <=> MemberAt(j)
  BY AppendedIs DEF MemberAt
<1> QED  BY <1>1 DEF Since

LEMMA BehindKept ==
    ASSUME NEW h, Longer(h), NEW i \in 1..Following
    PROVE  Long(i)' = Long(i) /\ Own(i)' = Own(i) /\ Shared(i)' = Shared(i)
<1>1. Since(i)' = Since(i)
  BY SinceKept
<1>2. \A k \in 1..(i - 1) : headers'[k] = headers[k]
  BY AppendedIs
<1>3. Since(i) \subseteq 1..(i - 1)
  BY DEF Since
<1>4. Long(i)' = Long(i)
  BY <1>1, <1>2, <1>3 DEF Long
<1>5. Own(i)' = Own(i)
  BY <1>1, <1>2, <1>3 DEF Own, WithPath
<1>6. Shared(i)' = Shared(i)
  BY <1>2 DEF Shared, WithPath
<1> QED  BY <1>4, <1>5, <1>6

\* It adds itself to what is pending, or, when it is a member, takes it.
LEMMA SinceAdded ==
    ASSUME NEW h, Longer(h), NEW m, m = Following
    PROVE  Since(m + 1)' = IF h.type = "member" THEN {} ELSE Since(m) \cup {m}
<1>1. m \in Nat /\ headers'[m] = h /\ \A k \in 1..(m - 1) : headers'[k] = headers[k]
  BY AppendedIs
<1>2. MemberAt(m)' <=> h.type = "member"
  BY <1>1 DEF MemberAt
<1>3. \A k \in 1..(m - 1) : MemberAt(k)' <=> MemberAt(k)
  BY <1>1 DEF MemberAt
<1>4. Since(m + 1)' = {k \in 1..m : \A j \in k..m : ~MemberAt(j)'}
  BY <1>1 DEF Since
<1>5. Since(m) = {k \in 1..(m - 1) : \A j \in k..(m - 1) : ~MemberAt(j)}
  BY DEF Since
<1>6. CASE h.type = "member"
  <2>1. \A k \in 1..m : m \in k..m
    BY <1>1
  <2> QED  BY <1>2, <1>4, <1>6, <2>1
<1>7. CASE h.type # "member"
  <2>1. ASSUME NEW k \in 1..m
        PROVE  (\A j \in k..m : ~MemberAt(j)') <=> k = m \/ (k \in 1..(m - 1) /\ \A j \in k..(m - 1) : ~MemberAt(j))
    <3>1. \A j \in k..m : j = m \/ j \in k..(m - 1)
      BY <1>1
    <3>2. \A j \in k..(m - 1) : j \in k..m /\ j \in 1..(m - 1)
      BY <1>1
    <3> QED  BY <1>1, <1>2, <1>3, <1>7, <3>1, <3>2
  <2>2. m \in 1..m /\ \A k \in 1..(m - 1) : k \in 1..m
    BY <1>1, AppendedIs
  <2> QED  BY <1>4, <1>5, <1>7, <2>1, <2>2
<1> QED  BY <1>6, <1>7

LEMMA BehindAdded ==
    ASSUME NEW h, Longer(h), NEW m, m = Following
    PROVE  /\ Long(m + 1)' = IF h.type = "member" THEN {}
                             ELSE IF h.type = "long-name" THEN Long(m) \cup {m} ELSE Long(m)
           /\ Own(m + 1)' = IF h.type = "member" THEN {}
                            ELSE IF TellsOwn(h) THEN Own(m) \cup {m} ELSE Own(m)
           /\ Shared(m + 1)' = IF TellsShared(h) THEN Shared(m) \cup {m} ELSE Shared(m)
<1>1. Since(m + 1)' = IF h.type = "member" THEN {} ELSE Since(m) \cup {m}
  BY SinceAdded
<1>2. m \in Nat /\ headers'[m] = h /\ (\A k \in 1..(m - 1) : headers'[k] = headers[k]) /\ m \notin 1..(m - 1)
  BY AppendedIs
<1>3. Since(m) \subseteq 1..(m - 1)
  BY DEF Since
<1>4. Long(m + 1)' = {k \in Since(m + 1)' : headers'[k].type = "long-name"}
  BY DEF Long
<1>5. Own(m + 1)' = {k \in Since(m + 1)' : headers'[k].type = "pax" /\ headers'[k].path # NoPath}
  BY DEF Own, WithPath
<1>6. \A k \in Since(m) : headers'[k] = headers[k]
  BY <1>2, <1>3
<1>7. Long(m + 1)' = IF h.type = "member" THEN {}
                     ELSE IF h.type = "long-name" THEN Long(m) \cup {m} ELSE Long(m)
  BY <1>1, <1>2, <1>4, <1>6 DEF Long
<1>8. Own(m + 1)' = IF h.type = "member" THEN {} ELSE IF TellsOwn(h) THEN Own(m) \cup {m} ELSE Own(m)
  BY <1>1, <1>2, <1>5, <1>6 DEF Own, WithPath, TellsOwn
<1>9. Shared(m + 1)' = IF TellsShared(h) THEN Shared(m) \cup {m} ELSE Shared(m)
  <2>1. Shared(m + 1)' = {k \in 1..m : headers'[k].type = "global" /\ headers'[k].path # NoPath}
    BY <1>2 DEF Shared, WithPath
  <2>2. Shared(m) = {k \in 1..(m - 1) : headers[k].type = "global" /\ headers[k].path # NoPath}
    BY DEF Shared, WithPath
  <2>3. m \in Nat \ {0}
    BY AppendedIs DEF Longer, Following
  <2>4. 1..m = (1..(m - 1)) \cup {m}
    BY <2>3
  <2>5. Shared(m + 1)' = {k \in 1..(m - 1) : headers'[k].type = "global" /\ headers'[k].path # NoPath}
                         \cup {k \in {m} : headers'[k].type = "global" /\ headers'[k].path # NoPath}
    BY <2>1, <2>4
  <2>6. {k \in 1..(m - 1) : headers'[k].type = "global" /\ headers'[k].path # NoPath} = Shared(m)
    BY <1>2, <2>2
  <2>7. {k \in {m} : headers'[k].type = "global" /\ headers'[k].path # NoPath} = IF TellsShared(h) THEN {m} ELSE {}
    BY <1>2 DEF TellsShared
  <2> QED  BY <2>5, <2>6, <2>7
<1> QED  BY <1>7, <1>8, <1>9

\* What was latest stays that, and a header added is the latest of its kind.
LEMMA TailsKept ==
    ASSUME NEW h, Longer(h), \A i \in 1..Following : Tails(i), NEW i \in 1..Following'
    PROVE  Tails(i)'
<1>1. Following \in Nat \ {0} /\ Following' = Following + 1
  BY AppendedIs DEF Longer, Following
<1>2. CASE i \in 1..Following
  <2>1. Tails(i)
    BY <1>2
  <2> QED  BY <1>2, <2>1, BehindKept DEF Tails, HasLatest
<1>3. CASE i = Following + 1
  <2>1. PICK m \in Nat \ {0} : m = Following
    BY <1>1
  <2>2. Tails(m)
    BY <2>1
  <2>3. Long(m) \in SUBSET (1..(m - 1)) /\ Own(m) \in SUBSET (1..(m - 1)) /\ Shared(m) \in SUBSET (1..(m - 1))
    BY PlacesBefore
  <2>4. \A S \in SUBSET (1..(m - 1)) : HasLatest(S \cup {m})
    BY <2>1, LatestAdded
  <2>5. HasLatest({}) /\ HasLatest(Long(m)) /\ HasLatest(Own(m)) /\ HasLatest(Shared(m))
    BY <2>2 DEF Tails, HasLatest
  <2>6. HasLatest(Long(m) \cup {m}) /\ HasLatest(Own(m) \cup {m}) /\ HasLatest(Shared(m) \cup {m})
    BY <2>3, <2>4
  <2>7. HasLatest(Long(m + 1)') /\ HasLatest(Own(m + 1)') /\ HasLatest(Shared(m + 1)')
    BY <2>1, <2>5, <2>6, BehindAdded
  <2>8. Tails(m + 1)'
    BY <2>7 DEF Tails, HasLatest
  <2> QED  BY <1>3, <2>1, <2>8
<1> QED  BY <1>1, <1>2, <1>3

\* A member's name is settled once it is read.
LEMMA PathKept ==
    ASSUME NEW h, Longer(h), \A i \in 1..Following : Tails(i), NEW i \in DOMAIN headers
    PROVE  PathFor(i)' = PathFor(i)
<1>1. i \in 1..Following /\ i \in Nat /\ headers'[i] = headers[i] /\ i \in 1..(Following - 1) /\ Following \in Nat
  BY AppendedIs
<1>2. Long(i)' = Long(i) /\ Own(i)' = Own(i) /\ Shared(i)' = Shared(i)
  BY <1>1, BehindKept
<1>3. HasLatest(Long(i)) /\ HasLatest(Own(i)) /\ HasLatest(Shared(i))
  BY <1>1 DEF Tails
<1>4. Long(i) \subseteq 1..(i - 1) /\ Own(i) \subseteq 1..(i - 1) /\ Shared(i) \subseteq 1..(i - 1)
  BY <1>1, PlacesBefore
<1>5. \A S \in SUBSET (1..(i - 1)) : HasLatest(S) /\ S # {} => headers'[Latest(S)] = headers[Latest(S)]
  <2> SUFFICES ASSUME NEW S \in SUBSET (1..(i - 1)), HasLatest(S), S # {}
               PROVE  headers'[Latest(S)] = headers[Latest(S)]
    OBVIOUS
  <2>1. S \in SUBSET Nat
    BY <1>1
  <2>2. Latest(S) \in 1..(i - 1)
    BY <2>1, LatestIn
  <2> QED  BY <1>1, <2>2, AppendedIs
<1>6. Own(i) # {} => headers'[Latest(Own(i))] = headers[Latest(Own(i))]
  BY <1>3, <1>4, <1>5
<1>7. Shared(i) # {} => headers'[Latest(Shared(i))] = headers[Latest(Shared(i))]
  BY <1>3, <1>4, <1>5
<1>8. Long(i) # {} => headers'[Latest(Long(i))] = headers[Latest(Long(i))]
  BY <1>3, <1>4, <1>5
<1> QED  BY <1>1, <1>2, <1>6, <1>7, <1>8, PathIs

LEMMA MembersAdded ==
    ASSUME NEW h, Longer(h), NEW m, m = Following
    PROVE  /\ MembersRead' = IF h.type = "member" THEN MembersRead \cup {m} ELSE MembersRead
           /\ m \notin MembersRead /\ MembersRead \subseteq 1..(m - 1)
<1>1. m \in Nat \ {0} /\ DOMAIN headers = 1..(m - 1) /\ DOMAIN headers' = 1..m /\ headers'[m] = h
  BY AppendedIs DEF Longer, Following
<1>2. \A k \in 1..(m - 1) : headers'[k] = headers[k]
  BY AppendedIs
<1>3. 1..m = (1..(m - 1)) \cup {m} /\ m \notin 1..(m - 1)
  BY <1>1
<1>4. MembersRead' = {i \in 1..m : headers'[i].type = "member"}
  BY <1>1 DEF MembersRead, MemberAt
<1>5. MembersRead = {i \in 1..(m - 1) : headers[i].type = "member"}
  BY <1>1 DEF MembersRead, MemberAt
<1> QED  BY <1>1, <1>2, <1>3, <1>4, <1>5

\* The names that are pending, and the entries judged so far.
LongPending == longName = IF Long(Following) = {} THEN NoPath ELSE headers[Latest(Long(Following))].name
OwnPending == pax.path = IF Own(Following) = {} THEN NoPath ELSE headers[Latest(Own(Following))].path
SharedPending == global.path = IF Shared(Following) = {} THEN NoPath ELSE headers[Latest(Shared(Following))].path
AllJudged == Range(judged) = {PathFor(i) : i \in MembersRead} /\ Len(judged) = Cardinality(MembersRead)
UnsafeFound == \A name \in Range(judged) \cap UnsafeName : "block" \in findings

TarTypes ==
    /\ headers \in Seq(Header) /\ judged \in Seq(Names)
    /\ {longName, pax.path, global.path} \subseteq Names \cup {NoPath}
    /\ \A k \in DOMAIN headers : headers[k].type = "long-name" => headers[k].name # NoPath
Pending == (\A i \in 1..Following : Tails(i)) /\ LongPending /\ OwnPending /\ SharedPending
TarInv == zip = NoZip /\ status # "error" => TarTypes /\ Pending /\ AllJudged /\ UnsafeFound
PassHasNoBlock == status \in {"pass", "warn"} => "block" \notin findings

ArchiveInv ==
    /\ zip \in ZipFile \cup {NoZip}
    /\ zip # NoZip => MembersAreJudged
    /\ zip = NoZip => PassHasNoBlock
    /\ TarInv

\* Which names a header has.
LEMMA HeaderNames ==
    ASSUME NEW h \in Header
    PROVE  /\ h.type = "member" => h.name \in Names
           /\ h.type = "long-name" => h.name \in Names \cup {NoPath}
           /\ h.type \in {"pax", "global"} => h.path \in Names \cup {NoPath}
BY DEF Header, Member, LongName, Pax

\* An extended header read becomes what is pending.
LEMMA PendingKept ==
    ASSUME Pending, NEW h, Longer(h), h.type # "member",
           longName' = IF h.type = "long-name" THEN h.name ELSE longName,
           pax'.path = IF TellsOwn(h) THEN h.path ELSE pax.path,
           global'.path = IF TellsShared(h) THEN h.path ELSE global.path
    PROVE  Pending'
<1>1. PICK m \in Nat \ {0} : m = Following /\ m + 1 = Following'
  BY AppendedIs DEF Longer, Following
<1>2. \A i \in 1..Following' : Tails(i)'
  BY TailsKept DEF Pending
<1>3. /\ Long(m) \in SUBSET (1..(m - 1)) /\ Own(m) \in SUBSET (1..(m - 1)) /\ Shared(m) \in SUBSET (1..(m - 1))
      /\ HasLatest(Long(m)) /\ HasLatest(Own(m)) /\ HasLatest(Shared(m))
  BY <1>1, PlacesBefore DEF Pending, Tails
<1>4. \A S \in SUBSET (1..(m - 1)) : HasLatest(S) /\ S # {} => headers'[Latest(S)] = headers[Latest(S)]
  <2> SUFFICES ASSUME NEW S \in SUBSET (1..(m - 1)), HasLatest(S), S # {}
               PROVE  headers'[Latest(S)] = headers[Latest(S)]
    OBVIOUS
  <2>1. S \in SUBSET Nat
    BY <1>1
  <2>2. Latest(S) \in 1..(m - 1)
    BY <2>1, LatestIn
  <2> QED  BY <1>1, <2>2, AppendedIs
<1>5. \A S \in SUBSET (1..(m - 1)) : Latest(S \cup {m}) = m /\ S \cup {m} # {}
  <2> SUFFICES ASSUME NEW S \in SUBSET (1..(m - 1))
               PROVE  Latest(S \cup {m}) = m
    OBVIOUS
  <2> QED  BY <1>1, LatestAdded
<1>6. headers'[m] = h
  BY <1>1, AppendedIs
<1>7. LongPending'
  <2>1. Long(m + 1)' = IF h.type = "long-name" THEN Long(m) \cup {m} ELSE Long(m)
    BY <1>1, BehindAdded
  <2>2. longName = IF Long(m) = {} THEN NoPath ELSE headers[Latest(Long(m))].name
    BY <1>1 DEF Pending, LongPending
  <2>3. longName' = IF Long(m + 1)' = {} THEN NoPath ELSE headers'[Latest(Long(m + 1)')].name
    <3>1. CASE h.type = "long-name"
      BY <1>3, <1>5, <1>6, <2>1, <3>1
    <3>2. CASE h.type # "long-name"
      BY <1>3, <1>4, <2>1, <2>2, <3>2
    <3> QED  BY <3>1, <3>2
  <2> QED  BY <1>1, <2>3 DEF LongPending, Long, Latest
<1>8. OwnPending'
  <2>1. Own(m + 1)' = IF TellsOwn(h) THEN Own(m) \cup {m} ELSE Own(m)
    BY <1>1, BehindAdded
  <2>2. pax.path = IF Own(m) = {} THEN NoPath ELSE headers[Latest(Own(m))].path
    BY <1>1 DEF Pending, OwnPending
  <2>3. pax'.path = IF Own(m + 1)' = {} THEN NoPath ELSE headers'[Latest(Own(m + 1)')].path
    <3>1. CASE TellsOwn(h)
      BY <1>3, <1>5, <1>6, <2>1, <3>1
    <3>2. CASE ~TellsOwn(h)
      BY <1>3, <1>4, <2>1, <2>2, <3>2
    <3> QED  BY <3>1, <3>2
  <2> QED  BY <1>1, <2>3 DEF OwnPending, Own, Latest
<1>9. SharedPending'
  <2>1. Shared(m + 1)' = IF TellsShared(h) THEN Shared(m) \cup {m} ELSE Shared(m)
    BY <1>1, BehindAdded
  <2>2. global.path = IF Shared(m) = {} THEN NoPath ELSE headers[Latest(Shared(m))].path
    BY <1>1 DEF Pending, SharedPending
  <2>3. global'.path = IF Shared(m + 1)' = {} THEN NoPath ELSE headers'[Latest(Shared(m + 1)')].path
    <3>1. CASE TellsShared(h)
      BY <1>3, <1>5, <1>6, <2>1, <3>1
    <3>2. CASE ~TellsShared(h)
      BY <1>3, <1>4, <2>1, <2>2, <3>2
    <3> QED  BY <3>1, <3>2
  <2> QED  BY <1>1, <2>3 DEF SharedPending, Shared, Latest
<1> QED  BY <1>2, <1>7, <1>8, <1>9 DEF Pending

\* A member is judged by the name that the headers before it give it.
LEMMA NameIsPath ==
    ASSUME TarTypes, Pending, NEW h, Longer(h), NEW m, m = Following
    PROVE  NameOf(h) = PathFor(m)'
<1>1. m \in Nat \ {0} /\ m \in 1..Following /\ DOMAIN headers = 1..(m - 1)
  BY AppendedIs DEF Longer, Following
<1>2. Long(m)' = Long(m) /\ Own(m)' = Own(m) /\ Shared(m)' = Shared(m) /\ headers'[m] = h
  BY <1>1, BehindKept, AppendedIs
<1>3. \A S \in SUBSET (1..(m - 1)) : HasLatest(S) /\ S # {} => Latest(S) \in S /\ headers'[Latest(S)] = headers[Latest(S)]
  <2> SUFFICES ASSUME NEW S \in SUBSET (1..(m - 1)), HasLatest(S), S # {}
               PROVE  Latest(S) \in S /\ headers'[Latest(S)] = headers[Latest(S)]
    OBVIOUS
  <2>1. S \in SUBSET Nat
    BY <1>1
  <2>2. Latest(S) \in S
    BY <2>1, LatestIn
  <2> QED  BY <1>1, <2>2, AppendedIs
<1>4. /\ Long(m) \in SUBSET (1..(m - 1)) /\ Own(m) \in SUBSET (1..(m - 1)) /\ Shared(m) \in SUBSET (1..(m - 1))
      /\ HasLatest(Long(m)) /\ HasLatest(Own(m)) /\ HasLatest(Shared(m))
  BY <1>1, PlacesBefore DEF Pending, Tails
<1>5. Own(m) # {} => headers'[Latest(Own(m))].path = pax.path /\ pax.path # NoPath
  <2> SUFFICES ASSUME Own(m) # {}
               PROVE  headers'[Latest(Own(m))].path = pax.path /\ pax.path # NoPath
    OBVIOUS
  <2>1. Latest(Own(m)) \in Own(m) /\ headers'[Latest(Own(m))] = headers[Latest(Own(m))]
    BY <1>3, <1>4
  <2>2. headers[Latest(Own(m))].path # NoPath
    BY <2>1 DEF Own, WithPath
  <2> QED  BY <1>1, <2>1, <2>2 DEF Pending, OwnPending
<1>6. Shared(m) # {} => headers'[Latest(Shared(m))].path = global.path /\ global.path # NoPath
  <2> SUFFICES ASSUME Shared(m) # {}
               PROVE  headers'[Latest(Shared(m))].path = global.path /\ global.path # NoPath
    OBVIOUS
  <2>1. Latest(Shared(m)) \in Shared(m) /\ headers'[Latest(Shared(m))] = headers[Latest(Shared(m))]
    BY <1>3, <1>4
  <2>2. headers[Latest(Shared(m))].path # NoPath
    BY <2>1 DEF Shared, WithPath
  <2> QED  BY <1>1, <2>1, <2>2 DEF Pending, SharedPending
<1>7. Long(m) # {} => headers'[Latest(Long(m))].name = longName /\ longName # NoPath
  <2> SUFFICES ASSUME Long(m) # {}
               PROVE  headers'[Latest(Long(m))].name = longName /\ longName # NoPath
    OBVIOUS
  <2>1. Latest(Long(m)) \in Long(m) /\ headers'[Latest(Long(m))] = headers[Latest(Long(m))]
    BY <1>3, <1>4
  <2>2. headers[Latest(Long(m))].name # NoPath
    BY <1>1, <1>4, <2>1 DEF Long, TarTypes
  <2> QED  BY <1>1, <2>1, <2>2 DEF Pending, LongPending
<1>8. /\ Own(m) = {} => pax.path = NoPath
      /\ Shared(m) = {} => global.path = NoPath
      /\ Long(m) = {} => longName = NoPath
  BY <1>1 DEF Pending, OwnPending, SharedPending, LongPending
<1>9. PathFor(m)' = IF Own(m) # {} THEN headers'[Latest(Own(m))].path
                    ELSE IF Shared(m) # {} THEN headers'[Latest(Shared(m))].path
                    ELSE IF Long(m) # {} THEN headers'[Latest(Long(m))].name ELSE h.name
  BY <1>2, PathIs
<1> QED  BY <1>5, <1>6, <1>7, <1>8, <1>9 DEF NameOf, PaxPath

\* Behind a member nothing is pending but what is for every member.
LEMMA PendingTaken ==
    ASSUME Pending, NEW h, Longer(h), h.type = "member", ClearPending, UNCHANGED global
    PROVE  Pending'
<1>1. PICK m \in Nat \ {0} : m = Following /\ m + 1 = Following'
  BY AppendedIs DEF Longer, Following
<1>2. \A i \in 1..Following' : Tails(i)'
  BY TailsKept DEF Pending
<1>3. Long(m + 1)' = {} /\ Own(m + 1)' = {}
  BY <1>1, BehindAdded
<1>4. LongPending' /\ OwnPending'
  BY <1>1, <1>3 DEF LongPending, OwnPending, ClearPending, NoHeader
<1>5. Shared(m + 1)' = Shared(m)
  BY <1>1, BehindAdded DEF TellsShared
<1>6. Shared(m) \in SUBSET (1..(m - 1)) /\ HasLatest(Shared(m)) /\ Shared(m) \in SUBSET Nat
  BY <1>1, PlacesBefore DEF Pending, Tails
<1>7. Shared(m) # {} => headers'[Latest(Shared(m))] = headers[Latest(Shared(m))]
  BY <1>1, <1>6, LatestIn, AppendedIs
<1>8. global.path = IF Shared(m) = {} THEN NoPath ELSE headers[Latest(Shared(m))].path
  BY <1>1 DEF Pending, SharedPending
<1>9. SharedPending'
  <2>1. global'.path = IF Shared(m + 1)' = {} THEN NoPath ELSE headers'[Latest(Shared(m + 1)')].path
    BY <1>5, <1>7, <1>8
  <2> QED  BY <1>1, <2>1 DEF SharedPending, Shared, Latest
<1> QED  BY <1>2, <1>4, <1>9 DEF Pending

\* Any other header is no entry.
LEMMA JudgedKept ==
    ASSUME AllJudged, Pending, NEW h, Longer(h), h.type # "member", UNCHANGED judged
    PROVE  AllJudged'
<1>1. MembersRead' = MembersRead
  BY MembersAdded
<1>2. \A i \in MembersRead : PathFor(i)' = PathFor(i)
  BY PathKept DEF Pending, MembersRead
<1> QED  BY <1>1, <1>2 DEF AllJudged, Range

LEMMA JudgedAdded ==
    ASSUME TarTypes, Pending, AllJudged, NEW h, Longer(h), h.type = "member", judged' = Append(judged, NameOf(h)), NameOf(h) \in Names
    PROVE  AllJudged' /\ judged' \in Seq(Names) /\ Range(judged') = Range(judged) \cup {NameOf(h)}
<1>1. PICK m \in Nat \ {0} : m = Following
  BY AppendedIs DEF Longer, Following
<1>2. MembersRead' = MembersRead \cup {m} /\ m \notin MembersRead /\ MembersRead \subseteq 1..(m - 1)
  BY <1>1, MembersAdded
<1>3. \A i \in MembersRead : PathFor(i)' = PathFor(i)
  BY PathKept DEF Pending, MembersRead
<1>4. PathFor(m)' = NameOf(h)
  BY <1>1, NameIsPath
<1>5. judged' \in Seq(Names) /\ Len(judged') = Len(judged) + 1 /\ Range(judged') = Range(judged) \cup {NameOf(h)}
  <2>1. /\ judged' \in Seq(Names) /\ DOMAIN judged = 1..Len(judged) /\ DOMAIN judged' = 1..(Len(judged) + 1)
        /\ Len(judged) \in Nat /\ Len(judged') = Len(judged) + 1
        /\ judged'[Len(judged) + 1] = NameOf(h) /\ \A k \in 1..Len(judged) : judged'[k] = judged[k]
    BY DEF TarTypes
  <2>2. 1..(Len(judged) + 1) = (1..Len(judged)) \cup {Len(judged) + 1}
    BY <2>1
  <2> QED  BY <2>1, <2>2 DEF Range
<1>6. {PathFor(i) : i \in MembersRead}' = {PathFor(i) : i \in MembersRead} \cup {NameOf(h)}
  BY <1>2, <1>3, <1>4
<1>7. Cardinality(MembersRead') = Cardinality(MembersRead) + 1
  <2>1. IsFiniteSet(1..(m - 1))
    BY <1>1, FS_Interval
  <2>2. IsFiniteSet(MembersRead)
    BY <1>2, <2>1, FS_Subset
  <2> QED  BY <1>2, <2>2, FS_AddElement
<1> QED  BY <1>5, <1>6, <1>7 DEF AllJudged

\* What a member, a manifest and the end of an archive say.
LEMMA Verdicts ==
    ASSUME NEW name, NEW manifest, NEW isError \in BOOLEAN, NEW severities
    PROVE  /\ name \in UnsafeName => "block" \in Severities(name, manifest)
           /\ Status(isError, severities) \in {"pass", "warn"} => ~isError /\ "block" \notin severities
           /\ Status(isError, severities) \notin {"reading"}
BY DEF Severities, Status

LEMMA SamePending ==
    ASSUME UNCHANGED <<headers, longName, pax, global>>
    PROVE  Pending' <=> Pending
<1>1. \A i : Since(i)' = Since(i)
  BY DEF Since, MemberAt
<1>2. \A i : Long(i)' = Long(i) /\ Own(i)' = Own(i) /\ Shared(i)' = Shared(i)
  BY <1>1 DEF Long, Own, Shared, WithPath
<1>3. Following' = Following
  BY DEF Following
<1>4. (\A i \in 1..Following' : Tails(i)') <=> (\A i \in 1..Following : Tails(i))
  BY <1>2, <1>3 DEF Tails
<1>5. PICK m : m = Following /\ m = Following'
  BY <1>3
<1>6. Long(m)' = Long(m) /\ Own(m)' = Own(m) /\ Shared(m)' = Shared(m)
  BY <1>2
<1>7. LongPending' <=> LongPending
  BY <1>5, <1>6 DEF LongPending, Long, Latest
<1>8. OwnPending' <=> OwnPending
  BY <1>5, <1>6 DEF OwnPending, Own, Latest
<1>9. SharedPending' <=> SharedPending
  BY <1>5, <1>6 DEF SharedPending, Shared, Latest
<1> QED  BY <1>4, <1>7, <1>8, <1>9 DEF Pending

LEMMA SameMembers ==
    ASSUME UNCHANGED headers
    PROVE  MembersRead' = MembersRead /\ \A i : PathFor(i)' = PathFor(i)
<1>1. MembersRead' = MembersRead
  BY DEF MembersRead, MemberAt
<1>2. \A i : Since(i)' = Since(i)
  BY DEF Since, MemberAt
<1>3. \A i : Long(i)' = Long(i) /\ Own(i)' = Own(i) /\ Shared(i)' = Shared(i)
  BY <1>2 DEF Long, Own, Shared, WithPath
<1>4. \A i : PathFor(i)' = PathFor(i)
  <2> SUFFICES ASSUME NEW i
               PROVE  PathFor(i)' = PathFor(i)
    OBVIOUS
  <2> QED  BY <1>3, PathIs
<1> QED  BY <1>1, <1>4

LEMMA ZipScanned ==
    ASSUME zip \in ZipFile, ScanZip
    PROVE  MembersAreJudged'
<1>1. zip' = zip /\ zip # NoZip
  BY DEF ScanZip
<1> SUFFICES ASSUME status' \in {"pass", "warn"}
             PROVE  Range(judged') = ExtractedNames' /\ ExtractedNames' \cap UnsafeName = {}
  BY <1>1 DEF MembersAreJudged
<1>2. ~Mismatch(zip)
  BY DEF ScanZip
<1>3. /\ judged' = [i \in DOMAIN zip.directory |-> zip.directory[i].name]
      /\ status' = Status(\E e \in Directory(zip) : e.body = "broken", findings')
      /\ \A e \in Directory(zip) : Severities(e.name, "no") \subseteq findings'
  BY <1>2 DEF ScanZip
<1>4. "block" \notin findings'
  BY <1>3, Verdicts
<1>5. \A e \in Directory(zip) : e.name \notin UnsafeName
  BY <1>3, <1>4, Verdicts
<1>6. Range(judged') = {e.name : e \in Directory(zip)}
  BY <1>3, ZipTypes DEF Range
<1>7. ExtractedNames' = {e.name : e \in Directory(zip)}
                        \cup {zip.slots[o].name : o \in IF Deferred(zip) THEN {} ELSE StreamedSlots(zip)}
  BY <1>1 DEF ExtractedNames
<1>8. {zip.slots[o].name : o \in IF Deferred(zip) THEN {} ELSE StreamedSlots(zip)} \subseteq {e.name : e \in Directory(zip)}
  BY <1>2, StreamedAreListed
<1>9. ExtractedNames' = {e.name : e \in Directory(zip)}
  BY <1>7, <1>8
<1>10. {e.name : e \in Directory(zip)} \cap UnsafeName = {}
  BY <1>5
<1> QED  BY <1>6, <1>9, <1>10

(***************************************************************************)
(* For any archive, with any names and extended headers: when dg verify    *)
(* calls it passed or warned about, every member was judged by the name an *)
(* extractor will give it, and none of those names leaves the root.        *)
(***************************************************************************)
THEOREM MembersStayJudged == ArchiveSpec => []MembersAreJudged
<1>1. ArchiveInit => ArchiveInv
  <2> SUFFICES ASSUME ArchiveInit
               PROVE  ArchiveInv
    OBVIOUS
  <2>1. headers = <<>> /\ judged = <<>> /\ Following = 1 /\ DOMAIN headers = {} /\ DOMAIN judged = {}
    BY DEF ArchiveInit, Following
  <2>2. MembersRead = {} /\ Range(judged) = {} /\ Len(judged) = 0
    BY <2>1 DEF MembersRead, Range
  <2>3. AllJudged
    BY <2>2, FS_EmptySet DEF AllJudged
  <2>4. Long(1) = {} /\ Own(1) = {} /\ Shared(1) = {} /\ 1..Following = {1}
    BY <2>1, PlacesBefore
  <2>5. Pending
    BY <2>1, <2>4 DEF Pending, Tails, HasLatest, LongPending, OwnPending, SharedPending, ArchiveInit, NoHeader
  <2>6. TarTypes
    BY <2>1 DEF TarTypes, ArchiveInit, NoHeader
  <2> QED  BY <2>2, <2>3, <2>5, <2>6 DEF ArchiveInv, TarInv, UnsafeFound, PassHasNoBlock, MembersAreJudged, ArchiveInit
<1>2. ArchiveInv /\ [ArchiveNext]_archiveVars => ArchiveInv'
  <2> SUFFICES ASSUME ArchiveInv, [ArchiveNext]_archiveVars
               PROVE  ArchiveInv'
    OBVIOUS
  <2>1. CASE CannotOpen
    BY <2>1 DEF CannotOpen, ArchiveInv, TarInv, PassHasNoBlock, MembersAreJudged
  <2>2. CASE EndOfArchive
    <3>1. UNCHANGED <<zip, headers, longName, pax, global, judged>> /\ zip = NoZip /\ status = "reading" /\ findings \subseteq findings'
      BY <2>2 DEF EndOfArchive, pending
    <3>2. TarTypes /\ Pending /\ AllJudged /\ UnsafeFound
      BY <3>1 DEF ArchiveInv, TarInv
    <3>3. TarTypes' /\ UnsafeFound'
      BY <3>1, <3>2 DEF TarTypes, UnsafeFound
    <3>4. Pending'
      BY <3>1, <3>2, SamePending
    <3>5. AllJudged'
      BY <3>1, <3>2, SameMembers DEF AllJudged
    <3>6. PassHasNoBlock'
      BY <2>2, Verdicts DEF EndOfArchive, PassHasNoBlock
    <3> QED  BY <3>1, <3>3, <3>4, <3>5, <3>6 DEF ArchiveInv, TarInv
  <2>3. CASE ScanZip
    <3>1. zip' = zip /\ zip # NoZip
      BY <2>3 DEF ScanZip
    <3>2. MembersAreJudged'
      BY <2>3, <3>1, ZipScanned DEF ArchiveInv
    <3> QED  BY <3>1, <3>2 DEF ArchiveInv, TarInv
  <2>4. ASSUME NEW h \in Header, ReadLongName(h) \/ ReadPax(h) \/ ReadLongLink(h) \/ Garbled(h) \/ ReadMember(h)
        PROVE  ArchiveInv'
    <3>1. zip' = zip /\ zip = NoZip /\ status = "reading" /\ headers' = Append(headers, h)
      BY <2>4 DEF ReadLongName, ReadPax, ReadLongLink, Garbled, ReadMember, Read
    <3>2. TarTypes /\ Pending /\ AllJudged /\ UnsafeFound
      BY <3>1 DEF ArchiveInv, TarInv
    <3>3. Longer(h)
      BY <3>1, <3>2 DEF Longer, TarTypes
    <3>4. status' \in {"reading", "error"}
      BY <2>4, <3>1 DEF ReadLongName, ReadPax, ReadLongLink, Garbled, ReadMember, Fail
    <3>5. ASSUME status' = "reading"
          PROVE  TarTypes' /\ Pending' /\ AllJudged' /\ UnsafeFound'
      <4>1. headers' \in Seq(Header) /\ DOMAIN headers' = DOMAIN headers \cup {Following} /\ headers'[Following] = h
            /\ \A k \in DOMAIN headers : headers'[k] = headers[k]
        <5>1. Following \in Nat \ {0}
          BY <3>3, AppendedIs DEF Longer, Following
        <5>2. 1..Following = (1..(Following - 1)) \cup {Following}
          BY <5>1
        <5> QED  BY <3>3, <5>2, AppendedIs
      <4>2. CASE h.type # "member"
        <5>1. UNCHANGED <<judged, findings>>
          BY <2>4, <4>2 DEF ReadLongName, ReadPax, ReadLongLink, Garbled, ReadMember, Read
        <5>2. longName' = IF h.type = "long-name" THEN h.name ELSE longName
          BY <2>4, <4>2 DEF ReadLongName, ReadPax, ReadLongLink, Garbled, ReadMember, Read, pending
        <5>3. h.type = "long-name" => h.name # NoPath
          BY <2>4, <3>5 DEF ReadLongName, ReadPax, ReadLongLink, Garbled, ReadMember, Read, Fail
        <5>4. pax'.path = IF TellsOwn(h) THEN h.path ELSE pax.path
          BY <2>4, <4>2 DEF ReadLongName, ReadPax, ReadLongLink, Garbled, ReadMember, Read, pending, Merge, TellsOwn
        <5>5. global'.path = IF TellsShared(h) THEN h.path ELSE global.path
          BY <2>4, <4>2 DEF ReadLongName, ReadPax, ReadLongLink, Garbled, ReadMember, Read, pending, Merge, TellsShared
        <5>6. Pending'
          BY <3>2, <3>3, <4>2, <5>2, <5>4, <5>5, PendingKept
        <5>7. AllJudged'
          BY <3>2, <3>3, <4>2, <5>1, JudgedKept
        <5>8. {longName', pax'.path, global'.path} \subseteq Names \cup {NoPath}
          BY <3>2, <5>2, <5>4, <5>5, HeaderNames DEF TarTypes, TellsOwn, TellsShared
        <5>9. \A k \in DOMAIN headers' : headers'[k].type = "long-name" => headers'[k].name # NoPath
          BY <3>2, <4>1, <5>3 DEF TarTypes
        <5> QED  BY <3>2, <4>1, <5>1, <5>6, <5>7, <5>8, <5>9 DEF TarTypes, UnsafeFound
      <4>3. CASE h.type = "member"
        <5>1. /\ judged' = Append(judged, NameOf(h)) /\ findings' = findings \cup Severities(NameOf(h), h.manifest)
              /\ ClearPending /\ UNCHANGED global
          BY <2>4, <3>5, <4>3 DEF ReadLongName, ReadPax, ReadLongLink, Garbled, ReadMember, Read, Fail
        <5>2. NameOf(h) \in Names
          BY <3>2, <4>3, HeaderNames DEF NameOf, PaxPath, TarTypes
        <5>3. AllJudged' /\ judged' \in Seq(Names) /\ Range(judged') = Range(judged) \cup {NameOf(h)}
          BY <3>2, <3>3, <4>3, <5>1, <5>2, JudgedAdded
        <5>4. Pending'
          BY <3>2, <3>3, <4>3, <5>1, PendingTaken
        <5>5. {longName', pax'.path, global'.path} \subseteq Names \cup {NoPath}
          BY <3>2, <5>1 DEF TarTypes, ClearPending, NoHeader
        <5>6. \A k \in DOMAIN headers' : headers'[k].type = "long-name" => headers'[k].name # NoPath
          BY <3>2, <4>1, <4>3 DEF TarTypes
        <5>7. UnsafeFound'
          BY <3>2, <5>1, <5>3, Verdicts DEF UnsafeFound
        <5> QED  BY <4>1, <5>3, <5>4, <5>5, <5>6, <5>7 DEF TarTypes
      <4> QED  BY <4>2, <4>3
    <3> QED  BY <3>1, <3>4, <3>5 DEF ArchiveInv, TarInv, PassHasNoBlock
  <2>5. CASE UNCHANGED archiveVars
    <3>1. UNCHANGED <<zip, headers, longName, pax, global, judged, findings, status>>
      BY <2>5 DEF archiveVars
    <3>2. MembersAreJudged' <=> MembersAreJudged
      BY <3>1 DEF MembersAreJudged, ExtractedNames, PathFor, MembersRead, MemberAt, Since, WithPath, Latest
    <3>3. Pending' <=> Pending
      BY <3>1, SamePending
    <3>4. AllJudged' <=> AllJudged
      BY <3>1, SameMembers DEF AllJudged
    <3>5. (TarTypes' <=> TarTypes) /\ (UnsafeFound' <=> UnsafeFound) /\ (PassHasNoBlock' <=> PassHasNoBlock)
      BY <3>1 DEF TarTypes, UnsafeFound, PassHasNoBlock
    <3> QED  BY <3>1, <3>2, <3>3, <3>4, <3>5 DEF ArchiveInv, TarInv
  <2> QED  BY <2>1, <2>2, <2>3, <2>4, <2>5 DEF ArchiveNext
<1>3. ArchiveInv => MembersAreJudged
  <2> SUFFICES ASSUME ArchiveInv, zip = NoZip, status \in {"pass", "warn"}
               PROVE  MembersAreJudged
    BY DEF ArchiveInv, MembersAreJudged
  <2>1. AllJudged /\ UnsafeFound /\ "block" \notin findings
    BY DEF ArchiveInv, TarInv, PassHasNoBlock
  <2>2. ExtractedNames = {PathFor(i) : i \in MembersRead}
    BY DEF ExtractedNames
  <2> QED  BY <2>1, <2>2 DEF MembersAreJudged, AllJudged, UnsafeFound
<1> QED  BY <1>1, <1>2, <1>3, PTL DEF ArchiveSpec
-----------------------------------------------------------------------------
(* The counter of buffered bytes.                                          *)

BytesOf(d) == {d} \X (1 .. size[d])

BudgetTypes ==
    /\ size \in [Download -> Nat] /\ sent \in [Download -> Nat]
    /\ settled \subseteq Download /\ total \in Nat

BudgetInv == BudgetTypes /\ IsFiniteSet(BytesHeld) /\ BudgetIsExact

\* A run of bytes of one download is as many as its length.
LEMMA RunOfBytes ==
    ASSUME NEW d, NEW from \in Nat, NEW to \in Nat, from <= to + 1
    PROVE  /\ IsFiniteSet({d} \X (from .. to))
           /\ Cardinality({d} \X (from .. to)) = to - from + 1
<1>1. IsFiniteSet(from .. to) /\ Cardinality(from .. to) = to - from + 1
  BY FS_Interval
<1>2. IsFiniteSet({d}) /\ Cardinality({d}) = 1
  BY FS_Singleton
<1>3. /\ IsFiniteSet({d} \X (from .. to))
      /\ Cardinality({d} \X (from .. to)) = Cardinality({d}) * Cardinality(from .. to)
  BY <1>1, <1>2, FS_Product
<1>4. 1 * (to - from + 1) = to - from + 1
  OBVIOUS
<1> QED  BY <1>1, <1>2, <1>3, <1>4

\* Settling a download that has not settled takes off exactly its bytes.
LEMMA SettlingFreesItsBytes ==
    ASSUME BudgetInv, NEW d \in Download \ settled, settled' = settled \cup {d},
           size' \in [Download -> Nat], \A e \in Download \ {d} : size'[e] = size[e]
    PROVE  IsFiniteSet(BytesHeld') /\ Cardinality(BytesHeld') = total - size[d]
<1>1. size[d] \in Nat
  BY DEF BudgetInv, BudgetTypes
<1>2. IsFiniteSet(BytesOf(d)) /\ Cardinality(BytesOf(d)) = size[d]
  <2>1. 1 \in Nat /\ 1 <= size[d] + 1 /\ size[d] - 1 + 1 = size[d]
    BY <1>1
  <2>2. IsFiniteSet({d} \X (1 .. size[d])) /\ Cardinality({d} \X (1 .. size[d])) = size[d] - 1 + 1
    BY <1>1, <2>1, RunOfBytes
  <2> QED  BY <2>1, <2>2 DEF BytesOf
<1>3. BytesHeld' = BytesHeld \ BytesOf(d)
  <2>1. BytesHeld' = UNION {{e} \X (1 .. size[e]) : e \in Download \ (settled \cup {d})}
    BY DEF BytesHeld
  <2> QED  BY <2>1 DEF BytesHeld, BytesOf
<1>4. BytesHeld \cap BytesOf(d) = BytesOf(d)
  BY DEF BytesHeld, BytesOf
<1>5. IsFiniteSet(BytesHeld) /\ Cardinality(BytesHeld) = total
  BY DEF BudgetInv, BudgetIsExact
<1>6. /\ IsFiniteSet(BytesHeld \ BytesOf(d))
      /\ Cardinality(BytesHeld \ BytesOf(d)) = Cardinality(BytesHeld) - Cardinality(BytesHeld \cap BytesOf(d))
  BY <1>5, FS_Difference
<1> QED  BY <1>2, <1>3, <1>4, <1>5, <1>6

\* A chunk adds its bytes, none of which was there.
LEMMA ChunkAddsItsBytes ==
    ASSUME BudgetInv, NEW d \in Download \ settled, NEW n \in Nat,
           size' = [size EXCEPT ![d] = @ + n], settled' = settled
    PROVE  IsFiniteSet(BytesHeld') /\ Cardinality(BytesHeld') = total + n
<1> DEFINE more == {d} \X (size[d] + 1 .. size[d] + n)
<1>1. size[d] \in Nat /\ size \in [Download -> Nat]
  BY DEF BudgetInv, BudgetTypes
<1>2. IsFiniteSet(more) /\ Cardinality(more) = n
  <2> DEFINE from == size[d] + 1
             to == size[d] + n
  <2>1. from \in Nat /\ to \in Nat /\ from <= to + 1 /\ to - from + 1 = n
    BY <1>1
  <2> HIDE DEF from, to
  <2>2. IsFiniteSet({d} \X (from .. to)) /\ Cardinality({d} \X (from .. to)) = to - from + 1
    BY <2>1, RunOfBytes
  <2> QED  BY <2>1, <2>2 DEF from, to
<1>3. BytesHeld' = BytesHeld \cup more
  <2>1. 1 .. size[d] + n = (1 .. size[d]) \cup (size[d] + 1 .. size[d] + n)
    BY <1>1
  <2>2. BytesHeld' = UNION {{e} \X (1 .. size'[e]) : e \in Download \ settled}
    BY DEF BytesHeld
  <2>3. size'[d] = size[d] + n /\ \A e \in Download \ {d} : size'[e] = size[e]
    BY <1>1
  <2>4. ASSUME NEW x PROVE x \in BytesHeld' <=> x \in BytesHeld \cup more
    <3>1. x \in BytesHeld' <=> \E e \in Download \ settled : x \in {e} \X (1 .. size'[e])
      BY <2>2
    <3>2. x \in BytesHeld <=> \E e \in Download \ settled : x \in {e} \X (1 .. size[e])
      BY DEF BytesHeld
    <3>3. x \in {d} \X (1 .. size'[d]) <=> x \in {d} \X (1 .. size[d]) \/ x \in more
      BY <2>1, <2>3
    <3> HIDE DEF more
    <3> QED  BY <2>3, <3>1, <3>2, <3>3
  <2> HIDE DEF more
  <2> QED  BY <2>4
<1>4. BytesHeld \cap more = {}
  <2> SUFFICES ASSUME NEW x \in BytesHeld, x \in more PROVE FALSE
    OBVIOUS
  <2>1. PICK e \in Download \ settled : x \in {e} \X (1 .. size[e])
    BY DEF BytesHeld
  <2>2. x[1] = d /\ x[1] = e /\ x[2] \in 1 .. size[e] /\ x[2] \in size[d] + 1 .. size[d] + n
    BY <2>1
  <2> QED  BY <1>1, <2>2
<1>5. IsFiniteSet(BytesHeld) /\ Cardinality(BytesHeld) = total
  BY DEF BudgetInv, BudgetIsExact
<1>6. Cardinality({}) = 0
  BY FS_EmptySet
<1>7. total \in Nat
  BY DEF BudgetInv, BudgetTypes
<1> HIDE DEF more
<1>8. IsFiniteSet(BytesHeld \cup more) /\ Cardinality(BytesHeld \cup more) = total + n - 0
  BY <1>2, <1>4, <1>5, <1>6, FS_Union
<1> QED  BY <1>3, <1>7, <1>8

\* What one download holds is part of the total.
LEMMA OneIsPartOfAll ==
    ASSUME BudgetInv, NEW d \in Download \ settled
    PROVE  size[d] <= total
<1>1. size[d] \in Nat /\ total \in Nat
  BY DEF BudgetInv, BudgetTypes
<1>2. IsFiniteSet(BytesOf(d)) /\ Cardinality(BytesOf(d)) = size[d]
  <2>1. 1 \in Nat /\ 1 <= size[d] + 1 /\ size[d] - 1 + 1 = size[d]
    BY <1>1
  <2>2. IsFiniteSet({d} \X (1 .. size[d])) /\ Cardinality({d} \X (1 .. size[d])) = size[d] - 1 + 1
    BY <1>1, <2>1, RunOfBytes
  <2> QED  BY <2>1, <2>2 DEF BytesOf
<1>3. BytesOf(d) \in SUBSET BytesHeld
  BY DEF BytesHeld, BytesOf
<1>4. IsFiniteSet(BytesHeld) /\ Cardinality(BytesHeld) = total
  BY DEF BudgetInv, BudgetIsExact
<1> QED  BY <1>2, <1>3, <1>4, FS_Subset

\* BudgetIsExact: however the downloads' events interleave, the counter that all
\* share (proxy/buffer-budget.ts) is what the unsettled downloads hold, and within
\* the limit.
THEOREM BudgetStaysExact == BudgetSpec => []BudgetIsExact
<1>1. BudgetInit => BudgetInv
  <2> SUFFICES ASSUME BudgetInit PROVE BudgetInv
    OBVIOUS
  <2>1. BudgetTypes
    BY DEF BudgetInit, BudgetTypes
  <2>2. BytesHeld = {}
    BY DEF BudgetInit, BytesHeld
  <2> QED  BY <2>1, <2>2, FS_EmptySet, BudgetAssumption DEF BudgetInv, BudgetIsExact, BudgetInit
<1>2. BudgetInv /\ [BudgetNext]_budgetVars => BudgetInv'
  <2> SUFFICES ASSUME BudgetInv, [BudgetNext]_budgetVars PROVE BudgetInv'
    OBVIOUS
  <2>1. BudgetTypes /\ IsFiniteSet(BytesHeld) /\ total = Cardinality(BytesHeld) /\ total <= MaxAll
    BY DEF BudgetInv, BudgetIsExact
  <2>2. ASSUME size' = size, settled' = settled, total' = total, sent' \in [Download -> Nat]
        PROVE  BudgetInv'
    <3>1. BytesHeld' = BytesHeld
      BY <2>2 DEF BytesHeld
    <3> QED  BY <2>1, <2>2, <3>1 DEF BudgetInv, BudgetTypes, BudgetIsExact
  <2>3. ASSUME NEW d \in Download, SettleDownload(d, size[d], total), UNCHANGED <<size, sent>>
        PROVE  BudgetInv'
    <3>1. CASE d \in settled
      BY <2>1, <2>2, <2>3, <3>1 DEF SettleDownload, BudgetTypes
    <3>2. CASE d \notin settled
      <4>1. settled' = settled \cup {d} /\ total' = total - size[d]
        BY <2>3, <3>2 DEF SettleDownload
      <4>2. IsFiniteSet(BytesHeld') /\ Cardinality(BytesHeld') = total - size[d]
        BY <2>1, <2>3, <3>2, <4>1, SettlingFreesItsBytes DEF BudgetTypes
      <4>3. size[d] <= total /\ size[d] \in Nat /\ total \in Nat
        BY <2>1, <3>2, OneIsPartOfAll DEF BudgetTypes
      <4>4. total - size[d] \in Nat /\ total - size[d] <= MaxAll
        BY <2>1, <4>3, BudgetAssumption
      <4> QED  BY <2>1, <2>3, <4>1, <4>2, <4>4 DEF BudgetInv, BudgetTypes, BudgetIsExact
    <3> QED  BY <3>1, <3>2
  <2>4. ASSUME NEW d \in Download, NEW n \in Chunk, Data(d, n)
        PROVE  BudgetInv'
    <3>1. n \in Nat /\ sent' \in [Download -> Nat]
      BY <2>1, <2>4, BudgetAssumption DEF Data, BudgetTypes
    <3>2. CASE d \in settled
      BY <2>2, <2>4, <3>1, <3>2 DEF Data
    <3>3. CASE d \notin settled
      <4>1. /\ size' = [size EXCEPT ![d] = @ + n]
            /\ IF size'[d] > MaxOne \/ total + n > MaxAll
               THEN SettleDownload(d, size'[d], total + n)
               ELSE total' = total + n /\ UNCHANGED settled
        BY <2>4, <3>3 DEF Data
      <4>2. /\ size' \in [Download -> Nat] /\ size'[d] = size[d] + n
            /\ \A e \in Download \ {d} : size'[e] = size[e]
        BY <2>1, <3>1, <4>1 DEF BudgetTypes
      <4>3. size[d] <= total /\ size[d] \in Nat /\ total \in Nat
        BY <2>1, <3>3, OneIsPartOfAll DEF BudgetTypes
      <4>4. CASE size'[d] > MaxOne \/ total + n > MaxAll
        <5>1. settled' = settled \cup {d} /\ total' = total + n - (size[d] + n)
          <6>1. SettleDownload(d, size'[d], total + n)
            BY <4>1, <4>4
          <6>2. settled' = settled \cup {d} /\ total' = (total + n) - size'[d]
            BY <3>3, <6>1 DEF SettleDownload
          <6> QED  BY <3>1, <4>2, <4>3, <6>2
        <5>2. total' = total - size[d] /\ total' \in Nat /\ total' <= MaxAll
          BY <2>1, <3>1, <4>3, <5>1, BudgetAssumption
        <5>3. IsFiniteSet(BytesHeld') /\ Cardinality(BytesHeld') = total - size[d]
          BY <3>3, <4>2, <5>1, SettlingFreesItsBytes
        <5> QED  BY <2>1, <3>1, <4>2, <5>1, <5>2, <5>3 DEF BudgetInv, BudgetTypes, BudgetIsExact
      <4>5. CASE ~(size'[d] > MaxOne \/ total + n > MaxAll)
        <5>1. settled' = settled /\ total' = total + n /\ total + n <= MaxAll
          BY <3>1, <4>1, <4>3, <4>5, BudgetAssumption
        <5>2. IsFiniteSet(BytesHeld') /\ Cardinality(BytesHeld') = total + n
          BY <3>1, <3>3, <4>1, <5>1, ChunkAddsItsBytes
        <5> QED  BY <2>1, <3>1, <4>2, <4>3, <5>1, <5>2 DEF BudgetInv, BudgetTypes, BudgetIsExact
      <4> QED  BY <4>4, <4>5
    <3> QED  BY <3>2, <3>3
  <2>5. CASE UNCHANGED budgetVars
    BY <2>1, <2>2, <2>5 DEF budgetVars, BudgetTypes
  <2>6. CASE BudgetNext
    <3>1. PICK d \in Download : (\E n \in Chunk : Data(d, n)) \/ EndOrError(d) \/ Close(d)
      BY <2>6 DEF BudgetNext
    <3>2. CASE EndOrError(d) \/ Close(d)
      <4>1. SettleDownload(d, size[d], total) /\ UNCHANGED <<size, sent>>
        BY <3>2 DEF EndOrError, Close
      <4> QED  BY <2>3, <4>1
    <3> QED  BY <2>4, <3>1, <3>2
  <2> QED  BY <2>5, <2>6
<1>3. BudgetInv => BudgetIsExact
  BY DEF BudgetInv
<1> QED  BY <1>1, <1>2, <1>3, PTL DEF BudgetSpec
===============================================================================
