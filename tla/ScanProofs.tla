----------------------------- MODULE ScanProofs -----------------------------
(***************************************************************************)
(* What a user waits for at a terminal: the verdict of a scan on the       *)
(* screen is whole and stays there, for any ecosystems, batches, workers,  *)
(* tries and scans; the selection among its results is visible on any      *)
(* terminal; and logins are honest for any number of them, of polls, and   *)
(* of logouts in between.                                                  *)
(***************************************************************************)
EXTENDS ScanSession, ResultsScreen, Login, FiniteSetTheorems, WellFoundedInduction, TLAPS

-----------------------------------------------------------------------------
\* The scan

ScanTypes ==
    /\ phase \in Phase /\ strict \in BOOLEAN
    /\ asked \subseteq Ecosystem
    /\ overall \in ScannerAction /\ accepted \in BOOLEAN /\ covered \subseteq Job
    /\ job \in [Job -> Place]
    /\ answer \in [Job -> ScannerAction \cup {NoAnswer}]
    /\ failure \in [Ecosystem -> Reason \cup {"none"}]

\* What is kept of a batch follows from where it is and how its ecosystem fares.
BatchOK(j) ==
    /\ job[j] # "queued" => j[1] \in asked
    /\ job[j] = "failed" => failure[j[1]] # "none"
    /\ answer[j] # NoAnswer <=> job[j] = "answered" /\ failure[j[1]] = "none"

\* An outcome is shown only of a scan that is over, and stays so: a batch that
\* still runs then belongs to an ecosystem that failed.
Over == phase \in Outcome => Concludes(job, failure)

ScanInv == ScanTypes /\ (\A j \in Job : BatchOK(j)) /\ Over /\ WholeVerdict

-----------------------------------------------------------------------------
\* The worst of a set of actions is none of the better ones.
LEMMA WorstIs ==
    ASSUME NEW S \in SUBSET ScannerAction
    PROVE  /\ Worst(S) \in ScannerAction
           /\ \A a \in S : Severity[a] <= Severity[Worst(S)]
<1> DEFINE T == {Severity[a] : a \in S} \cup {0}
<1>1. T \subseteq 0..3 /\ 0 \in T
  BY DEF Severity, ScannerAction
<1>2. \E x \in T : \A y \in T : x >= y
  <2>1. CASE 3 \in T
    BY <1>1, <2>1
  <2>2. CASE 3 \notin T /\ 2 \in T
    BY <1>1, <2>2
  <2>3. CASE 3 \notin T /\ 2 \notin T /\ 1 \in T
    BY <1>1, <2>3
  <2>4. CASE 3 \notin T /\ 2 \notin T /\ 1 \notin T
    BY <1>1, <2>4
  <2> QED  BY <2>1, <2>2, <2>3, <2>4
<1>3. Max(T) \in T /\ \A y \in T : Max(T) >= y
  <2> HIDE DEF T
  <2> QED  BY <1>2 DEF Max
<1>4. \A n \in 0..3 : FromSeverity(n) \in ScannerAction /\ Severity[FromSeverity(n)] = n
  <2> SUFFICES ASSUME NEW n \in 0..3
               PROVE  FromSeverity(n) \in ScannerAction /\ Severity[FromSeverity(n)] = n
    OBVIOUS
  <2>1. \E a \in ScannerAction : Severity[a] = n
    BY DEF Severity, ScannerAction
  <2> QED  BY <2>1 DEF FromSeverity
<1>5. Worst(S) = FromSeverity(Max(T))
  BY DEF Worst
<1>6. Worst(S) \in ScannerAction /\ Severity[Worst(S)] = Max(T)
  BY <1>1, <1>3, <1>4, <1>5
<1>7. \A a \in S : Severity[a] \in T
  OBVIOUS
<1> QED  BY <1>3, <1>6, <1>7

LEMMA WorstBounds ==
    ASSUME NEW S \in SUBSET ScannerAction
    PROVE  /\ Worst(S) \in ScannerAction
           /\ "block" \in S => Worst(S) = "block"
           /\ Worst(S) = "pass" => \A a \in S : a = "pass"
BY WorstIs DEF Severity, ScannerAction

\* The exit code is 0 for a pass alone.
LEMMA ZeroIsPass ==
    ASSUME NEW a \in ScannerAction
    PROVE  (ScanExitCode(a) = 0 <=> a = "pass") /\ (a = "block" => ScanExitCode(a) = 2)
BY DEF ScanExitCode, ScannerAction

-----------------------------------------------------------------------------
\* What the answers say together is no better than any of them.
LEMMA MergedBounds ==
    ASSUME answer' \in [Job -> ScannerAction \cup {NoAnswer}], overall' \in MergedActions(answer'),
           NEW j \in Counted(answer')
    PROVE  /\ answer'[j] = "block" => overall' = "block"
           /\ overall' = "pass" => answer'[j] = "pass"
<1> DEFINE answers == {answer'[k] : k \in Counted(answer')}
<1>1. answers \in SUBSET ScannerAction /\ answer'[j] \in answers
  BY DEF Counted
<1>2. Severity[answer'[j]] <= Severity[Worst(answers)] /\ Worst(answers) \in ScannerAction
  <2> HIDE DEF answers
  <2> QED  BY <1>1, WorstIs
<1>3. overall' \in ScannerAction /\ Severity[overall'] >= Severity[Worst(answers)]
  BY DEF MergedActions
<1>4. answer'[j] \in ScannerAction
  BY <1>1
<1> HIDE DEF answers
<1>5. \A a \in ScannerAction : Severity[a] \in 0..3
  BY DEF Severity, ScannerAction
<1>6. Severity[overall'] >= Severity[answer'[j]]
  BY <1>2, <1>3, <1>4, <1>5
<1> QED  BY <1>3, <1>4, <1>6 DEF Severity, ScannerAction

\* The results first shown have a whole verdict.
LEMMA ShownWhole ==
    ASSUME ScanTypes', \A j \in Job : BatchOK(j)', Concludes(job', failure'),
           UNCHANGED <<asked, strict>>, ShowResults
    PROVE  WholeVerdict'
<1> DEFINE kept   == Counted(answer')
           warned == {j \in kept : answer'[j] = "warn"}
           raw    == RawAction(overall', failure')
<1>1. kept = {j \in Job : j[1] \in asked' /\ failure'[j[1]] = "none"}
  <2>1. ASSUME NEW j \in kept  PROVE j \in Job /\ j[1] \in asked' /\ failure'[j[1]] = "none"
    BY <2>1 DEF BatchOK, Counted, NoAnswer
  <2>2. ASSUME NEW j \in Job, j[1] \in asked', failure'[j[1]] = "none"  PROVE j \in kept
    BY <2>2 DEF BatchOK, Counted, Concludes, Settled, Of
  <2> QED  BY <2>1, <2>2
<1>2. \A j \in kept : job'[j] = "answered" /\ answer'[j] \in ScannerAction
  BY DEF BatchOK, Counted, ScanTypes
<1>3. /\ overall' \in ScannerAction
      /\ \A j \in kept : /\ answer'[j] = "block" => overall' = "block"
                         /\ overall' = "pass" => answer'[j] = "pass"
  <2>1. overall' \in MergedActions(answer') /\ overall' \in ScannerAction
    BY DEF ShowResults, ScanTypes
  <2>2. answer' \in [Job -> ScannerAction \cup {NoAnswer}]
    BY DEF ScanTypes
  <2> QED  BY <2>1, <2>2, MergedBounds
<1>4. /\ raw \in ScannerAction
      /\ overall' = "block" => raw = "block"
      /\ raw = "pass" => overall' = "pass" /\ \A e \in asked : failure'[e] = "none"
  BY <1>3 DEF RawAction, ScannerAction
<1>5. /\ covered' \subseteq warned
      /\ covered' # {} => accepted'
  <2>1. covered' \in SUBSET warned /\ accepted' \in {warned # {}, covered' # {}}
    BY DEF ShowResults
  <2> QED  BY <2>1
<1>6. PICK beneath \in SUBSET {"pass", "analysis_incomplete"} :
        exitCode' = ScanExitCode(IF strict THEN raw
                                 ELSE EffectiveAction(raw, IF accepted' THEN warned ELSE {},
                                        {answer'[j] : j \in kept \ covered'} \cup beneath))
  BY DEF ShowResults
<1> DEFINE rest  == {answer'[j] : j \in kept \ covered'} \cup beneath
           shown == IF strict THEN raw ELSE EffectiveAction(raw, IF accepted' THEN warned ELSE {}, rest)
<1>7. rest \in SUBSET ScannerAction
  BY <1>2 DEF ScannerAction
<1>8. shown \in {raw, Worst(rest)} /\ (strict \/ ~accepted' => shown = raw)
  BY DEF EffectiveAction
<1>9. /\ Worst(rest) \in ScannerAction
      /\ "block" \in rest => Worst(rest) = "block"
      /\ Worst(rest) = "pass" => \A a \in rest : a = "pass"
  <2> HIDE DEF rest
  <2> QED  BY <1>7, WorstBounds
<1>10. exitCode' = ScanExitCode(shown) /\ shown \in ScannerAction
  <2>1. exitCode' = ScanExitCode(shown)
    BY <1>6
  <2> HIDE DEF raw, rest, shown
  <2> QED  BY <1>4, <1>8, <1>9, <2>1
<1>11. ASSUME NEW j \in kept, answer'[j] = "block"  PROVE shown = "block"
  <2>1. raw = "block"
    <3> HIDE DEF raw
    <3> QED  BY <1>3, <1>4, <1>11
  <2>2. j \notin covered'
    BY <1>5, <1>11
  <2>3. "block" \in rest
    BY <1>11, <2>2
  <2> HIDE DEF raw, rest, shown
  <2> QED  BY <1>8, <1>9, <2>1, <2>3
<1>12. ASSUME NEW j \in kept, shown = "pass"
       PROVE  answer'[j] = "pass" \/ (j \in covered' /\ ~strict)
  <2>1. CASE raw = "pass"
    <3> HIDE DEF raw, kept
    <3> QED  BY <1>3, <1>4, <2>1
  <2>2. CASE raw # "pass"
    <3>1. Worst(rest) = "pass" /\ ~strict
      <4> HIDE DEF raw, rest, shown
      <4> QED  BY <1>8, <1>12, <2>2
    <3>2. j \notin covered' => answer'[j] \in rest
      OBVIOUS
    <3> HIDE DEF rest, shown
    <3> QED  BY <1>9, <3>1, <3>2
  <2> QED  BY <2>1, <2>2
<1>13. asked' = asked /\ strict' = strict
  OBVIOUS
<1> HIDE DEF shown, rest, raw, kept, warned
<1>14. (exitCode' = 0 => shown = "pass") /\ (shown = "block" => exitCode' = 2)
  BY <1>10, ZeroIsPass
<1>15. /\ \A j \in kept : job'[j] = "answered"
       /\ (\E j \in kept : answer'[j] = "block") => exitCode' = 2
       /\ exitCode' = 0 => \A j \in kept : answer'[j] = "pass" \/ (j \in covered' /\ ~strict)
  BY <1>2, <1>11, <1>12, <1>14
<1>16. strict \/ ~accepted' =>
         /\ overall' = "block" => exitCode' = 2
         /\ exitCode' = 0 => overall' = "pass" /\ \A e \in asked : failure'[e] = "none"
  BY <1>4, <1>8, <1>14
<1>17. strict' \/ ~accepted' =>
         /\ overall' = "block" => exitCode' = 2
         /\ exitCode' = 0 => overall' = "pass" /\ \A e \in asked' : failure'[e] = "none"
  BY <1>13, <1>16
<1>18. ASSUME NEW j \in Job, j[1] \in asked', failure'[j[1]] = "none"
       PROVE  /\ job'[j] = "answered"
              /\ answer'[j] = "block" => exitCode' = 2
              /\ exitCode' = 0 => answer'[j] = "pass" \/ (j \in covered' /\ ~strict')
  <2>1. j \in kept
    BY <1>1, <1>18
  <2> QED  BY <1>13, <1>15, <2>1
<1> QED  BY <1>17, <1>18 DEF WholeVerdict

\* What a step of a batch does to the screen keeps the verdict whole, if it
\* leaves the batches in order and does not touch what is counted in a scan
\* that is over.
LEMMA DispatchKeeps ==
    ASSUME ScanInv, NEW reports \in BOOLEAN, Dispatch(reports),
           UNCHANGED <<asked, strict>>,
           job' \in [Job -> Place], answer' \in [Job -> ScannerAction \cup {NoAnswer}],
           failure' \in [Ecosystem -> Reason \cup {"none"}],
           \A j \in Job : BatchOK(j)',
           Concludes(job, failure) =>
             /\ Concludes(job', failure')
             /\ ~reports => \A e \in asked : failure'[e] = "none" <=> failure[e] = "none"
             /\ ~reports => \A j \in Job : failure[j[1]] = "none" => answer'[j] = answer[j] /\ job'[j] = job[j]
    PROVE  ScanInv'
<1>1. CASE phase = "exited"
  <2>1. UNCHANGED <<phase, exitCode, overall, accepted, covered>>
    BY <1>1 DEF Dispatch, verdict
  <2> QED  BY <1>1, <2>1 DEF ScanInv, ScanTypes, Over, Outcome, WholeVerdict
<1>2. CASE phase # "exited" /\ ~Concludes(job, failure) /\ Concludes(job', failure')
  <2>1. IF \E e \in asked : failure'[e] = "none" THEN ShowResults ELSE ShowFailure
    BY <1>2 DEF Dispatch
  <2>2. CASE ShowResults
    <3>1. /\ phase' = "results"
          /\ overall' \in ScannerAction /\ covered' \subseteq Job /\ accepted' \in BOOLEAN
      BY <2>2 DEF ShowResults, MergedActions, Counted
    <3>2. ScanTypes'
      BY <3>1 DEF ScanInv, ScanTypes, Phase
    <3>3. WholeVerdict'
      BY <1>2, <2>2, <3>2, ShownWhole
    <3> QED  BY <1>2, <3>2, <3>3 DEF ScanInv, Over, Concludes, Settled
  <2>3. CASE ShowFailure
    <3>1. phase' \in {"cap", "error"} /\ UNCHANGED <<overall, accepted, covered>>
      BY <2>3 DEF ShowFailure, verdict
    <3>2. ScanTypes' /\ WholeVerdict'
      BY <3>1 DEF ScanInv, ScanTypes, Phase, WholeVerdict
    <3> QED  BY <1>2, <3>2 DEF ScanInv, Over, Concludes, Settled
  <2> QED  BY <2>1, <2>2, <2>3
<1>3. CASE phase # "exited" /\ ~(~Concludes(job, failure) /\ Concludes(job', failure'))
  <2>1. /\ phase' = (IF reports THEN "scanning" ELSE phase)
        /\ UNCHANGED <<exitCode, overall, accepted, covered>>
    BY <1>3 DEF Dispatch, verdict
  <2>2. ScanTypes'
    BY <2>1 DEF ScanInv, ScanTypes, Phase
  <2>3. Over'
    <3>1. phase' \in Outcome => phase = phase'
      BY <2>1 DEF Outcome
    <3> QED  BY <3>1 DEF ScanInv, Over, Concludes, Settled
  <2>4. CASE phase' # "results"
    BY <2>2, <2>3, <2>4 DEF ScanInv, WholeVerdict
  <2>5. CASE phase' = "results"
    <3>1. ~reports /\ phase = "results" /\ Concludes(job, failure)
      BY <2>1, <2>5 DEF ScanInv, Over, Outcome
    <3>2. \A e \in asked : failure'[e] = "none" <=> failure[e] = "none"
      BY <3>1
    <3>3. \A j \in Job : failure[j[1]] = "none" => answer'[j] = answer[j] /\ job'[j] = job[j]
      BY <3>1
    <3>4. WholeVerdict'
      BY <2>1, <3>1, <3>2, <3>3 DEF ScanInv, WholeVerdict
    <3> QED  BY <2>2, <2>3, <3>4 DEF ScanInv
  <2> QED  BY <2>4, <2>5
<1> QED  BY <1>1, <1>2, <1>3

-----------------------------------------------------------------------------
LEMMA JobEcosystem == \A j \in Job : j[1] \in Ecosystem
BY DEF Job

LEMMA InitScanInv == Init => ScanInv
BY DEF Init, ScanInv, ScanTypes, ScannerAction, Phase, Place, BatchOK, Over, Outcome, WholeVerdict, NoAnswer

\* The steps that leave the batches alone and show something else than an outcome.
LEMMA ScreenKeeps ==
    ASSUME ScanInv, phase' \in Phase \ Outcome, UNCHANGED verdict \/ Unshown,
           UNCHANGED <<strict, asked, jobs>>
    PROVE  ScanInv'
BY DEF verdict, Unshown, ScannerAction, ScanInv, ScanTypes, jobs, BatchOK, Over, Outcome, WholeVerdict

LEMMA ProgressKeeps ==
    ASSUME ScanInv, NEW j \in Job, Progress(j)
    PROVE  ScanInv'
<1>1. UNCHANGED <<job, answer, failure, asked, strict>> /\ Dispatch(TRUE)
  BY DEF Progress, jobs
<1>2. \A k \in Job : BatchOK(k)'
  BY <1>1 DEF ScanInv, BatchOK
<1>3. Concludes(job', failure') <=> Concludes(job, failure)
  BY <1>1 DEF Concludes, Settled
<1> QED  BY <1>1, <1>2, <1>3, DispatchKeeps DEF ScanInv, ScanTypes

LEMMA RespondKeeps ==
    ASSUME ScanInv, NEW j \in Job, NEW a \in ScannerAction, Respond(j, a)
    PROVE  ScanInv'
<1>1. /\ job[j] = "asking" /\ UNCHANGED <<failure, strict, asked>> /\ Dispatch(TRUE)
      /\ answer' = [answer EXCEPT ![j] = IF failure[j[1]] = "none" THEN a ELSE NoAnswer]
  BY DEF Respond
<1>2. /\ job' \in [Job -> Place] /\ job'[j] = "answered"
      /\ \A k \in Job : k # j => \/ job'[k] = job[k]
                                 \/ job[k] = "queued" /\ job'[k] = "asking" /\ k[1] = j[1]
  <2>1. job' = [k \in Job |-> CASE k = j -> "answered"
                               [] k \in TakenNext(j[1]) -> "asking"
                               [] OTHER -> job[k]]
    BY DEF Respond
  <2>2. \A k \in TakenNext(j[1]) : job[k] = "queued" /\ k[1] = j[1]
    BY DEF TakenNext, Of
  <2>3. job'[j] = "answered"
    <3>1. j \notin TakenNext(j[1])
      BY <1>1, <2>2
    <3> QED  BY <2>1, <3>1, Zenon
  <2>4. ASSUME NEW k \in Job, k # j
        PROVE  job'[k] = IF k \in TakenNext(j[1]) THEN "asking" ELSE job[k]
    <3>1. CASE k \in TakenNext(j[1])
      <4>1. job'[k] = "asking"
        BY <2>1, <2>4, <3>1, Zenon
      <4> QED  BY <3>1, <4>1
    <3>2. CASE k \notin TakenNext(j[1])
      <4>1. job'[k] = job[k]
        BY <2>1, <2>4, <3>2, Zenon
      <4> QED  BY <3>2, <4>1
    <3> QED  BY <3>1, <3>2
  <2>5. \A k \in Job : job'[k] \in Place
    BY <2>3, <2>4 DEF ScanInv, ScanTypes, Place
  <2>6. job' \in [Job -> Place]
    BY <2>1, <2>5, Zenon
  <2> QED  BY <2>2, <2>3, <2>4, <2>6
<1>3. answer' \in [Job -> ScannerAction \cup {NoAnswer}]
  BY <1>1 DEF ScanInv, ScanTypes
<1>4. \A k \in Job : BatchOK(k)'
  <2> SUFFICES ASSUME NEW k \in Job  PROVE BatchOK(k)'
    OBVIOUS
  <2>1. CASE k = j
    BY <1>1, <1>2, <2>1 DEF ScanInv, ScanTypes, BatchOK, ScannerAction, NoAnswer
  <2>2. CASE k # j
    BY <1>1, <1>2, <2>2 DEF ScanInv, ScanTypes, BatchOK, NoAnswer
  <2> QED  BY <2>1, <2>2
<1>5. Concludes(job, failure) => Concludes(job', failure')
  <2>1. \A k \in Job : job[k] = "answered" => job'[k] = "answered"
    BY <1>1, <1>2
  <2> QED  BY <1>1, <2>1 DEF Concludes, Settled, Of
<1> QED  BY <1>1, <1>2, <1>3, <1>4, <1>5, DispatchKeeps DEF ScanInv, ScanTypes

LEMMA GiveUpKeeps ==
    ASSUME ScanInv, NEW j \in Job, NEW reason \in Reason, GiveUp(j, reason)
    PROVE  ScanInv'
<1>1. /\ job[j] = "asking" /\ UNCHANGED <<strict, asked>> /\ Dispatch(FALSE)
      /\ job' = [job EXCEPT ![j] = "failed"]
      /\ failure' = [failure EXCEPT ![j[1]] = IF @ = "none" THEN reason ELSE @]
      /\ answer' = [k \in Job |-> IF k[1] = j[1] THEN NoAnswer ELSE answer[k]]
  BY DEF GiveUp
<1>2. /\ job' \in [Job -> Place] /\ failure' \in [Ecosystem -> Reason \cup {"none"}]
      /\ answer' \in [Job -> ScannerAction \cup {NoAnswer}]
      /\ failure'[j[1]] # "none"
      /\ \A e \in Ecosystem : e # j[1] => failure'[e] = failure[e]
  BY <1>1, JobEcosystem DEF ScanInv, ScanTypes, Place, Reason
<1>3. \A k \in Job : BatchOK(k)'
  <2> SUFFICES ASSUME NEW k \in Job  PROVE BatchOK(k)'
    OBVIOUS
  <2>1. CASE k[1] = j[1]
    BY <1>1, <1>2, <2>1 DEF ScanInv, ScanTypes, BatchOK, NoAnswer
  <2>2. CASE k[1] # j[1]
    BY <1>1, <1>2, <2>2, JobEcosystem DEF ScanInv, ScanTypes, BatchOK
  <2> QED  BY <2>1, <2>2
<1>4. ASSUME Concludes(job, failure)
      PROVE  /\ Concludes(job', failure')
             /\ \A e \in asked : failure'[e] = "none" <=> failure[e] = "none"
             /\ \A k \in Job : failure[k[1]] = "none" => answer'[k] = answer[k] /\ job'[k] = job[k]
  <2>1. j[1] \in asked /\ failure[j[1]] # "none"
    BY <1>1, <1>4 DEF ScanInv, BatchOK, Concludes, Settled, Of
  <2>2. \A e \in Ecosystem : failure'[e] = failure[e]
    BY <1>1, <2>1, JobEcosystem DEF ScanInv, ScanTypes
  <2>3. \A k \in Job : failure[k[1]] = "none" => answer'[k] = answer[k] /\ job'[k] = job[k]
    BY <1>1, <2>1 DEF ScanInv, ScanTypes
  <2>4. Concludes(job', failure')
    <3> SUFFICES ASSUME NEW e \in asked  PROVE Settled(e, job', failure')
      BY <1>1 DEF Concludes
    <3>1. CASE failure[e] # "none"
      BY <2>2, <3>1 DEF ScanInv, ScanTypes, Settled
    <3>2. CASE failure[e] = "none"
      BY <1>4, <2>3, <3>2 DEF Concludes, Settled, Of
    <3> QED  BY <3>1, <3>2
  <2> QED  BY <2>2, <2>3, <2>4 DEF ScanInv, ScanTypes
<1> QED  BY <1>1, <1>2, <1>3, <1>4, DispatchKeeps DEF ScanInv, ScanTypes

-----------------------------------------------------------------------------
LEMMA NextKeeps == ScanInv /\ [Next]_vars => ScanInv'
<1> SUFFICES ASSUME ScanInv, [Next]_vars  PROVE ScanInv'
  OBVIOUS
<1>1. CASE DiscoveryEmpty
  BY <1>1, ScreenKeeps DEF DiscoveryEmpty, Phase, Outcome
<1>2. CASE ProjectsFound
  BY <1>2, ScreenKeeps DEF ProjectsFound, Phase, Outcome
<1>3. CASE RestartSelection
  BY <1>3, ScreenKeeps DEF RestartSelection, Phase, Outcome
<1>4. CASE Leave
  BY <1>4, ScreenKeeps DEF Leave, Phase, Outcome
<1>5. ASSUME NEW ecosystems \in SUBSET Ecosystem, ScanProjects(ecosystems)
      PROVE  ScanInv'
  <2>1. /\ asked' = ecosystems /\ strict' = strict
        /\ overall' = "pass" /\ accepted' = FALSE /\ covered' = {}
        /\ phase' \in {"empty", "scanning"}
        /\ job' = [j \in Job |-> IF j[1] \in ecosystems /\ j[2] <= Concurrency
                                 THEN "asking" ELSE "queued"]
        /\ answer' = [j \in Job |-> NoAnswer]
        /\ failure' = [e \in Ecosystem |-> "none"]
    BY <1>5 DEF ScanProjects, Unshown
  <2>2. ScanTypes'
    BY <2>1 DEF ScanInv, ScanTypes, ScannerAction, Phase, Place
  <2>3. \A j \in Job : BatchOK(j)'
    BY <2>1, JobEcosystem DEF BatchOK, NoAnswer
  <2> QED  BY <2>1, <2>2, <2>3 DEF ScanInv, Over, Outcome, WholeVerdict
<1>6. ASSUME NEW j \in Job, NEW a \in ScannerAction, Respond(j, a)
      PROVE  ScanInv'
  BY <1>6, RespondKeeps
<1>7. ASSUME NEW j \in Job, NEW r \in Reason, GiveUp(j, r)
      PROVE  ScanInv'
  BY <1>7, GiveUpKeeps
<1>8. ASSUME NEW j \in Job, Progress(j)
      PROVE  ScanInv'
  BY <1>8, ProgressKeeps
<1>9. ASSUME NEW j \in Job, Retry(j)
      PROVE  ScanInv'
  BY <1>9 DEF Retry, verdict, ScanInv, ScanTypes, BatchOK, Over, Concludes, Settled, WholeVerdict
<1>10. CASE StrayReports
  BY <1>10, ScreenKeeps DEF StrayReports, Phase, Outcome
<1>11. CASE StrayEnds
  BY <1>11 DEF StrayEnds, jobs, verdict, ScanInv, ScanTypes, BatchOK, Over, Concludes, Settled, WholeVerdict
<1>12. CASE UNCHANGED vars
  BY <1>12 DEF vars, ScanInv, ScanTypes, BatchOK, Over, Concludes, Settled, WholeVerdict
<1> QED
  BY <1>1, <1>2, <1>3, <1>4, <1>5, <1>6, <1>7, <1>8, <1>9, <1>10, <1>11, <1>12 DEF Next, Step

\* While results are shown, every batch asked for is in them or its ecosystem
\* is known to have failed, a blocked package makes the exit code 2, and 0 means
\* that every package passed or is acknowledged; where nothing is acknowledged,
\* what the answers say as a whole counts too (useScan.ts, LegacyApp.tsx),
\* whatever the order in which batches answer, are retried and fail, and
\* whatever an earlier scan still asks for.
THEOREM VerdictIsWhole == Spec => []WholeVerdict
<1>1. ScanInv => WholeVerdict
  BY DEF ScanInv
<1> QED  BY <1>1, InitScanInv, NextKeeps, PTL DEF Spec

\* A batch that still runs when the scan is over keeps reporting for nothing.
LEMMA LateBatch ==
    ASSUME ScanInv, phase \in Outcome, NEW j \in Job, job[j] = "asking"
    PROVE  StrayBatches
<1>1. j[1] \in asked /\ Concludes(job, failure)
  BY DEF ScanInv, BatchOK, Over
<1> QED  BY <1>1 DEF Concludes, Settled, Of, StrayBatches

\* An outcome gives way to a running scan only while a batch of a failed
\* ecosystem, or of an earlier scan, still reports (api/analyze.ts, useScan.ts):
\* what the user reads is otherwise taken away by nobody but the user.
THEOREM OutcomesOutlastTheScan == Spec => OutcomesStand
<1>1. ASSUME ScanInv, [Next]_vars, phase \in Outcome, phase' = "scanning"
      PROVE  StrayBatches
  <2>1. phase' # phase
    BY <1>1 DEF Outcome
  <2>2. CASE StrayReports
    BY <2>2 DEF StrayReports, StrayBatches
  <2>3. CASE \E j \in Job : Progress(j) \/ \E a \in ScannerAction : Respond(j, a)
    BY <1>1, <2>3, LateBatch DEF Progress, Respond
  <2>4. CASE \E j \in Job : \E r \in Reason : GiveUp(j, r)
    BY <1>1, <2>4, LateBatch DEF GiveUp
  <2>5. CASE DiscoveryEmpty \/ ProjectsFound \/ RestartSelection \/ Leave
             \/ \E ecosystems \in SUBSET Ecosystem : ScanProjects(ecosystems)
    BY <1>1, <2>5 DEF DiscoveryEmpty, ProjectsFound, RestartSelection, Leave, ScanProjects, Outcome
  <2>6. CASE StrayEnds \/ (\E j \in Job : Retry(j)) \/ UNCHANGED vars
    BY <2>1, <2>6 DEF StrayEnds, Retry, vars
  <2> QED  BY <1>1, <2>2, <2>3, <2>4, <2>5, <2>6 DEF Next, Step
<1>2. ScanInv /\ [Next]_vars =>
        [(phase \in Outcome) => phase' # "scanning" \/ StrayBatches]_vars
  BY <1>1
<1> QED  BY <1>2, InitScanInv, NextKeeps, PTL DEF Spec, OutcomesStand

\* A scan that could not be completed leaves 0 only by an acknowledgement: never
\* under the strict policy, and never where dg.json accepts none of the warnings
\* shown, for any ecosystems, failures and scans (LegacyApp.tsx, scanExitCode).
\* It is the acknowledged one that scan_unverified_zero finds to do so.
THEOREM UnverifiedOnlyByAcceptance == Spec => [](strict \/ ~accepted => UnverifiedIsNotZero)
<1>1. ScanInv => (strict \/ ~accepted => UnverifiedIsNotZero)
  BY DEF ScanInv, WholeVerdict, UnverifiedIsNotZero
<1> QED  BY <1>1, InitScanInv, NextKeeps, PTL DEF Spec

-----------------------------------------------------------------------------
\* The logins

LoginPlace == {"creating", "ready", "waiting", "account", "success", "over"}
Waiting == {"creating", "ready", "waiting"}

LoginTypes ==
    /\ at \in [Logins -> LoginPlace]
    /\ exit \in [Logins -> {"running", "zero", "one", "crash"}]
    /\ reply \in [Logins -> {"none", "pending", "expired", "complete"}]
    /\ asking \in [Logins -> BOOLEAN]
    /\ auth \in [token : Logins \cup {"none", "pasted"}, plan : BOOLEAN]
    /\ quit \subseteq Logins /\ served \subseteq Logins /\ superseded \subseteq Logins

\* What a login's place says of the rest.
PlaceOK(l) ==
    /\ exit[l] # "running" <=> at[l] = "over"
    /\ l \in quit => at[l] = "over" /\ ~asking[l]
    /\ at[l] \in Waiting => l \notin served
    /\ (auth.token = l \/ l \in superseded) => at[l] \in {"success", "over"}
    /\ at[l] = "success" => auth.token = l \/ l \in superseded
    /\ at[l] = "account" => l \notin OnScreen
    /\ asking[l] => at[l] \in {"account", "success", "over"}

LoginInv == LoginTypes /\ (\A l \in Logins : PlaceOK(l)) /\ LoginsAreHonest

LEMMA InitLogin == LoginInit => LoginInv
BY LoginAssumption DEF LoginInit, LoginInv, LoginTypes, PlaceOK, LoginsAreHonest, LoginPlace, Waiting, NoAuth

\* Where a login is not the one that moves, it may lose its token but no more.
LEMMA TokenMoves ==
    ASSUME LoginInv, NEW new \in [token : Logins \cup {"none", "pasted"}, plan : BOOLEAN], SetAuth(new)
    PROVE  /\ auth' = new
           /\ superseded' \subseteq Logins
           /\ superseded \subseteq superseded'
           /\ \A l \in Logins : l \in superseded' => l \in superseded \/ (auth.token = l /\ new.token # l)
           /\ \A l \in Logins : auth.token = l => new.token = l \/ l \in superseded'
BY LoginAssumption DEF LoginInv, LoginTypes, SetAuth

\* A step of one login that may set auth.json, and leaves the others alone.
LEMMA StoreKeeps ==
    ASSUME LoginInv, NEW l \in Logins, NEW place \in LoginPlace, NEW plan \in BOOLEAN,
           NEW code \in {"running", "zero", "one", "crash"}, NEW ask \in BOOLEAN,
           at' = [at EXCEPT ![l] = place], exit' = [exit EXCEPT ![l] = code],
           asking' = [asking EXCEPT ![l] = ask],
           SetAuth([token |-> l, plan |-> plan]),
           UNCHANGED quit, l \notin quit,
           reply' \in [Logins -> {"none", "pending", "expired", "complete"}],
           served' \subseteq Logins, \A k \in Logins : k # l => (k \in served' <=> k \in served),
           place \in {"success", "over"}, code = "one" => l \notin served', code # "running" <=> place = "over",
           l \in superseded => l \in OnScreen /\ plan
    PROVE  LoginInv'
<1> DEFINE new == [token |-> l, plan |-> plan]
<1>1. new \in [token : Logins \cup {"none", "pasted"}, plan : BOOLEAN] /\ new.token = l /\ new.plan = plan
  OBVIOUS
<1>2. /\ auth' = new
      /\ superseded' \subseteq Logins
      /\ superseded \subseteq superseded'
      /\ \A k \in Logins : k \in superseded' => k \in superseded \/ (auth.token = k /\ new.token # k)
      /\ \A k \in Logins : auth.token = k => new.token = k \/ k \in superseded'
  BY <1>1, TokenMoves
<1> HIDE DEF new
<1> USE DEF LoginInv, LoginTypes, PlaceOK, LoginsAreHonest, LoginPlace, Waiting
<1>3. LoginTypes'
  BY <1>1, <1>2
<1>4. ASSUME NEW k \in Logins PROVE PlaceOK(k)'
  <2>1. CASE k = l
    BY <1>1, <1>2, <2>1
  <2>2. CASE k # l
    BY <1>1, <1>2, <2>2
  <2> QED BY <2>1, <2>2
<1>5. LoginsAreHonest'
  <2>1. auth'.token \notin quit'
    BY <1>1, <1>2
  <2>2. auth'.token \in superseded' => auth'.token \in OnScreen /\ auth'.plan
    BY <1>1, <1>2
  <2>3. ASSUME NEW k \in Logins
        PROVE  /\ exit'[k] = "zero" => k \in quit' \/ auth'.token = k \/ k \in superseded'
               /\ exit'[k] = "one" => k \notin served'
    <3>1. CASE k = l
      BY <1>1, <1>2, <3>1
    <3>2. CASE k # l
      BY <1>1, <1>2, <3>2
    <3> QED BY <3>1, <3>2
  <2> QED BY <2>1, <2>2, <2>3
<1> QED
  BY <1>3, <1>4, <1>5

LEMMA MachineKeeps ==
    ASSUME LoginInv, NEW l \in Logins, LoginStep(l)
    PROVE  LoginInv'
<1> USE DEF LoginInv, LoginTypes, PlaceOK, LoginsAreHonest, LoginPlace, Waiting, Go, Finish
<1>1. CASE Create(l)
  BY <1>1 DEF Create
<1>2. CASE Poll(l)
  BY <1>2 DEF Poll
<1>3. CASE HearPlain(l)
  <2>1. CASE reply[l] = "complete"
    <3>1. /\ at[l] = "waiting" /\ at' = [at EXCEPT ![l] = "account"] /\ exit' = exit
          /\ asking' = [asking EXCEPT ![l] = TRUE] /\ reply' = [reply EXCEPT ![l] = "none"]
          /\ served' = served \cup {l} /\ l \notin OnScreen
          /\ UNCHANGED <<quit, auth, superseded>>
      BY <1>3, <2>1 DEF HearPlain, Hear, Serve, Heed
    <3>2. LoginTypes'
      BY <3>1
    <3>3. \A k \in Logins : PlaceOK(k)'
      BY <3>1
    <3> QED BY <3>1, <3>2, <3>3
  <2>2. CASE reply[l] # "complete"
    BY <1>3, <2>2 DEF HearPlain, Hear, Serve, Heed
  <2> QED BY <2>1, <2>2
<1>4. CASE StorePlain(l)
  <2>1. ASSUME NEW plan \in BOOLEAN, SetAuth([token |-> l, plan |-> plan]),
               Finish(l, "zero") \/ Finish(l, "crash")
        PROVE  LoginInv'
    BY <1>4, <2>1, StoreKeeps DEF StorePlain
  <2>2. CASE Finish(l, "crash") /\ UNCHANGED <<auth, superseded>>
    BY <1>4, <2>2 DEF StorePlain
  <2> QED BY <1>4, <2>1, <2>2 DEF StorePlain, StoreFails
<1>5. CASE HearOnScreen(l)
  <2>1. CASE reply[l] = "complete"
    <3>1. l \notin quit /\ l \notin superseded /\ exit[l] = "running"
      BY <1>5 DEF HearOnScreen, Hear
    <3>2. ASSUME SetAuth([token |-> l, plan |-> FALSE]),
                 \/ Go(l, "success") /\ asking' = [asking EXCEPT ![l] = TRUE] /\ UNCHANGED exit
                 \/ Finish(l, "crash") /\ UNCHANGED asking
          PROVE  LoginInv'
      <4>1. /\ UNCHANGED quit /\ reply' \in [Logins -> {"none", "pending", "expired", "complete"}]
            /\ served' \subseteq Logins
            /\ \A k \in Logins : k # l => (k \in served' <=> k \in served)
        BY <1>5, <2>1 DEF HearOnScreen, Hear, Serve
      <4>2. CASE Go(l, "success") /\ asking' = [asking EXCEPT ![l] = TRUE] /\ UNCHANGED exit
        <5>1. exit' = [exit EXCEPT ![l] = "running"]
          BY <3>1, <4>2
        <5> QED BY <3>1, <3>2, <4>1, <4>2, <5>1, StoreKeeps
      <4>3. CASE Finish(l, "crash") /\ UNCHANGED asking
        <5>1. asking' = [asking EXCEPT ![l] = asking[l]] /\ asking[l] \in BOOLEAN
          BY <4>3
        <5> QED BY <3>1, <3>2, <4>1, <4>3, <5>1, StoreKeeps
      <4> QED BY <3>2, <4>2, <4>3
    <3>3. CASE Finish(l, "crash") /\ UNCHANGED <<asking, auth, superseded>>
      BY <1>5, <2>1, <3>3 DEF HearOnScreen, Hear, Serve
    <3> QED BY <1>5, <2>1, <3>2, <3>3 DEF HearOnScreen, StoreScreen, StoreFails
  <2>2. CASE reply[l] # "complete"
    BY <1>5, <2>2 DEF HearOnScreen, Hear, Serve, Heed
  <2> QED BY <2>1, <2>2
<1>6. CASE HearGone(l)
  BY <1>6 DEF HearGone
<1>7. CASE PlanKnown(l)
  <2>1. l \notin quit /\ l \in OnScreen /\ at[l] \in {"success", "over"}
    BY <1>7 DEF PlanKnown
  <2>2. ASSUME SetAuth([token |-> l, plan |-> TRUE]), UNCHANGED <<at, exit>> \/ Finish(l, "crash")
        PROVE  LoginInv'
    <3>1. asking' = [asking EXCEPT ![l] = FALSE] /\ UNCHANGED <<reply, quit, served>>
      BY <1>7 DEF PlanKnown
    <3>2. CASE UNCHANGED <<at, exit>>
      <4>1. /\ at' = [at EXCEPT ![l] = at[l]] /\ exit' = [exit EXCEPT ![l] = exit[l]]
            /\ exit[l] = "one" => l \notin served'
            /\ exit[l] # "running" <=> at[l] = "over"
            /\ exit[l] \in {"running", "zero", "one", "crash"} /\ at[l] \in LoginPlace
        BY <2>1, <3>1, <3>2
      <4> QED BY <2>1, <2>2, <3>1, <4>1, StoreKeeps
    <3>3. CASE Finish(l, "crash")
      BY <2>1, <2>2, <3>1, <3>3, StoreKeeps
    <3> QED BY <2>2, <3>2, <3>3
  <2>3. CASE UNCHANGED <<at, exit, auth, superseded>> \/ (Finish(l, "crash") /\ UNCHANGED <<auth, superseded>>)
    BY <1>7, <2>1, <2>3 DEF PlanKnown
  <2> QED BY <1>7, <2>2, <2>3 DEF PlanKnown
<1>8. CASE LeaveScreen(l)
  BY <1>8 DEF LeaveScreen
<1>9. CASE OpenLink(l)
  BY <1>9 DEF OpenLink
<1>10. CASE Decide(l)
  BY <1>10 DEF Decide
<1>11. CASE QuitLogin(l)
  BY <1>11 DEF QuitLogin
<1> QED
  BY <1>1, <1>2, <1>3, <1>4, <1>5, <1>6, <1>7, <1>8, <1>9, <1>10, <1>11 DEF LoginStep, Machine

LEMMA OthersKeep == LoginInv /\ (Logout \/ PasteToken) => LoginInv'
<1> SUFFICES ASSUME LoginInv, NEW new \in {NoAuth, Pasted}, Other(new) PROVE LoginInv'
  BY DEF Logout, PasteToken
<1>1. /\ new \in [token : Logins \cup {"none", "pasted"}, plan : BOOLEAN]
      /\ new.token \notin Logins
  <2>1. CASE new = NoAuth
    BY <2>1, LoginAssumption DEF LoginAssumption, NoAuth
  <2>2. CASE new = Pasted
    BY <2>2, LoginAssumption DEF LoginAssumption, Pasted
  <2> QED BY <2>1, <2>2
<1>2. /\ auth' = new
      /\ superseded' \subseteq Logins
      /\ superseded \subseteq superseded'
      /\ \A l \in Logins : l \in superseded' => l \in superseded \/ (auth.token = l /\ new.token # l)
      /\ \A l \in Logins : auth.token = l => new.token = l \/ l \in superseded'
  BY <1>1, TokenMoves DEF Other
<1> QED
  BY <1>1, <1>2 DEF Other, LoginInv, LoginTypes, PlaceOK, LoginsAreHonest

(***************************************************************************)
(* For any number of logins, polls and logouts: a login that reports       *)
(* success left its token, one that was quit leaves none, and a token that *)
(* was removed comes back only with the late plan of a login on a screen   *)
(* (device-login.ts:230-281, login-app.tsx:65-110, store.ts:97-156).       *)
(***************************************************************************)
THEOREM HonestLogins == LoginSpec => []LoginsAreHonest
<1>1. LoginInv /\ [LoginNext]_loginVars => LoginInv'
  <2> SUFFICES ASSUME LoginInv, [LoginNext]_loginVars PROVE LoginInv'
    OBVIOUS
  <2>1. CASE \E l \in Logins : LoginStep(l)
    BY <2>1, MachineKeeps
  <2>2. CASE Logout \/ PasteToken
    BY <2>2, OthersKeep
  <2>3. CASE UNCHANGED loginVars
    BY <2>3 DEF loginVars, LoginInv, LoginTypes, PlaceOK, LoginsAreHonest
  <2> QED
    BY <2>1, <2>2, <2>3 DEF LoginNext
<1>2. LoginInv => LoginsAreHonest
  BY DEF LoginInv
<1> QED
  BY <1>1, <1>2, InitLogin, PTL DEF LoginSpec
-----------------------------------------------------------------------------
(* The results view.                                                       *)

\* A set of integers with a bound has a least or a greatest element.
LEMMA LeastExists ==
    ASSUME NEW S \in SUBSET Int, S # {}, NEW b \in Int, \A x \in S : b <= x
    PROVE  Min(S) \in S /\ \A x \in S : Min(S) <= x
<1> DEFINE T == {x - b : x \in S}
<1>1. \A x \in S : x - b \in Nat
  OBVIOUS
<1>2. T \in SUBSET Nat /\ T # {}
  BY <1>1
<1>3. PICK t \in T : \A y \in T : ~(<<y, t>> \in OpToRel(<, Nat))
  <2> HIDE DEF T
  <2> QED  BY <1>2, WFMin, NatLessThanWellFounded
<1>4. PICK s \in S : t = s - b
  OBVIOUS
<1>5. ASSUME NEW y \in S PROVE s <= y
  <2>1. y - b \in T /\ s - b \in Nat /\ y - b \in Nat
    BY <1>1
  <2>2. ~(y - b < s - b)
    BY <1>3, <1>4, <2>1 DEF OpToRel
  <2> QED  BY <2>2
<1> QED  BY <1>4, <1>5 DEF Min

LEMMA GreatestExists ==
    ASSUME NEW S \in SUBSET Int, S # {}, NEW b \in Int, \A x \in S : x <= b
    PROVE  Max(S) \in S /\ \A x \in S : x <= Max(S)
<1> DEFINE T == {-x : x \in S}
<1>1. T \in SUBSET Int /\ T # {} /\ -b \in Int /\ \A x \in T : -b <= x
  <2>1. ASSUME NEW y \in T PROVE y \in Int /\ -b <= y
    <3>1. PICK x \in S : y = -x
      OBVIOUS
    <3> QED  BY <3>1
  <2>2. PICK x \in S : TRUE
    OBVIOUS
  <2>3. -x \in T
    OBVIOUS
  <2>4. -b \in Int
    OBVIOUS
  <2> HIDE DEF T
  <2> QED  BY <2>1, <2>3, <2>4
<1>2. Min(T) \in T /\ \A x \in T : Min(T) <= x
  <2> HIDE DEF T
  <2> QED  BY <1>1, LeastExists
<1>3. PICK s \in S : Min(T) = -s
  BY <1>2
<1>4. ASSUME NEW x \in S PROVE s >= x
  <2>1. -x \in T
    OBVIOUS
  <2> HIDE DEF T
  <2>2. -s <= -x
    BY <1>2, <1>3, <2>1
  <2> QED  BY <2>2
<1> QED  BY <1>3, <1>4 DEF Max

\* What they are of two numbers.
LEMMA OfTwo ==
    ASSUME NEW a \in Int, NEW b \in Int
    PROVE  /\ Max({a, b}) = IF a <= b THEN b ELSE a
           /\ Min({a, b}) = IF a <= b THEN a ELSE b
<1>1. CASE a <= b
  BY <1>1 DEF Max, Min
<1>2. CASE ~(a <= b)
  BY <1>2 DEF Max, Min
<1> QED  BY <1>1, <1>2

\* The rows shown are finitely many, and each has a place.
LEMMA GroupFacts ==
    ASSUME NEW q
    PROVE  /\ GroupsOf(q) \subseteq Rows /\ CountOf(q) \in Nat
           /\ GroupsOf(q) # {} => CountOf(q) > 0
           /\ \A row \in GroupsOf(q) : PlaceOf(q, row) \in Nat
<1>1. GroupsOf(q) \subseteq Rows
  BY DEF GroupsOf
<1>2. IsFiniteSet(Rows)
  BY ScreenAssumption, FS_Interval DEF Rows, ScreenAssumption
<1>3. IsFiniteSet(GroupsOf(q))
  BY <1>1, <1>2, FS_Subset
<1>4. CountOf(q) \in Nat /\ (GroupsOf(q) # {} => CountOf(q) > 0)
  BY <1>3, FS_CardinalityType, FS_EmptySet DEF CountOf
<1>5. ASSUME NEW row \in GroupsOf(q) PROVE PlaceOf(q, row) \in Nat
  <2>1. IsFiniteSet({r \in GroupsOf(q) : r < row})
    BY <1>3, FS_Subset
  <2> QED  BY <2>1, FS_CardinalityType DEF PlaceOf
<1> QED  BY <1>1, <1>4, <1>5

OpenRow == Rows \cup {NoRow}

\* Rows take a line each at least.
LEMMA Heights ==
    ASSUME NEW q, NEW first \in Int, NEW end \in Int, NEW open, NEW added \in Nat
    PROVE  /\ HeightOf(q, first, end, open, added) \in Int
           /\ end - first <= HeightOf(q, first, end, open, added)
BY DEF HeightOf

LEMMA FullHeights ==
    ASSUME NEW q, NEW first \in Int, NEW end \in Int, NEW open \in OpenRow
    PROVE  FullHeight(q, first, end, open) \in Int
<1>1. (IF open = NoRow THEN 0 ELSE Height[open]) \in Nat
  BY ScreenAssumption DEF ScreenAssumption, OpenRow
<1> QED  BY <1>1, Heights DEF FullHeight

\* adjustViewport leaves the cursor's row on top or in what there is room for.
LEMMA Adjusted ==
    ASSUME NEW q, NEW c \in Nat, NEW open \in OpenRow, NEW start \in Nat, NEW room \in Int
    PROVE  LET v == AdjustViewport(q, c, open, start, room)
           IN  /\ v \in Nat /\ v <= c
               /\ v = c \/ FullHeight(q, v, c + 1, open) <= room
<1>1. CASE c < start
  BY <1>1 DEF AdjustViewport
<1>2. CASE ~(c < start)
  <2> DEFINE S == {c} \cup {t \in start..c : FullHeight(q, t, c + 1, open) <= room}
  <2>1. S \in SUBSET Int /\ S # {} /\ \A x \in S : start <= x /\ x <= c
    BY <1>2
  <2>2. Min(S) \in S
    <3> HIDE DEF S
    <3> QED  BY <2>1, LeastExists
  <2>3. AdjustViewport(q, c, open, start, room) = Min(S)
    BY <1>2 DEF AdjustViewport
  <2> QED  BY <2>1, <2>2, <2>3
<1> QED  BY <1>1, <1>2

-----------------------------------------------------------------------------
\* No more is drawn of the opened row than it has.
RowsTyped ==
    /\ termRows \in Nat /\ lines \in Nat /\ expanded \in OpenRow
    /\ lines <= Target(query, expanded)

ScreenTyped == RowsTyped /\ cursor \in Nat /\ viewport \in Nat

\* The window starts at the cursor or before, and has room for all from there to
\* the cursor, when opened: this is what adjustViewport and the effect keep up.
CursorInWindow ==
    Groups # {} =>
      /\ viewport <= cursor /\ cursor < Count
      /\ cursor = viewport \/ FullHeight(query, viewport, cursor + 1, expanded) <= Available

ListInv == ScreenTyped /\ CursorInWindow

HasRoom == Available \in Nat /\ Available >= 5

\* The layout leaves at least five lines for the list, however small the terminal.
LEMMA LayoutTyped ==
    RowsTyped => Layout.maxList \in Int /\ Available = Room(Layout.maxList) /\ HasRoom
<1> SUFFICES ASSUME RowsTyped PROVE Layout.maxList \in Int /\ Available = Room(Layout.maxList) /\ HasRoom
  OBVIOUS
<1>1. ListRows \in Int
  BY Heights, GroupFacts DEF ListRows, DrawnHeight, Count, ScreenTyped, RowsTyped
<1>2. Max({LogoRows, TextRows + 2}) \in Int
  <2>1. LogoRows \in Int /\ TextRows + 2 \in Int
    BY ScreenAssumption DEF ScreenAssumption
  <2> DEFINE t == TextRows + 2
  <2> HIDE DEF t
  <2> SUFFICES ASSUME t \in Int PROVE Max({LogoRows, t}) \in Int
    BY <2>1 DEF t
  <2> QED  BY <2>1, OfTwo
<1>3. Layout.maxList \in Int
  <2> DEFINE some == Groups # {}
             extra == NoteLines + IF query # AllFlagged /\ ~some THEN 1 ELSE 0
             full  == 2 + Max({LogoRows, TextRows + 2}) + (IF some THEN 2 ELSE 0) + 4 + extra
             dense == 2 + TextRows + (IF some THEN 1 ELSE 0) + 2 + extra
  <2>1. extra \in Int
    BY ScreenAssumption DEF ScreenAssumption
  <2>2. full \in Int /\ dense \in Int
    <3> HIDE DEF extra
    <3> QED  BY <1>2, <2>1, ScreenAssumption DEF ScreenAssumption
  <2>3. Layout.maxList = termRows - IF termRows < CompactRows /\ ListRows > termRows - full THEN dense ELSE full
    BY DEF Layout
  <2> HIDE DEF full, dense
  <2> QED  BY <2>2, <2>3 DEF ScreenTyped, RowsTyped
<1>4. Available = Room(Layout.maxList)
  BY DEF Available, Layout
<1>5. Room(Layout.maxList) \in Nat /\ Room(Layout.maxList) >= 5
  <2> DEFINE m == IF ListRows <= Layout.maxList THEN Layout.maxList ELSE Layout.maxList - 2
  <2>1. m \in Int
    BY <1>3
  <2>2. Room(Layout.maxList) = Max({5, m})
    BY DEF Room
  <2> HIDE DEF m
  <2> QED  BY <2>1, <2>2, OfTwo
<1> QED  BY <1>3, <1>4, <1>5 DEF HasRoom

\* What is drawn of rows with the cursor's among them is within what they take opened.
LEMMA CursorIsDrawn ==
    ASSUME ListInv, Groups # {}
    PROVE  /\ VisibleEnd \in Nat /\ viewport < VisibleEnd /\ VisibleEnd <= Count /\ cursor < VisibleEnd
           /\ VisibleEnd > viewport + 1 => DrawnHeight(viewport, VisibleEnd) <= Available
<1> DEFINE S == {viewport + 1} \cup {e \in viewport..Count : DrawnHeight(viewport, e) <= Available}
<1>1. Count \in Nat /\ Count \in Int /\ viewport < Count
  BY GroupFacts DEF Count, ListInv, CursorInWindow, ScreenTyped, RowsTyped, Groups
<1>2. S \in SUBSET Int /\ S # {} /\ \A x \in S : x <= Count
  BY <1>1 DEF ListInv, ScreenTyped, RowsTyped
<1>3. Max(S) \in S /\ \A x \in S : x <= Max(S)
  <2> HIDE DEF S
  <2> QED  BY <1>1, <1>2, GreatestExists
<1>4. VisibleEnd = Max(S)
  BY DEF VisibleEnd
<1>5. viewport + 1 \in S
  OBVIOUS
<1>6. CASE cursor = viewport
  <2>1. viewport + 1 <= VisibleEnd /\ VisibleEnd \in S /\ VisibleEnd <= Count
    <3> HIDE DEF S
    <3> QED  BY <1>2, <1>3, <1>4, <1>5
  <2> QED  BY <1>1, <1>6, <2>1 DEF ListInv, ScreenTyped, RowsTyped
<1>7. CASE cursor # viewport
  <2>1. Available \in Int
    BY LayoutTyped DEF ListInv, ScreenTyped, HasRoom
  <2>2. FullHeight(query, viewport, cursor + 1, expanded) <= Available
    BY <1>7 DEF ListInv, CursorInWindow
  <2>3. DrawnHeight(viewport, cursor + 1) <= FullHeight(query, viewport, cursor + 1, expanded)
    <3>1. expanded \in GroupsOf(query) => expanded \in Rows /\ expanded # NoRow /\ Height[expanded] \in Nat /\ lines <= Height[expanded]
      BY GroupFacts, ScreenAssumption DEF ListInv, ScreenTyped, RowsTyped, Target, Rows, NoRow, ScreenAssumption
    <3> QED  BY <3>1 DEF DrawnHeight, FullHeight, HeightOf, ListInv, ScreenTyped, RowsTyped
  <2>4. DrawnHeight(viewport, cursor + 1) \in Int /\ FullHeight(query, viewport, cursor + 1, expanded) \in Int
    BY Heights, FullHeights DEF DrawnHeight, ListInv, ScreenTyped, RowsTyped
  <2>5. cursor + 1 \in S
    BY <1>1, <2>1, <2>2, <2>3, <2>4 DEF ListInv, ScreenTyped, RowsTyped, CursorInWindow
  <2>6. viewport + 1 <= VisibleEnd /\ cursor + 1 <= VisibleEnd /\ VisibleEnd \in S /\ VisibleEnd <= Count
    <3> HIDE DEF S
    <3> QED  BY <1>2, <1>3, <1>4, <1>5, <2>5
  <2> QED  BY <1>1, <2>6 DEF ListInv, ScreenTyped, RowsTyped
<1> QED  BY <1>6, <1>7

\* Where the list is longer than the room, two lines are kept for the markers; where
\* it is not, a row that is not drawn leaves a line for its marker.
LEMMA FitsSaid == ListInv => ListFits
<1> SUFFICES ASSUME ListInv, Groups # {}, Layout.maxList >= 7, VisibleEnd > viewport + 1
             PROVE  DrawnHeight(viewport, VisibleEnd)
                      + ((IF viewport > 0 THEN 1 ELSE 0) + IF VisibleEnd < Count THEN 1 ELSE 0) <= Layout.maxList
  BY DEF ListFits
<1>1. /\ Layout.maxList \in Int /\ Available = Room(Layout.maxList)
      /\ Count \in Nat /\ viewport \in Nat /\ lines \in Nat
  BY LayoutTyped, GroupFacts DEF ListInv, ScreenTyped, RowsTyped, Count
<1>2. VisibleEnd \in Nat /\ VisibleEnd <= Count /\ DrawnHeight(viewport, VisibleEnd) <= Available
  BY CursorIsDrawn
<1>3. DrawnHeight(viewport, VisibleEnd) \in Int /\ ListRows \in Int
  BY <1>1, <1>2, Heights DEF DrawnHeight, ListRows
<1>4. CASE ListRows <= Layout.maxList
  <2>1. viewport + DrawnHeight(viewport, VisibleEnd) + (Count - VisibleEnd) <= ListRows
    <3>1. expanded \in GroupsOf(query) => PlaceOf(query, expanded) \in Nat
      BY GroupFacts
    <3>2. /\ DrawnHeight(viewport, VisibleEnd) = VisibleEnd - viewport
                 + IF expanded \in GroupsOf(query) /\ PlaceOf(query, expanded) \in viewport..(VisibleEnd - 1)
                   THEN lines ELSE 0
          /\ ListRows = Count + IF expanded \in GroupsOf(query) /\ PlaceOf(query, expanded) \in 0..(Count - 1)
                                THEN lines ELSE 0
      BY <1>1 DEF DrawnHeight, ListRows, HeightOf
    <3> QED  BY <1>1, <1>2, <3>1, <3>2
  <2> QED  BY <1>1, <1>2, <1>3, <1>4, <2>1
<1>5. CASE ~(ListRows <= Layout.maxList)
  <2>1. Available = Max({5, Layout.maxList - 2})
    BY <1>1, <1>5 DEF Room
  <2>2. Available = Layout.maxList - 2
    <3> DEFINE m == Layout.maxList - 2
    <3>1. m \in Int /\ m >= 5
      BY <1>1
    <3> HIDE DEF m
    <3>2. Max({5, m}) = m
      BY <3>1, OfTwo
    <3> QED  BY <2>1, <3>2 DEF m
  <2> QED  BY <1>1, <1>2, <1>3, <2>2
<1> QED  BY <1>4, <1>5

-----------------------------------------------------------------------------
\* An event that asks for a cursor and a window that suit the layout it finds, or
\* one that the effect sees changed.
LEMMA ListSettles ==
    ASSUME Available' \in Int, expanded' \in OpenRow,
           NEW c \in Nat, NEW start \in Nat, Settle(c, start),
           Groups' # {} => c < Count' /\ start <= c,
           (Groups' # {} /\ Available' = Available)
             => start = c \/ FullHeight(query', start, c + 1, expanded') <= Available
    PROVE  cursor' \in Nat /\ viewport' \in Nat /\ CursorInWindow'
<1>1. cursor' = c /\ GroupsOf(query') = Groups' /\ CountOf(query') = Count'
  BY DEF Settle, Groups, Count
<1>2. CASE Groups' = {}
  BY <1>1, <1>2 DEF Settle, CursorInWindow
<1>3. CASE Groups' # {} /\ Available' = Available
  BY <1>1, <1>3 DEF Settle, CursorInWindow
<1>4. CASE Groups' # {} /\ Available' # Available
  <2> DEFINE from == Min({start, CountOf(query') - 1})
  <2>1. CountOf(query') \in Nat /\ CountOf(query') > 0
    BY <1>1, <1>4, GroupFacts
  <2>2. from \in Nat
    <3> DEFINE k == CountOf(query') - 1
    <3>1. k \in Nat
      BY <2>1
    <3> HIDE DEF k
    <3>2. Min({start, k}) \in Nat
      BY <3>1, OfTwo
    <3> QED  BY <3>2 DEF k
  <2>3. viewport' = AdjustViewport(query', c, expanded', from, Available')
    BY <1>1, <1>4 DEF Settle
  <2> HIDE DEF from
  <2>4. /\ viewport' \in Nat /\ viewport' <= c
        /\ viewport' = c \/ FullHeight(query', viewport', c + 1, expanded') <= Available'
    BY <2>2, <2>3, Adjusted
  <2> QED  BY <1>1, <1>4, <2>4 DEF CursorInWindow
<1> QED  BY <1>2, <1>3, <1>4

\* Nothing that the layout depends on moves.
LEMMA SameLayout ==
    ASSUME UNCHANGED <<termRows, query, expanded, lines>>
    PROVE  Available' = Available /\ Groups' = Groups /\ Count' = Count
BY DEF Available, Layout, Room, ListRows, DrawnHeight, HeightOf, Count, CountOf, Groups, GroupsOf, PlaceOf

\* The animation: as much as before, or one line of a target that is new.
LEMMA Restarts ==
    ASSUME ScreenTyped, expanded' \in OpenRow, lines' = Restarted
    PROVE  lines' \in Nat /\ lines' <= Target(query', expanded')
<1>1. Target(query', expanded') \in Nat
  BY GroupFacts, ScreenAssumption DEF Target, ScreenAssumption
<1>2. Min({1, Target(query', expanded')}) \in Nat /\ Min({1, Target(query', expanded')}) <= Target(query', expanded')
  <2> DEFINE t == Target(query', expanded')
  <2> HIDE DEF t
  <2> SUFFICES ASSUME t \in Nat PROVE Min({1, t}) \in Nat /\ Min({1, t}) <= t
    BY <1>1 DEF t
  <2>1. \A k \in Int : Min({1, k}) = IF 1 <= k THEN 1 ELSE k
    BY OfTwo
  <2> QED  BY <2>1
<1> QED  BY <1>1, <1>2 DEF Restarted, ScreenTyped, RowsTyped

\* Closing a row takes nothing away.
LEMMA ClosedIsLess ==
    ASSUME NEW q, NEW first \in Int, NEW end \in Int, NEW open \in OpenRow
    PROVE  FullHeight(q, first, end, NoRow) <= FullHeight(q, first, end, open)
<1>1. (IF open = NoRow THEN 0 ELSE Height[open]) \in Nat
  BY ScreenAssumption DEF ScreenAssumption, OpenRow
<1>2. NoRow \notin GroupsOf(q)
  BY GroupFacts DEF Rows, NoRow
<1>3. FullHeight(q, first, end, NoRow) = end - first
  BY <1>2 DEF FullHeight, HeightOf
<1> QED  BY <1>1, <1>3, Heights DEF FullHeight

\* The keys that move the cursor.
LEMMA MoveKeeps ==
    ASSUME ListInv, Available \in Nat, Available >= 5, Available' \in Nat,
           NEW c, NEW start, MoveTo(c, start),
           Groups # {} => c \in Nat /\ c < Count /\ start \in Nat
    PROVE  ListInv'
<1>1. /\ UNCHANGED <<termRows, query, expanded, lines>> /\ Groups # {}
      /\ Settle(c, AdjustViewport(query, c, expanded, start, Available))
  BY DEF MoveTo, Elsewhere
<1>2. Available' = Available /\ Groups' = Groups /\ Count' = Count
  BY <1>1, SameLayout
<1> DEFINE v == AdjustViewport(query, c, expanded, start, Available)
<1>3. v \in Nat /\ v <= c /\ (v = c \/ FullHeight(query, v, c + 1, expanded) <= Available)
  BY <1>1, Adjusted DEF ListInv, ScreenTyped, RowsTyped
<1>4. cursor' \in Nat /\ viewport' \in Nat /\ CursorInWindow'
  <2> HIDE DEF v
  <2>1. Settle(c, v)
    BY <1>1 DEF v
  <2> QED  BY <1>1, <1>2, <1>3, <2>1, ListSettles DEF ListInv, ScreenTyped, RowsTyped
<1> QED  BY <1>1, <1>4 DEF ListInv, ScreenTyped, RowsTyped

LEMMA KeysKeep ==
    ASSUME ListInv, Available \in Nat, Available >= 5, Available' \in Nat,
           Up \/ Down \/ ToFirst \/ ToLast \/ PageDown \/ PageUp
    PROVE  ListInv'
<1>1. Groups # {} => /\ Count \in Nat /\ Count > 0 /\ Last \in Nat /\ Last < Count
                     /\ cursor \in Nat /\ viewport \in Nat /\ cursor < Count
  BY GroupFacts DEF Count, Groups, Last, ListInv, ScreenTyped, RowsTyped, CursorInWindow
<1>2. CASE Up
  <2> DEFINE c == Max({0, cursor - 1})
             s == Min({viewport, c})
  <2>1. Groups # {} => c \in Nat /\ c < Count /\ s \in Nat
    <3>1. \A k \in Int : Max({0, k}) = IF 0 <= k THEN k ELSE 0
      BY OfTwo
    <3>2. Groups # {} => c \in Nat /\ c < Count
      BY <1>1, <3>1
    <3> HIDE DEF c
    <3>3. \A k, l \in Int : Min({k, l}) = IF k <= l THEN k ELSE l
      BY OfTwo
    <3>4. Groups # {} => s \in Nat
      BY <1>1, <3>2, <3>3
    <3> QED  BY <3>2, <3>4
  <2>2. MoveTo(c, s)
    BY <1>2 DEF Up
  <2> HIDE DEF c, s
  <2> QED  BY <2>1, <2>2, MoveKeeps
<1>3. CASE Down
  <2> DEFINE c == Min({Last, cursor + 1})
  <2>1. Groups # {} => c \in Nat /\ c < Count
    <3>1. \A k, l \in Int : Min({k, l}) = IF k <= l THEN k ELSE l
      BY OfTwo
    <3> QED  BY <1>1, <3>1
  <2>2. MoveTo(c, viewport)
    BY <1>3 DEF Down
  <2> HIDE DEF c
  <2> QED  BY <1>1, <2>1, <2>2, MoveKeeps
<1>4. CASE ToFirst
  BY <1>1, <1>4, MoveKeeps DEF ToFirst
<1>5. CASE ToLast
  BY <1>1, <1>5, MoveKeeps DEF ToLast
<1>6. CASE PageDown
  <2> DEFINE c == Min({Last, cursor + Available})
  <2>1. Groups # {} => c \in Nat /\ c < Count
    <3>1. \A k, l \in Int : Min({k, l}) = IF k <= l THEN k ELSE l
      BY OfTwo
    <3> QED  BY <1>1, <3>1
  <2>2. MoveTo(c, viewport)
    BY <1>6 DEF PageDown
  <2> HIDE DEF c
  <2> QED  BY <1>1, <2>1, <2>2, MoveKeeps
<1>7. CASE PageUp
  <2> DEFINE c == Max({0, cursor - Available})
  <2>1. Groups # {} => c \in Nat /\ c < Count
    <3>1. \A k \in Int : Max({0, k}) = IF 0 <= k THEN k ELSE 0
      BY OfTwo
    <3> QED  BY <1>1, <3>1
  <2>2. MoveTo(c, c)
    BY <1>7 DEF PageUp
  <2> HIDE DEF c
  <2> QED  BY <1>1, <2>1, <2>2, MoveKeeps
<1> QED  BY <1>2, <1>3, <1>4, <1>5, <1>6, <1>7

\* Return, on a row that is not open yet.
LEMMA OpenKeeps ==
    ASSUME ListInv, Available \in Nat, Available' \in Nat, RowsTyped', Open
    PROVE  ListInv'
<1>1. Groups # {} /\ Groups' = Groups /\ Count' = Count /\ query' = query
  BY DEF Open, Elsewhere, listVars, Groups, Count, CountOf
<1>2. CASE UNCHANGED <<listVars, termRows>>
  <2>1. Available' = Available
    BY <1>2, SameLayout DEF listVars
  <2> QED  BY <1>1, <1>2, <2>1 DEF ListInv, ScreenTyped, CursorInWindow, listVars
<1>3. CASE ~UNCHANGED <<listVars, termRows>>
  <2>1. PICK row \in Groups :
          expanded' = row /\ Settle(cursor, AdjustViewport(query, cursor, row, viewport, Available))
    BY <1>3 DEF Open
  <2> DEFINE v == AdjustViewport(query, cursor, row, viewport, Available)
  <2>2. row \in OpenRow
    BY GroupFacts DEF Groups, OpenRow
  <2>3. v \in Nat /\ v <= cursor /\ (v = cursor \/ FullHeight(query, v, cursor + 1, row) <= Available)
    BY <2>2, Adjusted DEF ListInv, ScreenTyped, RowsTyped
  <2>4. Settle(cursor, v)
    BY <2>1
  <2> HIDE DEF v
  <2>5. CursorInWindow'
    BY <1>1, <2>1, <2>2, <2>3, <2>4, ListSettles DEF ListInv, ScreenTyped, RowsTyped, CursorInWindow
  <2>6. cursor' = cursor
    BY <2>4 DEF Settle
  <2>7. viewport' \in Nat
    BY <1>1, <2>1, <2>2, <2>3, <2>4, ListSettles DEF ListInv, ScreenTyped, CursorInWindow
  <2> QED  BY <2>5, <2>6, <2>7 DEF ListInv, ScreenTyped
<1> QED  BY <1>2, <1>3

\* Whatever else moves the list, it settles on the cursor as it is or on the top.
LEMMA RestKeeps ==
    ASSUME ListInv, Available \in Nat, Available' \in Nat, RowsTyped',
           \/ Settle(0, 0)
           \/ Settle(cursor, viewport) /\ query' = query /\ expanded' \in {expanded, NoRow}
    PROVE  ListInv'
<1>1. CASE Settle(0, 0)
  <2>1. Groups' # {} => 0 < Count'
    BY GroupFacts DEF Groups, Count
  <2> QED  BY <1>1, <2>1, ListSettles DEF ListInv, ScreenTyped, RowsTyped
<1>2. CASE Settle(cursor, viewport) /\ query' = query /\ expanded' \in {expanded, NoRow}
  <2>1. Groups' = Groups /\ Count' = Count
    BY <1>2 DEF Groups, Count, CountOf
  <2>2. FullHeight(query', viewport, cursor + 1, expanded') <= FullHeight(query, viewport, cursor + 1, expanded)
    BY <1>2, ClosedIsLess, FullHeights DEF ListInv, ScreenTyped, RowsTyped
  <2>3. /\ FullHeight(query', viewport, cursor + 1, expanded') \in Int
        /\ FullHeight(query, viewport, cursor + 1, expanded) \in Int
    BY FullHeights DEF ListInv, ScreenTyped, RowsTyped
  <2>4. Groups # {} => cursor < Count /\ viewport <= cursor
                       /\ (viewport = cursor \/ FullHeight(query', viewport, cursor + 1, expanded') <= Available)
    BY <2>2, <2>3 DEF ListInv, CursorInWindow
  <2> QED  BY <1>2, <2>1, <2>4, ListSettles DEF ListInv, ScreenTyped, RowsTyped
<1> QED  BY <1>1, <1>2

\* The list stays as it is.
LEMMA ListStays ==
    ASSUME ListInv, UNCHANGED <<listVars, termRows>>
    PROVE  ListInv'
<1>1. Available' = Available /\ Groups' = Groups /\ Count' = Count
  BY SameLayout DEF listVars
<1> QED  BY <1>1 DEF ListInv, ScreenTyped, RowsTyped, CursorInWindow, listVars

-----------------------------------------------------------------------------
\* What is drawn over another view.
Covering == {"help", "menu", "dialog"}

\* The views of the licenses and the pane: the cursor of what the keys go to, or
\* what they will go to again.
ViewsInv ==
    /\ scroll \in Nat /\ left \in Nat /\ license \in Int
    /\ view \notin Covering => below = "none"
    /\ view \in Covering => below \in {"list", "pane", "licenses", "license"}
    /\ Licenses > 0 => 0 <= license /\ license < Licenses
    /\ {"license", "licenseSearch"} \cap {view, below} # {} => scroll = 0 \/ scroll < left
    /\ "pane" \in {view, below} => scroll <= MaxScroll

ScreenInv == ListInv /\ ViewsInv

PaneFits == MaxScroll \in Nat

LEMMA PaneFacts == RowsTyped => PaneFits
<1> SUFFICES ASSUME RowsTyped PROVE MaxScroll \in Nat
  BY DEF PaneFits
<1>0. termRows \in Nat
  BY DEF RowsTyped
<1> DEFINE m == Max({3, termRows - 20})
<1>1. \A j, k \in Int : Max({j, k}) = IF j <= k THEN k ELSE j
  BY OfTwo
<1>2. m \in Int
  BY <1>0, <1>1
<1>3. MaxScroll = Max({0, PaneLines - m})
  BY DEF MaxScroll
<1> HIDE DEF m
<1> DEFINE k == PaneLines - m
<1>4. k \in Int
  BY <1>2, ScreenAssumption DEF ScreenAssumption
<1> HIDE DEF k
<1>5. Max({0, k}) \in Nat
  BY <1>1, <1>4
<1> QED  BY <1>3, <1>5 DEF k

\* A window of at least five rows about a cursor has the cursor in it.
LEMMA WindowHasCursor ==
    ASSUME termRows \in Nat, NEW c \in Nat, NEW count \in Nat, c < count
    PROVE  InWindow(c, count)
<1>1. \A j, k \in Int : /\ Max({j, k}) = IF j <= k THEN k ELSE j
                        /\ Min({j, k}) = IF j <= k THEN j ELSE k
  BY OfTwo
<1>2. SubviewRows \in Nat /\ SubviewRows >= 5
  BY <1>1 DEF SubviewRows
<1> DEFINE half == (SubviewRows - 1) \div 2
           low  == Min({c - half, count - SubviewRows})
           top  == WindowTop(c, count)
<1>3. half \in Nat /\ half < SubviewRows
  BY <1>2
<1>4. low = IF c - half <= count - SubviewRows THEN c - half ELSE count - SubviewRows
  <2> DEFINE a == c - half
             b == count - SubviewRows
  <2>1. a \in Int /\ b \in Int
    BY <1>2, <1>3
  <2> HIDE DEF a, b
  <2>2. Min({a, b}) = IF a <= b THEN a ELSE b
    BY <1>1, <2>1
  <2> QED  BY <2>2 DEF a, b
<1>5. top = Max({0, low})
  BY DEF WindowTop
<1> HIDE DEF half
<1>6. low \in Int
  BY <1>2, <1>3, <1>4
<1>7. top = IF 0 <= low THEN low ELSE 0
  <2> HIDE DEF low, top
  <2> QED  BY <1>1, <1>5, <1>6
<1>8. top \in Int /\ top <= c /\ c < top + SubviewRows
  <2> HIDE DEF low, top
  <2> QED  BY <1>2, <1>3, <1>4, <1>6, <1>7
<1>9. c < Min({top + SubviewRows, count})
  <2> HIDE DEF low, top
  <2> DEFINE e == top + SubviewRows
  <2>1. e \in Int /\ c < e
    BY <1>2, <1>8
  <2> HIDE DEF e
  <2>2. c < Min({e, count})
    BY <1>1, <2>1
  <2> QED  BY <2>2 DEF e
<1> QED  BY <1>8, <1>9 DEF InWindow

LEMMA ScreenInvSays == ScreenInv => SelectionVisible
<1> SUFFICES ASSUME ScreenInv PROVE CursorDrawn
  BY FitsSaid DEF SelectionVisible, ScreenInv
<1>1. termRows \in Nat
  BY DEF ScreenInv, ListInv, ScreenTyped, RowsTyped
<1>2. Groups # {} =>
         /\ viewport <= cursor /\ cursor < VisibleEnd
         /\ cursor = viewport \/ FullHeight(query, viewport, cursor + 1, expanded) <= Available
  BY CursorIsDrawn DEF ScreenInv, ListInv, CursorInWindow
<1>3. Licenses > 0 => InWindow(license, Licenses)
  BY <1>1, WindowHasCursor, ScreenAssumption DEF ScreenInv, ViewsInv, ScreenAssumption
<1>4. ("license" \in {view, below} /\ left > 0) => InWindow(scroll, left)
  BY <1>1, WindowHasCursor DEF ScreenInv, ViewsInv
<1>5. "pane" \in {view, below} => scroll <= MaxScroll
  BY DEF ScreenInv, ViewsInv
<1> QED  BY <1>2, <1>3, <1>4, <1>5 DEF CursorDrawn

-----------------------------------------------------------------------------
LEMMA ScreenStarts == ScreenInit => ScreenInv
<1> SUFFICES ASSUME ScreenInit PROVE ScreenInv
  OBVIOUS
<1>1. Target(query, expanded) = 0
  BY GroupFacts DEF ScreenInit, Target, Rows, NoRow
<1>2. RowsTyped
  BY <1>1, ScreenAssumption DEF ScreenInit, RowsTyped, OpenRow, ScreenAssumption
<1>3. CursorInWindow
  BY GroupFacts DEF ScreenInit, CursorInWindow, Groups, Count
<1>4. MaxScroll \in Nat
  BY <1>2, PaneFacts DEF PaneFits
<1>5. ViewsInv
  BY <1>4, ScreenAssumption DEF ScreenInit, ViewsInv, Covering, ScreenAssumption
<1> QED  BY <1>2, <1>3, <1>5 DEF ScreenInv, ListInv, ScreenTyped, ScreenInit

\* What is drawn of an opened row never exceeds it.
LEMMA RowsStayTyped == ListInv /\ [ScreenNext]_screenVars => RowsTyped'
<1> SUFFICES ASSUME ListInv, [ScreenNext]_screenVars PROVE RowsTyped'
  OBVIOUS
<1> USE DEF ListInv, ScreenTyped
<1>1. CASE UNCHANGED <<termRows, query, expanded, lines>>
  BY <1>1 DEF RowsTyped, Target, GroupsOf
<1>2. ASSUME NEW rows \in TermRows, Resize(rows) PROVE RowsTyped'
  BY <1>2, ScreenAssumption DEF Resize, RowsTyped, Target, GroupsOf, ScreenAssumption
<1>3. CASE Grow
  BY <1>3, GroupFacts, ScreenAssumption DEF Grow, RowsTyped, Target, GroupsOf, ScreenAssumption
<1>4. ASSUME lines' = Restarted, UNCHANGED termRows, expanded' \in OpenRow PROVE RowsTyped'
  BY <1>4, Restarts DEF RowsTyped
<1>5. CASE Open
  <2>1. CASE UNCHANGED listVars /\ UNCHANGED termRows
    BY <1>1, <2>1 DEF listVars
  <2>2. CASE ~(UNCHANGED listVars /\ UNCHANGED termRows)
    <3>1. lines' = Restarted /\ UNCHANGED termRows /\ expanded' \in Groups
      BY <1>5, <2>2 DEF Open, Elsewhere
    <3> QED  BY <1>4, <3>1, GroupFacts DEF Groups, OpenRow
  <2> QED  BY <2>1, <2>2
<1>6. CASE Escape
  BY <1>1, <1>4, <1>6 DEF Escape, Elsewhere, OpenRow, RowsTyped, listVars
<1>7. ASSUME NEW q, Search(q) PROVE RowsTyped'
  BY <1>4, <1>7 DEF Search, Elsewhere, RowsTyped
<1>8. CASE EndSearch
  BY <1>1, <1>4, <1>8 DEF EndSearch, Elsewhere, RowsTyped
<1>9. CASE Up \/ Down \/ ToFirst \/ ToLast \/ PageDown \/ PageUp
  BY <1>1, <1>9 DEF Up, Down, ToFirst, ToLast, PageDown, PageUp, MoveTo, Elsewhere
<1>10. CASE StartSearch \/ (\E s \in 0..PaneLines : ScrollPane(s)) \/ EnterLicenses \/ (\E c \in -1..Licenses : MoveLicense(c))
            \/ (\E count \in LicensePkgs : EnterLicense(count) \/ FilterLicense(count))
            \/ (\E s \in 0..Max(LicensePkgs) : ScrollLicense(s)) \/ SwitchLicenseSearch \/ BackOut \/ Cover \/ Uncover \/ Quit
            \/ UNCHANGED screenVars
  BY <1>1, <1>10 DEF StartSearch, ScrollPane, EnterLicenses, MoveLicense, EnterLicense, FilterLicense, ScrollLicense,
       SwitchLicenseSearch, BackOut, Cover, Uncover, Quit, Elsewhere, listVars, screenVars
<1> QED  BY <1>2, <1>3, <1>5, <1>6, <1>7, <1>8, <1>9, <1>10 DEF ScreenNext

LEMMA ListKeeps == ListInv /\ [ScreenNext]_screenVars => ListInv'
<1> SUFFICES ASSUME ListInv, [ScreenNext]_screenVars PROVE ListInv'
  OBVIOUS
<1>1. RowsTyped'
  BY RowsStayTyped
<1>2. Available \in Nat /\ Available >= 5
  BY LayoutTyped DEF ListInv, ScreenTyped, HasRoom
<1>3. Available' \in Nat
  <2>1. HasRoom'
    BY <1>1, LayoutTyped, PTL
  <2> QED  BY <2>1 DEF HasRoom
<1>4. CASE Settle(0, 0) \/ (Settle(cursor, viewport) /\ query' = query /\ expanded' \in {expanded, NoRow})
  BY <1>1, <1>2, <1>3, <1>4, RestKeeps
<1>5. CASE UNCHANGED <<listVars, termRows>>
  BY <1>5, ListStays
<1>6. ASSUME NEW rows \in TermRows, Resize(rows) PROVE ListInv'
  BY <1>4, <1>6 DEF Resize
<1>7. CASE Grow
  BY <1>4, <1>7 DEF Grow
<1>8. CASE Open
  BY <1>1, <1>2, <1>3, <1>8, OpenKeeps
<1>9. CASE Escape
  BY <1>4, <1>5, <1>9 DEF Escape, Elsewhere, listVars
<1>10. ASSUME NEW q, Search(q) PROVE ListInv'
  BY <1>4, <1>10 DEF Search
<1>11. CASE EndSearch
  BY <1>4, <1>5, <1>11 DEF EndSearch, Elsewhere, listVars
<1>12. CASE Up \/ Down \/ ToFirst \/ ToLast \/ PageDown \/ PageUp
  BY <1>2, <1>3, <1>12, KeysKeep
<1>13. CASE StartSearch \/ (\E s \in 0..PaneLines : ScrollPane(s)) \/ EnterLicenses \/ (\E c \in -1..Licenses : MoveLicense(c))
            \/ (\E count \in LicensePkgs : EnterLicense(count) \/ FilterLicense(count))
            \/ (\E s \in 0..Max(LicensePkgs) : ScrollLicense(s)) \/ SwitchLicenseSearch \/ BackOut \/ Cover \/ Uncover \/ Quit
            \/ UNCHANGED screenVars
  BY <1>5, <1>13 DEF StartSearch, ScrollPane, EnterLicenses, MoveLicense, EnterLicense, FilterLicense, ScrollLicense,
       SwitchLicenseSearch, BackOut, Cover, Uncover, Quit, Elsewhere, screenVars, listVars
<1> QED  BY <1>6, <1>7, <1>8, <1>9, <1>10, <1>11, <1>12, <1>13 DEF ScreenNext

LEMMA ViewsKeep == ListInv /\ ViewsInv /\ [ScreenNext]_screenVars => ViewsInv'
<1> SUFFICES ASSUME ListInv, ViewsInv, [ScreenNext]_screenVars PROVE ViewsInv'
  OBVIOUS
<1>1. RowsTyped /\ RowsTyped'
  BY RowsStayTyped DEF ListInv, ScreenTyped
<1>2. MaxScroll \in Nat
  BY <1>1, PaneFacts DEF PaneFits
<1>3. MaxScroll' \in Nat
  <2>1. PaneFits'
    BY <1>1, PaneFacts, PTL
  <2> QED  BY <2>1 DEF PaneFits
<1>up. \A k \in Nat : Max({0, k - 1}) = IF 0 <= k - 1 THEN k - 1 ELSE 0
  <2>1. \A k \in Int : Max({0, k}) = IF 0 <= k THEN k ELSE 0
    BY OfTwo
  <2> QED  BY <2>1
<1>down. \A j, k \in Nat : Min({j, k + 1}) = IF j <= k + 1 THEN j ELSE k + 1
  <2>1. \A j, k \in Int : Min({j, k}) = IF j <= k THEN j ELSE k
    BY OfTwo
  <2> QED  BY <2>1
<1>4. termRows' = termRows => MaxScroll' = MaxScroll
  BY DEF MaxScroll
<1>5. CASE UNCHANGED <<termRows, view, below, scroll, license, left>>
  BY <1>4, <1>5 DEF ViewsInv
<1>6. ASSUME NEW rows \in TermRows, Resize(rows) PROVE ViewsInv'
  <2>1. Min({scroll, MaxScroll'}) = IF scroll <= MaxScroll' THEN scroll ELSE MaxScroll'
    <3> DEFINE m == MaxScroll'
    <3>1. m \in Nat /\ scroll \in Nat
      BY <1>3 DEF ViewsInv
    <3> HIDE DEF m
    <3>2. Min({scroll, m}) = IF scroll <= m THEN scroll ELSE m
      BY <3>1, OfTwo
    <3> QED  BY <3>2 DEF m
  <2> QED  BY <1>3, <1>6, <2>1 DEF Resize, ViewsInv, Covering
<1>7. CASE Grow \/ Up \/ Down \/ ToFirst \/ ToLast \/ PageDown \/ PageUp
  <2>1. UNCHANGED <<termRows, view, below, scroll, license, left>>
    BY <1>7 DEF Grow, Up, Down, ToFirst, ToLast, PageDown, PageUp, MoveTo, Elsewhere
  <2> QED  BY <1>5, <2>1
<1>8. CASE Open \/ Escape \/ StartSearch \/ EndSearch \/ \E q \in Queries \cup {AllFlagged} : Search(q)
  <2>1. /\ UNCHANGED <<termRows, below, license, left>>
        /\ view \in {"list", "search"} /\ view' \in {"list", "search", "pane", "gone"}
        /\ scroll' \in {scroll, 0}
        /\ view' = "pane" => scroll' = 0
    BY <1>8 DEF Open, Escape, StartSearch, EndSearch, Search, Elsewhere
  <2> QED  BY <1>2, <1>4, <2>1 DEF ViewsInv, Covering
<1>9. ASSUME NEW s \in 0..PaneLines, ScrollPane(s) PROVE ViewsInv'
  <2>1. s \in Nat /\ s <= MaxScroll
    <3>1. Max({0, scroll - 1}) \in Nat /\ Max({0, scroll - 1}) <= scroll
      BY <1>up DEF ViewsInv
    <3>2. Min({MaxScroll, scroll + 1}) \in Nat /\ Min({MaxScroll, scroll + 1}) <= MaxScroll
      BY <1>2, <1>down DEF ViewsInv
    <3>3. scroll \in Nat /\ scroll <= MaxScroll
      BY <1>9 DEF ScrollPane, ViewsInv
    <3> QED  BY <1>2, <1>9, <3>1, <3>2, <3>3 DEF ScrollPane
  <2> QED  BY <1>4, <1>9, <2>1 DEF ScrollPane, ViewsInv, Covering
<1>10. CASE EnterLicenses
  BY <1>4, <1>10, ScreenAssumption DEF EnterLicenses, ViewsInv, Covering, ScreenAssumption
<1>11. ASSUME NEW c \in -1..Licenses, MoveLicense(c) PROVE ViewsInv'
  <2>1. Licenses > 0 => 0 <= c /\ c < Licenses
    <3> SUFFICES ASSUME Licenses > 0 PROVE 0 <= c /\ c < Licenses
      OBVIOUS
    <3>1. license \in Nat /\ license < Licenses /\ Licenses \in Nat /\ Licenses - 1 \in Int
      BY ScreenAssumption DEF ViewsInv, ScreenAssumption
    <3>2. Max({0, license - 1}) \in Nat /\ Max({0, license - 1}) < Licenses
      BY <1>up, <3>1
    <3>3. Min({Licenses - 1, license + 1}) \in Nat /\ Min({Licenses - 1, license + 1}) < Licenses
      <4> DEFINE k == Licenses - 1
      <4>1. k \in Nat
        BY <3>1
      <4> HIDE DEF k
      <4>2. Min({k, license + 1}) \in Nat /\ Min({k, license + 1}) <= k
        BY <1>down, <3>1, <4>1
      <4> QED  BY <3>1, <4>1, <4>2 DEF k
    <3> QED  BY <1>11, <3>2, <3>3 DEF MoveLicense
  <2> QED  BY <1>4, <1>11, <2>1 DEF MoveLicense, ViewsInv, Covering
<1>12. ASSUME NEW count \in LicensePkgs, EnterLicense(count) \/ FilterLicense(count) PROVE ViewsInv'
  BY <1>2, <1>4, <1>12, ScreenAssumption DEF EnterLicense, FilterLicense, ViewsInv, Covering, ScreenAssumption
<1>13. ASSUME NEW s \in 0..Max(LicensePkgs), ScrollLicense(s) PROVE ViewsInv'
  <2>1. s \in Nat /\ (s = 0 \/ s < left)
    <3>1. scroll \in Nat /\ left \in Nat /\ (scroll = 0 \/ scroll < left)
      BY <1>13 DEF ScrollLicense, ViewsInv
    <3>2. Max({0, scroll - 1}) \in Nat /\ Max({0, scroll - 1}) <= scroll
      BY <1>up, <3>1
    <3> DEFINE m == Max({0, left - 1})
    <3>3. m \in Nat /\ (m = 0 \/ m < left)
      BY <1>up, <3>1
    <3> HIDE DEF m
    <3>4. Min({m, scroll + 1}) \in Nat /\ Min({m, scroll + 1}) <= m
      BY <1>down, <3>1, <3>3
    <3>5. s \in {Max({0, scroll - 1}), Min({m, scroll + 1})}
      BY <1>13 DEF ScrollLicense, m
    <3> QED  BY <3>1, <3>2, <3>3, <3>4, <3>5
  <2> QED  BY <1>2, <1>4, <1>13, <2>1 DEF ScrollLicense, ViewsInv, Covering
<1>14. CASE SwitchLicenseSearch
  BY <1>4, <1>14 DEF SwitchLicenseSearch, Turn, Elsewhere, ViewsInv, Covering
<1>15. CASE BackOut
  BY <1>2, <1>4, <1>15 DEF BackOut, Turn, ViewsInv, Covering
<1>16. CASE Cover
  BY <1>4, <1>16 DEF Cover, Turn, ViewsInv, Covering
<1>17. CASE Uncover
  BY <1>4, <1>17 DEF Uncover, Turn, ViewsInv, Covering
<1>18. CASE Quit
  BY <1>4, <1>18 DEF Quit, ViewsInv, Covering
<1> QED  BY <1>5, <1>6, <1>7, <1>8, <1>9, <1>10, <1>11, <1>12, <1>13, <1>14, <1>15, <1>16, <1>17, <1>18 DEF ScreenNext, screenVars

(***************************************************************************)
(* What has the cursor is on the screen, in the list with its whole        *)
(* summary where that fits, in the licenses and in a license's packages,   *)
(* and what is drawn fits the terminal: for any rows, heights, searches,   *)
(* terminals and resizes (InteractiveResultsView.tsx:879-949, 1150-1181).  *)
(***************************************************************************)
THEOREM SelectionIsVisible == ScreenSpec => []SelectionVisible
<1>1. ScreenInv /\ [ScreenNext]_screenVars => ScreenInv'
  BY ListKeeps, ViewsKeep DEF ScreenInv
<1> QED
  BY <1>1, ScreenStarts, ScreenInvSays, PTL DEF ScreenSpec
=============================================================================
