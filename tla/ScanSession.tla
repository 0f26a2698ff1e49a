----------------------------- MODULE ScanSession -----------------------------
(***************************************************************************)
(* The interactive scan: what api/analyze.ts asks the scanner, in batches  *)
(* that workers take from a shared cursor and retry, how                   *)
(* scan-ui/hooks/useScan.ts merges the answers of the ecosystems, and the  *)
(* screen around it (scan-ui/LegacyApp.tsx) with the exit code it leaves.  *)
(* The user may go back from the results and scan again, while batches of  *)
(* the first scan are still running.                                       *)
(***************************************************************************)
EXTENDS Integers, FiniteSets, Decisions

CONSTANTS
    Ecosystem,
    BatchCount,   \* of each ecosystem: how many batches its packages fill
    Concurrency,  \* BATCH_CONCURRENCY
    MaxAttempts,  \* MAX_BATCH_ATTEMPTS
    MaxScans      \* bound: how many scans the user starts

ASSUME ScanAssumption ==
    /\ BatchCount \in [Ecosystem -> Nat \ {0}]
    /\ Concurrency \in Nat \ {0} /\ MaxAttempts \in Nat \ {0} /\ MaxScans \in Nat

VARIABLES
    phase,    \* of the screen
    exitCode, \* process.exitCode
    strict,   \* policy.mode is strict
    several,  \* discovery found several projects, so there is a selection
    scan,     \* the number of the last scan started, 0 before the first
    stray,    \* how many batches of earlier scans are still asked for
    asked,    \* the ecosystems the last scan asks about
    job,      \* of each of its batches: where it is
    attempt,  \* ... which try it is, while it is asked for
    answer,   \* ... the worst action of its packages, kept while its ecosystem may succeed
    failure,  \* of each ecosystem: why analyzePackages rejected, if it did
    overall,  \* of the shown results: the action of the scanner's answers, merged
    accepted, \* ... whether dg.json acknowledges a warning of them
    covered   \* ... the batches of warnings that are all acknowledged

vars == <<phase, exitCode, strict, several, scan, stray, asked, job, attempt, answer, failure,
          overall, accepted, covered>>
jobs == <<job, attempt, answer, failure>>
verdict == <<overall, accepted, covered>>

-----------------------------------------------------------------------------
Job == UNION {{<<e, b>> : b \in 1..BatchCount[e]} : e \in Ecosystem}
Of(e) == {j \in Job : j[1] = e}

Phase == {"discovering", "selecting", "scanning", "results", "empty", "error", "cap", "exited"}
Outcome == {"results", "error", "cap"}
Place == {"queued", "asking", "answered", "failed"}
NoAnswer == "none"
Reason == {"quota", "other"}

ExitNothingToScan == 10

\* scanExitCode and effectiveScanAction
ScanExitCode(action) ==
    CASE action = "block"               -> 2
      [] action = "warn"                -> IF strict THEN 2 ELSE 1
      [] action = "analysis_incomplete" -> 4
      [] action = "pass"                -> 0

Init ==
    /\ phase = "discovering" /\ exitCode = 0 /\ strict \in BOOLEAN /\ several \in BOOLEAN
    /\ scan = 0 /\ stray = 0 /\ asked = {}
    /\ job = [j \in Job |-> "queued"] /\ attempt = [j \in Job |-> 1]
    /\ answer = [j \in Job |-> NoAnswer]
    /\ failure = [e \in Ecosystem |-> "none"]
    /\ overall = "pass" /\ accepted = FALSE /\ covered = {}

-----------------------------------------------------------------------------
\* The batches whose packages are in the results.
Counted(answers) == {j \in Job : answers[j] # NoAnswer}

\* mergeAnalyzeResponses: an answer has an action of its own besides those of its
\* packages, no better than any of them (an assumption about the service). As
\* nothing looks at it before, it is drawn when the answers are merged.
MergedActions(answers) ==
    {a \in ScannerAction : Severity[a] >= Severity[Worst({answers[j] : j \in Counted(answers)})]}

\* When an ecosystem was not scanned, analysis_incomplete for anything short of a
\* block.
RawAction(merged, failures) ==
    IF (\E e \in asked : failures[e] # "none") /\ merged # "block" THEN "analysis_incomplete" ELSE merged

Settled(e, places, failures) ==
    failures[e] # "none" \/ \A j \in Of(e) : places[j] = "answered"

\* Promise.all over the ecosystems of the scan.
Concludes(places, failures) == \A e \in asked : Settled(e, places, failures)

\* The end of scanProjects: results if any ecosystem answered, with the
\* decisions of dg.json applied to them, else the failure of the first
\* ecosystem. The screen reflects the verdict in the exit code at once. What
\* applyDecisions leaves is taken over the packages alone; a batch of warnings
\* that are all acknowledged leaves packages that passed or are incomplete.
ShowResults ==
    LET counted == Counted(answer')
        warned  == {j \in counted : answer'[j] = "warn"}
    IN  /\ phase' = "results"
        /\ overall' \in MergedActions(answer')
        /\ covered' \in SUBSET warned
        /\ accepted' \in {warned # {}, covered' # {}}
        /\ \E beneath \in IF covered' = {} THEN {{}} ELSE {{"pass"}, {"analysis_incomplete"}} :
              LET raw  == RawAction(overall', failure')
                  rest == {answer'[j] : j \in counted \ covered'} \cup beneath
              IN  exitCode' = ScanExitCode(IF strict THEN raw
                                           ELSE EffectiveAction(raw, IF accepted' THEN warned ELSE {}, rest))

ShowFailure ==
    /\ UNCHANGED verdict
    /\ \E e \in asked :
         IF failure'[e] = "quota" THEN phase' = "cap" /\ UNCHANGED exitCode
                                     ELSE phase' = "error" /\ exitCode' = 4

\* What a step of a batch makes of the screen: nothing once it is gone; the
\* outcome, when this was the last ecosystem to settle; else a progress report,
\* which shows the scan as running whatever was shown.
Dispatch(reports) ==
    CASE phase = "exited" -> UNCHANGED <<phase, exitCode, verdict>>
      [] phase # "exited" /\ ~Concludes(job, failure) /\ Concludes(job', failure') ->
           IF \E e \in asked : failure'[e] = "none" THEN ShowResults ELSE ShowFailure
      [] OTHER -> /\ phase' = IF reports THEN "scanning" ELSE phase
                  /\ UNCHANGED <<exitCode, verdict>>

-----------------------------------------------------------------------------
\* Results that are no longer shown say nothing.
Unshown == overall' = "pass" /\ accepted' = FALSE /\ covered' = {}

\* Discovery and selection (useScan's effect, ProjectSelector)

DiscoveryEmpty ==
    /\ phase = "discovering"
    /\ phase' = "empty" /\ exitCode' = ExitNothingToScan
    /\ UNCHANGED <<strict, several, scan, stray, asked, jobs, verdict>>

ProjectsFound ==
    /\ phase = "discovering" /\ several
    /\ phase' = "selecting"
    /\ UNCHANGED <<exitCode, strict, several, scan, stray, asked, jobs, verdict>>

\* scanProjects and the start of analyzePackages for each ecosystem: its
\* workers take the first batches. The lockfiles may hold no packages. What an
\* earlier scan still asks for is not stopped.
ScanProjects(ecosystems) ==
    /\ phase = IF several THEN "selecting" ELSE "discovering"
    /\ scan < MaxScans
    /\ scan' = scan + 1
    /\ stray' = stray + Cardinality({j \in Job : job[j] = "asking"})
    /\ asked' = ecosystems
    /\ job' = [j \in Job |-> IF j[1] \in ecosystems /\ j[2] <= Concurrency
                             THEN "asking" ELSE "queued"]
    /\ attempt' = [j \in Job |-> 1] /\ answer' = [j \in Job |-> NoAnswer]
    /\ failure' = [e \in Ecosystem |-> "none"]
    /\ Unshown
    /\ IF ecosystems = {} THEN phase' = "empty" /\ exitCode' = ExitNothingToScan
                          ELSE phase' = "scanning" /\ UNCHANGED exitCode
    /\ UNCHANGED <<strict, several>>

-----------------------------------------------------------------------------
\* One batch of packages (analyzeBatch, analyzeBatchWithRetry, runWorker)

\* Slip: a batch that is done reports once more.
ProgressOfTheDone(j) ==
    /\ job[j] \in {"asking", "answered"} /\ phase # "scanning"
    /\ UNCHANGED <<jobs, strict, several, scan, stray, asked>>
    /\ Dispatch(TRUE)

\* A progress event of the stream, where it changes what is shown.
Progress(j) ==
    /\ job[j] = "asking" /\ phase # "scanning"
    /\ UNCHANGED <<jobs, strict, several, scan, stray, asked>>
    /\ Dispatch(TRUE)

\* Slip: a worker asks for one batch only.
TakenNoMore(e) == {}

\* A worker that is done with a batch takes the next one from the cursor.
TakenNext(e) ==
    {j \in Of(e) : /\ job[j] = "queued"
                   /\ \A k \in Of(e) : k[2] < j[2] => job[k] # "queued"}

Respond(j, a) ==
    /\ job[j] = "asking" /\ phase # "exited"
    /\ job' = [k \in Job |-> CASE k = j -> "answered"
                               [] k \in TakenNext(j[1]) -> "asking"
                               [] OTHER -> job[k]]
    /\ answer' = [answer EXCEPT ![j] = IF failure[j[1]] = "none" THEN a ELSE NoAnswer]
    /\ attempt' = [attempt EXCEPT ![j] = 1]
    /\ UNCHANGED <<failure, strict, several, scan, stray, asked>>
    /\ Dispatch(TRUE)

\* A refused connection, silence, a 5xx or a stream cut short: another try,
\* after a pause in which nothing happens.
Retry(j) ==
    /\ job[j] = "asking" /\ attempt[j] < MaxAttempts /\ phase # "exited"
    /\ attempt' = [attempt EXCEPT ![j] = @ + 1]
    /\ UNCHANGED <<phase, exitCode, strict, several, scan, stray, asked, job, answer, failure, verdict>>

\* The batch fails for good: its worker ends and analyzePackages rejects, with
\* the first failure and without the batches that answered; the other workers
\* go on, to the end of the queue. An
\* abort, which is what leaving the screen does, fails every try.
GiveUp(j, reason) ==
    /\ job[j] = "asking"
    /\ reason = "other" \/ phase # "exited"
    /\ job' = [job EXCEPT ![j] = "failed"]
    /\ failure' = [failure EXCEPT ![j[1]] = IF @ = "none" THEN reason ELSE @]
    /\ answer' = [k \in Job |-> IF k[1] = j[1] THEN NoAnswer ELSE answer[k]]
    /\ attempt' = [attempt EXCEPT ![j] = 1]
    /\ UNCHANGED <<strict, several, scan, stray, asked>>
    /\ Dispatch(FALSE)

\* A batch left over from an earlier scan reports, is done and its worker
\* takes another, or is done and there is no other. Its answer goes nowhere.
StrayReports ==
    /\ stray > 0 /\ phase # "exited"
    /\ phase' = "scanning"
    /\ UNCHANGED <<exitCode, strict, several, scan, stray, asked, jobs, verdict>>

StrayEnds ==
    /\ stray > 0
    /\ stray' = stray - 1
    /\ UNCHANGED <<phase, exitCode, strict, several, scan, asked, jobs, verdict>>

-----------------------------------------------------------------------------
\* The user

\* onBack of the results, when there were several projects.
RestartSelection ==
    /\ phase = "results" /\ several
    /\ phase' = "selecting" /\ Unshown
    /\ UNCHANGED <<exitCode, strict, several, scan, stray, asked, jobs>>

\* Leaving: from discovery, the selection and a running scan with 0, from the
\* results with their code, from the quota screen with 1. An error or nothing
\* to scan leaves by itself.
Leave ==
    /\ phase # "exited"
    /\ phase' = "exited"
    /\ exitCode' = CASE phase \in {"discovering", "selecting", "scanning"} -> 0
                     [] phase = "cap" -> 1
                     [] OTHER -> exitCode
    /\ Unshown
    /\ UNCHANGED <<strict, several, scan, stray, asked, jobs>>

Step(j) == (\E a \in ScannerAction : Respond(j, a)) \/ (\E r \in Reason : GiveUp(j, r))

Next ==
    \/ DiscoveryEmpty \/ ProjectsFound \/ RestartSelection \/ Leave
    \/ \E ecosystems \in SUBSET Ecosystem : ScanProjects(ecosystems)
    \/ \E j \in Job : Step(j) \/ Progress(j) \/ Retry(j)
    \/ StrayReports \/ StrayEnds

\* The silence timer ends every try of a scanner that says nothing (one that
\* reports progress for ever is assumed away), and the tries are few.
Spec == Init /\ [][Next]_vars /\ WF_vars(StrayEnds) /\ \A j \in Job : WF_vars(Step(j))

-----------------------------------------------------------------------------
TypeOK ==
    /\ phase \in Phase /\ exitCode \in {0, 1, 2, 4, ExitNothingToScan}
    /\ strict \in BOOLEAN /\ several \in BOOLEAN /\ scan \in 0..MaxScans
    /\ stray \in 0..(MaxScans * Cardinality(Job))
    /\ asked \subseteq Ecosystem
    /\ job \in [Job -> Place] /\ attempt \in [Job -> 1..MaxAttempts]
    /\ answer \in [Job -> ScannerAction \cup {NoAnswer}]
    /\ failure \in [Ecosystem -> Reason \cup {"none"}]
    /\ overall \in ScannerAction /\ accepted \in BOOLEAN /\ covered \subseteq Job

\* While results are shown, every batch asked for is in them or its ecosystem
\* is known to have failed; a blocked package makes the exit code 2, and the
\* code is 0 only if every package passed or is warned of and acknowledged in
\* dg.json. Where nothing is acknowledged, or the policy is strict, a block of the
\* answers as a whole makes it 2 too, and 0 means that they passed as a whole and
\* no ecosystem failed; an acknowledgement loses both (see UnverifiedIsNotZero).
WholeVerdict ==
    phase = "results" =>
      LET counted == {j \in Job : j[1] \in asked /\ failure[j[1]] = "none"}
      IN  /\ \A j \in counted : job[j] = "answered"
          /\ (\E j \in counted : answer[j] = "block") => exitCode = 2
          /\ exitCode = 0 => \A j \in counted : answer[j] = "pass" \/ (j \in covered /\ ~strict)
          /\ strict \/ ~accepted =>
               /\ overall = "block" => exitCode = 2
               /\ exitCode = 0 => overall = "pass" /\ \A e \in asked : failure[e] = "none"

\* What keeps reporting although it no longer counts.
StrayBatches == stray > 0 \/ \E j \in Job : job[j] = "asking" /\ failure[j[1]] # "none"

\* An outcome on the screen gives way to a running scan only by the user's
\* choice, or because an ecosystem failed while batches of it were running:
\* analyzePackages rejects with the first failure and does not stop the rest,
\* whose reports show the scan as running again.
OutcomesStand ==
    [][(phase \in Outcome) => phase' # "scanning" \/ StrayBatches]_vars

\* Whatever is scanned, sooner or later the scan concludes or is left; once the
\* screen is left, no request runs on, which would keep the process from ending.
ScansEnd ==
    []<>(IF phase = "exited" THEN stray = 0 /\ \A j \in Job : job[j] # "asking"
         ELSE Concludes(job, failure))

\* What LegacyApp.tsx and the README's table of exit codes say: an unverified
\* scan is never a silent 0. The code applies dg.json's acknowledgements to the
\* escalated verdict, which is ranked below a warning.
UnverifiedIsNotZero ==
    phase = "results" /\ exitCode = 0 => \A e \in asked : failure[e] = "none"
===============================================================================
