-------------------------------- MODULE MCScan --------------------------------
(***************************************************************************)
(* What a user waits for at a terminal, on small instances: a scan, the    *)
(* screen of its results, or logins.  A behaviour is about one of them,    *)
(* and the others' variables stand still.                                  *)
(***************************************************************************)
EXTENDS ScanSession, ResultsScreen, Login

VARIABLE part

Batches == [e \in Ecosystem |-> IF e = "npm" THEN 3 ELSE 1]
Heights == [r \in 1..5 |-> CASE r = 2 -> 3 [] r = 4 -> 8 [] OTHER -> 1]
Matches == {{}, {2, 5}, {1, 2, 4, 5}}

MCInit ==
    /\ part \in {"scan", "screen", "login"}
    /\ Init /\ (part = "scan" \/ (~strict /\ ~several))
    /\ ScreenInit /\ (part = "screen" \/ termRows = Min(TermRows))
    /\ LoginInit

MCNext ==
    \/ part = "scan" /\ Next /\ UNCHANGED <<screenVars, loginVars, part>>
    \/ part = "screen" /\ ScreenNext /\ UNCHANGED <<vars, loginVars, part>>
    \/ part = "login" /\ LoginNext /\ UNCHANGED <<vars, screenVars, part>>

MCSpec ==
    /\ MCInit /\ [][MCNext]_<<vars, screenVars, loginVars, part>>
    /\ WF_vars(part = "scan" /\ StrayEnds) /\ \A j \in Job : WF_vars(part = "scan" /\ Step(j))
    /\ \A l \in Logins : WF_loginVars(part = "login" /\ Machine(l))
=============================================================================
