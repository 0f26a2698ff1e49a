------------------------------- MODULE MCSetup -------------------------------
(***************************************************************************)
(* Setup on small instances: a behaviour is about one of the three kinds   *)
(* of files, with the uninstall and the registry they share; or, with      *)
(* fewer commands and nobody else's edits, about all of them.              *)
(***************************************************************************)
EXTENDS Setup

VARIABLE part

MCInit ==
    /\ part \in {"shell", "hook", "agents", "all"}
    /\ SetupInit
    /\ part # "shell" => rc = {} /\ ~pyHook
    /\ part \notin {"hook", "all"} => hookTarget = NoHook
    /\ part # "hook" => ~outside
    /\ part # "agents" => service = Stopped /\ \A a \in Agent : settings[a] = Absent /\ environ[a] = "none"

\* The shell's and the agents' stories take one command less than the others'.
MCNext ==
    /\ part' = part
    /\ \/ part = "shell" /\ ShellStep
       \/ part = "hook" /\ HookStep
       \/ part = "agents" /\ AgentStep
       \/ part = "all" /\ (ShellStep \/ HookStep \/ AgentStep) /\ spent'.tampers = spent.tampers
       \/ UninstallStep
       \/ CommonStep
    /\ part \in {"shell", "agents"} => spent'.commands > 0

MCSpec == MCInit /\ [][MCNext]_<<setupVars, part>>
=============================================================================
