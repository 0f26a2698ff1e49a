----------------------------- MODULE AgentHooks -----------------------------
(***************************************************************************)
(* The coding agents' hooks of src/src/agents/persistence.ts and           *)
(* routing.ts, with the commands that put them there and take them out     *)
(* (commands/agents.ts).  A settings file is read, changed and replaced    *)
(* without a lock, and in one go unless `off` has to ask the registry who  *)
(* made it; the registry is written after it, under a lock of its own.     *)
(***************************************************************************)
EXTENDS CleanupRegistry

CONSTANTS
    Owned,      \* the agents whose hook file is dg's alone (ownedJsonHook)
    Toml        \* those whose environment is in a file of its own (codex)

ASSUME AgentAssumption == Owned \subseteq Agent /\ Toml \subseteq Agent

VARIABLES
    settings,    \* each agent's settings file
    environ,     \* who set the proxy in each agent's environment
    routeBackup, \* the environment before dg's, in dg's state directory
    service,     \* the service that runs: each start has a new port
    created      \* history: files dg made, and nobody else has written to

agentVars == <<settings, environ, routeBackup, service, created>>

-----------------------------------------------------------------------------
\* users: somebody's own keys; broken: not JSON.
Absent == [there |-> FALSE]
File == [there : {TRUE}, users : BOOLEAN, hook : BOOLEAN, broken : BOOLEAN]

\* The proxies a service had, and what else the environment may hold.
Port == {"port1", "port2"}
Environ == {"none", "users"} \cup Port
Stopped == "stopped"

Is(a, field) == settings[a].there /\ settings[a][field]

\* dg's hook is there and can be seen (isInstalled, ownsFile).
Hooked(a) == Is(a, "hook") /\ ~Is(a, "broken")

\* Nothing but dg's hook is left: the environment is part of a JSON settings file.
OnlyHook(a) == ~Is(a, "users") /\ (environ[a] = "none" \/ a \in Toml)

At(do, step) == hooker.do = do /\ hooker.at = step
Goto(step) == hooker' = [hooker EXCEPT !.at = step]

\* An agents command that ran beside an uninstall is on its own: the uninstall read
\* the registry before, and overwrites or deletes it after.
Overlaps == IF cmd.do = "uninstall" THEN {hooker.agent} ELSE {}

-----------------------------------------------------------------------------
\* dg agents on, dg setup --agents and the wizard, for each agent in turn.
StartAgentOn ==
    /\ hooker.do = "idle" /\ Start("commands")
    /\ \E a \in Agent :
         hooker' = [do |-> "on", at |-> "file", agent |-> a, made |-> FALSE,
                      holding |-> FALSE, seen |-> {}]
    /\ UNCHANGED <<registry, regLock, cmd, excused, agentVars>>

\* What is not JSON, or in an owned file not dg's, is refused.
Refuses(a) == Is(a, "broken") \/ (a \in Owned /\ settings[a].there /\ ~Hooked(a))

RefuseFile ==
    /\ At("on", "file") /\ Refuses(hooker.agent)
    /\ hooker' = Idle
    /\ Keep /\ UNCHANGED <<cmd, agentVars>>

WriteFile ==
    /\ At("on", "file") /\ ~Refuses(hooker.agent)
    /\ LET a == hooker.agent
           new == ~settings[a].there IN
       /\ settings' = [settings EXCEPT ![a] =
              [there |-> TRUE, users |-> Is(a, "users"), hook |-> TRUE, broken |-> FALSE]]
       /\ created' = IF new THEN created \cup {a} ELSE created
       /\ hooker' = [hooker EXCEPT !.at = IF a \in Owned THEN "made" ELSE "legacy", !.made = new]
       /\ Excuse(Overlaps)
    /\ UNCHANGED <<registry, regLock, cmd, spent, environ, routeBackup, service>>

\* Slip: a hook that is applied again has not made its file.
ForgetMade ==
    /\ At("on", "made")
    /\ Goto("record")
    /\ Keep /\ UNCHANGED <<cmd, agentVars>>

\* wasCreatedByDg: applying the hook again must not forget who made the file.  The
\* entry of an older release is gone by then.
AskMade ==
    /\ At("on", "made")
    /\ hooker' = [hooker EXCEPT !.at = "record",
           !.made = @ \/ \E e \in registry :
                             e.path = hooker.agent /\ e.original = "dg-created"]
    /\ Keep /\ UNCHANGED <<cmd, agentVars>>

-----------------------------------------------------------------------------
\* A change to the registry is two steps: the lock is held over the reading and the
\* writing.
Wants ==
    /\ hooker.do # "idle" /\ ~hooker.holding
    /\ hooker.at \in {"legacy", "record", "forget", "forget-legacy"}

\* What the command writes: without the entry of an older release; with its own;
\* without its own.
Edited ==
    LET a == hooker.agent IN
    CASE hooker.at \in {"legacy", "forget-legacy"} -> {e \in registry : e.path # a \/ ~e.legacy}
      [] hooker.at = "record" ->
           Merged(registry, {NewEntry(a, IF hooker.made THEN "dg-created" ELSE "none")})
      [] hooker.at = "forget" -> {e \in registry : e.path # a \/ e.legacy}

TakeRegistry ==
    /\ Wants /\ HookerMayLock
    /\ regLock' = "agents"
    /\ hooker' = [hooker EXCEPT !.holding = TRUE, !.seen = Edited]
    /\ UNCHANGED <<registry, cmd, excused, spent, agentVars>>

\* Paths of which other entries are recorded once these are written.
Changed(entries) == {p \in Path : {e \in entries : e.path = p} # {e \in registry : e.path = p}}

\* An entry that is written says all there is to say, unless an uninstall is about.
\* One that has removed the lock may have been followed by others: their entries are
\* then written over, and the release takes whatever lock there is.
SaveRegistry ==
    /\ hooker.do # "idle" /\ hooker.holding
    /\ registry' = hooker.seen
    /\ regLock' = "free"
    /\ excused' =
         (IF hooker.at = "record" /\ hooker.made = (hooker.agent \in created) /\ Overlaps = {} /\ Hooked(hooker.agent)
             /\ environ[hooker.agent] \notin Port
          THEN excused \ {hooker.agent} ELSE excused \cup Overlaps)
         \cup (IF regLock = "agents" THEN {} ELSE Changed(hooker.seen) \ {hooker.agent})
    /\ hooker' = [hooker EXCEPT !.holding = FALSE, !.seen = {},
           !.at = CASE @ = "legacy" -> "made" [] @ = "record" -> "route"
                    [] @ = "forget" -> (IF hooker.agent \in Owned THEN "unroute" ELSE "forget-legacy")
                    [] @ = "forget-legacy" -> "unroute"]
    /\ UNCHANGED <<cmd, spent, agentVars>>

\* A LockBusyError ends the command for this agent with the file already changed.
RegistryBusy ==
    /\ Wants /\ HookerFindsBusy
    /\ IF hooker.do = "on" THEN Excuse({hooker.agent}) ELSE UNCHANGED excused
    /\ hooker' = Idle
    /\ UNCHANGED <<registry, regLock, cmd, spent, agentVars>>

-----------------------------------------------------------------------------
\* applyAgentRouting, while the service runs: what was in the environment is kept
\* aside, what dg itself put there included.  Only `off` undoes it: no entry names it.
Route ==
    /\ At("on", "route")
    /\ LET a == hooker.agent IN
       \/ /\ service # Stopped
          /\ a \in Toml => environ[a] # "users"
          /\ settings' = [settings EXCEPT ![a] =
                 IF a \notin Toml /\ ~settings[a].there
                 THEN [there |-> TRUE, users |-> FALSE, hook |-> FALSE, broken |-> FALSE] ELSE @]
          /\ a \notin Toml => ~Is(a, "broken")
          /\ environ' = [environ EXCEPT ![a] = service]
          /\ routeBackup' = [routeBackup EXCEPT ![a] = IF a \in Toml THEN @ ELSE environ[a]]
       \/ /\ service = Stopped \/ (a \in Toml /\ environ[a] = "users")
             \/ (a \notin Toml /\ Is(a, "broken"))
          /\ UNCHANGED <<settings, environ, routeBackup>>
    /\ IF service # Stopped THEN Excuse({hooker.agent}) ELSE UNCHANGED excused
    /\ hooker' = Idle
    /\ UNCHANGED <<registry, regLock, cmd, spent, service, created>>

\* removeAgentRouting
Unroute ==
    /\ At("off", "unroute")
    /\ LET a == hooker.agent IN
       /\ environ' = [environ EXCEPT ![a] =
              IF a \in Toml THEN (IF @ \in Port THEN "none" ELSE @)
              ELSE IF routeBackup[a] # "absent" /\ settings[a].there /\ ~Is(a, "broken")
                   THEN routeBackup[a] ELSE @]
       /\ routeBackup' = [routeBackup EXCEPT ![a] = IF Is(a, "broken") THEN @ ELSE "absent"]
    /\ hooker' = Idle
    /\ Keep /\ UNCHANGED <<cmd, settings, service, created>>

-----------------------------------------------------------------------------
\* dg agents off
StartAgentOff ==
    /\ hooker.do = "idle" /\ Start("commands")
    /\ \E a \in Agent :
         hooker' = [do |-> "off", at |-> "file", agent |-> a, made |-> FALSE,
                  holding |-> FALSE, seen |-> {}]
    /\ UNCHANGED <<registry, regLock, cmd, excused, agentVars>>

\* dg's hook is taken out, and a file that dg made goes when nothing else is in it.
Unhook(a, made) ==
    IF ~Hooked(a) THEN UNCHANGED <<settings, environ, created>>
    ELSE LET gone == a \in Owned \/ (OnlyHook(a) /\ made) IN
         /\ settings' = [settings EXCEPT ![a] = IF gone THEN Absent ELSE [@ EXCEPT !.hook = FALSE]]
         /\ environ' = [environ EXCEPT ![a] = IF gone /\ a \notin Toml THEN "none" ELSE @]
         /\ created' = IF gone THEN created \ {a} ELSE created

\* Whether dg made a shared file is asked when nothing but the hook is left in it.
MustAsk(a) == a \notin Owned /\ Hooked(a) /\ OnlyHook(a)

\* The entries go even where the file was left alone.
TakeOut ==
    /\ At("off", "file") /\ ~MustAsk(hooker.agent)
    /\ LET a == hooker.agent IN
       /\ Unhook(a, FALSE)
       /\ excused' = IF Is(a, "broken") \/ (Hooked(a) /\ a \in created /\ ~OnlyHook(a))
                     THEN excused \cup {a} ELSE excused
    /\ Goto("forget")
    /\ UNCHANGED <<registry, regLock, cmd, spent, routeBackup, service>>

AskWhoMade ==
    /\ At("off", "file") /\ MustAsk(hooker.agent)
    /\ Goto("asked")
    /\ Excuse(Overlaps)
    /\ UNCHANGED <<registry, regLock, cmd, spent, agentVars>>

\* The file goes, or becomes what was read of it without the hook, whatever
\* somebody else has written to it meanwhile.
TakeOutAsked ==
    /\ At("off", "asked")
    /\ LET a == hooker.agent
           made == \E e \in registry : e.path = a /\ e.original = "dg-created" IN
       /\ settings' = [settings EXCEPT ![a] =
              IF made THEN Absent
              ELSE [there |-> TRUE, users |-> FALSE, hook |-> FALSE, broken |-> FALSE]]
       /\ environ' = [environ EXCEPT ![a] = IF a \in Toml THEN @ ELSE "none"]
       /\ created' = IF made THEN created \ {a} ELSE created
    /\ Goto("forget")
    /\ Keep /\ UNCHANGED <<cmd, routeBackup, service>>

\* reverseEntry of dg uninstall
ReverseAgent(a, made) ==
    /\ Unhook(a, made)
    /\ UNCHANGED <<routeBackup, service>>

\* Settings that cannot be written are a warning, and the entry is dropped all the
\* same.
ReverseAgentFails(a, made) ==
    /\ Hooked(a) /\ a \notin Owned /\ ~(OnlyHook(a) /\ made)
    /\ Start("faults") /\ Excuse({a})
    /\ UNCHANGED agentVars

-----------------------------------------------------------------------------
\* Somebody adds settings of their own, or leaves the file broken.
EditSettings ==
    /\ Start("tampers")
    /\ \E a \in Agent, broken \in BOOLEAN :
         /\ settings' = [settings EXCEPT ![a] =
                [there |-> TRUE, users |-> TRUE, hook |-> Is(a, "hook") /\ a \notin Owned, broken |-> broken]]
         /\ IF broken \/ a \in Owned THEN Excuse({a}) ELSE UNCHANGED excused
         /\ created' = created \ {a}
    /\ UNCHANGED <<registry, regLock, cmd, hooker, environ, routeBackup, service>>

\* dg service start and stop
ServiceChanges ==
    /\ Start("tampers")
    /\ service' \in (Port \cup {Stopped}) \ {service}
    /\ (service = Stopped) # (service' = Stopped)
    /\ UNCHANGED <<registry, regLock, cmd, hooker, excused, settings, environ, routeBackup, created>>

\* An older release may have put its hook in, and recorded it in its own way.
AgentInit ==
    /\ settings \in [Agent -> {Absent} \cup
           [there : {TRUE}, users : {TRUE}, hook : BOOLEAN, broken : {FALSE}]]
    /\ \A a \in Owned : ~Is(a, "hook")
    /\ registry = {[path |-> a, original |-> "none", legacy |-> TRUE] : a \in {b \in Agent : Is(b, "hook")}}
    /\ environ \in [Agent -> {"none", "users"}]
    /\ \A a \in Agent : (a \notin Toml /\ ~settings[a].there) => environ[a] = "none"
    /\ routeBackup = [a \in Agent |-> "absent"]
    /\ service \in {"port1", Stopped}
    /\ created = {}
=============================================================================
