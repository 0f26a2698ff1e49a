-------------------------------- MODULE Policy --------------------------------
(***************************************************************************)
(* The decision rule of the install firewall: how a verdict, the user's    *)
(* configuration and a force-override request become a pass, a warn or a   *)
(* block (src/src/policy/evaluate.ts, src/src/proxy/enforcement.ts).       *)
(* Wording, audit records and display fields of a decision are left out.   *)
(***************************************************************************)

Verdict == {"pass", "warn", "block"}
PolicyAction == {"pass", "warn", "block"}
PolicyMode == {"off", "warn", "block", "strict"}

(* The causes a decision is classified by, as far as the checks tell them  *)
(* apart; "scanner" stands for malware, license and policy findings.       *)
Cause == {"pass", "warn", "scanner", "policy", "cooldown", "hash-mismatch",
          "quota-exceeded", "needs-login", "api-unavailable", "api-timeout",
          "registry-timeout", "private-upload-disabled", "proxy-setup-failure"}

(* The part of the user configuration file the proxy consults. Corrupt is  *)
(* a file that does not parse: loadUserConfig throws.                      *)
Setting == [mode: PolicyMode, allowForce: BOOLEAN, cooldown: BOOLEAN,
            strictEgress: BOOLEAN]
Corrupt == [mode |-> "unreadable", allowForce |-> FALSE, cooldown |-> FALSE,
            strictEgress |-> FALSE]
UserConfig == Setting \cup {Corrupt}

DefaultSetting == [mode |-> "block", allowForce |-> TRUE, cooldown |-> TRUE,
                   strictEgress |-> FALSE]

LoadUserConfigOrDefault(config) ==
  IF config = Corrupt THEN DefaultSetting ELSE config

(* What a verdict source hands to enforcement; quotaPass stands for        *)
(* quotaBehavior = "pass".                                                 *)
ProxyVerdict(v, c, quotaPass) == [verdict |-> v, cause |-> c, quotaPass |-> quotaPass]

EvaluatePackagePolicy(verdict, mode) ==
  CASE mode = "off"                          -> "pass"
    [] mode # "off" /\ verdict = "pass"      -> "pass"
    [] mode = "warn" /\ verdict # "pass"     -> "warn"
    [] mode = "strict" /\ verdict = "warn"   -> "block"
    [] OTHER                                 -> verdict

(* applyForceOverride: a block is lifted when the user asked for it and the *)
(* policy allows it. Whether its audit record could be stored plays no     *)
(* part: recordAuditEvent reports a failure and never throws.              *)
ForceAllowed(base, setting, force) ==
  base = "block" /\ force /\ setting.allowForce

(* [action, overridden]: what is enforced, and whether it took an override. *)
(* A spent quota whose account says "pass" installs unverified, whatever   *)
(* the mode, before the override is even looked at.                        *)
EnforceProtectedInstall(v, config, force) ==
  LET setting == LoadUserConfigOrDefault(config)
      base    == EvaluatePackagePolicy(v.verdict, setting.mode)
      spent   == v.cause = "quota-exceeded" /\ v.quotaPass
      lifted  == ~spent /\ ForceAllowed(base, setting, force)
  IN  [action     |-> IF spent \/ lifted THEN "warn" ELSE base,
       overridden |-> lifted]
===============================================================================
