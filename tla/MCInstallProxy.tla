---------------------------- MODULE MCInstallProxy ----------------------------
(***************************************************************************)
(* InstallProxy on small instances: two requests that may share an         *)
(* artifact URL, two packages, and digests of the right and of other bytes.*)
(***************************************************************************)
EXTENDS InstallProxy, TLC

CONSTANTS r1, r2, p1, p2, good, other

MCRequest == {r1, r2}
OneRequest == {r1}
MCPkg == {p1, p2}
MCHash == {good, other}
MCUrl == {"doc", "art", "priv", "meta-ip", "elsewhere"}
MCListing == [u \in MCUrl |-> IF u = "doc" THEN {<<"art", p1>>, <<"art", p2>>} ELSE {}]
MCNameInUrl == [u \in MCUrl |-> IF u = "art" THEN p1 ELSE p2]

(* p1 was screened before the install with a digest, p2 without one; the   *)
(* preflight applied the cooldown to p1 only in EvaluatedPreflight.        *)
Preflight(evaluated) ==
  (p1 :> [action |-> "pass", scanned |-> good, cooldownEvaluated |-> evaluated])
  @@ (p2 :> [action |-> "warn", scanned |-> None, cooldownEvaluated |-> TRUE])
EvaluatedPreflight == Preflight(TRUE)
UnevaluatedPreflight == Preflight(FALSE)

Mode(m) == [mode |-> m, allowForce |-> m # "strict", cooldown |-> m # "off",
            strictEgress |-> m = "strict"]
EveryConfig == {Mode("off"), Mode("warn"), Mode("block"), Mode("strict"), Corrupt}
BlockMode == {Mode("block")}

RequestSymmetry == Permutations(MCRequest)
===============================================================================
