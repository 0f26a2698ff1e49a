------------------------------- MODULE Firewall -------------------------------
(***************************************************************************)
(* What the install firewall promises, with nothing of how it works: the   *)
(* README's "hashes each artifact as it downloads, asks the scanner for a  *)
(* verdict, and refuses a blocked package before delivery". An artifact    *)
(* reaches the package manager only in a step that writes down a decision  *)
(* about it that is not a block; what is written down stays written down;  *)
(* and a request is decided again only to take a permission back that was  *)
(* never used.                                                             *)
(***************************************************************************)
CONSTANT Request

VARIABLES log,          \* the decisions taken, as <<request, action>>
          delivered     \* the requests whose whole artifact was handed over

Action == {"pass", "warn", "block"}

Init == log = {} /\ delivered = {}

(* A verdict arrives and is enforced: the artifact is handed over unless it *)
(* is blocked. Handing over may also fail (the client is gone) or be        *)
(* refused although the decision is no block (a download that failed).      *)
Decide(r, a) ==
  /\ \A b \in Action : <<r, b>> \notin log
  /\ log' = log \cup {<<r, a>>}
  /\ \/ delivered' = delivered
     \/ a # "block" /\ delivered' = delivered \cup {r}

(* What was allowed could not be handed over, and is written off.          *)
Retract(r, a) ==
  /\ \E b \in Action \ {"block"} : <<r, b>> \in log
  /\ r \notin delivered
  /\ log' = log \cup {<<r, a>>}
  /\ delivered' = delivered

Next == \E r \in Request, a \in Action : Decide(r, a) \/ Retract(r, a)

Spec == Init /\ [][Next]_<<log, delivered>>
===============================================================================
