----------------------------- MODULE DgDocument -----------------------------
(***************************************************************************)
(* The contents of a project's dg.json and the edits the commands make to  *)
(* it (src/src/project/dgfile.ts, src/src/project/override-trust.ts,       *)
(* src/src/scripts/gate.ts), as functions on documents.                    *)
(***************************************************************************)
EXTENDS Naturals, FiniteSets

CONSTANTS
    Decision,      \* ids of remembered acceptances
    Package,       \* packages with an exemption or an observed script
    Key,           \* the override keys this machine may come to have
    DecisionCap,   \* DECISION_ENTRY_CAP
    ExemptionCap   \* COOLDOWN_EXEMPTION_CAP

ASSUME CapAssumption == DecisionCap \in Nat /\ ExemptionCap \in Nat

\* A key is 32 random bytes, no word.
ASSUME KeyAssumption == Key \cap {"none", "fresh", "absent", "empty"} = {}

\* The dgLocalAuth tag of an entry, known by the key it was made with: fresh
\* before stampAuthoredEntries, none on an entry this machine never stamped.
Saved == Key \cup {"none"}
Stamp == Saved \cup {"fresh"}

DecisionEntry(stamps) == [id : Decision, stamp : stamps]

\* lasting: there is no expiry, or one later than the runs look.
ExemptionEntry(stamps) == [name : Package, lasting : BOOLEAN, stamp : stamps]

\* The sections of a parsed file; observed is scriptApprovals.observed.
Document(stamps) ==
    [decisions  : SUBSET DecisionEntry(stamps),
     exemptions : SUBSET ExemptionEntry(stamps),
     observed   : SUBSET Package]

\* What one command does to the file.
Edit ==
    [do : {"remember", "revoke"}, id : Decision]
      \cup [do : {"exempt"}, name : Package, lasting : BOOLEAN]
      \cup [do : {"rm", "observe"}, name : Package]
      \cup [do : {"prune"}]

\* loadDgFile: a file over a cap is unreadable as a whole.
Readable(doc) ==
    /\ Cardinality(doc.decisions) <= DecisionCap
    /\ Cardinality(doc.exemptions) <= ExemptionCap

\* cooldownExemptionActive
Active(e, late) == e.lasting \/ ~late

\* appendDecisions
AppendDecision(doc, id) ==
    [doc EXCEPT !.decisions = @ \cup {[id |-> id, stamp |-> "fresh"]}]

\* removeDecisions
RemoveDecision(doc, id) ==
    [doc EXCEPT !.decisions = {d \in @ : d.id # id}]

\* appendCooldownExemptions: an entry for the same package is replaced, and its
\* tag carried over ...
WithExemption(doc, name, lasting) ==
    LET prior == {e \in doc.exemptions : e.name = name}
        stamps == IF prior = {} THEN {"fresh"} ELSE {e.stamp : e \in prior}
    IN (doc.exemptions \ prior) \cup [name : {name}, lasting : {lasting}, stamp : stamps]

\* Slip: over the cap, whatever was not just added goes.
KeepOnlyAdded(doc, name, lasting, late) ==
    LET next == WithExemption(doc, name, lasting)
    IN [doc EXCEPT !.exemptions =
          IF Cardinality(next) > ExemptionCap
            THEN {e \in next : e.name = name} ELSE next]

\* ... and over the cap the expired ones go.
AppendExemption(doc, name, lasting, late) ==
    LET next == WithExemption(doc, name, lasting)
    IN [doc EXCEPT !.exemptions =
          IF Cardinality(next) > ExemptionCap
            THEN {e \in next : Active(e, late)} ELSE next]

\* Slip: the cap is compared before the append.
CapOnPrior(doc, name, lasting, late) ==
    Cardinality({e \in doc.exemptions : Active(e, late)}) > ExemptionCap

\* CooldownExemptionCapError: more than the cap even without the expired ones.
OverCap(doc, name, lasting, late) ==
    LET next == WithExemption(doc, name, lasting)
    IN Cardinality({e \in next : Active(e, late)}) > ExemptionCap

\* removeCooldownExemptions
RemoveExemptions(doc, drop) == [doc EXCEPT !.exemptions = @ \ drop]

\* The edit is refused with an error, and nothing is saved.
Refused(doc, edit, late) ==
    edit.do = "exempt" /\ OverCap(doc, edit.name, edit.lasting, late)

\* The mutate callback each command passes to mutateDgFile, and the observation
\* that recordScriptObservations adds.
Mutated(doc, edit, late) ==
    CASE edit.do = "remember" -> AppendDecision(doc, edit.id)
      [] edit.do = "revoke" -> RemoveDecision(doc, edit.id)
      [] edit.do = "exempt" -> AppendExemption(doc, edit.name, edit.lasting, late)
      [] edit.do = "rm" -> RemoveExemptions(doc, {e \in doc.exemptions : e.name = edit.name})
      [] edit.do = "prune" -> RemoveExemptions(doc, {e \in doc.exemptions : ~Active(e, late)})
      [] edit.do = "observe" -> [doc EXCEPT !.observed = @ \cup {edit.name}]

HasFresh(doc) == \E e \in doc.decisions \cup doc.exemptions : e.stamp = "fresh"

\* stampAuthoredEntries: new entries, and only those, get a tag of the key.
Stamped(doc, key) ==
    LET Tag(e) == IF e.stamp = "fresh" THEN [e EXCEPT !.stamp = key] ELSE e
    IN [doc EXCEPT !.decisions = {Tag(d) : d \in @}, !.exemptions = {Tag(e) : e \in @}]
=============================================================================
