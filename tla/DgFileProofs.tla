---------------------------- MODULE DgFileProofs ----------------------------
(***************************************************************************)
(* For any processes, projects and edits: what mutateDgFile does to a      *)
(* dg.json is serial for as long as nobody's lock is stolen and nobody     *)
(* writes the file without it, and keeps the exemptions that have not      *)
(* expired; no exemption makes the file unreadable; and in one project     *)
(* what this machine authored stays honored by it.  Rests on the invariant *)
(* of LockFile.                                                            *)
(***************************************************************************)
EXTENDS DgFile, LockFileProofs, FiniteSetTheorems

-----------------------------------------------------------------------------
\* Lemmas about documents.

LEMMA MutatedTyped ==
  ASSUME NEW doc \in Document(Saved), NEW edit \in Edit, NEW l \in BOOLEAN
  PROVE  Mutated(doc, edit, l) \in Document(Stamp)
<1> USE DEF Document, Stamp
<1>0. /\ doc.decisions \subseteq DecisionEntry(Stamp)
      /\ doc.exemptions \subseteq ExemptionEntry(Stamp)
      /\ doc.observed \subseteq Package
      /\ doc \in Document(Stamp)
  BY DEF DecisionEntry, ExemptionEntry
<1>1. CASE edit.do = "remember"
  <2>1. edit.id \in Decision
    BY <1>1 DEF Edit
  <2>2. [id |-> edit.id, stamp |-> "fresh"] \in DecisionEntry(Stamp)
    BY <2>1 DEF DecisionEntry
  <2>3. Mutated(doc, edit, l) = [doc EXCEPT !.decisions = @ \cup {[id |-> edit.id, stamp |-> "fresh"]}]
    BY <1>1 DEF Mutated, AppendDecision
  <2> QED
    BY <1>0, <2>2, <2>3
<1>2. CASE edit.do = "revoke"
  BY <1>0, <1>2 DEF Mutated, RemoveDecision
<1>3. CASE edit.do = "exempt"
  <2>1. edit.name \in Package /\ edit.lasting \in BOOLEAN
    BY <1>3 DEF Edit
  <2>2. WithExemption(doc, edit.name, edit.lasting) \subseteq ExemptionEntry(Stamp)
    <3> DEFINE prior == {e \in doc.exemptions : e.name = edit.name}
               stamps == IF prior = {} THEN {"fresh"} ELSE {e.stamp : e \in prior}
    <3>1. stamps \subseteq Stamp
      BY <1>0 DEF ExemptionEntry
    <3>2. [name : {edit.name}, lasting : {edit.lasting}, stamp : stamps] \subseteq ExemptionEntry(Stamp)
      BY <2>1, <3>1 DEF ExemptionEntry
    <3> QED
      BY <1>0, <3>2 DEF WithExemption
  <2>3. \E s \in SUBSET ExemptionEntry(Stamp) : Mutated(doc, edit, l) = [doc EXCEPT !.exemptions = s]
    BY <1>3, <2>2 DEF Mutated, AppendExemption
  <2> QED
    BY <1>0, <2>3
<1>4. CASE edit.do = "rm"
  BY <1>0, <1>4 DEF Mutated, RemoveExemptions
<1>5. CASE edit.do = "prune"
  BY <1>0, <1>5 DEF Mutated, RemoveExemptions
<1>6. CASE edit.do = "observe"
  <2>1. edit.name \in Package
    BY <1>6 DEF Edit
  <2> QED
    BY <1>0, <1>6, <2>1 DEF Mutated
<1> QED
  BY <1>1, <1>2, <1>3, <1>4, <1>5, <1>6 DEF Edit

LEMMA StampedTyped ==
  ASSUME NEW doc \in Document(Stamp), NEW key \in Saved
  PROVE  Stamped(doc, key) \in Document(Saved)
<1> DEFINE Tag(e) == IF e.stamp = "fresh" THEN [e EXCEPT !.stamp = key] ELSE e
<1>1. ASSUME NEW e \in DecisionEntry(Stamp) PROVE Tag(e) \in DecisionEntry(Saved)
  BY DEF DecisionEntry, Stamp
<1>2. ASSUME NEW e \in ExemptionEntry(Stamp) PROVE Tag(e) \in ExemptionEntry(Saved)
  BY DEF ExemptionEntry, Stamp
<1>3. Stamped(doc, key) =
        [doc EXCEPT !.decisions = {Tag(d) : d \in @}, !.exemptions = {Tag(e) : e \in @}]
  BY DEF Stamped
<1>4. /\ {Tag(d) : d \in doc.decisions} \subseteq DecisionEntry(Saved)
      /\ {Tag(e) : e \in doc.exemptions} \subseteq ExemptionEntry(Saved)
  BY <1>1, <1>2 DEF Document
<1> HIDE DEF Tag
<1> QED
  BY <1>3, <1>4 DEF Document

\* A document with nothing fresh in it has all its tags.
LEMMA NothingToStamp ==
  ASSUME NEW doc \in Document(Stamp), ~HasFresh(doc), NEW key
  PROVE  Stamped(doc, key) = doc
<1> DEFINE Tag(e) == IF e.stamp = "fresh" THEN [e EXCEPT !.stamp = key] ELSE e
<1>1. \A e \in doc.decisions \cup doc.exemptions : Tag(e) = e
  BY DEF HasFresh
<1>2. {Tag(d) : d \in doc.decisions} = doc.decisions /\ {Tag(e) : e \in doc.exemptions} = doc.exemptions
  BY <1>1
<1>3. Stamped(doc, key) =
        [doc EXCEPT !.decisions = {Tag(d) : d \in @}, !.exemptions = {Tag(e) : e \in @}]
  BY DEF Stamped
<1> HIDE DEF Tag
<1> QED
  BY <1>2, <1>3 DEF Document

-----------------------------------------------------------------------------
\* A process that is past the load holds its project's lock, unless it is an
\* observer; until it has one it has its edit.
PhasesAgree ==
    \A p \in Proc :
      /\ step[p] \in {"wait", "secret", "mint", "fill", "save", "done"} =>
           /\ work[p] \in [edit : Edits, root : Project, late : BOOLEAN]
           /\ work[p].root = want[p]
      /\ step[p] \in {"secret", "mint", "fill", "save", "done"} => pc[p] = "held"
      /\ step[p] = "observed" =>
           p \in Observer /\ work[p] \in [edit : Edits, root : Project, late : BOOLEAN]

\* The document in hand is the edit of what the file still holds.
EditOf(p) == Mutated(docs[work[p].root], work[p].edit, work[p].late)

Allowed(p) ==
    /\ Readable(docs[work[p].root])
    /\ ~Refused(docs[work[p].root], work[p].edit, work[p].late)

EditIsCurrent ==
    \A p \in Proc :
      work[p].root \notin Disturbed =>
        /\ step[p] \in {"secret", "mint", "fill", "save"} => Allowed(p)
        /\ step[p] \in {"secret", "mint", "fill"} => next[p] = EditOf(p)
        /\ step[p] = "save" => \E key \in Saved : next[p] = Stamped(EditOf(p), key)

\* A document in hand that waits for the rename has all its tags.
NextStamped == \A p \in Proc : step[p] \in {"save", "observed"} => next[p] \in Document(Saved)

IInv == LockInv /\ TypeOK /\ PhasesAgree /\ NextStamped

LEMMA SavedIsStamp == Document(Saved) \subseteq Document(Stamp)
  BY DEF Document, DecisionEntry, ExemptionEntry, Stamp

LEMMA NoDocumentTyped == NoDocument \in Document(Saved) /\ Clone \in Document(Saved)
<1>1. NoDocument \in Document(Saved)
  BY DEF NoDocument, Document
<1>2. [name : Shipped, lasting : {TRUE}, stamp : {"none"}] \subseteq ExemptionEntry(Saved)
  BY DgAssumption DEF ExemptionEntry, Saved
<1>3. Clone.exemptions \subseteq ExemptionEntry(Saved) /\ Clone.decisions = {} /\ Clone.observed = {}
  BY <1>2 DEF Clone, NoDocument
<1> QED
  BY <1>1, <1>3 DEF Document, Clone, NoDocument

LEMMA InitInv == Init => IInv /\ EditIsCurrent
<1> SUFFICES ASSUME Init PROVE IInv /\ EditIsCurrent
  OBVIOUS
<1>1. LockInv
  BY LockInitInv DEF Init
<1>2. TypeOK
  BY <1>1, NoDocumentTyped, SavedIsStamp DEF Init, TypeOK, LockInv, Project, Steps
<1> QED
  BY <1>1, <1>2 DEF Init, IInv, PhasesAgree, NextStamped, EditIsCurrent

\* Every step is one of the lock files' or leaves them alone.
LEMMA LockSteps == [Next]_vars => [LockNext]_lockVars
<1> SUFFICES ASSUME Next PROVE [LockNext]_lockVars
  BY DEF vars, lockVars
<1>1. ASSUME NEW p \in Proc, NEW r \in Project, NEW edit \in Edits,
             Begin(p, r, edit) \/ ObserveLoad(p, r, edit)
      PROVE  [LockNext]_lockVars
  BY <1>1 DEF Begin, ObserveLoad, LockNext, Project
<1>2. ASSUME NEW p \in Proc, Acquiring(p) \/ Abandon(p) \/ Finish(p) \/ PidsChange(p)
      PROVE  [LockNext]_lockVars
  BY <1>2 DEF Acquiring, Abandon, Finish, PidsChange, LockNext, Step
<1>3. ASSUME NEW p \in Proc,
             LoadAndEdit(p) \/ ReadSecret(p) \/ TruncateKey(p) \/ FillKey(p) \/ Save(p) \/ ObserveSave(p)
      PROVE  UNCHANGED lockVars
  BY <1>3 DEF LoadAndEdit, ReadSecret, TruncateKey, FillKey, Save, ObserveSave
<1>4. ASSUME NEW n \in Name, LockAges(n) PROVE [LockNext]_lockVars
  BY <1>4 DEF LockAges, LockNext
<1>5. TimePasses => UNCHANGED lockVars
  BY DEF TimePasses
<1> QED
  BY <1>1, <1>2, <1>3, <1>4, <1>5 DEF Next

-----------------------------------------------------------------------------
\* Steps that move one process of the edit, given what they do to it.
LEMMA TypeStep ==
  ASSUME IInv, [Next]_vars
  PROVE  TypeOK' /\ PhasesAgree' /\ NextStamped'
<1>0. LockInv'
  BY LockSteps, LockStepInv DEF IInv
<1>1. LockTypeOK'
  BY <1>0 DEF LockInv
<1> USE DEF IInv, TypeOK, Project
<1>2. CASE UNCHANGED vars
  BY <1>1, <1>2 DEF vars, lockVars, dgVars, PhasesAgree, NextStamped
<1>3. ASSUME NEW p \in Proc, NEW r \in Project, NEW edit \in Edits, Begin(p, r, edit)
      PROVE  TypeOK' /\ PhasesAgree' /\ NextStamped'
  <2>1. work'[p] = [edit |-> edit, root |-> r, late |-> late] /\ want'[p] = r /\ step'[p] = "wait"
    BY <1>3 DEF Begin, Start, Advance, LockTypeOK
  <2>2. \A q \in Proc \ {p} : /\ work'[q] = work[q] /\ want'[q] = want[q]
                              /\ step'[q] = step[q] /\ pc'[q] = pc[q]
    BY <1>3 DEF Begin, Start, Goto, Advance, LockTypeOK
  <2>3. work' \in [Proc -> {NoWork} \cup [edit : Edit, root : Project, late : BOOLEAN]] /\ step' \in [Proc -> Steps]
    BY <1>3, DgAssumption DEF Begin, Advance, Steps
  <2>4. UNCHANGED <<docs, overrideKey, late, minted, bypassed, next>>
    BY <1>3 DEF Begin
  <2>5. TypeOK'
    BY <1>1, <2>3, <2>4
  <2>6. PhasesAgree'
    BY <2>1, <2>2 DEF PhasesAgree
  <2>7. NextStamped'
    BY <2>1, <2>2, <2>4 DEF NextStamped
  <2> QED
    BY <2>5, <2>6, <2>7
<1>4. ASSUME NEW p \in Proc, Acquiring(p)
      PROVE  TypeOK' /\ PhasesAgree' /\ NextStamped'
  <2>1. pc[p] # "held" /\ UNCHANGED want /\ \A q \in Proc \ {p} : pc'[q] = pc[q]
    BY <1>4 DEF Acquiring, ReadHolder, StatHolder, Takeover, OpenExclusive, WriteMetadata, Retry, Goto, LockTypeOK
  <2>2. UNCHANGED dgVars
    BY <1>4 DEF Acquiring
  <2> QED
    BY <1>1, <2>1, <2>2 DEF dgVars, PhasesAgree, NextStamped
<1>5. ASSUME NEW p \in Proc, Abandon(p) \/ Finish(p)
      PROVE  TypeOK' /\ PhasesAgree' /\ NextStamped'
  <2>1. Quit(p) /\ UNCHANGED want /\ \A q \in Proc \ {p} : pc'[q] = pc[q]
    BY <1>5 DEF Abandon, Finish, GiveUp, WriteFails, Kill, Release, Goto, LockTypeOK
  <2>2. /\ step' = [step EXCEPT ![p] = "idle"]
        /\ work' = [work EXCEPT ![p] = NoWork]
        /\ next' = [next EXCEPT ![p] = NoDocument]
        /\ UNCHANGED <<docs, overrideKey, late, minted, bypassed>>
    BY <2>1 DEF Quit, Advance
  <2>3. TypeOK'
    BY <1>1, <2>2, NoDocumentTyped, SavedIsStamp DEF Steps
  <2>4. PhasesAgree' /\ NextStamped'
    BY <2>1, <2>2 DEF PhasesAgree, NextStamped
  <2> QED
    BY <2>3, <2>4
<1>6. ASSUME NEW p \in Proc, LoadAndEdit(p)
      PROVE  TypeOK' /\ PhasesAgree' /\ NextStamped'
  <2> DEFINE edited == Mutated(docs[work[p].root], work[p].edit, work[p].late)
  <2>1. work[p] \in [edit : Edits, root : Project, late : BOOLEAN] /\ work[p].root = want[p]
    BY <1>6 DEF LoadAndEdit, PhasesAgree
  <2>2. edited \in Document(Stamp)
    BY <2>1, MutatedTyped, DgAssumption
  <2>3. ~HasFresh(edited) => edited \in Document(Saved)
    <3>1. "none" \in Saved
      BY DEF Saved
    <3> QED
      BY <2>2, <3>1, NothingToStamp, StampedTyped
  <2>4. /\ pc[p] = "held"
        /\ UNCHANGED <<pc, want, docs, overrideKey, late, minted, bypassed, work>>
        /\ \/ step' = [step EXCEPT ![p] = "done"] /\ next' = next
           \/ /\ step' = [step EXCEPT ![p] = IF HasFresh(edited) THEN "secret" ELSE "save"]
              /\ next' = [next EXCEPT ![p] = edited]
    BY <1>6 DEF LoadAndEdit, Edited, Advance, lockVars
  <2> HIDE DEF edited
  <2>5. TypeOK'
    BY <1>1, <2>2, <2>4 DEF Steps
  <2>6. PhasesAgree'
    BY <2>1, <2>4 DEF PhasesAgree
  <2>7. NextStamped'
    BY <2>3, <2>4 DEF NextStamped
  <2> QED
    BY <2>5, <2>6, <2>7
<1>7. ASSUME NEW p \in Proc, ReadSecret(p) \/ FillKey(p)
      PROVE  TypeOK' /\ PhasesAgree' /\ NextStamped'
  <2>1. /\ pc[p] = "held"
        /\ step[p] \in {"secret", "fill"}
        /\ UNCHANGED <<pc, want, docs, late, bypassed, work>>
        /\ overrideKey' \in Key \cup {"absent", "empty"}
        /\ minted' \subseteq Key
        /\ \/ \E key \in Key : /\ step' = [step EXCEPT ![p] = "save"]
                               /\ next' = [next EXCEPT ![p] = Stamped(next[p], key)]
           \/ step' = [step EXCEPT ![p] = "mint"] /\ next' = next
    BY <1>7 DEF ReadSecret, FillKey, Advance, lockVars
  <2>2. \A key \in Key : Stamped(next[p], key) \in Document(Saved)
    BY StampedTyped DEF Saved
  <2>3. TypeOK'
    BY <1>1, <2>1, <2>2, SavedIsStamp DEF Steps
  <2>4. PhasesAgree'
    BY <2>1 DEF PhasesAgree
  <2>5. NextStamped'
    BY <2>1, <2>2 DEF NextStamped
  <2> QED
    BY <2>3, <2>4, <2>5
<1>8. ASSUME NEW p \in Proc, TruncateKey(p) \/ Save(p)
      PROVE  TypeOK' /\ PhasesAgree' /\ NextStamped'
  <2>1. /\ pc[p] = "held"
        /\ step[p] \in {"mint", "save"}
        /\ UNCHANGED <<pc, want, late, minted, bypassed, work, next>>
        /\ overrideKey' \in {overrideKey, "empty"}
        /\ \E s \in {"fill", "done"} : step' = [step EXCEPT ![p] = s]
        /\ docs' = docs \/ (step[p] = "save" /\ docs' = [docs EXCEPT ![work[p].root] = next[p]])
    BY <1>8 DEF TruncateKey, Save, Advance, lockVars
  <2>2. docs' \in [Project -> Document(Saved)]
    BY <2>1 DEF NextStamped
  <2> QED
    BY <1>1, <2>1, <2>2 DEF PhasesAgree, NextStamped, Steps
<1>9. ASSUME NEW p \in Proc, NEW r \in Project, NEW edit \in Edits, ObserveLoad(p, r, edit)
      PROVE  TypeOK' /\ PhasesAgree' /\ NextStamped'
  <2>1. /\ p \in Observer
        /\ edit \in Edit /\ edit.do = "observe"
        /\ UNCHANGED <<pc, want, docs, overrideKey, late, minted, bypassed>>
        /\ step' = [step EXCEPT ![p] = "observed"]
        /\ work' = [work EXCEPT ![p] = [edit |-> edit, root |-> r, late |-> late]]
        /\ next' = [next EXCEPT ![p] = Mutated(docs[r], edit, late)]
    BY <1>9, DgAssumption DEF ObserveLoad, Advance, lockVars
  <2>2. Mutated(docs[r], edit, late) \in Document(Saved)
    <3>1. edit.name \in Package
      BY <2>1 DEF Edit
    <3>2. Mutated(docs[r], edit, late) = [docs[r] EXCEPT !.observed = @ \cup {edit.name}]
      BY <2>1 DEF Mutated
    <3> QED
      BY <3>1, <3>2 DEF Document
  <2>3. TypeOK'
    BY <1>1, <2>1, <2>2, SavedIsStamp DEF Steps
  <2>4. PhasesAgree' /\ NextStamped'
    BY <2>1, <2>2 DEF PhasesAgree, NextStamped
  <2> QED
    BY <2>3, <2>4
<1>10. ASSUME NEW p \in Proc, ObserveSave(p)
       PROVE  TypeOK' /\ PhasesAgree' /\ NextStamped'
  <2>1. /\ step[p] = "observed"
        /\ UNCHANGED <<pc, want, overrideKey, late, minted>>
        /\ bypassed' = bypassed \cup {work[p].root}
        /\ docs' = [docs EXCEPT ![work[p].root] = next[p]]
        /\ step' = [step EXCEPT ![p] = "idle"]
        /\ work' = [work EXCEPT ![p] = NoWork]
        /\ next' = [next EXCEPT ![p] = NoDocument]
    BY <1>10 DEF ObserveSave, Advance, lockVars
  <2>2. work[p].root \in Project
    BY <2>1 DEF PhasesAgree
  <2>3. TypeOK'
    BY <1>1, <2>1, <2>2, NoDocumentTyped, SavedIsStamp DEF Steps, NextStamped
  <2> QED
    BY <2>1, <2>3 DEF PhasesAgree, NextStamped
<1>11. ASSUME (\E p \in Proc : PidsChange(p)) \/ (\E n \in Name : LockAges(n)) \/ TimePasses
       PROVE  TypeOK' /\ PhasesAgree' /\ NextStamped'
  <2>1. /\ UNCHANGED <<want, docs, overrideKey, minted, bypassed, step, work, next>>
        /\ late' \in BOOLEAN
    BY <1>11 DEF PidsChange, RecyclePid, RetirePid, LockAges, Age, TimePasses, lockVars, dgVars
  <2>2. \A q \in Proc : pc[q] = "held" => pc'[q] = "held"
    BY <1>11 DEF PidsChange, RecyclePid, RetirePid, Goto, LockAges, Age, TimePasses, lockVars, LockTypeOK
  <2> QED
    BY <1>1, <2>1, <2>2 DEF PhasesAgree, NextStamped
<1> QED
  BY <1>2, <1>3, <1>4, <1>5, <1>6, <1>7, <1>8, <1>9, <1>10, <1>11 DEF Next

LEMMA StepInv == IInv /\ [Next]_vars => IInv'
  BY LockSteps, LockStepInv, TypeStep DEF IInv

THEOREM DgInvariance == Spec => []IInv
  BY InitInv, StepInv, PTL DEF Spec

\* The state of the composition is well-typed; in particular no entry is ever
\* saved before its tag is decided.
THEOREM DgTypeCorrect == Spec => []TypeOK
<1>1. IInv => TypeOK
  BY DEF IInv
<1> QED
  BY <1>1, DgInvariance, PTL

-----------------------------------------------------------------------------
\* A change to a dg.json whose lock was never stolen or bypassed is the save of
\* the process that has the lock, and nobody else has an edit of that file in
\* hand.

LEMMA OnlySavesChange ==
  ASSUME IInv, [Next]_vars, NEW r \in Project \ bypassed', docs'[r] # docs[r]
  PROVE  \E p \in Proc : /\ Save(p)
                         /\ work[p].root = r
                         /\ docs'[r] = next[p]
<1> USE DEF IInv, TypeOK
<1>1. PICK p \in Proc : Save(p) \/ ObserveSave(p)
  BY DEF Next, vars, dgVars, Begin, ObserveLoad, Acquiring, Abandon, Quit, LoadAndEdit, ReadSecret,
     TruncateKey, FillKey, Finish, PidsChange, LockAges, TimePasses
<1>2. docs' = [docs EXCEPT ![work[p].root] = next[p]]
  BY <1>1 DEF Save, ObserveSave
<1>3. work[p].root = r /\ docs'[r] = next[p]
  BY <1>2
<1>4. ~ObserveSave(p)
  BY <1>3 DEF ObserveSave
<1> QED
  BY <1>1, <1>3, <1>4

LEMMA OneEditInHand ==
  ASSUME IInv, NEW p \in Proc, NEW q \in Proc,
         step[p] \in {"secret", "mint", "fill", "save", "done"},
         step[q] \in {"secret", "mint", "fill", "save", "done"},
         work[p].root = work[q].root, work[p].root \notin stolen
  PROVE  p = q
<1>1. Has(p, work[p].root) /\ Has(q, work[p].root)
  BY DEF IInv, PhasesAgree, Has
<1>2. work[p].root \in Name
  BY <1>1 DEF IInv, TypeOK, LockTypeOK, Has
<1> QED
  BY <1>1, <1>2 DEF IInv, LockInv, OwnsItsFile

LEMMA DisturbedGrows == [Next]_vars => Disturbed \subseteq Disturbed'
<1> SUFFICES ASSUME [Next]_vars PROVE Disturbed \subseteq Disturbed'
  OBVIOUS
<1>1. stolen \subseteq stolen'
  <2>1. [LockNext]_lockVars
    BY LockSteps
  <2> QED
    BY <2>1 DEF LockNext, Start, ReadHolder, StatHolder, Takeover, OpenExclusive, Retry, GiveUp,
       WriteMetadata, WriteFails, Release, Kill, RecyclePid, RetirePid, Age, lockVars, Step
<1>2. bypassed \subseteq bypassed'
  BY DEF Next, vars, dgVars, Begin, ObserveLoad, ObserveSave, Acquiring, Abandon, Quit, LoadAndEdit,
     ReadSecret, TruncateKey, FillKey, Save, Finish, PidsChange, LockAges, TimePasses
<1> QED
  BY <1>1, <1>2 DEF Disturbed

LEMMA CurrentStep ==
  ASSUME IInv, EditIsCurrent, [Next]_vars
  PROVE  EditIsCurrent'
<1> USE DEF IInv, TypeOK
<1> SUFFICES ASSUME NEW q \in Proc, work'[q].root \notin Disturbed'
             PROVE  /\ step'[q] \in {"secret", "mint", "fill", "save"} => Allowed(q)'
                    /\ step'[q] \in {"secret", "mint", "fill"} => next'[q] = EditOf(q)'
                    /\ step'[q] = "save" => \E key \in Saved : next'[q] = Stamped(EditOf(q)', key)
  BY DEF EditIsCurrent
<1>0. /\ work'[q].root \notin Disturbed /\ work'[q].root \notin stolen
      /\ work'[q].root \notin bypassed'
  BY DisturbedGrows DEF Disturbed
<1>1. CASE step'[q] \notin {"secret", "mint", "fill", "save"}
  BY <1>1
\* A step of q itself.
<1>2. CASE LoadAndEdit(q)
  <2>1. UNCHANGED <<docs, work>> /\ EditOf(q)' = EditOf(q) /\ Allowed(q)' = Allowed(q)
    BY <1>2 DEF LoadAndEdit, EditOf, Allowed
  <2>2. \/ step'[q] = "done"
        \/ /\ step'[q] = IF HasFresh(EditOf(q)) THEN "secret" ELSE "save"
           /\ next'[q] = EditOf(q)
           /\ Allowed(q)
    BY <1>2 DEF LoadAndEdit, Edited, Advance, EditOf, Allowed
  <2>3. EditOf(q) \in Document(Stamp)
    <3>1. work[q] \in [edit : Edits, root : Project, late : BOOLEAN]
      BY <1>2 DEF LoadAndEdit, PhasesAgree
    <3> QED
      BY <3>1, MutatedTyped, DgAssumption DEF EditOf
  <2>4. ~HasFresh(EditOf(q)) => EditOf(q) = Stamped(EditOf(q), "none") /\ "none" \in Saved
    BY <2>3, NothingToStamp DEF Saved
  <2> HIDE DEF EditOf, Allowed
  <2> QED
    BY <2>1, <2>2, <2>4
<1>3. CASE ReadSecret(q) \/ TruncateKey(q) \/ FillKey(q)
  <2>1. UNCHANGED <<docs, work>> /\ EditOf(q)' = EditOf(q) /\ Allowed(q)' = Allowed(q)
    BY <1>3 DEF ReadSecret, TruncateKey, FillKey, EditOf, Allowed
  <2>2. next[q] = EditOf(q) /\ Allowed(q)
    BY <1>0, <1>3, <2>1 DEF EditIsCurrent, ReadSecret, TruncateKey, FillKey
  <2>3. \/ step'[q] \in {"mint", "fill"} /\ next'[q] = next[q]
        \/ step'[q] = "save" /\ \E key \in Key : next'[q] = Stamped(next[q], key)
    BY <1>3 DEF ReadSecret, TruncateKey, FillKey, Advance
  <2> HIDE DEF EditOf, Allowed
  <2> QED
    BY <2>1, <2>2, <2>3 DEF Saved
\* Otherwise q was already there, and no other process touched its file.
<1>4. CASE /\ step'[q] \in {"secret", "mint", "fill", "save"}
           /\ ~(LoadAndEdit(q) \/ ReadSecret(q) \/ TruncateKey(q) \/ FillKey(q))
  <2>1. step'[q] = step[q] /\ work'[q] = work[q] /\ next'[q] = next[q]
    <3>1. ASSUME NEW p \in Proc, NEW r \in Project, NEW edit \in Edits,
                 Begin(p, r, edit) \/ ObserveLoad(p, r, edit)
          PROVE  step'[q] = step[q] /\ work'[q] = work[q] /\ next'[q] = next[q]
      BY <1>4, <3>1 DEF Begin, ObserveLoad, Advance
    <3>2. ASSUME NEW p \in Proc, Abandon(p) \/ Finish(p) \/ ObserveSave(p)
          PROVE  step'[q] = step[q] /\ work'[q] = work[q] /\ next'[q] = next[q]
      BY <1>4, <3>2 DEF Abandon, Finish, ObserveSave, Quit, Advance
    <3>3. ASSUME NEW p \in Proc,
                 LoadAndEdit(p) \/ ReadSecret(p) \/ TruncateKey(p) \/ FillKey(p)
          PROVE  step'[q] = step[q] /\ work'[q] = work[q] /\ next'[q] = next[q]
      BY <1>4, <3>3 DEF LoadAndEdit, Edited, ReadSecret, TruncateKey, FillKey, Advance
    <3>4. ASSUME NEW p \in Proc, Save(p)
          PROVE  step'[q] = step[q] /\ work'[q] = work[q] /\ next'[q] = next[q]
      BY <1>4, <3>4 DEF Save, Advance
    <3>5. ASSUME \/ UNCHANGED vars
                 \/ \E p \in Proc : Acquiring(p) \/ PidsChange(p)
                 \/ \E n \in Name : LockAges(n)
                 \/ TimePasses
          PROVE  step'[q] = step[q] /\ work'[q] = work[q] /\ next'[q] = next[q]
      BY <3>5 DEF vars, dgVars, Acquiring, PidsChange, LockAges, TimePasses
    <3> QED
      BY <3>1, <3>2, <3>3, <3>4, <3>5 DEF Next
  <2>2. work[q].root \in Project
    BY <1>4, <2>1 DEF PhasesAgree
  <2>3. docs'[work[q].root] = docs[work[q].root]
    <3> SUFFICES ASSUME docs'[work[q].root] # docs[work[q].root] PROVE FALSE
      OBVIOUS
    <3>1. PICK p \in Proc : Save(p) /\ work[p].root = work[q].root
      BY <1>0, <2>1, <2>2, OnlySavesChange
    <3>2. step[p] = "save" /\ step'[p] = "done"
      BY <3>1 DEF Save, Advance
    <3>3. p = q
      BY <1>0, <1>4, <2>1, <3>1, <3>2, OneEditInHand
    <3> QED
      BY <1>4, <3>2, <3>3
  <2>4. EditOf(q)' = EditOf(q) /\ Allowed(q)' = Allowed(q)
    BY <2>1, <2>3 DEF EditOf, Allowed
  <2> HIDE DEF EditOf, Allowed
  <2> QED
    BY <1>0, <2>1, <2>4 DEF EditIsCurrent
<1> QED
  BY <1>1, <1>2, <1>3, <1>4

LEMMA SerialStep ==
  ASSUME IInv, EditIsCurrent, [Next]_vars,
         NEW r \in Project \ Disturbed', docs'[r] # docs[r]
  PROVE  \E edit \in Edits, l \in BOOLEAN, key \in Saved :
           docs'[r] = Stamped(Mutated(docs[r], edit, l), key)
<1>1. PICK p \in Proc : Save(p) /\ work[p].root = r /\ docs'[r] = next[p]
  BY OnlySavesChange DEF Disturbed
<1>2. step[p] = "save"
  BY <1>1 DEF Save
<1>3. work[p].edit \in Edits /\ work[p].late \in BOOLEAN
  BY <1>2 DEF IInv, PhasesAgree
<1>4. \E key \in Saved : next[p] = Stamped(EditOf(p), key)
  BY <1>1, <1>2, DisturbedGrows DEF EditIsCurrent
<1> QED
  BY <1>1, <1>3, <1>4 DEF EditOf

\* Every change to a dg.json whose lock was never stolen or bypassed is one edit
\* of what the file held: nobody's edit is lost.
THEOREM EditsAreSerial == Spec => Serialized
<1>1. Init => IInv /\ EditIsCurrent
  BY InitInv
<1>2. IInv /\ EditIsCurrent /\ [Next]_vars => (IInv /\ EditIsCurrent)'
  BY StepInv, CurrentStep
<1>3. IInv /\ EditIsCurrent /\ [Next]_vars =>
        [\A r \in Project \ Disturbed' :
           docs'[r] # docs[r] =>
             \E edit \in Edits, l \in BOOLEAN, key \in Saved :
               docs'[r] = Stamped(Mutated(docs[r], edit, l), key)]_vars
  BY SerialStep
<1> QED
  BY <1>1, <1>2, <1>3, PTL DEF Spec, Serialized

-----------------------------------------------------------------------------
\* A step takes at most one lock from a process that has it.
LEMMA OneTheft ==
  ASSUME IInv, [Next]_vars
  PROVE  stolen' = stolen \/ \E n \in Name : stolen' = stolen \cup {n}
<1>1. [LockNext]_lockVars
  BY LockSteps
<1>2. CASE stolen' = stolen
  BY <1>2
<1>3. CASE stolen' # stolen
  <2>1. PICK p \in Proc : stolen' = stolen \cup TakenFrom(p, want[p])
    BY <1>1, <1>3 DEF LockNext, Start, ReadHolder, StatHolder, Takeover, OpenExclusive, Retry, GiveUp,
       WriteMetadata, WriteFails, Release, Kill, RecyclePid, RetirePid, Age, lockVars, Step
  <2>2. TakenFrom(p, want[p]) = {want[p]} /\ want[p] \in Name
    BY <1>3, <2>1 DEF TakenFrom, IInv, TypeOK, LockTypeOK
  <2> QED
    BY <2>1, <2>2
<1> QED
  BY <1>2, <1>3

LEMMA CommitStep ==
  ASSUME IInv, EditIsCurrent, [Next]_vars, NEW p \in Proc, Save(p), work[p].root \notin Disturbed
  PROVE  Store!Commit(work[p].root) /\ work[p].root \in Project
<1> USE DEF IInv, TypeOK
<1> DEFINE r == work[p].root
<1>1. step[p] = "save" /\ docs' = [docs EXCEPT ![r] = next[p]] /\ Disturbed' = Disturbed
  BY DEF Save, Disturbed, lockVars
<1>2. work[p].edit \in Edits /\ work[p].late \in BOOLEAN /\ r \in Project
  BY <1>1 DEF PhasesAgree
<1>3. Allowed(p) /\ \E key \in Saved : next[p] = Stamped(EditOf(p), key)
  BY <1>1 DEF EditIsCurrent
<1>4. PICK key \in Saved : next[p] = Stamped(EditOf(p), key)
  BY <1>3
<1>5. /\ Readable(docs[r])
      /\ ~Refused(docs[r], work[p].edit, work[p].late)
      /\ next[p] = Stamped(Mutated(docs[r], work[p].edit, work[p].late), key)
  BY <1>3, <1>4 DEF Allowed, EditOf
<1>6. next[p] \in Outcomes(docs[r])
  <2> DEFINE w == [edit |-> work[p].edit, late |-> work[p].late, key |-> key]
  <2>1. w \in [edit : Edits, late : BOOLEAN, key : Saved]
    BY <1>2
  <2>2. w.edit = work[p].edit /\ w.late = work[p].late /\ w.key = key
    OBVIOUS
  <2>3. /\ Readable(docs[r])
        /\ ~Refused(docs[r], w.edit, w.late)
        /\ next[p] = Stamped(Mutated(docs[r], w.edit, w.late), w.key)
    BY <1>5, <2>2
  <2> HIDE DEF w
  <2> QED
    BY <2>1, <2>3 DEF Outcomes
<1> QED
  BY <1>1, <1>2, <1>6 DEF Store!Commit

LEMMA StoreStep ==
  ASSUME IInv, EditIsCurrent, [Next]_vars
  PROVE  [Store!StoreNext]_<<docs, Disturbed>>
<1> USE DEF IInv, TypeOK
<1>1. docs \in [Project -> Document(Saved)] /\ docs' \in [Project -> Document(Saved)]
  BY TypeStep
<1>2. ASSUME NEW p \in Proc, Save(p) PROVE Store!StoreNext
  <2> DEFINE r == work[p].root
  <2>1. r \in Project
    BY <1>2 DEF Save, PhasesAgree
  <2>2. CASE r \in Disturbed
    <3>1. Disturbed' = Disturbed \cup {r} /\ docs' = [docs EXCEPT ![r] = next[p]]
      BY <1>2, <2>2 DEF Save, Disturbed, lockVars
    <3>2. Store!Disturb(r)
      BY <1>1, <2>1, <3>1 DEF Store!Disturb
    <3> QED
      BY <2>1, <3>2 DEF Store!StoreNext
  <2>3. CASE r \notin Disturbed
    BY <1>2, <2>1, <2>3, CommitStep DEF Store!StoreNext
  <2> QED
    BY <2>2, <2>3
<1>3. ASSUME NEW p \in Proc, ObserveSave(p) PROVE Store!StoreNext
  <2> DEFINE r == work[p].root
  <2>1. r \in Project
    BY <1>3 DEF ObserveSave, PhasesAgree
  <2>2. Disturbed' = Disturbed \cup {r} /\ docs' = [docs EXCEPT ![r] = next[p]]
    BY <1>3 DEF ObserveSave, Disturbed, lockVars
  <2>3. Store!Disturb(r)
    BY <1>1, <2>1, <2>2 DEF Store!Disturb
  <2> QED
    BY <2>1, <2>3 DEF Store!StoreNext
<1>4. CASE \A p \in Proc : ~Save(p) /\ ~ObserveSave(p)
  <2>1. docs' = docs /\ bypassed' = bypassed
    BY <1>4 DEF Next, vars, dgVars, Begin, ObserveLoad, Acquiring, Abandon, Quit, LoadAndEdit, ReadSecret,
       TruncateKey, FillKey, Finish, PidsChange, LockAges, TimePasses
  <2>2. CASE stolen' = stolen
    BY <2>1, <2>2 DEF Disturbed
  <2>3. CASE \E n \in Name : stolen' = stolen \cup {n}
    <3>1. PICK n \in Name : stolen' = stolen \cup {n}
      BY <2>3
    <3>2. Disturbed' = Disturbed \cup {n} /\ docs'[n] \in Document(Saved) /\ docs' = [docs EXCEPT ![n] = docs'[n]]
      BY <1>1, <2>1, <3>1 DEF Disturbed, Project
    <3> QED
      BY <3>2 DEF Store!StoreNext, Store!Disturb, Project
  <2> QED
    BY <2>2, <2>3, OneTheft
<1> QED
  BY <1>2, <1>3, <1>4

\* The dg.json files are a store of serial edits: commands may be killed at any
\* point and their locks taken over, installs may write without one, and only the
\* projects whose lock was lost or bypassed leave the store (dgfile.ts:29-39).
THEOREM StoreImplemented == Spec => ImplementsStore
<1>1. Init => EditIsCurrent
  BY InitInv
<1>2. IInv /\ EditIsCurrent /\ [Next]_vars => EditIsCurrent'
  BY CurrentStep
<1>3. IInv /\ EditIsCurrent /\ [Next]_vars => [Store!StoreNext]_<<docs, Disturbed>>
  BY StoreStep
<1>4. Init => Store!StoreInit
  BY InitInv DEF Init, LockInit, Store!StoreInit, IInv, TypeOK, Disturbed
<1> QED
  BY <1>1, <1>2, <1>3, <1>4, DgInvariance, PTL DEF Spec, ImplementsStore, Store!StoreSpec

-----------------------------------------------------------------------------
\* What a step may do to a file and to a document in hand, whoever has the lock.

Holding == {"secret", "mint", "fill", "save", "observed"}

LEMMA FilesFromHands ==
  ASSUME IInv, [Next]_vars, NEW r \in Project, docs'[r] # docs[r]
  PROVE  \E p \in Proc : step[p] \in {"save", "observed"} /\ docs'[r] = next[p]
<1> USE DEF IInv, TypeOK
<1>1. PICK p \in Proc : Save(p) \/ ObserveSave(p)
  BY DEF Next, vars, dgVars, Begin, ObserveLoad, Acquiring, Abandon, Quit, LoadAndEdit, ReadSecret,
     TruncateKey, FillKey, Finish, PidsChange, LockAges, TimePasses
<1>2. step[p] \in {"save", "observed"} /\ docs' = [docs EXCEPT ![work[p].root] = next[p]]
  BY <1>1 DEF Save, ObserveSave
<1>3. docs'[r] = next[p]
  BY <1>2
<1> QED
  BY <1>2, <1>3

\* A document in hand stays as it was, or is an edit of a file that allows it,
\* or is stamped with the key there is.
LEMMA HandSteps ==
  ASSUME IInv, [Next]_vars, NEW q \in Proc, step'[q] \in Holding
  PROVE  \/ step[q] \in Holding /\ next'[q] = next[q]
         \/ \E r \in Project, edit \in Edit, l \in BOOLEAN :
              ~Refused(docs[r], edit, l) /\ next'[q] = Mutated(docs[r], edit, l)
         \/ step[q] \in Holding /\ overrideKey' \in Key /\ next'[q] = Stamped(next[q], overrideKey')
<1> USE DEF IInv, TypeOK, Holding
<1>1. CASE UNCHANGED vars
  BY <1>1 DEF vars, dgVars
<1>2. ASSUME NEW p \in Proc, NEW r \in Project, NEW edit \in Edits, Begin(p, r, edit)
      PROVE  step[q] \in Holding /\ next'[q] = next[q]
  BY <1>2 DEF Begin, Advance
<1>3. ASSUME NEW p \in Proc, NEW r \in Project, NEW edit \in Edits, ObserveLoad(p, r, edit)
      PROVE  \/ step[q] \in Holding /\ next'[q] = next[q]
             \/ \E s \in Project, ed \in Edit, l \in BOOLEAN :
                  ~Refused(docs[s], ed, l) /\ next'[q] = Mutated(docs[s], ed, l)
  <2>1. CASE p = q
    <3>1. /\ next'[q] = Mutated(docs[r], edit, late) /\ edit \in Edit
          /\ ~Refused(docs[r], edit, late)
      BY <1>3, <2>1, DgAssumption DEF ObserveLoad, Refused
    <3> QED
      BY <3>1
  <2>2. CASE p # q
    BY <1>3, <2>2 DEF ObserveLoad, Advance
  <2> QED
    BY <2>1, <2>2
<1>4. ASSUME NEW p \in Proc, Acquiring(p) \/ PidsChange(p)
      PROVE  step[q] \in Holding /\ next'[q] = next[q]
  BY <1>4 DEF Acquiring, PidsChange, dgVars
<1>5. ASSUME NEW p \in Proc, Abandon(p) \/ Finish(p) \/ ObserveSave(p)
      PROVE  step[q] \in Holding /\ next'[q] = next[q]
  BY <1>5 DEF Abandon, Finish, ObserveSave, Quit, Advance
<1>6. ASSUME NEW p \in Proc, LoadAndEdit(p)
      PROVE  \/ step[q] \in Holding /\ next'[q] = next[q]
             \/ \E s \in Project, ed \in Edit, l \in BOOLEAN :
                  ~Refused(docs[s], ed, l) /\ next'[q] = Mutated(docs[s], ed, l)
  <2>1. CASE p = q
    <3>1. work[q].root \in Project /\ work[q].edit \in Edit /\ work[q].late \in BOOLEAN
      BY <1>6, <2>1, DgAssumption DEF LoadAndEdit, PhasesAgree
    <3>2. /\ ~Refused(docs[work[q].root], work[q].edit, work[q].late)
          /\ next'[q] = Mutated(docs[work[q].root], work[q].edit, work[q].late)
      BY <1>6, <2>1 DEF LoadAndEdit, Edited, Advance
    <3> QED
      BY <3>1, <3>2
  <2>2. CASE p # q
    BY <1>6, <2>2 DEF LoadAndEdit, Edited, Advance
  <2> QED
    BY <2>1, <2>2
<1>7. ASSUME NEW p \in Proc, ReadSecret(p) \/ FillKey(p)
      PROVE  \/ step[q] \in Holding /\ next'[q] = next[q]
             \/ step[q] \in Holding /\ overrideKey' \in Key /\ next'[q] = Stamped(next[q], overrideKey')
  BY <1>7 DEF ReadSecret, FillKey, Advance
<1>8. ASSUME NEW p \in Proc, TruncateKey(p) \/ Save(p)
      PROVE  step[q] \in Holding /\ next'[q] = next[q]
  BY <1>8 DEF TruncateKey, Save, Advance
<1>9. ASSUME (\E n \in Name : LockAges(n)) \/ TimePasses
      PROVE  step[q] \in Holding /\ next'[q] = next[q]
  BY <1>9 DEF LockAges, TimePasses, dgVars
<1> QED
  BY <1>1, <1>2, <1>3, <1>4, <1>5, <1>6, <1>7, <1>8, <1>9 DEF Next

-----------------------------------------------------------------------------
\* Exemptions within the cap.

Fits(doc) == IsFiniteSet(doc.exemptions) /\ Cardinality(doc.exemptions) <= ExemptionCap

LEMMA FunctionImage ==
  ASSUME NEW S, IsFiniteSet(S), NEW f
  PROVE  IsFiniteSet({f[x] : x \in S}) /\ Cardinality({f[x] : x \in S}) <= Cardinality(S)
<1> DEFINE T == {f[x] : x \in S}
           g == [x \in S |-> f[x]]
<1>1. g \in Surjection(S, T)
  BY DEF Surjection
<1> QED
  BY <1>1, FS_Surjection

LEMMA StampedFits ==
  ASSUME NEW doc \in Document(Stamp), NEW key, Fits(doc)
  PROVE  Fits(Stamped(doc, key))
<1> DEFINE f == [e \in doc.exemptions |-> IF e.stamp = "fresh" THEN [e EXCEPT !.stamp = key] ELSE e]
<1>1. Stamped(doc, key).exemptions = {f[e] : e \in doc.exemptions}
  BY DEF Stamped, Document
<1> HIDE DEF f
<1>2. /\ IsFiniteSet({f[e] : e \in doc.exemptions})
      /\ Cardinality({f[e] : e \in doc.exemptions}) <= Cardinality(doc.exemptions)
  BY FunctionImage DEF Fits
<1>3. /\ Cardinality(doc.exemptions) \in Nat /\ Cardinality({f[e] : e \in doc.exemptions}) \in Nat
  BY <1>2, FS_CardinalityType DEF Fits
<1> QED
  BY <1>1, <1>2, <1>3, CapAssumption DEF Fits

LEMMA FewerFit ==
  ASSUME NEW S, IsFiniteSet(S), Cardinality(S) <= ExemptionCap, NEW T \in SUBSET S
  PROVE  IsFiniteSet(T) /\ Cardinality(T) <= ExemptionCap
<1>1. IsFiniteSet(T) /\ Cardinality(T) <= Cardinality(S)
  BY FS_Subset
<1>2. Cardinality(T) \in Nat /\ Cardinality(S) \in Nat
  BY <1>1, FS_CardinalityType
<1> QED
  BY <1>1, <1>2, CapAssumption

LEMMA OneStamp ==
  ASSUME NEW name, NEW lasting, NEW stamps, NEW e
  PROVE  e \in [name : {name}, lasting : {lasting}, stamp : stamps] <=>
           \E s \in stamps : e = [name |-> name, lasting |-> lasting, stamp |-> s]
  OBVIOUS

\* What replaces the entries of one package are finitely many.
LEMMA WithExemptionFinite ==
  ASSUME NEW doc, IsFiniteSet(doc.exemptions), NEW name, NEW lasting
  PROVE  IsFiniteSet(WithExemption(doc, name, lasting))
<1> DEFINE prior == {e \in doc.exemptions : e.name = name}
           stamps == IF prior = {} THEN {"fresh"} ELSE {e.stamp : e \in prior}
           new == [name : {name}, lasting : {lasting}, stamp : stamps]
           f == [e \in prior |-> [name |-> name, lasting |-> lasting, stamp |-> e.stamp]]
<1>1. IsFiniteSet(prior) /\ IsFiniteSet(doc.exemptions \ prior)
  BY FS_Subset
<1>2. IsFiniteSet({f[e] : e \in prior})
  <2> HIDE DEF prior, f
  <2> QED
    BY <1>1, FunctionImage
<1>3. CASE prior = {}
  <2>1. new = {[name |-> name, lasting |-> lasting, stamp |-> "fresh"]}
    <3>1. stamps = {"fresh"}
      BY <1>3
    <3>2. \A e : e \in new <=>
            \E s \in stamps : e = [name |-> name, lasting |-> lasting, stamp |-> s]
      BY OneStamp
    <3> HIDE DEF new, stamps
    <3> QED
      BY <3>1, <3>2
  <2>2. IsFiniteSet((doc.exemptions \ prior) \cup new)
    BY <1>1, <2>1, FS_Singleton, FS_Union
  <2> QED
    BY <2>2 DEF WithExemption
<1>4. CASE prior # {}
  <2>1. new = {f[e] : e \in prior}
    <3>1. stamps = {e.stamp : e \in prior}
      BY <1>4
    <3>2. \A e : e \in new <=>
            \E s \in stamps : e = [name |-> name, lasting |-> lasting, stamp |-> s]
      BY OneStamp
    <3>3. \A e \in prior : f[e] = [name |-> name, lasting |-> lasting, stamp |-> e.stamp]
      OBVIOUS
    <3> HIDE DEF new, f, prior, stamps
    <3>4. ASSUME NEW e \in new PROVE e \in {f[x] : x \in prior}
      <4>1. PICK s \in stamps : e = [name |-> name, lasting |-> lasting, stamp |-> s]
        BY <3>2
      <4>2. PICK x \in prior : s = x.stamp
        BY <3>1
      <4> QED
        BY <3>3, <4>1, <4>2
    <3>5. ASSUME NEW x \in prior PROVE f[x] \in new
      <4>1. x.stamp \in stamps
        BY <3>1
      <4>2. f[x] = [name |-> name, lasting |-> lasting, stamp |-> x.stamp]
        BY <3>3
      <4> QED
        BY <3>2, <4>1, <4>2
    <3> QED
      BY <3>4, <3>5
  <2>2. IsFiniteSet((doc.exemptions \ prior) \cup new)
    BY <1>1, <1>2, <2>1, FS_Union
  <2> QED
    BY <2>2 DEF WithExemption
<1> QED
  BY <1>3, <1>4

LEMMA MutatedFits ==
  ASSUME NEW doc \in Document(Saved), NEW edit \in Edit, NEW l \in BOOLEAN, Fits(doc),
         ~Refused(doc, edit, l)
  PROVE  Fits(Mutated(doc, edit, l))
<1> DEFINE new == Mutated(doc, edit, l)
<1>1. CASE edit.do \in {"remember", "revoke", "observe"}
  <2>1. new.exemptions = doc.exemptions
    <3>1. CASE edit.do = "remember"
      BY <3>1 DEF Mutated, AppendDecision, Document
    <3>2. CASE edit.do = "revoke"
      BY <3>2 DEF Mutated, RemoveDecision, Document
    <3>3. CASE edit.do = "observe"
      BY <3>3 DEF Mutated, Document
    <3> QED
      BY <1>1, <3>1, <3>2, <3>3
  <2> QED
    BY <2>1 DEF Fits
<1>2. CASE edit.do \in {"rm", "prune"}
  <2>1. new.exemptions \subseteq doc.exemptions
    <3>1. CASE edit.do = "rm"
      BY <3>1 DEF Mutated, RemoveExemptions, Document
    <3>2. CASE edit.do = "prune"
      BY <3>2 DEF Mutated, RemoveExemptions, Document
    <3> QED
      BY <1>2, <3>1, <3>2
  <2> QED
    BY <2>1, FewerFit DEF Fits
<1>3. CASE edit.do = "exempt"
  <2> DEFINE all == WithExemption(doc, edit.name, edit.lasting)
             active == {e \in all : Active(e, l)}
  <2>1. IsFiniteSet(all) /\ IsFiniteSet(active)
    BY WithExemptionFinite, FS_Subset DEF Fits
  <2>2. Cardinality(all) \in Nat /\ Cardinality(active) \in Nat
    BY <2>1, FS_CardinalityType
  <2>3. ~(Cardinality(active) > ExemptionCap)
    BY <1>3 DEF Refused, OverCap
  <2>4. new.exemptions = IF Cardinality(all) > ExemptionCap THEN active ELSE all
    BY <1>3 DEF Mutated, AppendExemption, Document
  <2>5. IsFiniteSet(new.exemptions) /\ Cardinality(new.exemptions) <= ExemptionCap
    <3> HIDE DEF all, active, new
    <3> QED
      BY <2>1, <2>2, <2>3, <2>4, CapAssumption
  <2> QED
    BY <2>5 DEF Fits
<1> QED
  BY <1>1, <1>2, <1>3 DEF Edit

AllFit ==
    /\ \A r \in Project : Fits(docs[r])
    /\ \A p \in Proc : step[p] \in Holding => Fits(next[p])

LEMMA FitStep ==
  ASSUME IInv, AllFit, [Next]_vars
  PROVE  AllFit'
<1>1. ASSUME NEW r \in Project PROVE Fits(docs'[r])
  BY FilesFromHands DEF AllFit, Holding
<1>2. ASSUME NEW q \in Proc, step'[q] \in Holding PROVE Fits(next'[q])
  <2>1. CASE step[q] \in Holding /\ next'[q] = next[q]
    BY <2>1 DEF AllFit
  <2>2. CASE \E r \in Project, edit \in Edit, l \in BOOLEAN :
               ~Refused(docs[r], edit, l) /\ next'[q] = Mutated(docs[r], edit, l)
    BY <2>2, MutatedFits DEF AllFit, IInv, TypeOK
  <2>3. CASE step[q] \in Holding /\ next'[q] = Stamped(next[q], overrideKey')
    BY <2>3, StampedFits DEF AllFit, IInv, TypeOK
  <2> QED
    BY <1>2, <2>1, <2>2, <2>3, HandSteps
<1> QED
  BY <1>1, <1>2 DEF AllFit, Fits

LEMMA CloneFits ==
  ASSUME IsFiniteSet(Shipped), Cardinality(Shipped) <= ExemptionCap
  PROVE  Fits(Clone)
<1> DEFINE f == [n \in Shipped |-> [name |-> n, lasting |-> TRUE, stamp |-> "none"]]
<1>1. Clone.exemptions = {f[n] : n \in Shipped}
  <2>1. Clone.exemptions = [name : Shipped, lasting : {TRUE}, stamp : {"none"}]
    BY DEF Clone, NoDocument
  <2>2. ASSUME NEW e \in [name : Shipped, lasting : {TRUE}, stamp : {"none"}]
        PROVE  e \in {f[n] : n \in Shipped}
    <3>1. e.name \in Shipped /\ e = [name |-> e.name, lasting |-> TRUE, stamp |-> "none"]
      OBVIOUS
    <3>2. e = f[e.name]
      BY <3>1
    <3> QED
      BY <3>1, <3>2
  <2>3. \A n \in Shipped : f[n] \in [name : Shipped, lasting : {TRUE}, stamp : {"none"}]
    OBVIOUS
  <2> HIDE DEF f
  <2>4. {f[n] : n \in Shipped} \subseteq [name : Shipped, lasting : {TRUE}, stamp : {"none"}]
    BY <2>3
  <2>5. [name : Shipped, lasting : {TRUE}, stamp : {"none"}] \subseteq {f[n] : n \in Shipped}
    BY <2>2
  <2> QED
    BY <2>1, <2>4, <2>5
<1> HIDE DEF f
<1>2. /\ IsFiniteSet({f[n] : n \in Shipped})
      /\ Cardinality({f[n] : n \in Shipped}) <= Cardinality(Shipped)
  BY FunctionImage
<1>3. Cardinality(Shipped) \in Nat /\ Cardinality({f[n] : n \in Shipped}) \in Nat
  BY <1>2, FS_CardinalityType
<1> QED
  BY <1>1, <1>2, <1>3, CapAssumption DEF Fits

\* Of a dg.json that came with no more exemptions than it may have, no command
\* makes one that loadDgFile refuses, and neither does an install that writes
\* back what it has loaded (dgfile.ts, appendCooldownExemptions).
THEOREM CapIsKept ==
  ASSUME IsFiniteSet(Shipped), Cardinality(Shipped) <= ExemptionCap
  PROVE  Spec => []ExemptionsWithinCap
<1>1. Init => AllFit
  BY CloneFits DEF Init, AllFit, Holding
<1>2. IInv /\ AllFit /\ [Next]_vars => AllFit'
  BY FitStep
<1>3. AllFit => ExemptionsWithinCap
  BY DEF AllFit, Fits, ExemptionsWithinCap
<1> QED
  BY <1>1, <1>2, <1>3, DgInvariance, PTL DEF Spec

-----------------------------------------------------------------------------
\* Exemptions that have not expired.

\* An expiry lay ahead when its command looked at the clock.
ExpiriesAhead ==
    \A p \in Proc :
      step[p] \in {"wait", "secret", "mint", "fill", "save"} /\ work[p].edit.do = "exempt" =>
        work[p].edit.lasting \/ ~work[p].late

LEMMA AheadStep ==
  ASSUME IInv, ExpiriesAhead, [Next]_vars
  PROVE  ExpiriesAhead'
<1> USE DEF IInv, TypeOK
<1> SUFFICES ASSUME NEW q \in Proc, step'[q] \in {"wait", "secret", "mint", "fill", "save"}
             PROVE  work'[q].edit.do = "exempt" => work'[q].edit.lasting \/ ~work'[q].late
  BY DEF ExpiriesAhead
<1>1. ASSUME NEW r \in Project, NEW edit \in Edits, Begin(q, r, edit)
      PROVE  work'[q].edit.do = "exempt" => work'[q].edit.lasting \/ ~work'[q].late
  <2>1. work'[q].edit = edit /\ work'[q].late = late /\ (edit.do = "exempt" => edit.lasting \/ ~late)
    BY <1>1 DEF Begin
  <2> QED
    BY <2>1
<1>2. CASE ~\E r \in Project, edit \in Edits : Begin(q, r, edit)
  <2>1. work'[q] = work[q] /\ step[q] \in {"wait", "secret", "mint", "fill", "save"}
    <3>1. ASSUME NEW p \in Proc, NEW r \in Project, NEW edit \in Edits,
                 Begin(p, r, edit) \/ ObserveLoad(p, r, edit)
          PROVE  work'[q] = work[q] /\ step'[q] = step[q]
      BY <1>2, <3>1 DEF Begin, ObserveLoad, Advance
    <3>2. ASSUME NEW p \in Proc, Abandon(p) \/ Finish(p) \/ ObserveSave(p)
          PROVE  work'[q] = work[q] /\ step'[q] = step[q]
      BY <3>2 DEF Abandon, Finish, ObserveSave, Quit, Advance
    <3>3. ASSUME NEW p \in Proc, LoadAndEdit(p) \/ ReadSecret(p) \/ TruncateKey(p) \/ FillKey(p)
          PROVE  work'[q] = work[q] /\ step[q] \in {"wait", "secret", "mint", "fill", "save"}
      BY <3>3 DEF LoadAndEdit, Edited, ReadSecret, TruncateKey, FillKey, Advance
    <3>4. ASSUME NEW p \in Proc, Save(p)
          PROVE  work'[q] = work[q] /\ step[q] \in {"wait", "secret", "mint", "fill", "save"}
      BY <3>4 DEF Save, Advance
    <3>5. ASSUME \/ UNCHANGED vars
                 \/ \E p \in Proc : Acquiring(p) \/ PidsChange(p)
                 \/ \E n \in Name : LockAges(n)
                 \/ TimePasses
          PROVE  work'[q] = work[q] /\ step'[q] = step[q]
      BY <3>5 DEF vars, dgVars, Acquiring, PidsChange, LockAges, TimePasses
    <3> QED
      BY <3>1, <3>2, <3>3, <3>4, <3>5 DEF Next
  <2> QED
    BY <2>1 DEF ExpiriesAhead
<1> QED
  BY <1>1, <1>2

LEMMA StampedNames ==
  ASSUME NEW doc \in Document(Stamp), NEW key, NEW e \in doc.exemptions
  PROVE  \E f \in Stamped(doc, key).exemptions : f.name = e.name
<1> DEFINE Tag(x) == IF x.stamp = "fresh" THEN [x EXCEPT !.stamp = key] ELSE x
<1>1. Stamped(doc, key).exemptions = {Tag(x) : x \in doc.exemptions}
  BY DEF Stamped, Document
<1>2. Tag(e) \in Stamped(doc, key).exemptions
  BY <1>1
<1>3. Tag(e).name = e.name
  BY DEF Document, ExemptionEntry
<1> QED
  BY <1>2, <1>3

\* No edit but its removal takes a lasting exemption away.
LEMMA MutatedKeepsLasting ==
  ASSUME NEW doc \in Document(Saved), NEW edit \in Edit, NEW l \in BOOLEAN,
         edit.do = "exempt" => edit.lasting \/ ~l,
         NEW e \in doc.exemptions, e.lasting, ~(edit.do = "rm" /\ edit.name = e.name)
  PROVE  \E f \in Mutated(doc, edit, l).exemptions : f.name = e.name
<1> DEFINE new == Mutated(doc, edit, l)
<1>1. CASE edit.do \in {"remember", "revoke", "observe"}
  <2>1. new.exemptions = doc.exemptions
    <3>1. CASE edit.do = "remember"
      BY <3>1 DEF Mutated, AppendDecision, Document
    <3>2. CASE edit.do = "revoke"
      BY <3>2 DEF Mutated, RemoveDecision, Document
    <3>3. CASE edit.do = "observe"
      BY <3>3 DEF Mutated, Document
    <3> QED
      BY <1>1, <3>1, <3>2, <3>3
  <2> QED
    BY <2>1
<1>2. CASE edit.do = "rm"
  BY <1>2 DEF Mutated, RemoveExemptions, Document
<1>3. CASE edit.do = "prune"
  BY <1>3 DEF Mutated, RemoveExemptions, Document, Active
<1>4. CASE edit.do = "exempt"
  <2> DEFINE all == WithExemption(doc, edit.name, edit.lasting)
             active == {x \in all : Active(x, l)}
             prior == {x \in doc.exemptions : x.name = edit.name}
             stamps == IF prior = {} THEN {"fresh"} ELSE {x.stamp : x \in prior}
             added == [name : {edit.name}, lasting : {edit.lasting}, stamp : stamps]
  <2>1. new.exemptions \in {all, active}
    BY <1>4 DEF Mutated, AppendExemption, Document
  <2>2. all = (doc.exemptions \ prior) \cup added
    BY DEF WithExemption
  <2>3. CASE e.name # edit.name
    <3>1. e \in all /\ e \in active
      BY <2>2, <2>3 DEF Active
    <3> HIDE DEF all, active
    <3> QED
      BY <2>1, <3>1
  <2>4. CASE e.name = edit.name
    <3> DEFINE x == [name |-> edit.name, lasting |-> edit.lasting, stamp |-> e.stamp]
    <3>1. e.stamp \in stamps
      BY <2>4
    <3>2. x \in added
      <4> HIDE DEF stamps
      <4> QED
        BY <3>1
    <3>3. Active(x, l) /\ x.name = e.name
      BY <1>4, <2>4 DEF Active
    <3> HIDE DEF x, added
    <3>4. x \in all /\ x \in active
      BY <2>2, <3>2, <3>3
    <3> HIDE DEF all, active
    <3> QED
      BY <2>1, <3>3, <3>4
  <2> QED
    BY <2>3, <2>4
<1> QED
  BY <1>1, <1>2, <1>3, <1>4 DEF Edit

LEMMA LastingStep ==
  ASSUME IInv, EditIsCurrent, ExpiriesAhead, [Next]_vars,
         NEW r \in Project \ Disturbed', NEW e \in docs[r].exemptions, e.lasting,
         ~\E f \in docs'[r].exemptions : f.name = e.name
  PROVE  \E p \in Proc : /\ step[p] = "save" /\ step'[p] = "done"
                         /\ work[p].edit = [do |-> "rm", name |-> e.name]
<1> USE DEF IInv, TypeOK
<1>1. PICK p \in Proc : Save(p) /\ work[p].root = r /\ docs'[r] = next[p]
  BY OnlySavesChange DEF Disturbed
<1>2. step[p] = "save" /\ step'[p] = "done"
  BY <1>1 DEF Save, Advance
<1>3. work[p].edit \in Edit /\ work[p].late \in BOOLEAN
  BY <1>2, DgAssumption DEF PhasesAgree
<1>4. PICK key \in Saved : next[p] = Stamped(EditOf(p), key)
  BY <1>1, <1>2, DisturbedGrows DEF EditIsCurrent
<1>5. EditOf(p) \in Document(Stamp)
  BY <1>1, <1>3, MutatedTyped DEF EditOf
<1>6. ~\E f \in EditOf(p).exemptions : f.name = e.name
  BY <1>1, <1>4, <1>5, StampedNames
<1>7. work[p].edit.do = "rm" /\ work[p].edit.name = e.name
  BY <1>1, <1>2, <1>3, <1>6, MutatedKeepsLasting DEF EditOf, ExpiriesAhead
<1>8. work[p].edit = [do |-> "rm", name |-> e.name]
  BY <1>3, <1>7 DEF Edit
<1> QED
  BY <1>2, <1>8

\* While nobody's lock is stolen or bypassed, only its own removal takes an
\* exemption away that has not expired; a command that makes room under the cap
\* never does (dgfile.ts, appendCooldownExemptions).
THEOREM LastingStay == Spec => LastingExemptionsStay
<1>1. Init => EditIsCurrent /\ ExpiriesAhead
  BY InitInv DEF Init, ExpiriesAhead
<1>2. IInv /\ EditIsCurrent /\ ExpiriesAhead /\ [Next]_vars => (EditIsCurrent /\ ExpiriesAhead)'
  BY CurrentStep, AheadStep
<1>3. IInv /\ EditIsCurrent /\ ExpiriesAhead /\ [Next]_vars =>
        [\A r \in Project \ Disturbed' : \A e \in docs[r].exemptions :
           e.lasting =>
             \/ \E f \in docs'[r].exemptions : f.name = e.name
             \/ \E p \in Proc :
                  step[p] = "save" /\ step'[p] = "done" /\ work[p].edit = [do |-> "rm", name |-> e.name]]_vars
  BY LastingStep
<1> QED
  BY <1>1, <1>2, <1>3, DgInvariance, PTL DEF Spec, LastingExemptionsStay

-----------------------------------------------------------------------------
\* The override key, once it is settled.

Entries(doc) == doc.decisions \cup doc.exemptions

\* The entries that bear a key of this machine's bear the one there is.
OfThisKey(doc, key) == \A e \in Entries(doc) : e.stamp \in Key => e.stamp = key

LEMMA MutatedOfKey ==
  ASSUME NEW doc \in Document(Saved), NEW edit \in Edit, NEW l \in BOOLEAN, NEW key,
         OfThisKey(doc, key)
  PROVE  OfThisKey(Mutated(doc, edit, l), key)
<1> DEFINE new == Mutated(doc, edit, l)
           Stamps == {e.stamp : e \in Entries(doc)} \cup {"fresh"}
<1>1. ASSUME NEW e \in Entries(new) PROVE e.stamp \in Stamps
  <2>1. CASE edit.do = "remember"
    BY <2>1 DEF Mutated, AppendDecision, Document, Entries
  <2>2. CASE edit.do = "revoke"
    BY <2>2 DEF Mutated, RemoveDecision, Document, Entries
  <2>3. CASE edit.do \in {"rm", "prune"}
    BY <2>3 DEF Mutated, RemoveExemptions, Document, Entries
  <2>4. CASE edit.do = "observe"
    BY <2>4 DEF Mutated, Document, Entries
  <2>5. CASE edit.do = "exempt"
    <3> DEFINE prior == {x \in doc.exemptions : x.name = edit.name}
               stamps == IF prior = {} THEN {"fresh"} ELSE {x.stamp : x \in prior}
               added == [name : {edit.name}, lasting : {edit.lasting}, stamp : stamps]
    <3>1. new.decisions = doc.decisions
          /\ new.exemptions \subseteq WithExemption(doc, edit.name, edit.lasting)
      BY <2>5 DEF Mutated, AppendExemption, Document
    <3>2. WithExemption(doc, edit.name, edit.lasting) = (doc.exemptions \ prior) \cup added
      BY DEF WithExemption
    <3>3. stamps \subseteq Stamps
      BY DEF Entries
    <3>4. \A x \in added : x.stamp \in stamps
      OBVIOUS
    <3> HIDE DEF added, stamps
    <3> QED
      BY <3>1, <3>2, <3>3, <3>4 DEF Entries
  <2> QED
    BY <2>1, <2>2, <2>3, <2>4, <2>5 DEF Edit
<1>2. "fresh" \notin Key
  BY KeyAssumption
<1> HIDE DEF new
<1>3. OfThisKey(new, key)
  BY <1>1, <1>2 DEF OfThisKey
<1> QED
  BY <1>3 DEF new

LEMMA StampedOfKey ==
  ASSUME NEW doc \in Document(Stamp), NEW key, OfThisKey(doc, key)
  PROVE  OfThisKey(Stamped(doc, key), key)
<1> DEFINE Tag(x) == IF x.stamp = "fresh" THEN [x EXCEPT !.stamp = key] ELSE x
<1>1. /\ Stamped(doc, key).exemptions = {Tag(x) : x \in doc.exemptions}
      /\ Stamped(doc, key).decisions = {Tag(x) : x \in doc.decisions}
  BY DEF Stamped, Document
<1>2. ASSUME NEW x \in Entries(doc) PROVE Tag(x).stamp \in {x.stamp, key}
  BY DEF Entries, Document, DecisionEntry, ExemptionEntry
<1> HIDE DEF Tag
<1> QED
  BY <1>1, <1>2 DEF OfThisKey, Entries

\* The key changes only when it is replaced, and that is what a command does
\* which found none.
LEMMA KeySteps ==
  ASSUME IInv, [Next]_vars, overrideKey' # overrideKey
  PROVE  \E p \in Proc : \/ step[p] = "mint" /\ step'[p] = "fill" /\ overrideKey' = "empty"
                         \/ step[p] = "fill" /\ step'[p] = "save" /\ overrideKey' \in Key
<1> USE DEF IInv, TypeOK
<1>1. PICK p \in Proc : TruncateKey(p) \/ FillKey(p)
  BY DEF Next, vars, dgVars, Begin, ObserveLoad, ObserveSave, Acquiring, Abandon, Quit, LoadAndEdit,
     ReadSecret, Save, Finish, PidsChange, LockAges, TimePasses
<1> QED
  BY <1>1 DEF TruncateKey, FillKey, Advance

\* Who is about to replace the key has found none, or was about to before.
LEMMA MintSteps ==
  ASSUME IInv, [Next]_vars, NEW q \in Proc, step'[q] \in {"mint", "fill"}
  PROVE  step[q] \in {"mint", "fill"} \/ (step[q] = "secret" /\ overrideKey \notin Key)
<1> USE DEF IInv, TypeOK
<1>1. CASE UNCHANGED vars
  BY <1>1 DEF vars, dgVars
<1>2. ASSUME NEW p \in Proc, NEW r \in Project, NEW edit \in Edits,
             Begin(p, r, edit) \/ ObserveLoad(p, r, edit)
      PROVE  step[q] \in {"mint", "fill"}
  BY <1>2 DEF Begin, ObserveLoad, Advance
<1>3. ASSUME NEW p \in Proc, Abandon(p) \/ Finish(p) \/ ObserveSave(p) \/ Acquiring(p) \/ PidsChange(p)
      PROVE  step[q] \in {"mint", "fill"}
  BY <1>3 DEF Abandon, Finish, ObserveSave, Quit, Advance, Acquiring, PidsChange, dgVars
<1>4. ASSUME NEW p \in Proc, LoadAndEdit(p) \/ Save(p) \/ TruncateKey(p) \/ FillKey(p)
      PROVE  step[q] \in {"mint", "fill"}
  BY <1>4 DEF LoadAndEdit, Edited, Save, TruncateKey, FillKey, Advance
<1>5. ASSUME NEW p \in Proc, ReadSecret(p)
      PROVE  step[q] \in {"mint", "fill"} \/ (step[q] = "secret" /\ overrideKey \notin Key)
  BY <1>5 DEF ReadSecret, Advance
<1>6. ASSUME (\E n \in Name : LockAges(n)) \/ TimePasses
      PROVE  step[q] \in {"mint", "fill"}
  BY <1>6 DEF LockAges, TimePasses, dgVars
<1> QED
  BY <1>1, <1>2, <1>3, <1>4, <1>5, <1>6 DEF Next

\* A complete key that nobody is about to replace, and of which all is.
KeySettled(key) ==
    /\ overrideKey = key
    /\ \A p \in Proc : step[p] \notin {"mint", "fill"}
    /\ \A r \in Project : OfThisKey(docs[r], key)
    /\ \A p \in Proc : step[p] \in Holding => OfThisKey(next[p], key)

LEMMA SettledStep ==
  ASSUME NEW key \in Key, IInv, KeySettled(key), [Next]_vars
  PROVE  KeySettled(key)'
<1> USE DEF IInv, TypeOK, KeySettled
<1>1. overrideKey' = key
  BY KeySteps
<1>2. \A p \in Proc : step'[p] \notin {"mint", "fill"}
  BY MintSteps
<1>3. ASSUME NEW r \in Project PROVE OfThisKey(docs'[r], key)
  BY FilesFromHands DEF Holding
<1>4. ASSUME NEW q \in Proc, step'[q] \in Holding PROVE OfThisKey(next'[q], key)
  <2>1. CASE step[q] \in Holding /\ next'[q] = next[q]
    BY <2>1
  <2>2. CASE \E r \in Project, edit \in Edit, l \in BOOLEAN : next'[q] = Mutated(docs[r], edit, l)
    BY <2>2, MutatedOfKey
  <2>3. CASE step[q] \in Holding /\ next'[q] = Stamped(next[q], overrideKey')
    BY <1>1, <2>3, StampedOfKey
  <2> QED
    BY <1>4, <2>1, <2>2, <2>3, HandSteps
<1> QED
  BY <1>1, <1>2, <1>3, <1>4 DEF OfThisKey

\* The race for the key is one of first uses only. Once there is a complete key,
\* with nobody about to make another and all tags of it, it is the key for good
\* and what this machine writes is honored by it: in any number of projects,
\* whatever is killed, stolen or written without a lock (override-trust.ts:34-48).
THEOREM SettledKeyStays ==
  ASSUME NEW key \in Key
  PROVE  Spec => [](KeySettled(key) => [](KeySettled(key) /\ AuthoredIsHonored))
<1>1. IInv /\ KeySettled(key) /\ [Next]_vars => KeySettled(key)'
  BY SettledStep
<1>2. KeySettled(key) => AuthoredIsHonored
  BY DEF KeySettled, OfThisKey, Entries, AuthoredIsHonored
<1> QED
  BY <1>1, <1>2, DgInvariance, PTL DEF Spec
=============================================================================
