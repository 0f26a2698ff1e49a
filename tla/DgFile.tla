------------------------------- MODULE DgFile -------------------------------
(***************************************************************************)
(* dg.json as the processes of dg change it: mutateDgFile loads, edits,    *)
(* stamps and saves the file under its lock (src/src/project/dgfile.ts,    *)
(* src/src/project/override-trust.ts), recordScriptObservations does so    *)
(* without one (src/src/scripts/gate.ts).  Composed with LockFile: one     *)
(* lock per project.                                                       *)
(***************************************************************************)
EXTENDS LockFile, DgDocument

CONSTANTS
    Observer,   \* processes that end an install and record script observations
    Edits,      \* bound: the edits the commands ask for
    Shipped     \* packages exempted in the dg.json that came with the project

ASSUME DgAssumption ==
    /\ Observer \subseteq Proc
    /\ Edits \subseteq Edit
    /\ Shipped \subseteq Package

VARIABLES
    docs,        \* the dg.json of each project; projects are named as their locks
    overrideKey, \* the per-user override-key file
    late,        \* the time of the exemptions that expire has come
    minted,      \* history: keys ever generated
    bypassed,    \* history: projects written to without the lock
    step,        \* how far each process is with its edit
    work,        \* the edit it is at
    next         \* the document it is about to save

dgVars == <<docs, overrideKey, late, minted, bypassed, step, work, next>>
vars == <<lockVars, dgVars>>

Project == Name

\* wait: for the lock; secret, mint, fill: readOrCreateSecret; save, done.
Steps == {"idle", "wait", "secret", "mint", "fill", "save", "done", "observed"}
NoEdit == [do |-> "nothing"]
NoWork == [edit |-> NoEdit, root |-> "nowhere", late |-> FALSE]
NoDocument == [decisions |-> {}, exemptions |-> {}, observed |-> {}]

Clone == [NoDocument EXCEPT !.exemptions = [name : Shipped, lasting : {TRUE}, stamp : {"none"}]]

Advance(p, s) == step' = [step EXCEPT ![p] = s]

Quit(p) ==
    /\ Advance(p, "idle")
    /\ work' = [work EXCEPT ![p] = NoWork]
    /\ next' = [next EXCEPT ![p] = NoDocument]
    /\ UNCHANGED <<docs, overrideKey, late, minted, bypassed>>

Init ==
    /\ LockInit
    /\ docs = [r \in Project |-> Clone]
    /\ overrideKey = "absent"
    /\ late = FALSE
    /\ minted = {}
    /\ bypassed = {}
    /\ step = [p \in Proc |-> "idle"]
    /\ work = [p \in Proc |-> NoWork]
    /\ next = [p \in Proc |-> NoDocument]

-----------------------------------------------------------------------------
\* The random id of a decision is one that nothing has yet.
Unused(id) ==
    /\ \A r \in Project : \A d \in docs[r].decisions : d.id # id
    /\ \A p \in Proc : \A d \in next[p].decisions : d.id # id
    /\ \A p \in Proc : work[p].edit # [do |-> "remember", id |-> id]

\* mutateDgFile asks for the project's lock.  An expiry that is set lies ahead.
Begin(p, r, edit) ==
    /\ Start(p, r)
    /\ step[p] = "idle"
    /\ edit.do # "observe"
    /\ edit.do = "remember" => Unused(edit.id)
    /\ edit.do = "exempt" => edit.lasting \/ ~late
    /\ Advance(p, "wait")
    /\ work' = [work EXCEPT ![p] = [edit |-> edit, root |-> r, late |-> late]]
    /\ UNCHANGED <<docs, overrideKey, late, minted, bypassed, next>>

\* acquireLockSyncWithRetry
Acquiring(p) ==
    /\ \/ ReadHolder(p) \/ StatHolder(p) \/ Takeover(p) \/ OpenExclusive(p)
       \/ WriteMetadata(p) \/ Retry(p)
    /\ UNCHANGED dgVars

\* The lock is not to be had, or the process is killed.
Abandon(p) == (GiveUp(p) \/ WriteFails(p) \/ Kill(p)) /\ Quit(p)

Edited(p) ==
    LET doc == docs[work[p].root]
        edited == Mutated(doc, work[p].edit, work[p].late)
    IN IF ~Readable(doc) \/ Refused(doc, work[p].edit, work[p].late)
         THEN Advance(p, "done") /\ UNCHANGED next
         ELSE /\ Advance(p, IF HasFresh(edited) THEN "secret" ELSE "save")
              /\ next' = [next EXCEPT ![p] = edited]

\* Slip: the file is loaded while the lock is still to be had.
EditsEarly(p) ==
    /\ step[p] = "wait"
    /\ Edited(p)
    /\ UNCHANGED <<lockVars, docs, overrideKey, late, minted, bypassed, work>>

\* Slip: neither an unreadable file nor a full section is an error.
EditsUnreadable(p) ==
    /\ pc[p] = "held"
    /\ step[p] = "wait"
    /\ LET edited == Mutated(docs[work[p].root], work[p].edit, work[p].late) IN
       /\ next' = [next EXCEPT ![p] = edited]
       /\ Advance(p, IF HasFresh(edited) THEN "secret" ELSE "save")
    /\ UNCHANGED <<lockVars, docs, overrideKey, late, minted, bypassed, work>>

\* loadDgFile and the edit; an unreadable file or a full section is an error.
LoadAndEdit(p) ==
    /\ pc[p] = "held"
    /\ step[p] = "wait"
    /\ Edited(p)
    /\ UNCHANGED <<lockVars, docs, overrideKey, late, minted, bypassed, work>>

\* readOrCreateSecret: an absent or an unfinished key is generated anew ...
ReadSecret(p) ==
    /\ pc[p] = "held"
    /\ step[p] = "secret"
    /\ IF overrideKey \in Key
         THEN /\ next' = [next EXCEPT ![p] = Stamped(@, overrideKey)]
              /\ Advance(p, "save")
         ELSE Advance(p, "mint") /\ UNCHANGED next
    /\ UNCHANGED <<lockVars, docs, overrideKey, late, minted, bypassed, work>>

\* ... by a writeFileSync, which empties the file first.
TruncateKey(p) ==
    /\ pc[p] = "held"
    /\ step[p] = "mint"
    /\ overrideKey' = "empty"
    /\ Advance(p, "fill")
    /\ UNCHANGED <<lockVars, docs, late, minted, bypassed, work, next>>

FillKey(p) ==
    /\ pc[p] = "held"
    /\ step[p] = "fill"
    /\ \E key \in Key \ minted :
         /\ overrideKey' = key
         /\ minted' = minted \cup {key}
         /\ next' = [next EXCEPT ![p] = Stamped(@, key)]
    /\ Advance(p, "save")
    /\ UNCHANGED <<lockVars, docs, late, bypassed, work>>

\* saveDgFile: an atomic rename.
Save(p) ==
    /\ pc[p] = "held"
    /\ step[p] = "save"
    /\ docs' = [docs EXCEPT ![work[p].root] = next[p]]
    /\ Advance(p, "done")
    /\ UNCHANGED <<lockVars, overrideKey, late, minted, bypassed, work, next>>

Finish(p) ==
    /\ step[p] = "done"
    /\ Release(p)
    /\ Quit(p)

-----------------------------------------------------------------------------
\* recordScriptObservations after an install: no lock, and the file it saves is
\* the one it loaded.
ObserveLoad(p, r, edit) ==
    /\ p \in Observer
    /\ pc[p] = "idle"
    /\ step[p] = "idle"
    /\ edit.do = "observe"
    /\ Readable(docs[r])
    /\ edit.name \notin docs[r].observed
    /\ next' = [next EXCEPT ![p] = Mutated(docs[r], edit, late)]
    /\ work' = [work EXCEPT ![p] = [edit |-> edit, root |-> r, late |-> late]]
    /\ Advance(p, "observed")
    /\ UNCHANGED <<lockVars, docs, overrideKey, late, minted, bypassed>>

ObserveSave(p) ==
    /\ pc[p] = "idle"
    /\ step[p] = "observed"
    /\ docs' = [docs EXCEPT ![work[p].root] = next[p]]
    /\ bypassed' = bypassed \cup {work[p].root}
    /\ Advance(p, "idle")
    /\ work' = [work EXCEPT ![p] = NoWork]
    /\ next' = [next EXCEPT ![p] = NoDocument]
    /\ UNCHANGED <<lockVars, overrideKey, late, minted>>

\* The rest of the world: pids come and go, files and exemptions grow old.
PidsChange(p) == (RecyclePid(p) \/ RetirePid(p)) /\ UNCHANGED dgVars

LockAges(n) == Age(n) /\ UNCHANGED dgVars

TimePasses ==
    /\ ~late
    /\ late' = TRUE
    /\ UNCHANGED <<lockVars, docs, overrideKey, minted, bypassed, step, work, next>>

Next ==
    \/ \E p \in Proc :
        \/ \E r \in Project, edit \in Edits : Begin(p, r, edit) \/ ObserveLoad(p, r, edit)
        \/ Acquiring(p) \/ Abandon(p) \/ LoadAndEdit(p)
        \/ ReadSecret(p) \/ TruncateKey(p) \/ FillKey(p)
        \/ Save(p) \/ Finish(p) \/ ObserveSave(p) \/ PidsChange(p)
    \/ \E n \in Name : LockAges(n)
    \/ TimePasses

Spec == Init /\ [][Next]_vars

-----------------------------------------------------------------------------
TypeOK ==
    /\ LockTypeOK
    /\ docs \in [Project -> Document(Saved)]
    /\ overrideKey \in Key \cup {"absent", "empty"}
    /\ late \in BOOLEAN
    /\ minted \subseteq Key
    /\ bypassed \subseteq Project
    /\ step \in [Proc -> Steps]
    /\ work \in [Proc -> {NoWork} \cup [edit : Edit, root : Project, late : BOOLEAN]]
    /\ next \in [Proc -> Document(Stamp)]

\* A project whose lock was taken from its holder, or bypassed.
Disturbed == stolen \cup bypassed

\* The comment at dgfile.ts:27, "Serialized read-modify-write": every change to
\* a dg.json is one edit of what was there, as long as nobody's lock was stolen
\* and nobody has written the file without its lock.
Serialized ==
    [][\A r \in Project \ Disturbed' :
         docs'[r] # docs[r] =>
           \E edit \in Edits, l \in BOOLEAN, key \in Saved :
             docs'[r] = Stamped(Mutated(docs[r], edit, l), key)]_vars

\* An exemption that has not expired stays until somebody removes that one:
\* making room under the cap may drop only the expired.
LastingExemptionsStay ==
    [][\A r \in Project \ Disturbed' : \A e \in docs[r].exemptions :
         e.lasting =>
           \/ \E f \in docs'[r].exemptions : f.name = e.name
           \/ \E p \in Proc :
                step[p] = "save" /\ step'[p] = "done" /\ work[p].edit = [do |-> "rm", name |-> e.name]]_vars

\* The test "rejects an over-cap append instead of fail-closing the whole file"
\* (test/unit/dgfile.test.ts): exempting a package never makes the file one that
\* loadDgFile refuses.
ExemptionsWithinCap == \A r \in Project : Cardinality(docs[r].exemptions) <= ExemptionCap

\* The comment at the head of override-trust.ts: an entry is honored if it "was
\* authored on THIS machine".  Once the key file is complete, every entry
\* that carries a tag of this machine's making passes the check with that key.  Two
\* first uses in two projects break it; what holds of it is in DgFileProofs.
AuthoredIsHonored ==
    \A r \in Project : \A e \in docs[r].decisions \cup docs[r].exemptions :
      e.stamp \in Key /\ overrideKey \in Key => e.stamp = overrideKey

\* What one edit makes of a document that it may be done to.
Outcomes(doc) ==
    {Stamped(Mutated(doc, w.edit, w.late), w.key) :
       w \in {v \in [edit : Edits, late : BOOLEAN, key : Saved] :
               Readable(doc) /\ ~Refused(doc, v.edit, v.late)}}

\* The promise of "Serialized read-modify-write" (dgfile.ts:27) as a whole: of a
\* readable file that is not full, one edit after the other, by processes that may
\* be killed anywhere; and the theft of a lock, or a save without one, costs the
\* project it happens to and no other.
Store == INSTANCE DgStore WITH Contents <- Document(Saved), disturbed <- Disturbed
ImplementsStore == Store!StoreSpec
=============================================================================
