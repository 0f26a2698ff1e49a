------------------------------ MODULE DgStore ------------------------------
(***************************************************************************)
(* What mutateDgFile promises (src/src/project/dgfile.ts): a store of      *)
(* documents whose edits happen one after the other, each on what the one  *)
(* before it left.  A document whose lock a writer lost, or that somebody  *)
(* wrote without it, is lost to the store: that one, and no other.         *)
(***************************************************************************)
CONSTANTS
    Project,
    Contents,   \* what a document may hold
    Outcomes(_) \* the documents that one edit can make of a document

VARIABLES
    docs,
    disturbed   \* the projects whose documents are lost to the store

StoreInit ==
    /\ docs \in [Project -> Contents]
    /\ disturbed = {}

Commit(r) ==
    /\ r \notin disturbed
    /\ \E doc \in Outcomes(docs[r]) : docs' = [docs EXCEPT ![r] = doc]
    /\ UNCHANGED disturbed

Disturb(r) ==
    /\ disturbed' = disturbed \cup {r}
    /\ docs'[r] \in Contents
    /\ docs' = [docs EXCEPT ![r] = docs'[r]]

StoreNext == \E r \in Project : Commit(r) \/ Disturb(r)

StoreSpec == StoreInit /\ [][StoreNext]_<<docs, disturbed>>
============================================================================
