------------------------------ MODULE MCDgFile ------------------------------
(***************************************************************************)
(* Constants for the run of DgFile: caps of one and two stand for the 500s *)
(* of dgfile.ts.                                                           *)
(***************************************************************************)
EXTENDS DgFile

Always == Name

CONSTANTS d1, d2, x, y, z

Exempt(name, lasting) == [do |-> "exempt", name |-> name, lasting |-> lasting]
Remember(id) == [do |-> "remember", id |-> id]
Remove(name) == [do |-> "rm", name |-> name]
Prune == [do |-> "prune"]
Observe(name) == [do |-> "observe", name |-> name]

\* Exemptions up to and over the cap, what makes room again, acceptances up to and
\* over theirs, and an observer.
WriterEdits ==
    {Exempt(x, TRUE), Exempt(y, FALSE), Remove(x), Prune, Remember(d1), Remember(d2), Observe(y)}
=============================================================================
