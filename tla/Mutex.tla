------------------------------- MODULE Mutex -------------------------------
(***************************************************************************)
(* What a caller of acquireLock (src/src/state/locks.ts) relies on: of the *)
(* processes that ask for a lock by name, at most one has it at a time.    *)
(***************************************************************************)
CONSTANTS Proc, Name

VARIABLE holders

Init == holders = [n \in Name |-> {}]

Acquire(p, n) ==
    /\ holders[n] = {}
    /\ holders' = [holders EXCEPT ![n] = {p}]

\* Given back, or lost with its process.
Release(p, n) ==
    /\ holders[n] = {p}
    /\ holders' = [holders EXCEPT ![n] = {}]

Next == \E p \in Proc, n \in Name : Acquire(p, n) \/ Release(p, n)

Spec == Init /\ [][Next]_holders
============================================================================
