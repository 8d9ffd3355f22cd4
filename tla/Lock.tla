-------------------------------- MODULE Lock --------------------------------
(***************************************************************************)
(* What a lock promises: it is taken by one thread at a time and given     *)
(* back by the thread that took it.                                        *)
(***************************************************************************)
CONSTANT Threads
VARIABLE holders

Init == holders = {}

Acquire(t) == holders = {} /\ holders' = {t}
Release(t) == holders = {t} /\ holders' = {}

Next == \E t \in Threads : Acquire(t) \/ Release(t)

Spec == Init /\ [][Next]_holders
=============================================================================
