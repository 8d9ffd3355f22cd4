---------------------------- MODULE LocksProofs ----------------------------
(***************************************************************************)
(* ScopeLockImpl on a CASLock implements a lock, for any set of threads.   *)
(***************************************************************************)
EXTENDS Locks, TLAPS

\* is_locked_ is set only between calls and until a release has ended.
FlagsRight ==
    \A t \in Threads : is_locked[t] => pc[t] \in {"scope", "cleared"}

\* The flag is set while somebody is inside, and nobody else is.
OneInside ==
    /\ \A t \in Holders : mu
    /\ \A s, t \in Holders : s = t

Inv == TypeOK /\ FlagsRight /\ OneInside

-----------------------------------------------------------------------------
\* The invariant holds before any scope is constructed.
LEMMA InitInv == Init => Inv
BY DEF Init, Inv, TypeOK, FlagsRight, OneInside, Holders

\* Every step of every call keeps the invariant.
LEMMA NextInv == Inv /\ [Next]_vars => Inv'
<1> SUFFICES ASSUME Inv, [Next]_vars
             PROVE  Inv'
  OBVIOUS
<1> USE DEF Inv, TypeOK, FlagsRight, OneInside, Holders, Goto
<1>1. ASSUME NEW t \in Threads, Construct(t) PROVE Inv'
  BY <1>1 DEF Construct
<1>2. ASSUME NEW t \in Threads, CallLock(t) PROVE Inv'
  BY <1>2 DEF CallLock
<1>3. ASSUME NEW t \in Threads, TestAndSet(t) PROVE Inv'
  <2>1. CASE mu
    BY <1>3, <2>1 DEF TestAndSet
  <2>2. CASE ~mu
    BY <1>3, <2>2 DEF TestAndSet
  <2> QED BY <2>1, <2>2
<1>4. ASSUME NEW t \in Threads, SetLocked(t) PROVE Inv'
  BY <1>4 DEF SetLocked
<1>5. ASSUME NEW t \in Threads, NEW d \in BOOLEAN, Unlock(t, d) PROVE Inv'
  <2>1. CASE is_locked[t]
    <3>1. Holders' = {}
      BY <1>5, <2>1 DEF Unlock
    <3>2. TypeOK' /\ FlagsRight'
      BY <1>5, <2>1 DEF Unlock
    <3> QED BY <3>1, <3>2
  <2>2. CASE ~is_locked[t]
    BY <1>5, <2>2 DEF Unlock
  <2> QED BY <2>1, <2>2
<1>6. ASSUME NEW t \in Threads, ClearLocked(t) PROVE Inv'
  BY <1>6 DEF ClearLocked
<1>7. CASE UNCHANGED vars
  BY <1>7 DEF vars
<1> QED BY <1>1, <1>2, <1>3, <1>4, <1>5, <1>6, <1>7 DEF Next

\* Only the test-and-set that finds the flag clear, and the clear of a scope that
\* holds the lock, change who is inside: the first takes the lock, the second
\* gives it back, and every other step leaves the holders as they are.
LEMMA StepRefines == Inv /\ [Next]_vars => [Abstract!Next]_Holders
<1> SUFFICES ASSUME Inv, [Next]_vars
             PROVE  Abstract!Next \/ Holders' = Holders
  OBVIOUS
<1> USE DEF Inv, TypeOK, FlagsRight, OneInside, Goto
<1>1. ASSUME NEW t \in Threads, Construct(t) PROVE Holders' = Holders
  BY <1>1 DEF Construct, Holders
<1>2. ASSUME NEW t \in Threads, CallLock(t) PROVE Holders' = Holders
  BY <1>2 DEF CallLock, Holders
<1>3. ASSUME NEW t \in Threads, TestAndSet(t)
      PROVE  Abstract!Acquire(t) \/ Holders' = Holders
  <2>1. CASE mu
    BY <1>3, <2>1 DEF TestAndSet, Holders
  <2>2. CASE ~mu
    <3>1. Holders = {}
      BY <2>2
    <3>2. Holders' = {t}
      BY <1>3, <2>2, <3>1 DEF TestAndSet, Holders
    <3> QED BY <3>1, <3>2 DEF Abstract!Acquire
  <2> QED BY <2>1, <2>2
<1>4. ASSUME NEW t \in Threads, SetLocked(t) PROVE Holders' = Holders
  BY <1>4 DEF SetLocked, Holders
<1>5. ASSUME NEW t \in Threads, NEW d \in BOOLEAN, Unlock(t, d)
      PROVE  Abstract!Release(t) \/ Holders' = Holders
  <2>1. CASE is_locked[t]
    <3>1. Holders = {t}
      BY <1>5, <2>1 DEF Unlock, Holders
    <3>2. Holders' = {}
      BY <1>5, <2>1, <3>1 DEF Unlock, Holders
    <3> QED BY <3>1, <3>2 DEF Abstract!Release
  <2>2. CASE ~is_locked[t]
    BY <1>5, <2>2 DEF Unlock, Holders
  <2> QED BY <2>1, <2>2
<1>6. ASSUME NEW t \in Threads, ClearLocked(t) PROVE Holders' = Holders
  BY <1>6 DEF ClearLocked, Holders
<1>7. CASE UNCHANGED vars
  BY <1>7 DEF vars, Holders
<1> QED BY <1>1, <1>2, <1>3, <1>4, <1>5, <1>6, <1>7 DEF Next, Abstract!Next

-----------------------------------------------------------------------------
\* A scope on a CASLock is a lock: for every set of threads and every order of
\* constructor, Lock, Unlock and destructor calls, one thread is inside at a time
\* and the flag is cleared only by the thread that set it.
THEOREM ScopesImplementLock == Spec => ImplementsLock
<1>1. Init => Abstract!Init
  BY DEF Init, Abstract!Init, Holders
<1>2. Spec => []Inv
  BY InitInv, NextInv, PTL DEF Spec
<1> QED BY <1>1, <1>2, StepRefines, PTL DEF Spec, ImplementsLock, Abstract!Spec
=============================================================================
