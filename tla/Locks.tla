------------------------------- MODULE Locks -------------------------------
(***************************************************************************)
(* ScopeLockImpl on a CASLock (mutex.hh).  Each thread constructs a scope, *)
(* may call its Lock and Unlock any number of times, and destroys it, over *)
(* and over.  Mutex and SpinLock, whose Lock and Unlock are the pthread    *)
(* calls, behave as CASLock does here: an attempt that fails is repeated.  *)
(***************************************************************************)
CONSTANT Threads

VARIABLES
    mu,         \* the atomic_flag: TRUE when set
    pc,         \* what each thread is in: "none" (no scope), "scope" (between
                \* calls), or the middle of a call
    is_locked,  \* is_locked_ of the thread's scope
    ends        \* Unlock was called by the destructor

vars == <<mu, pc, is_locked, ends>>

TypeOK ==
    /\ mu \in BOOLEAN
    /\ pc \in [Threads -> {"none", "scope", "spin", "taken", "cleared"}]
    /\ is_locked \in [Threads -> BOOLEAN]
    /\ ends \in [Threads -> BOOLEAN]

Init ==
    /\ mu = FALSE
    /\ pc = [t \in Threads |-> "none"]
    /\ is_locked = [t \in Threads |-> FALSE]
    /\ ends = [t \in Threads |-> FALSE]

Goto(t, l) == pc' = [pc EXCEPT ![t] = l]

\* The constructor calls mu_.Lock() unconditionally.
Construct(t) ==
    /\ pc[t] = "none"
    /\ Goto(t, "spin")
    /\ ends' = [ends EXCEPT ![t] = FALSE]
    /\ UNCHANGED <<mu, is_locked>>

\* Lock and Unlock of the scope do nothing when is_locked_ says so.
CallLock(t) ==
    /\ pc[t] = "scope" /\ ~is_locked[t]
    /\ Goto(t, "spin")
    /\ UNCHANGED <<mu, is_locked, ends>>

\* CASLock::Lock: test and set, until the flag was clear before.
TestAndSet(t) ==
    /\ pc[t] = "spin"
    /\ mu' = TRUE
    /\ IF mu THEN UNCHANGED pc ELSE Goto(t, "taken")
    /\ UNCHANGED <<is_locked, ends>>

SetLocked(t) ==
    /\ pc[t] = "taken"
    /\ is_locked' = [is_locked EXCEPT ![t] = TRUE]
    /\ Goto(t, "scope")
    /\ UNCHANGED <<mu, ends>>

\* Mutant: the lock is cleared whether the scope holds it or not.
UnlockAlways(t, destructor) ==
    /\ pc[t] = "scope"
    /\ mu' = FALSE
    /\ Goto(t, "cleared")
    /\ ends' = [ends EXCEPT ![t] = destructor]
    /\ UNCHANGED is_locked

\* Unlock, called by the program or by the destructor: CASLock::Unlock first.
Unlock(t, destructor) ==
    /\ pc[t] = "scope"
    /\ IF is_locked[t] THEN mu' = FALSE /\ Goto(t, "cleared")
       ELSE destructor /\ Goto(t, "none") /\ UNCHANGED mu
    /\ ends' = [ends EXCEPT ![t] = destructor]
    /\ UNCHANGED is_locked

ClearLocked(t) ==
    /\ pc[t] = "cleared"
    /\ is_locked' = [is_locked EXCEPT ![t] = FALSE]
    /\ Goto(t, IF ends[t] THEN "none" ELSE "scope")
    /\ UNCHANGED <<mu, ends>>

Next ==
    \E t \in Threads :
      \/ Construct(t)
      \/ CallLock(t)
      \/ TestAndSet(t)
      \/ SetLocked(t)
      \/ \E destructor \in BOOLEAN : Unlock(t, destructor)
      \/ ClearLocked(t)

Spec == Init /\ [][Next]_vars

-----------------------------------------------------------------------------
\* The threads that are between the test-and-set that took the lock and the
\* clear that gives it back: the flag is theirs even while is_locked_ is not yet
\* set, and no longer theirs while is_locked_ is still set.
Holders == {t \in Threads : pc[t] = "taken" \/ (pc[t] = "scope" /\ is_locked[t])}

Abstract == INSTANCE Lock WITH holders <- Holders

\* However scopes lock and unlock, one thread at a time is inside, and the flag
\* is cleared by the thread that set it only: the destructor after an explicit
\* Unlock does not take the lock from the thread that has it by then.
ImplementsLock == Abstract!Spec
=============================================================================
