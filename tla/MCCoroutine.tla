---------------------------- MODULE MCCoroutine ----------------------------
(***************************************************************************)
(* TLC instances of Coroutine, and the refinement of CoroutineCalls.       *)
(***************************************************************************)
EXTENDS Coroutine

\* The refinement mapping: the caller of a coroutine is the one below it on
\* co_stack_, and READY means suspended only for a coroutine that is not on it.
PhaseOf(c) ==
    CASE co_state[c] = "UNBORN"   -> "unborn"
      [] co_state[c] = "TERMINAL" -> "dead"
      [] c = running_co           -> "running"
      [] c # running_co /\ co_state[c] \in {"READY", "RUNNING"} /\ OnStack(c)
                                  -> "normal"
      [] OTHER                    -> "suspended"

CallerOf(c) ==
    IF c # Main /\ OnStack(c)
    THEN co_stack[(CHOOSE i \in 1 .. Len(co_stack) : co_stack[i] = c) - 1]
    ELSE None

Calls == INSTANCE CoroutineCalls
           WITH phase   <- [c \in All |-> PhaseOf(c)],
                caller  <- [c \in All |-> CallerOf(c)],
                current <- running_co

\* Resume, Yield and CoMainFunc implement call and return for clients that do
\* not resume a coroutine that is in the middle of a call, nested or not.
ImplementsCalls == Calls!Spec
=============================================================================
