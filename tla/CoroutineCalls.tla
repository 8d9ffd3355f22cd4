-------------------------- MODULE CoroutineCalls --------------------------
(***************************************************************************)
(* What the coroutine component promises its clients: asymmetric           *)
(* coroutines with call and return.  Resuming a suspended coroutine is a   *)
(* call, Yield returns to the caller and leaves the callee suspended, the  *)
(* end of the body returns to the caller and kills the callee.  Each       *)
(* coroutine remembers its caller; there is no stack, no context and no    *)
(* stack memory here.                                                      *)
(***************************************************************************)
CONSTANTS Co, Main, None

VARIABLES
    phase,   \* what each coroutine is doing
    caller,  \* who resumed it, for the coroutines in the middle of a call
    current  \* who executes

vars == <<phase, caller, current>>

All    == Co \cup {Main}
Phases == {"unborn", "suspended", "normal", "running", "dead"}

Init ==
    /\ phase = [c \in All |-> IF c = Main THEN "running" ELSE "unborn"]
    /\ caller = [c \in All |-> None]
    /\ current = Main

Create(c) ==
    /\ phase[c] = "unborn"
    /\ phase' = [phase EXCEPT ![c] = "suspended"]
    /\ UNCHANGED <<caller, current>>

Call(c) ==
    /\ phase[c] = "suspended"
    /\ phase' = [phase EXCEPT ![current] = "normal", ![c] = "running"]
    /\ caller' = [caller EXCEPT ![c] = current]
    /\ current' = c

\* Control goes back to the caller; what is left of the callee is its phase.
Return(left) ==
    /\ current # Main
    /\ phase' = [phase EXCEPT ![current] = left, ![caller[current]] = "running"]
    /\ caller' = [caller EXCEPT ![current] = None]
    /\ current' = caller[current]

Next ==
    \/ \E c \in Co : Create(c) \/ Call(c)
    \/ Return("suspended")
    \/ Return("dead")

Spec == Init /\ [][Next]_vars
=============================================================================
