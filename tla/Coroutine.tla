----------------------------- MODULE Coroutine -----------------------------
(***************************************************************************)
(* The coroutine scheduler of one thread: class Schedule (the execute      *)
(* stack co_stack_, stack_top_, running_co_), class Coroutine (state,      *)
(* stack memory, saved frames) and struct SharedMem (a fixed array of      *)
(* stack buffers handed out round robin).  A thread runs one coroutine at  *)
(* a time and switches only inside Resume, Yield and the end of            *)
(* CoMainFunc, so each of those calls is one atomic step up to and         *)
(* including its swapcontext.                                              *)
(*                                                                         *)
(* Data abstraction: a stack buffer is described by the coroutine whose    *)
(* frames it holds, a saved copy by whether it is an up to date copy.      *)
(***************************************************************************)
EXTENDS Integers, Sequences, FiniteSets

CONSTANTS
    Co,         \* the coroutines the program creates
    Main,       \* the thread's main coroutine
    None,       \* the null pointer
    Count,      \* count_ of the SharedMem: how many stack buffers it has
    MaxDepth,   \* bound: the deepest co_stack_ the clients build
    Reentrant   \* TRUE: clients also resume a coroutine that is on co_stack_

ASSUME ConstantsAssumption ==
    /\ Main \notin Co
    /\ None \notin Co \cup {Main}
    /\ Count \in Nat \ {0}
    /\ MaxDepth \in Nat
    /\ Reentrant \in BOOLEAN

VARIABLES
    co_state,    \* Coroutine::co_state_ ("UNBORN": not created yet)
    co_stack,    \* Schedule::co_stack_, bottom first
    stack_top,   \* Schedule::stack_top_
    running_co,  \* Schedule::running_co_
    stack_mem,   \* Coroutine::stack_mem_: index of a shared buffer, or Private
    idx,         \* SharedMem::idx_
    occupy_co,   \* StackMem::occupy_co_ of each shared buffer
    dummy,       \* whether Coroutine::dummy_ is set (it was switched out once)
    saved_stack, \* Coroutine::saved_stack_
    frames,      \* whose frames each shared buffer really holds
    fault        \* how the process ended, "none" while it runs

schedule == <<co_stack, stack_top, running_co>>
stacks   == <<occupy_co, dummy, saved_stack, frames>>
vars     == <<co_state, schedule, stack_mem, idx, stacks, fault>>

All     == Co \cup {Main}
Mem     == 0 .. (Count - 1)
Private == -1

States == {"UNBORN", "READY", "RUNNING", "TERMINAL"}

\* "stale": the coroutine has run since, or the copy was taken from a buffer
\* that did not hold its frames.
Copies == {"none", "fresh", "stale"}

\* "assert_ready", "assert_running": the two SYLAR_ASSERTs of Resume;
\* "bad_alloc": SaveStack computed a length from a null dummy_;
\* "exited": a finished context was entered again and its uc_link is null;
\* "clobbered": ResumeStack overwrote the frames it was executing on.
Faults == {"none", "assert_ready", "assert_running", "bad_alloc", "exited",
           "clobbered"}

GetInvokeDeepth == Len(co_stack)

OnStack(c) == \E i \in 1 .. Len(co_stack) : co_stack[i] = c

-----------------------------------------------------------------------------
(* The state after InitThreadSchedule and AllocSharedMem.                  *)

InitThreadSchedule ==
    /\ co_state = [c \in All |-> IF c = Main THEN "RUNNING" ELSE "UNBORN"]
    /\ co_stack = <<Main>>
    /\ stack_top = 1
    /\ running_co = Main

AllocSharedMem ==
    /\ idx = 0
    /\ occupy_co = [m \in Mem |-> None]
    /\ frames = [m \in Mem |-> None]

Init ==
    /\ InitThreadSchedule
    /\ AllocSharedMem
    /\ stack_mem = [c \in All |-> Private]
    /\ dummy = [c \in All |-> "null"]
    /\ saved_stack = [c \in All |-> "none"]
    /\ fault = "none"

-----------------------------------------------------------------------------
(* Switching stacks.                                                       *)

\* Mutant: SwapContext does not save the coroutine it displaces.
SaveStackForgotten(c) == saved_stack[c]

\* What saved_stack_ of c is worth after c->SaveStack().
SaveStack(c) == IF frames[stack_mem[c]] = c THEN "fresh" ELSE "stale"

\* Mutant: SwapContext does not copy the next coroutine's frames back.
ResumeStackForgotten(c) == IF dummy[c] = "null" THEN c ELSE frames[stack_mem[c]]

\* Whose frames c's buffer holds once c->ResumeStack() has copied saved_stack_
\* back to dummy_ and control is in c.  A coroutine that was never switched
\* out has nothing saved (a copy of 0 bytes) and starts on an empty stack.
ResumeStack(c) ==
    IF dummy[c] = "null" \/ saved_stack[c] = "fresh" THEN c
    ELSE IF saved_stack[c] = "stale" THEN None
    ELSE frames[stack_mem[c]]

\* The coroutine whose frames must leave next's buffer, or None.
Displaced(next) ==
    LET m == stack_mem[next]
    IN  IF m = Private \/ occupy_co[m] = next THEN None ELSE occupy_co[m]

\* The ways SwapContext(prev, next) can end.  prev's dummy_ is already set when
\* SaveStack looks at the displaced coroutine.  When prev executes on the very
\* buffer that ResumeStack fills, the copy may run over the frames of the
\* calls in progress: whether it does depends on the two stack depths.
SwapOutcomes(prev, next) ==
    LET d == Displaced(next)
        ends == IF d # None /\ d # prev /\ dummy[d] = "null" THEN "bad_alloc"
                ELSE IF co_state[next] = "TERMINAL" THEN "exited"
                ELSE "none"
        overrun == d # None /\ stack_mem[prev] = stack_mem[next]
                            /\ saved_stack[next] # "none"
    IN  IF overrun THEN {ends, "clobbered"} ELSE {ends}

\* Mutant: the stack top of prev is not recorded.
SwapContextNoDummy(prev, next) ==
    LET m == stack_mem[next]
    IN  /\ occupy_co' = IF m = Private THEN occupy_co
                        ELSE [occupy_co EXCEPT ![m] = next]
        /\ frames' = IF m = Private THEN frames
                     ELSE [frames EXCEPT ![m] = ResumeStack(next)]
        /\ fault' \in SwapOutcomes(prev, next)
        /\ UNCHANGED <<dummy, saved_stack>>

SwapContext(prev, next) ==
    LET m == stack_mem[next]
        d == Displaced(next)
    IN  /\ dummy' = [dummy EXCEPT ![prev] = "set"]
        /\ occupy_co' = IF m = Private THEN occupy_co
                        ELSE [occupy_co EXCEPT ![m] = next]
        /\ saved_stack' =
             [c \in All |-> IF c = d THEN SaveStack(c)
                            ELSE IF c = next /\ saved_stack[c] = "fresh"
                                 THEN "stale"
                            ELSE saved_stack[c]]
        /\ frames' =
             IF m = Private THEN frames
             ELSE [frames EXCEPT ![m] =
                     IF d # None \/ dummy[next] = "null"
                     THEN ResumeStack(next) ELSE @]
        /\ fault' \in SwapOutcomes(prev, next)

-----------------------------------------------------------------------------
(* The operations.  Each is called by the running coroutine.               *)

\* Mutant: an index one past the array.
GetStackMemPastEnd == idx % (Count + 1)

\* SharedMem::GetStackMem: the next buffer, round robin.
GetStackMem == idx % Count

\* CreateCoroutine with an attr that does (shared) or does not carry a
\* shared_mem_.
CreateCoroutine(c, shared) ==
    /\ co_state[c] = "UNBORN"
    /\ co_state' = [co_state EXCEPT ![c] = "READY"]
    /\ stack_mem' = [stack_mem EXCEPT ![c] =
                       IF shared THEN GetStackMem ELSE Private]
    /\ idx' = IF shared THEN idx + 1 ELSE idx
    /\ UNCHANGED <<schedule, stacks, fault>>

\* The early return for a finished coroutine.
ResumeTerminal(c) ==
    /\ co_state[c] = "TERMINAL"
    /\ UNCHANGED vars

\* One of the two assertions fails: the process aborts.
ResumeAssert(c) ==
    /\ co_state[c] # "TERMINAL"
    /\ \/ /\ co_state[c] # "READY"
          /\ fault' = "assert_ready"
       \/ /\ co_state[c] = "READY"
          /\ co_state[running_co] # "RUNNING"
          /\ fault' = "assert_running"
    /\ UNCHANGED <<co_state, schedule, stack_mem, idx, stacks>>

\* Mutant: main is not exempted.
ResumeStatesMainToo(c) == [co_state EXCEPT ![running_co] = "READY", ![c] = "RUNNING"]

\* The states Resume leaves: the caller becomes READY unless it is main.
ResumeStates(c) ==
    [co_state EXCEPT ![running_co] = IF Len(co_stack) > 1 THEN "READY" ELSE @,
                     ![c] = "RUNNING"]

ResumeSwap(c) ==
    /\ co_state[c] = "READY"
    /\ co_state[running_co] = "RUNNING"
    /\ co_state' = ResumeStates(c)
    /\ co_stack' = Append(co_stack, c)
    /\ stack_top' = stack_top + 1
    /\ running_co' = c
    /\ SwapContext(running_co, c)
    /\ UNCHANGED <<stack_mem, idx>>

\* The calls clients make: see MaxDepth and Reentrant.
MayResume(c) ==
    /\ co_state[c] # "UNBORN"
    /\ Len(co_stack) < MaxDepth
    /\ Reentrant \/ ~OnStack(c)

Resume(c) ==
    /\ MayResume(c)
    /\ ResumeTerminal(c) \/ ResumeAssert(c) \/ ResumeSwap(c)

\* Yield on the main coroutine throws std::runtime_error.
YieldThrow ==
    /\ Len(co_stack) < 2
    /\ UNCHANGED vars

\* Mutant: the coroutine that yields stays RUNNING.
YieldStatesPendingOnly(running, pending) == [co_state EXCEPT ![pending] = "RUNNING"]

\* The states Yield leaves.
YieldStates(running, pending) ==
    [co_state EXCEPT ![running] = "READY", ![pending] = "RUNNING"]

\* Mutant: control goes back to main, whoever resumed the coroutine.
PopToBottom(pending) ==
    /\ co_stack' = SubSeq(co_stack, 1, Len(co_stack) - 1)
    /\ stack_top' = stack_top - 1
    /\ running_co' = Main

\* Popping co_stack_ and going back to the coroutine below.
PopTo(pending) ==
    /\ co_stack' = SubSeq(co_stack, 1, Len(co_stack) - 1)
    /\ stack_top' = stack_top - 1
    /\ running_co' = pending

YieldSwap ==
    /\ Len(co_stack) >= 2
    /\ LET running == co_stack[stack_top]
           pending == co_stack[stack_top - 1]
       IN  /\ PopTo(pending)
           /\ co_state' = YieldStates(running, pending)
           /\ SwapContext(running, pending)
    /\ UNCHANGED <<stack_mem, idx>>

Yield == YieldThrow \/ YieldSwap

\* The states CoMainFunc leaves when func_ has returned: the coroutine below
\* keeps the state it had.
TerminalStates(running, pending) == [co_state EXCEPT ![running] = "TERMINAL"]

\* The body of the running coroutine has returned to CoMainFunc.
CoMainFunc ==
    /\ running_co # Main
    /\ LET running == co_stack[stack_top]
           pending == co_stack[stack_top - 1]
       IN  /\ co_state' = TerminalStates(running, pending)
           /\ PopTo(pending)
           /\ SwapContext(running, pending)
    /\ UNCHANGED <<stack_mem, idx>>

Next ==
    /\ fault = "none"
    /\ \/ \E c \in Co, shared \in BOOLEAN : CreateCoroutine(c, shared)
       \/ \E c \in All : Resume(c)
       \/ Yield
       \/ CoMainFunc

Spec == Init /\ [][Next]_vars

-----------------------------------------------------------------------------
(* Properties.                                                             *)

TypeOK ==
    /\ co_state \in [All -> States]
    /\ co_stack \in Seq(All)
    /\ stack_top \in Nat
    /\ running_co \in All
    /\ stack_mem \in [All -> Mem \cup {Private}]
    /\ idx \in Nat
    /\ occupy_co \in [Mem -> Co \cup {None}]
    /\ dummy \in [All -> {"null", "set"}]
    /\ saved_stack \in [All -> Copies]
    /\ frames \in [Mem -> Co \cup {None}]
    /\ fault \in Faults

\* The execute stack is well formed whatever the clients do: main is at the
\* bottom and nowhere else ("main coroutine always in stack buttom",
\* coroutine.hh:152), stack_top_ and running_co_ agree with it, and main is
\* RUNNING for ever, which is what makes resuming main an assertion failure.
StackShape ==
    /\ Len(co_stack) >= 1
    /\ \A i \in 1 .. Len(co_stack) : co_stack[i] = Main <=> i = 1
    /\ stack_top = Len(co_stack)
    /\ running_co = co_stack[Len(co_stack)]
    /\ co_state[Main] = "RUNNING"

\* A coroutine other than main is RUNNING only while it is the one that
\* executes: Resume and Yield never leave two of them RUNNING.
OnlyTopIsRunning ==
    \A c \in Co : co_state[c] = "RUNNING" => c = running_co

\* Shared stacks lose no frames: the running coroutine executes on its own
\* frames, and every suspended coroutine that has started can get its frames
\* back, from its buffer or from an up to date copy.
FramesPreserved ==
    fault = "none" =>
      \A c \in Co :
        stack_mem[c] # Private /\ (dummy[c] = "set" \/ c = running_co) =>
          \/ frames[stack_mem[c]] = c /\ occupy_co[stack_mem[c]] = c
          \/ c # running_co /\ saved_stack[c] = "fresh"

\* The branch of SaveStack for a null dummy_ (coroutine.cc:145) is never taken,
\* so the length computed after it is never garbage: the coroutine that
\* occupies a buffer is the one switching out or has been switched out before.
SaveStackHasDummy == fault # "bad_alloc"

\* A switch to or from the main coroutine never goes wrong, whatever nesting
\* came before it.  Clients that resume from main only (as Eventloop does) make
\* no other switches, so they never meet a fault on private or shared stacks.
FlatStepsNeverFault ==
    [][running_co = Main \/ running_co' = Main => fault' = "none"]_vars
=============================================================================
