-------------------------- MODULE EventLoopProofs --------------------------
(***************************************************************************)
(* Eventloop and the hooked calls, for any coroutines, descriptors and     *)
(* bounds.  When every descriptor has one user, no wake-up is lost, a      *)
(* sleep is cut short only by the sleeper's own descriptors, and the loop  *)
(* dies only of what main has done before it.                              *)
(***************************************************************************)
EXTENDS EventLoop, SequenceTheorems, TLAPS

\* The thread is in main, or in one coroutine that main resumed; everything
\* runs on private stacks.
Flat ==
    /\ C!TypeOK
    /\ \A c \in All : stack_mem[c] = C!Private
    /\ co_state[Main] = "RUNNING"
    /\ \/ running_co = Main /\ co_stack = <<Main>> /\ stack_top = 1
       \/ /\ running_co \in Co /\ co_stack = <<Main, running_co>> /\ stack_top = 2
          /\ co_state[running_co] = "RUNNING"
    /\ \A c \in Co : co_state[c] = "RUNNING" => c = running_co

\* A call that has failed with EAGAIN, or waits, knows its descriptor; so does
\* the handler of an event.  What is due is pending.
Typed ==
    /\ \A c \in All : op[c].kind \in {"again", "io"} =>
                        op[c].fd \in Fds /\ op[c].dir \in E!Dir
    /\ phase = "handle" => cur.fd \in Fds
    /\ \A c \in All : due[c] <= timers[c]

Base == TypeOK /\ Flat /\ Typed

-----------------------------------------------------------------------------
(* Each descriptor has one user, which may use it in both directions; a    *)
(* coroutine that closes has no other descriptor; main does not block.     *)

Own ==
    /\ Registers = {} /\ Main \notin Sleepers
    /\ \A u \in Uses : u[1] # Main
    /\ \A u, v \in Uses : u[2] = v[2] => u[1] = v[1]
    /\ \A x \in Closes, u \in Uses : u[1] = x[1] <=> u[2] = x[2]

\* The table holds the users of the descriptors, and the kernel what it holds.
Registrations ==
    \A fd \in Fds :
       /\ interest[fd] = reg_event[fd].type /\ data[fd] = "fd"
       /\ reg_event[fd].func = {}
       /\ \A d \in E!Dir :
            IF d \in reg_event[fd].type THEN <<reg_event[fd].co[d], fd, d>> \in Uses
            ELSE reg_event[fd].co[d] = None

\* A call that is about to register has missed nothing the kernel does not
\* know of; a coroutine inside a call is READY unless it is the one that runs.
CallsInv ==
    /\ op[Main].kind = "none" /\ timers[Main] = 0
    /\ \A c \in Co :
         /\ op[c].kind \in {"again", "io"} => <<c, op[c].fd, op[c].dir>> \in Uses
         /\ op[c].kind = "again" =>
              /\ running_co = c
              /\ op[c].dir \in ready[op[c].fd] /\ op[c].dir \in interest[op[c].fd]
                   => op[c].fd \in rdlist
         /\ op[c].kind # "none" /\ running_co # c =>
              co_state[c] = "READY" /\ dummy[c] = "set"

\* The event is on its way to the handler.
Coming(fd, d) ==
    \/ fd \in rdlist
    \/ \E e \in batch : e.fd = fd /\ d \in e.mask
    \/ cur.fd = fd /\ d \in cur.left

Waiting ==
    \A c \in Co : op[c].kind = "io" /\ running_co # c =>
       /\ op[c].dir \in reg_event[op[c].fd].type
       /\ op[c].dir \in ready[op[c].fd] => Coming(op[c].fd, op[c].dir)

\* The events of a round: each descriptor once, all still registered, because
\* what runs during the round can only close the descriptor being handled.
Round ==
    /\ batch # {} => phase \in {"batch", "handle"}
    /\ phase # "handle" => cur = NoEvent
    /\ \A e \in batch : e.data = "fd" /\ E!Registered(e.fd) /\ e.fd # cur.fd
    /\ \A e, f \in batch : e.fd = f.fd => e = f
    /\ held.func = {}
    /\ \A d \in E!Dir : held.co[d] # None => <<held.co[d], cur.fd, d>> \in Uses
    /\ running_co # Main =>
         /\ phase \in {"setup", "handle", "timers"}
         /\ phase = "handle" => \E d \in E!Dir : <<running_co, cur.fd, d>> \in Uses

OInv == Base /\ Alive /\ Registrations /\ CallsInv /\ Waiting /\ Round

-----------------------------------------------------------------------------
(* Sleeping.                                                               *)

\* An event of a descriptor of its own has once resumed the coroutine in a sleep.
WasCut(c) == \E fd \in Fds, d \in E!Dir : <<c, fd, d>> \in cut \cap Named

\* A coroutine that was never cut short has no timer but that of the sleep it
\* is in.
SInv ==
    \A c \in Co :
       \/ WasCut(c) \/ timers[c] = 0
       \/ timers[c] = 1 /\ op[c].kind = "sleep" /\ running_co # c

-----------------------------------------------------------------------------
(* The scheduler, used from main only and with private stacks.             *)

\* The scheduler's coroutines are the loop's, and Main and None are apart.
LEMMA AllIsAll == C!All = All /\ Main \in All /\ Co \subseteq All /\ Main \notin Co
                  /\ None \notin All /\ None \notin Fds
BY LoopAssumption DEF C!All, All

\* Pushing a coroutine on main's stack, and popping it.
LEMMA PushPop ==
    ASSUME NEW c \in All
    PROVE  Append(<<Main>>, c) = <<Main, c>> /\ SubSeq(<<Main, c>>, 1, 1) = <<Main>>
<1>1. <<Main>> \in Seq(All) /\ Len(<<Main>>) = 1 /\ <<Main>>[1] = Main
  BY AllIsAll
<1>2. <<Main, c>> \in Seq(All) /\ Len(<<Main, c>>) = 2 /\ <<Main, c>>[1] = Main
      /\ <<Main, c>>[2] = c
  BY AllIsAll
<1> DEFINE one == <<Main>>
           two == <<Main, c>>
           app == Append(one, c)
           sub == SubSeq(two, 1, 1)
<1>3. app \in Seq(All) /\ Len(app) = 2 /\ app[1] = Main /\ app[2] = c
  <2>1. /\ app \in Seq(All) /\ Len(app) = Len(one) + 1
        /\ \A i \in 1 .. Len(one) : app[i] = one[i]
        /\ app[Len(one) + 1] = c
    BY <1>1, AppendProperties
  <2> HIDE DEF app
  <2> QED
    BY <1>1, <2>1
<1>4. sub \in Seq(All) /\ Len(sub) = 1 /\ sub[1] = Main
  <2>1. \A i \in 1 .. 1 : two[i] \in All
    BY <1>2, AllIsAll
  <2>2. /\ sub \in Seq(All) /\ Len(sub) = IF 1 <= 1 THEN 1 - 1 + 1 ELSE 0
        /\ \A i \in 1 .. 1 - 1 + 1 : sub[i] = two[1 + i - 1]
    <3> HIDE DEF two
    <3> QED
      BY <2>1, SubSeqProperties
  <2> HIDE DEF sub
  <2> QED
    BY <1>2, <2>2
<1> HIDE DEF one, two, app, sub
<1>5. app = two
  <2>1. two \in Seq(All) /\ Len(two) = 2 /\ two[1] = Main /\ two[2] = c
    BY <1>2 DEF two
  <2>2. \A i \in 1 .. Len(app) : app[i] = two[i]
    BY <1>3, <2>1
  <2> QED
    BY <1>3, <2>1, <2>2, SeqEqual
<1>6. sub = one
  <2>1. one \in Seq(All) /\ Len(one) = 1 /\ one[1] = Main
    BY <1>1 DEF one
  <2>2. \A i \in 1 .. Len(sub) : sub[i] = one[i]
    BY <1>4, <2>1
  <2> QED
    BY <1>4, <2>1, <2>2, SeqEqual
<1> QED
  BY <1>5, <1>6 DEF app, sub, one, two

\* SwapContext between private stacks saves and copies nothing.
LEMMA PrivateSwap ==
    ASSUME Flat, NEW prev \in All, NEW next \in All, C!SwapContext(prev, next)
    PROVE  /\ dummy' = [dummy EXCEPT ![prev] = "set"]
           /\ occupy_co' = occupy_co /\ frames' = frames
           /\ saved_stack' \in [All -> C!Copies]
           /\ fault' = IF co_state[next] = "TERMINAL" THEN "exited" ELSE "none"
<1>1. stack_mem[next] = C!Private /\ C!Displaced(next) = None
  BY DEF Flat, C!Displaced
<1>2. /\ dummy' = [dummy EXCEPT ![prev] = "set"]
      /\ occupy_co' = occupy_co /\ frames' = frames
  BY <1>1, Zenon DEF C!SwapContext
<1>3. saved_stack' = [c \in C!All |-> IF c = None THEN C!SaveStack(c)
                                      ELSE IF c = next /\ saved_stack[c] = "fresh"
                                           THEN "stale"
                                      ELSE saved_stack[c]]
  BY <1>1, Zenon DEF C!SwapContext
<1>4. saved_stack' \in [All -> C!Copies]
  BY <1>3, AllIsAll DEF Flat, C!TypeOK, C!Copies
<1>5. C!SwapOutcomes(prev, next) =
         {IF co_state[next] = "TERMINAL" THEN "exited" ELSE "none"}
  BY <1>1, Zenon DEF C!SwapOutcomes
<1>6. fault' \in C!SwapOutcomes(prev, next)
  BY Zenon DEF C!SwapContext
<1> QED
  BY <1>2, <1>4, <1>5, <1>6

\* What a resume from main leaves.
Entered(c) ==
    /\ co_state' = [co_state EXCEPT ![c] = "RUNNING"]
    /\ running_co' = c
    /\ dummy' = [dummy EXCEPT ![Main] = "set"]
    /\ fault' = "none"

\* What yield and the end of a coroutine leave.
Left(c, state) ==
    /\ co_state' = [co_state EXCEPT ![c] = state]
    /\ running_co' = Main
    /\ dummy' = [dummy EXCEPT ![c] = "set"]
    /\ fault' = "none"

\* The scheduler's types in a flat state.
LEMMA FlatTypes ==
    ASSUME Flat
    PROVE  /\ co_state \in [All -> C!States] /\ dummy \in [All -> {"null", "set"}]
           /\ stack_mem \in [All -> C!Mem \cup {C!Private}]
           /\ running_co \in All
BY AllIsAll DEF Flat, C!TypeOK

\* Flat of the next state, from what its parts are.
LEMMA FlatFrom ==
    ASSUME Flat, stack_mem' = stack_mem, idx' = idx, occupy_co' = occupy_co,
           frames' = frames, saved_stack' \in [All -> C!Copies],
           dummy' \in [All -> {"null", "set"}], co_state' \in [All -> C!States],
           fault' \in C!Faults, co_state'[Main] = "RUNNING",
           \/ running_co' = Main /\ co_stack' = <<Main>> /\ stack_top' = 1
           \/ /\ running_co' \in Co /\ co_stack' = <<Main, running_co'>>
              /\ stack_top' = 2 /\ co_state'[running_co'] = "RUNNING",
           \A c \in Co : co_state'[c] = "RUNNING" => c = running_co'
    PROVE  Flat'
<1>1. co_stack' \in Seq(All) /\ stack_top' \in Nat /\ running_co' \in All
  <2>1. CASE running_co' = Main /\ co_stack' = <<Main>> /\ stack_top' = 1
    BY <2>1, AllIsAll
  <2>2. CASE running_co' \in Co /\ co_stack' = <<Main, running_co'>> /\ stack_top' = 2
    <3>1. PICK c \in All : c = running_co'
      BY <2>2, AllIsAll
    <3>2. <<Main, c>> \in Seq(All)
      BY AllIsAll
    <3> QED
      BY <2>2, <3>1, <3>2
  <2> QED
    BY <2>1, <2>2
<1>2. C!TypeOK'
  BY <1>1, AllIsAll DEF Flat, C!TypeOK
<1> QED
  BY <1>2 DEF Flat

\* Steps that leave the scheduler alone keep it flat.
LEMMA FlatUnchanged == Flat /\ UNCHANGED sched => Flat'
BY DEF Flat, sched, C!TypeOK

\* Resume from main enters a READY coroutine.
LEMMA ResumeSwapFlat ==
    ASSUME Flat, running_co = Main, NEW c \in All, C!ResumeSwap(c)
    PROVE  Flat' /\ c \in Co /\ co_state[c] = "READY" /\ Entered(c)
<1>1. co_stack = <<Main>> /\ stack_top = 1 /\ Len(co_stack) = 1
  BY LoopAssumption DEF Flat
<1>2. co_state[c] = "READY" /\ c # Main /\ c \in Co
  BY AllIsAll DEF C!ResumeSwap, Flat, All
<1>3. /\ co_state' = [co_state EXCEPT ![c] = "RUNNING"]
      /\ co_stack' = <<Main, c>> /\ stack_top' = 2 /\ running_co' = c
      /\ UNCHANGED <<stack_mem, idx>>
  <2>1. co_state' = C!ResumeStates(c)
    BY DEF C!ResumeSwap
  <2>2. co_state' = [[co_state EXCEPT ![Main] = co_state[Main]] EXCEPT ![c] = "RUNNING"]
    BY <1>1, <2>1 DEF C!ResumeStates
  <2>3. [co_state EXCEPT ![Main] = co_state[Main]] = co_state
    BY AllIsAll, FlatTypes
  <2>4. co_stack' = Append(<<Main>>, c) /\ stack_top' = 2
    BY <1>1 DEF C!ResumeSwap
  <2>5. co_stack' = <<Main, c>>
    BY <2>4, PushPop
  <2> QED
    BY <2>2, <2>3, <2>4, <2>5 DEF C!ResumeSwap
<1>4. C!SwapContext(Main, c)
  BY DEF C!ResumeSwap
<1>5. /\ dummy' = [dummy EXCEPT ![Main] = "set"] /\ occupy_co' = occupy_co
      /\ frames' = frames /\ saved_stack' \in [All -> C!Copies] /\ fault' = "none"
  BY <1>2, <1>4, PrivateSwap, AllIsAll
<1>6. /\ co_state' \in [All -> C!States] /\ co_state'[Main] = "RUNNING"
      /\ co_state'[c] = "RUNNING"
      /\ \A x \in Co : co_state'[x] = "RUNNING" => x = c
  <2>1. \A x \in Co : co_state[x] # "RUNNING"
    BY AllIsAll DEF Flat
  <2> QED
    BY <1>2, <1>3, <2>1, FlatTypes, AllIsAll DEF C!States, Flat
<1>7. dummy' \in [All -> {"null", "set"}] /\ fault' \in C!Faults
  BY <1>5, FlatTypes DEF C!Faults
<1>8. Flat'
  BY <1>2, <1>3, <1>5, <1>6, <1>7, FlatFrom
<1> QED
  BY <1>2, <1>3, <1>5, <1>8 DEF Entered

\* Yield, and the end of the coroutine, go back to main.
LEMMA PopFlat ==
    ASSUME Flat, NEW c \in Co, running_co = c, NEW state \in {"READY", "TERMINAL"},
           C!PopTo(co_stack[stack_top - 1]),
           C!SwapContext(co_stack[stack_top], co_stack[stack_top - 1]),
           co_state' = [co_state EXCEPT ![c] = state], UNCHANGED <<stack_mem, idx>>
    PROVE  Flat' /\ Left(c, state)
<1>1. co_stack = <<Main, c>> /\ stack_top = 2 /\ c # Main
  BY AllIsAll DEF Flat
<1>2. co_stack[stack_top] = c /\ co_stack[stack_top - 1] = Main /\ Len(co_stack) = 2
  BY <1>1
<1>3. co_stack' = <<Main>> /\ stack_top' = 1 /\ running_co' = Main
  <2>1. co_stack' = SubSeq(<<Main, c>>, 1, 1)
    BY <1>1, <1>2 DEF C!PopTo
  <2>2. SubSeq(<<Main, c>>, 1, 1) = <<Main>>
    BY PushPop, AllIsAll
  <2> QED
    BY <1>1, <1>2, <2>1, <2>2 DEF C!PopTo
<1>4. /\ dummy' = [dummy EXCEPT ![c] = "set"] /\ occupy_co' = occupy_co
      /\ frames' = frames /\ saved_stack' \in [All -> C!Copies] /\ fault' = "none"
  <2>1. C!SwapContext(c, Main) /\ co_state[Main] # "TERMINAL"
    BY <1>2 DEF Flat
  <2> QED
    BY <2>1, PrivateSwap, AllIsAll
<1>5. /\ co_state' \in [All -> C!States] /\ co_state'[Main] = "RUNNING"
      /\ \A x \in Co : co_state'[x] # "RUNNING"
  BY <1>1, FlatTypes, AllIsAll DEF C!States, Flat
<1>6. dummy' \in [All -> {"null", "set"}] /\ fault' \in C!Faults
  BY <1>4, FlatTypes DEF C!Faults
<1>7. Flat'
  BY <1>3, <1>4, <1>5, <1>6, FlatFrom
<1> QED
  BY <1>3, <1>4, <1>7 DEF Left

\* Yield returns from it to main and leaves it READY.
LEMMA YieldSwapFlat ==
    ASSUME Flat, NEW c \in Co, running_co = c, C!YieldSwap
    PROVE  Flat' /\ Left(c, "READY")
<1>1. co_stack = <<Main, c>> /\ stack_top = 2 /\ c # Main
  BY AllIsAll DEF Flat
<1>2. co_stack[stack_top] = c /\ co_stack[stack_top - 1] = Main
  BY <1>1
<1>3. co_state' = [co_state EXCEPT ![c] = "READY"]
  <2>1. co_state' = [[co_state EXCEPT ![c] = "READY"] EXCEPT ![Main] = "RUNNING"]
    BY <1>2 DEF C!YieldSwap, C!YieldStates
  <2> QED
    BY <1>1, <2>1, FlatTypes, AllIsAll DEF Flat
<1>4. /\ C!PopTo(co_stack[stack_top - 1]) /\ UNCHANGED <<stack_mem, idx>>
      /\ C!SwapContext(co_stack[stack_top], co_stack[stack_top - 1])
  BY Zenon DEF C!YieldSwap
<1> QED
  BY <1>3, <1>4, PopFlat

\* Its end returns to main and leaves it TERMINAL.
LEMMA CoMainFuncFlat ==
    ASSUME Flat, NEW c \in Co, running_co = c, C!CoMainFunc
    PROVE  Flat' /\ Left(c, "TERMINAL")
<1>1. co_stack = <<Main, c>> /\ stack_top = 2 /\ c # Main
  BY AllIsAll DEF Flat
<1>2. co_stack[stack_top] = c
  BY <1>1
<1>3. co_state' = [co_state EXCEPT ![c] = "TERMINAL"]
  BY <1>2 DEF C!CoMainFunc, C!TerminalStates
<1>4. /\ C!PopTo(co_stack[stack_top - 1]) /\ UNCHANGED <<stack_mem, idx>>
      /\ C!SwapContext(co_stack[stack_top], co_stack[stack_top - 1])
  BY Zenon DEF C!CoMainFunc
<1> QED
  BY <1>3, <1>4, PopFlat

\* CreateCoroutine adds a READY coroutine.
LEMMA CreateFlat ==
    ASSUME Flat, NEW c \in Co, C!CreateCoroutine(c, FALSE)
    PROVE  /\ Flat' /\ co_state[c] = "UNBORN"
           /\ co_state' = [co_state EXCEPT ![c] = "READY"]
           /\ UNCHANGED <<running_co, dummy, fault>>
<1>1. /\ co_state[c] = "UNBORN"
      /\ co_state' = [co_state EXCEPT ![c] = "READY"]
      /\ stack_mem' = [stack_mem EXCEPT ![c] = C!Private] /\ idx' = idx
      /\ UNCHANGED <<co_stack, stack_top, running_co, occupy_co, dummy, saved_stack,
                     frames, fault>>
  BY DEF C!CreateCoroutine, C!schedule, C!stacks
<1>2. stack_mem' = stack_mem
  BY <1>1, FlatTypes, AllIsAll DEF Flat
<1>3. co_state' \in [All -> C!States]
      /\ \A x \in All : co_state'[x] = "RUNNING" <=> co_state[x] = "RUNNING"
  BY <1>1, FlatTypes, AllIsAll DEF C!States
<1>4. Flat'
  <2>1. /\ saved_stack' \in [All -> C!Copies] /\ dummy' \in [All -> {"null", "set"}]
        /\ fault' \in C!Faults
    BY <1>1, AllIsAll DEF Flat, C!TypeOK
  <2>2. /\ co_state'[Main] = "RUNNING"
        /\ \A x \in Co : co_state'[x] = "RUNNING" => x = running_co'
    BY <1>1, <1>3, AllIsAll DEF Flat
  <2>3. \/ running_co' = Main /\ co_stack' = <<Main>> /\ stack_top' = 1
        \/ /\ running_co' \in Co /\ co_stack' = <<Main, running_co'>>
           /\ stack_top' = 2 /\ co_state'[running_co'] = "RUNNING"
    BY <1>1, <1>3, AllIsAll DEF Flat
  <2> QED
    BY <1>1, <1>2, <1>3, <2>1, <2>2, <2>3, FlatFrom
<1> QED
  BY <1>1, <1>4

\* Resume from main: of a finished coroutine nothing, of main itself or of one
\* that does not exist an assertion, else the switch.
LEMMA ResumeFlat ==
    ASSUME Flat, running_co = Main, NEW c \in All, C!Resume(c)
    PROVE  /\ Flat'
           /\ \/ UNCHANGED sched /\ co_state[c] = "TERMINAL"
              \/ c = Main /\ UNCHANGED <<co_state, running_co, dummy>>
              \/ c \in Co /\ co_state[c] = "READY" /\ Entered(c)
<1>1. C!ResumeTerminal(c) \/ C!ResumeAssert(c) \/ C!ResumeSwap(c)
  BY DEF C!Resume
<1>2. CASE C!ResumeTerminal(c)
  <2>1. UNCHANGED sched /\ co_state[c] = "TERMINAL"
    BY <1>2 DEF C!ResumeTerminal, C!vars, C!schedule, C!stacks, sched
  <2> QED
    BY <2>1, FlatUnchanged
<1>3. CASE C!ResumeAssert(c)
  <2>1. /\ UNCHANGED <<co_state, co_stack, stack_top, running_co, stack_mem, idx,
                       occupy_co, dummy, saved_stack, frames>>
        /\ fault' \in C!Faults
    BY <1>3 DEF C!ResumeAssert, C!schedule, C!stacks, C!Faults
  <2>2. Flat'
    BY <2>1 DEF Flat, C!TypeOK
  <2>3. c = Main
    BY <1>3, FlatTypes, AllIsAll DEF C!ResumeAssert, Flat, C!Resume, C!MayResume, C!States, All
  <2> QED
    BY <2>1, <2>2, <2>3
<1>4. CASE C!ResumeSwap(c)
  BY <1>4, ResumeSwapFlat
<1> QED
  BY <1>1, <1>2, <1>3, <1>4

-----------------------------------------------------------------------------
(* The types, and the shape of the stack, are kept by every step.          *)

Ops == [kind : {"none", "again", "io", "sleep"},
        fd : Fds \cup {None}, dir : E!Dir \cup {None}]

\* Base without the scheduler and the table.
LoopTypes ==
    /\ op \in [All -> Ops]
    /\ ops \in 0 .. MaxOps
    /\ timers \in [All -> 0 .. MaxTimers]
    /\ turns \in 0 .. MaxTurns /\ due \in [All -> 0 .. MaxTimers]
    /\ phase \in {"setup", "check", "wait", "batch", "handle", "timers", "done"}
    /\ batch \subseteq [fd : Fds, mask : SUBSET E!Dir, data : {"fd", "ptr"}]
    /\ cur \in [fd : Fds \cup {None}, left : SUBSET E!Dir]
    /\ held \in E!EventCtx
    /\ stop \in BOOLEAN
    /\ crash \in {"none", "null", "uncaught"}
    /\ cut \subseteq All \X Fds \X E!Dir
    /\ Typed

\* Base by component.
LEMMA BaseParts == Base <=> Flat /\ E!TypeOK /\ LoopTypes
BY DEF Base, TypeOK, LoopTypes, Flat, Ops

\* The same after the step.
LEMMA BasePartsNext == Base' <=> Flat' /\ E!TypeOK' /\ LoopTypes'
BY DEF Base, TypeOK, LoopTypes, Flat, Ops

\* The bounds are numbers.
LEMMA Bounds == /\ MaxOps \in Nat \ {0} /\ MaxTimers \in Nat \ {0} /\ MaxTurns \in Nat
                /\ 0 \in 0 .. MaxOps /\ 0 \in 0 .. MaxTimers /\ 0 \in 0 .. MaxTurns
BY LoopAssumption

\* Steps that leave Epoll's table alone keep its types.
LEMMA TableUnchanged == E!TypeOK /\ UNCHANGED table => E!TypeOK'
BY DEF E!TypeOK, table

\* The record for no call is a call.
LEMMA NoOpTyped == NoOp \in Ops
BY DEF NoOp, Ops

\* The empty registration is a registration.
LEMMA NoCtxTyped == E!NoCtx \in E!EventCtx
BY DEF E!NoCtx, E!EventCtx

\* RegisterEvent keeps the table's types.
LEMMA RegisterTypes ==
    ASSUME E!TypeOK, NEW type \in SUBSET E!Dir, NEW fd \in Fds, NEW func \in SUBSET E!Dir,
           NEW w \in [E!Dir -> All \cup {None}],
           E!RegisterEvent(type, fd, func, w), UNCHANGED <<open, ready>>
    PROVE  E!TypeOK'
<1>1. CASE UNCHANGED E!epoll
  BY <1>1 DEF E!TypeOK, E!epoll
<1>2. CASE /\ reg_event' = [reg_event EXCEPT ![fd] =
                              [type |-> type, func |-> func, co |-> w]]
           /\ E!EpollCtl(fd, type, "fd")
  <2>1. [type |-> type, func |-> func, co |-> w] \in E!EventCtx
    BY DEF E!EventCtx
  <2>2. reg_event' \in [Fds -> E!EventCtx]
    BY <1>2, <2>1 DEF E!TypeOK
  <2>3. /\ interest' \in [Fds -> SUBSET E!Dir] /\ data' \in [Fds -> {"fd", "ptr"}]
        /\ rdlist' \subseteq Fds
    BY <1>2 DEF E!EpollCtl, E!TypeOK
  <2> QED
    BY <2>2, <2>3 DEF E!TypeOK
<1> QED
  BY <1>1, <1>2 DEF E!RegisterEvent

\* CancelEvent makes a registration of a registration.
LEMMA CancelledTypes ==
    ASSUME NEW ctx \in E!EventCtx, NEW type \in SUBSET E!Dir
    PROVE  E!Cancelled(ctx, type) \in E!EventCtx
<1>1. [ctx EXCEPT !.type = @ \ type] \in E!EventCtx
  BY DEF E!EventCtx
<1> QED
  BY <1>1, NoCtxTyped DEF E!Cancelled

\* close with its CancelEvent keeps the table's types.
LEMMA CloseTypes ==
    ASSUME E!TypeOK, NEW fd \in Fds, E!CancelAndClose(fd)
    PROVE  E!TypeOK'
<1> DEFINE new == E!Cancelled(E!Cancelled(reg_event[fd], {"IN"}), {"OUT"})
<1>1. new \in E!EventCtx
  <2>1. reg_event[fd] \in E!EventCtx /\ {"IN"} \in SUBSET E!Dir /\ {"OUT"} \in SUBSET E!Dir
    BY DEF E!TypeOK, E!Dir
  <2> QED
    BY <2>1, CancelledTypes
<1>2. reg_event' = [reg_event EXCEPT ![fd] = new]
  BY DEF E!CancelAndClose
<1> HIDE DEF new
<1>3. reg_event' \in [Fds -> E!EventCtx]
  BY <1>1, <1>2 DEF E!TypeOK
<1> QED
  BY <1>3 DEF E!CancelAndClose, E!EpollDel, E!TypeOK

\* A coroutine leaves its call, or tries again.
LEMMA AttemptBase ==
    ASSUME Base, NEW c \in All, NEW fd \in Fds, NEW d \in E!Dir, Attempt(c, fd, d),
           ops' \in 0 .. MaxOps
    PROVE  Base'
<1>1. Flat /\ E!TypeOK /\ LoopTypes
  BY BaseParts
<1>2. UNCHANGED <<sched, etab, open, timers, loop, stop, crash, cut>>
  BY Zenon DEF Attempt
<1>3. Flat'
  BY <1>1, <1>2, FlatUnchanged
<1>4. ready' = ready \/ ready' = [ready EXCEPT ![fd] = @ \ {d}]
  BY DEF Attempt
<1>5. E!TypeOK'
  BY <1>1, <1>2, <1>4 DEF E!TypeOK, etab
<1>6. PICK o \in Ops : /\ op' = [op EXCEPT ![c] = o]
                       /\ o.kind \in {"again", "io"} => o.fd \in Fds /\ o.dir \in E!Dir
  <2>1. [kind |-> "again", fd |-> fd, dir |-> d] \in Ops
    BY DEF Ops
  <2> QED
    BY <2>1, NoOpTyped DEF Attempt, NoOp
<1>7. op' \in [All -> Ops] /\ Typed'
  BY <1>1, <1>2, <1>6 DEF LoopTypes, Typed, loop, pass
<1>8. LoopTypes'
  BY <1>1, <1>2, <1>7 DEF LoopTypes, loop, pass
<1> QED
  BY <1>3, <1>5, <1>8, BasePartsNext

\* A step of main or of the loop that leaves the calls alone.
LEMMA CallsTyped ==
    ASSUME LoopTypes, UNCHANGED <<op, timers, due>>, phase' = "handle" => cur'.fd \in Fds
    PROVE  Typed'
BY DEF LoopTypes, Typed, pass

\* RegisterAndYield passes itself, for the direction it waits for.
Self(c, d) == [x \in E!Dir |-> IF x = d THEN c ELSE None]

\* What RegisterAndYield does, the switch apart: main goes on, a coroutine
\* returns to main.
LEMMA RegisterAndYieldParts ==
    ASSUME Base, NEW c \in All, RegisterAndYield(c)
    PROVE  /\ running_co = c /\ op[c].kind = "again"
           /\ op[c].fd \in Fds /\ op[c].dir \in E!Dir
           /\ E!RegisterEvent({op[c].dir}, op[c].fd, {}, Self(c, op[c].dir))
           /\ op' = [op EXCEPT ![c].kind = "io"]
           /\ UNCHANGED <<open, ready, timers, loop, stop, crash, cut>>
           /\ \/ c = Main /\ UNCHANGED <<sched, ops>>
              \/ c \in Co /\ C!YieldSwap /\ ops' = 0
<1>1. /\ running_co = c /\ op[c].kind = "again"
      /\ E!RegisterEvent({op[c].dir}, op[c].fd, {}, Self(c, op[c].dir))
      /\ op' = [op EXCEPT ![c].kind = "io"]
      /\ UNCHANGED <<open, ready, timers, loop, stop, crash, cut>>
      /\ IF C!GetInvokeDeepth >= 2 THEN C!YieldSwap /\ ops' = 0
         ELSE UNCHANGED <<sched, ops>>
  BY Zenon DEF RegisterAndYield, Self
<1>2. op[c].fd \in Fds /\ op[c].dir \in E!Dir
  BY <1>1 DEF Base, Typed
<1>3. CASE c = Main
  <2>1. co_stack = <<Main>> /\ Len(<<Main>>) = 1
    BY <1>1, <1>3, AllIsAll DEF Base, Flat
  <2>2. ~(C!GetInvokeDeepth >= 2)
    BY <2>1 DEF C!GetInvokeDeepth
  <2> QED
    BY <1>1, <1>2, <1>3, <2>2
<1>4. CASE c \in Co
  <2>1. co_stack = <<Main, c>> /\ Len(<<Main, c>>) = 2
    BY <1>1, <1>4, AllIsAll DEF Base, Flat
  <2>2. C!GetInvokeDeepth >= 2
    BY <2>1 DEF C!GetInvokeDeepth
  <2> QED
    BY <1>1, <1>2, <1>4, <2>2
<1> QED
  BY <1>3, <1>4 DEF All

\* do_io's registration and switch preserve Base.
LEMMA RegisterAndYieldBase ==
    ASSUME Base, NEW c \in All, RegisterAndYield(c)
    PROVE  Base'
<1>1. Flat /\ E!TypeOK /\ LoopTypes
  BY BaseParts
<1>2. /\ running_co = c /\ op[c].kind = "again"
      /\ op[c].fd \in Fds /\ op[c].dir \in E!Dir
      /\ E!RegisterEvent({op[c].dir}, op[c].fd, {}, Self(c, op[c].dir))
      /\ op' = [op EXCEPT ![c].kind = "io"]
      /\ UNCHANGED <<open, ready, timers, loop, stop, crash, cut>>
      /\ \/ c = Main /\ UNCHANGED <<sched, ops>>
         \/ c \in Co /\ C!YieldSwap /\ ops' = 0
  BY RegisterAndYieldParts
<1>3. Flat'
  BY <1>1, <1>2, FlatUnchanged, YieldSwapFlat
<1>4. E!TypeOK'
  <2>1. Self(c, op[c].dir) \in [E!Dir -> All \cup {None}]
    BY DEF Self
  <2>2. {op[c].dir} \in SUBSET E!Dir /\ {} \in SUBSET E!Dir
    BY <1>2
  <2> QED
    BY <1>1, <1>2, <2>1, <2>2, RegisterTypes
<1>5. op' \in [All -> Ops] /\ Typed'
  <2>1. op \in [All -> Ops] /\ Typed
    BY <1>1 DEF LoopTypes
  <2>2. op' \in [All -> Ops]
    BY <1>2, <2>1 DEF Ops
  <2>3. \A x \in All : op'[x].kind \in {"again", "io"} =>
                         op'[x].fd \in Fds /\ op'[x].dir \in E!Dir
    BY <1>2, <2>1 DEF Ops, Typed
  <2> QED
    BY <1>2, <2>1, <2>2, <2>3 DEF Typed, loop, pass
<1>6. ops' \in 0 .. MaxOps
  BY <1>1, <1>2, Bounds DEF LoopTypes
<1>7. LoopTypes'
  BY <1>1, <1>2, <1>5, <1>6 DEF LoopTypes, loop, pass
<1> QED
  BY <1>3, <1>4, <1>7, BasePartsNext

\* AddTimer keeps the types of the timers.
LEMMA AddTimerTypes ==
    ASSUME LoopTypes, NEW c \in All, AddTimer(c)
    PROVE  /\ timers' \in [All -> 0 .. MaxTimers] /\ due' \in [All -> 0 .. MaxTimers]
           /\ \A x \in All : due'[x] <= timers'[x]
           /\ timers'[c] = timers[c] + 1 /\ \A x \in All : x # c => timers'[x] = timers[x]
<1>1. /\ timers \in [All -> 0 .. MaxTimers] /\ due \in [All -> 0 .. MaxTimers]
      /\ \A x \in All : due[x] <= timers[x]
  BY DEF LoopTypes, Typed, pass
<1>2. /\ timers[c] < MaxTimers /\ timers' = [timers EXCEPT ![c] = @ + 1]
      /\ due' = due \/ due' = [due EXCEPT ![c] = @ + 1]
  BY DEF AddTimer
<1> QED
  BY <1>1, <1>2, Bounds

\* Every step of a coroutine preserves Base.
LEMMA CoStepBase ==
    ASSUME Base, NEW c \in All, CoStep(c)
    PROVE  Base'
<1>1. Flat /\ E!TypeOK /\ LoopTypes
  BY BaseParts
<1>2. CASE \E fd \in Fds, d \in E!Dir : DoIo(c, fd, d)
  <2>1. PICK fd \in Fds, d \in E!Dir : DoIo(c, fd, d)
    BY <1>2
  <2>2. ops' \in 0 .. MaxOps
    BY <1>1, <2>1, Bounds DEF DoIo, Calls, LoopTypes
  <2> QED
    BY <2>1, <2>2, AttemptBase DEF DoIo
<1>3. CASE Retry(c)
  <2>1. op[c].fd \in Fds /\ op[c].dir \in E!Dir
    BY <1>3 DEF Base, Typed, Retry
  <2>2. ops' \in 0 .. MaxOps
    BY <1>1, <1>3 DEF Retry, LoopTypes
  <2> QED
    BY <1>3, <2>1, <2>2, AttemptBase DEF Retry
<1>4. CASE RegisterAndYield(c)
  BY <1>4, RegisterAndYieldBase
<1>5. CASE Sleep(c)
  <2>1. /\ c \in Co /\ running_co = c /\ AddTimer(c)
        /\ op' = [op EXCEPT ![c].kind = "sleep"] /\ C!YieldSwap /\ ops' = 0
        /\ UNCHANGED <<table, phase, turns, batch, cur, held, stop, crash, cut>>
    BY <1>5 DEF Sleep, Calls
  <2>2. Flat' /\ E!TypeOK'
    BY <1>1, <2>1, YieldSwapFlat, TableUnchanged
  <2>3. /\ timers' \in [All -> 0 .. MaxTimers] /\ due' \in [All -> 0 .. MaxTimers]
        /\ \A x \in All : due'[x] <= timers'[x]
    BY <1>1, <2>1, AddTimerTypes
  <2>4. op' \in [All -> Ops] /\ Typed'
    <3>1. op \in [All -> Ops] /\ Typed
      BY <1>1 DEF LoopTypes
    <3>2. op' \in [All -> Ops]
      BY <2>1, <3>1 DEF Ops
    <3>3. \A x \in All : op'[x].kind \in {"again", "io"} =>
                           op'[x].fd \in Fds /\ op'[x].dir \in E!Dir
      BY <2>1, <3>1 DEF Ops, Typed
    <3> QED
      BY <2>1, <2>3, <3>1, <3>2, <3>3 DEF Typed
  <2>5. LoopTypes'
    BY <1>1, <2>1, <2>3, <2>4, Bounds DEF LoopTypes
  <2> QED
    BY <2>2, <2>5, BasePartsNext
<1>6. CASE SleepReturns(c)
  <2>1. /\ op' = [op EXCEPT ![c] = NoOp]
        /\ UNCHANGED <<sched, table, ops, timers, loop, stop, crash, cut>>
    BY <1>6 DEF SleepReturns
  <2>2. Flat' /\ E!TypeOK'
    BY <1>1, <2>1, FlatUnchanged, TableUnchanged
  <2>3. op' \in [All -> Ops] /\ Typed'
    BY <1>1, <2>1, NoOpTyped DEF LoopTypes, Typed, loop, pass, NoOp
  <2>4. LoopTypes'
    BY <1>1, <2>1, <2>3 DEF LoopTypes, loop, pass
  <2> QED
    BY <2>2, <2>4, BasePartsNext
<1>7. CASE \E fd \in Fds : Close(c, fd)
  <2>1. PICK fd \in Fds : Close(c, fd)
    BY <1>7
  <2>2. /\ E!CancelAndClose(fd) /\ held' = (IF cur.fd = fd THEN reg_event[fd] ELSE held)
        /\ ops' = ops + 1 /\ ops < MaxOps
        /\ UNCHANGED <<sched, op, timers, phase, pass, batch, cur, stop, crash, cut>>
    BY <2>1 DEF Close, Calls
  <2>3. Flat' /\ E!TypeOK'
    BY <1>1, <2>2, FlatUnchanged, CloseTypes
  <2>4. held' \in E!EventCtx
    BY <1>1, <2>2 DEF LoopTypes, E!TypeOK
  <2>5. ops' \in 0 .. MaxOps
    BY <1>1, <2>2, Bounds DEF LoopTypes
  <2>6. LoopTypes'
    BY <1>1, <2>2, <2>4, <2>5 DEF LoopTypes, Typed, pass
  <2> QED
    BY <2>3, <2>6, BasePartsNext
<1>8. CASE Finish(c)
  <2>1. /\ running_co = c /\ C!CoMainFunc /\ ops' = 0
        /\ UNCHANGED <<table, op, timers, loop, stop, crash, cut>>
    BY <1>8 DEF Finish
  <2>2. c \in Co
    BY <2>1 DEF C!CoMainFunc, All
  <2>3. Flat' /\ E!TypeOK'
    BY <1>1, <2>1, <2>2, CoMainFuncFlat, TableUnchanged
  <2>4. LoopTypes'
    BY <1>1, <2>1, Bounds DEF LoopTypes, Typed, loop, pass
  <2> QED
    BY <2>3, <2>4, BasePartsNext
<1> QED
  BY <1>2, <1>3, <1>4, <1>5, <1>6, <1>7, <1>8 DEF CoStep

\* main before the loop.
LEMMA SetupBase ==
    ASSUME Base,
           \/ SleepOnMain \/ (\E c \in Co : Create(c) \/ Start(c))
           \/ (\E r \in Registers : Register(r)) \/ EnterLoop
    PROVE  Base'
<1>1. Flat /\ E!TypeOK /\ LoopTypes
  BY BaseParts
<1>2. CASE SleepOnMain
  <2>1. /\ AddTimer(Main) /\ ops < MaxOps /\ ops' = ops + 1
        /\ crash' \in {"none", "uncaught"}
        /\ UNCHANGED <<table, op, phase, turns, batch, cur, held, stop, cut>>
    BY <1>2 DEF SleepOnMain, Calls
  <2>2. UNCHANGED sched
    BY <1>2 DEF SleepOnMain, C!YieldThrow, C!vars, C!schedule, C!stacks, sched
  <2>3. Flat' /\ E!TypeOK'
    BY <1>1, <2>1, <2>2, FlatUnchanged, TableUnchanged
  <2>4. /\ timers' \in [All -> 0 .. MaxTimers] /\ due' \in [All -> 0 .. MaxTimers]
        /\ \A x \in All : due'[x] <= timers'[x]
    BY <1>1, <2>1, AddTimerTypes, AllIsAll
  <2>5. ops' \in 0 .. MaxOps
    BY <1>1, <2>1, Bounds DEF LoopTypes
  <2>6. LoopTypes'
    BY <1>1, <2>1, <2>4, <2>5 DEF LoopTypes, Typed, pass
  <2> QED
    BY <2>3, <2>6, BasePartsNext
<1>3. CASE \E c \in Co : Create(c) \/ Start(c)
  <2>1. PICK c \in Co : Create(c) \/ Start(c)
    BY <1>3
  <2>2. UNCHANGED <<table, op, ops, timers, loop, stop, crash, cut>>
    BY <2>1 DEF Create, Start
  <2>3. Flat'
    <3>1. CASE Create(c)
      BY <1>1, <3>1, CreateFlat DEF Create
    <3>2. CASE Start(c)
      BY <1>1, <3>2, ResumeSwapFlat, AllIsAll DEF Start, Setup
    <3> QED
      BY <2>1, <3>1, <3>2
  <2>4. E!TypeOK' /\ LoopTypes'
    BY <1>1, <2>2, TableUnchanged DEF LoopTypes, Typed, loop, pass
  <2> QED
    BY <2>3, <2>4, BasePartsNext
<1>4. CASE \E r \in Registers : Register(r)
  <2>1. PICK r \in Registers : Register(r)
    BY <1>4
  <2>2. /\ E!RegisterEvent(r.type, r.fd, r.func, E!Waiters(r.r, r.w))
        /\ UNCHANGED <<sched, open, ready, op, ops, timers, loop, stop, crash, cut>>
    BY <2>1 DEF Register
  <2>3. /\ r.fd \in Fds /\ r.type \in SUBSET E!Dir /\ r.func \in SUBSET E!Dir
        /\ E!Waiters(r.r, r.w) \in [E!Dir -> All \cup {None}]
    BY LoopAssumption DEF E!Dir, E!Waiters
  <2>4. E!TypeOK'
    BY <1>1, <2>2, <2>3, RegisterTypes
  <2>5. Flat' /\ LoopTypes'
    BY <1>1, <2>2, FlatUnchanged DEF LoopTypes, Typed, loop, pass
  <2> QED
    BY <2>4, <2>5, BasePartsNext
<1>5. CASE EnterLoop
  <2>1. /\ phase' = "check"
        /\ UNCHANGED <<sched, table, op, ops, timers, pass, batch, cur, held, stop, crash, cut>>
    BY <1>5 DEF EnterLoop, pass
  <2>2. Flat' /\ E!TypeOK' /\ LoopTypes'
    BY <1>1, <2>1, FlatUnchanged, TableUnchanged DEF LoopTypes, Typed, pass
  <2> QED
    BY <2>2, BasePartsNext
<1> QED
  BY <1>2, <1>3, <1>4, <1>5

\* The event epoll_wait reports for a descriptor.
Event(fd) == [fd |-> fd, mask |-> ready[fd] \cap interest[fd], data |-> data[fd]]

\* epoll_wait reports the ready and interesting descriptors of the list.
LEMMA ReportedIs ==
    E!Reported = {Event(fd) : fd \in {f \in rdlist : ready[f] \cap interest[f] # {}}}
BY Zenon DEF E!Reported, Event

\* What epoll_wait reports is made of events.
LEMMA ReportedTyped ==
    ASSUME E!TypeOK
    PROVE  E!Reported \subseteq [fd : Fds, mask : SUBSET E!Dir, data : {"fd", "ptr"}]
<1>1. \A fd \in Fds : Event(fd) \in [fd : Fds, mask : SUBSET E!Dir, data : {"fd", "ptr"}]
  BY DEF Event, E!TypeOK
<1> QED
  BY <1>1, ReportedIs DEF E!TypeOK

\* The handler's pointer leads to a registration.
LEMMA PtrTyped == E!TypeOK /\ LoopTypes /\ phase = "handle" => Ptr \in E!EventCtx
BY DEF E!TypeOK, LoopTypes, Typed, Ptr

\* Handling one direction of an event preserves Base.
LEMMA HandleBase ==
    ASSUME Base, NEW d \in E!Dir, Handle(d)
    PROVE  Base'
<1>1. Flat /\ E!TypeOK /\ LoopTypes
  BY BaseParts
<1>2. /\ phase = "handle" /\ running_co = Main
      /\ cur' = [cur EXCEPT !.left = @ \ {d}]
      /\ UNCHANGED <<etab, open, op, ops, timers, pass, phase, batch, held, stop, crash>>
  BY DEF Handle, Looping
<1>3. cur.fd \in Fds /\ Ptr \in E!EventCtx
  BY <1>1, <1>2, PtrTyped DEF LoopTypes, Typed, pass
<1>4. /\ \/ ready' = ready \/ ready' = [ready EXCEPT ![cur.fd] = @ \ {d}]
      /\ \/ UNCHANGED sched
         \/ Ptr.co[d] \in All /\ C!Resume(Ptr.co[d])
  BY <1>3 DEF Handle, E!EventCtx
<1>5. Flat'
  BY <1>1, <1>2, <1>4, FlatUnchanged, ResumeFlat
<1>6. E!TypeOK'
  BY <1>1, <1>2, <1>3, <1>4 DEF E!TypeOK, etab
<1>7. cur' \in [fd : Fds \cup {None}, left : SUBSET E!Dir] /\ cur'.fd = cur.fd
  BY <1>1, <1>2 DEF LoopTypes
<1>8. cut' \subseteq All \X Fds \X E!Dir
  <2>1. \/ cut' = cut
        \/ Ptr.co[d] \in All /\ cut' = cut \cup {<<Ptr.co[d], cur.fd, d>>}
    BY <1>3, Zenon DEF Handle, E!EventCtx
  <2>2. Ptr.co[d] \in All => <<Ptr.co[d], cur.fd, d>> \in All \X Fds \X E!Dir
    BY <1>3
  <2> QED
    BY <1>1, <2>1, <2>2 DEF LoopTypes
<1>9. LoopTypes'
  BY <1>1, <1>2, <1>3, <1>7, <1>8 DEF LoopTypes, Typed, pass
<1> QED
  BY <1>5, <1>6, <1>9, BasePartsNext

\* Every step of Eventloop preserves Base.
LEMMA LoopStepBase ==
    ASSUME Base, LoopStep
    PROVE  Base'
<1>1. Flat /\ E!TypeOK /\ LoopTypes
  BY BaseParts
<1>2. CASE CheckStop
  <2>1. /\ phase' \in {"done", "wait"}
        /\ UNCHANGED <<sched, table, op, ops, timers, pass, batch, cur, held, stop, crash, cut>>
    BY <1>2 DEF CheckStop, pass
  <2>2. Flat' /\ E!TypeOK' /\ LoopTypes'
    BY <1>1, <2>1, FlatUnchanged, TableUnchanged DEF LoopTypes, Typed, pass
  <2> QED
    BY <2>2, BasePartsNext
<1>3. CASE Wait
  <2>1. /\ batch' = E!Reported /\ phase' = "batch" /\ rdlist' = {}
        /\ UNCHANGED <<reg_event, interest, data, open, ready>>
        /\ UNCHANGED <<sched, op, ops, timers, pass, cur, held, stop, crash, cut>>
    BY <1>3 DEF Wait, E!EpollWait, E!kernel
  <2>2. E!TypeOK'
    BY <1>1, <2>1 DEF E!TypeOK
  <2>3. Flat' /\ LoopTypes'
    BY <1>1, <2>1, FlatUnchanged, ReportedTyped DEF LoopTypes, Typed, pass
  <2> QED
    BY <2>2, <2>3, BasePartsNext
<1>4. CASE TakeEvent
  <2>1. PICK e \in batch :
          /\ batch' = batch \ {e}
          /\ \/ /\ cur' = [fd |-> e.fd, left |-> e.mask] /\ phase' = "handle"
                /\ crash' = crash
             \/ crash' = "null" /\ UNCHANGED <<cur, phase>>
          /\ UNCHANGED <<sched, table, op, ops, timers, pass, held, stop, cut>>
    BY <1>4 DEF TakeEvent
  <2>2. e.fd \in Fds /\ e.mask \in SUBSET E!Dir
    BY <1>1 DEF LoopTypes
  <2>3. /\ cur' \in [fd : Fds \cup {None}, left : SUBSET E!Dir]
        /\ phase' \in {"setup", "check", "wait", "batch", "handle", "timers", "done"}
        /\ crash' \in {"none", "null", "uncaught"}
        /\ phase' = "handle" => cur'.fd \in Fds
    BY <1>1, <2>1, <2>2 DEF LoopTypes, Typed, pass
  <2>4. LoopTypes'
    BY <1>1, <2>1, <2>3 DEF LoopTypes, Typed, pass
  <2>5. Flat' /\ E!TypeOK'
    BY <1>1, <2>1, FlatUnchanged, TableUnchanged
  <2> QED
    BY <2>4, <2>5, BasePartsNext
<1>5. CASE Handle("IN") \/ Handle("OUT")
  BY <1>5, HandleBase DEF E!Dir
<1>6. CASE EventDone
  <2>1. /\ cur' = NoEvent /\ held' = E!NoCtx /\ phase' = "batch"
        /\ UNCHANGED <<sched, table, op, ops, timers, pass, batch, stop, crash, cut>>
    BY <1>6 DEF EventDone
  <2>2. cur' \in [fd : Fds \cup {None}, left : SUBSET E!Dir]
    BY <2>1 DEF NoEvent
  <2>3. Flat' /\ E!TypeOK' /\ LoopTypes'
    BY <1>1, <2>1, <2>2, FlatUnchanged, TableUnchanged, NoCtxTyped DEF LoopTypes, Typed, pass
  <2> QED
    BY <2>3, BasePartsNext
<1>7. CASE BatchDone
  <2>1. /\ phase' = "timers" /\ turns' \in 0 .. MaxTurns
        /\ UNCHANGED <<sched, table, op, ops, timers, due, batch, cur, held, stop, crash, cut>>
    BY <1>7 DEF BatchDone
  <2>2. Flat' /\ E!TypeOK' /\ LoopTypes'
    BY <1>1, <2>1, FlatUnchanged, TableUnchanged DEF LoopTypes, Typed, pass
  <2> QED
    BY <2>2, BasePartsNext
<1>8. CASE TimersDone
  <2>1. /\ phase' = "check"
        /\ UNCHANGED <<sched, table, op, ops, timers, pass, batch, cur, held, stop, crash, cut>>
    BY <1>8 DEF TimersDone
  <2>2. Flat' /\ E!TypeOK' /\ LoopTypes'
    BY <1>1, <2>1, FlatUnchanged, TableUnchanged DEF LoopTypes, Typed, pass
  <2> QED
    BY <2>2, BasePartsNext
<1>9. CASE TurnSlot
  <2>1. /\ turns > 0 /\ turns' = turns - 1
        /\ due' \in [All -> 0 .. MaxTimers] /\ \A c \in All : due'[c] <= timers[c]
        /\ UNCHANGED <<sched, table, op, ops, timers, phase, batch, cur, held, stop, crash, cut>>
    BY <1>9 DEF TurnSlot
  <2>2. turns' \in 0 .. MaxTurns
    BY <1>1, <2>1, Bounds DEF LoopTypes
  <2>3. Flat' /\ E!TypeOK' /\ LoopTypes'
    BY <1>1, <2>1, <2>2, FlatUnchanged, TableUnchanged DEF LoopTypes, Typed, pass
  <2> QED
    BY <2>3, BasePartsNext
<1>10. CASE \E c \in All : FireTimer(c)
  <2>1. PICK c \in All : FireTimer(c)
    BY <1>10
  <2>2. /\ running_co = Main /\ due[c] > 0
        /\ timers' = [timers EXCEPT ![c] = @ - 1] /\ due' = [due EXCEPT ![c] = @ - 1]
        /\ C!Resume(c)
        /\ UNCHANGED <<table, op, ops, phase, turns, batch, cur, held, stop, crash, cut>>
    BY <2>1 DEF FireTimer, Looping
  <2>3. Flat' /\ E!TypeOK'
    BY <1>1, <2>2, ResumeFlat, TableUnchanged
  <2>4. /\ timers' \in [All -> 0 .. MaxTimers] /\ due' \in [All -> 0 .. MaxTimers]
        /\ \A x \in All : due'[x] <= timers'[x]
    BY <1>1, <2>2, Bounds DEF LoopTypes, Typed, pass
  <2>5. LoopTypes'
    BY <1>1, <2>2, <2>4 DEF LoopTypes, Typed, pass
  <2> QED
    BY <2>3, <2>5, BasePartsNext
<1> QED
  BY <1>2, <1>3, <1>4, <1>5, <1>6, <1>7, <1>8, <1>9, <1>10 DEF LoopStep

\* Arrivals and StopEventLoop preserve Base.
LEMMA PeerBase ==
    ASSUME Base, Peer \/ StopEventLoop
    PROVE  Base'
<1>1. Flat /\ E!TypeOK /\ LoopTypes
  BY BaseParts
<1>2. CASE Peer
  <2>1. PICK fd \in Fds, d \in E!Dir : E!Happens(fd, d)
    BY <1>2 DEF Peer
  <2>2. E!TypeOK'
    BY <1>1, <2>1 DEF E!Happens, E!TypeOK
  <2>3. UNCHANGED <<sched, op, ops, timers, loop, stop, crash, cut>>
    BY <1>2 DEF Peer
  <2>4. Flat' /\ LoopTypes'
    BY <1>1, <2>3, FlatUnchanged DEF LoopTypes, Typed, loop, pass
  <2> QED
    BY <2>2, <2>4, BasePartsNext
<1>3. CASE StopEventLoop
  <2>1. stop' = TRUE /\ UNCHANGED <<sched, table, op, ops, timers, loop, crash, cut>>
    BY <1>3 DEF StopEventLoop
  <2>2. Flat' /\ E!TypeOK' /\ LoopTypes'
    BY <1>1, <2>1, FlatUnchanged, TableUnchanged DEF LoopTypes, Typed, loop, pass
  <2> QED
    BY <2>2, BasePartsNext
<1> QED
  BY <1>2, <1>3

\* Base holds initially.
LEMMA BaseInit == Init => Base
<1> SUFFICES ASSUME Init PROVE Base
  OBVIOUS
<1>1. Flat
  <2>1. /\ co_state \in [All -> C!States] /\ co_state[Main] = "RUNNING"
        /\ \A c \in Co : co_state[c] # "RUNNING"
        /\ co_stack = <<Main>> /\ stack_top = 1 /\ running_co = Main
    BY AllIsAll DEF Init, C!Init, C!InitThreadSchedule, C!States
  <2>2. /\ idx \in Nat /\ occupy_co \in [C!Mem -> Co \cup {None}]
        /\ frames \in [C!Mem -> Co \cup {None}]
    BY DEF Init, C!Init, C!AllocSharedMem
  <2>3. /\ stack_mem \in [All -> C!Mem \cup {C!Private}]
        /\ \A c \in All : stack_mem[c] = C!Private
        /\ dummy \in [All -> {"null", "set"}] /\ saved_stack \in [All -> C!Copies]
        /\ fault \in C!Faults
    BY AllIsAll DEF Init, C!Init, C!Copies, C!Faults
  <2>4. co_stack \in Seq(All) /\ stack_top \in Nat /\ running_co \in All
    BY <2>1, AllIsAll
  <2> QED
    BY <2>1, <2>2, <2>3, <2>4, AllIsAll DEF Flat, C!TypeOK
<1>2. E!TypeOK
  BY NoCtxTyped DEF Init, E!Init, E!TypeOK
<1>3. op \in [All -> Ops] /\ Typed
  BY NoOpTyped DEF Init, NoOp, Typed
<1>4. LoopTypes
  BY <1>3, NoCtxTyped, Bounds DEF Init, LoopTypes, NoEvent
<1> QED
  BY <1>1, <1>2, <1>4, BaseParts

\* A stuttering step preserves Base.
LEMMA BaseUnchanged == Base /\ UNCHANGED vars => Base'
<1> SUFFICES ASSUME Base, UNCHANGED vars PROVE Base'
  OBVIOUS
<1>1. UNCHANGED <<sched, table, op, ops, timers, loop, stop, crash, cut>>
  BY DEF vars
<1>2. Flat /\ E!TypeOK /\ LoopTypes
  BY BaseParts
<1>3. Flat' /\ E!TypeOK' /\ LoopTypes'
  BY <1>1, <1>2, FlatUnchanged, TableUnchanged DEF LoopTypes, Typed, loop, pass
<1> QED
  BY <1>3, BasePartsNext

\* Every step preserves Base.
LEMMA BaseStep == Base /\ [Next]_vars => Base'
<1> SUFFICES ASSUME Base, [Next]_vars PROVE Base'
  OBVIOUS
<1> QED
  BY CoStepBase, SetupBase, LoopStepBase, PeerBase, BaseUnchanged DEF Next, Thread, Over

\* Base is an invariant, whatever the clients do.
LEMMA SpecBase == Spec => []Base
BY BaseInit, BaseStep, PTL DEF Spec

-----------------------------------------------------------------------------
(* Theorems about every client.                                            *)

\* The loop, the table, the scheduler and the hooked calls keep their types:
\* an event handler always has a descriptor, a retry its arguments.
THEOREM TypeCorrect == Spec => []TypeOK
BY SpecBase, PTL DEF Base

-----------------------------------------------------------------------------
(* One user for each descriptor: the invariant, action by action.          *)

\* What Own says of the users and the closers.
LEMMA OwnFacts ==
    ASSUME Own
    PROVE  /\ \A c, fd, d : <<c, fd, d>> \in Uses =>
                              c \in Co /\ fd \in Fds /\ d \in E!Dir
           /\ \A c, x, fd, d, e : <<c, fd, d>> \in Uses /\ <<x, fd, e>> \in Uses => x = c
           /\ \A c, x, fd, g, d : <<c, fd>> \in Closes /\ <<x, g, d>> \in Uses =>
                                    (x = c <=> g = fd)
<1>1. \A c, fd, d : <<c, fd, d>> \in Uses => c \in Co /\ fd \in Fds /\ d \in E!Dir
  BY LoopAssumption DEF Own, All, E!Dir
<1>2. \A c, x, fd, d, e : <<c, fd, d>> \in Uses /\ <<x, fd, e>> \in Uses => x = c
  BY DEF Own
<1>3. \A c, x, fd, g, d : <<c, fd>> \in Closes /\ <<x, g, d>> \in Uses => (x = c <=> g = fd)
  BY DEF Own
<1> QED
  BY <1>1, <1>2, <1>3

\* The parts of OInv beside Base and Alive.
LEMMA OParts ==
    ASSUME OInv
    PROVE  /\ Base /\ Alive /\ Registrations /\ CallsInv /\ Waiting /\ Round
           /\ Flat /\ E!TypeOK /\ LoopTypes /\ op \in [All -> Ops]
BY BaseParts DEF OInv, LoopTypes

\* Steps that leave the table and the kernel alone.
LEMMA RegistrationsUnchanged ==
    Registrations /\ UNCHANGED <<reg_event, interest, data>> => Registrations'
BY DEF Registrations

\* While main runs nobody is between EAGAIN and the registration.
LEMMA NobodyAgain ==
    ASSUME CallsInv, NEW c \in Co, running_co # c
    PROVE  op[c].kind # "again"
BY DEF CallsInv

\* A coroutine is entered.
LEMMA EnterCalls ==
    ASSUME Flat, CallsInv, running_co = Main, NEW c \in Co, Entered(c), UNCHANGED op,
           timers'[Main] = 0
    PROVE  CallsInv'
<1>1. \A x \in Co : op[x].kind # "again"
  BY NobodyAgain, AllIsAll
<1>2. \A x \in Co : x # c => co_state'[x] = co_state[x]
  BY FlatTypes, AllIsAll DEF Entered
<1>3. \A x \in Co : dummy'[x] = dummy[x]
  BY FlatTypes, AllIsAll DEF Entered
<1>4. running_co' = c
  BY DEF Entered
<1> QED
  BY <1>1, <1>2, <1>3, <1>4, AllIsAll DEF CallsInv

\* A coroutine yields in a call, or ends outside one.
LEMMA LeaveCalls ==
    ASSUME Flat, CallsInv, NEW c \in Co, running_co = c, NEW s, Left(c, s),
           \A x \in All : x # c => op'[x] = op[x],
           op'[c].kind # "again", s = "READY" \/ op'[c].kind = "none",
           op'[c].kind = "io" => <<c, op'[c].fd, op'[c].dir>> \in Uses,
           timers'[Main] = timers[Main]
    PROVE  CallsInv'
<1>1. \A x \in Co : x # c => op[x].kind # "again"
  BY NobodyAgain
<1>2. \A x \in Co : x # c => co_state'[x] = co_state[x] /\ dummy'[x] = dummy[x]
  BY FlatTypes, AllIsAll DEF Left
<1>3. co_state'[c] = s /\ dummy'[c] = "set" /\ running_co' = Main
  BY FlatTypes, AllIsAll DEF Left
<1>4. op'[Main].kind = "none" /\ timers'[Main] = 0
  BY AllIsAll DEF CallsInv
<1>5. \A x \in Co : op'[x].kind # "again"
  BY <1>1, AllIsAll
<1>6. \A x \in Co : op'[x].kind \in {"again", "io"} => <<x, op'[x].fd, op'[x].dir>> \in Uses
  BY <1>5, AllIsAll DEF CallsInv
<1>7. \A x \in Co : op'[x].kind # "none" => co_state'[x] = "READY" /\ dummy'[x] = "set"
  BY <1>2, <1>3, AllIsAll DEF CallsInv
<1> QED
  BY <1>3, <1>4, <1>5, <1>6, <1>7 DEF CallsInv

\* An attempt of func, with the descriptor its coroutine uses.
LEMMA AttemptO ==
    ASSUME Own, OInv, NEW c \in Co, running_co = c, NEW fd \in Fds, NEW d \in E!Dir,
           <<c, fd, d>> \in Uses, Attempt(c, fd, d), Base'
    PROVE  OInv'
<1>1. /\ Base /\ Alive /\ Registrations /\ CallsInv /\ Waiting /\ Round
      /\ E!TypeOK /\ op \in [All -> Ops]
  BY OParts
<1>2. UNCHANGED <<sched, etab, open, timers, loop, stop, crash, cut>>
  BY Zenon DEF Attempt
<1>3. /\ running_co' = running_co /\ co_state' = co_state /\ dummy' = dummy
      /\ fault' = fault /\ crash' = crash /\ reg_event' = reg_event
      /\ interest' = interest /\ data' = data /\ rdlist' = rdlist
      /\ phase' = phase /\ batch' = batch /\ cur' = cur /\ held' = held
      /\ timers' = timers
  BY <1>2 DEF sched, etab, loop
<1>4. \A g \in Fds : ready'[g] \subseteq ready[g]
  BY <1>1 DEF Attempt, E!TypeOK
<1>5. /\ \A x \in All : x # c => op'[x] = op[x]
      /\ \/ op'[c] = NoOp
         \/ /\ op'[c] = [kind |-> "again", fd |-> fd, dir |-> d]
            /\ d \notin ready[fd] /\ ready' = ready
  BY <1>1, AllIsAll DEF Attempt
<1>6. Alive' /\ Registrations'
  BY <1>1, <1>3, RegistrationsUnchanged DEF Alive
<1>7. CallsInv'
  <2>1. \A x \in Co : x # c => op[x].kind # "again"
    BY <1>1, NobodyAgain
  <2>2. op'[Main].kind = "none" /\ timers'[Main] = 0
    BY <1>1, <1>3, <1>5, AllIsAll DEF CallsInv
  <2>3. CASE op'[c] = NoOp
    <3>1. op'[c].kind = "none"
      BY <2>3 DEF NoOp
    <3> QED
      BY <1>1, <1>3, <1>5, <2>1, <2>2, <3>1, AllIsAll DEF CallsInv
  <2>4. CASE op'[c] = [kind |-> "again", fd |-> fd, dir |-> d]
    <3>1. op'[c].kind = "again" /\ op'[c].fd = fd /\ op'[c].dir = d
      BY <2>4
    <3>2. d \notin ready'[fd]
      BY <1>5, <2>4 DEF NoOp
    <3> QED
      BY <1>1, <1>3, <1>5, <2>1, <2>2, <3>1, <3>2, AllIsAll DEF CallsInv
  <2> QED
    BY <1>5, <2>3, <2>4
<1>8. Waiting'
  BY <1>1, <1>3, <1>4, <1>5, OwnFacts, AllIsAll, ZenonT(60) DEF Waiting, Coming, CallsInv
<1>9. Round'
  BY <1>1, <1>3 DEF Round, E!Registered
<1> QED
  BY <1>6, <1>7, <1>8, <1>9 DEF OInv

\* RegisterEvent by the user of the descriptor, for itself.
LEMMA RegisterOwn ==
    ASSUME Own, E!TypeOK, Registrations, NEW c \in Co, NEW fd \in Fds, NEW d \in E!Dir,
           <<c, fd, d>> \in Uses, E!RegisterEvent({d}, fd, {}, Self(c, d))
    PROVE  /\ Registrations'
           /\ d \in reg_event'[fd].type
           /\ \A g \in Fds : g # fd => reg_event'[g] = reg_event[g]
           /\ \A g \in Fds : E!Registered(g) => reg_event'[g].type # {}
           /\ rdlist \subseteq rdlist'
           /\ d \in ready[fd] => fd \in rdlist' \/ d \in interest[fd]
<1>1. CASE d \in reg_event[fd].type /\ UNCHANGED E!epoll
  <2>1. UNCHANGED <<reg_event, interest, data, rdlist>>
    BY <1>1 DEF E!epoll
  <2> QED
    BY <1>1, <2>1, RegistrationsUnchanged DEF Registrations, E!Registered
<1>2. CASE /\ reg_event' = [reg_event EXCEPT ![fd] =
                              [type |-> {d}, func |-> {}, co |-> Self(c, d)]]
           /\ E!EpollCtl(fd, {d}, "fd")
  <2>1. /\ reg_event'[fd].type = {d} /\ reg_event'[fd].func = {}
        /\ reg_event'[fd].co = Self(c, d)
        /\ \A g \in Fds : g # fd => reg_event'[g] = reg_event[g]
    BY <1>2 DEF E!TypeOK
  <2>2. /\ interest'[fd] = {d} /\ data'[fd] = "fd"
        /\ \A g \in Fds : g # fd => interest'[g] = interest[g] /\ data'[g] = data[g]
        /\ rdlist \subseteq rdlist'
        /\ d \in ready[fd] => fd \in rdlist'
    BY <1>2 DEF E!EpollCtl, E!TypeOK
  <2>3. \A e \in E!Dir : Self(c, d)[e] = IF e = d THEN c ELSE None
    BY DEF Self
  <2>4. \A g \in Fds : /\ interest'[g] = reg_event'[g].type /\ data'[g] = "fd"
                       /\ reg_event'[g].func = {}
    BY <2>1, <2>2 DEF Registrations
  <2>5. \A g \in Fds, e \in E!Dir :
          IF e \in reg_event'[g].type THEN <<reg_event'[g].co[e], g, e>> \in Uses
          ELSE reg_event'[g].co[e] = None
    BY <2>1, <2>3 DEF Registrations
  <2>6. Registrations'
    BY <2>4, <2>5 DEF Registrations
  <2> QED
    BY <2>1, <2>2, <2>6 DEF E!Registered
<1>3. reg_event[fd].type \cap {d} # {} => d \in reg_event[fd].type
  OBVIOUS
<1> QED
  BY <1>1, <1>2, <1>3 DEF E!RegisterEvent

\* do_io's registration and switch: the event that came since the failed call is
\* on epoll's list, or will be put there.
LEMMA RegisterAndYieldO ==
    ASSUME Own, OInv, NEW c \in Co, RegisterAndYield(c), Base'
    PROVE  OInv'
<1>1. /\ Base /\ Alive /\ Registrations /\ CallsInv /\ Waiting /\ Round
      /\ Flat /\ E!TypeOK /\ op \in [All -> Ops]
  BY OParts
<1>2. /\ running_co = c /\ op[c].kind = "again"
      /\ op[c].fd \in Fds /\ op[c].dir \in E!Dir
      /\ E!RegisterEvent({op[c].dir}, op[c].fd, {}, Self(c, op[c].dir))
      /\ op' = [op EXCEPT ![c].kind = "io"]
      /\ UNCHANGED <<open, ready, timers, loop, stop, crash, cut>>
      /\ C!YieldSwap
  BY <1>1, RegisterAndYieldParts, AllIsAll
<1>3. PICK fd \in Fds : fd = op[c].fd
  BY <1>2
<1>4. PICK d \in E!Dir : d = op[c].dir
  BY <1>2
<1>5. <<c, fd, d>> \in Uses
  BY <1>1, <1>2, <1>3, <1>4 DEF CallsInv
<1>6. /\ phase' = phase /\ batch' = batch /\ cur' = cur /\ held' = held /\ ready' = ready
      /\ timers' = timers /\ crash' = crash
  BY <1>2 DEF loop
<1>7. Left(c, "READY")
  BY <1>1, <1>2, YieldSwapFlat
<1>8. /\ Registrations'
      /\ d \in reg_event'[fd].type
      /\ \A g \in Fds : g # fd => reg_event'[g] = reg_event[g]
      /\ \A g \in Fds : E!Registered(g) => reg_event'[g].type # {}
      /\ rdlist \subseteq rdlist'
      /\ d \in ready[fd] => fd \in rdlist' \/ d \in interest[fd]
  BY <1>1, <1>2, <1>3, <1>4, <1>5, RegisterOwn
<1>9. /\ op'[c].kind = "io" /\ op'[c].fd = fd /\ op'[c].dir = d
      /\ \A x \in All : x # c => op'[x] = op[x]
  BY <1>1, <1>2, <1>3, <1>4, AllIsAll DEF Ops
<1>10. d \in ready'[fd] => fd \in rdlist'
  BY <1>1, <1>2, <1>3, <1>4, <1>6, <1>8 DEF CallsInv
<1>11. Alive'
  BY <1>1, <1>6, <1>7 DEF Alive, Left
<1>12. CallsInv'
  BY <1>1, <1>2, <1>5, <1>6, <1>7, <1>9, LeaveCalls
<1>13. Waiting'
  <2>1. op'[c].dir \in reg_event'[fd].type /\ (d \in ready'[fd] => Coming(fd, d)')
    BY <1>8, <1>9, <1>10 DEF Coming
  <2>2. ASSUME NEW x \in Co, x # c, op'[x].kind = "io"
        PROVE  /\ op'[x].dir \in reg_event'[op'[x].fd].type
               /\ op'[x].dir \in ready'[op'[x].fd] => Coming(op[x].fd, op[x].dir)'
    <3>1. op'[x] = op[x] /\ running_co # x
      BY <1>2, <1>9, <2>2, AllIsAll
    <3>2. <<x, op[x].fd, op[x].dir>> \in Uses
      BY <1>1, <2>2, <3>1 DEF CallsInv
    <3>3. op[x].fd # fd /\ op[x].fd \in Fds
      BY <1>5, <2>2, <3>2, OwnFacts
    <3>4. /\ op[x].dir \in reg_event[op[x].fd].type
          /\ op[x].dir \in ready[op[x].fd] => Coming(op[x].fd, op[x].dir)
      BY <1>1, <2>2, <3>1 DEF Waiting
    <3> QED
      BY <1>6, <1>8, <3>1, <3>3, <3>4 DEF Coming
  <2> QED
    BY <1>9, <2>1, <2>2 DEF Waiting
<1>14. Round'
  BY <1>1, <1>6, <1>7, <1>8 DEF Round, E!Registered, Left, Base, TypeOK
<1> QED
  BY <1>8, <1>11, <1>12, <1>13, <1>14 DEF OInv

\* A switch to main in sleep, or at the end of the coroutine.
LEMMA LeaveO ==
    ASSUME Own, OInv, NEW c \in Co, running_co = c, NEW s, Left(c, s),
           \A x \in All : x # c => op'[x] = op[x],
           op'[c].kind \in {"none", "sleep"}, s = "READY" \/ op'[c].kind = "none",
           timers'[Main] = timers[Main],
           UNCHANGED <<table, phase, batch, cur, held, crash>>, Base'
    PROVE  OInv'
<1>1. /\ Base /\ Alive /\ Registrations /\ CallsInv /\ Waiting /\ Round
      /\ Flat /\ E!TypeOK /\ op \in [All -> Ops]
  BY OParts
<1>2. /\ phase' = phase /\ batch' = batch /\ cur' = cur /\ held' = held /\ ready' = ready
      /\ reg_event' = reg_event /\ interest' = interest /\ data' = data
      /\ rdlist' = rdlist
  BY DEF table
<1>3. Alive' /\ Registrations'
  BY <1>1, <1>2, RegistrationsUnchanged DEF Alive, Left
<1>4. CallsInv'
  BY <1>1, LeaveCalls
<1>5. Waiting'
  BY <1>1, <1>2, AllIsAll DEF Waiting, Coming
<1>6. Round'
  BY <1>1, <1>2 DEF Round, E!Registered, Left
<1> QED
  BY <1>3, <1>4, <1>5, <1>6 DEF OInv

\* A hooked sleep that returns.
LEMMA SleepReturnsO ==
    ASSUME Own, OInv, NEW c \in Co, SleepReturns(c), Base'
    PROVE  OInv'
<1>1. /\ Base /\ Alive /\ Registrations /\ CallsInv /\ Waiting /\ Round
      /\ Flat /\ E!TypeOK /\ op \in [All -> Ops]
  BY OParts
<1>2. /\ running_co = c /\ op' = [op EXCEPT ![c] = NoOp]
      /\ UNCHANGED <<sched, table, timers, loop, crash>>
  BY DEF SleepReturns
<1>3. /\ running_co' = running_co /\ co_state' = co_state /\ dummy' = dummy
      /\ fault' = fault /\ crash' = crash /\ reg_event' = reg_event
      /\ interest' = interest /\ data' = data /\ rdlist' = rdlist /\ ready' = ready
      /\ phase' = phase /\ batch' = batch /\ cur' = cur /\ held' = held
      /\ timers' = timers
  BY <1>2 DEF sched, table, loop
<1>4. op'[c].kind = "none" /\ \A x \in All : x # c => op'[x] = op[x]
  BY <1>1, <1>2, AllIsAll DEF NoOp
<1>5. Alive' /\ Registrations'
  BY <1>1, <1>3, RegistrationsUnchanged DEF Alive
<1>6. CallsInv'
  BY <1>1, <1>3, <1>4, AllIsAll DEF CallsInv
<1>7. Waiting'
  BY <1>1, <1>3, <1>4, AllIsAll DEF Waiting, Coming
<1>8. Round'
  BY <1>1, <1>3 DEF Round, E!Registered
<1> QED
  BY <1>5, <1>6, <1>7, <1>8 DEF OInv

\* Cancelling both directions erases the registration.
LEMMA CancelledBoth ==
    ASSUME NEW ctx \in E!EventCtx
    PROVE  E!Cancelled(E!Cancelled(ctx, {"IN"}), {"OUT"}) = E!NoCtx
<1> DEFINE one == E!Cancelled(ctx, {"IN"})
<1>1. one.type \subseteq {"OUT"}
  BY DEF E!Cancelled, E!EventCtx, E!NoCtx, E!Dir
<1> HIDE DEF one
<1>2. one.type \ {"OUT"} = {}
  BY <1>1
<1>3. E!Cancelled(one, {"OUT"}) = E!NoCtx
  BY <1>2 DEF E!Cancelled
<1> QED
  BY <1>3 DEF one

\* A hooked close: only the one user of the descriptor closes it.
LEMMA CloseO ==
    ASSUME Own, OInv, NEW c \in Co, NEW fd \in Fds, Close(c, fd), Base'
    PROVE  OInv'
<1>1. /\ Base /\ Alive /\ Registrations /\ CallsInv /\ Waiting /\ Round
      /\ Flat /\ E!TypeOK /\ LoopTypes /\ op \in [All -> Ops]
  BY OParts
<1>2. /\ running_co = c /\ op[c] = NoOp /\ <<c, fd>> \in Closes /\ E!CancelAndClose(fd)
      /\ held' = (IF cur.fd = fd THEN reg_event[fd] ELSE held)
      /\ UNCHANGED <<sched, op, timers, phase, pass, batch, cur, stop, crash, cut>>
  BY DEF Close, Calls
<1>3. /\ running_co' = running_co /\ co_state' = co_state /\ dummy' = dummy
      /\ fault' = fault
  BY <1>2 DEF sched
<1>4. /\ reg_event'[fd] = E!NoCtx /\ interest'[fd] = {} /\ data'[fd] = "fd"
      /\ rdlist' = rdlist \ {fd} /\ ready'[fd] = {}
      /\ \A g \in Fds : g # fd => /\ reg_event'[g] = reg_event[g]
                                  /\ interest'[g] = interest[g] /\ data'[g] = data[g]
                                  /\ ready'[g] = ready[g]
  <2>1. reg_event[fd] \in E!EventCtx
    BY <1>1 DEF E!TypeOK
  <2>2. reg_event' = [reg_event EXCEPT ![fd] = E!NoCtx]
    BY <1>2, <2>1, CancelledBoth DEF E!CancelAndClose
  <2>3. /\ interest' = [interest EXCEPT ![fd] = {}] /\ data' = [data EXCEPT ![fd] = "fd"]
        /\ rdlist' = rdlist \ {fd} /\ ready' = [ready EXCEPT ![fd] = {}]
    BY <1>2 DEF E!CancelAndClose, E!EpollDel
  <2> QED
    BY <1>1, <2>2, <2>3 DEF E!TypeOK
<1>5. c # Main /\ op[c].kind = "none"
  BY <1>2, AllIsAll DEF NoOp
<1>6. \A x \in Co : op[x].kind # "none" /\ x # c => op[x].kind # "again"
  BY <1>1, <1>2, NobodyAgain
<1>7. Alive'
  BY <1>1, <1>2, <1>3 DEF Alive
<1>8. Registrations'
  <2>1. E!NoCtx.type = {} /\ E!NoCtx.func = {} /\ \A d \in E!Dir : E!NoCtx.co[d] = None
    BY DEF E!NoCtx
  <2>2. \A g \in Fds : /\ interest'[g] = reg_event'[g].type /\ data'[g] = "fd"
                       /\ reg_event'[g].func = {}
    BY <1>1, <1>4, <2>1 DEF Registrations
  <2>3. \A g \in Fds, d \in E!Dir :
          IF d \in reg_event'[g].type THEN <<reg_event'[g].co[d], g, d>> \in Uses
          ELSE reg_event'[g].co[d] = None
    BY <1>1, <1>4, <2>1 DEF Registrations
  <2> QED
    BY <2>2, <2>3 DEF Registrations
<1>9. CallsInv'
  BY <1>1, <1>2, <1>3, <1>5, <1>6 DEF CallsInv
<1>10. Waiting'
  <2>1. ASSUME NEW x \in Co, op[x].kind = "io", running_co # x
        PROVE  /\ op[x].dir \in reg_event'[op[x].fd].type
               /\ op[x].dir \in ready'[op[x].fd] => Coming(op[x].fd, op[x].dir)'
    <3>1. <<x, op[x].fd, op[x].dir>> \in Uses
      BY <1>1, <2>1 DEF CallsInv
    <3>2. op[x].fd # fd /\ op[x].fd \in Fds
      BY <1>2, <2>1, <3>1, OwnFacts
    <3>3. /\ op[x].dir \in reg_event[op[x].fd].type
          /\ op[x].dir \in ready[op[x].fd] => Coming(op[x].fd, op[x].dir)
      BY <1>1, <2>1 DEF Waiting
    <3> QED
      BY <1>2, <1>4, <3>2, <3>3 DEF Coming
  <2> QED
    BY <1>2, <1>3, <2>1 DEF Waiting
<1>11. Round'
  <2>1. \A e \in batch : e.fd # fd /\ e.fd \in Fds
    <3>1. ASSUME NEW e \in batch PROVE e.fd # fd /\ e.fd \in Fds
      <4>1. phase = "handle"
        BY <1>1, <1>2, <1>5 DEF Round
      <4>2. PICK d \in E!Dir : <<c, cur.fd, d>> \in Uses
        BY <1>1, <1>2, <1>5, <4>1 DEF Round
      <4>3. cur.fd = fd
        BY <1>2, <4>2, OwnFacts
      <4> QED
        BY <1>1, <4>3 DEF Round, LoopTypes
    <3> QED
      BY <3>1
  <2>2. \A e \in batch' : e.data = "fd" /\ reg_event'[e.fd].type # {} /\ e.fd # cur'.fd
    BY <1>1, <1>2, <1>4, <2>1 DEF Round, E!Registered
  <2>3. held'.func = {} /\ \A d \in E!Dir : held'.co[d] # None => <<held'.co[d], cur'.fd, d>> \in Uses
    BY <1>1, <1>2 DEF Round, Registrations
  <2> QED
    BY <1>1, <1>2, <1>3, <2>2, <2>3 DEF Round, E!Registered
<1> QED
  BY <1>7, <1>8, <1>9, <1>10, <1>11 DEF OInv

\* Every step of a coroutine preserves OInv.
LEMMA CoStepO ==
    ASSUME Own, OInv, NEW c \in All, CoStep(c), Base'
    PROVE  OInv'
<1>1. /\ Base /\ Alive /\ Registrations /\ CallsInv /\ Waiting /\ Round
      /\ Flat /\ E!TypeOK /\ LoopTypes /\ op \in [All -> Ops]
  BY OParts
<1>2. CASE \E fd \in Fds, d \in E!Dir : DoIo(c, fd, d)
  <2>1. PICK fd \in Fds, d \in E!Dir : DoIo(c, fd, d)
    BY <1>2
  <2>2. <<c, fd, d>> \in Uses /\ running_co = c /\ Attempt(c, fd, d)
    BY <2>1 DEF DoIo, Calls
  <2>3. c \in Co
    BY <2>2, OwnFacts
  <2> QED
    BY <2>2, <2>3, AttemptO
<1>3. CASE Retry(c)
  <2>1. /\ running_co = c /\ op[c].kind = "io" /\ Attempt(c, op[c].fd, op[c].dir)
    BY <1>3 DEF Retry
  <2>2. c \in Co
    BY <1>1, <2>1 DEF CallsInv, All
  <2>3. <<c, op[c].fd, op[c].dir>> \in Uses
    BY <1>1, <2>1, <2>2 DEF CallsInv
  <2>4. op[c].fd \in Fds /\ op[c].dir \in E!Dir
    BY <2>3, OwnFacts
  <2> QED
    BY <2>1, <2>2, <2>3, <2>4, AttemptO
<1>4. CASE RegisterAndYield(c)
  <2>1. c \in Co
    BY <1>1, <1>4 DEF CallsInv, All, RegisterAndYield
  <2> QED
    BY <1>4, <2>1, RegisterAndYieldO
<1>5. CASE Sleep(c)
  <2>1. /\ c \in Co /\ running_co = c /\ op[c] = NoOp /\ AddTimer(c)
        /\ op' = [op EXCEPT ![c].kind = "sleep"] /\ C!YieldSwap
        /\ UNCHANGED <<table, phase, batch, cur, held, crash>>
    BY <1>5 DEF Sleep, Calls
  <2>2. Left(c, "READY")
    BY <1>1, <2>1, YieldSwapFlat
  <2>3. op'[c].kind = "sleep" /\ \A x \in All : x # c => op'[x] = op[x]
    BY <1>1, <2>1, AllIsAll DEF Ops
  <2>4. timers'[Main] = timers[Main]
    BY <1>1, <2>1, AllIsAll DEF LoopTypes, AddTimer
  <2> QED
    BY <2>1, <2>2, <2>3, <2>4, LeaveO
<1>6. CASE SleepReturns(c)
  <2>1. c \in Co
    BY <1>1, <1>6 DEF CallsInv, All, SleepReturns
  <2> QED
    BY <1>6, <2>1, SleepReturnsO
<1>7. CASE \E fd \in Fds : Close(c, fd)
  <2>1. PICK fd \in Fds : Close(c, fd)
    BY <1>7
  <2>2. c \in Co
    BY <2>1, LoopAssumption DEF Close
  <2> QED
    BY <2>1, <2>2, CloseO
<1>8. CASE Finish(c)
  <2>1. /\ running_co = c /\ op[c] = NoOp /\ C!CoMainFunc
        /\ UNCHANGED <<table, op, timers, loop, stop, crash, cut>>
    BY <1>8 DEF Finish
  <2>2. c \in Co
    BY <2>1 DEF C!CoMainFunc, All
  <2>3. Left(c, "TERMINAL")
    BY <1>1, <2>1, <2>2, CoMainFuncFlat
  <2>4. op'[c].kind = "none" /\ \A x \in All : x # c => op'[x] = op[x]
    BY <2>1 DEF NoOp
  <2> QED
    BY <2>1, <2>2, <2>3, <2>4, LeaveO DEF loop
<1> QED
  BY <1>2, <1>3, <1>4, <1>5, <1>6, <1>7, <1>8 DEF CoStep

\* Main's steps before the loop preserve OInv.
LEMMA SetupO ==
    ASSUME Own, OInv, Base',
           \/ SleepOnMain \/ (\E c \in Co : Create(c) \/ Start(c))
           \/ (\E r \in Registers : Register(r)) \/ EnterLoop
    PROVE  OInv'
<1>1. /\ Base /\ Alive /\ Registrations /\ CallsInv /\ Waiting /\ Round
      /\ Flat /\ E!TypeOK /\ LoopTypes /\ op \in [All -> Ops]
  BY OParts
<1>2. ~SleepOnMain /\ ~(\E r \in Registers : Register(r))
  BY DEF Own, SleepOnMain
<1>3. CASE \E c \in Co : Create(c) \/ Start(c)
  <2>1. PICK c \in Co : Create(c) \/ Start(c)
    BY <1>3
  <2>2. /\ running_co = Main /\ phase = "setup"
        /\ UNCHANGED <<table, op, timers, loop, crash>>
    BY <2>1 DEF Create, Start, Setup
  <2>3. /\ phase' = phase /\ batch' = batch /\ cur' = cur /\ held' = held /\ ready' = ready
        /\ reg_event' = reg_event /\ interest' = interest /\ data' = data
        /\ rdlist' = rdlist
    BY <2>2 DEF loop, table
  <2>4. Registrations'
    BY <1>1, <2>3, RegistrationsUnchanged
  <2>5. CASE Create(c)
    <3>1. /\ co_state[c] = "UNBORN" /\ co_state' = [co_state EXCEPT ![c] = "READY"]
          /\ UNCHANGED <<running_co, dummy, fault>>
      BY <1>1, <2>5, CreateFlat DEF Create
    <3>2. \A x \in Co : co_state[x] = "READY" => co_state'[x] = "READY"
      BY <1>1, <3>1, FlatTypes, AllIsAll
    <3>3. Alive' /\ CallsInv'
      BY <1>1, <2>2, <2>3, <3>1, <3>2 DEF Alive, CallsInv
    <3>4. Waiting'
      BY <1>1, <2>2, <2>3, <3>1 DEF Waiting, Coming
    <3>5. Round'
      BY <1>1, <2>3, <3>1 DEF Round, E!Registered
    <3> QED
      BY <2>4, <3>3, <3>4, <3>5 DEF OInv
  <2>6. CASE Start(c)
    <3>1. Entered(c)
      BY <1>1, <2>2, <2>6, ResumeSwapFlat, AllIsAll DEF Start
    <3>2. timers'[Main] = 0
      BY <1>1, <2>2 DEF CallsInv
    <3>3. Alive' /\ CallsInv'
      BY <1>1, <2>2, <3>1, <3>2, EnterCalls DEF Alive, Entered
    <3>4. Waiting'
      BY <1>1, <2>2, <2>3, AllIsAll DEF Waiting, Coming
    <3>5. Round'
      BY <1>1, <2>2, <2>3 DEF Round, E!Registered
    <3> QED
      BY <2>4, <3>3, <3>4, <3>5 DEF OInv
  <2> QED
    BY <2>1, <2>5, <2>6
<1>4. CASE EnterLoop
  <2>1. /\ running_co = Main /\ phase = "setup" /\ phase' = "check"
        /\ UNCHANGED <<sched, table, op, timers, batch, cur, held, crash>>
    BY <1>4 DEF EnterLoop, Setup
  <2>2. /\ ready' = ready /\ reg_event' = reg_event /\ interest' = interest
        /\ data' = data /\ rdlist' = rdlist /\ running_co' = running_co
        /\ co_state' = co_state /\ dummy' = dummy /\ fault' = fault
    BY <2>1 DEF sched, table
  <2>3. Registrations' /\ Alive' /\ CallsInv'
    BY <1>1, <2>1, <2>2, RegistrationsUnchanged DEF Alive, CallsInv
  <2>4. Waiting'
    BY <1>1, <2>1, <2>2 DEF Waiting, Coming
  <2>5. Round'
    BY <1>1, <2>1, <2>2 DEF Round, E!Registered
  <2> QED
    BY <2>3, <2>4, <2>5 DEF OInv
<1> QED
  BY <1>2, <1>3, <1>4

\* A step of the loop that only moves on.
LEMMA PhaseO ==
    ASSUME OInv, Base', running_co = Main, phase \notin {"handle"}, phase' # "handle",
           batch # {} => phase' = "batch",
           UNCHANGED <<sched, table, op, timers, batch, cur, held, crash>>
    PROVE  OInv'
<1>1. /\ Base /\ Alive /\ Registrations /\ CallsInv /\ Waiting /\ Round
  BY OParts
<1>2. /\ ready' = ready /\ reg_event' = reg_event /\ interest' = interest
      /\ data' = data /\ rdlist' = rdlist /\ running_co' = running_co
      /\ co_state' = co_state /\ dummy' = dummy /\ fault' = fault
  BY DEF sched, table
<1>3. Registrations' /\ Alive' /\ CallsInv'
  BY <1>1, <1>2, RegistrationsUnchanged DEF Alive, CallsInv
<1>4. Waiting'
  BY <1>1, <1>2 DEF Waiting, Coming
<1>5. Round'
  BY <1>1, <1>2 DEF Round, E!Registered
<1> QED
  BY <1>3, <1>4, <1>5 DEF OInv

\* No event is being handled: nothing is coming from cur, and ptr holds nothing.
LEMMA NoCurrent ==
    ASSUME Own, OInv, cur = NoEvent
    PROVE  /\ cur.left = {} /\ cur.fd = None
           /\ \A d \in E!Dir : held.co[d] = None
<1>1. cur.left = {} /\ cur.fd = None
  BY DEF NoEvent
<1>2. \A d \in E!Dir : held.co[d] # None => <<held.co[d], None, d>> \in Uses
  BY <1>1, OParts DEF Round
<1> QED
  BY <1>1, <1>2, OwnFacts, AllIsAll

\* epoll_wait hands over every descriptor a coroutine waits for.
LEMMA WaitO ==
    ASSUME Own, OInv, Wait, Base'
    PROVE  OInv'
<1>1. /\ Base /\ Alive /\ Registrations /\ CallsInv /\ Waiting /\ Round /\ E!TypeOK
  BY OParts
<1>2. /\ running_co = Main /\ phase = "wait"
      /\ batch' = E!Reported /\ phase' = "batch" /\ rdlist' = {}
      /\ UNCHANGED <<reg_event, interest, data, ready>>
      /\ UNCHANGED <<sched, op, timers, cur, held, crash>>
  BY DEF Wait, E!EpollWait, E!kernel, Looping
<1>3. /\ running_co' = running_co /\ co_state' = co_state /\ dummy' = dummy
      /\ fault' = fault
  BY <1>2 DEF sched
<1>4. batch = {} /\ cur = NoEvent /\ cur.left = {} /\ cur.fd = None
  BY <1>1, <1>2, NoCurrent DEF Round
<1>5. Registrations' /\ Alive'
  BY <1>1, <1>2, <1>3, RegistrationsUnchanged DEF Alive
<1>6. CallsInv'
  <2>1. \A x \in Co : op[x].kind # "again"
    BY <1>1, <1>2, NobodyAgain, AllIsAll
  <2> QED
    BY <1>1, <1>2, <1>3, <2>1 DEF CallsInv
<1>7. \A fd \in rdlist : ready[fd] \cap interest[fd] # {} => Event(fd) \in batch'
  BY <1>2, ReportedIs
<1>8. \A fd \in Fds : /\ Event(fd).fd = fd /\ Event(fd).mask = ready[fd] \cap interest[fd]
                      /\ Event(fd).data = data[fd]
  BY DEF Event
<1>9. \A e \in batch' : \E fd \in Fds : e = Event(fd) /\ ready[fd] \cap interest[fd] # {}
  BY <1>1, <1>2, ReportedIs DEF E!TypeOK
<1>10. Waiting'
  <2>1. ASSUME NEW x \in Co, op[x].kind = "io", running_co # x
        PROVE  /\ op[x].dir \in reg_event[op[x].fd].type
               /\ op[x].dir \in ready[op[x].fd] => Coming(op[x].fd, op[x].dir)'
    <3>1. PICK fd \in Fds : fd = op[x].fd
      BY <1>1, <2>1, OwnFacts DEF CallsInv
    <3>2. PICK d \in E!Dir : d = op[x].dir
      BY <1>1, <2>1, OwnFacts DEF CallsInv
    <3>3. d \in reg_event[fd].type /\ (d \in ready[fd] => Coming(fd, d))
      BY <1>1, <2>1, <3>1, <3>2 DEF Waiting
    <3>4. ASSUME d \in ready[fd] PROVE \E e \in batch' : e.fd = fd /\ d \in e.mask
      <4>1. fd \in rdlist
        BY <1>4, <3>3, <3>4 DEF Coming
      <4>2. d \in ready[fd] \cap interest[fd]
        BY <1>1, <3>3, <3>4 DEF Registrations
      <4> QED
        BY <1>7, <1>8, <4>1, <4>2
    <3> QED
      BY <1>2, <3>1, <3>2, <3>3, <3>4 DEF Coming
  <2> QED
    BY <1>2, <1>3, <2>1 DEF Waiting
<1>11. Round'
  <2>1. \A e \in batch' : e.data = "fd" /\ reg_event'[e.fd].type # {} /\ e.fd # cur'.fd
    <3>1. ASSUME NEW e \in batch'
          PROVE  e.data = "fd" /\ reg_event[e.fd].type # {} /\ e.fd \in Fds
      <4>1. PICK fd \in Fds : e = Event(fd) /\ ready[fd] \cap interest[fd] # {}
        BY <1>9
      <4>2. e.fd = fd /\ e.data = "fd"
        BY <1>1, <1>8, <4>1 DEF Registrations
      <4>3. interest[fd] # {}
        BY <4>1
      <4> QED
        BY <1>1, <4>2, <4>3 DEF Registrations
    <3> QED
      BY <1>2, <1>4, <3>1, AllIsAll
  <2>2. \A e, f \in batch' : e.fd = f.fd => e = f
    BY <1>8, <1>9
  <2> QED
    BY <1>1, <1>2, <1>3, <2>1, <2>2 DEF Round, E!Registered
<1> QED
  BY <1>5, <1>6, <1>10, <1>11 DEF OInv

\* The event taken is registered: what ran since epoll_wait did not close it.
LEMMA TakeEventO ==
    ASSUME Own, OInv, TakeEvent, Base'
    PROVE  OInv'
<1>1. /\ Base /\ Alive /\ Registrations /\ CallsInv /\ Waiting /\ Round
  BY OParts
<1>2. running_co = Main /\ phase = "batch" /\ cur = NoEvent
  BY <1>1 DEF TakeEvent, Looping, Round
<1>3. PICK e \in batch :
        /\ batch' = batch \ {e}
        /\ \/ /\ cur' = [fd |-> e.fd, left |-> e.mask] /\ phase' = "handle"
              /\ crash' = crash
           \/ ~(e.data = "fd" /\ E!Registered(e.fd))
        /\ UNCHANGED <<sched, table, op, timers, held>>
  BY DEF TakeEvent
<1>4. /\ cur'.fd = e.fd /\ cur'.left = e.mask /\ phase' = "handle" /\ crash' = crash
  BY <1>1, <1>3 DEF Round
<1>5. /\ ready' = ready /\ reg_event' = reg_event /\ interest' = interest
      /\ data' = data /\ rdlist' = rdlist /\ running_co' = running_co
      /\ co_state' = co_state /\ dummy' = dummy /\ fault' = fault
  BY <1>3 DEF sched, table
<1>6. Registrations' /\ Alive' /\ CallsInv'
  BY <1>1, <1>3, <1>4, <1>5, RegistrationsUnchanged DEF Alive, CallsInv
<1>7. cur.left = {} /\ cur.fd = None /\ \A d \in E!Dir : held.co[d] = None
  BY <1>2, NoCurrent
<1>8. \A fd, d : Coming(fd, d) => Coming(fd, d)'
  BY <1>3, <1>4, <1>5, <1>7 DEF Coming
<1>9. Waiting'
  BY <1>1, <1>3, <1>5, <1>8 DEF Waiting
<1>10. Round'
  <2>1. \A f \in batch' : f.data = "fd" /\ reg_event'[f.fd].type # {} /\ f.fd # cur'.fd
    BY <1>1, <1>3, <1>4, <1>5 DEF Round, E!Registered
  <2> QED
    BY <1>1, <1>2, <1>3, <1>4, <1>5, <1>7, <2>1 DEF Round, E!Registered
<1> QED
  BY <1>6, <1>9, <1>10 DEF OInv

\* The handler resumes the coroutine that waits, if one does.
LEMMA HandleO ==
    ASSUME Own, OInv, NEW d \in E!Dir, Handle(d), Base'
    PROVE  OInv'
<1>1. /\ Base /\ Alive /\ Registrations /\ CallsInv /\ Waiting /\ Round
      /\ Flat /\ E!TypeOK /\ LoopTypes
  BY OParts
<1>2. /\ phase = "handle" /\ running_co = Main /\ d \in cur.left
      /\ cur' = [cur EXCEPT !.left = @ \ {d}]
      /\ UNCHANGED <<etab, open, op, ops, timers, pass, phase, batch, held, stop, crash>>
  BY DEF Handle, Looping
<1>3. PICK fd \in Fds : fd = cur.fd
  BY <1>1, <1>2 DEF LoopTypes, Typed
<1>4. cur'.fd = fd /\ cur'.left = cur.left \ {d}
  BY <1>1, <1>2, <1>3 DEF LoopTypes
<1>5. /\ reg_event' = reg_event /\ interest' = interest /\ data' = data /\ rdlist' = rdlist
  BY <1>2 DEF etab
<1>6. Ptr.func = {} /\ (Ptr.co[d] # None => <<Ptr.co[d], fd, d>> \in Uses)
  <2>1. CASE E!Registered(cur.fd)
    BY <1>1, <1>3, <2>1 DEF Ptr, Registrations
  <2>2. CASE ~E!Registered(cur.fd)
    BY <1>1, <1>3, <2>2 DEF Ptr, Round
  <2> QED
    BY <2>1, <2>2
<1>7. /\ ready' = ready
      /\ \/ Ptr.co[d] = None /\ UNCHANGED sched
         \/ Ptr.co[d] # None /\ C!Resume(Ptr.co[d])
  BY <1>6 DEF Handle
<1>8. Registrations' /\ \A g, e : Coming(g, e) /\ ~(g = fd /\ e = d) => Coming(g, e)'
  BY <1>1, <1>2, <1>3, <1>4, <1>5, RegistrationsUnchanged DEF Coming
<1>9. \A x \in Co : op[x].kind = "io" /\ op[x].fd = fd /\ op[x].dir = d => Ptr.co[d] = x
  <2>1. ASSUME NEW x \in Co, op[x].kind = "io", op[x].fd = fd, op[x].dir = d
        PROVE  Ptr.co[d] = x
    <3>1. <<x, fd, d>> \in Uses /\ running_co # x
      BY <1>1, <1>2, <2>1, AllIsAll DEF CallsInv
    <3>2. d \in reg_event[fd].type
      BY <1>1, <2>1, <3>1 DEF Waiting
    <3>3. Ptr = reg_event[fd] /\ <<reg_event[fd].co[d], fd, d>> \in Uses
      BY <1>1, <1>3, <3>2 DEF Ptr, E!Registered, Registrations
    <3> QED
      BY <3>1, <3>3, OwnFacts
  <2> QED
    BY <2>1
<1>10. \A x \in Co : op[x].kind = "io" => co_state[x] = "READY"
  BY <1>1, <1>2, AllIsAll DEF CallsInv
<1>11. CASE UNCHANGED sched /\ (\A x \in Co : Ptr.co[d] = x => co_state[x] # "READY")
  <2>1. /\ running_co' = running_co /\ co_state' = co_state /\ dummy' = dummy
        /\ fault' = fault
    BY <1>11 DEF sched
  <2>2. Alive'
    BY <1>1, <1>2, <2>1 DEF Alive
  <2>3. CallsInv'
    BY <1>1, <1>2, <1>5, <1>7, <2>1 DEF CallsInv
  <2>4. \A x \in Co : op[x].kind = "io" => ~(op[x].fd = fd /\ op[x].dir = d)
    BY <1>9, <1>10, <1>11
  <2>5. Waiting'
    BY <1>1, <1>2, <1>5, <1>7, <1>8, <2>1, <2>4 DEF Waiting
  <2>6. Round'
    BY <1>1, <1>2, <1>3, <1>4, <1>5, <2>1 DEF Round, E!Registered
  <2> QED
    BY <1>8, <2>2, <2>3, <2>5, <2>6 DEF OInv
<1>12. CASE Ptr.co[d] # None /\ ~(co_state[Ptr.co[d]] = "TERMINAL" /\ UNCHANGED sched)
  <2>1. <<Ptr.co[d], fd, d>> \in Uses
    BY <1>6, <1>12
  <2>2. PICK x \in Co : x = Ptr.co[d]
    BY <2>1, OwnFacts
  <2>3. Entered(x)
    BY <1>1, <1>2, <1>7, <1>12, <2>2, ResumeFlat, AllIsAll
  <2>4. running_co' = x
    BY <2>3 DEF Entered
  <2>5. Alive'
    BY <1>1, <1>2, <2>3 DEF Alive, Entered
  <2>6. CallsInv'
    <3>1. timers'[Main] = 0
      BY <1>1, <1>2 DEF CallsInv
    <3> QED
      BY <1>1, <1>2, <2>3, <3>1, EnterCalls
  <2>7. Waiting'
    <3>1. ASSUME NEW y \in Co, op[y].kind = "io", running_co' # y
          PROVE  /\ op[y].dir \in reg_event[op[y].fd].type
                 /\ op[y].dir \in ready[op[y].fd] => Coming(op[y].fd, op[y].dir)'
      <4>1. ~(op[y].fd = fd /\ op[y].dir = d)
        BY <1>9, <2>2, <2>4, <3>1
      <4>2. running_co # y
        BY <1>2, AllIsAll
      <4>3. /\ op[y].dir \in reg_event[op[y].fd].type
            /\ op[y].dir \in ready[op[y].fd] => Coming(op[y].fd, op[y].dir)
        BY <1>1, <3>1, <4>2 DEF Waiting
      <4>4. op' = op
        BY <1>2
      <4> QED
        BY <1>8, <4>1, <4>3, <4>4
    <3> QED
      BY <1>2, <1>5, <1>7, <3>1 DEF Waiting
  <2>8. Round'
    <3>1. \E e \in E!Dir : <<running_co', cur'.fd, e>> \in Uses
      BY <1>4, <2>1, <2>2, <2>4
    <3> QED
      BY <1>1, <1>2, <1>3, <1>4, <1>5, <3>1 DEF Round, E!Registered
  <2> QED
    BY <1>8, <2>5, <2>6, <2>7, <2>8 DEF OInv
<1>13. None \notin Co
  BY AllIsAll
<1> QED
  BY <1>7, <1>11, <1>12, <1>13

\* The end of an event: both directions were handled, so nothing is forgotten.
LEMMA EventDoneO ==
    ASSUME Own, OInv, EventDone, Base'
    PROVE  OInv'
<1>1. /\ Base /\ Alive /\ Registrations /\ CallsInv /\ Waiting /\ Round /\ LoopTypes
  BY OParts
<1>2. /\ running_co = Main /\ phase = "handle" /\ cur.left = {}
      /\ cur' = NoEvent /\ held' = E!NoCtx /\ phase' = "batch"
      /\ UNCHANGED <<sched, table, op, timers, batch, crash>>
  BY DEF EventDone, Looping
<1>3. /\ ready' = ready /\ reg_event' = reg_event /\ interest' = interest
      /\ data' = data /\ rdlist' = rdlist /\ running_co' = running_co
      /\ co_state' = co_state /\ dummy' = dummy /\ fault' = fault
  BY <1>2 DEF sched, table
<1>4. Registrations' /\ Alive' /\ CallsInv'
  BY <1>1, <1>2, <1>3, RegistrationsUnchanged DEF Alive, CallsInv
<1>5. \A fd, d : Coming(fd, d) => Coming(fd, d)'
  BY <1>2, <1>3 DEF Coming
<1>6. Waiting'
  BY <1>1, <1>2, <1>3, <1>5 DEF Waiting
<1>7. cur'.fd = None /\ held'.func = {} /\ \A d \in E!Dir : held'.co[d] = None
  BY <1>2 DEF NoEvent, E!NoCtx
<1>8. \A e \in batch : e.fd # None
  BY <1>1, AllIsAll DEF LoopTypes
<1>9. Round'
  BY <1>1, <1>2, <1>3, <1>7, <1>8 DEF Round, E!Registered
<1> QED
  BY <1>4, <1>6, <1>9 DEF OInv

\* A timer resumes a coroutine that exists and is not running.
LEMMA FireTimerO ==
    ASSUME Own, OInv, NEW c \in All, FireTimer(c), Base'
    PROVE  OInv'
<1>1. /\ Base /\ Alive /\ Registrations /\ CallsInv /\ Waiting /\ Round /\ LoopTypes
      /\ Flat
  BY OParts
<1>2. /\ running_co = Main /\ phase = "timers" /\ timers[c] > 0
      /\ timers' = [timers EXCEPT ![c] = @ - 1] /\ C!Resume(c)
      /\ UNCHANGED <<table, op, phase, batch, cur, held, crash>>
  <2>1. due[c] > 0 /\ due[c] <= timers[c] /\ due[c] \in Int /\ timers[c] \in Int
    BY <1>1 DEF FireTimer, LoopTypes, Typed
  <2>2. timers[c] > 0
    BY <2>1
  <2> QED
    BY <2>2 DEF FireTimer, Looping
<1>3. c \in Co /\ timers'[Main] = 0
  <2>1. c # Main
    BY <1>1, <1>2 DEF CallsInv
  <2> QED
    BY <1>1, <1>2, <2>1, AllIsAll DEF CallsInv, LoopTypes, All
<1>4. UNCHANGED sched \/ Entered(c)
  BY <1>1, <1>2, <1>3, ResumeFlat, AllIsAll
<1>5. /\ ready' = ready /\ reg_event' = reg_event /\ interest' = interest
      /\ data' = data /\ rdlist' = rdlist
  BY <1>2 DEF table
<1>6. Registrations'
  BY <1>1, <1>5, RegistrationsUnchanged
<1>7. Alive'
  BY <1>1, <1>2, <1>4 DEF Alive, Entered, sched
<1>8. CallsInv'
  <2>1. CASE UNCHANGED sched
    <3>1. UNCHANGED <<running_co, co_state, dummy>>
      BY <2>1 DEF sched
    <3> QED
      BY <1>1, <1>2, <1>3, <1>5, <3>1 DEF CallsInv
  <2>2. CASE Entered(c)
    BY <1>1, <1>2, <1>3, <2>2, EnterCalls
  <2> QED
    BY <1>4, <2>1, <2>2
<1>9. Waiting'
  BY <1>1, <1>2, <1>5, AllIsAll DEF Waiting, Coming
<1>10. Round'
  BY <1>1, <1>2, <1>5 DEF Round, E!Registered
<1> QED
  BY <1>6, <1>7, <1>8, <1>9, <1>10 DEF OInv

\* Every step of Eventloop preserves OInv.
LEMMA LoopStepO ==
    ASSUME Own, OInv, LoopStep, Base'
    PROVE  OInv'
<1>1. Round
  BY OParts
<1>2. CASE CheckStop
  <2>1. /\ running_co = Main /\ phase = "check" /\ phase' # "handle"
        /\ UNCHANGED <<sched, table, op, timers, batch, cur, held, crash>>
    BY <1>2 DEF CheckStop, Looping
  <2>2. batch = {}
    BY <1>1, <2>1 DEF Round
  <2> QED
    BY <2>1, <2>2, PhaseO
<1>3. CASE BatchDone
  <2>1. /\ running_co = Main /\ phase = "batch" /\ phase' = "timers" /\ batch = {}
        /\ UNCHANGED <<sched, table, op, timers, batch, cur, held, crash>>
    BY <1>3 DEF BatchDone, Looping
  <2> QED
    BY <2>1, PhaseO
<1>4. CASE TimersDone
  <2>1. /\ running_co = Main /\ phase = "timers" /\ phase' = "check"
        /\ UNCHANGED <<sched, table, op, timers, batch, cur, held, crash>>
    BY <1>4 DEF TimersDone, Looping
  <2>2. batch = {}
    BY <1>1, <2>1 DEF Round
  <2> QED
    BY <2>1, <2>2, PhaseO
<1>5. CASE TurnSlot
  <2>1. /\ running_co = Main /\ phase = "timers" /\ phase' = "timers"
        /\ UNCHANGED <<sched, table, op, timers, batch, cur, held, crash>>
    BY <1>5 DEF TurnSlot, Looping
  <2>2. batch = {}
    BY <1>1, <2>1 DEF Round
  <2> QED
    BY <2>1, <2>2, PhaseO
<1>6. CASE Handle("IN") \/ Handle("OUT")
  BY <1>6, HandleO DEF E!Dir
<1> QED
  BY <1>2, <1>3, <1>4, <1>5, <1>6, WaitO, TakeEventO, EventDoneO, FireTimerO DEF LoopStep

\* What becomes ready while it is wanted is put on the ready list.
LEMMA PeerO ==
    ASSUME Own, OInv, Peer, Base'
    PROVE  OInv'
<1>1. /\ Base /\ Alive /\ Registrations /\ CallsInv /\ Waiting /\ Round /\ E!TypeOK
  BY OParts
<1>2. PICK fd \in Fds, d \in E!Dir : E!Happens(fd, d)
  BY DEF Peer
<1>3. /\ ready' = [ready EXCEPT ![fd] = @ \cup {d}]
      /\ rdlist' = (IF d \in interest[fd] THEN rdlist \cup {fd} ELSE rdlist)
      /\ reg_event' = reg_event /\ interest' = interest /\ data' = data
  BY <1>2 DEF E!Happens
<1>4. UNCHANGED <<sched, op, timers, loop, crash>>
  BY DEF Peer
<1>5. /\ phase' = phase /\ batch' = batch /\ cur' = cur /\ held' = held
      /\ running_co' = running_co /\ co_state' = co_state /\ dummy' = dummy
      /\ fault' = fault
  BY <1>4 DEF sched, loop
<1>6. /\ \A g \in Fds : \A e : e \in ready'[g] => e \in ready[g] \/ (g = fd /\ e = d)
      /\ rdlist \subseteq rdlist' /\ (d \in interest[fd] => fd \in rdlist')
  BY <1>1, <1>3 DEF E!TypeOK
<1>7. Registrations' /\ Alive'
  BY <1>1, <1>3, <1>4, <1>5, RegistrationsUnchanged DEF Alive
<1>8. \A x \in Co : op[x].kind \in {"again", "io"} => op[x].fd \in Fds
  <2>1. ASSUME NEW x \in Co, op[x].kind \in {"again", "io"} PROVE op[x].fd \in Fds
    <3>1. <<x, op[x].fd, op[x].dir>> \in Uses
      BY <1>1, <2>1 DEF CallsInv
    <3> QED
      BY <3>1, OwnFacts
  <2> QED
    BY <2>1
<1>9. CallsInv'
  BY <1>1, <1>3, <1>4, <1>5, <1>6, <1>8 DEF CallsInv
<1>10. Waiting'
  <2>1. ASSUME NEW x \in Co, op[x].kind = "io", running_co # x
        PROVE  /\ op[x].dir \in reg_event[op[x].fd].type
               /\ op[x].dir \in ready'[op[x].fd] => Coming(op[x].fd, op[x].dir)'
    <3>1. /\ op[x].dir \in reg_event[op[x].fd].type
          /\ op[x].dir \in ready[op[x].fd] => Coming(op[x].fd, op[x].dir)
      BY <1>1, <2>1 DEF Waiting
    <3>2. op[x].dir \in interest[op[x].fd]
      BY <1>1, <1>8, <2>1, <3>1 DEF Registrations
    <3> QED
      BY <1>4, <1>5, <1>6, <1>8, <2>1, <3>1, <3>2 DEF Coming
  <2> QED
    BY <1>3, <1>4, <1>5, <2>1 DEF Waiting
<1>11. Round'
  BY <1>1, <1>3, <1>5 DEF Round, E!Registered
<1> QED
  BY <1>7, <1>9, <1>10, <1>11 DEF OInv

\* Steps that change nothing the invariant speaks of.
LEMMA QuietO ==
    ASSUME OInv, UNCHANGED <<sched, table, op, timers, loop, crash>>, Base'
    PROVE  OInv'
<1>1. /\ Base /\ Alive /\ Registrations /\ CallsInv /\ Waiting /\ Round
  BY OParts
<1>2. /\ phase' = phase /\ batch' = batch /\ cur' = cur /\ held' = held
      /\ running_co' = running_co /\ co_state' = co_state /\ dummy' = dummy
      /\ fault' = fault /\ ready' = ready /\ reg_event' = reg_event
      /\ interest' = interest /\ data' = data /\ rdlist' = rdlist
  BY DEF sched, table, loop
<1>3. Registrations' /\ Alive' /\ CallsInv'
  BY <1>1, <1>2, RegistrationsUnchanged DEF Alive, CallsInv
<1>4. Waiting'
  BY <1>1, <1>2 DEF Waiting, Coming
<1>5. Round'
  BY <1>1, <1>2 DEF Round, E!Registered
<1> QED
  BY <1>3, <1>4, <1>5 DEF OInv

\* OInv holds initially.
LEMMA OInvInit == Own /\ Init => OInv
<1> SUFFICES ASSUME Own, Init PROVE OInv
  OBVIOUS
<1>1. Base
  BY BaseInit
<1>2. /\ running_co = Main /\ fault = "none" /\ crash = "none" /\ phase = "setup"
      /\ batch = {} /\ cur = NoEvent /\ held = E!NoCtx
      /\ \A c \in All : op[c] = NoOp /\ timers[c] = 0
  BY AllIsAll DEF Init, C!Init, C!InitThreadSchedule
<1>3. \A fd \in Fds : reg_event[fd] = E!NoCtx /\ interest[fd] = {} /\ data[fd] = "fd"
  BY DEF Init, E!Init
<1>4. E!NoCtx.type = {} /\ E!NoCtx.func = {} /\ \A d \in E!Dir : E!NoCtx.co[d] = None
  BY DEF E!NoCtx
<1>5. \A c \in All : op[c].kind = "none"
  BY <1>2 DEF NoOp
<1>6. Alive /\ Registrations /\ CallsInv /\ Waiting
  BY <1>2, <1>3, <1>4, <1>5, AllIsAll DEF Alive, Registrations, CallsInv, Waiting
<1>7. Round
  BY <1>2, <1>4 DEF Round
<1> QED
  BY <1>1, <1>6, <1>7 DEF OInv

\* Every step preserves OInv.
LEMMA OInvStep == Own /\ OInv /\ [Next]_vars => OInv'
<1> SUFFICES ASSUME Own, OInv, [Next]_vars PROVE OInv'
  OBVIOUS
<1>1. Base'
  BY BaseStep, OParts
<1>2. CASE UNCHANGED vars \/ Over
  <2>1. UNCHANGED <<sched, table, op, timers, loop, crash>>
    BY <1>2 DEF vars, Over
  <2> QED
    BY <1>1, <2>1, QuietO
<1>3. CASE StopEventLoop
  BY <1>1, <1>3, QuietO DEF StopEventLoop
<1> QED
  BY <1>1, <1>2, <1>3, CoStepO, SetupO, LoopStepO, PeerO DEF Next, Thread

\* OInv is an invariant when every descriptor has one user.
LEMMA SpecOInv == Own /\ Spec => []OInv
<1>1. Own => Own'
  BY DEF Own
<1> QED
  BY <1>1, OInvInit, OInvStep, PTL DEF Spec

-----------------------------------------------------------------------------
(* Theorems about descriptors with one user.                               *)

\* However arrivals fall between the failed call, RegisterEvent and the switch
\* of do_io, the loop will handle the event and resume the coroutine that
\* waits for it: for any number of coroutines and descriptors.
THEOREM WakeupNeverLost == Own /\ Spec => []WakeupNotLost
<1>1. Own => Own'
  BY DEF Own
<1>2. Own /\ OInv => WakeupNotLost
  <2> SUFFICES ASSUME Own, OInv, NEW c \in Co, NEW fd \in Fds, NEW d \in E!Dir,
                      Blocked(c, fd, d), d \in ready[fd]
               PROVE  /\ reg_event[fd].co[d] = c
                      /\ \/ fd \in rdlist /\ d \in interest[fd]
                         \/ \E e \in batch : e.fd = fd /\ d \in e.mask
                         \/ cur.fd = fd /\ d \in cur.left
    BY DEF WakeupNotLost
  <2>1. op[c].kind = "io" /\ op[c].fd = fd /\ op[c].dir = d /\ running_co # c
    BY DEF Blocked
  <2>2. Registrations /\ CallsInv /\ Waiting
    BY OParts
  <2>3. <<c, fd, d>> \in Uses /\ d \in reg_event[fd].type /\ Coming(fd, d)
    BY <2>1, <2>2 DEF CallsInv, Waiting
  <2>4. <<reg_event[fd].co[d], fd, d>> \in Uses /\ d \in interest[fd]
    BY <2>2, <2>3 DEF Registrations
  <2>5. reg_event[fd].co[d] = c
    BY <2>3, <2>4, OwnFacts
  <2> QED
    BY <2>3, <2>4, <2>5 DEF Coming
<1> QED
  BY <1>1, <1>2, SpecOInv, PTL

\* When main makes no hooked call itself, the thread never dies: no assertion
\* of Resume fails and reg_event_[ev.data.fd] is never null in Eventloop, however
\* events, timers, closes and terminations interleave.
THEOREM LoopLives == Own /\ Spec => []Alive /\ DiesOnlyByMain
<1>1. OInv => Alive
  BY DEF OInv
<1>2. OInv /\ OInv' => [~Alive' => SleepOnMain \/ ResumesMain]_vars
  BY DEF OInv, Alive
<1> QED
  BY <1>1, <1>2, SpecOInv, PTL DEF DiesOnlyByMain

-----------------------------------------------------------------------------
(* Sleeping.                                                               *)

\* What a coroutine does I/O on names it.
LEMMA UsesNamed == Uses \subseteq Named
BY DEF Named

\* Having been cut short is history.
LEMMA StaysCut == cut \subseteq cut' => \A x : WasCut(x) => WasCut(x)'
BY DEF WasCut, Named

\* A step that concerns one coroutine.
LEMMA SFrom ==
    ASSUME SInv, NEW c \in Co, cut \subseteq cut',
           \A x \in Co : x # c => /\ op'[x] = op[x] /\ timers'[x] = timers[x]
                                  /\ running_co' # x,
           \/ WasCut(c)' \/ timers'[c] = 0
           \/ timers'[c] = 1 /\ op'[c].kind = "sleep" /\ running_co' # c
    PROVE  SInv'
<1>1. ASSUME NEW x \in Co, x # c
      PROVE  \/ WasCut(x)' \/ timers'[x] = 0
             \/ timers'[x] = 1 /\ op'[x].kind = "sleep" /\ running_co' # x
  BY <1>1, StaysCut DEF SInv
<1> QED
  BY <1>1 DEF SInv

\* Steps that touch neither timers nor calls nor switch.
LEMMA SQuiet == SInv /\ UNCHANGED <<timers, op, running_co, cut>> => SInv'
BY StaysCut DEF SInv

\* A step of a coroutine that has no timer left over.
LEMMA CoStepS ==
    ASSUME Own, OInv, SInv, NEW c \in All, CoStep(c)
    PROVE  SInv'
<1>1. /\ Base /\ CallsInv /\ Flat /\ LoopTypes /\ op \in [All -> Ops]
  BY OParts
<1>2. running_co = c
  BY DEF CoStep, DoIo, Calls, Retry, RegisterAndYield, Sleep, SleepReturns, Close, Finish
<1>3. c \in Co
  <2>1. CASE \E fd \in Fds, d \in E!Dir : DoIo(c, fd, d)
    BY <2>1, OwnFacts DEF DoIo
  <2>2. CASE Retry(c) \/ RegisterAndYield(c) \/ SleepReturns(c)
    BY <1>1, <2>2 DEF CallsInv, All, Retry, RegisterAndYield, SleepReturns
  <2>3. CASE Sleep(c) \/ Finish(c)
    BY <1>2, <2>3 DEF Sleep, Finish, C!CoMainFunc, All
  <2>4. CASE \E fd \in Fds : Close(c, fd)
    BY <2>4, LoopAssumption DEF Close
  <2> QED
    BY <2>1, <2>2, <2>3, <2>4 DEF CoStep
<1>4. WasCut(c) \/ timers[c] = 0
  BY <1>2, <1>3 DEF SInv
<1>5. ASSUME UNCHANGED <<timers, cut>>, running_co' \in {c, Main},
             \A x \in All : x # c => op'[x] = op[x]
      PROVE  SInv'
  <2>1. \A x \in Co : x # c => running_co' # x
    BY <1>5, AllIsAll
  <2>2. WasCut(c)' \/ timers'[c] = 0
    BY <1>4, <1>5, StaysCut
  <2> QED
    BY <1>3, <1>5, <2>1, <2>2, AllIsAll, SFrom
<1>6. ASSUME NEW fd, NEW d, Attempt(c, fd, d) PROVE SInv'
  <2>1. UNCHANGED <<timers, cut>> /\ running_co' = c
    BY <1>2, <1>6 DEF Attempt, sched
  <2>2. \A x \in All : x # c => op'[x] = op[x]
    BY <1>1, <1>6 DEF Attempt
  <2> QED
    BY <1>5, <2>1, <2>2
<1>7. CASE (\E fd \in Fds, d \in E!Dir : DoIo(c, fd, d)) \/ Retry(c)
  BY <1>6, <1>7 DEF DoIo, Retry
<1>8. CASE RegisterAndYield(c)
  <2>1. /\ op' = [op EXCEPT ![c].kind = "io"] /\ C!YieldSwap
        /\ UNCHANGED <<open, ready, timers, loop, stop, crash, cut>>
    BY <1>1, <1>3, <1>8, RegisterAndYieldParts, AllIsAll
  <2>2. running_co' = Main
    BY <1>1, <1>2, <1>3, <2>1, YieldSwapFlat DEF Left
  <2>3. \A x \in All : x # c => op'[x] = op[x]
    BY <1>1, <2>1
  <2> QED
    BY <1>5, <2>1, <2>2, <2>3
<1>9. CASE Sleep(c)
  <2>1. /\ timers' = [timers EXCEPT ![c] = @ + 1]
        /\ op' = [op EXCEPT ![c].kind = "sleep"] /\ C!YieldSwap /\ cut' = cut
    BY <1>9 DEF Sleep, AddTimer
  <2>2. running_co' = Main
    BY <1>1, <1>2, <1>3, <2>1, YieldSwapFlat DEF Left
  <2>3. /\ op'[c].kind = "sleep" /\ running_co' # c
        /\ \A x \in Co : x # c => op'[x] = op[x] /\ running_co' # x
    BY <1>1, <1>3, <2>1, <2>2, AllIsAll DEF Ops
  <2>4. /\ timers[c] = 0 => timers'[c] = 1
        /\ \A x \in Co : x # c => timers'[x] = timers[x]
    BY <1>1, <1>3, <2>1, AllIsAll DEF LoopTypes
  <2>5. WasCut(c) => WasCut(c)'
    BY <2>1, StaysCut
  <2> QED
    BY <1>3, <1>4, <2>1, <2>3, <2>4, <2>5, SFrom
<1>10. CASE SleepReturns(c)
  <2>1. UNCHANGED <<timers, cut>> /\ running_co' = c
    BY <1>2, <1>10 DEF SleepReturns, sched
  <2>2. \A x \in All : x # c => op'[x] = op[x]
    BY <1>1, <1>10 DEF SleepReturns
  <2> QED
    BY <1>5, <2>1, <2>2
<1>11. CASE \E fd \in Fds : Close(c, fd)
  BY <1>11, SQuiet DEF Close, sched
<1>12. CASE Finish(c)
  <2>1. C!CoMainFunc /\ UNCHANGED <<op, timers, cut>>
    BY <1>12 DEF Finish
  <2>2. running_co' = Main
    BY <1>1, <1>2, <1>3, <2>1, CoMainFuncFlat DEF Left
  <2> QED
    BY <1>5, <2>1, <2>2
<1> QED
  BY <1>7, <1>8, <1>9, <1>10, <1>11, <1>12 DEF CoStep

\* Main's steps before the loop preserve SInv.
LEMMA SetupS ==
    ASSUME Own, OInv, SInv,
           \/ SleepOnMain \/ (\E c \in Co : Create(c) \/ Start(c))
           \/ (\E r \in Registers : Register(r)) \/ EnterLoop
    PROVE  SInv'
<1>1. CallsInv /\ Flat
  BY OParts
<1>2. ~SleepOnMain /\ ~(\E r \in Registers : Register(r))
  BY DEF Own, SleepOnMain
<1>3. ASSUME NEW c \in Co, Create(c) PROVE SInv'
  <2>1. UNCHANGED <<timers, op, cut>>
    BY <1>3 DEF Create
  <2>2. UNCHANGED running_co
    BY <1>1, <1>3, CreateFlat DEF Create
  <2> QED
    BY <2>1, <2>2, SQuiet
<1>4. ASSUME NEW c \in Co, Start(c) PROVE SInv'
  <2>1. running_co = Main /\ dummy[c] = "null" /\ C!ResumeSwap(c)
        /\ UNCHANGED <<op, timers, cut>>
    BY <1>4 DEF Start, Setup
  <2>2. Entered(c)
    BY <1>1, <2>1, ResumeSwapFlat, AllIsAll
  <2>3. op[c].kind = "none"
    BY <1>1, <2>1, AllIsAll DEF CallsInv
  <2>4. WasCut(c)' \/ timers'[c] = 0
    BY <2>1, <2>3, StaysCut DEF SInv
  <2> QED
    BY <2>1, <2>2, <2>4, SFrom DEF Entered
<1>5. CASE EnterLoop
  BY <1>5, SQuiet DEF EnterLoop, sched
<1> QED
  BY <1>2, <1>3, <1>4, <1>5

\* Every step of Eventloop preserves SInv: an event that resumes a sleeper is
\* one of its own descriptors, and a timer that does is its last.
LEMMA LoopStepS ==
    ASSUME Own, OInv, SInv, LoopStep
    PROVE  SInv'
<1>1. CallsInv /\ Flat /\ LoopTypes /\ Registrations /\ Round
  BY OParts
<1>2. CASE CheckStop \/ Wait \/ TakeEvent \/ EventDone \/ BatchDone \/ TurnSlot \/ TimersDone
  <2>1. UNCHANGED <<timers, op, running_co, cut>>
    BY <1>2 DEF CheckStop, Wait, TakeEvent, EventDone, BatchDone, TurnSlot, TimersDone, sched
  <2> QED
    BY <2>1, SQuiet
<1>3. ASSUME NEW d \in E!Dir, Handle(d) PROVE SInv'
  <2>1. /\ running_co = Main /\ phase = "handle" /\ UNCHANGED <<timers, op>>
    BY <1>3 DEF Handle, Looping
  <2>2. \/ UNCHANGED sched /\ cut' = cut
        \/ /\ Ptr.co[d] # None /\ C!Resume(Ptr.co[d])
           /\ cut' = (IF op[Ptr.co[d]].kind = "sleep"
                      THEN cut \cup {<<Ptr.co[d], cur.fd, d>>} ELSE cut)
    BY <1>3 DEF Handle
  <2>3. CASE UNCHANGED sched /\ cut' = cut
    BY <2>1, <2>3, SQuiet DEF sched
  <2>4. CASE /\ Ptr.co[d] # None /\ C!Resume(Ptr.co[d])
             /\ cut' = (IF op[Ptr.co[d]].kind = "sleep"
                        THEN cut \cup {<<Ptr.co[d], cur.fd, d>>} ELSE cut)
    <3>1. PICK fd \in Fds : fd = cur.fd
      BY <1>1, <2>1 DEF LoopTypes, Typed
    <3>2. <<Ptr.co[d], fd, d>> \in Uses
      <4>1. CASE E!Registered(cur.fd)
        BY <1>1, <2>4, <3>1, <4>1 DEF Ptr, Registrations
      <4>2. CASE ~E!Registered(cur.fd)
        BY <1>1, <2>4, <3>1, <4>2 DEF Ptr, Round
      <4> QED
        BY <4>1, <4>2
    <3>3. PICK c \in Co : c = Ptr.co[d]
      BY <3>2, OwnFacts
    <3>4. cut \subseteq cut' /\ (op[c].kind = "sleep" => <<c, fd, d>> \in cut')
      BY <2>4, <3>1, <3>3
    <3>5. op[c].kind = "sleep" => WasCut(c)'
      <4>1. <<c, fd, d>> \in Named
        BY <3>2, <3>3, UsesNamed
      <4>2. Named' = Named
        BY DEF Named
      <4> QED
        BY <3>4, <4>1, <4>2 DEF WasCut
    <3>6. \/ WasCut(c)' \/ timers'[c] = 0
      BY <2>1, <3>4, <3>5, StaysCut DEF SInv
    <3>7. running_co' \in {Main, c}
      BY <1>1, <2>1, <2>4, <3>3, ResumeFlat, AllIsAll DEF Entered, sched
    <3>8. \A x \in Co : x # c => op'[x] = op[x] /\ timers'[x] = timers[x] /\ running_co' # x
      BY <2>1, <3>7, AllIsAll
    <3> QED
      BY <3>4, <3>6, <3>8, SFrom
  <2> QED
    BY <2>2, <2>3, <2>4
<1>4. ASSUME NEW c \in All, FireTimer(c) PROVE SInv'
  <2>1. /\ running_co = Main /\ due[c] > 0
        /\ timers' = [timers EXCEPT ![c] = @ - 1] /\ C!Resume(c)
        /\ UNCHANGED <<op, cut>>
    BY <1>4 DEF FireTimer, Looping
  <2>2. timers[c] > 0
    <3>1. due[c] <= timers[c] /\ due[c] \in Int /\ timers[c] \in Int
      BY <1>1 DEF LoopTypes, Typed
    <3> QED
      BY <2>1, <3>1
  <2>3. c \in Co
    BY <1>1, <2>2 DEF CallsInv, All
  <2>4. /\ timers[c] = 1 => timers'[c] = 0
        /\ \A x \in Co : x # c => timers'[x] = timers[x]
    BY <1>1, <2>1, <2>3, AllIsAll DEF LoopTypes
  <2>5. WasCut(c)' \/ timers'[c] = 0
    <3>1. WasCut(c) \/ timers[c] = 1
      BY <2>2, <2>3 DEF SInv
    <3> QED
      BY <2>1, <2>4, <3>1, StaysCut
  <2>6. running_co' \in {Main, c}
    BY <1>1, <2>1, <2>3, ResumeFlat, AllIsAll DEF Entered, sched
  <2>7. \A x \in Co : x # c => op'[x] = op[x] /\ running_co' # x
    BY <2>1, <2>6, AllIsAll
  <2> QED
    BY <2>1, <2>3, <2>4, <2>5, <2>7, SFrom
<1> QED
  BY <1>2, <1>3, <1>4 DEF LoopStep, E!Dir

\* Every step preserves SInv.
LEMMA SInvStep == Own /\ OInv /\ SInv /\ [Next]_vars => SInv'
<1> SUFFICES ASSUME Own, OInv, SInv, [Next]_vars PROVE SInv'
  OBVIOUS
<1>1. CASE UNCHANGED vars \/ Over \/ StopEventLoop \/ Peer
  <2>1. UNCHANGED <<timers, op, running_co, cut>>
    BY <1>1 DEF vars, Over, StopEventLoop, Peer, sched
  <2> QED
    BY <2>1, SQuiet
<1> QED
  BY <1>1, CoStepS, SetupS, LoopStepS DEF Next, Thread

\* A sleep ends before its timer has fired only for a coroutine that an event of
\* one of its own descriptors has once resumed in a sleep: do_io leaves its
\* registration in the table, and nothing else resumes a sleeper.
THEOREM SleepCutOnlyByLeftover == Own /\ Spec => []SleepCutOnlyByOwnFd
<1>1. Own => Own'
  BY DEF Own
<1>2. Init => SInv
  BY AllIsAll DEF Init, SInv
<1>3. SInv => SleepCutOnlyByOwnFd
  <2> SUFFICES ASSUME SInv, NEW c \in Co, running_co = c, timers[c] > 0
               PROVE  WasCut(c)
    BY DEF SleepCutOnlyByOwnFd, WasCut
  <2> QED
    BY DEF SInv
<1> QED
  BY <1>1, <1>2, <1>3, SInvStep, SpecOInv, PTL DEF Spec
=============================================================================
