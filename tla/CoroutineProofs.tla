-------------------------- MODULE CoroutineProofs --------------------------
(***************************************************************************)
(* Safety of the coroutine scheduler for every set of coroutines, every    *)
(* number of shared buffers and every client, re-entrant ones included;    *)
(* and, for clients that do not resume a coroutine in the middle of a      *)
(* call, that the scheduler implements call and return (CoroutineCalls)    *)
(* and that the switches to and from main never fault.                     *)
(***************************************************************************)
EXTENDS MCCoroutine, TLAPS

\* The part of the inductive invariant about the execute stack.  Neighbours on
\* it differ, so a switch always changes stacks.
StackInv ==
    /\ StackShape
    /\ OnlyTopIsRunning
    /\ \A i \in 1 .. (Len(co_stack) - 1) : co_stack[i] # co_stack[i + 1]
    /\ \A i \in 1 .. Len(co_stack) : co_state[co_stack[i]] # "UNBORN"

\* c has executed: it is running, or has been switched out.
Started(c) == c = running_co \/ dummy[c] = "set"

\* The part about stack memory: the occupant recorded in a buffer is the
\* coroutine whose frames it holds, and everybody else has a good copy.
MemInv ==
    /\ stack_mem[Main] = Private
    /\ \A c \in Co : co_state[c] = "UNBORN" => dummy[c] = "null"
    /\ \A m \in Mem : frames[m] = occupy_co[m]
    /\ \A m \in Mem : occupy_co[m] # None =>
         /\ stack_mem[occupy_co[m]] = m
         /\ co_state[occupy_co[m]] # "UNBORN"
         /\ Started(occupy_co[m])
    /\ \A c \in Co : stack_mem[c] # Private /\ Started(c) =>
         /\ occupy_co[stack_mem[c]] # None
         /\ occupy_co[stack_mem[c]] = c \/ (c # running_co /\ saved_stack[c] = "fresh")

IInv == TypeOK /\ StackInv /\ MemInv /\ fault # "bad_alloc"

-----------------------------------------------------------------------------
\* InitThreadSchedule and AllocSharedMem establish the invariant.
LEMMA InitIInv == Init => IInv
<1> SUFFICES ASSUME Init PROVE IInv
  OBVIOUS
<1> USE ConstantsAssumption DEF Init, InitThreadSchedule, AllocSharedMem, All
<1>1. TypeOK
  BY DEF TypeOK, Mem, Private, States, Copies, Faults
<1>2. StackInv
  BY DEF StackInv, StackShape, OnlyTopIsRunning
<1>3. MemInv
  BY DEF MemInv, Started, Mem, Private
<1> QED
  BY <1>1, <1>2, <1>3 DEF IInv

\* What a switch does to the stack memory, from any caller to any other
\* coroutine that exists.
LEMMA SwapMemory ==
  ASSUME IInv, NEW next \in All, next # running_co,
         co_state[next] # "UNBORN",
         SwapContext(running_co, next),
         stack_mem' = stack_mem, running_co' = next,
         \A c \in All : co_state'[c] = "UNBORN" <=> co_state[c] = "UNBORN"
  PROVE  /\ occupy_co' \in [Mem -> Co \cup {None}]
         /\ dummy' \in [All -> {"null", "set"}]
         /\ saved_stack' \in [All -> Copies]
         /\ frames' \in [Mem -> Co \cup {None}]
         /\ fault' \in Faults \ {"bad_alloc"}
         /\ MemInv'
<1> DEFINE prev == running_co
           m == stack_mem[next]
           d == Displaced(next)
<1> USE ConstantsAssumption DEF All
<1>0. TypeOK /\ MemInv /\ prev \in All /\ running_co' = next
  BY DEF IInv, TypeOK
<1>1. m # Private => m \in Mem /\ next \in Co
  BY <1>0 DEF TypeOK, MemInv
<1>2. d # None => /\ m \in Mem /\ d = occupy_co[m] /\ d # next /\ d \in Co
                  /\ stack_mem[d] = m /\ Started(d) /\ frames[m] = d
                  /\ co_state[d] # "UNBORN"
  BY <1>0, <1>1 DEF TypeOK, MemInv, Displaced
<1>3. d # None => SaveStack(d) = "fresh"
  BY <1>2 DEF SaveStack
<1>4. m # Private => ResumeStack(next) \in Co \cup {None}
  BY <1>0, <1>1 DEF ResumeStack, TypeOK, Copies
<1>5. /\ occupy_co' \in [Mem -> Co \cup {None}]
      /\ \A k \in Mem : occupy_co'[k] = IF k = m THEN next ELSE occupy_co[k]
  <2>1. CASE m = Private
    BY <2>1, <1>0 DEF SwapContext, TypeOK, Mem, Private
  <2>2. CASE m # Private
    BY <2>2, <1>0, <1>1 DEF SwapContext, TypeOK
  <2> QED BY <2>1, <2>2
<1>6. /\ dummy' \in [All -> {"null", "set"}]
      /\ \A c \in All : dummy'[c] = IF c = prev THEN "set" ELSE dummy[c]
  BY <1>0 DEF SwapContext, TypeOK
<1>7. /\ saved_stack' \in [All -> Copies]
      /\ \A c \in All : c # next /\ saved_stack[c] = "fresh" => saved_stack'[c] = "fresh"
      /\ d # None => saved_stack'[d] = "fresh"
  BY <1>0, <1>2, <1>3 DEF SwapContext, TypeOK, Copies
<1>8. m # Private /\ d = None /\ dummy[next] = "set" => frames[m] = next
  BY <1>0, <1>1 DEF MemInv, Displaced, Started, TypeOK
<1>9. m # Private /\ d # None => ResumeStack(next) = next
  <2> SUFFICES ASSUME m # Private, d # None, dummy[next] = "set"
               PROVE  ResumeStack(next) = next
    BY <1>0 DEF ResumeStack, TypeOK
  <2>1. saved_stack[next] = "fresh"
    BY <1>0, <1>1, <1>2 DEF MemInv, Started
  <2> QED BY <2>1 DEF ResumeStack
<1>10. m # Private /\ dummy[next] = "null" => ResumeStack(next) = next
  BY DEF ResumeStack
<1>11. /\ frames' \in [Mem -> Co \cup {None}]
       /\ \A k \in Mem : frames'[k] = IF k = m THEN next ELSE frames[k]
  <2>1. CASE m = Private
    BY <2>1, <1>0 DEF SwapContext, TypeOK, Mem, Private
  <2>2. CASE m # Private
    <3>1. CASE d # None \/ dummy[next] = "null"
      BY <3>1, <2>2, <1>0, <1>1, <1>9, <1>10 DEF SwapContext, TypeOK
    <3>2. CASE ~(d # None \/ dummy[next] = "null")
      <4>1. frames[m] = next
        BY <3>2, <2>2, <1>0, <1>8 DEF TypeOK
      <4>2. frames' = [frames EXCEPT ![m] = @]
        BY <3>2, <2>2 DEF SwapContext
      <4> QED BY <4>1, <4>2, <2>2, <1>0, <1>1 DEF TypeOK
    <3> QED BY <3>1, <3>2
  <2> QED BY <2>1, <2>2
<1>12. fault' \in Faults \ {"bad_alloc"}
  <2>1. ~(d # None /\ d # prev /\ dummy[d] = "null")
    BY <1>0, <1>2 DEF Started, TypeOK
  <2>2. SwapOutcomes(prev, next) \subseteq {"none", "exited", "clobbered"}
    BY <2>1 DEF SwapOutcomes
  <2> QED BY <2>2 DEF SwapContext, Faults
<1>13. \A c \in All : Started(c)' <=> Started(c) \/ c = next
  BY <1>0, <1>6 DEF Started
<1>14. MemInv'
  <2>1. stack_mem'[Main] = Private
    BY <1>0 DEF MemInv
  <2>2. \A c \in Co : co_state'[c] = "UNBORN" => dummy'[c] = "null"
    <3>1. co_state[prev] # "UNBORN"
      BY DEF IInv, StackInv, StackShape, TypeOK
    <3> QED BY <3>1, <1>0, <1>6 DEF MemInv
  <2>3. \A k \in Mem : frames'[k] = occupy_co'[k]
    BY <1>0, <1>5, <1>11 DEF MemInv
  <2>4. ASSUME NEW k \in Mem, occupy_co'[k] # None
        PROVE  /\ stack_mem'[occupy_co'[k]] = k
               /\ co_state'[occupy_co'[k]] # "UNBORN"
               /\ Started(occupy_co[k])'
    <3>1. CASE k = m
      <4>1. occupy_co'[k] = next
        BY <3>1, <1>5
      <4>2. Started(next)'
        BY <1>13
      <4> QED BY <4>1, <4>2, <3>1 DEF Started
    <3>2. CASE k # m
      <4>1. occupy_co'[k] = occupy_co[k] /\ occupy_co[k] \in Co
        BY <3>2, <2>4, <1>0, <1>5 DEF TypeOK
      <4>2. /\ stack_mem[occupy_co[k]] = k
            /\ co_state[occupy_co[k]] # "UNBORN"
            /\ Started(occupy_co[k])
        BY <4>1, <2>4, <1>0 DEF MemInv
      <4>3. PICK c \in Co : c = occupy_co[k] /\ c = occupy_co'[k]
        BY <4>1
      <4>4. Started(c)'
        BY <4>2, <4>3, <1>13
      <4> QED BY <4>2, <4>3, <4>4 DEF Started
    <3> QED BY <3>1, <3>2
  <2>5. ASSUME NEW c \in Co, stack_mem'[c] # Private, Started(c)'
        PROVE  /\ occupy_co'[stack_mem'[c]] # None
               /\ \/ occupy_co'[stack_mem'[c]] = c
                  \/ c # running_co' /\ saved_stack'[c] = "fresh"
    <3>1. stack_mem'[c] = stack_mem[c] /\ stack_mem[c] \in Mem
      BY <2>5, <1>0 DEF TypeOK
    <3>2. CASE c = next
      BY <3>1, <3>2, <1>0, <1>5, <1>1, <2>5
    <3>3. CASE c # next
      <4>1. /\ occupy_co[stack_mem[c]] # None
            /\ \/ occupy_co[stack_mem[c]] = c
               \/ c # running_co /\ saved_stack[c] = "fresh"
        BY <3>3, <3>1, <2>5, <1>0, <1>13 DEF MemInv
      <4>2. CASE stack_mem[c] # m
        BY <4>1, <4>2, <3>1, <3>3, <1>0, <1>5, <1>7
      <4>3. CASE stack_mem[c] = m
        <5>1. occupy_co'[m] = next /\ next # None
          BY <4>3, <3>1, <1>5, <1>0
        <5>2. CASE occupy_co[m] = c
          <6>1. d = c
            BY <5>2, <4>3, <3>1, <3>3, <2>5, <1>0 DEF Displaced
          <6> QED BY <6>1, <5>1, <4>3, <3>1, <3>3, <1>0, <1>7
        <5>3. CASE c # running_co /\ saved_stack[c] = "fresh"
          BY <5>3, <5>1, <4>3, <3>1, <3>3, <1>0, <1>7
        <5> QED BY <5>2, <5>3, <4>1, <4>3
      <4> QED BY <4>2, <4>3
    <3> QED BY <3>2, <3>3
  <2> QED BY <2>1, <2>2, <2>3, <2>4, <2>5 DEF MemInv
<1> QED BY <1>5, <1>6, <1>7, <1>11, <1>12, <1>14

\* Resume of a finished coroutine and Yield on main change nothing.
LEMMA StutterIInv == IInv /\ UNCHANGED vars => IInv'
BY DEF IInv, TypeOK, StackInv, StackShape, OnlyTopIsRunning, MemInv, Started,
       vars, schedule, stacks

\* CreateCoroutine preserves the invariant.
LEMMA CreateIInv ==
  ASSUME IInv, NEW c \in Co, NEW shared \in BOOLEAN, CreateCoroutine(c, shared)
  PROVE  IInv'
<1> USE ConstantsAssumption DEF All
<1>0. /\ TypeOK /\ StackInv /\ MemInv /\ fault' = fault /\ fault # "bad_alloc"
      /\ co_stack' = co_stack /\ stack_top' = stack_top /\ running_co' = running_co
      /\ occupy_co' = occupy_co /\ dummy' = dummy /\ saved_stack' = saved_stack
      /\ frames' = frames
  BY DEF IInv, CreateCoroutine, schedule, stacks
<1>1. GetStackMem \in Mem
  BY <1>0 DEF GetStackMem, Mem, TypeOK
<1>2. /\ co_state' = [co_state EXCEPT ![c] = "READY"]
      /\ \A e \in All : e # c => stack_mem'[e] = stack_mem[e]
      /\ stack_mem' \in [All -> Mem \cup {Private}]
      /\ idx' \in Nat
      /\ co_state[c] = "UNBORN"
  BY <1>0, <1>1 DEF CreateCoroutine, TypeOK
<1>3. TypeOK'
  BY <1>0, <1>2 DEF TypeOK, States
<1>4. c # running_co /\ dummy[c] = "null"
  BY <1>0, <1>2 DEF StackInv, StackShape, MemInv, TypeOK
<1>5. StackInv'
  BY <1>0, <1>2, <1>4 DEF StackInv, StackShape, OnlyTopIsRunning, TypeOK
<1>6. MemInv'
  <2>1. \A m \in Mem : occupy_co[m] # c
    BY <1>0, <1>2 DEF MemInv, TypeOK
  <2>2. ~Started(c) /\ \A e \in All : Started(e)' <=> Started(e)
    BY <1>0, <1>4 DEF Started
  <2>3. stack_mem'[Main] = Private
    BY <1>0, <1>2 DEF MemInv
  <2>4. \A e \in Co : co_state'[e] = "UNBORN" => dummy'[e] = "null"
    BY <1>0, <1>2 DEF MemInv, TypeOK
  <2>5. \A m \in Mem : occupy_co'[m] # None =>
          /\ stack_mem'[occupy_co'[m]] = m
          /\ co_state'[occupy_co'[m]] # "UNBORN"
          /\ Started(occupy_co[m])'
    BY <1>0, <1>2, <2>1 DEF MemInv, TypeOK, Started
  <2>6. \A e \in Co : stack_mem'[e] # Private /\ Started(e)' =>
          /\ occupy_co'[stack_mem'[e]] # None
          /\ \/ occupy_co'[stack_mem'[e]] = e
             \/ e # running_co' /\ saved_stack'[e] = "fresh"
    BY <1>0, <1>2, <2>2 DEF MemInv
  <2> QED BY <1>0, <2>3, <2>4, <2>5, <2>6 DEF MemInv
<1> QED BY <1>0, <1>3, <1>5, <1>6 DEF IInv

\* A failed assertion of Resume ends the process and touches nothing else.
LEMMA AssertIInv ==
  ASSUME IInv, NEW c \in All, ResumeAssert(c)
  PROVE  IInv'
<1>1. fault' \in Faults \ {"bad_alloc"}
  BY DEF ResumeAssert, Faults
<1>2. UNCHANGED <<co_state, schedule, stack_mem, idx, stacks>>
  BY DEF ResumeAssert
<1>3. TypeOK'
  BY <1>1, <1>2 DEF IInv, TypeOK, schedule, stacks
<1>4. StackInv' /\ MemInv'
  BY <1>2 DEF IInv, StackInv, StackShape, OnlyTopIsRunning, MemInv, Started,
              schedule, stacks
<1> QED BY <1>1, <1>3, <1>4 DEF IInv

\* Resume, when it switches, preserves the invariant.
LEMMA ResumeSwapIInv ==
  ASSUME IInv, NEW c \in All, ResumeSwap(c)
  PROVE  IInv'
<1> USE ConstantsAssumption DEF All
<1>0. TypeOK /\ StackInv
  BY DEF IInv
<1>1. /\ c \in Co /\ c # running_co /\ co_state[c] = "READY"
      /\ co_state[running_co] = "RUNNING"
  BY <1>0 DEF ResumeSwap, StackInv, StackShape
<1>2. /\ co_state' \in [All -> States]
      /\ co_state'[c] = "RUNNING"
      /\ Len(co_stack) > 1 => co_state'[running_co] = "READY"
      /\ \A e \in All \ {c, running_co} : co_state'[e] = co_state[e]
      /\ Len(co_stack) = 1 => co_state'[running_co] = "RUNNING"
  <2>1. /\ co_state' \in [All -> {"UNBORN", "READY", "RUNNING", "TERMINAL"}]
        /\ \A e \in All : co_state'[e] = IF e = c THEN "RUNNING"
                                         ELSE IF e = running_co /\ Len(co_stack) > 1
                                              THEN "READY" ELSE co_state[e]
    BY <1>0, <1>1 DEF ResumeSwap, ResumeStates, TypeOK, States
  <2>2. running_co \in All
    BY <1>0 DEF TypeOK
  <2>3. Len(co_stack) = 1 => ~(Len(co_stack) > 1)
    OBVIOUS
  <2> QED BY <2>1, <2>2, <2>3, <1>0, <1>1 DEF States
<1>3. /\ co_stack' = Append(co_stack, c) /\ co_stack' \in Seq(All)
      /\ Len(co_stack') = Len(co_stack) + 1
      /\ co_stack'[Len(co_stack) + 1] = c
      /\ \A i \in 1 .. Len(co_stack) : co_stack'[i] = co_stack[i]
      /\ stack_top' = stack_top + 1 /\ running_co' = c
      /\ stack_mem' = stack_mem /\ idx' = idx
  BY <1>0 DEF ResumeSwap, TypeOK
<1>4. Len(co_stack) = 1 <=> running_co = Main
  BY <1>0 DEF StackInv, StackShape, TypeOK
<1>5. \A e \in All : co_state'[e] = "UNBORN" <=> co_state[e] = "UNBORN"
  <2>1. Len(co_stack) \in Nat /\ Len(co_stack) >= 1
    BY <1>0 DEF TypeOK, StackInv, StackShape
  <2>2. Len(co_stack) > 1 \/ Len(co_stack) = 1
    <3>1. \A n \in Nat : n >= 1 => n > 1 \/ n = 1
      OBVIOUS
    <3> QED BY <2>1, <3>1
  <2>3. co_state'[running_co] \in {"READY", "RUNNING"}
    BY <1>2, <2>2
  <2> QED BY <1>1, <1>2, <2>3
<1>6. StackInv'
  <2>1. StackShape'
    <3>1. co_state'[Main] = "RUNNING"
      BY <1>0, <1>1, <1>2, <1>4 DEF StackInv, StackShape
    <3> QED BY <1>0, <1>1, <1>3, <3>1 DEF StackInv, StackShape, TypeOK
  <2>2. OnlyTopIsRunning'
    BY <1>0, <1>1, <1>2, <1>3, <1>4 DEF StackInv, StackShape, OnlyTopIsRunning, TypeOK
  <2>3. \A i \in 1 .. (Len(co_stack') - 1) : co_stack'[i] # co_stack'[i + 1]
    BY <1>0, <1>1, <1>3 DEF StackInv, StackShape, TypeOK
  <2>4. \A i \in 1 .. Len(co_stack') : co_state'[co_stack'[i]] # "UNBORN"
    BY <1>0, <1>1, <1>3, <1>5 DEF StackInv, StackShape, TypeOK
  <2> QED BY <2>1, <2>2, <2>3, <2>4 DEF StackInv
<1>7. SwapContext(running_co, c)
  BY DEF ResumeSwap
<1>8. co_state[c] # "UNBORN"
  BY <1>1
<1>9. /\ occupy_co' \in [Mem -> Co \cup {None}] /\ dummy' \in [All -> {"null", "set"}]
      /\ saved_stack' \in [All -> Copies] /\ frames' \in [Mem -> Co \cup {None}]
      /\ fault' \in Faults \ {"bad_alloc"} /\ MemInv'
  BY <1>1, <1>3, <1>5, <1>7, <1>8, SwapMemory
<1> QED BY <1>0, <1>1, <1>2, <1>3, <1>6, <1>9 DEF IInv, TypeOK

\* Yield and CoMainFunc differ in the states they leave, and only there.
LEMMA PopIInv ==
  ASSUME IInv, Len(co_stack) >= 2,
         PopTo(co_stack[stack_top - 1]),
         SwapContext(co_stack[stack_top], co_stack[stack_top - 1]),
         UNCHANGED <<stack_mem, idx>>,
         co_state' \in [All -> States],
         co_state'[co_stack[stack_top]] \in {"READY", "TERMINAL"},
         co_state'[co_stack[stack_top - 1]]
            \in {"RUNNING", co_state[co_stack[stack_top - 1]]},
         \A e \in All \ {co_stack[stack_top], co_stack[stack_top - 1]} :
            co_state'[e] = co_state[e]
  PROVE  IInv'
<1> USE ConstantsAssumption DEF All
<1> DEFINE n == Len(co_stack)
           pending == co_stack[n - 1]
<1>0. TypeOK /\ StackInv
  BY DEF IInv
<1>1. /\ n \in Nat /\ n >= 2 /\ stack_top = n
      /\ running_co = co_stack[n] /\ running_co \in Co
      /\ pending \in All /\ pending # running_co
      /\ co_state[pending] # "UNBORN" /\ co_state[running_co] # "UNBORN"
  BY <1>0 DEF StackInv, StackShape, TypeOK
<1>2. /\ co_stack' \in Seq(All) /\ Len(co_stack') = n - 1
      /\ \A i \in 1 .. (n - 1) : co_stack'[i] = co_stack[i]
      /\ stack_top' = n - 1 /\ running_co' = pending
      /\ stack_mem' = stack_mem /\ idx' = idx
  BY <1>0, <1>1 DEF PopTo, TypeOK
<1>3. \A e \in All : co_state'[e] = "UNBORN" <=> co_state[e] = "UNBORN"
  BY <1>1
<1>4. StackInv'
  <2>1. co_state'[Main] = "RUNNING"
    BY <1>0, <1>1 DEF StackInv, StackShape
  <2>2. StackShape'
    BY <1>0, <1>1, <1>2, <2>1 DEF StackInv, StackShape
  <2>3. OnlyTopIsRunning'
    BY <1>0, <1>1, <1>2 DEF StackInv, OnlyTopIsRunning
  <2>4. \A i \in 1 .. (Len(co_stack') - 1) : co_stack'[i] # co_stack'[i + 1]
    BY <1>0, <1>1, <1>2 DEF StackInv
  <2>5. \A i \in 1 .. Len(co_stack') : co_state'[co_stack'[i]] # "UNBORN"
    BY <1>0, <1>1, <1>2, <1>3 DEF StackInv, TypeOK
  <2> QED BY <2>2, <2>3, <2>4, <2>5 DEF StackInv
<1>5. SwapContext(running_co, pending)
  BY <1>1
<1>6. /\ occupy_co' \in [Mem -> Co \cup {None}] /\ dummy' \in [All -> {"null", "set"}]
      /\ saved_stack' \in [All -> Copies] /\ frames' \in [Mem -> Co \cup {None}]
      /\ fault' \in Faults \ {"bad_alloc"} /\ MemInv'
  <2> HIDE DEF pending
  <2> QED BY <1>1, <1>2, <1>3, <1>5, SwapMemory
<1> QED BY <1>0, <1>1, <1>2, <1>4, <1>6 DEF IInv, TypeOK

\* The invariant is inductive: one case for each call of Coroutine.
LEMMA NextIInv == IInv /\ [Next]_vars => IInv'
<1> SUFFICES ASSUME IInv, [Next]_vars PROVE IInv'
  OBVIOUS
<1> USE ConstantsAssumption DEF All
<1>0. TypeOK /\ StackInv
  BY DEF IInv
<1>1. CASE UNCHANGED vars
  BY <1>1, StutterIInv
<1>2. ASSUME NEW c \in Co, NEW shared \in BOOLEAN, CreateCoroutine(c, shared)
      PROVE  IInv'
  BY <1>2, CreateIInv
<1>3. ASSUME NEW c \in All, Resume(c)
      PROVE  IInv'
  <2>1. CASE ResumeTerminal(c)
    BY <2>1, StutterIInv DEF ResumeTerminal
  <2>2. CASE ResumeAssert(c)
    BY <2>2, AssertIInv
  <2>3. CASE ResumeSwap(c)
    BY <2>3, ResumeSwapIInv
  <2> QED BY <1>3, <2>1, <2>2, <2>3 DEF Resume
<1>4. CASE YieldThrow
  BY <1>4, StutterIInv DEF YieldThrow
<1>5. Len(co_stack) >= 2 =>
        /\ co_stack[stack_top] \in All /\ co_stack[stack_top - 1] \in All
        /\ co_stack[stack_top] # co_stack[stack_top - 1]
  BY <1>0 DEF StackInv, StackShape, TypeOK
<1>6. CASE YieldSwap
  <2>1. /\ Len(co_stack) >= 2
        /\ PopTo(co_stack[stack_top - 1])
        /\ co_state' = YieldStates(co_stack[stack_top], co_stack[stack_top - 1])
        /\ SwapContext(co_stack[stack_top], co_stack[stack_top - 1])
        /\ UNCHANGED <<stack_mem, idx>>
    BY <1>6 DEF YieldSwap
  <2>2. /\ co_state' \in [All -> States]
        /\ co_state'[co_stack[stack_top]] = "READY"
        /\ co_state'[co_stack[stack_top - 1]] = "RUNNING"
        /\ \A e \in All \ {co_stack[stack_top], co_stack[stack_top - 1]} :
              co_state'[e] = co_state[e]
    BY <1>0, <1>5, <2>1 DEF YieldStates, TypeOK, States
  <2> QED BY <2>1, <2>2, PopIInv
<1>7. CASE CoMainFunc
  <2>1. Len(co_stack) >= 2
    BY <1>0, <1>7 DEF CoMainFunc, StackInv, StackShape, TypeOK
  <2>2. /\ PopTo(co_stack[stack_top - 1])
        /\ co_state' = TerminalStates(co_stack[stack_top], co_stack[stack_top - 1])
        /\ SwapContext(co_stack[stack_top], co_stack[stack_top - 1])
        /\ UNCHANGED <<stack_mem, idx>>
    BY <1>7 DEF CoMainFunc
  <2>3. /\ co_state' \in [All -> States]
        /\ co_state'[co_stack[stack_top]] = "TERMINAL"
        /\ co_state'[co_stack[stack_top - 1]] = co_state[co_stack[stack_top - 1]]
        /\ \A e \in All \ {co_stack[stack_top], co_stack[stack_top - 1]} :
              co_state'[e] = co_state[e]
    BY <1>0, <1>5, <2>1, <2>2 DEF TerminalStates, TypeOK, States
  <2> QED BY <2>1, <2>2, <2>3, PopIInv
<1> QED BY <1>1, <1>2, <1>3, <1>4, <1>6, <1>7 DEF Next, Yield

-----------------------------------------------------------------------------
\* Every reachable state satisfies the inductive invariant.
LEMMA SpecIInv == Spec => []IInv
BY InitIInv, NextIInv, PTL DEF Spec

\* Every variable keeps its type.  In particular an occupant recorded in a
\* shared buffer is never the main coroutine.
THEOREM TypeCorrect == Spec => []TypeOK
<1>1. IInv => TypeOK
  BY DEF IInv
<1> QED BY <1>1, SpecIInv, PTL

\* The execute stack stays well formed for every client: Resume, Yield and
\* CoMainFunc keep main at the bottom and only there, keep stack_top_ and
\* running_co_ in step with co_stack_, and never change main's state.
THEOREM StackAlwaysWellFormed == Spec => [](StackShape /\ OnlyTopIsRunning)
<1>1. IInv => StackShape /\ OnlyTopIsRunning
  BY DEF IInv, StackInv
<1> QED BY <1>1, SpecIInv, PTL

\* SwapContext with SaveStack and ResumeStack loses no frames of any started
\* coroutine, however many coroutines share however few buffers.
THEOREM SharedStacksLoseNothing == Spec => []FramesPreserved
<1>1. IInv => FramesPreserved
  BY DEF IInv, MemInv, FramesPreserved, Started, TypeOK
<1> QED BY <1>1, SpecIInv, PTL

\* The null dummy_ branch of SaveStack is dead code.
THEOREM SaveStackAlwaysHasDummy == Spec => []SaveStackHasDummy
<1>1. IInv => SaveStackHasDummy
  BY DEF IInv, SaveStackHasDummy
<1> QED BY <1>1, SpecIInv, PTL

-----------------------------------------------------------------------------
(* Clients that do not resume a coroutine in the middle of a call.         *)

\* No client resumes a coroutine that is on co_stack_.
NoReentry == Reentrant = FALSE

Distinct(s) == \A i, j \in 1 .. Len(s) : s[i] = s[j] => i = j

\* A coroutine is on co_stack_ once, and is not finished while it is there.
NInv ==
    /\ Distinct(co_stack)
    /\ \A i \in 1 .. Len(co_stack) : co_state[co_stack[i]] \in {"READY", "RUNNING"}

CInv == IInv /\ NInv

-----------------------------------------------------------------------------
(* The mapping, as functions of the stack.                                 *)

On(s, c) == \E i \in 1 .. Len(s) : s[i] = c
Below(s, c) == IF c # Main /\ On(s, c)
               THEN s[(CHOOSE i \in 1 .. Len(s) : s[i] = c) - 1] ELSE None

\* CallerOf is Below on the current stack.
LEMMA CallerIsBelow == \A c : CallerOf(c) = Below(co_stack, c)
                              /\ CallerOf(c)' = Below(co_stack', c)
BY DEF CallerOf, Below, OnStack, On

\* The caller of what stands at a place of the stack stands one place below.
LEMMA BelowAt ==
    ASSUME NEW s, Len(s) \in Nat, Distinct(s), NEW i \in 1 .. Len(s), s[i] # Main
    PROVE  Below(s, s[i]) = s[i - 1]
<1>1. On(s, s[i])
  BY DEF On
<1>2. (CHOOSE k \in 1 .. Len(s) : s[k] = s[i]) = i
  BY DEF Distinct
<1> QED
  BY <1>1, <1>2 DEF Below

\* Main, and what is not on the stack, have no caller.
LEMMA BelowOff ==
    ASSUME NEW s, NEW c, c = Main \/ ~On(s, c)
    PROVE  Below(s, c) = None
BY DEF Below

\* One more on top of the stack changes the caller of nobody else.
LEMMA BelowPushed ==
    ASSUME NEW s, NEW t, Len(s) \in Nat, Len(t) = Len(s) + 1, Distinct(t),
           \A i \in 1 .. Len(s) : t[i] = s[i], Distinct(s), s[1] = Main,
           NEW x, x # t[Len(t)]
    PROVE  (On(t, x) <=> On(s, x)) /\ Below(t, x) = Below(s, x)
<1>1. On(t, x) <=> On(s, x)
  BY DEF On
<1>2. CASE x # Main /\ On(s, x)
  <2>1. PICK i \in 1 .. Len(s) : s[i] = x
    BY <1>2 DEF On
  <2>2. i # 1 /\ i - 1 \in 1 .. Len(s) /\ i \in 1 .. Len(t) /\ Len(t) \in Nat /\ t[i] = x
    BY <1>2, <2>1
  <2>3. Below(s, x) = s[i - 1]
    BY <1>2, <2>1, BelowAt
  <2>4. Below(t, x) = t[i - 1]
    BY <1>2, <2>1, <2>2, BelowAt
  <2> QED
    BY <1>1, <2>2, <2>3, <2>4
<1>3. CASE ~(x # Main /\ On(s, x))
  BY <1>1, <1>3, BelowOff
<1> QED
  BY <1>1, <1>2, <1>3

\* What PhaseOf is for a state, the running coroutine and membership of the stack.
Phase(state, running, on) ==
    IF state = "UNBORN" THEN "unborn" ELSE IF state = "TERMINAL" THEN "dead"
    ELSE IF running THEN "running" ELSE IF on THEN "normal" ELSE "suspended"

\* PhaseOf, from the three things it depends on.
LEMMA PhaseIs ==
    ASSUME CInv, NEW c \in All
    PROVE  PhaseOf(c) = Phase(co_state[c], c = running_co, On(co_stack, c))
<1>1. co_state[c] \in States
  BY DEF CInv, IInv, TypeOK
<1>2. c = running_co => co_state[c] \in {"READY", "RUNNING"}
  BY DEF CInv, IInv, TypeOK, StackInv, StackShape, NInv
<1> QED
  BY <1>1, <1>2 DEF PhaseOf, Phase, On, OnStack, States

\* The same after the step.
LEMMA PhaseIsNext ==
    ASSUME CInv', NEW c \in All
    PROVE  PhaseOf(c)' = Phase(co_state'[c], c = running_co', On(co_stack', c))
<1>1. co_state'[c] \in States
  BY DEF CInv, IInv, TypeOK
<1>2. c = running_co' => co_state'[c] \in {"READY", "RUNNING"}
  BY DEF CInv, IInv, TypeOK, StackInv, StackShape, NInv
<1> QED
  BY <1>1, <1>2 DEF PhaseOf, Phase, On, OnStack, States

-----------------------------------------------------------------------------
(* The steps, as changes of the stack and the states.                      *)

StackFacts ==
    /\ Len(co_stack) \in Nat /\ Len(co_stack) >= 1 /\ stack_top = Len(co_stack)
    /\ co_stack[1] = Main /\ running_co = co_stack[Len(co_stack)] /\ running_co \in All
    /\ \A i \in 1 .. Len(co_stack) : co_stack[i] \in All /\ (co_stack[i] = Main <=> i = 1)

\* What IInv says of the stack.
LEMMA StackKnown == IInv => StackFacts
BY DEF IInv, TypeOK, StackInv, StackShape, StackFacts

\* Resume pushes a coroutine that was suspended.
LEMMA PushFacts ==
    ASSUME CInv, NEW c \in All, ResumeSwap(c)
    PROVE  /\ c \in Co /\ c # running_co
           /\ co_state[c] = "READY" /\ co_state[running_co] = "RUNNING"
           /\ co_state'[c] = "RUNNING" /\ co_state'[running_co] \in {"READY", "RUNNING"}
           /\ \A e \in All \ {c, running_co} : co_state'[e] = co_state[e]
           /\ Len(co_stack') = Len(co_stack) + 1 /\ co_stack'[Len(co_stack) + 1] = c
           /\ \A i \in 1 .. Len(co_stack) : co_stack'[i] = co_stack[i]
           /\ running_co' = c
<1>1. IInv /\ TypeOK /\ StackInv /\ StackShape
  BY DEF CInv, IInv, StackInv
<1>2. /\ c \in Co /\ c # running_co /\ co_state[c] = "READY"
      /\ co_state[running_co] = "RUNNING"
  BY <1>1, ConstantsAssumption DEF ResumeSwap, StackShape, All
<1>3. /\ Len(co_stack') = Len(co_stack) + 1 /\ co_stack'[Len(co_stack) + 1] = c
      /\ \A i \in 1 .. Len(co_stack) : co_stack'[i] = co_stack[i]
      /\ running_co' = c
  BY <1>1 DEF ResumeSwap, TypeOK
<1>4. \A e \in All : co_state'[e] = IF e = c THEN "RUNNING"
                                    ELSE IF e = running_co /\ Len(co_stack) > 1
                                         THEN "READY" ELSE co_state[e]
  BY <1>1, <1>2 DEF ResumeSwap, ResumeStates, TypeOK, States
<1>5. running_co \in All
  BY <1>1 DEF TypeOK
<1> QED
  BY <1>2, <1>3, <1>4, <1>5

\* Yield and the end of CoMainFunc pop the coroutine that runs.
Popped(state) ==
    /\ running_co \in Co /\ Len(co_stack) >= 2
    /\ running_co # co_stack[Len(co_stack) - 1] /\ co_stack[Len(co_stack) - 1] \in All
    /\ co_state'[running_co] = state
    /\ co_state'[co_stack[Len(co_stack) - 1]] \in {"RUNNING", co_state[co_stack[Len(co_stack) - 1]]}
    /\ \A e \in All \ {running_co, co_stack[Len(co_stack) - 1]} : co_state'[e] = co_state[e]
    /\ Len(co_stack') = Len(co_stack) - 1
    /\ \A i \in 1 .. (Len(co_stack) - 1) : co_stack'[i] = co_stack[i]
    /\ running_co' = co_stack[Len(co_stack) - 1]

\* What a step that leaves the top of the stack does, whatever it makes of the
\* coroutine that is left.
LEMMA PopFacts ==
    ASSUME CInv, Len(co_stack) >= 2, PopTo(co_stack[stack_top - 1]), NEW state,
           co_state'[co_stack[stack_top]] = state,
           co_state'[co_stack[stack_top - 1]]
             \in {"RUNNING", co_state[co_stack[stack_top - 1]]},
           \A e \in All \ {co_stack[stack_top], co_stack[stack_top - 1]} :
             co_state'[e] = co_state[e]
    PROVE  Popped(state)
<1>1. StackFacts /\ co_stack \in Seq(All) /\ Distinct(co_stack)
  BY StackKnown DEF CInv, IInv, TypeOK, NInv
<1>2. /\ Len(co_stack) \in Nat /\ stack_top = Len(co_stack)
      /\ running_co = co_stack[stack_top] /\ running_co \in Co
      /\ co_stack[Len(co_stack) - 1] \in All /\ running_co # co_stack[Len(co_stack) - 1]
  BY <1>1, ConstantsAssumption DEF StackFacts, Distinct, All
<1>3. /\ Len(co_stack') = Len(co_stack) - 1
      /\ \A i \in 1 .. (Len(co_stack) - 1) : co_stack'[i] = co_stack[i]
      /\ running_co' = co_stack[Len(co_stack) - 1]
  BY <1>1, <1>2 DEF PopTo
<1> QED
  BY <1>2, <1>3 DEF Popped

\* Yield pops the running coroutine and leaves it READY.
LEMMA YieldFacts ==
    ASSUME CInv, YieldSwap
    PROVE  Popped("READY")
<1>1. StackFacts /\ TypeOK
  BY StackKnown DEF CInv, IInv
<1>2. /\ Len(co_stack) >= 2 /\ PopTo(co_stack[stack_top - 1])
      /\ co_state' = YieldStates(co_stack[stack_top], co_stack[stack_top - 1])
  BY DEF YieldSwap
<1>3. /\ co_stack[stack_top] \in All /\ co_stack[stack_top - 1] \in All
      /\ co_stack[stack_top] # co_stack[stack_top - 1]
  BY <1>1, <1>2 DEF StackFacts, CInv, NInv, Distinct
<1>4. /\ co_state'[co_stack[stack_top]] = "READY"
      /\ co_state'[co_stack[stack_top - 1]] = "RUNNING"
      /\ \A e \in All \ {co_stack[stack_top], co_stack[stack_top - 1]} :
           co_state'[e] = co_state[e]
  BY <1>1, <1>2, <1>3 DEF YieldStates, TypeOK
<1> QED
  BY <1>2, <1>4, PopFacts

\* The end of CoMainFunc pops the running coroutine and leaves it TERMINAL.
LEMMA EndFacts ==
    ASSUME CInv, CoMainFunc
    PROVE  Popped("TERMINAL")
<1>1. StackFacts /\ TypeOK
  BY StackKnown DEF CInv, IInv
<1>2. /\ running_co # Main /\ PopTo(co_stack[stack_top - 1])
      /\ co_state' = TerminalStates(co_stack[stack_top], co_stack[stack_top - 1])
  BY DEF CoMainFunc
<1>3. Len(co_stack) >= 2
  BY <1>1, <1>2 DEF StackFacts
<1>4. /\ co_stack[stack_top] \in All /\ co_stack[stack_top - 1] \in All
      /\ co_stack[stack_top] # co_stack[stack_top - 1]
  BY <1>1, <1>3 DEF StackFacts, CInv, NInv, Distinct
<1>5. /\ co_state'[co_stack[stack_top]] = "TERMINAL"
      /\ co_state'[co_stack[stack_top - 1]] = co_state[co_stack[stack_top - 1]]
      /\ \A e \in All \ {co_stack[stack_top], co_stack[stack_top - 1]} :
           co_state'[e] = co_state[e]
  BY <1>1, <1>2, <1>4 DEF TerminalStates, TypeOK
<1> QED
  BY <1>2, <1>3, <1>5, PopFacts

-----------------------------------------------------------------------------
(* The invariant.                                                          *)

\* Steps that leave the stack and the states alone preserve NInv.
LEMMA NUnchanged == NInv /\ UNCHANGED <<co_stack, co_state>> => NInv'
BY DEF NInv, Distinct

\* Resume of a coroutine that is not on the stack preserves NInv.
LEMMA PushN ==
    ASSUME CInv, NEW c \in All, ResumeSwap(c), ~OnStack(c)
    PROVE  NInv'
<1>1. StackFacts
  BY StackKnown DEF CInv
<1>2. /\ c # running_co /\ co_state'[c] = "RUNNING"
      /\ co_state'[running_co] \in {"READY", "RUNNING"}
      /\ \A e \in All \ {c, running_co} : co_state'[e] = co_state[e]
      /\ Len(co_stack') = Len(co_stack) + 1 /\ co_stack'[Len(co_stack) + 1] = c
      /\ \A i \in 1 .. Len(co_stack) : co_stack'[i] = co_stack[i]
  BY PushFacts
<1>3. Distinct(co_stack')
  BY <1>1, <1>2 DEF CInv, NInv, Distinct, OnStack, StackFacts
<1>4. \A i \in 1 .. Len(co_stack') : co_state'[co_stack'[i]] \in {"READY", "RUNNING"}
  <2>1. ASSUME NEW i \in 1 .. Len(co_stack)
        PROVE  co_state'[co_stack[i]] \in {"READY", "RUNNING"}
    BY <1>1, <1>2 DEF CInv, NInv, OnStack, StackFacts
  <2> QED
    BY <1>1, <1>2, <2>1 DEF StackFacts
<1> QED
  BY <1>3, <1>4 DEF NInv

\* A step that leaves the top of the stack preserves NInv.
LEMMA PopN ==
    ASSUME CInv, NEW state, Popped(state)
    PROVE  NInv'
<1>1. StackFacts /\ NInv
  BY StackKnown DEF CInv
<1>2. Distinct(co_stack')
  BY <1>1 DEF NInv, Distinct, Popped, StackFacts
<1>3. \A i \in 1 .. Len(co_stack') : co_state'[co_stack'[i]] \in {"READY", "RUNNING"}
  <2>1. ASSUME NEW i \in 1 .. (Len(co_stack) - 1)
        PROVE  co_state'[co_stack[i]] \in {"READY", "RUNNING"}
    <3>1. co_stack[i] # running_co /\ co_stack[i] \in All
          /\ co_state[co_stack[i]] \in {"READY", "RUNNING"}
      BY <1>1, <2>1 DEF NInv, Distinct, StackFacts
    <3>2. CASE co_stack[i] = co_stack[Len(co_stack) - 1]
      BY <3>1, <3>2 DEF Popped
    <3>3. CASE co_stack[i] # co_stack[Len(co_stack) - 1]
      BY <3>1, <3>3 DEF Popped
    <3> QED
      BY <3>2, <3>3
  <2> QED
    BY <1>1, <2>1 DEF Popped, StackFacts
<1> QED
  BY <1>2, <1>3 DEF NInv

\* CreateCoroutine preserves NInv, and what it changes.
LEMMA CreateN ==
    ASSUME CInv, NEW c \in Co, NEW shared \in BOOLEAN, CreateCoroutine(c, shared)
    PROVE  /\ NInv' /\ co_state[c] = "UNBORN" /\ ~On(co_stack, c) /\ c # running_co
           /\ co_state' = [co_state EXCEPT ![c] = "READY"]
           /\ UNCHANGED <<co_stack, running_co>>
<1>1. /\ co_state[c] = "UNBORN" /\ co_state' = [co_state EXCEPT ![c] = "READY"]
      /\ UNCHANGED <<co_stack, running_co>>
  BY DEF CreateCoroutine, schedule
<1>2. StackFacts /\ NInv /\ TypeOK
  BY StackKnown DEF CInv, IInv
<1>3. ~On(co_stack, c) /\ c # running_co
  BY <1>1, <1>2 DEF On, NInv, StackFacts
<1>4. \A i \in 1 .. Len(co_stack) : co_state'[co_stack[i]] = co_state[co_stack[i]]
  BY <1>1, <1>2, <1>3 DEF On, TypeOK, StackFacts, All
<1> QED
  BY <1>1, <1>2, <1>3, <1>4 DEF NInv

\* Every step without re-entry preserves NInv.
LEMMA NextN == NoReentry /\ CInv /\ [Next]_vars => NInv'
<1> SUFFICES ASSUME NoReentry, CInv, [Next]_vars PROVE NInv'
  OBVIOUS
<1>1. NInv
  BY DEF CInv
<1>2. CASE UNCHANGED vars
  BY <1>1, <1>2, NUnchanged DEF vars, schedule
<1>3. ASSUME NEW c \in All, Resume(c) PROVE NInv'
  <2>1. ~OnStack(c)
    BY <1>3 DEF Resume, MayResume, NoReentry
  <2>2. CASE ResumeTerminal(c) \/ ResumeAssert(c)
    BY <1>1, <2>2, NUnchanged DEF ResumeTerminal, ResumeAssert, vars, schedule
  <2> QED
    BY <1>3, <2>1, <2>2, PushN DEF Resume
<1>4. CASE Yield
  <2>1. CASE YieldThrow
    BY <1>1, <2>1, NUnchanged DEF YieldThrow, vars, schedule
  <2> QED
    BY <1>4, <2>1, YieldFacts, PopN DEF Yield
<1> QED
  BY <1>2, <1>3, <1>4, CreateN, EndFacts, PopN DEF Next

\* CInv is an invariant when nothing on the stack is resumed.
LEMMA SpecCInv == NoReentry /\ Spec => []CInv
<1>1. Init => NInv
  <2> SUFFICES ASSUME Init PROVE NInv
    OBVIOUS
  <2>1. co_stack = <<Main>> /\ co_state[Main] = "RUNNING"
    BY DEF Init, InitThreadSchedule, All
  <2>2. Len(co_stack) = 1 /\ co_stack[1] = Main
    BY <2>1
  <2> QED
    BY <2>1, <2>2 DEF NInv, Distinct
<1>2. Init => CInv
  BY <1>1, InitIInv DEF CInv
<1>3. NoReentry /\ CInv /\ [Next]_vars => CInv'
  BY NextN, NextIInv DEF CInv
<1>4. NoReentry => NoReentry'
  BY DEF NoReentry
<1> QED
  BY <1>2, <1>3, <1>4, PTL DEF Spec

-----------------------------------------------------------------------------
(* Switches to and from main.                                              *)

\* A switch in which one side is main, whose stack is private, and the other is
\* not finished: nothing is displaced that is not saved, and no frames are
\* overrun.
LEMMA FlatSwap ==
    ASSUME CInv, IInv', NEW prev \in All, NEW next \in All, SwapContext(prev, next),
           prev = Main \/ next = Main, co_state[next] # "TERMINAL"
    PROVE  fault' = "none"
<1>1. stack_mem[Main] = Private
  BY DEF CInv, IInv, MemInv
<1>2. fault' \in SwapOutcomes(prev, next)
  BY Zenon DEF SwapContext
<1>3. stack_mem[next] = Private => Displaced(next) = None
  BY DEF Displaced
<1>4. ~(Displaced(next) # None /\ stack_mem[prev] = stack_mem[next])
  BY <1>1, <1>3
<1>5. fault' \in {"bad_alloc", "none"}
  BY <1>2, <1>4 DEF SwapOutcomes
<1> QED
  BY <1>5 DEF IInv

\* What clients that resume from main only (Eventloop) rely on: every Resume
\* made by main and every Yield or end that returns to main is free of faults,
\* on private or shared stacks, whatever nested calls came before it.
THEOREM FlatStepsAreSafe == NoReentry /\ Spec => FlatStepsNeverFault
<1>1. ASSUME NoReentry, CInv, CInv', [Next]_vars
      PROVE  [running_co = Main \/ running_co' = Main => fault' = "none"]_vars
  <2>1. CASE UNCHANGED vars
    BY <2>1
  <2> SUFFICES ASSUME Next, running_co = Main \/ running_co' = Main
               PROVE  fault' = "none"
    BY <1>1, <2>1
  <2>2. StackFacts /\ IInv /\ IInv' /\ fault = "none" /\ Main \in All /\ Main \notin Co
    BY <1>1, StackKnown, ConstantsAssumption DEF CInv, Next, All
  <2>3. ASSUME NEW c \in Co, NEW shared \in BOOLEAN, CreateCoroutine(c, shared)
        PROVE  fault' = "none"
    BY <2>2, <2>3 DEF CreateCoroutine
  <2>4. ASSUME NEW c \in All, Resume(c) PROVE fault' = "none"
    <3>1. CASE ResumeTerminal(c)
      BY <2>2, <3>1 DEF ResumeTerminal, vars
    <3>2. ~OnStack(c) /\ co_state[c] # "UNBORN" /\ c # running_co /\ c # Main
      BY <1>1, <2>2, <2>4 DEF NoReentry, Resume, MayResume, OnStack, StackFacts
    <3>3. CASE ResumeAssert(c)
      <4>1. running_co = Main
        BY <3>3 DEF ResumeAssert, schedule
      <4>2. co_state[Main] = "RUNNING" /\ co_state[c] \in States
            /\ (co_state[c] = "RUNNING" => c = running_co)
        BY <2>2, <3>2 DEF IInv, StackInv, StackShape, OnlyTopIsRunning, TypeOK, All
      <4> QED
        BY <3>2, <3>3, <4>1, <4>2 DEF ResumeAssert, States
    <3>4. CASE ResumeSwap(c)
      <4>1. running_co' = c /\ co_state[c] = "READY" /\ SwapContext(running_co, c)
        BY <3>4 DEF ResumeSwap
      <4>2. running_co = Main
        BY <3>2, <4>1
      <4> QED
        BY <1>1, <2>2, <4>1, <4>2, FlatSwap
    <3> QED
      BY <2>4, <3>1, <3>3, <3>4 DEF Resume
  <2>5. CASE YieldThrow
    BY <2>2, <2>5 DEF YieldThrow, vars
  <2>6. ASSUME NEW state, Popped(state),
               SwapContext(co_stack[stack_top], co_stack[stack_top - 1])
        PROVE  fault' = "none"
    <3>1. /\ co_stack[stack_top] = running_co /\ co_stack[stack_top - 1] = running_co'
          /\ running_co \in Co
      BY <2>2, <2>6 DEF Popped, StackFacts
    <3>2. running_co' = Main
      BY <2>2, <3>1
    <3>3. co_state[Main] = "RUNNING"
      BY <2>2 DEF IInv, StackInv, StackShape
    <3> QED
      BY <1>1, <2>2, <2>6, <3>1, <3>2, <3>3, FlatSwap DEF All
  <2>7. CASE YieldSwap
    <3>1. SwapContext(co_stack[stack_top], co_stack[stack_top - 1])
      BY <2>7, Zenon DEF YieldSwap
    <3> QED
      BY <1>1, <2>6, <2>7, <3>1, YieldFacts
  <2>8. CASE CoMainFunc
    <3>1. SwapContext(co_stack[stack_top], co_stack[stack_top - 1])
      BY <2>8, Zenon DEF CoMainFunc
    <3> QED
      BY <1>1, <2>6, <2>8, <3>1, EndFacts
  <2> QED
    BY <2>3, <2>4, <2>5, <2>7, <2>8 DEF Next, Yield
<1>2. NoReentry => NoReentry'
  BY DEF NoReentry
<1> QED
  BY <1>1, <1>2, SpecCInv, PTL DEF Spec, FlatStepsNeverFault

-----------------------------------------------------------------------------
(* The refinement.                                                         *)

\* The phases and callers the mapping gives, before and after a step.
ph == [c \in All |-> PhaseOf(c)]
cl == [c \in All |-> CallerOf(c)]

\* The refinement mapping before and after a step.
LEMMA MapIs ==
    ASSUME CInv, CInv', NEW c \in All
    PROVE  /\ ph[c] = Phase(co_state[c], c = running_co, On(co_stack, c))
           /\ ph'[c] = Phase(co_state'[c], c = running_co', On(co_stack', c))
           /\ cl[c] = Below(co_stack, c) /\ cl'[c] = Below(co_stack', c)
BY PhaseIs, PhaseIsNext, CallerIsBelow DEF ph, cl

\* The maps of a step that changes nothing they are made of.
LEMMA MapUnchanged ==
    ASSUME UNCHANGED <<co_state, co_stack, running_co>>
    PROVE  UNCHANGED Calls!vars
BY DEF Calls!vars, PhaseOf, CallerOf, OnStack

\* CreateCoroutine is Create of the calls.
LEMMA CreateMaps ==
    ASSUME CInv, CInv', NEW c \in Co, NEW shared \in BOOLEAN, CreateCoroutine(c, shared)
    PROVE  Calls!Create(c)
<1>1. /\ co_state[c] = "UNBORN" /\ ~On(co_stack, c) /\ c # running_co
      /\ co_state' = [co_state EXCEPT ![c] = "READY"]
      /\ UNCHANGED <<co_stack, running_co>>
  BY CreateN
<1>2. \A x \in All : co_state'[x] = IF x = c THEN "READY" ELSE co_state[x]
  BY <1>1 DEF CInv, IInv, TypeOK, All
<1>3. c \in All
  BY DEF All
<1>4. ph[c] = "unborn" /\ ph'[c] = "suspended"
  BY <1>1, <1>2, <1>3, MapIs DEF Phase
<1>5. \A x \in All : (x # c => ph'[x] = ph[x]) /\ cl'[x] = cl[x]
  BY <1>1, <1>2, MapIs
<1>6. ph' = [ph EXCEPT ![c] = "suspended"] /\ cl' = cl
  BY <1>3, <1>4, <1>5 DEF ph, cl
<1> QED
  BY <1>1, <1>4, <1>6 DEF Calls!Create, ph, cl

\* Resume is Call.
LEMMA ResumeMaps ==
    ASSUME CInv, CInv', NEW c \in All, ResumeSwap(c), ~OnStack(c)
    PROVE  Calls!Call(c) /\ c \in Co
<1>1. /\ c \in Co /\ c # running_co
      /\ co_state[c] = "READY" /\ co_state[running_co] = "RUNNING"
      /\ co_state'[c] = "RUNNING" /\ co_state'[running_co] \in {"READY", "RUNNING"}
      /\ \A e \in All \ {c, running_co} : co_state'[e] = co_state[e]
      /\ Len(co_stack') = Len(co_stack) + 1 /\ co_stack'[Len(co_stack) + 1] = c
      /\ \A i \in 1 .. Len(co_stack) : co_stack'[i] = co_stack[i]
      /\ running_co' = c
  BY PushFacts
<1>2. StackFacts /\ Distinct(co_stack) /\ Distinct(co_stack') /\ c # Main
  BY <1>1, StackKnown, ConstantsAssumption DEF CInv, NInv
<1>3. \A x : x # c => (On(co_stack', x) <=> On(co_stack, x))
                      /\ Below(co_stack', x) = Below(co_stack, x)
  BY <1>1, <1>2, BelowPushed DEF StackFacts
<1>4. ~On(co_stack, c) /\ On(co_stack, running_co)
  BY <1>2 DEF On, OnStack, StackFacts
<1>5. Below(co_stack', c) = running_co
  <2>1. /\ Len(co_stack') \in Nat /\ Len(co_stack') \in 1 .. Len(co_stack')
        /\ co_stack'[Len(co_stack')] = c
    BY <1>1, <1>2 DEF StackFacts
  <2>2. Below(co_stack', c) = co_stack'[Len(co_stack') - 1]
    BY <1>2, <2>1, BelowAt
  <2> QED
    BY <1>1, <1>2, <2>2 DEF StackFacts
<1>6. running_co \in All
  BY <1>2 DEF StackFacts
<1>7. ph[c] = "suspended" /\ ph'[c] = "running" /\ ph'[running_co] = "normal"
  BY <1>1, <1>3, <1>4, <1>6, MapIs DEF Phase
<1>8. \A x \in All : x # c /\ x # running_co => ph'[x] = ph[x]
  BY <1>1, <1>3, MapIs DEF Phase
<1>9. \A x \in All : cl'[x] = IF x = c THEN running_co ELSE cl[x]
  BY <1>3, <1>5, MapIs
<1>10. /\ ph' = [ph EXCEPT ![running_co] = "normal", ![c] = "running"]
       /\ cl' = [cl EXCEPT ![c] = running_co]
  BY <1>1, <1>6, <1>7, <1>8, <1>9 DEF ph, cl
<1> QED
  BY <1>1, <1>7, <1>10 DEF Calls!Call, ph, cl

\* Yield and the end of CoMainFunc are Return.
LEMMA PopMaps ==
    ASSUME CInv, CInv', NEW state, NEW left, Popped(state),
           (state = "READY" /\ left = "suspended") \/ (state = "TERMINAL" /\ left = "dead")
    PROVE  Calls!Return(left)
<1>1. StackFacts /\ Distinct(co_stack) /\ Distinct(co_stack') /\ Main \notin Co
  BY StackKnown, ConstantsAssumption DEF CInv, NInv
<1>2. PICK p \in All : p = co_stack[Len(co_stack) - 1]
  BY DEF Popped
<1>3. /\ running_co \in Co /\ Len(co_stack) >= 2 /\ running_co # p
      /\ co_state'[running_co] = state
      /\ co_state'[p] \in {"RUNNING", co_state[p]}
      /\ \A e \in All \ {running_co, p} : co_state'[e] = co_state[e]
      /\ Len(co_stack') = Len(co_stack) - 1
      /\ \A i \in 1 .. (Len(co_stack) - 1) : co_stack'[i] = co_stack[i]
      /\ running_co' = p
  BY <1>2 DEF Popped
<1>4. running_co \in All /\ running_co # Main
  BY <1>1, <1>3 DEF All
<1>5. \A x : x # running_co => (On(co_stack, x) <=> On(co_stack', x))
                               /\ Below(co_stack, x) = Below(co_stack', x)
  <2>1. /\ Len(co_stack') \in Nat /\ Len(co_stack) = Len(co_stack') + 1
        /\ co_stack'[1] = Main /\ running_co = co_stack[Len(co_stack)]
        /\ \A i \in 1 .. Len(co_stack') : co_stack[i] = co_stack'[i]
    BY <1>1, <1>3 DEF StackFacts
  <2> QED
    BY <1>1, <2>1, BelowPushed
<1>6. ~On(co_stack', running_co)
  BY <1>1, <1>3 DEF On, Distinct, StackFacts
<1>7. Below(co_stack, running_co) = p /\ Below(co_stack', running_co) = None
  <2>1. /\ Len(co_stack) \in 1 .. Len(co_stack) /\ Len(co_stack) \in Nat
        /\ co_stack[Len(co_stack)] = running_co
    BY <1>1 DEF StackFacts
  <2>2. Below(co_stack, running_co) = co_stack[Len(co_stack) - 1]
    BY <1>1, <1>4, <2>1, BelowAt
  <2> QED
    BY <1>2, <1>6, <2>2, BelowOff
<1>8. co_state'[p] \in {"READY", "RUNNING"}
  BY <1>3 DEF CInv, IInv, StackInv, StackShape, NInv, TypeOK
<1>9. ph'[running_co] = left /\ ph'[p] = "running"
  BY <1>3, <1>4, <1>6, <1>8, MapIs DEF Phase
<1>10. \A x \in All : x # running_co /\ x # p => ph'[x] = ph[x]
  BY <1>3, <1>5, MapIs DEF Phase
<1>11. cl[running_co] = p
       /\ \A x \in All : cl'[x] = IF x = running_co THEN None ELSE cl[x]
  BY <1>4, <1>5, <1>7, MapIs
<1>12. /\ ph' = [ph EXCEPT ![running_co] = left, ![cl[running_co]] = "running"]
       /\ cl' = [cl EXCEPT ![running_co] = None]
  BY <1>3, <1>4, <1>9, <1>10, <1>11 DEF ph, cl
<1> QED
  BY <1>3, <1>4, <1>11, <1>12 DEF Calls!Return, ph, cl

\* Resume, Yield and the end of CoMainFunc implement call and return: a
\* coroutine goes back to whoever resumed it, for any number of coroutines,
\* buffers and any depth of nesting.
THEOREM SchedulerImplementsCalls == NoReentry /\ Spec => ImplementsCalls
<1>1. Init => Calls!Init
  <2> SUFFICES ASSUME Init PROVE Calls!Init
    OBVIOUS
  <2>1. /\ co_stack = <<Main>> /\ running_co = Main
        /\ \A c \in All : co_state[c] = IF c = Main THEN "RUNNING" ELSE "UNBORN"
    BY DEF Init, InitThreadSchedule
  <2>2. Len(co_stack) = 1 /\ co_stack[1] = Main
    BY <2>1
  <2>3. \A c : OnStack(c) <=> c = Main
    BY <2>2 DEF OnStack
  <2>4. \A c \in All : CallerOf(c) = None
    BY <2>3 DEF CallerOf
  <2>5. \A c \in All : PhaseOf(c) = IF c = Main THEN "running" ELSE "unborn"
    BY <2>1, <2>3 DEF PhaseOf
  <2> QED
    BY <2>1, <2>4, <2>5 DEF Calls!Init, Calls!All, All
<1>2. ASSUME NoReentry, CInv, CInv', [Next]_vars PROVE [Calls!Next]_(Calls!vars)
  <2>1. CASE UNCHANGED vars
    BY <2>1, MapUnchanged DEF vars, schedule
  <2>2. ASSUME NEW c \in Co, NEW shared \in BOOLEAN, CreateCoroutine(c, shared)
        PROVE  Calls!Next
    BY <1>2, <2>2, CreateMaps DEF Calls!Next
  <2>3. ASSUME NEW c \in All, Resume(c) PROVE [Calls!Next]_(Calls!vars)
    <3>1. ~OnStack(c)
      BY <1>2, <2>3 DEF NoReentry, Resume, MayResume
    <3>2. CASE ResumeTerminal(c) \/ ResumeAssert(c)
      BY <3>2, MapUnchanged DEF ResumeTerminal, ResumeAssert, vars, schedule
    <3>3. CASE ResumeSwap(c)
      BY <1>2, <3>1, <3>3, ResumeMaps DEF Calls!Next
    <3> QED
      BY <2>3, <3>2, <3>3 DEF Resume
  <2>4. CASE YieldThrow
    BY <2>4, MapUnchanged DEF YieldThrow, vars, schedule
  <2>5. CASE YieldSwap
    BY <1>2, <2>5, YieldFacts, PopMaps DEF Calls!Next
  <2>6. CASE CoMainFunc
    BY <1>2, <2>6, EndFacts, PopMaps DEF Calls!Next
  <2> QED
    BY <1>2, <2>1, <2>2, <2>3, <2>4, <2>5, <2>6 DEF Next, Yield
<1>3. NoReentry => NoReentry'
  BY DEF NoReentry
<1> QED
  BY <1>1, <1>2, <1>3, SpecCInv, PTL DEF Spec, ImplementsCalls, Calls!Spec
=============================================================================
