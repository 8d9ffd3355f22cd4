----------------------------- MODULE EventLoop -----------------------------
(***************************************************************************)
(* Schedule::Eventloop on the main coroutine of one thread, composed with  *)
(* the coroutine scheduler, the epoll table and the hooked system calls    *)
(* (do_io, sleep, close) that coroutines make.                             *)
(*                                                                         *)
(* The thread has one flow of control: running_co says which coroutine it  *)
(* is in, and only steps of that coroutine (or of the loop, when it is     *)
(* main) are enabled.  The kernel, the peers and the thread that stops the *)
(* loop run concurrently, also between two calls of one hooked function.   *)
(*                                                                         *)
(* The time wheel is abstracted to lists without slots: a pass turns a     *)
(* number of slots that is fixed when it starts, any pending timers may be *)
(* the ones due in the list of a slot, and a timer that is added waits for *)
(* a later slot.  Only a sleep of slots_ - 1 ticks made while a list is    *)
(* walked goes to the end of that list, and is due in it.                  *)
(***************************************************************************)
EXTENDS Integers, Sequences, FiniteSets

CONSTANTS
    Co, Main, None, Fds,
    Uses,       \* <<c, fd, d>>: coroutine c does I/O on fd in direction d
    Closes,     \* <<c, fd>>: coroutine c closes fd
    Started,    \* coroutines main resumes before it enters the loop
    Sleepers,   \* coroutines (main too, if listed) that call sleep
    FullTurn,   \* those of them that may sleep slots_ - 1 ticks
    Registers,  \* registrations main makes itself: [fd, type, func, r, w]
    MaxOps,     \* bound: calls a coroutine makes between two switches
    MaxTimers,  \* bound: timers pending for one coroutine
    MaxTurns    \* bound: slots that one pass of ExecuteTimeout turns

All == Co \cup {Main}

ASSUME LoopAssumption ==
    /\ Main \notin Co /\ None \notin All \cup Fds
    /\ Uses \subseteq All \X Fds \X {"IN", "OUT"}
    /\ Closes \subseteq Co \X Fds
    /\ Started \subseteq Co
    /\ Sleepers \subseteq All /\ FullTurn \subseteq Sleepers
    /\ Registers \subseteq
         [fd : Fds, type : (SUBSET {"IN", "OUT"}) \ {{}}, func : SUBSET {"IN", "OUT"},
          r : All \cup {None}, w : All \cup {None}]
    /\ MaxOps \in Nat \ {0}
    /\ MaxTimers \in Nat \ {0}
    /\ MaxTurns \in Nat

VARIABLES
    \* Coroutine
    co_state, co_stack, stack_top, running_co, stack_mem, idx, occupy_co,
    dummy, saved_stack, frames, fault,
    \* Epoll
    reg_event, open, ready, interest, data, rdlist,
    \* the loop and the hooked calls
    op,      \* the hooked call each coroutine is in
    ops,     \* calls the running coroutine has made since it was resumed
    timers,  \* how many timers are pending for each coroutine
    turns,   \* slots this pass of ExecuteTimeout has still to turn
    due,     \* how many of timers are due in the list being walked
    phase,   \* where Eventloop is
    batch,   \* the events of this round not handled yet
    cur,     \* the event being handled
    held,    \* the EventCtx held by ptr once it has left the table
    stop,    \* loop_: StopEventLoop(true) was called
    crash,   \* "none", "null" (null EventCtx used), "uncaught" (exception)
    cut      \* history: <<c, fd, d>> if an event of fd resumed c in a sleep

C == INSTANCE Coroutine WITH Count <- 1, MaxDepth <- 2, Reentrant <- TRUE
E == INSTANCE Epoll WITH Owners <- All

sched == <<co_state, co_stack, stack_top, running_co, stack_mem, idx,
           occupy_co, dummy, saved_stack, frames, fault>>
etab  == <<reg_event, interest, data, rdlist>>
table == <<reg_event, open, ready, interest, data, rdlist>>
pass  == <<turns, due>>
loop  == <<phase, pass, batch, cur, held>>
vars  == <<sched, table, op, ops, timers, loop, stop, crash, cut>>

NoOp    == [kind |-> "none", fd |-> None, dir |-> None]
NoEvent == [fd |-> None, left |-> {}]

Init ==
    /\ C!Init
    /\ E!Init
    /\ op = [c \in All |-> NoOp]
    /\ ops = 0
    /\ timers = [c \in All |-> 0]
    /\ phase = "setup" /\ turns = 0 /\ due = [c \in All |-> 0]
    /\ batch = {} /\ cur = NoEvent /\ held = E!NoCtx
    /\ stop = FALSE
    /\ crash = "none"
    /\ cut = {}

-----------------------------------------------------------------------------
(* Hooked calls of the running coroutine.                                  *)

Calls(c) == running_co = c /\ ops < MaxOps /\ phase # "done"

\* One attempt of func(fd, ...): it fails on a closed descriptor, succeeds on
\* a ready one (and may use up the readiness), and else returns EAGAIN.
Attempt(c, fd, d) ==
    /\ \/ /\ fd \notin open
          /\ op' = [op EXCEPT ![c] = NoOp]
          /\ UNCHANGED ready
       \/ /\ d \in ready[fd]
          /\ op' = [op EXCEPT ![c] = NoOp]
          /\ \/ UNCHANGED ready
             \/ ready' = [ready EXCEPT ![fd] = @ \ {d}]
       \/ /\ fd \in open /\ d \notin ready[fd]
          /\ op' = [op EXCEPT ![c] = [kind |-> "again", fd |-> fd, dir |-> d]]
          /\ UNCHANGED ready
    /\ UNCHANGED <<sched, etab, open, timers, loop, stop, crash, cut>>

\* do_io is entered.
DoIo(c, fd, d) ==
    /\ Calls(c)
    /\ c = Main => phase = "setup"
    /\ op[c] = NoOp
    /\ <<c, fd, d>> \in Uses
    /\ ops' = ops + 1
    /\ Attempt(c, fd, d)

\* goto retry, after the coroutine was resumed.
Retry(c) ==
    /\ running_co = c
    /\ op[c].kind = "io"
    /\ UNCHANGED ops
    /\ Attempt(c, op[c].fd, op[c].dir)

\* Mutants: do_io yields and leaves the registration to somebody else; the
\* registration comes after the switch, when the current coroutine is main.
YieldUnregistered(c) ==
    /\ running_co = c
    /\ op[c].kind = "again"
    /\ op' = [op EXCEPT ![c].kind = "io"]
    /\ IF C!GetInvokeDeepth >= 2 THEN C!YieldSwap /\ ops' = 0
       ELSE UNCHANGED <<sched, ops>>
    /\ UNCHANGED <<etab, open, ready, timers, loop, stop, crash, cut>>
YieldThenRegister(c) ==
    /\ running_co = c
    /\ op[c].kind = "again"
    /\ op' = [op EXCEPT ![c].kind = "io"]
    /\ IF C!GetInvokeDeepth >= 2 THEN C!YieldSwap /\ ops' = 0
       ELSE UNCHANGED <<sched, ops>>
    /\ E!RegisterEvent({op[c].dir}, op[c].fd, {},
          [x \in E!Dir |-> IF x = op[c].dir THEN running_co' ELSE None])
    /\ UNCHANGED <<open, ready, timers, loop, stop, crash, cut>>

\* EAGAIN: register the current coroutine for the direction and yield; the
\* main coroutine cannot yield and goes to retry at once.
RegisterAndYield(c) ==
    /\ running_co = c
    /\ op[c].kind = "again"
    /\ LET fd == op[c].fd
           d  == op[c].dir
       IN  /\ E!RegisterEvent({d}, fd, {},
                              [x \in E!Dir |-> IF x = d THEN c ELSE None])
           /\ op' = [op EXCEPT ![c].kind = "io"]
    /\ IF C!GetInvokeDeepth >= 2 THEN C!YieldSwap /\ ops' = 0
       ELSE UNCHANGED <<sched, ops>>
    /\ UNCHANGED <<open, ready, timers, loop, stop, crash, cut>>

\* AddTimer for c, to a later slot or to the list being walked.
AddTimer(c) ==
    /\ timers[c] < MaxTimers
    /\ timers' = [timers EXCEPT ![c] = @ + 1]
    /\ \/ due' = due
       \/ /\ phase = "timers" /\ c \in FullTurn
          /\ due' = [due EXCEPT ![c] = @ + 1]

\* sleep and usleep: add a timer for the current coroutine and yield.
Sleep(c) ==
    /\ Calls(c)
    /\ op[c] = NoOp
    /\ c \in Sleepers \cap Co
    /\ AddTimer(c)
    /\ op' = [op EXCEPT ![c].kind = "sleep"]
    /\ C!YieldSwap
    /\ ops' = 0
    /\ UNCHANGED <<table, phase, turns, batch, cur, held, stop, crash, cut>>

\* The same call on main: Yield throws, out of sleep, with the timer added.
SleepOnMain ==
    /\ Calls(Main)
    /\ phase = "setup" /\ op[Main] = NoOp
    /\ Main \in Sleepers
    /\ AddTimer(Main)
    /\ C!YieldThrow
    /\ crash' \in {"none", "uncaught"}
    /\ ops' = ops + 1
    /\ UNCHANGED <<table, op, phase, turns, batch, cur, held, stop, cut>>

\* Yield returned into sleep, which returns to the coroutine.
SleepReturns(c) ==
    /\ running_co = c
    /\ op[c].kind = "sleep"
    /\ op' = [op EXCEPT ![c] = NoOp]
    /\ UNCHANGED <<sched, table, ops, timers, loop, stop, crash, cut>>

\* The hooked close.  ptr in Eventloop keeps the erased EventCtx alive.
Close(c, fd) ==
    /\ Calls(c)
    /\ op[c] = NoOp
    /\ <<c, fd>> \in Closes
    /\ fd \in open
    /\ E!CancelAndClose(fd)
    /\ held' = IF cur.fd = fd THEN reg_event[fd] ELSE held
    /\ ops' = ops + 1
    /\ UNCHANGED <<sched, op, timers, phase, pass, batch, cur, stop, crash, cut>>

\* The coroutine's function returns.
Finish(c) ==
    /\ running_co = c
    /\ op[c] = NoOp
    /\ C!CoMainFunc
    /\ ops' = 0
    /\ UNCHANGED <<table, op, timers, loop, stop, crash, cut>>

CoStep(c) ==
    \/ \E fd \in Fds, d \in E!Dir : DoIo(c, fd, d)
    \/ Retry(c)
    \/ RegisterAndYield(c)
    \/ Sleep(c)
    \/ SleepReturns(c)
    \/ \E fd \in Fds : Close(c, fd)
    \/ Finish(c)

-----------------------------------------------------------------------------
(* main before the loop: it creates and starts coroutines, registers       *)
(* events, and may itself use hooked calls.                                *)

Setup == running_co = Main /\ phase = "setup" /\ op[Main] = NoOp

Create(c) ==
    /\ Setup
    /\ C!CreateCoroutine(c, FALSE)
    /\ UNCHANGED <<table, op, ops, timers, loop, stop, crash, cut>>

Start(c) ==
    /\ Setup
    /\ c \in Started
    /\ C!MayResume(c) /\ C!ResumeSwap(c)
    /\ dummy[c] = "null"
    /\ UNCHANGED <<table, op, ops, timers, loop, stop, crash, cut>>

Register(r) ==
    /\ Setup
    /\ r.fd \in open
    /\ \A c \in {r.r, r.w} \cap Co : co_state[c] # "UNBORN"
    /\ E!RegisterEvent(r.type, r.fd, r.func, E!Waiters(r.r, r.w))
    /\ UNCHANGED <<sched, open, ready, op, ops, timers, loop, stop, crash, cut>>

EnterLoop ==
    /\ Setup
    /\ phase' = "check"
    /\ UNCHANGED <<sched, table, op, ops, timers, pass, batch, cur, held, stop, crash, cut>>

-----------------------------------------------------------------------------
(* Eventloop.                                                              *)

Looping(p) == running_co = Main /\ phase = p

\* Mutant: the flag is not looked at.
CheckNothing ==
    /\ Looping("check")
    /\ phase' = "wait"
    /\ UNCHANGED <<sched, table, op, ops, timers, pass, batch, cur, held, stop, crash, cut>>

CheckStop ==
    /\ Looping("check")
    /\ phase' = IF stop THEN "done" ELSE "wait"
    /\ UNCHANGED <<sched, table, op, ops, timers, pass, batch, cur, held, stop, crash, cut>>

\* epoll_wait: some events, or none when the timeout has passed.
Wait ==
    /\ Looping("wait")
    /\ batch' = E!Reported
    /\ E!EpollWait
    /\ phase' = "batch"
    /\ UNCHANGED <<sched, op, ops, timers, pass, cur, held, stop, crash, cut>>

\* reg_event_[ev.data.fd]: without an entry of that number the subscript
\* inserts a null one and the handler dereferences it.
TakeEvent ==
    /\ Looping("batch")
    /\ \E e \in batch :
         /\ batch' = batch \ {e}
         /\ \/ /\ e.data = "fd" /\ E!Registered(e.fd)
               /\ cur' = [fd |-> e.fd, left |-> e.mask]
               /\ phase' = "handle"
               /\ UNCHANGED crash
            \/ /\ ~(e.data = "fd" /\ E!Registered(e.fd))
               /\ crash' = "null"
               /\ UNCHANGED <<cur, phase>>
    /\ UNCHANGED <<sched, table, op, ops, timers, pass, held, stop, cut>>

\* The EventCtx ptr points to, in the table or not.
Ptr == IF E!Registered(cur.fd) THEN reg_event[cur.fd] ELSE held

\* Mutant: the reader is resumed for both directions.
HandleReader(d) ==
    /\ Looping("handle")
    /\ d \in cur.left
    /\ d = "OUT" => "IN" \notin cur.left
    /\ cur' = [cur EXCEPT !.left = @ \ {d}]
    /\ IF d \notin Ptr.func /\ Ptr.co["IN"] # None THEN C!Resume(Ptr.co["IN"])
       ELSE UNCHANGED sched
    /\ UNCHANGED <<etab, ready, open, op, ops, timers, pass, phase, batch, held,
                   stop, crash, cut>>

\* One direction of the event: the callback, else the coroutine, else nothing.
\* A callback runs on main and uses up what is ready.  (cut is history.)
Handle(d) ==
    /\ Looping("handle")
    /\ d \in cur.left
    /\ d = "OUT" => "IN" \notin cur.left
    /\ cur' = [cur EXCEPT !.left = @ \ {d}]
    /\ \/ /\ d \in Ptr.func
          /\ ready' = [ready EXCEPT ![cur.fd] = @ \ {d}]
          /\ UNCHANGED <<sched, cut>>
       \/ /\ d \notin Ptr.func /\ Ptr.co[d] # None
          /\ C!Resume(Ptr.co[d])
          /\ cut' = IF op[Ptr.co[d]].kind = "sleep"
                    THEN cut \cup {<<Ptr.co[d], cur.fd, d>>} ELSE cut
          /\ UNCHANGED ready
       \/ /\ d \notin Ptr.func /\ Ptr.co[d] = None
          /\ UNCHANGED <<sched, ready, cut>>
    /\ UNCHANGED <<etab, open, op, ops, timers, pass, phase, batch, held, stop, crash>>

EventDone ==
    /\ Looping("handle")
    /\ cur.left = {}
    /\ cur' = NoEvent /\ held' = E!NoCtx
    /\ phase' = "batch"
    /\ UNCHANGED <<sched, table, op, ops, timers, pass, batch, stop, crash, cut>>

\* ExecuteTimeout(now) with the slots that have passed since the last pass.
BatchDone ==
    /\ Looping("batch")
    /\ batch = {}
    /\ phase' = "timers"
    /\ turns' \in 0 .. MaxTurns
    /\ UNCHANGED <<sched, table, op, ops, timers, due, batch, cur, held, stop, crash, cut>>

NothingDue == \A c \in All : due[c] = 0

\* The list is at its end: go to that of the next slot.  Which of the pending
\* timers are due there is TimeWheel's business.
TurnSlot ==
    /\ Looping("timers")
    /\ NothingDue /\ turns > 0
    /\ turns' = turns - 1
    /\ due' \in [All -> 0 .. MaxTimers]
    /\ \A c \in All : due'[c] <= timers[c]
    /\ UNCHANGED <<sched, table, op, ops, timers, phase, batch, cur, held, stop, crash, cut>>

\* Mutant: a timer fires that is not there.
FireTimerAlways(c) ==
    /\ Looping("timers")
    /\ turns > 0
    /\ co_state[c] # "UNBORN"
    /\ timers' = [timers EXCEPT ![c] = @ - 1]
    /\ C!Resume(c)
    /\ UNCHANGED <<table, op, ops, loop, stop, crash, cut>>

\* Mutant: the timer is not erased.
FireTimerKeeps(c) ==
    /\ Looping("timers")
    /\ due[c] > 0
    /\ due' = [due EXCEPT ![c] = @ - 1]
    /\ C!Resume(c)
    /\ UNCHANGED <<table, op, ops, timers, phase, turns, batch, cur, held, stop, crash, cut>>

\* The walk resumes the coroutine of a timer that is due, and erases the timer
\* when Resume returns (nothing looks at it before).
FireTimer(c) ==
    /\ Looping("timers")
    /\ due[c] > 0
    /\ due' = [due EXCEPT ![c] = @ - 1]
    /\ timers' = [timers EXCEPT ![c] = @ - 1]
    /\ C!Resume(c)
    /\ UNCHANGED <<table, op, ops, phase, turns, batch, cur, held, stop, crash, cut>>

TimersDone ==
    /\ Looping("timers")
    /\ NothingDue /\ turns = 0
    /\ phase' = "check"
    /\ UNCHANGED <<sched, table, op, ops, timers, pass, batch, cur, held, stop, crash, cut>>

LoopStep ==
    \/ CheckStop \/ Wait \/ TakeEvent \/ Handle("IN") \/ Handle("OUT")
    \/ EventDone \/ BatchDone \/ TurnSlot \/ TimersDone
    \/ \E c \in All : FireTimer(c)

-----------------------------------------------------------------------------
\* The kernel and the peers.
Peer ==
    /\ \E fd \in Fds, d \in E!Dir : E!Happens(fd, d)
    /\ UNCHANGED <<sched, op, ops, timers, loop, stop, crash, cut>>

\* Another thread calls StopEventLoop(true).
StopEventLoop ==
    /\ ~stop
    /\ stop' = TRUE
    /\ UNCHANGED <<sched, table, op, ops, timers, loop, crash, cut>>

Alive == fault = "none" /\ crash = "none"

\* The thread has left Eventloop or died.
Over ==
    /\ ~Alive \/ phase = "done"
    /\ UNCHANGED vars

\* The one flow of control of the thread.
Thread ==
    \/ \E c \in All : CoStep(c)
    \/ SleepOnMain
    \/ \E c \in Co : Create(c) \/ Start(c)
    \/ \E r \in Registers : Register(r)
    \/ EnterLoop
    \/ LoopStep

Next ==
    \/ Alive /\ (Thread \/ Peer \/ StopEventLoop)
    \/ Over

Spec == Init /\ [][Next]_vars

\* The thread keeps running.  A coroutine gives it back because MaxOps bounds
\* the calls that succeed at once.
FairSpec == Spec /\ WF_vars(Alive /\ Thread)

-----------------------------------------------------------------------------
(* Properties.                                                             *)

TypeOK ==
    /\ C!TypeOK
    /\ E!TypeOK
    /\ op \in [All -> [kind : {"none", "again", "io", "sleep"},
                       fd : Fds \cup {None}, dir : E!Dir \cup {None}]]
    /\ ops \in 0 .. MaxOps
    /\ timers \in [All -> 0 .. MaxTimers]
    /\ turns \in 0 .. MaxTurns /\ due \in [All -> 0 .. MaxTimers]
    /\ phase \in {"setup", "check", "wait", "batch", "handle", "timers", "done"}
    /\ batch \subseteq [fd : Fds, mask : SUBSET E!Dir, data : {"fd", "ptr"}]
    /\ cur \in [fd : Fds \cup {None}, left : SUBSET E!Dir]
    /\ held \in E!EventCtx
    /\ stop \in BOOLEAN
    /\ crash \in {"none", "null", "uncaught"}
    /\ cut \subseteq All \X Fds \X E!Dir

Blocked(c, fd, d) == op[c] = [kind |-> "io", fd |-> fd, dir |-> d] /\ running_co # c

\* No wake-up is lost: while a coroutine waits in do_io for a descriptor that
\* has become ready, the event that will resume it is registered for it and is
\* on the kernel's ready list, in the batch, or being handled, however the
\* arrival falls between the failed call, the registration and the switch.
WakeupNotLost ==
    \A c \in Co, fd \in Fds, d \in E!Dir :
      Blocked(c, fd, d) /\ d \in ready[fd] =>
        /\ reg_event[fd].co[d] = c
        /\ \/ fd \in rdlist /\ d \in interest[fd]
           \/ \E e \in batch : e.fd = fd /\ d \in e.mask
           \/ cur.fd = fd /\ d \in cur.left

\* Whose event or timer it may be: who does I/O on the descriptor, or is
\* registered for it by main.
Named == Uses \cup {<<r.r, r.fd, "IN">> : r \in Registers}
              \cup {<<r.w, r.fd, "OUT">> : r \in Registers}

\* Main is resumed by the loop, for a descriptor it did I/O on itself or for
\* the timer its own sleep left behind.
ResumesMain ==
    \/ Main \in Sleepers /\ FireTimer(Main)
    \/ \E d \in E!Dir : /\ Handle(d) /\ d \notin Ptr.func /\ Ptr.co[d] = Main
                        /\ <<Main, cur.fd, d>> \in Named

\* The thread dies in two ways only, and both are hooked calls of main before
\* the loop: the exception of its sleep, or, much later, the assertion of
\* Resume when the loop finds what such a call has left behind.  Apart from
\* that no assertion fails and no null EventCtx is used, however events, timers,
\* closes and terminations interleave.
DiesOnlyByMain == [][~Alive' => SleepOnMain \/ ResumesMain]_vars

\* A coroutine sleeps slots_ - 1 ticks into the list that is being walked.
SleepsIntoWalk == \E c \in FullTurn : running_co = c /\ due'[c] > due[c]

\* The pass that never ends.
NeverLeavesWalk == []<><<SleepsIntoWalk>>_vars

\* README.md:115 "the corresponding callback function or coroutine will
\* execute": a coroutine that waits in do_io for a descriptor that is ready
\* gets to retry, unless the loop is stopped or dies first, or a coroutine keeps
\* ExecuteTimeout from returning.
WaiterWoken ==
    \/ NeverLeavesWalk
    \/ \A u \in Uses :
         (Blocked(u[1], u[2], u[3]) /\ u[3] \in ready[u[2]] /\ ~stop /\ phase # "setup")
           ~> (~Blocked(u[1], u[2], u[3]) \/ stop \/ ~Alive)

\* Once StopEventLoop was called in the loop, Eventloop returns, unless the
\* thread dies or a coroutine keeps ExecuteTimeout from returning.
StopEndsLoop ==
    \/ NeverLeavesWalk
    \/ (stop /\ phase # "setup") ~> (phase = "done" \/ ~Alive)

\* A sleep returns before the wheel has fired its timer only after an event has
\* resumed the coroutine in a sleep, this one or an earlier one whose timer was
\* left behind, and the event was one of a descriptor the coroutine does I/O on
\* or was registered for: do_io never cancels what it registered.
SleepCutOnlyByOwnFd ==
    \A c \in Co :
      running_co = c /\ op[c].kind = "sleep" /\ timers[c] > 0 =>
        \E fd \in Fds, d \in E!Dir : <<c, fd, d>> \in cut \cap Named
=============================================================================
