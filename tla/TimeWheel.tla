----------------------------- MODULE TimeWheel -----------------------------
(***************************************************************************)
(* class TimeWheel: an array of lists of timers, turned by ExecuteTimeout. *)
(*                                                                         *)
(* Callbacks, and coroutines resumed as callbacks, run in the middle of    *)
(* ExecuteTimeout and may add timers to the list being walked, so a pass   *)
(* is a sequence of steps: one per slot turned, one per item visited, one  *)
(* per callback that returns.                                              *)
(*                                                                         *)
(* Time is relative: lag is now - last_trigger_, and the age of an item is *)
(* now - register_time_, counted up to AgeCap (past its timeout an item's  *)
(* age no longer makes a difference to the code).                          *)
(***************************************************************************)
EXTENDS Integers, Sequences

CONSTANTS
    Timers,         \* identities of the TimeoutItems
    Slots,          \* slots_
    Granularities,  \* the values granularity_ may be set to
    Timeouts,       \* the timeouts clients ask for
    Times,          \* the repeat counts clients ask for
    NestedAdds,     \* TRUE: callbacks call the wheel too
    MaxLag,         \* bound: the loop calls ExecuteTimeout before lag exceeds it
    AgeCap          \* bound: ages are counted up to this value

ASSUME WheelAssumption ==
    /\ Slots \in Nat \ {0}
    /\ Granularities \subseteq Nat \ {0} /\ Granularities # {}
    /\ Timeouts \subseteq Nat
    /\ Times \subseteq Int
    /\ NestedAdds \in BOOLEAN
    /\ MaxLag \in Nat \ {0}
    /\ AgeCap \in Nat

VARIABLES
    wheel,         \* wheel_: the list of each slot
    item,          \* the fields of each TimeoutItem
    current_slot,  \* current_slot
    granularity,   \* granularity_
    lag,           \* now - last_trigger_
    pc,            \* where ExecuteTimeout is, "idle" when it is not running
    dis,           \* slots the pass still has to turn
    span,          \* the argument now, less last_trigger_, of the pass
    scan,          \* the slot being walked
    pos,           \* the iterator it: the position it has reached in that list
    obs            \* history, for the properties only

code == <<wheel, item, current_slot, granularity, lag, pc, dis, span, scan, pos>>
vars == <<code, obs>>

Slot == 0 .. (Slots - 1)

At(t, s, i) == i \in DOMAIN wheel[s] /\ wheel[s][i] = t
Pending(t) == \E s \in Slot : \E i \in DOMAIN wheel[s] : At(t, s, i)

\* The item the iterator is at.
Current == wheel[scan][pos]

\* Mutant: the item stays in the list.
WithoutNothing(list, p) == list

\* The list after erase or splice of the item at p.
Without(list, p) == SubSeq(list, 1, p - 1) \o SubSeq(list, p + 1, Len(list))

-----------------------------------------------------------------------------
NoItem == [remaining_ticks |-> 0, repeat_interval |-> 0, repeat_count |-> 0,
           age |-> 0]

\* due: wheel turns until the first firing; fired: how often it has fired,
\* counted up to two or, if that is more, the times asked for; times: what
\* AddTimer was asked for; slack: lag when it was added; since: milliseconds
\* since it was added or last fired.  With AgeCap = 0 no time is kept.
NoObs == [due |-> 0, fired |-> 0, times |-> 0, slack |-> 0, since |-> 0]

Init ==
    /\ wheel = [s \in Slot |-> <<>>]
    /\ item = [t \in Timers |-> NoItem]
    /\ current_slot = 0
    /\ granularity \in Granularities
    /\ lag = 0
    /\ pc = "idle" /\ dis = 0 /\ span = 0 /\ scan = 0 /\ pos = 0
    /\ obs = [t \in Timers |-> NoObs]

-----------------------------------------------------------------------------
Older(n) == IF n < AgeCap THEN n + 1 ELSE n

\* One millisecond passes.
Clock ==
    /\ lag < MaxLag
    /\ lag' = lag + 1
    /\ item' = [t \in Timers |->
                  IF Pending(t) THEN [item[t] EXCEPT !.age = Older(@)]
                  ELSE item[t]]
    /\ obs' = [t \in Timers |->
                  IF Pending(t) THEN [obs[t] EXCEPT !.since = Older(@)]
                  ELSE obs[t]]
    /\ UNCHANGED <<wheel, current_slot, granularity, pc, dis, span, scan, pos>>

\* Whoever may call the wheel: code between passes (an event handler, or before
\* the loop) or, if NestedAdds, the callback that is running.
MayCall == pc = "idle" \/ (NestedAdds /\ pc = "callback")

SetGranularity(g) ==
    /\ MayCall
    /\ granularity' = g
    /\ UNCHANGED <<wheel, item, current_slot, lag, pc, dis, span, scan, pos, obs>>

\* Mutant: rounded up.
RoundsUp(timeout) == (timeout \div granularity + Slots - 1) \div Slots

\* Full turns of the wheel before an item may fire.
Rounds(timeout) == (timeout \div granularity) \div Slots

\* The slot AddTimer picks.
SlotFor(timeout) == (current_slot + timeout \div granularity) % Slots

Slack == IF AgeCap = 0 THEN 0 ELSE lag

AddTimer(t, timeout, times) ==
    /\ MayCall
    /\ ~Pending(t)
    /\ item' = [item EXCEPT ![t] =
                  [remaining_ticks |-> Rounds(timeout),
                   repeat_interval |-> timeout,
                   repeat_count |-> times,
                   age |-> 0]]
    /\ wheel' = [wheel EXCEPT ![SlotFor(timeout)] = Append(@, t)]
    /\ obs' = [obs EXCEPT ![t] =
                 [due |-> timeout \div granularity + 1, fired |-> 0,
                  times |-> times, slack |-> Slack, since |-> 0]]
    /\ UNCHANGED <<current_slot, granularity, lag, pc, dis, span, scan, pos>>

-----------------------------------------------------------------------------
(* ExecuteTimeout(now).                                                    *)

\* now <= last_trigger_: return at once.
ExecuteNothing ==
    /\ pc = "idle" /\ lag <= 0
    /\ UNCHANGED vars

ExecuteTimeout ==
    /\ pc = "idle" /\ lag > 0
    /\ dis' = lag \div granularity
    /\ span' = lag
    /\ pc' = "tick"
    /\ UNCHANGED <<wheel, item, current_slot, granularity, lag, scan, pos, obs>>

\* Mutants: current_slot runs past the last slot; current_slot stays.
TurnSlotNoWrap ==
    /\ pc = "tick" /\ dis > 0
    /\ dis' = dis - 1 /\ scan' = current_slot /\ pos' = 1 /\ pc' = "scan"
    /\ current_slot' = current_slot + 1
    /\ UNCHANGED <<wheel, item, granularity, lag, span, obs>>
TurnSlotStays ==
    /\ pc = "tick" /\ dis > 0
    /\ dis' = dis - 1 /\ scan' = current_slot /\ pos' = 1 /\ pc' = "scan"
    /\ UNCHANGED <<wheel, item, current_slot, granularity, lag, span, obs>>

\* The next iteration of the outer loop: take the list of current_slot and
\* move current_slot on.
TurnSlot ==
    /\ pc = "tick" /\ dis > 0
    /\ dis' = dis - 1
    /\ scan' = current_slot
    /\ current_slot' = (current_slot + 1) % Slots
    /\ pos' = 1
    /\ pc' = "scan"
    /\ obs' = [t \in Timers |->
                 IF Pending(t) /\ obs[t].fired = 0
                 THEN [obs[t] EXCEPT !.due = @ - 1] ELSE obs[t]]
    /\ UNCHANGED <<wheel, item, granularity, lag, span>>

\* The outer loop is done: last_trigger_ = now.
LastTrigger ==
    /\ pc = "tick" /\ dis = 0
    /\ lag' = lag - span
    /\ pc' = "idle"
    /\ span' = 0 /\ scan' = 0 /\ pos' = 0
    /\ UNCHANGED <<wheel, item, current_slot, granularity, dis, obs>>

\* The iterator has reached list.end().
EndOfList ==
    /\ pc = "scan" /\ pos > Len(wheel[scan])
    /\ pc' = "tick"
    /\ UNCHANGED <<wheel, item, current_slot, granularity, lag, dis, span, scan,
                   pos, obs>>

\* Mutant: called back when the count is zero, not below it.
VisitAtZero ==
    /\ pc = "scan" /\ pos <= Len(wheel[scan])
    /\ LET left == item[Current].remaining_ticks - 1
       IN  /\ item' = [item EXCEPT ![Current].remaining_ticks = left]
           /\ pc' = IF left <= 0 THEN "callback" ELSE pc
           /\ pos' = IF left <= 0 THEN pos ELSE pos + 1
           /\ obs' = [obs EXCEPT ![Current].fired = IF left <= 0 THEN 1 ELSE @]
    /\ UNCHANGED <<wheel, current_slot, granularity, lag, dis, span, scan>>

\* Visit one item: count down, and call it back or go to the next.
Visit ==
    /\ pc = "scan" /\ pos <= Len(wheel[scan])
    /\ LET left == item[Current].remaining_ticks - 1
       IN  /\ item' = [item EXCEPT ![Current].remaining_ticks = left]
           /\ \/ /\ left < 0
                 /\ pc' = "callback"
                 /\ pos' = pos
                 /\ obs' = [obs EXCEPT ![Current].fired =
                              IF @ < 2 \/ @ < obs[Current].times THEN @ + 1 ELSE @]
              \/ /\ left >= 0
                 /\ pc' = pc
                 /\ pos' = pos + 1
                 /\ obs' = obs
    /\ UNCHANGED <<wheel, current_slot, granularity, lag, dis, span, scan>>

\* Mutant: its ticks are added.
NewSlotTicks(t) == (current_slot + item[t].repeat_interval \div granularity) % Slots

\* Where a timer that repeats is put: its rounds, not its ticks, are added.
NewSlot(t) == (current_slot + Rounds(item[t].repeat_interval)) % Slots

\* The callback has returned: erase the item, or arm it again where it is, or
\* splice it to another list and start over from list.begin().
CallbackReturns ==
    /\ pc = "callback"
    /\ LET t     == Current
           count == IF item[t].repeat_count > 0 THEN item[t].repeat_count - 1
                    ELSE item[t].repeat_count
           taken == [wheel EXCEPT ![scan] = Without(@, pos)]
       IN  \/ /\ count = 0
              /\ wheel' = taken
              /\ item' = [item EXCEPT ![t] = NoItem]
              /\ obs' = [obs EXCEPT ![t].since = 0, ![t].due = 0, ![t].slack = 0]
              /\ pos' = pos
           \/ /\ count # 0
              /\ item' = [item EXCEPT ![t].repeat_count = count,
                                      ![t].remaining_ticks =
                                         Rounds(item[t].repeat_interval)]
              /\ obs' = [obs EXCEPT ![t].since = 0]
              /\ \/ /\ NewSlot(t) # current_slot
                    /\ wheel' = [taken EXCEPT ![NewSlot(t)] = Append(@, t)]
                    /\ pos' = 1
                 \/ /\ NewSlot(t) = current_slot
                    /\ wheel' = wheel
                    /\ pos' = pos + 1
    /\ pc' = "scan"
    /\ UNCHANGED <<current_slot, granularity, lag, dis, span, scan>>

-----------------------------------------------------------------------------
Pass == \/ ExecuteTimeout \/ TurnSlot \/ LastTrigger \/ EndOfList \/ Visit
        \/ CallbackReturns

Next ==
    \/ Clock
    \/ \E g \in Granularities : SetGranularity(g)
    \/ \E t \in Timers, timeout \in Timeouts, n \in Times : AddTimer(t, timeout, n)
    \/ ExecuteNothing
    \/ Pass

Spec == Init /\ [][Next]_vars

\* Time goes on, the loop keeps calling ExecuteTimeout and callbacks return.
FairSpec == Spec /\ WF_vars(Clock) /\ WF_vars(Pass)

-----------------------------------------------------------------------------
(* Properties.                                                             *)

TypeOK ==
    /\ wheel \in [Slot -> Seq(Timers)]
    /\ item \in [Timers -> [remaining_ticks : Int, repeat_interval : Nat,
                            repeat_count : Int, age : 0 .. AgeCap]]
    /\ current_slot \in Slot
    /\ granularity \in Granularities
    /\ lag \in 0 .. MaxLag
    /\ pc \in {"idle", "tick", "scan", "callback"}
    /\ dis \in 0 .. MaxLag /\ span \in 0 .. MaxLag
    /\ scan \in Slot
    /\ pos \in Nat
    /\ obs \in [Timers -> [due : Int, fired : Nat, times : Int, slack : Nat,
                           since : Nat]]

Firing(t) == pc = "callback" /\ Current = t
First(t)  == Firing(t) /\ obs[t].fired = 1

\* A timer is in the wheel, once, exactly while it has firings left: erase,
\* splice and the restarted iteration of ExecuteTimeout neither lose an item
\* nor keep or duplicate one.
PendingWhileOwed ==
    \A t \in Timers :
      LET owed == \/ obs[t].times < 0 /\ obs[t].fired > 0
                  \/ obs[t].fired > 0 /\ obs[t].fired < obs[t].times
      IN  /\ \A s, z \in Slot : \A i \in DOMAIN wheel[s], j \in DOMAIN wheel[z] :
                At(t, s, i) /\ At(t, z, j) => s = z /\ i = j
          /\ obs[t].fired > 0 /\ ~Firing(t) => (Pending(t) <=> owed)

\* The first firing comes on exactly the turn the timeout asks for, whatever
\* the mix of slots and rounds: not a revolution early and not one late.
FirstFiringOnItsTurn ==
    \A t \in Timers :
      /\ First(t) => obs[t].due = 0
      /\ Pending(t) /\ obs[t].fired = 0 /\ pc \in {"idle", "tick"} => obs[t].due >= 1

\* A timer fires early by no more than the time the loop was behind when the
\* timer was added, and never when it was not behind.
EarlyByLagAtMost ==
    \A t \in Timers : First(t) =>
       item[t].age + obs[t].slack >= item[t].repeat_interval

\* A timer that was added is eventually called back and removed.
EventuallyFires == \A t \in Timers : Pending(t) ~> ~Pending(t)

\* A callback adds a timer to the list that is being walked.
AddsToWalkedList ==
    /\ pc = "callback"
    /\ \E t \in Timers, timeout \in Timeouts, n \in Times :
          SlotFor(timeout) = scan /\ AddTimer(t, timeout, n)

\* ExecuteTimeout returns: erasing, repeating in place and restarting after a
\* splice do not keep a pass in one list for ever.  Only callbacks that without
\* end add timers to the very list being walked can do that.
PassEnds ==
    []<><<AddsToWalkedList>>_vars \/ ((pc # "idle") ~> (pc = "idle"))
=============================================================================
