-------------------------- MODULE TimeWheelProofs --------------------------
(***************************************************************************)
(* TimeWheel for any number of slots and timers and any timeouts: erase,   *)
(* splice and the restarted iteration neither lose nor duplicate an item,  *)
(* and, where nothing disturbs the list that is walked (one-shot timers    *)
(* that are added between passes), a timer fires on its turn and not early.*)
(***************************************************************************)
EXTENDS TimeWheel, SequenceTheorems, TLAPS

\* An item is in one place of one list.
Once ==
    \A s, z \in Slot : \A i \in DOMAIN wheel[s], j \in DOMAIN wheel[z] :
       wheel[s][i] = wheel[z][j] => s = z /\ i = j

\* The iterator is in the list, at an item while that is called back.
Iterator ==
    /\ pc \in {"scan", "callback"} => pos >= 1
    /\ pc = "callback" => pos <= Len(wheel[scan])
    /\ span <= lag

\* repeat_count_ is what is left of the times asked for; n is 1 while the item
\* is called back and its count still includes that call.
Left(t, n) ==
    \/ obs[t].times < 0 /\ item[t].repeat_count < 0
    \/ obs[t].times = 0 /\ item[t].repeat_count = 0 /\ obs[t].fired = n
    \/ /\ obs[t].times > 0 /\ item[t].repeat_count >= 1
       /\ item[t].repeat_count + obs[t].fired = obs[t].times + n

Counted ==
    \A t \in Timers :
       /\ Pending(t) /\ ~Firing(t) => Left(t, 0)
       /\ Firing(t) => Left(t, 1) /\ obs[t].fired >= 1
       /\ ~Pending(t) /\ obs[t].fired > 0
             => obs[t].times >= 0 /\ obs[t].fired >= obs[t].times

WInv == TypeOK /\ Once /\ Iterator /\ Counted

-----------------------------------------------------------------------------
(* One-shot timers.                                                        *)

\* Turns of the wheel until slot s is walked next, and in n rounds.
Dist(s)  == IF s >= current_slot THEN s - current_slot
            ELSE s - current_slot + Slots
Turns(n) == n * Slots

Walking == pc \in {"scan", "callback"}

\* The item at i of slot s is still to be visited in this walk.
Ahead(s, i) == Walking /\ s = scan /\ i >= pos

\* What an item has to wait is the distance of its slot and its rounds; one
\* that is ahead of the iterator has come to its slot.
DueAt(t, s, i) ==
    /\ item[t].repeat_count = 1
    /\ Firing(t) => obs[t].due = 0 /\ obs[t].fired = 1
    /\ ~Firing(t) => /\ obs[t].fired = 0 /\ item[t].remaining_ticks >= 0
                     /\ obs[t].due = Turns(item[t].remaining_ticks)
                                       + IF Ahead(s, i) THEN 0 ELSE 1 + Dist(s)

DueTurns ==
    /\ Walking => Dist(scan) = Slots - 1
    /\ \A s \in Slot : \A i \in DOMAIN wheel[s] : DueAt(wheel[s][i], s, i)

\* The wheel has turned no further than time has passed: the turns since the
\* item was added, and those the pass still has to make, are paid for.
Turned(t) == item[t].repeat_interval \div granularity + 1 - obs[t].due + dis

PaidFor(t) ==
    /\ item[t].repeat_interval \in Timeouts
    /\ \/ item[t].age = AgeCap
       \/ granularity * Turned(t) <= item[t].age + obs[t].slack - lag + span

Paid ==
    /\ pc = "idle" => dis = 0 /\ span = 0
    /\ \A t \in Timers : Pending(t) => PaidFor(t)

-----------------------------------------------------------------------------
(* Lists and slots.                                                        *)

Wheels == [Slot -> Seq(Timers)]
In(w, t) == \E s \in Slot : \E i \in DOMAIN w[s] : w[s][i] = t
OnceIn(w) ==
    \A s, z \in Slot : \A i \in DOMAIN w[s], j \in DOMAIN w[z] :
       w[s][i] = w[z][j] => s = z /\ i = j

Put(w, z, t)  == [w EXCEPT ![z] = Append(@, t)]
Take(w, z, p) == [w EXCEPT ![z] = Without(@, p)]

\* Reduced modulo slots_, a number is a slot.
LEMMA ModIsSlot == \A n \in Int : n % Slots \in Slot
BY WheelAssumption DEF Slot

\* A list without its item at p.
LEMMA WithoutProperties ==
    ASSUME NEW S, NEW list \in Seq(S), NEW p \in 1 .. Len(list)
    PROVE  /\ Without(list, p) \in Seq(S)
           /\ Len(Without(list, p)) = Len(list) - 1
           /\ \A i \in 1 .. Len(list) - 1 :
                 Without(list, p)[i] = IF i < p THEN list[i] ELSE list[i + 1]
<1> DEFINE n == Len(list)
           a == SubSeq(list, 1, p - 1)
           b == SubSeq(list, p + 1, n)
<1>1. n \in Nat /\ p \in Nat /\ 1 <= p /\ p <= n /\ \A i \in 1 .. n : list[i] \in S
  BY LenProperties, ElementOfSeq
<1> HIDE DEF n
<1>2. /\ a \in Seq(S) /\ Len(a) = p - 1
      /\ \A i \in 1 .. p - 1 : a[i] = list[i]
  <2>1. \A i \in 1 .. p - 1 : list[i] \in S
    BY <1>1
  <2>2. p - 1 \in Int
    BY <1>1
  <2>3. /\ a \in Seq(S) /\ Len(a) = IF 1 <= p - 1 THEN p - 1 - 1 + 1 ELSE 0
        /\ \A i \in 1 .. p - 1 - 1 + 1 : a[i] = list[1 + i - 1]
    BY <2>1, <2>2, SubSeqProperties
  <2> HIDE DEF a
  <2> QED
    BY <1>1, <2>3
<1>3. /\ b \in Seq(S) /\ Len(b) = n - p
      /\ \A i \in 1 .. n - p : b[i] = list[p + i]
  <2>1. \A i \in p + 1 .. n : list[i] \in S
    BY <1>1
  <2>2. p + 1 \in Int /\ n \in Int
    BY <1>1
  <2>3. /\ b \in Seq(S) /\ Len(b) = IF p + 1 <= n THEN n - (p + 1) + 1 ELSE 0
        /\ \A i \in 1 .. n - (p + 1) + 1 : b[i] = list[p + 1 + i - 1]
    BY <2>1, <2>2, SubSeqProperties
  <2> HIDE DEF b
  <2>4. Len(b) = n - p /\ n - (p + 1) + 1 = n - p
    BY <1>1, <2>3
  <2>5. ASSUME NEW i \in 1 .. n - p PROVE b[i] = list[p + i]
    <3>1. p + 1 + i - 1 = p + i
      BY <1>1
    <3> QED
      BY <2>3, <2>4, <3>1
  <2> QED
    BY <2>3, <2>4, <2>5
<1>4. Without(list, p) = a \o b
  BY DEF Without, n
<1> HIDE DEF a, b
<1>5. /\ a \o b \in Seq(S) /\ Len(a \o b) = Len(a) + Len(b)
      /\ \A i \in 1 .. Len(a) + Len(b) :
            (a \o b)[i] = IF i <= Len(a) THEN a[i] ELSE b[i - Len(a)]
  BY <1>2, <1>3, ConcatProperties
<1>6. Len(a) + Len(b) = n - 1
  BY <1>1, <1>2, <1>3
<1>7. ASSUME NEW i \in 1 .. n - 1
      PROVE  Without(list, p)[i] = IF i < p THEN list[i] ELSE list[i + 1]
  <2>1. CASE i < p
    BY <1>1, <1>2, <1>4, <1>5, <1>6, <2>1
  <2>2. CASE ~(i < p)
    <3>1. i - Len(a) \in 1 .. n - p /\ p + (i - Len(a)) = i + 1 /\ ~(i <= Len(a))
      BY <1>1, <1>2, <2>2
    <3> QED
      BY <1>3, <1>4, <1>5, <1>6, <2>2, <3>1
  <2> QED
    BY <2>1, <2>2
<1> QED
  BY <1>4, <1>5, <1>6, <1>7 DEF n

\* emplace_back of an item that is in no list.
LEMMA AppendTo ==
    ASSUME NEW w \in Wheels, OnceIn(w), NEW z \in Slot, NEW t \in Timers, ~In(w, t),
           NEW n, n = Put(w, z, t)
    PROVE  /\ n \in Wheels /\ OnceIn(n)
           /\ \A u : In(n, u) <=> In(w, u) \/ u = t
           /\ \A s \in Slot : \A i \in DOMAIN n[s] :
                 IF s = z /\ i = Len(w[z]) + 1 THEN n[s][i] = t
                 ELSE i \in DOMAIN w[s] /\ n[s][i] = w[s][i]
           /\ \A s \in Slot : \A i \in DOMAIN w[s] :
                 i \in DOMAIN n[s] /\ n[s][i] = w[s][i]
<1> DEFINE list == Append(w[z], t)
<1>0. n = [w EXCEPT ![z] = list]
  BY DEF Put
<1>1. w[z] \in Seq(Timers) /\ Len(w[z]) \in Nat /\ DOMAIN w[z] = 1 .. Len(w[z])
  BY LenProperties DEF Wheels
<1>2. /\ list \in Seq(Timers) /\ Len(list) = Len(w[z]) + 1
      /\ \A i \in 1 .. Len(w[z]) : list[i] = w[z][i]
      /\ list[Len(w[z]) + 1] = t
  BY <1>1, AppendProperties
<1>3. DOMAIN list = 1 .. Len(w[z]) + 1
  BY <1>2, LenProperties
<1> HIDE DEF list
<1>4. n \in Wheels /\ n[z] = list /\ \A s \in Slot : s # z => n[s] = w[s]
  BY <1>0, <1>2 DEF Wheels
<1>5. ASSUME NEW s \in Slot, NEW i \in DOMAIN n[s]
      PROVE  IF s = z /\ i = Len(w[z]) + 1 THEN n[s][i] = t
             ELSE i \in DOMAIN w[s] /\ n[s][i] = w[s][i]
  <2>1. CASE s # z
    BY <1>4, <2>1
  <2>2. CASE s = z
    BY <1>1, <1>2, <1>3, <1>4, <2>2
  <2> QED
    BY <2>1, <2>2
<1>6. ASSUME NEW s \in Slot, NEW i \in DOMAIN w[s]
      PROVE  i \in DOMAIN n[s] /\ n[s][i] = w[s][i]
  <2>1. CASE s # z
    BY <1>4, <2>1
  <2>2. CASE s = z
    BY <1>1, <1>2, <1>3, <1>4, <2>2
  <2> QED
    BY <2>1, <2>2
<1>7. Len(w[z]) + 1 \in DOMAIN n[z] /\ n[z][Len(w[z]) + 1] = t
  BY <1>1, <1>2, <1>3, <1>4
<1>8. ASSUME NEW u PROVE In(n, u) <=> In(w, u) \/ u = t
  BY <1>5, <1>6, <1>7 DEF In
<1>9. OnceIn(n)
  <2> SUFFICES ASSUME NEW s \in Slot, NEW y \in Slot, NEW i \in DOMAIN n[s],
                      NEW j \in DOMAIN n[y], n[s][i] = n[y][j]
               PROVE  s = y /\ i = j
    BY DEF OnceIn
  <2>1. \A x \in Slot : \A k \in DOMAIN w[x] : w[x][k] # t
    BY DEF In
  <2> QED
    BY <1>5, <2>1 DEF OnceIn
<1> QED
  BY <1>4, <1>5, <1>6, <1>8, <1>9

\* erase, or splice, of the item at p.
LEMMA TakeFrom ==
    ASSUME NEW w \in Wheels, OnceIn(w), NEW z \in Slot, NEW p \in 1 .. Len(w[z]),
           NEW n, n = Take(w, z, p)
    PROVE  /\ n \in Wheels /\ OnceIn(n)
           /\ \A u : In(n, u) <=> In(w, u) /\ u # w[z][p]
           /\ \A s \in Slot : \A i \in DOMAIN n[s] :
                 LET j == IF s = z /\ i >= p THEN i + 1 ELSE i
                 IN  j \in DOMAIN w[s] /\ n[s][i] = w[s][j]
<1> DEFINE list == Without(w[z], p)
           was(s, i) == IF s = z /\ i >= p THEN i + 1 ELSE i
<1>0. n = [w EXCEPT ![z] = list]
  BY DEF Take
<1>1. w[z] \in Seq(Timers) /\ Len(w[z]) \in Nat /\ DOMAIN w[z] = 1 .. Len(w[z])
  BY LenProperties DEF Wheels
<1>2. /\ list \in Seq(Timers) /\ Len(list) = Len(w[z]) - 1
      /\ \A i \in 1 .. Len(w[z]) - 1 : list[i] = IF i < p THEN w[z][i] ELSE w[z][i + 1]
  BY <1>1, WithoutProperties
<1>3. DOMAIN list = 1 .. Len(w[z]) - 1
  BY <1>2, LenProperties
<1> HIDE DEF list
<1>4. n \in Wheels /\ n[z] = list /\ \A s \in Slot : s # z => n[s] = w[s]
  BY <1>0, <1>2 DEF Wheels
<1>5. ASSUME NEW s \in Slot, NEW i \in DOMAIN n[s]
      PROVE  was(s, i) \in DOMAIN w[s] /\ n[s][i] = w[s][was(s, i)]
  <2>1. CASE s # z
    BY <1>4, <2>1
  <2>2. CASE s = z
    <3>1. i \in 1 .. Len(w[z]) - 1
      BY <1>3, <1>4, <2>2
    <3> QED
      BY <1>1, <1>2, <1>4, <2>2, <3>1
  <2> QED
    BY <2>1, <2>2
<1>6. ASSUME NEW s \in Slot, NEW i \in DOMAIN w[s], s # z \/ i # p
      PROVE  \E j \in DOMAIN n[s] : n[s][j] = w[s][i]
  <2>1. CASE s # z
    BY <1>4, <2>1
  <2>2. CASE s = z /\ i < p
    <3>1. i \in 1 .. Len(w[z]) - 1
      BY <1>1, <2>2
    <3> QED
      BY <1>2, <1>3, <1>4, <2>2, <3>1
  <2>3. CASE s = z /\ ~(i < p)
    <3>1. i - 1 \in 1 .. Len(w[z]) - 1 /\ ~(i - 1 < p) /\ (i - 1) + 1 = i
      BY <1>1, <1>6, <2>3
    <3>2. list[i - 1] = w[z][(i - 1) + 1]
      BY <1>2, <3>1
    <3> QED
      BY <1>3, <1>4, <2>3, <3>1, <3>2
  <2> QED
    BY <2>1, <2>2, <2>3
<1>7. p \in DOMAIN w[z]
  BY <1>1
<1>8. ASSUME NEW s \in Slot, NEW i \in DOMAIN n[s] PROVE n[s][i] # w[z][p]
  <2>1. ~(s = z /\ was(s, i) = p)
    <3>1. s = z => i \in Int
      BY <1>3, <1>4
    <3> QED
      BY <1>1, <3>1
  <2> QED
    BY <1>5, <1>7, <2>1 DEF OnceIn
<1> HIDE DEF was
<1>9. ASSUME NEW u PROVE In(n, u) <=> In(w, u) /\ u # w[z][p]
  <2>1. In(n, u) => In(w, u) /\ u # w[z][p]
    BY <1>5, <1>8 DEF In
  <2>2. ASSUME In(w, u), u # w[z][p] PROVE In(n, u)
    <3>0. PICK s \in Slot : \E i \in DOMAIN w[s] : w[s][i] = u
      BY <2>2 DEF In
    <3>1. PICK i \in DOMAIN w[s] : w[s][i] = u
      BY <3>0
    <3>2. s # z \/ i # p
      BY <2>2, <3>1
    <3> QED
      BY <1>6, <3>1, <3>2 DEF In
  <2> QED
    BY <2>1, <2>2
<1>10. OnceIn(n)
  <2> SUFFICES ASSUME NEW s \in Slot, NEW y \in Slot, NEW i \in DOMAIN n[s],
                      NEW j \in DOMAIN n[y], n[s][i] = n[y][j]
               PROVE  s = y /\ i = j
    BY DEF OnceIn
  <2>1. s = y /\ was(s, i) = was(y, j)
    BY <1>5 DEF OnceIn
  <2>2. s = z => i \in Int /\ j \in Int
    BY <1>3, <1>4, <2>1
  <2> QED
    BY <1>1, <2>1, <2>2 DEF was
<1> QED
  BY <1>4, <1>5, <1>9, <1>10 DEF was

-----------------------------------------------------------------------------
(* Nothing is lost: WInv is preserved.                                     *)

\* The quotient of AddTimer and ExecuteTimeout.
LEMMA DivNat == \A a \in Nat, b \in Nat \ {0} : a \div b \in Nat
OBVIOUS

\* Rounds counts.
LEMMA RoundsNat ==
    ASSUME granularity \in Granularities, NEW n \in Nat
    PROVE  Rounds(n) \in Nat
<1>1. granularity \in Nat \ {0} /\ Slots \in Nat \ {0}
  BY WheelAssumption
<1>2. n \div granularity \in Nat
  BY <1>1, DivNat
<1> QED
  BY <1>1, <1>2, DivNat DEF Rounds

\* Pending is membership of the lists.
LEMMA PendingIsIn == \A t : Pending(t) <=> In(wheel, t)
BY DEF Pending, At, In

\* The same after the step.
LEMMA PendingIsInPrime == \A t : Pending(t)' <=> In(wheel', t)
BY DEF Pending, At, In

\* Once, of the lists before and after the step.
LEMMA OnceIsOnceIn == (Once <=> OnceIn(wheel)) /\ (Once' <=> OnceIn(wheel'))
BY DEF Once, OnceIn

\* The iterator of a callback is at an item of the list.
LEMMA CurrentIn ==
    ASSUME TypeOK, Iterator,
           pc = "callback" \/ (pc = "scan" /\ pos <= Len(wheel[scan]))
    PROVE  /\ pos \in 1 .. Len(wheel[scan]) /\ pos \in DOMAIN wheel[scan]
           /\ wheel[scan] \in Seq(Timers)
           /\ Current \in Timers /\ In(wheel, Current)
<1>1. wheel[scan] \in Seq(Timers) /\ scan \in Slot
  BY DEF TypeOK
<1>2. Len(wheel[scan]) \in Nat /\ DOMAIN wheel[scan] = 1 .. Len(wheel[scan])
  BY <1>1, LenProperties
<1>3. pos \in 1 .. Len(wheel[scan])
  BY <1>2 DEF TypeOK, Iterator
<1>4. wheel[scan][pos] \in Timers
  BY <1>1, <1>3, ElementOfSeq
<1> QED
  BY <1>1, <1>2, <1>3, <1>4 DEF Current, In

\* A timer's part of Counted, from what the step leaves of its counts.
LEMMA CountsKept ==
    ASSUME WInv, NEW t \in Timers,
           item'[t].repeat_count = item[t].repeat_count,
           obs'[t].times = obs[t].times, obs'[t].fired = obs[t].fired,
           Pending(t)' <=> Pending(t), Firing(t)' <=> Firing(t)
    PROVE  /\ Pending(t)' /\ ~Firing(t)' => Left(t, 0)'
           /\ Firing(t)' => Left(t, 1)' /\ obs'[t].fired >= 1
           /\ ~Pending(t)' /\ obs'[t].fired > 0
                 => obs'[t].times >= 0 /\ obs'[t].fired >= obs'[t].times
<1>1. (Left(t, 0)' <=> Left(t, 0)) /\ (Left(t, 1)' <=> Left(t, 1))
  BY DEF Left
<1> QED
  BY <1>1 DEF WInv, Counted

\* Steps that leave the lists and the counts alone and neither begin nor end a
\* callback.
LEMMA QuietWInv ==
    ASSUME WInv, TypeOK', wheel' = wheel, Iterator',
           \A t \in Timers : /\ item'[t].repeat_count = item[t].repeat_count
                             /\ obs'[t].times = obs[t].times
                             /\ obs'[t].fired = obs[t].fired,
           \/ pc' = pc /\ scan' = scan /\ pos' = pos
           \/ pc # "callback" /\ pc' # "callback"
    PROVE  WInv'
<1>1. Once'
  BY DEF WInv, Once
<1>2. \A t \in Timers : (Pending(t)' <=> Pending(t)) /\ (Firing(t)' <=> Firing(t))
  BY DEF Pending, At, Firing, Current
<1>3. Counted'
  BY <1>2, CountsKept DEF Counted
<1> QED
  BY <1>1, <1>3 DEF WInv

ItemType == [remaining_ticks : Int, repeat_interval : Nat, repeat_count : Int,
             age : 0 .. AgeCap]
ObsType  == [due : Int, fired : Nat, times : Int, slack : Nat, since : Nat]

\* WInv holds initially.
LEMMA InitWInv == Init => WInv
<1> SUFFICES ASSUME Init PROVE WInv
  OBVIOUS
<1>1. 0 \in Slot
  BY WheelAssumption DEF Slot
<1>2. NoItem \in ItemType /\ NoObs \in ObsType
  BY WheelAssumption DEF NoItem, NoObs, ItemType, ObsType
<1>3. \A s \in Slot : wheel[s] = <<>> /\ DOMAIN wheel[s] = {}
  BY DEF Init
<1>4. TypeOK
  <2>1. wheel \in [Slot -> Seq(Timers)]
    BY DEF Init
  <2> QED
    BY <1>1, <1>2, <2>1, WheelAssumption DEF Init, TypeOK, ItemType, ObsType
<1>5. Once
  BY <1>3 DEF Once
<1>6. Iterator
  BY DEF Init, Iterator
<1>7. Counted
  <2>1. \A t \in Timers : ~Pending(t) /\ ~Firing(t)
    BY <1>3 DEF Pending, Firing, Init
  <2>2. ASSUME NEW t \in Timers PROVE ~(obs[t].fired > 0)
    <3>1. obs[t] = NoObs
      BY DEF Init
    <3> QED
      BY <3>1 DEF NoObs
  <2> QED
    BY <2>1, <2>2, Zenon DEF Counted
<1> QED
  BY <1>4, <1>5, <1>6, <1>7 DEF WInv

\* Time passing preserves WInv.
LEMMA ClockWInv == WInv /\ Clock => WInv'
<1> SUFFICES ASSUME WInv, Clock PROVE WInv'
  OBVIOUS
<1>1. ASSUME NEW t \in Timers
      PROVE  /\ item'[t] \in ItemType /\ obs'[t] \in ObsType
             /\ item'[t].repeat_count = item[t].repeat_count
             /\ obs'[t].times = obs[t].times
             /\ obs'[t].fired = obs[t].fired
  <2>1. item[t] \in ItemType /\ obs[t] \in ObsType
    BY DEF WInv, TypeOK, ItemType, ObsType
  <2>2. \A n \in 0 .. AgeCap : Older(n) \in 0 .. AgeCap
    BY WheelAssumption DEF Older
  <2>3. \A n \in Nat : Older(n) \in Nat
    BY WheelAssumption DEF Older
  <2>4. \/ item'[t] = item[t]
        \/ item'[t] = [item[t] EXCEPT !.age = Older(@)]
    BY DEF Clock
  <2>5. \/ obs'[t] = obs[t]
        \/ obs'[t] = [obs[t] EXCEPT !.since = Older(@)]
    BY DEF Clock
  <2> QED
    BY <2>1, <2>2, <2>3, <2>4, <2>5 DEF ItemType, ObsType
<1>2. item' \in [Timers -> ItemType] /\ obs' \in [Timers -> ObsType]
  <2>1. DOMAIN item' = Timers /\ DOMAIN obs' = Timers
    BY DEF Clock
  <2>2. item' = [t \in Timers |-> item'[t]] /\ obs' = [t \in Timers |-> obs'[t]]
    BY Zenon DEF Clock
  <2> QED
    BY <1>1, <2>2
<1>3. TypeOK' /\ Iterator' /\ wheel' = wheel /\ pc' = pc /\ scan' = scan /\ pos' = pos
  <2>1. /\ lag < MaxLag /\ lag' = lag + 1
        /\ UNCHANGED <<wheel, current_slot, granularity, pc, dis, span, scan, pos>>
    BY DEF Clock
  <2> QED
    BY <1>2, <2>1, WheelAssumption DEF WInv, TypeOK, Iterator, ItemType, ObsType
<1> QED
  BY <1>1, <1>3, QuietWInv

\* SetGranularity preserves WInv.
LEMMA SetGranularityWInv ==
    ASSUME WInv, NEW g \in Granularities, SetGranularity(g)
    PROVE  WInv'
<1>1. TypeOK' /\ Iterator' /\ wheel' = wheel /\ pc' = pc /\ scan' = scan /\ pos' = pos
  BY DEF SetGranularity, WInv, TypeOK, Iterator
<1> QED
  BY <1>1, QuietWInv DEF SetGranularity

\* The start of ExecuteTimeout preserves WInv.
LEMMA ExecuteWInv == WInv /\ ExecuteTimeout => WInv'
<1> SUFFICES ASSUME WInv, ExecuteTimeout PROVE WInv'
  OBVIOUS
<1>1. lag \div granularity \in 0 .. MaxLag
  <2>1. granularity \in Nat \ {0} /\ lag \in Nat /\ lag <= MaxLag /\ MaxLag \in Nat
    BY WheelAssumption DEF WInv, TypeOK
  <2>2. \A a, m \in Nat, b \in Nat \ {0} : a <= m => a \div b \in 0 .. m
    OBVIOUS
  <2> QED
    BY <2>1, <2>2
<1>2. TypeOK' /\ Iterator' /\ wheel' = wheel
  BY <1>1 DEF ExecuteTimeout, WInv, TypeOK, Iterator
<1> QED
  BY <1>2, QuietWInv DEF ExecuteTimeout

\* Turning to the next slot preserves WInv.
LEMMA TurnSlotWInv == WInv /\ TurnSlot => WInv'
<1> SUFFICES ASSUME WInv, TurnSlot PROVE WInv'
  OBVIOUS
<1>1. (current_slot + 1) % Slots \in Slot /\ current_slot \in Slot
  <2>1. current_slot \in Slot /\ current_slot + 1 \in Int
    BY DEF WInv, TypeOK, Slot
  <2> QED
    BY <2>1, ModIsSlot
<1>2. ASSUME NEW t \in Timers
      PROVE  /\ obs'[t] \in ObsType
             /\ obs'[t].times = obs[t].times /\ obs'[t].fired = obs[t].fired
  <2>1. obs[t] \in ObsType
    BY DEF WInv, TypeOK, ObsType
  <2>2. \/ obs'[t] = obs[t]
        \/ obs'[t] = [obs[t] EXCEPT !.due = @ - 1]
    BY DEF TurnSlot
  <2> QED
    BY <2>1, <2>2 DEF ObsType
<1>3. obs' \in [Timers -> ObsType]
  <2>1. obs' = [t \in Timers |-> obs'[t]]
    BY Zenon DEF TurnSlot
  <2> QED
    BY <1>2, <2>1
<1>4. TypeOK' /\ Iterator' /\ wheel' = wheel
  <2>1. /\ dis > 0 /\ dis' = dis - 1 /\ scan' = current_slot
        /\ current_slot' = (current_slot + 1) % Slots /\ pos' = 1 /\ pc' = "scan"
        /\ UNCHANGED <<wheel, item, granularity, lag, span>>
    BY DEF TurnSlot
  <2> QED
    BY <1>1, <1>3, <2>1, WheelAssumption DEF WInv, TypeOK, Iterator, ObsType
<1> QED
  BY <1>2, <1>4, QuietWInv DEF TurnSlot

\* The end of a pass preserves WInv.
LEMMA LastTriggerWInv == WInv /\ LastTrigger => WInv'
<1> SUFFICES ASSUME WInv, LastTrigger PROVE WInv'
  OBVIOUS
<1>1. 0 \in Slot
  BY WheelAssumption DEF Slot
<1>2. TypeOK' /\ Iterator' /\ wheel' = wheel
  BY <1>1, WheelAssumption DEF LastTrigger, WInv, TypeOK, Iterator
<1> QED
  BY <1>2, QuietWInv DEF LastTrigger

\* The end of a slot's list preserves WInv.
LEMMA EndOfListWInv == WInv /\ EndOfList => WInv'
<1> SUFFICES ASSUME WInv, EndOfList PROVE WInv'
  OBVIOUS
<1>1. TypeOK' /\ Iterator' /\ wheel' = wheel
  BY DEF EndOfList, WInv, TypeOK, Iterator
<1> QED
  BY <1>1, QuietWInv DEF EndOfList

\* AddTimer, from the outside or from a callback, preserves WInv.
LEMMA AddTimerWInv ==
    ASSUME WInv, NEW t \in Timers, NEW timeout \in Timeouts, NEW times \in Times,
           AddTimer(t, timeout, times)
    PROVE  WInv'
<1> DEFINE entry == [remaining_ticks |-> Rounds(timeout),
                     repeat_interval |-> timeout, repeat_count |-> times, age |-> 0]
           seen  == [due |-> timeout \div granularity + 1, fired |-> 0,
                     times |-> times, slack |-> Slack, since |-> 0]
<1>0. timeout \in Nat /\ times \in Int
  BY WheelAssumption
<1>1. /\ item' = [item EXCEPT ![t] = entry] /\ obs' = [obs EXCEPT ![t] = seen]
      /\ wheel' = [wheel EXCEPT ![SlotFor(timeout)] = Append(@, t)]
      /\ UNCHANGED <<current_slot, granularity, lag, pc, dis, span, scan, pos>>
      /\ ~Pending(t)
  BY DEF AddTimer
<1>2. timeout \div granularity \in Nat
  BY <1>0, DivNat, WheelAssumption DEF WInv, TypeOK
<1>3. entry \in ItemType /\ entry.repeat_count = times
  BY <1>0, RoundsNat, WheelAssumption DEF WInv, TypeOK, ItemType
<1>4. seen \in ObsType /\ seen.times = times /\ seen.fired = 0
  <2>1. Slack \in Nat
    BY DEF Slack, WInv, TypeOK
  <2> QED
    BY <1>0, <1>2, <2>1 DEF ObsType
<1>5. SlotFor(timeout) \in Slot
  <2>1. current_slot + timeout \div granularity \in Int
    BY <1>2 DEF WInv, TypeOK, Slot
  <2> QED
    BY <2>1, ModIsSlot DEF SlotFor
<1> HIDE DEF entry, seen
<1>6. /\ wheel' \in Wheels /\ OnceIn(wheel')
      /\ \A u : In(wheel', u) <=> In(wheel, u) \/ u = t
      /\ \A s \in Slot : \A i \in DOMAIN wheel[s] :
            i \in DOMAIN wheel'[s] /\ wheel'[s][i] = wheel[s][i]
  <2>1. wheel \in Wheels /\ OnceIn(wheel) /\ ~In(wheel, t)
    BY <1>1, PendingIsIn, OnceIsOnceIn DEF WInv, TypeOK, Wheels
  <2>2. PICK z \in Slot : z = SlotFor(timeout)
    BY <1>5
  <2>3. wheel' = Put(wheel, z, t)
    BY <1>1, <2>2 DEF Put
  <2> QED
    BY <2>1, <2>3, AppendTo
<1>7. TypeOK'
  <2>1. item' \in [Timers -> ItemType] /\ obs' \in [Timers -> ObsType]
    BY <1>1, <1>3, <1>4 DEF WInv, TypeOK, ItemType, ObsType
  <2> QED
    BY <1>1, <1>6, <2>1 DEF WInv, TypeOK, Wheels, ItemType, ObsType
<1>8. Iterator'
  <2>1. ASSUME pc = "callback" PROVE pos <= Len(wheel'[scan])
    <3>1. pos \in DOMAIN wheel'[scan] /\ scan \in Slot
      BY <1>6, <2>1, CurrentIn DEF WInv, TypeOK
    <3> QED
      BY <1>6, <3>1, LenProperties DEF Wheels
  <2> QED
    BY <1>1, <2>1 DEF WInv, Iterator
<1>9. ASSUME NEW u \in Timers PROVE Firing(u)' <=> Firing(u)
  <2>1. pc = "callback" => wheel'[scan][pos] = wheel[scan][pos]
    BY <1>6, CurrentIn DEF WInv, TypeOK
  <2> QED
    BY <1>1, <2>1 DEF Firing, Current
<1>10. ~Firing(t)
  BY <1>1, CurrentIn, PendingIsIn DEF Firing, WInv
<1>11. Counted'
  <2>1. ASSUME NEW u \in Timers, u # t
        PROVE  /\ item'[u] = item[u] /\ obs'[u] = obs[u]
               /\ Pending(u)' <=> Pending(u)
    BY <1>1, <1>6, <2>1, PendingIsIn, PendingIsInPrime DEF WInv, TypeOK
  <2>2. Pending(t)' /\ item'[t] = entry /\ obs'[t] = seen
    BY <1>1, <1>6, PendingIsInPrime DEF WInv, TypeOK
  <2>3. Left(t, 0)'
    BY <1>0, <1>3, <1>4, <2>2 DEF Left
  <2>4. ASSUME NEW u \in Timers
        PROVE  /\ Pending(u)' /\ ~Firing(u)' => Left(u, 0)'
               /\ Firing(u)' => Left(u, 1)' /\ obs'[u].fired >= 1
               /\ ~Pending(u)' /\ obs'[u].fired > 0
                     => obs'[u].times >= 0 /\ obs'[u].fired >= obs'[u].times
    <3>1. CASE u = t
      BY <1>9, <1>10, <2>2, <2>3, <3>1
    <3>2. CASE u # t
      BY <1>9, <2>1, <3>2, CountsKept
    <3> QED
      BY <3>1, <3>2
  <2> QED
    BY <2>4 DEF Counted
<1> QED
  BY <1>6, <1>7, <1>8, <1>11, OnceIsOnceIn DEF WInv

\* The visit of an item preserves WInv.
LEMMA VisitWInv == WInv /\ Visit => WInv'
<1> SUFFICES ASSUME WInv, Visit PROVE WInv'
  OBVIOUS
<1>1. PICK t \in Timers : t = Current
  BY CurrentIn DEF Visit, WInv
<1>2. /\ In(wheel, t) /\ pos \in 1 .. Len(wheel[scan])
      /\ pos \in DOMAIN wheel[scan]
  BY <1>1, CurrentIn DEF Visit, WInv
<1>3. item[t] \in ItemType /\ obs[t] \in ObsType
  BY DEF WInv, TypeOK, ItemType, ObsType
<1>4. PICK left \in Int : left = item[t].remaining_ticks - 1
  BY <1>3 DEF ItemType
<1>5. PICK count \in Nat : count = IF obs[t].fired < 2 \/ obs[t].fired < obs[t].times
                                 THEN obs[t].fired + 1 ELSE obs[t].fired
  BY <1>3 DEF ObsType
<1>6. /\ item' = [item EXCEPT ![t].remaining_ticks = left]
      /\ pc = "scan"
      /\ UNCHANGED <<wheel, current_slot, granularity, lag, dis, span, scan>>
  BY <1>1, <1>4, Zenon DEF Visit
<1>7. \/ /\ pc' = "callback" /\ pos' = pos
         /\ obs' = [obs EXCEPT ![t].fired = count]
      \/ pc' = "scan" /\ pos' = pos + 1 /\ obs' = obs
  BY <1>1, <1>4, <1>5, Zenon DEF Visit
<1>8. /\ item' \in [Timers -> ItemType]
      /\ \A u \in Timers : item'[u].repeat_count = item[u].repeat_count
  BY <1>3, <1>6 DEF WInv, TypeOK, ItemType
<1>9. CASE pc' = "scan" /\ pos' = pos + 1 /\ obs' = obs
  <2>1. TypeOK' /\ Iterator'
    <3>1. UNCHANGED <<wheel, current_slot, granularity, lag, dis, span, scan>>
      BY <1>6
    <3>2. pos' \in Nat /\ pos' >= 1 /\ pc' = "scan"
      BY <1>2, <1>9
    <3>3. Iterator'
      BY <3>1, <3>2 DEF WInv, Iterator
    <3> QED
      BY <1>8, <1>9, <3>1, <3>2, <3>3 DEF WInv, TypeOK, ItemType
  <2> QED
    BY <1>6, <1>8, <1>9, <2>1, QuietWInv
<1>10. CASE pc' = "callback" /\ pos' = pos /\ obs' = [obs EXCEPT ![t].fired = count]
  <2>1. /\ obs' \in [Timers -> ObsType]
        /\ obs'[t].times = obs[t].times /\ obs'[t].fired = count
        /\ \A u \in Timers : u # t => obs'[u] = obs[u]
    BY <1>3, <1>10 DEF WInv, TypeOK, ObsType
  <2>2. TypeOK' /\ Iterator' /\ Once'
    <3>1. UNCHANGED <<wheel, current_slot, granularity, lag, dis, span, scan>>
      BY <1>6
    <3>2. pc' = "callback" /\ pos' = pos
      BY <1>10
    <3>3. pos >= 1 /\ pos <= Len(wheel[scan])
      BY <1>2
    <3>4. Iterator' /\ Once'
      BY <3>1, <3>2, <3>3 DEF WInv, Iterator, Once
    <3> QED
      BY <1>8, <2>1, <3>1, <3>2, <3>4 DEF WInv, TypeOK, ItemType, ObsType
  <2>3. \A u \in Timers : (Pending(u)' <=> Pending(u)) /\ ~Firing(u)
    BY <1>6 DEF Pending, At, Firing
  <2>4. \A u \in Timers : Firing(u)' <=> u = t
    BY <1>1, <1>6, <1>10 DEF Firing, Current
  <2>5. Left(t, 1)' /\ obs'[t].fired >= 1 /\ Pending(t)'
    <3>1. Left(t, 0) /\ Pending(t)
      BY <1>2, <2>3, PendingIsIn DEF WInv, Counted
    <3>2. /\ item'[t].repeat_count = item[t].repeat_count
          /\ item[t].repeat_count \in Int
          /\ obs[t].fired \in Nat /\ obs[t].times \in Int
      BY <1>3, <1>8 DEF ItemType, ObsType
    <3> QED
      BY <1>5, <2>1, <2>3, <3>1, <3>2 DEF Left
  <2>6. ASSUME NEW u \in Timers
        PROVE  /\ Pending(u)' /\ ~Firing(u)' => Left(u, 0)'
               /\ Firing(u)' => Left(u, 1)' /\ obs'[u].fired >= 1
               /\ ~Pending(u)' /\ obs'[u].fired > 0
                     => obs'[u].times >= 0 /\ obs'[u].fired >= obs'[u].times
    <3>1. CASE u = t
      BY <2>4, <2>5, <3>1
    <3>2. CASE u # t
      BY <1>8, <2>1, <2>3, <2>4, <3>2, CountsKept
    <3> QED
      BY <3>1, <3>2
  <2>7. Counted'
    BY <2>6 DEF Counted
  <2> QED
    BY <2>2, <2>7 DEF WInv
<1> QED
  BY <1>7, <1>9, <1>10

\* What follows a callback, erase or splice, preserves WInv.
LEMMA CallbackReturnsWInv == WInv /\ CallbackReturns => WInv'
<1> SUFFICES ASSUME WInv, CallbackReturns PROVE WInv'
  OBVIOUS
<1>1. PICK t \in Timers : t = Current
  BY CurrentIn DEF CallbackReturns, WInv
<1>2. /\ In(wheel, t) /\ pos \in 1 .. Len(wheel[scan]) /\ pos \in Nat
      /\ scan \in Slot /\ t = wheel[scan][pos]
  BY <1>1, CurrentIn DEF CallbackReturns, WInv, TypeOK, Current
<1>3. item[t] \in ItemType /\ obs[t] \in ObsType
  BY DEF WInv, TypeOK, ItemType, ObsType
<1>4. PICK count \in Int :
         count = IF item[t].repeat_count > 0 THEN item[t].repeat_count - 1
                 ELSE item[t].repeat_count
  BY <1>3 DEF ItemType
<1>5. PICK rounds \in Int : rounds = Rounds(item[t].repeat_interval)
  <2>1. item[t].repeat_interval \in Nat /\ granularity \in Granularities
    BY <1>3 DEF WInv, TypeOK, ItemType
  <2>2. Rounds(item[t].repeat_interval) \in Int
    BY <2>1, RoundsNat
  <2> QED
    BY <2>2
<1>6. PICK z \in Slot : z = NewSlot(t)
  <2>1. current_slot + rounds \in Int
    BY DEF WInv, TypeOK, Slot
  <2> QED
    BY <1>5, <2>1, ModIsSlot DEF NewSlot
<1>7. PICK taken : taken = Take(wheel, scan, pos)
  OBVIOUS
<1>8. /\ taken \in Wheels /\ OnceIn(taken)
      /\ \A u : In(taken, u) <=> In(wheel, u) /\ u # t
  <2>1. wheel \in Wheels /\ OnceIn(wheel)
    BY OnceIsOnceIn DEF WInv, TypeOK, Wheels
  <2> QED
    BY <1>2, <1>7, <2>1, TakeFrom
<1>9. pc = "callback" /\ pc' = "scan"
      /\ UNCHANGED <<current_slot, granularity, lag, dis, span, scan>>
  BY DEF CallbackReturns
<1>10. \A u \in Timers : ~Firing(u)' /\ (Firing(u) <=> u = t)
  BY <1>1, <1>9 DEF Firing
<1>11. Left(t, 1) /\ obs[t].fired >= 1
  BY <1>10 DEF WInv, Counted
<1>12. ASSUME NEW u \in Timers, u # t,
              item'[u] = item[u], obs'[u] = obs[u], Pending(u)' <=> Pending(u)
       PROVE  /\ Pending(u)' /\ ~Firing(u)' => Left(u, 0)'
              /\ Firing(u)' => Left(u, 1)' /\ obs'[u].fired >= 1
              /\ ~Pending(u)' /\ obs'[u].fired > 0
                    => obs'[u].times >= 0 /\ obs'[u].fired >= obs'[u].times
  BY <1>10, <1>12, CountsKept
<1>13. ASSUME wheel' \in Wheels, pos' \in Nat, pos' >= 1,
              item' \in [Timers -> ItemType], obs' \in [Timers -> ObsType]
       PROVE  TypeOK' /\ Iterator'
  BY <1>9, <1>13 DEF WInv, TypeOK, Iterator, Wheels, ItemType, ObsType
\* The last call: erase.
<1>14. CASE /\ count = 0 /\ wheel' = taken /\ item' = [item EXCEPT ![t] = NoItem]
            /\ obs' = [obs EXCEPT ![t].since = 0, ![t].due = 0, ![t].slack = 0]
            /\ pos' = pos
  <2>1. NoItem \in ItemType
    BY WheelAssumption DEF NoItem, ItemType
  <2>2. item' \in [Timers -> ItemType] /\ \A u \in Timers : u # t => item'[u] = item[u]
    BY <1>14, <2>1 DEF WInv, TypeOK, ItemType
  <2>3. /\ obs' \in [Timers -> ObsType]
        /\ obs'[t].times = obs[t].times /\ obs'[t].fired = obs[t].fired
        /\ \A u \in Timers : u # t => obs'[u] = obs[u]
    BY <1>3, <1>14 DEF WInv, TypeOK, ObsType
  <2>4. TypeOK' /\ Iterator' /\ Once'
    BY <1>2, <1>8, <1>13, <1>14, <2>2, <2>3, OnceIsOnceIn
  <2>5. \A u \in Timers : Pending(u)' <=> Pending(u) /\ u # t
    BY <1>8, <1>14, PendingIsIn, PendingIsInPrime
  <2>6. obs'[t].times >= 0 /\ obs'[t].fired >= obs'[t].times
    <3>1. item[t].repeat_count \in Int /\ obs[t].times \in Int /\ obs[t].fired \in Nat
      BY <1>3 DEF ItemType, ObsType
    <3> QED
      BY <1>4, <1>11, <1>14, <2>3, <3>1 DEF Left
  <2>7. ASSUME NEW u \in Timers
        PROVE  /\ Pending(u)' /\ ~Firing(u)' => Left(u, 0)'
               /\ Firing(u)' => Left(u, 1)' /\ obs'[u].fired >= 1
               /\ ~Pending(u)' /\ obs'[u].fired > 0
                     => obs'[u].times >= 0 /\ obs'[u].fired >= obs'[u].times
    <3>1. CASE u = t
      BY <1>10, <2>5, <2>6, <3>1
    <3>2. CASE u # t
      BY <1>12, <2>2, <2>3, <2>5, <3>2
    <3> QED
      BY <3>1, <3>2
  <2> QED
    BY <2>4, <2>7 DEF WInv, Counted
\* Armed again, in another list or where it is.
<1>15. CASE /\ count # 0
            /\ item' = [item EXCEPT ![t].repeat_count = count,
                                    ![t].remaining_ticks = rounds]
            /\ obs' = [obs EXCEPT ![t].since = 0]
            /\ \/ wheel' = Put(taken, z, t) /\ pos' = 1
               \/ wheel' = wheel /\ pos' = pos + 1
  <2>1. /\ item' \in [Timers -> ItemType] /\ item'[t].repeat_count = count
        /\ \A u \in Timers : u # t => item'[u] = item[u]
    BY <1>3, <1>15 DEF WInv, TypeOK, ItemType
  <2>2. /\ obs' \in [Timers -> ObsType]
        /\ obs'[t].times = obs[t].times /\ obs'[t].fired = obs[t].fired
        /\ \A u \in Timers : u # t => obs'[u] = obs[u]
    BY <1>3, <1>15 DEF WInv, TypeOK, ObsType
  <2>3. /\ wheel' \in Wheels /\ OnceIn(wheel')
        /\ \A u : In(wheel', u) <=> In(wheel, u)
    <3>1. CASE wheel' = wheel
      BY <3>1, OnceIsOnceIn DEF WInv, TypeOK, Wheels
    <3>2. CASE wheel' = Put(taken, z, t)
      <4>1. ~In(taken, t)
        BY <1>8
      <4>2. /\ wheel' \in Wheels /\ OnceIn(wheel')
            /\ \A u : In(wheel', u) <=> In(taken, u) \/ u = t
        BY <1>8, <3>2, <4>1, AppendTo
      <4> QED
        BY <1>2, <1>8, <4>2
    <3> QED
      BY <1>15, <3>1, <3>2
  <2>4. pos' \in Nat /\ pos' >= 1
    BY <1>2, <1>15
  <2>5. TypeOK' /\ Iterator' /\ Once'
    BY <1>13, <2>1, <2>2, <2>3, <2>4, OnceIsOnceIn
  <2>6. \A u \in Timers : Pending(u)' <=> Pending(u)
    BY <2>3, PendingIsIn, PendingIsInPrime
  <2>7. Left(t, 0)' /\ Pending(t)'
    <3>1. item[t].repeat_count \in Int /\ obs[t].times \in Int /\ obs[t].fired \in Nat
      BY <1>3 DEF ItemType, ObsType
    <3>2. Pending(t)'
      BY <1>2, <2>6, PendingIsIn
    <3> QED
      BY <1>4, <1>11, <1>15, <2>1, <2>2, <3>1, <3>2 DEF Left
  <2>8. ASSUME NEW u \in Timers
        PROVE  /\ Pending(u)' /\ ~Firing(u)' => Left(u, 0)'
               /\ Firing(u)' => Left(u, 1)' /\ obs'[u].fired >= 1
               /\ ~Pending(u)' /\ obs'[u].fired > 0
                     => obs'[u].times >= 0 /\ obs'[u].fired >= obs'[u].times
    <3>1. CASE u = t
      BY <1>10, <2>7, <3>1
    <3>2. CASE u # t
      BY <1>12, <2>1, <2>2, <2>6, <3>2
    <3> QED
      BY <3>1, <3>2
  <2> QED
    BY <2>5, <2>8 DEF WInv, Counted
<1>16. \/ /\ count = 0 /\ wheel' = taken /\ item' = [item EXCEPT ![t] = NoItem]
          /\ obs' = [obs EXCEPT ![t].since = 0, ![t].due = 0, ![t].slack = 0]
          /\ pos' = pos
       \/ /\ count # 0
          /\ item' = [item EXCEPT ![t].repeat_count = count,
                                  ![t].remaining_ticks = rounds]
          /\ obs' = [obs EXCEPT ![t].since = 0]
          /\ \/ wheel' = [taken EXCEPT ![z] = Append(@, t)] /\ pos' = 1
             \/ wheel' = wheel /\ pos' = pos + 1
  <2>1. taken = [wheel EXCEPT ![scan] = Without(@, pos)]
    BY <1>7 DEF Take
  <2> QED
    BY <1>1, <1>4, <1>5, <1>6, <2>1, Zenon DEF CallbackReturns
<1> QED
  BY <1>14, <1>15, <1>16, Zenon DEF Put

\* Every step preserves WInv.
LEMMA NextWInv == WInv /\ [Next]_vars => WInv'
<1> SUFFICES ASSUME WInv, [Next]_vars PROVE WInv'
  OBVIOUS
<1>1. CASE UNCHANGED vars
  <2>1. TypeOK' /\ Iterator'
    BY <1>1 DEF WInv, TypeOK, Iterator, vars, code
  <2> QED
    BY <1>1, <2>1, QuietWInv DEF vars, code
<1>2. CASE Clock
  BY <1>2, ClockWInv
<1>3. CASE \E g \in Granularities : SetGranularity(g)
  BY <1>3, SetGranularityWInv
<1>4. CASE \E t \in Timers, timeout \in Timeouts, n \in Times : AddTimer(t, timeout, n)
  BY <1>4, AddTimerWInv
<1>5. CASE ExecuteNothing
  BY <1>1, <1>5 DEF ExecuteNothing
<1>6. CASE Pass
  BY <1>6, ExecuteWInv, TurnSlotWInv, LastTriggerWInv, EndOfListWInv, VisitWInv,
     CallbackReturnsWInv DEF Pass
<1> QED
  BY <1>1, <1>2, <1>3, <1>4, <1>5, <1>6 DEF Next

\* WInv is an invariant.
LEMMA AlwaysWInv == Spec => []WInv
BY InitWInv, NextWInv, PTL DEF Spec

\* The wheel's fields keep their ranges, the iterator and the slots included,
\* for any slots_, granularities and timeouts.
THEOREM TypeCorrect == Spec => []TypeOK
<1>1. WInv => TypeOK
  BY DEF WInv
<1> QED
  BY <1>1, AlwaysWInv, PTL

\* Whatever timers are added, repeated and added by callbacks: ExecuteTimeout
\* neither loses an item that has firings left nor keeps or doubles one.
THEOREM PendingExactlyWhileOwed == Spec => []PendingWhileOwed
<1>1. WInv => PendingWhileOwed
  <2> SUFFICES ASSUME WInv, NEW t \in Timers
               PROVE  /\ \A s, z \in Slot :
                           \A i \in DOMAIN wheel[s], j \in DOMAIN wheel[z] :
                              At(t, s, i) /\ At(t, z, j) => s = z /\ i = j
                      /\ obs[t].fired > 0 /\ ~Firing(t) =>
                           (Pending(t) <=>
                              \/ obs[t].times < 0 /\ obs[t].fired > 0
                              \/ obs[t].fired > 0 /\ obs[t].fired < obs[t].times)
    BY Zenon DEF PendingWhileOwed
  <2>1. \A s, z \in Slot : \A i \in DOMAIN wheel[s], j \in DOMAIN wheel[z] :
           At(t, s, i) /\ At(t, z, j) => s = z /\ i = j
    BY DEF At, WInv, Once
  <2>2. ASSUME obs[t].fired > 0, ~Firing(t)
        PROVE  Pending(t) <=> \/ obs[t].times < 0 /\ obs[t].fired > 0
                              \/ obs[t].fired > 0 /\ obs[t].fired < obs[t].times
    <3>1. /\ Pending(t) => Left(t, 0)
          /\ ~Pending(t) => obs[t].times >= 0 /\ obs[t].fired >= obs[t].times
      BY <2>2 DEF WInv, Counted
    <3>2. item[t].repeat_count \in Int /\ obs[t].times \in Int /\ obs[t].fired \in Nat
      BY DEF WInv, TypeOK
    <3> QED
      BY <2>2, <3>1, <3>2 DEF Left
  <2> QED
    BY <2>1, <2>2
<1> QED
  BY <1>1, AlwaysWInv, PTL

-----------------------------------------------------------------------------
(* One-shot timers added between passes: DueTurns is preserved.            *)

OneShot == NestedAdds = FALSE /\ Times = {1}

\* The remainder is the only one in its range.
LEMMA ModUnique ==
    ASSUME NEW n \in Int, NEW m \in Nat \ {0}, NEW q \in Int, NEW r \in Int,
           n = q * m + r, 0 <= r, r < m
    PROVE  n % m = r
<1>1. PICK a \in Int, b \in Int : a = n \div m /\ b = n % m
  OBVIOUS
<1>2. n = a * m + b /\ 0 <= b /\ b < m
  BY <1>1
<1>3. (q - a) * m = b - r
  BY <1>2
<1>4. PICK d \in Int : d = q - a
  OBVIOUS
<1>5. d * m < m /\ d * m > 0 - m
  BY <1>2, <1>3, <1>4
<1>6. \A k \in Int : k * m < m /\ k * m > 0 - m => k = 0
  <2>1. \A k \in Int : k >= 1 => k * m >= m
    OBVIOUS
  <2>2. \A k \in Int : k <= -1 => k * m <= 0 - m
    OBVIOUS
  <2> QED
    BY <2>1, <2>2
<1>7. q = a
  BY <1>4, <1>5, <1>6
<1> QED
  BY <1>1, <1>2, <1>7

\* A slot's number after adding ticks: the distance is what is left of them
\* after the full rounds.
LEMMA SlotDistance ==
    ASSUME NEW k \in Nat, current_slot \in Slot
    PROVE  LET z == (current_slot + k) % Slots
           IN  z \in Slot /\ k = Turns(k \div Slots) + Dist(z)
<1>1. Slots \in Nat \ {0} /\ current_slot \in Int /\ 0 <= current_slot /\ current_slot < Slots
  BY WheelAssumption DEF Slot
<1>2. PICK q \in Int, r \in Int : q = k \div Slots /\ r = k % Slots
  BY <1>1
<1>3. k = q * Slots + r /\ 0 <= r /\ r < Slots
  BY <1>1, <1>2
<1>4. CASE current_slot + r < Slots
  <2>1. current_slot + k = q * Slots + (current_slot + r)
    BY <1>1, <1>3
  <2>2. (current_slot + k) % Slots = current_slot + r
    BY <1>1, <1>3, <1>4, <2>1, ModUnique
  <2> QED
    BY <1>1, <1>2, <1>3, <1>4, <2>2 DEF Turns, Dist, Slot
<1>5. CASE ~(current_slot + r < Slots)
  <2>1. current_slot + k = (q + 1) * Slots + (current_slot + r - Slots)
    BY <1>1, <1>3
  <2>2. (current_slot + k) % Slots = current_slot + r - Slots
    <3>1. PICK e \in Int, d \in Int, n \in Int :
             e = q + 1 /\ d = current_slot + r - Slots /\ n = current_slot + k
      BY <1>1
    <3>2. n = e * Slots + d /\ 0 <= d /\ d < Slots
      BY <1>1, <1>3, <1>5, <2>1, <3>1
    <3>3. n % Slots = d
      BY <1>1, <3>2, ModUnique
    <3> QED
      BY <3>1, <3>3
  <2> QED
    BY <1>1, <1>2, <1>3, <1>5, <2>2 DEF Turns, Dist, Slot
<1> QED
  BY <1>4, <1>5

\* One round more is one wheel of turns more.
LEMMA TurnsProperties ==
    /\ Turns(0) = 0
    /\ \A n \in Nat : Turns(n) \in Nat
    /\ \A n \in Int : Turns(n) \in Int /\ Turns(n) = Turns(n - 1) + Slots
<1>1. Slots \in Nat
  BY WheelAssumption
<1>2. \A n \in Int : n * Slots = (n - 1) * Slots + Slots
  BY <1>1
<1> QED
  BY <1>1, <1>2 DEF Turns

\* The next walk of a slot is less than a round away.
LEMMA DistProperties ==
    ASSUME TypeOK, NEW s \in Slot
    PROVE  Dist(s) \in 0 .. Slots - 1 /\ Dist(s) \in Int
BY WheelAssumption DEF TypeOK, Slot, Dist

\* One turn brings every slot nearer but the one it takes.
LEMMA DistAfterTurn ==
    ASSUME TypeOK, current_slot' = (current_slot + 1) % Slots, NEW s \in Slot
    PROVE  Dist(s)' = IF s = current_slot THEN Slots - 1 ELSE Dist(s) - 1
<1>1. Slots \in Nat \ {0} /\ current_slot \in Int /\ 0 <= current_slot
      /\ current_slot < Slots /\ s \in Int /\ 0 <= s /\ s < Slots
  BY WheelAssumption DEF TypeOK, Slot
<1>2. current_slot' = IF current_slot + 1 = Slots THEN 0 ELSE current_slot + 1
  <2>1. CASE current_slot + 1 = Slots
    <3>1. current_slot + 1 = 1 * Slots + 0
      BY <1>1, <2>1
    <3> QED
      BY <1>1, <2>1, <3>1, ModUnique
  <2>2. CASE current_slot + 1 # Slots
    <3>1. current_slot + 1 = 0 * Slots + (current_slot + 1)
      BY <1>1
    <3> QED
      BY <1>1, <2>2, <3>1, ModUnique
  <2> QED
    BY <2>1, <2>2
<1> QED
  BY <1>1, <1>2 DEF Dist

\* An item of a list is a timer of that place.
LEMMA PlaceOf ==
    ASSUME WInv, NEW s \in Slot, NEW i \in DOMAIN wheel[s]
    PROVE  wheel[s][i] \in Timers /\ In(wheel, wheel[s][i]) /\ i \in Nat /\ i >= 1
           /\ i <= Len(wheel[s])
<1>1. wheel[s] \in Seq(Timers)
  BY DEF WInv, TypeOK
<1>2. i \in 1 .. Len(wheel[s]) /\ Len(wheel[s]) \in Nat
  BY <1>1, LenProperties
<1> QED
  BY <1>1, <1>2, ElementOfSeq DEF In

\* An item that is not touched, from place j of the slot to place i.
LEMMA DueKept ==
    ASSUME NEW t, NEW s, NEW i, NEW j, DueAt(t, s, j),
           item'[t].repeat_count = item[t].repeat_count,
           item'[t].remaining_ticks = item[t].remaining_ticks,
           obs'[t].due = obs[t].due, obs'[t].fired = obs[t].fired,
           Firing(t)' <=> Firing(t), Ahead(s, i)' <=> Ahead(s, j),
           current_slot' = current_slot
    PROVE  DueAt(t, s, i)'
<1>1. Turns(item[t].remaining_ticks)' = Turns(item[t].remaining_ticks)
  BY DEF Turns
<1>2. Dist(s)' = Dist(s)
  BY DEF Dist
<1>3. CASE Ahead(s, j)
  BY <1>1, <1>3, Zenon DEF DueAt
<1>4. CASE ~Ahead(s, j)
  BY <1>1, <1>2, <1>4, Zenon DEF DueAt
<1> QED
  BY <1>3, <1>4

\* Steps that leave the lists, the countdowns and the slots alone.
LEMMA QuietDue ==
    ASSUME WInv, DueTurns, wheel' = wheel, current_slot' = current_slot,
           \A t \in Timers : /\ item'[t].repeat_count = item[t].repeat_count
                             /\ item'[t].remaining_ticks = item[t].remaining_ticks
                             /\ obs'[t].due = obs[t].due
                             /\ obs'[t].fired = obs[t].fired,
           \/ pc' = pc /\ scan' = scan /\ pos' = pos
           \/ ~Walking /\ ~Walking'
    PROVE  DueTurns'
<1>1. (Walking' <=> Walking) /\ (Walking => scan' = scan)
  BY DEF Walking
<1>2. ASSUME NEW s \in Slot, NEW i \in DOMAIN wheel[s]
      PROVE  DueAt(wheel[s][i], s, i)'
  <2>1. PICK t \in Timers : t = wheel[s][i]
    BY PlaceOf
  <2>2. Firing(t)' <=> Firing(t)
    BY DEF Firing, Current, Walking
  <2>3. Ahead(s, i)' <=> Ahead(s, i)
    BY <1>1 DEF Ahead, Walking
  <2>4. DueAt(t, s, i)
    BY <2>1 DEF DueTurns
  <2>5. DueAt(t, s, i)'
    BY <2>2, <2>3, <2>4, DueKept
  <2> QED
    BY <2>1, <2>5
<1>3. Walking' => Dist(scan)' = Slots - 1
  BY <1>1 DEF DueTurns, Dist
<1> QED
  BY <1>2, <1>3 DEF DueTurns

\* Time passing preserves DueTurns.
LEMMA ClockDue == WInv /\ DueTurns /\ Clock => DueTurns'
<1> SUFFICES ASSUME WInv, DueTurns, Clock PROVE DueTurns'
  OBVIOUS
<1>1. ASSUME NEW t \in Timers
      PROVE  /\ item'[t].repeat_count = item[t].repeat_count
             /\ item'[t].remaining_ticks = item[t].remaining_ticks
             /\ obs'[t].due = obs[t].due
             /\ obs'[t].fired = obs[t].fired
  <2>1. item[t] \in ItemType /\ obs[t] \in ObsType
    BY DEF WInv, TypeOK, ItemType, ObsType
  <2>2. \/ item'[t] = item[t]
        \/ item'[t] = [item[t] EXCEPT !.age = Older(@)]
    BY DEF Clock
  <2>3. \/ obs'[t] = obs[t]
        \/ obs'[t] = [obs[t] EXCEPT !.since = Older(@)]
    BY DEF Clock
  <2> QED
    BY <2>1, <2>2, <2>3 DEF ItemType, ObsType
<1>2. UNCHANGED <<wheel, current_slot, pc, scan, pos>>
  BY DEF Clock
<1> QED
  BY <1>1, <1>2, QuietDue

\* A turn takes one from what every item has to wait.
LEMMA TurnSlotDue == WInv /\ DueTurns /\ TurnSlot => DueTurns'
<1> SUFFICES ASSUME WInv, DueTurns, TurnSlot PROVE DueTurns'
  OBVIOUS
<1>1. /\ pc = "tick" /\ pc' = "scan" /\ scan' = current_slot /\ pos' = 1
      /\ current_slot' = (current_slot + 1) % Slots
      /\ UNCHANGED <<wheel, item>>
  BY DEF TurnSlot
<1>2. \A s \in Slot : Dist(s)' = IF s = current_slot THEN Slots - 1 ELSE Dist(s) - 1
  BY <1>1, DistAfterTurn DEF WInv
<1>3. ASSUME NEW s \in Slot, NEW i \in DOMAIN wheel[s]
      PROVE  DueAt(wheel[s][i], s, i)'
  <2>1. PICK t \in Timers : t = wheel[s][i]
    BY PlaceOf
  <2>2. i \in Nat /\ i >= 1 /\ Pending(t)
    BY <2>1, PlaceOf, PendingIsIn
  <2>3. ~Firing(t) /\ ~Firing(t)' /\ ~Ahead(s, i) /\ (Ahead(s, i)' <=> s = current_slot)
    BY <1>1, <2>2 DEF Firing, Ahead, Walking
  <2>4. PICK n \in Int : n = item[t].remaining_ticks
    BY DEF WInv, TypeOK
  <2>5. /\ item[t].repeat_count = 1 /\ obs[t].fired = 0 /\ n >= 0
        /\ obs[t].due = Turns(n) + (1 + Dist(s))
    BY <2>1, <2>3, <2>4, Zenon DEF DueTurns, DueAt
  <2>6. obs'[t].fired = 0 /\ obs'[t].due = obs[t].due - 1
    <3>1. obs'[t] = [obs[t] EXCEPT !.due = @ - 1] /\ obs[t] \in ObsType
      BY <2>2, <2>5 DEF TurnSlot, WInv, TypeOK, ObsType
    <3> QED
      BY <2>5, <3>1 DEF ObsType
  <2>7. Dist(s) \in Int /\ Turns(n) \in Int /\ (s = current_slot => Dist(s) = 0)
    <3>1. s = current_slot => Dist(s) = 0
      BY WheelAssumption DEF Dist, WInv, TypeOK, Slot
    <3> QED
      BY <3>1, DistProperties, TurnsProperties DEF WInv
  <2>8. obs'[t].due = Turns(n) + IF s = current_slot THEN 0 ELSE 1 + Dist(s)'
    BY <1>2, <2>5, <2>6, <2>7
  <2>9. Turns(item[t].remaining_ticks)' = Turns(n) /\ item'[t] = item[t]
    BY <1>1, <2>4 DEF Turns
  <2>10. DueAt(t, s, i)'
    <3>1. CASE s = current_slot
      BY <2>3, <2>4, <2>5, <2>6, <2>8, <2>9, <3>1, Zenon DEF DueAt
    <3>2. CASE s # current_slot
      BY <2>3, <2>4, <2>5, <2>6, <2>8, <2>9, <3>2, Zenon DEF DueAt
    <3> QED
      BY <3>1, <3>2
  <2> QED
    BY <1>1, <2>1, <2>10
<1>4. Dist(scan)' = Slots - 1
  <2>1. PICK c \in Slot : c = current_slot
    BY DEF WInv, TypeOK
  <2>2. Dist(c)' = Slots - 1 /\ scan' = c
    BY <1>1, <1>2, <2>1
  <2> QED
    BY <2>2 DEF Dist
<1> QED
  BY <1>1, <1>3, <1>4 DEF DueTurns

\* At the end of the list nothing is ahead of the iterator.
LEMMA EndOfListDue == WInv /\ DueTurns /\ EndOfList => DueTurns'
<1> SUFFICES ASSUME WInv, DueTurns, EndOfList PROVE DueTurns'
  OBVIOUS
<1>1. /\ pc = "scan" /\ pos > Len(wheel[scan]) /\ pc' = "tick"
      /\ UNCHANGED <<wheel, item, obs, current_slot, scan, pos>>
  BY DEF EndOfList
<1>2. ASSUME NEW s \in Slot, NEW i \in DOMAIN wheel[s]
      PROVE  DueAt(wheel[s][i], s, i)'
  <2>1. PICK t \in Timers : t = wheel[s][i]
    BY PlaceOf
  <2>2. ~Firing(t) /\ ~Firing(t)'
    BY <1>1 DEF Firing
  <2>3. ~Ahead(s, i) /\ ~Ahead(s, i)'
    <3>1. s = scan => ~(i >= pos)
      <4>1. i <= Len(wheel[s]) /\ i \in Nat /\ Len(wheel[scan]) \in Nat /\ pos \in Nat
        BY PlaceOf, LenProperties DEF WInv, TypeOK
      <4> QED
        BY <1>1, <4>1
    <3> QED
      BY <1>1, <3>1 DEF Ahead, Walking
  <2>4. DueAt(t, s, i)
    BY <2>1 DEF DueTurns
  <2>5. DueAt(t, s, i)'
    BY <1>1, <2>2, <2>3, <2>4, DueKept
  <2> QED
    BY <1>1, <2>1, <2>5
<1> QED
  BY <1>1, <1>2 DEF DueTurns, Walking

\* An added timer waits for the distance of its slot and its rounds.
LEMMA AddTimerDue ==
    ASSUME OneShot, WInv, DueTurns, NEW t \in Timers, NEW timeout \in Timeouts,
           NEW times \in Times, AddTimer(t, timeout, times)
    PROVE  DueTurns'
<1>0. PICK k \in Nat : k = timeout \div granularity
  BY DivNat, WheelAssumption DEF WInv, TypeOK
<1>1. PICK z \in Slot : z = SlotFor(timeout) /\ k = Turns(k \div Slots) + Dist(z)
  <2>1. current_slot \in Slot
    BY DEF WInv, TypeOK
  <2> QED
    BY <1>0, <2>1, SlotDistance, Zenon DEF SlotFor
<1>2. /\ pc = "idle" /\ times = 1
      /\ item' = [item EXCEPT ![t] =
                    [remaining_ticks |-> k \div Slots, repeat_interval |-> timeout,
                     repeat_count |-> times, age |-> 0]]
      /\ obs' = [obs EXCEPT ![t] =
                   [due |-> k + 1, fired |-> 0, times |-> times, slack |-> Slack,
                    since |-> 0]]
      /\ wheel' = Put(wheel, z, t)
      /\ ~Pending(t)
      /\ UNCHANGED <<current_slot, pc, scan, pos>>
  <2>1. pc = "idle" /\ times = 1
    BY DEF AddTimer, MayCall, OneShot
  <2> QED
    BY <1>0, <1>1, <2>1, Zenon DEF AddTimer, Rounds, Put
<1>3. /\ item'[t].remaining_ticks = k \div Slots /\ item'[t].repeat_count = 1
      /\ obs'[t].due = k + 1 /\ obs'[t].fired = 0
      /\ \A u \in Timers : u # t => item'[u] = item[u] /\ obs'[u] = obs[u]
  BY <1>2 DEF WInv, TypeOK
<1>4. \A s \in Slot : \A i \in DOMAIN wheel'[s] :
         IF s = z /\ i = Len(wheel[z]) + 1 THEN wheel'[s][i] = t
         ELSE i \in DOMAIN wheel[s] /\ wheel'[s][i] = wheel[s][i]
  <2>1. wheel \in Wheels /\ OnceIn(wheel) /\ ~In(wheel, t)
    BY <1>2, PendingIsIn, OnceIsOnceIn DEF WInv, TypeOK, Wheels
  <2> QED
    BY <1>2, <2>1, AppendTo
<1>5. \A u, s, i : ~Firing(u) /\ ~Firing(u)' /\ ~Ahead(s, i) /\ ~Ahead(s, i)'
  BY <1>2 DEF Firing, Ahead, Walking
<1>6. ASSUME NEW s \in Slot, NEW i \in DOMAIN wheel'[s]
      PROVE  DueAt(wheel[s][i], s, i)'
  <2>1. CASE s = z /\ i = Len(wheel[z]) + 1
    <3>1. wheel'[s][i] = t
      BY <1>4, <2>1
    <3>2. PICK n \in Nat : n = k \div Slots
      BY DivNat, WheelAssumption
    <3>3. Turns(item[t].remaining_ticks)' = Turns(n) /\ Dist(z)' = Dist(z)
      BY <1>2, <1>3, <3>2 DEF Turns, Dist
    <3>4. obs'[t].due = Turns(n) + (1 + Dist(z))
      <4>1. Turns(n) \in Int /\ Dist(z) \in Int
        BY TurnsProperties, DistProperties DEF WInv
      <4> QED
        BY <1>1, <1>3, <3>2, <4>1
    <3>5. item'[t].remaining_ticks >= 0
      BY <1>3, <3>2
    <3>6. DueAt(t, s, i)'
      BY <1>3, <1>5, <2>1, <3>3, <3>4, <3>5, Zenon DEF DueAt
    <3> QED
      BY <3>1, <3>6
  <2>2. CASE ~(s = z /\ i = Len(wheel[z]) + 1)
    <3>1. i \in DOMAIN wheel[s] /\ wheel'[s][i] = wheel[s][i]
      BY <1>4, <2>2
    <3>2. PICK u \in Timers : u = wheel[s][i] /\ In(wheel, u)
      BY <3>1, PlaceOf
    <3>3. u # t
      BY <1>2, <3>2, PendingIsIn
    <3>4. DueAt(u, s, i)
      BY <3>1, <3>2 DEF DueTurns
    <3>5. DueAt(u, s, i)'
      BY <1>2, <1>3, <1>5, <3>3, <3>4, DueKept
    <3> QED
      BY <3>1, <3>2, <3>5
  <2> QED
    BY <2>1, <2>2
<1> QED
  BY <1>2, <1>6 DEF DueTurns, Walking

\* A visit counts a round down, or calls an item back that has none left.
LEMMA VisitDue == WInv /\ DueTurns /\ Visit => DueTurns'
<1> SUFFICES ASSUME WInv, DueTurns, Visit PROVE DueTurns'
  OBVIOUS
<1>1. PICK t \in Timers : t = Current
  BY CurrentIn DEF Visit, WInv
<1>2. /\ pos \in DOMAIN wheel[scan] /\ scan \in Slot /\ t = wheel[scan][pos]
      /\ pos \in Nat
  BY <1>1, CurrentIn DEF Visit, WInv, TypeOK, Current
<1>3. item[t] \in ItemType /\ obs[t] \in ObsType
  BY DEF WInv, TypeOK, ItemType, ObsType
<1>4. PICK n \in Int : n = item[t].remaining_ticks
  BY <1>3 DEF ItemType
<1>5. /\ pc = "scan" /\ UNCHANGED <<wheel, current_slot, scan>>
      /\ item' = [item EXCEPT ![t].remaining_ticks = n - 1]
  BY <1>1, <1>4, Zenon DEF Visit
<1>6. PICK count \in Nat : count = IF obs[t].fired < 2 \/ obs[t].fired < obs[t].times
                                 THEN obs[t].fired + 1 ELSE obs[t].fired
  BY <1>3 DEF ObsType
<1>7. \/ /\ n - 1 < 0 /\ pc' = "callback" /\ pos' = pos
         /\ obs' = [obs EXCEPT ![t].fired = count]
      \/ n - 1 >= 0 /\ pc' = "scan" /\ pos' = pos + 1 /\ obs' = obs
  BY <1>1, <1>4, <1>6, Zenon DEF Visit
<1>8. /\ item'[t].remaining_ticks = n - 1
      /\ item'[t].repeat_count = item[t].repeat_count
      /\ \A u \in Timers : u # t => item'[u] = item[u]
  BY <1>3, <1>5 DEF WInv, TypeOK, ItemType
<1>9. /\ item[t].repeat_count = 1 /\ obs[t].fired = 0 /\ n >= 0
      /\ obs[t].due = Turns(n)
  <2>1. DueAt(t, scan, pos)
    BY <1>2 DEF DueTurns
  <2>2. ~Firing(t) /\ Ahead(scan, pos)
    BY <1>2, <1>5 DEF Firing, Ahead, Walking
  <2>3. obs[t].due = Turns(n) + 0 /\ item[t].repeat_count = 1 /\ obs[t].fired = 0 /\ n >= 0
    BY <1>4, <2>1, <2>2, Zenon DEF DueAt
  <2> QED
    BY <2>3, TurnsProperties
<1>10. Walking /\ Walking' /\ Dist(scan) = Slots - 1 /\ Dist(scan)' = Slots - 1
  BY <1>5, <1>7 DEF DueTurns, Walking, Dist
\* Another item: it stays where it is, before or ahead of the iterator.
<1>11. ASSUME NEW s \in Slot, NEW i \in DOMAIN wheel[s], ~(s = scan /\ i = pos)
       PROVE  DueAt(wheel[s][i], s, i)'
  <2>1. PICK u \in Timers : u = wheel[s][i]
    BY PlaceOf
  <2>2. u # t /\ i \in Nat
    BY <1>2, <1>11, <2>1, PlaceOf DEF WInv, Once
  <2>3. obs'[u] = obs[u]
    BY <1>7, <2>2 DEF WInv, TypeOK
  <2>4. ~Firing(u) /\ ~Firing(u)'
    <3>1. pc' = "callback" => pos' = pos
      BY <1>7
    <3> QED
      BY <1>1, <1>5, <2>2, <3>1 DEF Firing, Current
  <2>5. Ahead(s, i)' <=> Ahead(s, i)
    BY <1>2, <1>5, <1>7, <1>10, <1>11, <2>2 DEF Ahead
  <2>6. DueAt(u, s, i)
    BY <2>1 DEF DueTurns
  <2>7. DueAt(u, s, i)'
    BY <1>5, <1>8, <2>2, <2>3, <2>4, <2>5, <2>6, DueKept
  <2> QED
    BY <1>5, <2>1, <2>7
\* The item: called back on its turn, or left behind with one round less.
<1>12. PICK z \in Slot, p \in Nat : z = scan /\ p = pos
  BY <1>2
<1>13. DueAt(t, z, p)'
  <2>1. CASE /\ n - 1 < 0 /\ pc' = "callback" /\ pos' = pos
             /\ obs' = [obs EXCEPT ![t].fired = count]
    <3>1. obs'[t].due = 0 /\ obs'[t].fired = 1
      <4>1. obs'[t].due = obs[t].due /\ obs'[t].fired = count
        BY <1>3, <2>1 DEF WInv, TypeOK, ObsType
      <4> QED
        BY <1>6, <1>9, <2>1, <4>1, TurnsProperties
    <3>2. Firing(t)'
      BY <1>1, <1>5, <2>1 DEF Firing, Current
    <3> QED
      BY <1>8, <1>9, <3>1, <3>2, Zenon DEF DueAt
  <2>2. CASE n - 1 >= 0 /\ pc' = "scan" /\ pos' = pos + 1 /\ obs' = obs
    <3>1. PICK m \in Int : m = n - 1
      BY <1>4
    <3>2. obs'[t].due = Turns(m) + (1 + Dist(scan))
      <4>1. Turns(n) = Turns(m) + Slots /\ Turns(m) \in Int
        BY <3>1, TurnsProperties
      <4> QED
        BY <1>9, <1>10, <2>2, <4>1, WheelAssumption
    <3>3. Turns(item[t].remaining_ticks)' = Turns(m)
      BY <1>8, <3>1 DEF Turns
    <3>4. ~Ahead(z, p)' /\ Dist(z)' = Dist(scan)
      <4>1. ~(p >= pos')
        BY <1>2, <1>12, <2>2
      <4> QED
        BY <1>5, <1>12, <4>1 DEF Ahead, Dist
    <3>5. ~Firing(t)' /\ item'[t].remaining_ticks >= 0 /\ obs'[t].fired = 0
      BY <1>8, <1>9, <2>2 DEF Firing
    <3> QED
      BY <1>8, <1>9, <3>2, <3>3, <3>4, <3>5, Zenon DEF DueAt
  <2> QED
    BY <1>7, <2>1, <2>2
<1> QED
  BY <1>2, <1>5, <1>10, <1>11, <1>12, <1>13 DEF DueTurns

\* A one-shot item is erased after its callback, and the iterator moves on.
LEMMA CallbackReturnsDue == WInv /\ DueTurns /\ CallbackReturns => DueTurns'
<1> SUFFICES ASSUME WInv, DueTurns, CallbackReturns PROVE DueTurns'
  OBVIOUS
<1>1. PICK t \in Timers : t = Current
  BY CurrentIn DEF CallbackReturns, WInv
<1>2. /\ pos \in 1 .. Len(wheel[scan]) /\ pos \in Nat /\ pos \in DOMAIN wheel[scan]
      /\ scan \in Slot /\ t = wheel[scan][pos]
  BY <1>1, CurrentIn DEF CallbackReturns, WInv, TypeOK, Current
<1>3. pc = "callback" /\ pc' = "scan" /\ UNCHANGED <<current_slot, scan>>
  BY DEF CallbackReturns
<1>4. item[t].repeat_count = 1
  BY <1>2 DEF DueTurns, DueAt
\* It was asked for once: it is erased.
<1>5. /\ wheel' = Take(wheel, scan, pos) /\ item' = [item EXCEPT ![t] = NoItem]
      /\ obs' = [obs EXCEPT ![t].since = 0, ![t].due = 0, ![t].slack = 0]
      /\ pos' = pos
  <2>1. (IF item[t].repeat_count > 0 THEN item[t].repeat_count - 1
         ELSE item[t].repeat_count) = 0
    BY <1>4
  <2> QED
    BY <1>1, <2>1, Zenon DEF CallbackReturns, Take
<1>6. \A u \in Timers : u # t => item'[u] = item[u] /\ obs'[u] = obs[u]
  BY <1>5 DEF WInv, TypeOK
<1>7. /\ \A u : In(wheel', u) <=> In(wheel, u) /\ u # t
      /\ wheel' \in Wheels
      /\ \A s \in Slot : \A i \in DOMAIN wheel'[s] :
            LET j == IF s = scan /\ i >= pos THEN i + 1 ELSE i
            IN  j \in DOMAIN wheel[s] /\ wheel'[s][i] = wheel[s][j]
  <2>1. wheel \in Wheels /\ OnceIn(wheel)
    BY OnceIsOnceIn DEF WInv, TypeOK, Wheels
  <2> QED
    BY <1>2, <1>5, <2>1, TakeFrom
<1>8. ASSUME NEW s \in Slot, NEW i \in DOMAIN wheel'[s]
      PROVE  DueAt(wheel[s][i], s, i)'
  <2>1. PICK j : /\ j = IF s = scan /\ i >= pos THEN i + 1 ELSE i
                 /\ j \in DOMAIN wheel[s] /\ wheel'[s][i] = wheel[s][j]
    BY <1>7
  <2>2. PICK u \in Timers : u = wheel[s][j]
    BY <2>1, PlaceOf
  <2>3. u # t
    BY <1>7, <2>1, <2>2 DEF In
  <2>4. ~Firing(u) /\ ~Firing(u)'
    BY <1>1, <1>3, <2>3 DEF Firing
  <2>5. Ahead(s, i)' <=> Ahead(s, j)
    <3>1. i \in Int
      BY <1>7, LenProperties DEF Wheels
    <3>2. s = scan => (i >= pos <=> j >= pos)
      BY <1>2, <2>1, <3>1
    <3> QED
      BY <1>3, <1>5, <3>2 DEF Ahead, Walking
  <2>6. DueAt(u, s, j)
    BY <2>1, <2>2 DEF DueTurns
  <2>7. DueAt(u, s, i)'
    BY <1>3, <1>6, <2>3, <2>4, <2>5, <2>6, DueKept
  <2> QED
    BY <2>1, <2>2, <2>7
<1>9. Dist(scan)' = Slots - 1
  BY <1>3 DEF DueTurns, Walking, Dist
<1> QED
  BY <1>8, <1>9 DEF DueTurns

\* DueTurns holds initially.
LEMMA InitDue == Init => DueTurns
<1> SUFFICES ASSUME Init PROVE DueTurns
  OBVIOUS
<1>1. \A s \in Slot : DOMAIN wheel[s] = {}
  BY DEF Init
<1> QED
  BY <1>1 DEF Init, DueTurns, Walking

\* Every step preserves DueTurns.
LEMMA NextDue == OneShot /\ WInv /\ DueTurns /\ [Next]_vars => DueTurns'
<1> SUFFICES ASSUME OneShot, WInv, DueTurns, [Next]_vars PROVE DueTurns'
  OBVIOUS
<1>1. CASE UNCHANGED vars
  BY <1>1, QuietDue DEF vars, code
<1>2. CASE Clock
  BY <1>2, ClockDue
<1>3. ASSUME NEW g \in Granularities, SetGranularity(g) PROVE DueTurns'
  BY <1>3, QuietDue DEF SetGranularity
<1>4. CASE \E t \in Timers, timeout \in Timeouts, n \in Times : AddTimer(t, timeout, n)
  BY <1>4, AddTimerDue
<1>5. CASE ExecuteNothing
  BY <1>1, <1>5 DEF ExecuteNothing
<1>6. CASE ExecuteTimeout
  BY <1>6, QuietDue DEF ExecuteTimeout, Walking
<1>7. CASE LastTrigger
  BY <1>7, QuietDue DEF LastTrigger, Walking
<1> QED
  BY <1>1, <1>2, <1>3, <1>4, <1>5, <1>6, <1>7, TurnSlotDue, EndOfListDue, VisitDue,
     CallbackReturnsDue DEF Next, Pass

\* DueTurns is an invariant for one-shot timers.
LEMMA AlwaysDue == OneShot /\ Spec => [](WInv /\ DueTurns)
<1>1. OneShot => OneShot'
  BY DEF OneShot
<1> QED
  BY <1>1, InitWInv, NextWInv, InitDue, NextDue, PTL DEF Spec

\* Timers asked for once, added between passes: for any number of slots, any
\* granularity, changed at any time, and any timeout, AddTimer's slot and rounds
\* and ExecuteTimeout's countdown make the callback on exactly the turn due.
THEOREM FiresOnItsTurn == OneShot /\ Spec => []FirstFiringOnItsTurn
<1>1. WInv /\ DueTurns => FirstFiringOnItsTurn
  <2> SUFFICES ASSUME WInv, DueTurns, NEW t \in Timers
               PROVE  /\ First(t) => obs[t].due = 0
                      /\ Pending(t) /\ obs[t].fired = 0 /\ pc \in {"idle", "tick"}
                            => obs[t].due >= 1
    BY DEF FirstFiringOnItsTurn
  <2>1. ASSUME First(t) PROVE obs[t].due = 0
    <3>1. Firing(t) /\ pc = "callback" /\ t = wheel[scan][pos]
      BY <2>1 DEF First, Firing, Current
    <3>2. scan \in Slot /\ pos \in DOMAIN wheel[scan]
      BY <3>1, CurrentIn DEF WInv, TypeOK
    <3> QED
      BY <3>1, <3>2 DEF DueTurns, DueAt
  <2>2. ASSUME Pending(t), obs[t].fired = 0, pc \in {"idle", "tick"}
        PROVE  obs[t].due >= 1
    <3>1. PICK s \in Slot : \E i \in DOMAIN wheel[s] : wheel[s][i] = t
      BY <2>2, PendingIsIn DEF In
    <3>2. PICK i \in DOMAIN wheel[s] : wheel[s][i] = t
      BY <3>1
    <3>3. ~Firing(t) /\ ~Ahead(s, i)
      BY <2>2 DEF Firing, Ahead, Walking
    <3>4. PICK n \in Int : n = item[t].remaining_ticks
      BY DEF WInv, TypeOK
    <3>5. n >= 0 /\ obs[t].due = Turns(n) + (1 + Dist(s))
      BY <3>2, <3>3, <3>4, Zenon DEF DueTurns, DueAt
    <3>6. Turns(n) \in Nat /\ Dist(s) \in Int /\ Dist(s) >= 0
      BY <3>5, TurnsProperties, DistProperties DEF WInv
    <3> QED
      BY <3>5, <3>6
  <2> QED
    BY <2>1, <2>2
<1> QED
  BY <1>1, AlwaysDue, PTL

-----------------------------------------------------------------------------
(* One granularity: Paid is preserved.                                     *)

\* granularity_ is set once, and ages are counted past every timeout.
Steady == /\ OneShot
          /\ \A g, h \in Granularities : g = h
          /\ \A timeout \in Timeouts : timeout <= AgeCap

\* What PaidFor adds up.
LEMMA PaidTypes ==
    ASSUME WInv, NEW t \in Timers
    PROVE  /\ item[t].repeat_interval \in Nat /\ granularity \in Nat \ {0}
           /\ item[t].repeat_interval \div granularity \in Nat
           /\ obs[t].due \in Int /\ dis \in Nat /\ Turned(t) \in Int
           /\ granularity * Turned(t) \in Int
           /\ item[t].age \in 0 .. AgeCap /\ obs[t].slack \in Nat
           /\ lag \in Nat /\ span \in Nat /\ span <= lag
<1>1. /\ item[t].repeat_interval \in Nat /\ granularity \in Nat \ {0}
      /\ obs[t].due \in Int /\ dis \in Nat
      /\ item[t].age \in 0 .. AgeCap /\ obs[t].slack \in Nat
      /\ lag \in Nat /\ span \in Nat /\ span <= lag
  BY WheelAssumption DEF WInv, TypeOK, Iterator
<1>2. item[t].repeat_interval \div granularity \in Nat
  BY <1>1, DivNat
<1>3. Turned(t) \in Int
  BY <1>1, <1>2 DEF Turned
<1>4. granularity * Turned(t) \in Int
  BY <1>1, <1>3
<1> QED
  BY <1>1, <1>2, <1>3, <1>4

\* Steps that leave the item, its debt and its pay alone.
LEMMA PaidKept ==
    ASSUME WInv, NEW t \in Timers, PaidFor(t),
           item'[t].repeat_interval = item[t].repeat_interval,
           item'[t].age = item[t].age, obs'[t].slack = obs[t].slack,
           obs'[t].due - dis' = obs[t].due - dis, obs'[t].due \in Int, dis' \in Int,
           granularity' = granularity, lag' - span' = lag - span,
           lag' \in Int, span' \in Int
    PROVE  PaidFor(t)'
<1>1. Turned(t)' = Turned(t)
  <2>1. PICK k \in Nat : k = item[t].repeat_interval \div granularity
    BY PaidTypes
  <2>2. item'[t].repeat_interval \div granularity' = k
    BY <2>1
  <2>3. Turned(t) = k + 1 - obs[t].due + dis /\ Turned(t)' = k + 1 - obs'[t].due + dis'
    BY <2>1, <2>2 DEF Turned
  <2>4. obs[t].due \in Int /\ dis \in Int
    BY PaidTypes
  <2>5. \A a, b, c, d \in Int : c - d = a - b => k + 1 - a + b = k + 1 - c + d
    OBVIOUS
  <2> QED
    BY <2>3, <2>4, <2>5
<1>2. item'[t].age + obs'[t].slack - lag' + span' = item[t].age + obs[t].slack - lag + span
  BY PaidTypes
<1>3. granularity' * Turned(t)' = granularity * Turned(t)
  BY <1>1
<1> QED
  BY <1>2, <1>3, Zenon DEF PaidFor

\* Time passing pays for a turn not yet made.
LEMMA ClockPaid == WInv /\ Paid /\ Clock => Paid'
<1> SUFFICES ASSUME WInv, Paid, Clock PROVE Paid'
  OBVIOUS
<1>1. /\ UNCHANGED <<wheel, granularity, pc, dis, span>> /\ lag' = lag + 1
  BY DEF Clock
<1>2. ASSUME NEW t \in Timers, Pending(t)' PROVE PaidFor(t)'
  <2>1. Pending(t) /\ PaidFor(t)
    BY <1>1, <1>2, PendingIsIn, PendingIsInPrime DEF Paid
  <2>2. item'[t] = [item[t] EXCEPT !.age = Older(@)]
        /\ obs'[t] = [obs[t] EXCEPT !.since = Older(@)]
    BY <2>1 DEF Clock
  <2>3. item[t] \in ItemType /\ obs[t] \in ObsType
    BY DEF WInv, TypeOK, ItemType, ObsType
  <2>4. /\ item'[t].repeat_interval = item[t].repeat_interval
        /\ item'[t].age = Older(item[t].age)
        /\ obs'[t].due = obs[t].due /\ obs'[t].slack = obs[t].slack
    BY <2>2, <2>3 DEF ItemType, ObsType
  <2>5. Turned(t)' = Turned(t) /\ granularity' * Turned(t)' = granularity * Turned(t)
    BY <1>1, <2>4 DEF Turned
  <2>6. CASE item[t].age = AgeCap
    <3>1. item'[t].age = AgeCap
      BY <2>4, <2>6, WheelAssumption DEF Older
    <3> QED
      BY <2>1, <2>4, <3>1 DEF PaidFor
  <2>7. CASE item[t].age # AgeCap
    <3>1. item'[t].age = item[t].age + 1
      BY <2>4, <2>7, PaidTypes, WheelAssumption DEF Older
    <3>2. item'[t].age + obs'[t].slack - lag' + span'
            = item[t].age + obs[t].slack - lag + span
      BY <1>1, <2>4, <3>1, PaidTypes
    <3> QED
      BY <2>1, <2>4, <2>5, <2>7, <3>2 DEF PaidFor
  <2> QED
    BY <2>6, <2>7
<1> QED
  BY <1>1, <1>2 DEF Paid

\* An added timer owes its timeout, less the lag of the wheel.
LEMMA AddTimerPaid ==
    ASSUME OneShot, WInv, Paid, NEW t \in Timers, NEW timeout \in Timeouts,
           NEW times \in Times, AddTimer(t, timeout, times), WInv'
    PROVE  Paid'
<1>0. PICK k \in Nat : k = timeout \div granularity
  BY DivNat, WheelAssumption DEF WInv, TypeOK
<1>1. /\ pc = "idle" /\ dis = 0 /\ span = 0
      /\ UNCHANGED <<granularity, lag, pc, dis, span>>
  BY DEF AddTimer, MayCall, OneShot, Paid
<1>2. /\ item' = [item EXCEPT ![t] =
                    [remaining_ticks |-> Rounds(timeout), repeat_interval |-> timeout,
                     repeat_count |-> times, age |-> 0]]
      /\ obs' = [obs EXCEPT ![t] =
                   [due |-> k + 1, fired |-> 0, times |-> times, slack |-> Slack,
                    since |-> 0]]
  BY <1>0, Zenon DEF AddTimer
<1>3. /\ item'[t].repeat_interval = timeout /\ item'[t].age = 0
      /\ obs'[t].due = k + 1 /\ obs'[t].slack = Slack
      /\ \A u \in Timers : u # t => item'[u] = item[u] /\ obs'[u] = obs[u]
  BY <1>2 DEF WInv, TypeOK
<1>4. PaidFor(t)'
  <2>1. Turned(t)' = 0
    <3>1. item'[t].repeat_interval \div granularity' = k
      BY <1>0, <1>1, <1>3
    <3>2. Turned(t)' = k + 1 - (k + 1) + 0
      BY <1>1, <1>3, <3>1 DEF Turned
    <3> QED
      BY <3>2
  <2>2. granularity' * Turned(t)' = 0
    BY <1>1, <2>1, PaidTypes
  <2>3. CASE AgeCap = 0
    BY <1>3, <2>3 DEF PaidFor
  <2>4. CASE AgeCap # 0
    <3>1. item'[t].age + obs'[t].slack - lag' + span' = 0
      BY <1>1, <1>3, <2>4, PaidTypes DEF Slack
    <3> QED
      BY <1>3, <2>2, <3>1 DEF PaidFor
  <2> QED
    BY <2>3, <2>4
<1>5. ASSUME NEW u \in Timers, u # t, Pending(u)' PROVE PaidFor(u)'
  <2>1. Pending(u)
    <3>1. PICK z \in Slot : z = SlotFor(timeout)
      <4>1. current_slot + k \in Int
        BY DEF WInv, TypeOK, Slot
      <4> QED
        BY <1>0, <4>1, ModIsSlot DEF SlotFor
    <3>2. wheel' = Put(wheel, z, t) /\ ~In(wheel, t)
      BY <3>1, PendingIsIn DEF AddTimer, Put
    <3>3. wheel \in Wheels /\ OnceIn(wheel)
      BY OnceIsOnceIn DEF WInv, TypeOK, Wheels
    <3>4. In(wheel', u) <=> In(wheel, u) \/ u = t
      BY <3>2, <3>3, AppendTo
    <3> QED
      BY <1>5, <3>4, PendingIsIn, PendingIsInPrime
  <2>2. PaidFor(u)
    BY <2>1 DEF Paid
  <2>3. item'[u] = item[u] /\ obs'[u] = obs[u]
    BY <1>3, <1>5
  <2> QED
    BY <1>1, <2>2, <2>3, PaidKept, PaidTypes
<1> QED
  BY <1>1, <1>4, <1>5 DEF Paid

\* A pass makes no more turns than the lag has paid for.
LEMMA ExecutePaid == WInv /\ Paid /\ ExecuteTimeout => Paid'
<1> SUFFICES ASSUME WInv, Paid, ExecuteTimeout PROVE Paid'
  OBVIOUS
<1>1. /\ pc = "idle" /\ dis = 0 /\ span = 0 /\ pc' = "tick"
      /\ dis' = lag \div granularity /\ span' = lag
      /\ UNCHANGED <<wheel, item, granularity, lag, obs>>
  BY DEF ExecuteTimeout, Paid
<1>2. ASSUME NEW t \in Timers, Pending(t)' PROVE PaidFor(t)'
  <2>1. Pending(t) /\ PaidFor(t)
    BY <1>1, <1>2, PendingIsIn, PendingIsInPrime DEF Paid
  <2>2. PICK g \in Nat \ {0}, x \in Int, q \in Int :
           g = granularity /\ x = Turned(t) /\ q = lag \div granularity
    BY PaidTypes, DivNat
  <2>3. g * q <= lag
    BY <2>2, PaidTypes
  <2>4. Turned(t)' = x + q
    <3>1. PICK k \in Nat : k = item[t].repeat_interval \div granularity
      BY PaidTypes
    <3>2. Turned(t) = k + 1 - obs[t].due + 0 /\ Turned(t)' = k + 1 - obs[t].due + q
      BY <1>1, <2>2, <3>1 DEF Turned
    <3> QED
      BY <2>2, <3>2, PaidTypes
  <2>5. granularity' * Turned(t)' = g * x + g * q /\ g * x \in Int /\ g * q \in Int
    BY <1>1, <2>2, <2>4
  <2>6. CASE item[t].age = AgeCap
    BY <1>1, <2>1, <2>6 DEF PaidFor
  <2>7. CASE item[t].age # AgeCap
    <3>1. g * x <= item[t].age + obs[t].slack - lag + span
      BY <2>1, <2>2, <2>7 DEF PaidFor
    <3>2. granularity' * Turned(t)' <= item'[t].age + obs'[t].slack - lag' + span'
      BY <1>1, <2>3, <2>5, <3>1, PaidTypes
    <3> QED
      BY <1>1, <2>1, <3>2 DEF PaidFor
  <2> QED
    BY <2>6, <2>7
<1> QED
  BY <1>1, <1>2 DEF Paid

\* A turn uses what the pass has set aside.
LEMMA TurnSlotPaid == WInv /\ DueTurns /\ Paid /\ TurnSlot => Paid'
<1> SUFFICES ASSUME WInv, DueTurns, Paid, TurnSlot PROVE Paid'
  OBVIOUS
<1>1. /\ pc = "tick" /\ pc' = "scan" /\ dis' = dis - 1
      /\ UNCHANGED <<wheel, item, granularity, lag, span>>
  BY DEF TurnSlot
<1>2. ASSUME NEW t \in Timers, Pending(t)' PROVE PaidFor(t)'
  <2>1. Pending(t) /\ PaidFor(t)
    BY <1>1, <1>2, PendingIsIn, PendingIsInPrime DEF Paid
  <2>2. obs[t].fired = 0
    <3>1. PICK s \in Slot : \E i \in DOMAIN wheel[s] : wheel[s][i] = t
      BY <2>1, PendingIsIn DEF In
    <3>2. ~Firing(t)
      BY <1>1 DEF Firing
    <3> QED
      BY <3>1, <3>2 DEF DueTurns, DueAt
  <2>3. obs'[t].due = obs[t].due - 1 /\ obs'[t].slack = obs[t].slack
    <3>1. obs'[t] = [obs[t] EXCEPT !.due = @ - 1] /\ obs[t] \in ObsType
      BY <2>1, <2>2 DEF TurnSlot, WInv, TypeOK, ObsType
    <3> QED
      BY <3>1 DEF ObsType
  <2>4. obs'[t].due - dis' = obs[t].due - dis /\ obs'[t].due \in Int /\ dis' \in Int
    BY <1>1, <2>3, PaidTypes
  <2> QED
    BY <1>1, <2>1, <2>3, <2>4, PaidKept, PaidTypes
<1> QED
  BY <1>1, <1>2 DEF Paid

\* A visit turns nothing.
LEMMA VisitPaid == WInv /\ Paid /\ Visit => Paid'
<1> SUFFICES ASSUME WInv, Paid, Visit PROVE Paid'
  OBVIOUS
<1>1. PICK t \in Timers : t = Current
  BY CurrentIn DEF Visit, WInv
<1>2. item[t] \in ItemType /\ obs[t] \in ObsType
  BY DEF WInv, TypeOK, ItemType, ObsType
<1>3. PICK left, count : /\ left = item[t].remaining_ticks - 1
                         /\ count = IF obs[t].fired < 2 \/ obs[t].fired < obs[t].times
                                    THEN obs[t].fired + 1 ELSE obs[t].fired
  OBVIOUS
<1>4. /\ UNCHANGED <<wheel, granularity, lag, dis, span>>
      /\ pc' \in {"scan", "callback"}
      /\ item' = [item EXCEPT ![t].remaining_ticks = left]
      /\ obs' = [obs EXCEPT ![t].fired = count] \/ obs' = obs
  BY <1>1, <1>3, Zenon DEF Visit
<1>5. ASSUME NEW u \in Timers
      PROVE  /\ item'[u].repeat_interval = item[u].repeat_interval
             /\ item'[u].age = item[u].age
             /\ obs'[u].slack = obs[u].slack /\ obs'[u].due = obs[u].due
  <2>1. \/ item'[u] = item[u]
        \/ u = t /\ item'[t] = [item[t] EXCEPT !.remaining_ticks = left]
    BY <1>4 DEF WInv, TypeOK
  <2>2. \/ obs'[u] = obs[u]
        \/ u = t /\ obs'[t] = [obs[t] EXCEPT !.fired = count]
    BY <1>4 DEF WInv, TypeOK
  <2> QED
    BY <1>2, <2>1, <2>2 DEF ItemType, ObsType
<1>6. ASSUME NEW u \in Timers, Pending(u)' PROVE PaidFor(u)'
  <2>1. PaidFor(u)
    BY <1>4, <1>6, PendingIsIn, PendingIsInPrime DEF Paid
  <2> QED
    BY <1>4, <1>5, <2>1, PaidKept, PaidTypes
<1> QED
  BY <1>4, <1>6 DEF Paid

\* What follows a callback turns nothing.
LEMMA CallbackReturnsPaid == WInv /\ DueTurns /\ Paid /\ CallbackReturns => Paid'
<1> SUFFICES ASSUME WInv, DueTurns, Paid, CallbackReturns PROVE Paid'
  OBVIOUS
<1>1. PICK t \in Timers : t = Current
  BY CurrentIn DEF CallbackReturns, WInv
<1>2. /\ pos \in 1 .. Len(wheel[scan]) /\ scan \in Slot /\ t = wheel[scan][pos]
      /\ pos \in DOMAIN wheel[scan]
  BY <1>1, CurrentIn DEF CallbackReturns, WInv, TypeOK, Current
<1>3. /\ wheel' = Take(wheel, scan, pos) /\ item' = [item EXCEPT ![t] = NoItem]
      /\ obs' = [obs EXCEPT ![t].since = 0, ![t].due = 0, ![t].slack = 0]
      /\ pc' = "scan" /\ UNCHANGED <<granularity, lag, dis, span>>
  <2>1. item[t].repeat_count = 1
    BY <1>2 DEF DueTurns, DueAt
  <2>2. (IF item[t].repeat_count > 0 THEN item[t].repeat_count - 1
         ELSE item[t].repeat_count) = 0
    BY <2>1
  <2> QED
    BY <1>1, <2>2, Zenon DEF CallbackReturns, Take
<1>4. ASSUME NEW u \in Timers, Pending(u)' PROVE PaidFor(u)'
  <2>1. Pending(u) /\ u # t
    <3>1. wheel \in Wheels /\ OnceIn(wheel)
      BY OnceIsOnceIn DEF WInv, TypeOK, Wheels
    <3>2. In(wheel', u) <=> In(wheel, u) /\ u # t
      BY <1>2, <1>3, <3>1, TakeFrom
    <3> QED
      BY <1>4, <3>2, PendingIsIn, PendingIsInPrime
  <2>2. PaidFor(u) /\ item'[u] = item[u] /\ obs'[u] = obs[u]
    BY <1>3, <2>1 DEF Paid, WInv, TypeOK
  <2>3. UNCHANGED <<granularity, lag, dis, span>> /\ obs[u].due \in Int
        /\ dis \in Int /\ lag \in Int /\ span \in Int
    BY <1>3, PaidTypes
  <2> QED
    BY <2>2, <2>3, PaidKept
<1> QED
  BY <1>3, <1>4 DEF Paid

\* Steps that leave the items, their debt and their pay alone.
LEMMA QuietPaid ==
    ASSUME WInv, Paid, UNCHANGED <<wheel, item, obs, granularity, dis>>,
           lag' - span' = lag - span, lag' \in Int, span' \in Int,
           pc' = "idle" => dis' = 0 /\ span' = 0
    PROVE  Paid'
<1>1. ASSUME NEW t \in Timers, Pending(t)' PROVE PaidFor(t)'
  <2>1. PaidFor(t)
    BY <1>1, PendingIsIn, PendingIsInPrime DEF Paid
  <2> QED
    BY <2>1, PaidKept, PaidTypes
<1> QED
  BY <1>1 DEF Paid

\* Every step preserves Paid.
LEMMA NextPaid ==
    Steady /\ WInv /\ WInv' /\ DueTurns /\ Paid /\ [Next]_vars => Paid'
<1> SUFFICES ASSUME Steady, WInv, WInv', DueTurns, Paid, [Next]_vars PROVE Paid'
  OBVIOUS
<1>0. lag \in Int /\ span \in Int /\ lag - 0 = lag
  BY DEF WInv, TypeOK
<1>1. CASE UNCHANGED vars
  BY <1>0, <1>1, QuietPaid DEF vars, code, Paid
<1>2. CASE Clock
  BY <1>2, ClockPaid
<1>3. ASSUME NEW g \in Granularities, SetGranularity(g) PROVE Paid'
  <2>1. g = granularity
    BY DEF Steady, WInv, TypeOK
  <2> QED
    BY <1>0, <1>3, <2>1, QuietPaid DEF SetGranularity, Paid
<1>4. CASE \E t \in Timers, timeout \in Timeouts, n \in Times : AddTimer(t, timeout, n)
  BY <1>4, AddTimerPaid DEF Steady
<1>5. CASE ExecuteNothing
  BY <1>1, <1>5 DEF ExecuteNothing
<1>6. CASE EndOfList
  BY <1>0, <1>6, QuietPaid DEF EndOfList
<1>7. CASE LastTrigger
  <2>1. lag' - span' = lag - span /\ lag' \in Int /\ span' \in Int /\ dis' = 0 /\ span' = 0
    BY <1>0, <1>7 DEF LastTrigger
  <2> QED
    BY <1>7, <2>1, QuietPaid DEF LastTrigger
<1> QED
  BY <1>1, <1>2, <1>3, <1>4, <1>5, <1>6, <1>7, ExecutePaid, TurnSlotPaid, VisitPaid,
     CallbackReturnsPaid DEF Next, Pass

\* With a granularity that stays, a one-shot timer is called back early by no
\* more than the time the loop was behind when AddTimer took it in.
THEOREM EarlyByNoMoreThanLag == Steady /\ Spec => []EarlyByLagAtMost
<1>1. Init => Paid
  <2> SUFFICES ASSUME Init PROVE Paid
    OBVIOUS
  <2>1. \A t \in Timers : ~Pending(t)
    <3>1. \A s \in Slot : DOMAIN wheel[s] = {}
      BY DEF Init
    <3> QED
      BY <3>1 DEF Pending
  <2> QED
    BY <2>1 DEF Init, Paid
<1>2. Steady => Steady' /\ OneShot
  BY DEF Steady, OneShot
<1>3. Steady /\ WInv /\ DueTurns /\ Paid => EarlyByLagAtMost
  <2> SUFFICES ASSUME Steady, WInv, DueTurns, Paid, NEW t \in Timers, First(t)
               PROVE  item[t].age + obs[t].slack >= item[t].repeat_interval
    BY DEF EarlyByLagAtMost
  <2>1. Firing(t) /\ pc = "callback" /\ t = wheel[scan][pos]
    BY DEF First, Firing, Current
  <2>2. scan \in Slot /\ pos \in DOMAIN wheel[scan] /\ In(wheel, t)
    BY <2>1, CurrentIn DEF WInv, TypeOK, Current
  <2>3. obs[t].due = 0 /\ PaidFor(t)
    BY <2>1, <2>2, PendingIsIn DEF DueTurns, DueAt, Paid
  <2>4. PICK g \in Nat \ {0}, n \in Nat, k \in Nat :
           /\ g = granularity /\ n = item[t].repeat_interval
           /\ k = item[t].repeat_interval \div granularity
    BY PaidTypes
  <2>5. CASE item[t].age = AgeCap
    BY <2>3, <2>5, PaidTypes DEF PaidFor, Steady
  <2>6. CASE item[t].age # AgeCap
    <3>1. n <= g * (k + 1)
      <4>1. k = n \div g
        BY <2>4
      <4> QED
        BY <4>1
    <3>2. Turned(t) = k + 1 + dis
      BY <2>3, <2>4, PaidTypes DEF Turned
    <3>3. g * (k + 1) <= g * (k + 1 + dis)
      <4>1. g * (k + 1 + dis) = g * (k + 1) + g * dis /\ g * dis \in Nat
        BY PaidTypes
      <4> QED
        BY <4>1, PaidTypes
    <3>4. g * (k + 1 + dis) <= item[t].age + obs[t].slack - lag + span
      BY <2>3, <2>4, <2>6, <3>2 DEF PaidFor
    <3>5. g * (k + 1) \in Int /\ g * (k + 1 + dis) \in Int
      BY PaidTypes
    <3> QED
      BY <2>4, <3>1, <3>3, <3>4, <3>5, PaidTypes
  <2> QED
    BY <2>5, <2>6
<1> QED
  BY <1>1, <1>2, <1>3, AlwaysWInv, AlwaysDue, NextPaid, PTL DEF Spec
=============================================================================
