---------------------------- MODULE EpollProofs ----------------------------
(***************************************************************************)
(* What class Epoll keeps, for any number of descriptors and of waiters:   *)
(* the kernel's interest list is the table reg_event_, and a descriptor    *)
(* that is closed is in neither.                                           *)
(***************************************************************************)
EXTENDS Epoll, TLAPS

\* The inductive invariant. The two halves need each other: a cancellation on
\* a closed descriptor is harmless because the table has nothing for it.
IInv == TypeOK /\ KernelMatchesTable /\ ClosedLeavesNothing

\* CancelEvent leaves an EventCtx behind, of the types that were not cancelled,
\* and leaves the empty one exactly when no type remains.
LEMMA CancelledCtx ==
    ASSUME NEW ctx \in EventCtx, NEW type \in SUBSET Dir
    PROVE  /\ Cancelled(ctx, type) \in EventCtx
           /\ Cancelled(ctx, type).type = ctx.type \ type
           /\ Cancelled(ctx, type) = NoCtx <=> ctx.type \subseteq type
<1>1. NoCtx \in EventCtx /\ NoCtx.type = {}
  BY DEF NoCtx, EventCtx
<1>2. CASE ctx.type \ type = {}
  BY <1>1, <1>2 DEF Cancelled
<1>3. CASE ctx.type \ type # {}
  <2>1. Cancelled(ctx, type) = [ctx EXCEPT !.type = @ \ type]
    BY <1>3 DEF Cancelled
  <2>2. Cancelled(ctx, type) \in EventCtx /\ Cancelled(ctx, type).type = ctx.type \ type
    BY <2>1 DEF EventCtx
  <2> QED
    BY <1>1, <1>3, <2>2
<1> QED
  BY <1>2, <1>3

\* The events CancelEvent hands to epoll_ctl, the complement of its argument,
\* are the types that remain: with two directions, what is left of a
\* registration after a cancellation that hit it is all the argument leaves out.
LEMMA ComplementIsRest ==
    ASSUME NEW held \in SUBSET Dir, NEW type \in SUBSET Dir,
           held \cap type # {}, ~(held \subseteq type)
    PROVE  Dir \ type = held \ type
BY DEF Dir

\* The constructor starts with an empty table and an empty epoll instance.
LEMMA InitIInv == Init => IInv
BY DEF Init, IInv, TypeOK, KernelMatchesTable, ClosedLeavesNothing, NoCtx, EventCtx

\* RegisterEvent, called for an open descriptor, keeps the invariant.
LEMMA RegisterIInv ==
    ASSUME IInv, NEW fd \in open, NEW type \in SUBSET Dir, NEW func \in SUBSET Dir,
           NEW r \in Owners \cup {None}, NEW w \in Owners \cup {None},
           RegisterEvent(type, fd, func, Waiters(r, w)), UNCHANGED kernel
    PROVE  IInv'
<1>1. CASE UNCHANGED epoll
  BY <1>1 DEF IInv, TypeOK, KernelMatchesTable, ClosedLeavesNothing, epoll, kernel
<1>2. CASE /\ reg_event' = [reg_event EXCEPT ![fd] =
                              [type |-> type, func |-> func, co |-> Waiters(r, w)]]
           /\ EpollCtl(fd, type, "fd")
  <2>1. [type |-> type, func |-> func, co |-> Waiters(r, w)] \in EventCtx
    BY DEF EventCtx, Waiters
  <2>2. TypeOK'
    BY <1>2, <2>1 DEF IInv, TypeOK, EpollCtl, kernel
  <2>3. KernelMatchesTable'
    BY <1>2 DEF IInv, TypeOK, KernelMatchesTable, EpollCtl
  <2>4. ClosedLeavesNothing'
    BY <1>2 DEF IInv, TypeOK, ClosedLeavesNothing, EpollCtl, kernel
  <2> QED
    BY <2>2, <2>3, <2>4 DEF IInv
<1> QED
  BY <1>1, <1>2 DEF RegisterEvent

\* CancelEvent keeps it, for any descriptor.
LEMMA CancelIInv ==
    ASSUME IInv, NEW fd \in Fds, NEW type \in SUBSET Dir,
           CancelEvent(type, fd), UNCHANGED kernel
    PROVE  IInv'
<1>1. CASE UNCHANGED epoll
  BY <1>1 DEF IInv, TypeOK, KernelMatchesTable, ClosedLeavesNothing, epoll, kernel
<1>2. CASE reg_event[fd].type \cap type # {}
  <2> DEFINE left == Cancelled(reg_event[fd], type)
  <2>1. reg_event[fd] \in EventCtx /\ reg_event[fd].type \in SUBSET Dir
    BY DEF IInv, TypeOK, EventCtx
  <2>2. fd \in open
    BY <1>2 DEF IInv, ClosedLeavesNothing, NoCtx
  <2>3. /\ left \in EventCtx
        /\ left.type = reg_event[fd].type \ type
        /\ left = NoCtx <=> reg_event[fd].type \subseteq type
    BY <2>1, CancelledCtx
  <2>4. reg_event' = [reg_event EXCEPT ![fd] = left] /\ reg_event'[fd] = left
    BY <1>2 DEF CancelEvent, IInv, TypeOK
  <2>5. CASE left = NoCtx
    <3>1. EpollDel(fd)
      BY <1>2, <2>4, <2>5 DEF CancelEvent
    <3> HIDE DEF left
    <3>2. TypeOK'
      BY <2>3, <2>4, <3>1 DEF IInv, TypeOK, EpollDel, kernel
    <3>3. KernelMatchesTable'
      BY <2>3, <2>4, <2>5, <3>1 DEF IInv, TypeOK, KernelMatchesTable, EpollDel
    <3>4. ClosedLeavesNothing'
      BY <2>2, <2>4, <3>1 DEF IInv, TypeOK, ClosedLeavesNothing, EpollDel, kernel
    <3> QED
      BY <3>2, <3>3, <3>4 DEF IInv
  <2>6. CASE left # NoCtx
    <3>1. EpollCtl(fd, Dir \ type, "ptr")
      BY <1>2, <2>4, <2>6 DEF CancelEvent
    <3> HIDE DEF left
    <3>2. Dir \ type = left.type
      BY <1>2, <2>1, <2>3, <2>6, ComplementIsRest
    <3>3. TypeOK'
      BY <2>3, <2>4, <3>1 DEF IInv, TypeOK, EpollCtl, kernel
    <3>4. KernelMatchesTable'
      BY <2>4, <3>1, <3>2 DEF IInv, TypeOK, KernelMatchesTable, EpollCtl
    <3>5. ClosedLeavesNothing'
      BY <2>2, <2>4, <3>1 DEF IInv, TypeOK, ClosedLeavesNothing, EpollCtl, kernel
    <3> QED
      BY <3>3, <3>4, <3>5 DEF IInv
  <2> QED
    BY <2>5, <2>6
<1> QED
  BY <1>1, <1>2 DEF CancelEvent

\* The hooked close keeps it: after both cancellations nothing is left.
LEMMA CloseIInv ==
    ASSUME IInv, NEW fd \in open, CancelAndClose(fd)
    PROVE  IInv'
<1> DEFINE left == Cancelled(Cancelled(reg_event[fd], {"IN"}), {"OUT"})
<1>1. fd \in Fds /\ reg_event[fd] \in EventCtx
  BY DEF IInv, TypeOK
<1>2. /\ Cancelled(reg_event[fd], {"IN"}) \in EventCtx
      /\ Cancelled(reg_event[fd], {"IN"}).type \subseteq {"OUT"}
  <2>1. {"IN"} \in SUBSET Dir /\ reg_event[fd].type \ {"IN"} \subseteq {"OUT"}
    BY <1>1 DEF EventCtx, Dir
  <2> QED
    BY <1>1, <2>1, CancelledCtx
<1>3. left = NoCtx
  BY <1>2, CancelledCtx DEF Dir
<1>4. NoCtx \in EventCtx /\ NoCtx.type = {}
  BY DEF NoCtx, EventCtx
<1>5. reg_event' = [reg_event EXCEPT ![fd] = NoCtx]
  BY <1>3 DEF CancelAndClose
<1>6. TypeOK'
  BY <1>1, <1>4, <1>5 DEF IInv, TypeOK, CancelAndClose, EpollDel
<1>7. KernelMatchesTable'
  BY <1>1, <1>4, <1>5 DEF IInv, TypeOK, KernelMatchesTable, CancelAndClose, EpollDel
<1>8. ClosedLeavesNothing'
  BY <1>1, <1>5 DEF IInv, TypeOK, ClosedLeavesNothing, CancelAndClose, EpollDel
<1> QED
  BY <1>6, <1>7, <1>8 DEF IInv

\* Every step keeps the invariant.
LEMMA NextIInv == IInv /\ [Next]_vars => IInv'
<1> SUFFICES ASSUME IInv, [Next]_vars PROVE IInv'
  OBVIOUS
<1>1. ASSUME NEW fd \in open, NEW type \in (SUBSET Dir) \ {{}}, NEW func \in SUBSET Dir,
             NEW r \in Owners \cup {None}, NEW w \in Owners \cup {None},
             RegisterEvent(type, fd, func, Waiters(r, w)) /\ UNCHANGED kernel
      PROVE  IInv'
  BY <1>1, RegisterIInv
<1>2. ASSUME NEW fd \in Fds, NEW type \in (SUBSET Dir) \ {{}},
             CancelEvent(type, fd) /\ UNCHANGED kernel
      PROVE  IInv'
  BY <1>2, CancelIInv
<1>3. ASSUME NEW fd \in open, CancelAndClose(fd) PROVE IInv'
  BY <1>3, CloseIInv
<1>4. ASSUME NEW fd \in Fds, NEW d \in Dir, Happens(fd, d) PROVE IInv'
  BY <1>4 DEF IInv, TypeOK, KernelMatchesTable, ClosedLeavesNothing, Happens
<1>5. CASE EpollWait
  BY <1>5 DEF IInv, TypeOK, KernelMatchesTable, ClosedLeavesNothing, EpollWait, kernel
<1>6. CASE UNCHANGED vars
  BY <1>6 DEF IInv, TypeOK, KernelMatchesTable, ClosedLeavesNothing, vars, epoll, kernel
<1> QED
  BY <1>1, <1>2, <1>3, <1>4, <1>5, <1>6 DEF Next

-----------------------------------------------------------------------------
\* The state of class Epoll and of the kernel's instance has its type in every
\* reachable state.
THEOREM TypeCorrect == Spec => []TypeOK
<1>1. IInv => TypeOK
  BY DEF IInv
<1> QED
  BY <1>1, InitIInv, NextIInv, PTL DEF Spec

\* RegisterEvent and CancelEvent keep the kernel's interest in step with
\* reg_event_ although neither reads the other's last argument.
THEOREM KernelAlwaysMatchesTable == Spec => []KernelMatchesTable
<1>1. IInv => KernelMatchesTable
  BY DEF IInv
<1> QED
  BY <1>1, InitIInv, NextIInv, PTL DEF Spec

\* The hooked close leaves no registration and no pending report, and no later
\* call brings one back: a descriptor number can be used again.
THEOREM ClosedAlwaysLeavesNothing == Spec => []ClosedLeavesNothing
<1>1. IInv => ClosedLeavesNothing
  BY DEF IInv
<1> QED
  BY <1>1, InitIInv, NextIInv, PTL DEF Spec
=============================================================================
