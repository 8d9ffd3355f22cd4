------------------------------- MODULE Epoll -------------------------------
(***************************************************************************)
(* class Epoll: the table reg_event_ of who waits for which descriptor,    *)
(* and the kernel's epoll instance it keeps in step with epoll_ctl.        *)
(*                                                                         *)
(* EventType::READ and EPOLLIN are "IN", WRITE and EPOLLOUT are "OUT".     *)
(* The kernel is external: an edge triggered instance puts a descriptor on *)
(* its ready list when a wanted event happens, or when epoll_ctl finds it  *)
(* ready already; epoll_wait empties the list and reports what is still    *)
(* ready and wanted.                                                       *)
(***************************************************************************)
EXTENDS FiniteSets

CONSTANTS
    Fds,     \* file descriptors
    Owners,  \* coroutines that can be registered
    None     \* the null pointer

VARIABLES
    reg_event,  \* reg_event_: the EventCtx of each descriptor, or NoCtx
    open,       \* external: descriptors that are open
    ready,      \* external: the directions that would not block
    interest,   \* external: the events epoll_ctl asked for
    data,       \* external: which member of epoll_data was filled last
    rdlist      \* external: the ready list

epoll  == <<reg_event, interest, data, rdlist>>
kernel == <<open, ready>>
vars   == <<epoll, kernel>>

Dir == {"IN", "OUT"}

NoCtx == [type |-> {}, func |-> {}, co |-> [d \in Dir |-> None]]

\* EventCtx: the types waited for, the directions that have a callback, and
\* the coroutine of each direction.
EventCtx == [type : SUBSET Dir, func : SUBSET Dir, co : [Dir -> Owners \cup {None}]]

Registered(fd) == reg_event[fd].type # {}

\* Asking for reader on "IN" and writer on "OUT".
Waiters(reader, writer) == [d \in Dir |-> IF d = "IN" THEN reader ELSE writer]

-----------------------------------------------------------------------------
Init ==
    /\ reg_event = [fd \in Fds |-> NoCtx]
    /\ open = Fds
    /\ ready \in [Fds -> SUBSET Dir]
    /\ interest = [fd \in Fds |-> {}]
    /\ data = [fd \in Fds |-> "fd"]
    /\ rdlist = {}

\* epoll_ctl ADD or MOD.
EpollCtl(fd, events, member) ==
    /\ interest' = [interest EXCEPT ![fd] = events]
    /\ data' = [data EXCEPT ![fd] = member]
    /\ rdlist' = IF ready[fd] \cap events # {} THEN rdlist \cup {fd} ELSE rdlist

\* epoll_ctl DEL, and what close does for a registered descriptor.
EpollDel(fd) ==
    /\ interest' = [interest EXCEPT ![fd] = {}]
    /\ data' = [data EXCEPT ![fd] = "fd"]
    /\ rdlist' = rdlist \ {fd}

\* Mutants: the table merges the types and the kernel gets the new one only;
\* epoll_data holds the pointer, as in the other overload of RegisterEvent.
RegisterEventMerging(type, fd, func, co) ==
    /\ reg_event' = [reg_event EXCEPT ![fd] =
                       [type |-> @.type \cup type, func |-> func, co |-> co]]
    /\ EpollCtl(fd, type, "fd")
RegisterEventByPtr(type, fd, func, co) ==
    /\ reg_event[fd].type \cap type = {}
    /\ reg_event' = [reg_event EXCEPT ![fd] = [type |-> type, func |-> func, co |-> co]]
    /\ EpollCtl(fd, type, "ptr")

\* A new registration is added; one of another type replaces the old one, its
\* waiters included; one of a type that is there already changes nothing.
RegisterEvent(type, fd, func, co) ==
    \/ /\ Registered(fd)
       /\ reg_event[fd].type \cap type # {}
       /\ UNCHANGED epoll
    \/ /\ reg_event[fd].type \cap type = {}
       /\ reg_event' = [reg_event EXCEPT ![fd] =
                          [type |-> type, func |-> func, co |-> co]]
       /\ EpollCtl(fd, type, "fd")

\* What CancelEvent(type, fd) leaves of a registration.
Cancelled(ctx, type) ==
    IF ctx.type \ type = {} THEN NoCtx ELSE [ctx EXCEPT !.type = @ \ type]

\* Mutant: epoll_data is left as memset made it.
CancelEventNoData(type, fd) ==
    /\ reg_event[fd].type \cap type # {}
    /\ reg_event' = [reg_event EXCEPT ![fd] = Cancelled(@, type)]
    /\ IF reg_event'[fd] = NoCtx THEN EpollDel(fd)
       ELSE EpollCtl(fd, Dir \ type, "zero")

CancelEvent(type, fd) ==
    \/ /\ reg_event[fd].type \cap type = {}
       /\ UNCHANGED epoll
    \/ /\ reg_event[fd].type \cap type # {}
       /\ reg_event' = [reg_event EXCEPT ![fd] = Cancelled(@, type)]
       /\ IF reg_event'[fd] = NoCtx THEN EpollDel(fd)
          ELSE EpollCtl(fd, Dir \ type, "ptr")

\* Mutant: only the reader is cancelled.
CancelReadAndClose(fd) ==
    /\ reg_event' = [reg_event EXCEPT ![fd] = Cancelled(@, {"IN"})]
    /\ EpollDel(fd)
    /\ open' = open \ {fd}
    /\ ready' = [ready EXCEPT ![fd] = {}]

\* The hooked close: CancelEvent(READ), CancelEvent(WRITE), close_f.
CancelAndClose(fd) ==
    /\ reg_event' = [reg_event EXCEPT ![fd] = Cancelled(Cancelled(@, {"IN"}), {"OUT"})]
    /\ EpollDel(fd)
    /\ open' = open \ {fd}
    /\ ready' = [ready EXCEPT ![fd] = {}]

\* The peer sent data (IN) or made room (OUT).
Happens(fd, d) ==
    /\ fd \in open
    /\ ready' = [ready EXCEPT ![fd] = @ \cup {d}]
    /\ rdlist' = IF d \in interest[fd] THEN rdlist \cup {fd} ELSE rdlist
    /\ UNCHANGED <<reg_event, interest, data, open>>

\* The events one epoll_wait returns.
Reported ==
    {[fd |-> fd, mask |-> ready[fd] \cap interest[fd], data |-> data[fd]] :
       fd \in {f \in rdlist : ready[f] \cap interest[f] # {}}}

EpollWait ==
    /\ rdlist' = {}
    /\ UNCHANGED <<reg_event, interest, data, kernel>>

-----------------------------------------------------------------------------
(* The component on its own: clients register and cancel as they like.     *)

Next ==
    \/ \E fd \in open, type \in (SUBSET Dir) \ {{}}, func \in SUBSET Dir,
          r, w \in Owners \cup {None} :
         RegisterEvent(type, fd, func, Waiters(r, w)) /\ UNCHANGED kernel
    \/ \E fd \in Fds, type \in (SUBSET Dir) \ {{}} :
         CancelEvent(type, fd) /\ UNCHANGED kernel
    \/ \E fd \in open : CancelAndClose(fd)
    \/ \E fd \in Fds, d \in Dir : Happens(fd, d)
    \/ EpollWait

Spec == Init /\ [][Next]_vars

TypeOK ==
    /\ reg_event \in [Fds -> EventCtx]
    /\ open \subseteq Fds
    /\ ready \in [Fds -> SUBSET Dir]
    /\ interest \in [Fds -> SUBSET Dir]
    /\ data \in [Fds -> {"fd", "ptr"}]
    /\ rdlist \subseteq Fds

\* The kernel watches exactly what reg_event_ says: RegisterEvent computes the
\* events from its argument and CancelEvent from the complement of its
\* argument, and both always agree with the type that is left in the table.
KernelMatchesTable ==
    \A fd \in Fds : interest[fd] = reg_event[fd].type

\* A descriptor that is closed leaves nothing behind, in the table or in the
\* kernel, so its number can be used again.
ClosedLeavesNothing ==
    \A fd \in Fds \ open : reg_event[fd] = NoCtx /\ fd \notin rdlist
=============================================================================
