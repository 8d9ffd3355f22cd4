-------------------------- MODULE HttpServerProofs --------------------------
(***************************************************************************)
(* HttpServer for any number of clients, descriptors and worker threads:   *)
(* no handler follows a dangling data.ptr, epoll_ctl never fails, and the  *)
(* bytes that send takes are those the responses are made of.              *)
(***************************************************************************)
EXTENDS HttpServer, WellFoundedInduction, SequenceTheorems, TLAPS

Registration == [worker : Workers, ev : {"IN", "OUT"}, data : Ids]
Event        == [fd : Fds, events : SUBSET {"IN", "OUT", "HUP"}, data : Ids]
Part         == Nat \X {"head", "body"}
Fields       == [fd : Fds \cup {None}, buf : Seq(Part), cursor : Nat, length : Nat,
                 keep_alive : BOOLEAN]
Asked        == {None} \cup UNION {Requests[c] : c \in Clients}
Answer       == [status : Nat, keep_alive : BOOLEAN, whole : Asked, left : Ids]

\* An EventData: cursor and length divide its buffer.
Object == {o \in Fields : o.cursor + o.length = Len(o.buf)}

\* The fields of a client and of its connection that the proofs use.
Client(k) ==
    /\ DOMAIN k = DOMAIN NewClient
    /\ k.ask \in Asked /\ k.answers \in Seq(Answer)
    /\ k.out \in Seq(Part) /\ k.sent \in Seq(Part) /\ k.got \in 0 .. Len(k.sent)

ClientsTyped == DOMAIN cl = Clients /\ \A c \in Clients : Client(cl[c])

\* The state has its type, and what holds pointers are functions.
Types ==
    /\ TypeOK
    /\ reg \in [Fds -> Registration \cup {NoReg}]
    /\ batch \in [Workers -> SUBSET Event]
    /\ heap \in [Ids -> Object]
    /\ ClientsTyped

\* Who holds what: a descriptor is registered while it is open; its data.ptr
\* and that of an event still to be handled are the same live object, which is
\* the descriptor's; an object is where its descriptor's objects are; and a
\* batch has one event of a descriptor at most.
Ownership ==
    /\ \A fd \in Fds : sock[fd] = None <=> reg[fd] = NoReg
    /\ PointersValid
    /\ \A i \in Ids : heap[i] # Freed => heap[i].fd = i[1]
    /\ \A w \in Workers : \A e, f \in batch[w] : e.fd = f.fd => e = f

Owned == Types /\ Ownership /\ EpollCtlNeverFails

-----------------------------------------------------------------------------
(* What a connection has sent and has still to send.                       *)

\* A descriptor belongs to one connection that is open, and no two to the same.
Connected ==
    /\ \A fd \in Fds : sock[fd] # None => cl[sock[fd]].phase = "open"
    /\ \A fd, gd \in Fds : sock[fd] # None /\ sock[fd] = sock[gd] => fd = gd

\* What was sent are the first parts of what is owed.
Prefix(k) ==
    /\ Len(k.sent) <= Len(k.out)
    /\ \A i \in 1 .. Len(k.sent) : k.sent[i] = k.out[i]

\* The parts of buf behind the cursor are what is owed and was not sent.
Rest(k, o) ==
    /\ Len(k.sent) + o.length = Len(k.out)
    /\ \A i \in 1 .. o.length : k.out[Len(k.sent) + i] = o.buf[o.cursor + i]

\* Nothing is owed before the connection is open, and nothing more when the
\* server closes it on its own account.
Settled(k) ==
    /\ k.phase \in {"new", "pending"} => Len(k.out) = 0
    /\ k.phase = "gone" /\ ~k.fin /\ ~k.rst => Len(k.sent) = Len(k.out)

\* An object armed for EPOLLIN is a request, which has nothing to send; an
\* event of a batch is one the connection is still armed for or still in.
Delivery ==
    /\ Connected
    /\ \A c \in Clients : Prefix(cl[c]) /\ Settled(cl[c])
    /\ \A fd \in Fds : reg[fd] # NoReg =>
          /\ Rest(cl[sock[fd]], heap[reg[fd].data])
          /\ reg[fd].ev = "IN" => heap[reg[fd].data].length = 0
    /\ \A w \in Workers : \A e \in batch[w] :
          /\ "HUP" \in e.events => cl[sock[e.fd]].rst
          /\ "IN" \in e.events => reg[e.fd].ev = "IN"

IInv == Owned /\ Delivery

-----------------------------------------------------------------------------
(* The operators.                                                          *)

\* The least element of a set of natural numbers that is not empty.
LEMMA MinIsLeast ==
    ASSUME NEW S \in SUBSET Nat, S # {}
    PROVE  Min(S) \in S /\ \A y \in S : Min(S) <= y
<1> DEFINE R == {p \in Nat \X Nat : p[1] < p[2]}
<1>1. IsWellFoundedOn(R, Nat)
  BY NatLessThanWellFounded DEF OpToRel
<1>2. \E x \in S : \A y \in S : ~ (<<y, x>> \in R)
  <2> HIDE DEF R
  <2> QED
    BY <1>1, WFMin
<1>3. PICK x \in S : \A y \in S : ~ (<<y, x>> \in R)
  BY <1>2
<1>4. \A y \in S : x <= y
  <2>1. ASSUME NEW y \in S, y < x PROVE FALSE
    BY <1>3, <2>1, <<y, x>> \in R
  <2> QED
    BY <2>1
<1> QED
  BY <1>4 DEF Min

\* No descriptor and no worker is the null pointer.
LEMMA NoneIsNothing == None \notin Fds /\ None \notin Workers /\ None \notin Clients
BY HttpAssumption DEF Fds, Workers

\* A new EventData has its type, and its descriptor is the one it is made for.
LEMMA EventDataType ==
    ASSUME NEW fd \in Fds \cup {None}
    PROVE  /\ EventData(fd) \in Object
           /\ EventData(fd).fd = fd
           /\ EventData(fd).length = 0 /\ EventData(fd).cursor = 0
           /\ EventData(fd).buf = <<>>
BY DEF EventData, Object, Fields

\* operator new returns an address of the descriptor's that was free.
LEMMA NewIsFree ==
    ASSUME NEW fd \in Fds, NEW objects, FreeData(fd, objects) # {}
    PROVE  /\ New(fd, objects) \in Ids
           /\ New(fd, objects)[1] = fd
           /\ objects[New(fd, objects)] = Freed
<1>1. FreeData(fd, objects) \in SUBSET Nat
  BY HttpAssumption DEF FreeData
<1>2. Min(FreeData(fd, objects)) \in FreeData(fd, objects)
  BY <1>1, MinIsLeast
<1> QED
  BY <1>2 DEF New, FreeData, Ids

-----------------------------------------------------------------------------
(* The ends of a handler: each keeps Owned.                                *)

\* The heap after a handler of fd's event is good if the objects of the other
\* descriptors are as they were.
Untouched(objects, fd) ==
    /\ objects \in [Ids -> Object]
    /\ \A i \in Ids : objects[i] # Freed => objects[i].fd = i[1]
    /\ \A i \in Ids : heap[i].fd \in Fds \ {fd} => objects[i] = heap[i]

\* HandleEvent takes an event whose pointer is valid.
LEMMA EventValid ==
    ASSUME Owned, NEW w \in Workers, NEW e \in batch[w]
    PROVE  /\ e \in Event /\ e.fd \in Fds /\ e.data \in Ids
           /\ heap[e.data].fd = e.fd /\ heap[e.data] \in Object
           /\ reg[e.fd] \in Registration /\ reg[e.fd].worker = w
           /\ reg[e.fd].data = e.data
           /\ sock[e.fd] \in Clients
<1>1. e \in Event /\ e.fd \in Fds /\ e.data \in Ids
  BY DEF Owned, Types, Event
<1>2. heap[e.data].fd = e.fd /\ reg[e.fd].worker = w /\ reg[e.fd].data = e.data
  BY DEF Owned, Ownership, PointersValid
<1>3. heap[e.data] \in Object
  BY <1>1 DEF Owned, Types
<1>4. reg[e.fd] # NoReg
  BY <1>2, NoneIsNothing DEF NoReg
<1>5. reg[e.fd] \in Registration
  BY <1>1, <1>4 DEF Owned, Types
<1>6. sock[e.fd] \in Clients
  BY <1>1, <1>4 DEF Owned, Types, TypeOK, Ownership
<1> QED
  BY <1>1, <1>2, <1>3, <1>5, <1>6

\* What is left of the batches when event e of worker w is done: it has no
\* other event of the same descriptor, and no other worker has one.
LEMMA RestOfBatches ==
    ASSUME Owned, NEW w \in Workers, NEW e \in batch[w],
           batch' = [batch EXCEPT ![w] = @ \ {e}]
    PROVE  /\ batch' \in [Workers -> SUBSET Event]
           /\ \A v \in Workers : batch'[v] \subseteq batch[v]
           /\ \A v \in Workers : \A f \in batch'[v] : f.fd # e.fd
<1>1. \A v \in Workers : batch'[v] = IF v = w THEN batch[w] \ {e} ELSE batch[v]
  BY DEF Owned, Types
<1>2. ASSUME NEW v \in Workers, NEW f \in batch'[v], f.fd = e.fd PROVE FALSE
  <2>1. f \in batch[v]
    BY <1>1, <1>2
  <2>2. v = w
    BY <1>2, <2>1 DEF Owned, Ownership, PointersValid
  <2>3. f = e
    BY <1>2, <2>1, <2>2 DEF Owned, Ownership
  <2> QED
    BY <1>1, <2>2, <2>3
<1>3. batch' \in [Workers -> SUBSET Event]
  BY DEF Owned, Types
<1> QED
  BY <1>1, <1>2, <1>3

\* One client's step, or a handler's on one connection.
LEMMA ClientUpdate ==
    ASSUME ClientsTyped, NEW c \in Clients, NEW k, Client(k),
           cl' = [cl EXCEPT ![c] = k]
    PROVE  ClientsTyped'
BY DEF ClientsTyped

\* Polling asks for a wake-up and changes nothing else.
LEMMA PolledClient ==
    ASSUME NEW k, NEW ev, Client(k)
    PROVE  /\ Client(Polled(k, ev))
           /\ Polled(k, ev).out = k.out /\ Polled(k, ev).sent = k.sent
           /\ Polled(k, ev).phase = k.phase /\ Polled(k, ev).answers = k.answers
           /\ Polled(k, ev).fin = k.fin /\ Polled(k, ev).rst = k.rst
BY DEF Client, NewClient, Polled

\* EPOLL_CTL_DEL, close and delete.
LEMMA DropOwned ==
    ASSUME Owned, NEW w \in Workers, NEW e \in batch[w],
           Drop(w, e.fd, e.data), batch' = [batch EXCEPT ![w] = @ \ {e}],
           UNCHANGED <<conf, worker_idx>>
    PROVE  Owned'
<1> DEFINE fd == e.fd
<1>1. /\ fd \in Fds /\ e.data \in Ids /\ heap[e.data].fd = fd
      /\ reg[fd] \in Registration /\ reg[fd].worker = w /\ reg[fd].data = e.data
  BY EventValid
<1>2. /\ batch' \in [Workers -> SUBSET Event]
      /\ \A v \in Workers : batch'[v] \subseteq batch[v]
      /\ \A v \in Workers : \A f \in batch'[v] : f.fd # fd
  BY RestOfBatches
<1>3. /\ reg' = [reg EXCEPT ![fd] = NoReg] /\ sock' = [sock EXCEPT ![fd] = None]
      /\ heap' = [heap EXCEPT ![e.data] = Freed] /\ rdlist' = rdlist \ {fd}
  BY DEF Drop
<1>4. fault' = "none"
  BY <1>1 DEF Drop, Control, Owned, EpollCtlNeverFails
<1>5. Freed \in Object /\ Freed.fd = None
  BY EventDataType DEF Freed
<1> HIDE DEF fd
<1>6. Types'
  <2>1. reg' \in [Fds -> Registration \cup {NoReg}] /\ heap' \in [Ids -> Object]
    BY <1>1, <1>3, <1>5 DEF Owned, Types
  <2>2. TypeOK'
    BY <1>1, <1>2, <1>3, <1>4, <2>1 DEF Owned, Types, TypeOK, conf, Event, Registration
  <2>3. ClientsTyped'
    <3>1. sock[fd] \in Clients
      BY EventValid DEF fd
    <3>2. cl' = [cl EXCEPT ![sock[fd]] = [cl[sock[fd]] EXCEPT !.phase = "gone", !.rx = <<>>]]
      BY <3>1 DEF Drop, fd, Owned, Types, ClientsTyped
    <3>3. Client([cl[sock[fd]] EXCEPT !.phase = "gone", !.rx = <<>>])
      BY <3>1 DEF Owned, Types, ClientsTyped, Client, NewClient
    <3> QED
      BY <3>1, <3>2, <3>3, ClientUpdate DEF Owned, Types
  <2> QED
    BY <1>2, <2>1, <2>2, <2>3 DEF Types
<1>7. \A x \in Fds : x # fd => reg'[x] = reg[x] /\ sock'[x] = sock[x]
  BY <1>3 DEF Owned, Types, TypeOK
<1>8. reg'[fd] = NoReg /\ sock'[fd] = None
  BY <1>1, <1>3 DEF Owned, Types, TypeOK
<1>9. \A i \in Ids : heap[i].fd \in Fds \ {fd} => heap'[i] = heap[i]
  BY <1>1, <1>3 DEF Owned, Types
<1>10. PointersValid'
  <2>1. ASSUME NEW x \in Fds, reg'[x] # NoReg PROVE heap'[reg'[x].data].fd = x
    <3>1. x # fd /\ reg'[x] = reg[x] /\ reg[x].data \in Ids /\ heap[reg[x].data].fd = x
      BY <1>7, <1>8, <2>1 DEF Owned, Types, Ownership, PointersValid, Registration
    <3> QED
      BY <1>9, <3>1
  <2>2. ASSUME NEW v \in Workers, NEW f \in batch'[v]
        PROVE  /\ heap'[f.data].fd = f.fd
               /\ reg'[f.fd].worker = v /\ reg'[f.fd].data = f.data
    <3>1. f \in batch[v] /\ f.fd # fd
      BY <1>2
    <3>2. f.fd \in Fds /\ f.data \in Ids /\ heap[f.data].fd = f.fd
      BY <3>1, EventValid
    <3> QED
      BY <1>7, <1>9, <3>1, <3>2 DEF Owned, Ownership, PointersValid
  <2> QED
    BY <2>1, <2>2 DEF PointersValid
<1>11. Ownership'
  <2>1. \A x \in Fds : sock'[x] = None <=> reg'[x] = NoReg
    BY <1>7, <1>8 DEF Owned, Ownership
  <2>2. \A i \in Ids : heap'[i] # Freed => heap'[i].fd = i[1]
    BY <1>1, <1>3 DEF Owned, Types, Ownership
  <2>3. \A v \in Workers : \A f, g \in batch'[v] : f.fd = g.fd => f = g
    BY <1>2 DEF Owned, Ownership
  <2> QED
    BY <1>10, <2>1, <2>2, <2>3 DEF Ownership
<1> QED
  BY <1>4, <1>6, <1>11 DEF Owned, EpollCtlNeverFails

\* The descriptor stays open, registered with a live object of its own.
LEMMA StayOwned ==
    ASSUME Owned, NEW w \in Workers, NEW e \in batch[w],
           NEW r \in Registration, r.worker = w,
           NEW objects, Untouched(objects, e.fd), objects[r.data].fd = e.fd,
           reg' = [reg EXCEPT ![e.fd] = r], heap' = objects, sock' = sock,
           rdlist' \subseteq Fds, fault' = fault, ClientsTyped',
           batch' = [batch EXCEPT ![w] = @ \ {e}], UNCHANGED <<conf, worker_idx>>
    PROVE  Owned'
<1> DEFINE fd == e.fd
<1>1. fd \in Fds /\ reg[fd] \in Registration
  BY EventValid
<1>2. /\ batch' \in [Workers -> SUBSET Event]
      /\ \A v \in Workers : batch'[v] \subseteq batch[v]
      /\ \A v \in Workers : \A f \in batch'[v] : f.fd # fd
  BY RestOfBatches
<1>3. /\ reg' = [reg EXCEPT ![fd] = r] /\ heap'[r.data].fd = fd /\ r.data \in Ids
      /\ heap' \in [Ids -> Object]
      /\ \A i \in Ids : heap'[i] # Freed => heap'[i].fd = i[1]
      /\ \A i \in Ids : heap[i].fd \in Fds \ {fd} => heap'[i] = heap[i]
  BY DEF Untouched, Registration
<1>4. fault' = "none"
  BY DEF Owned, EpollCtlNeverFails
<1>5. r # NoReg /\ reg[fd] # NoReg
  BY <1>1, NoneIsNothing DEF Registration, NoReg
<1> HIDE DEF fd
<1>6. Types'
  <2>1. reg' \in [Fds -> Registration \cup {NoReg}]
    BY <1>1, <1>3 DEF Owned, Types
  <2>2. TypeOK'
    BY <1>2, <1>4, <2>1 DEF Owned, Types, TypeOK, conf, Event, Registration
  <2> QED
    BY <1>2, <1>3, <2>1, <2>2 DEF Types
<1>7. \A x \in Fds : x # fd => reg'[x] = reg[x]
  BY <1>3 DEF Owned, Types
<1>8. reg'[fd] = r
  BY <1>1, <1>3 DEF Owned, Types
<1>9. PointersValid'
  <2>1. ASSUME NEW x \in Fds, reg'[x] # NoReg PROVE heap'[reg'[x].data].fd = x
    <3>1. CASE x = fd
      BY <1>3, <1>8, <3>1
    <3>2. CASE x # fd
      <4>1. reg'[x] = reg[x] /\ reg[x].data \in Ids /\ heap[reg[x].data].fd = x
        BY <1>7, <2>1, <3>2 DEF Owned, Types, Ownership, PointersValid, Registration
      <4> QED
        BY <1>3, <3>2, <4>1
    <3> QED
      BY <3>1, <3>2
  <2>2. ASSUME NEW v \in Workers, NEW f \in batch'[v]
        PROVE  /\ heap'[f.data].fd = f.fd
               /\ reg'[f.fd].worker = v /\ reg'[f.fd].data = f.data
    <3>1. f \in batch[v] /\ f.fd # fd
      BY <1>2
    <3>2. f.fd \in Fds /\ f.data \in Ids /\ heap[f.data].fd = f.fd
      BY <3>1, EventValid
    <3> QED
      BY <1>3, <1>7, <3>1, <3>2 DEF Owned, Ownership, PointersValid
  <2> QED
    BY <2>1, <2>2 DEF PointersValid
<1>10. Ownership'
  <2>1. \A x \in Fds : sock'[x] = None <=> reg'[x] = NoReg
    BY <1>5, <1>7, <1>8 DEF Owned, Ownership
  <2>2. \A v \in Workers : \A f, g \in batch'[v] : f.fd = g.fd => f = g
    BY <1>2 DEF Owned, Ownership
  <2> QED
    BY <1>3, <1>9, <2>1, <2>2 DEF Ownership
<1> QED
  BY <1>4, <1>6, <1>10 DEF Owned, EpollCtlNeverFails

\* EPOLL_CTL_MOD.
LEMMA ModifyOwned ==
    ASSUME Owned, NEW w \in Workers, NEW e \in batch[w], NEW ev \in {"IN", "OUT"},
           NEW d \in Ids, NEW k, Client(k), NEW objects, Untouched(objects, e.fd),
           objects[d].fd = e.fd, Modify(w, e.fd, ev, d, k, objects),
           batch' = [batch EXCEPT ![w] = @ \ {e}], UNCHANGED <<conf, worker_idx>>
    PROVE  Owned'
<1> DEFINE r == [worker |-> w, ev |-> ev, data |-> d]
<1>1. e.fd \in Fds /\ reg[e.fd].worker = w
  BY EventValid
<1>2. r \in Registration /\ r.worker = w /\ r.data = d
  BY DEF Registration
<1>3. /\ reg' = [reg EXCEPT ![e.fd] = r] /\ heap' = objects /\ sock' = sock
      /\ rdlist' \subseteq Fds /\ fault' = fault
  BY <1>1 DEF Modify, Arm, Control, Owned, Types, TypeOK
<1>4. sock[e.fd] \in Clients /\ cl' = [cl EXCEPT ![sock[e.fd]] = Polled(k, ev)]
  BY <1>3, EventValid DEF Modify, Arm
<1>5. ClientsTyped'
  BY <1>4, PolledClient, ClientUpdate DEF Owned, Types
<1> HIDE DEF r
<1> QED
  BY <1>2, <1>3, <1>5, StayOwned

\* A handler that only yields.
LEMMA YieldOwned ==
    ASSUME Owned, NEW w \in Workers, NEW e \in batch[w], NEW k, Client(k), NEW objects,
           Untouched(objects, e.fd), objects[e.data].fd = e.fd,
           JustYield(e.fd, k, objects),
           batch' = [batch EXCEPT ![w] = @ \ {e}], UNCHANGED <<conf, worker_idx>>
    PROVE  Owned'
<1>1. /\ e.fd \in Fds /\ reg[e.fd] \in Registration
      /\ reg[e.fd].worker = w /\ reg[e.fd].data = e.data
  BY EventValid
<1>2. /\ reg' = [reg EXCEPT ![e.fd] = reg[e.fd]] /\ heap' = objects /\ sock' = sock
      /\ rdlist' \subseteq Fds /\ fault' = fault
  BY <1>1 DEF JustYield, Owned, Types, TypeOK
<1>3. sock[e.fd] \in Clients /\ cl' = [cl EXCEPT ![sock[e.fd]] = k]
  BY EventValid DEF JustYield
<1>4. ClientsTyped'
  BY <1>3, ClientUpdate DEF Owned, Types
<1> QED
  BY <1>1, <1>2, <1>4, StayOwned

\* The heap as it is, one of the descriptor's objects written, and an object
\* put at a free address, all leave the other descriptors' objects alone.
LEMMA HeapUntouched ==
    ASSUME Owned, NEW fd \in Fds
    PROVE  /\ Untouched(heap, fd)
           /\ \A d \in Ids, o \in Object :
                 d[1] = fd /\ o.fd = fd /\ (heap[d] = Freed \/ heap[d].fd = fd)
                   => Untouched([heap EXCEPT ![d] = o], fd)
<1>1. heap \in [Ids -> Object] /\ \A i \in Ids : heap[i] # Freed => heap[i].fd = i[1]
  BY DEF Owned, Types, Ownership
<1>2. Untouched(heap, fd)
  BY <1>1 DEF Untouched
<1>3. ASSUME NEW d \in Ids, NEW o \in Object, d[1] = fd, o.fd = fd,
             heap[d] = Freed \/ heap[d].fd = fd
      PROVE  Untouched([heap EXCEPT ![d] = o], fd)
  <2>1. heap[d].fd \notin Fds \ {fd}
    BY <1>3, NoneIsNothing, EventDataType DEF Freed
  <2> QED
    BY <1>1, <1>3, <2>1 DEF Untouched
<1> QED
  BY <1>2, <1>3

-----------------------------------------------------------------------------
(* The same for what is sent.                                              *)

\* A descriptor that is registered has a client and a live object of its own.
LEMMA RegisteredValid ==
    ASSUME Owned, NEW x \in Fds, reg[x] # NoReg
    PROVE  /\ sock[x] \in Clients /\ reg[x] \in Registration
           /\ reg[x].data \in Ids /\ heap[reg[x].data].fd = x
BY DEF Owned, Types, TypeOK, Ownership, PointersValid, Registration

\* A connection is dropped that the client has left or that owes nothing.
LEMMA DropDelivery ==
    ASSUME IInv, NEW w \in Workers, NEW e \in batch[w],
           Drop(w, e.fd, e.data), batch' = [batch EXCEPT ![w] = @ \ {e}],
           \/ cl[sock[e.fd]].fin \/ cl[sock[e.fd]].rst
           \/ heap[e.data].length = 0
    PROVE  Delivery'
<1> DEFINE fd == e.fd
           c  == sock[fd]
           k  == [cl[c] EXCEPT !.phase = "gone", !.rx = <<>>]
<1>1. /\ fd \in Fds /\ e.data \in Ids /\ heap[e.data].fd = fd /\ c \in Clients
      /\ reg[fd] \in Registration /\ reg[fd].data = e.data
  BY EventValid DEF IInv
<1>2. /\ \A v \in Workers : batch'[v] \subseteq batch[v]
      /\ \A v \in Workers : \A f \in batch'[v] : f.fd # fd
  BY RestOfBatches DEF IInv
<1>3. /\ reg' = [reg EXCEPT ![fd] = NoReg] /\ sock' = [sock EXCEPT ![fd] = None]
      /\ heap' = [heap EXCEPT ![e.data] = Freed]
  BY DEF Drop
<1>4. cl' = [cl EXCEPT ![c] = k]
  BY <1>1 DEF Drop, IInv, Owned, Types, ClientsTyped
<1>5. Client(cl[c])
  BY <1>1 DEF IInv, Owned, Types, ClientsTyped
<1>6. /\ k.phase = "gone" /\ k.out = cl[c].out /\ k.sent = cl[c].sent
      /\ k.fin = cl[c].fin /\ k.rst = cl[c].rst
  BY <1>5 DEF Client, NewClient
<1>7. c # None /\ reg[fd] # NoReg
  BY <1>1, NoneIsNothing DEF Registration, NoReg
<1>8. Prefix(k)
  BY <1>1, <1>6 DEF IInv, Delivery, Prefix
<1>9. Settled(k)
  <2>1. heap[e.data].length = 0 => Len(k.sent) = Len(k.out)
    BY <1>1, <1>5, <1>6, <1>7 DEF IInv, Delivery, Rest, Client
  <2> QED
    BY <1>6, <2>1 DEF Settled
<1> HIDE DEF fd, c, k
<1>10. /\ \A x \in Fds : x # fd => reg'[x] = reg[x] /\ sock'[x] = sock[x]
       /\ reg'[fd] = NoReg /\ sock'[fd] = None
  BY <1>1, <1>3 DEF IInv, Owned, Types, TypeOK
<1>11. \A i \in Ids : heap[i].fd \in Fds \ {fd} => heap'[i] = heap[i]
  BY <1>1, <1>3 DEF IInv, Owned, Types
<1>12. cl'[c] = k /\ \A y \in Clients : y # c => cl'[y] = cl[y]
  BY <1>1, <1>4 DEF IInv, Owned, Types, ClientsTyped
<1>13. \A x \in Fds : x # fd /\ sock[x] # None => sock[x] \in Clients /\ sock[x] # c
  BY <1>1, <1>7 DEF IInv, Owned, Types, TypeOK, Delivery, Connected, c
<1>14. Connected'
  BY <1>10, <1>12, <1>13 DEF IInv, Delivery, Connected
<1>15. \A y \in Clients : Prefix(cl'[y]) /\ Settled(cl'[y])
  BY <1>8, <1>9, <1>12 DEF IInv, Delivery
<1>16. ASSUME NEW x \in Fds, reg'[x] # NoReg
       PROVE  /\ Rest(cl'[sock'[x]], heap'[reg'[x].data])
              /\ reg'[x].ev = "IN" => heap'[reg'[x].data].length = 0
  <2>1. x # fd /\ reg'[x] = reg[x] /\ sock'[x] = sock[x] /\ reg[x] # NoReg
    BY <1>10, <1>16
  <2>2. /\ sock[x] \in Clients /\ sock[x] # None
        /\ reg[x].data \in Ids /\ heap[reg[x].data].fd = x
    BY <2>1, RegisteredValid, NoneIsNothing DEF IInv
  <2>3. cl'[sock[x]] = cl[sock[x]] /\ heap'[reg[x].data] = heap[reg[x].data]
    BY <1>11, <1>12, <1>13, <2>1, <2>2
  <2> QED
    BY <2>1, <2>3 DEF IInv, Delivery
<1>17. ASSUME NEW v \in Workers, NEW f \in batch'[v]
       PROVE  /\ "HUP" \in f.events => cl'[sock'[f.fd]].rst
              /\ "IN" \in f.events => reg'[f.fd].ev = "IN"
  <2>1. f \in batch[v] /\ f.fd # fd /\ f.fd \in Fds /\ sock[f.fd] \in Clients
    BY <1>2, EventValid DEF IInv
  <2>2. cl'[sock[f.fd]] = cl[sock[f.fd]] /\ sock'[f.fd] = sock[f.fd] /\ reg'[f.fd] = reg[f.fd]
    BY <1>10, <1>12, <1>13, <2>1, NoneIsNothing
  <2> QED
    BY <2>1, <2>2 DEF IInv, Delivery
<1> QED
  BY <1>14, <1>15, <1>16, <1>17 DEF Delivery

\* A connection stays open, with k as what it has sent and owes.
LEMMA StayDelivery ==
    ASSUME IInv, NEW w \in Workers, NEW e \in batch[w],
           NEW r \in Registration, NEW objects, Untouched(objects, e.fd),
           NEW k, k.phase = "open", Prefix(k), Rest(k, objects[r.data]),
           r.ev = "IN" => objects[r.data].length = 0,
           reg' = [reg EXCEPT ![e.fd] = r], heap' = objects, sock' = sock,
           cl' = [cl EXCEPT ![sock[e.fd]] = k],
           batch' = [batch EXCEPT ![w] = @ \ {e}]
    PROVE  Delivery'
<1> DEFINE fd == e.fd
           c  == sock[fd]
<1>1. fd \in Fds /\ c \in Clients /\ reg[fd] \in Registration
  BY EventValid DEF IInv
<1>2. /\ \A v \in Workers : batch'[v] \subseteq batch[v]
      /\ \A v \in Workers : \A f \in batch'[v] : f.fd # fd
  BY RestOfBatches DEF IInv
<1>3. \A i \in Ids : heap[i].fd \in Fds \ {fd} => heap'[i] = heap[i]
  BY DEF Untouched
<1>4. (\A x \in Fds : x # fd => reg'[x] = reg[x]) /\ reg'[fd] = r
  BY <1>1 DEF IInv, Owned, Types
<1>5. cl'[c] = k /\ \A y \in Clients : y # c => cl'[y] = cl[y]
  BY <1>1 DEF IInv, Owned, Types, ClientsTyped
<1>6. c # None
  BY <1>1, NoneIsNothing
<1> HIDE DEF fd, c
<1>7. \A x \in Fds : x # fd /\ sock[x] # None => sock[x] \in Clients /\ sock[x] # c
  BY <1>1, <1>6 DEF IInv, Owned, Types, TypeOK, Delivery, Connected, c
<1>8. Connected'
  BY <1>5, <1>7 DEF IInv, Delivery, Connected, c
<1>9. \A y \in Clients : Prefix(cl'[y]) /\ Settled(cl'[y])
  BY <1>5 DEF IInv, Delivery, Settled
<1>10. ASSUME NEW x \in Fds, reg'[x] # NoReg
       PROVE  /\ Rest(cl'[sock'[x]], heap'[reg'[x].data])
              /\ reg'[x].ev = "IN" => heap'[reg'[x].data].length = 0
  <2>1. CASE x = fd
    BY <1>4, <1>5, <2>1 DEF c
  <2>2. CASE x # fd
    <3>1. reg'[x] = reg[x] /\ reg[x] # NoReg
      BY <1>4, <1>10, <2>2
    <3>2. /\ sock[x] \in Clients /\ sock[x] # None
          /\ reg[x].data \in Ids /\ heap[reg[x].data].fd = x
      BY <3>1, RegisteredValid, NoneIsNothing DEF IInv
    <3>3. cl'[sock[x]] = cl[sock[x]] /\ heap'[reg[x].data] = heap[reg[x].data]
      BY <1>3, <1>5, <1>7, <2>2, <3>2
    <3> QED
      BY <3>1, <3>3 DEF IInv, Delivery
  <2> QED
    BY <2>1, <2>2
<1>11. ASSUME NEW v \in Workers, NEW f \in batch'[v]
       PROVE  /\ "HUP" \in f.events => cl'[sock'[f.fd]].rst
              /\ "IN" \in f.events => reg'[f.fd].ev = "IN"
  <2>1. f \in batch[v] /\ f.fd # fd /\ f.fd \in Fds /\ sock[f.fd] \in Clients
    BY <1>2, EventValid DEF IInv
  <2>2. cl'[sock[f.fd]] = cl[sock[f.fd]] /\ reg'[f.fd] = reg[f.fd]
    BY <1>4, <1>5, <1>7, <2>1, NoneIsNothing
  <2> QED
    BY <2>1, <2>2 DEF IInv, Delivery
<1> QED
  BY <1>8, <1>9, <1>10, <1>11 DEF Delivery

-----------------------------------------------------------------------------
(* The handlers.                                                           *)

\* What holds of the connection of an event that is about to be handled.
LEMMA ConnectionOf ==
    ASSUME IInv, NEW w \in Workers, NEW e \in batch[w]
    PROVE  LET k == cl[sock[e.fd]]
           IN  /\ Client(k) /\ k.phase = "open" /\ Prefix(k)
               /\ Rest(k, heap[e.data])
               /\ reg[e.fd].ev = "IN" => heap[e.data].length = 0
<1>1. /\ e.fd \in Fds /\ sock[e.fd] \in Clients /\ reg[e.fd].data = e.data
      /\ reg[e.fd] \in Registration
  BY EventValid DEF IInv
<1>2. sock[e.fd] # None /\ reg[e.fd] # NoReg
  BY <1>1, NoneIsNothing DEF Registration, NoReg
<1>3. Client(cl[sock[e.fd]])
  BY <1>1 DEF IInv, Owned, Types, ClientsTyped
<1> QED
  BY <1>1, <1>2, <1>3 DEF IInv, Delivery, Connected

\* Closing a connection and freeing its object.
LEMMA DropIInv ==
    ASSUME IInv, NEW w \in Workers, NEW e \in batch[w],
           Drop(w, e.fd, e.data), batch' = [batch EXCEPT ![w] = @ \ {e}],
           UNCHANGED <<conf, worker_idx>>,
           \/ cl[sock[e.fd]].fin \/ cl[sock[e.fd]].rst
           \/ heap[e.data].length = 0
    PROVE  IInv'
BY DropOwned, DropDelivery DEF IInv

\* Re-arming a connection with another object or event.
LEMMA ModifyIInv ==
    ASSUME IInv, NEW w \in Workers, NEW e \in batch[w], NEW ev \in {"IN", "OUT"},
           NEW d \in Ids, NEW objects, Untouched(objects, e.fd), objects[d].fd = e.fd,
           NEW k, Client(k), k.phase = "open", Prefix(k), Rest(k, objects[d]),
           ev = "IN" => objects[d].length = 0,
           Modify(w, e.fd, ev, d, k, objects),
           batch' = [batch EXCEPT ![w] = @ \ {e}], UNCHANGED <<conf, worker_idx>>
    PROVE  IInv'
<1>1. Owned'
  BY ModifyOwned DEF IInv
<1>2. Delivery'
  <2> DEFINE r == [worker |-> w, ev |-> ev, data |-> d]
             p == Polled(k, ev)
  <2>1. r \in Registration /\ r.data = d /\ r.ev = ev
    BY DEF Registration
  <2>2. /\ reg' = [reg EXCEPT ![e.fd] = r] /\ heap' = objects /\ sock' = sock
        /\ cl' = [cl EXCEPT ![sock[e.fd]] = p]
    BY DEF Modify, Arm
  <2>3. p.out = k.out /\ p.sent = k.sent /\ p.phase = "open"
    BY PolledClient
  <2> HIDE DEF r, p
  <2>4. Prefix(p) /\ Rest(p, objects[d])
    BY <2>3 DEF Prefix, Rest
  <2> QED
    BY <2>1, <2>2, <2>3, <2>4, StayDelivery
<1> QED
  BY <1>1, <1>2 DEF IInv

\* A handler that returns without re-arming.
LEMMA YieldIInv ==
    ASSUME IInv, NEW w \in Workers, NEW e \in batch[w],
           NEW objects, Untouched(objects, e.fd), objects[e.data].fd = e.fd,
           NEW k, Client(k), k.phase = "open", Prefix(k), Rest(k, objects[e.data]),
           reg[e.fd].ev = "IN" => objects[e.data].length = 0,
           JustYield(e.fd, k, objects),
           batch' = [batch EXCEPT ![w] = @ \ {e}], UNCHANGED <<conf, worker_idx>>
    PROVE  IInv'
<1>1. Owned'
  BY YieldOwned DEF IInv
<1>2. Delivery'
  <2>1. e.fd \in Fds /\ reg[e.fd] \in Registration /\ reg[e.fd].data = e.data
    BY EventValid DEF IInv
  <2>2. /\ reg' = [reg EXCEPT ![e.fd] = reg[e.fd]] /\ heap' = objects /\ sock' = sock
        /\ cl' = [cl EXCEPT ![sock[e.fd]] = k]
    BY <2>1 DEF JustYield, IInv, Owned, Types
  <2> QED
    BY <2>1, <2>2, StayDelivery
<1> QED
  BY <1>1, <1>2 DEF IInv

\* The answer HandleRequestData makes.
LEMMA AnswerType ==
    ASSUME NEW text, NEW known
    PROVE  LET res == HandleRequestData(text, known)
           IN  /\ res.status \in Nat /\ res.keep_alive \in BOOLEAN
               /\ res.parts \in Seq({"head", "body"})
<1>1. \A error : StatusOf(error) \in Nat
  BY DEF StatusOf
<1>2. \A req : HandleRequestMessage(req, known) \in Nat
  BY <1>1 DEF HandleRequestMessage
<1>3. HandleRequestData(text, known).status \in Nat
  BY <1>1, <1>2 DEF HandleRequestData
<1>4. HandleRequestData(text, known).parts \in Seq({"head", "body"})
  <2>1. <<"head">> \in Seq({"head", "body"}) /\ <<"head", "body">> \in Seq({"head", "body"})
    OBVIOUS
  <2>2. HandleRequestData(text, known).parts \in {<<"head">>, <<"head", "body">>}
    BY Zenon DEF HandleRequestData
  <2> QED
    BY <2>1, <2>2, Zenon
<1>5. HandleRequestData(text, known).keep_alive \in BOOLEAN
  <2> DEFINE req == FromString(text)
  <2>1. HandleRequestData(text, known).keep_alive = (GetHeader(req, "Connection") = "keep-alive")
    BY Zenon DEF HandleRequestData
  <2> HIDE DEF req
  <2>2. (GetHeader(req, "Connection") = "keep-alive") \in BOOLEAN
    BY ZenonT(60)
  <2> QED
    BY <2>1, <2>2, Zenon
<1> QED
  BY <1>3, <1>4, <1>5

\* HandleRead: the response takes over what is owed, and nothing was owed
\* before, because the object that was read into is a request.
LEMMA ReadIInv ==
    ASSUME IInv, NEW w \in Workers, NEW e \in batch[w], "IN" \in e.events,
           HandleRead(w, e.data),
           batch' = [batch EXCEPT ![w] = @ \ {e}], UNCHANGED <<conf, worker_idx>>
    PROVE  IInv'
<1> DEFINE fd  == heap[e.data].fd
           k   == cl[sock[fd]]
           res == HandleRequestData(k.rx, handlers)
           buf == [i \in 1 .. Len(res.parts) |-> <<Len(k.answers) + 1, res.parts[i]>>]
           ans == [status |-> res.status, keep_alive |-> res.keep_alive,
                   whole |-> IF handlers = Handlers /\ k.rx = k.ask.text
                             THEN k.ask ELSE None,
                   left |-> e.data]
           response == [EventData(fd) EXCEPT !.buf = buf, !.length = Len(buf),
                                             !.keep_alive = res.keep_alive]
           new == New(fd, heap)
           next == [k EXCEPT !.rx = <<>>, !.answers = Append(@, ans), !.out = @ \o buf]
           objects == [heap EXCEPT ![new] = response]
<1>1. fd \in Fds /\ e.data \in Ids /\ fd = e.fd
  BY EventValid DEF IInv
<1>2. reg[fd].ev = "IN"
  BY <1>1 DEF IInv, Delivery
<1>3. /\ Client(k) /\ k.phase = "open" /\ Prefix(k)
      /\ Rest(k, heap[e.data]) /\ heap[e.data].length = 0
  BY <1>1, <1>2, ConnectionOf
<1>4. Untouched(heap, fd)
  BY <1>1, HeapUntouched DEF IInv
<1>5. CASE FreeData(fd, heap) # {} /\ Modify(w, fd, "OUT", new, next, objects)
  <2>1. new \in Ids /\ new[1] = fd /\ heap[new] = Freed
    BY <1>1, <1>5, NewIsFree
  <2>2. /\ res.status \in Nat /\ res.keep_alive \in BOOLEAN
        /\ res.parts \in Seq({"head", "body"})
    BY AnswerType, SMTT(40)
  <2>3. k.answers \in Seq(Answer) /\ Len(k.answers) \in Nat /\ k.ask \in Asked
    BY <1>3, LenProperties DEF Client
  <2> HIDE DEF fd, k, res, new
  <2>4. buf \in Seq(Part) /\ Len(buf) \in Nat
    <3>1. Len(res.parts) \in Nat /\ \A i \in 1 .. Len(res.parts) : res.parts[i] \in {"head", "body"}
      BY <2>2
    <3>2. buf \in [1 .. Len(res.parts) -> Part]
      BY <2>3, <3>1 DEF Part
    <3> HIDE DEF buf
    <3>3. buf \in Seq(Part)
      BY <3>1, <3>2, SeqDef
    <3> QED
      BY <3>3, LenProperties
  <2>5. ans \in Answer
    BY <1>1, <2>2, <2>3 DEF Answer, Asked
  <2> HIDE DEF ans, buf
  <2>6. /\ response \in Object /\ response.fd = fd /\ response.cursor = 0
        /\ response.length = Len(buf) /\ response.buf = buf
    <3>1. EventData(fd) \in Fields /\ EventData(fd).fd = fd /\ EventData(fd).cursor = 0
      BY <1>1, EventDataType DEF Object
    <3>2. /\ response \in Fields /\ response.fd = fd /\ response.cursor = 0
          /\ response.length = Len(buf) /\ response.buf = buf
      BY <2>2, <2>4, <3>1 DEF Fields
    <3> HIDE DEF response
    <3> QED
      BY <2>4, <3>2 DEF Object
  <2> HIDE DEF response
  <2>7. /\ next.out = k.out \o buf /\ next.sent = k.sent /\ next.phase = "open"
        /\ next.answers = Append(k.answers, ans) /\ next.ask = k.ask
        /\ next.got = k.got /\ DOMAIN next = DOMAIN NewClient
    BY <1>3 DEF Client, NewClient
  <2> HIDE DEF next
  <2>8. /\ next.out \in Seq(Part) /\ Len(next.out) = Len(k.out) + Len(buf)
        /\ \A i \in 1 .. Len(k.out) + Len(buf) :
              next.out[i] = IF i <= Len(k.out) THEN k.out[i] ELSE buf[i - Len(k.out)]
    BY <1>3, <2>4, <2>7, ConcatProperties DEF Client
  <2>9. Client(next)
    BY <1>3, <2>3, <2>5, <2>7, <2>8, AppendProperties DEF Client
  <2>10. Len(k.sent) = Len(k.out) /\ Len(k.sent) \in Nat
    BY <1>3, LenProperties DEF Rest, Client
  <2>11. Prefix(next)
    BY <1>3, <2>4, <2>7, <2>8, <2>10 DEF Prefix
  <2>12. Rest(next, response)
    <3>1. Len(next.sent) + response.length = Len(next.out)
      BY <2>4, <2>6, <2>7, <2>8, <2>10
    <3>2. ASSUME NEW i \in 1 .. response.length
          PROVE  next.out[Len(next.sent) + i] = response.buf[response.cursor + i]
      BY <2>4, <2>6, <2>7, <2>8, <2>10
    <3> QED
      BY <3>1, <3>2 DEF Rest
  <2>13. Untouched(objects, fd) /\ objects[new] = response
    BY <1>1, <2>1, <2>6, HeapUntouched DEF IInv, Owned, Types
  <2> HIDE DEF objects
  <2> QED
    BY <1>1, <1>5, <2>1, <2>6, <2>7, <2>9, <2>11, <2>12, <2>13, ModifyIInv
<1>6. CASE (k.fin \/ k.rst) /\ Drop(w, fd, e.data)
  BY <1>1, <1>6, DropIInv
<1>7. CASE JustYield(fd, k, heap)
  BY <1>1, <1>3, <1>4, <1>7, YieldIInv
<1>8. CASE Modify(w, fd, "IN", e.data, k, heap)
  BY <1>1, <1>3, <1>4, <1>8, ModifyIInv
<1> QED
  <2>1. \/ FreeData(fd, heap) # {} /\ Modify(w, fd, "OUT", new, next, objects)
        \/ (k.fin \/ k.rst) /\ Drop(w, fd, e.data)
        \/ JustYield(fd, k, heap)
        \/ Modify(w, fd, "IN", e.data, k, heap)
    BY Zenon DEF HandleRead
  <2> QED
    BY <1>5, <1>6, <1>7, <1>8, <2>1

\* The connection's next request takes the place of the response that is done.
LEMMA KeepAliveIInv ==
    ASSUME IInv, NEW w \in Workers, NEW e \in batch[w], heap[e.data].length = 0,
           KeepAlive(w, e.fd, e.data),
           batch' = [batch EXCEPT ![w] = @ \ {e}], UNCHANGED <<conf, worker_idx>>
    PROVE  IInv'
<1> DEFINE fd == e.fd
           d  == e.data
           k  == cl[sock[fd]]
           deleted == [heap EXCEPT ![d] = Freed]
           request == New(fd, deleted)
           objects == [deleted EXCEPT ![request] = EventData(fd)]
<1>1. fd \in Fds /\ d \in Ids /\ heap[d].fd = fd
  BY EventValid DEF IInv
<1>2. Client(k) /\ k.phase = "open" /\ Prefix(k) /\ Rest(k, heap[d])
  BY ConnectionOf
<1>3. /\ heap \in [Ids -> Object]
      /\ \A i \in Ids : heap[i] # Freed => heap[i].fd = i[1]
  BY DEF IInv, Owned, Types, Ownership
<1>4. Freed \in Object /\ Freed.fd = None /\ EventData(fd) \in Object
      /\ EventData(fd).fd = fd /\ EventData(fd).length = 0
  BY <1>1, EventDataType DEF Freed
<1>5. d[1] = fd /\ d[2] \in 1 .. MaxData /\ d = <<fd, d[2]>>
  <2>1. d[1] = fd
    BY <1>1, <1>3, <1>4, NoneIsNothing
  <2> QED
    BY <1>1, <2>1 DEF Ids
<1>6. deleted \in [Ids -> Object] /\ deleted[d] = Freed
  BY <1>1, <1>3, <1>4
<1> HIDE DEF d
<1>7. FreeData(fd, deleted) # {}
  <2>1. d[2] \in FreeData(fd, deleted)
    BY <1>5, <1>6 DEF FreeData
  <2> QED
    BY <2>1
<1>8. request \in Ids /\ request[1] = fd /\ deleted[request] = Freed
  BY <1>1, <1>7, NewIsFree
<1>9. Untouched(objects, fd) /\ objects[request] = EventData(fd)
  <2> HIDE DEF fd, request
  <2>1. objects \in [Ids -> Object] /\ objects[request] = EventData(fd)
    BY <1>4, <1>6, <1>8
  <2>2. ASSUME NEW i \in Ids, objects[i] # Freed PROVE objects[i].fd = i[1]
    BY <1>3, <1>4, <1>6, <1>8, <2>2
  <2>3. ASSUME NEW i \in Ids, heap[i].fd \in Fds \ {fd} PROVE objects[i] = heap[i]
    <3>1. i # d /\ i # request
      BY <1>1, <1>3, <1>4, <1>8, <2>3, NoneIsNothing
    <3> QED
      BY <1>3, <1>6, <3>1
  <2> QED
    BY <2>1, <2>2, <2>3 DEF Untouched
<1>10. Rest(k, EventData(fd))
  BY <1>2, <1>4 DEF Rest, d
<1>11. Modify(w, fd, "IN", request, k, objects)
  BY Zenon DEF KeepAlive, d
<1> HIDE DEF request, objects, k
<1> QED
  BY <1>2, <1>4, <1>8, <1>9, <1>10, <1>11, ModifyIInv, ZenonT(60)

\* The cursor moves inside the buffer.
LEMMA AdvanceObject ==
    ASSUME NEW o \in Object, NEW n \in 1 .. o.length
    PROVE  /\ Advance(o, n) \in Object /\ Advance(o, n).fd = o.fd
           /\ Advance(o, n).cursor = o.cursor + n
           /\ Advance(o, n).length = o.length - n /\ Advance(o, n).buf = o.buf
<1> DEFINE at   == o.cursor + n
           left == o.length - n
<1>1. /\ o \in Fields /\ o.cursor \in Nat /\ o.length \in Nat
      /\ o.cursor + o.length = Len(o.buf)
  BY DEF Object, Fields
<1>2. at \in Nat /\ left \in Nat /\ at + left = Len(o.buf)
  BY <1>1
<1>3. Advance(o, n) = [o EXCEPT !.cursor = at, !.length = left]
  BY Zenon DEF Advance
<1>4. Advance(o, n).cursor = at /\ Advance(o, n).length = left
  <2> HIDE DEF at, left
  <2> QED
    BY <1>1, <1>3 DEF Fields
<1>5. /\ Advance(o, n) \in Fields /\ Advance(o, n).fd = o.fd
      /\ Advance(o, n).buf = o.buf
  <2> HIDE DEF at, left
  <2> QED
    BY <1>1, <1>2, <1>3 DEF Fields
<1>6. Advance(o, n) \in Object
  BY <1>2, <1>4, <1>5 DEF Object
<1> QED
  BY <1>4, <1>5, <1>6

\* send takes the parts at the cursor, and the cursor moves behind them.
LEMMA SendTookIInv ==
    ASSUME IInv, NEW w \in Workers, NEW e \in batch[w],
           NEW n \in 1 .. heap[e.data].length, SendTook(w, e.fd, e.data, n),
           batch' = [batch EXCEPT ![w] = @ \ {e}], UNCHANGED <<conf, worker_idx>>
    PROVE  IInv'
<1> DEFINE fd   == e.fd
           d    == e.data
           k    == cl[sock[fd]]
           o    == heap[d]
           took == SubSeq(heap[d].buf, heap[d].cursor + 1, heap[d].cursor + n)
           next == [k EXCEPT !.sent = @ \o took, !.nospace = @ \/ n < heap[d].length]
           left == Advance(heap[d], n)
           objects == [heap EXCEPT ![d] = left]
<1>1. fd \in Fds /\ d \in Ids /\ o.fd = fd /\ o \in Object
  BY EventValid DEF IInv
<1>2. /\ Client(k) /\ k.phase = "open" /\ Prefix(k) /\ Rest(k, o)
      /\ reg[fd].ev = "IN" => o.length = 0
  BY ConnectionOf
<1>3. /\ o \in Fields /\ o.cursor \in Nat /\ o.length \in Nat /\ o.buf \in Seq(Part)
      /\ o.cursor + o.length = Len(o.buf) /\ n \in Nat /\ 1 <= n /\ n <= o.length
  BY <1>1 DEF Object, Fields
<1> HIDE DEF o
<1>4. /\ took \in Seq(Part) /\ Len(took) = n
      /\ \A i \in 1 .. n : took[i] = o.buf[o.cursor + i]
  <2>1. \A i \in o.cursor + 1 .. o.cursor + n : o.buf[i] \in Part
    BY <1>3
  <2>2. took = SubSeq(o.buf, o.cursor + 1, o.cursor + n)
    BY DEF o
  <2>3. /\ took \in Seq(Part)
        /\ Len(took) = IF o.cursor + 1 <= o.cursor + n
                       THEN (o.cursor + n) - (o.cursor + 1) + 1 ELSE 0
        /\ \A i \in 1 .. (o.cursor + n) - (o.cursor + 1) + 1 :
              took[i] = o.buf[(o.cursor + 1) + i - 1]
    <3> HIDE DEF took
    <3>1. o.cursor + 1 \in Int /\ o.cursor + n \in Int
      BY <1>3
    <3> QED
      BY <2>1, <2>2, <3>1, SubSeqProperties
  <2> HIDE DEF took
  <2>4. Len(took) = n
    BY <1>3, <2>3
  <2>5. ASSUME NEW i \in 1 .. n PROVE took[i] = o.buf[o.cursor + i]
    <3>1. (o.cursor + 1) + i - 1 = o.cursor + i /\ i \in 1 .. (o.cursor + n) - (o.cursor + 1) + 1
      BY <1>3
    <3> QED
      BY <2>3, <3>1
  <2> QED
    BY <2>3, <2>4, <2>5
<1>5. /\ left \in Object /\ left.fd = fd /\ left.cursor = o.cursor + n
      /\ left.length = o.length - n /\ left.buf = o.buf
  <2>1. left = Advance(o, n)
    BY Zenon DEF o
  <2>2. n \in 1 .. o.length
    BY <1>3
  <2> HIDE DEF left
  <2> QED
    BY <1>1, <2>1, <2>2, AdvanceObject
<1> HIDE DEF took
<1>6. /\ next.sent = k.sent \o took /\ next.out = k.out /\ next.phase = "open"
      /\ next.answers = k.answers /\ next.ask = k.ask /\ next.got = k.got
      /\ DOMAIN next = DOMAIN NewClient
  BY <1>2 DEF Client, NewClient
<1> HIDE DEF left, next, k
<1>7. /\ next.sent \in Seq(Part) /\ Len(next.sent) = Len(k.sent) + n
      /\ \A i \in 1 .. Len(k.sent) + n :
            next.sent[i] = IF i <= Len(k.sent) THEN k.sent[i] ELSE took[i - Len(k.sent)]
  <2>1. k.sent \in Seq(Part)
    BY <1>2 DEF Client
  <2>2. /\ k.sent \o took \in Seq(Part) /\ Len(k.sent \o took) = Len(k.sent) + Len(took)
        /\ \A i \in 1 .. Len(k.sent) + Len(took) :
              (k.sent \o took)[i] =
                IF i <= Len(k.sent) THEN k.sent[i] ELSE took[i - Len(k.sent)]
    BY <1>4, <2>1, ConcatProperties
  <2> QED
    BY <1>4, <1>6, <2>2
<1>8. Len(k.sent) \in Nat /\ Len(k.out) \in Nat /\ k.got \in 0 .. Len(k.sent)
  BY <1>2, LenProperties DEF Client
<1>9. Client(next)
  BY <1>2, <1>3, <1>6, <1>7, <1>8 DEF Client
<1>10. Prefix(next)
  <2>1. Len(next.sent) <= Len(next.out)
    BY <1>2, <1>3, <1>6, <1>7, <1>8 DEF Rest
  <2>2. ASSUME NEW i \in 1 .. Len(next.sent) PROVE next.sent[i] = next.out[i]
    <3>1. CASE i <= Len(k.sent)
      BY <1>2, <1>6, <1>7, <1>8, <3>1 DEF Prefix
    <3>2. CASE ~(i <= Len(k.sent))
      <4>1. i - Len(k.sent) \in 1 .. n /\ i - Len(k.sent) \in 1 .. o.length
            /\ Len(k.sent) + (i - Len(k.sent)) = i
        BY <1>3, <1>7, <1>8, <3>2, SMTT(40)
      <4>2. k.out[i] = o.buf[o.cursor + (i - Len(k.sent))]
        BY <1>2, <4>1 DEF Rest
      <4> QED
        BY <1>4, <1>6, <1>7, <3>2, <4>1, <4>2
    <3> QED
      BY <3>1, <3>2
  <2> QED
    BY <2>1, <2>2 DEF Prefix
<1>11. Rest(next, left)
  <2>1. Len(next.sent) + left.length = Len(next.out)
    BY <1>2, <1>3, <1>5, <1>6, <1>7, <1>8 DEF Rest
  <2>2. ASSUME NEW i \in 1 .. left.length
        PROVE  next.out[Len(next.sent) + i] = left.buf[left.cursor + i]
    <3>1. i \in Nat /\ 1 <= i /\ i <= o.length - n
      BY <1>3, <1>5
    <3>2. n + i \in 1 .. o.length /\ Len(next.sent) + i = Len(k.sent) + (n + i)
          /\ left.cursor + i = o.cursor + (n + i)
      <4>1. n + i \in 1 .. o.length
        BY <1>3, <3>1
      <4>2. Len(next.sent) + i = Len(k.sent) + (n + i)
        <5>1. Len(next.sent) = Len(k.sent) + n
          BY <1>7
        <5>2. Len(k.sent) \in Nat /\ n \in Nat
          BY <1>3, <1>8
        <5>3. ASSUME NEW a, NEW b \in Nat, NEW j \in Nat, a = b + n, n \in Nat
              PROVE  a + j = b + (n + j)
          BY <5>3
        <5>4. i \in Nat
          BY <3>1
        <5> QED
          BY <5>1, <5>2, <5>3, <5>4
      <4>3. left.cursor + i = o.cursor + (n + i)
        BY <1>3, <1>5, <3>1
      <4> QED
        BY <4>1, <4>2, <4>3
    <3>3. k.out[Len(k.sent) + (n + i)] = o.buf[o.cursor + (n + i)]
      BY <1>2, <3>2 DEF Rest
    <3> QED
      BY <1>5, <1>6, <3>2, <3>3
  <2> QED
    BY <2>1, <2>2 DEF Rest
<1>12. Untouched(objects, fd) /\ objects[d] = left
  <2>1. d[1] = fd /\ heap[d].fd = fd
    BY <1>1, NoneIsNothing, EventDataType DEF IInv, Owned, Ownership, o, Freed
  <2> QED
    BY <1>1, <1>5, <2>1, HeapUntouched DEF IInv, Owned, Types
<1>13. JustYield(fd, next, objects) \/ Modify(w, fd, "OUT", d, next, objects)
  BY Zenon DEF SendTook, took, next, left, k
<1>14. reg[fd].ev # "IN"
  BY <1>2, <1>3
<1> HIDE DEF objects
<1>15. CASE JustYield(fd, next, objects)
  BY <1>5, <1>6, <1>9, <1>10, <1>11, <1>12, <1>14, <1>15, YieldIInv
<1>16. CASE Modify(w, fd, "OUT", d, next, objects)
  BY <1>1, <1>5, <1>6, <1>9, <1>10, <1>11, <1>12, <1>16, ModifyIInv
<1> QED
  BY <1>13, <1>15, <1>16

\* HandleWrite preserves IInv.
LEMMA WriteIInv ==
    ASSUME IInv, NEW w \in Workers, NEW e \in batch[w], HandleWrite(w, e.data),
           batch' = [batch EXCEPT ![w] = @ \ {e}], UNCHANGED <<conf, worker_idx>>
    PROVE  IInv'
<1> DEFINE fd   == heap[e.data].fd
           k    == cl[sock[fd]]
           left == heap[e.data].length
           n    == Min({Space(k), left})
           full == [k EXCEPT !.nospace = TRUE]
<1>1. fd \in Fds /\ e.data \in Ids /\ fd = e.fd /\ left \in Nat
  BY EventValid DEF IInv, Object, Fields
<1>2. /\ Client(k) /\ k.phase = "open" /\ Prefix(k) /\ Rest(k, heap[e.data])
      /\ reg[fd].ev = "IN" => heap[e.data].length = 0
  BY <1>1, ConnectionOf
<1>3. Untouched(heap, fd)
  BY <1>1, HeapUntouched DEF IInv
<1>4. \/ (k.rst \/ left = 0) /\ Drop(w, fd, e.data)
      \/ left = 0 /\ KeepAlive(w, fd, e.data)
      \/ left # 0 /\ Space(k) > 0 /\ SendTook(w, fd, e.data, n)
      \/ JustYield(fd, full, heap)
      \/ Modify(w, fd, "OUT", e.data, k, heap)
  BY Zenon DEF HandleWrite
<1>5. CASE (k.rst \/ left = 0) /\ Drop(w, fd, e.data)
  BY <1>1, <1>5, DropIInv
<1>6. CASE left = 0 /\ KeepAlive(w, fd, e.data)
  BY <1>1, <1>6, KeepAliveIInv
<1>7. CASE left # 0 /\ Space(k) > 0 /\ SendTook(w, fd, e.data, n)
  <2>1. Space(k) \in Int
    <3>1. Len(k.sent) \in Nat /\ k.got \in 0 .. Len(k.sent)
      BY <1>2, LenProperties DEF Client
    <3> QED
      BY <3>1, HttpAssumption, SMTT(40) DEF Space
  <2>2. {Space(k), left} \in SUBSET Nat
    BY <1>1, <1>7, <2>1
  <2>3. n \in {Space(k), left} /\ n <= left
    BY <2>2, MinIsLeast
  <2>4. n \in 1 .. left
    BY <1>1, <1>7, <2>1, <2>3
  <2> HIDE DEF n
  <2> QED
    BY <1>1, <1>7, <2>4, SendTookIInv
<1>8. CASE JustYield(fd, full, heap)
  <2>1. Client(full) /\ full.phase = "open" /\ full.out = k.out /\ full.sent = k.sent
    BY <1>2, ZenonT(60) DEF Client, NewClient
  <2>2. Prefix(full) /\ Rest(full, heap[e.data])
    BY <1>2, <2>1 DEF Prefix, Rest
  <2> QED
    BY <1>1, <1>2, <1>3, <1>8, <2>1, <2>2, YieldIInv, ZenonT(60)
<1>9. CASE Modify(w, fd, "OUT", e.data, k, heap)
  BY <1>1, <1>2, <1>3, <1>9, ModifyIInv
<1> QED
  BY <1>4, <1>5, <1>6, <1>7, <1>8, <1>9

-----------------------------------------------------------------------------
(* Every step.                                                             *)

\* What an event of a batch asks for: HUP only of a connection that was reset,
\* and what is closed then owes nothing to anybody.
LEMMA HandleEventIInv ==
    ASSUME IInv, NEW w \in Workers, NEW e \in batch[w], HandleEvent(w, e)
    PROVE  IInv'
<1>1. heap[e.data].fd = e.fd
  BY EventValid DEF IInv
<1>2. batch' = [batch EXCEPT ![w] = @ \ {e}] /\ UNCHANGED <<conf, worker_idx>>
  BY DEF HandleEvent
<1>3. CASE "HUP" \in e.events
  <2>1. cl[sock[e.fd]].rst
    BY <1>3 DEF IInv, Delivery
  <2>2. Drop(w, e.fd, e.data)
    BY <1>1, <1>3 DEF HandleEvent
  <2> QED
    BY <1>2, <2>1, <2>2, DropIInv
<1>4. CASE "HUP" \notin e.events /\ "IN" \in e.events
  <2>1. HandleRead(w, e.data)
    BY <1>4 DEF HandleEvent
  <2> QED
    BY <1>2, <1>4, <2>1, ReadIInv
<1>5. CASE "HUP" \notin e.events /\ "IN" \notin e.events
  <2>1. HandleWrite(w, e.data)
    BY <1>5 DEF HandleEvent
  <2> QED
    BY <1>2, <2>1, WriteIInv
<1> QED
  BY <1>3, <1>4, <1>5

\* A client changes its end of the connection: not what is owed or was sent.
LEMMA ClientStepIInv ==
    ASSUME IInv, NEW c \in Clients, NEW k, NEW wake \in SUBSET Fds,
           ClientStep(c, k, wake), Client(k),
           k.out = cl[c].out, k.sent = cl[c].sent,
           k.phase = cl[c].phase \/ (cl[c].phase = "new" /\ k.phase = "pending"),
           cl[c].fin => k.fin, cl[c].rst => k.rst
    PROVE  IInv'
<1>1. cl' = [cl EXCEPT ![c] = k] /\ rdlist' \subseteq Fds
  BY DEF ClientStep, IInv, Owned, Types, TypeOK
<1>2. UNCHANGED <<conf, worker_idx, sock, reg, batch, heap, fault>>
  BY DEF ClientStep
<1>3. cl'[c] = k /\ \A y \in Clients : y # c => cl'[y] = cl[y]
  BY <1>1 DEF IInv, Owned, Types, ClientsTyped
<1>4. ClientsTyped'
  BY <1>1, ClientUpdate DEF IInv, Owned, Types
<1>5. TypeOK'
  BY <1>1, <1>2 DEF conf, IInv, Owned, Types, TypeOK
<1>6. Ownership'
  BY <1>2 DEF IInv, Owned, Ownership, PointersValid
<1>7. Owned'
  BY <1>2, <1>4, <1>5, <1>6 DEF IInv, Owned, Types, EpollCtlNeverFails
<1>8. /\ \A y \in Clients : cl'[y].out = cl[y].out /\ cl'[y].sent = cl[y].sent
      /\ \A y \in Clients : cl[y].rst => cl'[y].rst
      /\ \A y \in Clients : cl[y].phase = "open" => cl'[y].phase = "open"
  BY <1>3
<1>9. Connected'
  <2>1. \A fd \in Fds : sock[fd] # None => sock[fd] \in Clients
    BY DEF IInv, Owned, Types, TypeOK
  <2> QED
    BY <1>2, <1>8, <2>1 DEF IInv, Delivery, Connected
<1>10. \A y \in Clients : Prefix(cl'[y])
  BY <1>8, ZenonT(60) DEF IInv, Delivery, Prefix
<1>11. \A y \in Clients : Settled(cl'[y])
  <2>1. Settled(k)
    BY DEF IInv, Delivery, Settled
  <2> QED
    BY <1>3, <2>1 DEF IInv, Delivery
<1>12. ASSUME NEW fd \in Fds, reg'[fd] # NoReg
       PROVE  /\ Rest(cl'[sock'[fd]], heap'[reg'[fd].data])
              /\ reg'[fd].ev = "IN" => heap'[reg'[fd].data].length = 0
  <2>1. sock[fd] \in Clients
    BY <1>2, <1>12, RegisteredValid DEF IInv
  <2> QED
    BY <1>2, <1>8, <1>12, <2>1, ZenonT(60) DEF IInv, Delivery, Rest
<1>13. ASSUME NEW v \in Workers, NEW f \in batch'[v]
       PROVE  /\ "HUP" \in f.events => cl'[sock'[f.fd]].rst
              /\ "IN" \in f.events => reg'[f.fd].ev = "IN"
  <2>1. f \in batch[v] /\ sock[f.fd] \in Clients
    BY <1>2, EventValid DEF IInv
  <2> QED
    BY <1>2, <1>8, <2>1 DEF IInv, Delivery
<1> QED
  BY <1>7, <1>9, <1>10, <1>11, <1>12, <1>13 DEF IInv, Delivery

\* What the clients do preserves IInv.
LEMMA ClientIInv ==
    ASSUME IInv, NEW c \in Clients,
           \/ ClientConnect(c)
           \/ \E r \in Requests[c] : \E n \in r.cuts \cup {Len(r.text)} : ClientAsk(c, r, n)
           \/ ClientSend(c) \/ ClientRecv(c) \/ ClientClose(c) \/ ClientReset(c)
    PROVE  IInv'
<1>1. Client(cl[c]) /\ \A evs : Woken(c, evs) \in SUBSET Fds /\ {} \in SUBSET Fds
  BY DEF IInv, Owned, Types, ClientsTyped, Woken, FdsOf
<1>2. CASE ClientConnect(c)
  <2> DEFINE k == [cl[c] EXCEPT !.phase = "pending"]
  <2>1. /\ Client(k) /\ k.out = cl[c].out /\ k.sent = cl[c].sent /\ k.phase = "pending"
        /\ k.fin = cl[c].fin /\ k.rst = cl[c].rst
    BY <1>1 DEF Client, NewClient
  <2>2. cl[c].phase = "new" /\ ClientStep(c, k, {})
    BY <1>2 DEF ClientConnect
  <2> HIDE DEF k
  <2> QED
    BY <1>1, <2>1, <2>2, ClientStepIInv
<1>3. ASSUME NEW r \in Requests[c], NEW n, ClientAsk(c, r, n) PROVE IInv'
  <2> DEFINE j == [cl[c] EXCEPT !.ask = r, !.asked = @ + 1, !.todo = r.text]
             k == [j EXCEPT !.rx = @ \o SubSeq(j.todo, 1, n),
                            !.todo = SubSeq(@, n + 1, Len(@))]
  <2>1. /\ Client(j) /\ j.out = cl[c].out /\ j.sent = cl[c].sent
        /\ j.phase = cl[c].phase /\ j.fin = cl[c].fin /\ j.rst = cl[c].rst
    <3>1. r \in Asked
      BY DEF Asked
    <3> QED
      BY <1>1, <3>1 DEF Client, NewClient
  <2> HIDE DEF j
  <2>2. /\ Client(k) /\ k.out = j.out /\ k.sent = j.sent
        /\ k.phase = j.phase /\ k.fin = j.fin /\ k.rst = j.rst
    BY <2>1 DEF Client, NewClient
  <2>3. ClientStep(c, k, Woken(c, {"IN"}))
    BY <1>3 DEF ClientAsk, Deliver, j
  <2> HIDE DEF k
  <2> QED
    BY <1>1, <2>1, <2>2, <2>3, ClientStepIInv
<1>4. CASE ClientSend(c)
  <2> DEFINE n == Len(cl[c].todo)
             k == [cl[c] EXCEPT !.rx = @ \o SubSeq(cl[c].todo, 1, n),
                                !.todo = SubSeq(@, n + 1, Len(@))]
  <2>1. /\ Client(k) /\ k.out = cl[c].out /\ k.sent = cl[c].sent
        /\ k.phase = cl[c].phase /\ k.fin = cl[c].fin /\ k.rst = cl[c].rst
    BY <1>1 DEF Client, NewClient
  <2>2. ClientStep(c, k, Woken(c, {"IN"}))
    BY <1>4 DEF ClientSend, Deliver
  <2> HIDE DEF k
  <2> QED
    BY <1>1, <2>1, <2>2, ClientStepIInv
<1>5. CASE ClientRecv(c)
  <2> DEFINE k == [cl[c] EXCEPT !.got = Len(cl[c].sent), !.nospace = FALSE]
             wake == IF cl[c].nospace THEN Woken(c, {"OUT"}) ELSE {}
  <2>1. Len(cl[c].sent) \in Nat /\ Len(cl[c].sent) \in 0 .. Len(cl[c].sent)
    BY <1>1, LenProperties DEF Client
  <2>2. /\ Client(k) /\ k.out = cl[c].out /\ k.sent = cl[c].sent
        /\ k.phase = cl[c].phase /\ k.fin = cl[c].fin /\ k.rst = cl[c].rst
    BY <1>1, <2>1 DEF Client, NewClient
  <2>3. ClientStep(c, k, wake) /\ wake \in SUBSET Fds
    BY <1>1, <1>5 DEF ClientRecv
  <2> HIDE DEF k, wake
  <2> QED
    BY <2>2, <2>3, ClientStepIInv
<1>6. CASE ClientClose(c)
  <2> DEFINE k == [cl[c] EXCEPT !.fin = TRUE, !.todo = <<>>]
  <2>1. /\ Client(k) /\ k.out = cl[c].out /\ k.sent = cl[c].sent
        /\ k.phase = cl[c].phase /\ k.fin = TRUE /\ k.rst = cl[c].rst
    BY <1>1 DEF Client, NewClient
  <2>2. ClientStep(c, k, Woken(c, {"IN", "OUT"}))
    BY <1>6 DEF ClientClose
  <2> HIDE DEF k
  <2> QED
    BY <1>1, <2>1, <2>2, ClientStepIInv
<1>7. CASE ClientReset(c)
  <2> DEFINE k == [cl[c] EXCEPT !.rst = TRUE, !.todo = <<>>]
  <2>1. /\ Client(k) /\ k.out = cl[c].out /\ k.sent = cl[c].sent
        /\ k.phase = cl[c].phase /\ k.fin = cl[c].fin /\ k.rst = TRUE
    BY <1>1 DEF Client, NewClient
  <2>2. ClientStep(c, k, Woken(c, {"IN", "OUT"}))
    BY <1>7 DEF ClientReset
  <2> HIDE DEF k
  <2> QED
    BY <1>1, <2>1, <2>2, ClientStepIInv
<1> QED
  BY <1>2, <1>3, <1>4, <1>5, <1>6, <1>7

\* ListenClient: the descriptor accept4 returns is registered nowhere, and no
\* batch has an event of it.
LEMMA ListenIInv ==
    ASSUME IInv, NEW c \in Clients, ListenClient(c)
    PROVE  IInv'
<1> DEFINE free == {x \in Fds : sock[x] = None}
           fd   == Min(free)
           d    == New(fd, heap)
           k    == [cl[c] EXCEPT !.phase = "open"]
           p    == Polled(k, "IN")
           r    == [worker |-> worker_idx, ev |-> "IN", data |-> d]
           objects == [heap EXCEPT ![d] = EventData(fd)]
<1>1. fd \in Fds /\ sock[fd] = None
  <2>1. free \in SUBSET Nat /\ free # {}
    BY DEF ListenClient, Fds
  <2> QED
    BY <2>1, MinIsLeast
<1>2. reg[fd] = NoReg
  BY <1>1 DEF IInv, Owned, Ownership
<1>3. FreeData(fd, heap) # {} /\ cl[c].phase = "pending"
  BY DEF ListenClient
<1> HIDE DEF free
<1>4. d \in Ids /\ d[1] = fd /\ heap[d] = Freed
  BY <1>1, <1>3, NewIsFree
<1>5. /\ sock' = [sock EXCEPT ![fd] = c] /\ sock'[fd] = c
      /\ worker_idx' = NextWorker(worker_idx) /\ UNCHANGED <<conf, batch>>
  BY <1>1 DEF ListenClient, free, IInv, Owned, Types, TypeOK
<1>6. /\ reg' = [reg EXCEPT ![fd] = r] /\ heap' = objects /\ rdlist' \subseteq Fds
      /\ cl' = [cl EXCEPT ![c] = p]
  <2>1. Arm(worker_idx, fd, "IN", d, k, objects)
    BY DEF ListenClient, free
  <2> QED
    BY <1>1, <1>5, <2>1 DEF Arm, IInv, Owned, Types, TypeOK
<1>7. fault' = "none"
  BY <1>2 DEF ListenClient, Control, free, IInv, Owned, EpollCtlNeverFails
<1>8. r \in Registration /\ r.data = d /\ r.ev = "IN" /\ r # NoReg
  BY <1>4, NoneIsNothing DEF Registration, IInv, Owned, Types, TypeOK, NoReg
<1>9. /\ Client(cl[c]) /\ Client(k) /\ k.out = cl[c].out /\ k.sent = cl[c].sent
      /\ k.phase = "open"
  BY DEF IInv, Owned, Types, ClientsTyped, Client, NewClient
<1>10. Client(p) /\ p.out = cl[c].out /\ p.sent = cl[c].sent /\ p.phase = "open"
  BY <1>9, PolledClient
<1>11. EventData(fd) \in Object /\ EventData(fd).fd = fd /\ EventData(fd).length = 0
  BY <1>1, EventDataType
<1>12. Untouched(objects, fd) /\ objects[d] = EventData(fd)
  BY <1>1, <1>4, <1>11, HeapUntouched DEF IInv, Owned, Types
<1>13. c # None
  BY NoneIsNothing
<1> HIDE DEF fd, d, k, p, r, objects
<1>14. (\A x \in Fds : x # fd => reg'[x] = reg[x] /\ sock'[x] = sock[x]) /\ reg'[fd] = r
  BY <1>1, <1>5, <1>6 DEF IInv, Owned, Types, TypeOK
<1>15. cl'[c] = p /\ \A y \in Clients : y # c => cl'[y] = cl[y]
  BY <1>6 DEF IInv, Owned, Types, ClientsTyped
<1>16. \A x \in Fds : sock[x] # None => sock[x] \in Clients /\ sock[x] # c
  BY <1>3 DEF IInv, Owned, Types, TypeOK, Delivery, Connected
<1>17. ASSUME NEW v \in Workers, NEW f \in batch[v]
       PROVE  /\ f.fd \in Fds /\ f.fd # fd /\ f.data \in Ids /\ heap[f.data].fd = f.fd
              /\ heap'[f.data] = heap[f.data] /\ reg'[f.fd] = reg[f.fd]
              /\ sock'[f.fd] = sock[f.fd] /\ cl'[sock[f.fd]] = cl[sock[f.fd]]
  <2>1. /\ f.fd \in Fds /\ f.data \in Ids /\ heap[f.data].fd = f.fd
        /\ reg[f.fd].worker = v /\ sock[f.fd] \in Clients
    BY EventValid DEF IInv
  <2>2. f.fd # fd
    BY <1>1, <2>1, NoneIsNothing
  <2>3. heap'[f.data] = heap[f.data]
    BY <1>6, <1>12, <2>1, <2>2 DEF Untouched
  <2> QED
    BY <1>14, <1>15, <1>16, <2>1, <2>2, <2>3, NoneIsNothing
<1>18. Types'
  <2>1. reg' \in [Fds -> Registration \cup {NoReg}] /\ heap' \in [Ids -> Object]
    BY <1>1, <1>6, <1>8, <1>12 DEF IInv, Owned, Types, Untouched
  <2>2. worker_idx' \in Workers
    BY <1>5, HttpAssumption DEF NextWorker, Workers, IInv, Owned, Types, TypeOK
  <2>3. sock' \in [Fds -> Clients \cup {None}]
    BY <1>1, <1>5 DEF IInv, Owned, Types, TypeOK
  <2>4. TypeOK'
    BY <1>5, <1>6, <1>7, <2>1, <2>2, <2>3
       DEF IInv, Owned, Types, TypeOK, conf, Registration
  <2>5. ClientsTyped'
    BY <1>6, <1>10, ClientUpdate DEF IInv, Owned, Types
  <2> QED
    BY <1>5, <2>1, <2>4, <2>5 DEF IInv, Owned, Types
<1>19. PointersValid'
  <2>1. ASSUME NEW x \in Fds, reg'[x] # NoReg PROVE heap'[reg'[x].data].fd = x
    <3>1. CASE x = fd
      BY <1>6, <1>8, <1>11, <1>12, <1>14, <3>1
    <3>2. CASE x # fd
      <4>1. reg'[x] = reg[x] /\ reg[x].data \in Ids /\ heap[reg[x].data].fd = x
        BY <1>14, <2>1, <3>2, RegisteredValid DEF IInv
      <4> QED
        BY <1>6, <1>12, <3>2, <4>1 DEF Untouched
    <3> QED
      BY <3>1, <3>2
  <2>2. ASSUME NEW v \in Workers, NEW f \in batch'[v]
        PROVE  /\ heap'[f.data].fd = f.fd
               /\ reg'[f.fd].worker = v /\ reg'[f.fd].data = f.data
    <3>1. f \in batch[v]
      BY <1>5
    <3> QED
      BY <1>17, <3>1 DEF IInv, Owned, Ownership, PointersValid
  <2> QED
    BY <2>1, <2>2 DEF PointersValid
<1>20. Ownership'
  <2>1. \A x \in Fds : sock'[x] = None <=> reg'[x] = NoReg
    BY <1>5, <1>8, <1>13, <1>14 DEF IInv, Owned, Ownership
  <2>2. \A i \in Ids : heap'[i] # Freed => heap'[i].fd = i[1]
    BY <1>6, <1>12 DEF Untouched
  <2>3. \A v \in Workers : \A f, g \in batch'[v] : f.fd = g.fd => f = g
    BY <1>5 DEF IInv, Owned, Ownership
  <2> QED
    BY <1>19, <2>1, <2>2, <2>3 DEF Ownership
<1>21. Len(p.sent) = 0 /\ Len(p.out) = 0
  <2>1. Len(cl[c].out) = 0 /\ Len(cl[c].sent) <= Len(cl[c].out) /\ Len(cl[c].sent) \in Nat
    BY <1>3, <1>9, LenProperties DEF IInv, Delivery, Settled, Prefix, Client
  <2> QED
    BY <1>10, <2>1
<1>22. Prefix(p) /\ Settled(p) /\ Rest(p, EventData(fd))
  BY <1>10, <1>11, <1>21 DEF Prefix, Settled, Rest
<1>23. Delivery'
  <2>1. Connected'
    BY <1>1, <1>5, <1>10, <1>14, <1>15, <1>16 DEF IInv, Delivery, Connected
  <2>2. \A y \in Clients : Prefix(cl'[y]) /\ Settled(cl'[y])
    BY <1>15, <1>22 DEF IInv, Delivery
  <2>3. ASSUME NEW x \in Fds, reg'[x] # NoReg
        PROVE  /\ Rest(cl'[sock'[x]], heap'[reg'[x].data])
               /\ reg'[x].ev = "IN" => heap'[reg'[x].data].length = 0
    <3>1. CASE x = fd
      BY <1>5, <1>6, <1>8, <1>11, <1>12, <1>14, <1>15, <1>22, <3>1
    <3>2. CASE x # fd
      <4>1. /\ reg'[x] = reg[x] /\ sock'[x] = sock[x] /\ reg[x] # NoReg
            /\ sock[x] \in Clients /\ reg[x].data \in Ids /\ heap[reg[x].data].fd = x
        BY <1>14, <2>3, <3>2, RegisteredValid DEF IInv
      <4>2. cl'[sock[x]] = cl[sock[x]] /\ heap'[reg[x].data] = heap[reg[x].data]
        BY <1>6, <1>12, <1>15, <1>16, <3>2, <4>1, NoneIsNothing DEF Untouched
      <4> QED
        BY <4>1, <4>2 DEF IInv, Delivery
    <3> QED
      BY <3>1, <3>2
  <2>4. ASSUME NEW v \in Workers, NEW f \in batch'[v]
        PROVE  /\ "HUP" \in f.events => cl'[sock'[f.fd]].rst
               /\ "IN" \in f.events => reg'[f.fd].ev = "IN"
    <3>1. f \in batch[v]
      BY <1>5
    <3> QED
      BY <1>17, <3>1 DEF IInv, Delivery
  <2> QED
    BY <2>1, <2>2, <2>3, <2>4 DEF Delivery
<1> QED
  BY <1>7, <1>18, <1>20, <1>23 DEF IInv, Owned, EpollCtlNeverFails

\* EpollWait: the new events are those of registrations of this worker, one of
\* each descriptor.
LEMMA EpollWaitIInv ==
    ASSUME IInv, NEW w \in Workers, EpollWait(w)
    PROVE  IInv'
<1> DEFINE listed == {fd \in rdlist : reg[fd].worker = w}
           found  == {x \in listed : Events(x) # {}}
           event(fd) == [fd |-> fd, events |-> Events(fd), data |-> reg[fd].data]
<1>1. /\ batch' = [batch EXCEPT ![w] = {event(fd) : fd \in found}]
      /\ rdlist' = rdlist \ listed
      /\ UNCHANGED <<conf, worker_idx, sock, reg, heap, fault>>
  BY DEF EpollWait
<1>2. cl' = [c \in Clients |->
               IF FdsOf(c) \cap listed = {} THEN cl[c]
               ELSE Polled(cl[c], reg[CHOOSE fd \in FdsOf(c) : TRUE].ev)]
  BY Zenon DEF EpollWait
<1>3. ASSUME NEW y \in Clients
      PROVE  /\ Client(cl'[y]) /\ cl'[y].out = cl[y].out /\ cl'[y].sent = cl[y].sent
             /\ cl'[y].phase = cl[y].phase
             /\ cl'[y].fin = cl[y].fin /\ cl'[y].rst = cl[y].rst
  <2>1. Client(cl[y])
    BY DEF IInv, Owned, Types, ClientsTyped
  <2>2. cl'[y] = cl[y] \/ \E ev : cl'[y] = Polled(cl[y], ev)
    BY <1>2
  <2> QED
    BY <2>1, <2>2, PolledClient
<1>4. ClientsTyped'
  BY <1>2, <1>3 DEF ClientsTyped
<1>5. ASSUME NEW x \in found
      PROVE  /\ x \in Fds /\ reg[x] # NoReg /\ reg[x].worker = w
             /\ event(x) \in Event /\ event(x).fd = x /\ event(x).data = reg[x].data
             /\ "HUP" \in event(x).events => cl[sock[x]].rst
             /\ "IN" \in event(x).events => reg[x].ev = "IN"
  <2>1. x \in Fds /\ reg[x].worker = w
    BY DEF IInv, Owned, Types, TypeOK
  <2>2. reg[x] # NoReg
    BY <2>1, NoneIsNothing DEF NoReg
  <2>3. reg[x] \in Registration /\ reg[x].data \in Ids /\ reg[x].ev \in {"IN", "OUT"}
    BY <2>1, <2>2, RegisteredValid DEF IInv, Registration
  <2>4. /\ Events(x) \in SUBSET {"IN", "OUT", "HUP"}
        /\ "HUP" \in Events(x) => cl[sock[x]].rst
        /\ "IN" \in Events(x) => reg[x].ev = "IN"
    BY <2>3 DEF Events
  <2> QED
    BY <2>1, <2>2, <2>3, <2>4 DEF Event
<1> HIDE DEF found, listed
<1>6. ASSUME NEW v \in Workers, NEW f \in batch'[v]
      PROVE  f \in batch[v] \/ (v = w /\ \E x \in found : f = event(x))
  BY <1>1, <1>6 DEF IInv, Owned, Types
<1>7. batch' \in [Workers -> SUBSET Event]
  BY <1>1, <1>5 DEF IInv, Owned, Types
<1>8. Types'
  <2>1. TypeOK'
    BY <1>1, <1>7 DEF IInv, Owned, Types, TypeOK, conf, Event
  <2> QED
    BY <1>1, <1>4, <1>7, <2>1 DEF IInv, Owned, Types
<1>9. ASSUME NEW v \in Workers, NEW f \in batch'[v]
      PROVE  /\ heap[f.data].fd = f.fd
             /\ reg[f.fd].worker = v /\ reg[f.fd].data = f.data
  <2>1. CASE f \in batch[v]
    BY <2>1 DEF IInv, Owned, Ownership, PointersValid
  <2>2. CASE v = w /\ \E x \in found : f = event(x)
    BY <1>5, <2>2, RegisteredValid DEF IInv
  <2> QED
    BY <1>6, <2>1, <2>2
<1>10. ASSUME NEW v \in Workers, NEW f \in batch'[v], NEW g \in batch'[v], f.fd = g.fd
       PROVE  f = g
  <2>1. CASE v # w
    <3>1. f \in batch[v] /\ g \in batch[v]
      BY <1>6, <2>1
    <3> QED
      BY <1>10, <3>1 DEF IInv, Owned, Ownership
  <2>2. CASE v = w
    <3>1. batch'[w] = {event(fd) : fd \in found}
      BY <1>1 DEF IInv, Owned, Types
    <3> QED
      BY <1>5, <1>10, <2>2, <3>1
  <2> QED
    BY <2>1, <2>2
<1>11. Ownership'
  BY <1>1, <1>9, <1>10 DEF IInv, Owned, Ownership, PointersValid
<1>12. Connected'
  <2>1. \A fd \in Fds : sock[fd] # None => sock[fd] \in Clients
    BY DEF IInv, Owned, Types, TypeOK
  <2> QED
    BY <1>1, <1>3, <2>1 DEF IInv, Delivery, Connected
<1>13. \A y \in Clients : Prefix(cl'[y]) /\ Settled(cl'[y])
  BY <1>3, SMTT(40) DEF IInv, Delivery, Prefix, Settled
<1>14. ASSUME NEW x \in Fds, reg'[x] # NoReg
       PROVE  /\ Rest(cl'[sock'[x]], heap'[reg'[x].data])
              /\ reg'[x].ev = "IN" => heap'[reg'[x].data].length = 0
  <2>1. reg[x] # NoReg /\ sock[x] \in Clients
    BY <1>1, <1>14, RegisteredValid DEF IInv
  <2> QED
    BY <1>1, <1>3, <2>1 DEF IInv, Delivery, Rest
<1>15. ASSUME NEW v \in Workers, NEW f \in batch'[v]
       PROVE  /\ "HUP" \in f.events => cl'[sock'[f.fd]].rst
              /\ "IN" \in f.events => reg'[f.fd].ev = "IN"
  <2>1. CASE f \in batch[v]
    <3>1. sock[f.fd] \in Clients
      BY <2>1, EventValid DEF IInv
    <3> QED
      BY <1>1, <1>3, <2>1, <3>1 DEF IInv, Delivery
  <2>2. CASE \E x \in found : f = event(x)
    <3>1. PICK x \in found : f = event(x)
      BY <2>2
    <3>2. f.fd = x /\ reg[x] # NoReg /\ x \in Fds
      BY <1>5, <3>1
    <3>3. sock[x] \in Clients
      BY <3>2, RegisteredValid DEF IInv
    <3> QED
      BY <1>1, <1>3, <1>5, <3>1, <3>2, <3>3
  <2> QED
    BY <1>6, <2>1, <2>2
<1> QED
  BY <1>1, <1>8, <1>11, <1>12, <1>13, <1>14, <1>15
     DEF IInv, Owned, Delivery, EpollCtlNeverFails

\* Before Start there is nothing to hold.
LEMMA InitIInv == Init => IInv
<1> SUFFICES ASSUME Init PROVE IInv
  OBVIOUS
<1>1. Freed \in Object
  BY EventDataType DEF Freed
<1>2. Client(NewClient) /\ NewClient.out = <<>> /\ NewClient.sent = <<>>
      /\ NewClient.phase = "new"
  BY DEF Client, NewClient, Asked
<1>3. Prefix(NewClient) /\ Settled(NewClient)
  BY <1>2 DEF Prefix, Settled
<1>4. Types
  <2>1. TypeOK
    BY HttpAssumption DEF Init, TypeOK, Workers
  <2> QED
    BY <1>1, <1>2, <2>1 DEF Init, Types, ClientsTyped
<1>5. Ownership
  BY DEF Init, Ownership, PointersValid
<1>6. Delivery
  BY <1>3 DEF Init, Delivery, Connected
<1> QED
  BY <1>4, <1>5, <1>6 DEF Init, IInv, Owned, EpollCtlNeverFails

\* A step that changes neither connections nor objects.
LEMMA ConfIInv ==
    ASSUME IInv, UNCHANGED <<worker_idx, sock, reg, rdlist, batch, heap, cl, fault>>,
           server' \in {"new", "up", "failed"}, use_co' = use_co,
           handlers' \subseteq Handlers
    PROVE  IInv'
<1>1. Owned'
  BY DEF IInv, Owned, Types, TypeOK, ClientsTyped, Ownership, PointersValid,
         EpollCtlNeverFails
<1>2. Delivery'
  BY DEF IInv, Delivery, Connected
<1> QED
  BY <1>1, <1>2 DEF IInv

\* Every step preserves IInv.
LEMMA NextIInv == IInv /\ [Next]_vars => IInv'
<1> SUFFICES ASSUME IInv, [Next]_vars PROVE IInv'
  OBVIOUS
<1> USE DEF IInv, Owned, Types, TypeOK
<1>1. CASE Start
  BY <1>1, ConfIInv DEF Start
<1>2. CASE Stop \/ UNCHANGED vars
  BY <1>2, ConfIInv DEF Stop, vars, conf
<1>3. ASSUME NEW h \in Handlers, RegisterHttpRequestHandler(h) PROVE IInv'
  BY <1>3, ConfIInv DEF RegisterHttpRequestHandler
<1>4. ASSUME NEW c \in Clients,
             \/ ClientConnect(c)
             \/ \E r \in Requests[c] : \E n \in r.cuts \cup {Len(r.text)} : ClientAsk(c, r, n)
             \/ ClientSend(c) \/ ClientRecv(c) \/ ClientClose(c) \/ ClientReset(c)
      PROVE  IInv'
  BY <1>4, ClientIInv
<1>5. ASSUME NEW c \in Clients, ListenClient(c) PROVE IInv'
  BY <1>5, ListenIInv
<1>6. ASSUME NEW w \in Workers, EpollWait(w) PROVE IInv'
  BY <1>6, EpollWaitIInv
<1>7. ASSUME NEW w \in Workers, NEW e \in batch[w], HandleEvent(w, e) PROVE IInv'
  BY <1>7, HandleEventIInv
<1> QED
  BY <1>1, <1>2, <1>3, <1>4, <1>5, <1>6, <1>7 DEF Next, Worker

\* Every reachable state satisfies the invariant.
LEMMA AlwaysIInv == Spec => []IInv
BY InitIInv, NextIInv, PTL DEF Spec

-----------------------------------------------------------------------------
(* What is never deleted.                                                  *)

Orphan(i) == heap[i] # Freed /\ ~Held(i)
DataOf(fd, i) == reg[fd] # NoReg /\ reg[fd].data = i

\* The objects that no registration holds are those that answers left behind,
\* each by one answer.
OneEach ==
    \A c, b \in Clients :
       \A m \in DOMAIN cl[c].answers, n \in DOMAIN cl[b].answers :
          cl[c].answers[m].left = cl[b].answers[n].left => c = b /\ m = n
Account ==
    /\ \A i \in Ids : Orphan(i) <=> LeftBehind(i)
    /\ OneEach

SameAnswers == \A c \in Clients : cl'[c].answers = cl[c].answers

\* A registered object is live, and no two descriptors have the same one.
LEMMA HeldIsLive ==
    ASSUME Owned, NEW fd \in Fds, NEW i \in Ids, DataOf(fd, i)
    PROVE  /\ heap[i] # Freed
           /\ \A x \in Fds : DataOf(x, i) => x = fd
<1>1. heap[i].fd = fd
  BY RegisteredValid DEF DataOf
<1>2. Freed.fd = None
  BY EventDataType DEF Freed
<1>3. \A x \in Fds : DataOf(x, i) => heap[i].fd = x
  BY RegisteredValid DEF DataOf
<1> QED
  BY <1>1, <1>2, <1>3, NoneIsNothing

\* Answers that stay keep the account if the orphans stay.
LEMMA AnswersKept ==
    ASSUME Account, SameAnswers, \A i \in Ids : Orphan(i)' <=> Orphan(i)
    PROVE  Account'
<1>1. \A i \in Ids : LeftBehind(i)' <=> LeftBehind(i)
  BY DEF SameAnswers, LeftBehind
<1>2. OneEach'
  BY DEF SameAnswers, Account, OneEach
<1> QED
  BY <1>1, <1>2 DEF Account

\* Nothing is created or deleted, and every registration keeps its object.
LEMMA NothingMoves ==
    ASSUME Account, SameAnswers,
           \A i \in Ids : heap'[i] = Freed <=> heap[i] = Freed,
           \A x \in Fds, i \in Ids : DataOf(x, i)' <=> DataOf(x, i)
    PROVE  Account'
<1>1. \A i \in Ids : Held(i)' <=> Held(i)
  BY DEF Held, DataOf
<1>2. \A i \in Ids : Orphan(i)' <=> Orphan(i)
  BY <1>1 DEF Orphan
<1> QED
  BY <1>2, AnswersKept

\* One descriptor changes its object: what it gives up is deleted, and what it
\* takes is new.
LEMMA OneMoves ==
    ASSUME Owned, Owned', Account, SameAnswers, NEW fd \in Fds,
           \A x \in Fds : x # fd => reg'[x] = reg[x],
           \A i \in Ids : ~DataOf(fd, i) /\ ~DataOf(fd, i)'
                            => (heap'[i] = Freed <=> heap[i] = Freed),
           \A i \in Ids : DataOf(fd, i) /\ ~DataOf(fd, i)' => heap'[i] = Freed,
           \A i \in Ids : ~DataOf(fd, i) /\ DataOf(fd, i)' => heap[i] = Freed
    PROVE  Account'
<1>1. ASSUME NEW i \in Ids PROVE Orphan(i)' <=> Orphan(i)
  <2>1. Held(i) <=> \E x \in Fds : DataOf(x, i)
    BY DEF Held, DataOf
  <2>2. Held(i)' <=> \E x \in Fds : DataOf(x, i)'
    BY DEF Held, DataOf
  <2>3. \A x \in Fds : x # fd => (DataOf(x, i)' <=> DataOf(x, i))
    BY DEF DataOf
  <2>4. CASE ~DataOf(fd, i) /\ ~DataOf(fd, i)'
    BY <2>1, <2>2, <2>3, <2>4 DEF Orphan
  <2>5. CASE DataOf(fd, i)
    BY <2>1, <2>2, <2>5 DEF Orphan
  <2>6. CASE ~DataOf(fd, i) /\ DataOf(fd, i)'
    BY <2>1, <2>2, <2>6 DEF Orphan
  <2> QED
    BY <2>4, <2>5, <2>6
<1> QED
  BY <1>1, AnswersKept

\* A request is left behind: its descriptor takes a new object, and one answer
\* more names the old one.
LEMMA OneLeft ==
    ASSUME Owned, Owned', Account, NEW fd \in Fds, NEW d \in Ids, NEW new \in Ids,
           DataOf(fd, d), DataOf(fd, new)', d # new,
           \A x \in Fds : x # fd => reg'[x] = reg[x],
           \A i \in Ids \ {new} : heap'[i] = heap[i], heap[new] = Freed,
           NEW c \in Clients, NEW ans \in Answer, ans.left = d,
           cl[c].answers \in Seq(Answer),
           cl'[c].answers = Append(cl[c].answers, ans),
           \A y \in Clients \ {c} : cl'[y].answers = cl[y].answers
    PROVE  Account'
<1>1. /\ heap[d] # Freed /\ \A x \in Fds : DataOf(x, d) => x = fd
      /\ \A i \in Ids : DataOf(fd, i) => i = d
      /\ \A i \in Ids : DataOf(fd, i)' => i = new
  BY HeldIsLive DEF DataOf
<1>2. ~LeftBehind(d)
  BY DEF Account, Orphan, Held, DataOf
<1>3. ASSUME NEW i \in Ids PROVE Orphan(i)' <=> (Orphan(i) \/ i = d)
  <2>1. Held(i) <=> \E x \in Fds : DataOf(x, i)
    BY DEF Held, DataOf
  <2>2. Held(i)' <=> \E x \in Fds : DataOf(x, i)'
    BY DEF Held, DataOf
  <2>3. \A x \in Fds : x # fd => (DataOf(x, i)' <=> DataOf(x, i))
    BY DEF DataOf
  <2>4. CASE i = d
    BY <1>1, <2>2, <2>3, <2>4 DEF Orphan
  <2>5. CASE i = new
    BY <2>2, <2>5 DEF Orphan
  <2>6. CASE i # d /\ i # new
    BY <1>1, <2>1, <2>2, <2>3, <2>6 DEF Orphan
  <2> QED
    BY <2>4, <2>5, <2>6
<1> DEFINE old == cl[c].answers
           n   == Len(old)
<1>4. /\ n \in Nat /\ DOMAIN old = 1 .. n
      /\ DOMAIN cl'[c].answers = 1 .. n + 1
      /\ \A j \in 1 .. n : cl'[c].answers[j] = old[j]
      /\ cl'[c].answers[n + 1] = ans
  BY AppendProperties, LenProperties
<1> HIDE DEF n
<1>5. ASSUME NEW i \in Ids PROVE LeftBehind(i)' <=> (LeftBehind(i) \/ i = d)
  <2>1. ASSUME LeftBehind(i)' PROVE LeftBehind(i) \/ i = d
    <3>1. PICK y \in Clients : \E j \in DOMAIN cl'[y].answers : cl'[y].answers[j].left = i
      BY <2>1 DEF LeftBehind
    <3>2. PICK j \in DOMAIN cl'[y].answers : cl'[y].answers[j].left = i
      BY <3>1
    <3>3. CASE y # c
      BY <3>2, <3>3 DEF LeftBehind
    <3>4. CASE y = c /\ j \in 1 .. n
      BY <1>4, <3>2, <3>4 DEF LeftBehind
    <3>5. CASE y = c /\ j = n + 1
      BY <1>4, <3>2, <3>5
    <3> QED
      BY <1>4, <3>2, <3>3, <3>4, <3>5
  <2>2. ASSUME LeftBehind(i) PROVE LeftBehind(i)'
    <3>1. PICK y \in Clients : \E j \in DOMAIN cl[y].answers : cl[y].answers[j].left = i
      BY <2>2 DEF LeftBehind
    <3>2. PICK j \in DOMAIN cl[y].answers : cl[y].answers[j].left = i
      BY <3>1
    <3>3. CASE y # c
      BY <3>2, <3>3 DEF LeftBehind
    <3>4. CASE y = c
      BY <1>4, <3>2, <3>4 DEF LeftBehind
    <3> QED
      BY <3>3, <3>4
  <2>3. i = d => LeftBehind(i)'
    <3>1. n + 1 \in DOMAIN cl'[c].answers
      BY <1>4
    <3> QED
      BY <1>4, <3>1 DEF LeftBehind
  <2> QED
    BY <2>1, <2>2, <2>3
<1>6. OneEach'
  <2> SUFFICES ASSUME NEW a \in Clients, NEW b \in Clients,
                      NEW i \in DOMAIN cl'[a].answers, NEW j \in DOMAIN cl'[b].answers,
                      cl'[a].answers[i].left = cl'[b].answers[j].left
               PROVE  a = b /\ i = j
    BY DEF OneEach
  <2>1. ASSUME NEW y \in Clients, NEW m \in DOMAIN cl'[y].answers
        PROVE  \/ y = c /\ m = n + 1 /\ cl'[y].answers[m].left = d
               \/ /\ m \in DOMAIN cl[y].answers
                  /\ cl'[y].answers[m] = cl[y].answers[m]
                  /\ cl[y].answers[m].left # d
    <3>1. \A q \in DOMAIN cl[y].answers : cl[y].answers[q].left # d
      BY <1>2 DEF LeftBehind
    <3>2. CASE y # c
      BY <2>1, <3>1, <3>2
    <3>3. CASE y = c /\ m \in 1 .. n
      BY <1>4, <3>1, <3>3
    <3>4. CASE y = c /\ m = n + 1
      BY <1>4, <3>4
    <3> QED
      BY <1>4, <2>1, <3>2, <3>3, <3>4
  <2>2. OneEach
    BY DEF Account
  <2> QED
    BY <2>1, <2>2, SMTT(40) DEF OneEach
<1> QED
  BY <1>3, <1>5, <1>6 DEF Account

\* The connection of an event changes, not what was answered on it.
LEMMA SameAnswersOf ==
    ASSUME IInv, NEW w \in Workers, NEW e \in batch[w], NEW k,
           k.answers = cl[sock[e.fd]].answers, cl' = [cl EXCEPT ![sock[e.fd]] = k]
    PROVE  SameAnswers
<1>1. sock[e.fd] \in Clients /\ DOMAIN cl = Clients
  BY EventValid DEF IInv, Owned, Types, ClientsTyped
<1> QED
  BY <1>1 DEF SameAnswers

\* EPOLL_CTL_DEL, close and delete: the object goes with its registration.
LEMMA DropAccount ==
    ASSUME IInv, IInv', Account, NEW w \in Workers, NEW e \in batch[w],
           Drop(w, e.fd, e.data)
    PROVE  Account'
<1>1. /\ e.fd \in Fds /\ e.data \in Ids /\ reg[e.fd].data = e.data
      /\ sock[e.fd] \in Clients /\ reg[e.fd] # NoReg
  BY EventValid, NoneIsNothing DEF IInv, NoReg, Registration
<1>2. reg' = [reg EXCEPT ![e.fd] = NoReg] /\ heap' = [heap EXCEPT ![e.data] = Freed]
  BY DEF Drop
<1>3. SameAnswers
  <2> DEFINE k == [cl[sock[e.fd]] EXCEPT !.phase = "gone", !.rx = <<>>]
  <2>1. cl' = [cl EXCEPT ![sock[e.fd]] = k]
    BY <1>1 DEF Drop, IInv, Owned, Types, ClientsTyped
  <2>2. k.answers = cl[sock[e.fd]].answers
    BY <1>1 DEF IInv, Owned, Types, ClientsTyped, Client, NewClient
  <2> HIDE DEF k
  <2> QED
    BY <2>1, <2>2, SameAnswersOf
<1>4. (\A x \in Fds : x # e.fd => reg'[x] = reg[x]) /\ reg'[e.fd] = NoReg
  BY <1>1, <1>2 DEF IInv, Owned, Types
<1>5. heap'[e.data] = Freed /\ \A i \in Ids : i # e.data => heap'[i] = heap[i]
  BY <1>1, <1>2 DEF IInv, Owned, Types
<1>6. \A i \in Ids : (DataOf(e.fd, i) <=> i = e.data) /\ ~DataOf(e.fd, i)'
  BY <1>1, <1>4 DEF DataOf
<1> QED
  BY <1>1, <1>3, <1>4, <1>5, <1>6, OneMoves DEF IInv

\* The registration keeps its object, and no object appears or goes.
LEMMA StayAccount ==
    ASSUME IInv, Account, NEW w \in Workers, NEW e \in batch[w],
           NEW k, Client(k), k.answers = cl[sock[e.fd]].answers,
           NEW objects, \A i \in Ids : objects[i] = Freed <=> heap[i] = Freed,
           \/ JustYield(e.fd, k, objects)
           \/ \E ev \in {"IN", "OUT"} : Modify(w, e.fd, ev, e.data, k, objects)
    PROVE  Account'
<1>1. /\ e.fd \in Fds /\ e.data \in Ids /\ reg[e.fd].data = e.data
      /\ reg[e.fd] # NoReg
  BY EventValid, NoneIsNothing DEF IInv, NoReg, Registration
<1>2. CASE JustYield(e.fd, k, objects)
  <2>1. heap' = objects /\ reg' = reg /\ SameAnswers
    BY <1>2, SameAnswersOf DEF JustYield
  <2> QED
    BY <2>1, NothingMoves DEF DataOf
<1>3. ASSUME NEW ev \in {"IN", "OUT"}, Modify(w, e.fd, ev, e.data, k, objects)
      PROVE  Account'
  <2> DEFINE r == [worker |-> w, ev |-> ev, data |-> e.data]
             p == Polled(k, ev)
  <2>1. /\ reg' = [reg EXCEPT ![e.fd] = r] /\ heap' = objects
        /\ cl' = [cl EXCEPT ![sock[e.fd]] = p]
    BY <1>3 DEF Modify, Arm
  <2>2. p.answers = cl[sock[e.fd]].answers
    BY PolledClient
  <2>3. r # NoReg /\ r.data = e.data
    BY NoneIsNothing DEF NoReg
  <2> HIDE DEF r, p
  <2>4. SameAnswers
    BY <2>1, <2>2, SameAnswersOf
  <2>5. reg'[e.fd] = r /\ \A x \in Fds : x # e.fd => reg'[x] = reg[x]
    BY <1>1, <2>1 DEF IInv, Owned, Types
  <2>6. \A x \in Fds, i \in Ids : DataOf(x, i)' <=> DataOf(x, i)
    BY <1>1, <2>3, <2>5 DEF DataOf
  <2> QED
    BY <2>1, <2>4, <2>6, NothingMoves
<1> QED
  BY <1>2, <1>3

\* The connection's next request takes the place of the response, which is
\* deleted.
LEMMA KeepAliveAccount ==
    ASSUME IInv, IInv', Account, NEW w \in Workers, NEW e \in batch[w],
           KeepAlive(w, e.fd, e.data)
    PROVE  Account'
<1> DEFINE deleted == [heap EXCEPT ![e.data] = Freed]
           request == New(e.fd, deleted)
           objects == [deleted EXCEPT ![request] = EventData(e.fd)]
           r == [worker |-> w, ev |-> "IN", data |-> request]
           k == cl[sock[e.fd]]
           p == Polled(k, "IN")
<1>1. /\ e.fd \in Fds /\ e.data \in Ids /\ reg[e.fd].data = e.data
      /\ reg[e.fd] # NoReg /\ heap[e.data].fd = e.fd
  BY EventValid, NoneIsNothing DEF IInv, NoReg, Registration
<1>2. Client(k)
  BY ConnectionOf
<1>3. Freed.fd = None /\ EventData(e.fd).fd = e.fd
  BY <1>1, EventDataType DEF Freed
<1>4. deleted[e.data] = Freed /\ \A i \in Ids : i # e.data => deleted[i] = heap[i]
  BY <1>1 DEF IInv, Owned, Types
<1>5. FreeData(e.fd, deleted) # {}
  <2>1. e.data[1] = e.fd /\ e.data[2] \in 1 .. MaxData /\ e.data = <<e.data[1], e.data[2]>>
    BY <1>1, <1>3, NoneIsNothing DEF IInv, Owned, Ownership, Ids
  <2>2. e.data[2] \in FreeData(e.fd, deleted)
    BY <1>4, <2>1 DEF FreeData
  <2> QED
    BY <2>2
<1>6. request \in Ids /\ deleted[request] = Freed
  BY <1>1, <1>5, NewIsFree
<1>7. /\ reg' = [reg EXCEPT ![e.fd] = r] /\ heap' = objects
      /\ cl' = [cl EXCEPT ![sock[e.fd]] = p]
  BY Zenon DEF KeepAlive, Modify, Arm
<1>8. p.answers = k.answers
  BY <1>2, PolledClient
<1>9. r # NoReg /\ r.data = request
  BY NoneIsNothing DEF NoReg
<1> HIDE DEF p
<1>10. SameAnswers
  BY <1>7, <1>8, SameAnswersOf
<1>11. DOMAIN deleted = Ids
  BY DEF IInv, Owned, Types
<1> HIDE DEF deleted, request, r
<1>12. heap'[request] # Freed /\ \A i \in Ids : i # request => heap'[i] = deleted[i]
  BY <1>1, <1>3, <1>6, <1>7, <1>11, NoneIsNothing
<1>13. reg'[e.fd] = r /\ \A x \in Fds : x # e.fd => reg'[x] = reg[x]
  BY <1>1, <1>7 DEF IInv, Owned, Types
<1>14. \A i \in Ids : (DataOf(e.fd, i) <=> i = e.data) /\ (DataOf(e.fd, i)' <=> i = request)
  <2>1. \A i \in Ids : DataOf(e.fd, i) <=> i = e.data
    BY <1>1 DEF DataOf
  <2>2. \A i \in Ids : DataOf(e.fd, i)' <=> i = request
    BY <1>9, <1>13 DEF DataOf
  <2> QED
    BY <2>1, <2>2
<1>15. \A i \in Ids : ~DataOf(e.fd, i) /\ ~DataOf(e.fd, i)'
                        => (heap'[i] = Freed <=> heap[i] = Freed)
  BY <1>4, <1>12, <1>14
<1>16. \A i \in Ids : DataOf(e.fd, i) /\ ~DataOf(e.fd, i)' => heap'[i] = Freed
  BY <1>4, <1>12, <1>14
<1>17. \A i \in Ids : ~DataOf(e.fd, i) /\ DataOf(e.fd, i)' => heap[i] = Freed
  BY <1>4, <1>6, <1>14, SMTT(40)
<1> QED
  BY <1>1, <1>10, <1>13, <1>15, <1>16, <1>17, OneMoves DEF IInv

\* The object that was read into is left behind, and the answer names it.
LEMMA ReadAccount ==
    ASSUME IInv, IInv', Account, NEW w \in Workers, NEW e \in batch[w],
           HandleRead(w, e.data)
    PROVE  Account'
<1> DEFINE fd  == heap[e.data].fd
           k   == cl[sock[fd]]
           res == HandleRequestData(k.rx, handlers)
           buf == [i \in 1 .. Len(res.parts) |-> <<Len(k.answers) + 1, res.parts[i]>>]
           ans == [status |-> res.status, keep_alive |-> res.keep_alive,
                   whole |-> IF handlers = Handlers /\ k.rx = k.ask.text
                             THEN k.ask ELSE None,
                   left |-> e.data]
           response == [EventData(fd) EXCEPT !.buf = buf, !.length = Len(buf),
                                             !.keep_alive = res.keep_alive]
           new == New(fd, heap)
           next == [k EXCEPT !.rx = <<>>, !.answers = Append(@, ans), !.out = @ \o buf]
           objects == [heap EXCEPT ![new] = response]
<1>1. fd \in Fds /\ e.data \in Ids /\ fd = e.fd
  BY EventValid DEF IInv
<1>2. Client(k)
  BY <1>1, ConnectionOf
<1>3. CASE FreeData(fd, heap) # {} /\ Modify(w, fd, "OUT", new, next, objects)
  <2> DEFINE r == [worker |-> w, ev |-> "OUT", data |-> new]
             p == Polled(next, "OUT")
             c == sock[fd]
  <2>1. new \in Ids /\ heap[new] = Freed
    BY <1>1, <1>3, NewIsFree
  <2>2. /\ res.status \in Nat /\ res.keep_alive \in BOOLEAN
    BY AnswerType
  <2>3. k.answers \in Seq(Answer) /\ k.ask \in Asked
    BY <1>2, SMTT(40) DEF Client
  <2>4. reg' = [reg EXCEPT ![fd] = r] /\ heap' = objects /\ cl' = [cl EXCEPT ![c] = p]
    BY <1>3 DEF Modify, Arm
  <2>5. /\ c \in Clients /\ reg[fd].data = e.data /\ reg[fd] # NoReg
        /\ heap[e.data] # Freed
    <3>1. c \in Clients /\ reg[fd].data = e.data /\ reg[fd] # NoReg
      BY <1>1, EventValid, NoneIsNothing DEF IInv, NoReg, Registration
    <3>2. Freed.fd = None
      BY EventDataType DEF Freed
    <3> QED
      BY <1>1, <3>1, <3>2, NoneIsNothing
  <2>6. r # NoReg /\ r.data = new
    BY NoneIsNothing DEF NoReg
  <2> HIDE DEF fd, k, res, new, response, r
  <2>7. ans \in Answer /\ ans.left = e.data
    BY <1>1, <2>2, <2>3 DEF Answer, Asked
  <2> HIDE DEF ans, buf
  <2>8. p.answers = Append(k.answers, ans)
    BY <1>2 DEF Client, NewClient, Polled
  <2> HIDE DEF p, next, c
  <2>9. \A i \in Ids \ {new} : heap'[i] = heap[i]
    BY <2>1, <2>4 DEF IInv, Owned, Types
  <2>10. reg'[fd] = r /\ \A x \in Fds : x # fd => reg'[x] = reg[x]
    BY <1>1, <2>4 DEF IInv, Owned, Types
  <2>11. cl'[c] = p /\ \A y \in Clients \ {c} : cl'[y] = cl[y]
    BY <2>4, <2>5 DEF IInv, Owned, Types, ClientsTyped
  <2>12. cl[c] = k
    BY DEF c, k
  <2>13. PICK f \in Fds, n \in Ids, b \in Clients, a \in Answer :
            f = fd /\ n = new /\ b = c /\ a = ans
    BY <1>1, <2>1, <2>5, <2>7
  <2>14. DataOf(f, e.data) /\ DataOf(f, n)' /\ e.data # n
    <3>1. DataOf(f, e.data)
      BY <2>5, <2>13 DEF DataOf
    <3>2. reg'[f] = r /\ r.data = n
      BY <2>6, <2>10, <2>13
    <3>3. DataOf(f, n)'
      BY <2>6, <3>2 DEF DataOf
    <3> QED
      BY <2>1, <2>5, <2>13, <3>1, <3>3
  <2>15. /\ a.left = e.data /\ cl[b].answers \in Seq(Answer)
         /\ cl'[b].answers = Append(cl[b].answers, a)
         /\ \A y \in Clients \ {b} : cl'[y].answers = cl[y].answers
    BY <2>3, <2>7, <2>8, <2>11, <2>12, <2>13
  <2>16. /\ \A x \in Fds : x # f => reg'[x] = reg[x]
         /\ \A i \in Ids \ {n} : heap'[i] = heap[i]
         /\ heap[n] = Freed
    BY <2>1, <2>9, <2>10, <2>13
  <2> QED
    BY <1>1, <2>14, <2>15, <2>16, OneLeft, SMTT(40) DEF IInv
<1>4. CASE Drop(w, fd, e.data)
  BY <1>1, <1>4, DropAccount
<1>5. CASE JustYield(fd, k, heap)
  BY <1>1, <1>2, <1>5, StayAccount
<1>6. CASE Modify(w, fd, "IN", e.data, k, heap)
  BY <1>1, <1>2, <1>6, StayAccount
<1> QED
  <2>1. \/ FreeData(fd, heap) # {} /\ Modify(w, fd, "OUT", new, next, objects)
        \/ Drop(w, fd, e.data)
        \/ JustYield(fd, k, heap)
        \/ Modify(w, fd, "IN", e.data, k, heap)
    BY Zenon DEF HandleRead
  <2> QED
    BY <1>3, <1>4, <1>5, <1>6, <2>1

\* HandleWrite leaves nothing behind.
LEMMA WriteAccount ==
    ASSUME IInv, IInv', Account, NEW w \in Workers, NEW e \in batch[w],
           HandleWrite(w, e.data)
    PROVE  Account'
<1> DEFINE fd   == heap[e.data].fd
           k    == cl[sock[fd]]
           left == heap[e.data].length
           n    == Min({Space(k), left})
           full == [k EXCEPT !.nospace = TRUE]
<1>1. /\ fd \in Fds /\ e.data \in Ids /\ fd = e.fd /\ left \in Nat
      /\ heap[e.data] \in Object
  BY EventValid DEF IInv, Object, Fields
<1>2. Client(k)
  BY <1>1, ConnectionOf
<1>3. \/ Drop(w, fd, e.data)
      \/ KeepAlive(w, fd, e.data)
      \/ left # 0 /\ Space(k) > 0 /\ SendTook(w, fd, e.data, n)
      \/ JustYield(fd, full, heap)
      \/ Modify(w, fd, "OUT", e.data, k, heap)
  BY Zenon DEF HandleWrite
<1>4. CASE Drop(w, fd, e.data)
  BY <1>1, <1>4, DropAccount
<1>5. CASE KeepAlive(w, fd, e.data)
  BY <1>1, <1>5, KeepAliveAccount
<1>6. CASE left # 0 /\ Space(k) > 0 /\ SendTook(w, fd, e.data, n)
  <2> DEFINE d    == e.data
             took == SubSeq(heap[d].buf, heap[d].cursor + 1, heap[d].cursor + n)
             next == [k EXCEPT !.sent = @ \o took, !.nospace = @ \/ n < heap[d].length]
             objects == [heap EXCEPT ![d] = Advance(heap[d], n)]
  <2>1. JustYield(fd, next, objects) \/ Modify(w, fd, "OUT", d, next, objects)
    BY <1>6, Zenon DEF SendTook
  <2>2. n \in 1 .. left
    <3>1. Len(k.sent) \in Nat /\ k.got \in 0 .. Len(k.sent)
      BY <1>2, LenProperties DEF Client
    <3>2. Space(k) \in Int
      BY <3>1, HttpAssumption, SMTT(40) DEF Space
    <3>3. {Space(k), left} \in SUBSET Nat
      BY <1>1, <1>6, <3>2
    <3>4. n \in {Space(k), left} /\ n <= left
      BY <3>3, MinIsLeast
    <3> QED
      BY <1>1, <1>6, <3>2, <3>4
  <2>3. Client(next) /\ next.answers = k.answers
    <3>1. Client(cl'[sock'[fd]]) /\ sock' = sock /\ sock[fd] \in Clients
      BY <1>1, <2>1, EventValid DEF JustYield, Modify, IInv, Owned, Types, ClientsTyped
    <3>2. next.answers = k.answers /\ DOMAIN next = DOMAIN NewClient
      BY <1>2 DEF Client, NewClient
    <3>3. /\ next.ask = k.ask /\ next.out = k.out /\ next.got = k.got
      BY <1>2 DEF Client, NewClient
    <3>4. cl'[sock[fd]].sent = next.sent
      <4>1. DOMAIN next = DOMAIN NewClient
        BY <3>2
      <4> HIDE DEF next
      <4>2. \A ev : Polled(next, ev).sent = next.sent
        BY <4>1, SMTT(40) DEF Polled, NewClient
      <4>3. cl'[sock[fd]] = next \/ \E ev : cl'[sock[fd]] = Polled(next, ev)
        BY <2>1, <3>1 DEF JustYield, Modify, Arm, IInv, Owned, Types, ClientsTyped
      <4> QED
        BY <4>2, <4>3
    <3>5. cl'[sock[fd]].got = k.got
      <4>1. DOMAIN next = DOMAIN NewClient /\ next.got = k.got
        BY <3>2, <3>3
      <4> HIDE DEF next
      <4>2. \A ev : Polled(next, ev).got = next.got
        BY <4>1 DEF Polled, NewClient
      <4>3. cl'[sock[fd]] = next \/ \E ev : cl'[sock[fd]] = Polled(next, ev)
        BY <2>1, <3>1 DEF JustYield, Modify, Arm, IInv, Owned, Types, ClientsTyped
      <4> QED
        BY <4>1, <4>2, <4>3
    <3> HIDE DEF next
    <3> QED
      BY <1>2, <3>1, <3>2, <3>3, <3>4, <3>5 DEF Client
  <2>4. ASSUME NEW i \in Ids PROVE objects[i] = Freed <=> heap[i] = Freed
    <3>1. Advance(heap[d], n).fd = fd /\ heap[d].fd = fd
      BY <1>1, <2>2, AdvanceObject
    <3>2. Freed.fd = None
      BY EventDataType DEF Freed
    <3>3. objects[i] = IF i = d THEN Advance(heap[d], n) ELSE heap[i]
      BY <1>1 DEF IInv, Owned, Types
    <3> HIDE DEF objects, n
    <3> QED
      BY <1>1, <3>1, <3>2, <3>3, NoneIsNothing
  <2> HIDE DEF next, objects
  <2> QED
    BY <1>1, <2>1, <2>3, <2>4, StayAccount
<1>7. CASE JustYield(fd, full, heap)
  <2>1. Client(full) /\ full.answers = k.answers
    BY <1>2 DEF Client, NewClient
  <2> HIDE DEF full
  <2> QED
    BY <1>1, <1>7, <2>1, StayAccount
<1>8. CASE Modify(w, fd, "OUT", e.data, k, heap)
  BY <1>1, <1>2, <1>8, StayAccount
<1> QED
  BY <1>3, <1>4, <1>5, <1>6, <1>7, <1>8

\* What the clients do and what epoll_wait reports leaves the account alone.
LEMMA ClientAccount ==
    ASSUME IInv, Account, NEW c \in Clients, NEW k, NEW wake,
           ClientStep(c, k, wake), k.answers = cl[c].answers
    PROVE  Account'
<1>1. SameAnswers /\ reg' = reg /\ heap' = heap
  BY DEF ClientStep, SameAnswers, IInv, Owned, Types, ClientsTyped
<1> QED
  BY <1>1, NothingMoves DEF DataOf

\* ListenClient: the new object is the new registration's.
LEMMA ListenAccount ==
    ASSUME IInv, IInv', Account, NEW c \in Clients, ListenClient(c)
    PROVE  Account'
<1> DEFINE free == {x \in Fds : sock[x] = None}
           fd   == Min(free)
           d    == New(fd, heap)
           k    == [cl[c] EXCEPT !.phase = "open"]
           p    == Polled(k, "IN")
           r    == [worker |-> worker_idx, ev |-> "IN", data |-> d]
           objects == [heap EXCEPT ![d] = EventData(fd)]
<1>1. fd \in Fds /\ sock[fd] = None
  <2>1. free \in SUBSET Nat /\ free # {}
    BY DEF ListenClient, Fds
  <2> QED
    BY <2>1, MinIsLeast
<1>2. reg[fd] = NoReg
  BY <1>1 DEF IInv, Owned, Ownership
<1> HIDE DEF free
<1>3. d \in Ids /\ heap[d] = Freed
  BY <1>1, NewIsFree DEF ListenClient, free
<1>4. reg' = [reg EXCEPT ![fd] = r] /\ heap' = objects /\ cl' = [cl EXCEPT ![c] = p]
  <2>1. Arm(worker_idx, fd, "IN", d, k, objects) /\ sock' = [sock EXCEPT ![fd] = c]
    BY DEF ListenClient, free
  <2>2. sock'[fd] = c
    BY <1>1, <2>1 DEF IInv, Owned, Types, TypeOK
  <2> QED
    BY <2>1, <2>2 DEF Arm
<1>5. r # NoReg /\ r.data = d
  BY NoneIsNothing DEF NoReg, IInv, Owned, Types, TypeOK
<1>6. SameAnswers
  <2>1. Client(k) /\ k.answers = cl[c].answers
    BY DEF IInv, Owned, Types, ClientsTyped, Client, NewClient
  <2>2. p.answers = cl[c].answers
    BY <2>1, PolledClient
  <2> HIDE DEF p
  <2> QED
    BY <1>4, <2>2 DEF SameAnswers, IInv, Owned, Types, ClientsTyped
<1> HIDE DEF fd, d, k, p, r
<1>7. \A i \in Ids : i # d => heap'[i] = heap[i]
  BY <1>3, <1>4 DEF IInv, Owned, Types
<1>8. reg'[fd] = r /\ \A x \in Fds : x # fd => reg'[x] = reg[x]
  BY <1>1, <1>4 DEF IInv, Owned, Types
<1>9. PICK f \in Fds, n \in Ids : f = fd /\ n = d
  BY <1>1, <1>3
<1>10. \A i \in Ids : ~DataOf(f, i)
  BY <1>2, <1>9 DEF DataOf
<1>11. \A i \in Ids : DataOf(f, i)' <=> i = n
  BY <1>5, <1>8, <1>9 DEF DataOf
<1>12. /\ \A x \in Fds : x # f => reg'[x] = reg[x]
       /\ \A i \in Ids : ~DataOf(f, i) /\ ~DataOf(f, i)' => (heap'[i] = Freed <=> heap[i] = Freed)
       /\ \A i \in Ids : ~DataOf(f, i) /\ DataOf(f, i)' => heap[i] = Freed
  BY <1>3, <1>7, <1>8, <1>9, <1>11
<1> QED
  BY <1>6, <1>10, <1>12, OneMoves DEF IInv

\* Every step keeps the account.
LEMMA NextAccount == IInv /\ IInv' /\ Account /\ [Next]_vars => Account'
<1> SUFFICES ASSUME IInv, IInv', Account, [Next]_vars PROVE Account'
  OBVIOUS
<1>1. CASE UNCHANGED <<reg, heap, cl>>
  BY <1>1, NothingMoves DEF DataOf, SameAnswers
<1>2. ASSUME NEW c \in Clients,
             \/ ClientConnect(c)
             \/ \E q \in Requests[c] : \E n \in q.cuts \cup {Len(q.text)} : ClientAsk(c, q, n)
             \/ ClientSend(c) \/ ClientRecv(c) \/ ClientClose(c) \/ ClientReset(c)
      PROVE  Account'
  <2>1. Client(cl[c])
    BY DEF IInv, Owned, Types, ClientsTyped
  <2>2. CASE ClientConnect(c)
    <3> DEFINE k == [cl[c] EXCEPT !.phase = "pending"]
    <3>1. k.answers = cl[c].answers /\ ClientStep(c, k, {})
      BY <2>1, <2>2 DEF Client, NewClient, ClientConnect
    <3> HIDE DEF k
    <3> QED
      BY <3>1, ClientAccount
  <2>3. ASSUME NEW q, NEW n, ClientAsk(c, q, n) PROVE Account'
    <3> DEFINE j == [cl[c] EXCEPT !.ask = q, !.asked = @ + 1, !.todo = q.text]
               k == [j EXCEPT !.rx = @ \o SubSeq(j.todo, 1, n),
                              !.todo = SubSeq(@, n + 1, Len(@))]
    <3>1. j.answers = cl[c].answers /\ DOMAIN j = DOMAIN NewClient
      BY <2>1 DEF Client, NewClient
    <3> HIDE DEF j
    <3>2. k.answers = j.answers
      BY <3>1 DEF NewClient
    <3>3. ClientStep(c, k, Woken(c, {"IN"}))
      BY <2>3 DEF ClientAsk, Deliver, j
    <3> HIDE DEF k
    <3> QED
      BY <3>1, <3>2, <3>3, ClientAccount
  <2>4. CASE ClientSend(c)
    <3> DEFINE n == Len(cl[c].todo)
               k == [cl[c] EXCEPT !.rx = @ \o SubSeq(cl[c].todo, 1, n),
                                  !.todo = SubSeq(@, n + 1, Len(@))]
    <3>1. k.answers = cl[c].answers /\ ClientStep(c, k, Woken(c, {"IN"}))
      BY <2>1, <2>4 DEF Client, NewClient, ClientSend, Deliver
    <3> HIDE DEF k
    <3> QED
      BY <3>1, ClientAccount
  <2>5. CASE ClientRecv(c)
    <3> DEFINE k == [cl[c] EXCEPT !.got = Len(cl[c].sent), !.nospace = FALSE]
               wake == IF cl[c].nospace THEN Woken(c, {"OUT"}) ELSE {}
    <3>1. k.answers = cl[c].answers
      BY <2>1 DEF Client, NewClient
    <3>2. ClientStep(c, k, wake)
      BY <2>5 DEF ClientRecv
    <3> HIDE DEF k, wake
    <3> QED
      BY <3>1, <3>2, ClientAccount
  <2>6. CASE ClientClose(c)
    <3> DEFINE k == [cl[c] EXCEPT !.fin = TRUE, !.todo = <<>>]
    <3>1. k.answers = cl[c].answers /\ ClientStep(c, k, Woken(c, {"IN", "OUT"}))
      BY <2>1, <2>6 DEF Client, NewClient, ClientClose
    <3> HIDE DEF k
    <3> QED
      BY <3>1, ClientAccount
  <2>7. CASE ClientReset(c)
    <3> DEFINE k == [cl[c] EXCEPT !.rst = TRUE, !.todo = <<>>]
    <3>1. k.answers = cl[c].answers /\ ClientStep(c, k, Woken(c, {"IN", "OUT"}))
      BY <2>1, <2>7 DEF Client, NewClient, ClientReset
    <3> HIDE DEF k
    <3> QED
      BY <3>1, ClientAccount
  <2> QED
    BY <1>2, <2>2, <2>3, <2>4, <2>5, <2>6, <2>7
<1>3. ASSUME NEW c \in Clients, ListenClient(c) PROVE Account'
  BY <1>3, ListenAccount
<1>4. ASSUME NEW w \in Workers, EpollWait(w) PROVE Account'
  <2>1. reg' = reg /\ heap' = heap
    BY <1>4 DEF EpollWait
  <2>2. ASSUME NEW c \in Clients PROVE cl'[c].answers = cl[c].answers
    <3>1. Client(cl[c])
      BY DEF IInv, Owned, Types, ClientsTyped
    <3>2. cl'[c] = cl[c] \/ \E ev : cl'[c] = Polled(cl[c], ev)
      BY <1>4 DEF EpollWait
    <3> QED
      BY <3>1, <3>2, PolledClient
  <2> QED
    BY <2>1, <2>2, NothingMoves DEF DataOf, SameAnswers
<1>5. ASSUME NEW w \in Workers, NEW e \in batch[w], HandleEvent(w, e) PROVE Account'
  <2>1. heap[e.data].fd = e.fd
    BY EventValid DEF IInv
  <2>2. Drop(w, e.fd, e.data) \/ HandleRead(w, e.data) \/ HandleWrite(w, e.data)
    BY <1>5, <2>1 DEF HandleEvent
  <2> QED
    BY <2>2, DropAccount, ReadAccount, WriteAccount
<1>6. Start \/ Stop \/ UNCHANGED vars => UNCHANGED <<reg, heap, cl>>
  BY DEF Start, Stop, vars
<1>7. \A h \in Handlers : RegisterHttpRequestHandler(h) => UNCHANGED <<reg, heap, cl>>
  BY DEF RegisterHttpRequestHandler
<1> QED
  BY <1>1, <1>2, <1>3, <1>4, <1>5, <1>6, <1>7 DEF Next, Worker

-----------------------------------------------------------------------------
\* The state of the server and of the kernel has its type in every reachable
\* state.
THEOREM TypeCorrect == Spec => []TypeOK
<1>1. IInv => TypeOK
  BY DEF IInv, Owned, Types
<1> QED
  BY <1>1, AlwaysIInv, PTL

\* No handler follows a dangling data.ptr, whatever the number of connections
\* and threads, the reuse of descriptors and the order of events.
THEOREM PointersAlwaysValid == Spec => []PointersValid
<1>1. IInv => PointersValid
  BY DEF IInv, Owned, Ownership
<1> QED
  BY <1>1, AlwaysIInv, PTL

\* ControlEpollEvent never throws in a thread that nobody catches it in.
THEOREM EpollCtlAlwaysSucceeds == Spec => []EpollCtlNeverFails
<1>1. IInv => EpollCtlNeverFails
  BY DEF IInv, Owned
<1> QED
  BY <1>1, AlwaysIInv, PTL

\* What a client is sent is a prefix of its responses, in order and without gap
\* or repetition, for any size of the send buffer and of the responses, and all
\* of them when the server closes the connection on its own account.
THEOREM ResponsesAlwaysIntact == Spec => []ResponsesIntact
<1>1. IInv => ResponsesIntact
  <2> SUFFICES ASSUME IInv, NEW c \in Clients
               PROVE  /\ cl[c].sent = SubSeq(cl[c].out, 1, Len(cl[c].sent))
                      /\ cl[c].phase = "gone" /\ ~cl[c].fin /\ ~cl[c].rst
                           => cl[c].sent = cl[c].out
    BY DEF ResponsesIntact
  <2> DEFINE sent == cl[c].sent
             out  == cl[c].out
             n    == Len(sent)
  <2>1. sent \in Seq(Part) /\ out \in Seq(Part) /\ n \in Nat /\ Len(out) \in Nat
    BY LenProperties DEF IInv, Owned, Types, ClientsTyped, Client
  <2>2. n <= Len(out) /\ \A i \in 1 .. n : sent[i] = out[i]
    BY DEF IInv, Delivery, Prefix
  <2>3. /\ SubSeq(out, 1, n) \in Seq(Part) /\ Len(SubSeq(out, 1, n)) = n
        /\ \A i \in 1 .. n : SubSeq(out, 1, n)[i] = out[i]
    <3> HIDE DEF sent, out, n
    <3>1. \A i \in 1 .. n : out[i] \in Part
      BY <2>1, <2>2
    <3>2. /\ SubSeq(out, 1, n) \in Seq(Part)
          /\ Len(SubSeq(out, 1, n)) = IF 1 <= n THEN n - 1 + 1 ELSE 0
          /\ \A i \in 1 .. n - 1 + 1 : SubSeq(out, 1, n)[i] = out[1 + i - 1]
      BY <2>1, <3>1, SubSeqProperties
    <3> QED
      BY <2>1, <3>2
  <2>4. sent = SubSeq(out, 1, n)
    <3> HIDE DEF out
    <3> QED
      BY <2>1, <2>2, <2>3, SeqEqual
  <2>5. ASSUME cl[c].phase = "gone", ~cl[c].fin, ~cl[c].rst PROVE sent = out
    <3>1. n = Len(out)
      BY <2>5 DEF IInv, Delivery, Settled
    <3> QED
      BY <2>1, <2>2, <3>1, SeqEqual
  <2> QED
    BY <2>4, <2>5
<1> QED
  BY <1>1, AlwaysIInv, PTL

\* The only EventData that are never deleted are the requests HandleRead has
\* replaced, one for each answer: a connection that ends, however it ends,
\* leaves no other object behind.
THEOREM OnlyRequestsEverLeak == Spec => []OnlyRequestsLeak
<1>1. Init => Account
  BY DEF Init, Account, OneEach, Orphan, LeftBehind, NewClient
<1>2. IInv /\ Account => OnlyRequestsLeak
  <2> SUFFICES ASSUME IInv, Account PROVE OnlyRequestsLeak
    OBVIOUS
  <2>1. ASSUME NEW i \in Ids, Held(i) PROVE heap[i] # Freed
    BY <2>1, HeldIsLive DEF IInv, Held, DataOf
  <2> QED
    BY <2>1 DEF OnlyRequestsLeak, Account, OneEach, Orphan, Live
<1> QED
  BY <1>1, <1>2, AlwaysIInv, NextAccount, PTL DEF Spec
=============================================================================
