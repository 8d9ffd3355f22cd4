----------------------------- MODULE HttpServer -----------------------------
(***************************************************************************)
(* HttpServer: a listener thread that accepts connections and hands them   *)
(* round robin to worker threads, each with an epoll set of its own, in    *)
(* both modes (EventLoop, and EventLoopWithCo with a coroutine per event). *)
(*                                                                         *)
(* A handler is one step: between the events of a batch other threads and  *)
(* the clients move.  A coroutine that yields is never resumed again (the  *)
(* next event gets a coroutine of its own), so its yield ends the step.    *)
(*                                                                         *)
(* The kernel is external: edge triggered readiness (rdlist) is set by the *)
(* arrival of data, of a FIN or of a reset, by room after a send or a poll *)
(* that found none, and by EPOLL_CTL_ADD and _MOD when the level is there. *)
(* recv, send and close are the plain calls: the hook is switched off, as  *)
(* tests/httpserver.cc does before it starts the server.                   *)
(***************************************************************************)
EXTENDS HttpMessage

CONSTANTS
    Clients, None,
    FdCount,        \* descriptors the process may have open
    WorkerCount,    \* kThreadPoolSize
    Handlers,       \* what the program registers: [path, method, throws]
    Early,          \* those it registers before anything else
    Requests,       \* what each client sends: [text, cuts (where the network may
                    \* cut it), and the status and keep_alive due]
    Modes,          \* the values of use_co_
    Room,           \* size of the send buffer, in parts of a response
    Rude,           \* clients that may close or reset at any time
    MaxRequests,    \* bound: requests each client sends
    MaxData         \* bound: EventData objects live for one descriptor

ASSUME HttpAssumption ==
    /\ WorkerCount \in Nat \ {0} /\ Room \in Nat \ {0}
    /\ FdCount \in Nat \ {0} /\ MaxRequests \in [Clients -> Nat]
    /\ Rude \subseteq Clients /\ MaxData \in Nat \ {0}
    /\ Modes \subseteq BOOLEAN /\ Modes # {}
    /\ Early \subseteq Handlers
    /\ None \notin Clients \cup Int

VARIABLES
    server,      \* "new", "up" (running_) or "failed" (Start threw)
    use_co,      \* use_co_
    handlers,    \* request_handlers_
    worker_idx,  \* the listener's worker_idx
    sock,        \* the client at the other end of an open descriptor
    reg,         \* epoll registrations: [worker, ev, data]
    rdlist,      \* descriptors on the ready list of their epoll set
    batch,       \* events each worker has still to handle
    heap,        \* EventData, those with a descriptor are live
    cl,          \* clients and their connections
    fault        \* "epoll_ctl" when ControlEpollEvent has thrown, else "none"

conf == <<server, use_co, handlers>>
vars == <<conf, worker_idx, sock, reg, rdlist, batch, heap, cl, fault>>

Fds     == 1 .. FdCount
Workers == 0 .. WorkerCount - 1
NoReg   == [worker |-> None, ev |-> None, data |-> None]

EventData(fd) == [fd |-> fd, buf |-> <<>>, cursor |-> 0, length |-> 0,
                  keep_alive |-> TRUE]
Freed == EventData(None)
Ids   == Fds \X (1 .. MaxData)
Live  == {i \in Ids : heap[i] # Freed}

\* operator new.  Addresses are kept apart by descriptor: one that is reused by
\* another connection would have been a dangling pointer before.
FreeData(fd, objects) == {i \in 1 .. MaxData : objects[<<fd, i>>] = Freed}
New(fd, objects) == <<fd, Min(FreeData(fd, objects))>>

\* phase: "new", "pending" (not accepted yet), "open", "gone" (closed by the
\* server); ask: the request; todo: what is still to be sent of it; rx: unread
\* by the server; nospace: a send or a poll found the buffer full; fin, rst: the
\* client has closed or reset.  History: answers (and the request object each
\* left behind), and in parts of responses out (owed), sent (taken by send),
\* got (read).
NewClient == [phase |-> "new", ask |-> None, asked |-> 0, todo |-> <<>>,
              rx |-> <<>>, nospace |-> FALSE, fin |-> FALSE,
              rst |-> FALSE, answers |-> <<>>, out |-> <<>>, sent |-> <<>>,
              got |-> 0]

Init ==
    /\ server = "new" /\ use_co \in Modes /\ handlers = Early /\ worker_idx = 0
    /\ sock = [fd \in Fds |-> None]
    /\ reg = [fd \in Fds |-> NoReg]
    /\ rdlist = {}
    /\ batch = [w \in Workers |-> {}]
    /\ heap = [i \in Ids |-> Freed]
    /\ cl = [c \in Clients |-> NewClient]
    /\ fault = "none"

-----------------------------------------------------------------------------
(* The kernel.                                                             *)

Space(k) == Room - (Len(k.sent) - k.got)

Level(k, ev) ==
    \/ k.rst
    \/ ev = "IN" /\ (k.rx # <<>> \/ k.fin)
    \/ ev = "OUT" /\ Space(k) > 0

\* What epoll_wait reports of a descriptor.
Events(fd) ==
    LET k == cl[sock[fd]]
    IN  {ev \in {reg[fd].ev} : Level(k, ev)} \cup {ev \in {"HUP"} : k.rst}

\* Polling for OUT in vain asks for a wake-up when there is room.
Polled(k, ev) == [k EXCEPT !.nospace = @ \/ (ev = "OUT" /\ ~Level(k, ev))]

FdsOf(c) == {fd \in Fds : sock[fd] = c}
Woken(c, evs) == {fd \in FdsOf(c) : reg[fd].ev \in evs}

-----------------------------------------------------------------------------
(* The program and its clients.                                            *)

\* Start: the socket and the epoll sets are set up and the threads run, or one
\* of the calls fails and it throws.
Start ==
    /\ server = "new"
    /\ server' \in {"up", "failed"}
    /\ UNCHANGED <<use_co, handlers, worker_idx, sock, reg, rdlist, batch, heap,
                   cl, fault>>

\* Stop joins threads that only running_ = false would end, and it does not set
\* it: it changes nothing and does not return.
Stop == server = "up" /\ UNCHANGED vars

\* insert: the first handler of a path and method stays.  The program registers
\* before Start and, as tests/httpserver.cc does, while the server runs.
RegisterHttpRequestHandler(h) ==
    /\ h \notin handlers
    /\ handlers' = IF \E x \in handlers : x.path = h.path /\ x.method = h.method
                   THEN handlers ELSE handlers \cup {h}
    /\ UNCHANGED <<server, use_co, worker_idx, sock, reg, rdlist, batch, heap, cl,
                   fault>>

Up == server = "up" /\ fault = "none"

ClientStep(c, k, wake) ==
    /\ cl' = [cl EXCEPT ![c] = k]
    /\ rdlist' = rdlist \cup wake
    /\ UNCHANGED <<conf, worker_idx, sock, reg, batch, heap, fault>>

Alive(c) == cl[c].phase \in {"pending", "open"} /\ ~cl[c].fin /\ ~cl[c].rst

\* A client waits for the whole answer before it asks again.
Answered(c) == /\ cl[c].todo = <<>> /\ cl[c].got = Len(cl[c].out)
               /\ Len(cl[c].answers) >= cl[c].asked

ClientConnect(c) ==
    /\ Up /\ cl[c].phase = "new"
    /\ ClientStep(c, [cl[c] EXCEPT !.phase = "pending"], {})

\* n tokens of the text arrive.
Deliver(c, k, n) ==
    ClientStep(c, [k EXCEPT !.rx = @ \o SubSeq(k.todo, 1, n),
                            !.todo = SubSeq(@, n + 1, Len(@))],
               Woken(c, {"IN"}))

ClientAsk(c, r, n) ==
    /\ Up /\ Alive(c) /\ Answered(c)
    /\ cl[c].asked < MaxRequests[c] /\ n \in 1 .. Len(r.text)
    /\ Deliver(c, [cl[c] EXCEPT !.ask = r, !.asked = @ + 1, !.todo = r.text], n)

ClientSend(c) ==
    /\ Up /\ Alive(c) /\ cl[c].todo # <<>>
    /\ Deliver(c, cl[c], Len(cl[c].todo))

\* The client reads all there is: room, and a wake-up if one was asked for.
ClientRecv(c) ==
    LET k == cl[c]
    IN  /\ Up /\ ~k.fin /\ ~k.rst /\ k.got < Len(k.sent)
        /\ ClientStep(c, [k EXCEPT !.got = Len(k.sent), !.nospace = FALSE],
                      IF k.nospace THEN Woken(c, {"OUT"}) ELSE {})

ClientClose(c) ==
    /\ Up /\ Alive(c) /\ c \in Rude
    /\ ClientStep(c, [cl[c] EXCEPT !.fin = TRUE, !.todo = <<>>],
                  Woken(c, {"IN", "OUT"}))

ClientReset(c) ==
    /\ Up /\ c \in Rude /\ cl[c].phase \in {"pending", "open"} /\ ~cl[c].rst
    /\ ClientStep(c, [cl[c] EXCEPT !.rst = TRUE, !.todo = <<>>],
                  Woken(c, {"IN", "OUT"}))

-----------------------------------------------------------------------------
(* The listener and the workers.                                           *)

\* EPOLL_CTL_ADD and _MOD: arm fd for ev, with d as data.ptr.  The connection
\* and the objects are as the handler leaves them.
Arm(w, fd, ev, d, k, objects) ==
    /\ reg' = [reg EXCEPT ![fd] = [worker |-> w, ev |-> ev, data |-> d]]
    /\ rdlist' = IF Level(k, ev) THEN rdlist \cup {fd} ELSE rdlist
    /\ cl' = [cl EXCEPT ![sock'[fd]] = Polled(k, ev)]
    /\ heap' = objects

\* ControlEpollEvent throws when epoll_ctl fails, and nothing catches it.
Control(ok) == fault' = IF ok THEN fault ELSE "epoll_ctl"

\* Mutant: not reduced.
NextWorkerUnreduced(i) == i + 1

NextWorker(i) == (i + 1) % WorkerCount

\* ListenClient: accept4 (the lowest free descriptor), a new EventData,
\* EPOLL_CTL_ADD, round robin.
ListenClient(c) ==
    LET free == {x \in Fds : sock[x] = None}
        fd   == Min(free)
    IN
    /\ Up /\ cl[c].phase = "pending" /\ free # {} /\ FreeData(fd, heap) # {}
    /\ sock' = [sock EXCEPT ![fd] = c]
    /\ Arm(worker_idx, fd, "IN", New(fd, heap), [cl[c] EXCEPT !.phase = "open"],
           [heap EXCEPT ![New(fd, heap)] = EventData(fd)])
    /\ Control(reg[fd] = NoReg)
    /\ worker_idx' = NextWorker(worker_idx)
    /\ UNCHANGED <<conf, batch>>

\* epoll_wait: everything on the ready list, off it again.
EpollWait(w) ==
    LET listed == {fd \in rdlist : reg[fd].worker = w}
    IN  /\ Up /\ batch[w] = {} /\ listed # {}
        /\ batch' = [batch EXCEPT ![w] =
                       {[fd |-> fd, events |-> Events(fd), data |-> reg[fd].data] :
                          fd \in {x \in listed : Events(x) # {}}}]
        /\ rdlist' = rdlist \ listed
        /\ cl' = [c \in Clients |->
                    IF FdsOf(c) \cap listed = {} THEN cl[c]
                    ELSE Polled(cl[c], reg[CHOOSE fd \in FdsOf(c) : TRUE].ev)]
        /\ UNCHANGED <<conf, worker_idx, sock, reg, heap, fault>>

\* Mutants: close before EPOLL_CTL_DEL; the object is not deleted.
DropCloseFirst(w, fd, d) ==
    /\ fault' = "epoll_ctl"
    /\ UNCHANGED <<reg, rdlist, sock, cl, heap>>
DropKeepsData(w, fd, d) ==
    /\ Control(reg[fd].worker = w)
    /\ reg' = [reg EXCEPT ![fd] = NoReg] /\ rdlist' = rdlist \ {fd}
    /\ sock' = [sock EXCEPT ![fd] = None]
    /\ cl' = [cl EXCEPT ![sock[fd]].phase = "gone"]
    /\ heap' = heap

\* EPOLL_CTL_DEL, close and delete.
Drop(w, fd, d) ==
    /\ Control(reg[fd].worker = w)
    /\ reg' = [reg EXCEPT ![fd] = NoReg]
    /\ rdlist' = rdlist \ {fd}
    /\ sock' = [sock EXCEPT ![fd] = None]
    /\ cl' = [cl EXCEPT ![sock[fd]].phase = "gone", ![sock[fd]].rx = <<>>]
    /\ heap' = [heap EXCEPT ![d] = Freed]

\* EPOLL_CTL_MOD.
Modify(w, fd, ev, d, k, objects) ==
    /\ sock' = sock
    /\ Control(reg[fd].worker = w)
    /\ Arm(w, fd, ev, d, k, objects)

\* No epoll_ctl: the connection and the objects change, the registration stays.
JustYield(fd, k, objects) ==
    /\ cl' = [cl EXCEPT ![sock[fd]] = k]
    /\ heap' = objects
    /\ UNCHANGED <<sock, reg, rdlist, fault>>

\* The EPOLLIN part of HandleEpollEvent, and HandleReadEvent: recv, and the
\* response takes the place of the request as data.ptr.
HandleRead(w, d) ==
    LET fd  == heap[d].fd
        k   == cl[sock[fd]]
        res == HandleRequestData(k.rx, handlers)
        buf == [i \in 1 .. Len(res.parts) |-> <<Len(k.answers) + 1, res.parts[i]>>]
        ans == [status |-> res.status, keep_alive |-> res.keep_alive,
                whole |-> IF handlers = Handlers /\ k.rx = k.ask.text
                          THEN k.ask ELSE None,
                left |-> d]
        response == [EventData(fd) EXCEPT !.buf = buf, !.length = Len(buf),
                                          !.keep_alive = res.keep_alive]
    IN  IF k.rx # <<>>
        THEN /\ FreeData(fd, heap) # {}
             /\ Modify(w, fd, "OUT", New(fd, heap),
                       [k EXCEPT !.rx = <<>>, !.answers = Append(@, ans),
                                 !.out = @ \o buf],
                       [heap EXCEPT ![New(fd, heap)] = response])
        ELSE IF k.fin \/ k.rst THEN Drop(w, fd, d)
        ELSE IF use_co THEN JustYield(fd, k, heap)
        ELSE Modify(w, fd, "IN", d, k, heap)

\* Mutant: the cursor stays where it is.
AdvanceLengthOnly(data, n) == [data EXCEPT !.length = @ - n]

Advance(data, n) == [data EXCEPT !.cursor = @ + n, !.length = @ - n]

\* Mutant: HandleEpollEvent, too, leaves the registration alone.
SendTookNoRearm(w, fd, d, n) ==
    LET k    == cl[sock[fd]]
        took == SubSeq(heap[d].buf, heap[d].cursor + 1, heap[d].cursor + n)
    IN  JustYield(fd, [k EXCEPT !.sent = @ \o took,
                                !.nospace = @ \/ n < heap[d].length],
                  [heap EXCEPT ![d] = Advance(@, n)])

\* send took n > 0 parts.  HandleEpollEvent arms EPOLLOUT again, the coroutine
\* of HandleWriteEvent only yields.
SendTook(w, fd, d, n) ==
    LET k    == cl[sock[fd]]
        took == SubSeq(heap[d].buf, heap[d].cursor + 1, heap[d].cursor + n)
        next == [k EXCEPT !.sent = @ \o took, !.nospace = @ \/ n < heap[d].length]
        objects == [heap EXCEPT ![d] = Advance(@, n)]
    IN  IF use_co THEN JustYield(fd, next, objects)
        ELSE Modify(w, fd, "OUT", d, next, objects)

\* Mutant: the deleted response stays data.ptr.
KeepAliveStale(w, fd, d) ==
    Modify(w, fd, "IN", d, cl[sock[fd]], [heap EXCEPT ![d] = Freed])

\* The whole response is sent: a new request takes its place as data.ptr.
KeepAlive(w, fd, d) ==
    LET deleted == [heap EXCEPT ![d] = Freed]
        request == New(fd, deleted)
    IN  Modify(w, fd, "IN", request, cl[sock[fd]],
               [deleted EXCEPT ![request] = EventData(fd)])

\* The EPOLLOUT part of HandleEpollEvent, and HandleWriteEvent.
HandleWrite(w, d) ==
    LET fd   == heap[d].fd
        k    == cl[sock[fd]]
        left == heap[d].length
    IN  IF k.rst THEN Drop(w, fd, d)
        ELSE IF left = 0 /\ heap[d].keep_alive THEN KeepAlive(w, fd, d)
        ELSE IF left = 0 THEN Drop(w, fd, d)
        ELSE IF Space(k) > 0 THEN SendTook(w, fd, d, Min({Space(k), left}))
        ELSE IF use_co THEN JustYield(fd, [k EXCEPT !.nospace = TRUE], heap)
        ELSE Modify(w, fd, "OUT", d, k, heap)

\* One event of the batch, in EventLoop and in EventLoopWithCo.
HandleEvent(w, e) ==
    /\ Up /\ e \in batch[w]
    /\ IF "HUP" \in e.events THEN Drop(w, heap[e.data].fd, e.data)
       ELSE IF "IN" \in e.events THEN HandleRead(w, e.data)
       ELSE HandleWrite(w, e.data)
    /\ batch' = [batch EXCEPT ![w] = @ \ {e}]
    /\ UNCHANGED <<conf, worker_idx>>

Worker(w) == EpollWait(w) \/ \E e \in batch[w] : HandleEvent(w, e)

Next ==
    \/ Start
    \/ Stop
    \/ \E h \in Handlers : RegisterHttpRequestHandler(h)
    \/ \E c \in Clients :
          \/ ClientConnect(c)
          \/ \E r \in Requests[c] : \E n \in r.cuts \cup {Len(r.text)} : ClientAsk(c, r, n)
          \/ ClientSend(c)
          \/ ClientRecv(c)
          \/ ClientClose(c)
          \/ ClientReset(c)
          \/ ListenClient(c)
    \/ \E w \in Workers : Worker(w)

Spec == Init /\ [][Next]_vars

\* A worker that has events to handle or to fetch eventually does: this is
\* WF_vars(Worker(w)), with the ENABLED of a step that always changes vars
\* written out (the bound MaxData is never what stops a worker).
Pending(w) == Up /\ (batch[w] # {} \/ \E fd \in rdlist : reg[fd].worker = w)
WorkerRuns(w) == []<>~Pending(w) \/ []<><<Worker(w)>>_vars

\* The threads run, and a client sends what it has begun and reads what comes.
FairSpec ==
    /\ Spec
    /\ \A w \in Workers : WorkerRuns(w)
    /\ \A c \in Clients :
          WF_vars(ListenClient(c)) /\ WF_vars(ClientSend(c)) /\ WF_vars(ClientRecv(c))

-----------------------------------------------------------------------------
(* Properties.                                                             *)

TypeOK ==
    /\ server \in {"new", "up", "failed"}
    /\ use_co \in Modes /\ handlers \subseteq Handlers
    /\ worker_idx \in Workers
    /\ sock \in [Fds -> Clients \cup {None}]
    /\ \A fd \in Fds : reg[fd] = NoReg \/
          reg[fd] \in [worker : Workers, ev : {"IN", "OUT"}, data : Ids]
    /\ rdlist \subseteq Fds
    /\ \A w \in Workers : \A e \in batch[w] :
          e.fd \in Fds /\ e.events \subseteq {"IN", "OUT", "HUP"} /\ e.data \in Ids
    /\ fault \in {"none", "epoll_ctl"}

\* Every data.ptr the kernel or a batch holds is a live EventData of that very
\* descriptor, although responses and requests replace and delete each other
\* and descriptors are reused: no handler follows a dangling pointer.
PointersValid ==
    /\ \A fd \in Fds : reg[fd] # NoReg => heap[reg[fd].data].fd = fd
    /\ \A w \in Workers : \A e \in batch[w] :
          /\ heap[e.data].fd = e.fd
          /\ reg[e.fd].worker = w /\ reg[e.fd].data = e.data

\* epoll_ctl never fails, so ControlEpollEvent never throws in a thread that
\* nobody catches it in: MOD and DEL always find the descriptor registered.
EpollCtlNeverFails == fault = "none"

\* What send took is, in order, without gap or repetition, what HandleRequestData
\* produced, however the responses are cut; and when the server closes a
\* connection on its own account, all of it was taken.
ResponsesIntact ==
    \A c \in Clients :
      LET k == cl[c]
      IN  /\ k.sent = SubSeq(k.out, 1, Len(k.sent))
          /\ k.phase = "gone" /\ ~k.fin /\ ~k.rst => k.sent = k.out

\* A request that arrives in one piece gets the status and the keep-alive
\* its text asks for once the handlers are registered, in whatever state earlier,
\* cut requests have left the connection.
AnswersRight ==
    \A c \in Clients : \A i \in DOMAIN cl[c].answers :
      LET a == cl[c].answers[i]
      IN  a.whole # None => /\ a.status = a.whole.status
                            /\ a.keep_alive = a.whole.keep_alive

Held(i) == \E fd \in Fds : reg[fd] # NoReg /\ reg[fd].data = i
LeftBehind(i) ==
    \E c \in Clients : \E n \in DOMAIN cl[c].answers : cl[c].answers[n].left = i

\* The only EventData that are never deleted are the requests HandleRead has
\* replaced by a response, one for each answer: every other live object is the
\* data.ptr of a registration, and what is left behind is nobody's data.ptr.
OnlyRequestsLeak ==
    /\ \A i \in Ids : i \in Live <=> (Held(i) \/ LeftBehind(i))
    /\ \A i \in Ids : ~(Held(i) /\ LeftBehind(i))
    /\ \A c, b \in Clients :
          \A m \in DOMAIN cl[c].answers, n \in DOMAIN cl[b].answers :
             cl[c].answers[m].left = cl[b].answers[n].left => c = b /\ m = n

Waiting(c) == Alive(c) /\ cl[c].todo = <<>> /\ ~Answered(c)

\* With plain threads a client that has sent its request and stays is answered
\* in full or sees the connection closed, although every event is reported once
\* (EPOLLET) and the other client may leave at any point: each partial send and
\* each finished response arms the next event.
PlainServed == \A c \in Clients : (Waiting(c) /\ ~use_co) ~> ~Waiting(c)

\* README.md:24 "You can configure it to use coroutine with multiple threads or
\* just multiple threads": the same in both modes.
ClientServed == \A c \in Clients : Waiting(c) ~> ~Waiting(c)
=============================================================================
