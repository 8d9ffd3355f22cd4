---------------------------- MODULE MCEventLoop ----------------------------
(***************************************************************************)
(* TLC instances of EventLoop: who uses which descriptor for what.         *)
(***************************************************************************)
EXTENDS EventLoop, TLC

CONSTANTS c1, c2, f1, f2

Reg(fd, type, func, r, w) ==
    [fd |-> fd, type |-> type, func |-> func, r |-> r, w |-> w]

\* Each coroutine owns its descriptor.  c1 also closes its own; main reads f2,
\* or registers it for both directions: a callback to read and the coroutine c2
\* to write (socket_server.cc).
OwnUses      == {<<c1, f1, "IN">>, <<c1, f1, "OUT">>, <<Main, f2, "IN">>}
OwnCloses    == {<<c1, f1>>}
OwnRegisters == {Reg(f2, {"IN", "OUT"}, {"IN"}, None, c2)}

\* A reader and a writer of one descriptor.
DuplexUses == {<<c1, f1, "IN">>, <<c2, f1, "OUT">>}
=============================================================================
