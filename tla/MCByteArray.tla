----------------------------- MODULE MCByteArray ----------------------------
(* Instances of ByteArray for TLC. *)
EXTENDS ByteArray

\* Two bytes, a zigzag varint of -60 (its code takes seven bits), the empty string
\* and strings of three and of four: every way to end at, before and beyond a
\* block of three, and writes that leave a spare block behind.
SmallItems ==
    {[kind |-> "fixed", val |-> 770, width |-> 16],
     [kind |-> "varint", val |-> 65476, width |-> 16],
     [kind |-> "string", val |-> 0, width |-> 16],
     [kind |-> "string", val |-> 3, width |-> 16],
     [kind |-> "string", val |-> 4, width |-> 16]}

\* The first number, and the first length, whose code takes eight bits.
LongItems ==
    {[kind |-> "varint", val |-> 64, width |-> 16],
     [kind |-> "string", val |-> 64, width |-> 16]}
=============================================================================
