----------------------------- MODULE ByteArray -----------------------------
(***************************************************************************)
(* class ByteArray: a list of blocks of base_size_ bytes with a write and  *)
(* a read pointer, and the typed operations on top of it.                  *)
(*                                                                         *)
(* A block is the sequence of the bytes written to it, so rest_size_ is    *)
(* Base - Len.  The program is a client that writes items and reads them   *)
(* back in order, by the operations that match: it never asks for more     *)
(* than it has written.                                                    *)
(***************************************************************************)
EXTENDS Varint, SequencesExt

CONSTANTS
    Base,      \* base_size_
    Items,     \* what the client writes: [kind, val, width], see Parts
    Lengths,   \* arguments of GetBuffer
    MaxBytes,  \* bound: bytes written since the array was last emptied
    MaxCap     \* bound: an array with more capacity_ is not emptied again

ASSUME ByteArrayAssumption ==
    Base \in Nat \ {0} /\ Lengths \subseteq Nat /\ {MaxBytes, MaxCap} \subseteq Nat

VARIABLES
    list,      \* the object: see List
    written,   \* history: the items written since the array was emptied
    data,      \* history: the bytes it has been given since then
    reads,     \* history: how many of them were read back
    result,    \* history: the bytes the last step, if a read, was due and returned
    hurt,      \* history: "drained" when a read ended at the end of the last
               \* block with data; "padded" when unset bytes were loaded
    crash      \* "none", "null" (a block that is not there), "unset" (bytes
               \* nobody wrote), "range" (the exception of Read)

vars == <<list, written, data, reads, result, hurt, crash>>

RoundUp(n) == (n + Base - 1) \div Base
Rest(block) == Base - Len(block)

\* chain: the blocks reachable from root_ptr_; wp: write_ptr_, as an index of
\* chain; rp: read_ptr_, an index of chain, 0 for null, or -n for the first of n
\* blocks that are no longer in the chain; pos: read_pos_ % base_size_; cap:
\* capacity_.
List ==
    [chain : Seq(Seq(-1 .. 255)), wp : Nat, rp : Int, pos : 0 .. Base - 1, cap : Nat]

Nothing == [due |-> <<>>, got |-> <<>>]
NewList == [chain |-> <<<<>>>>, wp |-> 1, rp |-> 1, pos |-> 0, cap |-> Base]

Init ==
    /\ list = NewList
    /\ written = <<>> /\ data = <<>> /\ reads = 0 /\ hurt = {}
    /\ result = Nothing
    /\ crash = "none"

-----------------------------------------------------------------------------
(* The block list.                                                         *)

\* Mutant: the reader stays where it was.
EmptyKeepsReader(l) == [NewList EXCEPT !.cap = l.cap, !.rp = -Len(l.chain)]

\* What Clear and SetAllBits start with: one new block; capacity_ stays.
Empty(l) == [NewList EXCEPT !.cap = l.cap]

\* Mutant: capacity_ counts one block, however many were added.
ExtendCapacityOnce(l, delta) ==
    [l EXCEPT !.chain = SubSeq(@, 1, l.wp) \o [i \in 1 .. RoundUp(delta) |-> <<>>],
              !.cap = @ + Base,
              !.rp = IF @ > l.wp THEN @ - Len(l.chain) - 1 ELSE @]

\* New blocks are hung onto write_ptr_; those that hung there before are let go,
\* and live on only if read_ptr_ holds them.
ExtendCapacity(l, delta) ==
    LET n == RoundUp(delta)
    IN  [l EXCEPT !.chain = SubSeq(@, 1, l.wp) \o [i \in 1 .. n |-> <<>>],
                  !.cap = @ + n * Base,
                  !.rp = IF @ > l.wp THEN @ - Len(l.chain) - 1 ELSE @]

\* Fill write_ptr_'s block and go on in the next ones, which are empty.
Fill(l, bytes) ==
    LET rest == Rest(l.chain[l.wp])
        used == IF rest < Len(bytes) THEN RoundUp(Len(bytes) - rest) ELSE 0
        \* the bytes that go to the block that is i after write_ptr_
        part(i) == IF i = 0 THEN SubSeq(bytes, 1, Min({rest, Len(bytes)}))
                   ELSE SubSeq(bytes, rest + (i - 1) * Base + 1,
                               Min({rest + i * Base, Len(bytes)}))
    IN  [l EXCEPT !.chain = [i \in DOMAIN @ |->
                               IF i \in l.wp .. l.wp + used
                               THEN @[i] \o part(i - l.wp) ELSE @[i]],
                  !.wp = @ + used]

\* Mutant: a block too few when the bytes do not start in a partly filled one.
WriteTight(l, bytes) ==
    IF Rest(l.chain[l.wp]) < Len(bytes)
    THEN Fill(ExtendCapacity(l, Len(bytes) - 1), bytes) ELSE Fill(l, bytes)

Write(l, bytes) ==
    IF Rest(l.chain[l.wp]) < Len(bytes)
    THEN Fill(ExtendCapacity(l, Len(bytes)), bytes) ELSE Fill(l, bytes)

\* Blocks there are from read_ptr_ on.
Ahead(l) == IF l.rp > 0 THEN Len(l.chain) - l.rp + 1 ELSE -l.rp

\* The byte at a position of the blocks of a chain, laid end to end: base_ptr_
\* of the block the position is in, which was not set beyond what was written.
ByteOf(chain, n) ==
    LET block == chain[n \div Base + 1]
        i == (n % Base) + 1
    IN  IF i <= Len(block) THEN block[i] ELSE Garbage

\* The byte at a position counted from the start of read_ptr_'s block.  Blocks
\* that left the chain were never written.
ByteAt(l, n) ==
    IF l.rp > 0 THEN ByteOf(l.chain, (l.rp - 1) * Base + n) ELSE Garbage

\* Mutant: read_ptr_ moves on with the next read, not at the end of the block.
AfterReadLate(l, n) ==
    [l EXCEPT !.rp = @ + (l.pos + n - 1) \div Base, !.pos = (@ + n) % Base]

\* Read leaves the pointer past a block that it has finished: null after the last.
AfterRead(l, n) ==
    LET blocks == (l.pos + n) \div Base
    IN  [l EXCEPT !.rp = IF blocks = Ahead(l) THEN 0 ELSE @ + blocks,
                  !.pos = (@ + n) % Base]

\* BitsStream, and what GetAllBits hands out: the whole of every block but the
\* last, and of that what was written.
BitsStream(l) ==
    LET last == Len(l.chain)
    IN  [i \in 1 .. (last - 1) * Base + Len(l.chain[last]) |-> ByteOf(l.chain, i - 1)]

-----------------------------------------------------------------------------
(* Operations.                                                             *)

\* What the calls of Write are given that write an item: one call for WriteF* and
\* WriteV* (of no bytes, Write does nothing), the length and the characters for
\* WriteStringWithoutLength of a string with val characters.
Parts(item) ==
    CASE item.kind = "fixed"  -> <<Fixed(item.val, item.width), <<>>>>
      [] item.kind = "varint" -> <<WriteV(item.val, item.width, TRUE), <<>>>>
      [] item.kind = "string" -> <<WriteV(item.val, item.width, FALSE),
                                   [i \in 1 .. item.val |-> 200 + (i % 50)]>>
Encoded(item) == Parts(item)[1] \o Parts(item)[2]

\* The calls of Read that the matching read operation makes, by their sizes: a
\* string is as long as the number says that was read.  (Of 0 bytes, Read does
\* nothing; the single bytes of a number are taken together.)
Pieces(item) ==
    LET code == Parts(item)[1]
    IN  CASE item.kind = "fixed"  -> <<item.width \div 8, 0>>
          [] item.kind = "varint" -> <<BytesToRead(code), 0>>
          [] item.kind = "string" -> <<BytesToRead(code), ReadV(code, item.width)>>

\* The calls of the read operation take just what those of the write operation
\* have written.
Faithful(item) ==
    /\ Parts(item) \in Seq(0 .. 255) \X Seq(0 .. 255) /\ Parts(item)[1] # <<>>
    /\ Pieces(item) = <<Len(Parts(item)[1]), Len(Parts(item)[2])>>

ItemsFaithful == \A item \in Items : Faithful(item)

\* The array's state and the bytes after a call of Read.
Read(s, n) ==
    LET l == s.list
        bytes == [i \in 1 .. n |-> ByteAt(l, l.pos + i - 1)]
    IN  IF s.crash # "none" \/ n = 0 THEN s
        ELSE IF n > l.cap THEN [s EXCEPT !.crash = "range"]
        ELSE IF RoundUp(l.pos + n) > Ahead(l) THEN [s EXCEPT !.crash = "null"]
        ELSE [list |-> AfterRead(l, n), got |-> s.got \o bytes,
              crash |-> IF Garbage \in Range(bytes) THEN "unset" ELSE "none"]

WriteItem(item) ==
    /\ Len(data) + Len(Encoded(item)) <= MaxBytes
    /\ list' = Write(Write(list, Parts(item)[1]), Parts(item)[2])
    /\ written' = Append(written, item)
    /\ data' = data \o Encoded(item)
    /\ result' = Nothing
    /\ UNCHANGED <<reads, hurt, crash>>

\* The next item is read.  After one that was not taken whole the reader is not
\* at an item any more; what it would then return is not modelled.
ReadItem ==
    /\ reads < Len(written)
    /\ \A i \in 1 .. reads : Faithful(written[i])
    /\ LET item == written[reads + 1]
           start == [list |-> list, got |-> <<>>, crash |-> "none"]
           s == Read(Read(start, Pieces(item)[1]), Pieces(item)[2])
           atEnd == reads + 1 = Len(written) /\ s.list.pos = 0
       IN  /\ list' = s.list
           /\ crash' = s.crash
           /\ result' = [due |-> Encoded(item), got |-> s.got]
           /\ hurt' = hurt \cup (IF atEnd THEN {"drained"} ELSE {})
    /\ reads' = reads + 1
    /\ UNCHANGED <<written, data>>

Clear ==
    /\ list.cap <= MaxCap
    /\ list' = Empty(list)
    /\ written' = <<>> /\ data' = <<>> /\ reads' = 0 /\ hurt' = {}
    /\ result' = Nothing
    /\ UNCHANGED crash

\* SetAllBits of what GetAllBits returned.
SetAllBits ==
    LET bits == BitsStream(list)
    IN  /\ list.cap <= MaxCap
        /\ list' = Write(Empty(list), bits)
        /\ data' = bits /\ reads' = 0 /\ result' = Nothing
        /\ hurt' = IF Garbage \in Range(bits) THEN {"padded"} ELSE {}
        /\ UNCHANGED <<written, crash>>

\* GetBuffer hands out the blocks, each with the length that is written.
GetBuffer(n) ==
    /\ list.cap < n
    /\ list' = ExtendCapacity(list, n)
    /\ result' = Nothing
    /\ UNCHANGED <<written, data, reads, hurt, crash>>

\* Nothing is done with the array after a failed read.
Next ==
    /\ crash = "none"
    /\ \/ \E item \in Items : WriteItem(item)
       \/ ReadItem
       \/ Clear
       \/ SetAllBits
       \/ \E n \in Lengths : GetBuffer(n)

Spec == Init /\ [][Next]_vars

-----------------------------------------------------------------------------
\* The fields have their types, write_ptr_ is a block (Write would spin for ever on
\* a null one), and no block holds more than base_size_ bytes.
TypeOK ==
    /\ list \in List
    /\ list.wp \in DOMAIN list.chain /\ list.rp <= Len(list.chain)
    /\ \A i \in DOMAIN list.chain : Len(list.chain[i]) <= Base
    /\ reads \in 0 .. Len(written)
    /\ crash \in {"none", "null", "unset", "range"}

\* Unless bytes that were never set were loaded by SetAllBits, a read returns
\* the bytes that were written for the item, across blocks, Clear, SetAllBits
\* and GetBuffer.
ReadsBack ==
    crash = "none" /\ "padded" \notin hurt => result.got = result.due

\* A read of what was written fails in two cases only.  Drained: the reader had
\* read everything just when that ended a block; read_ptr_ is then null, or on a
\* spare block that the next write lets go.  Padded: SetAllBits has loaded what
\* GetAllBits returned with the unset bytes of a block that was not full, or spare
\* and not the last, and they lie before what was written later.  Otherwise Read
\* follows no null pointer, returns no byte that was not set and does not throw.
FailsOnlyDrainedOrPadded == crash # "none" => hurt # {}

\* BitsStream starts with every byte the array was given, in order, is exactly
\* that when no spare block follows write_ptr_'s, and fits into the buffer of
\* capacity_ bytes it is copied to.
StreamHoldsData ==
    LET bits == BitsStream(list)
    IN  /\ IsPrefix(data, bits)
        /\ list.wp = Len(list.chain) => bits = data
        /\ Len(bits) <= list.cap

\* bytearray.hh:177-212 "write varint", :227 "write string with arbitrary length":
\* the number that is read back, or the length of the string, is the one that was
\* written, unless the read failed for one of the two reasons above.
NumbersReadBack ==
    /\ result # Nothing /\ written[reads].kind \in {"varint", "string"}
    /\ "padded" \notin hurt /\ (crash = "none" \/ hurt = {})
    => ReadV(result.got, written[reads].width) = written[reads].val
=============================================================================
