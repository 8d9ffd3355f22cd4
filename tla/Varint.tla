------------------------------- MODULE Varint -------------------------------
(***************************************************************************)
(* The integer encodings of src/bytearray.cc, as functions.  A value of    *)
(* w bits is held as its unsigned representation 0 .. 2^w - 1; a byte is   *)
(* 0 .. 255, or Garbage when the code writes a byte it never set.          *)
(***************************************************************************)
EXTENDS Integers, Sequences, FiniteSets, FiniteSetsExt

Garbage == -1

Negative(u, w) == u >= 2^(w - 1)
Not(u, w) == 2^w - 1 - u

\* The bytes of a fixed-length integer, low byte first, on a little endian host.
\* SwapToLittle is the identity: endian.hh is included before any header that
\* defines BYTE_ORDER and BIG_ENDIAN, so its #if compares nothing with nothing.
Fixed(u, w) == [i \in 1 .. (w \div 8) |-> (u \div 256^(i - 1)) % 256]

-----------------------------------------------------------------------------
\* (val << 1) ^ (val >> w-1): the shift is arithmetic for a signed type, and
\* yields the top bit for an unsigned one.
EncodeZigZag(u, w, signed) ==
    LET twice == (2 * u) % 2^w
    IN  IF ~Negative(u, w) THEN twice
        ELSE IF signed THEN Not(twice, w) ELSE twice + 1

\* (val >> 1) ^ -(val & 1), on the unsigned representation.
DecodeZigZag(u, w) == IF u % 2 = 0 THEN u \div 2 ELSE Not(u \div 2, w)

-----------------------------------------------------------------------------
\* max_sz, and how many groups of seven bits there are in u.
MaxSize(w) == CASE w = 8 -> 2 [] w = 16 -> 3 [] w = 32 -> 5 [] w = 64 -> 10
Groups(u, w) == Min({n \in 1 .. MaxSize(w) : u < 128^n})

\* Mutant: six bits are taken to fit.
EncodeVarintSixBits(u, w, signed) ==
    IF signed /\ Negative(u, w) THEN <<>>
    ELSE IF u < 64 THEN <<u>> ELSE <<u \div 128, Garbage>>

\* buf[bytes] is assigned in every turn of the loop but bytes only in the last:
\* the first byte ends up with the highest group and the others are never set.
\* A negative val stays negative when shifted: bytes stays 0.
EncodeVarint(u, w, signed) ==
    LET g == Groups(u, w)
    IN  IF signed /\ Negative(u, w) THEN <<>>
        ELSE [i \in 1 .. g |-> IF i = 1 THEN u \div 128^(g - 1) ELSE Garbage]

\* How many bytes ReadV takes: up to the first one without the top bit, ten at
\* most.
BytesToRead(bytes) ==
    LET ends == {i \in 1 .. Min({10, Len(bytes)}) : bytes[i] < 128}
    IN  IF ends = {} THEN 10 ELSE Min(ends)

\* num is zero if none of the ten is without the top bit.  The loop over the bytes
\* ends after the first one WITH the top bit, which is the first of several.
DecodeVarint(bytes) ==
    IF \A i \in DOMAIN bytes : bytes[i] >= 128 THEN 0 ELSE bytes[1]

WriteV(u, w, signed) == EncodeVarint(EncodeZigZag(u, w, signed), w, signed)
ReadV(bytes, w) ==
    DecodeZigZag(DecodeVarint(SubSeq(bytes, 1, Min({BytesToRead(bytes), Len(bytes)}))), w)

-----------------------------------------------------------------------------
\* The reference: zigzag maps 0, -1, 1, -2, 2, ... to 0, 1, 2, 3, 4, ...
Zig(v) == IF v >= 0 THEN 2 * v ELSE -2 * v - 1

\* EncodeZigZag of a signed type is the zigzag order and DecodeZigZag inverts it,
\* the most negative value included; for an unsigned type the two are inverse
\* for exactly the values below 2^(w-1).
ZigZagExact(u, w) ==
    LET v == IF Negative(u, w) THEN u - 2^w ELSE u
    IN  /\ EncodeZigZag(u, w, TRUE) = Zig(v)
        /\ DecodeZigZag(EncodeZigZag(u, w, TRUE), w) = u
        /\ (DecodeZigZag(EncodeZigZag(u, w, FALSE), w) = u) <=> ~Negative(u, w)
=============================================================================
