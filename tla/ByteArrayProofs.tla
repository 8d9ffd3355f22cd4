--------------------------- MODULE ByteArrayProofs --------------------------
(***************************************************************************)
(* The integer encodings of ByteArray, for every value of every width the  *)
(* code instantiates them with, and the block list, for every base_size_,  *)
(* every set of items and every sequence of the client's calls.            *)
(***************************************************************************)
EXTENDS ByteArray, WellFoundedInduction, SequenceTheorems, TLAPS

\* The widths of WriteV8 .. WriteV32 and their unsigned twins.  The provers do not
\* evaluate 2^64; nothing below depends on the width otherwise.
Widths == {8, 16, 32}

\* The powers of two of the widths and of half their range.
LEMMA Powers ==
    \A w \in Widths : \E h \in Nat \ {0} :
      h >= 128 /\ h % 2 = 0 /\ 2^(w - 1) = h /\ 2^w = 2 * h
<1>1. 2^7 = 128
  BY SMT
<1>2. 2^8 = 256
  BY SMT
<1>3. 2^15 = 32768
  BY SMT
<1>4. 2^16 = 65536
  BY SMT
<1>5. 2^31 = 2147483648
  BY SMT
<1>6. 2^32 = 4294967296
  BY SMT
<1> SUFFICES ASSUME NEW w \in Widths
             PROVE  \E h \in Nat \ {0} :
                      h >= 128 /\ h % 2 = 0 /\ 2^(w - 1) = h /\ 2^w = 2 * h
  BY SMT
<1>9. CASE w = 8
  <2>1. w - 1 = 7 /\ 128 \in Nat \ {0} /\ 128 % 2 = 0 /\ 2 * 128 = 256
    BY SMT, <1>9
  <2> QED
    BY SMT, <1>1, <1>2, <1>9, <2>1
<1>10. CASE w = 16
  <2>1. w - 1 = 15 /\ 32768 \in Nat \ {0} /\ 32768 % 2 = 0 /\ 2 * 32768 = 65536
    BY SMT, <1>10
  <2> QED
    BY SMT, <1>3, <1>4, <1>10, <2>1
<1>11. CASE w = 32
  <2>1. w - 1 = 31 /\ 2147483648 % 2 = 0 /\ 2 * 2147483648 = 4294967296
    BY SMT, <1>11
  <2> QED
    BY SMT, <1>5, <1>6, <1>11, <2>1
<1> QED
  BY SMT, <1>9, <1>10, <1>11 DEF Widths

\* Halving and doubling modulo an even number.
LEMMA ZigZagHalf ==
    ASSUME NEW w, NEW h \in Nat \ {0}, h % 2 = 0, 2^(w - 1) = h, 2^w = 2 * h,
           NEW u \in 0 .. 2 * h - 1
    PROVE  ZigZagExact(u, w)
<1>1. Negative(u, w) <=> u >= h
  BY DEF Negative
<1>2. CASE u < h
  <2>1. ~Negative(u, w)
    BY <1>1, <1>2
  <2>2. (2 * u) % (2 * h) = 2 * u
    BY <1>2
  <2>3. EncodeZigZag(u, w, TRUE) = 2 * u /\ EncodeZigZag(u, w, FALSE) = 2 * u
    BY <2>1, <2>2 DEF EncodeZigZag
  <2>4. DecodeZigZag(2 * u, w) = u
    BY DEF DecodeZigZag
  <2>5. Zig(u) = 2 * u
    BY DEF Zig
  <2> QED
    BY <2>1, <2>3, <2>4, <2>5 DEF ZigZagExact
<1>3. CASE u >= h
  <2>1. Negative(u, w)
    BY <1>1, <1>3
  <2>2. (2 * u) % (2 * h) = 2 * u - 2 * h
    <3>1. \A b \in Nat, n \in Int : b > 0 /\ 0 <= n /\ n < b => (b + n) % b = n
      OBVIOUS
    <3>2. 2 * u - 2 * h >= 0 /\ 2 * u - 2 * h < 2 * h /\ 2 * u = 2 * h + (2 * u - 2 * h)
      BY <1>3
    <3> QED
      BY <3>1, <3>2
  <2>3. /\ EncodeZigZag(u, w, TRUE) = 2 * h - 1 - (2 * u - 2 * h)
        /\ EncodeZigZag(u, w, FALSE) = 2 * u - 2 * h + 1
    BY <2>1, <2>2 DEF EncodeZigZag, Not
  <2> DEFINE k == 2 * h - 1 - u
  <2>4. k \in Nat /\ EncodeZigZag(u, w, TRUE) = 2 * k + 1
    <3>1. k \in Nat /\ 2 * h - 1 - (2 * u - 2 * h) = 2 * k + 1
      OBVIOUS
    <3> QED
      BY <2>3, <3>1
  <2>5. DecodeZigZag(2 * k + 1, w) = u
    <3>1. \A n \in Nat : (2 * n + 1) % 2 = 1 /\ (2 * n + 1) \div 2 = n
      OBVIOUS
    <3>2. DecodeZigZag(2 * k + 1, w) = Not(k, w)
      <4> HIDE DEF k
      <4> QED
        BY <2>4, <3>1 DEF DecodeZigZag
    <3> QED
      BY <3>2 DEF Not
  <2>6. Zig(u - 2 * h) = 2 * k + 1
    <3>1. \A v \in Int : v < 0 => Zig(v) = -(2 * v) - 1
      BY DEF Zig
    <3>2. u - 2 * h \in Int /\ u - 2 * h < 0
      OBVIOUS
    <3>3. Zig(u - 2 * h) = -(2 * (u - 2 * h)) - 1
      BY <3>1, <3>2
    <3> QED
      BY <3>3
  <2> DEFINE m == u - h
  <2>7. m \in Nat /\ EncodeZigZag(u, w, FALSE) = 2 * m + 1
    <3>1. m \in Nat /\ 2 * u - 2 * h + 1 = 2 * m + 1
      BY <1>3
    <3> QED
      BY <2>3, <3>1
  <2>8. DecodeZigZag(2 * m + 1, w) = 2 * h - 1 - m
    <3>1. \A n \in Nat : (2 * n + 1) % 2 = 1 /\ (2 * n + 1) \div 2 = n
      OBVIOUS
    <3>2. DecodeZigZag(2 * m + 1, w) = Not(m, w)
      <4> HIDE DEF m
      <4> QED
        BY <2>7, <3>1 DEF DecodeZigZag
    <3> QED
      BY <3>2 DEF Not
  <2>9. 2 * h - 1 - m # u
    BY <1>3
  <2> HIDE DEF k, m
  <2> QED
    BY <2>1, <2>4, <2>5, <2>6, <2>7, <2>8, <2>9 DEF ZigZagExact
<1> QED
  BY <1>2, <1>3

\* EncodeZigZag and DecodeZigZag are the zigzag order and its inverse for every
\* value of the signed types, and inverse to each other for exactly the
\* lower half of the values of the unsigned ones.
THEOREM ZigZagAlwaysExact == \A w \in Widths : \A u \in 0 .. 2^w - 1 : ZigZagExact(u, w)
<1> SUFFICES ASSUME NEW w \in Widths, NEW u \in 0 .. 2^w - 1 PROVE ZigZagExact(u, w)
  OBVIOUS
<1>3. PICK h \in Nat \ {0} : h % 2 = 0 /\ 2^(w - 1) = h /\ 2^w = 2 * h
  BY Powers
<1> QED
  BY <1>3, ZigZagHalf

-----------------------------------------------------------------------------
\* A nonempty set of natural numbers has a minimum.
LEMMA MinIs ==
    ASSUME NEW S \in SUBSET Nat, S # {}
    PROVE  Min(S) \in S /\ \A n \in S : Min(S) <= n
<1>1. PICK m \in S : \A n \in S : ~(<<n, m>> \in OpToRel(<, Nat))
  BY NatLessThanWellFounded, WFMin
<1>2. \A n \in S : m <= n
  <2>1. OpToRel(<, Nat) = {ss \in Nat \X Nat : ss[1] < ss[2]}
    BY DEF OpToRel
  <2>2. \A a, b \in Nat : ~(<<a, b>> \in {ss \in Nat \X Nat : ss[1] < ss[2]}) => b <= a
    OBVIOUS
  <2> QED
    BY <1>1, <2>1, <2>2
<1> QED
  BY <1>2 DEF Min

\* The largest value of each width fits into the groups the encoder counts.
LEMMA GroupsCover == \A w \in Widths : MaxSize(w) \in 2 .. 5 /\ 2^w <= 128^MaxSize(w)
<1>1. 2^8 <= 128^2
  OBVIOUS
<1>2. 2^16 <= 128^3
  OBVIOUS
<1>3. 2^32 <= 128^5
  OBVIOUS
<1>4. MaxSize(8) = 2 /\ MaxSize(16) = 3 /\ MaxSize(32) = 5
  BY DEF MaxSize
<1> SUFFICES ASSUME NEW w \in Widths
             PROVE  MaxSize(w) \in 2 .. 5 /\ 2^w <= 128^MaxSize(w)
  OBVIOUS
<1>5. CASE w = 8
  <2>1. MaxSize(w) = 2
    BY <1>4, <1>5
  <2>2. 2^w = 2^8
    BY <1>5
  <2>3. 128^MaxSize(w) = 128^2
    BY <2>1
  <2>4. 2^w <= 128^MaxSize(w)
    BY <1>1, <2>2, <2>3
  <2> QED
    BY <2>1, <2>4
<1>6. CASE w = 16
  <2>1. MaxSize(w) = 3
    BY <1>4, <1>6
  <2>2. 2^w = 2^16
    BY <1>6
  <2>3. 128^MaxSize(w) = 128^3
    BY <2>1
  <2>4. 2^w <= 128^MaxSize(w)
    BY <1>2, <2>2, <2>3
  <2> QED
    BY <2>1, <2>4
<1>7. CASE w = 32
  <2>1. MaxSize(w) = 5
    BY <1>4, <1>7
  <2>2. 2^w = 2^32
    BY <1>7
  <2>3. 128^MaxSize(w) = 128^5
    BY <2>1
  <2>4. 2^w <= 128^MaxSize(w)
    BY <1>3, <2>2, <2>3
  <2> QED
    BY <2>1, <2>4
<1> QED
  BY <1>5, <1>6, <1>7 DEF Widths

\* A code of seven bits is one group, any other more than one.
LEMMA GroupsIs ==
    ASSUME NEW w \in Widths, NEW e \in 0 .. 2^w - 1, 2^w \in Nat
    PROVE  Groups(e, w) \in Nat \ {0} /\ (Groups(e, w) = 1 <=> e < 128)
<1> DEFINE S == {n \in 1 .. MaxSize(w) : e < 128^n}
<1>1. MaxSize(w) \in S /\ MaxSize(w) \in Nat
  <2>1. MaxSize(w) \in 2 .. 5 /\ 2^w <= 128^MaxSize(w)
    BY GroupsCover
  <2>2. 128^MaxSize(w) \in Nat
    BY <2>1
  <2> QED
    BY <2>1, <2>2
<1>2. 1 \in S <=> e < 128
  <2>1. 128^1 = 128
    OBVIOUS
  <2> QED
    BY <1>1, <2>1
<1>3. S \in SUBSET Nat /\ \A n \in S : n >= 1
  BY <1>1
<1>4. Min(S) \in S /\ \A n \in S : Min(S) <= n
  <2> HIDE DEF S
  <2> QED
    BY <1>1, <1>3, MinIs
<1>5. Groups(e, w) = Min(S)
  BY DEF Groups
<1> HIDE DEF S
<1>6. PICK m \in S : m = Min(S)
  BY <1>4
<1>7. m \in Nat /\ m >= 1
  BY <1>3
<1>8. m = 1 <=> 1 \in S
  BY <1>3, <1>4, <1>6, <1>7
<1> QED
  BY <1>2, <1>5, <1>6, <1>7, <1>8

\* The zigzag code is a value of the width.
LEMMA ZigZagRange ==
    ASSUME NEW w \in Widths, NEW u \in 0 .. 2^w - 1, NEW signed \in BOOLEAN
    PROVE  EncodeZigZag(u, w, signed) \in 0 .. 2^w - 1 /\ 2^w \in Nat
<1>3. PICK h \in Nat \ {0} : 2^(w - 1) = h /\ 2^w = 2 * h
  BY Powers
<1>4. CASE u < h
  <2>1. (2 * u) % (2 * h) = 2 * u /\ ~Negative(u, w)
    BY <1>3, <1>4 DEF Negative
  <2>2. EncodeZigZag(u, w, signed) = 2 * u
    BY <1>3, <2>1 DEF EncodeZigZag
  <2> QED
    BY <1>3, <1>4, <2>2
<1>5. CASE u >= h
  <2>1. (2 * u) % (2 * h) = 2 * u - 2 * h
    <3>1. \A b \in Nat, n \in Int : b > 0 /\ 0 <= n /\ n < b => (b + n) % b = n
      OBVIOUS
    <3>2. 2 * u - 2 * h >= 0 /\ 2 * u - 2 * h < 2 * h /\ 2 * u = 2 * h + (2 * u - 2 * h)
      BY <1>3, <1>5
    <3> QED
      BY <3>1, <3>2
  <2>2. Negative(u, w)
    BY <1>3, <1>5 DEF Negative
  <2>3. EncodeZigZag(u, w, signed) \in {2 * h - 1 - (2 * u - 2 * h), 2 * u - 2 * h + 1}
    BY <1>3, <2>1, <2>2 DEF EncodeZigZag, Not
  <2> QED
    BY <1>3, <1>5, <2>3
<1> QED
  BY <1>3, <1>4, <1>5

\* What WriteV writes: a code that fits into seven bits is the one byte that is
\* written; of any other code nothing is written (a negative code of a signed
\* type), or every byte after the first is one that nobody has set.  This is why
\* NumbersReadBack holds for short numbers only.
THEOREM WriteVKeepsSevenBits ==
    \A w \in Widths : \A u \in 0 .. 2^w - 1, signed \in BOOLEAN :
      LET e == EncodeZigZag(u, w, signed)
          bytes == WriteV(u, w, signed)
      IN  /\ e < 128 => Len(bytes) = 1 /\ bytes[1] = e
          /\ e >= 128 => \/ bytes = <<>>
                         \/ /\ Len(bytes) >= 2
                            /\ \A i \in 2 .. Len(bytes) : bytes[i] = Garbage
<1> SUFFICES ASSUME NEW w \in Widths, NEW u \in 0 .. 2^w - 1, NEW signed \in BOOLEAN
             PROVE  LET e == EncodeZigZag(u, w, signed)
                        bytes == WriteV(u, w, signed)
                    IN  /\ e < 128 => Len(bytes) = 1 /\ bytes[1] = e
                        /\ e >= 128 =>
                             \/ bytes = <<>>
                             \/ /\ Len(bytes) >= 2
                                /\ \A i \in 2 .. Len(bytes) : bytes[i] = Garbage
  OBVIOUS
<1>1. PICK e \in 0 .. 2^w - 1 : e = EncodeZigZag(u, w, signed)
  BY ZigZagRange
<1>2. PICK g : g = Groups(e, w)
  OBVIOUS
<1>3. g \in Nat \ {0} /\ (g = 1 <=> e < 128) /\ e \in Nat
  BY <1>1, <1>2, GroupsIs, ZigZagRange
<1>4. e < 128 => ~Negative(e, w)
  <2>1. PICK h \in Nat \ {0} : h >= 128 /\ 2^(w - 1) = h
    BY Powers
  <2> QED
    BY <1>3, <2>1 DEF Negative
<1>5. PICK bytes : bytes = WriteV(u, w, signed)
  OBVIOUS
<1>6. CASE signed /\ Negative(e, w)
  <2>1. bytes = <<>>
    BY <1>1, <1>5, <1>6 DEF WriteV, EncodeVarint
  <2> QED
    BY <1>1, <1>4, <1>5, <1>6, <2>1
<1>7. CASE ~(signed /\ Negative(e, w))
  <2>1. bytes = [i \in 1 .. g |-> IF i = 1 THEN e \div 128^(g - 1) ELSE Garbage]
    BY <1>1, <1>2, <1>5, <1>7 DEF WriteV, EncodeVarint
  <2>2. Len(bytes) = g
    BY <1>3, <2>1
  <2>3. g = 1 => bytes[1] = e
    <3>1. 128^0 = 1 /\ e \div 1 = e
      BY <1>3
    <3>2. g = 1 => bytes[1] = e \div 128^0
      BY <2>1
    <3> QED
      BY <3>1, <3>2
  <2>4. \A i \in 2 .. g : bytes[i] = Garbage
    BY <1>3, <2>1
  <2>5. e >= 128 => g >= 2
    BY <1>3
  <2> QED
    BY <1>1, <1>3, <1>5, <2>2, <2>3, <2>4, <2>5
<1> QED
  BY <1>6, <1>7

-----------------------------------------------------------------------------
(* The blocks, laid end to end.                                            *)

\* Where block i starts.
Start(i) == (i - 1) * Base

\* base_size_ is a number, and positive.
LEMMA BaseNat == Base \in Nat /\ Base >= 1
BY ByteArrayAssumption

\* One block after the other.
LEMMA StartAdd ==
    /\ Start(1) = 0
    /\ \A i \in Int : Start(i) \in Int /\ Start(i + 1) = Start(i) + Base
    /\ \A i, k \in Int : Start(i + k) = Start(i) + k * Base
    /\ \A k \in Int : Start(k + 1) = k * Base
BY BaseNat DEF Start

\* The same, without products.
LEMMA StartNext ==
    Start(1) = 0 /\ \A i \in Int : Start(i) \in Int /\ Start(i + 1) = Start(i) + Base
BY StartAdd

\* An earlier block ends before a later one starts.
LEMMA StartMono ==
    \A i, j \in Int : i < j => Start(i) + Base <= Start(j)
<1> SUFFICES ASSUME NEW i \in Int, NEW j \in Int, i < j PROVE Start(i) + Base <= Start(j)
  OBVIOUS
<1>1. PICK d \in Nat : j = i + 1 + d
  <2>1. j - i - 1 \in Nat /\ j = i + 1 + (j - i - 1)
    OBVIOUS
  <2> QED
    BY <2>1
<1>2. Start(j) = Start(i + 1) + d * Base
  BY <1>1, StartAdd
<1>3. d * Base >= 0 /\ d * Base \in Int
  BY BaseNat
<1>4. Start(i) \in Int /\ Start(i + 1) = Start(i) + Base
  BY StartAdd
<1> QED
  BY <1>2, <1>3, <1>4, BaseNat

\* A position is in one block.
LEMMA StartUnique ==
    ASSUME NEW i \in Int, NEW j \in Int, NEW o \in 0 .. Base - 1, NEW r \in 0 .. Base - 1,
           Start(i) + o = Start(j) + r
    PROVE  i = j /\ o = r
<1>1. Start(i) \in Int /\ Start(j) \in Int
  BY StartNext
<1>2. ~(i < j)
  BY <1>1, StartMono, BaseNat
<1>3. ~(j < i)
  BY <1>1, StartMono, BaseNat
<1>4. i = j
  BY <1>2, <1>3
<1> QED
  BY <1>1, <1>4, BaseNat

\* Every position is in a block, which division finds.
LEMMA Place ==
    ASSUME NEW n \in Nat
    PROVE  /\ (n \div Base) + 1 \in Nat \ {0} /\ n % Base \in 0 .. Base - 1
           /\ n = Start((n \div Base) + 1) + (n % Base)
<1>1. PICK a \in Int, b \in Int : a = n \div Base /\ b = n % Base
  BY BaseNat
<1>2. n = a * Base + b /\ 0 <= b /\ b < Base
  BY <1>1, BaseNat
<1>3. a >= 0
  <2>1. \A k \in Int : k <= -1 => k * Base <= 0 - Base
    BY BaseNat
  <2> QED
    BY <1>2, <2>1, BaseNat
<1>4. Start(a + 1) = a * Base
  BY StartAdd
<1>5. (n \div Base) + 1 = a + 1 /\ n % Base = b
  BY <1>1, Zenon
<1>6. a + 1 \in Nat \ {0} /\ b \in 0 .. Base - 1 /\ n = Start(a + 1) + b
  BY <1>2, <1>3, <1>4, BaseNat
<1> QED
  BY <1>5, <1>6, Zenon

\* The block and the offset of a position are those it was made of.
LEMMA PlaceOf ==
    ASSUME NEW i \in Nat \ {0}, NEW o \in 0 .. Base - 1
    PROVE  /\ Start(i) \in Nat
           /\ (Start(i) + o) \div Base + 1 = i /\ (Start(i) + o) % Base = o
<1>1. Start(i) \in Nat
  <2>1. i = 1 \/ 1 < i
    OBVIOUS
  <2>2. Start(1) = 0 /\ Start(i) \in Int
    BY StartNext
  <2>3. 1 < i => Start(1) + Base <= Start(i)
    BY StartMono
  <2> QED
    BY <2>1, <2>2, <2>3, BaseNat
<1>2. PICK n \in Nat : n = Start(i) + o
  BY <1>1, BaseNat
<1>3. /\ (n \div Base) + 1 \in Nat \ {0} /\ n % Base \in 0 .. Base - 1
      /\ n = Start((n \div Base) + 1) + (n % Base)
  BY Place
<1>4. PICK j \in Nat \ {0}, r \in 0 .. Base - 1 : j = (n \div Base) + 1 /\ r = n % Base
  BY <1>3
<1>5. Start(i) + o = Start(j) + r
  BY <1>2, <1>3, <1>4, Zenon
<1>6. i = j /\ o = r
  BY <1>5, StartUnique
<1> QED
  BY <1>1, <1>2, <1>4, <1>6

\* RoundUp is the number of blocks that hold so many bytes.
LEMMA RoundUpIs ==
    ASSUME NEW n \in Nat
    PROVE  /\ RoundUp(n) \in Nat
           /\ n <= Start(RoundUp(n) + 1) /\ Start(RoundUp(n) + 1) < n + Base
           /\ \A m \in Nat : n <= Start(m + 1) => RoundUp(n) <= m
<1>1. PICK k \in Nat : k = n + Base - 1
  BY BaseNat
<1>2. /\ (k \div Base) + 1 \in Nat \ {0} /\ k % Base \in 0 .. Base - 1
      /\ k = Start((k \div Base) + 1) + (k % Base)
  BY Place
<1>3. PICK a \in Nat, b \in 0 .. Base - 1 : a = k \div Base /\ b = k % Base
  <2>1. k \div Base \in Int
    BY BaseNat
  <2> QED
    BY <1>2, <2>1
<1>4. RoundUp(n) = a
  BY <1>1, <1>3 DEF RoundUp
<1>5. Start(a + 1) \in Int /\ k = Start(a + 1) + b
  <2>1. k = Start(a + 1) + b
    BY <1>2, <1>3, Zenon
  <2> QED
    BY <2>1, StartNext
<1>6. n <= Start(a + 1) /\ Start(a + 1) < n + Base
  BY <1>1, <1>5, BaseNat
<1>7. ASSUME NEW m \in Nat, n <= Start(m + 1), m < a PROVE FALSE
  <2>1. Start(m + 1) + Base <= Start(a + 1) /\ Start(m + 1) \in Int
    BY <1>7, StartMono, StartNext
  <2> QED
    BY <1>6, <1>7, <2>1, BaseNat, <1>5
<1> QED
  BY <1>4, <1>6, <1>7

-----------------------------------------------------------------------------
(* The list as one sequence of bytes.                                      *)

Byte == -1 .. 255
Blocks == Seq(Seq(Byte))

\* Blocks before write_ptr_'s are full and those behind it empty; its own is so
\* only if it is the first.
Filled(c, w) ==
    /\ c \in Blocks /\ w \in 1 .. Len(c)
    /\ w > 1 => Len(c[w]) > 0
    /\ \A i \in 1 .. Len(c) :
          /\ Len(c[i]) <= Base
          /\ i < w => Len(c[i]) = Base
          /\ i > w => Len(c[i]) = 0

\* The blocks hold the bytes of d, in order and without gap.
Holds(c, w, d) ==
    /\ d \in Seq(Byte)
    /\ Len(d) = Start(w) + Len(c[w])
    /\ \A i \in 1 .. w : \A o \in 1 .. Len(c[i]) : d[Start(i) + o] = c[i][o]

\* capacity_ counts every block of the chain at least.
Shape(l) ==
    /\ l \in List
    /\ Filled(l.chain, l.wp)
    /\ l.rp <= Len(l.chain)
    /\ Start(Len(l.chain) + 1) <= l.cap

Flat(l, d) == Holds(l.chain, l.wp, d)

\* The sizes of the blocks.
LEMMA FilledSizes ==
    ASSUME NEW c, NEW w, Filled(c, w)
    PROVE  /\ c \in Blocks /\ Len(c) \in Nat /\ w \in Nat /\ 1 <= w /\ w <= Len(c)
           /\ \A i \in 1 .. Len(c) :
                 /\ c[i] \in Seq(Byte) /\ Len(c[i]) \in Nat /\ Len(c[i]) <= Base
                 /\ i < w => Len(c[i]) = Base
                 /\ i > w => Len(c[i]) = 0
           /\ w > 1 => Len(c[w]) > 0
<1>1. c \in Blocks /\ w \in 1 .. Len(c) /\ (w > 1 => Len(c[w]) > 0)
  BY DEF Filled
<1>2. Len(c) \in Nat /\ \A i \in 1 .. Len(c) : c[i] \in Seq(Byte)
  BY <1>1, LenProperties, ElementOfSeq DEF Blocks
<1>3. \A i \in 1 .. Len(c) : Len(c[i]) \in Nat
  BY <1>2, LenProperties
<1>4. w \in Nat /\ 1 <= w /\ w <= Len(c)
  BY <1>1, <1>2
<1>5. \A i \in 1 .. Len(c) :
         /\ Len(c[i]) <= Base /\ (i < w => Len(c[i]) = Base) /\ (i > w => Len(c[i]) = 0)
  BY DEF Filled
<1> QED
  BY <1>1, <1>2, <1>3, <1>4, <1>5

\* The fields of a list.
LEMMA ListFields ==
    ASSUME NEW l, Shape(l)
    PROVE  \E c \in Blocks, w \in Nat, r \in Int, p \in 0 .. Base - 1, k \in Nat :
             /\ l = [chain |-> c, wp |-> w, rp |-> r, pos |-> p, cap |-> k]
             /\ Filled(c, w) /\ r <= Len(c) /\ Start(Len(c) + 1) <= k
<1>1. /\ l.rp \in Int /\ l.pos \in 0 .. Base - 1 /\ l.cap \in Nat
      /\ l = [chain |-> l.chain, wp |-> l.wp, rp |-> l.rp, pos |-> l.pos, cap |-> l.cap]
  BY DEF Shape, List
<1>2. Filled(l.chain, l.wp) /\ l.rp <= Len(l.chain) /\ Start(Len(l.chain) + 1) <= l.cap
  BY DEF Shape
<1>3. l.chain \in Blocks /\ l.wp \in Nat
  BY <1>2, FilledSizes
<1> QED
  BY <1>1, <1>2, <1>3, Zenon

\* A list made of its fields.
LEMMA ListMade ==
    ASSUME NEW c, NEW w, Filled(c, w), NEW r \in Int, NEW p \in 0 .. Base - 1,
           NEW k \in Nat, r <= Len(c), Start(Len(c) + 1) <= k
    PROVE  Shape([chain |-> c, wp |-> w, rp |-> r, pos |-> p, cap |-> k])
<1>1. c \in Seq(Seq(-1 .. 255)) /\ w \in Nat
  BY FilledSizes DEF Blocks, Byte
<1> QED
  BY <1>1 DEF Shape, List

\* The byte at an offset of a block.
LEMMA ByteOfIs ==
    ASSUME NEW chain, NEW i \in Nat \ {0}, NEW o \in 0 .. Base - 1
    PROVE  ByteOf(chain, Start(i) + o) =
             IF o + 1 <= Len(chain[i]) THEN chain[i][o + 1] ELSE Garbage
<1>1. PICK n : n = Start(i) + o
  OBVIOUS
<1>2. (n \div Base) + 1 = i /\ n % Base = o
  BY <1>1, PlaceOf
<1>3. ByteOf(chain, n) = IF o + 1 <= Len(chain[i]) THEN chain[i][o + 1] ELSE Garbage
  BY <1>2, Zenon DEF ByteOf
<1> QED
  BY <1>1, <1>3, Zenon

\* A position below the length of the data is in a block up to write_ptr_'s, and
\* holds the byte of the data.
LEMMA FlatByte ==
    ASSUME NEW c, NEW w, NEW d, Filled(c, w), Holds(c, w, d), NEW n \in Nat, n < Len(d)
    PROVE  ByteOf(c, n) = d[n + 1]
<1>1. PICK i \in Nat \ {0}, o \in 0 .. Base - 1 : n = Start(i) + o
  BY Place
<1>2. w \in Nat /\ 1 <= w /\ w <= Len(c) /\ Len(c) \in Nat
  BY FilledSizes
<1>3. PICK z \in Nat : z = Len(c[w]) /\ z <= Base
  BY <1>2, FilledSizes
<1>4. Start(i) \in Int /\ Start(w) \in Int
  BY <1>2, StartNext
<1>5. n < Start(w) + z
  BY <1>3 DEF Holds
<1>6. i <= w
  <2>1. w < i => Start(w) + Base <= Start(i)
    BY <1>2, StartMono
  <2> QED
    BY <1>1, <1>2, <1>3, <1>4, <1>5, <2>1, BaseNat, SMTT(40)
<1>7. i \in 1 .. Len(c) /\ i \in 1 .. w
  BY <1>2, <1>6
<1>8. PICK y \in Nat : y = Len(c[i])
  BY <1>7, FilledSizes
<1>9. o + 1 <= y
  <2>1. CASE i < w
    <3>1. y = Base
      BY <1>7, <1>8, <2>1, FilledSizes
    <3> QED
      BY <3>1, BaseNat
  <2>2. CASE i = w
    <3>1. y = z
      BY <1>3, <1>8, <2>2
    <3> QED
      BY <1>1, <1>4, <1>5, <2>2, <3>1, BaseNat
  <2> QED
    BY <1>2, <1>6, <2>1, <2>2
<1>10. o + 1 \in 1 .. Len(c[i]) /\ o + 1 <= Len(c[i])
  BY <1>8, <1>9, BaseNat
<1>11. d[Start(i) + (o + 1)] = c[i][o + 1]
  BY <1>7, <1>10 DEF Holds
<1>12. ByteOf(c, n) = c[i][o + 1]
  BY <1>1, <1>10, ByteOfIs
<1>13. Start(i) + (o + 1) = n + 1
  BY <1>1, <1>4, BaseNat
<1> QED
  BY <1>11, <1>12, <1>13

\* Behind the data there is a byte that was not set, if there is a block.
LEMMA FlatEnd ==
    ASSUME NEW c, NEW w, NEW d, Filled(c, w), Holds(c, w, d),
           Len(d) < Start(Len(c) + 1)
    PROVE  ByteOf(c, Len(d)) = Garbage
<1>1. w \in Nat /\ 1 <= w /\ w <= Len(c) /\ Len(c) \in Nat
  BY FilledSizes
<1>2. PICK z \in Nat : z = Len(c[w]) /\ z <= Base
  BY <1>1, FilledSizes
<1>3. Start(w) \in Int /\ Start(w + 1) = Start(w) + Base
  BY <1>1, StartNext
<1>4. Len(d) = Start(w) + z
  BY <1>2 DEF Holds
<1>5. CASE z < Base
  <2>1. z \in 0 .. Base - 1 /\ w \in Nat \ {0} /\ ~(z + 1 <= z)
    BY <1>1, <1>5, BaseNat
  <2>2. ByteOf(c, Start(w) + z) = Garbage
    BY <1>2, <2>1, ByteOfIs
  <2> QED
    BY <1>4, <2>2
<1>6. CASE z = Base
  <2>1. Len(d) = Start(w + 1)
    BY <1>3, <1>4, <1>6
  <2>2. w # Len(c)
    <3>1. \A i \in Int : ~(Start(i) < Start(i))
      BY StartNext
    <3> QED
      BY <1>1, <2>1, <3>1
  <2>3. PICK i \in Nat \ {0} : i = w + 1
    BY <1>1
  <2>4. i \in 1 .. Len(c) /\ i > w
    BY <1>1, <2>2, <2>3
  <2>5. Len(c[i]) = 0
    BY <2>4, FilledSizes
  <2>6. 0 \in 0 .. Base - 1 /\ Start(i) + 0 = Len(d) /\ ~(0 + 1 <= Len(c[i]))
    BY <1>3, <2>1, <2>3, <2>5, BaseNat
  <2>7. ByteOf(c, Start(i) + 0) = Garbage
    BY <2>6, ByteOfIs
  <2> QED
    BY <2>6, <2>7
<1> QED
  BY <1>2, <1>5, <1>6, BaseNat

\* What ExtendCapacity makes of a list with these fields.
Extended(c, w, r, p, k, delta) ==
    \E e \in Blocks, q \in Int, h \in Nat :
       /\ ExtendCapacity([chain |-> c, wp |-> w, rp |-> r, pos |-> p, cap |-> k], delta)
            = [chain |-> e, wp |-> w, rp |-> q, pos |-> p, cap |-> h]
       /\ Filled(e, w) /\ q <= Len(e) /\ Start(Len(e) + 1) <= h
       /\ Len(e) = w + RoundUp(delta) /\ e[w] = c[w]
       /\ r > w => q = r - Len(c) - 1
       /\ ~(r > w) => q = r
       /\ \A d : Holds(c, w, d) => Holds(e, w, d)

\* Blocks that are hung onto write_ptr_ take nothing away.
LEMMA ExtendIs ==
    ASSUME NEW c, NEW w, Filled(c, w), NEW r \in Int, NEW p \in 0 .. Base - 1, NEW k \in Nat,
           r <= Len(c), Start(Len(c) + 1) <= k, NEW delta \in Nat
    PROVE  Extended(c, w, r, p, k, delta)
<1> DEFINE n == RoundUp(delta)
           a == SubSeq(c, 1, w)
           b == [i \in 1 .. n |-> <<>>]
           e == a \o b
           h == k + n * Base
           q == IF r > w THEN r - Len(c) - 1 ELSE r
           l == [chain |-> c, wp |-> w, rp |-> r, pos |-> p, cap |-> k]
<1>1. /\ c \in Blocks /\ Len(c) \in Nat /\ w \in Nat /\ 1 <= w /\ w <= Len(c)
      /\ \A i \in 1 .. Len(c) :
            /\ c[i] \in Seq(Byte) /\ Len(c[i]) \in Nat /\ Len(c[i]) <= Base
            /\ i < w => Len(c[i]) = Base
            /\ i > w => Len(c[i]) = 0
      /\ w > 1 => Len(c[w]) > 0
  BY FilledSizes
<1>2. n \in Nat
  BY RoundUpIs
<1>3. ExtendCapacity(l, delta) = [chain |-> e, wp |-> w, rp |-> q, pos |-> p, cap |-> h]
  <2>1. ExtendCapacity(l, delta) =
          [l EXCEPT !.chain = SubSeq(@, 1, l.wp) \o [i \in 1 .. n |-> <<>>],
                    !.cap = @ + n * Base,
                    !.rp = IF @ > l.wp THEN @ - Len(l.chain) - 1 ELSE @]
    BY Zenon DEF ExtendCapacity
  <2>2. /\ l.chain = c /\ l.wp = w /\ l.rp = r /\ l.pos = p /\ l.cap = k
    OBVIOUS
  <2>3. ExtendCapacity(l, delta) = [l EXCEPT !.chain = e, !.cap = h, !.rp = q]
    <3> HIDE DEF n, l
    <3> QED
      BY <2>1, <2>2, Zenon
  <2> HIDE DEF e, h, q, n
  <2> QED
    BY <2>3
<1> HIDE DEF n, l
<1>4. a \in Blocks /\ Len(a) = w /\ \A i \in 1 .. w : a[i] = c[i]
  <2>1. \A i \in 1 .. w : c[i] \in Seq(Byte)
    BY <1>1
  <2>2. /\ a \in Seq(Seq(Byte))
        /\ Len(a) = IF 1 <= w THEN w - 1 + 1 ELSE 0
        /\ \A i \in 1 .. w - 1 + 1 : a[i] = c[1 + i - 1]
    BY <1>1, <2>1, SubSeqProperties, SMTT(40) DEF Blocks
  <2> HIDE DEF a
  <2> QED
    BY <1>1, <2>2, SMTT(40) DEF Blocks
<1>5. b \in Blocks /\ Len(b) = n /\ \A i \in 1 .. n : b[i] = <<>>
  <2>1. <<>> \in Seq(Byte)
    OBVIOUS
  <2>2. b \in [1 .. n -> Seq(Byte)] /\ \A i \in 1 .. n : b[i] = <<>>
    BY <2>1
  <2> HIDE DEF b
  <2>3. b \in Seq(Seq(Byte))
    BY <1>2, <2>2, SeqDef
  <2> QED
    BY <1>2, <2>2, <2>3, LenProperties DEF Blocks
<1> HIDE DEF a, b
<1>6. /\ e \in Blocks /\ Len(e) = w + n
      /\ \A i \in 1 .. w : e[i] = c[i]
      /\ \A i \in w + 1 .. w + n : e[i] = <<>>
  <2>1. /\ e \in Seq(Seq(Byte)) /\ Len(e) = Len(a) + Len(b)
        /\ \A i \in 1 .. Len(a) + Len(b) : e[i] = IF i <= Len(a) THEN a[i] ELSE b[i - Len(a)]
    BY <1>4, <1>5, ConcatProperties DEF Blocks
  <2> HIDE DEF e
  <2>2. \A i \in 1 .. w : e[i] = c[i]
    <3>1. \A i \in 1 .. w : i \in 1 .. w + n /\ i <= w
      BY <1>1, <1>2
    <3> QED
      BY <1>4, <1>5, <2>1, <3>1
  <2>3. ASSUME NEW i \in w + 1 .. w + n PROVE e[i] = <<>>
    <3>1. i \in 1 .. w + n /\ ~(i <= w) /\ i - w \in 1 .. n
      BY <1>1, <1>2
    <3> QED
      BY <1>4, <1>5, <2>1, <3>1
  <2> QED
    BY <1>4, <1>5, <2>1, <2>2, <2>3 DEF Blocks
<1> HIDE DEF e
<1>7. h \in Nat /\ n * Base \in Nat
  <2>1. Start(1 + n) = Start(1) + n * Base /\ Start(1) = 0 /\ n * Base \in Int
    BY <1>2, StartAdd, StartNext, BaseNat
  <2>2. 1 + n \in Nat \ {0} /\ 0 \in 0 .. Base - 1
    BY <1>2, BaseNat
  <2>3. Start(1 + n) \in Nat
    BY <2>2, PlaceOf
  <2> QED
    BY <2>1, <2>3
<1>8. q \in Int /\ q <= Len(e)
  BY <1>1, <1>2, <1>6
<1>9. Start(Len(e) + 1) <= h
  <2>1. Start((w + 1) + n) = Start(w + 1) + n * Base
    BY <1>1, <1>2, StartAdd
  <2>2. Start(w + 1) \in Int /\ Start(Len(c) + 1) \in Int
    BY <1>1, StartNext
  <2>3. Start(w + 1) <= Start(Len(c) + 1)
    <3>1. CASE w = Len(c)
      BY <2>2, <3>1
    <3>2. CASE w + 1 < Len(c) + 1
      <4>1. Start(w + 1) + Base <= Start(Len(c) + 1)
        BY <1>1, <3>2, StartMono
      <4> QED
        BY <2>2, <4>1, BaseNat
    <3> QED
      BY <1>1, <3>1, <3>2
  <2>4. Len(e) + 1 = (w + 1) + n
    BY <1>1, <1>2, <1>6
  <2> QED
    BY <1>7, <2>1, <2>2, <2>3, <2>4
<1>10. Filled(e, w)
  <2>1. ASSUME NEW i \in 1 .. Len(e)
        PROVE  /\ Len(e[i]) <= Base
               /\ i < w => Len(e[i]) = Base
               /\ i > w => Len(e[i]) = 0
    <3>1. CASE i \in 1 .. w
      <4>1. e[i] = c[i] /\ i \in 1 .. Len(c)
        BY <1>1, <1>6, <3>1
      <4> QED
        BY <1>1, <3>1, <4>1
    <3>2. CASE i \in w + 1 .. w + n
      <4>1. Len(e[i]) = 0 /\ ~(i < w)
        BY <1>1, <1>2, <1>6, <3>2
      <4> QED
        BY <4>1, BaseNat
    <3>3. i \in 1 .. w \/ i \in w + 1 .. w + n
      BY <1>1, <1>2, <1>6
    <3> QED
      BY <3>1, <3>2, <3>3
  <2>2. w \in 1 .. Len(e) /\ w \in 1 .. w
    BY <1>1, <1>2, <1>6
  <2>3. w > 1 => Len(e[w]) > 0
    BY <1>1, <1>6, <2>2
  <2> QED
    BY <1>6, <2>1, <2>2, <2>3 DEF Filled
<1>11. ASSUME NEW d, Holds(c, w, d) PROVE Holds(e, w, d)
  <2>1. w \in 1 .. w
    BY <1>1
  <2> QED
    BY <1>6, <1>11, <2>1 DEF Holds
<1>12. e[w] = c[w] /\ Len(e) = w + RoundUp(delta)
  BY <1>1, <1>6 DEF n
<1> HIDE DEF h
<1> QED
  <2>1. (r > w => q = r - Len(c) - 1) /\ (~(r > w) => q = r)
    OBVIOUS
  <2> HIDE DEF q
  <2> QED
    BY <1>3, <1>6, <1>7, <1>8, <1>9, <1>10, <1>11, <1>12, <2>1, Zenon DEF l, Extended

\* Blocks on top of blocks.
LEMMA StartSum ==
    \A i, k \in Int : Start(i + k) = Start(i) + Start(k + 1)
BY StartAdd

\* The smaller of two numbers.
LEMMA MinOfTwo ==
    ASSUME NEW x \in Nat, NEW y \in Nat
    PROVE  Min({x, y}) = IF x <= y THEN x ELSE y
<1>1. {x, y} \in SUBSET Nat /\ {x, y} # {}
  OBVIOUS
<1>2. Min({x, y}) \in {x, y} /\ \A n \in {x, y} : Min({x, y}) <= n
  BY <1>1, MinIs
<1>3. PICK m : m = Min({x, y})
  OBVIOUS
<1>4. (m = x \/ m = y) /\ m <= x /\ m <= y
  BY <1>2, <1>3
<1>5. m = IF x <= y THEN x ELSE y
  BY <1>4
<1> QED
  BY <1>3, <1>5

\* A part of the bytes.
LEMMA PartBytes ==
    ASSUME NEW bytes \in Seq(Byte), NEW m \in Nat, NEW n \in Nat,
           m <= n, n <= Len(bytes), NEW t, t = SubSeq(bytes, m + 1, n)
    PROVE  /\ t \in Seq(Byte) /\ Len(t) = n - m
           /\ \A i \in 1 .. n - m : t[i] = bytes[m + i]
<1>1. Len(bytes) \in Nat /\ \A i \in 1 .. Len(bytes) : bytes[i] \in Byte
  BY LenProperties, ElementOfSeq
<1>2. m + 1 \in Int /\ n \in Int /\ \A i \in m + 1 .. n : bytes[i] \in Byte
  BY <1>1
<1>3. /\ t \in Seq(Byte)
      /\ Len(t) = IF m + 1 <= n THEN n - (m + 1) + 1 ELSE 0
      /\ \A i \in 1 .. n - (m + 1) + 1 : t[i] = bytes[m + 1 + i - 1]
  BY <1>2, SubSeqProperties
<1>4. Len(t) = n - m
  BY <1>3
<1>5. ASSUME NEW i \in 1 .. n - m PROVE t[i] = bytes[m + i]
  <2>1. i \in 1 .. n - (m + 1) + 1 /\ m + 1 + i - 1 = m + i
    OBVIOUS
  <2> QED
    BY <1>3, <2>1
<1> QED
  BY <1>3, <1>4, <1>5

\* f is s, of z bytes, and behind it those of bytes from m on, up to n.
Joined(f, s, z, bytes, m, n) ==
    /\ f \in Seq(Byte) /\ Len(f) = z + (n - m)
    /\ \A o \in 1 .. z + (n - m) : f[o] = IF o <= z THEN s[o] ELSE bytes[(m - z) + o]

\* What a block holds when a part of the bytes is put behind its own.
LEMMA JoinPart ==
    ASSUME NEW s \in Seq(Byte), NEW bytes \in Seq(Byte), NEW m \in Nat, NEW n \in Nat,
           m <= n, n <= Len(bytes), NEW z \in Nat, z = Len(s)
    PROVE  Joined(s \o SubSeq(bytes, m + 1, n), s, z, bytes, m, n)
<1>1. PICK t : t = SubSeq(bytes, m + 1, n)
  OBVIOUS
<1>2. t \in Seq(Byte) /\ Len(t) = n - m /\ \A i \in 1 .. n - m : t[i] = bytes[m + i]
  BY <1>1, PartBytes
<1>3. PICK f : f = s \o t
  OBVIOUS
<1>4. /\ f \in Seq(Byte) /\ Len(f) = z + (n - m)
      /\ \A o \in 1 .. z + (n - m) : f[o] = IF o <= z THEN s[o] ELSE t[o - z]
  <2>1. /\ f \in Seq(Byte) /\ Len(f) = Len(s) + Len(t)
        /\ \A o \in 1 .. Len(s) + Len(t) : f[o] = IF o <= Len(s) THEN s[o] ELSE t[o - Len(s)]
    BY <1>2, <1>3, ConcatProperties
  <2> QED
    BY <1>2, <2>1, Zenon
<1>5. ASSUME NEW o \in 1 .. z + (n - m)
      PROVE  f[o] = IF o <= z THEN s[o] ELSE bytes[(m - z) + o]
  <2>1. CASE o <= z
    BY <1>4, <2>1
  <2>2. CASE ~(o <= z)
    <3>1. o - z \in 1 .. n - m /\ m + (o - z) = (m - z) + o
      BY <2>2
    <3> QED
      BY <1>2, <1>4, <2>2, <3>1
  <2> QED
    BY <2>1, <2>2
<1>6. Joined(f, s, z, bytes, m, n)
  BY <1>4, <1>5 DEF Joined
<1> QED
  BY <1>1, <1>3, <1>6

\* How many blocks Fill goes on to, from one with z bytes: they are there, and the
\* last one gets a byte.
Used(z, b) == IF Base - z < b THEN RoundUp(b - (Base - z)) ELSE 0

LEMMA UsedIs ==
    ASSUME NEW w \in Nat \ {0}, NEW n \in Nat, w <= n, NEW z \in 0 .. Base, NEW b \in Nat,
           Start(w) + z + b <= Start(n + 1)
    PROVE  /\ Used(z, b) \in Nat /\ w + Used(z, b) <= n
           /\ Start(Used(z, b) + 1) \in Nat
           /\ z + b <= Start(Used(z, b) + 1) + Base
           /\ Used(z, b) > 0 => Start(Used(z, b) + 1) < z + b
<1> DEFINE u == Used(z, b)
<1>0. u = IF Base - z < b THEN RoundUp(b - (Base - z)) ELSE 0
  BY DEF Used
<1> SUFFICES /\ u \in Nat /\ w + u <= n
             /\ Start(u + 1) \in Nat
             /\ z + b <= Start(u + 1) + Base
             /\ u > 0 => Start(u + 1) < z + b
  OBVIOUS
<1> HIDE DEF u
<1>1. Start(1) = 0 /\ 0 \in Nat
  BY StartNext
<1>2. CASE Base - z < b
  <2>1. PICK t \in Nat : t = b - (Base - z) /\ t > 0
    BY <1>2, BaseNat
  <2>2. u = RoundUp(t)
    BY <1>0, <1>2, <2>1, Zenon
  <2>3. /\ u \in Nat
        /\ t <= Start(u + 1) /\ Start(u + 1) < t + Base
        /\ \A m \in Nat : t <= Start(m + 1) => u <= m
    BY <2>2, RoundUpIs
  <2>4. PICK m \in Nat : n = w + m
    <3>1. n - w \in Nat /\ n = w + (n - w)
      OBVIOUS
    <3> QED
      BY <3>1
  <2>5. PICK g \in Int : g = m + 1 /\ n + 1 = w + g
    BY <2>4
  <2>6. t <= Start(m + 1)
    <3>1. Start(w + g) = Start(w) + Start(g + 1)
      BY StartSum
    <3>2. Start(g + 1) = Start(g) + Base /\ Start(g) \in Int /\ Start(w) \in Int
      BY StartNext
    <3>3. t <= Start(g)
      BY <2>1, <2>5, <3>1, <3>2, BaseNat
    <3> QED
      BY <2>5, <3>3
  <2>7. u <= m
    BY <2>3, <2>6
  <2>8. Start(u + 1) \in Int
    BY <2>3, StartNext
  <2>9. Start(u + 1) \in Nat /\ Start(u + 1) < z + b /\ z + b <= Start(u + 1) + Base
    <3>1. PICK v \in Int : v = Start(u + 1)
      BY <2>8
    <3>2. t <= v /\ v < t + Base
      BY <2>3, <3>1, Zenon
    <3>3. v \in Nat /\ v < z + b /\ z + b <= v + Base
      BY <2>1, <3>2, BaseNat
    <3> QED
      BY <3>1, <3>3
  <2>10. w + u <= n
    BY <2>3, <2>4, <2>7
  <2> QED
    BY <2>3, <2>9, <2>10
<1>3. CASE ~(Base - z < b)
  <2>1. u = 0 /\ u + 1 = 1
    BY <1>0, <1>3
  <2> QED
    BY <1>1, <1>3, <2>1, BaseNat
<1> QED
  BY <1>2, <1>3

\* The bytes that Fill puts into the block that is i after write_ptr_'s, which
\* held z bytes, and the blocks with them.
PartOf(bytes, z, i) ==
    IF i = 0 THEN SubSeq(bytes, 1, Min({Base - z, Len(bytes)}))
    ELSE SubSeq(bytes, (Base - z) + (i - 1) * Base + 1,
                Min({(Base - z) + i * Base, Len(bytes)}))
Spread(c, w, u, bytes) ==
    [i \in DOMAIN c |-> IF i \in w .. w + u THEN c[i] \o PartOf(bytes, Len(c[w]), i - w)
                        ELSE c[i]]

\* Fill, of a list made of its fields.
LEMMA FillMade ==
    ASSUME NEW c, NEW w, NEW r, NEW p, NEW k, NEW bytes, NEW u,
           u = Used(Len(c[w]), Len(bytes)), NEW l, l = [chain |-> c, wp |-> w, rp |-> r, pos |-> p, cap |-> k]
    PROVE  Fill(l, bytes) =
             [chain |-> Spread(c, w, u, bytes), wp |-> w + u, rp |-> r, pos |-> p, cap |-> k]
<1>1. l.chain = c /\ l.wp = w
  OBVIOUS
<1>2. Fill(l, bytes) = [l EXCEPT !.chain = Spread(c, w, u, bytes), !.wp = w + u]
  BY <1>1, Zenon DEF Fill, Rest, Spread, PartOf, Used
<1>3. PICK f, v : f = Spread(c, w, u, bytes) /\ v = w + u
  OBVIOUS
<1>4. PICK m : m = [l EXCEPT !.chain = f]
  OBVIOUS
<1>5. m = [chain |-> f, wp |-> w, rp |-> r, pos |-> p, cap |-> k]
  BY <1>4
<1>6. [m EXCEPT !.wp = v] = [chain |-> f, wp |-> v, rp |-> r, pos |-> p, cap |-> k]
  BY <1>5
<1>7. [l EXCEPT !.chain = f, !.wp = v] = [m EXCEPT !.wp = v]
  BY <1>4
<1> QED
  BY <1>2, <1>3, <1>6, <1>7, Zenon

\* The part is one of the bytes that are there, and fills its block unless that
\* is the last one.
PartExists(bytes, z, b, u, y, i) ==
    \E m, n \in Nat :
       /\ m <= n /\ n <= b
       /\ PartOf(bytes, z, i) = SubSeq(bytes, m + 1, n)
       /\ m - (IF i = 0 THEN z ELSE 0) = Start(i + 1) - z
       /\ (IF i = 0 THEN z ELSE 0) + (n - m) = IF i < u THEN Base ELSE (z + b) - y

\* There is one for every block up to the last.
LEMMA PartFits ==
    ASSUME NEW z \in 0 .. Base, NEW b \in Nat, NEW u \in Nat, NEW i \in 0 .. u,
           NEW y \in Nat, y = Start(u + 1), z + b <= y + Base, u > 0 => y < z + b,
           NEW bytes, b = Len(bytes)
    PROVE  PartExists(bytes, z, b, u, y, i)
<1>1. i \in Nat /\ i + 1 \in Nat \ {0} /\ 0 \in 0 .. Base - 1 /\ i <= u
  BY BaseNat
<1>2. PICK x \in Nat : x = Start(i + 1)
  BY <1>1, PlaceOf
<1>4. i < u => x + Base <= y
  <2>1. i < u => i + 1 < u + 1 /\ i + 1 \in Int /\ u + 1 \in Int
    BY <1>1
  <2> QED
    BY <1>2, <2>1, StartMono
<1>5. i = u => x = y
  BY <1>2
<1>6. i = 0 => x = 0
  <2>1. i = 0 => i + 1 = 1
    OBVIOUS
  <2> QED
    BY <1>2, <2>1, StartNext
<1>7. i # 0 => Base <= x /\ u > 0
  <2>1. i # 0 => 1 < i + 1 /\ i + 1 \in Int
    BY <1>1
  <2>2. i # 0 => Start(1) + Base <= x
    BY <1>2, <2>1, StartMono
  <2>3. Start(1) = 0
    BY StartNext
  <2> QED
    BY <1>1, <2>2, <2>3, BaseNat
<1>8. PICK m : m = IF i = 0 THEN 0 ELSE x - z
  OBVIOUS
<1>9. PICK n : n = IF (x - z) + Base <= b THEN (x - z) + Base ELSE b
  OBVIOUS
<1>10. PartOf(bytes, z, i) = SubSeq(bytes, m + 1, n)
  <2>1. Start(i) = (i - 1) * Base /\ x = i * Base
    BY <1>1, <1>2, StartAdd DEF Start
  <2>2. Start(i + 1) = Start(i) + Base /\ Start(i) \in Int
    <3>1. i \in Int
      BY <1>1
    <3> QED
      BY <3>1, StartNext, Zenon
  <2>3. PICK g \in Int : g = (i - 1) * Base
    BY <2>1, <2>2
  <2>4. x = g + Base
    BY <1>2, <2>1, <2>2, <2>3, Zenon
  <2>5. PICK e \in Nat : e = (Base - z) + x
    BY BaseNat
  <2>6. (x - z) + Base = e
    BY <2>5, BaseNat
  <2>7. Min({e, b}) = n
    <3>1. Min({e, b}) = IF e <= b THEN e ELSE b
      BY MinOfTwo
    <3> QED
      BY <1>9, <2>6, <3>1, Zenon
  <2>8. CASE i = 0
    <3>1. m + 1 = 1 /\ e = Base - z
      BY <1>6, <1>8, <2>5, <2>8, BaseNat
    <3>2. PartOf(bytes, z, i) = SubSeq(bytes, 1, Min({e, b}))
      BY <2>8, <3>1, Zenon DEF PartOf
    <3> QED
      BY <2>7, <3>1, <3>2, Zenon
  <2>9. CASE i # 0
    <3>1. PartOf(bytes, z, i) = SubSeq(bytes, (Base - z) + g + 1, Min({e, b}))
      BY <2>1, <2>3, <2>5, <2>9, Zenon DEF PartOf
    <3>2. m + 1 = (Base - z) + g + 1
      BY <1>8, <2>4, <2>9, BaseNat
    <3> QED
      BY <2>7, <3>1, <3>2, Zenon
  <2> QED
    BY <2>8, <2>9
<1>11. m \in Nat /\ n \in Nat
  BY <1>7, <1>8, <1>9, BaseNat
<1>12. n <= b /\ m <= n /\ n = IF i < u THEN (x - z) + Base ELSE b
  <2>1. CASE i < u
    BY <1>1, <1>4, <1>6, <1>7, <1>8, <1>9, <2>1, BaseNat
  <2>2. CASE i = u
    BY <1>1, <1>5, <1>6, <1>7, <1>8, <1>9, <2>2, BaseNat, SMTT(40)
  <2> QED
    BY <1>1, <2>1, <2>2
<1>13. m - (IF i = 0 THEN z ELSE 0) = x - z
  BY <1>6, <1>8, BaseNat
<1>14. (IF i = 0 THEN z ELSE 0) + (n - m) = IF i < u THEN Base ELSE (z + b) - y
  <2>1. CASE i < u
    BY <1>6, <1>8, <1>12, <2>1, BaseNat
  <2>2. CASE i = u
    <3>1. n = b /\ x = y /\ ~(i < u)
      BY <1>1, <1>5, <1>12, <2>2
    <3>2. CASE i = 0
      <4>1. m = 0 /\ x = 0
        BY <1>6, <1>8, <3>2
      <4>2. z + (n - m) = (z + b) - y
        BY <3>1, <4>1
      <4> QED
        BY <3>1, <3>2, <4>2
    <3>3. CASE i # 0
      <4>1. m = x - z
        BY <1>8, <3>3
      <4>2. 0 + (n - m) = (z + b) - y
        BY <3>1, <4>1, SMTT(40)
      <4> QED
        BY <3>1, <3>3, <4>2
    <3> QED
      BY <3>2, <3>3
  <2> QED
    BY <1>1, <2>1, <2>2
<1> QED
  BY <1>2, <1>10, <1>11, <1>12, <1>13, <1>14 DEF PartExists

\* There are blocks enough for so many bytes.
Room(c, w, b) == Start(w) + Len(c[w]) + b <= Start(Len(c) + 1)

\* Fill puts the bytes behind those that were there, if there are blocks enough.
LEMMA FillIs ==
    ASSUME NEW c, NEW w, Filled(c, w), NEW r, NEW p, NEW k, NEW bytes \in Seq(Byte),
           Room(c, w, Len(bytes))
    PROVE  \E f \in Blocks, v \in Nat :
             /\ Fill([chain |-> c, wp |-> w, rp |-> r, pos |-> p, cap |-> k], bytes)
                  = [chain |-> f, wp |-> v, rp |-> r, pos |-> p, cap |-> k]
             /\ Filled(f, v) /\ Len(f) = Len(c) /\ w <= v
             /\ \A d : Holds(c, w, d) => Holds(f, v, d \o bytes)
<1>1. /\ c \in Blocks /\ Len(c) \in Nat /\ w \in Nat /\ 1 <= w /\ w <= Len(c)
      /\ \A i \in 1 .. Len(c) :
            /\ c[i] \in Seq(Byte) /\ Len(c[i]) \in Nat /\ Len(c[i]) <= Base
            /\ i < w => Len(c[i]) = Base
            /\ i > w => Len(c[i]) = 0
      /\ w > 1 => Len(c[w]) > 0
  BY FilledSizes
<1>2. PICK n \in Nat : n = Len(c)
  BY <1>1
<1>3. PICK z \in 0 .. Base : z = Len(c[w])
  BY <1>1
<1>4. PICK b \in Nat : b = Len(bytes)
  BY LenProperties
<1>5. Start(w) + z + b <= Start(n + 1)
  BY <1>2, <1>3, <1>4 DEF Room
<1>6. PICK u : u = Used(z, b)
  OBVIOUS
<1>7. /\ u \in Nat /\ w + u <= n
      /\ Start(u + 1) \in Nat
      /\ z + b <= Start(u + 1) + Base
      /\ u > 0 => Start(u + 1) < z + b
  <2>1. w \in Nat \ {0} /\ w <= n
    BY <1>1, <1>2
  <2> QED
    BY <1>5, <1>6, <2>1, UsedIs, Zenon
<1>8. PICK f : f = Spread(c, w, u, bytes)
  OBVIOUS
<1>9. Fill([chain |-> c, wp |-> w, rp |-> r, pos |-> p, cap |-> k], bytes)
        = [chain |-> f, wp |-> w + u, rp |-> r, pos |-> p, cap |-> k]
  BY <1>3, <1>4, <1>6, <1>8, FillMade
<1>10. /\ DOMAIN f = 1 .. n
       /\ \A j \in 1 .. n :
            /\ j \in w .. w + u => f[j] = c[j] \o PartOf(bytes, z, j - w)
            /\ j \notin w .. w + u => f[j] = c[j]
  <2>1. DOMAIN c = 1 .. n
    BY <1>1, <1>2, LenProperties DEF Blocks
  <2> QED
    BY <1>3, <1>8, <2>1, Zenon DEF Spread
<1>11. PICK y \in Nat : y = Start(u + 1)
  BY <1>7
<1>12. ASSUME NEW i \in 0 .. u
       PROVE  /\ f[w + i] \in Seq(Byte)
              /\ Len(f[w + i]) = IF i < u THEN Base ELSE (z + b) - y
              /\ \A o \in 1 .. Len(f[w + i]) :
                   f[w + i][o] = IF i = 0 /\ o <= z THEN c[w][o] ELSE bytes[(Start(i + 1) - z) + o]
  <2>1. PICK j \in 1 .. n : j = w + i /\ j \in w .. w + u /\ j - w = i
    BY <1>1, <1>7
  <2>2. f[j] = c[j] \o PartOf(bytes, z, i)
    BY <1>10, <2>1
  <2>3. PICK x \in Int : x = Start(i + 1)
    <3>1. i + 1 \in Int
      BY <1>7
    <3> QED
      BY <3>1, StartNext, Zenon
  <2>4. PICK t \in Nat : t = IF i = 0 THEN z ELSE 0
    OBVIOUS
  <2>5. PICK m, h \in Nat :
          /\ m <= h /\ h <= b
          /\ PartOf(bytes, z, i) = SubSeq(bytes, m + 1, h)
          /\ m - t = x - z
          /\ t + (h - m) = IF i < u THEN Base ELSE (z + b) - y
    <3>1. z + b <= y + Base /\ (u > 0 => y < z + b) /\ u \in Nat
      BY <1>7, <1>11
    <3>2. PartExists(bytes, z, b, u, y, i)
      BY <1>4, <1>11, <3>1, PartFits, Zenon
    <3> QED
      BY <2>3, <2>4, <3>2, Zenon DEF PartExists
  <2>6. c[j] \in Seq(Byte) /\ Len(c[j]) = t
    <3>1. c[j] \in Seq(Byte)
      BY <1>1, <1>2
    <3>2. CASE i = 0
      <4>1. j = w /\ t = z
        BY <1>1, <2>1, <2>4, <3>2
      <4> QED
        BY <1>3, <3>1, <4>1
    <3>3. CASE i # 0
      <4>1. j > w /\ t = 0
        BY <1>1, <2>1, <2>4, <3>3
      <4> QED
        BY <1>1, <1>2, <3>1, <4>1
    <3> QED
      BY <3>2, <3>3
  <2>7. PICK s : s = c[j]
    OBVIOUS
  <2>8. /\ s \o SubSeq(bytes, m + 1, h) \in Seq(Byte)
        /\ Len(s \o SubSeq(bytes, m + 1, h)) = t + (h - m)
        /\ \A o \in 1 .. t + (h - m) :
             (s \o SubSeq(bytes, m + 1, h))[o] = IF o <= t THEN s[o] ELSE bytes[(m - t) + o]
    <3>1. s \in Seq(Byte) /\ t = Len(s) /\ h <= Len(bytes) /\ m <= h
      BY <1>4, <2>5, <2>6, <2>7, Zenon
    <3>2. Joined(s \o SubSeq(bytes, m + 1, h), s, t, bytes, m, h)
      BY <3>1, JoinPart, Zenon
    <3> QED
      BY <3>2, Zenon DEF Joined
  <2>9. f[j] = s \o SubSeq(bytes, m + 1, h)
    BY <2>2, <2>5, <2>7
  <2>10. /\ f[j] \in Seq(Byte) /\ Len(f[j]) = t + (h - m)
         /\ \A o \in 1 .. Len(f[j]) : f[j][o] = IF o <= t THEN s[o] ELSE bytes[(x - z) + o]
    BY <2>5, <2>8, <2>9, Zenon
  <2>11. \A o \in 1 .. Len(f[j]) :
            f[j][o] = IF i = 0 /\ o <= z THEN c[w][o] ELSE bytes[(x - z) + o]
    <3>1. CASE i = 0
      <4>1. t = z /\ s = c[w]
        <5>1. j = w
          BY <1>1, <2>1, <3>1
        <5> QED
          BY <2>4, <2>7, <3>1, <5>1
      <4> QED
        BY <2>10, <3>1, <4>1, Zenon
    <3>2. CASE i # 0
      <4>1. t = 0 /\ \A o \in 1 .. Len(f[j]) : ~(o <= t)
        BY <2>4, <3>2
      <4> QED
        BY <2>10, <3>2, <4>1, Zenon
    <3> QED
      BY <3>1, <3>2
  <2> QED
    BY <2>1, <2>3, <2>5, <2>10, <2>11, Zenon

<1>13. \A j \in 1 .. n : j \in w .. w + u => j - w \in 0 .. u /\ w + (j - w) = j
  BY <1>1, <1>7
<1>14. f \in Blocks /\ Len(f) = n
  <2>1. \A j \in 1 .. n : f[j] \in Seq(Byte)
    BY <1>1, <1>2, <1>10, <1>12, <1>13
  <2>2. f \in [1 .. n -> Seq(Byte)]
    <3>1. f = [j \in 1 .. n |-> f[j]]
      BY <1>8, <1>10 DEF Spread
    <3> QED
      BY <2>1, <3>1
  <2>3. f \in Seq(Seq(Byte))
    BY <2>2, SeqDef
  <2> QED
    BY <1>10, <2>2, <2>3, LenProperties DEF Blocks
<1>15. PICK v \in Nat : v = w + u
  BY <1>1, <1>7
<1>16. Len(f[v]) = (z + b) - y
  <2>1. u \in 0 .. u /\ ~(u < u)
    BY <1>7
  <2> QED
    BY <1>12, <1>15, <2>1
<1>17. Filled(f, v)
  <2>1. ASSUME NEW j \in 1 .. n
        PROVE  /\ Len(f[j]) <= Base
               /\ j < v => Len(f[j]) = Base
               /\ j > v => Len(f[j]) = 0
    <3>1. CASE j < w
      <4>1. j \notin w .. w + u /\ ~(j > v)
        BY <1>1, <1>7, <1>15, <3>1
      <4>2. f[j] = c[j]
        BY <1>10, <4>1
      <4>3. Len(c[j]) = Base
        BY <1>1, <1>2, <3>1
      <4> QED
        BY <3>1, <4>1, <4>2, <4>3, BaseNat
    <3>2. CASE j > v
      <4>1. j \notin w .. w + u /\ ~(j < v) /\ j > w
        BY <1>1, <1>7, <1>15, <3>2
      <4>2. f[j] = c[j]
        BY <1>10, <4>1
      <4>3. Len(c[j]) = 0
        BY <1>1, <1>2, <4>1
      <4> QED
        BY <3>2, <4>1, <4>2, <4>3, BaseNat
    <3>3. CASE j \in w .. v
      <4>1. PICK i \in 0 .. u : j = w + i
        BY <1>1, <1>7, <1>15, <3>3
      <4>2. Len(f[j]) = IF i < u THEN Base ELSE (z + b) - y
        BY <1>12, <4>1
      <4>3. i < u <=> j < v
        BY <1>1, <1>7, <1>15, <4>1
      <4>4. ~(j > v)
        BY <1>15, <3>3
      <4>5. (z + b) - y <= Base
        BY <1>7, <1>11, BaseNat
      <4> QED
        BY <4>2, <4>3, <4>4, <4>5, BaseNat
    <3> QED
      BY <1>1, <1>15, <3>1, <3>2, <3>3
  <2>2. v \in 1 .. n
    BY <1>1, <1>7, <1>15
  <2>3. v > 1 => Len(f[v]) > 0
    <3>1. CASE u = 0
      <4>1. v = w /\ y = 0
        <5>1. u + 1 = 1
          BY <3>1
        <5> QED
          BY <1>1, <1>11, <1>15, <3>1, <5>1, StartNext
      <4> QED
        BY <1>1, <1>3, <1>16, <4>1
    <3>2. CASE u > 0
      <4>1. y < z + b
        BY <1>7, <1>11, <3>2
      <4> QED
        BY <1>16, <4>1
    <3> QED
      BY <1>7, <3>1, <3>2
  <2> QED
    BY <1>14, <2>1, <2>2, <2>3 DEF Filled
<1>18. ASSUME NEW d, Holds(c, w, d) PROVE Holds(f, v, d \o bytes)
  <2>1. /\ d \in Seq(Byte)
        /\ Len(d) = Start(w) + z
        /\ \A j \in 1 .. w : \A o \in 1 .. Len(c[j]) : d[Start(j) + o] = c[j][o]
    BY <1>3, <1>18 DEF Holds
  <2>2. PICK e : e = d \o bytes
    OBVIOUS
  <2>3. PICK h \in Nat : h = Len(d)
    BY <2>1, LenProperties
  <2>4. /\ e \in Seq(Byte) /\ Len(e) = h + b
        /\ \A i \in 1 .. h + b : e[i] = IF i <= h THEN d[i] ELSE bytes[i - h]
    <3>1. /\ e \in Seq(Byte) /\ Len(e) = Len(d) + Len(bytes)
          /\ \A i \in 1 .. Len(d) + Len(bytes) :
                e[i] = IF i <= Len(d) THEN d[i] ELSE bytes[i - Len(d)]
      BY <2>1, <2>2, ConcatProperties
    <3> QED
      BY <1>4, <2>3, <3>1, Zenon
  <2>5. PICK g \in Int : g = Start(w) /\ h = g + z
    BY <1>1, <2>1, <2>3, StartNext
  <2>6. Start(v) = g + y
    <3>1. w \in Int /\ u \in Int
      BY <1>1, <1>7
    <3> QED
      BY <1>11, <1>15, <2>5, <3>1, StartSum, Zenon
  <2>7. Len(e) = Start(v) + Len(f[v])
    BY <1>16, <2>4, <2>5, <2>6
  <2>8. ASSUME NEW j \in 1 .. v, NEW o \in 1 .. Len(f[j]) PROVE e[Start(j) + o] = f[j][o]
    <3>1. PICK a \in Nat : a = Start(j)
      <4>1. j \in Nat \ {0} /\ 0 \in 0 .. Base - 1
        BY <1>15, BaseNat
      <4> QED
        BY <4>1, PlaceOf
    <3>2. j \in 1 .. n /\ o \in Nat /\ 1 <= o
      <4>1. j \in 1 .. n
        BY <1>7, <1>15
      <4>2. Len(f[j]) \in Nat
        BY <1>14, <4>1, LenProperties, ElementOfSeq DEF Blocks
      <4> QED
        BY <4>1, <4>2
    <3>3. CASE j < w
      <4>1. f[j] = c[j] /\ Len(c[j]) = Base /\ j \in 1 .. w
        <5>1. j \notin w .. w + u /\ j \in 1 .. w
          BY <1>1, <1>7, <3>2, <3>3
        <5>2. f[j] = c[j]
          BY <1>10, <3>2, <5>1
        <5> QED
          BY <1>1, <1>2, <3>2, <3>3, <5>1, <5>2
      <4>2. a + Base <= g
        BY <1>1, <2>5, <3>1, <3>2, <3>3, StartMono
      <4>3. a + o \in 1 .. h + b /\ a + o <= h
        <5>1. o <= Base
          BY <3>2, <4>1
        <5> QED
          BY <2>5, <3>2, <4>2, <5>1, BaseNat
      <4>4. e[a + o] = d[a + o]
        BY <2>4, <4>3
      <4>5. d[a + o] = c[j][o]
        BY <2>1, <3>1, <4>1
      <4> QED
        BY <3>1, <4>1, <4>4, <4>5
    <3>4. CASE j >= w
      <4>1. PICK i \in 0 .. u : j = w + i
        BY <1>1, <1>7, <1>15, <3>2, <3>4
      <4>2. PICK x \in Int : x = Start(i + 1)
        <5>1. i + 1 \in Int
          BY <1>7
        <5> QED
          BY <5>1, StartNext, Zenon
      <4>3. a = g + x
        <5>1. w \in Int /\ i \in Int
          BY <1>1, <1>7
        <5> QED
          BY <2>5, <3>1, <4>1, <4>2, <5>1, StartSum, Zenon
      <4>4. /\ Len(f[j]) = IF i < u THEN Base ELSE (z + b) - y
            /\ f[j][o] = IF i = 0 /\ o <= z THEN c[w][o] ELSE bytes[(x - z) + o]
        BY <1>12, <4>1, <4>2
      <4>5. i < u => x + Base <= y
        <5>1. i < u => i + 1 < u + 1 /\ i + 1 \in Int /\ u + 1 \in Int
          BY <1>7
        <5> QED
          BY <1>11, <4>2, <5>1, StartMono
      <4>6. i = u => x = y
        BY <1>11, <4>2
      <4>7. a + o <= h + b
        <5>1. CASE i < u
          <6>1. y < z + b /\ o <= Base
            BY <1>7, <1>11, <3>2, <4>4, <5>1
          <6> QED
            BY <2>5, <3>2, <4>3, <4>5, <5>1, <6>1, BaseNat, SMTT(40)
        <5>2. CASE i = u
          <6>1. o <= (z + b) - y
            BY <1>7, <3>2, <4>4, <5>2
          <6> QED
            BY <2>5, <3>2, <4>3, <4>6, <5>2, <6>1, SMTT(40)
        <5> QED
          BY <1>7, <5>1, <5>2
      <4>8. CASE i = 0 /\ o <= z
        <5>1. x = 0 /\ j = w
          <6>1. i + 1 = 1
            BY <4>8
          <6> QED
            BY <1>1, <4>1, <4>2, <4>8, <6>1, StartNext
        <5>2. a + o \in 1 .. h + b /\ a + o <= h
          BY <2>5, <3>2, <4>3, <4>7, <4>8, <5>1, SMTT(40)
        <5>3. e[a + o] = d[a + o]
          BY <2>4, <5>2
        <5>4. w \in 1 .. w /\ o \in 1 .. Len(c[w])
          BY <1>1, <1>3, <3>2, <4>8
        <5>5. d[a + o] = c[w][o]
          BY <2>1, <3>1, <5>1, <5>4
        <5> QED
          BY <3>1, <4>4, <4>8, <5>3, <5>5
      <4>9. CASE ~(i = 0 /\ o <= z)
        <5>1. z < x + o
          <6>1. CASE i = 0
            <7>1. i + 1 = 1
              BY <6>1
            <7>2. x = 0
              BY <4>2, <7>1, StartNext
            <7> QED
              BY <3>2, <4>9, <6>1, <7>2
          <6>2. CASE i # 0
            <7>1. 1 < i + 1 /\ i + 1 \in Int
              BY <1>7, <6>2
            <7>2. Start(1) + Base <= x /\ Start(1) = 0
              BY <4>2, <7>1, StartMono, StartNext
            <7> QED
              BY <3>2, <7>2, BaseNat
          <6> QED
            BY <6>1, <6>2
        <5>2. a + o \in 1 .. h + b /\ ~(a + o <= h) /\ (a + o) - h = (x - z) + o
          <6>1. a + o \in Int /\ 1 <= a + o /\ h < a + o
            BY <2>5, <3>2, <4>3, <5>1, SMTT(40)
          <6>2. (a + o) - h = (x - z) + o
            BY <2>5, <3>2, <4>3, SMTT(40)
          <6> QED
            BY <4>7, <6>1, <6>2
        <5>3. e[a + o] = bytes[(a + o) - h]
          BY <2>4, <5>2
        <5> QED
          BY <3>1, <4>4, <4>9, <5>2, <5>3
      <4> QED
        BY <4>8, <4>9
    <3> QED
      BY <1>1, <3>2, <3>3, <3>4
  <2> QED
    BY <2>2, <2>4, <2>7, <2>8 DEF Holds
<1> QED
  <2>1. w <= v
    BY <1>1, <1>7, <1>15
  <2> QED
    BY <1>2, <1>9, <1>14, <1>15, <1>17, <1>18, <2>1, Zenon

\* m is l with n blocks behind write_ptr_'s.
Grown(l, m, n) ==
    /\ Shape(m) /\ m.pos = l.pos /\ m.wp = l.wp /\ m.chain[m.wp] = l.chain[l.wp]
    /\ Len(m.chain) = l.wp + n
    /\ \A d : Flat(l, d) => Flat(m, d)
    /\ l.rp > l.wp => m.rp = l.rp - Len(l.chain) - 1
    /\ ~(l.rp > l.wp) => m.rp = l.rp

\* ExtendCapacity keeps the data and the position of the reader, unless that was on
\* a spare block: it is then on one that left the chain.
LEMMA ExtendKeeps ==
    ASSUME NEW l, Shape(l), NEW n \in Nat, NEW m, m = ExtendCapacity(l, n)
    PROVE  Grown(l, m, RoundUp(n))
<1>1. PICK c \in Blocks, w \in Nat, r \in Int, p \in 0 .. Base - 1, k \in Nat :
         /\ l = [chain |-> c, wp |-> w, rp |-> r, pos |-> p, cap |-> k]
         /\ Filled(c, w) /\ r <= Len(c) /\ Start(Len(c) + 1) <= k
  BY ListFields
<1>2. PICK e \in Blocks, q \in Int, h \in Nat :
         /\ ExtendCapacity([chain |-> c, wp |-> w, rp |-> r, pos |-> p, cap |-> k], n)
              = [chain |-> e, wp |-> w, rp |-> q, pos |-> p, cap |-> h]
         /\ Filled(e, w) /\ q <= Len(e) /\ Start(Len(e) + 1) <= h
         /\ Len(e) = w + RoundUp(n) /\ e[w] = c[w]
         /\ r > w => q = r - Len(c) - 1
         /\ ~(r > w) => q = r
         /\ \A d : Holds(c, w, d) => Holds(e, w, d)
  <2>1. Extended(c, w, r, p, k, n)
    BY <1>1, ExtendIs, Zenon
  <2> QED
    BY <2>1, Zenon DEF Extended
<1>3. m = [chain |-> e, wp |-> w, rp |-> q, pos |-> p, cap |-> h]
  BY <1>1, <1>2, Zenon
<1>4. Shape(m)
  BY <1>2, <1>3, ListMade, Zenon
<1>5. /\ l.chain = c /\ l.wp = w /\ l.rp = r /\ l.pos = p
      /\ \A d : Flat(l, d) <=> Holds(c, w, d)
  <2>1. l.chain = c /\ l.wp = w /\ l.rp = r /\ l.pos = p
    BY <1>1
  <2> QED
    BY <2>1, Zenon DEF Flat
<1>6. /\ m.chain = e /\ m.wp = w /\ m.rp = q /\ m.pos = p
      /\ \A d : Flat(m, d) <=> Holds(e, w, d)
  <2>1. m.chain = e /\ m.wp = w /\ m.rp = q /\ m.pos = p
    BY <1>3
  <2> QED
    BY <2>1, Zenon DEF Flat
<1> QED
  BY <1>2, <1>4, <1>5, <1>6, Zenon DEF Grown

\* Fill keeps the reader where it was.
LEMMA FillKeeps ==
    ASSUME NEW l, Shape(l), NEW bytes \in Seq(Byte), Room(l.chain, l.wp, Len(bytes)),
           NEW m, m = Fill(l, bytes)
    PROVE  /\ Shape(m) /\ m.pos = l.pos /\ l.wp <= m.wp /\ m.rp = l.rp
           /\ \A d : Flat(l, d) => Flat(m, d \o bytes)
<1>1. PICK c \in Blocks, w \in Nat, r \in Int, p \in 0 .. Base - 1, k \in Nat :
         /\ l = [chain |-> c, wp |-> w, rp |-> r, pos |-> p, cap |-> k]
         /\ Filled(c, w) /\ r <= Len(c) /\ Start(Len(c) + 1) <= k
  BY ListFields
<1>2. /\ l.chain = c /\ l.wp = w /\ l.rp = r /\ l.pos = p
      /\ \A d : Flat(l, d) <=> Holds(c, w, d)
  <2>1. l.chain = c /\ l.wp = w /\ l.rp = r /\ l.pos = p
    BY <1>1
  <2> QED
    BY <2>1, Zenon DEF Flat
<1>3. Room(c, w, Len(bytes))
  BY <1>2
<1>4. PICK f \in Blocks, v \in Nat :
         /\ Fill([chain |-> c, wp |-> w, rp |-> r, pos |-> p, cap |-> k], bytes)
              = [chain |-> f, wp |-> v, rp |-> r, pos |-> p, cap |-> k]
         /\ Filled(f, v) /\ Len(f) = Len(c) /\ w <= v
         /\ \A d : Holds(c, w, d) => Holds(f, v, d \o bytes)
  BY <1>1, <1>3, FillIs, Zenon
<1>5. m = [chain |-> f, wp |-> v, rp |-> r, pos |-> p, cap |-> k]
  BY <1>1, <1>4, Zenon
<1>6. r <= Len(f) /\ Start(Len(f) + 1) <= k
  BY <1>1, <1>4, Zenon
<1>7. Shape(m)
  BY <1>4, <1>5, <1>6, ListMade, Zenon
<1>8. /\ m.chain = f /\ m.wp = v /\ m.rp = r /\ m.pos = p
      /\ \A d : Flat(m, d) <=> Holds(f, v, d)
  <2>1. m.chain = f /\ m.wp = v /\ m.rp = r /\ m.pos = p
    BY <1>5
  <2> QED
    BY <2>1, Zenon DEF Flat
<1> QED
  BY <1>2, <1>4, <1>7, <1>8, Zenon

\* Write puts the bytes behind those that were there.  A reader that is not on a
\* spare block stays where it was; one that is, behind a full block, gets lost.
LEMMA WriteKeeps ==
    ASSUME NEW l, Shape(l), NEW bytes \in Seq(Byte), NEW m, m = Write(l, bytes)
    PROVE  /\ Shape(m) /\ m.pos = l.pos /\ l.wp <= m.wp
           /\ \A d : Flat(l, d) => Flat(m, d \o bytes)
           /\ l.rp <= l.wp => m.rp = l.rp
           /\ l.rp > l.wp /\ Rest(l.chain[l.wp]) < Len(bytes) => m.rp < 0
<1>1. PICK b \in Nat : b = Len(bytes)
  BY LenProperties
<1>2. PICK w \in Nat, z \in Nat, n \in Nat, r \in Int :
         w = l.wp /\ z = Len(l.chain[w]) /\ n = Len(l.chain) /\ r = l.rp
         /\ 1 <= w /\ w <= n /\ z <= Base /\ r <= n
  <2>1. Filled(l.chain, l.wp) /\ l.rp \in Int /\ l.rp <= Len(l.chain)
    BY DEF Shape, List
  <2>2. l.wp \in 1 .. Len(l.chain) /\ Len(l.chain) \in Nat /\ l.wp \in Nat
        /\ Len(l.chain[l.wp]) \in Nat /\ Len(l.chain[l.wp]) <= Base
        /\ 1 <= l.wp /\ l.wp <= Len(l.chain)
    BY <2>1, FilledSizes
  <2> QED
    BY <2>1, <2>2, Zenon
<1>3. Start(w) \in Int /\ Start(w + 1) = Start(w) + Base
  <2>1. w \in Int
    OBVIOUS
  <2> QED
    BY <2>1, StartNext, Zenon
<1>6. 1 <= w /\ w <= n /\ z <= Base /\ r <= n
  BY <1>2, Zenon
<1>4. CASE Base - z < b
  <2>1. PICK e : e = ExtendCapacity(l, b)
    OBVIOUS
  <2>2. m = Fill(e, bytes)
    BY <1>1, <1>2, <1>4, <2>1, Zenon DEF Write, Rest
  <2>3. /\ Shape(e) /\ e.pos = l.pos /\ e.wp = w /\ e.chain[w] = l.chain[w]
        /\ Len(e.chain) = w + RoundUp(b)
        /\ \A d : Flat(l, d) => Flat(e, d)
        /\ r > w => e.rp = r - n - 1
        /\ ~(r > w) => e.rp = r
    <3>1. Grown(l, e, RoundUp(b))
      BY <2>1, ExtendKeeps, Zenon
    <3> QED
      BY <1>2, <3>1, Zenon DEF Grown
  <2>4. PICK u \in Nat : u = RoundUp(b) /\ b <= Start(u + 1)
    BY RoundUpIs
  <2>5. Room(e.chain, e.wp, Len(bytes))
    <3>1. w + 1 \in Int /\ u \in Int /\ u + 1 \in Int /\ (w + u) + 1 = (w + 1) + u
      OBVIOUS
    <3>2. Start((w + 1) + u) = Start(w + 1) + Start(u + 1) /\ Start(u + 1) \in Int
      BY <3>1, StartSum, StartNext, Zenon
    <3>3. Start(w) + z + b <= Start((w + u) + 1)
      <4>1. PICK x \in Int, y \in Int : x = Start(w) /\ y = Start(u + 1)
        BY <1>3, <3>2
      <4>2. Start((w + u) + 1) = (x + Base) + y /\ b <= y
        BY <1>3, <2>4, <3>1, <3>2, <4>1, Zenon
      <4>3. x + z + b <= (x + Base) + y
        BY <1>6, <4>2, BaseNat
      <4> QED
        BY <4>1, <4>2, <4>3
    <3> QED
      BY <1>1, <1>2, <2>3, <2>4, <3>3, Zenon DEF Room
  <2>6. /\ Shape(m) /\ m.pos = e.pos /\ e.wp <= m.wp /\ m.rp = e.rp
        /\ \A d : Flat(e, d) => Flat(m, d \o bytes)
    BY <2>2, <2>3, <2>5, FillKeeps, Zenon
  <2>7. r > w => m.rp < 0
    <3>1. r > w => r - n - 1 < 0
      BY <1>2
    <3> QED
      BY <2>3, <2>6, <3>1
  <2>8. r <= w => m.rp = r
    <3>1. r <= w => ~(r > w)
      OBVIOUS
    <3> QED
      BY <2>3, <2>6, <3>1, Zenon
  <2> QED
    BY <1>2, <2>3, <2>6, <2>7, <2>8, Zenon
<1>5. CASE ~(Base - z < b)
  <2>1. m = Fill(l, bytes)
    BY <1>1, <1>2, <1>5, Zenon DEF Write, Rest
  <2>2. Room(l.chain, l.wp, Len(bytes))
    <3>1. Start(w + 1) <= Start(n + 1)
      <4>1. CASE w = n
        BY <1>3, <4>1, StartNext
      <4>2. CASE w + 1 < n + 1
        <5>1. w + 1 \in Int /\ n + 1 \in Int
          OBVIOUS
        <5>2. Start(w + 1) + Base <= Start(n + 1) /\ Start(n + 1) \in Int
          BY <4>2, <5>1, StartMono, StartNext, Zenon
        <5> QED
          BY <1>3, <5>2, BaseNat
      <4> QED
        BY <1>6, <4>1, <4>2
    <3>2. Start(n + 1) \in Int
      BY StartNext
    <3>3. Start(w) + z + b <= Start(n + 1)
      BY <1>3, <1>5, <1>6, <3>1, <3>2, BaseNat
    <3> QED
      BY <1>1, <1>2, <3>3, Zenon DEF Room
  <2>3. /\ Shape(m) /\ m.pos = l.pos /\ l.wp <= m.wp /\ m.rp = l.rp
        /\ \A d : Flat(l, d) => Flat(m, d \o bytes)
    BY <2>1, <2>2, FillKeeps, Zenon
  <2> QED
    BY <1>1, <1>2, <1>5, <2>3, Zenon DEF Rest
<1> QED
  BY <1>4, <1>5

-----------------------------------------------------------------------------
(* Reading.                                                                *)

\* What the pointer of the reader becomes: m is l after n bytes were passed.
Passed(l, m, n) ==
    /\ Shape(m) /\ m.chain = l.chain /\ m.wp = l.wp /\ m.pos \in 0 .. Base - 1
    /\ l.rp <= 0 => m.rp <= 0
    /\ l.rp > 0 => \E j \in Nat \ {0} :
                      /\ Start(j) + m.pos = Start(l.rp) + l.pos + n
                      /\ j = Len(l.chain) + 1 => m.rp = 0
                      /\ j # Len(l.chain) + 1 => m.rp = j

\* The blocks that are full with so many bytes are no more than those it takes.
LEMMA FullBlocks ==
    ASSUME NEW x \in Nat, NEW a \in Nat, a = x \div Base
    PROVE  a <= RoundUp(x)
<1>1. PICK b \in 0 .. Base - 1 : x = Start(a + 1) + b
  BY Place, Zenon
<1>2. PICK u \in Nat : u = RoundUp(x) /\ x <= Start(u + 1)
  BY RoundUpIs
<1>3. Start(a + 1) \in Int /\ Start(u + 1) \in Int
  BY StartNext
<1>4. ~(u < a)
  <2>1. ASSUME u < a PROVE FALSE
    <3>1. u + 1 < a + 1
      BY <2>1
    <3>2. Start(u + 1) + Base <= Start(a + 1)
      BY <3>1, StartMono
    <3> QED
      BY <1>1, <1>2, <1>3, <3>2, BaseNat
  <2> QED
    BY <2>1
<1> QED
  BY <1>2, <1>4

\* Read leaves the pointer on a block of the chain, past it, or where it was lost.
LEMMA AfterKeeps ==
    ASSUME NEW l, Shape(l), NEW n \in Nat, RoundUp(l.pos + n) <= Ahead(l),
           NEW m, m = AfterRead(l, n)
    PROVE  Passed(l, m, n)
<1>1. PICK c \in Blocks, w \in Nat, r \in Int, p \in 0 .. Base - 1, k \in Nat :
         /\ l = [chain |-> c, wp |-> w, rp |-> r, pos |-> p, cap |-> k]
         /\ Filled(c, w) /\ r <= Len(c) /\ Start(Len(c) + 1) <= k
  BY ListFields
<1>2. l.chain = c /\ l.wp = w /\ l.rp = r /\ l.pos = p /\ l.cap = k
  BY <1>1
<1>3. PICK g \in Nat : g = Len(c)
  BY <1>1, FilledSizes
<1>4. PICK x \in Nat : x = p + n
  BY BaseNat
<1>5. PICK a \in Nat, o \in 0 .. Base - 1 :
         a = x \div Base /\ o = x % Base /\ x = Start(a + 1) + o
  <2>1. /\ (x \div Base) + 1 \in Nat \ {0} /\ x % Base \in 0 .. Base - 1
        /\ x = Start((x \div Base) + 1) + (x % Base)
    BY Place
  <2>2. PICK a \in Int : a = x \div Base
    BY BaseNat
  <2>3. a \in Nat
    BY <2>1, <2>2
  <2> QED
    BY <2>1, <2>2, <2>3, Zenon
<1>6. PICK h \in Int : h = Ahead(l) /\ (r > 0 => h = g - r + 1) /\ (~(r > 0) => h = -r)
  <2>1. Ahead(l) = IF r > 0 THEN g - r + 1 ELSE -r
    BY <1>2, <1>3, Zenon DEF Ahead
  <2> QED
    BY <2>1
<1>7. a <= h
  <2>1. a <= RoundUp(x)
    BY <1>5, FullBlocks
  <2>2. RoundUp(x) \in Nat /\ RoundUp(x) <= h
    BY <1>2, <1>4, <1>6, RoundUpIs
  <2> QED
    BY <2>1, <2>2
<1>8. PICK q : (a = h => q = 0) /\ (a # h => q = r + a)
  OBVIOUS
<1>9. m = [chain |-> c, wp |-> w, rp |-> q, pos |-> o, cap |-> k]
  <2>1. m = [l EXCEPT !.rp = IF a = h THEN 0 ELSE r + a, !.pos = o]
    BY <1>2, <1>4, <1>5, <1>6, Zenon DEF AfterRead
  <2>2. q = IF a = h THEN 0 ELSE r + a
    BY <1>8
  <2>3. m = [l EXCEPT !.rp = q, !.pos = o]
    BY <2>1, <2>2, Zenon
  <2>4. PICK e : e = [l EXCEPT !.rp = q]
    OBVIOUS
  <2>5. e = [chain |-> c, wp |-> w, rp |-> q, pos |-> p, cap |-> k]
    BY <1>1, <2>4
  <2>6. [e EXCEPT !.pos = o] = [chain |-> c, wp |-> w, rp |-> q, pos |-> o, cap |-> k]
    BY <2>5
  <2>7. [l EXCEPT !.rp = q, !.pos = o] = [e EXCEPT !.pos = o]
    BY <2>4
  <2> QED
    BY <2>3, <2>6, <2>7, Zenon
<1>10. q \in Int /\ q <= g /\ (r <= 0 => q <= 0)
  <2>1. r <= g
    BY <1>1, <1>3
  <2> QED
    BY <1>6, <1>7, <1>8, <2>1
<1>11. Shape(m)
  <2>1. q <= Len(c)
    BY <1>3, <1>10
  <2> QED
    BY <1>1, <1>9, <1>10, <2>1, ListMade, Zenon
<1>12. m.chain = c /\ m.wp = w /\ m.rp = q /\ m.pos = o
  BY <1>9
<1>13. ASSUME r > 0
       PROVE  \E j \in Nat \ {0} : /\ Start(j) + o = Start(r) + p + n
                                   /\ j = g + 1 => q = 0
                                   /\ j # g + 1 => q = j
  <2>1. PICK j \in Nat \ {0} : j = r + a
    BY <1>13
  <2>2. Start(j) = Start(r) + Start(a + 1)
    <3>1. a \in Int
      OBVIOUS
    <3> QED
      BY <2>1, <3>1, StartSum, Zenon
  <2>3. Start(r) \in Int /\ Start(a + 1) \in Int
    <3>1. a + 1 \in Int
      OBVIOUS
    <3> QED
      BY <3>1, StartNext, Zenon
  <2>4. Start(j) + o = Start(r) + p + n
    <3>1. x = Start(a + 1) + o
      BY <1>5
    <3> QED
      BY <1>4, <2>2, <2>3, <3>1, BaseNat
  <2>5. j = g + 1 <=> a = h
    BY <1>6, <1>13, <2>1
  <2> QED
    BY <1>8, <2>1, <2>4, <2>5
<1> QED
  BY <1>2, <1>3, <1>10, <1>11, <1>12, <1>13, Zenon DEF Passed

\* The bytes a call of Read copies.
BytesFrom(l, n) == [i \in 1 .. n |-> ByteAt(l, l.pos + i - 1)]

\* What a call of Read returns, from a list and with the bytes it got so far.
Call(l, got, crash0) == [list |-> l, got |-> got, crash |-> crash0]

\* The outcomes of Read.
Thrown(l, n, t, got) == n > l.cap /\ t = Call(l, got, "range")
Ended(l, n, t, got) ==
    ~(n > l.cap) /\ RoundUp(l.pos + n) > Ahead(l) /\ t = Call(l, got, "null")
Done(l, n, t, got) ==
    /\ ~(n > l.cap) /\ ~(RoundUp(l.pos + n) > Ahead(l))
    /\ t = Call(AfterRead(l, n), got \o BytesFrom(l, n),
                IF Garbage \in Range(BytesFrom(l, n)) THEN "unset" ELSE "none")

\* After a failure, or of no bytes, Read does nothing.
LEMMA ReadStops ==
    ASSUME NEW l, NEW got, NEW e, NEW n, e # "none" \/ n = 0
    PROVE  Read(Call(l, got, e), n) = Call(l, got, e)
<1>1. PICK s : s = Call(l, got, e)
  OBVIOUS
<1>2. s.crash = e
  BY <1>1 DEF Call
<1>3. Read(s, n) = s
  BY <1>2, Zenon DEF Read
<1> QED
  BY <1>1, <1>3

\* Otherwise it has one of the three outcomes.
LEMMA ReadGoes ==
    ASSUME NEW l, NEW got, NEW n, n # 0, NEW t, t = Read(Call(l, got, "none"), n)
    PROVE  Thrown(l, n, t, got) \/ Ended(l, n, t, got) \/ Done(l, n, t, got)
<1>1. PICK s : s = Call(l, got, "none")
  OBVIOUS
<1>2. s.crash = "none" /\ s.list = l /\ s.got = got
  BY <1>1 DEF Call
<1>3. /\ [s EXCEPT !.crash = "range"] = Call(l, got, "range")
      /\ [s EXCEPT !.crash = "null"] = Call(l, got, "null")
  BY <1>1 DEF Call
<1>4. t = Read(s, n)
  BY <1>1
<1>5. CASE n > l.cap
  <2>1. t = [s EXCEPT !.crash = "range"]
    BY <1>2, <1>4, <1>5, Zenon DEF Read
  <2> QED
    BY <1>3, <1>5, <2>1, Zenon DEF Thrown
<1>6. CASE ~(n > l.cap) /\ RoundUp(l.pos + n) > Ahead(l)
  <2>1. t = [s EXCEPT !.crash = "null"]
    BY <1>2, <1>4, <1>6, Zenon DEF Read
  <2> QED
    BY <1>3, <1>6, <2>1, Zenon DEF Ended
<1>7. CASE ~(n > l.cap) /\ ~(RoundUp(l.pos + n) > Ahead(l))
  <2>1. t = [list |-> AfterRead(l, n), got |-> got \o BytesFrom(l, n),
             crash |-> IF Garbage \in Range(BytesFrom(l, n)) THEN "unset" ELSE "none"]
    BY <1>2, <1>4, <1>7, Zenon DEF Read, BytesFrom
  <2> QED
    BY <1>7, <2>1, Zenon DEF Done, Call
<1> QED
  BY <1>5, <1>6, <1>7

\* The list after a call is a list with the same blocks.
SameBlocks(l, t) ==
    \E m, z, e : /\ t = Call(m, z, e)
                 /\ Shape(m) /\ m.chain = l.chain /\ m.wp = l.wp
                 /\ e \in {"none", "null", "unset", "range"}

\* Read changes no block.
LEMMA ReadKeeps ==
    ASSUME NEW l, Shape(l), NEW got, NEW e \in {"none", "null", "unset", "range"},
           NEW n \in Nat
    PROVE  SameBlocks(l, Read(Call(l, got, e), n))
<1>1. CASE e # "none" \/ n = 0
  BY <1>1, ReadStops, Zenon DEF SameBlocks
<1>2. CASE e = "none" /\ n # 0
  <2>1. PICK t : t = Read(Call(l, got, "none"), n)
    OBVIOUS
  <2>2. Thrown(l, n, t, got) \/ Ended(l, n, t, got) \/ Done(l, n, t, got)
    BY <1>2, <2>1, ReadGoes
  <2>3. CASE Thrown(l, n, t, got)
    <3>1. SameBlocks(l, t)
      BY <2>3, Zenon DEF Thrown, SameBlocks
    <3> QED
      BY <1>2, <2>1, <3>1
  <2>4. CASE Ended(l, n, t, got)
    <3>1. SameBlocks(l, t)
      BY <2>4, Zenon DEF Ended, SameBlocks
    <3> QED
      BY <1>2, <2>1, <3>1
  <2>5. CASE Done(l, n, t, got)
    <3>1. RoundUp(l.pos + n) <= Ahead(l)
      <4>1. ~(RoundUp(l.pos + n) > Ahead(l))
        BY <2>5 DEF Done
      <4>2. RoundUp(l.pos + n) \in Int /\ Ahead(l) \in Int
        <5>1. PICK p \in Nat, r \in Int, g \in Nat : p = l.pos /\ r = l.rp /\ g = Len(l.chain)
          <6>1. l.pos \in Nat /\ l.rp \in Int /\ Filled(l.chain, l.wp)
            BY BaseNat DEF Shape, List
          <6> QED
            BY <6>1, FilledSizes
        <5>2. RoundUp(p + n) \in Nat
          BY RoundUpIs
        <5>3. (IF r > 0 THEN g - r + 1 ELSE -r) \in Int
          OBVIOUS
        <5> QED
          BY <5>1, <5>2, <5>3 DEF Ahead
      <4> QED
        BY <4>1, <4>2
    <3>2. Passed(l, AfterRead(l, n), n)
      BY <3>1, AfterKeeps
    <3>3. PICK e1 : e1 = IF Garbage \in Range(BytesFrom(l, n)) THEN "unset" ELSE "none"
      OBVIOUS
    <3>4. e1 \in {"none", "null", "unset", "range"}
      BY <3>3, Zenon
    <3>5. SameBlocks(l, t)
      BY <2>5, <3>2, <3>3, <3>4, Zenon DEF Done, Passed, SameBlocks
    <3> QED
      BY <1>2, <2>1, <3>5
  <2> QED
    BY <2>2, <2>3, <2>4, <2>5
<1> QED
  BY <1>1, <1>2

\* A reader that has lost its block fails.
LEMMA LostFails ==
    ASSUME NEW l, Shape(l), l.rp <= 0, NEW got, NEW n \in Nat \ {0}
    PROVE  \E m, z, e : Read(Call(l, got, "none"), n) = Call(m, z, e) /\ e # "none"
<1>1. PICK t : t = Read(Call(l, got, "none"), n)
  OBVIOUS
<1>2. Thrown(l, n, t, got) \/ Ended(l, n, t, got) \/ Done(l, n, t, got)
  BY <1>1, ReadGoes
<1>6. "range" # "none" /\ "null" # "none" /\ "unset" # "none"
  OBVIOUS
<1>3. CASE Thrown(l, n, t, got)
  BY <1>1, <1>3, <1>6, Zenon DEF Thrown
<1>4. CASE Ended(l, n, t, got)
  BY <1>1, <1>4, <1>6, Zenon DEF Ended
<1>5. CASE Done(l, n, t, got)
  <2>1. ~(l.rp > 0)
    BY DEF Shape, List
  <2>2. 1 \in 1 .. n /\ \A i \in 1 .. n : BytesFrom(l, n)[i] = Garbage
    BY <2>1 DEF BytesFrom, ByteAt
  <2>3. DOMAIN BytesFrom(l, n) = 1 .. n
    BY DEF BytesFrom
  <2>4. Garbage \in Range(BytesFrom(l, n))
    BY <2>2, <2>3, Zenon DEF Range
  <2>5. t = Call(AfterRead(l, n), got \o BytesFrom(l, n), "unset")
    BY <1>5, <2>4, Zenon DEF Done
  <2> QED
    BY <1>1, <1>6, <2>5, Zenon
<1> QED
  BY <1>2, <1>3, <1>4, <1>5

\* The reader is before the byte P + 1 of the data; or it has passed the end of a
\* full block, the last one with data, and is on a spare block or lost.
At(l, P) == l.rp \in 1 .. l.wp /\ Start(l.rp) + l.pos = P
Past(l) == l.rp <= 0 \/ (l.rp = l.wp + 1 /\ Len(l.chain[l.wp]) = Base)

\* What reading n bytes at P returns, and where it leaves the reader.
Taken(d, P, n) == [i \in 1 .. n |-> d[P + i]]
Placed(l, m, P, n, d) ==
    /\ Shape(m) /\ m.chain = l.chain /\ m.wp = l.wp
    /\ P + n < Len(d) \/ m.pos # 0 => At(m, P + n)
    /\ P + n = Len(d) /\ m.pos = 0 => Past(m)
GoodRead(l, d, P, n, got, t) ==
    \E m : t = Call(m, got \o Taken(d, P, n), "none") /\ Placed(l, m, P, n, d)

\* Where the reader is after it passed bytes of the data.
LEMMA PassedPlaced ==
    ASSUME NEW l, Shape(l), NEW d, Flat(l, d), NEW P \in Nat, At(l, P), NEW n \in Nat \ {0},
           P + n <= Len(d), NEW m, Passed(l, m, n)
    PROVE  Placed(l, m, P, n, d)
<1>1. /\ Shape(m) /\ m.chain = l.chain /\ m.wp = l.wp /\ m.pos \in 0 .. Base - 1
      /\ Filled(l.chain, l.wp) /\ Holds(l.chain, l.wp, d)
  BY DEF Passed, Shape, Flat
<1>2. PICK c, w : c = l.chain /\ w = l.wp
  OBVIOUS
<1>3. Filled(c, w) /\ Holds(c, w, d)
  BY <1>1, <1>2
<1>4. w \in Nat /\ 1 <= w /\ w <= Len(c) /\ Len(c) \in Nat
  BY <1>3, FilledSizes
<1>5. PICK z \in Nat : z = Len(c[w]) /\ z <= Base /\ (w > 1 => z > 0)
  BY <1>3, <1>4, FilledSizes
<1>6. PICK r \in 1 .. w : r = l.rp /\ Start(r) + l.pos = P
  BY <1>2 DEF At
<1>7. PICK o \in 0 .. Base - 1 : o = m.pos
  BY <1>1
<1>8. PICK j \in Nat \ {0} :
         /\ Start(j) + o = P + n
         /\ j = Len(c) + 1 => m.rp = 0
         /\ j # Len(c) + 1 => m.rp = j
  <2>1. l.rp > 0
    BY <1>4, <1>6
  <2> QED
    BY <1>2, <1>6, <1>7, <2>1, Zenon DEF Passed
<1>9. PICK L \in Nat : L = Len(d) /\ L = Start(w) + z
  <2>1. d \in Seq(Byte) /\ Len(d) = Start(w) + z
    BY <1>3, <1>5 DEF Holds
  <2> QED
    BY <2>1, LenProperties
<1>10. PICK x \in Int, y \in Int : x = Start(w) /\ y = Start(j)
  <2>1. w \in Int /\ j \in Int
    BY <1>4
  <2> QED
    BY <2>1, StartNext, Zenon
<1>11. L = x + z /\ y + o = P + n /\ P + n <= L
  BY <1>8, <1>9, <1>10
<1>12. w < j => x + Base <= y
  BY <1>4, <1>10, StartMono
<1>13. ASSUME P + n < L \/ o # 0 PROVE At(m, P + n)
  <2>1. j <= w
    <3>1. ASSUME w < j PROVE FALSE
      <4>1. x + Base <= y /\ z <= Base
        BY <1>5, <1>12, <3>1
      <4> QED
        BY <1>11, <1>13, <4>1, BaseNat
    <3> QED
      BY <1>4, <3>1
  <2>2. m.rp = j
    BY <1>4, <1>8, <2>1
  <2>3. j \in 1 .. w
    BY <1>4, <2>1
  <2> QED
    BY <1>1, <1>2, <1>7, <1>8, <2>2, <2>3 DEF At
\* The end of the data, and of a block.
<1>14. ASSUME P + n = L, o = 0 PROVE Past(m)
  <2>1. y = x + z
    BY <1>11, <1>14
  <2>2. z > 0
    <3>1. CASE w = 1
      <4>1. x = 0
        BY <1>10, <3>1, StartNext
      <4> QED
        BY <1>11, <1>14, <4>1
    <3> QED
      BY <1>4, <1>5, <3>1
  <2>3. ~(j < w)
    <3>1. j < w => y + Base <= x
      BY <1>4, <1>10, StartMono
    <3> QED
      BY <2>1, <2>2, <3>1, BaseNat
  <2>4. j # w
    <3>1. j = w => y = x
      BY <1>10, Zenon
    <3> QED
      BY <2>1, <2>2, <3>1
  <2>5. w < j
    BY <1>4, <2>3, <2>4
  <2>6. z = Base
    BY <1>5, <1>12, <2>1, <2>5, BaseNat
  <2>7. j = w + 1
    <3>1. w + 1 \in Int
      BY <1>4
    <3>2. Start(w + 1) = x + Base
      BY <1>4, <1>10, StartNext
    <3>3. w + 1 < j => Start(w + 1) + Base <= y
      BY <1>10, <3>1, StartMono
    <3> QED
      BY <1>4, <2>1, <2>5, <2>6, <3>2, <3>3, BaseNat
  <2>8. CASE j = Len(c) + 1
    <3>1. m.rp = 0
      BY <1>8, <2>8
    <3> QED
      BY <3>1 DEF Past
  <2>9. CASE j # Len(c) + 1
    <3>1. m.rp = w + 1
      BY <1>8, <2>7, <2>9
    <3> QED
      BY <1>1, <1>2, <1>5, <2>6, <3>1 DEF Past
  <2> QED
    BY <2>8, <2>9
<1> QED
  BY <1>1, <1>7, <1>9, <1>13, <1>14, Zenon DEF Placed

\* A read of bytes that the array holds returns them.
LEMMA ReadGood ==
    ASSUME NEW l, Shape(l), NEW d, Flat(l, d), NEW P \in Nat, At(l, P), NEW n \in Nat \ {0},
           P + n <= Len(d), \A i \in 1 .. n : d[P + i] # Garbage, NEW got
    PROVE  GoodRead(l, d, P, n, got, Read(Call(l, got, "none"), n))
<1>1. Filled(l.chain, l.wp) /\ Holds(l.chain, l.wp, d) /\ l.pos \in 0 .. Base - 1
      /\ l.cap \in Nat /\ Start(Len(l.chain) + 1) <= l.cap
  BY DEF Shape, Flat, List
<1>0. PICK c, w : c = l.chain /\ w = l.wp
  OBVIOUS
<1>2. PICK k \in Nat, p \in Nat : c = l.chain /\ w = l.wp /\ k = l.cap /\ p = l.pos
  <2>1. l.pos \in Nat
    BY <1>1, BaseNat
  <2> QED
    BY <1>0, <1>1, <2>1
<1>3. Filled(c, w) /\ Holds(c, w, d)
  BY <1>0, <1>1
<1>4. PICK g \in Nat : g = Len(c) /\ w \in Nat /\ 1 <= w /\ w <= g
  BY <1>3, FilledSizes
<1>5. PICK z \in Nat : z = Len(c[w]) /\ z <= Base
  BY <1>3, <1>4, FilledSizes
<1>6. PICK r \in 1 .. w : r = l.rp /\ Start(r) + p = P
  BY <1>2 DEF At
<1>7. PICK L \in Nat : L = Len(d) /\ L = Start(w) + z
  <2>1. d \in Seq(Byte) /\ Len(d) = Start(w) + z
    BY <1>3, <1>5 DEF Holds
  <2> QED
    BY <2>1, LenProperties
<1>8. PICK x \in Int, y \in Int, v \in Int : x = Start(w) /\ y = Start(g + 1) /\ v = Start(r)
  <2>1. w \in Int /\ g + 1 \in Int /\ r \in Int
    BY <1>4
  <2> QED
    BY <2>1, StartNext, Zenon
<1>9. x + Base <= y
  <2>1. w < g + 1 /\ w \in Int /\ g + 1 \in Int
    BY <1>4
  <2> QED
    BY <1>8, <2>1, StartMono, Zenon
<1>10. y <= k /\ L <= y /\ v + p = P /\ P + n <= L
  <2>1. y <= k /\ v + p = P /\ P + n <= L /\ L = x + z
    BY <1>1, <1>2, <1>4, <1>6, <1>7, <1>8, Zenon
  <2> QED
    BY <1>5, <1>9, <2>1, BaseNat
<1>11. ~(n > k)
  BY <1>10
<1>12. PICK h \in Nat : h = g - r + 1 /\ r + h = g + 1
  <2>1. PICK wn \in Nat : wn = w /\ wn <= g
    BY <1>4
  <2>2. r \in Nat /\ 1 <= r /\ r <= wn
    BY <2>1
  <2>3. g - r + 1 \in Nat /\ r + (g - r + 1) = g + 1
    BY <2>1, <2>2
  <2> QED
    BY <2>3, Zenon
<1>13. Ahead(l) = h
  <2>1. l.rp > 0
    BY <1>4, <1>6
  <2> QED
    BY <1>2, <1>4, <1>6, <1>12, <2>1, Zenon DEF Ahead
<1>14. RoundUp(p + n) <= h /\ ~(RoundUp(p + n) > h)
  <2>1. y = v + Start(h + 1)
    <3>1. r \in Int /\ h \in Int
      BY <1>4
    <3>2. Start(r + h) = Start(r) + Start(h + 1)
      BY <3>1, StartSum, Zenon
    <3> QED
      BY <1>8, <1>12, <3>2, Zenon
  <2>2. PICK e \in Int : e = Start(h + 1)
    <3>1. h + 1 \in Int
      OBVIOUS
    <3> QED
      BY <3>1, StartNext, Zenon
  <2>3. PICK q \in Nat : q = p + n
    OBVIOUS
  <2>4. q <= e
    BY <1>10, <2>1, <2>2, <2>3
  <2>5. RoundUp(q) <= h /\ RoundUp(q) \in Nat
    BY <2>2, <2>4, RoundUpIs
  <2> QED
    BY <2>3, <2>5
<1>15. BytesFrom(l, n) = Taken(d, P, n)
  <2>1. ASSUME NEW i \in 1 .. n PROVE ByteAt(l, l.pos + i - 1) = d[P + i]
    <3>1. PICK q \in Nat : q = P + i - 1 /\ q + 1 = P + i /\ q < L
      BY <1>10
    <3>2. v + (p + i - 1) = q
      BY <1>10, <3>1
    <3>3. (r - 1) * Base + (p + i - 1) = q
      BY <1>8, <3>2, Zenon DEF Start
    <3>4. l.rp > 0
      BY <1>4, <1>6
    <3>5. ByteAt(l, l.pos + i - 1) = ByteOf(c, q)
      BY <1>2, <1>6, <3>3, <3>4, Zenon DEF ByteAt
    <3>6. ByteOf(c, q) = d[q + 1]
      <4>1. q < Len(d)
        BY <1>7, <3>1, Zenon
      <4> QED
        BY <1>3, <4>1, FlatByte, Zenon
    <3> QED
      BY <3>1, <3>5, <3>6
  <2> QED
    BY <2>1, Zenon DEF BytesFrom, Taken
<1>16. Garbage \notin Range(BytesFrom(l, n))
  <2>1. DOMAIN BytesFrom(l, n) = 1 .. n
    BY DEF BytesFrom
  <2>2. \A i \in 1 .. n : BytesFrom(l, n)[i] # Garbage
    BY <1>15 DEF Taken
  <2> QED
    BY <2>1, <2>2, Zenon DEF Range
<1>17. PICK t : t = Read(Call(l, got, "none"), n)
  OBVIOUS
<1>18. Done(l, n, t, got)
  <2>1. Thrown(l, n, t, got) \/ Ended(l, n, t, got) \/ Done(l, n, t, got)
    BY <1>17, ReadGoes
  <2>2. ~Thrown(l, n, t, got)
    BY <1>2, <1>11, Zenon DEF Thrown
  <2>3. ~Ended(l, n, t, got)
    BY <1>2, <1>13, <1>14, Zenon DEF Ended
  <2> QED
    BY <2>1, <2>2, <2>3
<1>19. t = Call(AfterRead(l, n), got \o Taken(d, P, n), "none")
  BY <1>15, <1>16, <1>18, Zenon DEF Done
<1>20. Passed(l, AfterRead(l, n), n)
  <2>1. RoundUp(l.pos + n) <= Ahead(l)
    BY <1>2, <1>13, <1>14, Zenon
  <2>2. n \in Nat
    OBVIOUS
  <2> QED
    BY <2>1, <2>2, AfterKeeps
<1>21. Placed(l, AfterRead(l, n), P, n, d)
  BY <1>20, PassedPlaced, Zenon
<1> QED
  BY <1>17, <1>19, <1>21, Zenon DEF GoodRead

\* Bytes of the data, as a sequence.
LEMMA TakenIs ==
    ASSUME NEW d \in Seq(Byte), NEW P \in Nat, NEW n \in Nat, P + n <= Len(d)
    PROVE  Taken(d, P, n) \in Seq(Byte) /\ Len(Taken(d, P, n)) = n
<1>1. Len(d) \in Nat /\ \A i \in 1 .. Len(d) : d[i] \in Byte
  BY LenProperties, ElementOfSeq
<1>2. \A i \in 1 .. n : d[P + i] \in Byte
  BY <1>1
<1>3. Taken(d, P, n) \in [1 .. n -> Byte]
  BY <1>2 DEF Taken
<1>4. Taken(d, P, n) \in Seq(Byte)
  BY <1>3, SeqDef
<1> QED
  BY <1>3, <1>4, LenProperties

\* What is taken in two calls.
LEMMA TakenTwice ==
    ASSUME NEW d \in Seq(Byte), NEW P \in Nat, NEW n \in Nat, NEW k \in Nat,
           P + n + k <= Len(d)
    PROVE  Taken(d, P, n) \o Taken(d, P + n, k) = Taken(d, P, n + k)
<1>1. PICK L \in Nat : L = Len(d)
  BY LenProperties
<1>2. P + n \in Nat /\ n + k \in Nat /\ P + n <= L /\ (P + n) + k <= L /\ P + (n + k) <= L
  BY <1>1
<1>3. PICK a, b, c : a = Taken(d, P, n) /\ b = Taken(d, P + n, k) /\ c = Taken(d, P, n + k)
  OBVIOUS
<1>4. a \in Seq(Byte) /\ Len(a) = n
  BY <1>1, <1>2, <1>3, TakenIs
<1>5. b \in Seq(Byte) /\ Len(b) = k
  BY <1>1, <1>2, <1>3, TakenIs
<1>6. c \in Seq(Byte) /\ Len(c) = n + k
  BY <1>1, <1>2, <1>3, TakenIs
<1>7. PICK e : e = a \o b
  OBVIOUS
<1>8. /\ e \in Seq(Byte) /\ Len(e) = n + k
      /\ \A i \in 1 .. n + k : e[i] = IF i <= n THEN a[i] ELSE b[i - n]
  <2>1. /\ e \in Seq(Byte) /\ Len(e) = Len(a) + Len(b)
        /\ \A i \in 1 .. Len(a) + Len(b) : e[i] = IF i <= Len(a) THEN a[i] ELSE b[i - Len(a)]
    BY <1>4, <1>5, <1>7, ConcatProperties
  <2> QED
    BY <1>4, <1>5, <2>1, Zenon
<1>9. ASSUME NEW i \in 1 .. n + k PROVE e[i] = c[i]
  <2>1. c[i] = d[P + i]
    BY <1>3 DEF Taken
  <2>2. CASE i <= n
    <3>1. a[i] = d[P + i]
      BY <1>3, <2>2 DEF Taken
    <3> QED
      BY <1>8, <2>1, <2>2, <3>1
  <2>3. CASE ~(i <= n)
    <3>1. i - n \in 1 .. k /\ (P + n) + (i - n) = P + i
      BY <2>3
    <3>2. b[i - n] = d[(P + n) + (i - n)]
      BY <1>3, <3>1 DEF Taken
    <3> QED
      BY <1>8, <2>1, <2>3, <3>1, <3>2
  <2> QED
    BY <2>2, <2>3
<1>10. e = c
  BY <1>6, <1>8, <1>9, SeqEqual
<1> QED
  BY <1>3, <1>7, <1>10

\* The two calls of Read that a read operation makes.
TwoReads(l, n, k) == Read(Read(Call(l, <<>>, "none"), n), k)
BothRead(l, d, P, n, t) ==
    \E m : t = Call(m, Taken(d, P, n), "none") /\ Placed(l, m, P, n, d)

\* Together they return the bytes at the reader's place, if these are data.
LEMMA ReadBoth ==
    ASSUME NEW l, Shape(l), NEW d, Flat(l, d), NEW P \in Nat, At(l, P),
           NEW n \in Nat \ {0}, NEW k \in Nat, P + n + k <= Len(d),
           \A i \in 1 .. n + k : d[P + i] # Garbage
    PROVE  BothRead(l, d, P, n + k, TwoReads(l, n, k))
<1>1. PICK L \in Nat : L = Len(d) /\ d \in Seq(Byte)
  BY LenProperties DEF Flat, Holds
<1>2. /\ P + n \in Nat /\ n + k \in Nat /\ n \in Nat
      /\ P + n <= L /\ P + n + k <= L /\ (P + n) + k = P + (n + k)
  BY <1>1
<1>3. \A i \in 1 .. n : d[P + i] # Garbage
  <2>1. \A i \in 1 .. n : i \in 1 .. n + k
    OBVIOUS
  <2> QED
    BY <2>1, Zenon
<1>4. GoodRead(l, d, P, n, <<>>, Read(Call(l, <<>>, "none"), n))
  BY <1>1, <1>2, <1>3, ReadGood
<1>5. <<>> \o Taken(d, P, n) = Taken(d, P, n)
  <2>1. Taken(d, P, n) \in Seq(Byte)
    BY <1>1, <1>2, TakenIs
  <2> QED
    BY <2>1, ConcatEmptySeq
<1>6. PICK m : /\ Read(Call(l, <<>>, "none"), n) = Call(m, Taken(d, P, n), "none")
               /\ Placed(l, m, P, n, d)
  BY <1>4, <1>5, Zenon DEF GoodRead
<1>7. CASE k = 0
  <2>1. TwoReads(l, n, k) = Call(m, Taken(d, P, n), "none")
    BY <1>6, <1>7, ReadStops, Zenon DEF TwoReads
  <2>2. n + k = n
    BY <1>7
  <2> QED
    BY <1>6, <2>1, <2>2, Zenon DEF BothRead
<1>8. CASE k # 0
  <2>1. P + n < Len(d) /\ k \in Nat \ {0} /\ (P + n) + k <= Len(d)
    BY <1>1, <1>2, <1>8
  <2>2. Shape(m) /\ m.chain = l.chain /\ m.wp = l.wp /\ At(m, P + n)
    BY <1>6, <2>1, Zenon DEF Placed
  <2>3. Flat(m, d)
    BY <2>2, Zenon DEF Flat
  <2>4. \A i \in 1 .. k : d[(P + n) + i] # Garbage
    <3>1. ASSUME NEW i \in 1 .. k PROVE d[(P + n) + i] # Garbage
      <4>1. n + i \in 1 .. n + k /\ P + (n + i) = (P + n) + i
        BY <1>2
      <4> QED
        BY <4>1
    <3> QED
      BY <3>1
  <2>5. PICK Q : Q = P + n /\ Q \in Nat
    BY <1>2
  <2>6. GoodRead(m, d, Q, k, Taken(d, P, n), Read(Call(m, Taken(d, P, n), "none"), k))
    <3>1. At(m, Q) /\ Q + k <= Len(d) /\ \A i \in 1 .. k : d[Q + i] # Garbage
      BY <2>1, <2>2, <2>4, <2>5, Zenon
    <3> QED
      BY <2>1, <2>2, <2>3, <2>5, <3>1, ReadGood, Zenon
  <2>7. PICK e : /\ TwoReads(l, n, k) = Call(e, Taken(d, P, n) \o Taken(d, Q, k), "none")
                 /\ Placed(m, e, Q, k, d)
    BY <1>6, <2>6, Zenon DEF GoodRead, TwoReads
  <2>8. Taken(d, P, n) \o Taken(d, Q, k) = Taken(d, P, n + k)
    <3>1. P + n + k <= Len(d)
      OBVIOUS
    <3>2. d \in Seq(Byte) /\ n \in Nat
      BY <1>1, <1>2
    <3>3. Taken(d, P, n) \o Taken(d, P + n, k) = Taken(d, P, n + k)
      BY <3>1, <3>2, TakenTwice, ZenonT(60)
    <3> QED
      BY <2>5, <3>3, Zenon
  <2>9. Placed(l, e, P, n + k, d)
    BY <1>2, <2>2, <2>5, <2>7, Zenon DEF Placed
  <2> QED
    BY <2>7, <2>8, <2>9, Zenon DEF BothRead
<1> QED
  BY <1>7, <1>8

\* They change no block.
LEMMA BothKeep ==
    ASSUME NEW l, Shape(l), NEW n \in Nat, NEW k \in Nat
    PROVE  SameBlocks(l, TwoReads(l, n, k))
<1>1. SameBlocks(l, Read(Call(l, <<>>, "none"), n))
  BY ReadKeeps
<1>2. PICK m, z, e : /\ Read(Call(l, <<>>, "none"), n) = Call(m, z, e)
                     /\ Shape(m) /\ m.chain = l.chain /\ m.wp = l.wp
                     /\ e \in {"none", "null", "unset", "range"}
  BY <1>1, Zenon DEF SameBlocks
<1>3. SameBlocks(m, Read(Call(m, z, e), k))
  BY <1>2, ReadKeeps, Zenon
<1> QED
  BY <1>2, <1>3, Zenon DEF SameBlocks, TwoReads

\* A reader that has lost its block fails.
LEMMA BothFail ==
    ASSUME NEW l, Shape(l), l.rp <= 0, NEW n \in Nat \ {0}, NEW k \in Nat
    PROVE  \E m, z, e : TwoReads(l, n, k) = Call(m, z, e) /\ e # "none"
<1>1. PICK m, z, e : Read(Call(l, <<>>, "none"), n) = Call(m, z, e) /\ e # "none"
  BY LostFails
<1>2. Read(Call(m, z, e), k) = Call(m, z, e)
  BY <1>1, ReadStops, Zenon
<1>3. TwoReads(l, n, k) = Call(m, z, e)
  BY <1>1, <1>2, Zenon DEF TwoReads
<1> QED
  BY <1>1, <1>3

-----------------------------------------------------------------------------
(* The bytes that BitsStream hands out.                                    *)

\* They start with the data, and are the data unless one of them was not set.
StartsWith(l, d, bits) ==
    /\ bits \in Seq(Byte) /\ Len(bits) <= l.cap /\ Len(d) <= Len(bits)
    /\ \A i \in 1 .. Len(d) : bits[i] = d[i]
    /\ l.wp = Len(l.chain) => bits = d
    /\ Garbage \notin Range(bits) => bits = d

\* A byte of the blocks is a byte.
LEMMA ByteOfType ==
    ASSUME NEW c, NEW w, Filled(c, w), NEW n \in Nat, n < Start(Len(c) + 1)
    PROVE  ByteOf(c, n) \in Byte
<1>1. PICK i \in Nat \ {0}, o \in 0 .. Base - 1 : n = Start(i) + o
  BY Place
<1>2. PICK g \in Nat : g = Len(c)
  BY FilledSizes
<1>3. i <= g
  <2>1. i \in Int /\ g + 1 \in Int
    OBVIOUS
  <2>2. Start(i) \in Int /\ Start(g + 1) \in Int /\ Start(g + 1 + 1) = Start(g + 1) + Base
    BY <2>1, StartNext, Zenon
  <2>3. g + 1 < i => Start(g + 1) + Base <= Start(i)
    BY <2>1, StartMono, Zenon
  <2>4. g + 1 # i
    BY <1>1, <1>2, <2>2, BaseNat
  <2> QED
    BY <1>1, <1>2, <2>2, <2>3, <2>4, BaseNat
<1>4. c[i] \in Seq(Byte)
  BY <1>2, <1>3, FilledSizes
<1>5. o + 1 <= Len(c[i]) => c[i][o + 1] \in Byte
  <2>1. Len(c[i]) \in Nat
    BY <1>4, LenProperties
  <2>2. o + 1 <= Len(c[i]) => o + 1 \in 1 .. Len(c[i])
    BY <2>1, BaseNat
  <2> QED
    BY <1>4, <2>2, ElementOfSeq
<1>6. Garbage \in Byte
  BY DEF Garbage, Byte
<1>7. ByteOf(c, n) = IF o + 1 <= Len(c[i]) THEN c[i][o + 1] ELSE Garbage
  BY <1>1, ByteOfIs
<1> QED
  BY <1>5, <1>6, <1>7

\* BitsStream of a list that holds the data.
LEMMA BitsIs ==
    ASSUME NEW l, Shape(l), NEW d, Flat(l, d), NEW bits, bits = BitsStream(l)
    PROVE  StartsWith(l, d, bits)
<1>1. Filled(l.chain, l.wp) /\ Holds(l.chain, l.wp, d) /\ Start(Len(l.chain) + 1) <= l.cap
  BY DEF Shape, Flat
<1>2. PICK c, w : c = l.chain /\ w = l.wp
  OBVIOUS
<1>3. Filled(c, w) /\ Holds(c, w, d) /\ Start(Len(c) + 1) <= l.cap
  BY <1>1, <1>2
<1>4. PICK g \in Nat : g = Len(c) /\ w \in Nat /\ 1 <= w /\ w <= g
  BY <1>3, FilledSizes
<1>5. PICK z \in Nat : z = Len(c[w]) /\ z <= Base
  BY <1>3, <1>4, FilledSizes
<1>6. PICK y \in Nat : y = Len(c[g]) /\ y <= Base /\ (g > w => y = 0)
  <2>1. g \in 1 .. Len(c)
    BY <1>4
  <2> QED
    BY <1>3, <2>1, FilledSizes
<1>7. PICK v \in Nat, x \in Nat : v = Start(g) /\ x = Start(w)
  <2>1. g \in Nat \ {0} /\ w \in Nat \ {0} /\ 0 \in 0 .. Base - 1
    BY <1>4, BaseNat
  <2> QED
    BY <2>1, PlaceOf
<1>8. Start(g + 1) = v + Base
  BY <1>7, StartNext
<1>9. PICK L \in Nat : L = Len(d) /\ L = x + z /\ d \in Seq(Byte)
  <2>1. d \in Seq(Byte) /\ Len(d) = x + z
    BY <1>3, <1>5, <1>7 DEF Holds
  <2> QED
    BY <2>1, LenProperties
<1>10. PICK b \in Nat : b = v + y
  OBVIOUS
<1>11. L <= b
  <2>1. CASE w = g
    <3>1. x = v /\ z = y
      BY <1>5, <1>6, <1>7, <2>1
    <3> QED
      BY <1>9, <1>10, <3>1
  <2>2. CASE w < g
    <3>1. w \in Int /\ g \in Int
      BY <1>4
    <3>2. x + Base <= v
      BY <1>7, <2>2, <3>1, StartMono, Zenon
    <3> QED
      BY <1>5, <1>9, <1>10, <3>2, BaseNat
  <2> QED
    BY <1>4, <2>1, <2>2
<1>12. b <= Start(g + 1)
  BY <1>6, <1>8, <1>10, BaseNat
<1>13. bits = [i \in 1 .. b |-> ByteOf(c, i - 1)]
  <2>1. (g - 1) * Base + Len(c[g]) = b
    BY <1>6, <1>7, <1>10, Zenon DEF Start
  <2> QED
    BY <1>2, <1>4, <2>1, Zenon DEF BitsStream
<1>14. ASSUME NEW i \in 1 .. b PROVE ByteOf(c, i - 1) \in Byte
  <2>1. PICK n \in Nat : n = i - 1 /\ n < b
    OBVIOUS
  <2>2. n < Start(Len(c) + 1)
    BY <1>4, <1>8, <1>12, <2>1, BaseNat
  <2>3. ByteOf(c, n) \in Byte
    BY <1>3, <2>2, ByteOfType
  <2> QED
    BY <2>1, <2>3
<1>15. bits \in Seq(Byte) /\ Len(bits) = b /\ DOMAIN bits = 1 .. b
  <2>1. bits \in [1 .. b -> Byte]
    BY <1>13, <1>14
  <2>2. bits \in Seq(Byte)
    BY <2>1, SeqDef
  <2> QED
    BY <2>1, <2>2, LenProperties
<1>16. ASSUME NEW i \in 1 .. L PROVE bits[i] = d[i]
  <2>1. PICK n \in Nat : n = i - 1 /\ n < L /\ n + 1 = i /\ i \in 1 .. b
    BY <1>11
  <2>2. n < Len(d)
    BY <1>9, <2>1, Zenon
  <2>3. ByteOf(c, n) = d[n + 1]
    BY <1>3, <2>2, FlatByte
  <2>4. bits[i] = ByteOf(c, i - 1)
    BY <1>13, <2>1
  <2> QED
    BY <2>1, <2>3, <2>4
<1>17. b = L => bits = d
  BY <1>9, <1>15, <1>16, SeqEqual
<1>18. w = g => b = L
  BY <1>5, <1>6, <1>7, <1>9, <1>10
<1>19. ASSUME b # L PROVE Garbage \in Range(bits)
  <2>1. L < b
    BY <1>11, <1>19
  <2>2. Len(d) < Start(Len(c) + 1)
    BY <1>4, <1>8, <1>9, <1>12, <2>1, BaseNat
  <2>3. ByteOf(c, Len(d)) = Garbage
    BY <1>3, <2>2, FlatEnd
  <2>4. L + 1 \in 1 .. b /\ (L + 1) - 1 = L
    BY <2>1
  <2>5. bits[L + 1] = Garbage
    BY <1>9, <1>13, <2>3, <2>4
  <2> QED
    BY <1>15, <2>4, <2>5, Zenon DEF Range
<1>20. b <= l.cap
  <2>1. PICK k \in Nat : k = l.cap /\ Start(g + 1) <= k
    BY <1>3, <1>4 DEF Shape, List
  <2> QED
    BY <1>8, <1>12, <2>1, BaseNat
<1> QED
  BY <1>2, <1>4, <1>9, <1>11, <1>15, <1>16, <1>17, <1>18, <1>19, <1>20, Zenon DEF StartsWith

\* Starting with is what IsPrefix says.
LEMMA PrefixIs ==
    ASSUME NEW d \in Seq(Byte), NEW bits \in Seq(Byte), Len(d) <= Len(bits),
           \A i \in 1 .. Len(d) : bits[i] = d[i]
    PROVE  IsPrefix(d, bits)
<1>1. PICK L \in Nat, b \in Nat : L = Len(d) /\ b = Len(bits) /\ L <= b
  BY LenProperties
<1>2. /\ \A i \in 1 .. L : d[i] \in Byte
      /\ \A i \in 1 .. L : bits[i] \in Byte
  BY <1>1, ElementOfSeq
<1>3. PICK s, t : s = SubSeq(d, 1, L) /\ t = SubSeq(bits, 1, L)
  OBVIOUS
<1>4. /\ s \in Seq(Byte) /\ Len(s) = IF 1 <= L THEN L - 1 + 1 ELSE 0
      /\ \A i \in 1 .. L - 1 + 1 : s[i] = d[1 + i - 1]
  BY <1>2, <1>3, SubSeqProperties
<1>5. /\ t \in Seq(Byte) /\ Len(t) = IF 1 <= L THEN L - 1 + 1 ELSE 0
      /\ \A i \in 1 .. L - 1 + 1 : t[i] = bits[1 + i - 1]
  BY <1>2, <1>3, SubSeqProperties
<1>6. Len(s) = L /\ Len(t) = L
  BY <1>4, <1>5
<1>7. ASSUME NEW i \in 1 .. L PROVE s[i] = t[i]
  <2>1. i \in 1 .. L - 1 + 1 /\ 1 + i - 1 = i
    OBVIOUS
  <2> QED
    BY <1>1, <1>4, <1>5, <2>1
<1>8. s = t
  BY <1>4, <1>5, <1>6, <1>7, SeqEqual
<1> QED
  BY <1>1, <1>3, <1>8, Zenon DEF IsPrefix

-----------------------------------------------------------------------------
(* The client's items in the data.                                         *)

\* at[i] bytes of the data come before item i: the items, one after the other,
\* are the data.
Marks(at, ws, d) ==
    /\ at \in [1 .. Len(ws) + 1 -> Nat] /\ at[1] = 0 /\ at[Len(ws) + 1] = Len(d)
    /\ \A i \in 1 .. Len(ws) :
          /\ at[i] < Len(d)
          /\ at[i + 1] = at[i] + Len(Encoded(ws[i]))
          /\ \A j \in 1 .. Len(Encoded(ws[i])) : d[at[i] + j] = Encoded(ws[i])[j]

\* The bytes of an item: what the two calls of Write are given, and the two of Read
\* take.
LEMMA ItemBytes ==
    ASSUME ItemsFaithful, NEW item \in Items
    PROVE  /\ Encoded(item) \in Seq(Byte) /\ Len(Encoded(item)) \in Nat \ {0}
           /\ \A j \in 1 .. Len(Encoded(item)) : Encoded(item)[j] # Garbage
           /\ \E n \in Nat \ {0}, k \in Nat :
                 n = Pieces(item)[1] /\ k = Pieces(item)[2] /\ Len(Encoded(item)) = n + k
           /\ \E a \in Seq(Byte), b \in Seq(Byte) :
                 /\ a = Parts(item)[1] /\ b = Parts(item)[2] /\ Len(a) \in Nat \ {0}
                 /\ Encoded(item) = a \o b
<1>1. Faithful(item)
  BY DEF ItemsFaithful
<1>2. PICK a, b : a = Parts(item)[1] /\ b = Parts(item)[2]
  OBVIOUS
<1>3. a \in Seq(0 .. 255) /\ b \in Seq(0 .. 255) /\ a # <<>> /\ Pieces(item) = <<Len(a), Len(b)>>
  BY <1>1, <1>2 DEF Faithful
<1>4. PICK n \in Nat, k \in Nat : n = Len(a) /\ k = Len(b)
  BY <1>3, LenProperties
<1>5. n \in Nat \ {0} /\ n = Pieces(item)[1] /\ k = Pieces(item)[2]
  <2>1. n # 0
    BY <1>3, <1>4, EmptySeq
  <2> QED
    BY <1>3, <1>4, <2>1
<1>6. PICK e : e = a \o b
  OBVIOUS
<1>7. e = Encoded(item)
  BY <1>2, <1>6, Zenon DEF Encoded
<1>8. e \in Seq(0 .. 255) /\ Len(e) = n + k
  BY <1>3, <1>4, <1>6, ConcatProperties
<1>9. \A j \in 1 .. Len(e) : e[j] \in 0 .. 255
  BY <1>8, ElementOfSeq
<1>10. \A j \in 1 .. Len(e) : e[j] # Garbage
  <2>1. \A x \in 0 .. 255 : x # Garbage
    BY DEF Garbage
  <2> QED
    BY <1>9, <2>1, Zenon
<1>11. \A s : s \in Seq(0 .. 255) => s \in Seq(Byte)
  <2>1. ASSUME NEW s \in Seq(0 .. 255) PROVE s \in Seq(Byte)
    <3>1. s \in [1 .. Len(s) -> 0 .. 255] /\ Len(s) \in Nat
      BY <2>1, LenProperties
    <3>2. \A x \in 0 .. 255 : x \in Byte
      BY DEF Byte
    <3>3. s \in [1 .. Len(s) -> Byte]
      BY <3>1, <3>2
    <3> QED
      BY <3>1, <3>3, SeqDef
  <2> QED
    BY <2>1
<1>12. Len(e) \in Nat \ {0}
  BY <1>5, <1>8
<1>13. a \in Seq(Byte) /\ b \in Seq(Byte) /\ e \in Seq(Byte)
  BY <1>3, <1>8, <1>11
<1> QED
  BY <1>2, <1>4, <1>5, <1>6, <1>7, <1>8, <1>10, <1>12, <1>13, Zenon

\* One more item behind the data.
LEMMA MarksAppend ==
    ASSUME ItemsFaithful, NEW at, NEW ws \in Seq(Items), NEW d \in Seq(Byte), NEW item \in Items,
           Marks(at, ws, d)
    PROVE  \E b : /\ Marks(b, Append(ws, item), d \o Encoded(item))
                  /\ \A i \in 1 .. Len(ws) + 1 : b[i] = at[i]
<1>1. PICK e : e = Encoded(item) /\ e \in Seq(Byte)
  BY ItemBytes
<1>2. PICK k \in Nat \ {0} : k = Len(e)
  BY <1>1, ItemBytes
<1>3. PICK n \in Nat, L \in Nat : n = Len(ws) /\ L = Len(d)
  BY LenProperties
<1>4. PICK v : v = Append(ws, item)
  OBVIOUS
<1>5. Len(v) = n + 1 /\ v[n + 1] = item /\ \A i \in 1 .. n : v[i] = ws[i]
  BY <1>3, <1>4, AppendProperties
<1>6. PICK c : c = d \o e
  OBVIOUS
<1>7. /\ Len(c) = L + k
      /\ \A i \in 1 .. L + k : c[i] = IF i <= L THEN d[i] ELSE e[i - L]
  <2>1. /\ Len(c) = Len(d) + Len(e)
        /\ \A i \in 1 .. Len(d) + Len(e) : c[i] = IF i <= Len(d) THEN d[i] ELSE e[i - Len(d)]
    BY <1>1, <1>6, ConcatProperties
  <2> QED
    BY <1>2, <1>3, <2>1, Zenon
<1>8. /\ at \in [1 .. n + 1 -> Nat] /\ at[1] = 0 /\ at[n + 1] = L
      /\ \A i \in 1 .. n :
            /\ at[i] < L
            /\ at[i + 1] = at[i] + Len(Encoded(ws[i]))
            /\ \A j \in 1 .. Len(Encoded(ws[i])) : d[at[i] + j] = Encoded(ws[i])[j]
  BY <1>3, Zenon DEF Marks
<1>9. PICK b : b = [i \in 1 .. (n + 1) + 1 |-> IF i <= n + 1 THEN at[i] ELSE L + k]
  OBVIOUS
<1>10. /\ b \in [1 .. (n + 1) + 1 -> Nat]
       /\ \A i \in 1 .. n + 1 : b[i] = at[i]
       /\ b[(n + 1) + 1] = L + k
  <2>1. \A i \in 1 .. n + 1 : i \in 1 .. (n + 1) + 1 /\ i <= n + 1 /\ at[i] \in Nat
    BY <1>8
  <2>2. (n + 1) + 1 \in 1 .. (n + 1) + 1 /\ ~((n + 1) + 1 <= n + 1)
    OBVIOUS
  <2>3. \A i \in 1 .. (n + 1) + 1 : i <= n + 1 => i \in 1 .. n + 1
    OBVIOUS
  <2>4. L + k \in Nat
    OBVIOUS
  <2> QED
    BY <1>9, <2>1, <2>2, <2>3, <2>4
<1>11. b[1] = 0
  <2>1. 1 \in 1 .. n + 1
    OBVIOUS
  <2> QED
    BY <1>8, <1>10, <2>1
<1>12. ASSUME NEW i \in 1 .. n + 1
       PROVE  /\ b[i] < L + k
              /\ b[i + 1] = b[i] + Len(Encoded(v[i]))
              /\ \A j \in 1 .. Len(Encoded(v[i])) : c[b[i] + j] = Encoded(v[i])[j]
  <2>1. CASE i = n + 1
    <3>1. v[i] = item /\ b[i] = L /\ b[i + 1] = L + k
      BY <1>5, <1>8, <1>10, <2>1
    <3>2. ASSUME NEW j \in 1 .. k PROVE c[L + j] = e[j]
      <4>1. L + j \in 1 .. L + k /\ ~(L + j <= L) /\ (L + j) - L = j
        OBVIOUS
      <4> QED
        BY <1>7, <4>1
    <3>3. L < L + k
      OBVIOUS
    <3> QED
      BY <1>1, <1>2, <3>1, <3>2, <3>3
  <2>2. CASE i \in 1 .. n
    <3>1. i \in 1 .. n + 1 /\ i + 1 \in 1 .. n + 1
      BY <2>2
    <3>2. b[i] = at[i] /\ b[i + 1] = at[i + 1] /\ v[i] = ws[i]
      BY <1>5, <1>10, <2>2, <3>1
    <3>3. PICK a \in Nat : a = at[i] /\ a < L
      BY <1>8, <2>2, <3>1
    <3>4. PICK x : x = Encoded(ws[i])
      OBVIOUS
    <3>5. at[i + 1] = a + Len(x) /\ \A j \in 1 .. Len(x) : d[a + j] = x[j]
      BY <1>8, <2>2, <3>3, <3>4, Zenon
    <3>6. PICK y \in Nat : y = Len(x) /\ a + y <= L
      <4>1. ws[i] \in Items
        BY <1>3, <2>2, ElementOfSeq
      <4>2. Len(x) \in Nat
        BY <3>4, <4>1, ItemBytes
      <4>3. at[i + 1] <= L
        BY <1>8, <2>2, <3>1
      <4> QED
        BY <3>5, <4>2, <4>3
    <3>7. ASSUME NEW j \in 1 .. y PROVE c[a + j] = x[j]
      <4>1. a + j \in 1 .. L + k /\ a + j <= L
        BY <3>6
      <4>2. c[a + j] = d[a + j]
        BY <1>7, <4>1
      <4> QED
        BY <3>5, <3>6, <4>2
    <3>8. a < L + k
      BY <3>3
    <3> QED
      BY <3>2, <3>3, <3>4, <3>5, <3>6, <3>7, <3>8
  <2> QED
    BY <2>1, <2>2
<1>13. Marks(b, v, c)
  BY <1>5, <1>7, <1>10, <1>11, <1>12, Zenon DEF Marks
<1> QED
  BY <1>1, <1>3, <1>4, <1>6, <1>10, <1>13, Zenon

-----------------------------------------------------------------------------
(* The inductive invariant.                                                *)

\* Where the reader is, when rd of the items were read: before the next one; once
\* it has passed the end of a full block it is lost, or on a spare block as long as
\* nothing is left to read.
Reader(at, l, ws, rd, h) ==
    /\ h = {} => At(l, at[rd + 1])
    /\ h # {} => l.rp <= 0 \/ (rd = Len(ws) /\ l.rp = l.wp + 1 /\ Len(l.chain[l.wp]) = Base)

Tracked(l, ws, d, rd, h) == \E at : Marks(at, ws, d) /\ Reader(at, l, ws, rd, h)

\* The types, and that the blocks hold the data.
Built(l, ws, d, rd, c) ==
    /\ Shape(l) /\ Flat(l, d)
    /\ ws \in Seq(Items) /\ rd \in 0 .. Len(ws)
    /\ c \in {"none", "null", "unset", "range"}

\* What is right of the reads.
Sound(h, d, c, res) ==
    /\ "padded" \in h => Garbage \in Range(d)
    /\ c # "none" => h # {}
    /\ c = "none" /\ "padded" \notin h => res.got = res.due

Good(l, ws, d, rd, h, c, res) ==
    /\ Built(l, ws, d, rd, c)
    /\ Sound(h, d, c, res)
    /\ c = "none" /\ "padded" \notin h => Tracked(l, ws, d, rd, h)

BInv == Good(list, written, data, reads, hurt, crash, result)

\* The array as it is made, or emptied.
LEMMA NewIs ==
    ASSUME NEW k \in Nat, Base <= k, NEW l, l = [NewList EXCEPT !.cap = k]
    PROVE  Shape(l) /\ Flat(l, <<>>) /\ l.rp = 1 /\ l.pos = 0 /\ l.wp = 1 /\ At(l, 0)
<1>1. PICK c : c = <<<<>>>>
  OBVIOUS
<1>2. l = [chain |-> c, wp |-> 1, rp |-> 1, pos |-> 0, cap |-> k]
  BY <1>1 DEF NewList
<1>3. l.chain = c /\ l.wp = 1 /\ l.rp = 1 /\ l.pos = 0
  BY <1>2
<1>4. c \in Blocks /\ Len(c) = 1 /\ c[1] = <<>> /\ Len(c[1]) = 0
  <2>1. <<>> \in Seq(Byte)
    OBVIOUS
  <2> QED
    BY <1>1, <2>1 DEF Blocks
<1>5. Filled(c, 1)
  <2>1. 1 \in 1 .. Len(c) /\ ~(1 > 1)
    BY <1>4
  <2>2. \A i \in 1 .. Len(c) : i = 1
    BY <1>4
  <2>3. 0 <= Base /\ ~(1 < 1)
    BY BaseNat
  <2> QED
    BY <1>4, <2>1, <2>2, <2>3 DEF Filled
<1>6. Start(1) = 0 /\ Start(1 + 1) = Base
  BY StartNext, BaseNat
<1>7. 1 \in Int /\ 0 \in 0 .. Base - 1 /\ 1 <= Len(c) /\ Start(Len(c) + 1) <= k
  BY <1>4, <1>6, BaseNat
<1>8. Shape(l)
  <2>1. c \in Seq(Seq(-1 .. 255)) /\ 1 \in Nat
    BY <1>4 DEF Blocks, Byte
  <2>2. l \in List
    <3>1. PICK S : S = Seq(Seq(-1 .. 255))
      OBVIOUS
    <3>2. PICK P : P = 0 .. Base - 1 /\ 0 \in P
      BY <1>7
    <3>3. [chain |-> c, wp |-> 1, rp |-> 1, pos |-> 0, cap |-> k]
          \in [chain : S, wp : Nat, rp : Int, pos : P, cap : Nat]
      BY <2>1, <3>1, <3>2
    <3> QED
      BY <1>2, <3>1, <3>2, <3>3 DEF List
  <2>3. l.cap = k
    BY <1>2
  <2> QED
    BY <1>3, <1>5, <1>7, <2>2, <2>3, Zenon DEF Shape
<1>9. Holds(c, 1, <<>>)
  <2>1. <<>> \in Seq(Byte) /\ Len(<<>>) = 0
    OBVIOUS
  <2>2. Len(<<>>) = Start(1) + Len(c[1])
    BY <1>4, <1>6, <2>1
  <2>3. \A i \in 1 .. 1 : 1 .. Len(c[i]) = {}
    BY <1>4
  <2> QED
    BY <2>1, <2>2, <2>3, Zenon DEF Holds
<1>10. Flat(l, <<>>)
  BY <1>3, <1>9, Zenon DEF Flat
<1>11. At(l, 0)
  BY <1>3, <1>6 DEF At
<1> QED
  BY <1>3, <1>8, <1>10, <1>11

\* Empty is one of these.
LEMMA EmptyIs ==
    ASSUME NEW l, Shape(l), NEW e, e = Empty(l)
    PROVE  Shape(e) /\ Flat(e, <<>>) /\ e.rp = 1 /\ e.pos = 0 /\ e.wp = 1 /\ At(e, 0)
<1>1. PICK c \in Blocks, w \in Nat, r \in Int, p \in 0 .. Base - 1, k \in Nat :
         /\ l = [chain |-> c, wp |-> w, rp |-> r, pos |-> p, cap |-> k]
         /\ Filled(c, w) /\ r <= Len(c) /\ Start(Len(c) + 1) <= k
  BY ListFields
<1>2. PICK g \in Nat : g = Len(c) /\ 1 <= g
  BY <1>1, FilledSizes
<1>3. Base <= k
  <2>1. 1 < g + 1 /\ 1 \in Int /\ g + 1 \in Int
    BY <1>2
  <2>2. Start(1) + Base <= Start(g + 1)
    BY <2>1, StartMono, Zenon
  <2>3. Start(1) = 0 /\ Start(g + 1) \in Int
    BY <2>1, StartNext, Zenon
  <2> QED
    BY <1>1, <1>2, <2>2, <2>3, BaseNat
<1>4. l.cap = k
  BY <1>1
<1>5. e = [NewList EXCEPT !.cap = k]
  BY <1>4, Zenon DEF Empty
<1> QED
  BY <1>3, <1>5, NewIs

\* No items, no data.
LEMMA MarksEmpty == \E at : Marks(at, <<>>, <<>>) /\ at[1] = 0
<1>1. PICK at : at = [i \in 1 .. 1 |-> 0]
  OBVIOUS
<1>2. at \in [1 .. 1 -> Nat] /\ at[1] = 0
  BY <1>1
<1>3. Len(<<>>) = 0 /\ Len(<<>>) + 1 = 1 /\ 1 .. Len(<<>>) = {}
  OBVIOUS
<1>4. Marks(at, <<>>, <<>>)
  BY <1>2, <1>3 DEF Marks
<1> QED
  BY <1>2, <1>4

\* An empty array is good.
LEMMA GoodEmpty ==
    ASSUME NEW l, Shape(l), Flat(l, <<>>), At(l, 0)
    PROVE  Good(l, <<>>, <<>>, 0, {}, "none", Nothing)
<1>1. PICK at : Marks(at, <<>>, <<>>) /\ at[1] = 0
  BY MarksEmpty
<1>2. Reader(at, l, <<>>, 0, {})
  <2>1. 0 + 1 = 1
    OBVIOUS
  <2>2. At(l, at[0 + 1])
    BY <1>1, <2>1
  <2> QED
    BY <2>2, Zenon DEF Reader
<1>3. <<>> \in Seq(Items) /\ 0 \in 0 .. Len(<<>>)
  OBVIOUS
<1>4. Nothing.got = Nothing.due
  BY DEF Nothing
<1>5. "padded" \notin {}
  OBVIOUS
<1> QED
  BY <1>1, <1>2, <1>3, <1>4, <1>5, Zenon DEF Good, Built, Sound, Tracked

-----------------------------------------------------------------------------
(* The operations keep the invariant.                                      *)

\* Two calls of Write are one of all the bytes, but for the blocks they add.
LEMMA WriteTwice ==
    ASSUME NEW l, Shape(l), NEW a \in Seq(Byte), NEW b \in Seq(Byte),
           NEW m, m = Write(Write(l, a), b)
    PROVE  /\ Shape(m) /\ m.pos = l.pos /\ l.wp <= m.wp
           /\ \A d \in Seq(Byte) : Flat(l, d) => Flat(m, d \o (a \o b))
           /\ l.rp <= l.wp => m.rp = l.rp
           /\ l.rp > l.wp /\ Rest(l.chain[l.wp]) < Len(a) => m.rp < 0
<1>1. PICK k : k = Write(l, a)
  OBVIOUS
<1>2. /\ Shape(k) /\ k.pos = l.pos /\ l.wp <= k.wp
      /\ \A d : Flat(l, d) => Flat(k, d \o a)
      /\ l.rp <= l.wp => k.rp = l.rp
      /\ l.rp > l.wp /\ Rest(l.chain[l.wp]) < Len(a) => k.rp < 0
  BY <1>1, WriteKeeps, Zenon
<1>3. m = Write(k, b)
  BY <1>1
<1>4. /\ Shape(m) /\ m.pos = k.pos /\ k.wp <= m.wp
      /\ \A d : Flat(k, d) => Flat(m, d \o b)
      /\ k.rp <= k.wp => m.rp = k.rp
  BY <1>2, <1>3, WriteKeeps, Zenon
<1>5. PICK w \in Nat, v \in Nat, u \in Nat, r \in Int, q \in Int :
         w = l.wp /\ v = k.wp /\ u = m.wp /\ r = l.rp /\ q = k.rp
  BY <1>2, <1>4 DEF Shape, List
<1>6. w <= u
  BY <1>2, <1>4, <1>5
<1>7. ASSUME r <= w PROVE m.rp = r
  <2>1. q = r /\ q <= v
    BY <1>2, <1>5, <1>7
  <2> QED
    BY <1>4, <1>5, <2>1, Zenon
<1>8. ASSUME r > w, Rest(l.chain[w]) < Len(a) PROVE m.rp < 0
  <2>1. q < 0
    BY <1>2, <1>5, <1>8, Zenon
  <2>2. q <= v
    BY <2>1
  <2>3. m.rp = q
    BY <1>4, <1>5, <2>2, Zenon
  <2> QED
    BY <2>1, <2>3
<1>9. ASSUME NEW d \in Seq(Byte), Flat(l, d) PROVE Flat(m, d \o (a \o b))
  <2>1. Flat(m, (d \o a) \o b)
    BY <1>2, <1>4, <1>9, Zenon
  <2>2. (d \o a) \o b = d \o (a \o b)
    BY ConcatAssociative
  <2> QED
    BY <2>1, <2>2
<1> QED
  BY <1>2, <1>4, <1>5, <1>6, <1>7, <1>8, <1>9, Zenon

\* WriteItem.
LEMMA GoodWrite ==
    ASSUME ItemsFaithful,
           NEW l, NEW ws, NEW d, NEW rd, NEW h, NEW res, Good(l, ws, d, rd, h, "none", res),
           NEW item \in Items
    PROVE  Good(Write(Write(l, Parts(item)[1]), Parts(item)[2]), Append(ws, item),
                d \o Encoded(item), rd, h, "none", Nothing)
<1>1. PICK e : e = Encoded(item) /\ e \in Seq(Byte) /\ Len(e) \in Nat \ {0}
  BY ItemBytes
<1>13. PICK a \in Seq(Byte), o \in Seq(Byte) :
          a = Parts(item)[1] /\ o = Parts(item)[2] /\ Len(a) \in Nat \ {0} /\ e = a \o o
  BY <1>1, ItemBytes, Zenon
<1>2. PICK m : m = Write(Write(l, a), o)
  OBVIOUS
<1>3. Shape(l) /\ Flat(l, d) /\ ws \in Seq(Items) /\ rd \in 0 .. Len(ws)
  BY DEF Good, Built
<1>4. /\ Shape(m) /\ m.pos = l.pos /\ l.wp <= m.wp
      /\ \A x \in Seq(Byte) : Flat(l, x) => Flat(m, x \o e)
      /\ l.rp <= l.wp => m.rp = l.rp
      /\ l.rp > l.wp /\ Rest(l.chain[l.wp]) < Len(a) => m.rp < 0
  <2>1. /\ Shape(m) /\ m.pos = l.pos /\ l.wp <= m.wp
        /\ \A x \in Seq(Byte) : Flat(l, x) => Flat(m, x \o (a \o o))
        /\ l.rp <= l.wp => m.rp = l.rp
        /\ l.rp > l.wp /\ Rest(l.chain[l.wp]) < Len(a) => m.rp < 0
    BY <1>2, <1>3, WriteTwice
  <2>2. \A x \in Seq(Byte) : Flat(l, x) => Flat(m, x \o e)
    BY <1>13, <2>1, Zenon
  <2> QED
    BY <2>1, <2>2, Zenon
<1>5. d \in Seq(Byte)
  BY <1>3 DEF Flat, Holds
<1>6. PICK c : c = d \o e
  OBVIOUS
<1>7. PICK v : v = Append(ws, item)
  OBVIOUS
<1>8. v \in Seq(Items) /\ Len(v) = Len(ws) + 1 /\ Len(ws) \in Nat
  BY <1>3, <1>7, AppendProperties, LenProperties
<1>9. Built(m, v, c, rd, "none")
  <2>1. rd \in 0 .. Len(v)
    BY <1>3, <1>8
  <2>2. Flat(m, c)
    BY <1>3, <1>4, <1>5, <1>6, Zenon
  <2> QED
    BY <1>4, <1>8, <2>1, <2>2 DEF Built
<1>10. Sound(h, c, "none", Nothing)
  <2>1. "padded" \in h => Garbage \in Range(d)
    BY DEF Good, Sound
  <2>2. ASSUME Garbage \in Range(d) PROVE Garbage \in Range(c)
    <3>1. DOMAIN d = 1 .. Len(d) /\ DOMAIN c = 1 .. Len(d) + Len(e) /\ Len(d) \in Nat
          /\ \A i \in 1 .. Len(d) + Len(e) : c[i] = IF i <= Len(d) THEN d[i] ELSE e[i - Len(d)]
      <4>1. c \in Seq(Byte) /\ Len(c) = Len(d) + Len(e)
            /\ \A i \in 1 .. Len(d) + Len(e) : c[i] = IF i <= Len(d) THEN d[i] ELSE e[i - Len(d)]
        BY <1>1, <1>5, <1>6, ConcatProperties
      <4> QED
        BY <1>5, <4>1, LenProperties
    <3>2. PICK i \in 1 .. Len(d) : d[i] = Garbage
      BY <2>2, <3>1, Zenon DEF Range
    <3>3. i \in 1 .. Len(d) + Len(e) /\ i <= Len(d)
      BY <1>1, <3>1
    <3>4. c[i] = Garbage
      BY <3>1, <3>2, <3>3
    <3> QED
      BY <3>1, <3>3, <3>4, Zenon DEF Range
  <2>3. Nothing.got = Nothing.due
    BY DEF Nothing
  <2> QED
    BY <2>1, <2>2, <2>3, Zenon DEF Sound
<1>11. ASSUME "padded" \notin h PROVE Tracked(m, v, c, rd, h)
  <2>1. Tracked(l, ws, d, rd, h)
    BY <1>11 DEF Good
  <2>2. PICK at : Marks(at, ws, d) /\ Reader(at, l, ws, rd, h)
    BY <2>1, Zenon DEF Tracked
  <2>3. PICK b : Marks(b, v, c) /\ \A i \in 1 .. Len(ws) + 1 : b[i] = at[i]
    <3>1. \E b : /\ Marks(b, Append(ws, item), d \o Encoded(item))
                 /\ \A i \in 1 .. Len(ws) + 1 : b[i] = at[i]
      BY <1>3, <1>5, <2>2, MarksAppend
    <3> QED
      BY <1>1, <1>6, <1>7, <3>1, Zenon
  <2>4. rd + 1 \in 1 .. Len(ws) + 1
    BY <1>3, <1>8
  <2>5. PICK w \in Nat, r \in Int, u \in Nat : w = l.wp /\ r = l.rp /\ u = m.wp /\ 1 <= w
    <3>1. l.wp \in Nat /\ l.rp \in Int /\ 1 <= l.wp
      BY <1>3, FilledSizes DEF Shape, List
    <3>2. m.wp \in Nat
      BY <1>4, FilledSizes DEF Shape, List
    <3> QED
      BY <3>1, <3>2
  <2>6. w <= u
    BY <1>4, <2>5
  <2>7. ASSUME h = {} PROVE At(m, b[rd + 1])
    <3>1. At(l, at[rd + 1])
      BY <2>2, <2>7, Zenon DEF Reader
    <3>2. r \in 1 .. w /\ Start(r) + l.pos = at[rd + 1]
      BY <2>5, <3>1, Zenon DEF At
    <3>3. r <= w
      BY <3>2
    <3>4. m.rp = r
      BY <1>4, <2>5, <3>3, Zenon
    <3>5. r \in 1 .. u
      BY <2>6, <3>2
    <3>6. b[rd + 1] = at[rd + 1]
      BY <2>3, <2>4, Zenon
    <3> QED
      BY <1>4, <2>5, <3>2, <3>4, <3>5, <3>6, Zenon DEF At
  <2>8. ASSUME h # {} PROVE m.rp <= 0
    <3>1. r <= 0 \/ (r = w + 1 /\ Len(l.chain[w]) = Base)
      BY <2>2, <2>5, <2>8, Zenon DEF Reader
    <3>2. CASE r <= 0
      <4>1. r <= w
        BY <3>2
      <4>2. m.rp = r
        BY <1>4, <2>5, <4>1, Zenon
      <4> QED
        BY <3>2, <4>2
    <3>3. CASE r = w + 1 /\ Len(l.chain[w]) = Base
      <4>1. r > w
        BY <3>3
      <4>2. Rest(l.chain[w]) < Len(a)
        BY <1>13, <3>3, BaseNat DEF Rest
      <4>3. m.rp < 0
        BY <1>4, <2>5, <4>1, <4>2, Zenon
      <4>4. m.rp \in Int
        BY <1>4 DEF Shape, List
      <4> QED
        BY <4>3, <4>4
    <3> QED
      BY <3>1, <3>2, <3>3
  <2>9. Reader(b, m, v, rd, h)
    BY <2>7, <2>8, Zenon DEF Reader
  <2> QED
    BY <2>3, <2>9, Zenon DEF Tracked
<1>12. Good(m, v, c, rd, h, "none", Nothing)
  BY <1>9, <1>10, <1>11, Zenon DEF Good
<1> QED
  BY <1>1, <1>2, <1>6, <1>7, <1>12, <1>13, Zenon

\* GetBuffer.
LEMMA GoodGrow ==
    ASSUME NEW l, NEW ws, NEW d, NEW rd, NEW h, NEW res, Good(l, ws, d, rd, h, "none", res),
           NEW n \in Nat
    PROVE  Good(ExtendCapacity(l, n), ws, d, rd, h, "none", Nothing)
<1>1. PICK m : m = ExtendCapacity(l, n)
  OBVIOUS
<1>2. Shape(l) /\ Flat(l, d) /\ ws \in Seq(Items) /\ rd \in 0 .. Len(ws)
  BY DEF Good, Built
<1>3. Grown(l, m, RoundUp(n))
  BY <1>1, <1>2, ExtendKeeps
<1>4. /\ Shape(m) /\ m.pos = l.pos /\ m.wp = l.wp /\ m.chain[m.wp] = l.chain[l.wp]
      /\ \A x : Flat(l, x) => Flat(m, x)
      /\ l.rp > l.wp => m.rp = l.rp - Len(l.chain) - 1
      /\ ~(l.rp > l.wp) => m.rp = l.rp
  BY <1>3, Zenon DEF Grown
<1>5. Built(m, ws, d, rd, "none")
  BY <1>2, <1>4 DEF Built
<1>6. Sound(h, d, "none", Nothing)
  <2>1. Nothing.got = Nothing.due
    BY DEF Nothing
  <2> QED
    BY <2>1, Zenon DEF Good, Sound
<1>7. ASSUME "padded" \notin h PROVE Tracked(m, ws, d, rd, h)
  <2>1. Tracked(l, ws, d, rd, h)
    BY <1>7 DEF Good
  <2>2. PICK at : Marks(at, ws, d) /\ Reader(at, l, ws, rd, h)
    BY <2>1, Zenon DEF Tracked
  <2>3. PICK w \in Nat, r \in Int, g \in Nat :
           w = l.wp /\ r = l.rp /\ g = Len(l.chain) /\ 1 <= w /\ w <= g
    BY <1>2, FilledSizes DEF Shape, List
  <2>4. ASSUME h = {} PROVE At(m, at[rd + 1])
    <3>1. At(l, at[rd + 1])
      BY <2>2, <2>4, Zenon DEF Reader
    <3>2. r \in 1 .. w /\ Start(r) + l.pos = at[rd + 1]
      BY <2>3, <3>1, Zenon DEF At
    <3>3. ~(r > w)
      BY <3>2
    <3>4. m.rp = r
      BY <1>4, <2>3, <3>3, Zenon
    <3> QED
      BY <1>4, <2>3, <3>2, <3>4, Zenon DEF At
  <2>5. ASSUME h # {} PROVE m.rp <= 0
    <3>1. r <= 0 \/ r = w + 1
      BY <2>2, <2>3, <2>5, Zenon DEF Reader
    <3>2. CASE r <= 0
      <4>1. ~(r > w)
        BY <3>2
      <4>2. m.rp = r
        BY <1>4, <2>3, <4>1, Zenon
      <4> QED
        BY <3>2, <4>2
    <3>3. CASE r = w + 1
      <4>1. r > w /\ r - g - 1 <= 0
        BY <2>3, <3>3
      <4>2. m.rp = r - g - 1
        BY <1>4, <2>3, <4>1, Zenon
      <4> QED
        BY <4>1, <4>2
    <3> QED
      BY <3>1, <3>2, <3>3
  <2>6. Reader(at, m, ws, rd, h)
    BY <2>4, <2>5, Zenon DEF Reader
  <2> QED
    BY <2>2, <2>6, Zenon DEF Tracked
<1>8. Good(m, ws, d, rd, h, "none", Nothing)
  BY <1>5, <1>6, <1>7, Zenon DEF Good
<1> QED
  BY <1>1, <1>8

\* SetAllBits of what the array holds.
LEMMA GoodSet ==
    ASSUME NEW l, NEW ws, NEW d, NEW rd, NEW h, NEW res, Good(l, ws, d, rd, h, "none", res),
           NEW bits, bits = BitsStream(l), NEW q,
           q = IF Garbage \in Range(bits) THEN {"padded"} ELSE {}
    PROVE  Good(Write(Empty(l), bits), ws, bits, 0, q, "none", Nothing)
<1>1. Shape(l) /\ Flat(l, d) /\ ws \in Seq(Items) /\ rd \in 0 .. Len(ws)
  BY DEF Good, Built
<1>2. StartsWith(l, d, bits)
  BY <1>1, BitsIs
<1>3. bits \in Seq(Byte) /\ (Garbage \notin Range(bits) => bits = d)
  BY <1>2, Zenon DEF StartsWith
<1>4. PICK e : e = Empty(l)
  OBVIOUS
<1>5. Shape(e) /\ Flat(e, <<>>) /\ e.rp = 1 /\ e.pos = 0 /\ e.wp = 1
  BY <1>1, <1>4, EmptyIs
<1>6. PICK m : m = Write(e, bits)
  OBVIOUS
<1>7. /\ Shape(m) /\ m.pos = e.pos /\ e.wp <= m.wp
      /\ \A x : Flat(e, x) => Flat(m, x \o bits)
      /\ e.rp <= e.wp => m.rp = e.rp
  BY <1>3, <1>5, <1>6, WriteKeeps, Zenon
<1>8. Flat(m, bits)
  <2>1. <<>> \o bits = bits
    BY <1>3, ConcatEmptySeq
  <2> QED
    BY <1>5, <1>7, <2>1, Zenon
<1>9. At(m, 0)
  <2>1. m.rp = 1 /\ m.pos = 0 /\ 1 <= m.wp
    BY <1>5, <1>7
  <2>2. m.wp \in Nat
    BY <1>7, FilledSizes DEF Shape
  <2>3. Start(1) = 0
    BY StartNext
  <2> QED
    BY <2>1, <2>2, <2>3 DEF At
<1>10. Built(m, ws, bits, 0, "none")
  <2>1. Len(ws) \in Nat
    BY <1>1, LenProperties
  <2>2. 0 \in 0 .. Len(ws)
    BY <2>1
  <2> QED
    BY <1>1, <1>7, <1>8, <2>2 DEF Built
<1>11. Nothing.got = Nothing.due /\ "padded" \in {"padded"} /\ "padded" \notin {}
  BY DEF Nothing
<1>12. Sound(q, bits, "none", Nothing)
  <2>1. "padded" \in q => Garbage \in Range(bits)
    BY <1>11, Zenon
  <2> QED
    BY <1>11, <2>1, Zenon DEF Sound
<1>13. ASSUME "padded" \notin q PROVE Tracked(m, ws, bits, 0, q)
  <2>1. Garbage \notin Range(bits) /\ q = {}
    BY <1>11, <1>13, Zenon
  <2>2. bits = d
    BY <1>3, <2>1
  <2>3. "padded" \notin h
    BY <2>1, <2>2, Zenon DEF Good, Sound
  <2>4. PICK at : Marks(at, ws, d)
    BY <2>3, Zenon DEF Good, Tracked
  <2>5. at[0 + 1] = 0
    <3>1. at[1] = 0 /\ 0 + 1 = 1
      BY <2>4 DEF Marks
    <3> QED
      BY <3>1
  <2>6. Reader(at, m, ws, 0, q)
    BY <1>9, <2>1, <2>5, Zenon DEF Reader
  <2> QED
    BY <2>2, <2>4, <2>6, Zenon DEF Tracked
<1>14. Good(m, ws, bits, 0, q, "none", Nothing)
  BY <1>10, <1>12, <1>13, Zenon DEF Good
<1> QED
  BY <1>4, <1>6, <1>14

\* What ReadItem reads, and what is noted of it.
Noted(h, ws, rd, pos) == h \cup (IF rd + 1 = Len(ws) /\ pos = 0 THEN {"drained"} ELSE {})

\* ReadItem.
LEMMA GoodRead1 ==
    ASSUME ItemsFaithful, NEW l, NEW ws, NEW d, NEW rd, NEW h, NEW res, Good(l, ws, d, rd, h, "none", res),
           rd < Len(ws), NEW n, NEW k, n = Pieces(ws[rd + 1])[1], k = Pieces(ws[rd + 1])[2],
           NEW m, NEW y, NEW c, TwoReads(l, n, k) = Call(m, y, c)
    PROVE  Good(m, ws, d, rd + 1, Noted(h, ws, rd, m.pos), c,
                [due |-> Encoded(ws[rd + 1]), got |-> y])
<1>1. Shape(l) /\ Flat(l, d) /\ ws \in Seq(Items) /\ rd \in 0 .. Len(ws)
  BY DEF Good, Built
<1>2. PICK g \in Nat : g = Len(ws)
  BY <1>1, LenProperties
<1>3. rd \in Nat /\ rd + 1 \in 1 .. g /\ rd + 1 \in 0 .. g /\ rd + 1 \in 1 .. g + 1
  BY <1>1, <1>2
<1>4. PICK item \in Items : item = ws[rd + 1]
  BY <1>1, <1>2, <1>3, ElementOfSeq
<1>5. PICK e : e = Encoded(item)
  OBVIOUS
<1>6. /\ e \in Seq(Byte) /\ Len(e) \in Nat \ {0} /\ \A j \in 1 .. Len(e) : e[j] # Garbage
      /\ n \in Nat \ {0} /\ k \in Nat /\ Len(e) = n + k
  BY <1>4, <1>5, ItemBytes, Zenon
<1>7. /\ Shape(m) /\ m.chain = l.chain /\ m.wp = l.wp
      /\ c \in {"none", "null", "unset", "range"}
  <2>1. n \in Nat
    BY <1>6
  <2>2. SameBlocks(l, TwoReads(l, n, k))
    BY <1>1, <1>6, <2>1, BothKeep
  <2>3. PICK m1, z1, c1 : /\ Call(m, y, c) = Call(m1, z1, c1)
                          /\ Shape(m1) /\ m1.chain = l.chain /\ m1.wp = l.wp
                          /\ c1 \in {"none", "null", "unset", "range"}
    BY <2>2, Zenon DEF SameBlocks
  <2>4. m = m1 /\ c = c1
    BY <2>3 DEF Call
  <2> QED
    BY <2>3, <2>4, Zenon
<1>8. Built(m, ws, d, rd + 1, c)
  <2>1. Flat(m, d)
    BY <1>1, <1>7, Zenon DEF Flat
  <2> QED
    BY <1>1, <1>2, <1>3, <1>7, <2>1 DEF Built
<1>9. PICK q : q = Noted(h, ws, rd, m.pos)
  OBVIOUS
<1>10. h \subseteq q /\ ("padded" \in q <=> "padded" \in h)
  <2>1. "padded" # "drained"
    OBVIOUS
  <2> QED
    BY <1>9, <2>1, Zenon DEF Noted
<1>11. PICK r : r = [due |-> e, got |-> y]
  OBVIOUS
<1>12. r.due = e /\ r.got = y
  BY <1>11
<1>13. "padded" \in q => Garbage \in Range(d)
  BY <1>10, Zenon DEF Good, Sound
<1>14. CASE "padded" \in h
  <2>1. Sound(q, d, c, r)
    BY <1>10, <1>13, <1>14, Zenon DEF Sound
  <2>2. Good(m, ws, d, rd + 1, q, c, r)
    BY <1>8, <1>10, <1>14, <2>1, Zenon DEF Good
  <2> QED
    BY <1>4, <1>5, <1>9, <1>11, <2>2
<1>15. CASE "padded" \notin h /\ h # {}
  <2>1. PICK at : Marks(at, ws, d) /\ Reader(at, l, ws, rd, h)
    BY <1>15, Zenon DEF Good, Tracked
  <2>2. l.rp <= 0 \/ rd = Len(ws)
    BY <1>15, <2>1, Zenon DEF Reader
  <2>3. l.rp <= 0
    BY <1>2, <1>3, <2>2
  <2>4. PICK m1, z1, c1 : Call(m, y, c) = Call(m1, z1, c1) /\ c1 # "none"
    BY <1>1, <1>6, <2>3, BothFail
  <2>5. c # "none"
    BY <2>4 DEF Call
  <2>6. q # {}
    BY <1>10, <1>15
  <2>7. Sound(q, d, c, r)
    BY <1>13, <2>5, <2>6, Zenon DEF Sound
  <2>8. Good(m, ws, d, rd + 1, q, c, r)
    BY <1>8, <2>5, <2>7, Zenon DEF Good
  <2> QED
    BY <1>4, <1>5, <1>9, <1>11, <2>8
<1>16. CASE h = {}
  <2>1. "padded" \notin h
    BY <1>16
  <2>2. PICK at : Marks(at, ws, d) /\ Reader(at, l, ws, rd, h)
    BY <2>1, Zenon DEF Good, Tracked
  <2>3. PICK L \in Nat : L = Len(d) /\ d \in Seq(Byte)
    BY <1>1, LenProperties DEF Flat, Holds
  <2>4. /\ at \in [1 .. g + 1 -> Nat] /\ at[g + 1] = L
        /\ \A i \in 1 .. g :
              /\ at[i] < L
              /\ at[i + 1] = at[i] + Len(Encoded(ws[i]))
              /\ \A j \in 1 .. Len(Encoded(ws[i])) : d[at[i] + j] = Encoded(ws[i])[j]
    BY <1>2, <2>2, <2>3, Zenon DEF Marks
  <2>5. PICK P \in Nat : P = at[rd + 1]
    BY <1>3, <2>4
  <2>6. At(l, P)
    BY <1>16, <2>2, <2>5, Zenon DEF Reader
  <2>7. PICK b \in Nat \ {0} : b = Len(e) /\ b = n + k
    BY <1>6
  <2>8. at[(rd + 1) + 1] = P + b /\ \A j \in 1 .. b : d[P + j] = e[j]
    BY <1>3, <1>4, <1>5, <2>4, <2>5, <2>7, Zenon
  <2>9. P + b <= L /\ (rd + 1 # g => P + b < L) /\ (rd + 1 = g => P + b = L)
    <3>1. CASE rd + 1 = g
      <4>1. at[(rd + 1) + 1] = L
        BY <2>4, <3>1
      <4> QED
        BY <2>8, <3>1, <4>1
    <3>2. CASE rd + 1 # g
      <4>1. (rd + 1) + 1 \in 1 .. g
        BY <1>3, <3>2
      <4>2. at[(rd + 1) + 1] < L
        BY <2>4, <4>1
      <4> QED
        BY <2>8, <3>2, <4>2
    <3> QED
      BY <3>1, <3>2
  <2>10. BothRead(l, d, P, n + k, Call(m, y, c))
    <3>1. P + n + k <= Len(d)
      BY <1>6, <2>3, <2>7, <2>9
    <3>2. \A i \in 1 .. n + k : d[P + i] # Garbage
      BY <1>6, <2>7, <2>8, Zenon
    <3> QED
      BY <1>1, <1>6, <2>6, <3>1, <3>2, ReadBoth
  <2>11. PICK m1 : Call(m, y, c) = Call(m1, Taken(d, P, b), "none") /\ Placed(l, m1, P, b, d)
    BY <2>7, <2>10, Zenon DEF BothRead
  <2>12. m = m1 /\ y = Taken(d, P, b) /\ c = "none"
    BY <2>11 DEF Call
  <2>13. Placed(l, m, P, b, d)
    BY <2>11, <2>12
  <2>14. y = e
    <3>1. y \in Seq(Byte) /\ Len(y) = b
      BY <2>3, <2>9, <2>12, TakenIs
    <3>2. \A i \in 1 .. b : y[i] = e[i]
      BY <2>8, <2>12 DEF Taken
    <3> QED
      BY <1>6, <2>7, <3>1, <3>2, SeqEqual
  <2>15. Sound(q, d, c, r)
    BY <1>12, <1>13, <2>12, <2>14, Zenon DEF Sound
  <2>16. Reader(at, m, ws, rd + 1, q)
    <3>1. CASE rd + 1 = g /\ m.pos = 0
      <4>1. q # {}
        BY <1>2, <1>9, <3>1 DEF Noted
      <4>2. Past(m)
        BY <2>3, <2>9, <2>13, <3>1, Zenon DEF Placed
      <4>3. rd + 1 = Len(ws)
        BY <1>2, <3>1
      <4> QED
        BY <4>1, <4>2, <4>3, Zenon DEF Past, Reader
    <3>2. CASE ~(rd + 1 = g /\ m.pos = 0)
      <4>1. q = {}
        BY <1>2, <1>9, <1>16, <3>2 DEF Noted
      <4>2. P + b < Len(d) \/ m.pos # 0
        BY <2>3, <2>9, <3>2
      <4>3. At(m, P + b)
        BY <2>13, <4>2, Zenon DEF Placed
      <4> QED
        BY <2>8, <4>1, <4>3, Zenon DEF Reader
    <3> QED
      BY <3>1, <3>2
  <2>17. Tracked(m, ws, d, rd + 1, q)
    BY <2>2, <2>16, Zenon DEF Tracked
  <2>18. Good(m, ws, d, rd + 1, q, c, r)
    BY <1>8, <2>15, <2>17, Zenon DEF Good
  <2> QED
    BY <1>4, <1>5, <1>9, <1>11, <2>18
<1> QED
  BY <1>14, <1>15, <1>16

-----------------------------------------------------------------------------
(* The theorems.                                                           *)

\* The array as the constructor makes it.
LEMMA InitGood == Init => BInv
<1> SUFFICES ASSUME Init PROVE BInv
  OBVIOUS
<1>1. Base \in Nat /\ Base <= Base
  BY BaseNat
<1>2. NewList = [NewList EXCEPT !.cap = Base]
  BY DEF NewList
<1>3. Shape(NewList) /\ Flat(NewList, <<>>) /\ At(NewList, 0)
  BY <1>1, <1>2, NewIs
<1>4. Good(NewList, <<>>, <<>>, 0, {}, "none", Nothing)
  BY <1>3, GoodEmpty
<1> QED
  BY <1>4, Zenon DEF Init, BInv

\* Every operation keeps the invariant.
LEMMA NextGood == ItemsFaithful /\ BInv /\ [Next]_vars => BInv'
<1>1. ASSUME BInv, UNCHANGED vars PROVE BInv'
  <2>1. /\ list' = list /\ written' = written /\ data' = data /\ reads' = reads
        /\ result' = result /\ hurt' = hurt /\ crash' = crash
    BY <1>1 DEF vars
  <2> QED
    BY <1>1, <2>1, Zenon DEF BInv
<1>2. ASSUME ItemsFaithful, BInv, Next PROVE BInv'
  <2>1. crash = "none" /\ Good(list, written, data, reads, hurt, "none", result)
    BY <1>2, Zenon DEF BInv, Next
  <2>2. ASSUME NEW item \in Items, WriteItem(item) PROVE BInv'
    <3>1. /\ list' = Write(Write(list, Parts(item)[1]), Parts(item)[2])
          /\ written' = Append(written, item)
          /\ data' = data \o Encoded(item) /\ result' = Nothing
          /\ reads' = reads /\ hurt' = hurt /\ crash' = "none"
      BY <2>1, <2>2 DEF WriteItem
    <3>2. Good(Write(Write(list, Parts(item)[1]), Parts(item)[2]), Append(written, item),
               data \o Encoded(item), reads, hurt, "none", Nothing)
      BY <1>2, <2>1, GoodWrite
    <3> QED
      BY <3>1, <3>2, Zenon DEF BInv
  <2>3. ASSUME ReadItem PROVE BInv'
    <3>1. PICK item : item = written[reads + 1]
      OBVIOUS
    <3>2. PICK s : s = TwoReads(list, Pieces(item)[1], Pieces(item)[2])
      OBVIOUS
    <3>3. /\ reads < Len(written) /\ list' = s.list /\ crash' = s.crash
          /\ result' = [due |-> Encoded(item), got |-> s.got]
          /\ hurt' = Noted(hurt, written, reads, s.list.pos)
          /\ reads' = reads + 1
      BY <2>3, <3>1, <3>2, Zenon DEF ReadItem, TwoReads, Call, Noted
    <3>4. written' = written /\ data' = data
      BY <2>3 DEF ReadItem
    <3>5. PICK n, k : n = Pieces(item)[1] /\ k = Pieces(item)[2]
      OBVIOUS
    <3>6. Shape(list) /\ written \in Seq(Items) /\ reads \in 0 .. Len(written)
      BY <2>1, Zenon DEF Good, Built
    <3>7. item \in Items
      <4>1. Len(written) \in Nat
        BY <3>6, LenProperties
      <4>2. reads + 1 \in 1 .. Len(written)
        BY <3>3, <3>6, <4>1
      <4> QED
        BY <3>1, <3>6, <4>2, ElementOfSeq
    <3>8. n \in Nat /\ k \in Nat
      BY <1>2, <3>5, <3>7, ItemBytes
    <3>9. SameBlocks(list, s)
      BY <3>2, <3>5, <3>6, <3>8, BothKeep
    <3>10. PICK m, y, c : s = Call(m, y, c)
      BY <3>9, Zenon DEF SameBlocks
    <3>11. s.list = m /\ s.got = y /\ s.crash = c
      BY <3>10 DEF Call
    <3>12. TwoReads(list, n, k) = Call(m, y, c)
      BY <3>2, <3>5, <3>10, Zenon
    <3>13. n = Pieces(written[reads + 1])[1] /\ k = Pieces(written[reads + 1])[2]
      BY <3>1, <3>5, Zenon
    <3>14. Good(m, written, data, reads + 1, Noted(hurt, written, reads, m.pos), c,
                [due |-> Encoded(written[reads + 1]), got |-> y])
      BY <1>2, <2>1, <3>3, <3>12, <3>13, GoodRead1
    <3> QED
      BY <3>1, <3>3, <3>4, <3>11, <3>14, Zenon DEF BInv
  <2>4. ASSUME Clear PROVE BInv'
    <3>1. /\ list' = Empty(list) /\ written' = <<>> /\ data' = <<>> /\ reads' = 0
          /\ hurt' = {} /\ result' = Nothing /\ crash' = "none"
      BY <2>1, <2>4 DEF Clear
    <3>2. Shape(list)
      BY <2>1, Zenon DEF Good, Built
    <3>3. Shape(Empty(list)) /\ Flat(Empty(list), <<>>) /\ At(Empty(list), 0)
      BY <3>2, EmptyIs
    <3>4. Good(Empty(list), <<>>, <<>>, 0, {}, "none", Nothing)
      BY <3>3, GoodEmpty
    <3> QED
      BY <3>1, <3>4, Zenon DEF BInv
  <2>5. ASSUME SetAllBits PROVE BInv'
    <3>1. PICK bits : bits = BitsStream(list)
      OBVIOUS
    <3>2. PICK q : q = IF Garbage \in Range(bits) THEN {"padded"} ELSE {}
      OBVIOUS
    <3>3. /\ list' = Write(Empty(list), bits) /\ data' = bits /\ reads' = 0
          /\ result' = Nothing /\ hurt' = q
      BY <2>5, <3>1, <3>2, Zenon DEF SetAllBits
    <3>4. written' = written /\ crash' = "none"
      BY <2>1, <2>5 DEF SetAllBits
    <3>5. Good(Write(Empty(list), bits), written, bits, 0, q, "none", Nothing)
      BY <2>1, <3>1, <3>2, GoodSet
    <3> QED
      BY <3>3, <3>4, <3>5, Zenon DEF BInv
  <2>6. ASSUME NEW n \in Lengths, GetBuffer(n) PROVE BInv'
    <3>1. list' = ExtendCapacity(list, n) /\ result' = Nothing
      BY <2>6 DEF GetBuffer
    <3>2. /\ written' = written /\ data' = data /\ reads' = reads /\ hurt' = hurt
          /\ crash' = "none"
      BY <2>1, <2>6 DEF GetBuffer
    <3>3. n \in Nat
      BY ByteArrayAssumption
    <3>4. Good(ExtendCapacity(list, n), written, data, reads, hurt, "none", Nothing)
      BY <2>1, <3>3, GoodGrow
    <3> QED
      BY <3>1, <3>2, <3>4, Zenon DEF BInv
  <2> QED
    BY <1>2, <2>2, <2>3, <2>4, <2>5, <2>6, Zenon DEF Next
<1> QED
  BY <1>1, <1>2

\* In every reachable state.
LEMMA AlwaysGood == ItemsFaithful /\ Spec => []BInv
<1>1. ItemsFaithful => ItemsFaithful'
  BY DEF ItemsFaithful
<1> QED
  BY <1>1, InitGood, NextGood, PTL DEF Spec

\* The objects' types: write_ptr_ is always a block, no block holds more than
\* base_size_ bytes, and Read has one of its four outcomes.
THEOREM BlocksWellFormed == ItemsFaithful /\ Spec => []TypeOK
<1>1. ASSUME BInv PROVE TypeOK
  <2>1. Shape(list) /\ reads \in 0 .. Len(written) /\ crash \in {"none", "null", "unset", "range"}
    BY <1>1, Zenon DEF BInv, Good, Built
  <2>2. list \in List /\ Filled(list.chain, list.wp) /\ list.rp <= Len(list.chain)
    BY <2>1, Zenon DEF Shape
  <2>3. PICK c, w : c = list.chain /\ w = list.wp
    OBVIOUS
  <2>4. /\ c \in Blocks /\ Len(c) \in Nat /\ w \in Nat /\ 1 <= w /\ w <= Len(c)
        /\ \A i \in 1 .. Len(c) : Len(c[i]) <= Base
    BY <2>2, <2>3, FilledSizes
  <2>5. DOMAIN c = 1 .. Len(c)
    BY <2>4, LenProperties DEF Blocks
  <2>6. w \in DOMAIN c
    BY <2>4, <2>5
  <2> QED
    BY <2>1, <2>2, <2>3, <2>4, <2>5, <2>6, Zenon DEF TypeOK
<1> QED
  BY <1>1, AlwaysGood, PTL

\* Unless unset bytes were loaded by SetAllBits, every read that succeeds returns
\* the bytes written for its item, whatever the block size, the items (of those
\* whose reading takes what their writing gave) and the order of writes, reads,
\* Clear, SetAllBits and GetBuffer.
THEOREM ReadsReturnWrites == ItemsFaithful /\ Spec => []ReadsBack
<1>1. ASSUME BInv PROVE ReadsBack
  <2>1. Sound(hurt, data, crash, result)
    BY <1>1, Zenon DEF BInv, Good
  <2> QED
    BY <2>1, Zenon DEF Sound, ReadsBack
<1> QED
  BY <1>1, AlwaysGood, PTL

\* Read follows no null pointer, returns no unset byte and does not throw, unless
\* the reader had read everything just when that ended a block, or unset bytes
\* were loaded.
THEOREM ReadsFailOnlyHurt == ItemsFaithful /\ Spec => []FailsOnlyDrainedOrPadded
<1>1. ASSUME BInv PROVE FailsOnlyDrainedOrPadded
  <2>1. Sound(hurt, data, crash, result)
    BY <1>1, Zenon DEF BInv, Good
  <2> QED
    BY <2>1, Zenon DEF Sound, FailsOnlyDrainedOrPadded
<1> QED
  BY <1>1, AlwaysGood, PTL

\* What GetAllBits hands out starts with every byte the array was given, is that
\* when no spare block follows write_ptr_'s, and fits into capacity_ bytes.
THEOREM StreamStartsWithData == ItemsFaithful /\ Spec => []StreamHoldsData
<1>1. ASSUME BInv PROVE StreamHoldsData
  <2>1. Shape(list) /\ Flat(list, data)
    BY <1>1, Zenon DEF BInv, Good, Built
  <2>2. PICK bits : bits = BitsStream(list)
    OBVIOUS
  <2>3. StartsWith(list, data, bits)
    BY <2>1, <2>2, BitsIs
  <2>4. data \in Seq(Byte)
    BY <2>1, Zenon DEF Flat, Holds
  <2>5. IsPrefix(data, bits)
    BY <2>3, <2>4, PrefixIs DEF StartsWith
  <2> QED
    BY <2>2, <2>3, <2>5, Zenon DEF StartsWith, StreamHoldsData
<1> QED
  BY <1>1, AlwaysGood, PTL

-----------------------------------------------------------------------------
(* The items the theorems are about.                                       *)

\* The bytes of a fixed-length integer.
LEMMA FixedIs ==
    ASSUME NEW w \in Widths, NEW u \in Nat
    PROVE  /\ w \div 8 \in Nat \ {0}
           /\ Fixed(u, w) \in Seq(0 .. 255) /\ Len(Fixed(u, w)) = w \div 8
<1>1. w \div 8 \in 1 .. 4
  BY DEF Widths
<1>2. PICK b \in 1 .. 4 : b = w \div 8
  BY <1>1
<1>3. ASSUME NEW i \in 1 .. b PROVE (u \div 256^(i - 1)) % 256 \in 0 .. 255
  <2>1. 256^0 = 1 /\ 256^1 = 256 /\ 256^2 = 65536 /\ 256^3 = 16777216
    BY SMT
  <2>2. i - 1 = 0 \/ i - 1 = 1 \/ i - 1 = 2 \/ i - 1 = 3
    OBVIOUS
  <2>3. 256^(i - 1) \in Nat \ {0}
    <3>1. PICK S : S = Nat \ {0}
      OBVIOUS
    <3>2. 256^0 \in S /\ 256^1 \in S /\ 256^2 \in S /\ 256^3 \in S
      BY <2>1, <3>1
    <3>3. PICK k : k = i - 1
      OBVIOUS
    <3>4. 256^k \in S
      BY <2>2, <3>2, <3>3, Zenon
    <3> QED
      BY <3>1, <3>3, <3>4, Zenon
  <2>4. PICK q \in Nat \ {0} : q = 256^(i - 1)
    BY <2>3
  <2>5. PICK z \in Nat : z = u \div q
    OBVIOUS
  <2> QED
    BY <2>4, <2>5
<1>4. Fixed(u, w) \in [1 .. b -> 0 .. 255]
  BY <1>2, <1>3, ZenonT(60) DEF Fixed
<1>5. b \in Nat
  OBVIOUS
<1>6. Fixed(u, w) \in Seq(0 .. 255)
  BY <1>4, <1>5, SeqDef
<1>7. Len(Fixed(u, w)) = b
  BY <1>4, <1>5, <1>6, LenProperties
<1> QED
  BY <1>2, <1>6, <1>7

\* A code of seven bits is written as that byte.
LEMMA OneByte ==
    ASSUME NEW w \in Widths, NEW u \in 0 .. 2^w - 1, NEW signed \in BOOLEAN,
           EncodeZigZag(u, w, signed) < 128
    PROVE  /\ WriteV(u, w, signed) \in Seq(0 .. 255) /\ Len(WriteV(u, w, signed)) = 1
           /\ WriteV(u, w, signed)[1] = EncodeZigZag(u, w, signed)
           /\ WriteV(u, w, signed)[1] < 128
<1>1. PICK e \in Nat : e = EncodeZigZag(u, w, signed) /\ e \in 0 .. 127
  BY ZigZagRange
<1>2. PICK bytes : bytes = WriteV(u, w, signed)
  OBVIOUS
<1>3. Len(bytes) = 1 /\ bytes[1] = e
  BY <1>1, <1>2, WriteVKeepsSevenBits
<1>4. Groups(e, w) = 1
  <2>1. e \in 0 .. 2^w - 1 /\ 2^w \in Nat
    BY <1>1, ZigZagRange
  <2> QED
    BY <1>1, <2>1, GroupsIs
<1>5. bytes = <<>> \/ bytes = [i \in 1 .. 1 |-> IF i = 1 THEN e \div 128^(1 - 1) ELSE Garbage]
  BY <1>1, <1>2, <1>4, Zenon DEF WriteV, EncodeVarint
<1>6. Len(<<>>) = 0 /\ 0 # 1
  OBVIOUS
<1>7. bytes # <<>>
  BY <1>3, <1>6, Zenon
<1>8. DOMAIN bytes = 1 .. 1 /\ bytes = [i \in 1 .. 1 |-> bytes[i]]
  BY <1>5, <1>7
<1>9. \A i \in 1 .. 1 : i = 1 /\ bytes[i] \in 0 .. 255
  BY <1>1, <1>3
<1>10. bytes \in [1 .. 1 -> 0 .. 255]
  BY <1>8, <1>9, Zenon
<1>11. bytes \in Seq(0 .. 255)
  <2>1. PICK k \in Nat : k = 1
    OBVIOUS
  <2>2. bytes \in [1 .. k -> 0 .. 255]
    BY <1>10, <2>1, Zenon
  <2> QED
    BY <2>2, SeqDef
<1>12. bytes[1] < 128
  BY <1>1, <1>3
<1> QED
  BY <1>1, <1>2, <1>3, <1>11, <1>12, Zenon

\* A single byte without the top bit is what ReadV takes, and is the code.
LEMMA ReadOneByte ==
    ASSUME NEW bytes \in Seq(0 .. 255), Len(bytes) = 1, bytes[1] < 128, NEW w
    PROVE  BytesToRead(bytes) = 1 /\ ReadV(bytes, w) = DecodeZigZag(bytes[1], w)
<1>1. Min({10, Len(bytes)}) = 1
  <2>1. PICK x \in Nat, y \in Nat : x = 10 /\ y = 1
    OBVIOUS
  <2>2. Min({x, y}) = IF x <= y THEN x ELSE y
    BY MinOfTwo
  <2>3. Min({x, y}) = y
    BY <2>1, <2>2
  <2> QED
    BY <2>1, <2>3
<1>2. PICK ends : ends = {i \in 1 .. Min({10, Len(bytes)}) : bytes[i] < 128}
  OBVIOUS
<1>3. ends = {1}
  <2>1. \A i \in 1 .. 1 : i = 1
    OBVIOUS
  <2>2. 1 \in 1 .. 1
    OBVIOUS
  <2> QED
    BY <1>1, <1>2, <2>1, <2>2
<1>4. Min({1}) = 1
  <2>1. {1} \in SUBSET Nat /\ {1} # {}
    OBVIOUS
  <2> QED
    BY <2>1, MinIs
<1>5. BytesToRead(bytes) = 1
  <2>1. {1} # {}
    OBVIOUS
  <2> QED
    BY <1>2, <1>3, <1>4, <2>1, Zenon DEF BytesToRead
<1>6. Min({BytesToRead(bytes), Len(bytes)}) = 1
  BY <1>4, <1>5
<1>7. PICK s : s = SubSeq(bytes, 1, 1)
  OBVIOUS
<1>8. s \in Seq(0 .. 255) /\ Len(s) = 1 /\ s[1] = bytes[1]
  <2>1. \A i \in 1 .. 1 : bytes[i] \in 0 .. 255
    BY ElementOfSeq
  <2>2. /\ s \in Seq(0 .. 255) /\ Len(s) = IF 1 <= 1 THEN 1 - 1 + 1 ELSE 0
        /\ \A i \in 1 .. 1 - 1 + 1 : s[i] = bytes[1 + i - 1]
    BY <1>7, <2>1, SubSeqProperties
  <2> QED
    BY <2>2
<1>9. bytes[1] \in 0 .. 255 /\ ~(s[1] >= 128) /\ 1 \in DOMAIN s
  <2>1. \A i \in 1 .. 1 : bytes[i] \in 0 .. 255
    BY ElementOfSeq
  <2>2. DOMAIN s = 1 .. 1
    BY <1>8, LenProperties
  <2>3. PICK b \in 0 .. 255 : b = bytes[1]
    BY <2>1
  <2>4. ~(b >= 128)
    BY <2>3
  <2>5. 1 \in 1 .. 1
    OBVIOUS
  <2> QED
    BY <1>8, <2>2, <2>3, <2>4, <2>5, Zenon
<1>10. DecodeVarint(s) = bytes[1]
  BY <1>8, <1>9, Zenon DEF DecodeVarint
<1> QED
  BY <1>5, <1>6, <1>7, <1>10, Zenon DEF ReadV

\* An item is faithful whose pieces have the lengths of its parts.
LEMMA TwoParts ==
    ASSUME NEW item, NEW x \in Seq(0 .. 255), NEW y \in Seq(0 .. 255), Len(x) # 0,
           NEW n, NEW k, n = Len(x), k = Len(y),
           Parts(item) = <<x, y>>, Pieces(item) = <<n, k>>
    PROVE  Faithful(item)
<1>1. Parts(item)[1] = x /\ Parts(item)[2] = y
      /\ Parts(item) \in Seq(0 .. 255) \X Seq(0 .. 255)
  OBVIOUS
<1>2. x # <<>>
  OBVIOUS
<1> QED
  BY <1>1, <1>2, Zenon DEF Faithful

\* The client of these theorems may write every fixed-length integer, every
\* signed number whose zigzag code has seven bits, and strings of less than 64
\* characters: what the matching read operation takes of them is what was written.
THEOREM ShortItemsFaithful ==
    \A w \in Widths :
      /\ \A u \in 0 .. 2^w - 1 : Faithful([kind |-> "fixed", val |-> u, width |-> w])
      /\ \A u \in 0 .. 2^w - 1 : EncodeZigZag(u, w, TRUE) < 128 =>
            Faithful([kind |-> "varint", val |-> u, width |-> w])
      /\ \A u \in 0 .. 63 : Faithful([kind |-> "string", val |-> u, width |-> w])
<1> SUFFICES ASSUME NEW w \in Widths
             PROVE  /\ \A u \in 0 .. 2^w - 1 :
                          Faithful([kind |-> "fixed", val |-> u, width |-> w])
                    /\ \A u \in 0 .. 2^w - 1 : EncodeZigZag(u, w, TRUE) < 128 =>
                          Faithful([kind |-> "varint", val |-> u, width |-> w])
                    /\ \A u \in 0 .. 63 :
                          Faithful([kind |-> "string", val |-> u, width |-> w])
  OBVIOUS
<1>0. PICK h \in Nat \ {0} : h >= 128 /\ h % 2 = 0 /\ 2^(w - 1) = h /\ 2^w = 2 * h
  BY Powers
<1>4. /\ "fixed" # "varint" /\ "fixed" # "string" /\ "varint" # "string"
      /\ TRUE \in BOOLEAN /\ FALSE \in BOOLEAN
  OBVIOUS
<1>5. <<>> \in Seq(0 .. 255) /\ Len(<<>>) = 0
  OBVIOUS
<1>1. ASSUME NEW u \in 0 .. 2^w - 1
      PROVE  Faithful([kind |-> "fixed", val |-> u, width |-> w])
  <2>1. PICK item : item = [kind |-> "fixed", val |-> u, width |-> w]
    OBVIOUS
  <2>2. item.kind = "fixed" /\ item.val = u /\ item.width = w
    BY <2>1
  <2>3. Parts(item) = <<Fixed(u, w), <<>>>> /\ Pieces(item) = <<w \div 8, 0>>
    BY <1>4, <2>2 DEF Parts, Pieces
  <2>4. PICK b \in Nat \ {0} : b = w \div 8 /\ u \in Nat
    BY <1>0, FixedIs
  <2>5. PICK x \in Seq(0 .. 255) : x = Fixed(u, w) /\ Len(x) = b
    BY <2>4, FixedIs
  <2> QED
    BY <1>5, <2>1, <2>3, <2>4, <2>5, TwoParts
<1>2. ASSUME NEW u \in 0 .. 2^w - 1, EncodeZigZag(u, w, TRUE) < 128
      PROVE  Faithful([kind |-> "varint", val |-> u, width |-> w])
  <2>1. PICK item : item = [kind |-> "varint", val |-> u, width |-> w]
    OBVIOUS
  <2>2. item.kind = "varint" /\ item.val = u /\ item.width = w
    BY <2>1
  <2>3. PICK x : x = WriteV(u, w, TRUE)
    OBVIOUS
  <2>4. Parts(item) = <<x, <<>>>> /\ Pieces(item) = <<BytesToRead(x), 0>>
    BY <1>4, <2>2, <2>3 DEF Parts, Pieces
  <2>5. x \in Seq(0 .. 255) /\ Len(x) = 1 /\ x[1] < 128
    BY <1>2, <1>4, <2>3, OneByte, ZenonT(60)
  <2>6. BytesToRead(x) = 1
    BY <2>5, ReadOneByte
  <2> QED
    <3>1. Len(x) # 0 /\ BytesToRead(x) = Len(x)
      BY <2>5, <2>6
    <3>2. 0 = Len(<<>>)
      OBVIOUS
    <3>3. Faithful(item)
      BY <1>5, <2>4, <2>5, <3>1, <3>2, TwoParts, Zenon
    <3> QED
      BY <2>1, <3>3, Zenon
<1>3. ASSUME NEW u \in 0 .. 63
      PROVE  Faithful([kind |-> "string", val |-> u, width |-> w])
  <2>1. PICK item : item = [kind |-> "string", val |-> u, width |-> w]
    OBVIOUS
  <2>2. item.kind = "string" /\ item.val = u /\ item.width = w
    BY <2>1
  <2>3. PICK x, y : x = WriteV(u, w, FALSE) /\ y = [i \in 1 .. u |-> 200 + (i % 50)]
    OBVIOUS
  <2>4. Parts(item) = <<x, y>> /\ Pieces(item) = <<BytesToRead(x), ReadV(x, w)>>
    BY <1>4, <2>2, <2>3 DEF Parts, Pieces
  <2>5. u \in 0 .. 2^w - 1 /\ u \in Nat
    BY <1>0
  <2>6. EncodeZigZag(u, w, FALSE) = 2 * u /\ 2 * u < 128
    <3>1. ~Negative(u, w)
      BY <1>0 DEF Negative
    <3>2. (2 * u) % (2 * h) = 2 * u
      <4>1. PICK a \in Nat, k \in Nat : a = 2 * u /\ k = 2 * h /\ a < k
        BY <1>0
      <4>2. a % k = a
        BY <4>1
      <4> QED
        BY <4>1, <4>2
    <3>3. EncodeZigZag(u, w, FALSE) = 2 * u
      BY <1>0, <3>1, <3>2 DEF EncodeZigZag
    <3>4. 2 * u < 128
      OBVIOUS
    <3> QED
      BY <3>3, <3>4, Zenon
  <2>7. x \in Seq(0 .. 255) /\ Len(x) = 1 /\ x[1] = 2 * u
    BY <1>4, <2>3, <2>5, <2>6, OneByte
  <2>8. y \in Seq(0 .. 255) /\ Len(y) = u
    <3>1. \A i \in Nat : 200 + (i % 50) \in 0 .. 255
      OBVIOUS
    <3>2. y \in [1 .. u -> 0 .. 255]
      BY <2>3, <3>1
    <3>3. y \in Seq(0 .. 255)
      BY <2>5, <3>2, SeqDef
    <3> QED
      BY <2>5, <3>2, <3>3, LenProperties
  <2>9. BytesToRead(x) = 1 /\ ReadV(x, w) = u
    <3>1. BytesToRead(x) = 1 /\ ReadV(x, w) = DecodeZigZag(2 * u, w)
      BY <2>6, <2>7, ReadOneByte
    <3>2. DecodeZigZag(2 * u, w) = u
      BY <2>5 DEF DecodeZigZag
    <3> QED
      BY <3>1, <3>2
  <2> QED
    <3>1. Len(x) # 0 /\ BytesToRead(x) = Len(x) /\ ReadV(x, w) = Len(y)
      BY <2>7, <2>8, <2>9
    <3>2. Faithful(item)
      BY <2>4, <2>7, <2>8, <3>1, TwoParts, Zenon
    <3> QED
      BY <2>1, <3>2, Zenon
<1> QED
  BY <1>1, <1>2, <1>3
=============================================================================
