-------------------------- MODULE CodecCallsProofs --------------------------
(***************************************************************************)
(* encode(), decode() and the hexadecimal text, for every frame and every  *)
(* byte vector.                                                            *)
(***************************************************************************)
EXTENDS CodecCalls, TLAPS, WellFoundedInduction, SequenceTheorems

(***************************************************************************)
(* Induction, on a set of numbers rather than on a predicate.              *)
(***************************************************************************)
\* Every set of natural numbers that is not empty has a least element.
LEMMA LeastElement ==
    ASSUME NEW T, T \subseteq Nat, T # {}
    PROVE  \E x \in T : \A y \in T : x <= y
<1> DEFINE R == OpToRel(<, Nat)
<1>1. IsWellFoundedOn(R, Nat)
    BY NatLessThanWellFounded, Zenon
<1>2. \A x, y \in Nat : x < y => <<x, y>> \in R
    BY DEF OpToRel
<1> HIDE DEF R
<1>3. PICK x \in T : \A y \in T : ~(<<y, x>> \in R)
    BY <1>1, WFMin
<1>4. ASSUME NEW y \in T PROVE x <= y
    <2>1. x \in Nat /\ y \in Nat
        OBVIOUS
    <2>2. ~(y < x)
        BY <1>2, <1>3, <2>1
    <2> QED BY <2>1, <2>2
<1> QED BY <1>4

\* A set that holds the first number of an interval, and with each number of the
\* interval the next one, holds the interval.
LEMMA UpInduction ==
    ASSUME NEW first \in Nat, NEW last \in Nat, NEW S,
           first \in S,
           \A i \in first .. last : i \in S /\ i + 1 <= last => i + 1 \in S
    PROVE  \A i \in first .. last : i \in S
<1> SUFFICES ASSUME NEW j \in first .. last, j \notin S PROVE FALSE
    OBVIOUS
<1> DEFINE T == {i \in first .. last : i \notin S}
<1>1. T \subseteq Nat /\ T # {}
    OBVIOUS
<1>2. PICK x \in T : \A y \in T : x <= y
    BY <1>1, LeastElement
<1>3. x # first /\ x \in first .. last /\ x - 1 \in first .. last
    OBVIOUS
<1>4. x - 1 \in S
    BY <1>2, <1>3
<1>5. (x - 1) + 1 \in S
    BY <1>3, <1>4
<1> QED BY <1>3, <1>5

\* The same from the last number down.
LEMMA DownInduction ==
    ASSUME NEW first \in Nat, NEW last \in Nat, NEW S,
           last \in S,
           \A i \in first .. last : i + 1 \in S /\ i + 1 <= last => i \in S
    PROVE  \A i \in first .. last : i \in S
<1> SUFFICES ASSUME NEW j \in first .. last, j \notin S PROVE FALSE
    OBVIOUS
<1> DEFINE T == {n \in 0 .. last - first : last - n \notin S}
<1>1. T \subseteq Nat /\ T # {}
    <2>1. PICK n \in 0 .. last - first : last - n = j
        <3>1. last - j \in 0 .. last - first /\ last - (last - j) = j
            OBVIOUS
        <3> QED BY <3>1
    <2>2. n \in T
        BY <2>1
    <2>3. \A m \in 0 .. last - first : m \in Nat
        OBVIOUS
    <2> QED BY <2>2, <2>3
<1>2. PICK x \in T : \A y \in T : x <= y
    BY <1>1, LeastElement
<1>3. x \in Nat /\ x # 0 /\ x - 1 \in 0 .. last - first /\ ~(x <= x - 1)
    OBVIOUS
<1>4. last - (x - 1) \in S
    BY <1>2, <1>3
<1>5. last - x \in first .. last /\ (last - x) + 1 = last - (x - 1) /\ (last - x) + 1 <= last
    BY <1>3
<1> QED BY <1>4, <1>5

(***************************************************************************)
(* The register of the checksum.                                           *)
(***************************************************************************)
\* One turn moves every bit down by one, and inverts the bits of the polynomial
\* if a one falls out.
LEMMA CrcBitMember ==
    ASSUME NEW c \in Word
    PROVE  /\ CrcBit(c) \in Word
           /\ \A k \in 0 .. 31 : k \in CrcBit(c) <=>
                 ((k + 1 \in c) # (k \in Polynomial /\ 0 \in c))
<1> DEFINE shifted == {k - 1 : k \in c \ {0}}
<1>1. shifted \in Word
    BY DEF Word
<1>2. \A k \in 0 .. 31 : k \in shifted <=> k + 1 \in c
    BY DEF Word
<1>3. Polynomial \in Word
    BY DEF Polynomial, Word
<1>4. CrcBit(c) = IF 0 \in c THEN SymDiff(shifted, Polynomial) ELSE shifted
    BY DEF CrcBit
<1> HIDE DEF shifted
<1>5. CrcBit(c) \in Word
    BY <1>1, <1>3, <1>4 DEF SymDiff, Word
<1>6. ASSUME NEW k \in 0 .. 31
      PROVE  k \in CrcBit(c) <=> ((k + 1 \in c) # (k \in Polynomial /\ 0 \in c))
    BY <1>2, <1>4 DEF SymDiff
<1> QED BY <1>5, <1>6

\* Two registers that differ at k, and with them the difference after a turn.
LEMMA CrcBitDifference ==
    ASSUME NEW c \in Word, NEW d \in Word
    PROVE  \A k \in 0 .. 31 : k \in SymDiff(CrcBit(c), CrcBit(d)) <=>
              ((k + 1 \in SymDiff(c, d)) # (k \in Polynomial /\ 0 \in SymDiff(c, d)))
<1> TAKE k \in 0 .. 31
<1>1. k \in CrcBit(c) <=> ((k + 1 \in c) # (k \in Polynomial /\ 0 \in c))
    BY CrcBitMember
<1>2. k \in CrcBit(d) <=> ((k + 1 \in d) # (k \in Polynomial /\ 0 \in d))
    BY CrcBitMember
<1> QED BY <1>1, <1>2 DEF SymDiff

\* A turn loses nothing: the top bit tells what fell out.
LEMMA CrcBitInjective ==
    ASSUME NEW c \in Word, NEW d \in Word, CrcBit(c) = CrcBit(d)
    PROVE  c = d
<1> DEFINE D == SymDiff(c, d)
<1>1. \A k \in 0 .. 31 : ~((k + 1 \in D) # (k \in Polynomial /\ 0 \in D))
    BY CrcBitDifference DEF SymDiff
<1>2. 32 \notin D /\ 31 \in Polynomial
    BY DEF SymDiff, Word, Polynomial
<1>3. 0 \notin D
    BY <1>1, <1>2
<1>4. ASSUME NEW k \in 1 .. 31 PROVE k \notin D
    <2>1. k - 1 \in 0 .. 31 /\ (k - 1) + 1 = k
        OBVIOUS
    <2> QED BY <1>1, <1>3, <2>1
<1>5. \A k \in 0 .. 31 : k \notin D
    BY <1>3, <1>4
<1> QED BY <1>5 DEF SymDiff, Word

\* The eight turns for one byte.
CrcBits(c) == CrcBit(CrcBit(CrcBit(CrcBit(CrcBit(CrcBit(CrcBit(CrcBit(c))))))))

\* They make a register of a register, and different registers of different ones.
LEMMA CrcBitsInjective ==
    ASSUME NEW c \in Word, NEW d \in Word
    PROVE  /\ CrcBits(c) \in Word
           /\ CrcBits(c) = CrcBits(d) => c = d
<1>1. \A e \in Word : CrcBit(e) \in Word
    BY CrcBitMember
<1>2. \A e, f \in Word : CrcBit(e) = CrcBit(f) => e = f
    BY CrcBitInjective
<1> QED BY <1>1, <1>2 DEF CrcBits

\* A byte is its ones.
LEMMA OnesOfByte ==
    ASSUME NEW b \in Octet
    PROVE  /\ OnesOf(b) \in SUBSET (0 .. 7)
           /\ ByteAt(OnesOf(b), 0) = b
<1>1. OnesOf(b) \in SUBSET (0 .. 7)
    BY DEF OnesOf
<1>2. /\ 0 \in OnesOf(b) <=> (b \div 1) % 2 = 1
      /\ 1 \in OnesOf(b) <=> (b \div 2) % 2 = 1
      /\ 2 \in OnesOf(b) <=> (b \div 4) % 2 = 1
      /\ 3 \in OnesOf(b) <=> (b \div 8) % 2 = 1
      /\ 4 \in OnesOf(b) <=> (b \div 16) % 2 = 1
      /\ 5 \in OnesOf(b) <=> (b \div 32) % 2 = 1
      /\ 6 \in OnesOf(b) <=> (b \div 64) % 2 = 1
      /\ 7 \in OnesOf(b) <=> (b \div 128) % 2 = 1
    BY DEF OnesOf, Weight
<1>3. ByteAt(OnesOf(b), 0) =
          (IF 0 \in OnesOf(b) THEN 1 ELSE 0) + (IF 1 \in OnesOf(b) THEN 2 ELSE 0)
          + (IF 2 \in OnesOf(b) THEN 4 ELSE 0) + (IF 3 \in OnesOf(b) THEN 8 ELSE 0)
          + (IF 4 \in OnesOf(b) THEN 16 ELSE 0) + (IF 5 \in OnesOf(b) THEN 32 ELSE 0)
          + (IF 6 \in OnesOf(b) THEN 64 ELSE 0) + (IF 7 \in OnesOf(b) THEN 128 ELSE 0)
    BY DEF ByteAt, Weight
<1>4. b \in 0 .. 255
    BY DEF Octet
<1> QED BY <1>1, <1>2, <1>3, <1>4

\* The byte a word holds at a position, and the ones of the word that it tells.
LEMMA ByteAtValue ==
    ASSUME NEW w, NEW k \in 0 .. 24
    PROVE  /\ ByteAt(w, k) \in Octet
           /\ \A v : ByteAt(v, k) = ByteAt(w, k) =>
                 \A j \in k .. k + 7 : j \in v <=> j \in w
<1> DEFINE Sum(u) ==
          (IF k \in u THEN 1 ELSE 0) + (IF k + 1 \in u THEN 2 ELSE 0)
          + (IF k + 2 \in u THEN 4 ELSE 0) + (IF k + 3 \in u THEN 8 ELSE 0)
          + (IF k + 4 \in u THEN 16 ELSE 0) + (IF k + 5 \in u THEN 32 ELSE 0)
          + (IF k + 6 \in u THEN 64 ELSE 0) + (IF k + 7 \in u THEN 128 ELSE 0)
<1>1. \A u : ByteAt(u, k) = Sum(u)
    BY DEF ByteAt, Weight
<1>2. \A u : Sum(u) \in 0 .. 255
    OBVIOUS
<1>3. ASSUME NEW v, Sum(v) = Sum(w)
      PROVE  \A j \in k .. k + 7 : j \in v <=> j \in w
    <2>1. /\ k \in v <=> k \in w
          /\ k + 1 \in v <=> k + 1 \in w
          /\ k + 2 \in v <=> k + 2 \in w
          /\ k + 3 \in v <=> k + 3 \in w
          /\ k + 4 \in v <=> k + 4 \in w
          /\ k + 5 \in v <=> k + 5 \in w
          /\ k + 6 \in v <=> k + 6 \in w
          /\ k + 7 \in v <=> k + 7 \in w
        BY <1>3
    <2>2. \A j \in k .. k + 7 : j \in {k, k + 1, k + 2, k + 3, k + 4, k + 5, k + 6, k + 7}
        OBVIOUS
    <2> QED BY <2>1, <2>2
<1> HIDE DEF Sum
<1> QED BY <1>1, <1>2, <1>3 DEF Octet

\* Words with the same low byte, second byte or third byte have the same ones there.
LEMMA SameByteSameOnes ==
    ASSUME NEW e, NEW f
    PROVE  /\ ByteAt(e, 0) = ByteAt(f, 0) => \A j \in 0 .. 7 : j \in e <=> j \in f
           /\ ByteAt(e, 8) = ByteAt(f, 8) => \A j \in 8 .. 15 : j \in e <=> j \in f
           /\ ByteAt(e, 16) = ByteAt(f, 16) => \A j \in 16 .. 23 : j \in e <=> j \in f
<1>1. ASSUME NEW k \in 0 .. 24, ByteAt(e, k) = ByteAt(f, k)
      PROVE  \A j \in k .. k + 7 : j \in e <=> j \in f
    BY <1>1, ByteAtValue
<1>2. 0 \in 0 .. 24 /\ 8 \in 0 .. 24 /\ 16 \in 0 .. 24 /\ 0 + 7 = 7 /\ 8 + 7 = 15 /\ 16 + 7 = 23
    OBVIOUS
<1>3. ASSUME ByteAt(e, 0) = ByteAt(f, 0) PROVE \A j \in 0 .. 0 + 7 : j \in e <=> j \in f
    BY <1>1, <1>2, <1>3
<1>4. ASSUME ByteAt(e, 8) = ByteAt(f, 8) PROVE \A j \in 8 .. 8 + 7 : j \in e <=> j \in f
    BY <1>1, <1>2, <1>4
<1>5. ASSUME ByteAt(e, 16) = ByteAt(f, 16) PROVE \A j \in 16 .. 16 + 7 : j \in e <=> j \in f
    BY <1>1, <1>2, <1>5
<1> QED BY <1>3, <1>4, <1>5

\* Two bytes make a 16-bit number, and it tells them.
LEMMA TwoOctets ==
    /\ \A a, b \in Octet : a * 256 + b \in Half
    /\ \A a, b, c, d \in Octet : a * 256 + b = c * 256 + d => a = c /\ b = d
<1>1. ASSUME NEW a \in Octet, NEW b \in Octet PROVE a * 256 + b \in Half
    BY DEF Octet, Half
<1>2. ASSUME NEW a \in Octet, NEW b \in Octet, NEW c \in Octet, NEW d \in Octet,
             a * 256 + b = c * 256 + d
      PROVE  a = c /\ b = d
    BY <1>2 DEF Octet
<1> QED BY <1>1, <1>2

\* The number of a register is made of two halves, and tells the register.
LEMMA HalvesInjective ==
    ASSUME NEW v \in Word, NEW w \in Word
    PROVE  /\ Halves(w) \in Half \X Half
           /\ Halves((0 .. 31) \ v) = Halves((0 .. 31) \ w) => v = w
<1>1. \A u : /\ ByteAt(u, 0) \in Octet /\ ByteAt(u, 8) \in Octet
             /\ ByteAt(u, 16) \in Octet /\ ByteAt(u, 24) \in Octet
    BY ByteAtValue
<1>2. Halves(w) \in Half \X Half
    BY <1>1, TwoOctets DEF Halves
<1>3. ASSUME Halves((0 .. 31) \ v) = Halves((0 .. 31) \ w) PROVE v = w
    <2> DEFINE a == (0 .. 31) \ v
               b == (0 .. 31) \ w
    <2>1. /\ ByteAt(a, 24) * 256 + ByteAt(a, 16) = ByteAt(b, 24) * 256 + ByteAt(b, 16)
          /\ ByteAt(a, 8) * 256 + ByteAt(a, 0) = ByteAt(b, 8) * 256 + ByteAt(b, 0)
        BY <1>3 DEF Halves
    <2>2. /\ ByteAt(a, 24) = ByteAt(b, 24) /\ ByteAt(a, 16) = ByteAt(b, 16)
          /\ ByteAt(a, 8) = ByteAt(b, 8) /\ ByteAt(a, 0) = ByteAt(b, 0)
        <3> HIDE DEF a, b
        <3> QED BY <1>1, <2>1, TwoOctets
    <2>3. /\ \A j \in 24 .. 31 : j \in a <=> j \in b
          /\ \A j \in 16 .. 23 : j \in a <=> j \in b
          /\ \A j \in 8 .. 15 : j \in a <=> j \in b
          /\ \A j \in 0 .. 7 : j \in a <=> j \in b
        <3> HIDE DEF a, b
        <3> QED BY <2>2, ByteAtValue
    <2>4. \A j \in 0 .. 31 : j \in a <=> j \in b
        BY <2>3
    <2> QED BY <2>4 DEF Word
<1> QED BY <1>2, <1>3

\* A register with a byte mixed in is a register.
LEMMA MixedInType ==
    ASSUME NEW d \in Word, NEW a \in Octet
    PROVE  SymDiff(d, OnesOf(a)) \in Word
<1>1. OnesOf(a) \subseteq 0 .. 31
    BY OnesOfByte
<1> QED BY <1>1 DEF SymDiff, Word

\* A turn of the outer loop loses neither the register nor the byte.
LEMMA CrcByteInjective ==
    ASSUME NEW c \in Word, NEW b \in Octet
    PROVE  /\ CrcByte(c, b) \in Word
           /\ \A d \in Word : CrcByte(d, b) = CrcByte(c, b) => c = d
           /\ \A a \in Octet : CrcByte(c, a) = CrcByte(c, b) => a = b
<1>1. \A d \in Word, a \in Octet : SymDiff(d, OnesOf(a)) \in Word
    BY MixedInType
<1>2. \A d, a : CrcByte(d, a) = CrcBits(SymDiff(d, OnesOf(a)))
    BY DEF CrcByte, CrcBits
<1>3. ASSUME NEW d \in Word, CrcByte(d, b) = CrcByte(c, b) PROVE c = d
    <2>1. SymDiff(c, OnesOf(b)) = SymDiff(d, OnesOf(b))
        BY <1>1, <1>2, <1>3, CrcBitsInjective
    <2> QED BY <2>1 DEF SymDiff
<1>4. ASSUME NEW a \in Octet, CrcByte(c, a) = CrcByte(c, b) PROVE a = b
    <2>1. SymDiff(c, OnesOf(a)) = SymDiff(c, OnesOf(b))
        BY <1>1, <1>2, <1>4, CrcBitsInjective
    <2>2. OnesOf(a) = OnesOf(b)
        BY <2>1 DEF SymDiff
    <2> QED BY <2>2, OnesOfByte
<1>5. CrcByte(c, b) \in Word
    BY <1>1, <1>2, CrcBitsInjective
<1> QED BY <1>3, <1>4, <1>5

\* The outer loop of crc32(), as what each turn makes of the one after it.
LEMMA CrcLoop ==
    ASSUME NEW b \in Seq(Octet)
    PROVE  /\ CrcFrom(b) \in [1 .. Len(b) + 1 -> [Word -> Word]]
           /\ \A c \in Word : CrcFrom(b)[Len(b) + 1][c] = c
           /\ \A i \in 1 .. Len(b), c \in Word :
                 CrcFrom(b)[i][c] = CrcFrom(b)[i + 1][CrcByte(c, b[i])]
<1> DEFINE n == Len(b)
           Turns(g, i) == /\ \A c \in Word : g[n + 1][c] = c
                          /\ \A j \in i .. n, c \in Word :
                                g[j][c] = g[j + 1][CrcByte(c, b[j])]
           S == {i \in 1 .. n + 1 : \E g \in [i .. n + 1 -> [Word -> Word]] : Turns(g, i)}
           Body(g) == [i \in 1 .. n + 1 |-> [c \in Word |->
                          IF i > n THEN c ELSE g[i + 1][CrcByte(c, b[i])]]]
<1>1. n \in Nat /\ \A i \in 1 .. n : b[i] \in Octet
    OBVIOUS
<1> HIDE DEF n
<1>2. n + 1 \in S
    <2> DEFINE g == [i \in n + 1 .. n + 1 |-> [c \in Word |-> c]]
    <2>1. g \in [n + 1 .. n + 1 -> [Word -> Word]]
        OBVIOUS
    <2>2. Turns(g, n + 1)
        BY <1>1
    <2>3. n + 1 \in 1 .. n + 1
        BY <1>1
    <2> HIDE DEF g, Turns
    <2> QED BY <2>1, <2>2, <2>3
<1>3. ASSUME NEW i \in 1 .. n + 1, i + 1 \in S, i + 1 <= n + 1 PROVE i \in S
    <2>1. PICK g \in [i + 1 .. n + 1 -> [Word -> Word]] : Turns(g, i + 1)
        BY <1>3
    <2> DEFINE h == [j \in i .. n + 1 |-> IF j = i THEN [c \in Word |-> g[i + 1][CrcByte(c, b[i])]]
                                          ELSE g[j]]
    <2>2. i \in 1 .. n /\ i + 1 \in i + 1 .. n + 1 /\ b[i] \in Octet
        BY <1>1, <1>3
    <2>3. [c \in Word |-> g[i + 1][CrcByte(c, b[i])]] \in [Word -> Word]
        BY <2>2, CrcByteInjective
    <2>4. h \in [i .. n + 1 -> [Word -> Word]]
        BY <1>1, <2>2, <2>3
    <2>5. \A c \in Word : h[n + 1][c] = c
        BY <1>1, <2>1, <2>2
    <2>6. ASSUME NEW j \in i .. n, NEW c \in Word
          PROVE  h[j][c] = h[j + 1][CrcByte(c, b[j])]
        <3>1. CASE j = i
            BY <1>1, <2>2, <3>1
        <3>2. CASE j # i
            <4>1. j \in i + 1 .. n /\ j + 1 \in i .. n + 1 /\ j + 1 # i /\ j \in i .. n + 1
                BY <1>1, <2>2, <3>2
            <4> QED BY <2>1, <3>2, <4>1
        <3> QED BY <3>1, <3>2
    <2>7. Turns(h, i)
        BY <2>5, <2>6
    <2> HIDE DEF h, Turns
    <2> QED BY <2>4, <2>7
<1>4. 1 \in S
    <2> HIDE DEF S
    <2>1. 1 \in Nat /\ n + 1 \in Nat /\ 1 \in 1 .. n + 1
        BY <1>1
    <2>2. \A i \in 1 .. n + 1 : i + 1 \in S /\ i + 1 <= n + 1 => i \in S
        BY <1>3
    <2>3. \A i \in 1 .. n + 1 : i \in S
        BY <1>2, <2>1, <2>2, DownInduction
    <2> QED BY <2>1, <2>3
<1>5. PICK g \in [1 .. n + 1 -> [Word -> Word]] : Turns(g, 1)
    BY <1>4
<1>6. g = Body(g)
    <2>1. ASSUME NEW i \in 1 .. n + 1
          PROVE  g[i] = [c \in Word |-> IF i > n THEN c ELSE g[i + 1][CrcByte(c, b[i])]]
        <3>1. CASE i = n + 1
            BY <1>1, <1>5, <3>1
        <3>2. CASE i # n + 1
            <4>1. i \in 1 .. n /\ ~(i > n)
                BY <1>1, <3>2
            <4> QED BY <1>5, <4>1
        <3> QED BY <3>1, <3>2
    <2> QED BY <2>1
<1>7. CrcFrom(b) = CHOOSE f : f = Body(f)
    BY DEF CrcFrom, n
<1>8. CrcFrom(b) = Body(CrcFrom(b))
    <2> HIDE DEF Body
    <2> QED BY <1>6, <1>7
<1> DEFINE f == CrcFrom(b)
<1> HIDE DEF f
<1>9. /\ f = [i \in 1 .. n + 1 |-> f[i]]
      /\ f[n + 1] = [c \in Word |-> c]
      /\ \A i \in 1 .. n : f[i] = [c \in Word |-> f[i + 1][CrcByte(c, b[i])]]
    <2>1. f = Body(f)
        BY <1>8 DEF f
    <2>2. f = [i \in 1 .. n + 1 |-> f[i]]
        <3>1. Body(f) = [i \in 1 .. n + 1 |-> Body(f)[i]]
            OBVIOUS
        <3> HIDE DEF Body
        <3> QED BY <2>1, <3>1
    <2>3. n + 1 \in 1 .. n + 1 /\ n + 1 > n
        BY <1>1
    <2>4. Body(f)[n + 1] = [c \in Word |-> c]
        BY <2>3
    <2>5. ASSUME NEW i \in 1 .. n
          PROVE  Body(f)[i] = [c \in Word |-> f[i + 1][CrcByte(c, b[i])]]
        <3>1. i \in 1 .. n + 1 /\ ~(i > n)
            BY <1>1
        <3> QED BY <3>1
    <2> HIDE DEF Body
    <2>6. f[n + 1] = [c \in Word |-> c]
        BY <2>1, <2>4
    <2>7. \A i \in 1 .. n : f[i] = [c \in Word |-> f[i + 1][CrcByte(c, b[i])]]
        BY <2>1, <2>5
    <2> QED BY <2>2, <2>6, <2>7
<1>10. \A i \in 1 .. n + 1 : f[i] \in [Word -> Word]
    <2> DEFINE P == {i \in Nat : f[i] \in [Word -> Word]}
    <2>1. n + 1 \in P
        BY <1>1, <1>9
    <2>2. ASSUME NEW i \in 1 .. n + 1, i + 1 \in P, i + 1 <= n + 1 PROVE i \in P
        <3>1. i \in 1 .. n /\ b[i] \in Octet /\ i \in Nat
            BY <1>1, <2>2
        <3>2. \A c \in Word : f[i + 1][CrcByte(c, b[i])] \in Word
            BY <2>2, <3>1, CrcByteInjective
        <3>3. f[i] = [c \in Word |-> f[i + 1][CrcByte(c, b[i])]]
            BY <1>9, <3>1
        <3>4. f[i] \in [Word -> Word]
            BY <3>2, <3>3
        <3> QED BY <3>1, <3>4
    <2>3. 1 \in Nat /\ n + 1 \in Nat
        BY <1>1
    <2>4. \A i \in 1 .. n + 1 : i + 1 \in P /\ i + 1 <= n + 1 => i \in P
        BY <2>2
    <2> HIDE DEF P
    <2>5. \A i \in 1 .. n + 1 : i \in P
        BY <2>1, <2>3, <2>4, DownInduction
    <2> QED BY <2>5 DEF P
<1>11. f \in [1 .. n + 1 -> [Word -> Word]]
    BY <1>9, <1>10
<1>12. \A c \in Word : f[n + 1][c] = c
    BY <1>9
<1>13. ASSUME NEW i \in 1 .. n, NEW c \in Word
       PROVE  f[i][c] = f[i + 1][CrcByte(c, b[i])]
    <2>1. f[i] = [d \in Word |-> f[i + 1][CrcByte(d, b[i])]]
        BY <1>9
    <2> QED BY <2>1
<1> QED BY <1>11, <1>12, <1>13 DEF f, n

\* The rest of the loop tells the register it started from.
LEMMA CrcLoopInjective ==
    ASSUME NEW b \in Seq(Octet)
    PROVE  \A i \in 1 .. Len(b) + 1 : \A c, d \in Word :
              CrcFrom(b)[i][c] = CrcFrom(b)[i][d] => c = d
<1> DEFINE n == Len(b)
           f == CrcFrom(b)
           P == {i \in 1 .. n + 1 : \A c, d \in Word : f[i][c] = f[i][d] => c = d}
<1>1. /\ n \in Nat
      /\ \A i \in 1 .. n : b[i] \in Octet
      /\ \A c \in Word : f[n + 1][c] = c
      /\ \A i \in 1 .. n, c \in Word : f[i][c] = f[i + 1][CrcByte(c, b[i])]
    BY CrcLoop
<1> HIDE DEF n, f
<1>2. n + 1 \in P
    BY <1>1
<1>3. ASSUME NEW i \in 1 .. n + 1, i + 1 \in P, i + 1 <= n + 1 PROVE i \in P
    <2>1. i \in 1 .. n
        BY <1>1, <1>3
    <2>2. ASSUME NEW c \in Word, NEW d \in Word, f[i][c] = f[i][d] PROVE c = d
        <3>1. CrcByte(c, b[i]) \in Word /\ CrcByte(d, b[i]) \in Word
            BY <1>1, <2>1, CrcByteInjective
        <3>2. f[i + 1][CrcByte(c, b[i])] = f[i + 1][CrcByte(d, b[i])]
            BY <1>1, <2>1, <2>2
        <3>3. CrcByte(c, b[i]) = CrcByte(d, b[i])
            BY <1>3, <3>1, <3>2
        <3> QED BY <1>1, <2>1, <3>3, CrcByteInjective
    <2> QED BY <2>2
<1>4. 1 \in Nat /\ n + 1 \in Nat
    BY <1>1
<1>5. \A i \in 1 .. n + 1 : i + 1 \in P /\ i + 1 <= n + 1 => i \in P
    BY <1>3
<1>6. \A i \in 1 .. n + 1 : i \in P
    <2> HIDE DEF P
    <2> QED BY <1>2, <1>4, <1>5, DownInduction
<1> QED BY <1>6 DEF n, f

\* Where two vectors are equal from byte i on, so is what the loop makes of them.
LEMMA CrcLoopSuffix ==
    ASSUME NEW a \in Seq(Octet), NEW b \in Seq(Octet), Len(a) = Len(b),
           NEW m \in 1 .. Len(a) + 1, \A j \in m .. Len(a) : a[j] = b[j]
    PROVE  \A c \in Word : CrcFrom(a)[m][c] = CrcFrom(b)[m][c]
<1> DEFINE n == Len(a)
           f == CrcFrom(a)
           g == CrcFrom(b)
           P == {i \in m .. n + 1 : \A c \in Word : f[i][c] = g[i][c]}
<1>1. /\ n \in Nat /\ m \in Nat /\ m <= n + 1
      /\ \A i \in 1 .. n : a[i] \in Octet
      /\ \A i \in m .. n : i \in 1 .. n /\ a[i] = b[i]
    OBVIOUS
<1>2. /\ \A c \in Word : f[n + 1][c] = c
      /\ \A i \in 1 .. n, c \in Word : f[i][c] = f[i + 1][CrcByte(c, a[i])]
    BY CrcLoop
<1>3. /\ \A c \in Word : g[n + 1][c] = c
      /\ \A i \in 1 .. n, c \in Word : g[i][c] = g[i + 1][CrcByte(c, b[i])]
    BY CrcLoop
<1> HIDE DEF n, f, g
<1>4. n + 1 \in P
    BY <1>1, <1>2, <1>3
<1>5. ASSUME NEW i \in m .. n + 1, i + 1 \in P, i + 1 <= n + 1 PROVE i \in P
    <2>1. i \in m .. n
        BY <1>1, <1>5
    <2>2. ASSUME NEW c \in Word PROVE f[i][c] = g[i][c]
        <3>1. CrcByte(c, a[i]) \in Word
            BY <1>1, <2>1, CrcByteInjective
        <3>2. i \in 1 .. n /\ a[i] = b[i]
            BY <1>1, <2>1
        <3>3. f[i][c] = f[i + 1][CrcByte(c, a[i])]
            BY <1>2, <3>2
        <3>4. g[i][c] = g[i + 1][CrcByte(c, a[i])]
            BY <1>3, <3>2
        <3>5. f[i + 1][CrcByte(c, a[i])] = g[i + 1][CrcByte(c, a[i])]
            BY <1>5, <3>1
        <3> QED BY <3>3, <3>4, <3>5
    <2> QED BY <2>2
<1>6. n + 1 \in Nat
    BY <1>1
<1>7. \A i \in m .. n + 1 : i + 1 \in P /\ i + 1 <= n + 1 => i \in P
    BY <1>5
<1>8. \A i \in m .. n + 1 : i \in P
    <2> HIDE DEF P
    <2> QED BY <1>1, <1>4, <1>6, <1>7, DownInduction
<1>9. m \in P
    BY <1>1, <1>8
<1> QED BY <1>9 DEF f, g

\* Where two vectors are equal before byte m, the loop comes to m with one
\* register.
LEMMA CrcLoopPrefix ==
    ASSUME NEW a \in Seq(Octet), NEW b \in Seq(Octet), Len(a) = Len(b),
           NEW m \in 1 .. Len(a) + 1, \A j \in 1 .. m - 1 : a[j] = b[j]
    PROVE  \E r \in Word : /\ CrcFrom(a)[1][0 .. 31] = CrcFrom(a)[m][r]
                           /\ CrcFrom(b)[1][0 .. 31] = CrcFrom(b)[m][r]
<1> DEFINE n == Len(a)
           f == CrcFrom(a)
           g == CrcFrom(b)
           start == 0 .. 31
           P == {i \in 1 .. m : \E r \in Word : f[1][start] = f[i][r] /\ g[1][start] = g[i][r]}
<1>1. /\ n \in Nat /\ m \in Nat /\ 1 <= m /\ m <= n + 1
      /\ \A i \in 1 .. n : a[i] \in Octet
      /\ \A i \in 1 .. m - 1 : i \in 1 .. n /\ a[i] = b[i]
    OBVIOUS
<1>2. \A i \in 1 .. n, c \in Word : f[i][c] = f[i + 1][CrcByte(c, a[i])]
    BY CrcLoop
<1>3. \A i \in 1 .. n, c \in Word : g[i][c] = g[i + 1][CrcByte(c, b[i])]
    BY CrcLoop
<1>4. start \in Word
    BY DEF Word
<1> HIDE DEF n, f, g, start
<1>5. 1 \in P
    BY <1>1, <1>4
<1>6. ASSUME NEW i \in 1 .. m, i \in P, i + 1 <= m PROVE i + 1 \in P
    <2>1. i \in 1 .. m - 1 /\ i + 1 \in 1 .. m
        BY <1>1, <1>6
    <2>2. PICK r \in Word : f[1][start] = f[i][r] /\ g[1][start] = g[i][r]
        BY <1>6
    <2>3. CrcByte(r, a[i]) \in Word
        BY <1>1, <2>1, CrcByteInjective
    <2>4. f[i][r] = f[i + 1][CrcByte(r, a[i])] /\ g[i][r] = g[i + 1][CrcByte(r, a[i])]
        BY <1>1, <1>2, <1>3, <2>1
    <2> QED BY <2>1, <2>2, <2>3, <2>4
<1>7. \A i \in 1 .. m : i \in P /\ i + 1 <= m => i + 1 \in P
    BY <1>6
<1>8. \A i \in 1 .. m : i \in P
    <2> HIDE DEF P
    <2> QED BY <1>1, <1>5, <1>7, UpInduction
<1>9. m \in P
    BY <1>1, <1>8
<1> QED BY <1>9 DEF f, g, start

\* The register crc32() ends with.
Register(b) == CrcFrom(b)[1][0 .. 31]

\* The checksum is a pair of halves, and tells that register.
LEMMA CrcTellsRegister ==
    ASSUME NEW a \in Seq(Octet)
    PROVE  /\ Register(a) \in Word
           /\ crc32(a) = Halves((0 .. 31) \ Register(a))
           /\ crc32(a) \in Half \X Half
           /\ \A b \in Seq(Octet) : crc32(a) = crc32(b) => Register(a) = Register(b)
<1>1. \A b \in Seq(Octet) : Register(b) \in Word
    <2> TAKE b \in Seq(Octet)
    <2>1. CrcFrom(b) \in [1 .. Len(b) + 1 -> [Word -> Word]]
        BY CrcLoop
    <2>2. 1 \in 1 .. Len(b) + 1 /\ 0 .. 31 \in Word
        BY DEF Word
    <2> QED BY <2>1, <2>2 DEF Register
<1>2. \A b : crc32(b) = Halves((0 .. 31) \ Register(b))
    BY DEF crc32, Register
<1>3. crc32(a) \in Half \X Half
    <2>1. (0 .. 31) \ Register(a) \in Word
        BY DEF Word
    <2> QED BY <1>2, <2>1, HalvesInjective
<1>4. ASSUME NEW b \in Seq(Octet), crc32(a) = crc32(b) PROVE Register(a) = Register(b)
    BY <1>1, <1>2, <1>4, HalvesInjective
<1> QED BY <1>1, <1>2, <1>3, <1>4

\* Two vectors that differ in one byte: their registers meet at no byte after it.
LEMMA OneByteDiffers ==
    ASSUME NEW a \in Seq(Octet), NEW b \in Seq(Octet), Len(a) = Len(b),
           NEW m \in 1 .. Len(a), a[m] # b[m],
           \A j \in 1 .. Len(a) : j # m => a[j] = b[j]
    PROVE  /\ crc32(a) # crc32(b)
           /\ m = Len(a) => \E r \in Word : /\ Register(a) = CrcByte(r, a[m])
                                            /\ Register(b) = CrcByte(r, b[m])
<1>1. m \in 1 .. Len(a) + 1 /\ m + 1 \in 1 .. Len(a) + 1 /\ a[m] \in Octet /\ b[m] \in Octet
    OBVIOUS
<1>2. \A j \in 1 .. m - 1 : a[j] = b[j]
    OBVIOUS
<1>3. \A j \in m + 1 .. Len(a) : a[j] = b[j]
    OBVIOUS
<1>4. PICK r \in Word : Register(a) = CrcFrom(a)[m][r] /\ Register(b) = CrcFrom(b)[m][r]
    BY <1>1, <1>2, CrcLoopPrefix DEF Register
<1> DEFINE x == CrcByte(r, a[m])
           y == CrcByte(r, b[m])
<1>5. x \in Word /\ y \in Word /\ x # y
    BY <1>1, CrcByteInjective
<1>6. CrcFrom(a)[m][r] = CrcFrom(a)[m + 1][x]
    BY CrcLoop
<1>7. CrcFrom(b)[m][r] = CrcFrom(b)[m + 1][y]
    BY CrcLoop
<1> HIDE DEF x, y
<1>8. CrcFrom(b)[m + 1][x] = CrcFrom(a)[m + 1][x]
    BY <1>1, <1>3, <1>5, CrcLoopSuffix
<1>9. Register(a) # Register(b)
    BY <1>1, <1>4, <1>5, <1>6, <1>7, <1>8, CrcLoopInjective
<1>10. crc32(a) # crc32(b)
    BY <1>9, CrcTellsRegister
<1>11. ASSUME m = Len(a) PROVE Register(a) = x /\ Register(b) = y
    <2>1. CrcFrom(a)[m + 1][x] = x
        BY <1>5, <1>11, CrcLoop
    <2>2. CrcFrom(b)[m + 1][y] = y
        BY <1>5, <1>11, CrcLoop
    <2> QED BY <1>4, <1>6, <1>7, <2>1, <2>2
<1> QED BY <1>10, <1>11 DEF x, y

(***************************************************************************)
(* Two registers that differ in their low byte only, eight turns later:    *)
(* the bits that fall out, q0 to q7, are spread over all four bytes.       *)
(***************************************************************************)
\* After t turns, is there a difference among the bits that have not fallen out
\* yet or in what has come back at the top?
Apart(t, e, f) == \E k \in (0 .. 7 - t) \cup (32 - t .. 31) : k \in SymDiff(e, f)

\* A difference that falls out comes back at the top.
LEMMA ApartStaysApart ==
    ASSUME NEW e \in Word, NEW f \in Word, NEW t \in 0 .. 7, Apart(t, e, f)
    PROVE  Apart(t + 1, CrcBit(e), CrcBit(f))
<1> DEFINE D == SymDiff(e, f)
           E == SymDiff(CrcBit(e), CrcBit(f))
<1>1. \A k \in 0 .. 31 : k \in E <=> ((k + 1 \in D) # (k \in Polynomial /\ 0 \in D))
    BY CrcBitDifference
<1>2. 32 \notin D /\ 31 \in Polynomial
    BY DEF SymDiff, Word, Polynomial
<1>3. PICK k \in (0 .. 7 - t) \cup (32 - t .. 31) : k \in D
    BY DEF Apart
<1>4. SUFFICES \E j \in (0 .. 7 - (t + 1)) \cup (32 - (t + 1) .. 31) : j \in E
    BY DEF Apart
<1> HIDE DEF D, E
<1>5. CASE 0 \in D
    <2>1. 31 \in E
        BY <1>1, <1>2, <1>5
    <2>2. 31 \in 32 - (t + 1) .. 31
        OBVIOUS
    <2> QED BY <2>1, <2>2
<1>6. CASE 0 \notin D
    <2>1. k # 0 /\ k - 1 \in 0 .. 31 /\ (k - 1) + 1 = k
        BY <1>3, <1>6
    <2>2. k - 1 \in E
        BY <1>1, <1>3, <1>6, <2>1
    <2>3. k - 1 \in (0 .. 7 - (t + 1)) \cup (32 - (t + 1) .. 31)
        BY <2>1
    <2> QED BY <2>2, <2>3
<1> QED BY <1>5, <1>6

\* So the registers differ somewhere in the top byte.
LEMMA DifferenceReachesTop ==
    ASSUME NEW c \in Word, NEW d \in Word, c # d, SymDiff(c, d) \subseteq 0 .. 7
    PROVE  \E k \in 24 .. 31 : k \in SymDiff(CrcBits(c), CrcBits(d))
<1> DEFINE c1 == CrcBit(c)  c2 == CrcBit(c1)  c3 == CrcBit(c2)  c4 == CrcBit(c3)
           c5 == CrcBit(c4) c6 == CrcBit(c5)  c7 == CrcBit(c6)  c8 == CrcBit(c7)
           d1 == CrcBit(d)  d2 == CrcBit(d1)  d3 == CrcBit(d2)  d4 == CrcBit(d3)
           d5 == CrcBit(d4) d6 == CrcBit(d5)  d7 == CrcBit(d6)  d8 == CrcBit(d7)
<1>1. c1 \in Word /\ c2 \in Word /\ c3 \in Word /\ c4 \in Word /\ c5 \in Word
      /\ c6 \in Word /\ c7 \in Word
    BY CrcBitMember
<1>2. d1 \in Word /\ d2 \in Word /\ d3 \in Word /\ d4 \in Word /\ d5 \in Word
      /\ d6 \in Word /\ d7 \in Word
    BY CrcBitMember
<1>3. Apart(0, c, d)
    BY DEF Apart, SymDiff
<1>4. Apart(1, c1, d1)
    BY <1>1, <1>2, <1>3, ApartStaysApart
<1>5. Apart(2, c2, d2)
    BY <1>1, <1>2, <1>4, ApartStaysApart
<1>6. Apart(3, c3, d3)
    BY <1>1, <1>2, <1>5, ApartStaysApart
<1>7. Apart(4, c4, d4)
    BY <1>1, <1>2, <1>6, ApartStaysApart
<1>8. Apart(5, c5, d5)
    BY <1>1, <1>2, <1>7, ApartStaysApart
<1>9. Apart(6, c6, d6)
    BY <1>1, <1>2, <1>8, ApartStaysApart
<1>10. Apart(7, c7, d7)
    BY <1>1, <1>2, <1>9, ApartStaysApart
<1>11. Apart(8, c8, d8)
    BY <1>1, <1>2, <1>10, ApartStaysApart
<1>12. CrcBits(c) = c8 /\ CrcBits(d) = d8
    BY DEF CrcBits
<1> HIDE DEF c8, d8
<1> QED BY <1>11, <1>12 DEF Apart

\* And they differ somewhere below it: if they did not, eight of the low bits
\* would say one after the other that no difference ever fell out.
LEMMA DifferenceReachesBottom ==
    ASSUME NEW c \in Word, NEW d \in Word, c # d, SymDiff(c, d) \subseteq 0 .. 7
    PROVE  \E k \in 0 .. 23 : k \in SymDiff(CrcBits(c), CrcBits(d))
<1> DEFINE c1 == CrcBit(c)  c2 == CrcBit(c1)  c3 == CrcBit(c2)  c4 == CrcBit(c3)
           c5 == CrcBit(c4) c6 == CrcBit(c5)  c7 == CrcBit(c6)  c8 == CrcBit(c7)
           d1 == CrcBit(d)  d2 == CrcBit(d1)  d3 == CrcBit(d2)  d4 == CrcBit(d3)
           d5 == CrcBit(d4) d6 == CrcBit(d5)  d7 == CrcBit(d6)  d8 == CrcBit(d7)
           D0 == SymDiff(c, d)
           D1 == SymDiff(c1, d1)
           D2 == SymDiff(c2, d2)
           D3 == SymDiff(c3, d3)
           D4 == SymDiff(c4, d4)
           D5 == SymDiff(c5, d5)
           D6 == SymDiff(c6, d6)
           D7 == SymDiff(c7, d7)
           D8 == SymDiff(c8, d8)
<1>1. c1 \in Word /\ c2 \in Word /\ c3 \in Word /\ c4 \in Word /\ c5 \in Word
      /\ c6 \in Word /\ c7 \in Word
    BY CrcBitMember
<1>2. d1 \in Word /\ d2 \in Word /\ d3 \in Word /\ d4 \in Word /\ d5 \in Word
      /\ d6 \in Word /\ d7 \in Word
    BY CrcBitMember
<1>3. /\ \A k \in 0 .. 31 : k \in D1 <=> ((k + 1 \in D0) # (k \in Polynomial /\ 0 \in D0))
      /\ \A k \in 0 .. 31 : k \in D2 <=> ((k + 1 \in D1) # (k \in Polynomial /\ 0 \in D1))
      /\ \A k \in 0 .. 31 : k \in D3 <=> ((k + 1 \in D2) # (k \in Polynomial /\ 0 \in D2))
      /\ \A k \in 0 .. 31 : k \in D4 <=> ((k + 1 \in D3) # (k \in Polynomial /\ 0 \in D3))
      /\ \A k \in 0 .. 31 : k \in D5 <=> ((k + 1 \in D4) # (k \in Polynomial /\ 0 \in D4))
      /\ \A k \in 0 .. 31 : k \in D6 <=> ((k + 1 \in D5) # (k \in Polynomial /\ 0 \in D5))
      /\ \A k \in 0 .. 31 : k \in D7 <=> ((k + 1 \in D6) # (k \in Polynomial /\ 0 \in D6))
      /\ \A k \in 0 .. 31 : k \in D8 <=> ((k + 1 \in D7) # (k \in Polynomial /\ 0 \in D7))
    BY <1>1, <1>2, CrcBitDifference
<1>4. SUFFICES ASSUME \A k \in 0 .. 23 : k \notin D8
               PROVE  FALSE
    BY DEF CrcBits
<1>5. \A k \in 8 .. 31 : k \notin D0
    OBVIOUS
<1>6. D0 # {}
    BY DEF SymDiff
<1> HIDE DEF D0, D1, D2, D3, D4, D5, D6, D7, D8
<1>7. 0 \notin D2
    <2>1. 0 \notin D8
        BY <1>4
    <2> QED BY <1>3, <1>5, <2>1 DEF Polynomial
<1>8. 0 \notin D3
    <2>1. 11 \notin D8
        BY <1>4
    <2> QED BY <1>3, <1>5, <2>1 DEF Polynomial
<1>9. 0 \notin D0
    <2>1. 1 \notin D8
        BY <1>4
    <2> QED BY <1>3, <1>5, <1>8, <2>1 DEF Polynomial
<1>10. 0 \notin D6
    <2>1. 4 \notin D8
        BY <1>4
    <2> QED BY <1>3, <1>5, <1>7, <1>8, <2>1 DEF Polynomial
<1>11. 0 \notin D5
    <2>1. 7 \notin D8
        BY <1>4
    <2> QED BY <1>3, <1>5, <1>10, <2>1 DEF Polynomial
<1>12. 0 \notin D4
    <2>1. 6 \notin D8
        BY <1>4
    <2> QED BY <1>3, <1>5, <1>11, <2>1 DEF Polynomial
<1>13. 0 \notin D1
    <2>1. 2 \notin D8
        BY <1>4
    <2> QED BY <1>3, <1>5, <1>9, <1>12, <2>1 DEF Polynomial
<1>14. 0 \notin D7
    <2>1. 9 \notin D8
        BY <1>4
    <2> QED BY <1>3, <1>5, <1>13, <2>1 DEF Polynomial
<1>15. /\ 0 \in D1 <=> 1 \in D0
       /\ 0 \in D2 <=> 2 \in D0
       /\ 0 \in D3 <=> 3 \in D0
       /\ 0 \in D4 <=> 4 \in D0
       /\ 0 \in D5 <=> 5 \in D0
       /\ 0 \in D6 <=> 6 \in D0
       /\ 0 \in D7 <=> 7 \in D0
    BY <1>3, <1>7, <1>8, <1>9, <1>10, <1>11, <1>12, <1>13
<1>16. D0 \subseteq {0, 1, 2, 3, 4, 5, 6, 7}
    BY DEF D0
<1> QED BY <1>6, <1>7, <1>8, <1>9, <1>10, <1>11, <1>12, <1>13, <1>14, <1>15, <1>16

\* Two bytes exchanged: the registers differ after the second, for its eight bits
\* cannot reach the difference the first has made at the top.
LEMMA ExchangeDiffers ==
    ASSUME NEW r \in Word, NEW x \in Octet, NEW y \in Octet, x # y
    PROVE  /\ CrcByte(CrcByte(r, x), y) # CrcByte(CrcByte(r, y), x)
           /\ \E k \in 0 .. 23 : k \in SymDiff(CrcByte(r, x), CrcByte(r, y))
<1> DEFINE c == SymDiff(r, OnesOf(x))
           d == SymDiff(r, OnesOf(y))
<1>1. OnesOf(x) \subseteq 0 .. 7 /\ OnesOf(y) \subseteq 0 .. 7 /\ OnesOf(x) # OnesOf(y)
    BY OnesOfByte
<1>2. c \in Word /\ d \in Word /\ c # d /\ SymDiff(c, d) \subseteq 0 .. 7
    <2>1. c \in Word /\ d \in Word
        BY MixedInType
    <2>2. c # d
        BY <1>1 DEF SymDiff
    <2>3. SymDiff(c, d) \subseteq 0 .. 7
        BY <1>1 DEF SymDiff
    <2> QED BY <2>1, <2>2, <2>3
<1>3. \A e, b : CrcByte(e, b) = CrcBits(SymDiff(e, OnesOf(b)))
    BY DEF CrcByte, CrcBits
<1>4. CrcByte(r, x) = CrcBits(c) /\ CrcByte(r, y) = CrcBits(d)
    BY <1>3
<1> HIDE DEF c, d
<1>5. \E k \in 0 .. 23 : k \in SymDiff(CrcByte(r, x), CrcByte(r, y))
    BY <1>2, <1>4, DifferenceReachesBottom
<1>6. PICK k \in 24 .. 31 : k \in SymDiff(CrcByte(r, x), CrcByte(r, y))
    BY <1>2, <1>4, DifferenceReachesTop
<1> DEFINE e == CrcByte(r, x)
           f == CrcByte(r, y)
<1>7. e \in Word /\ f \in Word
    BY CrcByteInjective
<1> HIDE DEF e, f
<1>8. ASSUME CrcByte(e, y) = CrcByte(f, x) PROVE FALSE
    <2>1. SymDiff(e, OnesOf(y)) \in Word /\ SymDiff(f, OnesOf(x)) \in Word
        BY <1>7, MixedInType
    <2>2. SymDiff(e, OnesOf(y)) = SymDiff(f, OnesOf(x))
        BY <1>3, <1>8, <2>1, CrcBitsInjective
    <2>3. k \notin OnesOf(x) /\ k \notin OnesOf(y)
        BY <1>1
    <2>4. k \in e <=> k \in f
        BY <2>2, <2>3 DEF SymDiff
    <2> QED BY <1>6, <2>4 DEF e, f, SymDiff
<1> QED BY <1>5, <1>8 DEF e, f

\* Two adjacent bytes exchanged under the checksum.
LEMMA ExchangeChangesCrc ==
    ASSUME NEW a \in Seq(Octet), NEW b \in Seq(Octet), Len(a) = Len(b),
           NEW m \in 1 .. Len(a), m + 1 <= Len(a),
           a[m] # a[m + 1], b[m] = a[m + 1], b[m + 1] = a[m],
           \A j \in 1 .. Len(a) : j # m /\ j # m + 1 => a[j] = b[j]
    PROVE  crc32(a) # crc32(b)
<1>1. /\ m \in 1 .. Len(a) + 1 /\ m + 1 \in 1 .. Len(a) /\ m + 2 \in 1 .. Len(a) + 1
      /\ (m + 1) + 1 = m + 2
      /\ a[m] \in Octet /\ a[m + 1] \in Octet
    OBVIOUS
<1>2. \A j \in 1 .. m - 1 : a[j] = b[j]
    OBVIOUS
<1>3. \A j \in m + 2 .. Len(a) : a[j] = b[j]
    OBVIOUS
<1>4. PICK r \in Word : Register(a) = CrcFrom(a)[m][r] /\ Register(b) = CrcFrom(b)[m][r]
    BY <1>1, <1>2, CrcLoopPrefix DEF Register
<1> DEFINE v == CrcByte(r, a[m])
           w == CrcByte(r, a[m + 1])
           x == CrcByte(v, a[m + 1])
           y == CrcByte(w, a[m])
<1>5. v \in Word /\ w \in Word
    BY <1>1, CrcByteInjective
<1>6. x \in Word /\ y \in Word
    <2> HIDE DEF v, w
    <2> QED BY <1>1, <1>5, CrcByteInjective
<1>7. x # y
    BY <1>1, ExchangeDiffers
<1> HIDE DEF v, w, x, y
<1>8. CrcFrom(a)[m][r] = CrcFrom(a)[m + 2][x]
    <2>1. CrcFrom(a)[m][r] = CrcFrom(a)[m + 1][v]
        BY CrcLoop DEF v
    <2>2. CrcFrom(a)[m + 1][v] = CrcFrom(a)[(m + 1) + 1][x]
        BY <1>1, <1>5, CrcLoop DEF x
    <2> QED BY <1>1, <2>1, <2>2
<1>9. CrcFrom(b)[m][r] = CrcFrom(b)[m + 2][y]
    <2>1. CrcFrom(b)[m][r] = CrcFrom(b)[m + 1][w]
        <3>1. m \in 1 .. Len(b) /\ b[m] = a[m + 1]
            OBVIOUS
        <3> QED BY <3>1, CrcLoop DEF w
    <2>2. CrcFrom(b)[m + 1][w] = CrcFrom(b)[(m + 1) + 1][y]
        BY <1>1, <1>5, CrcLoop DEF y
    <2> QED BY <1>1, <2>1, <2>2
<1>10. CrcFrom(b)[m + 2][x] = CrcFrom(a)[m + 2][x]
    BY <1>1, <1>3, <1>6, CrcLoopSuffix
<1>11. Register(a) # Register(b)
    BY <1>1, <1>4, <1>6, <1>7, <1>8, <1>9, <1>10, CrcLoopInjective
<1> QED BY <1>11, CrcTellsRegister

(***************************************************************************)
(* The bytes encode() lays out.                                            *)
(***************************************************************************)
\* Two vectors one after the other, byte by byte.
LEMMA Joined ==
    ASSUME NEW s \in Seq(Octet), NEW t \in Seq(Octet)
    PROVE  /\ s \o t \in Seq(Octet)
           /\ Len(s \o t) = Len(s) + Len(t)
           /\ \A i \in 1 .. Len(s) + Len(t) :
                 (s \o t)[i] = IF i <= Len(s) THEN s[i] ELSE t[i - Len(s)]
BY ConcatProperties

\* An opcode and its byte on the wire tell each other.
LEMMA OpcodeNames ==
    /\ \A o \in Opcode : OpcodeValue[o] \in Octet /\ Named(OpcodeValue, OpcodeValue[o]) = o
    /\ \A v \in Octet : Named(OpcodeValue, v) \in Opcode => OpcodeValue[Named(OpcodeValue, v)] = v
<1>1. \A o \in Opcode : OpcodeValue[o] \in Octet /\ Named(OpcodeValue, OpcodeValue[o]) = o
    BY DEF Named, OpcodeValue, Opcode, RequestOpcode, ResponseOpcode, Octet
<1>2. \A v \in Octet : Named(OpcodeValue, v) \in Opcode => OpcodeValue[Named(OpcodeValue, v)] = v
    BY DEF Named, OpcodeValue, Opcode, RequestOpcode, ResponseOpcode, Octet
<1> QED BY <1>1, <1>2

\* append_u16() writes two bytes, from which the number is made again.
LEMMA U16 ==
    ASSUME NEW v \in Half
    PROVE  /\ append_u16(v) \in Seq(Octet) /\ Len(append_u16(v)) = 2
           /\ append_u16(v)[1] = v \div 256 /\ append_u16(v)[2] = v % 256
           /\ v \div 256 \in Octet /\ v % 256 \in Octet
           /\ (v \div 256) * 256 + (v % 256) = v
<1>1. v \div 256 \in Octet /\ v % 256 \in Octet /\ (v \div 256) * 256 + (v % 256) = v
    BY DEF Half, Octet
<1>2. \A a, b \in Octet : <<a, b>> \in Seq(Octet) /\ Len(<<a, b>>) = 2 /\ <<a, b>>[1] = a /\ <<a, b>>[2] = b
    OBVIOUS
<1> QED BY <1>1, <1>2 DEF append_u16

\* append_u32() writes four bytes, the high half first.
LEMMA U32 ==
    ASSUME NEW v \in Half \X Half
    PROVE  /\ append_u32(v) \in Seq(Octet) /\ Len(append_u32(v)) = 4
           /\ append_u32(v)[1] = v[1] \div 256 /\ append_u32(v)[2] = v[1] % 256
           /\ append_u32(v)[3] = v[2] \div 256 /\ append_u32(v)[4] = v[2] % 256
<1> DEFINE s == append_u16(v[1])  t == append_u16(v[2])  u == s \o t
<1>1. s \in Seq(Octet) /\ Len(s) = 2 /\ s[1] = v[1] \div 256 /\ s[2] = v[1] % 256
    BY U16
<1>2. t \in Seq(Octet) /\ Len(t) = 2 /\ t[1] = v[2] \div 256 /\ t[2] = v[2] % 256
    BY U16
<1> HIDE DEF s, t
<1>3. /\ u \in Seq(Octet) /\ Len(u) = Len(s) + Len(t)
      /\ \A i \in 1 .. Len(s) + Len(t) : u[i] = IF i <= Len(s) THEN s[i] ELSE t[i - Len(s)]
    <2>1. s \in Seq(Octet) /\ t \in Seq(Octet)
        BY <1>1, <1>2
    <2> QED BY <2>1, Joined, Zenon
<1> HIDE DEF u
<1>4. Len(u) = 4 /\ u[1] = s[1] /\ u[2] = s[2] /\ u[3] = t[1] /\ u[4] = t[2]
    BY <1>1, <1>2, <1>3
<1>5. append_u32(v) = u
    BY DEF append_u32, u, s, t
<1> QED BY <1>1, <1>2, <1>3, <1>4, <1>5

\* The eighteen bytes of a header, one by one.
LEMMA HeaderBytes ==
    ASSUME NEW f \in ByteFrame, f.opcode \in Opcode, Len(f.payload) \in Half
    PROVE  LET h == Header(f)
           IN /\ h \in Seq(Octet) /\ Len(h) = 18
              /\ h[1] = 73 /\ h[2] = 77 /\ h[3] = f.version /\ h[4] = OpcodeValue[f.opcode]
              /\ h[5] = f.flags /\ h[6] = 0
              /\ h[7] = f.request_id[1] \div 256 /\ h[8] = f.request_id[1] % 256
              /\ h[9] = f.request_id[2] \div 256 /\ h[10] = f.request_id[2] % 256
              /\ h[11] = f.address[1] \div 256 /\ h[12] = f.address[1] % 256
              /\ h[13] = f.address[2] \div 256 /\ h[14] = f.address[2] % 256
              /\ h[15] = Len(f.payload) \div 256 /\ h[16] = Len(f.payload) % 256
              /\ h[17] = f.code \div 256 /\ h[18] = f.code % 256
<1> DEFINE p1 == magic
           p2 == <<f.version, OpcodeValue[f.opcode], f.flags, 0>>
           p3 == append_u32(f.request_id)
           p4 == append_u32(f.address)
           p5 == append_u16(Len(f.payload))
           p6 == append_u16(f.code)
           h2 == p1 \o p2
           h3 == h2 \o p3
           h4 == h3 \o p4
           h5 == h4 \o p5
           h6 == h5 \o p6
<1>1. p1 \in Seq(Octet) /\ Len(p1) = 2 /\ p1[1] = 73 /\ p1[2] = 77
    BY DEF magic, Octet
<1>2. /\ f.version \in Octet /\ f.flags \in Octet /\ f.code \in Half
      /\ f.request_id \in Half \X Half /\ f.address \in Half \X Half
    BY DEF ByteFrame
<1>3. OpcodeValue[f.opcode] \in Octet
    BY OpcodeNames
<1>4. /\ p2 \in Seq(Octet) /\ Len(p2) = 4 /\ p2[1] = f.version /\ p2[2] = OpcodeValue[f.opcode]
      /\ p2[3] = f.flags /\ p2[4] = 0
    <2>1. \A a, b, c, d \in Octet :
             /\ <<a, b, c, d>> \in Seq(Octet) /\ Len(<<a, b, c, d>>) = 4
             /\ <<a, b, c, d>>[1] = a /\ <<a, b, c, d>>[2] = b
             /\ <<a, b, c, d>>[3] = c /\ <<a, b, c, d>>[4] = d
        OBVIOUS
    <2>2. 0 \in Octet
        BY DEF Octet
    <2> QED BY <1>2, <1>3, <2>1, <2>2
<1>5. /\ p3 \in Seq(Octet) /\ Len(p3) = 4
      /\ p3[1] = f.request_id[1] \div 256 /\ p3[2] = f.request_id[1] % 256
      /\ p3[3] = f.request_id[2] \div 256 /\ p3[4] = f.request_id[2] % 256
    BY <1>2, U32
<1>6. /\ p4 \in Seq(Octet) /\ Len(p4) = 4
      /\ p4[1] = f.address[1] \div 256 /\ p4[2] = f.address[1] % 256
      /\ p4[3] = f.address[2] \div 256 /\ p4[4] = f.address[2] % 256
    BY <1>2, U32
<1>7. /\ p5 \in Seq(Octet) /\ Len(p5) = 2
      /\ p5[1] = Len(f.payload) \div 256 /\ p5[2] = Len(f.payload) % 256
    <2>1. \A l \in Half : /\ append_u16(l) \in Seq(Octet) /\ Len(append_u16(l)) = 2
                          /\ append_u16(l)[1] = l \div 256 /\ append_u16(l)[2] = l % 256
        BY U16
    <2> QED BY <2>1
<1>8. /\ p6 \in Seq(Octet) /\ Len(p6) = 2 /\ p6[1] = f.code \div 256 /\ p6[2] = f.code % 256
    BY <1>2, U16
<1>9. Header(f) = h6
    BY DEF Header
<1> HIDE DEF p1, p2, p3, p4, p5, p6
<1>10. /\ h2 \in Seq(Octet) /\ Len(h2) = Len(p1) + Len(p2)
       /\ \A i \in 1 .. Len(p1) + Len(p2) : h2[i] = IF i <= Len(p1) THEN p1[i] ELSE p2[i - Len(p1)]
    <2>1. p1 \in Seq(Octet) /\ p2 \in Seq(Octet)
        BY <1>1, <1>4
    <2> QED BY <2>1, Joined, Zenon
<1> HIDE DEF h2
<1>11. /\ h2 \in Seq(Octet) /\ Len(h2) = 6
       /\ h2[1] = p1[1] /\ h2[2] = p1[2] /\ h2[3] = p2[1] /\ h2[4] = p2[2]
       /\ h2[5] = p2[3] /\ h2[6] = p2[4]
    BY <1>1, <1>4, <1>10
<1>12. /\ h3 \in Seq(Octet) /\ Len(h3) = Len(h2) + Len(p3)
       /\ \A i \in 1 .. Len(h2) + Len(p3) : h3[i] = IF i <= Len(h2) THEN h2[i] ELSE p3[i - Len(h2)]
    <2>1. h2 \in Seq(Octet) /\ p3 \in Seq(Octet)
        BY <1>11, <1>5
    <2> QED BY <2>1, Joined, Zenon
<1> HIDE DEF h3
<1>13. /\ h3 \in Seq(Octet) /\ Len(h3) = 10 /\ \A i \in 1 .. 6 : h3[i] = h2[i]
       /\ h3[7] = p3[1] /\ h3[8] = p3[2] /\ h3[9] = p3[3] /\ h3[10] = p3[4]
    BY <1>5, <1>11, <1>12
<1>14. /\ h4 \in Seq(Octet) /\ Len(h4) = Len(h3) + Len(p4)
       /\ \A i \in 1 .. Len(h3) + Len(p4) : h4[i] = IF i <= Len(h3) THEN h3[i] ELSE p4[i - Len(h3)]
    <2>1. h3 \in Seq(Octet) /\ p4 \in Seq(Octet)
        BY <1>13, <1>6
    <2> QED BY <2>1, Joined, Zenon
<1> HIDE DEF h4
<1>15. /\ h4 \in Seq(Octet) /\ Len(h4) = 14 /\ \A i \in 1 .. 10 : h4[i] = h3[i]
       /\ h4[11] = p4[1] /\ h4[12] = p4[2] /\ h4[13] = p4[3] /\ h4[14] = p4[4]
    BY <1>6, <1>13, <1>14
<1>16. /\ h5 \in Seq(Octet) /\ Len(h5) = Len(h4) + Len(p5)
       /\ \A i \in 1 .. Len(h4) + Len(p5) : h5[i] = IF i <= Len(h4) THEN h4[i] ELSE p5[i - Len(h4)]
    <2>1. h4 \in Seq(Octet) /\ p5 \in Seq(Octet)
        BY <1>15, <1>7
    <2> QED BY <2>1, Joined, Zenon
<1> HIDE DEF h5
<1>17. /\ h5 \in Seq(Octet) /\ Len(h5) = 16 /\ \A i \in 1 .. 14 : h5[i] = h4[i]
       /\ h5[15] = p5[1] /\ h5[16] = p5[2]
    <2>1. Len(h5) = 16 /\ h5[15] = p5[1] /\ h5[16] = p5[2]
        <3>1. Len(p5) = 2 /\ Len(h4) = 14
            BY <1>7, <1>15
        <3>2. /\ Len(h5) = 16 /\ 15 \in 1 .. Len(h4) + Len(p5) /\ 16 \in 1 .. Len(h4) + Len(p5)
              /\ ~(15 <= Len(h4)) /\ ~(16 <= Len(h4)) /\ 15 - Len(h4) = 1 /\ 16 - Len(h4) = 2
            BY <1>16, <3>1
        <3> QED BY <1>16, <3>2
    <2>2. ASSUME NEW i \in 1 .. 14 PROVE h5[i] = h4[i]
        <3>1. i \in 1 .. Len(h4) + Len(p5) /\ i <= Len(h4)
            BY <1>7, <1>15
        <3> QED BY <1>16, <3>1
    <2> QED BY <1>16, <2>1, <2>2
<1>18. /\ h6 \in Seq(Octet) /\ Len(h6) = Len(h5) + Len(p6)
       /\ \A i \in 1 .. Len(h5) + Len(p6) : h6[i] = IF i <= Len(h5) THEN h5[i] ELSE p6[i - Len(h5)]
    <2>1. h5 \in Seq(Octet) /\ p6 \in Seq(Octet)
        BY <1>17, <1>8
    <2> QED BY <2>1, Joined, Zenon
<1> HIDE DEF h6
<1>19. /\ h6 \in Seq(Octet) /\ Len(h6) = 18 /\ \A i \in 1 .. 16 : h6[i] = h5[i]
       /\ h6[17] = p6[1] /\ h6[18] = p6[2]
    BY <1>8, <1>17, <1>18
<1>20. /\ h6[1] = p1[1] /\ h6[2] = p1[2] /\ h6[3] = p2[1] /\ h6[4] = p2[2]
       /\ h6[5] = p2[3] /\ h6[6] = p2[4]
       /\ h6[7] = p3[1] /\ h6[8] = p3[2] /\ h6[9] = p3[3] /\ h6[10] = p3[4]
       /\ h6[11] = p4[1] /\ h6[12] = p4[2] /\ h6[13] = p4[3] /\ h6[14] = p4[4]
       /\ h6[15] = p5[1] /\ h6[16] = p5[2]
    <2>1. \A i \in 1 .. 16 : h6[i] = h5[i]
        BY <1>19
    <2>2. \A i \in 1 .. 14 : h5[i] = h4[i]
        BY <1>17
    <2>3. \A i \in 1 .. 14 : h6[i] = h4[i]
        BY <2>1, <2>2
    <2>4. \A i \in 1 .. 10 : h6[i] = h3[i]
        BY <1>15, <2>3
    <2>5. \A i \in 1 .. 6 : h6[i] = h2[i]
        BY <1>13, <2>4
    <2>6. /\ h6[1] = p1[1] /\ h6[2] = p1[2] /\ h6[3] = p2[1] /\ h6[4] = p2[2]
          /\ h6[5] = p2[3] /\ h6[6] = p2[4]
        BY <1>11, <2>5
    <2>7. h6[7] = p3[1] /\ h6[8] = p3[2] /\ h6[9] = p3[3] /\ h6[10] = p3[4]
        BY <1>13, <2>4
    <2>8. h6[11] = p4[1] /\ h6[12] = p4[2] /\ h6[13] = p4[3] /\ h6[14] = p4[4]
        BY <1>15, <2>3
    <2>9. h6[15] = p5[1] /\ h6[16] = p5[2]
        <3>1. h5[15] = p5[1] /\ h5[16] = p5[2]
            BY <1>17
        <3> QED BY <2>1, <3>1
    <2> QED BY <2>6, <2>7, <2>8, <2>9
<1> QED BY <1>1, <1>4, <1>5, <1>6, <1>7, <1>8, <1>9, <1>19, <1>20

\* A 32-bit number is read back from its four bytes.
LEMMA ReadBack ==
    ASSUME NEW v, NEW o \in Nat, NEW x \in Half \X Half,
           v[o + 1] = x[1] \div 256, v[o + 2] = x[1] % 256,
           v[o + 3] = x[2] \div 256, v[o + 4] = x[2] % 256
    PROVE  read_u32(v, o) = x
<1>1. x[1] \in Half /\ x[2] \in Half /\ x = <<x[1], x[2]>>
    OBVIOUS
<1>2. read_u16(v, o) = x[1]
    BY <1>1, U16 DEF read_u16
<1>3. read_u16(v, o + 2) = x[2]
    <2>1. (o + 2) + 1 = o + 3 /\ (o + 2) + 2 = o + 4
        OBVIOUS
    <2> QED BY <1>1, <2>1, U16 DEF read_u16
<1> QED BY <1>1, <1>2, <1>3 DEF read_u32

\* What stands before the checksum, and the checksum.
LEMMA SealedBytes ==
    ASSUME NEW b \in Seq(Octet)
    PROVE  /\ Sealed(b) \in Seq(Octet) /\ Len(Sealed(b)) = Len(b) + 4
           /\ \A i \in 1 .. Len(b) : Sealed(b)[i] = b[i]
           /\ read_u32(Sealed(b), Len(b)) = crc32(b)
<1> DEFINE x == crc32(b)
           t == append_u32(x)
           v == b \o t
<1>1. x \in Half \X Half
    BY CrcTellsRegister
<1> HIDE DEF x
<1>2. /\ t \in Seq(Octet) /\ Len(t) = 4
      /\ t[1] = x[1] \div 256 /\ t[2] = x[1] % 256
      /\ t[3] = x[2] \div 256 /\ t[4] = x[2] % 256
    BY <1>1, U32
<1>3. t \in Seq(Octet) /\ Len(t) = 4
    BY <1>2
<1>4. Sealed(b) = v
    BY DEF Sealed, x
<1> HIDE DEF t
<1>5. /\ v \in Seq(Octet) /\ Len(v) = Len(b) + Len(t)
      /\ \A i \in 1 .. Len(b) + Len(t) : v[i] = IF i <= Len(b) THEN b[i] ELSE t[i - Len(b)]
    BY <1>3, Joined, Zenon
<1> HIDE DEF v
<1>6. \A i \in 1 .. Len(b) : v[i] = b[i]
    BY <1>3, <1>5
<1>7. \A i \in 1 .. 4 : v[Len(b) + i] = t[i]
    <2> TAKE i \in 1 .. 4
    <2>1. Len(b) + i \in 1 .. Len(b) + Len(t) /\ ~(Len(b) + i <= Len(b)) /\ (Len(b) + i) - Len(b) = i
        BY <1>3
    <2> QED BY <1>5, <2>1
<1>8. v[Len(b) + 1] = t[1] /\ v[Len(b) + 2] = t[2] /\ v[Len(b) + 3] = t[3] /\ v[Len(b) + 4] = t[4]
    BY <1>7
<1>9. read_u32(v, Len(b)) = x
    <2>1. Len(b) \in Nat
        OBVIOUS
    <2>2. /\ v[Len(b) + 1] = x[1] \div 256 /\ v[Len(b) + 2] = x[1] % 256
          /\ v[Len(b) + 3] = x[2] \div 256 /\ v[Len(b) + 4] = x[2] % 256
        BY <1>2, <1>8
    <2> QED BY <1>1, <2>1, <2>2, ReadBack
<1>10. Len(v) = Len(b) + 4
    BY <1>3, <1>5
<1> QED BY <1>4, <1>5, <1>6, <1>9, <1>10 DEF x

\* A prefix, byte by byte.
LEMMA Prefix ==
    ASSUME NEW v \in Seq(Octet), NEW n \in 0 .. Len(v)
    PROVE  /\ SubSeq(v, 1, n) \in Seq(Octet) /\ Len(SubSeq(v, 1, n)) = n
           /\ \A i \in 1 .. n : SubSeq(v, 1, n)[i] = v[i]
BY SubSeqProperties

\* A vector that ends in the checksum of what precedes it is that, sealed.
LEMMA SealedAgain ==
    ASSUME NEW v \in Seq(Octet), NEW n \in Nat, Len(v) = n + 4,
           read_u32(v, n) = crc32(SubSeq(v, 1, n))
    PROVE  v = Sealed(SubSeq(v, 1, n))
<1> DEFINE b == SubSeq(v, 1, n)
           s == Sealed(b)
<1>1. b \in Seq(Octet) /\ Len(b) = n /\ \A i \in 1 .. n : b[i] = v[i]
    BY Prefix
<1>2. read_u32(v, n) = crc32(b)
    OBVIOUS
<1> HIDE DEF b
<1>3. /\ s \in Seq(Octet) /\ Len(s) = n + 4
      /\ \A i \in 1 .. n : s[i] = b[i]
      /\ read_u32(s, n) = crc32(b)
    BY <1>1, SealedBytes
<1> HIDE DEF s
<1>4. /\ v[n + 1] \in Octet /\ v[n + 2] \in Octet /\ v[n + 3] \in Octet /\ v[n + 4] \in Octet
      /\ s[n + 1] \in Octet /\ s[n + 2] \in Octet /\ s[n + 3] \in Octet /\ s[n + 4] \in Octet
    BY <1>3
<1>5. read_u16(v, n) = read_u16(s, n) /\ read_u16(v, n + 2) = read_u16(s, n + 2)
    BY <1>2, <1>3 DEF read_u32
<1>6. /\ v[n + 1] * 256 + v[n + 2] = s[n + 1] * 256 + s[n + 2]
      /\ v[n + 3] * 256 + v[n + 4] = s[n + 3] * 256 + s[n + 4]
    <2>1. (n + 2) + 1 = n + 3 /\ (n + 2) + 2 = n + 4
        OBVIOUS
    <2> QED BY <1>5, <2>1 DEF read_u16
<1>7. v[n + 1] = s[n + 1] /\ v[n + 2] = s[n + 2] /\ v[n + 3] = s[n + 3] /\ v[n + 4] = s[n + 4]
    BY <1>4, <1>6, TwoOctets
<1>8. ASSUME NEW i \in 1 .. n + 4 PROVE v[i] = s[i]
    <2>1. i \in 1 .. n \/ i = n + 1 \/ i = n + 2 \/ i = n + 3 \/ i = n + 4
        OBVIOUS
    <2> QED BY <1>1, <1>3, <1>7, <2>1
<1>9. v = s
    BY <1>3, <1>8, SeqEqual
<1> QED BY <1>9 DEF s, b

(***************************************************************************)
(* decode().                                                               *)
(***************************************************************************)
\* A payload that is not too large has a length of 16 bits.
LEMMA PayloadLengthIsHalf == \A n \in Nat : n <= maximum_payload_size => n \in Half
<1>1. ByteBase * ByteBase = 65536
    BY ByteHasEightBits
<1>2. maximum_payload_size \in Nat /\ maximum_payload_size < 65536
    BY <1>1, FrameConstants
<1> QED BY <1>2 DEF Half

\* A 16-bit number is read from any two bytes of a vector.
LEMMA ReadHalf ==
    ASSUME NEW v \in Seq(Octet), NEW o \in Nat, o + 2 <= Len(v)
    PROVE  /\ read_u16(v, o) \in Half
           /\ v[o + 1] \in Octet /\ v[o + 2] \in Octet
           /\ read_u16(v, o) \div 256 = v[o + 1] /\ read_u16(v, o) % 256 = v[o + 2]
<1>1. v[o + 1] \in Octet /\ v[o + 2] \in Octet
    OBVIOUS
<1>2. \A a, b \in Octet : a * 256 + b \in Half
    BY TwoOctets
<1>3. \A a, b \in Octet : (a * 256 + b) \div 256 = a /\ (a * 256 + b) % 256 = b
    BY DEF Octet
<1> QED BY <1>1, <1>2, <1>3 DEF read_u16

\* The conditions decode() checks, on bytes.
Acceptable(v) ==
    LET n == Len(v) - 4
    IN /\ Len(v) >= 18
       /\ v[1] = 73 /\ v[2] = 77 /\ v[3] = 1
       /\ Named(OpcodeValue, v[4]) \in Opcode
       /\ v[5] \div 2 = 0 /\ v[6] = 0
       /\ read_u16(v, 14) <= maximum_payload_size
       /\ Len(v) = 18 + read_u16(v, 14) + 4
       /\ read_u32(v, n) = crc32(SubSeq(v, 1, n))
       /\ has_valid_semantics(FrameOf(v))

\* What decode() reads of a vector that is no shorter than a header.
LEMMA WireFieldsOf ==
    ASSUME NEW v \in Seq(Octet), Len(v) >= 18
    PROVE  LET w == WireOf(v)
               complete == Len(v) = 18 + read_u16(v, 14) + 4
               n == Len(v) - 4
           IN /\ w = [size |-> w.size, magic |-> w.magic, version |-> w.version,
                      opcode |-> w.opcode, flags |-> w.flags, reserved |-> w.reserved,
                      request_id |-> w.request_id, address |-> w.address,
                      payload_size |-> w.payload_size, status |-> w.status,
                      payload |-> w.payload, checksum |-> w.checksum]
              /\ w.size = Len(v)
              /\ w.magic = (v[1] = 73 /\ v[2] = 77)
              /\ w.version = v[3] /\ w.opcode = Named(OpcodeValue, v[4])
              /\ w.flags = v[5] /\ w.reserved = v[6]
              /\ w.request_id = read_u32(v, 6) /\ w.address = read_u32(v, 10)
              /\ w.payload_size = read_u16(v, 14)
              /\ w.status = Named(StatusValue, read_u16(v, 16))
              /\ w.payload = (IF complete THEN SubSeq(v, 19, n) ELSE <<>>)
              /\ w.checksum = (complete /\ read_u32(v, n) = crc32(SubSeq(v, 1, n)))
<1>1. (SubSeq(v, 1, 2) = magic) = (v[1] = 73 /\ v[2] = 77)
    <2>1. /\ SubSeq(v, 1, 2) \in Seq(Octet) /\ Len(SubSeq(v, 1, 2)) = 2
          /\ \A i \in 1 .. 2 : SubSeq(v, 1, 2)[i] = v[i]
        BY Prefix
    <2>2. magic \in Seq(Octet) /\ Len(magic) = 2 /\ magic[1] = 73 /\ magic[2] = 77
        BY DEF magic, Octet
    <2>3. SubSeq(v, 1, 2)[1] = v[1] /\ SubSeq(v, 1, 2)[2] = v[2]
        BY <2>1
    <2>4. ASSUME v[1] = 73, v[2] = 77 PROVE SubSeq(v, 1, 2) = magic
        <3>1. \A i \in 1 .. 2 : i = 1 \/ i = 2
            OBVIOUS
        <3> QED BY <2>1, <2>2, <2>3, <2>4, <3>1, SeqEqual
    <2> QED BY <2>2, <2>3, <2>4
<1>2. ~(Len(v) < 18)
    OBVIOUS
<1> DEFINE w == WireOf(v)
           complete == Len(v) = 18 + read_u16(v, 14) + 4
           n == Len(v) - 4
<1>3. /\ w.size = Len(v)
      /\ w.magic = (v[1] = 73 /\ v[2] = 77)
      /\ w.version = v[3] /\ w.opcode = Named(OpcodeValue, v[4])
      /\ w.flags = v[5] /\ w.reserved = v[6]
      /\ w.request_id = read_u32(v, 6) /\ w.address = read_u32(v, 10)
      /\ w.payload_size = read_u16(v, 14)
      /\ w.status = Named(StatusValue, read_u16(v, 16))
      /\ w.payload = (IF complete THEN SubSeq(v, 19, n) ELSE <<>>)
      /\ w.checksum = (complete /\ read_u32(v, n) = crc32(SubSeq(v, 1, n)))
    BY <1>1, <1>2 DEF WireOf, header_size, checksum_size
<1>4. w = [size |-> w.size, magic |-> w.magic, version |-> w.version,
           opcode |-> w.opcode, flags |-> w.flags, reserved |-> w.reserved,
           request_id |-> w.request_id, address |-> w.address,
           payload_size |-> w.payload_size, status |-> w.status,
           payload |-> w.payload, checksum |-> w.checksum]
    BY <1>2 DEF WireOf, header_size, checksum_size
<1> QED BY <1>3, <1>4

\* decode() succeeds on the vectors that pass its checks, and on no others.
LEMMA DecodeAccepts ==
    ASSUME NEW v \in Seq(Octet)
    PROVE  DecodeErrorOf(v) = "none" <=> Acceptable(v)
<1> DEFINE w == WireOf(v)
<1>1. CASE Len(v) < 18
    <2>1. w.size = Len(v)
        BY <1>1 DEF WireOf, EmptyWire, header_size
    <2>2. DecodeErrorOf(v) = "truncated"
        BY <1>1, <2>1 DEF DecodeErrorOf, DecodeError, header_size
    <2> QED BY <1>1, <2>2 DEF Acceptable
<1>2. CASE Len(v) >= 18
    <2> DEFINE complete == Len(v) = 18 + read_u16(v, 14) + 4
               n == Len(v) - 4
    <2>1. /\ w.size = Len(v)
          /\ w.magic = (v[1] = 73 /\ v[2] = 77)
          /\ w.version = v[3] /\ w.opcode = Named(OpcodeValue, v[4])
          /\ w.flags = v[5] /\ w.reserved = v[6]
          /\ w.payload_size = read_u16(v, 14)
          /\ w.checksum = (complete /\ read_u32(v, n) = crc32(SubSeq(v, 1, n)))
        BY <1>2, WireFieldsOf
    <2>2. has_valid_semantics(DecodedFrame(w)) <=> has_valid_semantics(FrameOf(v))
        BY DEF has_valid_semantics, DecodedFrame, FrameOf
    <2>3. DecodeErrorOf(v) = DecodeError(w)
        BY DEF DecodeErrorOf
    <2>4. read_u16(v, 14) \in Nat /\ Len(v) \in Nat
        <3>1. 14 \in Nat /\ 14 + 2 <= Len(v)
            BY <1>2
        <3>2. read_u16(v, 14) \in Half
            BY <3>1, ReadHalf
        <3> QED BY <3>2 DEF Half
    <2>5. w.size \in Nat /\ w.size >= 18 /\ w.payload_size \in Nat
        BY <1>2, <2>1, <2>4
    <2> HIDE DEF w
    <2>6. DecodeError(w) = "none" <=>
             /\ w.magic /\ w.version = 1 /\ w.opcode \in Opcode /\ w.flags \div 2 = 0
             /\ w.reserved = 0 /\ w.payload_size <= maximum_payload_size
             /\ w.size = 18 + w.payload_size + 4 /\ w.checksum
             /\ has_valid_semantics(DecodedFrame(w))
        BY <2>5, FrameConstants
           DEF DecodeError, header_size, checksum_size, protocol_version, ExpectedSize,
               is_supported_opcode, HasUnknownFlags
    <2> QED BY <1>2, <2>1, <2>2, <2>3, <2>6 DEF Acceptable
<1> QED BY <1>1, <1>2

\* What encode() accepts.
LEMMA EncodeAccepts ==
    ASSUME NEW f
    PROVE  EncodeError(f) = "none" <=>
              /\ f.version = 1 /\ f.opcode \in Opcode
              /\ ~(Len(f.payload) > maximum_payload_size)
              /\ has_valid_semantics(f)
BY DEF EncodeError, protocol_version, is_supported_opcode

\* The vector encode() lays out has the fields of the frame, which are what
\* decode() finds in it.
LEMMA LaidOut ==
    ASSUME NEW f \in ByteFrame, EncodeError(f) = "none"
    PROVE  /\ LayOut(f) \in Seq(Octet)
           /\ Len(LayOut(f)) = 22 + Len(f.payload)
           /\ Len(f.payload) \in Half
           /\ WireOf(LayOut(f)) = EncodedBytes(f)
           /\ FrameOf(LayOut(f)) = f
           /\ DecodeErrorOf(LayOut(f)) = "none"
<1> DEFINE p == f.payload
           l == Len(p)
           h == Header(f)
           b == h \o p
           v == LayOut(f)
<1>1. /\ f.version = 1 /\ f.opcode \in Opcode /\ ~(l > maximum_payload_size)
      /\ has_valid_semantics(f)
    BY EncodeAccepts
<1>2. /\ p \in Seq(Octet) /\ f.flags \in Octet /\ f.code \in Half
      /\ f.request_id \in Half \X Half /\ f.address \in Half \X Half
      /\ f.status = Named(StatusValue, f.code)
    BY DEF ByteFrame
<1>3. l \in Nat /\ l \in Half /\ l <= maximum_payload_size
    BY <1>1, <1>2, FrameConstants, PayloadLengthIsHalf
<1>4. /\ h \in Seq(Octet) /\ Len(h) = 18
      /\ h[1] = 73 /\ h[2] = 77 /\ h[3] = f.version /\ h[4] = OpcodeValue[f.opcode]
      /\ h[5] = f.flags /\ h[6] = 0
      /\ h[7] = f.request_id[1] \div 256 /\ h[8] = f.request_id[1] % 256
      /\ h[9] = f.request_id[2] \div 256 /\ h[10] = f.request_id[2] % 256
      /\ h[11] = f.address[1] \div 256 /\ h[12] = f.address[1] % 256
      /\ h[13] = f.address[2] \div 256 /\ h[14] = f.address[2] % 256
      /\ h[15] = l \div 256 /\ h[16] = l % 256
      /\ h[17] = f.code \div 256 /\ h[18] = f.code % 256
    BY <1>1, <1>3, HeaderBytes
<1>5. h \in Seq(Octet) /\ Len(h) = 18
    BY <1>4
<1>6. v = Sealed(b)
    BY DEF LayOut
<1> HIDE DEF p, l, h, v
<1>7. /\ b \in Seq(Octet) /\ Len(b) = Len(h) + Len(p)
      /\ \A i \in 1 .. Len(h) + Len(p) : b[i] = IF i <= Len(h) THEN h[i] ELSE p[i - Len(h)]
    BY <1>2, <1>5, Joined, Zenon
<1> HIDE DEF b
<1>8. /\ Len(b) = 18 + l
      /\ \A i \in 1 .. 18 : b[i] = h[i]
      /\ \A i \in 1 .. l : b[18 + i] = p[i]
    <2>1. Len(p) = l
        BY DEF l
    <2>2. Len(b) = 18 + l
        BY <1>5, <1>7, <2>1
    <2>3. \A i \in 1 .. 18 : b[i] = h[i]
        BY <1>3, <1>5, <1>7, <2>1
    <2>4. ASSUME NEW i \in 1 .. l PROVE b[18 + i] = p[i]
        <3>1. 18 + i \in 1 .. Len(h) + Len(p) /\ ~(18 + i <= Len(h)) /\ (18 + i) - Len(h) = i
            BY <1>3, <1>5, <2>1
        <3> QED BY <1>7, <3>1
    <2> QED BY <2>2, <2>3, <2>4
<1>9. /\ v \in Seq(Octet) /\ Len(v) = Len(b) + 4
      /\ \A i \in 1 .. Len(b) : v[i] = b[i]
      /\ read_u32(v, Len(b)) = crc32(b)
    <2>1. b \in Seq(Octet)
        BY <1>7
    <2> QED BY <1>6, <2>1, SealedBytes
<1>10. Len(v) = 22 + l /\ Len(v) >= 18 /\ Len(v) - 4 = Len(b) /\ Len(b) \in Nat
    <2>1. l \in Nat /\ Len(b) = 18 + l /\ Len(v) = Len(b) + 4
        BY <1>3, <1>8, <1>9
    <2> QED BY <2>1
<1>11. \A i \in 1 .. 18 : v[i] = h[i]
    <2>1. \A i \in 1 .. 18 : i \in 1 .. Len(b)
        <3>1. l \in Nat /\ Len(b) = 18 + l
            BY <1>3, <1>8
        <3> QED BY <3>1
    <2> QED BY <1>8, <1>9, <2>1
<1>12. /\ v[1] = h[1] /\ v[2] = h[2] /\ v[3] = h[3] /\ v[4] = h[4] /\ v[5] = h[5]
       /\ v[6] = h[6] /\ v[7] = h[7] /\ v[8] = h[8] /\ v[9] = h[9] /\ v[10] = h[10]
       /\ v[11] = h[11] /\ v[12] = h[12] /\ v[13] = h[13] /\ v[14] = h[14] /\ v[15] = h[15]
       /\ v[16] = h[16] /\ v[17] = h[17] /\ v[18] = h[18]
    BY <1>11
<1>13. read_u16(v, 14) = l /\ read_u16(v, 16) = f.code
    <2>1. v[14 + 1] * 256 + v[14 + 2] = (l \div 256) * 256 + (l % 256)
        BY <1>4, <1>12
    <2>2. v[16 + 1] * 256 + v[16 + 2] = (f.code \div 256) * 256 + (f.code % 256)
        BY <1>4, <1>12
    <2>3. (l \div 256) * 256 + (l % 256) = l
        BY <1>3, U16
    <2>4. (f.code \div 256) * 256 + (f.code % 256) = f.code
        BY <1>2, U16
    <2> QED BY <2>1, <2>2, <2>3, <2>4 DEF read_u16
<1>14. read_u32(v, 6) = f.request_id
    <2>1. /\ v[6 + 1] = f.request_id[1] \div 256 /\ v[6 + 2] = f.request_id[1] % 256
          /\ v[6 + 3] = f.request_id[2] \div 256 /\ v[6 + 4] = f.request_id[2] % 256
        BY <1>4, <1>12
    <2>2. 6 \in Nat
        OBVIOUS
    <2> QED BY <1>2, <2>1, <2>2, ReadBack
<1>15. read_u32(v, 10) = f.address
    <2>1. /\ v[10 + 1] = f.address[1] \div 256 /\ v[10 + 2] = f.address[1] % 256
          /\ v[10 + 3] = f.address[2] \div 256 /\ v[10 + 4] = f.address[2] % 256
        BY <1>4, <1>12
    <2>2. 10 \in Nat
        OBVIOUS
    <2> QED BY <1>2, <2>1, <2>2, ReadBack
<1>16. SubSeq(v, 1, Len(b)) = b
    <2> DEFINE u == SubSeq(v, 1, Len(b))
    <2>1. u \in Seq(Octet) /\ Len(u) = Len(b) /\ \A i \in 1 .. Len(b) : u[i] = v[i]
        BY <1>9, <1>10, Prefix
    <2> HIDE DEF u
    <2>2. u = b
        BY <1>7, <1>9, <2>1, SeqEqual
    <2> QED BY <2>2 DEF u
<1>17. SubSeq(v, 19, Len(b)) = p
    <2> DEFINE u == SubSeq(v, 19, Len(b))
    <2>1. u \in Seq(Octet) /\ Len(u) = l /\ \A i \in 1 .. l : u[i] = v[18 + i]
        <3>1. Len(b) = 18 + l /\ Len(v) = 22 + l
            BY <1>8, <1>10
        <3> QED BY <1>3, <1>9, <3>1, SubSeqProperties
    <2>2. ASSUME NEW i \in 1 .. l PROVE v[18 + i] = p[i]
        <3>1. 18 + i \in 1 .. Len(b)
            BY <1>3, <1>8
        <3> QED BY <1>8, <1>9, <3>1
    <2>3. Len(p) = l
        BY DEF l
    <2> HIDE DEF u
    <2>4. u = p
        BY <1>2, <2>1, <2>2, <2>3, SeqEqual
    <2> QED BY <2>4 DEF u
<1>18. Named(OpcodeValue, v[4]) = f.opcode
    <2>1. v[4] = OpcodeValue[f.opcode]
        BY <1>4, <1>12
    <2> QED BY <1>1, <2>1, OpcodeNames
<1> DEFINE w == WireOf(v)
<1>19. /\ w = [size |-> w.size, magic |-> w.magic, version |-> w.version,
               opcode |-> w.opcode, flags |-> w.flags, reserved |-> w.reserved,
               request_id |-> w.request_id, address |-> w.address,
               payload_size |-> w.payload_size, status |-> w.status,
               payload |-> w.payload, checksum |-> w.checksum]
       /\ w.size = 22 + l /\ w.magic = TRUE
       /\ w.version = f.version /\ w.opcode = f.opcode
       /\ w.flags = f.flags /\ w.reserved = 0
       /\ w.request_id = f.request_id /\ w.address = f.address
       /\ w.payload_size = l /\ w.status = f.status
       /\ w.payload = p /\ w.checksum = TRUE
    <2>1. Len(v) = 18 + read_u16(v, 14) + 4
        BY <1>3, <1>10, <1>13
    <2>2. read_u32(v, Len(v) - 4) = crc32(SubSeq(v, 1, Len(v) - 4))
        BY <1>9, <1>10, <1>16
    <2>3. SubSeq(v, 19, Len(v) - 4) = p
        BY <1>10, <1>17
    <2>4. v[1] = 73 /\ v[2] = 77 /\ v[3] = f.version /\ v[5] = f.flags /\ v[6] = 0
        BY <1>4, <1>12
    <2>5. /\ w = [size |-> w.size, magic |-> w.magic, version |-> w.version,
                  opcode |-> w.opcode, flags |-> w.flags, reserved |-> w.reserved,
                  request_id |-> w.request_id, address |-> w.address,
                  payload_size |-> w.payload_size, status |-> w.status,
                  payload |-> w.payload, checksum |-> w.checksum]
          /\ w.size = Len(v)
          /\ w.magic = (v[1] = 73 /\ v[2] = 77)
          /\ w.version = v[3] /\ w.opcode = Named(OpcodeValue, v[4])
          /\ w.flags = v[5] /\ w.reserved = v[6]
          /\ w.request_id = read_u32(v, 6) /\ w.address = read_u32(v, 10)
          /\ w.payload_size = read_u16(v, 14)
          /\ w.status = Named(StatusValue, read_u16(v, 16))
          /\ w.payload = SubSeq(v, 19, Len(v) - 4)
          /\ w.checksum = TRUE
        BY <1>9, <1>10, <2>1, <2>2, WireFieldsOf
    <2> HIDE DEF w
    <2> QED BY <1>2, <1>10, <1>13, <1>14, <1>15, <1>18, <2>3, <2>4, <2>5
<1> HIDE DEF w
<1>20. w = EncodedBytes(f)
    <2>1. EncodedBytes(f) =
             [size |-> 22 + l, magic |-> TRUE, version |-> f.version, opcode |-> f.opcode,
              flags |-> f.flags, reserved |-> 0, request_id |-> f.request_id,
              address |-> f.address, payload_size |-> l, status |-> f.status,
              payload |-> p, checksum |-> TRUE]
        <3>1. header_size + l + checksum_size = 22 + l
            BY <1>3 DEF header_size, checksum_size
        <3> QED BY <3>1 DEF EncodedBytes, l, p
    <2> QED BY <1>19, <2>1, Zenon
<1>21. FrameOf(v) = f
    <2>1. f = [version |-> f.version, opcode |-> f.opcode, flags |-> f.flags,
               request_id |-> f.request_id, address |-> f.address,
               status |-> f.status, code |-> f.code, payload |-> f.payload]
        BY DEF ByteFrame
    <2>2. FrameOf(v) = [version |-> 1, opcode |-> w.opcode, flags |-> w.flags,
                        request_id |-> w.request_id, address |-> w.address,
                        status |-> w.status, code |-> read_u16(v, 16), payload |-> w.payload]
        BY DEF FrameOf, DecodedFrame, protocol_version, w
    <2> QED BY <1>1, <1>13, <1>19, <2>1, <2>2 DEF p
<1>22. Acceptable(v)
    <2>1. /\ v[1] = 73 /\ v[2] = 77 /\ v[3] = 1 /\ Named(OpcodeValue, v[4]) \in Opcode
          /\ v[5] = f.flags /\ v[6] = 0
        BY <1>1, <1>4, <1>12, <1>18
    <2>2. f.flags \div 2 = 0
        BY <1>1 DEF has_valid_semantics, HasUnknownFlags
    <2>3. /\ Len(v) >= 18 /\ read_u16(v, 14) <= maximum_payload_size
          /\ Len(v) = 18 + read_u16(v, 14) + 4
        BY <1>3, <1>10, <1>13
    <2>4. read_u32(v, Len(v) - 4) = crc32(SubSeq(v, 1, Len(v) - 4))
        BY <1>9, <1>10, <1>16
    <2> QED BY <1>1, <1>21, <2>1, <2>2, <2>3, <2>4 DEF Acceptable
<1>23. DecodeErrorOf(v) = "none"
    BY <1>9, <1>22, DecodeAccepts
<1> QED BY <1>3, <1>9, <1>10, <1>20, <1>21, <1>23 DEF v, w, l, p

\* A status has a name or the one name of those that have none.
LEMMA StatusNames == \A v : Named(StatusValue, v) \in StatusWord
BY DEF Named, StatusValue, Status, StatusWord

\* What decode() accepts is what encode() lays out for the frame it found.
LEMMA AcceptableIsLaidOut ==
    ASSUME NEW v \in Seq(Octet), Acceptable(v)
    PROVE  /\ FrameOf(v) \in ByteFrame
           /\ EncodeError(FrameOf(v)) = "none"
           /\ LayOut(FrameOf(v)) = v
<1> DEFINE f == FrameOf(v)
           w == WireOf(v)
           l == read_u16(v, 14)
           n == Len(v) - 4
           p == SubSeq(v, 19, n)
<1>1. /\ Len(v) >= 18 /\ v[1] = 73 /\ v[2] = 77 /\ v[3] = 1
      /\ Named(OpcodeValue, v[4]) \in Opcode /\ v[6] = 0
      /\ l <= maximum_payload_size /\ Len(v) = 18 + l + 4
      /\ read_u32(v, n) = crc32(SubSeq(v, 1, n))
      /\ has_valid_semantics(f)
    BY DEF Acceptable
<1>2. \A o \in 0 .. 16 : /\ read_u16(v, o) \in Half
                         /\ read_u16(v, o) \div 256 = v[o + 1] /\ read_u16(v, o) % 256 = v[o + 2]
    <2> SUFFICES ASSUME NEW o \in 0 .. 16
                 PROVE  /\ read_u16(v, o) \in Half
                        /\ read_u16(v, o) \div 256 = v[o + 1] /\ read_u16(v, o) % 256 = v[o + 2]
        OBVIOUS
    <2>1. o \in Nat /\ o + 2 <= Len(v)
        BY <1>1
    <2> QED BY <2>1, ReadHalf
<1>3. l \in Nat /\ n = 18 + l /\ n \in Nat /\ Len(v) = n + 4
    <2>1. l \in Half
        BY <1>2
    <2> HIDE DEF l
    <2> QED BY <1>1, <2>1 DEF Half
<1>4. f = [version |-> 1, opcode |-> Named(OpcodeValue, v[4]), flags |-> v[5],
           request_id |-> <<read_u16(v, 6), read_u16(v, 8)>>,
           address |-> <<read_u16(v, 10), read_u16(v, 12)>>,
           status |-> Named(StatusValue, read_u16(v, 16)), code |-> read_u16(v, 16),
           payload |-> p]
    <2>1. /\ w.opcode = Named(OpcodeValue, v[4]) /\ w.flags = v[5]
          /\ w.request_id = read_u32(v, 6) /\ w.address = read_u32(v, 10)
          /\ w.status = Named(StatusValue, read_u16(v, 16))
          /\ w.payload = p
        BY <1>1, WireFieldsOf
    <2>2. f = [version |-> 1, opcode |-> w.opcode, flags |-> w.flags,
               request_id |-> w.request_id, address |-> w.address,
               status |-> w.status, code |-> read_u16(v, 16), payload |-> w.payload]
        BY DEF FrameOf, DecodedFrame, protocol_version
    <2>3. /\ read_u32(v, 6) = <<read_u16(v, 6), read_u16(v, 8)>>
          /\ read_u32(v, 10) = <<read_u16(v, 10), read_u16(v, 12)>>
        BY DEF read_u32
    <2> HIDE DEF w, p
    <2> QED BY <2>1, <2>2, <2>3
<1>5. p \in Seq(Octet) /\ Len(p) = l /\ \A i \in 1 .. l : p[i] = v[18 + i]
    BY <1>3, SubSeqProperties
<1> HIDE DEF f, w, l, n, p
<1>6. f \in ByteFrame
    <2>1. 1 \in Octet /\ v[5] \in Octet
        BY <1>1 DEF Octet
    <2>2. /\ read_u16(v, 6) \in Half /\ read_u16(v, 8) \in Half /\ read_u16(v, 10) \in Half
          /\ read_u16(v, 12) \in Half /\ read_u16(v, 16) \in Half
        BY <1>2
    <2>3. Named(StatusValue, read_u16(v, 16)) \in StatusWord
        BY StatusNames
    <2>4. Named(OpcodeValue, v[4]) \in OpcodeByte
        BY <1>1 DEF OpcodeByte
    <2> QED BY <1>4, <1>5, <2>1, <2>2, <2>3, <2>4 DEF ByteFrame
<1>7. EncodeError(f) = "none"
    <2>1. f.version = 1 /\ f.opcode \in Opcode /\ Len(f.payload) = l
        BY <1>1, <1>4, <1>5
    <2>2. ~(l > maximum_payload_size)
        BY <1>1, <1>3, FrameConstants
    <2> QED BY <1>1, <2>1, <2>2, EncodeAccepts
<1> DEFINE h == Header(f)
           b == h \o p
           u == SubSeq(v, 1, n)
<1>8. /\ h \in Seq(Octet) /\ Len(h) = 18
      /\ h[1] = 73 /\ h[2] = 77 /\ h[3] = f.version /\ h[4] = OpcodeValue[f.opcode]
      /\ h[5] = f.flags /\ h[6] = 0
      /\ h[7] = f.request_id[1] \div 256 /\ h[8] = f.request_id[1] % 256
      /\ h[9] = f.request_id[2] \div 256 /\ h[10] = f.request_id[2] % 256
      /\ h[11] = f.address[1] \div 256 /\ h[12] = f.address[1] % 256
      /\ h[13] = f.address[2] \div 256 /\ h[14] = f.address[2] % 256
      /\ h[15] = Len(f.payload) \div 256 /\ h[16] = Len(f.payload) % 256
      /\ h[17] = f.code \div 256 /\ h[18] = f.code % 256
    <2>1. f.opcode \in Opcode /\ f.payload = p
        BY <1>1, <1>4
    <2>2. Len(f.payload) \in Half
        <3>1. 14 \in 0 .. 16
            OBVIOUS
        <3>2. read_u16(v, 14) \in Half
            BY <1>2, <3>1
        <3>3. Len(f.payload) = read_u16(v, 14)
            BY <1>5, <2>1 DEF l
        <3> QED BY <3>2, <3>3
    <2> QED BY <1>6, <2>1, <2>2, HeaderBytes
<1>9. h \in Seq(Octet) /\ Len(h) = 18
    BY <1>8
<1> HIDE DEF h
<1>10. \A i \in 1 .. 18 : h[i] = v[i]
    <2>1. OpcodeValue[f.opcode] = v[4]
        <3>1. v[4] \in Octet
            BY <1>1
        <3> QED BY <1>1, <1>4, <3>1, OpcodeNames
    <2>2. h[1] = v[1] /\ h[2] = v[2] /\ h[3] = v[3] /\ h[4] = v[4] /\ h[5] = v[5] /\ h[6] = v[6]
        BY <1>1, <1>4, <1>8, <2>1
    <2>3. h[7] = v[7] /\ h[8] = v[8] /\ h[9] = v[9] /\ h[10] = v[10]
        <3>1. f.request_id[1] = read_u16(v, 6) /\ f.request_id[2] = read_u16(v, 8)
            BY <1>4
        <3>2. /\ read_u16(v, 6) \div 256 = v[7] /\ read_u16(v, 6) % 256 = v[8]
              /\ read_u16(v, 8) \div 256 = v[9] /\ read_u16(v, 8) % 256 = v[10]
            BY <1>2
        <3> QED BY <1>8, <3>1, <3>2
    <2>4. h[11] = v[11] /\ h[12] = v[12] /\ h[13] = v[13] /\ h[14] = v[14]
        <3>1. f.address[1] = read_u16(v, 10) /\ f.address[2] = read_u16(v, 12)
            BY <1>4
        <3>2. /\ read_u16(v, 10) \div 256 = v[11] /\ read_u16(v, 10) % 256 = v[12]
              /\ read_u16(v, 12) \div 256 = v[13] /\ read_u16(v, 12) % 256 = v[14]
            BY <1>2
        <3> QED BY <1>8, <3>1, <3>2
    <2>5. h[15] = v[15] /\ h[16] = v[16] /\ h[17] = v[17] /\ h[18] = v[18]
        <3>1. Len(f.payload) = read_u16(v, 14) /\ f.code = read_u16(v, 16)
            BY <1>4, <1>5 DEF l
        <3>2. /\ read_u16(v, 14) \div 256 = v[15] /\ read_u16(v, 14) % 256 = v[16]
              /\ read_u16(v, 16) \div 256 = v[17] /\ read_u16(v, 16) % 256 = v[18]
            BY <1>2
        <3> QED BY <1>8, <3>1, <3>2
    <2>6. TAKE i \in 1 .. 18
    <2>7. CASE i \in 1 .. 6
        <3>1. i = 1 \/ i = 2 \/ i = 3 \/ i = 4 \/ i = 5 \/ i = 6
            BY <2>7
        <3> QED BY <2>2, <3>1, Zenon
    <2>8. CASE i \in 7 .. 10
        <3>1. i = 7 \/ i = 8 \/ i = 9 \/ i = 10
            BY <2>8
        <3> QED BY <2>3, <3>1, Zenon
    <2>9. CASE i \in 11 .. 14
        <3>1. i = 11 \/ i = 12 \/ i = 13 \/ i = 14
            BY <2>9
        <3> QED BY <2>4, <3>1, Zenon
    <2>10. CASE i \in 15 .. 18
        <3>1. i = 15 \/ i = 16 \/ i = 17 \/ i = 18
            BY <2>10
        <3> QED BY <2>5, <3>1, Zenon
    <2> QED BY <2>6, <2>7, <2>8, <2>9, <2>10
<1>11. /\ b \in Seq(Octet) /\ Len(b) = Len(h) + Len(p)
       /\ \A i \in 1 .. Len(h) + Len(p) : b[i] = IF i <= Len(h) THEN h[i] ELSE p[i - Len(h)]
    BY <1>5, <1>9, Joined, Zenon
<1>12. LayOut(f) = Sealed(b)
    <2>1. f.payload = p
        BY <1>4
    <2> QED BY <2>1 DEF LayOut, h
<1> HIDE DEF b
<1>13. u \in Seq(Octet) /\ Len(u) = n /\ \A i \in 1 .. n : u[i] = v[i]
    BY <1>3, Prefix
<1>14. v = Sealed(u)
    BY <1>1, <1>3, SealedAgain DEF n
<1> HIDE DEF u
<1>15. Len(b) = n
    BY <1>3, <1>5, <1>9, <1>11
<1>16. ASSUME NEW i \in 1 .. n PROVE b[i] = u[i]
    <2>1. i \in 1 .. Len(h) + Len(p)
        BY <1>3, <1>5, <1>9
    <2>2. CASE i <= 18
        <3>1. i \in 1 .. 18
            BY <2>2
        <3>2. b[i] = h[i]
            BY <1>9, <1>11, <2>1, <2>2
        <3> QED BY <1>10, <1>13, <3>1, <3>2
    <2>3. CASE ~(i <= 18)
        <3>1. i - 18 \in 1 .. l /\ 18 + (i - 18) = i
            BY <1>3, <2>3
        <3>2. b[i] = p[i - 18]
            BY <1>9, <1>11, <2>1, <2>3
        <3>3. p[i - 18] = v[i]
            BY <1>5, <3>1
        <3> QED BY <1>13, <3>2, <3>3
    <2> QED BY <2>2, <2>3
<1>17. b = u
    BY <1>11, <1>13, <1>15, <1>16, SeqEqual
<1> QED BY <1>6, <1>7, <1>12, <1>14, <1>17 DEF f

(***************************************************************************)
(* Damage.  Two vectors that decode() accepts and that differ as damage    *)
(* makes them differ cannot both be.                                       *)
(***************************************************************************)
\* An accepted vector: its checksum stands at n, over the n bytes before it.
LEMMA Covered ==
    ASSUME NEW v \in Seq(Octet), Acceptable(v)
    PROVE  LET n == Len(v) - 4
               u == SubSeq(v, 1, n)
           IN /\ n \in Nat /\ n >= 18 /\ Len(v) = n + 4
              /\ u \in Seq(Octet) /\ Len(u) = n /\ \A i \in 1 .. n : u[i] = v[i]
              /\ read_u32(v, n) = crc32(u)
              /\ v = Sealed(u)
<1> DEFINE n == Len(v) - 4
           u == SubSeq(v, 1, n)
<1>1. /\ Len(v) >= 18 /\ Len(v) = 18 + read_u16(v, 14) + 4
      /\ read_u32(v, n) = crc32(u)
    BY DEF Acceptable
<1>2. read_u16(v, 14) \in Nat
    <2>1. 14 \in Nat /\ 14 + 2 <= Len(v)
        BY <1>1
    <2>2. read_u16(v, 14) \in Half
        BY <2>1, ReadHalf
    <2> QED BY <2>2 DEF Half
<1>3. n \in Nat /\ n >= 18 /\ Len(v) = n + 4
    BY <1>1, <1>2
<1>4. u \in Seq(Octet) /\ Len(u) = n /\ \A i \in 1 .. n : u[i] = v[i]
    BY <1>3, Prefix
<1>5. v = Sealed(u)
    BY <1>1, <1>3, SealedAgain
<1> QED BY <1>1, <1>3, <1>4, <1>5

\* Accepted vectors with the same bytes under the checksum are the same.
LEMMA SameCoveredSame ==
    ASSUME NEW a \in Seq(Octet), NEW b \in Seq(Octet), Acceptable(a), Acceptable(b),
           Len(a) = Len(b), \A i \in 1 .. Len(a) - 4 : a[i] = b[i]
    PROVE  a = b
<1> DEFINE n == Len(a) - 4
           s == SubSeq(a, 1, n)
           t == SubSeq(b, 1, n)
<1>1. s \in Seq(Octet) /\ Len(s) = n /\ (\A i \in 1 .. n : s[i] = a[i]) /\ a = Sealed(s)
    BY Covered
<1>2. t \in Seq(Octet) /\ Len(t) = n /\ (\A i \in 1 .. n : t[i] = b[i]) /\ b = Sealed(t)
    BY Covered
<1> HIDE DEF s, t
<1>3. \A i \in 1 .. n : s[i] = t[i]
    BY <1>1, <1>2
<1>4. s = t
    BY <1>1, <1>2, <1>3, SeqEqual
<1> QED BY <1>1, <1>2, <1>4

\* The same four bytes at the end are the same checksum.
LEMMA SameStored ==
    ASSUME NEW a, NEW b, NEW n \in Nat, \A i \in n + 1 .. n + 4 : a[i] = b[i]
    PROVE  read_u32(a, n) = read_u32(b, n)
<1>1. a[n + 1] = b[n + 1] /\ a[n + 2] = b[n + 2] /\ a[n + 3] = b[n + 3] /\ a[n + 4] = b[n + 4]
    OBVIOUS
<1>2. (n + 2) + 1 = n + 3 /\ (n + 2) + 2 = n + 4
    OBVIOUS
<1> QED BY <1>1, <1>2 DEF read_u32, read_u16

\* The four bytes in which a word is stored.
LEMMA StoredBytes ==
    ASSUME NEW v \in Seq(Octet), NEW n \in Nat, Len(v) = n + 4, NEW w, read_u32(v, n) = Halves(w)
    PROVE  /\ ByteAt(w, 24) = v[n + 1] /\ ByteAt(w, 16) = v[n + 2]
           /\ ByteAt(w, 8) = v[n + 3] /\ ByteAt(w, 0) = v[n + 4]
<1> DEFINE a == v[n + 1]  b == v[n + 2]  c == v[n + 3]  d == v[n + 4]
           e == ByteAt(w, 24)  f == ByteAt(w, 16)  g == ByteAt(w, 8)  h == ByteAt(w, 0)
<1>1. a \in Octet /\ b \in Octet /\ c \in Octet /\ d \in Octet
    OBVIOUS
<1>2. e \in Octet /\ f \in Octet /\ g \in Octet /\ h \in Octet
    BY ByteAtValue
<1>3. e * 256 + f = a * 256 + b /\ g * 256 + h = c * 256 + d
    <2>1. (n + 2) + 1 = n + 3 /\ (n + 2) + 2 = n + 4
        OBVIOUS
    <2> QED BY <2>1 DEF read_u32, read_u16, Halves
<1> HIDE DEF a, b, c, d, e, f, g, h
<1>4. e = a /\ f = b
    BY <1>1, <1>2, <1>3, TwoOctets
<1>5. g = c /\ h = d
    BY <1>1, <1>2, <1>3, TwoOctets
<1> QED BY <1>4, <1>5 DEF a, b, c, d, e, f, g, h

\* One byte differs, in the header, the payload or the checksum.
LEMMA OneByteIsDetected ==
    ASSUME NEW a \in Seq(Octet), NEW b \in Seq(Octet), Acceptable(a), Len(a) = Len(b),
           NEW m \in 1 .. Len(a), a[m] # b[m],
           \A j \in 1 .. Len(a) : j # m => a[j] = b[j]
    PROVE  ~Acceptable(b)
<1> SUFFICES ASSUME Acceptable(b) PROVE FALSE
    OBVIOUS
<1> DEFINE n == Len(a) - 4
           s == SubSeq(a, 1, n)
           t == SubSeq(b, 1, n)
<1>1. /\ n \in Nat /\ Len(a) = n + 4 /\ s \in Seq(Octet) /\ Len(s) = n
      /\ (\A i \in 1 .. n : s[i] = a[i]) /\ read_u32(a, n) = crc32(s)
    BY Covered
<1>2. /\ t \in Seq(Octet) /\ Len(t) = n
      /\ (\A i \in 1 .. n : t[i] = b[i]) /\ read_u32(b, n) = crc32(t)
    BY Covered
<1> HIDE DEF s, t
<1>3. CASE m <= n
    <2>1. m \in 1 .. Len(s) /\ s[m] # t[m]
        BY <1>1, <1>2, <1>3
    <2>2. \A j \in 1 .. Len(s) : j # m => s[j] = t[j]
        BY <1>1, <1>2
    <2>3. crc32(s) # crc32(t)
        BY <1>1, <1>2, <2>1, <2>2, OneByteDiffers
    <2>4. \A i \in n + 1 .. n + 4 : a[i] = b[i]
        BY <1>1, <1>3
    <2>5. read_u32(a, n) = read_u32(b, n)
        BY <1>1, <2>4, SameStored
    <2> QED BY <1>1, <1>2, <2>3, <2>5
<1>4. CASE ~(m <= n)
    <2>1. \A i \in 1 .. Len(a) - 4 : a[i] = b[i]
        BY <1>1, <1>4
    <2> QED BY <2>1, SameCoveredSame
<1> QED BY <1>3, <1>4

\* Two adjacent bytes are exchanged, on either side of where the checksum begins
\* or across it.
LEMMA ExchangeIsDetected ==
    ASSUME NEW a \in Seq(Octet), NEW b \in Seq(Octet), Acceptable(a), Len(a) = Len(b),
           NEW m \in 1 .. Len(a), m + 1 <= Len(a),
           a[m] # a[m + 1], b[m] = a[m + 1], b[m + 1] = a[m],
           \A j \in 1 .. Len(a) : j # m /\ j # m + 1 => a[j] = b[j]
    PROVE  ~Acceptable(b)
<1> SUFFICES ASSUME Acceptable(b) PROVE FALSE
    OBVIOUS
<1> DEFINE n == Len(a) - 4
           s == SubSeq(a, 1, n)
           t == SubSeq(b, 1, n)
<1>1. /\ n \in Nat /\ n >= 18 /\ Len(a) = n + 4 /\ s \in Seq(Octet) /\ Len(s) = n
      /\ (\A i \in 1 .. n : s[i] = a[i]) /\ read_u32(a, n) = crc32(s)
    BY Covered
<1>2. /\ t \in Seq(Octet) /\ Len(t) = n
      /\ (\A i \in 1 .. n : t[i] = b[i]) /\ read_u32(b, n) = crc32(t)
    BY Covered
<1> HIDE DEF s, t
<1>3. CASE m + 1 <= n
    <2>1. /\ m \in 1 .. Len(s) /\ m + 1 <= Len(s) /\ s[m] # s[m + 1]
          /\ t[m] = s[m + 1] /\ t[m + 1] = s[m]
        <3>1. m \in 1 .. n /\ m + 1 \in 1 .. n
            BY <1>1, <1>3
        <3> QED BY <1>1, <1>2, <3>1
    <2>2. \A j \in 1 .. Len(s) : j # m /\ j # m + 1 => s[j] = t[j]
        BY <1>1, <1>2
    <2>3. crc32(s) # crc32(t)
        BY <1>1, <1>2, <2>1, <2>2, ExchangeChangesCrc
    <2>4. \A i \in n + 1 .. n + 4 : a[i] = b[i]
        BY <1>1, <1>3
    <2>5. read_u32(a, n) = read_u32(b, n)
        BY <1>1, <2>4, SameStored
    <2> QED BY <1>1, <1>2, <2>3, <2>5
<1>4. CASE m > n
    <2>1. \A i \in 1 .. Len(a) - 4 : a[i] = b[i]
        BY <1>1, <1>4
    <2> QED BY <2>1, SameCoveredSame
<1>5. CASE m = n
    <2>1. /\ n \in 1 .. Len(s) /\ s[n] # t[n] /\ s[n] \in Octet /\ t[n] \in Octet
          /\ n = Len(s) /\ Len(s) = Len(t)
        BY <1>1, <1>2, <1>5
    <2>2. \A j \in 1 .. Len(s) : j # n => s[j] = t[j]
        BY <1>1, <1>2, <1>5
    <2>3. PICK r \in Word : Register(s) = CrcByte(r, s[n]) /\ Register(t) = CrcByte(r, t[n])
        BY <1>1, <1>2, <2>1, <2>2, OneByteDiffers
    <2>4. PICK k \in 0 .. 23 : k \in SymDiff(Register(s), Register(t))
        BY <2>1, <2>3, ExchangeDiffers
    <2> DEFINE x == (0 .. 31) \ Register(s)
               y == (0 .. 31) \ Register(t)
    <2>5. read_u32(a, n) = Halves(x) /\ read_u32(b, n) = Halves(y)
        BY <1>1, <1>2, CrcTellsRegister
    <2> HIDE DEF x, y, n
    <2>6. ByteAt(x, 16) = a[n + 2] /\ ByteAt(x, 8) = a[n + 3] /\ ByteAt(x, 0) = a[n + 4]
        <3>1. n \in Nat /\ Len(a) = n + 4 /\ read_u32(a, n) = Halves(x)
            BY <1>1, <2>5
        <3> QED BY <3>1, StoredBytes
    <2>7. ByteAt(y, 16) = b[n + 2] /\ ByteAt(y, 8) = b[n + 3] /\ ByteAt(y, 0) = b[n + 4]
        <3>1. n \in Nat /\ Len(b) = n + 4 /\ read_u32(b, n) = Halves(y)
            BY <1>1, <2>5
        <3> QED BY <3>1, StoredBytes
    <2>8. a[n + 2] = b[n + 2] /\ a[n + 3] = b[n + 3] /\ a[n + 4] = b[n + 4]
        <3>1. \A i \in {n + 2, n + 3, n + 4} : i \in 1 .. Len(a) /\ i # m /\ i # m + 1
            BY <1>1, <1>5
        <3> QED BY <3>1
    <2>9. ByteAt(x, 16) = ByteAt(y, 16) /\ ByteAt(x, 8) = ByteAt(y, 8) /\ ByteAt(x, 0) = ByteAt(y, 0)
        BY <2>6, <2>7, <2>8
    <2>10. k \in 16 .. 23 \/ k \in 8 .. 15 \/ k \in 0 .. 7
        OBVIOUS
    <2>11. k \in x <=> k \in y
        BY <2>9, <2>10, SameByteSameOnes
    <2> QED BY <2>4, <2>11 DEF x, y, SymDiff
<1> QED BY <1>1, <1>3, <1>4, <1>5

\* The length field fixes the size.
LEMMA OtherSizeIsDetected ==
    ASSUME NEW a \in Seq(Octet), NEW b \in Seq(Octet), Acceptable(a), Len(a) # Len(b),
           Len(b) >= 18 => a[15] = b[15] /\ a[16] = b[16]
    PROVE  ~Acceptable(b)
<1> SUFFICES ASSUME Acceptable(b) PROVE FALSE
    OBVIOUS
<1>1. /\ Len(a) = 18 + read_u16(a, 14) + 4
      /\ Len(b) = 18 + read_u16(b, 14) + 4 /\ Len(b) >= 18
    BY DEF Acceptable
<1>2. read_u16(a, 14) = read_u16(b, 14)
    <2>1. 14 + 1 = 15 /\ 14 + 2 = 16
        OBVIOUS
    <2> QED BY <1>1, <2>1 DEF read_u16
<1> QED BY <1>1, <1>2

\* Inverting bits of one byte changes that byte and no other.
LEMMA InvertedBytes ==
    ASSUME NEW v \in Seq(Octet), NEW i \in 1 .. Len(v), NEW mask \in Octet \ {0}
    PROVE  LET u == Inverted(v, i, mask)
           IN /\ u \in Seq(Octet) /\ Len(u) = Len(v) /\ u[i] # v[i]
              /\ \A j \in 1 .. Len(v) : j # i => u[j] = v[j]
<1> DEFINE x == v[i]
           c == SymDiff(OnesOf(x), OnesOf(mask))
           y == ByteAt(c, 0)
<1>1. x \in Octet /\ mask \in Octet /\ mask # 0
    OBVIOUS
<1>2. OnesOf(x) \subseteq 0 .. 7 /\ ByteAt(OnesOf(x), 0) = x
    BY <1>1, OnesOfByte
<1>3. PICK k \in 0 .. 7 : k \in OnesOf(mask)
    <2>1. OnesOf(mask) \subseteq 0 .. 7 /\ ByteAt(OnesOf(mask), 0) = mask
        BY <1>1, OnesOfByte
    <2>2. ByteAt({}, 0) = 0
        BY DEF ByteAt
    <2>3. OnesOf(mask) # {}
        BY <1>1, <2>1, <2>2
    <2> QED BY <2>1, <2>3
<1>4. ~(k \in c <=> k \in OnesOf(x))
    BY <1>3 DEF SymDiff
<1> HIDE DEF c, x
<1>5. y \in Octet
    BY ByteAtValue
<1>6. y # x
    <2> SUFFICES ASSUME ByteAt(c, 0) = ByteAt(OnesOf(x), 0) PROVE FALSE
        BY <1>2
    <2>1. \A j \in 0 .. 7 : j \in c <=> j \in OnesOf(x)
        BY SameByteSameOnes
    <2> QED BY <1>4, <2>1, Zenon
<1>7. Inverted(v, i, mask) = [v EXCEPT ![i] = y]
    BY DEF Inverted, x, c
<1> HIDE DEF y
<1> QED BY <1>5, <1>6, <1>7 DEF x

(***************************************************************************)
(* The line.                                                               *)
(***************************************************************************)
Detectable == {"inverted", "swapped", "truncated", "extended", "joined"}

\* What encode() was given, what of it is on the line and what decode() made of
\* it.  An undamaged vector is the one laid out, and a damaged one is refused
\* already before it is decoded.
LineInv ==
    /\ line \in {"idle", "sent", "decoded"}
    /\ bytes \in Seq(Octet)
    /\ line = "idle" => damage = "none"
    /\ line # "idle" => frame \in Sent /\ EncodeError(frame) = "none"
    /\ line # "idle" /\ damage = "none" => bytes = LayOut(frame)
    /\ damage \in Detectable => DecodeErrorOf(bytes) # "none"
    /\ line # "decoded" => decoded = [error |-> "none", frame |-> NoFrame]
    /\ line = "decoded" =>
          decoded = [error |-> DecodeErrorOf(bytes),
                     frame |-> IF DecodeErrorOf(bytes) = "none" THEN FrameOf(bytes) ELSE NoFrame]

\* The line of an undamaged vector: one encode() laid out, and acceptable.
LEMMA Undamaged ==
    ASSUME LineInv, line = "sent", damage = "none"
    PROVE  /\ frame \in ByteFrame /\ EncodeError(frame) = "none" /\ bytes = LayOut(frame)
           /\ bytes \in Seq(Octet) /\ Acceptable(bytes)
<1>1. /\ frame \in ByteFrame /\ EncodeError(frame) = "none" /\ bytes = LayOut(frame)
      /\ bytes \in Seq(Octet)
    BY CodecConstants DEF LineInv
<1>2. DecodeErrorOf(bytes) = "none"
    BY <1>1, LaidOut
<1> QED BY <1>1, <1>2, DecodeAccepts

\* Damage keeps the invariant if what it makes is a byte vector and, when it is of a
\* detectable kind, one that decode() does not accept.
LEMMA DamageKeepsLineInv ==
    ASSUME LineInv, NEW u \in Seq(Octet), NEW kind, kind # "none", Damage(u, kind),
           kind \in Detectable => ~Acceptable(u)
    PROVE  LineInv'
<1>1. /\ line = "sent" /\ line' = line /\ frame' = frame /\ decoded' = decoded
      /\ bytes' = u /\ damage' = kind
    BY DEF Damage
<1>2. kind \in Detectable => DecodeErrorOf(u) # "none"
    BY DecodeAccepts
<1> QED BY <1>1, <1>2 DEF LineInv

\* The line is as LineInv says in every state.
LEMMA LineInvHolds == LineSpec => []LineInv
<1>1. LineInit => LineInv
    BY DEF LineInit, LineInv, Detectable
<1>2. LineInv /\ [LineNext]_lineVars => LineInv'
    <2> SUFFICES ASSUME LineInv, [LineNext]_lineVars PROVE LineInv'
        OBVIOUS
    <2>1. CASE Encode
        <3>1. PICK f \in Sent : /\ line = "idle" /\ EncodeError(f) = "none" /\ line' = "sent"
                                /\ frame' = f /\ bytes' = LayOut(f) /\ damage' = damage
                                /\ decoded' = decoded
            BY <2>1 DEF Encode
        <3>2. LayOut(f) \in Seq(Octet)
            BY <3>1, CodecConstants, LaidOut
        <3> QED BY <3>1, <3>2 DEF LineInv, Detectable
    <2>2. CASE FlipByte
        <3>1. PICK i \in Struck, mask \in Masks : Damage(Inverted(bytes, i, mask), "inverted")
            BY <2>2 DEF FlipByte
        <3>2. i \in 1 .. Len(bytes) /\ mask \in Octet \ {0}
            BY CodecConstants DEF Struck, LineInv
        <3>3. bytes \in Seq(Octet) /\ Acceptable(bytes)
            BY <3>1, Undamaged DEF Damage
        <3> DEFINE u == Inverted(bytes, i, mask)
        <3>4. /\ u \in Seq(Octet) /\ Len(u) = Len(bytes) /\ u[i] # bytes[i]
              /\ \A j \in 1 .. Len(bytes) : j # i => u[j] = bytes[j]
            BY <3>2, <3>3, InvertedBytes
        <3>5. Damage(u, "inverted")
            BY <3>1
        <3> HIDE DEF u
        <3>6. ~Acceptable(u)
            BY <3>2, <3>3, <3>4, OneByteIsDetected
        <3> QED BY <3>4, <3>5, <3>6, DamageKeepsLineInv
    <2>3. CASE FlipTwoBits
        <3>1. PICK i \in Struck, j \in Struck, one \in {1, 128},
                 other \in {1, 2, 4, 8, 16, 32, 64, 128} :
                 Damage(Inverted(Inverted(bytes, i, one), j, other), "two_bits")
            BY <2>3 DEF FlipTwoBits
        <3>2. /\ i \in 1 .. Len(bytes) /\ j \in 1 .. Len(bytes)
              /\ one \in Octet \ {0} /\ other \in Octet \ {0} /\ bytes \in Seq(Octet)
            BY DEF Struck, LineInv, Octet
        <3> DEFINE t == Inverted(bytes, i, one)
                   u == Inverted(t, j, other)
        <3>3. t \in Seq(Octet) /\ Len(t) = Len(bytes)
            BY <3>2, InvertedBytes
        <3>4. u \in Seq(Octet)
            <4> HIDE DEF t
            <4> QED BY <3>2, <3>3, InvertedBytes
        <3>5. Damage(u, "two_bits")
            BY <3>1
        <3>6. "two_bits" \notin Detectable
            BY DEF Detectable
        <3> QED BY <3>4, <3>5, <3>6, DamageKeepsLineInv
    <2>4. CASE SwapBytes
        <3> DEFINE U(i) == [bytes EXCEPT ![i - 1] = bytes[i], ![i] = bytes[i - 1]]
        <3>1. PICK i \in Struck \ {1} : bytes[i - 1] # bytes[i] /\ Damage(U(i), "swapped")
            BY <2>4 DEF SwapBytes
        <3>2. bytes \in Seq(Octet) /\ Acceptable(bytes)
            BY <3>1, Undamaged DEF Damage
        <3> DEFINE m == i - 1
                   u == U(i)
        <3>3. m \in 1 .. Len(bytes) /\ m + 1 <= Len(bytes) /\ m + 1 = i /\ i \in 1 .. Len(bytes)
            BY <3>2 DEF Struck
        <3>4. /\ u \in Seq(Octet) /\ Len(bytes) = Len(u)
              /\ bytes[m] # bytes[m + 1] /\ u[m] = bytes[m + 1] /\ u[m + 1] = bytes[m]
              /\ \A j \in 1 .. Len(bytes) : j # m /\ j # m + 1 => bytes[j] = u[j]
            BY <3>1, <3>2, <3>3
        <3>5. Damage(u, "swapped")
            BY <3>1
        <3> HIDE DEF u, m
        <3>6. ~Acceptable(u)
            BY <3>2, <3>3, <3>4, ExchangeIsDetected
        <3> QED BY <3>4, <3>5, <3>6, DamageKeepsLineInv
    <2>5. CASE Truncate
        <3>1. PICK i \in Struck : Damage(SubSeq(bytes, 1, i - 1), "truncated")
            BY <2>5 DEF Truncate
        <3>2. bytes \in Seq(Octet) /\ Acceptable(bytes)
            BY <3>1, Undamaged DEF Damage
        <3> DEFINE u == SubSeq(bytes, 1, i - 1)
        <3>3. i - 1 \in 0 .. Len(bytes) /\ i - 1 # Len(bytes)
            BY <3>2 DEF Struck
        <3>4. /\ u \in Seq(Octet) /\ Len(u) = i - 1 /\ \A j \in 1 .. i - 1 : u[j] = bytes[j]
            BY <3>2, <3>3, Prefix
        <3>5. Damage(u, "truncated")
            BY <3>1
        <3> HIDE DEF u
        <3>6. Len(u) >= 18 => bytes[15] = u[15] /\ bytes[16] = u[16]
            BY <3>3, <3>4
        <3>7. ~Acceptable(u)
            BY <3>2, <3>3, <3>4, <3>6, OtherSizeIsDetected
        <3> QED BY <3>4, <3>5, <3>7, DamageKeepsLineInv
    <2>6. CASE Extend
        <3>1. PICK byte \in {0, 255} : Damage(Append(bytes, byte), "extended")
            BY <2>6 DEF Extend
        <3>2. bytes \in Seq(Octet) /\ Acceptable(bytes)
            BY <3>1, Undamaged DEF Damage
        <3> DEFINE u == Append(bytes, byte)
        <3>3. byte \in Octet
            BY DEF Octet
        <3>4. /\ u \in Seq(Octet) /\ Len(u) = Len(bytes) + 1
              /\ \A j \in 1 .. Len(bytes) : u[j] = bytes[j]
            BY <3>2, <3>3, AppendProperties
        <3>5. Damage(u, "extended")
            BY <3>1
        <3> HIDE DEF u
        <3>6. Len(bytes) \in Nat /\ Len(bytes) >= 18
            BY <3>2 DEF Acceptable
        <3>7. Len(bytes) # Len(u) /\ bytes[15] = u[15] /\ bytes[16] = u[16]
            BY <3>4, <3>6
        <3>8. ~Acceptable(u)
            BY <3>2, <3>4, <3>7, OtherSizeIsDetected
        <3> QED BY <3>4, <3>5, <3>8, DamageKeepsLineInv
    <2>7. CASE Join
        <3>1. Damage(bytes \o bytes, "joined")
            BY <2>7 DEF Join
        <3>2. bytes \in Seq(Octet) /\ Acceptable(bytes)
            BY <3>1, Undamaged DEF Damage
        <3> DEFINE u == bytes \o bytes
        <3>3. /\ u \in Seq(Octet) /\ Len(u) = Len(bytes) + Len(bytes)
              /\ \A j \in 1 .. Len(bytes) + Len(bytes) :
                    u[j] = IF j <= Len(bytes) THEN bytes[j] ELSE bytes[j - Len(bytes)]
            BY <3>2, Joined, Zenon
        <3>4. Damage(u, "joined")
            BY <3>1
        <3> HIDE DEF u
        <3>5. Len(bytes) \in Nat /\ Len(bytes) >= 18
            BY <3>2 DEF Acceptable
        <3>6. Len(bytes) # Len(u) /\ bytes[15] = u[15] /\ bytes[16] = u[16]
            BY <3>3, <3>5
        <3>7. ~Acceptable(u)
            BY <3>2, <3>3, <3>6, OtherSizeIsDetected
        <3> QED BY <3>3, <3>4, <3>7, DamageKeepsLineInv
    <2>8. CASE PeerRewrites
        <3> DEFINE n == Len(bytes) - checksum_size
                   s == SubSeq(bytes, 1, n)
        <3>1. PICK i \in 1 .. header_size, mask \in Masks :
                 line = "sent" /\ Damage(Sealed(Inverted(s, i, mask)), "rewritten")
            BY <2>8 DEF PeerRewrites
        <3>2. bytes \in Seq(Octet) /\ Acceptable(bytes)
            BY <3>1, Undamaged DEF Damage
        <3>3. s \in Seq(Octet) /\ i \in 1 .. Len(s) /\ mask \in Octet \ {0}
            <4>1. SubSeq(bytes, 1, Len(bytes) - 4) = s
                BY DEF checksum_size
            <4>2. s \in Seq(Octet) /\ Len(s) = Len(bytes) - 4 /\ Len(bytes) - 4 >= 18
                BY <3>2, <4>1, Covered
            <4>3. Len(bytes) - 4 \in Nat
                BY <3>2, Covered
            <4>4. i \in 1 .. 18
                BY DEF header_size
            <4>5. i \in 1 .. Len(s)
                <5> HIDE DEF s
                <5> QED BY <4>2, <4>3, <4>4
            <4> QED BY <4>2, <4>5, CodecConstants
        <3> DEFINE t == Inverted(s, i, mask)
                   u == Sealed(t)
        <3> HIDE DEF s
        <3>4. t \in Seq(Octet)
            BY <3>3, InvertedBytes
        <3>5. Damage(u, "rewritten")
            BY <3>1
        <3> HIDE DEF t
        <3>6. u \in Seq(Octet)
            BY <3>4, SealedBytes
        <3>7. "rewritten" \notin Detectable
            BY DEF Detectable
        <3> HIDE DEF u
        <3> QED BY <3>5, <3>6, <3>7, DamageKeepsLineInv
    <2>9. CASE Decode
        BY <2>9 DEF Decode, LineInv
    <2>10. CASE UNCHANGED lineVars
        BY <2>10 DEF LineInv, lineVars
    <2> QED BY <2>1, <2>2, <2>3, <2>4, <2>5, <2>6, <2>7, <2>8, <2>9, <2>10 DEF LineNext
<1> QED BY <1>1, <1>2, PTL DEF LineSpec

\* What encode() sends, decode() accepts and finds the frame that was sent, for every
\* frame encode() accepts, with any fields and any payload.
THEOREM DecodedAsSentHolds == LineSpec => []DecodedAsSent
<1>1. LineInv => DecodedAsSent
    <2> SUFFICES ASSUME LineInv, line = "decoded", damage = "none"
                 PROVE  decoded = [error |-> "none", frame |-> frame]
        BY DEF DecodedAsSent
    <2>1. frame \in ByteFrame /\ EncodeError(frame) = "none" /\ bytes = LayOut(frame)
        BY CodecConstants DEF LineInv
    <2>2. DecodeErrorOf(bytes) = "none" /\ FrameOf(bytes) = frame
        BY <2>1, LaidOut
    <2> QED BY <2>2 DEF LineInv
<1> QED BY <1>1, LineInvHolds, PTL

\* No frame is decoded from a vector with one byte altered, two adjacent bytes
\* exchanged, cut short, with a byte appended or sent twice: the CRC-32 and the
\* size check of decode() catch it, wherever it strikes and whatever the frame.
THEOREM DamageIsDetectedHolds == LineSpec => []DamageIsDetected
<1>1. LineInv => DamageIsDetected
    BY DEF LineInv, DamageIsDetected, Detectable
<1> QED BY <1>1, LineInvHolds, PTL

\* Whatever arrives, if decode() accepts it then encode() gives exactly the bytes
\* that arrived for the decoded frame.
THEOREM AcceptedBytesAreCanonicalHolds == LineSpec => []AcceptedBytesAreCanonical
<1>1. LineInv => AcceptedBytesAreCanonical
    <2> SUFFICES ASSUME LineInv, decoded.frame # NoFrame
                 PROVE  EncodeError(decoded.frame) = "none" /\ LayOut(decoded.frame) = bytes
        BY DEF AcceptedBytesAreCanonical
    <2>1. line = "decoded" /\ bytes \in Seq(Octet)
        BY DEF LineInv
    <2>2. DecodeErrorOf(bytes) = "none" /\ decoded.frame = FrameOf(bytes)
        BY <2>1 DEF LineInv
    <2>3. Acceptable(bytes)
        BY <2>1, <2>2, DecodeAccepts
    <2> QED BY <2>1, <2>2, <2>3, AcceptableIsLaidOut
<1> QED BY <1>1, LineInvHolds, PTL

\* The first bytes of a vector that encode() laid out.
Begins(v) ==
    /\ v[1] = 73 /\ v[2] = 77 /\ v[3] = 1 /\ Named(OpcodeValue, v[4]) \in Opcode
    /\ v[5] \div 2 = 0 /\ v[6] = 0

\* The fields of a vector that encode() laid out.
LEMMA HeaderOfLaidOut ==
    ASSUME NEW f \in ByteFrame, EncodeError(f) = "none"
    PROVE  LET v == LayOut(f)
           IN /\ v \in Seq(Octet) /\ Acceptable(v) /\ Begins(v)
              /\ read_u16(v, 14) \in Nat /\ read_u16(v, 14) <= maximum_payload_size
              /\ Len(v) = 22 + read_u16(v, 14)
<1> DEFINE v == LayOut(f)
<1>1. v \in Seq(Octet) /\ DecodeErrorOf(v) = "none"
    BY LaidOut
<1> HIDE DEF v
<1>2. Acceptable(v)
    BY <1>1, DecodeAccepts
<1>3. /\ Begins(v) /\ read_u16(v, 14) <= maximum_payload_size
      /\ Len(v) = 18 + read_u16(v, 14) + 4 /\ Len(v) >= 18
    BY <1>2 DEF Acceptable, Begins
<1>4. read_u16(v, 14) \in Nat
    <2>1. 14 \in Nat /\ 14 + 2 <= Len(v)
        BY <1>1, <1>3
    <2>2. read_u16(v, 14) \in Half
        BY <1>1, <2>1, ReadHalf
    <2> QED BY <2>2 DEF Half
<1>5. Len(v) = 22 + read_u16(v, 14)
    BY <1>3, <1>4
<1> QED BY <1>1, <1>2, <1>3, <1>4, <1>5 DEF v

\* The fields of a header in which decode() finds nothing wrong.
Sound(w) ==
    /\ w.magic = TRUE /\ w.version = 1 /\ w.opcode \in Opcode /\ w.flags \div 2 = 0
    /\ w.reserved = 0 /\ w.payload_size \in Nat /\ w.payload_size <= maximum_payload_size
    /\ w.size \in Nat /\ w.size >= 18

\* A vector that begins with the same fields as one encode() laid out has such a header.
LEMMA HeaderIsSound ==
    ASSUME NEW v \in Seq(Octet), NEW u \in Seq(Octet), Len(v) >= 18, Len(u) >= 18,
           Begins(v), read_u16(v, 14) \in Nat, read_u16(v, 14) <= maximum_payload_size,
           \A i \in 1 .. 18 : u[i] = v[i]
    PROVE  LET w == WireOf(u)
           IN /\ Sound(w) /\ w.size = Len(u) /\ w.payload_size = read_u16(v, 14)
              /\ w.checksum = (/\ Len(u) = 18 + read_u16(v, 14) + 4
                               /\ read_u32(u, Len(u) - 4) = crc32(SubSeq(u, 1, Len(u) - 4)))
<1> DEFINE w == WireOf(u)
<1>1. /\ u[1] = v[1] /\ u[2] = v[2] /\ u[3] = v[3] /\ u[4] = v[4] /\ u[5] = v[5] /\ u[6] = v[6]
      /\ u[15] = v[15] /\ u[16] = v[16]
    OBVIOUS
<1>2. read_u16(u, 14) = read_u16(v, 14)
    <2>1. 14 + 1 = 15 /\ 14 + 2 = 16
        OBVIOUS
    <2> QED BY <1>1, <2>1 DEF read_u16
<1>3. /\ w.size = Len(u) /\ w.magic = (u[1] = 73 /\ u[2] = 77) /\ w.version = u[3]
      /\ w.opcode = Named(OpcodeValue, u[4]) /\ w.flags = u[5] /\ w.reserved = u[6]
      /\ w.payload_size = read_u16(u, 14)
      /\ w.checksum = (/\ Len(u) = 18 + read_u16(u, 14) + 4
                       /\ read_u32(u, Len(u) - 4) = crc32(SubSeq(u, 1, Len(u) - 4)))
    BY WireFieldsOf
<1> HIDE DEF w
<1>4. w.magic = TRUE
    <2>1. (u[1] = 73 /\ u[2] = 77) = TRUE
        BY <1>1 DEF Begins
    <2> QED BY <1>3, <2>1, Zenon
<1>5. /\ w.version = v[3] /\ w.opcode = Named(OpcodeValue, v[4]) /\ w.flags = v[5]
      /\ w.reserved = v[6]
    BY <1>1, <1>3, Zenon
<1>6. w.version = 1 /\ w.opcode \in Opcode /\ w.flags \div 2 = 0 /\ w.reserved = 0
    BY <1>5 DEF Begins
<1>7. w.payload_size \in Nat /\ w.payload_size <= maximum_payload_size
    <2>1. w.payload_size = read_u16(v, 14)
        BY <1>2, <1>3, Zenon
    <2> QED BY <2>1
<1>8. w.size \in Nat /\ w.size >= 18
    BY <1>3
<1>9. Sound(w)
    BY <1>4, <1>6, <1>7, <1>8, Zenon DEF Sound
<1>10. w.checksum = (/\ Len(u) = 18 + read_u16(v, 14) + 4
                     /\ read_u32(u, Len(u) - 4) = crc32(SubSeq(u, 1, Len(u) - 4)))
    BY <1>2, <1>3, Zenon
<1> QED BY <1>2, <1>3, <1>9, <1>10 DEF w

\* What decode() says of a vector with a sound header.
LEMMA SoundHeader ==
    ASSUME NEW w, Sound(w)
    PROVE  /\ w.size < 22 + w.payload_size => DecodeError(w) = "truncated"
           /\ w.size = 22 + w.payload_size /\ w.checksum = FALSE
                => DecodeError(w) = "checksum_mismatch"
<1> USE DEF Sound
<1>1. /\ ~(w.size < header_size) /\ w.magic /\ ~(w.version # protocol_version)
      /\ is_supported_opcode(w.opcode) /\ ~HasUnknownFlags(w.flags) /\ ~(w.reserved # 0)
      /\ ~(w.payload_size > maximum_payload_size)
    BY FrameConstants DEF header_size, protocol_version, is_supported_opcode, HasUnknownFlags
<1>2. ExpectedSize(w) = 22 + w.payload_size
    BY DEF ExpectedSize, header_size, checksum_size
<1>3. ASSUME w.size < 22 + w.payload_size PROVE DecodeError(w) = "truncated"
    BY <1>1, <1>2, <1>3, Zenon DEF DecodeError
<1>4. ASSUME w.size = 22 + w.payload_size, w.checksum = FALSE
      PROVE  DecodeError(w) = "checksum_mismatch"
    <2>1. ~(w.size < ExpectedSize(w)) /\ ~(w.size # ExpectedSize(w)) /\ ~w.checksum
        BY <1>2, <1>4
    <2> QED BY <1>1, <2>1, Zenon DEF DecodeError
<1> QED BY <1>3, <1>4

\* Dropping the last byte gives the same error on bytes and on fields.
LEMMA DroppedByteStands ==
    ASSUME NEW f \in ByteFrame, EncodeError(f) = "none"
    PROVE  DecodeErrorOf(Front(LayOut(f))) = DecodeError(DropLastByte(EncodedBytes(f)))
<1> DEFINE v == LayOut(f)
           e == EncodedBytes(f)
           l == read_u16(v, 14)
           n == Len(v) - 1
           u == SubSeq(v, 1, n)
           w == WireOf(u)
           x == DropLastByte(e)
<1>1. /\ v \in Seq(Octet) /\ Begins(v)
      /\ l \in Nat /\ l <= maximum_payload_size /\ Len(v) = 22 + l
    BY HeaderOfLaidOut
<1>2. WireOf(v) = e
    BY LaidOut
<1>3. /\ x.magic = e.magic /\ x.version = e.version /\ x.opcode = e.opcode
      /\ x.flags = e.flags /\ x.reserved = e.reserved /\ x.payload_size = e.payload_size
      /\ x.size = e.size - 1
    BY DEF DropLastByte, EncodedBytes
<1> HIDE DEF v, x, e
<1>4. n \in 0 .. Len(v) /\ n >= 18 /\ n = 21 + l /\ Len(v) >= 18 /\ Len(v) \in Nat
    <2> HIDE DEF l
    <2> QED BY <1>1
<1>5. Sound(e) /\ e.size = Len(v) /\ e.payload_size = l
    BY <1>1, <1>2, <1>4, HeaderIsSound
<1>6. DecodeError(x) = "truncated"
    <2> HIDE DEF l
    <2>1. x.size \in Nat /\ x.size >= 18 /\ x.size < 22 + x.payload_size
        BY <1>1, <1>3, <1>5
    <2>2. Sound(x)
        BY <1>3, <1>5, <2>1, Zenon DEF Sound
    <2> QED BY <2>1, <2>2, SoundHeader
<1>7. u \in Seq(Octet) /\ Len(u) = n /\ \A i \in 1 .. n : u[i] = v[i]
    BY <1>1, <1>4, Prefix
<1>8. Front(v) = u
    BY DEF Front
<1> HIDE DEF u
<1>9. Sound(w) /\ w.size = n /\ w.payload_size = l
    <2>1. Len(u) >= 18 /\ \A i \in 1 .. 18 : u[i] = v[i]
        <3>1. \A i \in 1 .. 18 : i \in 1 .. n
            BY <1>1, <1>4
        <3> QED BY <1>4, <1>7, <3>1
    <2> QED BY <1>1, <1>4, <1>7, <2>1, HeaderIsSound
<1>10. DecodeError(w) = "truncated"
    <2> HIDE DEF l, w
    <2>1. w.size < 22 + w.payload_size
        BY <1>1, <1>4, <1>9
    <2> QED BY <1>9, <2>1, SoundHeader
<1> QED BY <1>6, <1>8, <1>10 DEF DecodeErrorOf, v, w, x, e

\* So does inverting the lowest bit of the last byte.
LEMMA FlippedBitStands ==
    ASSUME NEW f \in ByteFrame, EncodeError(f) = "none"
    PROVE  DecodeErrorOf(Inverted(LayOut(f), Len(LayOut(f)), 1)) =
               DecodeError(FlipChecksumBit(EncodedBytes(f)))
<1> DEFINE v == LayOut(f)
           e == EncodedBytes(f)
           l == read_u16(v, 14)
           u == Inverted(v, Len(v), 1)
           w == WireOf(u)
           x == FlipChecksumBit(e)
           n == Len(v) - 4
<1>1. /\ v \in Seq(Octet) /\ Begins(v)
      /\ l \in Nat /\ l <= maximum_payload_size /\ Len(v) = 22 + l /\ Acceptable(v)
    BY HeaderOfLaidOut
<1>2. WireOf(v) = e
    BY LaidOut
<1>3. /\ x.magic = e.magic /\ x.version = e.version /\ x.opcode = e.opcode
      /\ x.flags = e.flags /\ x.reserved = e.reserved /\ x.payload_size = e.payload_size
      /\ x.size = e.size /\ x.checksum = FALSE
    BY DEF FlipChecksumBit, EncodedBytes
<1> HIDE DEF v, x, e
<1>4. n \in Nat /\ Len(v) = n + 4 /\ n = 18 + l /\ Len(v) >= 18
    <2> HIDE DEF l
    <2> QED BY <1>1
<1>5. Sound(e) /\ e.size = Len(v) /\ e.payload_size = l
    BY <1>1, <1>2, <1>4, HeaderIsSound
<1>6. DecodeError(x) = "checksum_mismatch"
    <2> HIDE DEF l
    <2>1. x.size = 22 + x.payload_size
        BY <1>1, <1>3, <1>5
    <2>2. Sound(x)
        BY <1>3, <1>5, Zenon DEF Sound
    <2> QED BY <1>3, <2>1, <2>2, SoundHeader
<1>7. /\ u \in Seq(Octet) /\ Len(u) = Len(v) /\ u[Len(v)] # v[Len(v)]
      /\ \A j \in 1 .. Len(v) : j # Len(v) => u[j] = v[j]
    <2>1. Len(v) \in 1 .. Len(v)
        BY <1>4
    <2>2. 1 \in Octet \ {0}
        BY DEF Octet
    <2>3. v \in Seq(Octet)
        BY <1>1
    <2> QED BY <2>1, <2>2, <2>3, InvertedBytes
<1> HIDE DEF u
<1>8. /\ Sound(w) /\ w.size = Len(v) /\ w.payload_size = l
      /\ w.checksum = (Len(v) = 18 + l + 4 /\ read_u32(u, n) = crc32(SubSeq(u, 1, n)))
    <2>1. Len(u) >= 18 /\ Len(u) = Len(v) /\ \A i \in 1 .. 18 : u[i] = v[i]
        <3>1. \A i \in 1 .. 18 : i \in 1 .. Len(v) /\ i # Len(v)
            BY <1>1, <1>4
        <3> QED BY <1>4, <1>7, <3>1
    <2>2. v \in Seq(Octet) /\ u \in Seq(Octet)
        BY <1>1, <1>7
    <2> QED BY <1>1, <1>4, <2>1, <2>2, HeaderIsSound
<1>9. read_u32(u, n) # crc32(SubSeq(u, 1, n))
    <2> SUFFICES ASSUME read_u32(u, n) = crc32(SubSeq(u, 1, n)) PROVE FALSE
        OBVIOUS
    <2> DEFINE s == SubSeq(u, 1, n)
               t == SubSeq(v, 1, n)
    <2>1. v \in Seq(Octet) /\ Len(u) = n + 4 /\ n \in 0 .. Len(u) /\ n \in 0 .. Len(v)
        BY <1>1, <1>4, <1>7
    <2>2. v = Sealed(t)
        BY <1>1, Covered
    <2>3. u = Sealed(s)
        BY <1>4, <1>7, <2>1, SealedAgain
    <2>4. s \in Seq(Octet) /\ Len(s) = n /\ \A i \in 1 .. n : s[i] = u[i]
        BY <1>7, <2>1, Prefix
    <2>5. t \in Seq(Octet) /\ Len(t) = n /\ \A i \in 1 .. n : t[i] = v[i]
        BY <2>1, Prefix
    <2> HIDE DEF s, t
    <2>6. \A i \in 1 .. n : u[i] = v[i]
        <3>1. \A i \in 1 .. n : i \in 1 .. n + 4 /\ i # n + 4
            <4> HIDE DEF n
            <4> QED BY <1>4
        <3> QED BY <1>4, <1>7, <3>1
    <2>7. \A i \in 1 .. n : s[i] = t[i]
        BY <2>4, <2>5, <2>6
    <2>8. s = t
        BY <2>4, <2>5, <2>7, SeqEqual
    <2> QED BY <1>7, <2>2, <2>3, <2>8
<1>10. DecodeError(w) = "checksum_mismatch"
    <2>1. w.checksum = FALSE
        BY <1>8, <1>9
    <2> HIDE DEF l, w
    <2>2. w.size = 22 + w.payload_size
        BY <1>1, <1>8
    <2> QED BY <1>8, <2>1, <2>2, SoundHeader
<1> QED BY <1>6, <1>10 DEF DecodeErrorOf, v, u, w, x, e

\* The field records the other modules exchange stand for the bytes of encode(), and
\* the two faults that touch the bytes of a response get the same error on both.
THEOREM FieldsStandForBytesHolds == LineSpec => []FieldsStandForBytes
<1>1. LineInv => FieldsStandForBytes
    <2> SUFFICES ASSUME LineInv, line = "sent", damage = "none"
                 PROVE  LET fields == EncodedBytes(frame)
                        IN /\ WireOf(bytes) = fields
                           /\ DecodeErrorOf(Front(bytes)) = DecodeError(DropLastByte(fields))
                           /\ DecodeErrorOf(Inverted(bytes, Len(bytes), 1)) =
                                  DecodeError(FlipChecksumBit(fields))
        BY DEF FieldsStandForBytes
    <2>1. frame \in ByteFrame /\ EncodeError(frame) = "none" /\ bytes = LayOut(frame)
        BY Undamaged
    <2> QED BY <2>1, LaidOut, DroppedByteStands, FlippedBitStands
<1> QED BY <1>1, LineInvHolds, PTL

(***************************************************************************)
(* Hexadecimal text.                                                       *)
(***************************************************************************)
\* The sixteen digits, small and capital.
LEMMA Digits ==
    ASSUME NEW d \in 0 .. 15
    PROVE  /\ hex_nibble(digits[1 + d]) = d
           /\ hex_nibble(Upper(digits[1 + d])) = d
<1>1. /\ DOMAIN digits = 1 .. 16 /\ DOMAIN UpperDigits = 1 .. 6
    BY DEF digits, UpperDigits
<1>2. \A i, j \in 1 .. 16 : digits[i] = digits[j] => i = j
    BY DEF digits
<1>3. \A i, j \in 1 .. 6 : UpperDigits[i] = UpperDigits[j] => i = j
    BY DEF UpperDigits
<1>4. \A i \in 1 .. 6, j \in 1 .. 16 : UpperDigits[i] # digits[j]
    BY DEF digits, UpperDigits
<1>5. \A i \in 1 .. 16 : hex_nibble(digits[i]) = i - 1
    <2> TAKE i \in 1 .. 16
    <2> DEFINE c == CHOOSE j \in DOMAIN digits : digits[j] = digits[i]
    <2>1. c \in 1 .. 16 /\ digits[c] = digits[i]
        BY <1>1
    <2>2. c = i
        BY <1>2, <2>1
    <2>3. hex_nibble(digits[i]) = c - 1
        BY <1>1 DEF hex_nibble
    <2> QED BY <2>2, <2>3
<1>6. \A i \in 1 .. 6 : hex_nibble(UpperDigits[i]) = i + 9
    <2> TAKE i \in 1 .. 6
    <2> DEFINE c == CHOOSE j \in DOMAIN UpperDigits : UpperDigits[j] = UpperDigits[i]
    <2>1. c \in 1 .. 6 /\ UpperDigits[c] = UpperDigits[i]
        BY <1>1
    <2>2. c = i
        BY <1>3, <2>1
    <2>3. ~ \E j \in DOMAIN digits : digits[j] = UpperDigits[i]
        BY <1>1, <1>4
    <2>4. hex_nibble(UpperDigits[i]) = c + 9
        BY <1>1, <2>3 DEF hex_nibble
    <2> QED BY <2>2, <2>4
<1>7. hex_nibble(digits[1 + d]) = d
    BY <1>5
<1>8. CASE d > 9
    <2>1. Upper(digits[1 + d]) = UpperDigits[d - 9]
        BY <1>7, <1>8 DEF Upper
    <2>2. d - 9 \in 1 .. 6 /\ (d - 9) + 9 = d
        BY <1>8
    <2> QED BY <1>6, <1>7, <2>1, <2>2
<1>9. CASE ~(d > 9)
    BY <1>7, <1>9 DEF Upper
<1> QED BY <1>7, <1>8, <1>9

\* "g" is no digit.
LEMMA NoDigit == hex_nibble("g") = NotADigit
<1>1. ~ \E i \in DOMAIN digits : digits[i] = "g"
    BY DEF digits
<1>2. ~ \E i \in DOMAIN UpperDigits : UpperDigits[i] = "g"
    BY DEF UpperDigits
<1> QED BY <1>1, <1>2 DEF hex_nibble

\* A text whose digits are the nibbles of a vector, in order, is read as the vector.
LEMMA ReadText ==
    ASSUME NEW v \in Seq(Octet), NEW text, DOMAIN text = 1 .. 2 * Len(v), Len(text) = 2 * Len(v),
           \A i \in 1 .. Len(v) : /\ hex_nibble(text[2 * i - 1]) = v[i] \div 16
                                  /\ hex_nibble(text[2 * i]) = v[i] % 16
    PROVE  /\ bytes_from_hex(text) = v
           /\ IsHex(text) <=> Len(v) <= maximum_frame_size
<1>1. \A b \in Octet : /\ b \div 16 \in 0 .. 15 /\ b % 16 \in 0 .. 15
                       /\ (b \div 16) * 16 + (b % 16) = b
    BY DEF Octet
<1>2. \A i \in 1 .. Len(v) : v[i] \in Octet
    OBVIOUS
<1>3. \A i \in 1 .. Len(v) : hex_nibble(text[2 * i - 1]) * 16 + hex_nibble(text[2 * i]) = v[i]
    BY <1>1, <1>2
<1>4. Len(text) \div 2 = Len(v) /\ Len(text) % 2 = 0
    <2>1. \A n \in Nat : (2 * n) \div 2 = n /\ (2 * n) % 2 = 0
        OBVIOUS
    <2>2. Len(v) \in Nat
        OBVIOUS
    <2> QED BY <2>1, <2>2
<1>5. bytes_from_hex(text) = v
    <2>1. bytes_from_hex(text) = [i \in 1 .. Len(v) |->
              hex_nibble(text[2 * i - 1]) * 16 + hex_nibble(text[2 * i])]
        BY <1>4 DEF bytes_from_hex
    <2>2. v = [i \in 1 .. Len(v) |-> v[i]]
        OBVIOUS
    <2> QED BY <1>3, <2>1, <2>2
<1>6. \A k \in DOMAIN text : hex_nibble(text[k]) # NotADigit
    <2> TAKE k \in DOMAIN text
    <2>1. k \in 1 .. 2 * Len(v) /\ Len(v) \in Nat
        OBVIOUS
    <2>2. \A n \in Nat : \A j \in 1 .. 2 * n : \E i \in 1 .. n : j = 2 * i - 1 \/ j = 2 * i
        <3> TAKE n \in Nat
        <3> TAKE j \in 1 .. 2 * n
        <3>1. (j + 1) \div 2 \in 1 .. n /\ (j = 2 * ((j + 1) \div 2) - 1 \/ j = 2 * ((j + 1) \div 2))
            OBVIOUS
        <3> QED BY <3>1
    <2>3. PICK i \in 1 .. Len(v) : k = 2 * i - 1 \/ k = 2 * i
        BY <2>1, <2>2
    <2>4. v[i] \div 16 \in 0 .. 15 /\ v[i] % 16 \in 0 .. 15
        BY <1>1, <1>2
    <2>5. hex_nibble(text[k]) \in 0 .. 15
        BY <2>3, <2>4
    <2>6. \A d \in 0 .. 15 : d # NotADigit
        BY DEF NotADigit
    <2> QED BY <2>5, <2>6
<1> QED BY <1>4, <1>5, <1>6 DEF IsHex

\* A function on 1 .. n is a sequence of length n.
LEMMA LenOfText ==
    ASSUME NEW n \in Nat, NEW f, f = [k \in 1 .. n |-> f[k]]
    PROVE  f \in Seq({f[k] : k \in 1 .. n}) /\ Len(f) = n
<1>1. f \in [1 .. n -> {f[k] : k \in 1 .. n}]
    OBVIOUS
<1> QED BY <1>1

\* The text of bytes_to_hex(), and the same with capital digits.
LEMMA TextOfVector ==
    ASSUME NEW v \in Seq(Octet)
    PROVE  LET text == bytes_to_hex(v)
               shouted == [k \in DOMAIN text |-> Upper(text[k])]
           IN /\ DOMAIN text = 1 .. 2 * Len(v) /\ Len(text) = 2 * Len(v)
              /\ DOMAIN shouted = 1 .. 2 * Len(v) /\ Len(shouted) = 2 * Len(v)
              /\ \A i \in 1 .. Len(v) :
                    /\ hex_nibble(text[2 * i - 1]) = v[i] \div 16
                    /\ hex_nibble(text[2 * i]) = v[i] % 16
                    /\ hex_nibble(shouted[2 * i - 1]) = v[i] \div 16
                    /\ hex_nibble(shouted[2 * i]) = v[i] % 16
<1> DEFINE text == bytes_to_hex(v)
           shouted == [k \in DOMAIN text |-> Upper(text[k])]
           n == Len(v)
<1>1. n \in Nat /\ 2 * n \in Nat
    OBVIOUS
<1>2. text = [k \in 1 .. 2 * n |->
          digits[1 + IF k % 2 = 1 THEN v[(k + 1) \div 2] \div 16 ELSE v[(k + 1) \div 2] % 16]]
    BY DEF bytes_to_hex
<1>3. DOMAIN text = 1 .. 2 * n
    BY <1>2
<1>4. DOMAIN shouted = 1 .. 2 * n
    BY <1>3
<1>5. Len(text) = 2 * n /\ Len(shouted) = 2 * n
    <2>1. text = [k \in 1 .. 2 * n |-> text[k]]
        BY <1>2
    <2>2. shouted = [k \in 1 .. 2 * n |-> shouted[k]]
        BY <1>3
    <2> HIDE DEF text, shouted
    <2> QED BY <1>1, <2>1, <2>2, LenOfText
<1>6. ASSUME NEW i \in 1 .. n
      PROVE  /\ hex_nibble(text[2 * i - 1]) = v[i] \div 16
             /\ hex_nibble(text[2 * i]) = v[i] % 16
             /\ hex_nibble(shouted[2 * i - 1]) = v[i] \div 16
             /\ hex_nibble(shouted[2 * i]) = v[i] % 16
    <2> DEFINE h == v[i] \div 16
               l == v[i] % 16
    <2>1. 2 * i - 1 \in 1 .. 2 * n /\ 2 * i \in 1 .. 2 * n
        BY <1>1
    <2>2. /\ (2 * i - 1) % 2 = 1 /\ ((2 * i - 1) + 1) \div 2 = i
          /\ (2 * i) % 2 # 1 /\ ((2 * i) + 1) \div 2 = i
        BY <1>1
    <2>3. text[2 * i - 1] = digits[1 + h] /\ text[2 * i] = digits[1 + l]
        BY <1>2, <2>1, <2>2
    <2>4. shouted[2 * i - 1] = Upper(digits[1 + h]) /\ shouted[2 * i] = Upper(digits[1 + l])
        BY <1>3, <2>1, <2>3
    <2>5. h \in 0 .. 15 /\ l \in 0 .. 15
        <3>1. \A b \in Octet : b \div 16 \in 0 .. 15 /\ b % 16 \in 0 .. 15
            BY DEF Octet
        <3>2. v[i] \in Octet
            OBVIOUS
        <3> QED BY <3>1, <3>2
    <2> HIDE DEF h, l
    <2>6. hex_nibble(text[2 * i - 1]) = h /\ hex_nibble(text[2 * i]) = l
        BY <2>3, <2>5, Digits
    <2>7. hex_nibble(shouted[2 * i - 1]) = h /\ hex_nibble(shouted[2 * i]) = l
        BY <2>4, <2>5, Digits
    <2> QED BY <2>6, <2>7 DEF h, l
<1> QED BY <1>3, <1>4, <1>5, <1>6

\* A text without its first digit, or with another character, is refused.
LEMMA SpoiltText ==
    ASSUME NEW v \in Seq(Octet), v # <<>>
    PROVE  LET text == bytes_to_hex(v)
           IN ~IsHex(Tail(text)) /\ ~IsHex([text EXCEPT ![Len(text)] = "g"])
<1> DEFINE text == bytes_to_hex(v)
           n == Len(v)
<1>1. n \in Nat /\ n > 0
    OBVIOUS
<1>2. DOMAIN text = 1 .. 2 * n /\ Len(text) = 2 * n
    BY TextOfVector
<1>3. text = [k \in 1 .. 2 * n |-> text[k]]
    BY DEF bytes_to_hex
<1> HIDE DEF text, n
<1>4. PICK S : text \in Seq(S)
    <2>1. 2 * n \in Nat
        BY <1>1
    <2> QED BY <1>3, <2>1, LenOfText
<1>5. ~IsHex(Tail(text))
    <2>1. text # <<>> /\ Len(Tail(text)) = 2 * n - 1
        BY <1>1, <1>2, <1>4
    <2>2. (2 * n - 1) % 2 # 0
        BY <1>1
    <2> QED BY <2>1, <2>2 DEF IsHex
<1>6. ~IsHex([text EXCEPT ![Len(text)] = "g"])
    <2> DEFINE spoilt == [text EXCEPT ![Len(text)] = "g"]
    <2>1. 2 * n \in DOMAIN spoilt /\ spoilt[2 * n] = "g"
        BY <1>1, <1>2
    <2> HIDE DEF spoilt
    <2>2. ~IsHex(spoilt)
        BY <2>1, NoDigit DEF IsHex
    <2> QED BY <2>2 DEF spoilt
<1> QED BY <1>5, <1>6 DEF text

\* For every vector on the line: bytes_from_hex() reads back what bytes_to_hex() wrote,
\* with small or capital digits, and refuses a text that is too long, of odd length
\* or with a character that is no digit.
THEOREM HexTextIsExactHolds == LineSpec => []HexTextIsExact
<1>1. LineInv => HexTextIsExact
    <2> SUFFICES ASSUME LineInv PROVE HexTextIsExact
        OBVIOUS
    <2>1. bytes \in Seq(Octet)
        BY DEF LineInv
    <2> DEFINE text == bytes_to_hex(bytes)
               shouted == [i \in DOMAIN text |-> Upper(text[i])]
    <2>2. /\ DOMAIN text = 1 .. 2 * Len(bytes) /\ Len(text) = 2 * Len(bytes)
          /\ DOMAIN shouted = 1 .. 2 * Len(bytes) /\ Len(shouted) = 2 * Len(bytes)
          /\ \A i \in 1 .. Len(bytes) :
                /\ hex_nibble(text[2 * i - 1]) = bytes[i] \div 16
                /\ hex_nibble(text[2 * i]) = bytes[i] % 16
                /\ hex_nibble(shouted[2 * i - 1]) = bytes[i] \div 16
                /\ hex_nibble(shouted[2 * i]) = bytes[i] % 16
        BY <2>1, TextOfVector
    <2> HIDE DEF text, shouted
    <2>3. /\ bytes_from_hex(text) = bytes
          /\ IsHex(text) <=> Len(bytes) <= maximum_frame_size
        BY <2>1, <2>2, ReadText
    <2>4. /\ bytes_from_hex(shouted) = bytes
          /\ IsHex(shouted) <=> Len(bytes) <= maximum_frame_size
        BY <2>1, <2>2, ReadText
    <2>5. bytes # <<>> => ~IsHex(Tail(text)) /\ ~IsHex([text EXCEPT ![Len(text)] = "g"])
        BY <2>1, SpoiltText DEF text
    <2> QED BY <2>3, <2>4, <2>5 DEF HexTextIsExact, text, shouted
<1> QED BY <1>1, LineInvHolds, PTL
=============================================================================
