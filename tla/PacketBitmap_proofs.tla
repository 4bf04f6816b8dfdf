------------------------- MODULE PacketBitmap_proofs -------------------------
(***************************************************************************)
(* The bitmap counts packets exactly, for every size of byte and bitmap,   *)
(* every limit of packet numbers and every byte that follows the bitmap.   *)
(* Powers of 2 are known to the library as numbers of subsets; that they   *)
(* double, and what bits follow from it, is proved first.                  *)
(***************************************************************************)
EXTENDS PacketBitmap, FunctionTheorems, FiniteSetTheorems, TLAPS

-----------------------------------------------------------------------------
(* Powers of 2.                                                            *)

\* Induction on the natural numbers: a set without a least element would be an
\* infinite descent among the subsets of a finite interval.
LEMMA Induction ==
  ASSUME NEW S \in SUBSET Nat, 0 \in S, \A n \in S : n + 1 \in S
  PROVE  S = Nat
<1> SUFFICES ASSUME NEW N \in Nat \ S PROVE FALSE
  OBVIOUS
<1> DEFINE I == 0 .. N
           F == {U \in SUBSET I : \E k \in Nat \ S : U = 0 .. k}
<1>1. IsFiniteSet(I)
  BY FS_Interval
<1>2. IsWellFoundedOn(StrictSubsetOrdering(I), FiniteSubsetsOf(I))
  BY FS_StrictSubsetOrderingWellFounded, <1>1
<1>3. I \in F /\ F \subseteq FiniteSubsetsOf(I)
  BY <1>1, FS_Subset DEF FiniteSubsetsOf
<1>4. PICK U \in F : \A V \in F : ~ (<<V, U>> \in StrictSubsetOrdering(I))
  <2> HIDE DEF F, I
  <2> QED BY <1>2, <1>3, WFMin
<1>5. PICK k \in Nat \ S : U = 0 .. k
  BY <1>4
<1>6. k # 0 /\ k - 1 \in Nat \ S
  BY <1>5
<1>7. 0 .. (k - 1) \in F /\ 0 .. (k - 1) # 0 .. k /\ 0 .. (k - 1) \subseteq 0 .. k
  BY <1>4, <1>5, <1>6
<1> QED BY <1>4, <1>5, <1>7 DEF StrictSubsetOrdering

\* A set has twice as many subsets with one element more: so the powers of 2,
\* which the library knows as the numbers of subsets, double.
LEMMA PowerDoubles ==
  ASSUME NEW n \in Nat
  PROVE  2^(n + 1) = 2 * 2^n
<1> DEFINE x == n + 1
           A == SUBSET (1 .. n)
           B == {U \cup {x} : U \in A}
           f == [U \in A |-> U \cup {x}]
<1>1. IsFiniteSet(1 .. n) /\ Cardinality(1 .. n) = n
  BY FS_Interval
<1>2. IsFiniteSet(1 .. x) /\ Cardinality(1 .. x) = x
  BY FS_Interval
<1>3. IsFiniteSet(A) /\ Cardinality(A) = 2^n
  BY <1>1, FS_SUBSET
<1>4. Cardinality(SUBSET (1 .. x)) = 2^x
  BY <1>2, FS_SUBSET
<1>5. x \notin 1 .. n /\ 1 .. x = (1 .. n) \cup {x}
  OBVIOUS
<1>6. f \in Bijection(A, B)
  <2>1. f \in [A -> B] /\ \A V \in B : \E U \in A : f[U] = V
    OBVIOUS
  <2>2. \A U, V \in A : f[U] = f[V] => U = V
    BY <1>5
  <2> HIDE DEF A, B, f
  <2> QED BY <2>1, <2>2, Fun_IsBij
<1>7. IsFiniteSet(B) /\ Cardinality(B) = Cardinality(A)
  BY <1>3, <1>6, FS_Bijection DEF ExistsBijection
<1>8. SUBSET (1 .. x) = A \cup B
  <2>1. ASSUME NEW W \in SUBSET (1 .. x) PROVE W \in A \cup B
    <3>1. CASE x \in W
      <4>1. W \ {x} \in A /\ W = (W \ {x}) \cup {x}
        BY <1>5, <3>1
      <4> QED BY <4>1
    <3>2. CASE x \notin W
      BY <1>5, <3>2
    <3> QED BY <3>1, <3>2
  <2>2. A \cup B \subseteq SUBSET (1 .. x)
    <3>1. A \subseteq SUBSET (1 .. x)
      BY <1>5
    <3>2. B \subseteq SUBSET (1 .. x)
      BY <1>5
    <3> QED BY <3>1, <3>2
  <2> HIDE DEF A, B
  <2> QED BY <2>1, <2>2
<1>9. A \cap B = {}
  BY <1>5
<1>10. Cardinality(A \cup B) = Cardinality(A) + Cardinality(B) - 0
  <2> HIDE DEF A, B
  <2> QED BY <1>3, <1>7, <1>9, FS_Union, FS_EmptySet
<1>11. 2^n \in Int
  OBVIOUS
<1>12. 2^x = Cardinality(A \cup B)
  BY <1>4, <1>8, Zenon
<1>13. Cardinality(A \cup B) = Cardinality(A) + Cardinality(A)
  <2> HIDE DEF A, B
  <2>1. Cardinality(A) \in Nat
    BY <1>3, FS_CardinalityType
  <2> QED BY <1>7, <1>10, <2>1
<1>14. 2^x = 2^n + 2^n
  <2> HIDE DEF A, B, x
  <2> QED BY <1>3, <1>12, <1>13, Zenon
<1> QED BY <1>11, <1>14

\* The powers of 2 are positive.
LEMMA PowerPositive == \A n \in Nat : 2^n \in Nat \ {0}
<1> DEFINE S == {n \in Nat : 2^n \in Nat \ {0}}
<1>1. 0 \in S
  OBVIOUS
<1>2. ASSUME NEW n \in S PROVE n + 1 \in S
  BY PowerDoubles
<1> HIDE DEF S
<1>3. S = Nat
  BY <1>1, <1>2, Induction DEF S
<1> QED BY <1>3 DEF S

\* Their product is the power of the sum.
LEMMA PowerSum ==
  ASSUME NEW j \in Nat
  PROVE  \A i \in Nat : 2^(j + i) = 2^j * 2^i
<1> DEFINE S == {i \in Nat : 2^(j + i) = 2^j * 2^i}
<1>1. 0 \in S
  <2>1. j + 0 = j /\ 2^0 = 1 /\ 2^j \in Nat
    BY PowerPositive
  <2> QED BY <2>1
<1>2. ASSUME NEW i \in S PROVE i + 1 \in S
  <2>1. 2^(i + 1) = 2 * 2^i /\ 2^((j + i) + 1) = 2 * 2^(j + i) /\ j + (i + 1) = (j + i) + 1
    BY PowerDoubles
  <2>2. 2^j \in Nat /\ 2^i \in Nat /\ 2^(j + i) = 2^j * 2^i
    BY PowerPositive
  <2>3. 2^(j + (i + 1)) = 2 * (2^j * 2^i)
    BY <2>1, <2>2
  <2>4. \A a, b \in Nat : 2 * (a * b) = a * (2 * b)
    OBVIOUS
  <2>5. 2^(j + (i + 1)) = 2^j * 2^(i + 1)
    BY <2>1, <2>2, <2>3, <2>4
  <2> QED BY <2>5
<1> HIDE DEF S
<1>3. S = Nat
  BY <1>1, <1>2, Induction DEF S
<1> QED BY <1>3 DEF S

-----------------------------------------------------------------------------
(* Bits.                                                                   *)

\* Quotient and remainder.
LEMMA Division ==
  ASSUME NEW a \in Nat, NEW d \in Nat \ {0}
  PROVE  a \div d \in Nat /\ a % d \in 0 .. d - 1 /\ a = d * (a \div d) + (a % d)
OBVIOUS

\* They are the only ones.
LEMMA DivisionUnique ==
  ASSUME NEW d \in Nat \ {0}, NEW q \in Nat, NEW r \in 0 .. d - 1
  PROVE  (d * q + r) \div d = q /\ (d * q + r) % d = r
<1> DEFINE a == d * q + r
           p == a \div d
           s == a % d
<1>1. a \in Nat /\ d * q \in Nat
  OBVIOUS
<1>2. p \in Nat /\ s \in 0 .. d - 1 /\ a = d * p + s
  <2> HIDE DEF a
  <2> QED BY <1>1, Division
<1>3. \A x, y \in Nat : x > y => d * x >= d * y + d
  <2>1. SUFFICES ASSUME NEW x \in Nat, NEW y \in Nat, x > y PROVE d * x >= d * y + d
    OBVIOUS
  <2>2. x - y - 1 \in Nat /\ d * (x - y - 1) \in Nat
    BY <2>1
  <2>3. d * x = d * y + d + d * (x - y - 1)
    OBVIOUS
  <2> QED BY <2>2, <2>3
<1>4. d * p \in Nat /\ d * q \in Nat
  BY <1>2
<1>5. p = q
  <2> HIDE DEF p, s
  <2>1. d * p + s = d * q + r
    BY <1>2
  <2>2. ~(p > q)
    <3>1. SUFFICES ASSUME p > q PROVE FALSE
      OBVIOUS
    <3>2. d * p >= d * q + d
      BY <1>2, <1>3, <3>1
    <3> QED BY <1>2, <1>4, <2>1, <3>2
  <2>3. ~(q > p)
    <3>1. SUFFICES ASSUME q > p PROVE FALSE
      OBVIOUS
    <3>2. d * q >= d * p + d
      BY <1>2, <1>3, <3>1
    <3> QED BY <1>2, <1>4, <2>1, <3>2
  <2> QED BY <1>2, <2>2, <2>3
<1>6. s = r
  <2> HIDE DEF p, s
  <2> QED BY <1>2, <1>4, <1>5
<1> QED BY <1>5, <1>6

\* A bit is 0 or 1.
LEMMA BitValue ==
  ASSUME NEW a \in Nat, NEW j \in Nat
  PROVE  Bit(a, j) \in {0, 1} /\ a \div 2^j \in Nat
<1>1. 2^j \in Nat \ {0}
  BY PowerPositive
<1>2. a \div 2^j \in Nat
  BY <1>1, Division
<1> QED BY <1>2 DEF Bit

\* Bit j of a number written with 2^j.
LEMMA BitOf ==
  ASSUME NEW j \in Nat, NEW q \in Nat, NEW r \in 0 .. 2^j - 1
  PROVE  Bit(2^j * q + r, j) = q % 2 /\ (2^j * q + r) \div 2^j = q
BY PowerPositive, DivisionUnique DEF Bit

\* Zero has no bits.
LEMMA BitOfZero == ASSUME NEW j \in Nat PROVE Bit(0, j) = 0
<1>1. 2^j \in Nat \ {0}
  BY PowerPositive
<1>2. 0 \div 2^j = 0
  BY <1>1
<1>3. 0 % 2 = 0
  OBVIOUS
<1> QED BY <1>2, <1>3 DEF Bit

\* The power of a greater number.
LEMMA PowerSplit ==
  ASSUME NEW j \in Nat, NEW k \in Nat, k < j
  PROVE  \E c \in Nat \ {0} : 2^j = 2^k * (2 * c)
<1> DEFINE i == j - k - 1
<1>1. i \in Nat /\ j = k + (i + 1) /\ i + 1 \in Nat
  OBVIOUS
<1> HIDE DEF i
<1>2. 2^j = 2^k * 2^(i + 1)
  BY <1>1, PowerSum
<1>3. 2^(i + 1) = 2 * 2^i /\ 2^i \in Nat \ {0}
  BY <1>1, PowerDoubles, PowerPositive
<1> QED BY <1>2, <1>3

\* Setting bit j, not set before, leaves the lower bits.
LEMMA LowerBits ==
  ASSUME NEW a \in Nat, NEW j \in Nat, NEW k \in Nat, k < j
  PROVE  Bit(a + 2^j, k) = Bit(a, k)
<1>1. PICK c \in Nat \ {0} : 2^j = 2^k * (2 * c)
  BY PowerSplit
<1> DEFINE d == 2^k
           q == a \div d
           r == a % d
<1>2. d \in Nat \ {0}
  BY PowerPositive
<1>3. q \in Nat /\ r \in 0 .. d - 1 /\ a = d * q + r
  <2> HIDE DEF d
  <2> QED BY <1>2, Division
<1>4. 2^j = d * (2 * c)
  BY <1>1
<1> HIDE DEF q, r
<1>5. a + 2^j = d * (q + 2 * c) + r
  <2>1. \A x, y, z \in Nat : x * y + x * z = x * (y + z)
    OBVIOUS
  <2>2. d * q + d * (2 * c) = d * (q + 2 * c)
    <3> HIDE DEF d
    <3> QED BY <1>2, <1>3, <2>1
  <2>3. d * q \in Nat /\ d * (2 * c) \in Nat
    <3> HIDE DEF d
    <3> QED BY <1>2, <1>3
  <2> HIDE DEF d
  <2> QED BY <1>2, <1>3, <1>4, <2>2, <2>3
<1>6. q + 2 * c \in Nat
  BY <1>3
<1>7. Bit(a + 2^j, k) = (q + 2 * c) % 2 /\ Bit(a, k) = q % 2
  <2>1. r \in 0 .. 2^k - 1 /\ a = 2^k * q + r /\ a + 2^j = 2^k * (q + 2 * c) + r
    BY <1>3, <1>5, Zenon
  <2>2. Bit(2^k * q + r, k) = q % 2 /\ Bit(2^k * (q + 2 * c) + r, k) = (q + 2 * c) % 2
    BY <1>3, <1>6, <2>1, BitOf
  <2> QED BY <2>1, <2>2, Zenon
<1>8. (q + 2 * c) % 2 = q % 2
  BY <1>3
<1> QED BY <1>7, <1>8

\* And it leaves the higher ones, and what lies above them.
LEMMA HigherBits ==
  ASSUME NEW a \in Nat, NEW j \in Nat, NEW k \in Nat, j < k, Bit(a, j) = 0
  PROVE  (a + 2^j) \div 2^k = a \div 2^k /\ Bit(a + 2^j, k) = Bit(a, k)
<1>1. PICK c \in Nat \ {0} : 2^k = 2^j * (2 * c)
  BY PowerSplit
<1> DEFINE d == 2^j
           q == a \div d
           r == a % d
           h == q \div 2
           s == h \div c
           t == h % c
<1>2. d \in Nat \ {0}
  BY PowerPositive
<1>3. q \in Nat /\ r \in 0 .. d - 1 /\ a = d * q + r
  <2> HIDE DEF d
  <2> QED BY <1>2, Division
<1>4. 2^k = d * (2 * c) /\ q % 2 = 0
  BY <1>1 DEF Bit
<1> HIDE DEF q, r
<1>5. h \in Nat /\ q = 2 * h
  BY <1>3, <1>4
<1> HIDE DEF h
<1>6. s \in Nat /\ t \in 0 .. c - 1 /\ h = c * s + t
  BY <1>5, Division
<1> HIDE DEF s, t
<1> HIDE DEF d
<1> DEFINE D == d * (2 * c)
           l == d * (2 * t) + r
<1>7. D \in Nat \ {0} /\ 2^k = D
  BY <1>2, <1>4
<1>8. d * (2 * t) \in Nat /\ l \in Nat /\ l + d \in 0 .. D - 1
  <2>1. 2 * t + 2 <= 2 * c /\ 2 * t \in Nat
    BY <1>6
  <2>2. \A x, y \in Nat : x <= y => d * x <= d * y
    BY <1>2
  <2>3. d * (2 * t + 2) <= D
    BY <1>6, <2>1, <2>2
  <2>4. d * (2 * t + 2) = d * (2 * t) + d + d
    BY <1>2, <1>6
  <2>5. d * (2 * t) \in Nat
    BY <1>2, <1>6
  <2> HIDE DEF D
  <2> QED BY <1>2, <1>3, <1>7, <2>3, <2>4, <2>5
<1>9. a = D * s + l
  <2>1. d * q = d * (2 * (c * s)) + d * (2 * t)
    BY <1>2, <1>5, <1>6
  <2>2. d * (2 * (c * s)) = D * s
    BY <1>2, <1>6
  <2>3. D * s \in Nat
    BY <1>6, <1>7
  <2> QED BY <1>3, <1>8, <2>1, <2>2, <2>3
<1>10. a + d = D * s + (l + d)
  <2>1. D * s \in Nat
    BY <1>6, <1>7
  <2> HIDE DEF D, l
  <2> QED BY <1>2, <1>8, <1>9, <2>1
<1>11. l \in 0 .. D - 1
  <2> HIDE DEF D, l
  <2> QED BY <1>2, <1>7, <1>8
<1>12. a \div D = s /\ (a + d) \div D = s
  <2> HIDE DEF D
  <2>1. \A x \in 0 .. D - 1 : (D * s + x) \div D = s
    BY <1>6, <1>7, DivisionUnique
  <2> HIDE DEF l
  <2> QED BY <1>8, <1>9, <1>10, <1>11, <2>1, Zenon
<1>13. a \div 2^k = s /\ (a + 2^j) \div 2^k = s
  BY <1>7, <1>12 DEF d
<1> QED BY <1>13 DEF Bit

\* The bit itself.
LEMMA OwnBit ==
  ASSUME NEW a \in Nat, NEW j \in Nat, Bit(a, j) = 0
  PROVE  Bit(a + 2^j, j) = 1
<1> DEFINE d == 2^j
           q == a \div d
           r == a % d
<1>1. d \in Nat \ {0}
  BY PowerPositive
<1>2. q \in Nat /\ r \in 0 .. d - 1 /\ a = d * q + r
  <2> HIDE DEF d
  <2> QED BY <1>1, Division
<1>3. q % 2 = 0
  BY DEF Bit
<1> HIDE DEF q, r
<1>4. a + d = d * (q + 1) + r
  <2> HIDE DEF d
  <2> QED BY <1>1, <1>2
<1>5. Bit(a + 2^j, j) = (q + 1) % 2
  <2>1. Bit(2^j * (q + 1) + r, j) = (q + 1) % 2
    <3>1. q + 1 \in Nat /\ r \in 0 .. 2^j - 1
      BY <1>2
    <3> QED BY <3>1, BitOf
  <2> QED BY <1>4, <2>1, Zenon
<1> QED BY <1>2, <1>3, <1>5

\* Of a number taken modulo 2^m the lower m bits are left.
LEMMA MaskedBits ==
  ASSUME NEW a \in Nat, NEW m \in Nat, NEW j \in Nat
  PROVE  /\ a % 2^m \in Nat
         /\ Bit(a % 2^m, j) = IF j < m THEN Bit(a, j) ELSE 0
<1> DEFINE e == 2^m
           d == 2^j
           q == a \div e
           r == a % e
<1>1. e \in Nat \ {0} /\ d \in Nat \ {0}
  BY PowerPositive
<1>2. q \in Nat /\ r \in 0 .. e - 1 /\ r \in Nat /\ a = e * q + r
  <2> HIDE DEF e
  <2>1. q \in Nat /\ r \in 0 .. e - 1 /\ a = e * q + r
    BY <1>1, Division
  <2> HIDE DEF r
  <2> QED BY <1>1, <2>1
<1>3. CASE j < m
  <2>1. PICK c \in Nat \ {0} : e = d * (2 * c)
    BY <1>3, PowerSplit
  <2> DEFINE p == r \div d
             s == r % d
  <2>2. p \in Nat /\ s \in 0 .. d - 1 /\ r = d * p + s
    <3> HIDE DEF d, r
    <3> QED BY <1>1, <1>2, Division
  <2> HIDE DEF p, s, r, q
  <2>3. a = d * (2 * (c * q) + p) + s /\ 2 * (c * q) + p \in Nat /\ c * q \in Nat
    <3> HIDE DEF d, e
    <3>1. c * q \in Nat /\ d * p \in Nat /\ e * q \in Nat
      BY <1>1, <1>2, <2>1, <2>2
    <3>2. e * q = d * (2 * (c * q))
      BY <1>1, <1>2, <2>1
    <3>3. d * (2 * (c * q) + p) = d * (2 * (c * q)) + d * p
      BY <1>1, <2>2, <3>1
    <3> QED BY <1>1, <1>2, <2>2, <3>1, <3>2, <3>3
  <2>4. Bit(a, j) = (2 * (c * q) + p) % 2 /\ Bit(r, j) = p % 2
    BY <2>2, <2>3, BitOf
  <2>5. (2 * (c * q) + p) % 2 = p % 2
    <3> DEFINE x == c * q
    <3>1. x \in Nat /\ (2 * x + p) % 2 = p % 2
      <4>1. x \in Nat
        BY <2>3
      <4> HIDE DEF x
      <4> QED BY <2>2, <4>1
    <3> QED BY <3>1
  <2> QED BY <1>2, <1>3, <2>4, <2>5 DEF r
<1>4. CASE ~(j < m)
  <2>1. e <= d
    <3>1. CASE j = m
      BY <1>1, <3>1
    <3>2. CASE j # m
      <4>1. PICK c \in Nat \ {0} : d = e * (2 * c)
        BY <1>4, <3>2, PowerSplit
      <4>2. e * (2 * c) >= e
        <5> HIDE DEF d, e
        <5>1. e * (2 * c) = e + e * (2 * c - 1) /\ 2 * c - 1 \in Nat
          BY <1>1
        <5>2. e * (2 * c - 1) \in Nat
          BY <1>1, <5>1
        <5> QED BY <1>1, <5>1, <5>2
      <4> QED BY <4>1, <4>2
    <3> QED BY <3>1, <3>2
  <2>2. r \div d = 0
    <3> HIDE DEF d, e, r
    <3>1. r \in 0 .. d - 1 /\ r = d * 0 + r
      BY <1>1, <1>2, <2>1
    <3> QED BY <1>1, <3>1, DivisionUnique
  <2>3. Bit(r, j) = 0
    <3>1. 0 % 2 = 0
      OBVIOUS
    <3> HIDE DEF r
    <3> QED BY <2>2, <3>1 DEF Bit
  <2> QED BY <1>2, <1>4, <2>3
<1> QED BY <1>3, <1>4

-----------------------------------------------------------------------------
(* The bits are the packets received.                                      *)

\* Packet p was received, and the bitmap has a place for it.
Recorded(p) == p \in received /\ p < PidLimit

\* The inductive invariant: bit j of byte i says whether packet number
\* ByteBits * i + j was recorded.
IInv ==
  /\ bitmap \in [0 .. NBytes - 1 -> Bytes]
  /\ total \in Totals /\ received \subseteq 0 .. total - 1
  /\ received # {} => total_packet = total
  /\ \A i \in 0 .. NBytes - 1, j \in 0 .. ByteBits - 1 :
       Bit(bitmap[i], j) = 1 <=> Recorded(ByteBits * i + j)

\* The sizes are numbers, and no frame has more packets than the bitmap bits.
LEMMA Sizes ==
  /\ ByteBits \in Nat \ {0} /\ NBytes \in Nat \ {0} /\ PidLimit \in Nat
  /\ BitmapBits \in Nat /\ BitmapBits = ByteBits * NBytes
  /\ \A t \in Totals : t \in Nat \ {0} /\ t <= BitmapBits
  /\ Bytes \subseteq Nat /\ 0 \in Bytes
<1>1. 2^ByteBits \in Nat \ {0}
  BY BitmapAssumption, PowerPositive
<1>2. ByteBits * NBytes \in Nat
  BY BitmapAssumption
<1> QED BY <1>1, <1>2, BitmapAssumption DEF BitmapBits, Bytes

\* Setting a bit of a byte leaves a byte and its other bits.
LEMMA SetBit ==
  ASSUME NEW a \in Bytes, NEW j \in 0 .. ByteBits - 1,
         NEW v, v = IF Bit(a, j) = 1 THEN a ELSE a + 2^j
  PROVE  /\ v \in Bytes
         /\ \A k \in 0 .. ByteBits - 1 : Bit(v, k) = 1 <=> k = j \/ Bit(a, k) = 1
<1>1. a \in Nat /\ j \in Nat /\ j < ByteBits /\ ByteBits \in Nat
  BY Sizes
<1>2. CASE Bit(a, j) = 1
  BY <1>2
<1>3. CASE Bit(a, j) # 1
  <2>1. Bit(a, j) = 0 /\ v = a + 2^j
    BY <1>1, <1>3, BitValue
  <2>2. 2^j \in Nat \ {0} /\ 2^ByteBits \in Nat \ {0}
    BY <1>1, PowerPositive
  <2>3. v \in Nat
    BY <1>1, <2>1, <2>2
  <2>4. v \in Bytes
    <3> DEFINE M == 2^ByteBits
    <3>1. v \div M = a \div M
      BY <1>1, <2>1, HigherBits
    <3>2. M \in Nat \ {0} /\ a \in 0 .. M - 1
      BY <2>2 DEF Bytes
    <3> HIDE DEF M
    <3>3. a \div M = 0
      BY <3>2
    <3>4. v % M \in 0 .. M - 1 /\ v = M * (v \div M) + (v % M)
      BY <2>3, <3>2, Division
    <3>5. v = v % M
      <4> DEFINE r == v % M
      <4>1. r \in Nat /\ v = M * 0 + r
        BY <3>1, <3>2, <3>3, <3>4
      <4> HIDE DEF r
      <4>2. v = r
        BY <3>2, <4>1
      <4> QED BY <4>2 DEF r
    <3>6. v \in 0 .. M - 1
      BY <3>4, <3>5, Zenon
    <3> QED BY <3>6 DEF M, Bytes
  <2>5. ASSUME NEW k \in 0 .. ByteBits - 1
        PROVE  Bit(v, k) = 1 <=> k = j \/ Bit(a, k) = 1
    <3>1. k \in Nat
      OBVIOUS
    <3>2. CASE k < j
      <4>1. Bit(a + 2^j, k) = Bit(a, k)
        BY <1>1, <3>1, <3>2, LowerBits
      <4> QED BY <1>1, <2>1, <3>2, <4>1
    <3>3. CASE k > j
      <4>1. Bit(a + 2^j, k) = Bit(a, k)
        BY <1>1, <2>1, <3>1, <3>3, HigherBits
      <4> QED BY <1>1, <2>1, <3>3, <4>1
    <3>4. CASE k = j
      <4>1. Bit(a + 2^j, j) = 1
        BY <1>1, <2>1, OwnBit
      <4> QED BY <2>1, <3>4, <4>1
    <3> QED BY <1>1, <3>1, <3>2, <3>3, <3>4
  <2> QED BY <2>4, <2>5
<1> QED BY <1>2, <1>3

\* The byte and the bit of a packet.
LEMMA Place ==
  ASSUME NEW p \in 0 .. BitmapBits - 1
  PROVE  /\ p \in Nat /\ p = ByteBits * (p \div ByteBits) + (p % ByteBits)
         /\ p \div ByteBits \in 0 .. NBytes - 1 /\ p % ByteBits \in 0 .. ByteBits - 1
<1> DEFINE i == p \div ByteBits
           j == p % ByteBits
<1>1. p \in Nat
  BY Sizes
<1>2. i \in Nat /\ j \in 0 .. ByteBits - 1 /\ p = ByteBits * i + j
  BY <1>1, Sizes, Division
<1> HIDE DEF i, j
<1>3. i < NBytes
  <2>1. SUFFICES ASSUME i >= NBytes PROVE FALSE
    BY <1>2, Sizes
  <2>2. i - NBytes \in Nat /\ ByteBits * (i - NBytes) \in Nat
    BY <1>2, <2>1, Sizes
  <2>3. ByteBits * i = ByteBits * NBytes + ByteBits * (i - NBytes)
    BY <1>2, Sizes
  <2>4. ByteBits * i >= BitmapBits /\ ByteBits * i \in Nat
    BY <1>2, <2>2, <2>3, Sizes
  <2> QED BY <1>1, <1>2, <2>4, Sizes
<1>4. i \in 0 .. NBytes - 1
  BY <1>2, <1>3, Sizes
<1> QED BY <1>1, <1>2, <1>4 DEF i, j

\* The number of a bit.
LEMMA Number ==
  ASSUME NEW i \in 0 .. NBytes - 1, NEW j \in 0 .. ByteBits - 1
  PROVE  /\ ByteBits * i + j \in 0 .. BitmapBits - 1
         /\ (ByteBits * i + j) \div ByteBits = i /\ (ByteBits * i + j) % ByteBits = j
<1>1. i \in Nat /\ NBytes - 1 - i \in Nat /\ j \in Nat /\ ByteBits * i \in Nat
  BY Sizes
<1>2. ByteBits * (NBytes - 1 - i) \in Nat
  BY <1>1, Sizes
<1>3. BitmapBits = ByteBits * i + ByteBits + ByteBits * (NBytes - 1 - i)
  BY <1>1, Sizes
<1>4. ByteBits * i + j \in 0 .. BitmapBits - 1
  BY <1>1, <1>2, <1>3, Sizes
<1> QED BY <1>1, <1>4, Sizes, DivisionUnique

\* Nothing is received and no bit set at first.
LEMMA InitBits == Init => IInv
<1> SUFFICES ASSUME Init PROVE IInv
  OBVIOUS
<1>1. bitmap \in [0 .. NBytes - 1 -> Bytes] /\ \A i \in 0 .. NBytes - 1 : bitmap[i] = 0
  BY Sizes DEF Init
<1>2. received = {} /\ total \in Totals
  BY DEF Init
<1>3. \A j \in 0 .. ByteBits - 1 : Bit(0, j) = 0
  BY BitOfZero
<1> QED BY <1>1, <1>2, <1>3 DEF IInv, Recorded

\* A packet sets the bit of its number, unless that is past the limit.
LEMMA EnqueueKeeps ==
  ASSUME IInv, NEW pid \in 0 .. total - 1, Enqueue(pid)
  PROVE  IInv'
<1>1. /\ total_packet' = total /\ received' = received \cup {pid} /\ total' = total
      /\ bitmap' = IF pid < PidLimit THEN bitmap_set(bitmap, pid) ELSE bitmap
  BY DEF Enqueue
<1>2. /\ bitmap \in [0 .. NBytes - 1 -> Bytes]
      /\ total \in Totals /\ received \subseteq 0 .. total - 1
      /\ \A i \in 0 .. NBytes - 1, j \in 0 .. ByteBits - 1 :
           Bit(bitmap[i], j) = 1 <=> Recorded(ByteBits * i + j)
  BY DEF IInv
<1>3. pid \in 0 .. BitmapBits - 1
  BY <1>2, Sizes
<1> DEFINE n == pid \div ByteBits
           m == pid % ByteBits
<1>4. pid \in Nat /\ pid = ByteBits * n + m /\ n \in 0 .. NBytes - 1 /\ m \in 0 .. ByteBits - 1
  BY <1>3, Place
<1>5. ASSUME NEW i \in 0 .. NBytes - 1, NEW j \in 0 .. ByteBits - 1
      PROVE  ByteBits * i + j = pid <=> i = n /\ j = m
  BY <1>4, Number
<1>6. CASE ~(pid < PidLimit)
  <2>1. bitmap' = bitmap
    BY <1>1, <1>6
  <2>2. ASSUME NEW i \in 0 .. NBytes - 1, NEW j \in 0 .. ByteBits - 1
        PROVE  Recorded(ByteBits * i + j)' <=> Recorded(ByteBits * i + j)
    BY <1>1, <1>6 DEF Recorded
  <2> QED BY <1>1, <1>2, <2>1, <2>2 DEF IInv
<1>7. CASE pid < PidLimit
  <2> DEFINE v == IF Bit(bitmap[n], m) = 1 THEN bitmap[n] ELSE bitmap[n] + 2^m
  <2>1. bitmap[n] \in Bytes
    BY <1>2, <1>4
  <2>2. v \in Bytes /\ \A k \in 0 .. ByteBits - 1 : Bit(v, k) = 1 <=> k = m \/ Bit(bitmap[n], k) = 1
    <3> HIDE DEF n, m
    <3> QED BY <1>4, <2>1, SetBit
  <2>3. bitmap' = [bitmap EXCEPT ![n] = v]
    BY <1>1, <1>7 DEF bitmap_set
  <2> HIDE DEF n, m, v
  <2>4. bitmap' \in [0 .. NBytes - 1 -> Bytes] /\ bitmap'[n] = v
        /\ \A i \in 0 .. NBytes - 1 : i # n => bitmap'[i] = bitmap[i]
    BY <1>2, <1>4, <2>2, <2>3
  <2>5. ASSUME NEW i \in 0 .. NBytes - 1, NEW j \in 0 .. ByteBits - 1
        PROVE  Recorded(ByteBits * i + j)' <=> Recorded(ByteBits * i + j) \/ (i = n /\ j = m)
    BY <1>1, <1>5, <1>7 DEF Recorded
  <2>6. ASSUME NEW i \in 0 .. NBytes - 1, NEW j \in 0 .. ByteBits - 1
        PROVE  Bit(bitmap'[i], j) = 1 <=> Recorded(ByteBits * i + j)'
    <3>1. CASE i = n
      BY <1>2, <2>2, <2>4, <2>5, <3>1
    <3>2. CASE i # n
      BY <1>2, <2>4, <2>5, <3>2
    <3> QED BY <3>1, <3>2
  <2>7. received' \subseteq 0 .. total' - 1
    BY <1>1, <1>2
  <2> QED BY <1>1, <1>2, <2>4, <2>6, <2>7 DEF IInv
<1> QED BY <1>6, <1>7

\* The next frame begins with nothing received.
LEMMA DequeueKeeps ==
  ASSUME IInv, Dequeue
  PROVE  IInv'
<1>1. bitmap' \in [0 .. NBytes - 1 -> Bytes] /\ \A i \in 0 .. NBytes - 1 : bitmap'[i] = 0
  BY Sizes DEF Dequeue
<1>2. received' = {} /\ total' \in Totals
  BY DEF Dequeue
<1>3. \A j \in 0 .. ByteBits - 1 : Bit(0, j) = 0
  BY BitOfZero
<1> QED BY <1>1, <1>2, <1>3 DEF IInv, Recorded

\* Every step keeps the invariant.
LEMMA StepKeeps == IInv /\ [Next]_vars => IInv'
<1>1. IInv /\ UNCHANGED vars => IInv'
  BY DEF IInv, Recorded, vars
<1> QED BY <1>1, EnqueueKeeps, DequeueKeeps DEF Next

\* The invariant holds.
LEMMA Invariance == Spec => []IInv
BY InitBits, StepKeeps, PTL DEF Spec

-----------------------------------------------------------------------------
(* Counting them.                                                          *)

\* The packets recorded among the first n.
RecordedBelow(n) == {p \in received : p < n /\ p < PidLimit}

\* The ones among the first m bits of a byte.
OnesBelow(byte, m) == {j \in 0 .. ByteBits - 1 : j < m /\ Bit(byte, j) = 1}

\* They are finitely many, and none are below 0.
LEMMA FiniteCounts ==
  ASSUME IInv
  PROVE  /\ \A n : IsFiniteSet(RecordedBelow(n)) /\ Cardinality(RecordedBelow(n)) \in Nat
         /\ Cardinality(RecordedBelow(0)) = 0 /\ received \subseteq Nat
         /\ \A b, m : IsFiniteSet(OnesBelow(b, m)) /\ Cardinality(OnesBelow(b, m)) \in Nat
<1>1. total \in Nat /\ received \subseteq 0 .. total - 1 /\ received \subseteq Nat
  BY Sizes DEF IInv
<1>2. IsFiniteSet(0 .. total - 1) /\ IsFiniteSet(0 .. ByteBits - 1)
  BY <1>1, Sizes, FS_Interval
<1>3. ASSUME NEW n PROVE IsFiniteSet(RecordedBelow(n)) /\ Cardinality(RecordedBelow(n)) \in Nat
  BY <1>1, <1>2, FS_Subset, FS_CardinalityType DEF RecordedBelow
<1>4. ASSUME NEW b, NEW m
      PROVE  IsFiniteSet(OnesBelow(b, m)) /\ Cardinality(OnesBelow(b, m)) \in Nat
  <2>1. OnesBelow(b, m) \subseteq 0 .. ByteBits - 1
    BY DEF OnesBelow
  <2> QED BY <1>2, <2>1, FS_Subset, FS_CardinalityType
<1>5. RecordedBelow(0) = {}
  <2>1. \A p \in received : ~(p < 0)
    BY <1>1
  <2> QED BY <2>1 DEF RecordedBelow
<1> QED BY <1>1, <1>3, <1>4, <1>5, FS_EmptySet

\* The packets recorded up to the m-th bit of byte i.
LEMMA ByteCounted ==
  ASSUME IInv, NEW i \in 0 .. NBytes - 1, NEW m \in 0 .. ByteBits
  PROVE  Cardinality(RecordedBelow(ByteBits * i + m)) =
           Cardinality(RecordedBelow(ByteBits * i)) + Cardinality(OnesBelow(bitmap[i], m))
<1> DEFINE k == ByteBits * i
           S == OnesBelow(bitmap[i], m)
           A == RecordedBelow(k)
           T == {p \in received : k <= p /\ p < k + m /\ p < PidLimit}
           f == [j \in S |-> k + j]
<1>1. k \in Nat /\ m \in Nat
  BY Sizes
<1>2. \A j \in 0 .. ByteBits - 1 : Bit(bitmap[i], j) = 1 <=> Recorded(k + j)
  BY DEF IInv
<1>3. received \subseteq Nat /\ IsFiniteSet(S) /\ Cardinality(S) \in Nat
      /\ IsFiniteSet(A) /\ Cardinality(A) \in Nat
  BY FiniteCounts
<1> HIDE DEF k
<1>4. f \in Bijection(S, T)
  <2>1. ASSUME NEW j \in S PROVE k + j \in T
    BY <1>1, <1>2 DEF OnesBelow, Recorded
  <2>2. ASSUME NEW p \in T PROVE \E j \in S : k + j = p
    <3>1. p - k \in 0 .. ByteBits - 1 /\ p - k < m /\ k + (p - k) = p
      BY <1>1, <1>3, Sizes
    <3>2. p - k \in S
      BY <1>2, <3>1 DEF OnesBelow, Recorded
    <3> QED BY <3>1, <3>2
  <2>3. \A a, b \in S : k + a = k + b => a = b
    BY <1>1 DEF OnesBelow
  <2> HIDE DEF S, T
  <2> QED BY <2>1, <2>2, <2>3, Fun_IsBij
<1>5. IsFiniteSet(T) /\ Cardinality(T) = Cardinality(S)
  <2> HIDE DEF S, T, f
  <2> QED BY <1>3, <1>4, FS_Bijection DEF ExistsBijection
<1>6. RecordedBelow(k + m) = A \cup T /\ A \cap T = {}
  <2>1. \A p \in received : p < k + m <=> p < k \/ (k <= p /\ p < k + m)
    BY <1>1, <1>3
  <2>2. \A p \in received : ~(p < k /\ k <= p)
    BY <1>1, <1>3
  <2> QED BY <2>1, <2>2 DEF RecordedBelow
<1>7. Cardinality(A \cup T) = Cardinality(A) + Cardinality(S)
  <2> HIDE DEF A, S, T
  <2>1. Cardinality(A \cap T) = 0
    BY <1>6, FS_EmptySet
  <2>2. Cardinality(A \cup T) = Cardinality(A) + Cardinality(T) - Cardinality(A \cap T)
    BY <1>3, <1>5, FS_Union
  <2> QED BY <1>3, <1>5, <2>1, <2>2
<1> QED BY <1>6, <1>7 DEF k

\* The whole bytes before byte n.
LEMMA WholeBytesCounted ==
  ASSUME IInv, NEW n \in 0 .. NBytes
  PROVE  WholeBytes(bitmap, n) = Cardinality(RecordedBelow(ByteBits * n))
<1> DEFINE c(i) == bitmap_check_nr_ones_in_one_byte(bitmap[i])
           P(f) == f = [i \in 0 .. n |-> IF i = 0 THEN 0 ELSE f[i - 1] + c(i - 1)]
           g == [i \in 0 .. n |-> Cardinality(RecordedBelow(ByteBits * i))]
           ones == CHOOSE f : P(f)
<1>1. WholeBytes(bitmap, n) = ones[n]
  BY DEF WholeBytes
<1>2. n \in Nat /\ n <= NBytes
  BY Sizes
<1>3. ASSUME NEW i \in 0 .. NBytes - 1
      PROVE  Cardinality(RecordedBelow(ByteBits * (i + 1))) = Cardinality(RecordedBelow(ByteBits * i)) + c(i)
  <2>1. OnesBelow(bitmap[i], ByteBits) = {j \in 0 .. ByteBits - 1 : Bit(bitmap[i], j) = 1}
    BY Sizes DEF OnesBelow
  <2>2. ByteBits * (i + 1) = ByteBits * i + ByteBits /\ ByteBits \in 0 .. ByteBits
    BY Sizes
  <2> QED BY <2>1, <2>2, ByteCounted DEF bitmap_check_nr_ones_in_one_byte
<1> HIDE DEF c
<1>4. P(g)
  <2>1. ByteBits * 0 = 0
    BY Sizes
  <2>2. ASSUME NEW i \in 0 .. n
        PROVE  g[i] = IF i = 0 THEN 0 ELSE g[i - 1] + c(i - 1)
    <3>1. CASE i = 0
      BY <2>1, <3>1, FiniteCounts
    <3>2. CASE i # 0
      <4>1. i - 1 \in 0 .. NBytes - 1 /\ i - 1 \in 0 .. n /\ (i - 1) + 1 = i
        BY <1>2, <3>2, Sizes
      <4> QED BY <1>3, <3>2, <4>1
    <3> QED BY <3>1, <3>2
  <2> QED BY <2>2
<1>5. P(ones)
  <2> HIDE DEF g, P
  <2> QED BY <1>4
<1> DEFINE S == {k \in Nat : k <= n => ones[k] = g[k]}
<1>6. 0 \in S
  <2>1. ones[0] = 0 /\ g[0] = 0
    <3>1. 0 \in 0 .. n
      BY <1>2
    <3> HIDE DEF ones, g
    <3> QED BY <1>4, <1>5, <3>1
  <2> HIDE DEF ones, g
  <2> QED BY <2>1
<1>7. ASSUME NEW k \in S PROVE k + 1 \in S
  <2> SUFFICES ASSUME k + 1 <= n PROVE ones[k + 1] = g[k + 1]
    OBVIOUS
  <2>1. k + 1 \in 0 .. n /\ k + 1 # 0 /\ (k + 1) - 1 = k /\ ones[k] = g[k]
    BY <1>2
  <2> HIDE DEF ones, g, S
  <2> QED BY <1>4, <1>5, <2>1
<1>8. S = Nat
  <2> HIDE DEF S
  <2> QED BY <1>6, <1>7, Induction DEF S
<1>9. ones[n] = g[n]
  <2> HIDE DEF ones, g
  <2> QED BY <1>2, <1>8
<1> QED BY <1>1, <1>2, <1>9

\* Counting is exact, the byte past the end included.
LEMMA Counted ==
  ASSUME IInv, NEW n \in 0 .. BitmapBits
  PROVE  bitmap_check_nr_ones(bitmap, n) = Cardinality(RecordedBelow(n))
<1> DEFINE i == n \div ByteBits
           m == n % ByteBits
           last == IF i < NBytes THEN bitmap[i] ELSE PastEnd
<1>1. n \in Nat /\ i \in Nat /\ m \in 0 .. ByteBits - 1 /\ n = ByteBits * i + m
  <2>1. n \in Nat
    BY Sizes
  <2> QED BY <2>1, Sizes, Division
<1>2. bitmap_check_nr_ones(bitmap, n) =
        WholeBytes(bitmap, i) + bitmap_check_nr_ones_in_one_byte(last % 2^m)
  BY DEF bitmap_check_nr_ones
<1> HIDE DEF i, m
<1>3. last \in Nat
  <2>1. PastEnd \in Nat
    BY BitmapAssumption
  <2>2. i < NBytes => bitmap[i] \in Nat
    <3>1. i < NBytes => i \in 0 .. NBytes - 1
      BY <1>1, Sizes
    <3> QED BY <3>1, Sizes DEF IInv
  <2> QED BY <2>1, <2>2
<1>4. bitmap_check_nr_ones_in_one_byte(last % 2^m) = Cardinality(OnesBelow(last, m))
  <2>1. m \in Nat /\ 0 .. ByteBits - 1 \subseteq Nat
    BY <1>1
  <2>2. ASSUME NEW j \in 0 .. ByteBits - 1
        PROVE  Bit(last % 2^m, j) = 1 <=> j < m /\ Bit(last, j) = 1
    <3> HIDE DEF last
    <3>1. Bit(last % 2^m, j) = IF j < m THEN Bit(last, j) ELSE 0
      BY <1>3, <2>1, MaskedBits
    <3> QED BY <3>1
  <2>3. {j \in 0 .. ByteBits - 1 : Bit(last % 2^m, j) = 1} = OnesBelow(last, m)
    <3> HIDE DEF last
    <3> QED BY <2>2 DEF OnesBelow
  <2> HIDE DEF last
  <2> QED BY <2>3 DEF bitmap_check_nr_ones_in_one_byte
<1>5. CASE i < NBytes
  <2>1. i \in 0 .. NBytes - 1 /\ i \in 0 .. NBytes /\ m \in 0 .. ByteBits /\ last = bitmap[i]
    BY <1>1, <1>5, Sizes
  <2>2. WholeBytes(bitmap, i) = Cardinality(RecordedBelow(ByteBits * i))
    BY <2>1, WholeBytesCounted
  <2>3. Cardinality(RecordedBelow(ByteBits * i + m)) =
          Cardinality(RecordedBelow(ByteBits * i)) + Cardinality(OnesBelow(bitmap[i], m))
    BY <2>1, ByteCounted
  <2> HIDE DEF last
  <2> QED BY <1>1, <1>2, <1>4, <2>1, <2>2, <2>3
<1>6. CASE ~(i < NBytes)
  <2>1. i = NBytes /\ m = 0
    <3>1. i - NBytes \in Nat
      BY <1>1, <1>6, Sizes
    <3>2. ByteBits * i = BitmapBits + ByteBits * (i - NBytes)
      BY <1>1, Sizes
    <3>3. ByteBits * (i - NBytes) + m <= 0 /\ ByteBits * (i - NBytes) \in Nat
      BY <1>1, <3>1, <3>2, Sizes
    <3>4. m = 0 /\ ByteBits * (i - NBytes) = 0
      BY <1>1, <3>3
    <3>5. i - NBytes = 0
      BY <3>1, <3>4, Sizes
    <3> QED BY <1>1, <3>4, <3>5, Sizes
  <2>2. OnesBelow(last, m) = {}
    BY <2>1 DEF OnesBelow
  <2>3. WholeBytes(bitmap, i) = Cardinality(RecordedBelow(ByteBits * i))
    BY <1>1, <2>1, WholeBytesCounted
  <2>4. n = ByteBits * i
    BY <1>1, <2>1, Sizes
  <2>5. Cardinality(RecordedBelow(n)) \in Nat
    BY FiniteCounts
  <2> HIDE DEF last
  <2> QED BY <1>2, <1>4, <2>2, <2>3, <2>4, <2>5, FS_EmptySet
<1> QED BY <1>5, <1>6

\* Counting the ones of the first n bits gives the number of different packets
\* received among the first n up to PidLimit, and what the first PidLimit give
\* beyond it, whatever the sizes of byte and bitmap, the order of the packets and
\* their duplicates, and whatever byte follows the bitmap (bitmap_set,
\* bitmap_check_nr_ones, the limit of fb_enqueue_packet).
THEOREM CountIsExactHolds == Spec => []CountIsExact
<1>1. IInv => CountIsExact
  <2> SUFFICES ASSUME IInv, NEW n \in 0 .. BitmapBits
               PROVE  /\ n <= PidLimit =>
                           bitmap_check_nr_ones(bitmap, n) =
                             Cardinality({p \in received : p < n})
                      /\ n > PidLimit =>
                           bitmap_check_nr_ones(bitmap, n) =
                             Cardinality({p \in received : p < PidLimit})
    BY DEF CountIsExact
  <2>1. bitmap_check_nr_ones(bitmap, n) = Cardinality(RecordedBelow(n))
    BY Counted
  <2>2. received \subseteq Nat /\ n \in Nat /\ PidLimit \in Nat
    BY FiniteCounts, Sizes, BitmapAssumption
  <2>3. CASE n <= PidLimit
    <3>1. \A p \in received : (p < n /\ p < PidLimit) = (p < n)
      BY <2>2, <2>3
    <3>2. RecordedBelow(n) = {p \in received : p < n}
      BY ONLY <3>1, Zenon DEF RecordedBelow
    <3> QED BY <2>1, <2>2, <2>3, <3>2
  <2>4. CASE n > PidLimit
    <3>1. \A p \in received : (p < n /\ p < PidLimit) = (p < PidLimit)
      BY <2>2, <2>4
    <3>2. RecordedBelow(n) = {p \in received : p < PidLimit}
      BY ONLY <3>1, Zenon DEF RecordedBelow
    <3> QED BY <2>1, <2>2, <2>4, <3>2
  <2> QED BY <2>2, <2>3, <2>4
<1> QED BY <1>1, Invariance, PTL

\* A frame that has arrived whole is ready, if 80 % of its packets are less than
\* the bitmap records: less than 160 packets where it records 128.
THEOREM CompleteIsReadyHolds ==
  ASSUME \A t \in Totals : (8 * t) \div 10 < PidLimit
  PROVE  Spec => []CompleteIsReady
<1>1. IInv => CompleteIsReady
  <2> SUFFICES ASSUME IInv, received = 0 .. total - 1 PROVE Ready
    BY DEF CompleteIsReady
  <2>1. total \in Totals /\ total \in Nat \ {0} /\ total \in 0 .. BitmapBits
    BY Sizes DEF IInv
  <2>2. total_packet = total
    <3>1. 0 \in received
      BY <2>1
    <3> QED BY <3>1 DEF IInv
  <2> DEFINE least == IF total <= PidLimit THEN total ELSE PidLimit
  <2>3. least \in Nat /\ least > (8 * total) \div 10
    BY <2>1, Sizes
  <2>4. RecordedBelow(total) = 0 .. least - 1
    BY <2>1, Sizes DEF RecordedBelow
  <2> HIDE DEF least
  <2>5. Cardinality(0 .. least - 1) = least
    BY <2>3, FS_Interval
  <2>6. bitmap_check_nr_ones(bitmap, total) = least
    BY <2>1, <2>4, <2>5, Counted
  <2> QED BY <2>1, <2>2, <2>3, <2>6 DEF Ready
<1> QED BY <1>1, Invariance, PTL
=============================================================================
