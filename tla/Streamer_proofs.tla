--------------------------- MODULE Streamer_proofs ---------------------------
(***************************************************************************)
(* The streamer, whatever the sizes of the tables, the encodings, the      *)
(* failures of sendto() and the interleaving of the three threads:         *)
(*  - what the encoder wrapper returns lies in the frame where the wrapper *)
(*    says (EncodedIntactHolds), by induction on its layers;               *)
(*  - the variables keep their ranges (TypeCorrect);                       *)
(*  - the feedback thread finds the packet table it needs and the dump     *)
(*    shows finished frames (FeedbackTableFound, DumpOfFinishedFrames);    *)
(*  - the packets of a frame tile it (FrameTiledHolds).                    *)
(* Sum and Concat are recursive functions; that they satisfy their         *)
(* equations, and induction itself, are proved first.                      *)
(***************************************************************************)
EXTENDS Streamer, FunctionTheorems, FiniteSetTheorems, SequenceTheorems, TLAPS

-----------------------------------------------------------------------------
(* Induction and recursion on numbers and along a rank.                    *)

\* Induction on the natural numbers.  The facts below need no operator as a
\* parameter: a set without a least element would be an infinite descent among
\* the subsets of a finite interval.
LEMMA Induction ==
  ASSUME NEW S \in SUBSET Nat, 0 \in S, \A n \in S : n + 1 \in S
  PROVE  S = Nat
<1> SUFFICES ASSUME NEW N \in Nat \ S PROVE FALSE
  OBVIOUS
<1> DEFINE I == 0 .. N
           F == {U \in SUBSET I : \E k \in Nat \ S : U = 0 .. k}
<1>1. IsFiniteSet(I)
  BY FS_Interval
<1>2. IsWellFoundedOn(StrictSubsetOrdering(I), FiniteSubsetsOf(I))
  BY FS_StrictSubsetOrderingWellFounded, <1>1
<1>3. I \in F /\ F \subseteq FiniteSubsetsOf(I)
  BY <1>1, FS_Subset DEF FiniteSubsetsOf
<1>4. PICK U \in F : \A V \in F : ~ (<<V, U>> \in StrictSubsetOrdering(I))
  <2> HIDE DEF F, I
  <2> QED BY <1>2, <1>3, WFMin
<1>5. PICK k \in Nat \ S : U = 0 .. k
  BY <1>4
<1>6. k # 0 /\ k - 1 \in Nat \ S
  BY <1>5
<1>7. 0 .. (k - 1) \in F /\ 0 .. (k - 1) # 0 .. k /\ 0 .. (k - 1) \subseteq 0 .. k
  BY <1>4, <1>5, <1>6
<1>8. QED
  BY <1>4, <1>5, <1>7 DEF StrictSubsetOrdering

\* Induction along a rank.
LEMMA RankInduction ==
  ASSUME NEW D, NEW rank \in [D -> Nat], NEW S \in SUBSET D,
         \A d \in D : (\A c \in D : rank[c] < rank[d] => c \in S) => d \in S
  PROVE  S = D
<1> DEFINE T == {n \in Nat : \A d \in D : rank[d] < n => d \in S}
<1>1. 0 \in T
  OBVIOUS
<1>2. ASSUME NEW n \in T PROVE n + 1 \in T
  <2>1. ASSUME NEW d \in D, rank[d] < n + 1 PROVE d \in S
    <3>1. \A c \in D : rank[c] < rank[d] => c \in S
      BY <2>1
    <3> QED BY <3>1
  <2> QED BY <2>1
<1>3. T = Nat
  <2> HIDE DEF T
  <2> QED BY <1>1, <1>2, Induction DEF T
<1>4. ASSUME NEW d \in D PROVE d \in S
  <2>1. rank[d] + 1 \in T
    BY <1>3
  <2> QED BY <2>1
<1> QED BY <1>4

\* A recursion over D: what it takes to compute the value of an element from
\* the value of its predecessor, which is of lower rank.
WellFoundedRecursion(D, V, rank, pred, e, F) ==
  /\ rank \in [D -> Nat] /\ pred \in [D -> D]
  /\ e \in [D -> V] /\ F \in [D \X V -> V]
  /\ \A d \in D : rank[d] # 0 => rank[pred[d]] < rank[d]

\* There is a function that a well-founded recursion defines.
LEMMA Recursion ==
  ASSUME NEW D, NEW V, NEW rank, NEW pred, NEW e, NEW F,
         WellFoundedRecursion(D, V, rank, pred, e, F)
  PROVE  \E f \in [D -> V] :
           \A d \in D : f[d] = IF rank[d] = 0 THEN e[d] ELSE F[<<d, f[pred[d]]>>]
<1> USE DEF WellFoundedRecursion
<1> DEFINE R(f, n) == \A d \in D : rank[d] < n =>
                        f[d] = IF rank[d] = 0 THEN e[d] ELSE F[<<d, f[pred[d]]>>]
           S == {n \in Nat : \E f \in [D -> V] : R(f, n)}
<1>1. 0 \in S
  <2>1. e \in [D -> V] /\ R(e, 0)
    OBVIOUS
  <2> QED BY <2>1
<1>2. ASSUME NEW n \in S PROVE n + 1 \in S
  <2>1. PICK f \in [D -> V] : R(f, n)
    OBVIOUS
  <2> DEFINE g == [d \in D |-> IF rank[d] = 0 THEN e[d] ELSE F[<<d, f[pred[d]]>>]]
  <2>2. \A d \in D : rank[d] # 0 => F[<<d, f[pred[d]]>>] \in V
    OBVIOUS
  <2>3. g \in [D -> V]
    BY <2>2
  <2>4. ASSUME NEW d \in D, rank[d] # 0, rank[d] < n + 1 PROVE g[pred[d]] = f[pred[d]]
    <3>1. pred[d] \in D /\ rank[pred[d]] < n
      BY <2>4
    <3> QED BY <2>1, <3>1
  <2>5. R(g, n + 1)
    BY <2>4
  <2> HIDE DEF R, g
  <2> QED BY <2>3, <2>5
<1>3. S = Nat
  <2> HIDE DEF S
  <2> QED BY <1>1, <1>2, Induction DEF S
<1>4. ASSUME NEW f \in [D -> V], NEW g \in [D -> V], NEW n \in Nat, R(f, n), R(g, n)
      PROVE  \A d \in D : rank[d] < n => f[d] = g[d]
  <2> DEFINE E == {d \in D : rank[d] < n => f[d] = g[d]}
  <2>1. ASSUME NEW d \in D, \A c \in D : rank[c] < rank[d] => c \in E PROVE d \in E
    <3>1. CASE rank[d] = 0
      BY <1>4, <3>1
    <3>2. CASE rank[d] # 0
      <4>1. pred[d] \in E
        BY <2>1, <3>2
      <4>2. rank[d] < n => rank[pred[d]] < n
        BY <2>1, <3>2
      <4>3. rank[d] < n => f[pred[d]] = g[pred[d]]
        BY <4>1, <4>2
      <4>4. rank[d] < n => f[d] = F[<<d, f[pred[d]]>>] /\ g[d] = F[<<d, g[pred[d]]>>]
        BY <1>4, <2>1, <3>2
      <4> QED BY <4>3, <4>4, <2>1
    <3> QED BY <3>1, <3>2
  <2>2. E = D
    <3> HIDE DEF E
    <3>1. E \in SUBSET D
      BY DEF E
    <3> QED BY <2>1, <3>1, RankInduction
  <2> QED BY <2>2
<1> DEFINE G == [n \in Nat |-> CHOOSE f \in [D -> V] : R(f, n)]
           f == [d \in D |-> G[rank[d] + 1][d]]
<1>5. \A n \in Nat : G[n] \in [D -> V] /\ R(G[n], n)
  BY <1>3
<1> HIDE DEF G
<1>6. f \in [D -> V]
  BY <1>5
<1>7. ASSUME NEW d \in D, rank[d] # 0 PROVE f[d] = F[<<d, f[pred[d]]>>]
  <2> DEFINE n == rank[d] + 1
             m == rank[pred[d]] + 1
  <2>1. n \in Nat /\ m \in Nat /\ m < n /\ pred[d] \in D
    BY <1>7
  <2>2. G[n] \in [D -> V] /\ G[m] \in [D -> V] /\ R(G[n], m) /\ R(G[m], m)
    BY <1>5, <2>1
  <2>3. G[n][pred[d]] = G[m][pred[d]]
    <3> HIDE DEF R
    <3>1. \A c \in D : rank[c] < m => G[n][c] = G[m][c]
      BY <1>4, <2>1, <2>2
    <3> QED BY <3>1, <2>1
  <2>4. G[n][d] = F[<<d, G[n][pred[d]]>>]
    BY <1>5, <1>7, <2>1
  <2> QED BY <2>1, <2>3, <2>4
<1>8. ASSUME NEW d \in D, rank[d] = 0 PROVE f[d] = e[d]
  <2>1. d \in D /\ rank[d] + 1 \in Nat /\ rank[d] < rank[d] + 1
    OBVIOUS
  <2> QED BY <1>5, <1>8, <2>1
<1> HIDE DEF f
<1> QED BY <1>6, <1>7, <1>8

-----------------------------------------------------------------------------
(* Induction and recursion on sequences; Sum.                              *)

\* The tail of a sequence is a shorter sequence.
LEMMA TailShorter ==
  ASSUME NEW A, NEW s \in Seq(A), s # <<>>
  PROVE  /\ Len(s) \in Nat \ {0} /\ Head(s) \in A
         /\ Tail(s) \in Seq(A) /\ Len(Tail(s)) = Len(s) - 1
         /\ \A i \in 1 .. Len(s) - 1 : Tail(s)[i] = s[i + 1]
BY HeadTailProperties, EmptySeq, LenProperties

\* Induction on sequences, from the tail.
LEMMA TailInduction ==
  ASSUME NEW A, NEW S \in SUBSET Seq(A), <<>> \in S,
         \A s \in Seq(A) : s # <<>> /\ Tail(s) \in S => s \in S
  PROVE  S = Seq(A)
<1> DEFINE rank == [s \in Seq(A) |-> Len(s)]
<1>1. rank \in [Seq(A) -> Nat]
  BY LenProperties
<1>2. ASSUME NEW s \in Seq(A), \A t \in Seq(A) : rank[t] < rank[s] => t \in S
      PROVE  s \in S
  <2>1. CASE s = <<>>
    BY <2>1
  <2>2. CASE s # <<>>
    <3>1. Tail(s) \in Seq(A) /\ rank[Tail(s)] < rank[s]
      BY <2>2, TailShorter
    <3> QED BY <1>2, <2>2, <3>1
  <2> QED BY <2>1, <2>2
<1> QED
  <2> HIDE DEF rank
  <2> QED BY <1>1, <1>2, RankInduction

\* What it takes to compute the value of a sequence from its head and the
\* value of its tail.
TailFold(A, V, v, F) == v \in V /\ F \in [A \X V -> V]

\* There is a function that a recursion along the tail defines.
LEMMA TailRecursion ==
  ASSUME NEW A, NEW V, NEW v, NEW F, TailFold(A, V, v, F)
  PROVE  \E f \in [Seq(A) -> V] :
           \A s \in Seq(A) : f[s] = IF s = <<>> THEN v ELSE F[<<Head(s), f[Tail(s)]>>]
<1> USE DEF TailFold
<1> DEFINE D == Seq(A)
           rank == [s \in D |-> Len(s)]
           pred == [s \in D |-> IF s = <<>> THEN <<>> ELSE Tail(s)]
           e == [s \in D |-> v]
           G == [dx \in D \X V |-> IF dx[1] = <<>> THEN v ELSE F[<<Head(dx[1]), dx[2]>>]]
<1>1. rank \in [D -> Nat] /\ pred \in [D -> D] /\ e \in [D -> V]
  BY LenProperties, TailShorter, EmptySeq
<1>2. G \in [D \X V -> V]
  BY TailShorter
<1>3. \A d \in D : rank[d] # 0 => rank[pred[d]] < rank[d]
  BY TailShorter
<1>4. PICK f \in [D -> V] :
        \A d \in D : f[d] = IF rank[d] = 0 THEN e[d] ELSE G[<<d, f[pred[d]]>>]
  <2>1. WellFoundedRecursion(D, V, rank, pred, e, G)
    <3> HIDE DEF D, rank, pred, e, G
    <3> QED BY <1>1, <1>2, <1>3 DEF WellFoundedRecursion
  <2> HIDE DEF D, rank, pred, e, G
  <2> QED BY <2>1, Recursion
<1>5. ASSUME NEW s \in D
      PROVE  f[s] = IF s = <<>> THEN v ELSE F[<<Head(s), f[Tail(s)]>>]
  <2>1. CASE s = <<>>
    BY <1>4, <2>1
  <2>2. CASE s # <<>>
    <3>1. pred[s] = Tail(s) /\ f[Tail(s)] \in V /\ Head(s) \in A
      BY <2>2, <1>1, TailShorter
    <3>2. f[s] = G[<<s, f[Tail(s)]>>]
      BY <1>4, <2>2, <3>1, TailShorter
    <3>3. G[<<s, f[Tail(s)]>>] = F[<<Head(s), f[Tail(s)]>>]
      BY <2>2, <3>1
    <3> QED BY <2>2, <3>2, <3>3
  <2> QED BY <2>1, <2>2
<1> QED BY <1>5

\* Sum is a function and satisfies its equation.
LEMMA SumRecursion ==
  /\ Sum \in [Seq(Nat) -> Nat]
  /\ Sum[<<>>] = 0
  /\ \A s \in Seq(Nat) : s # <<>> => Sum[s] = Head(s) + Sum[Tail(s)]
<1> DEFINE F == [ax \in Nat \X Nat |-> ax[1] + ax[2]]
           P(f) == f = [s \in Seq(Nat) |-> IF s = <<>> THEN 0 ELSE Head(s) + f[Tail(s)]]
<1>1. TailFold(Nat, Nat, 0, F)
  BY DEF TailFold
<1>2. PICK f \in [Seq(Nat) -> Nat] :
        \A s \in Seq(Nat) : f[s] = IF s = <<>> THEN 0 ELSE F[<<Head(s), f[Tail(s)]>>]
  <2> HIDE DEF F
  <2> QED BY <1>1, TailRecursion
<1>3. \A s \in Seq(Nat) : f[s] = IF s = <<>> THEN 0 ELSE Head(s) + f[Tail(s)]
  <2>1. ASSUME NEW s \in Seq(Nat), s # <<>>
        PROVE  F[<<Head(s), f[Tail(s)]>>] = Head(s) + f[Tail(s)]
    BY <2>1, TailShorter
  <2> QED BY <1>2, <2>1
<1>4. P(f)
  BY <1>3
<1>5. P(Sum)
  <2> HIDE DEF P
  <2>1. Sum = CHOOSE g : P(g)
    BY DEF Sum, P
  <2> QED BY <1>4, <2>1
<1>6. \A s \in Seq(Nat) : Sum[s] = IF s = <<>> THEN 0 ELSE Head(s) + Sum[Tail(s)]
  BY <1>5
<1>7. Sum[<<>>] = 0
  BY <1>6, EmptySeq
<1> DEFINE S == {s \in Seq(Nat) : Sum[s] \in Nat}
<1>8. S = Seq(Nat)
  <2>1. <<>> \in S
    BY <1>7, EmptySeq
  <2>2. ASSUME NEW s \in Seq(Nat), s # <<>>, Tail(s) \in S PROVE s \in S
    BY <1>6, <2>2, TailShorter
  <2> HIDE DEF S
  <2>3. S \in SUBSET Seq(Nat)
    BY DEF S
  <2> QED BY <2>1, <2>2, <2>3, TailInduction
<1>9. DOMAIN Sum = Seq(Nat) /\ Sum = [s \in Seq(Nat) |-> Sum[s]]
  BY <1>5
<1> QED BY <1>6, <1>7, <1>8, <1>9

-----------------------------------------------------------------------------
(* The sums of the prefixes of a sequence.                                 *)

\* The first k elements of a sequence.
Prefix(s, k) == [i \in 1 .. k |-> s[i]]

\* A prefix is a sequence; the whole is a prefix, and the empty one is.
LEMMA PrefixProperties ==
  ASSUME NEW A, NEW s \in Seq(A)
  PROVE  /\ \A k \in 0 .. Len(s) : Prefix(s, k) \in Seq(A) /\ Len(Prefix(s, k)) = k
         /\ Prefix(s, 0) = <<>> /\ Prefix(s, Len(s)) = s
<1>1. ASSUME NEW k \in 0 .. Len(s)
      PROVE  Prefix(s, k) \in Seq(A) /\ Len(Prefix(s, k)) = k
  <2>1. k \in Nat /\ \A i \in 1 .. k : s[i] \in A
    BY LenProperties, ElementOfSeq
  <2> QED BY <2>1, IsASeq, LenProperties DEF Prefix
<1>2. 0 \in 0 .. Len(s) /\ Len(s) \in 0 .. Len(s)
  BY LenProperties
<1>3. Prefix(s, 0) = <<>>
  BY <1>1, <1>2, EmptySeq
<1>4. Prefix(s, Len(s)) = s
  BY LenProperties DEF Prefix
<1> QED BY <1>1, <1>3, <1>4

\* The head of a prefix and the rest of it.
LEMMA PrefixHeadTail ==
  ASSUME NEW A, NEW t \in Seq(A), t # <<>>, NEW i \in 1 .. Len(t)
  PROVE  /\ Prefix(t, i) \in Seq(A) /\ Prefix(t, i) # <<>>
         /\ Head(Prefix(t, i)) = t[1]
         /\ Tail(Prefix(t, i)) = Prefix(Tail(t), i - 1)
         /\ t[i] \in A /\ t[1] \in A
         /\ Prefix(Tail(t), i - 1) \in Seq(A)
<1>0. /\ Len(t) \in Nat \ {0} /\ Tail(t) \in Seq(A) /\ Len(Tail(t)) = Len(t) - 1
      /\ \A k \in 1 .. Len(t) - 1 : Tail(t)[k] = t[k + 1]
  BY TailShorter
<1>1. Prefix(t, i) \in Seq(A) /\ Len(Prefix(t, i)) = i
  BY <1>0, PrefixProperties
<1>2. Prefix(t, i) # <<>> /\ Tail(Prefix(t, i)) \in Seq(A) /\ Len(Tail(Prefix(t, i))) = i - 1
      /\ \A k \in 1 .. i - 1 : Tail(Prefix(t, i))[k] = Prefix(t, i)[k + 1]
  BY <1>1, EmptySeq, TailShorter
<1>3. Prefix(Tail(t), i - 1) \in Seq(A) /\ Len(Prefix(Tail(t), i - 1)) = i - 1
  <2>1. i - 1 \in 0 .. Len(Tail(t))
    BY <1>0
  <2> HIDE DEF Prefix
  <2> QED BY <2>1, <1>0, PrefixProperties
<1>4. \A k \in 1 .. i - 1 : Prefix(Tail(t), i - 1)[k] = Tail(Prefix(t, i))[k]
  BY <1>2, <1>0 DEF Prefix
<1>5. Tail(Prefix(t, i)) = Prefix(Tail(t), i - 1)
  BY <1>2, <1>3, <1>4, SeqEqual
<1>6. Head(Prefix(t, i)) = t[1]
  BY <1>1, <1>2, HeadTailProperties DEF Prefix
<1>7. t[i] \in A /\ t[1] \in A
  <2>1. 1 \in 1 .. Len(t)
    BY <1>0
  <2> QED BY <2>1, ElementOfSeq
<1> QED BY <1>1, <1>2, <1>3, <1>5, <1>6, <1>7

\* The sum of the first k + 1 numbers.
LEMMA SumPrefix ==
  ASSUME NEW s \in Seq(Nat), NEW k \in 0 .. Len(s) - 1
  PROVE  Sum[Prefix(s, k + 1)] = Sum[Prefix(s, k)] + s[k + 1]
<1> DEFINE S == {t \in Seq(Nat) :
                   \A j \in 0 .. Len(t) - 1 :
                     Sum[Prefix(t, j + 1)] = Sum[Prefix(t, j)] + t[j + 1]}
<1>1. <<>> \in S
  BY EmptySeq
<1>2. ASSUME NEW t \in Seq(Nat), t # <<>>, Tail(t) \in S PROVE t \in S
  <2> SUFFICES ASSUME NEW j \in 0 .. Len(t) - 1
               PROVE  Sum[Prefix(t, j + 1)] = Sum[Prefix(t, j)] + t[j + 1]
    BY <1>2
  <2>1. /\ Len(t) \in Nat \ {0} /\ Tail(t) \in Seq(Nat) /\ Len(Tail(t)) = Len(t) - 1
        /\ \A i \in 1 .. Len(t) - 1 : Tail(t)[i] = t[i + 1]
    BY <1>2, TailShorter
  <2>2. ASSUME NEW i \in 1 .. Len(t)
        PROVE  /\ Prefix(t, i) \in Seq(Nat) /\ Prefix(t, i) # <<>>
               /\ Head(Prefix(t, i)) = t[1]
               /\ Tail(Prefix(t, i)) = Prefix(Tail(t), i - 1)
               /\ t[i] \in Nat /\ t[1] \in Nat
               /\ Prefix(Tail(t), i - 1) \in Seq(Nat)
    BY <1>2, PrefixHeadTail
  <2>3. Sum[Prefix(t, j + 1)] = t[1] + Sum[Prefix(Tail(t), j)]
    <3>1. j + 1 \in 1 .. Len(t) /\ (j + 1) - 1 = j
      BY <2>1
    <3>2. Sum[Prefix(t, j + 1)] = Head(Prefix(t, j + 1)) + Sum[Tail(Prefix(t, j + 1))]
      BY <3>1, <2>2, SumRecursion
    <3> QED BY <3>1, <3>2, <2>2
  <2>4. CASE j = 0
    <3>1. Prefix(t, 0) = <<>> /\ Prefix(Tail(t), 0) = <<>>
      BY <2>1, PrefixProperties
    <3>2. t[1] \in Nat
      BY <2>1, <2>2
    <3>3. Sum[Prefix(Tail(t), j)] = 0 /\ Sum[Prefix(t, j)] = 0
      BY <3>1, <2>4, SumRecursion
    <3>4. t[j + 1] = t[1]
      BY <2>4
    <3> QED BY <3>2, <3>3, <3>4, <2>3
  <2>5. CASE j # 0
    <3>1. j \in 1 .. Len(t) /\ j - 1 \in 0 .. Len(Tail(t)) - 1 /\ (j - 1) + 1 = j
      BY <2>1, <2>5
    <3>2. Sum[Prefix(t, j)] = t[1] + Sum[Prefix(Tail(t), j - 1)]
      BY <3>1, <2>2, SumRecursion
    <3>3. Sum[Prefix(Tail(t), j)] = Sum[Prefix(Tail(t), j - 1)] + t[j + 1]
      <4>1. \A k2 \in 0 .. Len(Tail(t)) - 1 :
              Sum[Prefix(Tail(t), k2 + 1)] = Sum[Prefix(Tail(t), k2)] + Tail(t)[k2 + 1]
        BY <1>2
      <4>2. Tail(t)[j] = t[j + 1]
        BY <2>1, <3>1
      <4>3. Sum[Prefix(Tail(t), (j - 1) + 1)] = Sum[Prefix(Tail(t), j - 1)] + Tail(t)[(j - 1) + 1]
        BY <4>1, <3>1
      <4> QED BY <4>2, <4>3, <3>1
    <3>4. t[1] \in Nat /\ t[j + 1] \in Nat /\ Sum[Prefix(Tail(t), j - 1)] \in Nat
      BY <3>1, <2>1, <2>2, SumRecursion, ElementOfSeq
    <3>5. Sum[Prefix(t, j + 1)] = t[1] + (Sum[Prefix(Tail(t), j - 1)] + t[j + 1])
      BY <2>3, <3>3, Zenon
    <3>6. \A a, b, c \in Nat : a + (b + c) = (a + b) + c
      OBVIOUS
    <3>7. t[1] + (Sum[Prefix(Tail(t), j - 1)] + t[j + 1]) = (t[1] + Sum[Prefix(Tail(t), j - 1)]) + t[j + 1]
      BY <3>4, <3>6, Zenon
    <3> QED BY <3>2, <3>5, <3>7, Zenon
  <2> QED BY <2>4, <2>5
<1>3. S = Seq(Nat)
  <2> HIDE DEF S
  <2>1. S \in SUBSET Seq(Nat)
    BY DEF S
  <2> QED BY <1>1, <1>2, <2>1, TailInduction
<1> QED BY <1>3

\* The sum of a prefix is a number, and not above the whole.
LEMMA SumOfPrefix ==
  ASSUME NEW s \in Seq(Nat), NEW k \in 0 .. Len(s)
  PROVE  Sum[Prefix(s, k)] \in Nat /\ Sum[Prefix(s, k)] <= Sum[s]
<1> DEFINE P(j) == Sum[Prefix(s, j)]
           T == {n \in Nat : n <= Len(s) => P(Len(s) - n) <= Sum[s]}
<1>1. Len(s) \in Nat /\ \A j \in 0 .. Len(s) : P(j) \in Nat
  BY PrefixProperties, SumRecursion, LenProperties
<1>2. 0 \in T
  BY <1>1, PrefixProperties, SumRecursion
<1>3. ASSUME NEW n \in T PROVE n + 1 \in T
  <2> SUFFICES ASSUME n + 1 <= Len(s) PROVE P(Len(s) - (n + 1)) <= Sum[s]
    OBVIOUS
  <2> DEFINE j == Len(s) - (n + 1)
  <2>1. j \in 0 .. Len(s) - 1 /\ j + 1 = Len(s) - n /\ j + 1 \in 1 .. Len(s)
    BY <1>1
  <2>2. P(j + 1) = P(j) + s[j + 1] /\ s[j + 1] \in Nat
    <3> HIDE DEF j
    <3> QED BY <2>1, SumPrefix, ElementOfSeq
  <2>3. P(j) \in Nat /\ P(j + 1) <= Sum[s] /\ Sum[s] \in Nat
    BY <1>1, <2>1, SumRecursion
  <2> HIDE DEF P, j
  <2>4. P(j) <= Sum[s]
    BY <2>2, <2>3
  <2> QED BY <2>4 DEF j
<1>4. T = Nat
  <2> HIDE DEF T
  <2> QED BY <1>2, <1>3, Induction DEF T
<1>5. Len(s) - k \in Nat /\ Len(s) - k <= Len(s) /\ Len(s) - (Len(s) - k) = k
  BY <1>1
<1> QED
  <2>1. P(Len(s) - (Len(s) - k)) <= Sum[s]
    <3> HIDE DEF P
    <3> QED BY <1>4, <1>5
  <2> QED BY <2>1, <1>1, <1>5

-----------------------------------------------------------------------------
(* Concat, and the types of what is encoded.                               *)

\* What EncodeFrameCV tells of a unit: in which layer, where and how long.
Segment == [layer : Nat, offset : Nat, size : Nat]

\* A function on the positions of a sequence is a sequence as long.
LEMMA SameLength ==
  ASSUME NEW A, NEW B, NEW s \in Seq(A), NEW f \in [DOMAIN s -> B]
  PROVE  f \in Seq(B) /\ Len(f) = Len(s) /\ DOMAIN f = 1 .. Len(s)
BY LenProperties, IsASeq

\* Concat is a function and satisfies its equation.
LEMMA ConcatRecursion ==
  /\ Concat \in [Seq(Seq(Segment)) -> Seq(Segment)]
  /\ Concat[<<>>] = <<>>
  /\ \A s \in Seq(Seq(Segment)) : s # <<>> => Concat[s] = Head(s) \o Concat[Tail(s)]
<1> DEFINE U == Seq(Segment)
           F == [ax \in U \X U |-> ax[1] \o ax[2]]
           P(f) == f = [s \in Seq(U) |-> IF s = <<>> THEN <<>> ELSE Head(s) \o f[Tail(s)]]
<1>1. TailFold(U, U, <<>>, F)
  BY EmptySeq, ConcatProperties DEF TailFold
<1>2. PICK f \in [Seq(U) -> U] :
        \A s \in Seq(U) : f[s] = IF s = <<>> THEN <<>> ELSE F[<<Head(s), f[Tail(s)]>>]
  <2> HIDE DEF F, U
  <2> QED BY <1>1, TailRecursion
<1>3. \A s \in Seq(U) : f[s] = IF s = <<>> THEN <<>> ELSE Head(s) \o f[Tail(s)]
  <2>1. ASSUME NEW s \in Seq(U), s # <<>>
        PROVE  F[<<Head(s), f[Tail(s)]>>] = Head(s) \o f[Tail(s)]
    <3>1. Head(s) \in U /\ Tail(s) \in Seq(U) /\ f[Tail(s)] \in U
      <4> HIDE DEF U
      <4> QED BY <2>1, TailShorter
    <3> HIDE DEF U
    <3> QED BY <3>1
  <2> QED BY <1>2, <2>1
<1>4. P(f)
  <2> HIDE DEF U
  <2> QED BY <1>3
<1>5. P(Concat)
  <2> HIDE DEF P
  <2>1. Concat = CHOOSE g : P(g)
    BY DEF Concat, P, Segment
  <2> QED BY <1>4, <2>1
<1>6. \A s \in Seq(U) : Concat[s] = IF s = <<>> THEN <<>> ELSE Head(s) \o Concat[Tail(s)]
  <2> HIDE DEF U
  <2> QED BY <1>5
<1>7. Concat[<<>>] = <<>>
  BY <1>6, EmptySeq
<1> DEFINE S == {s \in Seq(U) : Concat[s] \in U}
<1>8. S = Seq(U)
  <2>1. <<>> \in S
    BY <1>7, EmptySeq
  <2>2. ASSUME NEW s \in Seq(U), s # <<>>, Tail(s) \in S PROVE s \in S
    <3>1. Head(s) \in U /\ Concat[Tail(s)] \in U
      BY <2>2, TailShorter
    <3>2. Head(s) \o Concat[Tail(s)] \in U
      BY <3>1, ConcatProperties
    <3> QED BY <1>6, <2>2, <3>2
  <2> HIDE DEF S
  <2>3. S \in SUBSET Seq(U)
    BY DEF S
  <2> HIDE DEF U
  <2> QED BY <2>1, <2>2, <2>3, TailInduction
<1>9. Concat = [s \in Seq(U) |-> Concat[s]]
  <2> HIDE DEF U
  <2> QED BY <1>5
<1> QED
  <2>1. Concat \in [Seq(U) -> U]
    <3> HIDE DEF U
    <3> QED BY <1>8, <1>9
  <2> QED BY <1>6, <1>7, <2>1

\* What a bitstream is made of.
LEMMA BitstreamTypes ==
  ASSUME NEW b \in Bitstreams
  PROVE  /\ b \in Seq(Seq(Nat)) /\ Len(b) \in Nat /\ DOMAIN b = 1 .. Len(b)
         /\ \A i \in DOMAIN b :
              /\ b[i] \in Seq(Nat) /\ Len(b[i]) \in Nat /\ DOMAIN b[i] = 1 .. Len(b[i])
              /\ \A j \in DOMAIN b[i] : b[i][j] \in Nat \ {0}
              /\ Len(b[i]) > 1 => i <= Len(b[i])
<1>1. b \in Seq(Seq(Nat \ {0}))
  BY BitstreamsAssumption
<1>2. DOMAIN b = 1 .. Len(b) /\ Len(b) \in Nat
  BY <1>1, LenProperties
<1>3. ASSUME NEW i \in DOMAIN b
      PROVE  /\ b[i] \in Seq(Nat) /\ Len(b[i]) \in Nat /\ DOMAIN b[i] = 1 .. Len(b[i])
             /\ \A j \in DOMAIN b[i] : b[i][j] \in Nat \ {0}
  <2>1. b[i] \in Seq(Nat \ {0})
    BY <1>1, <1>2, ElementOfSeq
  <2>2. Nat \ {0} \subseteq Nat
    OBVIOUS
  <2> QED BY <2>1, <2>2, LenProperties, ElementOfSeq, SeqMonotonic
<1>4. b \in Seq(Seq(Nat))
  BY <1>2, <1>3, IsASeq, <1>1, LenProperties
<1> QED BY <1>2, <1>3, <1>4, BitstreamsAssumption

\* The units of a layer are segments.
LEMMA LayerTypes ==
  ASSUME NEW b \in Bitstreams, NEW i \in DOMAIN b
  PROVE  LayerSegments(b, i) \in Seq(Segment) /\ Len(LayerSegments(b, i)) = Len(b[i])
<1>1. /\ b[i] \in Seq(Nat) /\ Len(b[i]) \in Nat /\ DOMAIN b[i] = 1 .. Len(b[i])
      /\ \A j \in DOMAIN b[i] : b[i][j] \in Nat
      /\ Len(b[i]) > 1 => i <= Len(b[i])
      /\ i \in Nat \ {0}
  BY BitstreamTypes
<1>2. ASSUME NEW j \in DOMAIN b[i]
      PROVE  [layer |-> i, offset |-> IF j = 1 THEN 0 ELSE (j - 1) * b[i][i], size |-> b[i][j]]
               \in Segment
  <2>1. CASE j = 1
    BY <1>1, <2>1 DEF Segment
  <2>2. CASE j # 1
    <3>1. b[i][i] \in Nat /\ j - 1 \in Nat
      BY <1>1, <2>2
    <3>2. \A x, y \in Nat : x * y \in Nat
      OBVIOUS
    <3> QED BY <1>1, <2>2, <3>1, <3>2 DEF Segment
  <2> QED BY <2>1, <2>2
<1>3. LayerSegments(b, i) \in [DOMAIN b[i] -> Segment]
  BY <1>2 DEF LayerSegments
<1> QED BY <1>1, <1>3, SameLength

\* All units of a frame.
Units(b) == Concat[[i \in DOMAIN b |-> LayerSegments(b, i)]]

\* The units of a frame are segments.
LEMMA UnitTypes ==
  ASSUME NEW b \in Bitstreams
  PROVE  Units(b) \in Seq(Segment)
<1>1. [i \in DOMAIN b |-> LayerSegments(b, i)] \in [DOMAIN b -> Seq(Segment)]
  BY LayerTypes
<1>2. [i \in DOMAIN b |-> LayerSegments(b, i)] \in Seq(Seq(Segment))
  BY <1>1, BitstreamTypes, SameLength
<1> QED BY <1>2, ConcatRecursion DEF Units

\* What the encoders return.
LEMMA EncodingTypes == Encodings \subseteq Seq(Segment)
<1>1. ASSUME NEW k \in JpegSizes PROVE Jpeg(k) \in Seq(Segment)
  BY BitstreamsAssumption DEF Jpeg, Segment
<1>2. ASSUME NEW b \in Bitstreams PROVE EncodeFrameCV(b) \in Seq(Segment)
  <2> DEFINE n == Least(Len(Units(b)), MaxSegs)
  <2>1. n \in Nat /\ n <= Len(Units(b))
    BY UnitTypes, LenProperties, BitstreamsAssumption DEF Least
  <2>2. SubSeq(Units(b), 1, n) \in Seq(Segment)
    <3> HIDE DEF n
    <3>1. \A j \in 1 .. n : Units(b)[j] \in Segment
      BY <2>1, UnitTypes, ElementOfSeq, LenProperties
    <3> QED BY <2>1, <3>1, UnitTypes, SubSeqProperties
  <2> QED BY <2>2 DEF EncodeFrameCV, Units
<1> QED BY <1>1, <1>2 DEF Encodings

-----------------------------------------------------------------------------
(* Prefixes of concatenations.                                             *)

\* A prefix of a concatenation, in its first part and beyond it.
LEMMA PrefixOfConcat ==
  ASSUME NEW A, NEW s \in Seq(A), NEW t \in Seq(A)
  PROVE  /\ s \o t \in Seq(A) /\ Len(s \o t) = Len(s) + Len(t)
         /\ \A k \in 0 .. Len(s) : Prefix(s \o t, k) = Prefix(s, k)
         /\ \A k \in 1 .. Len(s) : (s \o t)[k] = s[k]
         /\ \A j \in 1 .. Len(t) : (s \o t)[Len(s) + j] = t[j]
<1>1. /\ s \o t \in Seq(A) /\ Len(s \o t) = Len(s) + Len(t)
      /\ \A k \in 1 .. Len(s) : (s \o t)[k] = s[k]
      /\ Len(s) \in Nat /\ Len(t) \in Nat
  BY ConcatProperties, LenProperties
<1>2. \A j \in 1 .. Len(t) : (s \o t)[Len(s) + j] = t[j]
  <2> SUFFICES ASSUME NEW j \in 1 .. Len(t) PROVE (s \o t)[Len(s) + j] = t[j]
    OBVIOUS
  <2>1. Len(s) + j \in 1 .. Len(s) + Len(t) /\ Len(s) + j > Len(s) /\ (Len(s) + j) - Len(s) = j
    BY <1>1
  <2> QED BY <2>1, <1>1, ConcatProperties
<1>3. ASSUME NEW k \in 0 .. Len(s) PROVE Prefix(s \o t, k) = Prefix(s, k)
  BY <1>1 DEF Prefix
<1> QED BY <1>1, <1>2, <1>3

\* The sum of a sequence and a part of the next.
LEMMA SumOfConcat ==
  ASSUME NEW s \in Seq(Nat), NEW t \in Seq(Nat), NEW j \in 0 .. Len(t)
  PROVE  Sum[Prefix(s \o t, Len(s) + j)] = Sum[s] + Sum[Prefix(t, j)]
<1> DEFINE T == {n \in Nat : n <= Len(t) =>
                   Sum[Prefix(s \o t, Len(s) + n)] = Sum[s] + Sum[Prefix(t, n)]}
<1>0. Len(s) \in Nat /\ Len(t) \in Nat /\ Sum[s] \in Nat
  BY LenProperties, SumRecursion
<1>1. 0 \in T
  <2>1. Prefix(s \o t, Len(s)) = s /\ Prefix(t, 0) = <<>>
    BY <1>0, PrefixOfConcat, PrefixProperties
  <2>2. Len(s) + 0 = Len(s)
    BY <1>0
  <2>3. Sum[Prefix(s \o t, Len(s) + 0)] = Sum[s] /\ Sum[Prefix(t, 0)] = 0
    BY <2>1, <2>2, SumRecursion
  <2> QED BY <2>3, <1>0
<1>2. ASSUME NEW n \in T PROVE n + 1 \in T
  <2> SUFFICES ASSUME n + 1 <= Len(t)
               PROVE  Sum[Prefix(s \o t, Len(s) + (n + 1))] = Sum[s] + Sum[Prefix(t, n + 1)]
    OBVIOUS
  <2>1. n \in 0 .. Len(t) - 1 /\ Len(s) + n \in 0 .. Len(s \o t) - 1 /\ s \o t \in Seq(Nat)
    BY <1>0, PrefixOfConcat
  <2>2. Sum[Prefix(s \o t, (Len(s) + n) + 1)] = Sum[Prefix(s \o t, Len(s) + n)] + (s \o t)[(Len(s) + n) + 1]
    <3> DEFINE m == Len(s) + n
               u == s \o t
    <3>1. m \in 0 .. Len(u) - 1 /\ u \in Seq(Nat)
      BY <2>1
    <3> HIDE DEF m, u
    <3>2. Sum[Prefix(u, m + 1)] = Sum[Prefix(u, m)] + u[m + 1]
      BY <3>1, SumPrefix
    <3> QED BY <3>2 DEF m, u
  <2>3. (Len(s) + n) + 1 = Len(s) + (n + 1)
    BY <1>0
  <2>4. (s \o t)[Len(s) + (n + 1)] = t[n + 1] /\ t[n + 1] \in Nat
    <3>1. n + 1 \in 1 .. Len(t)
      BY <2>1
    <3> QED BY <3>1, PrefixOfConcat, ElementOfSeq
  <2>5. Sum[Prefix(t, n + 1)] = Sum[Prefix(t, n)] + t[n + 1] /\ Sum[Prefix(t, n)] \in Nat
    <3>1. n \in 0 .. Len(t)
      BY <2>1
    <3> QED BY <3>1, <2>1, SumPrefix, SumOfPrefix
  <2>6. Sum[Prefix(s \o t, Len(s) + n)] = Sum[s] + Sum[Prefix(t, n)]
    BY <2>1
  <2>7. Sum[Prefix(s \o t, Len(s) + (n + 1))] = Sum[s] + Sum[Prefix(t, n)] + t[n + 1]
    BY <2>2, <2>3, <2>4, <2>6
  <2> QED BY <2>7, <2>5, <2>4, <1>0
<1>3. T = Nat
  <2> HIDE DEF T
  <2> QED BY <1>1, <1>2, Induction DEF T
<1> QED
  <2>1. j \in T /\ j <= Len(t)
    <3> HIDE DEF T
    <3> QED BY <1>3, <1>0
  <2> QED BY <2>1

\* The sequences in a prefix, put together.
LEMMA ConcatPrefix ==
  ASSUME NEW ss \in Seq(Seq(Segment)), NEW n \in 0 .. Len(ss) - 1
  PROVE  Concat[Prefix(ss, n + 1)] = Concat[Prefix(ss, n)] \o ss[n + 1]
<1> DEFINE U == Seq(Segment)
           S == {t \in Seq(U) :
                   \A j \in 0 .. Len(t) - 1 :
                     Concat[Prefix(t, j + 1)] = Concat[Prefix(t, j)] \o t[j + 1]}
<1> HIDE DEF U
<1>1. <<>> \in S
  <2>1. <<>> \in Seq(U) /\ Len(<<>>) = 0
    BY EmptySeq
  <2>2. 0 .. Len(<<>>) - 1 = {}
    BY <2>1
  <2> QED BY <2>1, <2>2
<1>2. ASSUME NEW t \in Seq(U), t # <<>>, Tail(t) \in S PROVE t \in S
  <2> SUFFICES ASSUME NEW j \in 0 .. Len(t) - 1
               PROVE  Concat[Prefix(t, j + 1)] = Concat[Prefix(t, j)] \o t[j + 1]
    BY <1>2
  <2>1. /\ Len(t) \in Nat \ {0} /\ Tail(t) \in Seq(U) /\ Len(Tail(t)) = Len(t) - 1
        /\ \A i \in 1 .. Len(t) - 1 : Tail(t)[i] = t[i + 1]
    BY <1>2, TailShorter
  <2>2. ASSUME NEW i \in 1 .. Len(t)
        PROVE  /\ Concat[Prefix(t, i)] = t[1] \o Concat[Prefix(Tail(t), i - 1)]
               /\ t[i] \in U /\ t[1] \in U /\ Concat[Prefix(Tail(t), i - 1)] \in U
    <3>1. /\ Prefix(t, i) \in Seq(U) /\ Prefix(t, i) # <<>>
          /\ Head(Prefix(t, i)) = t[1]
          /\ Tail(Prefix(t, i)) = Prefix(Tail(t), i - 1)
          /\ t[i] \in U /\ t[1] \in U
          /\ Prefix(Tail(t), i - 1) \in Seq(U)
      BY <1>2, PrefixHeadTail
    <3> QED BY <3>1, ConcatRecursion DEF U
  <2>3. j + 1 \in 1 .. Len(t) /\ (j + 1) - 1 = j
    BY <2>1
  <2>4. /\ Concat[Prefix(t, j + 1)] = t[1] \o Concat[Prefix(Tail(t), j)]
        /\ t[j + 1] \in U /\ t[1] \in U
    <3>1. Concat[Prefix(t, j + 1)] = t[1] \o Concat[Prefix(Tail(t), (j + 1) - 1)]
      BY <2>2, <2>3
    <3> QED BY <3>1, <2>2, <2>3
  <2>5. CASE j = 0
    <3>1. Concat[Prefix(Tail(t), j)] = <<>> /\ Concat[Prefix(t, j)] = <<>>
      BY <2>1, <2>5, PrefixProperties, ConcatRecursion
    <3>2. t[j + 1] = t[1]
      BY <2>5
    <3> QED BY <2>4, <3>1, <3>2, ConcatEmptySeq DEF U
  <2>6. CASE j # 0
    <3>1. j \in 1 .. Len(t) /\ j - 1 \in 0 .. Len(Tail(t)) - 1 /\ (j - 1) + 1 = j
      BY <2>1, <2>6
    <3>2. /\ Concat[Prefix(t, j)] = t[1] \o Concat[Prefix(Tail(t), j - 1)]
          /\ Concat[Prefix(Tail(t), j - 1)] \in U
      BY <2>2, <3>1
    <3>3. Concat[Prefix(Tail(t), j)] = Concat[Prefix(Tail(t), j - 1)] \o t[j + 1]
      <4>1. \A k \in 0 .. Len(Tail(t)) - 1 :
              Concat[Prefix(Tail(t), k + 1)] = Concat[Prefix(Tail(t), k)] \o Tail(t)[k + 1]
        BY <1>2
      <4>2. Tail(t)[j] = t[j + 1]
        BY <2>1, <3>1
      <4>3. Concat[Prefix(Tail(t), (j - 1) + 1)] = Concat[Prefix(Tail(t), j - 1)] \o Tail(t)[(j - 1) + 1]
        BY <4>1, <3>1
      <4> QED BY <4>2, <4>3, <3>1
    <3>4. t[1] \o (Concat[Prefix(Tail(t), j - 1)] \o t[j + 1])
            = (t[1] \o Concat[Prefix(Tail(t), j - 1)]) \o t[j + 1]
      <4>1. t[1] \in Seq(Segment) /\ t[j + 1] \in Seq(Segment)
        BY <2>4 DEF U
      <4>2. Concat[Prefix(Tail(t), j - 1)] \in Seq(Segment)
        BY <3>2 DEF U
      <4>3. \A x, y, z \in Seq(Segment) : (x \o y) \o z = x \o (y \o z)
        BY ConcatAssociative
      <4> QED BY <4>1, <4>2, <4>3
    <3> QED BY <2>4, <3>2, <3>3, <3>4
  <2> QED BY <2>5, <2>6
<1>3. S = Seq(U)
  <2> HIDE DEF S
  <2>1. S \in SUBSET Seq(U)
    BY DEF S
  <2> QED BY <1>1, <1>2, <2>1, TailInduction
<1> QED BY <1>3 DEF U

-----------------------------------------------------------------------------
(* Where the units of a frame lie.                                         *)

\* The bytes of the segments, of the layers; the units of the first n layers.
Sizes(s) == [i \in DOMAIN s |-> s[i].size]
LayerSums(b) == [i \in DOMAIN b |-> Sum[b[i]]]
UnitsUpTo(b, n) == Concat[Prefix([i \in DOMAIN b |-> LayerSegments(b, i)], n)]

\* The frames EncodedIntact is about.
Ordinary(b) == \A i \in DOMAIN b : Len(b[i]) <= (IF i = 1 THEN 2 ELSE 1)

\* Every segment is where the bytes of the segments before it end.
Placed(b, u) ==
  \A k \in 1 .. Len(u) :
    /\ u[k].layer \in DOMAIN b
    /\ Sum[Prefix(LayerSums(b), u[k].layer - 1)] + u[k].offset = Sum[Prefix(Sizes(u), k - 1)]

\* The sizes of segments are numbers.
LEMMA SizesTypes ==
  ASSUME NEW s \in Seq(Segment)
  PROVE  /\ Sizes(s) \in Seq(Nat) /\ Len(Sizes(s)) = Len(s) /\ Len(s) \in Nat
         /\ \A i \in 1 .. Len(s) : Sizes(s)[i] = s[i].size /\ s[i].size \in Nat /\ s[i].offset \in Nat
         /\ \A n \in 0 .. Len(s) : Prefix(Sizes(s), n) = [i \in 1 .. n |-> s[i].size]
<1>1. Len(s) \in Nat /\ DOMAIN s = 1 .. Len(s) /\ \A i \in 1 .. Len(s) : s[i] \in Segment
  BY LenProperties, ElementOfSeq
<1>2. Sizes(s) \in [DOMAIN s -> Nat]
  BY <1>1 DEF Sizes, Segment
<1>3. Sizes(s) \in Seq(Nat) /\ Len(Sizes(s)) = Len(s)
  BY <1>2, SameLength
<1>4. ASSUME NEW n \in 0 .. Len(s) PROVE Prefix(Sizes(s), n) = [i \in 1 .. n |-> s[i].size]
  <2>1. 1 .. n \subseteq DOMAIN s
    BY <1>1
  <2> QED BY <2>1 DEF Prefix, Sizes
<1> QED BY <1>1, <1>3, <1>4 DEF Sizes, Segment

\* The sizes of layers are numbers.
LEMMA LayerSumsTypes ==
  ASSUME NEW b \in Bitstreams
  PROVE  LayerSums(b) \in Seq(Nat) /\ Len(LayerSums(b)) = Len(b)
<1>1. LayerSums(b) \in [DOMAIN b -> Nat]
  BY BitstreamTypes, SumRecursion DEF LayerSums
<1> QED BY <1>1, BitstreamTypes, SameLength

\* Sizes are taken one by one.
LEMMA SizesOfConcat ==
  ASSUME NEW s \in Seq(Segment), NEW t \in Seq(Segment)
  PROVE  Sizes(s \o t) = Sizes(s) \o Sizes(t)
<1>1. s \o t \in Seq(Segment) /\ Len(s \o t) = Len(s) + Len(t) /\ Len(s) \in Nat /\ Len(t) \in Nat
  BY PrefixOfConcat, LenProperties
<1>2. /\ Sizes(s) \o Sizes(t) \in Seq(Nat) /\ Len(Sizes(s) \o Sizes(t)) = Len(s) + Len(t)
      /\ Sizes(s \o t) \in Seq(Nat) /\ Len(Sizes(s \o t)) = Len(s) + Len(t)
  <2>1. /\ Sizes(s) \in Seq(Nat) /\ Len(Sizes(s)) = Len(s)
        /\ Sizes(t) \in Seq(Nat) /\ Len(Sizes(t)) = Len(t)
        /\ Sizes(s \o t) \in Seq(Nat) /\ Len(Sizes(s \o t)) = Len(s) + Len(t)
    BY <1>1, SizesTypes
  <2>2. \A x, y \in Seq(Nat) : x \o y \in Seq(Nat) /\ Len(x \o y) = Len(x) + Len(y)
    BY ConcatProperties
  <2> QED BY <2>1, <2>2
<1>3. ASSUME NEW i \in 1 .. Len(s) + Len(t)
      PROVE  Sizes(s \o t)[i] = (Sizes(s) \o Sizes(t))[i]
  <2>1. Sizes(s \o t)[i] = (s \o t)[i].size
    BY <1>1, SizesTypes
  <2>2. CASE i <= Len(s)
    <3>1. i \in 1 .. Len(s)
      BY <1>1, <2>2
    <3>2. (s \o t)[i] = s[i] /\ (Sizes(s) \o Sizes(t))[i] = Sizes(s)[i]
      BY <3>1, <1>1, SizesTypes, PrefixOfConcat
    <3> QED BY <2>1, <3>1, <3>2, SizesTypes
  <2>3. CASE i > Len(s)
    <3> DEFINE j == i - Len(s)
    <3>1. j \in 1 .. Len(t) /\ i = Len(s) + j
      BY <1>1, <2>3
    <3> HIDE DEF j
    <3>2. (s \o t)[Len(s) + j] = t[j]
      BY <3>1, PrefixOfConcat
    <3>3. (Sizes(s) \o Sizes(t))[Len(Sizes(s)) + j] = Sizes(t)[j]
      BY <3>1, SizesTypes, PrefixOfConcat
    <3> QED BY <2>1, <3>1, <3>2, <3>3, SizesTypes
  <2>4. i <= Len(s) \/ i > Len(s)
    BY <1>1
  <2> QED BY <2>2, <2>3, <2>4
<1> QED BY <1>2, <1>3, SeqEqual

\* In an ordinary frame LayerSegments finds every unit of a layer.
LEMMA LayerPlaced ==
  ASSUME NEW b \in Bitstreams, Ordinary(b), NEW i \in DOMAIN b
  PROVE  /\ Sizes(LayerSegments(b, i)) = b[i]
         /\ \A j \in 1 .. Len(b[i]) :
              /\ LayerSegments(b, i)[j].layer = i
              /\ LayerSegments(b, i)[j].offset = Sum[Prefix(b[i], j - 1)]
<1>1. /\ b[i] \in Seq(Nat) /\ Len(b[i]) \in Nat /\ DOMAIN b[i] = 1 .. Len(b[i])
      /\ \A j \in DOMAIN b[i] : b[i][j] \in Nat
      /\ Len(b[i]) <= (IF i = 1 THEN 2 ELSE 1)
  BY BitstreamTypes DEF Ordinary
<1>2. Sizes(LayerSegments(b, i)) = b[i]
  <2>1. DOMAIN LayerSegments(b, i) = DOMAIN b[i]
        /\ \A j \in DOMAIN b[i] : LayerSegments(b, i)[j].size = b[i][j]
    BY DEF LayerSegments
  <2>2. Sizes(LayerSegments(b, i)) = [j \in DOMAIN b[i] |-> b[i][j]]
    BY <2>1 DEF Sizes
  <2>3. b[i] = [j \in DOMAIN b[i] |-> b[i][j]]
    BY <1>1
  <2> QED BY <2>2, <2>3
<1>3. ASSUME NEW j \in 1 .. Len(b[i])
      PROVE  /\ LayerSegments(b, i)[j].layer = i
             /\ LayerSegments(b, i)[j].offset = Sum[Prefix(b[i], j - 1)]
  <2>1. /\ LayerSegments(b, i)[j].layer = i
        /\ LayerSegments(b, i)[j].offset = IF j = 1 THEN 0 ELSE (j - 1) * b[i][i]
    BY <1>1 DEF LayerSegments
  <2>2. Sum[Prefix(b[i], 0)] = 0
    BY <1>1, PrefixProperties, SumRecursion
  <2>3. CASE j = 1
    <3>1. j - 1 = 0
      BY <2>3
    <3> QED BY <2>1, <2>2, <2>3, <3>1
  <2>4. CASE j # 1
    <3>1. i = 1 /\ j = 2 /\ Len(b[i]) = 2
      BY <1>1, <2>4
    <3>2. 0 \in 0 .. Len(b[i]) - 1 /\ b[i][1] \in Nat
      BY <3>1, <1>1
    <3>3. Sum[Prefix(b[i], 0 + 1)] = Sum[Prefix(b[i], 0)] + b[i][0 + 1]
      BY <3>2, <1>1, SumPrefix
    <3>4. Sum[Prefix(b[i], 1)] = b[i][1]
      BY <2>2, <3>2, <3>3
    <3>5. (j - 1) * b[i][i] = b[i][1]
      BY <3>1, <3>2
    <3> QED BY <2>1, <2>4, <3>1, <3>4, <3>5
  <2> QED BY <2>3, <2>4
<1> QED BY <1>2, <1>3

\* In an ordinary frame the units of the first m layers lie one behind the other
\* and are all the bytes of these layers.
LEMMA UnitsPlaced ==
  ASSUME NEW b \in Bitstreams, Ordinary(b), NEW m \in 0 .. Len(b)
  PROVE  /\ UnitsUpTo(b, m) \in Seq(Segment) /\ Placed(b, UnitsUpTo(b, m))
         /\ Sum[Sizes(UnitsUpTo(b, m))] = Sum[Prefix(LayerSums(b), m)]
<1> DEFINE L == [i \in DOMAIN b |-> LayerSegments(b, i)]
           Good(n) == /\ UnitsUpTo(b, n) \in Seq(Segment) /\ Placed(b, UnitsUpTo(b, n))
                      /\ Sum[Sizes(UnitsUpTo(b, n))] = Sum[Prefix(LayerSums(b), n)]
           T == {n \in Nat : n <= Len(b) => Good(n)}
<1>0. Len(b) \in Nat /\ DOMAIN b = 1 .. Len(b)
  BY BitstreamTypes
<1>1. L \in Seq(Seq(Segment)) /\ Len(L) = Len(b)
  <2>1. L \in [DOMAIN b -> Seq(Segment)]
    BY LayerTypes
  <2> QED BY <2>1, BitstreamTypes, SameLength
<1>2. 0 \in T
  <2>1. UnitsUpTo(b, 0) = <<>>
    BY <1>1, PrefixProperties, ConcatRecursion DEF UnitsUpTo
  <2>2. <<>> \in Seq(Segment) /\ Len(<<>>) = 0 /\ 1 .. 0 = {}
    BY EmptySeq
  <2>3. Sizes(<<>>) = <<>>
    <3>1. Len(Sizes(<<>>)) = 0 /\ Sizes(<<>>) \in Seq(Nat)
      BY <2>2, SizesTypes
    <3> QED BY <3>1, EmptySeq
  <2>4. Prefix(LayerSums(b), 0) = <<>>
    BY LayerSumsTypes, PrefixProperties
  <2> QED BY <2>1, <2>2, <2>3, <2>4 DEF Placed
<1>3. ASSUME NEW n \in T PROVE n + 1 \in T
  <2> SUFFICES ASSUME n + 1 <= Len(b) PROVE Good(n + 1)
    OBVIOUS
  <2> DEFINE u == UnitsUpTo(b, n)
             s == LayerSegments(b, n + 1)
  <2>1. n \in Nat /\ n \in 0 .. Len(b) - 1 /\ n + 1 \in DOMAIN b /\ Good(n)
    BY <1>0
  <2>2. UnitsUpTo(b, n + 1) = u \o s
    <3>1. Concat[Prefix(L, n + 1)] = Concat[Prefix(L, n)] \o L[n + 1]
      <4> HIDE DEF L
      <4> QED BY <1>1, <2>1, ConcatPrefix
    <3>2. L[n + 1] = s
      BY <2>1
    <3> QED BY <3>1, <3>2 DEF UnitsUpTo
  <2>3. /\ u \in Seq(Segment) /\ s \in Seq(Segment) /\ Len(s) = Len(b[n + 1])
        /\ Len(u) \in Nat /\ Len(s) \in Nat
    BY <2>1, LayerTypes, LenProperties
  <2>4. /\ Sizes(s) = b[n + 1]
        /\ \A j \in 1 .. Len(s) :
             s[j].layer = n + 1 /\ s[j].offset = Sum[Prefix(b[n + 1], j - 1)]
    BY <2>1, <2>3, LayerPlaced
  <2>5. Sizes(u \o s) = Sizes(u) \o Sizes(s)
    BY <2>3, SizesOfConcat
  <2>6. u \o s \in Seq(Segment) /\ Len(u \o s) = Len(u) + Len(s)
    BY <2>3, PrefixOfConcat
  <2>7. Placed(b, u) /\ Sum[Sizes(u)] = Sum[Prefix(LayerSums(b), n)]
    BY <2>1
  <2>8. /\ Sizes(u) \in Seq(Nat) /\ Sizes(s) \in Seq(Nat)
        /\ Len(Sizes(u)) = Len(u) /\ Len(Sizes(s)) = Len(s)
    BY <2>3, SizesTypes
  <2> HIDE DEF u, s
  <2>9. ASSUME NEW j \in 0 .. Len(s)
        PROVE  Sum[Prefix(Sizes(u \o s), Len(u) + j)] = Sum[Sizes(u)] + Sum[Prefix(Sizes(s), j)]
    <3>1. j \in 0 .. Len(Sizes(s))
      BY <2>8
    <3>2. Sum[Prefix(Sizes(u) \o Sizes(s), Len(Sizes(u)) + j)] = Sum[Sizes(u)] + Sum[Prefix(Sizes(s), j)]
      BY <2>8, <3>1, SumOfConcat
    <3> QED BY <2>5, <2>8, <3>2
  <2>10. Placed(b, u \o s)
    <3> SUFFICES ASSUME NEW k \in 1 .. Len(u) + Len(s)
                 PROVE  /\ (u \o s)[k].layer \in DOMAIN b
                        /\ Sum[Prefix(LayerSums(b), (u \o s)[k].layer - 1)] + (u \o s)[k].offset
                             = Sum[Prefix(Sizes(u \o s), k - 1)]
      BY <2>6 DEF Placed
    <3>1. CASE k <= Len(u)
      <4>1. k \in 1 .. Len(u) /\ k - 1 \in 0 .. Len(Sizes(u))
        BY <2>3, <2>8, <3>1
      <4>2. (u \o s)[k] = u[k]
        BY <2>3, <4>1, PrefixOfConcat
      <4>3. Prefix(Sizes(u \o s), k - 1) = Prefix(Sizes(u), k - 1)
        BY <2>5, <2>8, <4>1, PrefixOfConcat
      <4> QED BY <2>7, <4>1, <4>2, <4>3 DEF Placed
    <3>2. CASE k > Len(u)
      <4> DEFINE j == k - Len(u)
      <4>1. j \in 1 .. Len(s) /\ k = Len(u) + j /\ j - 1 \in 0 .. Len(s) /\ k - 1 = Len(u) + (j - 1)
        BY <2>3, <3>2
      <4> HIDE DEF j
      <4>2. (u \o s)[k] = s[j]
        BY <2>3, <4>1, PrefixOfConcat
      <4>3. s[j].layer = n + 1 /\ s[j].offset = Sum[Prefix(Sizes(s), j - 1)]
        BY <2>4, <4>1
      <4>4. Sum[Prefix(Sizes(u \o s), k - 1)] = Sum[Sizes(u)] + Sum[Prefix(Sizes(s), j - 1)]
        BY <2>9, <4>1
      <4>5. (n + 1) - 1 = n
        BY <2>1
      <4> QED BY <2>1, <2>7, <4>2, <4>3, <4>4, <4>5
    <3> QED BY <2>3, <3>1, <3>2
  <2>11. Sum[Sizes(u \o s)] = Sum[Prefix(LayerSums(b), n + 1)]
    <3>1. Prefix(Sizes(u \o s), Len(u) + Len(s)) = Sizes(u \o s) /\ Prefix(Sizes(s), Len(s)) = Sizes(s)
      <4>1. Sizes(u \o s) \in Seq(Nat) /\ Len(Sizes(u \o s)) = Len(u) + Len(s)
        BY <2>6, SizesTypes
      <4> QED BY <2>8, <4>1, PrefixProperties
    <3>2. Sum[Sizes(u \o s)] = Sum[Sizes(u)] + Sum[Sizes(s)]
      <4>1. Len(s) \in 0 .. Len(s)
        BY <2>3
      <4> QED BY <4>1, <2>9, <3>1
    <3>3. Sum[Prefix(LayerSums(b), n + 1)] = Sum[Prefix(LayerSums(b), n)] + LayerSums(b)[n + 1]
      BY <2>1, LayerSumsTypes, SumPrefix
    <3>4. LayerSums(b)[n + 1] = Sum[Sizes(s)]
      BY <2>1, <2>4 DEF LayerSums
    <3> QED BY <2>7, <3>2, <3>3, <3>4
  <2> QED BY <2>2, <2>6, <2>10, <2>11
<1>4. T = Nat
  <2> HIDE DEF T
  <2> QED BY <1>2, <1>3, Induction DEF T
<1>5. m \in T /\ m <= Len(b)
  <2> HIDE DEF T
  <2> QED BY <1>0, <1>4
<1> QED
  <2> HIDE DEF Good
  <2>1. Good(m)
    BY <1>5
  <2> QED BY <2>1 DEF Good

-----------------------------------------------------------------------------
(* What the encoders return.                                               *)

\* What EncodeFrameCV returns of an ordinary frame: segments in their places,
\* and all of the frame if MaxSegs leaves room.
LEMMA EncodedPlaced ==
  ASSUME NEW b \in Bitstreams, Ordinary(b)
  PROVE  /\ EncodeFrameCV(b) \in Seq(Segment)
         /\ Placed(b, EncodeFrameCV(b))
         /\ Len(EncodeFrameCV(b)) < MaxSegs => Bytes(EncodeFrameCV(b)) = FrameSize(b)
<1> DEFINE u == Units(b)
           n == Least(Len(u), MaxSegs)
           s == SubSeq(u, 1, n)
<1>1. u \in Seq(Segment) /\ Placed(b, u) /\ Sum[Sizes(u)] = FrameSize(b)
  <2>1. Len(b) \in 0 .. Len(b)
    BY BitstreamTypes
  <2>2. UnitsUpTo(b, Len(b)) = u
    <3>1. [i \in DOMAIN b |-> LayerSegments(b, i)] \in [DOMAIN b -> Seq(Segment)]
      BY LayerTypes
    <3>2. /\ [i \in DOMAIN b |-> LayerSegments(b, i)] \in Seq(Seq(Segment))
          /\ Len([i \in DOMAIN b |-> LayerSegments(b, i)]) = Len(b)
      BY <3>1, BitstreamTypes, SameLength
    <3>3. Prefix([i \in DOMAIN b |-> LayerSegments(b, i)], Len(b))
            = [i \in DOMAIN b |-> LayerSegments(b, i)]
      <4> DEFINE L == [i \in DOMAIN b |-> LayerSegments(b, i)]
      <4>1. L \in Seq(Seq(Segment)) /\ Len(L) = Len(b)
        BY <3>2
      <4> HIDE DEF L
      <4>2. Prefix(L, Len(b)) = L
        BY <4>1, PrefixProperties
      <4> QED BY <4>2 DEF L
    <3> QED BY <3>3 DEF UnitsUpTo, Units
  <2>3. Prefix(LayerSums(b), Len(b)) = LayerSums(b)
    BY LayerSumsTypes, PrefixProperties
  <2>4. FrameSize(b) = Sum[LayerSums(b)]
    BY DEF FrameSize, LayerSums
  <2> QED BY <2>1, <2>2, <2>3, <2>4, UnitsPlaced
<1>2. EncodeFrameCV(b) = s
  BY DEF EncodeFrameCV, Units
<1> HIDE DEF u
<1>3. n \in Nat /\ n <= Len(u) /\ Len(u) \in Nat /\ (n < MaxSegs => n = Len(u))
  BY <1>1, LenProperties, BitstreamsAssumption DEF Least
<1> HIDE DEF n
<1>4. s \in Seq(Segment) /\ Len(s) = n /\ \A i \in 1 .. n : s[i] = u[i]
  <2>1. \A j \in 1 .. n : u[j] \in Segment
    BY <1>1, <1>3, ElementOfSeq
  <2> QED BY <1>3, <2>1, SubSeqProperties
<1> HIDE DEF s
<1>5. Placed(b, s)
  <2> SUFFICES ASSUME NEW k \in 1 .. n
               PROVE  /\ s[k].layer \in DOMAIN b
                      /\ Sum[Prefix(LayerSums(b), s[k].layer - 1)] + s[k].offset
                           = Sum[Prefix(Sizes(s), k - 1)]
    BY <1>4 DEF Placed
  <2>1. k \in 1 .. Len(u) /\ k - 1 \in 0 .. Len(u) /\ k - 1 \in 0 .. Len(s)
    BY <1>3, <1>4
  <2>2. /\ Prefix(Sizes(s), k - 1) = [i \in 1 .. k - 1 |-> s[i].size]
        /\ Prefix(Sizes(u), k - 1) = [i \in 1 .. k - 1 |-> u[i].size]
    BY <1>1, <1>4, <2>1, SizesTypes
  <2>3. Prefix(Sizes(s), k - 1) = Prefix(Sizes(u), k - 1)
    <3>1. \A i \in 1 .. k - 1 : s[i] = u[i]
      BY <1>3, <1>4
    <3> QED BY <2>2, <3>1
  <2>4. s[k] = u[k]
    BY <1>4
  <2> QED BY <1>1, <2>1, <2>3, <2>4 DEF Placed
<1>6. n < MaxSegs => s = u
  BY <1>1, <1>3, <1>4, SeqEqual
<1>7. Bytes(s) = Sum[Sizes(s)]
  BY DEF Bytes, Sizes
<1> QED BY <1>1, <1>2, <1>4, <1>5, <1>6, <1>7

\* Of a JPEG there is nothing else to send.
LEMMA JpegPlaced ==
  ASSUME NEW k \in JpegSizes
  PROVE  /\ Jpeg(k) \in Seq(Segment) /\ Jpeg(k) # <<>>
         /\ Bytes(Jpeg(k)) = k /\ FrameSize(<<<<k>>>>) = k
<1>1. k \in Nat /\ <<k>> \in Seq(Nat) /\ <<k>> # <<>> /\ Head(<<k>>) = k /\ Tail(<<k>>) = <<>>
  BY BitstreamsAssumption
<1>2. Sum[<<k>>] = k
  <2> DEFINE s == <<k>>
  <2>1. s \in Seq(Nat) /\ s # <<>> /\ Head(s) = k /\ Tail(s) = <<>>
    BY <1>1
  <2> HIDE DEF s
  <2>2. Sum[s] = k + Sum[<<>>] /\ Sum[<<>>] = 0
    BY <2>1, SumRecursion
  <2>3. Sum[s] = k
    BY <1>1, <2>2
  <2> QED BY <2>3 DEF s
<1>3. [i \in DOMAIN Jpeg(k) |-> Jpeg(k)[i].size] = <<k>>
  BY DEF Jpeg
<1>4. [i \in DOMAIN <<<<k>>>> |-> Sum[<<<<k>>>>[i]]] = <<k>>
  BY <1>2
<1>5. Jpeg(k) \in Seq(Segment) /\ Jpeg(k) # <<>>
  BY <1>1 DEF Jpeg, Segment
<1> QED BY <1>2, <1>3, <1>4, <1>5 DEF Bytes, FrameSize

\* The frame about to be recorded is as the encoder returned it.
Encoded ==
  streamer = "record" =>
    \/ \E k \in JpegSizes : layers = <<<<k>>>> /\ segs = Jpeg(k)
    \/ layers \in Bitstreams /\ segs = EncodeFrameCV(layers)

\* EncodedIntact is a fact about the encodings.
LEMMA EncodedFollows == Encoded => EncodedIntact
<1> SUFFICES ASSUME Encoded, streamer = "record", Ordinary(layers)
             PROVE  LET before(s) == Sum[[i \in 1 .. s.layer - 1 |-> Sum[layers[i]]]] + s.offset
                    IN /\ \A k \in DOMAIN segs :
                            before(segs[k]) = Sum[[i \in 1 .. k - 1 |-> segs[i].size]]
                       /\ Len(segs) < MaxSegs => Bytes(segs) = FrameSize(layers)
  BY DEF EncodedIntact, Ordinary
<1>1. CASE \E k \in JpegSizes : layers = <<<<k>>>> /\ segs = Jpeg(k)
  <2>1. PICK k \in JpegSizes : layers = <<<<k>>>> /\ segs = Jpeg(k)
    BY <1>1
  <2>2. Bytes(segs) = FrameSize(layers)
    BY <2>1, JpegPlaced
  <2>3. DOMAIN segs = {1} /\ segs[1].layer = 1 /\ segs[1].offset = 0
    BY <2>1 DEF Jpeg
  <2>4. [i \in 1 .. 1 - 1 |-> Sum[layers[i]]] = <<>> /\ [i \in 1 .. 1 - 1 |-> segs[i].size] = <<>>
    OBVIOUS
  <2>5. Sum[<<>>] = 0
    BY SumRecursion
  <2> QED BY <2>2, <2>3, <2>4, <2>5
<1>2. CASE layers \in Bitstreams /\ segs = EncodeFrameCV(layers)
  <2>1. /\ segs \in Seq(Segment) /\ Placed(layers, segs)
        /\ Len(segs) < MaxSegs => Bytes(segs) = FrameSize(layers)
    BY <1>2, EncodedPlaced
  <2>2. ASSUME NEW k \in DOMAIN segs
        PROVE  Sum[[i \in 1 .. segs[k].layer - 1 |-> Sum[layers[i]]]] + segs[k].offset
                 = Sum[[i \in 1 .. k - 1 |-> segs[i].size]]
    <3>1. Len(segs) \in Nat /\ DOMAIN segs = 1 .. Len(segs)
      BY <2>1, LenProperties
    <3>2. Prefix(Sizes(segs), k - 1) = [i \in 1 .. k - 1 |-> segs[i].size]
      <4>1. k - 1 \in 0 .. Len(segs)
        BY <3>1
      <4> QED BY <2>1, <4>1, SizesTypes
    <3>3. segs[k].layer \in DOMAIN layers
      BY <2>1, <3>1 DEF Placed
    <3>4. DOMAIN layers = 1 .. Len(layers) /\ Len(layers) \in Nat
      BY <1>2, BitstreamTypes
    <3>5. Prefix(LayerSums(layers), segs[k].layer - 1)
            = [i \in 1 .. segs[k].layer - 1 |-> Sum[layers[i]]]
      BY <3>3, <3>4 DEF Prefix, LayerSums
    <3> QED BY <2>1, <3>1, <3>2, <3>5 DEF Placed
  <2> QED BY <2>1, <2>2
<1> QED BY <1>1, <1>2 DEF Encoded

-----------------------------------------------------------------------------
(* The packets of a segment.                                               *)

\* What the codes' loops over packets rest on: a segment with bytes left is one
\* packet and what is left after it.
LEMMA OnePacketLess ==
  ASSUME NEW n \in Nat
  PROVE  /\ NrPackets(n) \in Nat /\ Least(n, PacketSize) \in 0 .. PacketSize
         /\ n - Least(n, PacketSize) \in Nat
         /\ n = 0 => NrPackets(n) = 0
         /\ n > 0 => NrPackets(n) = NrPackets(n - Least(n, PacketSize)) + 1
<1>0. PacketSize \in Nat \ {0}
  BY SizesAssumption
<1>1. n \div PacketSize \in Nat /\ n % PacketSize \in 0 .. PacketSize - 1
  BY <1>0
<1>2. NrPackets(n) \in Nat
  BY <1>1 DEF NrPackets
<1>3. Least(n, PacketSize) \in 0 .. PacketSize /\ n - Least(n, PacketSize) \in Nat
  BY <1>0 DEF Least
<1>4. 0 \div PacketSize = 0 /\ 0 % PacketSize = 0
  BY <1>0
<1>5. NrPackets(0) = 0
  BY <1>4 DEF NrPackets
<1>6. ASSUME n > 0 PROVE NrPackets(n) = NrPackets(n - Least(n, PacketSize)) + 1
  <2>1. CASE n < PacketSize
    <3>1. n \div PacketSize = 0 /\ n % PacketSize = n /\ n - Least(n, PacketSize) = 0
      BY <1>0, <2>1 DEF Least
    <3> QED BY <3>1, <1>5, <1>6 DEF NrPackets
  <2>2. CASE n >= PacketSize
    <3>1. n - Least(n, PacketSize) = n - PacketSize /\ n - PacketSize \in Nat
      BY <1>0, <2>2 DEF Least
    <3>2. /\ (n - PacketSize) \div PacketSize = n \div PacketSize - 1
          /\ (n - PacketSize) % PacketSize = n % PacketSize
      BY <1>0, <2>2
    <3> QED BY <1>1, <3>1, <3>2 DEF NrPackets
  <2> QED BY <1>0, <2>1, <2>2
<1> QED BY <1>2, <1>3, <1>5, <1>6

-----------------------------------------------------------------------------
(* The types.                                                              *)

\* The numbers of packets of the segments.
PacketCounts(s) == [i \in DOMAIN s |-> NrPackets(s[i].size)]

\* The streamer thread is in send_frame().
Sending == streamer \in {"send", "stampState", "stampTime", "endSegment"}

\* What the types rest on besides themselves: no frame is made beyond the last
\* but by a thread about to stop, and the segment at hand is one of the frame's.
Cursors ==
  /\ fid < MaxFrames \/ (streamer = "loop" /\ stop_streamer) \/ streamer = "done"
  /\ Sending /\ segs # <<>> => seg \in 1 .. Len(segs)

\* The inductive invariant of the types.
TypeInv == TypeOK /\ Cursors

\* The segments at hand are segments, and their packets fit the frame's table.
LEMMA SegmentTypes ==
  ASSUME TypeOK
  PROVE  /\ segs \in Seq(Segment) /\ Len(segs) \in Nat
         /\ \A k \in 1 .. Len(segs) : segs[k].size \in Nat
         /\ TotalPackets(segs) \in 1 .. PacketPerFrameMax
         /\ Sum[PacketCounts(segs)] \in Nat /\ Bytes(segs) \in Nat
         /\ PacketCounts(segs) \in Seq(Nat) /\ Len(PacketCounts(segs)) = Len(segs)
         /\ TotalPackets(segs) = IF Sum[PacketCounts(segs)] = 0 THEN 1 ELSE Sum[PacketCounts(segs)]
<1>1. segs \in Seq(Segment) /\ Len(segs) \in Nat
  BY EncodingTypes, EmptySeq, LenProperties DEF TypeOK
<1>2. \A k \in 1 .. Len(segs) : segs[k].size \in Nat
  BY <1>1, SizesTypes
<1>3. PacketCounts(segs) \in Seq(Nat) /\ Len(PacketCounts(segs)) = Len(segs)
  <2>1. DOMAIN segs = 1 .. Len(segs)
    BY <1>1, LenProperties
  <2>2. PacketCounts(segs) \in [DOMAIN segs -> Nat]
    BY <1>2, <2>1, OnePacketLess DEF PacketCounts
  <2> QED BY <1>1, <2>2, SameLength
<1>4. Sum[PacketCounts(segs)] \in Nat
  BY <1>3, SumRecursion
<1>5. TotalPackets(segs) = IF Sum[PacketCounts(segs)] = 0 THEN 1 ELSE Sum[PacketCounts(segs)]
  BY DEF TotalPackets, PacketCounts
<1>6. Bytes(segs) \in Nat
  <2>1. Bytes(segs) = Sum[Sizes(segs)]
    BY DEF Bytes, Sizes
  <2> QED BY <1>1, <2>1, SizesTypes, SumRecursion
<1>7. TotalPackets(segs) <= PacketPerFrameMax
  <2>1. CASE segs \in Encodings
    BY <2>1, FramesFit
  <2>2. CASE segs = <<>>
    <3>1. PacketCounts(segs) = <<>>
      <4>1. Len(PacketCounts(segs)) = 0
        BY <1>3, <2>2, EmptySeq
      <4> QED BY <1>3, <4>1, EmptySeq
    <3> QED BY <3>1, <1>5, SumRecursion, SizesAssumption
  <2> QED BY <2>1, <2>2 DEF TypeOK
<1>8. TotalPackets(segs) \in Nat \ {0}
  BY <1>4, <1>5
<1> QED BY <1>1, <1>2, <1>3, <1>4, <1>5, <1>6, <1>7, <1>8, SizesAssumption

\* frame_size_encoded is a number.
LEMMA FrameSizeType == ASSUME TypeOK PROVE FrameSize(layers) \in Nat
<1>1. CASE layers \in Bitstreams
  BY <1>1, LayerSumsTypes, SumRecursion DEF FrameSize, LayerSums
<1>2. CASE layers \in {<<<<k>>>> : k \in JpegSizes}
  BY <1>2, JpegPlaced, BitstreamsAssumption
<1>3. CASE layers = <<>>
  <2>1. [i \in DOMAIN layers |-> Sum[layers[i]]] = <<>>
    BY <1>3
  <2> QED BY <2>1, SumRecursion DEF FrameSize
<1> QED BY <1>1, <1>2, <1>3 DEF TypeOK

\* Updates of one row, and of one packet of a row.
LEMMA RowUpdated ==
  ASSUME NEW A, NEW V, NEW f \in [A -> V], NEW a, NEW v \in V
  PROVE  [f EXCEPT ![a] = v] \in [A -> V]
OBVIOUS

\* One packet of one row is updated.
LEMMA PacketUpdated ==
  ASSUME NEW A, NEW B, NEW V, NEW f \in [A -> [B -> V]], NEW a, NEW b, NEW v \in V
  PROVE  [f EXCEPT ![a] = [@ EXCEPT ![b] = v]] \in [A -> [B -> V]]
<1>1. CASE a \in A
  <2>1. [f[a] EXCEPT ![b] = v] \in [B -> V]
    BY <1>1
  <2>2. [f EXCEPT ![a] = [@ EXCEPT ![b] = v]] = [f EXCEPT ![a] = [f[a] EXCEPT ![b] = v]]
    BY <1>1
  <2> QED BY <2>1, <2>2
<1>2. CASE a \notin A
  BY <1>2
<1> QED BY <1>1, <1>2

\* The initial states are typed.
LEMMA InitTyped == Init => TypeInv
<1> SUFFICES ASSUME Init PROVE TypeInv
  OBVIOUS
<1>1. TypeOK
  <2>1. /\ 0 \in 0 .. MaxFrames /\ 0 \in Frames /\ 0 \in 0 .. PidModulus - 1
        /\ 0 \in 0 .. PacketPerFrameMax /\ 0 \in 0 .. FmetaSize
        /\ <<0, 0>> \in packet_feedback
    BY SizesAssumption DEF Frames, PacketIds, packet_feedback
  <2>2. /\ fstate \in [Rows -> 0 .. 2] /\ ftotal \in [Rows -> 0 .. PacketPerFrameMax]
        /\ ftable \in [Rows -> BOOLEAN]
        /\ pstate \in [Rows -> [Pids -> 0 .. 2]] /\ psent \in [Rows -> [Pids -> BOOLEAN]]
        /\ prtt \in [Rows -> [Pids -> {"none", "air", "bogus"}]]
    BY <2>1 DEF Init
  <2> QED BY <2>1, <2>2 DEF Init, OpenCamera, TypeOK
<1>2. Cursors
  BY SizesAssumption DEF Init, OpenCamera, Cursors, Sending
<1> QED BY <1>1, <1>2 DEF TypeInv

\* The feedback thread writes the packet table and its own cursor.
LEMMA FeedbackTypes == TypeInv /\ FeedbackStep => TypeInv'
<1> SUFFICES ASSUME TypeInv, FeedbackStep PROVE TypeInv'
  OBVIOUS
<1>0. TypeOK /\ Cursors
  BY DEF TypeInv
<1>1. UNCHANGED <<streamer, loopVars, sent, ftotal, ftable, psent, last_fid, mainVars>>
  BY DEF FeedbackStep, TestStop, ReceiveTimesOut, PacketFeedback, SetRtt, SetState,
         FrameFeedback, frameTable, packetTable
<1>2. Cursors'
  BY <1>0, <1>1 DEF Cursors, Sending, loopVars, mainVars
<1>3. /\ fstate' \in [Rows -> 0 .. 2] /\ pstate' \in [Rows -> [Pids -> 0 .. 2]]
      /\ prtt' \in [Rows -> [Pids -> {"none", "air", "bogus"}]]
      /\ feedback' \in {"test", "recvfrom", "rtt", "state", "done", "wild"}
      /\ answer' \in packet_feedback
  <2> USE DEF TypeOK, frameTable, packetTable
  <2>1. CASE TestStop \/ ReceiveTimesOut
    BY <1>0, <2>1 DEF TestStop, ReceiveTimesOut
  <2>2. CASE PacketFeedback
    <3>1. PICK p \in sent : answer' = <<p.fid, p.pid>>
      BY <2>2 DEF PacketFeedback
    <3>2. answer' \in packet_feedback
      BY <1>0, <3>1 DEF frame_packet, packet_feedback
    <3> QED BY <1>0, <2>2, <3>2 DEF PacketFeedback
  <2>3. CASE SetRtt
    <3>1. prtt \in [Rows -> [Pids -> {"none", "air", "bogus"}]]
      BY <1>0
    <3>2. \A f, p : \A v \in {"none", "air", "bogus"} :
            [prtt EXCEPT ![f] = [@ EXCEPT ![p] = v]] \in [Rows -> [Pids -> {"none", "air", "bogus"}]]
      BY <3>1, PacketUpdated, Zenon
    <3>3. CASE prtt' = prtt
      BY <1>0, <2>3, <3>3 DEF SetRtt
    <3>4. CASE prtt' # prtt
      <4> DEFINE v == IF psent[answer[1]][answer[2]] THEN "air" ELSE "bogus"
      <4>1. prtt' = [prtt EXCEPT ![answer[1]] = [@ EXCEPT ![answer[2]] = v]]
        BY <2>3, <3>4 DEF SetRtt
      <4>2. v \in {"none", "air", "bogus"}
        OBVIOUS
      <4> HIDE DEF v
      <4>3. prtt' \in [Rows -> [Pids -> {"none", "air", "bogus"}]]
        BY <3>2, <4>1, <4>2
      <4> QED BY <1>0, <2>3, <4>3 DEF SetRtt
    <3> QED BY <3>3, <3>4
  <2>4. CASE SetState
    <3>1. <<0, 0>> \in packet_feedback
      BY SizesAssumption DEF packet_feedback, Frames, PacketIds
    <3>2. pstate' \in [Rows -> [Pids -> 0 .. 2]]
      <4>1. \A f, p : [pstate EXCEPT ![f] = [@ EXCEPT ![p] = 2]] \in [Rows -> [Pids -> 0 .. 2]]
        <5>1. pstate \in [Rows -> [Pids -> 0 .. 2]] /\ 2 \in 0 .. 2
          BY <1>0
        <5> QED BY <5>1, PacketUpdated, Zenon
      <4> QED BY <2>4, <4>1 DEF SetState
    <3> QED BY <1>0, <2>4, <3>1, <3>2 DEF SetState
  <2>5. CASE FrameFeedback
    <3>1. PICK f \in Frames : fstate' = IF f < FmetaSize THEN [fstate EXCEPT ![f] = 2] ELSE fstate
      BY <2>5 DEF FrameFeedback
    <3>2. fstate' \in [Rows -> 0 .. 2]
      BY <1>0, <3>1, RowUpdated
    <3> QED BY <1>0, <2>5, <3>2 DEF FrameFeedback
  <2> QED BY <2>1, <2>2, <2>3, <2>4, <2>5 DEF FeedbackStep
<1>4. TypeOK'
  BY <1>0, <1>1, <1>3 DEF TypeOK, loopVars, mainVars
<1> QED BY <1>2, <1>4 DEF TypeInv

\* The main thread writes its cursor and the stop flags.
LEMMA MainTypes == TypeInv /\ MainStep => TypeInv'
<1> SUFFICES ASSUME TypeInv, MainStep PROVE TypeInv'
  OBVIOUS
<1>0. TypeOK /\ Cursors
  BY DEF TypeInv
<1>1. UNCHANGED <<streamer, loopVars, sent, frameTable, packetTable, last_fid, feedbackVars>>
  BY DEF MainStep, EndShow, DumpRow, StopThreads, Join
<1>2. /\ main' \in {"show", "dump", "stop", "joinStreamer", "joinFeedback", "exit"}
      /\ row' \in 0 .. FmetaSize
      /\ stop_streamer' \in BOOLEAN /\ stop_feedback' \in BOOLEAN
      /\ stop_streamer => stop_streamer'
  <2>0. /\ main \in {"show", "dump", "stop", "joinStreamer", "joinFeedback", "exit"}
        /\ row \in 0 .. FmetaSize /\ stop_streamer \in BOOLEAN /\ stop_feedback \in BOOLEAN
    BY <1>0 DEF TypeOK
  <2>1. CASE EndShow \/ StopThreads \/ Join
    BY <2>0, <2>1 DEF EndShow, StopThreads, Join
  <2>2. CASE DumpRow
    <3>1. row' \in 0 .. FmetaSize
      BY <2>0, <2>2, SizesAssumption DEF DumpRow, MoreRows
    <3> QED BY <2>0, <2>2, <3>1 DEF DumpRow
  <2> QED BY <2>1, <2>2 DEF MainStep
<1>3. TypeOK'
  BY <1>0, <1>1, <1>2 DEF TypeOK, loopVars, frameTable, packetTable, feedbackVars
<1>4. Cursors'
  BY <1>0, <1>1, <1>2 DEF Cursors, Sending, loopVars
<1> QED BY <1>3, <1>4 DEF TypeInv

\* What the streamer thread's steps must leave typed.
StreamerTypes ==
  /\ streamer \in {"loop", "record", "setLast", "send", "stampState",
                   "stampTime", "endSegment", "finish", "pace", "done", "wild"}
  /\ codec \in {0, 1} /\ fid \in 0 .. MaxFrames
  /\ layers \in Bitstreams \cup {<<<<k>>>> : k \in JpegSizes} \cup {<<>>}
  /\ segs \in Encodings \cup {<<>>}
  /\ seg \in Nat /\ remain \in Nat /\ frame_offset \in Nat /\ byte_offset \in Nat
  /\ pid \in 0 .. PidModulus - 1 /\ pid_offset \in 0 .. PidModulus - 1
  /\ failed \in BOOLEAN /\ last_fid \in Frames
TableTypes ==
  /\ sent \subseteq frame_packet
  /\ fstate \in [Rows -> 0 .. 2] /\ ftotal \in [Rows -> 0 .. PacketPerFrameMax]
  /\ ftable \in [Rows -> BOOLEAN]
  /\ pstate \in [Rows -> [Pids -> 0 .. 2]] /\ psent \in [Rows -> [Pids -> BOOLEAN]]
  /\ prtt \in [Rows -> [Pids -> {"none", "air", "bogus"}]]

\* The parts together.
LEMMA TypesJoined ==
  ASSUME TypeInv, UNCHANGED <<feedbackVars, mainVars>>,
         StreamerTypes', TableTypes', Cursors'
  PROVE  TypeInv'
BY DEF TypeInv, TypeOK, StreamerTypes, TableTypes, feedbackVars, mainVars

\* The parts apart.
LEMMA TypesParted ==
  ASSUME TypeInv
  PROVE  TypeOK /\ StreamerTypes /\ TableTypes /\ Cursors
BY DEF TypeInv, TypeOK, StreamerTypes, TableTypes

\* The steps that write a table and nothing else but where the thread is.
LEMMA RecordTypes ==
  TypeInv /\ (Record \/ StampState \/ Finish \/ SendPacket) => TypeInv'
<1> SUFFICES ASSUME TypeInv, Record \/ StampState \/ Finish \/ SendPacket PROVE TypeInv'
  OBVIOUS
<1>1. /\ UNCHANGED <<loopVars, last_fid, feedbackVars, mainVars>>
      /\ streamer' \in {"setLast", "stampTime", "pace", "stampState", "wild"}
      /\ Sending' => Sending
      /\ streamer # "loop" /\ streamer # "done"
  BY DEF Record, StampState, Finish, SendPacket, Sending
<1>2. TypeOK /\ StreamerTypes /\ TableTypes /\ Cursors
  BY TypesParted
<1>3. StreamerTypes' /\ Cursors'
  BY <1>1, <1>2 DEF StreamerTypes, Cursors, loopVars, mainVars
<1>4. TableTypes'
  <2> USE DEF TableTypes, frameTable, packetTable
  <2>1. CASE Record
    <3>1. fstate' \in [Rows -> 0 .. 2] /\ ftable' \in [Rows -> BOOLEAN]
      BY <1>2, <2>1, RowUpdated DEF Record
    <3> QED BY <1>2, <2>1, <3>1 DEF Record
  <2>2. CASE StampState
    <3>1. pstate' \in [Rows -> [Pids -> 0 .. 2]]
      <4>1. \A f, p : [pstate EXCEPT ![f] = [@ EXCEPT ![p] = 1]] \in [Rows -> [Pids -> 0 .. 2]]
        <5>1. pstate \in [Rows -> [Pids -> 0 .. 2]] /\ 1 \in 0 .. 2
          BY <1>2
        <5> QED BY <5>1, PacketUpdated, Zenon
      <4>2. pstate' = pstate \/ pstate' = [pstate EXCEPT ![fid] = [@ EXCEPT ![pid] = 1]]
        BY <2>2 DEF StampState
      <4> QED BY <1>2, <4>1, <4>2
    <3> QED BY <1>2, <2>2, <3>1 DEF StampState
  <2>3. CASE Finish
    <3>1. TotalPackets(segs) \in 0 .. PacketPerFrameMax
      BY <1>2, SegmentTypes
    <3>2. ftotal' \in [Rows -> 0 .. PacketPerFrameMax]
      BY <1>2, <2>3, <3>1, RowUpdated DEF Finish
    <3> QED BY <1>2, <2>3, <3>2 DEF Finish
  <2>4. CASE SendPacket
    <3>1. fid \in Frames /\ pid \in PacketIds /\ 0 \in PacketIds
      BY <1>1, <1>2, <2>4, SizesAssumption
      DEF SendPacket, StreamerTypes, Cursors, Frames, PacketIds
    <3>2. EmptyPacket \in frame_packet
      BY <3>1, SizesAssumption DEF EmptyPacket, frame_packet
    <3>3. SegmentPacket \in frame_packet
      <4>1. Least(remain, PacketSize) \in 0 .. PacketSize /\ frame_offset \in Nat
        BY <1>2, OnePacketLess DEF StreamerTypes
      <4> QED BY <1>2, <3>1, <4>1, SegmentTypes, FrameSizeType DEF SegmentPacket, frame_packet
    <3> QED BY <1>2, <2>4, <3>2, <3>3 DEF SendPacket
  <2> QED BY <2>1, <2>2, <2>3, <2>4
<1> QED BY <1>1, <1>3, <1>4, TypesJoined

\* The steps of the thread's loop that write no table.
LEMMA LoopTypes == TypeInv /\ (StreamerStops \/ Encode \/ Pace \/ SetLast) => TypeInv'
<1> SUFFICES ASSUME TypeInv, StreamerStops \/ Encode \/ Pace \/ SetLast PROVE TypeInv'
  OBVIOUS
<1>1. UNCHANGED <<sent, frameTable, packetTable, feedbackVars, mainVars>>
  BY DEF StreamerStops, Encode, Pace, SetLast
<1>2. TypeOK /\ StreamerTypes /\ TableTypes /\ Cursors
  BY TypesParted
<1>3. TableTypes'
  BY <1>1, <1>2 DEF TableTypes, frameTable, packetTable
<1>4. StreamerTypes' /\ Cursors'
  <2>1. CASE StreamerStops
    BY <1>2, <2>1 DEF StreamerStops, StreamerTypes, Cursors, Sending, loopVars, mainVars
  <2>2. CASE Encode
    <3>1. /\ layers' \in Bitstreams \cup {<<<<k>>>> : k \in JpegSizes}
          /\ segs' \in Encodings
      BY <2>2 DEF Encode, Encodings
    <3> QED BY <1>2, <2>2, <3>1 DEF Encode, StreamerTypes, Cursors, Sending, mainVars
  <2>3. CASE Pace
    <3>1. fid < MaxFrames
      BY <1>2, <2>3 DEF Pace, Cursors
    <3> QED BY <1>2, <2>3, <3>1, SizesAssumption
            DEF Pace, StreamerTypes, Cursors, Sending, mainVars
  <2>4. CASE SetLast
    <3>1. fid < MaxFrames
      BY <1>2, <2>4 DEF SetLast, Cursors
    <3>2. segs # <<>> => 1 \in 1 .. Len(segs) /\ segs[1].size \in Nat
      <4>1. segs # <<>> => Len(segs) # 0
        BY <1>2, SegmentTypes, EmptySeq
      <4> QED BY <1>2, <4>1, SegmentTypes
    <3>3. StreamerTypes'
      BY <1>2, <2>4, <3>1, <3>2, SizesAssumption DEF SetLast, StreamerTypes, SegmentStart, Frames
    <3> QED BY <1>2, <2>4, <3>1, <3>2, <3>3 DEF SetLast, Cursors, Sending, mainVars
  <2> QED BY <2>1, <2>2, <2>3, <2>4
<1> QED BY <1>1, <1>3, <1>4, TypesJoined

\* The cursors move by a packet.
LEMMA StampTypes == TypeInv /\ StampTime => TypeInv'
<1> SUFFICES ASSUME TypeInv, StampTime PROVE TypeInv'
  OBVIOUS
<1>2. TypeOK /\ StreamerTypes /\ TableTypes /\ Cursors
  BY TypesParted
<1>3. TableTypes'
  BY <1>2 DEF StampTime, TableTypes, frameTable
<1>4. remain' \in Nat /\ frame_offset' \in Nat /\ pid' \in 0 .. PidModulus - 1
  <2>1. remain - Least(remain, PacketSize) \in Nat /\ Least(remain, PacketSize) \in Nat
    <3>1. remain \in Nat /\ PacketSize \in Nat
      BY <1>2, SizesAssumption DEF StreamerTypes
    <3>2. remain - Least(remain, PacketSize) \in Nat /\ Least(remain, PacketSize) \in 0 .. PacketSize
      BY <3>1, OnePacketLess
    <3> QED BY <3>1, <3>2
  <2> QED BY <1>2, <2>1, SizesAssumption DEF StampTime, StreamerTypes
<1>5. StreamerTypes' /\ Cursors'
  BY <1>2, <1>4 DEF StampTime, StreamerTypes, Cursors, Sending, mainVars
<1> QED BY <1>3, <1>5, TypesJoined DEF StampTime

\* The cursors move to the next segment.
LEMMA NextSegmentTypes == TypeInv /\ (SendFails \/ EndSegment) => TypeInv'
<1> SUFFICES ASSUME TypeInv, SendFails \/ EndSegment PROVE TypeInv'
  OBVIOUS
<1>1. /\ UNCHANGED <<codec, fid, layers, segs, sent, frameTable, packetTable, last_fid>>
      /\ UNCHANGED <<feedbackVars, mainVars>> /\ failed' \in BOOLEAN
      /\ streamer \in {"send", "endSegment"}
  BY TypesParted DEF SendFails, EndSegment, StreamerTypes
<1>2. TypeOK /\ StreamerTypes /\ TableTypes /\ Cursors
  BY TypesParted
<1>3. TableTypes'
  BY <1>1, <1>2 DEF TableTypes, frameTable, packetTable
<1>4. segs # <<>> => seg \in 1 .. Len(segs) /\ segs[seg].size \in Nat
  BY <1>1, <1>2, SegmentTypes DEF Cursors, Sending
<1>5. \/ \E pids \in Int, bytes \in Nat : NextSegment(pids, bytes)
      \/ /\ UNCHANGED <<seg, remain, pid, frame_offset, pid_offset, byte_offset>>
         /\ streamer' = "finish"
  <2>1. CASE segs = <<>>
    <3>1. NextSegment(1, 0) \/ ( /\ UNCHANGED <<seg, remain, pid, frame_offset, pid_offset, byte_offset>>
                                 /\ streamer' = "finish")
      BY <2>1 DEF SendFails, EndSegment
    <3> QED BY <3>1
  <2>2. CASE segs # <<>>
    <3> DEFINE b == byte_offset + segs[seg].size
    <3>1. NextSegment(pid_offset - 1, b) \/ NextSegment(pid_offset + NrPackets(segs[seg].size), b)
      BY <2>2 DEF SendFails, EndSegment
    <3>2. b \in Nat /\ pid_offset - 1 \in Int /\ pid_offset + NrPackets(segs[seg].size) \in Int
      <4>1. byte_offset \in Nat /\ pid_offset \in 0 .. PidModulus - 1
        BY <1>2 DEF StreamerTypes
      <4>2. segs[seg].size \in Nat
        BY <1>4, <2>2
      <4>3. NrPackets(segs[seg].size) \in Nat
        BY <4>2, OnePacketLess
      <4> HIDE DEF b
      <4>4. b \in Nat
        BY <4>1, <4>2 DEF b
      <4> QED BY <4>1, <4>3, <4>4, SizesAssumption
    <3> HIDE DEF b
    <3> QED BY <3>1, <3>2
  <2> QED BY <2>1, <2>2
<1>6. StreamerTypes' /\ Cursors'
  <2>1. CASE \E pids \in Int, bytes \in Nat : NextSegment(pids, bytes)
    <3>1. PICK pids \in Int, bytes \in Nat : NextSegment(pids, bytes)
      BY <2>1
    <3>2. pids % PidModulus \in 0 .. PidModulus - 1
      BY SizesAssumption
    <3>3. seg < Len(segs) => seg + 1 \in 1 .. Len(segs) /\ segs[seg + 1].size \in Nat
      BY <1>2, SegmentTypes DEF StreamerTypes
    <3>4. StreamerTypes'
      BY <1>1, <1>2, <3>1, <3>2, <3>3 DEF StreamerTypes, NextSegment, SegmentStart
    <3> QED BY <1>1, <1>2, <3>1, <3>3, <3>4 DEF Cursors, Sending, NextSegment, mainVars
  <2>2. CASE /\ UNCHANGED <<seg, remain, pid, frame_offset, pid_offset, byte_offset>>
             /\ streamer' = "finish"
    BY <1>1, <1>2, <2>2 DEF StreamerTypes, Cursors, Sending, mainVars
  <2> QED BY <1>5, <2>1, <2>2
<1> QED BY <1>1, <1>3, <1>6, TypesJoined

\* Every step keeps the types.
LEMMA TypeStep == TypeInv /\ [Next]_vars => TypeInv'
<1> SUFFICES ASSUME TypeInv, [Next]_vars PROVE TypeInv'
  OBVIOUS
<1>1. CASE StreamerStep
  BY <1>1, RecordTypes, LoopTypes, StampTypes, NextSegmentTypes DEF StreamerStep
<1>2. CASE FeedbackStep
  BY <1>2, FeedbackTypes
<1>3. CASE MainStep
  BY <1>3, MainTypes
<1>4. CASE UNCHANGED vars
  BY <1>4 DEF vars, TypeInv, TypeOK, Cursors, Sending, loopVars, frameTable, packetTable,
              feedbackVars, mainVars
<1> QED BY <1>1, <1>2, <1>3, <1>4 DEF Next

\* The types and the cursors' bounds are an invariant.
LEMMA TypeInvariance == Spec => []TypeInv
BY InitTyped, TypeStep, PTL DEF Spec

\* Up to the first store outside the tables no cursor or table entry of the
\* streamer leaves its range: the bytes that send_frame_seg() has left to send never pass below 0, the count of packets
\* written to a row is at most the room of its packet table, every packet sent
\* has no more than PacketSize bytes, and the dump stops at the end of fmeta.
THEOREM TypeCorrect == Spec => []TypeOK
<1>1. TypeInv => TypeOK
  BY DEF TypeInv
<1> QED BY <1>1, TypeInvariance, PTL

-----------------------------------------------------------------------------
(* The tables.                                                             *)

\* The streamer thread is between sendto() and sender_ts, for good if that store
\* has left the table.
Stamping == streamer \in {"stampState", "stampTime", "wild"}

\* The streamer thread has recorded the frame it works on.
Recorded ==
  streamer \in {"setLast", "send", "stampState", "stampTime", "endSegment", "finish", "pace", "wild"}

\* The part of the types the arguments below need.
Shapes ==
  /\ fid \in Nat /\ row \in Nat /\ seg \in Nat \ {0}
  /\ last_fid \in 0 .. fid
  /\ ftable \in [Rows -> BOOLEAN] /\ DOMAIN ftotal = Rows
  /\ psent \in [Rows -> [Pids -> BOOLEAN]]

\* The row of the frame at hand has its packet table before a packet is sent.
RowRecorded == Recorded /\ fid < FmetaSize => ftable[fid]

\* Every packet sent, and the one a feedback is about, belongs to a frame whose
\* row has its packet table, as far as the table of rows goes.
SentHasTable ==
  \A p \in sent : p.fid \in 0 .. fid /\ (p.fid < FmetaSize => ftable[p.fid])
AnswerHasTable ==
  feedback = "rtt" =>
    /\ answer[1] \in Rows /\ ftable[answer[1]]
    /\ \E p \in sent : p.fid = answer[1] /\ p.pid = answer[2]

\* The rows behind the frame at hand are complete.
RowsFinished ==
  \A f \in Rows :
    f < fid \/ (f = fid /\ streamer = "pace") => ftable[f] /\ ftotal[f] # 0

\* Every packet sent has its entry and its sender_ts there, but the one being
\* stamped.
SentStamped ==
  \A p \in sent :
    p.fid \in Rows =>
      \/ p.pid \in Pids /\ psent[p.fid][p.pid]
      \/ Stamping /\ p.fid = fid /\ p.pid = pid

\* sender_ts is stored in the entry that was stored in just before.
StampInTable == streamer = "stampTime" /\ fid < FmetaSize => pid \in Pids

\* A frame without segments is announced by one packet, number 0.
EmptyIsOnePacket ==
  segs = <<>> /\ (streamer = "send" \/ Stamping) => pid = 0 /\ remain = 0

\* The inductive invariant.
IInv ==
  /\ Shapes /\ RowRecorded /\ SentHasTable /\ AnswerHasTable
  /\ RowsFinished /\ SentStamped /\ StampInTable /\ EmptyIsOnePacket

-----------------------------------------------------------------------------
(* Initially, and what the properties follow from.                         *)

\* Nothing is sent at first.
LEMMA InitInv == Init => IInv
<1> SUFFICES ASSUME Init PROVE IInv
  OBVIOUS
<1>1. Shapes
  BY DEF Init, Shapes
<1>2. sent = {} /\ fid = 0 /\ feedback = "test" /\ streamer \in {"loop", "done"}
  BY DEF Init, OpenCamera
<1>3. /\ RowRecorded /\ SentHasTable /\ AnswerHasTable /\ SentStamped /\ StampInTable
      /\ EmptyIsOnePacket
  BY <1>2 DEF RowRecorded, Recorded, SentHasTable, AnswerHasTable, SentStamped,
              StampInTable, EmptyIsOnePacket, Stamping
<1>4. RowsFinished
  BY <1>2, SizesAssumption DEF RowsFinished, Rows
<1>5. QED
  BY <1>1, <1>3, <1>4 DEF IInv

\* The two properties of the tables follow from the invariant.
LEMMA TablesFollow == IInv => FeedbackFindsTable /\ DumpsFinishedFrames
<1> SUFFICES ASSUME IInv PROVE FeedbackFindsTable /\ DumpsFinishedFrames
  OBVIOUS
<1>1. FeedbackFindsTable
  BY DEF IInv, AnswerHasTable, FeedbackFindsTable
<1>2. ASSUME main = "dump", MoreRows
      PROVE  /\ ftable[row] /\ ftotal[row] # 0
             /\ \A p \in OfFrame(row) : p.pid \in Pids /\ psent[row][p.pid]
  <2>1. row \in Rows /\ row < fid
    BY <1>2, SizesAssumption DEF IInv, Shapes, MoreRows, Rows
  <2>2. ftable[row] /\ ftotal[row] # 0
    BY <2>1 DEF IInv, RowsFinished
  <2>3. ASSUME NEW p \in OfFrame(row) PROVE p.pid \in Pids /\ psent[row][p.pid]
    BY <2>1 DEF IInv, Shapes, SentStamped, OfFrame
  <2>4. QED
    BY <2>2, <2>3
<1>3. QED
  BY <1>1, <1>2 DEF DumpsFinishedFrames

\* A frame counts at least one packet.
LEMMA SomePacket == ASSUME NEW s PROVE TotalPackets(s) # 0
BY DEF TotalPackets

-----------------------------------------------------------------------------
(* The steps.                                                              *)

\* A step that leaves what the streamer thread writes alone keeps all but what
\* is said of the feedback thread and of the row being dumped.
LEMMA StreamerUntouched ==
  ASSUME IInv,
         UNCHANGED <<streamer, loopVars, sent, ftotal, ftable, psent, last_fid>>,
         row' \in Nat, AnswerHasTable'
  PROVE  IInv'
BY DEF IInv, loopVars, Shapes, RowRecorded, Recorded, SentHasTable, RowsFinished,
       SentStamped, StampInTable, Stamping, EmptyIsOnePacket

\* A feedback is of a packet sent.
LEMMA FeedbackKeeps == IInv /\ FeedbackStep => IInv'
<1> SUFFICES ASSUME IInv, FeedbackStep PROVE IInv'
  OBVIOUS
<1>1. /\ UNCHANGED <<streamer, loopVars, sent, ftotal, ftable, psent, last_fid>>
      /\ row' = row
  BY DEF FeedbackStep, TestStop, ReceiveTimesOut, PacketFeedback, SetRtt, SetState,
         FrameFeedback, frameTable, packetTable, mainVars
<1>2. AnswerHasTable'
  <2>1. CASE PacketFeedback
    <3>1. PICK p \in sent :
            /\ answer' = <<p.fid, p.pid>>
            /\ feedback' = IF p.fid < FmetaSize THEN "rtt" ELSE "test"
      BY <2>1 DEF PacketFeedback
    <3>2. p.fid < FmetaSize => p.fid \in Rows /\ ftable[p.fid]
      BY SizesAssumption DEF IInv, Shapes, SentHasTable, Rows
    <3>3. QED
      BY <1>1, <3>1, <3>2 DEF AnswerHasTable
  <2>2. CASE TestStop \/ ReceiveTimesOut \/ SetRtt \/ SetState \/ FrameFeedback
    BY <2>2 DEF TestStop, ReceiveTimesOut, SetRtt, SetState, FrameFeedback, AnswerHasTable
  <2>3. QED
    BY <2>1, <2>2 DEF FeedbackStep
<1>3. QED
  BY <1>1, <1>2, StreamerUntouched DEF IInv, Shapes

\* The dump goes no further than the last finished frame.
LEMMA MainKeeps == IInv /\ MainStep => IInv'
<1> SUFFICES ASSUME IInv, MainStep PROVE IInv'
  OBVIOUS
<1>1. /\ UNCHANGED <<streamer, loopVars, sent, ftotal, ftable, psent, last_fid>>
      /\ UNCHANGED <<feedback, answer>>
  BY DEF MainStep, EndShow, DumpRow, StopThreads, Join, frameTable, packetTable, feedbackVars
<1>2. row' \in Nat
  BY DEF MainStep, EndShow, DumpRow, StopThreads, Join, IInv, Shapes
<1>3. AnswerHasTable'
  BY <1>1 DEF IInv, AnswerHasTable
<1>4. QED
  BY <1>1, <1>2, <1>3, StreamerUntouched

\* A step between the frames, or from one packet or segment to the next, that
\* writes no table.
LEMMA TablesUntouched ==
  ASSUME IInv,
         UNCHANGED <<fid, sent, frameTable, packetTable, last_fid, feedbackVars, mainVars>>,
         ~Stamping, ~Stamping', streamer' # "pace",
         Recorded' => Recorded, seg' \in Nat \ {0}, EmptyIsOnePacket'
  PROVE  IInv'
BY DEF IInv, frameTable, packetTable, feedbackVars, mainVars, Shapes, RowRecorded,
       SentHasTable, AnswerHasTable, RowsFinished, SentStamped, Stamping, StampInTable

\* The thread stops or encodes.
LEMMA LoopKeeps == IInv /\ (StreamerStops \/ Encode) => IInv'
<1> SUFFICES ASSUME IInv, StreamerStops \/ Encode PROVE IInv'
  OBVIOUS
<1>1. UNCHANGED <<fid, sent, frameTable, packetTable, last_fid, feedbackVars, mainVars, seg>>
  BY DEF StreamerStops, Encode, loopVars
<1>2. streamer = "loop" /\ streamer' \in {"done", "record"}
  BY DEF StreamerStops, Encode
<1>3. QED
  BY <1>1, <1>2, TablesUntouched DEF Stamping, Recorded, EmptyIsOnePacket, IInv, Shapes

\* The row of the frame gets its packet table.
LEMMA RecordKeeps == IInv /\ Record => IInv'
<1> SUFFICES ASSUME IInv, Record PROVE IInv'
  OBVIOUS
<1>1. /\ UNCHANGED <<fid, sent, ftotal, psent, last_fid, feedback, answer, row, seg>>
      /\ streamer = "record" /\ streamer' = "setLast"
      /\ ftable' = IF fid < FmetaSize THEN [ftable EXCEPT ![fid] = TRUE] ELSE ftable
  BY DEF Record, loopVars, packetTable, feedbackVars, mainVars
<1>2. ftable' \in [Rows -> BOOLEAN] /\ \A f \in Rows : ftable[f] => ftable'[f]
  BY <1>1 DEF IInv, Shapes
<1>3. Shapes'
  BY <1>1, <1>2 DEF IInv, Shapes
<1>4. RowRecorded'
  BY <1>1, SizesAssumption DEF IInv, Shapes, RowRecorded, Rows
<1>5. SentHasTable'
  BY <1>1, <1>2, SizesAssumption DEF IInv, Shapes, SentHasTable, Rows
<1>6. AnswerHasTable' /\ RowsFinished'
  BY <1>1, <1>2 DEF IInv, AnswerHasTable, RowsFinished
<1>7. SentStamped' /\ StampInTable' /\ EmptyIsOnePacket'
  BY <1>1 DEF IInv, SentStamped, StampInTable, EmptyIsOnePacket, Stamping
<1>8. QED
  BY <1>3, <1>4, <1>5, <1>6, <1>7 DEF IInv

\* last_fid follows fid.
LEMMA SetLastKeeps == IInv /\ SetLast => IInv'
<1> SUFFICES ASSUME IInv, SetLast PROVE IInv'
  OBVIOUS
<1>1. /\ UNCHANGED <<fid, sent, ftotal, ftable, psent, feedback, answer, row, segs>>
      /\ streamer = "setLast" /\ streamer' \in {"send", "endSegment"}
      /\ last_fid' = fid /\ seg' = 1 /\ pid' = 0
      /\ segs = <<>> => remain' = 0
  BY DEF SetLast, SegmentStart, frameTable, packetTable, feedbackVars, mainVars
<1>2. QED
  BY <1>1 DEF IInv, Shapes, RowRecorded, Recorded, SentHasTable, AnswerHasTable,
              RowsFinished, SentStamped, StampInTable, Stamping, EmptyIsOnePacket

\* A packet more is sent.
LEMMA SendKeeps == IInv /\ SendPacket => IInv'
<1> SUFFICES ASSUME IInv, SendPacket PROVE IInv'
  OBVIOUS
<1> DEFINE new == IF segs = <<>> THEN EmptyPacket ELSE SegmentPacket
<1>1. /\ UNCHANGED <<fid, segs, seg, pid, remain, ftotal, ftable, psent, last_fid>>
      /\ UNCHANGED <<feedback, answer, row>>
      /\ streamer = "send" /\ streamer' = "stampState" /\ sent' = sent \cup {new}
  BY DEF SendPacket, loopVars, frameTable, packetTable, feedbackVars, mainVars
<1>2. new.fid = fid /\ new.pid = pid
  <2>1. segs = <<>> => pid = 0
    BY <1>1 DEF IInv, EmptyIsOnePacket
  <2>2. QED
    BY <2>1 DEF EmptyPacket, SegmentPacket
<1> HIDE DEF new
<1>3. /\ Shapes' /\ RowRecorded' /\ AnswerHasTable' /\ RowsFinished' /\ StampInTable'
      /\ EmptyIsOnePacket'
  BY <1>1 DEF IInv, Shapes, RowRecorded, Recorded, AnswerHasTable, RowsFinished,
              StampInTable, EmptyIsOnePacket, Stamping
<1>4. SentHasTable'
  BY <1>1, <1>2 DEF IInv, Shapes, SentHasTable, RowRecorded, Recorded
<1>5. SentStamped'
  BY <1>1, <1>2 DEF IInv, SentStamped, Stamping
<1>6. QED
  BY <1>3, <1>4, <1>5 DEF IInv

\* The packet's state is set.
LEMMA StampStateKeeps == IInv /\ StampState => IInv'
<1> SUFFICES ASSUME IInv, StampState PROVE IInv'
  OBVIOUS
<1>1. /\ UNCHANGED <<fid, segs, seg, pid, remain, sent, ftotal, ftable, psent, last_fid>>
      /\ UNCHANGED <<feedback, answer, row>>
      /\ streamer = "stampState" /\ streamer' \in {"stampTime", "wild"}
      /\ streamer' = "stampTime" /\ fid < FmetaSize => pid \in Pids
  BY DEF StampState, loopVars, frameTable, feedbackVars, mainVars
<1>2. QED
  BY <1>1 DEF IInv, Shapes, RowRecorded, Recorded, SentHasTable, AnswerHasTable,
              RowsFinished, SentStamped, StampInTable, Stamping, EmptyIsOnePacket

\* The packet gets its sender_ts.
LEMMA StampTimeKeeps == IInv /\ StampTime => IInv'
<1> SUFFICES ASSUME IInv, StampTime PROVE IInv'
  OBVIOUS
<1>1. /\ UNCHANGED <<fid, segs, seg, sent, ftotal, ftable, last_fid>>
      /\ UNCHANGED <<feedback, answer, row>>
      /\ streamer = "stampTime" /\ streamer' = IF remain' > 0 THEN "send" ELSE "endSegment"
      /\ remain' = remain - Least(remain, PacketSize)
      /\ psent' = IF fid < FmetaSize
                  THEN [psent EXCEPT ![fid] = [@ EXCEPT ![pid] = TRUE]] ELSE psent
  BY DEF StampTime, frameTable, feedbackVars, mainVars
<1>2. /\ fid \in Nat /\ psent \in [Rows -> [Pids -> BOOLEAN]]
      /\ fid < FmetaSize => pid \in Pids
  BY <1>1 DEF IInv, Shapes, StampInTable
<1>3. /\ psent' \in [Rows -> [Pids -> BOOLEAN]]
      /\ \A f \in Rows, p \in Pids :
           psent[f][p] \/ (f = fid /\ p = pid) => psent'[f][p]
  <2>1. CASE fid < FmetaSize
    <3>1. fid \in Rows
      BY <1>2, <2>1, SizesAssumption DEF Rows
    <3>2. psent' = [psent EXCEPT ![fid] = [psent[fid] EXCEPT ![pid] = TRUE]]
      BY <1>1, <2>1
    <3>3. [psent[fid] EXCEPT ![pid] = TRUE] \in [Pids -> BOOLEAN]
      BY <1>2, <3>1
    <3>4. QED
      BY <1>2, <3>1, <3>2, <3>3
  <2>2. CASE ~(fid < FmetaSize)
    <3>1. psent' = psent
      BY <1>1, <2>2
    <3>2. ASSUME NEW f \in Rows, NEW p \in Pids PROVE ~(f = fid /\ p = pid)
      BY <2>2, SizesAssumption DEF Rows
    <3>3. QED
      BY <1>2, <3>1, <3>2
  <2>3. QED
    BY <2>1, <2>2
<1>4. Shapes' /\ RowRecorded' /\ SentHasTable' /\ AnswerHasTable' /\ RowsFinished'
  BY <1>1, <1>3 DEF IInv, Shapes, RowRecorded, Recorded, SentHasTable, AnswerHasTable,
                    RowsFinished
<1>5. SentStamped' /\ StampInTable'
  <2>1. fid \in Rows => pid \in Pids
    BY <1>2, SizesAssumption DEF Rows
  <2>2. QED
    BY <1>1, <1>3, <2>1 DEF IInv, SentStamped, StampInTable
<1>6. EmptyIsOnePacket'
  <2>1. segs = <<>> => streamer' = "endSegment"
    BY <1>1, SizesAssumption DEF IInv, EmptyIsOnePacket, Stamping, Least
  <2>2. QED
    BY <1>1, <2>1 DEF EmptyIsOnePacket, Stamping
<1>7. QED
  BY <1>4, <1>5, <1>6 DEF IInv

\* A segment ends.
LEMMA NextSegmentKeeps == IInv /\ (SendFails \/ EndSegment) => IInv'
<1> SUFFICES ASSUME IInv, SendFails \/ EndSegment PROVE IInv'
  OBVIOUS
<1>1. /\ UNCHANGED <<fid, segs, sent, frameTable, packetTable, last_fid, feedbackVars, mainVars>>
      /\ streamer \in {"send", "endSegment"}
  BY DEF SendFails, EndSegment
<1>2. \/ streamer' = "finish" /\ seg' = seg
      \/ seg < Len(segs) /\ seg' = seg + 1 /\ streamer' \in {"send", "endSegment"}
  BY DEF SendFails, EndSegment, NextSegment, SegmentStart
<1>3. seg \in Nat \ {0} /\ seg' \in Nat \ {0}
  BY <1>2 DEF IInv, Shapes
<1>4. segs = <<>> => streamer' = "finish"
  BY <1>2, <1>3
<1>5. QED
  BY <1>1, <1>2, <1>3, <1>4, TablesUntouched DEF Stamping, Recorded, EmptyIsOnePacket

\* total_packets and the state are written.
LEMMA FinishKeeps == IInv /\ Finish => IInv'
<1> SUFFICES ASSUME IInv, Finish PROVE IInv'
  OBVIOUS
<1>1. /\ UNCHANGED <<fid, segs, seg, sent, ftable, psent, last_fid, feedback, answer, row>>
      /\ streamer = "finish" /\ streamer' = "pace"
      /\ ftotal' = IF fid < FmetaSize
                   THEN [ftotal EXCEPT ![fid] = TotalPackets(segs)] ELSE ftotal
  BY DEF Finish, loopVars, packetTable, feedbackVars, mainVars
<1>2. DOMAIN ftotal' = Rows
  BY <1>1 DEF IInv, Shapes
<1>3. ASSUME NEW f \in Rows, f < fid \/ f = fid PROVE ftable[f] /\ ftotal'[f] # 0
  <2>1. f < FmetaSize /\ f \in Nat /\ fid \in Nat
    BY SizesAssumption DEF Rows, IInv, Shapes
  <2>2. CASE f = fid
    BY <1>1, <2>1, <2>2, SomePacket DEF IInv, Shapes, RowRecorded, Recorded
  <2>3. CASE f # fid
    <3>1. ftotal'[f] = ftotal[f]
      BY <1>1, <2>3 DEF IInv, Shapes
    <3>2. f < fid
      BY <1>3, <2>3
    <3>3. QED
      BY <3>1, <3>2 DEF IInv, RowsFinished
  <2>4. QED
    BY <2>2, <2>3
<1>4. RowsFinished'
  BY <1>1, <1>3 DEF RowsFinished
<1>5. /\ Shapes' /\ RowRecorded' /\ SentHasTable' /\ AnswerHasTable' /\ SentStamped'
      /\ StampInTable' /\ EmptyIsOnePacket'
  BY <1>1, <1>2 DEF IInv, Shapes, RowRecorded, Recorded, SentHasTable, AnswerHasTable,
                    SentStamped, StampInTable, EmptyIsOnePacket, Stamping
<1>6. QED
  BY <1>4, <1>5 DEF IInv

\* The next frame is begun.
LEMMA PaceKeeps == IInv /\ Pace => IInv'
<1> SUFFICES ASSUME IInv, Pace PROVE IInv'
  OBVIOUS
<1>1. /\ UNCHANGED <<segs, seg, pid, remain, sent, ftotal, ftable, psent, last_fid>>
      /\ UNCHANGED <<feedback, answer, row>>
      /\ streamer = "pace" /\ streamer' = "loop" /\ fid' = fid + 1
  BY DEF Pace, frameTable, packetTable, feedbackVars, mainVars
<1>2. Shapes' /\ SentHasTable'
  BY <1>1 DEF IInv, Shapes, SentHasTable
<1>3. RowRecorded' /\ AnswerHasTable' /\ SentStamped' /\ StampInTable' /\ EmptyIsOnePacket'
  BY <1>1 DEF IInv, RowRecorded, Recorded, AnswerHasTable, SentStamped, StampInTable,
              EmptyIsOnePacket, Stamping
<1>4. RowsFinished'
  BY <1>1, SizesAssumption DEF IInv, Shapes, RowsFinished, Rows
<1>5. QED
  BY <1>2, <1>3, <1>4 DEF IInv

\* Every step keeps the invariant.
LEMMA StepKeeps == IInv /\ [Next]_vars => IInv'
<1> SUFFICES ASSUME IInv, [Next]_vars PROVE IInv'
  OBVIOUS
<1>1. CASE StreamerStep
  BY <1>1, LoopKeeps, RecordKeeps, SetLastKeeps, SendKeeps, StampStateKeeps,
     StampTimeKeeps, NextSegmentKeeps, FinishKeeps, PaceKeeps DEF StreamerStep
<1>2. CASE FeedbackStep
  BY <1>2, FeedbackKeeps
<1>3. CASE MainStep
  BY <1>3, MainKeeps
<1>4. CASE UNCHANGED vars
  <2>1. AnswerHasTable'
    BY <1>4 DEF IInv, AnswerHasTable, vars, feedbackVars, frameTable
  <2>2. QED
    BY <1>4, <2>1, StreamerUntouched DEF IInv, Shapes, vars, frameTable, packetTable, mainVars
<1>5. QED
  BY <1>1, <1>2, <1>3, <1>4 DEF Next

-----------------------------------------------------------------------------
(* The theorems.                                                           *)

\* The invariant holds.
LEMMA Invariance == Spec => []IInv
<1>1. Init => IInv
  BY InitInv
<1>2. IInv /\ [Next]_vars => IInv'
  BY StepKeeps
<1>3. QED
  BY <1>1, <1>2, PTL DEF Spec

\* The feedback thread never follows the NULL that calloc() left in fm->pmeta:
\* the row of a frame is recorded before any packet of it is sent.
THEOREM FeedbackTableFound == Spec => []FeedbackFindsTable
<1>1. IInv => FeedbackFindsTable
  BY TablesFollow
<1>2. QED
  BY <1>1, Invariance, PTL

\* dump_meta() writes rows of finished frames only, although it reads last_fid
\* while the streamer thread goes on.
THEOREM DumpOfFinishedFrames == Spec => []DumpsFinishedFrames
<1>1. IInv => DumpsFinishedFrames
  BY TablesFollow
<1>2. QED
  BY <1>1, Invariance, PTL

-----------------------------------------------------------------------------
(* The tiling of a frame by its packets.                                   *)

\* What is said of the packets of the frame at hand: their numbers are 0 .. n - 1,
\* once each, the first begins at 0, every other one where the one before it
\* ends, and the last one ends at byte end.
Tiles(ps, n, end) ==
  /\ {p.pid : p \in ps} = 0 .. n - 1
  /\ \A p, q \in ps : p.pid = q.pid => p = q
  /\ \A p \in ps : p.pid = 0 => p.offset = 0
  /\ \A p, q \in ps : q.pid = p.pid + 1 => q.offset = p.offset + p.length
  /\ \A p \in ps : p.pid = n - 1 => p.offset + p.length = end
  /\ n = 0 => end = 0

\* The bytes and the packets of the first k segments.
BytesOf(k) == Sum[Prefix(Sizes(segs), k)]
PacketsOf(k) == Sum[Prefix(PacketCounts(segs), k)]

\* Between the packets of a segment: what is left of it, in bytes and in
\* packets, is what the segments up to it have more than was sent.
Position ==
  Sending /\ segs # <<>> /\ ~failed =>
    /\ byte_offset = BytesOf(seg - 1) /\ pid_offset = PacketsOf(seg - 1)
    /\ frame_offset + remain = BytesOf(seg)
    /\ pid + NrPackets(remain) = PacketsOf(seg)
    /\ remain = 0 <=> streamer = "endSegment"

\* The one packet of a frame without segments.
EmptyPosition ==
  segs = <<>> /\ ~failed =>
    /\ streamer = "send" \/ Stamping => pid = 0 /\ remain = 0
    /\ Sending => frame_offset = 0
    /\ streamer = "endSegment" => pid = 1 /\ frame_offset = 0

\* After the last segment everything was sent.
AllSent ==
  streamer = "finish" /\ ~failed =>
    IF segs = <<>> THEN pid = 1 /\ frame_offset = 0
    ELSE pid = Sum[PacketCounts(segs)] /\ frame_offset = Bytes(segs)

\* The packets of the frame at hand as sent so far, the one between sendto()
\* and its sender_ts included.
Tiled ==
  /\ streamer \in {"loop", "record", "setLast"} => OfFrame(fid) = {}
  /\ ~failed /\ streamer \in {"send", "endSegment", "finish"} =>
       Tiles(OfFrame(fid), pid, frame_offset)
  /\ ~failed /\ Stamping =>
       Tiles(OfFrame(fid), pid + 1, frame_offset + Least(remain, PacketSize))

\* The inductive invariant of the tiling, beside those of types and tables.
TilingInv == Position /\ EmptyPosition /\ AllSent /\ Tiled

\* One packet more, beginning where the last one ended, and what was sent still
\* tiles.
LEMMA TilesGrow ==
  ASSUME NEW ps, NEW n \in Nat, NEW end \in Nat, NEW new,
         Tiles(ps, n, end), \A p \in ps : p.pid \in Nat,
         new.pid = n, new.offset = end, new.length \in Nat
  PROVE  Tiles(ps \cup {new}, n + 1, end + new.length)
<1>0. \A p \in ps : p.pid \in 0 .. n - 1
  BY DEF Tiles
<1> DEFINE qs == ps \cup {new}
<1>1. {p.pid : p \in qs} = 0 .. (n + 1) - 1
  <2>1. {p.pid : p \in qs} = {p.pid : p \in ps} \cup {n}
    OBVIOUS
  <2>2. (0 .. n - 1) \cup {n} = 0 .. (n + 1) - 1
    OBVIOUS
  <2> QED BY <2>1, <2>2 DEF Tiles
<1>2. \A p, q \in qs : p.pid = q.pid => p = q
  BY <1>0 DEF Tiles
<1>3. \A p \in qs : p.pid = 0 => p.offset = 0
  BY DEF Tiles
<1>4. \A p, q \in qs : q.pid = p.pid + 1 => q.offset = p.offset + p.length
  <2> SUFFICES ASSUME NEW p \in qs, NEW q \in qs, q.pid = p.pid + 1
               PROVE  q.offset = p.offset + p.length
    OBVIOUS
  <2>1. CASE p \in ps /\ q \in ps
    BY <2>1 DEF Tiles
  <2>2. CASE p \in ps /\ q = new
    <3>1. p.pid = n - 1
      BY <2>2, <1>0
    <3> QED BY <2>2, <3>1 DEF Tiles
  <2>3. CASE p = new
    <3>1. q.pid = n + 1
      BY <2>3
    <3> QED BY <3>1, <1>0
  <2> QED BY <2>1, <2>2, <2>3
<1>5. \A p \in qs : p.pid = (n + 1) - 1 => p.offset + p.length = end + new.length
  <2> SUFFICES ASSUME NEW p \in qs, p.pid = (n + 1) - 1
               PROVE  p.offset + p.length = end + new.length
    OBVIOUS
  <2>1. p = new
    BY <1>0
  <2> QED BY <2>1
<1>6. n + 1 # 0
  OBVIOUS
<1> QED BY <1>1, <1>2, <1>3, <1>4, <1>5, <1>6 DEF Tiles

\* A whole frame of n packets and end bytes, as FrameTiled says it.
Whole(ps, n, end) ==
  LET at(i) == CHOOSE p \in ps : p.pid = i
  IN /\ {p.pid : p \in ps} = 0 .. n - 1 /\ Cardinality(ps) = n
     /\ at(0).offset = 0
     /\ \A i \in 1 .. n - 1 : at(i).offset = at(i - 1).offset + at(i - 1).length
     /\ at(n - 1).offset + at(n - 1).length = end

\* What FrameTiled says follows for the packets of a whole frame.
LEMMA TilesWhole ==
  ASSUME NEW ps, NEW n \in Nat \ {0}, NEW end, Tiles(ps, n, end)
  PROVE  Whole(ps, n, end)
<1> DEFINE at(i) == CHOOSE p \in ps : p.pid = i
           f == [i \in 0 .. n - 1 |-> at(i)]
<1>1. {p.pid : p \in ps} = 0 .. n - 1
  BY DEF Tiles
<1>2. \A i \in 0 .. n - 1 : at(i) \in ps /\ at(i).pid = i
  <2> SUFFICES ASSUME NEW i \in 0 .. n - 1 PROVE at(i) \in ps /\ at(i).pid = i
    OBVIOUS
  <2>1. \E p \in ps : p.pid = i
    BY <1>1
  <2> QED BY <2>1
<1> HIDE DEF at
<1>3. f \in Bijection(0 .. n - 1, ps)
  <2>1. f \in [0 .. n - 1 -> ps]
    BY <1>2
  <2>2. \A i, j \in 0 .. n - 1 : f[i] = f[j] => i = j
    BY <1>2
  <2>3. \A p \in ps : \E i \in 0 .. n - 1 : f[i] = p
    <3> SUFFICES ASSUME NEW p \in ps PROVE \E i \in 0 .. n - 1 : f[i] = p
      OBVIOUS
    <3>1. p.pid \in 0 .. n - 1
      BY <1>1
    <3>2. at(p.pid) = p
      BY <3>1, <1>2 DEF Tiles
    <3> QED BY <3>1, <3>2
  <2> HIDE DEF f
  <2> QED BY <2>1, <2>2, <2>3, Fun_IsBij
<1>4. Cardinality(ps) = n
  <2>1. IsFiniteSet(0 .. n - 1) /\ Cardinality(0 .. n - 1) = n
    BY FS_Interval
  <2>2. ExistsBijection(0 .. n - 1, ps)
    BY <1>3, Fun_ExistsBij
  <2> QED BY <2>1, <2>2, FS_Bijection
<1>5. 0 \in 0 .. n - 1 /\ n - 1 \in 0 .. n - 1
  OBVIOUS
<1>6. \A i \in 1 .. n - 1 : at(i).offset = at(i - 1).offset + at(i - 1).length
  <2> SUFFICES ASSUME NEW i \in 1 .. n - 1
               PROVE  at(i).offset = at(i - 1).offset + at(i - 1).length
    OBVIOUS
  <2>1. i \in 0 .. n - 1 /\ i - 1 \in 0 .. n - 1 /\ i = (i - 1) + 1
    OBVIOUS
  <2>2. at(i) \in ps /\ at(i - 1) \in ps /\ at(i).pid = at(i - 1).pid + 1
    BY <2>1, <1>2
  <2> QED BY <2>2 DEF Tiles
<1>7. at(0).offset = 0 /\ at(n - 1).offset + at(n - 1).length = end
  BY <1>2, <1>5 DEF Tiles
<1> QED BY <1>1, <1>4, <1>6, <1>7 DEF at, Whole

\* The sums of the code's cursors, one segment after another.
LEMMA SegmentSums ==
  ASSUME TypeOK
  PROVE  /\ BytesOf(0) = 0 /\ PacketsOf(0) = 0
         /\ BytesOf(Len(segs)) = Bytes(segs)
         /\ PacketsOf(Len(segs)) = Sum[PacketCounts(segs)]
         /\ \A k \in 1 .. Len(segs) :
              /\ BytesOf(k) = BytesOf(k - 1) + segs[k].size
              /\ PacketsOf(k) = PacketsOf(k - 1) + NrPackets(segs[k].size)
              /\ BytesOf(k) \in Nat /\ PacketsOf(k) \in Nat
              /\ BytesOf(k - 1) \in Nat /\ PacketsOf(k - 1) \in Nat
              /\ PacketsOf(k) <= PacketPerFrameMax /\ PacketsOf(k) < PidModulus
<1>1. /\ segs \in Seq(Segment) /\ Len(segs) \in Nat /\ DOMAIN segs = 1 .. Len(segs)
      /\ Sizes(segs) \in Seq(Nat) /\ Len(Sizes(segs)) = Len(segs)
      /\ PacketCounts(segs) \in Seq(Nat) /\ Len(PacketCounts(segs)) = Len(segs)
  BY SegmentTypes, SizesTypes, LenProperties
<1>2. BytesOf(0) = 0 /\ PacketsOf(0) = 0
  <2>1. Prefix(Sizes(segs), 0) = <<>> /\ Prefix(PacketCounts(segs), 0) = <<>>
    BY <1>1, PrefixProperties
  <2> QED BY <2>1, SumRecursion DEF BytesOf, PacketsOf
<1>3. BytesOf(Len(segs)) = Bytes(segs) /\ PacketsOf(Len(segs)) = Sum[PacketCounts(segs)]
  <2>1. Prefix(Sizes(segs), Len(segs)) = Sizes(segs)
        /\ Prefix(PacketCounts(segs), Len(segs)) = PacketCounts(segs)
    BY <1>1, PrefixProperties
  <2>2. Bytes(segs) = Sum[Sizes(segs)]
    BY DEF Bytes, Sizes
  <2> QED BY <2>1, <2>2 DEF BytesOf, PacketsOf
<1>4. ASSUME NEW k \in 1 .. Len(segs)
      PROVE  /\ BytesOf(k) = BytesOf(k - 1) + segs[k].size
             /\ PacketsOf(k) = PacketsOf(k - 1) + NrPackets(segs[k].size)
             /\ BytesOf(k) \in Nat /\ PacketsOf(k) \in Nat
             /\ BytesOf(k - 1) \in Nat /\ PacketsOf(k - 1) \in Nat
             /\ PacketsOf(k) <= Sum[PacketCounts(segs)]
  <2> DEFINE j == k - 1
             bs == Sizes(segs)
             ns == PacketCounts(segs)
  <2>1. j \in 0 .. Len(segs) - 1 /\ j + 1 = k /\ j \in 0 .. Len(segs) /\ k \in 0 .. Len(segs)
    BY <1>1
  <2>2. bs[k] = segs[k].size /\ ns[k] = NrPackets(segs[k].size)
    BY <1>1 DEF Sizes, PacketCounts
  <2> HIDE DEF j, bs, ns
  <2>3. bs \in Seq(Nat) /\ Len(bs) = Len(segs) /\ ns \in Seq(Nat) /\ Len(ns) = Len(segs)
    BY <1>1 DEF bs, ns
  <2>4. /\ Sum[Prefix(bs, j + 1)] = Sum[Prefix(bs, j)] + bs[j + 1]
        /\ Sum[Prefix(ns, j + 1)] = Sum[Prefix(ns, j)] + ns[j + 1]
    BY <2>1, <2>3, SumPrefix
  <2>5. /\ Sum[Prefix(bs, k)] \in Nat /\ Sum[Prefix(bs, j)] \in Nat
        /\ Sum[Prefix(ns, k)] \in Nat /\ Sum[Prefix(ns, j)] \in Nat
        /\ Sum[Prefix(ns, k)] <= Sum[ns]
    BY <2>1, <2>3, SumOfPrefix
  <2> QED BY <2>1, <2>2, <2>4, <2>5 DEF BytesOf, PacketsOf, j, bs, ns
<1>5. Sum[PacketCounts(segs)] <= PacketPerFrameMax
  BY SegmentTypes, SizesAssumption
<1>6. ASSUME NEW k \in 1 .. Len(segs) PROVE PacketsOf(k) <= PacketPerFrameMax /\ PacketsOf(k) < PidModulus
  BY <1>4, <1>5, SegmentTypes, SizesAssumption
<1> QED BY <1>2, <1>3, <1>4, <1>6

\* Nothing was sent of a frame that is not yet the frame at hand.
LEMMA TilingFollows ==
  ASSUME TypeInv, TilingInv
  PROVE  FrameTiled
<1> SUFFICES ASSUME streamer = "finish", ~failed, segs = <<>> \/ Bytes(segs) > 0
             PROVE  Whole(OfFrame(fid), TotalPackets(segs), Bytes(segs))
  BY DEF FrameTiled, Whole
<1>1. TypeOK /\ Tiles(OfFrame(fid), pid, frame_offset)
  BY DEF TypeInv, TilingInv, Tiled
<1>2. TotalPackets(segs) \in Nat \ {0}
  BY <1>1, SegmentTypes, SizesAssumption
<1>3. pid = TotalPackets(segs) /\ frame_offset = Bytes(segs)
  <2>1. CASE segs = <<>>
    <3>1. pid = 1 /\ frame_offset = 0
      BY <2>1 DEF TilingInv, AllSent
    <3>2. Len(segs) = 0
      BY <2>1, EmptySeq
    <3>3. Bytes(segs) = 0 /\ Sum[PacketCounts(segs)] = 0
      BY <1>1, <3>2, SegmentSums
    <3> QED BY <1>1, <3>1, <3>3, SegmentTypes
  <2>2. CASE segs # <<>>
    <3>1. pid = Sum[PacketCounts(segs)] /\ frame_offset = Bytes(segs) /\ Bytes(segs) > 0
      BY <2>2 DEF TilingInv, AllSent
    <3>2. pid # 0
      BY <1>1, <3>1 DEF Tiles
    <3> QED BY <1>1, <3>1, <3>2, SegmentTypes
  <2> QED BY <2>1, <2>2
<1>4. Tiles(OfFrame(fid), TotalPackets(segs), Bytes(segs))
  BY <1>1, <1>3
<1> QED BY <1>2, <1>4, TilesWhole

-----------------------------------------------------------------------------
(* The steps keep the tiling.                                              *)

\* Nothing is encoded and nothing sent at first.
LEMMA InitTiling == Init => Encoded /\ TilingInv
BY DEF Init, OpenCamera, Encoded, TilingInv, Position, EmptyPosition, AllSent, Tiled,
       Sending, Stamping, OfFrame

\* Only Encode brings the thread to where it records a frame.
LEMMA EncodedStep == Encoded /\ [Next]_vars => Encoded'
<1> SUFFICES ASSUME Encoded, [Next]_vars PROVE Encoded'
  OBVIOUS
<1>1. CASE Encode
  BY <1>1 DEF Encode, Encoded
<1>2. CASE FeedbackStep \/ MainStep \/ UNCHANGED vars
  <2>1. UNCHANGED <<streamer, layers, segs>>
    BY <1>2 DEF FeedbackStep, TestStop, ReceiveTimesOut, PacketFeedback, SetRtt, SetState,
            FrameFeedback, MainStep, EndShow, DumpRow, StopThreads, Join, vars, loopVars
  <2> QED BY <2>1 DEF Encoded
<1>3. CASE StreamerStep /\ ~Encode
  <2>1. streamer' # "record"
    BY <1>3 DEF StreamerStep, StreamerStops, Record, SetLast, SendPacket, SendFails, StampState,
            StampTime, EndSegment, Finish, Pace, NextSegment, SegmentStart
  <2> QED BY <2>1 DEF Encoded
<1> QED BY <1>1, <1>2, <1>3 DEF Next

\* What a step of the feedback or the main thread leaves alone.
LEMMA TilingUntouched ==
  ASSUME TilingInv, UNCHANGED <<streamer, loopVars, sent>>
  PROVE  TilingInv'
<1>1. OfFrame(fid)' = OfFrame(fid) /\ BytesOf(seg)' = BytesOf(seg) /\ PacketsOf(seg)' = PacketsOf(seg)
      /\ BytesOf(seg - 1)' = BytesOf(seg - 1) /\ PacketsOf(seg - 1)' = PacketsOf(seg - 1)
  BY DEF OfFrame, BytesOf, PacketsOf, loopVars
<1> QED BY <1>1 DEF TilingInv, Position, EmptyPosition, AllSent, Tiled, Sending, Stamping, loopVars

\* The feedback and the main thread send nothing.
LEMMA TilingElsewhere ==
  TilingInv /\ (FeedbackStep \/ MainStep \/ UNCHANGED vars) => TilingInv'
<1> SUFFICES ASSUME TilingInv, FeedbackStep \/ MainStep \/ UNCHANGED vars PROVE TilingInv'
  OBVIOUS
<1>1. UNCHANGED <<streamer, loopVars, sent>>
  BY DEF FeedbackStep, TestStop, ReceiveTimesOut, PacketFeedback, SetRtt, SetState,
         FrameFeedback, MainStep, EndShow, DumpRow, StopThreads, Join, vars
<1> QED BY <1>1, TilingUntouched

\* The loop outside of send_frame().
LEMMA TilingLoop ==
  ASSUME IInv, TilingInv, StreamerStops \/ Encode \/ Record \/ Finish \/ Pace
  PROVE  TilingInv'
<1>1. sent' = sent /\ ~Sending' /\ ~Stamping' /\ streamer' \notin {"send", "endSegment", "finish"}
  BY DEF StreamerStops, Encode, Record, Finish, Pace, Sending, Stamping
<1>2. Position' /\ EmptyPosition' /\ AllSent'
  BY <1>1 DEF Position, EmptyPosition, AllSent, Sending, Stamping
<1>3. streamer' \in {"loop", "record", "setLast"} => OfFrame(fid)' = {}
  <2>1. CASE StreamerStops \/ Encode \/ Record \/ Finish
    <3>1. /\ fid' = fid
          /\ streamer' \in {"loop", "record", "setLast"} => streamer \in {"loop", "record", "setLast"}
      BY <2>1 DEF StreamerStops, Encode, Record, Finish, loopVars
    <3> QED BY <1>1, <3>1 DEF TilingInv, Tiled, OfFrame
  <2>2. CASE Pace
    <3>1. fid' = fid + 1 /\ fid \in Nat /\ \A p \in sent : p.fid \in 0 .. fid
      BY <2>2 DEF Pace, IInv, Shapes, SentHasTable
    <3> QED BY <1>1, <3>1 DEF OfFrame
  <2> QED BY <2>1, <2>2
<1>4. Tiled'
  BY <1>1, <1>3 DEF Tiled, Stamping
<1> QED BY <1>2, <1>4 DEF TilingInv

\* The frame's first segment.
LEMMA TilingSetLast ==
  ASSUME TypeInv, TilingInv, SetLast
  PROVE  TilingInv'
<1>1. /\ UNCHANGED <<fid, segs, failed, sent>>
      /\ streamer = "setLast" /\ seg' = 1 /\ pid' = 0 /\ pid_offset' = 0
      /\ frame_offset' = 0 /\ byte_offset' = 0
      /\ segs = <<>> => remain' = 0 /\ streamer' = "send"
      /\ segs # <<>> => remain' = segs[1].size /\ streamer' = SegmentStart(segs[1].size)
  BY DEF SetLast
<1>2. TypeOK
  BY DEF TypeInv
<1>3. segs # <<>> => 1 \in 1 .. Len(segs) /\ segs[1].size \in Nat
  <2>1. segs # <<>> => Len(segs) # 0
    BY <1>2, SegmentTypes, EmptySeq
  <2> QED BY <1>2, <2>1, SegmentTypes
<1>4. segs # <<>> => /\ BytesOf(0) = 0 /\ PacketsOf(0) = 0
                     /\ BytesOf(1) = segs[1].size /\ PacketsOf(1) = NrPackets(segs[1].size)
  <2> SUFFICES ASSUME segs # <<>>
               PROVE  /\ BytesOf(0) = 0 /\ PacketsOf(0) = 0
                      /\ BytesOf(1) = segs[1].size /\ PacketsOf(1) = NrPackets(segs[1].size)
    OBVIOUS
  <2> DEFINE n == segs[1].size
  <2>0. 1 \in 1 .. Len(segs) /\ n \in Nat
    BY <1>3
  <2>1. 1 \in 1 .. Len(segs) /\ 1 - 1 = 0 /\ NrPackets(segs[1].size) \in Nat
    <3> HIDE DEF n
    <3>1. NrPackets(n) \in Nat
      BY <2>0, OnePacketLess
    <3> QED BY <2>0, <3>1 DEF n
  <2>2. BytesOf(1) = BytesOf(0) + segs[1].size /\ PacketsOf(1) = PacketsOf(0) + NrPackets(segs[1].size)
    BY <1>2, <2>1, SegmentSums
  <2>3. BytesOf(0) = 0 /\ PacketsOf(0) = 0
    BY <1>2, SegmentSums
  <2> QED BY <1>3, <2>1, <2>2, <2>3
<1>6. Position'
  <2> SUFFICES ASSUME segs # <<>>
               PROVE  /\ byte_offset' = BytesOf(seg - 1)' /\ pid_offset' = PacketsOf(seg - 1)'
                      /\ frame_offset' + remain' = BytesOf(seg)'
                      /\ pid' + NrPackets(remain') = PacketsOf(seg)'
                      /\ remain' = 0 <=> streamer' = "endSegment"
    BY <1>1 DEF Position
  <2>1. BytesOf(seg - 1)' = BytesOf(0) /\ PacketsOf(seg - 1)' = PacketsOf(0)
        /\ BytesOf(seg)' = BytesOf(1) /\ PacketsOf(seg)' = PacketsOf(1)
    BY <1>1 DEF BytesOf, PacketsOf
  <2>2. NrPackets(remain') \in Nat /\ remain' \in Nat
    BY <1>1, <1>3, OnePacketLess
  <2> QED BY <1>1, <1>3, <1>4, <2>1, <2>2 DEF SegmentStart
<1>7. EmptyPosition' /\ AllSent'
  BY <1>1 DEF EmptyPosition, AllSent, Stamping, SegmentStart
<1>8. Tiled'
  <2>1. OfFrame(fid)' = {}
    BY <1>1 DEF TilingInv, Tiled, OfFrame
  <2>2. Tiles({}, 0, 0)
    BY DEF Tiles
  <2>3. streamer' \in {"send", "endSegment"}
    BY <1>1 DEF SegmentStart
  <2> QED BY <1>1, <2>1, <2>2, <2>3 DEF Tiled, Stamping
<1> QED BY <1>6, <1>7, <1>8 DEF TilingInv

\* A packet more.
LEMMA TilingSend ==
  ASSUME TypeInv, TilingInv, SendPacket
  PROVE  TilingInv'
<1> DEFINE new == IF segs = <<>> THEN EmptyPacket ELSE SegmentPacket
<1>1. /\ UNCHANGED <<fid, segs, seg, pid, remain, frame_offset, pid_offset, byte_offset, failed>>
      /\ streamer = "send" /\ streamer' = "stampState" /\ sent' = sent \cup {new}
  BY DEF SendPacket, loopVars
<1>2. Position' /\ EmptyPosition' /\ AllSent'
  <2>1. BytesOf(seg)' = BytesOf(seg) /\ PacketsOf(seg)' = PacketsOf(seg)
        /\ BytesOf(seg - 1)' = BytesOf(seg - 1) /\ PacketsOf(seg - 1)' = PacketsOf(seg - 1)
    BY <1>1 DEF BytesOf, PacketsOf
  <2> HIDE DEF new
  <2> QED BY <1>1, <2>1 DEF TilingInv, Position, EmptyPosition, AllSent, Sending, Stamping
<1>3. TypeOK /\ pid \in Nat /\ frame_offset \in Nat /\ remain \in Nat
  BY DEF TypeInv, TypeOK
<1>4. ASSUME ~failed
      PROVE  /\ new.fid = fid /\ new.pid = pid /\ new.offset = frame_offset
             /\ new.length = Least(remain, PacketSize)
  <2>1. CASE segs = <<>>
    <3>1. pid = 0 /\ remain = 0 /\ frame_offset = 0
      BY <1>1, <1>4, <2>1 DEF TilingInv, EmptyPosition, Sending
    <3>2. Least(0, PacketSize) = 0
      BY SizesAssumption DEF Least
    <3> QED BY <2>1, <3>1, <3>2 DEF EmptyPacket
  <2>2. CASE segs # <<>>
    BY <2>2 DEF SegmentPacket
  <2> QED BY <2>1, <2>2
<1>5. Least(remain, PacketSize) \in Nat
  <2>1. Least(remain, PacketSize) \in 0 .. PacketSize
    BY <1>3, OnePacketLess
  <2> QED BY <2>1, SizesAssumption
<1> HIDE DEF new
<1>6. ASSUME ~failed PROVE Tiles(OfFrame(fid)', pid + 1, frame_offset + Least(remain, PacketSize))
  <2>1. OfFrame(fid)' = OfFrame(fid) \cup {new}
    BY <1>1, <1>4, <1>6 DEF OfFrame
  <2>2. Tiles(OfFrame(fid), pid, frame_offset)
    BY <1>1, <1>6 DEF TilingInv, Tiled
  <2>3. \A p \in OfFrame(fid) : p.pid \in Nat
    <3>1. \A p \in OfFrame(fid) : p.pid \in 0 .. pid - 1
      BY <2>2 DEF Tiles
    <3> QED BY <3>1, <1>3
  <2>4. Tiles(OfFrame(fid) \cup {new}, pid + 1, frame_offset + new.length)
    BY <1>3, <1>4, <1>5, <1>6, <2>2, <2>3, TilesGrow
  <2> QED BY <1>4, <1>6, <2>1, <2>4
<1>7. Tiled'
  BY <1>1, <1>6 DEF Tiled, Stamping
<1> QED BY <1>2, <1>7 DEF TilingInv

\* The packet's row.
LEMMA TilingStampState ==
  ASSUME TilingInv, StampState
  PROVE  TilingInv'
<1>1. UNCHANGED <<fid, segs, seg, pid, remain, frame_offset, pid_offset, byte_offset, failed, sent>>
      /\ streamer = "stampState" /\ streamer' \in {"stampTime", "wild"}
  BY DEF StampState, loopVars
<1>2. BytesOf(seg)' = BytesOf(seg) /\ PacketsOf(seg)' = PacketsOf(seg)
      /\ BytesOf(seg - 1)' = BytesOf(seg - 1) /\ PacketsOf(seg - 1)' = PacketsOf(seg - 1)
      /\ OfFrame(fid)' = OfFrame(fid)
  BY <1>1 DEF BytesOf, PacketsOf, OfFrame
<1> QED BY <1>1, <1>2 DEF TilingInv, Position, EmptyPosition, AllSent, Tiled, Sending, Stamping

\* The cursors go past the packet.
LEMMA TilingStampTime ==
  ASSUME TypeInv, TilingInv, StampTime
  PROVE  TilingInv'
<1> DEFINE step == Least(remain, PacketSize)
<1>1. /\ UNCHANGED <<fid, segs, seg, pid_offset, byte_offset, failed, sent>>
      /\ streamer = "stampTime" /\ streamer' = IF remain' > 0 THEN "send" ELSE "endSegment"
      /\ pid' = (pid + 1) % PidModulus
      /\ remain' = remain - step /\ frame_offset' = frame_offset + step
  BY DEF StampTime
<1>2. TypeOK /\ pid \in Nat /\ frame_offset \in Nat /\ remain \in Nat /\ seg \in Nat
  BY DEF TypeInv, TypeOK
<1>3. step \in Nat /\ remain' \in Nat
  <2>1. step \in 0 .. PacketSize /\ remain - step \in Nat
    BY <1>2, OnePacketLess
  <2> QED BY <1>1, <2>1, SizesAssumption
<1>4. BytesOf(seg)' = BytesOf(seg) /\ PacketsOf(seg)' = PacketsOf(seg)
      /\ BytesOf(seg - 1)' = BytesOf(seg - 1) /\ PacketsOf(seg - 1)' = PacketsOf(seg - 1)
      /\ OfFrame(fid)' = OfFrame(fid)
  BY <1>1 DEF BytesOf, PacketsOf, OfFrame
<1> HIDE DEF step
<1>5. ASSUME ~failed, segs # <<>>
      PROVE  /\ pid' = pid + 1
             /\ pid' + NrPackets(remain') = PacketsOf(seg)
             /\ frame_offset' + remain' = BytesOf(seg)
             /\ byte_offset' = BytesOf(seg - 1) /\ pid_offset' = PacketsOf(seg - 1)
  <2>1. /\ frame_offset + remain = BytesOf(seg) /\ pid + NrPackets(remain) = PacketsOf(seg)
        /\ remain # 0
        /\ byte_offset = BytesOf(seg - 1) /\ pid_offset = PacketsOf(seg - 1)
    BY <1>1, <1>5 DEF TilingInv, Position, Sending
  <2>2. NrPackets(remain) = NrPackets(remain') + 1 /\ NrPackets(remain') \in Nat
    <3>1. remain > 0
      BY <1>2, <2>1
    <3> QED BY <1>1, <1>2, <1>3, <3>1, OnePacketLess DEF step
  <2>3. PacketsOf(seg) < PidModulus /\ PacketsOf(seg) \in Nat
    <3>1. seg \in 1 .. Len(segs)
      BY <1>1, <1>5 DEF TypeInv, Cursors, Sending
    <3> QED BY <1>2, <3>1, SegmentSums
  <2>4. pid + 1 \in 0 .. PidModulus - 1
    BY <1>2, <2>1, <2>2, <2>3, SizesAssumption
  <2>5. pid' = pid + 1
    BY <1>1, <2>4, SizesAssumption
  <2> QED BY <1>1, <1>2, <1>3, <2>1, <2>2, <2>5
<1>6. ASSUME ~failed, segs = <<>>
      PROVE  pid' = 1 /\ frame_offset' = 0 /\ remain' = 0 /\ streamer' = "endSegment" /\ pid = 0
  <2>1. pid = 0 /\ remain = 0 /\ frame_offset = 0
    BY <1>1, <1>6 DEF TilingInv, EmptyPosition, Sending, Stamping
  <2>2. step = 0 /\ 1 % PidModulus = 1
    BY <2>1, SizesAssumption DEF step, Least
  <2> QED BY <1>1, <2>1, <2>2
<1>7. Position'
  BY <1>1, <1>3, <1>4, <1>5 DEF Position
<1>8. EmptyPosition' /\ AllSent'
  BY <1>1, <1>6 DEF EmptyPosition, AllSent, Stamping
<1>9. Tiled'
  <2>1. ASSUME ~failed PROVE Tiles(OfFrame(fid), pid', frame_offset')
    <3>1. Tiles(OfFrame(fid), pid + 1, frame_offset + step)
      BY <1>1, <2>1 DEF TilingInv, Tiled, Stamping, step
    <3>2. pid' = pid + 1
      BY <1>5, <1>6, <2>1
    <3> QED BY <1>1, <3>1, <3>2
  <2> QED BY <1>1, <1>4, <2>1 DEF Tiled, Stamping
<1> QED BY <1>7, <1>8, <1>9 DEF TilingInv

\* From segment to segment the cursors stay where they are, as long as nothing
\* failed; after a failure nothing is said of the frame.
LEMMA TilingSendFails ==
  ASSUME TilingInv, SendFails
  PROVE  TilingInv'
<1>1. failed' = TRUE /\ streamer' \in {"send", "endSegment", "finish"}
  BY DEF SendFails, NextSegment, SegmentStart
<1> QED BY <1>1 DEF TilingInv, Position, EmptyPosition, AllSent, Tiled

\* The cursors, reset from the segment's beginning, are where they were, and so
\* the next segment begins where the last one ended.
LEMMA TilingEndSegment ==
  ASSUME TypeInv, TilingInv, EndSegment
  PROVE  TilingInv'
<1>1. /\ UNCHANGED <<fid, segs, failed, sent>>
      /\ streamer = "endSegment"
      /\ segs = <<>> => NextSegment(1, 0)
      /\ segs # <<>> => NextSegment(pid_offset + NrPackets(segs[seg].size), byte_offset + segs[seg].size)
  BY DEF EndSegment
<1>2. TypeOK /\ pid \in Nat /\ frame_offset \in Nat /\ remain \in Nat /\ seg \in Nat
  BY DEF TypeInv, TypeOK
<1>3. OfFrame(fid)' = OfFrame(fid)
  BY <1>1 DEF OfFrame
<1>4. ASSUME ~failed PROVE Tiles(OfFrame(fid), pid, frame_offset)
  BY <1>1, <1>4 DEF TilingInv, Tiled
<1>5. CASE failed
  <2>1. streamer' \in {"send", "endSegment", "finish"}
    BY <1>1 DEF NextSegment, SegmentStart
  <2> QED BY <1>1, <1>5, <2>1 DEF TilingInv, Position, EmptyPosition, AllSent, Tiled
<1>6. CASE ~failed /\ segs = <<>>
  <2>1. pid = 1 /\ frame_offset = 0
    BY <1>1, <1>6 DEF TilingInv, EmptyPosition
  <2>2. seg >= Len(segs)
    <3>1. Len(segs) = 0
      BY <1>6, EmptySeq
    <3> QED BY <1>2, <3>1
  <2>3. streamer' = "finish" /\ pid' = pid /\ frame_offset' = frame_offset
    BY <1>1, <1>2, <1>6, <2>2, SegmentTypes DEF NextSegment
  <2> QED BY <1>1, <1>3, <1>4, <1>6, <2>1, <2>3
          DEF TilingInv, Position, EmptyPosition, AllSent, Tiled, Sending, Stamping
<1>7. CASE ~failed /\ segs # <<>>
  <2> DEFINE bytes == byte_offset + segs[seg].size
             pids == pid_offset + NrPackets(segs[seg].size)
  <2>1. seg \in 1 .. Len(segs) /\ Len(segs) \in Nat
    BY <1>1, <1>2, <1>7, SegmentTypes DEF TypeInv, Cursors, Sending
  <2>2. /\ byte_offset = BytesOf(seg - 1) /\ pid_offset = PacketsOf(seg - 1)
        /\ frame_offset + remain = BytesOf(seg) /\ pid + NrPackets(remain) = PacketsOf(seg)
        /\ remain = 0
    BY <1>1, <1>7 DEF TilingInv, Position, Sending
  <2>3. frame_offset = BytesOf(seg) /\ pid = PacketsOf(seg)
    <3>1. NrPackets(0) = 0
      BY OnePacketLess
    <3> QED BY <1>2, <2>2, <3>1
  <2>4. bytes = BytesOf(seg) /\ pids = PacketsOf(seg) /\ PacketsOf(seg) \in 0 .. PidModulus - 1
    <3>1. /\ BytesOf(seg) = BytesOf(seg - 1) + segs[seg].size
          /\ PacketsOf(seg) = PacketsOf(seg - 1) + NrPackets(segs[seg].size)
          /\ PacketsOf(seg) \in Nat /\ PacketsOf(seg) < PidModulus
      BY <1>2, <2>1, SegmentSums
    <3> QED BY <2>2, <3>1, SizesAssumption
  <2>5. pids % PidModulus = pid /\ bytes = frame_offset
    BY <2>3, <2>4, SizesAssumption
  <2>6. NextSegment(pids, bytes)
    BY <1>1, <1>7
  <2> HIDE DEF pids, bytes
  <2>7. pid' = pid /\ frame_offset' = frame_offset /\ pid_offset' = pid /\ byte_offset' = frame_offset
    BY <2>5, <2>6 DEF NextSegment
  <2>8. streamer' \in {"send", "endSegment", "finish"}
    BY <2>6 DEF NextSegment, SegmentStart
  <2>9. Tiled'
    BY <1>1, <1>3, <1>4, <1>7, <2>7, <2>8 DEF Tiled, Stamping
  <2>10. EmptyPosition'
    BY <1>1, <1>7 DEF EmptyPosition
  <2>11. CASE seg < Len(segs)
    <3>1. seg' = seg + 1 /\ remain' = segs[seg + 1].size /\ streamer' = SegmentStart(segs[seg + 1].size)
      BY <2>6, <2>11 DEF NextSegment
    <3>2. seg + 1 \in 1 .. Len(segs) /\ (seg + 1) - 1 = seg /\ segs[seg + 1].size \in Nat
      BY <1>2, <2>1, <2>11, SegmentTypes
    <3>3. /\ BytesOf(seg + 1) = BytesOf(seg) + segs[seg + 1].size
          /\ PacketsOf(seg + 1) = PacketsOf(seg) + NrPackets(segs[seg + 1].size)
      BY <1>2, <3>2, SegmentSums
    <3>4. /\ BytesOf(seg)' = BytesOf(seg + 1) /\ PacketsOf(seg)' = PacketsOf(seg + 1)
          /\ BytesOf(seg - 1)' = BytesOf(seg) /\ PacketsOf(seg - 1)' = PacketsOf(seg)
      BY <1>1, <3>1, <3>2 DEF BytesOf, PacketsOf
    <3>5. Position'
      BY <2>3, <2>7, <3>1, <3>2, <3>3, <3>4 DEF Position, SegmentStart
    <3>6. AllSent'
      BY <3>1 DEF AllSent, SegmentStart
    <3> QED BY <2>9, <2>10, <3>5, <3>6 DEF TilingInv
  <2>12. CASE ~(seg < Len(segs))
    <3>1. streamer' = "finish" /\ seg = Len(segs)
      BY <2>1, <2>6, <2>12 DEF NextSegment
    <3>2. pid = Sum[PacketCounts(segs)] /\ frame_offset = Bytes(segs)
      BY <1>2, <2>3, <3>1, SegmentSums
    <3>3. Position' /\ AllSent'
      BY <1>1, <1>7, <2>7, <3>1, <3>2 DEF Position, AllSent, Sending
    <3> QED BY <2>9, <2>10, <3>3 DEF TilingInv
  <2> QED BY <2>11, <2>12
<1> QED BY <1>5, <1>6, <1>7

\* Every step keeps the tiling.
LEMMA TilingStep == IInv /\ TypeInv /\ TilingInv /\ [Next]_vars => TilingInv'
<1> SUFFICES ASSUME IInv, TypeInv, TilingInv, [Next]_vars PROVE TilingInv'
  OBVIOUS
<1>1. CASE StreamerStep
  BY <1>1, TilingLoop, TilingSetLast, TilingSend, TilingStampState, TilingStampTime,
     TilingSendFails, TilingEndSegment DEF StreamerStep
<1>2. CASE FeedbackStep \/ MainStep \/ UNCHANGED vars
  BY <1>2, TilingElsewhere
<1> QED BY <1>1, <1>2 DEF Next

\* A frame all of whose packets sendto() accepted went out whole: send_frame()
\* and send_frame_seg() number its packets 0 .. total_packets - 1 once each, end
\* to end from its first byte to its last, whatever the number and the sizes of
\* the encoder's segments.
THEOREM FrameTiledHolds == Spec => []FrameTiled
<1>1. Init => TilingInv
  BY InitTiling
<1>2. TypeInv /\ TilingInv => FrameTiled
  BY TilingFollows
<1> QED BY <1>1, <1>2, Invariance, TypeInvariance, TilingStep, PTL DEF Spec

-----------------------------------------------------------------------------
(* The stores in the packet table.                                         *)

\* The packet being stamped has an entry in the table, unless a sendto() of its
\* frame failed: its number is below the frame's count of packets.
LEMMA StampedHasEntry ==
  ASSUME TypeInv, TilingInv, streamer \in {"stampState", "stampTime"}, ~failed
  PROVE  pid \in Pids
<1>1. TypeOK /\ pid \in Nat /\ remain \in Nat /\ TotalPackets(segs) \in 1 .. PacketPerFrameMax
  BY SegmentTypes DEF TypeInv, TypeOK
<1>2. CASE segs = <<>>
  <2>1. pid = 0
    BY <1>2 DEF TilingInv, EmptyPosition, Stamping
  <2> QED BY <2>1, SizesAssumption DEF Pids
<1>3. CASE segs # <<>>
  <2>1. pid + NrPackets(remain) = PacketsOf(seg) /\ remain # 0
    BY <1>3 DEF TilingInv, Position, Sending
  <2>2. NrPackets(remain) \in Nat /\ NrPackets(remain) # 0
    <3>1. remain > 0
      BY <1>1, <2>1
    <3>2. NrPackets(remain) = NrPackets(remain - Least(remain, PacketSize)) + 1
          /\ NrPackets(remain - Least(remain, PacketSize)) \in Nat
      BY <1>1, <3>1, OnePacketLess
    <3> QED BY <3>2
  <2>3. PacketsOf(seg) \in Nat /\ PacketsOf(seg) <= PacketPerFrameMax
    <3>1. seg \in 1 .. Len(segs)
      BY <1>3 DEF TypeInv, Cursors, Sending
    <3> QED BY <1>1, <3>1, SegmentSums
  <2> QED BY <1>1, <2>1, <2>2, <2>3, SizesAssumption DEF Pids
<1> QED BY <1>2, <1>3

\* Only a store outside the table ends the defined behaviour, and the packet
\* it is about is the one being stamped.
LEMMA StoresStep ==
  StoresInTable /\ IInv /\ TypeInv /\ TilingInv /\ [Next]_vars => StoresInTable'
<1> SUFFICES ASSUME StoresInTable, IInv, TypeInv, TilingInv, [Next]_vars PROVE StoresInTable'
  OBVIOUS
<1>1. CASE StampState
  <2>1. failed' = failed /\ feedback' = feedback
    BY <1>1 DEF StampState, loopVars, feedbackVars
  <2>2. streamer' = "wild" => failed
    BY <1>1, StampedHasEntry DEF StampState
  <2>3. streamer # "wild"
    BY <1>1 DEF StampState
  <2> QED BY <2>1, <2>2, <2>3 DEF StoresInTable, Defined
<1>2. CASE FeedbackStep
  <2>1. Defined /\ UNCHANGED <<streamer, failed>>
    BY <1>2 DEF FeedbackStep, TestStop, ReceiveTimesOut, PacketFeedback, SetRtt, SetState,
            FrameFeedback, loopVars
  <2>2. feedback' = "wild" => feedback = "rtt" /\ answer[2] \notin Pids
    BY <1>2 DEF FeedbackStep, TestStop, ReceiveTimesOut, PacketFeedback, SetRtt, SetState,
            FrameFeedback
  <2>3. ASSUME feedback = "rtt", answer[2] \notin Pids PROVE failed
    <3>1. PICK p \in sent : p.fid = answer[1] /\ p.pid = answer[2]
      BY <2>3 DEF IInv, AnswerHasTable
    <3>2. p.fid \in Rows
      BY <2>3, <3>1 DEF IInv, AnswerHasTable
    <3>3. Stamping /\ pid \notin Pids
      BY <2>3, <3>1, <3>2 DEF IInv, SentStamped
    <3>4. streamer \in {"stampState", "stampTime"}
      BY <2>1, <3>3 DEF Stamping, Defined
    <3> QED BY <3>3, <3>4, StampedHasEntry
  <2> QED BY <2>1, <2>2, <2>3 DEF StoresInTable, Defined
<1>3. CASE MainStep \/ UNCHANGED vars
  <2>1. UNCHANGED <<streamer, feedback, failed>>
    BY <1>3 DEF MainStep, EndShow, DumpRow, StopThreads, Join, vars, loopVars, feedbackVars
  <2> QED BY <2>1 DEF StoresInTable, Defined
<1>4. CASE StreamerStep /\ ~StampState
  <2>1. Defined /\ streamer' # "wild" /\ feedback' = feedback
    BY <1>4 DEF StreamerStep, StreamerStops, Encode, Record, SetLast, SendPacket, SendFails,
            StampTime, EndSegment, Finish, Pace, NextSegment, SegmentStart, feedbackVars
  <2> QED BY <2>1 DEF StoresInTable, Defined
<1> QED BY <1>1, <1>2, <1>3, <1>4 DEF Next

\* Neither thread stores outside the packet tables, whose index nobody checks,
\* unless a sendto() of the frame at hand has failed.
THEOREM StoresStayInTable == Spec => []StoresInTable
<1>1. Init => TilingInv /\ StoresInTable
  BY InitTiling DEF Init, OpenCamera, StoresInTable, Defined
<1> QED BY <1>1, Invariance, TypeInvariance, TilingStep, StoresStep, PTL DEF Spec

\* The segments EncodeFrameCV() returns of a frame of the usual shape are its
\* units in order, each where it lies in the frame, whatever their lengths and
\* number: the wrong length it advances by is not seen in such a frame.
THEOREM EncodedIntactHolds == Spec => []EncodedIntact
<1>1. Init => Encoded
  BY InitTiling
<1> QED BY <1>1, EncodedStep, EncodedFollows, PTL DEF Spec
=============================================================================
