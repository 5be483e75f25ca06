-------------------------- MODULE ForwardReaderProofs --------------------------
(***************************************************************************)
(* Proofs about the forward reader: that what its cursor holds is what the *)
(* stream carries next, that data() takes a payload from its beginning and *)
(* ends well only with content that is vouched for, and that a walk which  *)
(* has ended has let go of its source.                                     *)
(*                                                                         *)
(* The first part is about the cursor alone: the pieces it holds follow    *)
(* one another, and stay so whatever is cut off, handed out or put back.   *)
(* The second is about what payload units decode to and what a data        *)
(* descriptor matches.  The third is the inductive invariant, IInv, a      *)
(* lemma for each action of ForwardReader that keeps it, and the theorems. *)
(* What makes it inductive is who may take bytes when: while the walk      *)
(* reads, the entry before is done with (DoneWell), and while it is not,   *)
(* the cursor stands where the payload was left (PayloadWell).             *)
(***************************************************************************)
EXTENDS ForwardReader, RecordProofs

-----------------------------------------------------------------------------
(* Pieces that follow one another.  Chain(p, a, b): the pieces of p are    *)
(* the bytes from a to b, none of them empty.                              *)

Ranges == {r \in [from : Nat, to : Nat] : r.from < r.to}
Chain(p, a, b) ==
  /\ p \in Seq(Ranges) /\ a \in Nat /\ b \in Nat
  /\ IF p = <<>> THEN a = b
     ELSE /\ p[1].from = a /\ p[Len(p)].to = b
          /\ \A i \in 1 .. Len(p) - 1 : p[i].to = p[i + 1].from

(* A range has a length, and is what its ends say. *)
LEMMA RangeIs ==
  ASSUME NEW r \in Ranges
  PROVE  /\ r.from \in Nat /\ r.to \in Nat /\ r.from < r.to /\ r = Piece(r.from, r.to)
         /\ PieceLength(r) = r.to - r.from
BY DEF Ranges, Piece, PieceLength

(* Two ends are a range. *)
LEMMA PieceTyped ==
  ASSUME NEW a \in Nat, NEW b \in Nat, a < b
  PROVE  Piece(a, b) \in Ranges /\ Piece(a, b).from = a /\ Piece(a, b).to = b
BY DEF Ranges, Piece

(* No piece, and one. *)
LEMMA ChainNone == ASSUME NEW a \in Nat PROVE Chain(<<>>, a, a)
BY EmptyTyped DEF Chain

(* One piece is a chain from its one end to the other. *)
LEMMA ChainOne == ASSUME NEW r \in Ranges PROVE Chain(<<r>>, r.from, r.to)
<1>1. <<r>> \in Seq(Ranges) /\ Len(<<r>>) = 1 /\ <<r>>[1] = r /\ <<r>> # <<>>
  BY Singleton
<1>2. r.from \in Nat /\ r.to \in Nat
  BY RangeIs
<1>3. QED
  BY <1>1, <1>2 DEF Chain

(* The pieces of a chain, one by one. *)
LEMMA ChainAt ==
  ASSUME NEW p, NEW a, NEW b, Chain(p, a, b)
  PROVE  /\ Len(p) \in Nat /\ DOMAIN p = 1 .. Len(p) /\ a \in Nat /\ b \in Nat
         /\ \A i \in 1 .. Len(p) : p[i] \in Ranges
         /\ \A i \in 1 .. Len(p) : p[i].from = IF i = 1 THEN a ELSE p[i - 1].to
         /\ p = <<>> <=> Len(p) = 0
         /\ b = IF Len(p) = 0 THEN a ELSE p[Len(p)].to
<1>1. p \in Seq(Ranges) /\ a \in Nat /\ b \in Nat
  BY DEF Chain
<1>2. Len(p) \in Nat /\ DOMAIN p = 1 .. Len(p) /\ (p = <<>> <=> Len(p) = 0)
  BY <1>1
<1>3. \A i \in 1 .. Len(p) : p[i] \in Ranges
  BY <1>1
<1>4. ASSUME NEW i \in 1 .. Len(p) PROVE p[i].from = IF i = 1 THEN a ELSE p[i - 1].to
  <2>1. p # <<>>
    BY <1>2
  <2>2. CASE i = 1
    BY <2>1, <2>2 DEF Chain
  <2>3. CASE i # 1
    <3>1. i - 1 \in 1 .. Len(p) - 1 /\ (i - 1) + 1 = i
      BY <1>2, <2>3
    <3>2. p[i - 1].to = p[(i - 1) + 1].from
      BY <2>1, <3>1 DEF Chain
    <3>3. QED
      BY <2>3, <3>1, <3>2
  <2>4. QED
    BY <2>2, <2>3
<1>5. b = IF Len(p) = 0 THEN a ELSE p[Len(p)].to
  BY <1>2 DEF Chain
<1>6. QED
  BY <1>1, <1>2, <1>3, <1>4, <1>5

(* What is so piece by piece is a chain. *)
LEMMA ChainIf ==
  ASSUME NEW p \in Seq(Ranges), NEW a \in Nat, NEW b \in Nat,
         \A i \in 1 .. Len(p) : p[i].from = IF i = 1 THEN a ELSE p[i - 1].to,
         b = IF Len(p) = 0 THEN a ELSE p[Len(p)].to
  PROVE  Chain(p, a, b)
<1>1. Len(p) \in Nat /\ (p = <<>> <=> Len(p) = 0)
  OBVIOUS
<1>2. CASE p = <<>>
  BY <1>1, <1>2 DEF Chain
<1>3. CASE p # <<>>
  <2>1. 1 \in 1 .. Len(p) /\ p[Len(p)].to = b
    BY <1>1, <1>3
  <2>2. p[1].from = a
    BY <2>1
  <2>3. ASSUME NEW i \in 1 .. Len(p) - 1 PROVE p[i].to = p[i + 1].from
    <3>1. i + 1 \in 1 .. Len(p) /\ i + 1 # 1 /\ (i + 1) - 1 = i
      BY <1>1
    <3>2. QED
      BY <3>1
  <2>4. QED
    BY <1>3, <2>1, <2>2, <2>3 DEF Chain
<1>4. QED
  BY <1>2, <1>3

(* Chains that meet are one. *)
LEMMA ChainConcat ==
  ASSUME NEW p, NEW q, NEW a, NEW b, NEW c, Chain(p, a, b), Chain(q, b, c)
  PROVE  Chain(p \o q, a, c)
<1> DEFINE pq == p \o q
<1>1. p \in Seq(Ranges) /\ q \in Seq(Ranges) /\ a \in Nat /\ b \in Nat /\ c \in Nat
  BY DEF Chain
<1>2. /\ Len(p) \in Nat /\ Len(q) \in Nat /\ pq \in Seq(Ranges) /\ Len(pq) = Len(p) + Len(q)
      /\ \A i \in 1 .. Len(p) : pq[i] = p[i]
      /\ \A i \in 1 .. Len(q) : pq[Len(p) + i] = q[i]
  BY <1>1
<1>3. /\ \A i \in 1 .. Len(p) : p[i].from = IF i = 1 THEN a ELSE p[i - 1].to
      /\ b = IF Len(p) = 0 THEN a ELSE p[Len(p)].to
  BY ChainAt
<1>4. /\ \A i \in 1 .. Len(q) : q[i].from = IF i = 1 THEN b ELSE q[i - 1].to
      /\ c = IF Len(q) = 0 THEN b ELSE q[Len(q)].to
  BY ChainAt
<1> HIDE DEF pq
<1>5. ASSUME NEW i \in 1 .. Len(pq) PROVE pq[i].from = IF i = 1 THEN a ELSE pq[i - 1].to
  <2>1. CASE i <= Len(p)
    <3>1. i \in 1 .. Len(p) /\ (i # 1 => i - 1 \in 1 .. Len(p))
      BY <1>2, <2>1
    <3>2. QED
      BY <1>2, <1>3, <3>1
  <2>2. CASE i = Len(p) + 1
    <3>1. 1 \in 1 .. Len(q) /\ (i # 1 => Len(p) \in 1 .. Len(p) /\ Len(p) # 0) /\ i - 1 = Len(p)
      BY <1>2, <2>2
    <3>2. pq[i] = q[1] /\ q[1].from = b
      BY <1>2, <1>4, <2>2, <3>1
    <3>3. i # 1 => pq[i - 1] = p[Len(p)]
      BY <1>2, <3>1
    <3>4. i = 1 => Len(p) = 0
      BY <1>2, <2>2
    <3>5. QED
      BY <1>3, <3>1, <3>2, <3>3, <3>4
  <2>3. CASE i > Len(p) + 1
    <3> DEFINE j == i - Len(p)
    <3>1. j \in 1 .. Len(q) /\ j # 1 /\ j - 1 \in 1 .. Len(q) /\ i = Len(p) + j
          /\ i - 1 = Len(p) + (j - 1) /\ i # 1
      BY <1>2, <2>3
    <3>2. pq[i] = q[j] /\ pq[i - 1] = q[j - 1] /\ q[j].from = q[j - 1].to
      BY <1>2, <1>4, <3>1
    <3>3. QED
      BY <3>1, <3>2
  <2>4. QED
    BY <1>2, <2>1, <2>2, <2>3
<1>6. c = IF Len(pq) = 0 THEN a ELSE pq[Len(pq)].to
  <2>1. CASE Len(q) = 0
    <3>1. Len(pq) = Len(p) /\ (Len(p) # 0 => Len(p) \in 1 .. Len(p))
      BY <1>2, <2>1
    <3>2. QED
      BY <1>2, <1>3, <1>4, <2>1, <3>1
  <2>2. CASE Len(q) # 0
    <3>1. Len(q) \in 1 .. Len(q) /\ Len(pq) # 0
      BY <1>2, <2>2
    <3>2. QED
      BY <1>2, <1>4, <2>2, <3>1
  <2>3. QED
    BY <2>1, <2>2
<1>7. Chain(pq, a, c)
  BY <1>1, <1>2, <1>5, <1>6, ChainIf
<1>8. QED
  BY <1>7 DEF pq

(* How long the pieces are. *)
Lengths(p) == [i \in 1 .. Len(p) |-> PieceLength(p[i])]
PieceSums(sum, p) ==
  sum = [n \in 0 .. Len(p) |-> IF n = 0 THEN 0 ELSE sum[n - 1] + PieceLength(p[n])]

(* The lengths of a chain add up to the distance of its ends. *)
LEMMA ChainSum ==
  ASSUME NEW p, NEW a, NEW b, Chain(p, a, b)
  PROVE  SumOf(PieceLength, p) = b - a /\ b - a \in Nat
<1> DEFINE c == CHOOSE sum : PieceSums(sum, p)
<1> DEFINE s == [n \in 0 .. Len(p) |-> IF n = 0 THEN 0 ELSE p[n].to - a]
<1>0. /\ Len(p) \in Nat /\ a \in Nat /\ b \in Nat
      /\ \A i \in 1 .. Len(p) : p[i].from = IF i = 1 THEN a ELSE p[i - 1].to
      /\ b = IF Len(p) = 0 THEN a ELSE p[Len(p)].to
      /\ \A i \in 1 .. Len(p) : p[i] \in Ranges
  BY ChainAt
<1>1. \A i \in 1 .. Len(p) : /\ p[i].from \in Nat /\ p[i].to \in Nat /\ p[i].from < p[i].to
                             /\ PieceLength(p[i]) = p[i].to - p[i].from
  BY <1>0, RangeIs
<1>2. Lengths(p) \in Seq(Nat) /\ Len(Lengths(p)) = Len(p)
      /\ \A i \in 1 .. Len(p) : Lengths(p)[i] = p[i].to - p[i].from
  <2>1. \A i \in 1 .. Len(p) : PieceLength(p[i]) \in Nat
    BY <1>1
  <2>2. Lengths(p) \in Seq(Nat) /\ Len(Lengths(p)) = Len(p)
    BY <1>0, <2>1 DEF Lengths
  <2>3. QED
    BY <1>1, <2>2 DEF Lengths
<1>3. \A n \in 1 .. Len(p) : s[n] = s[n - 1] + Lengths(p)[n]
  <2>1. ASSUME NEW n \in 1 .. Len(p) PROVE s[n] = s[n - 1] + Lengths(p)[n]
    <3>1. n \in 0 .. Len(p) /\ n - 1 \in 0 .. Len(p) /\ (n # 1 => n - 1 \in 1 .. Len(p))
      BY <1>0
    <3>2. s[n] = p[n].to - a /\ s[n - 1] = IF n = 1 THEN 0 ELSE p[n - 1].to - a
      BY <3>1
    <3>3. s[n - 1] = p[n].from - a
      BY <1>0, <3>2
    <3>4. p[n].from \in Nat /\ p[n].to \in Nat
      BY <1>1
    <3> HIDE DEF s
    <3>5. QED
      BY <1>0, <1>2, <3>2, <3>3, <3>4
  <2>2. QED
    BY <2>1
<1>4. PrefixSums(s, Lengths(p))
  <2>1. s[0] = 0 /\ s = [n \in 0 .. Len(p) |-> s[n]]
    BY <1>0
  <2> HIDE DEF s
  <2>2. s = [n \in 0 .. Len(p) |-> IF n = 0 THEN 0 ELSE s[n - 1] + Lengths(p)[n]]
    <3>1. ASSUME NEW n \in 0 .. Len(p)
          PROVE  s[n] = IF n = 0 THEN 0 ELSE s[n - 1] + Lengths(p)[n]
      <4>1. n # 0 => n \in 1 .. Len(p)
        BY <1>0
      <4>2. QED
        BY <1>3, <2>1, <4>1
    <3>2. QED
      BY <2>1, <3>1
  <2>3. QED
    BY <1>2, <2>2 DEF PrefixSums
<1>5. s[Len(p)] = b - a
  BY <1>0
<1> HIDE DEF s
<1>6. \A sum : PieceSums(sum, p) <=> PrefixSums(sum, Lengths(p))
  <2>1. ASSUME NEW sum PROVE PieceSums(sum, p) <=> PrefixSums(sum, Lengths(p))
    <3>1. [n \in 0 .. Len(p) |-> IF n = 0 THEN 0 ELSE sum[n - 1] + PieceLength(p[n])]
          = [n \in 0 .. Len(Lengths(p)) |-> IF n = 0 THEN 0 ELSE sum[n - 1] + Lengths(p)[n]]
      BY <1>0, <1>1, <1>2
    <3>2. QED
      BY <3>1, Zenon DEF PieceSums, PrefixSums
  <2>2. QED
    BY <2>1
<1>7. PrefixSums(c, Lengths(p))
  BY <1>4, <1>6
<1>8. SumOf(PieceLength, p) = c[Len(p)]
  BY DEF SumOf, PieceSums, c
<1> HIDE DEF c
<1>9. TotalOf(Lengths(p)) = b - a /\ TotalOf(Lengths(p)) = c[Len(p)] /\ TotalOf(Lengths(p)) \in Nat
  BY <1>2, <1>4, <1>5, <1>7, TotalIs
<1>10. QED
  BY <1>8, <1>9

(* They are one range, *)
LEMMA ChainRange ==
  ASSUME NEW p, NEW a, NEW b, Chain(p, a, b), p # <<>>
  PROVE  OneRange(p) = Piece(a, b)
<1>1. p \in Seq(Ranges)
  BY DEF Chain
<1>2. Last(p) = p[Len(p)]
  BY <1>1 DEF Last
<1>3. QED
  BY <1>2 DEF Chain, OneRange

(* The pieces in front of one lead up to it. *)
LEMMA ChainBefore ==
  ASSUME NEW p, NEW a, NEW b, Chain(p, a, b), NEW i \in 1 .. Len(p)
  PROVE  SumOf(PieceLength, SubSeq(p, 1, i - 1)) = p[i].from - a /\ p[i].from - a \in Nat
<1> DEFINE q == SubSeq(p, 1, i - 1)
<1>1. /\ p \in Seq(Ranges) /\ Len(p) \in Nat /\ a \in Nat
      /\ \A j \in 1 .. Len(p) : p[j].from = IF j = 1 THEN a ELSE p[j - 1].to
      /\ \A j \in 1 .. Len(p) : p[j] \in Ranges
  BY ChainAt DEF Chain
<1>2. q \in Seq(Ranges) /\ Len(q) = i - 1
  BY <1>1
<1>3. ASSUME NEW j \in 1 .. i - 1 PROVE q[j] = p[j]
  BY <1>1
<1> HIDE DEF q
<1>4. ASSUME NEW j \in 1 .. Len(q) PROVE q[j].from = IF j = 1 THEN a ELSE q[j - 1].to
  <2>1. j \in 1 .. i - 1 /\ j \in 1 .. Len(p) /\ (j # 1 => j - 1 \in 1 .. i - 1)
    BY <1>1, <1>2
  <2>2. q[j] = p[j] /\ (j # 1 => q[j - 1] = p[j - 1])
    BY <1>3, <2>1
  <2>3. QED
    BY <1>1, <2>1, <2>2
<1>5. p[i].from = IF Len(q) = 0 THEN a ELSE q[Len(q)].to
  <2>1. CASE i = 1
    BY <1>1, <1>2, <2>1
  <2>2. CASE i # 1
    <3>1. Len(q) # 0 /\ i - 1 \in 1 .. i - 1
      BY <1>1, <1>2, <2>2
    <3>2. q[Len(q)] = p[i - 1]
      BY <1>2, <1>3, <3>1
    <3>3. QED
      BY <1>1, <2>2, <3>1, <3>2
  <2>3. QED
    BY <2>1, <2>2
<1>6. p[i].from \in Nat
  BY <1>1, RangeIs
<1>7. Chain(q, a, p[i].from)
  BY <1>1, <1>2, <1>4, <1>5, <1>6, ChainIf
<1>8. SumOf(PieceLength, q) = p[i].from - a /\ p[i].from - a \in Nat
  BY <1>7, ChainSum
<1>9. QED
  BY <1>8 DEF q

(* A piece further on begins further on, behind the end of this one. *)
LEMMA ChainAscends ==
  ASSUME NEW p, NEW a, NEW b, Chain(p, a, b), NEW i \in 1 .. Len(p)
  PROVE  \A j \in 1 .. Len(p) : i < j => p[i].to <= p[j].from
<1> DEFINE T == {n \in 0 .. Len(p) : i < n => p[i].to <= p[n].from}
<1>1. /\ Len(p) \in Nat /\ a \in Nat
      /\ \A j \in 1 .. Len(p) : p[j].from = IF j = 1 THEN a ELSE p[j - 1].to
      /\ \A j \in 1 .. Len(p) : p[j] \in Ranges
  BY ChainAt
<1>2. \A j \in 1 .. Len(p) : p[j].from \in Nat /\ p[j].to \in Nat /\ p[j].from < p[j].to
  BY <1>1, RangeIs
<1>3. 0 \in T
  BY <1>1
<1>4. ASSUME NEW n \in 1 .. Len(p), n - 1 \in T PROVE n \in T
  <2>1. CASE i = n - 1
    BY <1>1, <1>2, <2>1
  <2>2. CASE i < n - 1
    <3>1. p[i].to <= p[n - 1].from /\ n - 1 \in 1 .. Len(p) /\ n # 1
      BY <1>4, <2>2
    <3>2. p[n].from = p[n - 1].to
      BY <1>1, <3>1
    <3>3. QED
      BY <1>2, <3>1, <3>2
  <2>3. CASE i > n - 1
    BY <2>3
  <2>4. QED
    BY <1>1, <2>1, <2>2, <2>3
<1>5. \A n \in 0 .. Len(p) : n \in T
  <2> HIDE DEF T
  <2>1. QED
    BY <1>1, <1>3, <1>4, Induction
<1>6. QED
  BY <1>5

(* The first n bytes are the n bytes in front, *)
LEMMA FirstIsChain ==
  ASSUME NEW p, NEW a, NEW b, Chain(p, a, b), NEW n \in Nat, n <= b - a
  PROVE  Chain(FirstBytes(p, n), a, a + n)
<1> DEFINE to == a + n
<1> DEFINE q(k) == [i \in 1 .. k |-> IF p[i].to <= to THEN p[i] ELSE Piece(p[i].from, to)]
<1>1. /\ p \in Seq(Ranges) /\ DOMAIN p = 1 .. Len(p) /\ Len(p) \in Nat /\ a \in Nat /\ b \in Nat
      /\ \A j \in 1 .. Len(p) : p[j].from = IF j = 1 THEN a ELSE p[j - 1].to
      /\ \A j \in 1 .. Len(p) : p[j] \in Ranges
      /\ b = IF Len(p) = 0 THEN a ELSE p[Len(p)].to
  BY ChainAt DEF Chain
<1>2. \A j \in 1 .. Len(p) : /\ p[j].from \in Nat /\ p[j].to \in Nat /\ p[j].from < p[j].to
                             /\ p[j] = Piece(p[j].from, p[j].to)
                             /\ PieceLength(p[j]) = p[j].to - p[j].from
  BY <1>1, RangeIs
<1>3. \A j \in 1 .. Len(p) : SumOf(PieceLength, SubSeq(p, 1, j - 1)) = p[j].from - a
  BY ChainBefore
<1> DEFINE K == {j \in 1 .. Len(p) + 1 : j \in 1 .. Len(p) => p[j].from >= to}
<1>4. K \subseteq Nat /\ K # {}
  <2>1. Len(p) + 1 \in K
    BY <1>1
  <2>2. QED
    BY <1>1, <2>1
<1>5. PICK m \in K : \A j \in K : m <= j
  <2> HIDE DEF K
  <2>1. QED
    BY <1>4, LeastExists
<1> DEFINE k == m - 1
<1>6. k \in 0 .. Len(p) /\ k + 1 = m
  BY <1>1
<1>7. \A j \in 1 .. Len(p) : p[j].from < to <=> j \in 1 .. k
  <2>1. ASSUME NEW j \in 1 .. Len(p), j < m PROVE p[j].from < to
    <3>1. j \notin K
      BY <1>1, <1>5, <2>1
    <3>2. ~(p[j].from >= to)
      BY <1>1, <3>1
    <3>3. QED
      BY <1>1, <1>2, <3>2
  <2>2. ASSUME NEW j \in 1 .. Len(p), j >= m PROVE ~(p[j].from < to)
    <3>1. m \in 1 .. Len(p) /\ p[m].from >= to
      BY <1>1, <2>2
    <3>2. m < j => p[m].to <= p[j].from
      BY <3>1, ChainAscends
    <3>3. p[m].from \in Nat /\ p[m].to \in Nat /\ p[m].from < p[m].to /\ p[j].from \in Nat
      BY <1>2, <3>1
    <3>4. p[j].from >= to
      BY <1>1, <1>6, <2>2, <3>1, <3>2, <3>3
    <3>5. QED
      BY <1>1, <3>3, <3>4
  <2>3. QED
    BY <1>6, <2>1, <2>2
<1> HIDE DEF K, k
<1>8. FirstBytes(p, n) = q(k)
  <2> DEFINE before(i) == SumOf(PieceLength, SubSeq(p, 1, i - 1))
  <2> DEFINE cut(i) == IF before(i) + PieceLength(p[i]) <= n THEN p[i]
                       ELSE [p[i] EXCEPT !.to = p[i].from + (n - before(i))]
  <2>1. FirstBytes(p, n) = [i \in {j \in DOMAIN p : before(j) < n} |-> cut(i)]
    BY DEF FirstBytes
  <2>2. \A j \in 1 .. Len(p) : before(j) = p[j].from - a
    BY <1>3
  <2> HIDE DEF before
  <2>3. {j \in DOMAIN p : before(j) < n} = 1 .. k
    <3>1. \A j \in 1 .. Len(p) : before(j) < n <=> p[j].from < to
      BY <1>1, <1>2, <2>2
    <3>2. 1 .. k \subseteq 1 .. Len(p)
      BY <1>1, <1>6
    <3>3. QED
      BY <1>1, <1>7, <3>1, <3>2
  <2>4. ASSUME NEW i \in 1 .. k
        PROVE  cut(i) = IF p[i].to <= to THEN p[i] ELSE Piece(p[i].from, to)
    <3>1. i \in 1 .. Len(p)
      BY <1>1, <1>6
    <3>2. /\ before(i) = p[i].from - a /\ p[i].from \in Nat /\ p[i].to \in Nat
          /\ PieceLength(p[i]) = p[i].to - p[i].from /\ p[i] = Piece(p[i].from, p[i].to)
      BY <1>2, <2>2, <3>1
    <3>3. before(i) + PieceLength(p[i]) <= n <=> p[i].to <= to
      BY <1>1, <3>2
    <3>4. [p[i] EXCEPT !.to = p[i].from + (n - before(i))] = Piece(p[i].from, to)
      <4>1. p[i].from + (n - before(i)) = to
        BY <1>1, <3>2
      <4>2. [Piece(p[i].from, p[i].to) EXCEPT !.to = to] = Piece(p[i].from, to)
        BY DEF Piece
      <4>3. QED
        BY <3>2, <4>1, <4>2, Zenon
    <3>5. QED
      BY <3>3, <3>4
  <2> HIDE DEF cut
  <2>5. QED
    BY <2>1, <2>3, <2>4
<1>9. ASSUME NEW i \in 1 .. k
      PROVE  /\ q(k)[i] \in Ranges /\ q(k)[i].from = p[i].from
             /\ q(k)[i].to = IF p[i].to <= to THEN p[i].to ELSE to
  <2>1. i \in 1 .. Len(p) /\ p[i].from < to
    <3>1. i \in 1 .. Len(p)
      BY <1>1, <1>6
    <3>2. QED
      BY <1>7, <3>1
  <2>2. CASE p[i].to <= to
    BY <1>1, <2>1, <2>2
  <2>3. CASE ~(p[i].to <= to)
    <3>1. p[i].from \in Nat /\ to \in Nat
      BY <1>1, <1>2, <2>1
    <3>2. q(k)[i] = Piece(p[i].from, to)
      BY <2>3
    <3> HIDE DEF q, to
    <3>3. QED
      BY <2>1, <2>3, <3>1, <3>2, PieceTyped
  <2>4. QED
    BY <2>2, <2>3
<1>10. q(k) \in Seq(Ranges) /\ Len(q(k)) = k
  <2>1. \A i \in 1 .. k : q(k)[i] \in Ranges
    BY <1>9
  <2>2. k \in Nat /\ DOMAIN q(k) = 1 .. k /\ q(k) = [i \in 1 .. k |-> q(k)[i]]
    BY <1>1, <1>6
  <2> HIDE DEF q
  <2>3. QED
    BY <2>1, <2>2
<1>11. ASSUME NEW i \in 1 .. k PROVE q(k)[i].from = IF i = 1 THEN a ELSE q(k)[i - 1].to
  <2>1. i \in 1 .. Len(p) /\ p[i].from < to /\ (i # 1 => i - 1 \in 1 .. k)
    <3>1. i \in 1 .. Len(p)
      BY <1>1, <1>6
    <3>2. QED
      BY <1>7, <3>1, <1>1, <1>6
  <2>2. q(k)[i].from = IF i = 1 THEN a ELSE p[i - 1].to
    BY <1>1, <1>9, <2>1
  <2>3. CASE i = 1
    BY <2>2, <2>3
  <2>4. CASE i # 1
    <3>1. i - 1 \in 1 .. k /\ p[i - 1].to = p[i].from
      BY <1>1, <2>1, <2>4
    <3>2. p[i - 1].to <= to
      <4>1. p[i].from \in Nat /\ to \in Nat
        BY <1>1, <1>2, <2>1
      <4>2. QED
        BY <2>1, <3>1, <4>1
    <3>3. q(k)[i - 1].to = p[i - 1].to
      BY <1>9, <3>1, <3>2
    <3>4. QED
      BY <2>2, <2>4, <3>3
  <2>5. QED
    BY <2>3, <2>4
<1>12. to = IF k = 0 THEN a ELSE q(k)[k].to
  <2>1. CASE k = 0
    <3>1. Len(p) = 0 \/ 1 \in 1 .. Len(p)
      BY <1>1
    <3>2. CASE Len(p) = 0
      BY <1>1, <2>1, <3>2
    <3>3. CASE 1 \in 1 .. Len(p)
      <4>1. ~(p[1].from < to) /\ p[1].from = a
        BY <1>1, <1>7, <2>1, <3>3
      <4>2. QED
        BY <1>1, <2>1, <4>1
    <3>4. QED
      BY <3>1, <3>2, <3>3
  <2>2. CASE k # 0
    <3>1. k \in 1 .. k /\ k \in 1 .. Len(p)
      BY <1>1, <1>6, <2>2
    <3>2. q(k)[k].to = IF p[k].to <= to THEN p[k].to ELSE to
      BY <1>9, <3>1
    <3>3. p[k].to >= to
      <4>1. CASE k = Len(p)
        BY <1>1, <2>2, <4>1
      <4>2. CASE k # Len(p)
        <5>1. k + 1 \in 1 .. Len(p) /\ k + 1 \notin 1 .. k /\ k + 1 # 1 /\ (k + 1) - 1 = k
          <6>1. Len(p) \in Nat
            BY <1>1
          <6>2. QED
            BY <3>1, <4>2, <6>1
        <5>2. ~(p[k + 1].from < to) /\ p[k + 1].from = p[k].to
          BY <1>1, <1>7, <5>1
        <5>3. p[k].to \in Nat
          BY <1>2, <3>1
        <5>4. QED
          BY <1>1, <5>2, <5>3
      <4>3. QED
        BY <4>1, <4>2
    <3>4. p[k].to \in Nat /\ to \in Nat
      BY <1>1, <1>2, <3>1
    <3> HIDE DEF q, to
    <3>5. q(k)[k].to = to
      BY <3>2, <3>3, <3>4
    <3>6. QED
      BY <2>2, <3>5, Zenon
  <2>3. QED
    BY <2>1, <2>2
<1> HIDE DEF q
<1>13. Chain(q(k), a, to)
  <2>1. to \in Nat
    BY <1>1
  <2> HIDE DEF to
  <2>2. QED
    BY <1>1, <1>10, <1>11, <1>12, <2>1, ChainIf
<1>14. QED
  BY <1>8, <1>13

(* and behind them is what stays.                                          *)
LEMMA BehindIsChain ==
  ASSUME NEW p, NEW a, NEW b, Chain(p, a, b), NEW n \in Nat, n <= b - a
  PROVE  Chain(Behind(p, n), a + n, b)
<1> DEFINE cut == a + n
<1> DEFINE before(i) == SumOf(PieceLength, SubSeq(p, 1, i - 1))
<1> DEFINE after(i) ==
      IF before(i) >= n THEN <<p[i]>>
      ELSE IF before(i) + PieceLength(p[i]) <= n THEN <<>>
      ELSE <<[p[i] EXCEPT !.from = p[i].from + (n - before(i))]>>
<1> DEFINE s == [i \in DOMAIN p |-> i]
<1> DEFINE q == [i \in 1 .. Len(p) |-> after(i)]
<1> DEFINE J(join) == join = [i \in 0 .. Len(s) |-> IF i = 0 THEN <<>> ELSE join[i - 1] \o after(s[i])]
<1> DEFINE c == CHOOSE join : J(join)
<1>0. /\ p \in Seq(Ranges) /\ DOMAIN p = 1 .. Len(p) /\ Len(p) \in Nat /\ a \in Nat /\ b \in Nat
      /\ \A j \in 1 .. Len(p) : p[j].from = IF j = 1 THEN a ELSE p[j - 1].to
      /\ \A j \in 1 .. Len(p) : p[j] \in Ranges
      /\ b = IF Len(p) = 0 THEN a ELSE p[Len(p)].to
  BY ChainAt DEF Chain
<1>1. \A j \in 1 .. Len(p) : /\ p[j].from \in Nat /\ p[j].to \in Nat /\ p[j].from < p[j].to
                             /\ p[j] = Piece(p[j].from, p[j].to)
                             /\ PieceLength(p[j]) = p[j].to - p[j].from
  BY <1>0, RangeIs
<1>2. \A j \in 1 .. Len(p) : before(j) = p[j].from - a
  BY ChainBefore
<1>3. Len(s) = Len(p) /\ \A i \in 1 .. Len(p) : s[i] = i
  BY <1>0
<1> DEFINE End(i) == IF i = 0 THEN cut ELSE IF p[i].to <= cut THEN cut ELSE p[i].to
<1>4. ASSUME NEW i \in 1 .. Len(p) PROVE Chain(after(i), End(i - 1), End(i))
  <2> DEFINE f == p[i].from
  <2> DEFINE t == p[i].to
  <2>1. f \in Nat /\ t \in Nat /\ f < t /\ p[i] = Piece(f, t) /\ cut \in Nat /\ p[i] \in Ranges
    BY <1>0, <1>1
  <2>2. (before(i) >= n <=> f >= cut) /\ (before(i) + PieceLength(p[i]) <= n <=> t <= cut)
        /\ f + (n - before(i)) = cut
    <3>1. before(i) = f - a /\ PieceLength(p[i]) = t - f /\ a \in Nat
      BY <1>0, <1>1, <1>2
    <3> HIDE DEF before, f, t
    <3>2. QED
      BY <2>1, <3>1
  <2>3. End(i - 1) = IF f <= cut THEN cut ELSE f
    <3>1. CASE i = 1
      <4>1. f = a /\ i - 1 = 0
        BY <1>0, <3>1
      <4>2. QED
        BY <1>0, <4>1
    <3>2. CASE i # 1
      <4>1. f = p[i - 1].to /\ i - 1 # 0
        BY <1>0, <3>2
      <4>2. QED
        BY <4>1
    <3>3. QED
      BY <3>1, <3>2
  <2>4. End(i) = IF t <= cut THEN cut ELSE t
    BY <1>0
  <2> HIDE DEF End, before, cut, f, t
  <2>5. CASE f >= cut
    <3>1. after(i) = <<p[i]>> /\ Chain(<<p[i]>>, f, t)
      BY <2>1, <2>2, <2>5, ChainOne DEF f, t
    <3>2. End(i - 1) = f /\ End(i) = t
      BY <2>1, <2>3, <2>4, <2>5
    <3>3. QED
      BY <3>1, <3>2
  <2>6. CASE ~(f >= cut) /\ t <= cut
    <3>1. after(i) = <<>> /\ Chain(<<>>, cut, cut)
      BY <2>1, <2>2, <2>6, ChainNone
    <3>2. End(i - 1) = cut /\ End(i) = cut
      BY <2>1, <2>3, <2>4, <2>6
    <3>3. QED
      BY <3>1, <3>2
  <2>7. CASE ~(f >= cut) /\ ~(t <= cut)
    <3>1. [p[i] EXCEPT !.from = cut] = Piece(cut, t)
      BY <2>1 DEF Piece
    <3>2. after(i) = <<Piece(cut, t)>>
      BY <2>2, <2>7, <3>1 DEF f
    <3>3. Piece(cut, t) \in Ranges /\ Piece(cut, t).from = cut /\ Piece(cut, t).to = t
      BY <2>1, <2>7, PieceTyped
    <3>4. Chain(<<Piece(cut, t)>>, cut, t)
      BY <3>3, ChainOne
    <3>5. End(i - 1) = cut /\ End(i) = t
      BY <2>1, <2>3, <2>4, <2>7
    <3>6. QED
      BY <3>2, <3>4, <3>5
  <2>8. QED
    BY <2>5, <2>6, <2>7
<1>5. \A join : J(join) <=> Joins(join, q, Len(p))
  <2> HIDE DEF after, s
  <2>1. ASSUME NEW join PROVE J(join) <=> Joins(join, q, Len(p))
    <3>1. [i \in 0 .. Len(s) |-> IF i = 0 THEN <<>> ELSE join[i - 1] \o after(s[i])]
          = [i \in 0 .. Len(p) |-> IF i = 0 THEN <<>> ELSE join[i - 1] \o q[i]]
      BY <1>0, <1>3
    <3>2. QED
      BY <3>1, Zenon DEF Joins
  <2>2. QED
    BY <2>1
<1>6. Behind(p, n) = c[Len(s)]
  BY DEF Behind, Joined
<1>7. \A i \in 1 .. Len(p) : q[i] = after(i)
  BY <1>0
<1>8. q \in [1 .. Len(p) -> Seq(Ranges)]
  <2> HIDE DEF after, End
  <2>1. \A i \in 1 .. Len(p) : after(i) \in Seq(Ranges)
    BY <1>4 DEF Chain
  <2>2. QED
    BY <2>1
<1> HIDE DEF q, J, s, after
<1>9. Joins(c, q, Len(p))
  BY <1>0, <1>5, <1>8, JoinsExist
<1> HIDE DEF c, End
<1>10. c[0] = <<>> /\ \A i \in 1 .. Len(p) : c[i] = c[i - 1] \o q[i]
  <2>1. Len(p) \in Nat
    BY <1>0
  <2>2. QED
    BY <1>9, <2>1, JoinStep
<1> DEFINE T == {i \in 0 .. Len(p) : Chain(c[i], cut, End(i))}
<1>11. 0 \in T
  <2>1. cut \in Nat /\ End(0) = cut /\ 0 \in 0 .. Len(p)
    BY <1>0 DEF End
  <2> HIDE DEF cut
  <2>2. QED
    BY <1>10, <2>1, ChainNone
<1>12. ASSUME NEW i \in 1 .. Len(p), i - 1 \in T PROVE i \in T
  <2> HIDE DEF cut
  <2>1. Chain(c[i - 1], cut, End(i - 1)) /\ Chain(q[i], End(i - 1), End(i))
    BY <1>4, <1>7, <1>12
  <2>2. Chain(c[i - 1] \o q[i], cut, End(i))
    BY <2>1, ChainConcat
  <2>3. c[i] = c[i - 1] \o q[i]
    BY <1>10, Zenon
  <2>4. i \in 0 .. Len(p)
    OBVIOUS
  <2>5. Chain(c[i], cut, End(i))
    BY <2>2, <2>3, Zenon
  <2>6. QED
    BY <2>4, <2>5
<1>13. Chain(c[Len(p)], cut, End(Len(p)))
  <2> HIDE DEF T
  <2>1. \A i \in 0 .. Len(p) : i \in T
    BY <1>0, <1>11, <1>12, Induction
  <2>2. Len(p) \in 0 .. Len(p)
    BY <1>0
  <2>3. QED
    BY <2>1, <2>2 DEF T
<1>14. End(Len(p)) = b
  BY <1>0 DEF End
<1>15. QED
  BY <1>3, <1>6, <1>13, <1>14

-----------------------------------------------------------------------------
(* The cursor.  Fills(c, b): it holds the bytes that were read from the    *)
(* source, which has delivered b bytes, and not yet consumed.              *)

Cursors == [pending : Seq(Ranges), done : BOOLEAN, bytesRead : Nat]
Fills(c, b) == c \in Cursors /\ Chain(c.pending, c.bytesRead, b)

(* What it holds is what lies between what was consumed and delivered. *)
LEMMA BufferedIs ==
  ASSUME NEW c, NEW b, Fills(c, b)
  PROVE  Buffered(c) = b - c.bytesRead /\ Buffered(c) \in Nat /\ c.bytesRead \in Nat /\ b \in Nat
<1>1. Chain(c.pending, c.bytesRead, b)
  BY DEF Fills
<1>2. c.bytesRead \in Nat /\ b \in Nat
  BY <1>1 DEF Chain
<1>3. QED
  BY <1>1, <1>2, ChainSum DEF Buffered

(* The first bytes are taken off the front. *)
LEMMA ConsumedFills ==
  ASSUME NEW c, NEW b, Fills(c, b), NEW n \in Nat, n <= Buffered(c)
  PROVE  /\ Fills(Consumed(c, n), b) /\ Consumed(c, n).bytesRead = c.bytesRead + n
         /\ Chain(FirstBytes(c.pending, n), c.bytesRead, c.bytesRead + n)
<1> DEFINE p == Behind(c.pending, n)
<1> DEFINE t == c.bytesRead + n
<1>1. c \in Cursors /\ Chain(c.pending, c.bytesRead, b)
  BY DEF Fills
<1>2. n <= b - c.bytesRead /\ c.bytesRead \in Nat
  BY BufferedIs
<1>3. Chain(FirstBytes(c.pending, n), c.bytesRead, t)
  BY <1>1, <1>2, FirstIsChain
<1>4. Chain(p, t, b)
  BY <1>1, <1>2, BehindIsChain
<1>5. Consumed(c, n) = [c EXCEPT !.pending = p, !.bytesRead = t]
  BY DEF Consumed
<1>6. p \in Seq(Ranges) /\ t \in Nat
  BY <1>4 DEF Chain
<1> HIDE DEF p, t
<1>7. [c EXCEPT !.pending = p, !.bytesRead = t] \in Cursors
  BY <1>1, <1>6 DEF Cursors
<1>8. [c EXCEPT !.pending = p, !.bytesRead = t].pending = p
      /\ [c EXCEPT !.pending = p, !.bytesRead = t].bytesRead = t
  BY <1>1 DEF Cursors
<1>9. Fills(Consumed(c, n), b) /\ Consumed(c, n).bytesRead = t
  BY <1>4, <1>5, <1>7, <1>8 DEF Fills
<1>10. QED
  BY <1>3, <1>9 DEF t

(* The head piece. *)
LEMMA HeadIs ==
  ASSUME NEW c, NEW b, Fills(c, b), Buffered(c) # 0
  PROVE  /\ Head(c.pending) \in Ranges
         /\ Head(c.pending).from = c.bytesRead
         /\ Head(c.pending).to = c.bytesRead + PieceLength(Head(c.pending))
         /\ PieceLength(Head(c.pending)) \in 1 .. Buffered(c)
<1> DEFINE p == c.pending
<1>1. Chain(p, c.bytesRead, b) /\ Buffered(c) = b - c.bytesRead /\ c.bytesRead \in Nat /\ b \in Nat
  BY BufferedIs DEF Fills
<1>2. /\ Len(p) \in Nat
      /\ \A j \in 1 .. Len(p) : p[j].from = IF j = 1 THEN c.bytesRead ELSE p[j - 1].to
      /\ \A j \in 1 .. Len(p) : p[j] \in Ranges
      /\ b = IF Len(p) = 0 THEN c.bytesRead ELSE p[Len(p)].to
  BY <1>1, ChainAt
<1>3. 1 \in 1 .. Len(p) /\ Len(p) \in 1 .. Len(p)
  BY <1>1, <1>2
<1>4. Head(p) = p[1]
  <2>1. p \in Seq(Ranges)
    BY <1>1 DEF Chain
  <2>2. QED
    BY <2>1
<1>5. p[1] \in Ranges /\ p[1].from = c.bytesRead
  BY <1>2, <1>3
<1>6. p[1].to \in Nat /\ c.bytesRead < p[1].to /\ PieceLength(p[1]) = p[1].to - c.bytesRead
  BY <1>5, RangeIs
<1>7. p[1].to <= b
  <2>1. 1 < Len(p) => p[1].to <= p[Len(p)].from
    BY <1>1, <1>3, ChainAscends
  <2>2. p[Len(p)].from \in Nat /\ p[Len(p)].to \in Nat /\ p[Len(p)].from < p[Len(p)].to
    BY <1>2, <1>3, RangeIs
  <2>3. b = p[Len(p)].to
    BY <1>2, <1>3
  <2>4. CASE Len(p) = 1
    BY <1>6, <2>3, <2>4
  <2>5. CASE Len(p) # 1
    BY <1>2, <1>3, <1>6, <2>1, <2>2, <2>3, <2>5
  <2>6. QED
    BY <2>4, <2>5
<1> DEFINE len == PieceLength(p[1])
<1>8. len = p[1].to - c.bytesRead
  BY <1>6
<1>9. len \in 1 .. Buffered(c) /\ p[1].to = c.bytesRead + len
  <2> HIDE DEF len, p
  <2>1. QED
    BY <1>1, <1>6, <1>7, <1>8
<1>10. QED
  BY <1>4, <1>5, <1>9

(* consume(n) takes some bytes of the head, but no more than n. *)
LEMMA HeadLengthIs ==
  ASSUME NEW c, NEW b, Fills(c, b), Buffered(c) # 0, NEW n \in Nat \ {0}
  PROVE  HeadLength(c, n) \in 1 .. Buffered(c) /\ HeadLength(c, n) <= n
<1> DEFINE len == PieceLength(Head(c.pending))
<1>1. len \in 1 .. Buffered(c) /\ Buffered(c) \in Nat
  BY HeadIs, BufferedIs
<1>2. HeadLength(c, n) = IF len < n THEN len ELSE n
  BY DEF HeadLength
<1> HIDE DEF len
<1>3. QED
  BY <1>1, <1>2

(* What the source delivers goes to the end. *)
LEMMA PushedFills ==
  ASSUME NEW c, NEW b, Fills(c, b), NEW to \in Nat, b <= to
  PROVE  Fills(Pushed(c, Piece(b, to)), to) /\ Pushed(c, Piece(b, to)).bytesRead = c.bytesRead
<1>1. c \in Cursors /\ Chain(c.pending, c.bytesRead, b) /\ b \in Nat
  BY BufferedIs DEF Fills
<1>2. PieceLength(Piece(b, to)) = to - b
  BY DEF Piece, PieceLength
<1>3. CASE b = to
  <2>1. Pushed(c, Piece(b, to)) = c
    BY <1>1, <1>2, <1>3 DEF Pushed
  <2>2. QED
    BY <1>3, <2>1
<1>4. CASE b # to
  <2> DEFINE p == c.pending \o <<Piece(b, to)>>
  <2>1. Piece(b, to) \in Ranges /\ Piece(b, to).from = b /\ Piece(b, to).to = to
    BY <1>1, <1>4, PieceTyped
  <2>2. Chain(<<Piece(b, to)>>, b, to)
    BY <2>1, ChainOne
  <2>3. Chain(p, c.bytesRead, to)
    BY <1>1, <2>2, ChainConcat
  <2>4. Append(c.pending, Piece(b, to)) = p
    <3>1. c.pending \in Seq(Ranges)
      BY <1>1 DEF Cursors
    <3>2. QED
      BY <2>1, <3>1
  <2>5. Pushed(c, Piece(b, to)) = [c EXCEPT !.pending = p]
    BY <1>1, <1>2, <1>4, <2>4 DEF Pushed
  <2>6. p \in Seq(Ranges)
    BY <2>3 DEF Chain
  <2> HIDE DEF p
  <2>7. /\ [c EXCEPT !.pending = p] \in Cursors /\ [c EXCEPT !.pending = p].pending = p
        /\ [c EXCEPT !.pending = p].bytesRead = c.bytesRead
    BY <1>1, <2>6 DEF Cursors
  <2>8. QED
    BY <2>3, <2>5, <2>7 DEF Fills
<1>5. QED
  BY <1>3, <1>4

(* What is put back is next in line again. *)
LEMMA UnreadFills ==
  ASSUME NEW c, NEW b, Fills(c, b), NEW from \in Nat, from <= c.bytesRead
  PROVE  Fills(unread(c, Piece(from, c.bytesRead)), b)
<1> DEFINE to == c.bytesRead
<1>1. c \in Cursors /\ Chain(c.pending, to, b) /\ to \in Nat
  BY BufferedIs DEF Fills
<1>2. PieceLength(Piece(from, to)) = to - from
  BY DEF Piece, PieceLength
<1>3. CASE from = to
  <2>1. unread(c, Piece(from, to)) = c
    BY <1>1, <1>2, <1>3 DEF unread
  <2>2. QED
    BY <2>1
<1>4. CASE from # to
  <2> DEFINE p == <<Piece(from, to)>> \o c.pending
  <2>1. Piece(from, to) \in Ranges /\ Piece(from, to).from = from /\ Piece(from, to).to = to
    BY <1>1, <1>4, PieceTyped
  <2>2. Chain(<<Piece(from, to)>>, from, to)
    BY <2>1, ChainOne
  <2>3. Chain(p, from, b)
    BY <1>1, <2>2, ChainConcat
  <2>4. unread(c, Piece(from, to)) = [c EXCEPT !.pending = p, !.bytesRead = from]
    <3>1. to - (to - from) = from /\ to - from # 0
      BY <1>1, <1>4
    <3>2. QED
      BY <1>2, <3>1 DEF unread
  <2>5. p \in Seq(Ranges)
    BY <2>3 DEF Chain
  <2> HIDE DEF p, to
  <2>6. /\ [c EXCEPT !.pending = p, !.bytesRead = from] \in Cursors
        /\ [c EXCEPT !.pending = p, !.bytesRead = from].pending = p
        /\ [c EXCEPT !.pending = p, !.bytesRead = from].bytesRead = from
    BY <1>1, <2>5 DEF Cursors
  <2>7. Fills(unread(c, Piece(from, to)), b)
    BY <2>3, <2>4, <2>6 DEF Fills
  <2>8. QED
    BY <2>7 DEF to
<1>5. QED
  BY <1>3, <1>4

-----------------------------------------------------------------------------
(* What a payload decodes to.                                              *)

JoinHolds(join, s) ==
  join = [n \in 0 .. Len(s) |-> IF n = 0 THEN <<>> ELSE join[n - 1] \o s[n].holds]
HoldsOf(s) == (CHOOSE join : JoinHolds(join, s))[Len(s)]

(* Stretches of data hold a content, *)
LEMMA HoldsTyped ==
  ASSUME NEW s \in Seq(DataUnits)
  PROVE  HoldsOf(s) \in Contents /\ (Len(s) = 0 => HoldsOf(s) = <<>>)
<1> DEFINE p == [n \in 1 .. Len(s) |-> s[n].holds]
<1> DEFINE c == CHOOSE join : JoinHolds(join, s)
<1>1. Len(s) \in Nat
  OBVIOUS
<1>2. p \in [1 .. Len(s) -> Seq(Chunks)]
  <2>1. ASSUME NEW n \in 1 .. Len(s) PROVE s[n].holds \in Seq(Chunks)
    <3>1. s[n] \in DataUnits
      <4> HIDE DEF DataUnits
      <4>1. QED
        OBVIOUS
    <3>2. QED
      BY <3>1 DEF DataUnits, Contents
  <2> HIDE DEF DataUnits
  <2>2. QED
    BY <2>1
<1>3. \A join : JoinHolds(join, s) <=> Joins(join, p, Len(s))
  <2>1. ASSUME NEW join PROVE JoinHolds(join, s) <=> Joins(join, p, Len(s))
    <3>1. [n \in 0 .. Len(s) |-> IF n = 0 THEN <<>> ELSE join[n - 1] \o s[n].holds]
          = [n \in 0 .. Len(s) |-> IF n = 0 THEN <<>> ELSE join[n - 1] \o p[n]]
      BY <1>1
    <3>2. QED
      BY <3>1, Zenon DEF JoinHolds, Joins
  <2>2. QED
    BY <2>1
<1>4. HoldsOf(s) = c[Len(s)]
  BY DEF HoldsOf
<1> HIDE DEF p
<1>5. Joins(c, p, Len(s))
  BY <1>1, <1>2, <1>3, JoinsExist
<1> HIDE DEF c
<1>6. HoldsOf(s) \in Contents
  BY <1>1, <1>2, <1>4, <1>5, JoinsTyped DEF Contents
<1>7. c[0] = <<>>
  BY <1>1, <1>5, JoinStep
<1>8. QED
  BY <1>4, <1>6, <1>7

(* So does a payload that is stored: what a unit of it is, and all of them. *)
StoredPart(u) ==
  IF u.kind = "data" /\ u.method = METHOD_STORE THEN u.holds ELSE <<Noise(u.len)>>
JoinStored(join, s) ==
  join = [n \in 0 .. Len(s) |-> IF n = 0 THEN <<>> ELSE join[n - 1] \o StoredPart(s[n])]

(* A stored payload is the contents of its pieces. *)
LEMMA StoredTyped ==
  ASSUME NEW s \in Seq(FileUnits)
  PROVE  Stored(s) \in Contents /\ (Len(s) = 0 => Stored(s) = <<>>)
<1> DEFINE p == [n \in 1 .. Len(s) |-> StoredPart(s[n])]
<1> DEFINE c == CHOOSE join : JoinStored(join, s)
<1>1. Len(s) \in Nat
  OBVIOUS
<1>2. p \in [1 .. Len(s) -> Seq(Chunks)]
  <2>1. ASSUME NEW n \in 1 .. Len(s) PROVE StoredPart(s[n]) \in Seq(Chunks)
    <3>1. s[n] \in FileUnits /\ s[n] \in ToSet(s)
      <4> HIDE DEF FileUnits
      <4>1. QED
        BY DEF ToSet
    <3>2. CASE s[n].kind = "data" /\ s[n].method = METHOD_STORE
      <4>1. s[n] \in DataUnits
        BY <3>1, <3>2, KindIsType
      <4>2. QED
        BY <3>2, <4>1 DEF StoredPart, DataUnits, Contents
    <3>3. CASE ~(s[n].kind = "data" /\ s[n].method = METHOD_STORE)
      <4>1. s[n].len \in Nat
        BY <3>1, UnitLength
      <4>2. Noise(s[n].len) \in Chunks
        BY <4>1 DEF Noise, Chunks
      <4>3. StoredPart(s[n]) = <<Noise(s[n].len)>>
        BY <3>3 DEF StoredPart
      <4>4. QED
        BY <4>2, <4>3, Singleton
    <3>4. QED
      BY <3>2, <3>3
  <2> HIDE DEF FileUnits
  <2>2. QED
    BY <2>1
<1>3. \A join : JoinStored(join, s) <=> Joins(join, p, Len(s))
  <2>1. ASSUME NEW join PROVE JoinStored(join, s) <=> Joins(join, p, Len(s))
    <3>1. [n \in 0 .. Len(s) |-> IF n = 0 THEN <<>> ELSE join[n - 1] \o StoredPart(s[n])]
          = [n \in 0 .. Len(s) |-> IF n = 0 THEN <<>> ELSE join[n - 1] \o p[n]]
      BY <1>1
    <3>2. QED
      BY <3>1, Zenon DEF JoinStored, Joins
  <2>2. QED
    BY <2>1
<1>4. Stored(s) = c[Len(s)]
  BY DEF Stored, Joined, JoinStored, StoredPart
<1> HIDE DEF p
<1>5. Joins(c, p, Len(s))
  BY <1>1, <1>2, <1>3, JoinsExist
<1> HIDE DEF c
<1>6. Stored(s) \in Contents
  BY <1>1, <1>2, <1>4, <1>5, JoinsTyped DEF Contents
<1>7. c[0] = <<>>
  BY <1>1, <1>5, JoinStep
<1>8. QED
  BY <1>4, <1>6, <1>7

(* Good(units, method, n): the first n are of one stream, no more than it. *)
Good(units, method, n) ==
  \A m \in 1 .. n : /\ units[m].kind = "data" /\ units[m].method = method
                    /\ \A k \in 1 .. m - 1 : ~units[k].final
Longest(units, method, n) ==
  Good(units, method, n) /\ \A m \in 0 .. Len(units) : Good(units, method, m) => m <= n

(* A decoder puts out what the longest run of good stretches holds. *)
LEMMA DecodedIs ==
  ASSUME NEW entry, NEW units \in Seq(FileUnits)
  PROVE  \E n \in 0 .. Len(units) : /\ Longest(units, entry.method, n)
                                    /\ DecodedSoFar(entry, units) = HoldsOf(SubSeq(units, 1, n))
<1> DEFINE method == entry.method
<1> DEFINE count == CHOOSE n \in 0 .. Len(units) : Longest(units, method, n)
<1> DEFINE K == {k \in 0 .. Len(units) : Good(units, method, Len(units) - k)}
<1>0. Len(units) \in Nat
  OBVIOUS
<1>1. Good(units, method, 0)
  BY DEF Good
<1>2. K \subseteq Nat /\ K # {}
  <2>1. Len(units) - Len(units) = 0 /\ Len(units) \in 0 .. Len(units)
    BY <1>0
  <2>2. Len(units) \in K
    BY <1>1, <2>1
  <2>3. QED
    BY <2>2
<1>3. PICK k \in K : \A y \in K : k <= y
  <2> HIDE DEF K
  <2>1. QED
    BY <1>2, LeastExists
<1>4. Longest(units, method, Len(units) - k) /\ Len(units) - k \in 0 .. Len(units)
  <2>1. ASSUME NEW m \in 0 .. Len(units), Good(units, method, m) PROVE m <= Len(units) - k
    <3>1. Len(units) - m \in 0 .. Len(units) /\ Len(units) - (Len(units) - m) = m
      BY <1>0
    <3>2. Len(units) - m \in K
      BY <2>1, <3>1
    <3>3. k <= Len(units) - m /\ k \in 0 .. Len(units)
      <4> HIDE DEF K
      <4>1. k <= Len(units) - m
        BY <1>3, <3>2
      <4>2. QED
        BY <4>1 DEF K
    <3>4. QED
      BY <1>0, <3>3
  <2>2. Good(units, method, Len(units) - k) /\ Len(units) - k \in 0 .. Len(units)
    BY <1>0
  <2>3. QED
    BY <2>1, <2>2 DEF Longest
<1>5. count \in 0 .. Len(units) /\ Longest(units, method, count)
  BY <1>4
<1>6. DecodedSoFar(entry, units) = HoldsOf(SubSeq(units, 1, count))
  BY DEF DecodedSoFar, Joined, HoldsOf, JoinHolds, Longest, Good
<1> HIDE DEF count
<1>7. QED
  BY <1>5, <1>6

(* What it puts out is a content: nothing, of nothing. *)
LEMMA DecodedTyped ==
  ASSUME NEW entry, NEW units \in Seq(FileUnits)
  PROVE  /\ DecodedSoFar(entry, units) \in Contents
         /\ Len(units) = 0 => DecodedSoFar(entry, units) = <<>>
<1>1. PICK n \in 0 .. Len(units) :
        /\ Longest(units, entry.method, n)
        /\ DecodedSoFar(entry, units) = HoldsOf(SubSeq(units, 1, n))
  BY DecodedIs
<1> DEFINE s == SubSeq(units, 1, n)
<1>2. Len(units) \in Nat /\ n \in Nat /\ n <= Len(units)
  OBVIOUS
<1>3. s \in Seq(FileUnits) /\ Len(s) = n /\ \A m \in 1 .. n : s[m] = units[m]
  <2> HIDE DEF FileUnits
  <2>1. QED
    BY <1>2
<1>4. s \in Seq(DataUnits)
  <2>1. ASSUME NEW m \in 1 .. n PROVE s[m] \in DataUnits
    <3>1. units[m].kind = "data"
      BY <1>1 DEF Longest, Good
    <3>2. units[m] \in ToSet(units)
      <4>1. m \in DOMAIN units
        BY <1>2
      <4>2. QED
        BY <4>1 DEF ToSet
    <3>3. units[m] \in DataUnits
      BY <3>1, <3>2, KindIsType
    <3>4. QED
      BY <1>3, <3>3
  <2> HIDE DEF s, FileUnits, DataUnits
  <2>2. QED
    BY <1>2, <1>3, <2>1
<1>5. DecodedSoFar(entry, units) = HoldsOf(s)
  BY <1>1
<1> HIDE DEF s
<1>6. HoldsOf(s) \in Contents /\ (Len(s) = 0 => HoldsOf(s) = <<>>)
  BY <1>4, HoldsTyped
<1>7. Len(units) = 0 => Len(s) = 0
  <2>1. Len(s) = n
    BY <1>3, Zenon
  <2> HIDE DEF FileUnits
  <2>2. QED
    BY <1>2, <2>1
<1>8. QED
  BY <1>5, <1>6, <1>7

(* A payload that inflates as a whole inflates to what came out of it.     *)
LEMMA InflatedIsDecoded ==
  ASSUME NEW entry, NEW units \in Seq(FileUnits), NEW most,
         Inflated(entry.method, units, most).code = "OK"
  PROVE  Inflated(entry.method, units, most).out = DecodedSoFar(entry, units)
<1> DEFINE method == entry.method
<1> DEFINE ends == {i \in DOMAIN units : units[i].kind = "data" /\ units[i].final}
<1> DEFINE last == CHOOSE i \in ends : \A j \in ends : i <= j
<1> DEFINE stream == SubSeq(units, 1, last)
<1> DEFINE wrong == \E u \in ToSet(stream) : u.kind # "data" \/ u.method # method
<1> DEFINE out == HoldsOf(stream)
<1>0. Len(units) \in Nat /\ DOMAIN units = 1 .. Len(units)
  <2> HIDE DEF FileUnits, ends, stream, wrong, out
  <2>1. QED
    OBVIOUS
<1>1. Inflated(entry.method, units, most)
      = IF ends = {} THEN Refused("ZIP_DEFLATE_TRUNCATED")
        ELSE IF wrong THEN Refused("ZIP_DEFLATE_CORRUPT")
        ELSE IF ContentSize(out) > most THEN Refused("ZIP_INFLATE_OUTPUT_OVERFLOW")
        ELSE [code |-> "OK", out |-> out]
  BY DEF Inflated, Joined, HoldsOf, JoinHolds
<1>2. ends # {} /\ ~wrong /\ Inflated(entry.method, units, most).out = out
  <2> HIDE DEF ends, wrong, out
  <2>1. QED
    BY <1>1 DEF Refused
<1>3. last \in ends /\ \A j \in ends : last <= j
  <2>1. ends \subseteq Nat
    BY <1>0
  <2> HIDE DEF ends
  <2>2. \E i \in ends : \A j \in ends : i <= j
    BY <1>2, <2>1, LeastExists
  <2>3. QED
    BY <2>2
<1> HIDE DEF last
<1>4. last \in 1 .. Len(units) /\ units[last].final
  BY <1>0, <1>3
<1>5. \A m \in 1 .. last : units[m].kind = "data" /\ units[m].method = method
  <2>1. Len(stream) = last /\ \A m \in 1 .. last : stream[m] = units[m]
    <3> HIDE DEF FileUnits
    <3>1. QED
      BY <1>0, <1>4
  <2>2. ASSUME NEW m \in 1 .. last PROVE units[m] \in ToSet(stream)
    <3>1. m \in DOMAIN stream
      <4>1. stream \in Seq(FileUnits)
        <5> HIDE DEF FileUnits
        <5>1. QED
          BY <1>0, <1>4
      <4> HIDE DEF stream
      <4>2. QED
        BY <2>1, <4>1
    <3>2. QED
      BY <2>1, <3>1 DEF ToSet
  <2> HIDE DEF stream
  <2>3. QED
    BY <1>2, <2>2
<1>6. \A m \in 1 .. last - 1 : ~units[m].final
  <2>1. ASSUME NEW m \in 1 .. last - 1 PROVE ~units[m].final
    <3>1. m \in 1 .. last /\ m \in 1 .. Len(units) /\ ~(last <= m)
      BY <1>0, <1>4
    <3>2. m \notin ends
      BY <1>3, <3>1
    <3>3. QED
      BY <1>0, <1>5, <3>1, <3>2
  <2>2. QED
    BY <2>1
<1> HIDE DEF ends, wrong, stream
<1>7. PICK n \in 0 .. Len(units) :
        /\ Longest(units, method, n)
        /\ DecodedSoFar(entry, units) = HoldsOf(SubSeq(units, 1, n))
  BY DecodedIs
<1>8. last <= n
  <2>1. Good(units, method, last)
    <3>1. ASSUME NEW m \in 1 .. last, NEW k \in 1 .. m - 1 PROVE ~units[k].final
      <4>1. k \in 1 .. last - 1
        BY <1>4
      <4>2. QED
        BY <1>6, <4>1
    <3>2. QED
      BY <1>5, <3>1 DEF Good
  <2>2. last \in 0 .. Len(units)
    BY <1>4
  <2>3. QED
    BY <1>7, <2>1, <2>2 DEF Longest
<1>9. n <= last
  <2>1. SUFFICES ASSUME last < n PROVE FALSE
    BY <1>0, <1>4
  <2>2. last + 1 \in 1 .. n /\ last \in 1 .. (last + 1) - 1
    BY <1>0, <1>4, <2>1
  <2>3. Good(units, method, n)
    BY <1>7 DEF Longest
  <2>4. ~units[last].final
    BY <2>2, <2>3 DEF Good
  <2>5. QED
    BY <1>4, <2>4
<1>10. n = last
  BY <1>0, <1>4, <1>8, <1>9
<1>11. QED
  BY <1>2, <1>7, <1>10, Zenon DEF stream

-----------------------------------------------------------------------------
(* The words of what stands behind a payload.                              *)

(* Where two sequences are joined. *)
LEMMA ConcatAt ==
  ASSUME NEW S, NEW a \in Seq(S), NEW b \in Seq(S)
  PROVE  /\ Len(a \o b) = Len(a) + Len(b) /\ a \o b \in Seq(S)
         /\ \A i \in 1 .. Len(a) : (a \o b)[i] = a[i]
         /\ \A i \in 1 .. Len(b) : (a \o b)[Len(a) + i] = b[i]
OBVIOUS

(* CRCs are told apart from one another, and from other words. *)
LEMMA WordsDiffer ==
  ASSUME NEW a, NEW b, NEW record, NEW n
  PROVE  /\ CrcWord(a) = CrcWord(b) => a = b
         /\ CrcWord(a) # Signed(record) /\ CrcWord(a) # <<"none">> /\ Number(n) # <<"none">>
         /\ Signed(record) # <<"none">> /\ CrcWord(a) # <<"other", n>>
         /\ Signed(record) # <<"other", n>>
         /\ (Signed(record) = Signed("descriptor") => record = "descriptor")
<1>1. /\ <<"crc", a>>[1] = "crc" /\ <<"crc", a>>[2] = a /\ <<"crc", b>>[1] = "crc" /\ <<"crc", b>>[2] = b
      /\ <<"number", n>>[1] = "number" /\ <<"number", 0>>[1] = "number"
      /\ <<"signature", record>>[1] = "signature" /\ <<"signature", record>>[2] = record
      /\ <<"other", n>>[1] = "other" /\ <<"none">>[1] = "none"
      /\ <<"signature", "descriptor">>[2] = "descriptor"
  OBVIOUS
<1>2. QED
  BY <1>1 DEF CrcWord, Signed, Number

(* What a record begins with. *)
LEMMA FirstWords ==
  ASSUME NEW u
  PROVE  /\ u.kind \notin {"descriptor", "bare"} => WordsOf(u)[1] = Signed(u.kind) /\ DOMAIN WordsOf(u) = {1}
         /\ u.kind = "bare" => WordsOf(u)[1] = CrcWord(u.crc)
         /\ u.kind = "descriptor" => WordsOf(u)[1] = Signed("descriptor") /\ WordsOf(u)[2] = CrcWord(u.crc)
<1> DEFINE sizes == IF u.wide THEN <<Number(u.compressedSize), Number(0), Number(u.uncompressedSize), Number(0)>>
                    ELSE <<Number(u.compressedSize), Number(u.uncompressedSize)>>
<1> DEFINE S == {Signed("descriptor"), CrcWord(u.crc), Number(u.compressedSize), Number(0),
                 Number(u.uncompressedSize)}
<1> DEFINE sign == Signed("descriptor")
<1> DEFINE crc == CrcWord(u.crc)
<1>1. sizes \in Seq(S)
  <2>1. <<Number(u.compressedSize), Number(0), Number(u.uncompressedSize), Number(0)>> \in Seq(S)
    OBVIOUS
  <2>2. <<Number(u.compressedSize), Number(u.uncompressedSize)>> \in Seq(S)
    OBVIOUS
  <2>3. QED
    BY <2>1, <2>2
<1>2. sign \in S /\ crc \in S
  OBVIOUS
<1>3. CASE u.kind \notin {"descriptor", "bare"}
  <2>1. WordsOf(u) = <<Signed(u.kind)>>
    BY <1>3 DEF WordsOf
  <2>2. QED
    BY <1>3, <2>1
<1>4. CASE u.kind = "bare"
  <2>1. WordsOf(u) = (<<>> \o <<crc>>) \o sizes
    BY <1>4 DEF WordsOf
  <2> HIDE DEF S, sizes, crc
  <2>2. <<>> \in Seq(S) /\ <<crc>> \in Seq(S) /\ Len(<<>>) = 0 /\ Len(<<crc>>) = 1 /\ <<crc>>[1] = crc
    BY <1>2
  <2> DEFINE front == <<>> \o <<crc>>
  <2>3. front \in Seq(S) /\ Len(front) = 1 /\ front[1] = crc
    BY <2>2
  <2> HIDE DEF front
  <2>4. (front \o sizes)[1] = crc
    BY <1>1, <2>3, ConcatAt
  <2>5. QED
    BY <1>4, <2>1, <2>4 DEF front, crc
<1>5. CASE u.kind = "descriptor"
  <2>1. WordsOf(u) = (<<sign>> \o <<crc>>) \o sizes
    BY <1>5 DEF WordsOf
  <2> HIDE DEF S, sizes, crc, sign
  <2>2. <<sign>> \in Seq(S) /\ <<crc>> \in Seq(S)
    BY <1>2
  <2> DEFINE front == <<sign>> \o <<crc>>
  <2>3. front \in Seq(S) /\ Len(front) = 2 /\ front[1] = sign /\ front[2] = crc
    BY <2>2
  <2> HIDE DEF front
  <2>4. \A i \in 1 .. 2 : (front \o sizes)[i] = front[i]
    <3>1. \A i \in 1 .. Len(front) : (front \o sizes)[i] = front[i]
      <4>1. front \in Seq(S) /\ sizes \in Seq(S)
        BY <1>1, <2>3
      <4>2. QED
        BY <4>1, ConcatAt, Zenon
    <3>2. 1 .. Len(front) = 1 .. 2
      BY <2>3
    <3>3. QED
      BY <3>1, <3>2, Zenon
  <2>5. (front \o sizes)[1] = sign /\ (front \o sizes)[2] = crc
    <3>1. 1 \in 1 .. 2 /\ 2 \in 1 .. 2
      OBVIOUS
    <3>2. QED
      BY <2>3, <2>4, <3>1, Zenon
  <2>6. QED
    BY <1>5, <2>1, <2>5 DEF front, crc, sign
<1>6. QED
  BY <1>3, <1>4, <1>5

(* Unit i of the window has a word at byte pos, and which of its words.    *)
Place(window, i, pos) == (pos - Starts(window)[i]) \div 4 + 1
Covers(window, i, pos) ==
  /\ i \in DOMAIN window /\ Starts(window)[i] <= pos /\ pos < Starts(window)[i + 1]
  /\ (pos - Starts(window)[i]) % 4 = 0 /\ Place(window, i, pos) \in DOMAIN WordsOf(window[i])

(* A word is one of the unit it lies in, or none. *)
LEMMA WordIs ==
  ASSUME NEW window, NEW length \in Nat, NEW n \in DOMAIN Words(window, length)
  PROVE  /\ n \in Nat \ {0} /\ 4 * n <= length
         /\ \/ Words(window, length)[n] = <<"other", 4 * (n - 1)>>
            \/ \E i \in DOMAIN window :
                 /\ Covers(window, i, 4 * (n - 1))
                 /\ Words(window, length)[n] = WordsOf(window[i])[Place(window, i, 4 * (n - 1))]
<1> DEFINE place(i, pos) == (pos - Starts(window)[i]) \div 4 + 1
<1> DEFINE here(pos) == {i \in DOMAIN window : /\ Starts(window)[i] <= pos /\ pos < Starts(window)[i + 1]
                                               /\ (pos - Starts(window)[i]) % 4 = 0
                                               /\ place(i, pos) \in DOMAIN WordsOf(window[i])}
<1> DEFINE word(pos) == IF here(pos) = {} THEN <<"other", pos>>
                        ELSE WordsOf(window[OneOf(here(pos))])[place(OneOf(here(pos)), pos)]
<1>1. Words(window, length) = [m \in 1 .. length \div 4 |-> word(4 * (m - 1))]
  BY DEF Words
<1>2. n \in 1 .. length \div 4 /\ Words(window, length)[n] = word(4 * (n - 1))
  <2> HIDE DEF word
  <2>1. QED
    BY <1>1
<1>3. n \in Nat \ {0} /\ 4 * n <= length
  <2>1. n \in 1 .. length \div 4
    BY <1>2, Zenon
  <2>2. QED
    BY <2>1
<1> DEFINE pos == 4 * (n - 1)
<1>4. CASE here(pos) = {}
  BY <1>2, <1>3, <1>4
<1>5. CASE here(pos) # {}
  <2> DEFINE i == OneOf(here(pos))
  <2>1. i \in here(pos)
    <3> HIDE DEF here
    <3>1. QED
      BY <1>5 DEF OneOf
  <2>2. word(pos) = WordsOf(window[i])[place(i, pos)]
    BY <1>5, Zenon
  <2>3. place(i, pos) = Place(window, i, pos)
    BY Zenon DEF Place
  <2>4. Covers(window, i, pos) /\ i \in DOMAIN window
    BY <2>1 DEF Covers, Place
  <2> HIDE DEF i, place, pos, word
  <2>5. QED
    BY <1>2, <1>3, <2>2, <2>3, <2>4 DEF pos
<1>6. QED
  BY <1>4, <1>5

(* A CRC is a word of a descriptor: its first, or, behind a signature, its second. *)
LEMMA CrcIsOfDescriptor ==
  ASSUME NEW window \in Seq(FileUnits), NEW length \in Nat, NEW crc,
         \/ 1 \in DOMAIN Words(window, length) /\ Words(window, length)[1] = CrcWord(crc)
         \/ /\ 1 \in DOMAIN Words(window, length) /\ Words(window, length)[1] = Signed("descriptor")
            /\ 2 \in DOMAIN Words(window, length) /\ Words(window, length)[2] = CrcWord(crc)
  PROVE  \E u \in ToSet(window) : u.kind \in {"descriptor", "bare"} /\ u.crc = crc
<1> DEFINE words == Words(window, length)
<1> DEFINE start == Starts(window)
<1>0. Len(window) \in Nat /\ DOMAIN window = 1 .. Len(window)
  OBVIOUS
<1>1. \A i \in DOMAIN window : start[i] \in Nat /\ start[i + 1] \in Nat /\ window[i] \in ToSet(window)
  <2>1. ASSUME NEW i \in DOMAIN window
        PROVE  start[i] \in Nat /\ start[i + 1] \in Nat /\ window[i] \in ToSet(window)
    <3>1. i \in 1 .. Len(window) + 1 /\ i + 1 \in 1 .. Len(window) + 1
      BY <1>0
    <3>2. start[i] \in Nat /\ start[i + 1] \in Nat
      BY <3>1, StartsTyped
    <3>3. QED
      BY <3>2 DEF ToSet
  <2>2. QED
    BY <2>1
<1>2. \A i \in DOMAIN window : start[i] <= 0 => Place(window, i, 0) = 1
  <2>1. ASSUME NEW i \in DOMAIN window, start[i] <= 0 PROVE Place(window, i, 0) = 1
    <3>1. start[i] = 0
      BY <1>1, <2>1
    <3>2. QED
      BY <3>1 DEF Place
  <2>2. QED
    BY <2>1
<1>3. ASSUME NEW i \in DOMAIN window, NEW pos, Place(window, i, pos) = 1,
             Place(window, i, pos) \in DOMAIN WordsOf(window[i]),
             WordsOf(window[i])[1] = CrcWord(crc)
      PROVE  window[i].kind \in {"descriptor", "bare"} /\ window[i].crc = crc
  <2>1. window[i].kind = "bare"
    <3>1. CrcWord(crc) # Signed(window[i].kind) /\ CrcWord(crc) # Signed("descriptor")
      BY WordsDiffer, Zenon
    <3>2. /\ window[i].kind \notin {"descriptor", "bare"} => WordsOf(window[i])[1] = Signed(window[i].kind)
          /\ window[i].kind = "descriptor" => WordsOf(window[i])[1] = Signed("descriptor")
      BY FirstWords
    <3>3. QED
      BY <1>3, <3>1, <3>2
  <2>2. CrcWord(window[i].crc) = CrcWord(crc)
    BY <1>3, <2>1, FirstWords
  <2>3. QED
    BY <2>1, <2>2, WordsDiffer
<1>4. CASE 1 \in DOMAIN words /\ words[1] = CrcWord(crc)
  <2>1. PICK i \in DOMAIN window : Covers(window, i, 0) /\ words[1] = WordsOf(window[i])[Place(window, i, 0)]
    <3>1. 4 * (1 - 1) = 0
      OBVIOUS
    <3>2. words[1] # <<"other", 0>>
      BY <1>4, WordsDiffer
    <3>3. QED
      BY <1>4, <3>1, <3>2, WordIs
  <2>2. start[i] <= 0 /\ Place(window, i, 0) \in DOMAIN WordsOf(window[i])
    BY <2>1 DEF Covers
  <2>3. Place(window, i, 0) = 1
    BY <1>2, <2>2
  <2>4. WordsOf(window[i])[1] = CrcWord(crc)
    BY <1>4, <2>1, <2>3
  <2>5. window[i].kind \in {"descriptor", "bare"} /\ window[i].crc = crc
    BY <1>3, <2>2, <2>3, <2>4
  <2>6. QED
    BY <1>1, <2>5
<1>5. CASE /\ 1 \in DOMAIN words /\ words[1] = Signed("descriptor")
           /\ 2 \in DOMAIN words /\ words[2] = CrcWord(crc)
  <2>1. PICK i \in DOMAIN window : Covers(window, i, 0) /\ words[1] = WordsOf(window[i])[Place(window, i, 0)]
    <3>1. 4 * (1 - 1) = 0
      OBVIOUS
    <3>2. words[1] # <<"other", 0>>
      BY <1>5, WordsDiffer
    <3>3. QED
      BY <1>5, <3>1, <3>2, WordIs
  <2>2. start[i] <= 0 /\ 0 < start[i + 1]
    BY <2>1 DEF Covers
  <2>3. Place(window, i, 0) = 1
    BY <1>2, <2>2
  <2>4. WordsOf(window[i])[1] = Signed("descriptor")
    BY <1>5, <2>1, <2>3
  <2>5. window[i].kind = "descriptor"
    <3>1. /\ Signed("descriptor") # CrcWord(window[i].crc)
          /\ Signed(window[i].kind) = Signed("descriptor") => window[i].kind = "descriptor"
      BY WordsDiffer, Zenon
    <3>2. /\ window[i].kind \notin {"descriptor", "bare"} => WordsOf(window[i])[1] = Signed(window[i].kind)
          /\ window[i].kind = "bare" => WordsOf(window[i])[1] = CrcWord(window[i].crc)
      BY FirstWords
    <3>3. QED
      BY <2>4, <3>1, <3>2
  <2>6. PICK j \in DOMAIN window : Covers(window, j, 4) /\ words[2] = WordsOf(window[j])[Place(window, j, 4)]
    <3>1. 4 * (2 - 1) = 4
      OBVIOUS
    <3>2. words[2] # <<"other", 4>>
      BY <1>5, WordsDiffer
    <3>3. QED
      BY <1>5, <3>1, <3>2, WordIs
  <2>7. /\ start[j] <= 4 /\ 4 < start[j + 1] /\ (4 - start[j]) % 4 = 0
        /\ Place(window, j, 4) \in DOMAIN WordsOf(window[j])
    BY <2>6 DEF Covers
  <2>8. start[j] = 0 \/ start[j] = 4
    <3>1. start[j] \in Nat
      BY <1>1
    <3> HIDE DEF start
    <3>2. QED
      BY <2>7, <3>1
  <2>9. CASE start[j] = 4
    <3>1. Place(window, j, 4) = 1
      BY <2>9 DEF Place
    <3>2. WordsOf(window[j])[1] = CrcWord(crc)
      BY <1>5, <2>6, <3>1
    <3>3. window[j].kind \in {"descriptor", "bare"} /\ window[j].crc = crc
      BY <1>3, <2>7, <3>1, <3>2
    <3>4. QED
      BY <1>1, <3>3
  <2>10. CASE start[j] = 0
    <3>1. i = j
      <4>1. i \in 1 .. Len(window) /\ j \in 1 .. Len(window)
        BY <1>0
      <4>2. i < j => start[i + 1] <= start[j]
        BY <4>1, StartsAscend
      <4>3. j < i => start[j + 1] <= start[i]
        BY <4>1, StartsAscend
      <4>4. /\ start[i] \in Nat /\ start[i + 1] \in Nat /\ start[j] \in Nat /\ start[j + 1] \in Nat
        BY <1>1
      <4> HIDE DEF start
      <4>5. QED
        BY <2>2, <2>7, <2>10, <4>1, <4>2, <4>3, <4>4
    <3>2. Place(window, j, 4) = 2
      BY <2>10 DEF Place
    <3>3. CrcWord(window[j].crc) = CrcWord(crc)
      BY <1>5, <2>5, <2>6, <3>1, <3>2, FirstWords
    <3>4. QED
      BY <1>1, <2>5, <3>1, <3>3, WordsDiffer
  <2>11. QED
    BY <2>8, <2>9, <2>10
<1>6. QED
  BY <1>4, <1>5

(* A descriptor that matches is no longer than what is there to be matched, *)
(* and vouches for what was measured.                                       *)
LEMMA MatchedDescriptor ==
  ASSUME NEW window \in Seq(FileUnits), NEW length \in Nat, NEW crc, NEW sizes,
         matchDataDescriptor(Words(window, length), crc, sizes) # 0
  PROVE  /\ matchDataDescriptor(Words(window, length), crc, sizes) \in 1 .. length
         /\ \E u \in ToSet(window) : u.kind \in {"descriptor", "bare"} /\ u.crc = crc
<1> DEFINE words == Words(window, length)
<1> DEFINE word(n) == IF n \in DOMAIN words THEN words[n] ELSE <<"none">>
<1> DEFINE Short(k) == /\ word(k) = CrcWord(crc) /\ word(k + 1) = Number(sizes[1])
                       /\ word(k + 2) = Number(sizes[2])
<1> DEFINE Long(k) == /\ word(k) = CrcWord(crc) /\ word(k + 1) = Number(sizes[1])
                      /\ word(k + 2) = Number(0) /\ word(k + 3) = Number(sizes[2])
                      /\ word(k + 4) = Number(0)
<1> DEFINE startsRecord(k) == word(k) \in {Signed("lfh"), Signed("cfh")}
<1> DEFINE signed == word(1) = Signed("descriptor")
<1> DEFINE form(k) == CASE Short(k) /\ (~Long(k) \/ startsRecord(k + 3)) -> 4 * (k + 2)
                        [] Long(k) /\ ~(Short(k) /\ startsRecord(k + 3)) -> 4 * (k + 4)
                        [] OTHER -> 0
<1> DEFINE width == matchDataDescriptor(words, crc, sizes)
<1>1. width = IF signed /\ form(2) > 0 THEN form(2) ELSE form(1)
  BY DEF matchDataDescriptor
<1>2. \A n : word(n) # <<"none">> => n \in DOMAIN words /\ words[n] = word(n)
  OBVIOUS
<1>3. ASSUME NEW k \in 1 .. 2, form(k) # 0
      PROVE  /\ form(k) \in 1 .. length /\ k \in DOMAIN words /\ words[k] = CrcWord(crc)
  <2> HIDE DEF word, startsRecord
  <2>1. CASE Short(k)
    <3>1. k \in DOMAIN words /\ words[k] = CrcWord(crc)
      BY <1>2, <2>1, WordsDiffer
    <3>2. k + 2 \in DOMAIN words
      BY <1>2, <2>1, WordsDiffer
    <3>3. 4 * (k + 2) <= length
      BY <3>2, WordIs
    <3>4. Long(k) => 4 * (k + 4) <= length
      <4>1. Long(k) => k + 4 \in DOMAIN words
        BY <1>2, WordsDiffer
      <4>2. QED
        BY <4>1, WordIs
    <3>5. form(k) = 4 * (k + 2) \/ (Long(k) /\ form(k) = 4 * (k + 4))
      <4> HIDE DEF Short, Long
      <4>1. QED
        BY <1>3
    <3> HIDE DEF Short, Long, form
    <3>6. form(k) \in 1 .. length
      BY <3>3, <3>4, <3>5
    <3>7. QED
      BY <3>1, <3>6
  <2>2. CASE ~Short(k)
    <3>1. Long(k) /\ form(k) = 4 * (k + 4)
      <4> HIDE DEF Short, Long
      <4>1. QED
        BY <1>3, <2>2
    <3>2. k \in DOMAIN words /\ words[k] = CrcWord(crc) /\ k + 4 \in DOMAIN words
      BY <1>2, <3>1, WordsDiffer
    <3>3. 4 * (k + 4) <= length
      BY <3>2, WordIs
    <3> HIDE DEF Short, Long, form
    <3>4. form(k) \in 1 .. length
      BY <3>1, <3>3
    <3>5. QED
      BY <3>2, <3>4
  <2>3. QED
    BY <2>1, <2>2
<1>4. CASE signed /\ form(2) > 0
  <2>1. width = form(2)
    BY <1>1, <1>4
  <2>2. 1 \in DOMAIN words /\ words[1] = Signed("descriptor")
    <3> HIDE DEF word
    <3>1. QED
      BY <1>2, <1>4, WordsDiffer
  <2> HIDE DEF width, form, signed
  <2>3. form(2) # 0
    BY <1>4
  <2>4. form(2) \in 1 .. length /\ 2 \in DOMAIN words /\ words[2] = CrcWord(crc)
    BY <1>3, <2>3
  <2>5. QED
    BY <2>1, <2>2, <2>4, CrcIsOfDescriptor DEF width
<1>5. CASE ~(signed /\ form(2) > 0)
  <2>1. width = form(1) /\ width # 0
    BY <1>1, <1>5
  <2> HIDE DEF width, form, signed
  <2>2. form(1) \in 1 .. length /\ 1 \in DOMAIN words /\ words[1] = CrcWord(crc)
    BY <1>3, <2>1
  <2>3. QED
    BY <2>1, <2>2, CrcIsOfDescriptor DEF width
<1>6. QED
  BY <1>4, <1>5

-----------------------------------------------------------------------------
(* The inductive invariant.                                                *)

Headers ==
  [name : Names \cup {NoHeader.name}, method : Nat, bit3 : BOOLEAN, encrypted : BOOLEAN,
   compressedSize : Nat, uncompressedSize : Nat, crc : Contents, from : Nat]
DataKinds == {"none", "store", "push", "platform", "descriptor", "skip", "skipDescriptor"}
Codes ==
  {"OK", "ABORT", "RETURNED", "SOURCE", "CANCELLED", "ZIP_API_MISUSE", "ZIP_STREAM_TRUNCATED",
   "ZIP_SIGNATURE_MISMATCH", "ZIP_LIMIT_EXCEEDED", "ZIP_UNSUPPORTED_CD_LESS_DESCRIPTOR",
   "ZIP_SIZE_MISMATCH", "ZIP_CRC_MISMATCH", "ZIP_INFLATE_OUTPUT_OVERFLOW", "ZIP_DEFLATE_CORRUPT",
   "ZIP_DEFLATE_TRUNCATED", "ZIP_DESCRIPTOR_MISMATCH"}
WalkAts == {"fresh", "peek", "fixed", "tail", "entry", "closing", "ended"}
DataAts == {"none", "fresh", "take", "yielded", "pushed", "descriptor", "read", "join", "ended"}
PumpAts == {"none", "take", "write", "close", "abort", "done"}
Sources == [state : {"open", "failed", "returned"}, at : Nat, next : BOOLEAN]
Walks ==
  [at : WalkAts, code : Codes, found : Seq(Headers), total : Int, lfh : LocalHeaders \cup {NoHeader}]
Currents == [header : Headers, done : BOOLEAN, consumed : BOOLEAN]
Datas ==
  [kind : DataKinds, at : DataAts, code : Codes, got : Seq(Ranges), out : Contents, width : Nat]
Pumps ==
  [at : PumpAts, error : Codes, written : Nat, closed : BOOLEAN, errored : BOOLEAN,
   cancelled : BOOLEAN]

Constant == served \in Files /\ platform \in BOOLEAN
Sourced == src \in Sources /\ src.at <= Length(served) /\ aborted \in BOOLEAN
Filled == Fills(cursor, src.at)
Typed == Constant /\ Sourced /\ Filled /\ walk \in Walks /\ current \in Currents /\ data \in Datas
         /\ pump \in Pumps

(* A header is read where one has been seen. *)
WalkWell ==
  /\ walk.at = "tail" => walk.lfh \in LocalHeaders
  /\ walk.at = "fixed" => At(served, cursor.bytesRead).kind = "lfh"
  /\ walk.total <= Limits.maxTotalUncompressedSize

(* What data() or skip() can be at, and who runs beside it. *)
AtsOf(kind) ==
  CASE kind = "none" -> {"none", "ended"}
    [] kind \in {"store", "push"} -> {"fresh", "take", "yielded", "ended"}
    [] kind = "platform" -> {"fresh", "read", "yielded", "join", "ended"}
    [] kind = "descriptor" -> {"fresh", "take", "yielded", "pushed", "descriptor", "ended"}
    [] kind = "skip" -> {"take", "ended"}
    [] kind = "skipDescriptor" -> {"take", "pushed", "descriptor", "ended"}
DataWell ==
  /\ data.at \in AtsOf(data.kind)
  /\ data.kind = "none" => data.got = <<>>
  /\ data.kind = "skip" => data.out = <<>>
  /\ data.kind # "none" => current.consumed /\ (Delimited <=> Header.bit3)
  /\ pump.at # "none" => data.kind = "platform"

(* The walk is at an entry until that is done with; an entry that is done  *)
(* with takes no more bytes.                                               *)
DoneWell ==
  /\ ~current.done => walk.at \in {"entry", "closing", "ended"}
  /\ current.done => \/ current.consumed /\ data.at = "ended" /\ pump.at \in {"none", "done"}
                     \/ ~Header.bit3 /\ Header.compressedSize = 0

(* What was taken of a payload, and that the cursor is right behind it.    *)
Behindhand == Delimited /\ data.at \in {"descriptor", "ended"}
PayloadWell ==
  /\ Chain(data.got, Header.from, Header.from + Taken)
  /\ ~Delimited => Taken <= Header.compressedSize
  /\ ~current.done /\ ~Behindhand => cursor.bytesRead = Header.from + Taken

(* What was handed out is what was taken, decoded; in the end it is vouched *)
(* for.                                                                     *)
OutWell ==
  data.kind \in {"store", "push"} /\ data.at # "ended" => data.out = Produced(Units(data.got))
EndWell ==
  /\ Finished /\ ~Header.bit3 => data.out = Header.crc
  /\ Finished /\ Header.bit3 => \E u \in ToSet(served) : Vouches(u)

(* A walk that has not begun, or ended as it was, has not touched its source. *)
SourceWell ==
  walk.at = "fresh" \/ (walk.at = "ended" /\ src.state = "open") =>
    /\ src = [state |-> "open", at |-> 0, next |-> FALSE]
    /\ data.at = "none" /\ pump.at = "none"

IInv ==
  /\ Typed /\ WalkWell /\ DataWell /\ DoneWell /\ PayloadWell /\ OutWell /\ EndWell /\ SourceWell

-----------------------------------------------------------------------------
(* What the definitions of the model return.                               *)

(* A stream carries a file. *)
LEMMA ServedTyped == ASSUME Constant PROVE served \in Seq(FileUnits)
BY ForwardAssumption DEF Constant

(* The units of what was taken. *)
LEMMA UnitsTyped ==
  ASSUME Constant, NEW got, NEW a, NEW b, Chain(got, a, b)
  PROVE  Units(got) \in Seq(FileUnits) /\ (got = <<>> => Len(Units(got)) = 0)
<1>1. served \in Seq(FileUnits)
  BY ServedTyped
<1>2. CASE got = <<>>
  <2>1. Units(got) = <<>>
    BY <1>2 DEF Units
  <2>2. QED
    BY <2>1, EmptyTyped
<1>3. CASE got # <<>>
  <2>1. OneRange(got) = Piece(a, b) /\ a \in Int /\ b \in Int
    BY <1>3, ChainRange DEF Chain
  <2>2. Units(got) = Slice(served, a, b)
    BY <1>3, <2>1 DEF Units, Piece
  <2>3. QED
    BY <1>1, <1>3, <2>1, <2>2, SliceTyped
<1>4. QED
  BY <1>2, <1>3

(* What they decode to. *)
LEMMA ProducedTyped ==
  ASSUME NEW units \in Seq(FileUnits)
  PROVE  Produced(units) \in Contents /\ (Len(units) = 0 => Produced(units) = <<>>)
BY StoredTyped, DecodedTyped DEF Produced

(* A payload that passes the checks is what its header vouches for.        *)
LEMMA CheckedIsVouched ==
  ASSUME NEW units \in Seq(FileUnits), CheckedContent(Decompressed(Header, units)) = "OK"
  PROVE  Produced(units) = Header.crc
<1> DEFINE raw == Decompressed(Header, units)
<1>1. raw.code = "OK" /\ checkDecompressedOutput(Header, raw.out, TRUE) = "OK"
  <2> HIDE DEF raw
  <2>1. CheckedContent(raw) = IF raw.code # "OK" THEN raw.code
                              ELSE checkDecompressedOutput(Header, raw.out, TRUE)
    BY DEF CheckedContent, IsOk
  <2>2. CheckedContent(raw) = "OK"
    BY DEF raw
  <2>3. QED
    BY <2>1, <2>2
<1>2. raw.out = Header.crc
  BY <1>1 DEF checkDecompressedOutput
<1>3. CASE Header.method = METHOD_STORE
  <2>1. raw = [code |-> "OK", out |-> Stored(units)] /\ Produced(units) = Stored(units)
    BY <1>3 DEF Decompressed, Produced
  <2> HIDE DEF raw
  <2>2. QED
    BY <1>2, <2>1
<1>4. CASE Header.method # METHOD_STORE
  <2>1. raw = Inflated(Header.method, units, Header.uncompressedSize)
        /\ Produced(units) = DecodedSoFar(Header, units)
    BY <1>4 DEF Decompressed, Produced
  <2>2. raw.out = DecodedSoFar(Header, units)
    BY <1>1, <2>1, InflatedIsDecoded
  <2>3. QED
    BY <1>2, <2>1, <2>2
<1>5. QED
  BY <1>3, <1>4

(* How a read can end. *)
LEMMA CodesTyped ==
  ASSUME NEW units, NEW out
  PROVE  /\ CheckedContent(Decompressed(Header, units)) \in Codes
         /\ Accounted(out) \in Codes
         /\ checkDecompressedOutput(Header, out, TRUE) \in Codes
<1>1. \A o : checkDecompressedOutput(Header, o, TRUE) \in Codes
  BY DEF checkDecompressedOutput, Codes
<1>2. Decompressed(Header, units).code \in Codes
  <2>1. ASSUME NEW m, NEW most PROVE Inflated(m, units, most).code \in Codes
    <3>1. Refused("ZIP_DEFLATE_TRUNCATED").code \in Codes /\ Refused("ZIP_DEFLATE_CORRUPT").code \in Codes
          /\ Refused("ZIP_INFLATE_OUTPUT_OVERFLOW").code \in Codes
          /\ \A o : [code |-> "OK", out |-> o].code \in Codes
      BY DEF Refused, Codes
    <3>2. QED
      BY <3>1 DEF Inflated
  <2>2. [code |-> "OK", out |-> Stored(units)].code \in Codes
    BY DEF Codes
  <2>3. QED
    BY <2>1, <2>2 DEF Decompressed
<1>3. CheckedContent(Decompressed(Header, units)) \in Codes
  BY <1>1, <1>2 DEF CheckedContent
<1>4. Accounted(out) \in Codes
  BY DEF Accounted, Codes
<1>5. QED
  BY <1>1, <1>3, <1>4

(* What passes account() stays within what all entries may produce.        *)
LEMMA AccountedFits ==
  ASSUME walk \in Walks, data \in Datas, NEW out \in Contents, Accounted(out) = "OK"
  PROVE  /\ walk.total + ContentSize(out) - ContentSize(data.out) \in Int
         /\ walk.total + ContentSize(out) - ContentSize(data.out) <= Limits.maxTotalUncompressedSize
<1> DEFINE size == ContentSize(out)
<1> DEFINE more == size - ContentSize(data.out)
<1>1. size \in Nat /\ ContentSize(data.out) \in Nat /\ walk.total \in Int
  BY ContentSizeNat DEF Datas, Walks
<1>2. ~(walk.total + more > Limits.maxTotalUncompressedSize)
  BY DEF Accounted
<1>3. Limits.maxTotalUncompressedSize \in Nat
  BY LimitsAssumption
<1> HIDE DEF size
<1>4. QED
  BY <1>1, <1>2, <1>3 DEF size

(* Where a stream ends. *)
LEMMA EndOfStreamNat ==
  ASSUME Constant, NEW from
  PROVE  EndOfStream(from) \in Nat
<1> DEFINE ends == {i \in DOMAIN served : served[i].kind = "data" /\ served[i].final /\ Starts(served)[i] >= from}
<1> DEFINE first == CHOOSE i \in ends : \A j \in ends : i <= j
<1>1. served \in Seq(FileUnits)
  BY ServedTyped
<1>2. EndOfStream(from) = IF ends = {} THEN Length(served) + 1 ELSE Starts(served)[first] + served[first].len
  BY DEF EndOfStream
<1>3. Length(served) \in Nat
  BY <1>1, LengthNat
<1>4. CASE ends = {}
  BY <1>2, <1>3, <1>4
<1>5. CASE ends # {}
  <2>1. Len(served) \in Nat /\ DOMAIN served = 1 .. Len(served)
    BY <1>1
  <2>2. ends \subseteq Nat
    BY <2>1
  <2>3. first \in ends
    <3> HIDE DEF ends
    <3>1. \E i \in ends : \A j \in ends : i <= j
      BY <1>5, <2>2, LeastExists
    <3>2. QED
      BY <3>1
  <2> HIDE DEF first
  <2>4. first \in 1 .. Len(served) /\ first \in 1 .. Len(served) + 1
    BY <2>1, <2>3
  <2>5. served[first] \in FileUnits
    <3> HIDE DEF FileUnits
    <3>1. QED
      BY <1>1, <2>4
  <2>6. served[first].len \in Nat /\ Starts(served)[first] \in Nat
    BY <1>1, <2>4, <2>5, UnitLength, StartsTyped
  <2> HIDE DEF ends
  <2>7. QED
    BY <1>2, <1>5, <2>6
<1>6. QED
  BY <1>4, <1>5

(* What comes next, and what it is. *)
LEMMA FollowingIs ==
  ASSUME Filled, NEW n \in Nat, n <= Buffered(cursor)
  PROVE  /\ Following(n).from \in Int /\ Following(n).to \in Int
         /\ n # 0 => Following(n).from = cursor.bytesRead
<1> DEFINE p == FirstBytes(cursor.pending, n)
<1>1. Chain(p, cursor.bytesRead, cursor.bytesRead + n) /\ cursor.bytesRead \in Nat
  BY ConsumedFills, BufferedIs DEF Filled
<1>2. Following(n) = OneRange(p)
  BY DEF Following
<1> HIDE DEF p
<1>3. CASE p = <<>>
  <2>1. cursor.bytesRead = cursor.bytesRead + n
    BY <1>1, <1>3 DEF Chain
  <2>2. n = 0
    BY <1>1, <2>1
  <2>3. OneRange(p) = Piece(0, 0)
    BY <1>3 DEF OneRange
  <2>4. QED
    BY <1>2, <2>2, <2>3 DEF Piece
<1>4. CASE p # <<>>
  <2>1. OneRange(p) = Piece(cursor.bytesRead, cursor.bytesRead + n)
    BY <1>1, <1>4, ChainRange
  <2>2. QED
    BY <1>1, <1>2, <2>1 DEF Piece
<1>5. QED
  BY <1>3, <1>4

(* An entry's header is what its record and its Zip64 field say.           *)
LEMMA InterpretedTyped ==
  ASSUME NEW lfh \in LocalHeaders, NEW from \in Nat
  PROVE  /\ Interpreted(lfh, Declared64(lfh), from) \in Headers
         /\ Interpreted(lfh, Declared64(lfh), from).from = from
<1>1. /\ lfh.name \in Names /\ lfh.method \in Nat /\ lfh.bit3 \in BOOLEAN /\ lfh.encrypted \in BOOLEAN
      /\ lfh.crc \in Contents /\ lfh.compressedSize \in Nat /\ lfh.uncompressedSize \in Nat
      /\ lfh.extra \in Seq(ExtraFields) /\ lfh.extraLength \in Nat
  BY DEF LocalHeaders
<1> DEFINE z64 == Declared64(lfh)
<1>2. z64.compressedSize \in Nat /\ z64.uncompressedSize \in Nat
  <2>1. parseExtraFields(lfh.extra, lfh.extraLength).fields \in Seq(ExtraFields)
    BY <1>1, FieldsTyped
  <2>2. QED
    BY <1>1, <2>1, Zip64Typed DEF Declared64
<1> HIDE DEF z64
<1>3. Interpreted(lfh, z64, from) \in Headers /\ Interpreted(lfh, z64, from).from = from
  BY <1>1, <1>2 DEF Interpreted, Headers
<1>4. QED
  BY <1>3 DEF z64

-----------------------------------------------------------------------------
(* What a step that does not touch a part leaves true of it.               *)

(* Of what data() has taken and handed out. *)
LEMMA DataKept ==
  ASSUME DataWell, OutWell, EndWell, UNCHANGED <<served, current, data, pump>>
  PROVE  DataWell' /\ OutWell' /\ EndWell'
<1>1. DataWell'
  BY DEF DataWell, AtsOf, Delimited, Header
<1>2. OutWell'
  BY DEF OutWell, Produced, Units, Header
<1>3. EndWell'
  BY DEF EndWell, Finished, Vouches, Header
<1>4. QED
  BY <1>1, <1>2, <1>3

(* Of where the cursor is, as long as it stays there or the entry is done with. *)
LEMMA PayloadKept ==
  ASSUME PayloadWell, UNCHANGED <<current, data>>,
         current.done \/ cursor'.bytesRead = cursor.bytesRead
  PROVE  PayloadWell'
<1>1. Header' = Header /\ Taken' = Taken /\ Delimited' = Delimited /\ Behindhand' = Behindhand
  BY DEF Header, Taken, Delimited, Behindhand
<1>2. QED
  BY <1>1 DEF PayloadWell

(* Of how far the walk and the content are. *)
LEMMA WalkKept ==
  ASSUME WalkWell, DoneWell, UNCHANGED <<served, walk, current, data, pump>>,
         cursor'.bytesRead = cursor.bytesRead
  PROVE  WalkWell' /\ DoneWell'
<1>1. WalkWell'
  BY DEF WalkWell
<1>2. DoneWell'
  BY DEF DoneWell, Header
<1>3. QED
  BY <1>1, <1>2

-----------------------------------------------------------------------------
(* The steps of the source.                                                *)

(* Where nothing of the source was touched nobody waits for it. *)
LEMMA NobodyWaits ==
  ASSUME Filled, data.at = "none", pump.at = "none", walk.at \in {"fresh", "ended"}
  PROVE  ~Waiting
<1>1. Wanted = 0
  BY DEF Wanted, Taking
<1>2. Buffered(cursor) \in Nat
  BY BufferedIs DEF Filled
<1>3. QED
  BY <1>1, <1>2 DEF Waiting

(* Somebody who needs bytes asks for them. *)
LEMMA AskKeeps == ASSUME IInv, Ask PROVE IInv'
<1>1. UNCHANGED <<served, platform, aborted, cursor, walk, current, data, pump>>
      /\ src' = [src EXCEPT !.next = TRUE]
  BY DEF Ask, caller
<1>2. Typed'
  <2>1. Sourced'
    BY <1>1 DEF IInv, Typed, Sourced, Sources
  <2>2. Filled'
    BY <1>1 DEF IInv, Typed, Filled, Sourced, Sources
  <2>3. QED
    BY <1>1, <2>1, <2>2 DEF IInv, Typed, Constant
<1>3. WalkWell' /\ DoneWell' /\ DataWell' /\ OutWell' /\ EndWell' /\ PayloadWell'
  BY <1>1, DataKept, PayloadKept, WalkKept DEF IInv
<1>4. SourceWell'
  <2>1. Waiting
    BY DEF Ask
  <2>2. ~(walk.at = "fresh" \/ (walk.at = "ended" /\ src.state = "open"))
    BY <2>1, NobodyWaits DEF IInv, Typed, SourceWell
  <2>3. src'.state = src.state
    BY <1>1 DEF IInv, Typed, Sourced, Sources
  <2>4. QED
    BY <1>1, <2>2, <2>3 DEF SourceWell
<1>5. QED
  BY <1>2, <1>3, <1>4 DEF IInv

(* What is delivered follows what the cursor holds. *)
LEMMA SourceDeliversKeeps == ASSUME IInv, SourceDelivers PROVE IInv'
<1>1. UNCHANGED <<served, platform, aborted, walk, current, data, pump>>
      /\ src.next /\ src.at < Length(served)
  BY DEF SourceDelivers, caller
<1>2. PICK n \in Pieces :
        LET to == IF src.at + n < Length(served) THEN src.at + n ELSE Length(served)
        IN  /\ cursor' = Pushed(cursor, Piece(src.at, to))
            /\ src' = [src EXCEPT !.at = to, !.next = FALSE]
  BY DEF SourceDelivers
<1> DEFINE to == IF src.at + n < Length(served) THEN src.at + n ELSE Length(served)
<1>3. to \in Nat /\ src.at <= to /\ to <= Length(served) /\ src.at \in Nat
  <2>1. served \in Seq(FileUnits)
    BY ServedTyped DEF IInv, Typed
  <2>2. Length(served) \in Nat
    BY <2>1, LengthNat
  <2>3. n \in Nat
    BY ForwardAssumption
  <2>4. src.at \in Nat
    BY DEF IInv, Typed, Sourced, Sources
  <2>5. QED
    BY <1>1, <2>2, <2>3, <2>4
<1>4. cursor' = Pushed(cursor, Piece(src.at, to)) /\ src' = [src EXCEPT !.at = to, !.next = FALSE]
  BY <1>2
<1> HIDE DEF to
<1>5. Fills(cursor', to) /\ cursor'.bytesRead = cursor.bytesRead
  BY <1>3, <1>4, PushedFills DEF IInv, Typed, Filled
<1>6. src' \in Sources /\ src'.at = to /\ src'.state = src.state
  BY <1>3, <1>4 DEF IInv, Typed, Sourced, Sources
<1>7. Typed'
  <2>1. Sourced'
    BY <1>1, <1>3, <1>6 DEF IInv, Typed, Sourced
  <2>2. Filled'
    BY <1>5, <1>6 DEF Filled
  <2>3. QED
    BY <1>1, <2>1, <2>2 DEF IInv, Typed, Constant
<1>8. WalkWell' /\ DoneWell' /\ DataWell' /\ OutWell' /\ EndWell' /\ PayloadWell'
  BY <1>1, <1>5, DataKept, PayloadKept, WalkKept DEF IInv
<1>9. SourceWell'
  BY <1>1, <1>6 DEF IInv, SourceWell
<1>10. QED
  BY <1>7, <1>8, <1>9 DEF IInv

(* At the end of the source nothing is lost. *)
LEMMA SourceEndsKeeps == ASSUME IInv, SourceEnds PROVE IInv'
<1>1. /\ UNCHANGED <<served, platform, aborted, walk, current, data, pump>>
      /\ src.next /\ cursor' = [cursor EXCEPT !.done = TRUE]
      /\ src' = [src EXCEPT !.next = FALSE, !.state = "returned"]
  BY DEF SourceEnds, caller
<1>2. src' \in Sources /\ src'.at = src.at /\ src'.state = "returned"
  BY <1>1 DEF IInv, Typed, Sourced, Sources
<1>3. Fills(cursor', src.at) /\ cursor'.bytesRead = cursor.bytesRead
  BY <1>1 DEF IInv, Typed, Filled, Fills, Cursors
<1>4. Typed'
  <2>1. Sourced'
    BY <1>1, <1>2 DEF IInv, Typed, Sourced
  <2>2. Filled'
    BY <1>2, <1>3 DEF Filled
  <2>3. QED
    BY <1>1, <2>1, <2>2 DEF IInv, Typed, Constant
<1>5. WalkWell' /\ DoneWell' /\ DataWell' /\ OutWell' /\ EndWell' /\ PayloadWell'
  BY <1>1, <1>3, DataKept, PayloadKept, WalkKept DEF IInv
<1>6. SourceWell'
  BY <1>1, <1>2 DEF IInv, SourceWell
<1>7. QED
  BY <1>4, <1>5, <1>6 DEF IInv

(* An abort is only noted. *)
LEMMA AbortKeeps == ASSUME IInv, Abort PROVE IInv'
<1>1. UNCHANGED <<served, platform, src, cursor, walk, current, data, pump>> /\ aborted' = TRUE
  BY DEF Abort, caller
<1>2. Typed'
  BY <1>1 DEF IInv, Typed, Constant, Sourced, Filled
<1>3. WalkWell' /\ DoneWell' /\ DataWell' /\ OutWell' /\ EndWell' /\ PayloadWell'
  BY <1>1, DataKept, PayloadKept, WalkKept DEF IInv
<1>4. SourceWell'
  BY <1>1 DEF IInv, SourceWell
<1>5. QED
  BY <1>2, <1>3, <1>4 DEF IInv

-----------------------------------------------------------------------------
(* The steps of the walk.                                                  *)

(* A step that only moves the walk. *)
LEMMA WalkMoves ==
  ASSUME IInv, UNCHANGED <<served, platform, aborted, src, cursor, current, data, pump>>,
         walk' \in Walks, walk'.total = walk.total,
         current.done \/ walk'.at \in {"entry", "closing", "ended"},
         walk'.at = "tail" => walk'.lfh \in LocalHeaders,
         walk'.at = "fixed" => At(served, cursor.bytesRead).kind = "lfh",
         walk'.at = "fresh" \/ (walk'.at = "ended" /\ src.state = "open") => walk.at = "fresh"
  PROVE  IInv'
<1>1. Typed'
  BY DEF IInv, Typed, Constant, Sourced, Filled
<1>2. WalkWell'
  BY DEF IInv, WalkWell
<1>3. DoneWell'
  BY DEF IInv, DoneWell, Header
<1>4. DataWell' /\ OutWell' /\ EndWell' /\ PayloadWell'
  BY DataKept, PayloadKept DEF IInv
<1>5. SourceWell'
  BY DEF IInv, SourceWell
<1>6. QED
  BY <1>1, <1>2, <1>3, <1>4, <1>5 DEF IInv

(* The walk ends, and is to close its source. *)
LEMMA ClosingKeeps ==
  ASSUME IInv, NEW code \in Codes, Close(code),
         UNCHANGED <<served, platform, aborted, src, cursor, current, data, pump>>
  PROVE  IInv'
<1>1. walk' \in Walks /\ walk'.total = walk.total /\ walk'.at = "closing"
  BY DEF IInv, Typed, Walks, WalkAts, Close
<1>2. QED
  BY <1>1, WalkMoves

(* The walk goes on only from an entry that is done with. *)
LEMMA NextKeeps == ASSUME IInv, Next PROVE IInv'
<1>1. UNCHANGED <<served, platform, aborted, src, cursor, current, data, pump>>
      /\ walk.at \in {"fresh", "entry"}
  BY DEF Next, DataUntouched, caller
<1>2. "ZIP_API_MISUSE" \in Codes /\ "ABORT" \in Codes
  BY DEF Codes
<1>3. CASE aborted /\ walk.at = "fresh"
  <2>1. walk' = [walk EXCEPT !.at = "ended", !.code = "ABORT"]
    BY <1>3 DEF Next
  <2>2. walk' \in Walks /\ walk'.total = walk.total /\ walk'.at = "ended"
    BY <1>2, <2>1 DEF IInv, Typed, Walks, WalkAts
  <2>3. QED
    BY <1>1, <1>3, <2>2, WalkMoves
<1>4. CASE ~(aborted /\ walk.at = "fresh") /\ ~current.done
  <2>1. Close("ZIP_API_MISUSE")
    BY <1>4 DEF Next
  <2>2. QED
    BY <1>1, <1>2, <2>1, ClosingKeeps
<1>5. CASE ~(aborted /\ walk.at = "fresh") /\ current.done /\ aborted
  <2>1. Close("ABORT")
    BY <1>5 DEF Next
  <2>2. QED
    BY <1>1, <1>2, <2>1, ClosingKeeps
<1>6. CASE current.done /\ ~aborted
  <2>1. walk' = [walk EXCEPT !.at = "peek"]
    BY <1>6 DEF Next
  <2>2. walk' \in Walks /\ walk'.total = walk.total /\ walk'.at = "peek"
    BY <2>1 DEF IInv, Typed, Walks, WalkAts
  <2>3. QED
    BY <1>1, <1>6, <2>2, WalkMoves
<1>7. QED
  BY <1>3, <1>4, <1>5, <1>6

(* A walk that is left has its source to close, if it was touched. *)
LEMMA LeaveKeeps == ASSUME IInv, Leave PROVE IInv'
<1>1. UNCHANGED <<served, platform, aborted, src, cursor, current, data, pump>>
      /\ walk.at \in {"fresh", "entry"}
  BY DEF Leave, DataUntouched, caller
<1>2. "RETURNED" \in Codes
  BY DEF Codes
<1>3. CASE walk.at = "fresh"
  <2>1. walk' = [walk EXCEPT !.at = "ended", !.code = "RETURNED"]
    BY <1>3 DEF Leave
  <2>2. walk' \in Walks /\ walk'.total = walk.total /\ walk'.at = "ended"
    BY <1>2, <2>1 DEF IInv, Typed, Walks, WalkAts
  <2>3. QED
    BY <1>1, <1>3, <2>2, WalkMoves
<1>4. CASE walk.at # "fresh"
  <2>1. Close("RETURNED")
    BY <1>4 DEF Leave
  <2>2. QED
    BY <1>1, <1>2, <2>1, ClosingKeeps
<1>5. QED
  BY <1>3, <1>4

(* A local header is looked at before it is read. *)
LEMMA OnPeekKeeps == ASSUME IInv, OnPeek PROVE IInv'
<1>1. UNCHANGED <<served, platform, aborted, src, cursor, current, data, pump>>
      /\ walk.at = "peek"
  BY DEF OnPeek, DataUntouched, caller
<1>2. {"OK", "ZIP_STREAM_TRUNCATED", "ZIP_SIGNATURE_MISMATCH", "ZIP_LIMIT_EXCEEDED"} \subseteq Codes
  BY DEF Codes
<1>3. CASE \E code \in Codes : Close(code)
  BY <1>1, <1>3, ClosingKeeps
<1>4. CASE ~\E code \in Codes : Close(code)
  <2>1. /\ ~(Buffered(cursor) = 0) /\ ~(Buffered(cursor) < 4) /\ Signature = "lfh"
        /\ walk' = [walk EXCEPT !.at = "fixed"]
    BY <1>2, <1>4 DEF OnPeek
  <2>2. Buffered(cursor) \in Nat
    BY BufferedIs DEF IInv, Typed, Filled
  <2>3. Following(4).from = cursor.bytesRead
    <3>1. 4 \in Nat /\ 4 <= Buffered(cursor) /\ 4 # 0
      BY <2>1, <2>2
    <3>2. Filled
      BY DEF IInv, Typed
    <3>3. QED
      BY <3>1, <3>2, FollowingIs
  <2>4. At(served, cursor.bytesRead).kind = "lfh"
    BY <2>1, <2>3 DEF Signature
  <2>5. walk' \in Walks /\ walk'.total = walk.total /\ walk'.at = "fixed"
    BY <2>1 DEF IInv, Typed, Walks, WalkAts
  <2>6. current.done
    BY <1>1 DEF IInv, DoneWell
  <2>7. QED
    BY <1>1, <2>4, <2>5, <2>6, WalkMoves
<1>5. QED
  BY <1>3, <1>4

(* Then the source is let go of. *)
LEMMA CloseSourceKeeps == ASSUME IInv, CloseSource PROVE IInv'
<1>1. /\ UNCHANGED <<served, platform, aborted, cursor, current, data, pump>>
      /\ src' = IF src.state = "open" THEN [src EXCEPT !.state = "returned"] ELSE src
      /\ walk' = [walk EXCEPT !.at = "ended"] /\ walk.at = "closing"
  BY DEF CloseSource, caller
<1>2. src' \in Sources /\ src'.at = src.at /\ src'.state # "open"
  BY <1>1 DEF IInv, Typed, Sourced, Sources
<1>3. walk' \in Walks /\ walk'.total = walk.total /\ walk'.at = "ended"
  BY <1>1 DEF IInv, Typed, Walks, WalkAts
<1>4. Typed'
  <2>1. Sourced'
    BY <1>1, <1>2 DEF IInv, Typed, Sourced
  <2>2. Filled'
    BY <1>1, <1>2 DEF IInv, Typed, Filled
  <2>3. QED
    BY <1>1, <1>3, <2>1, <2>2 DEF IInv, Typed, Constant
<1>5. WalkWell' /\ DoneWell'
  BY <1>1, <1>3 DEF IInv, WalkWell, DoneWell, Header
<1>6. DataWell' /\ OutWell' /\ EndWell' /\ PayloadWell'
  BY <1>1, DataKept, PayloadKept DEF IInv
<1>7. SourceWell'
  BY <1>2, <1>3 DEF SourceWell
<1>8. QED
  BY <1>4, <1>5, <1>6, <1>7 DEF IInv

(* A step of the walk that reads what it has found: then nothing is left of *)
(* the entry before.                                                        *)
LEMMA WalkReads ==
  ASSUME IInv, UNCHANGED <<served, platform, aborted, src, current, data, pump>>,
         NEW n \in Nat, n <= Buffered(cursor), cursor' = Consumed(cursor, n), current.done,
         walk' \in Walks, walk'.total = walk.total, walk'.at \in {"tail", "closing"},
         walk'.at = "tail" => walk'.lfh \in LocalHeaders
  PROVE  IInv'
<1>1. Fills(cursor', src.at)
  BY ConsumedFills DEF IInv, Typed, Filled
<1>2. Typed'
  BY <1>1 DEF IInv, Typed, Constant, Sourced, Filled
<1>3. WalkWell' /\ DoneWell'
  BY DEF IInv, WalkWell, DoneWell, Header
<1>4. DataWell' /\ OutWell' /\ EndWell' /\ PayloadWell'
  BY DataKept, PayloadKept DEF IInv
<1>5. SourceWell'
  BY DEF SourceWell
<1>6. QED
  BY <1>2, <1>3, <1>4, <1>5 DEF IInv

(* What was seen to be a local header is read as one. *)
LEMMA OnFixedKeeps == ASSUME IInv, OnFixed PROVE IInv'
<1> DEFINE lfh == At(served, Following(LocalHeaderSize).from)
<1>1. UNCHANGED <<served, platform, aborted, src, current, data, pump>> /\ walk.at = "fixed"
  BY DEF OnFixed, DataUntouched, caller
<1>2. {"ZIP_STREAM_TRUNCATED", "ZIP_LIMIT_EXCEEDED"} \subseteq Codes
  BY DEF Codes
<1>3. CASE cursor' = cursor /\ \E code \in Codes : Close(code)
  BY <1>1, <1>3, ClosingKeeps
<1>4. CASE ~(cursor' = cursor /\ \E code \in Codes : Close(code))
  <2>1. /\ ~(Buffered(cursor) < LocalHeaderSize)
        /\ walk' = [walk EXCEPT !.at = "tail", !.lfh = lfh]
        /\ cursor' = Consumed(cursor, LocalHeaderSize)
    <3> HIDE DEF lfh
    <3>1. QED
      BY <1>2, <1>4 DEF OnFixed, lfh
  <2>2. Buffered(cursor) \in Nat /\ Filled /\ served \in Seq(FileUnits)
    BY BufferedIs, ServedTyped DEF IInv, Typed, Filled
  <2>3. LocalHeaderSize \in Nat /\ LocalHeaderSize <= Buffered(cursor) /\ LocalHeaderSize # 0
    BY <2>1, <2>2 DEF LocalHeaderSize
  <2>4. lfh \in LocalHeaders
    <3>1. Following(LocalHeaderSize).from = cursor.bytesRead
      BY <2>2, <2>3, FollowingIs
    <3>2. lfh.kind = "lfh"
      BY <1>1, <3>1 DEF IInv, WalkWell
    <3>3. lfh \in ToSet(served) \cup {None}
      BY <2>2, AtTyped
    <3> HIDE DEF lfh
    <3>4. QED
      BY <2>2, <3>2, <3>3, KindIsType
  <2> HIDE DEF lfh
  <2>5. walk' \in Walks /\ walk'.total = walk.total /\ walk'.at = "tail" /\ walk'.lfh = lfh
    <3> HIDE DEF LocalHeaders
    <3>1. walk \in Walks
      BY DEF IInv, Typed
    <3>2. QED
      BY <2>1, <2>4, <3>1 DEF Walks, WalkAts
  <2>6. current.done
    BY <1>1 DEF IInv, DoneWell
  <2>7. QED
    BY <1>1, <2>1, <2>3, <2>4, <2>5, <2>6, WalkReads
<1>5. QED
  BY <1>3, <1>4

(* An entry begins where its header ends, with nothing taken. *)
LEMMA EntryBegins ==
  ASSUME IInv, UNCHANGED <<served, platform, aborted, src>>,
         NEW n \in Nat, n <= Buffered(cursor), cursor' = Consumed(cursor, n),
         NEW header \in Headers, header.from = cursor.bytesRead + n,
         walk' \in Walks, walk'.total = walk.total, walk'.at = "entry",
         current' = [header |-> header, consumed |-> FALSE,
                     done |-> header.compressedSize = 0 /\ ~header.bit3],
         data' = NoData, pump' = NoPump
  PROVE  IInv'
<1>1. Fills(cursor', src.at) /\ cursor'.bytesRead = header.from
  BY ConsumedFills DEF IInv, Typed, Filled
<1>2. /\ current' \in Currents /\ current'.header = header
      /\ current'.done => header.compressedSize = 0 /\ ~header.bit3
  <2>1. header.bit3 \in BOOLEAN
    BY DEF Headers
  <2>2. (header.compressedSize = 0 /\ ~header.bit3) \in BOOLEAN
    OBVIOUS
  <2> HIDE DEF Headers
  <2>3. QED
    BY <2>1, <2>2 DEF Currents
<1>3. /\ data' \in Datas /\ data'.kind = "none" /\ data'.at = "none" /\ data'.got = <<>>
  BY DEF NoData, Datas, DataKinds, DataAts, Codes, Contents
<1>4. pump' \in Pumps /\ pump'.at = "none"
  BY DEF NoPump, Pumps, PumpAts, Codes
<1>5. Typed'
  BY <1>1, <1>2, <1>3, <1>4 DEF IInv, Typed, Constant, Sourced, Filled
<1>6. WalkWell'
  BY DEF IInv, WalkWell
<1>7. DoneWell'
  BY <1>2 DEF DoneWell, Header
<1>8. DataWell'
  BY <1>3, <1>4 DEF DataWell, AtsOf, Delimited
<1>9. OutWell' /\ EndWell'
  BY <1>3 DEF OutWell, EndWell, Finished
<1>10. PayloadWell'
  <2>1. header.from \in Nat /\ header.compressedSize \in Nat
    BY DEF Headers
  <2>2. Chain(<<>>, header.from, header.from)
    BY <2>1, ChainNone
  <2>3. Taken' = 0
    <3>1. SumOf(PieceLength, <<>>) = 0
      BY <2>1, <2>2, ChainSum
    <3>2. QED
      BY <1>3, <3>1 DEF Taken
  <2>4. header.from + Taken' = header.from
    BY <2>1, <2>3
  <2>5. Header' = header
    BY <1>2 DEF Header
  <2>6. QED
    BY <1>1, <1>3, <2>1, <2>2, <2>3, <2>4, <2>5 DEF PayloadWell
<1>11. SourceWell'
  BY DEF SourceWell
<1>12. QED
  BY <1>5, <1>6, <1>7, <1>8, <1>9, <1>10, <1>11 DEF IInv

(* Behind it an entry begins, if it can be read. *)
LEMMA OnTailKeeps == ASSUME IInv, OnTail PROVE IInv'
<1> DEFINE length == NameLength(walk.lfh.name) + walk.lfh.extraLength
<1> DEFINE header == Interpreted(walk.lfh, Declared64(walk.lfh), cursor.bytesRead + length)
<1>1. UNCHANGED <<served, platform, aborted, src>> /\ walk.at = "tail"
  BY DEF OnTail, caller
<1>2. {"ZIP_STREAM_TRUNCATED", "ZIP_LIMIT_EXCEEDED", "ZIP_UNSUPPORTED_CD_LESS_DESCRIPTOR"} \subseteq Codes
  BY DEF Codes
<1>3. walk.lfh \in LocalHeaders /\ current.done /\ walk \in Walks
  BY <1>1 DEF IInv, Typed, WalkWell, DoneWell
<1>4. length \in Nat /\ Buffered(cursor) \in Nat /\ cursor.bytesRead \in Nat
  <2>1. walk.lfh.name \in Names /\ walk.lfh.extraLength \in Nat
    BY <1>3 DEF LocalHeaders
  <2>2. NameLength(walk.lfh.name) \in Nat
    BY <2>1, NameLengthNat
  <2>3. QED
    BY <2>1, <2>2, BufferedIs DEF IInv, Typed, Filled
<1>5. header \in Headers /\ header.from = cursor.bytesRead + length
  <2> HIDE DEF length
  <2>1. cursor.bytesRead + length \in Nat
    BY <1>4
  <2>2. QED
    BY <1>3, <2>1, InterpretedTyped
<1> HIDE DEF length
<1>6. CASE Buffered(cursor) < length
  <2>1. Close("ZIP_STREAM_TRUNCATED") /\ UNCHANGED <<cursor, current, data, pump>>
    BY <1>6 DEF OnTail, length
  <2>2. QED
    BY <1>1, <1>2, <2>1, ClosingKeeps
<1>7. CASE ~(Buffered(cursor) < length)
  <2>1. cursor' = Consumed(cursor, length) /\ Yielded(header) /\ length <= Buffered(cursor)
    <3>1. cursor' = Consumed(cursor, length) /\ Yielded(header)
      BY <1>7 DEF OnTail, length
    <3>2. QED
      BY <1>4, <1>7, <3>1
  <2> HIDE DEF header
  <2>2. CASE UNCHANGED <<current, data, pump>> /\ \E code \in Codes : Close(code)
    <3>1. PICK code \in Codes : Close(code)
      BY <2>2
    <3>2. walk' \in Walks /\ walk'.total = walk.total /\ walk'.at = "closing"
      BY <1>3, <3>1 DEF Walks, WalkAts, Close
    <3>3. QED
      BY <1>1, <1>3, <1>4, <2>1, <2>2, <3>2, WalkReads
  <2>3. CASE ~(UNCHANGED <<current, data, pump>> /\ \E code \in Codes : Close(code))
    <3>1. /\ walk' = [walk EXCEPT !.at = "entry", !.found = Append(@, header), !.lfh = NoHeader]
          /\ current' = [header |-> header, consumed |-> FALSE,
                         done |-> header.compressedSize = 0 /\ ~header.bit3]
          /\ data' = NoData /\ pump' = NoPump
      BY <1>2, <2>1, <2>3 DEF Yielded
    <3>2. walk' \in Walks /\ walk'.total = walk.total /\ walk'.at = "entry"
      <4>1. Append(walk.found, header) \in Seq(Headers)
        <5> HIDE DEF Headers
        <5>1. walk.found \in Seq(Headers)
          BY <1>3 DEF Walks
        <5>2. QED
          BY <1>5, <5>1
      <4> HIDE DEF Headers, LocalHeaders
      <4>2. QED
        BY <1>3, <3>1, <4>1 DEF Walks, WalkAts
    <3>3. QED
      BY <1>1, <1>4, <1>5, <2>1, <3>1, <3>2, EntryBegins
  <2>4. QED
    BY <2>2, <2>3
<1>8. QED
  BY <1>6, <1>7

-----------------------------------------------------------------------------
(* The steps of data() and skip() that take no bytes.                      *)

(* What was taken stays, whatever the reader does next. *)
LEMMA PayloadStays ==
  ASSUME PayloadWell, current'.header = current.header, current.done => current'.done,
         data'.got = data.got, data'.kind = data.kind,
         Behindhand => data'.at \in {"descriptor", "ended"}, cursor'.bytesRead = cursor.bytesRead
  PROVE  PayloadWell'
<1>1. Header' = Header /\ Taken' = Taken /\ Delimited' = Delimited
  BY DEF Header, Taken, Delimited
<1>2. Behindhand => Behindhand'
  BY <1>1 DEF Behindhand
<1>3. QED
  BY <1>1, <1>2 DEF PayloadWell

(* A read or a skip begins with nothing taken. *)
LEMMA DataBegins ==
  ASSUME IInv, walk.at = "entry", ~current.consumed,
         UNCHANGED <<served, platform, aborted, src, cursor, walk, pump>>,
         current' = [current EXCEPT !.consumed = TRUE],
         NEW kind \in DataKinds \ {"none"}, NEW at \in {"fresh", "take"},
         data' = [NoData EXCEPT !.kind = kind, !.at = at], at \in AtsOf(kind),
         kind \in {"descriptor", "skipDescriptor"} <=> Header.bit3
  PROVE  IInv'
<1>1. /\ current' \in Currents /\ current'.header = current.header /\ current'.consumed
      /\ current'.done = current.done
  <2> HIDE DEF Headers
  <2>1. QED
    BY DEF IInv, Typed, Currents
<1>2. /\ data' \in Datas /\ data'.kind = kind /\ data'.at = at /\ data'.got = <<>>
      /\ data'.out = <<>>
  <2>1. NoData \in Datas
    BY DEF NoData, Datas, DataKinds, DataAts, Codes, Contents
  <2>2. at \in DataAts
    BY DEF DataAts
  <2>3. NoData.got = <<>> /\ NoData.out = <<>>
    BY DEF NoData
  <2> HIDE DEF NoData, DataKinds, Codes, Contents, Ranges
  <2>4. QED
    BY <2>1, <2>2, <2>3 DEF Datas
<1>3. data.kind = "none" /\ data.got = <<>> /\ pump.at = "none" /\ ~Delimited
  BY DEF IInv, DataWell, Delimited
<1>4. Typed'
  BY <1>1, <1>2 DEF IInv, Typed, Constant, Sourced, Filled
<1>5. WalkWell'
  BY DEF IInv, WalkWell
<1>6. DoneWell'
  BY <1>1, <1>3 DEF IInv, DoneWell, Header
<1>7. Header' = Header
  BY <1>1 DEF Header
<1>8. DataWell'
  <2>1. Delimited' <=> Header'.bit3
    BY <1>2, <1>7 DEF Delimited
  <2>2. data'.at \in AtsOf(data'.kind)
    BY <1>2
  <2> HIDE DEF AtsOf
  <2>3. QED
    BY <1>1, <1>2, <1>3, <2>1, <2>2 DEF DataWell
<1>9. OutWell'
  <2>1. served \in Seq(FileUnits) /\ <<>> \in Seq(FileUnits)
    BY ServedTyped, EmptyTyped DEF IInv, Typed
  <2>2. Units(<<>>)' = <<>>
    BY DEF Units
  <2>3. Stored(<<>>) = <<>> /\ DecodedSoFar(Header, <<>>) = <<>>
    <3>1. Len(<<>>) = 0
      OBVIOUS
    <3>2. QED
      BY <2>1, <3>1, StoredTyped, DecodedTyped
  <2>4. Produced(<<>>)' = <<>>
    BY <1>7, <2>3 DEF Produced
  <2>5. QED
    BY <1>2, <2>2, <2>4 DEF OutWell, Units, Produced
<1>10. EndWell'
  BY <1>2 DEF EndWell, Finished
<1>11. PayloadWell'
  <2>1. Taken' = Taken
    BY <1>2, <1>3 DEF Taken
  <2>2. Taken <= Header.compressedSize /\ ~Behindhand
    BY <1>3 DEF IInv, PayloadWell, Behindhand
  <2>3. QED
    BY <1>1, <1>2, <1>3, <1>7, <2>1, <2>2 DEF IInv, PayloadWell
<1>12. SourceWell'
  BY DEF SourceWell
<1>13. QED
  BY <1>4, <1>5, <1>6, <1>8, <1>9, <1>10, <1>11, <1>12 DEF IInv

(* data() begins a read as its header calls for. *)
LEMMA DataKeeps == ASSUME IInv, Data PROVE IInv'
<1>1. /\ UNCHANGED <<served, platform, aborted, src, cursor, walk, pump>>
      /\ walk.at = "entry" /\ ~current.consumed
      /\ current' = [current EXCEPT !.consumed = TRUE]
      /\ data' = [NoData EXCEPT !.kind = Kind, !.at = "fresh"]
  BY DEF Data, caller
<1>2. Header.bit3 \in BOOLEAN
  BY DEF IInv, Typed, Currents, Headers, Header
<1>3. /\ Kind \in DataKinds \ {"none"} /\ "fresh" \in AtsOf(Kind)
      /\ Kind \in {"descriptor", "skipDescriptor"} <=> Header.bit3
  <2>1. Kind \in {"descriptor", "store", "platform", "push"} /\ (Kind = "descriptor" <=> Header.bit3)
    BY <1>2 DEF Kind
  <2>2. QED
    BY <2>1 DEF DataKinds, AtsOf
<1>4. QED
  BY <1>1, <1>3, DataBegins

(* So does skip(). *)
LEMMA SkipKeeps == ASSUME IInv, Skip PROVE IInv'
<1> DEFINE kind == IF Header.bit3 THEN "skipDescriptor" ELSE "skip"
<1>1. /\ UNCHANGED <<served, platform, aborted, src, cursor, walk, pump>>
      /\ walk.at = "entry" /\ ~current.consumed
      /\ current' = [current EXCEPT !.consumed = TRUE]
      /\ data' = [NoData EXCEPT !.kind = kind, !.at = "take"]
  BY DEF Skip, caller
<1>2. /\ kind \in DataKinds \ {"none"} /\ "take" \in AtsOf(kind)
      /\ kind \in {"descriptor", "skipDescriptor"} <=> Header.bit3
  BY DEF DataKinds, AtsOf
<1> HIDE DEF kind
<1>3. QED
  BY <1>1, <1>2, DataBegins

(* A step of a reader that hands out nothing, between two of its awaits.   *)
LEMMA DataMoves ==
  ASSUME IInv, UNCHANGED <<served, platform, aborted, src, cursor, walk, current>>,
         NEW at \in DataAts, NEW code \in Codes,
         data' = [data EXCEPT !.at = at, !.code = code], at \in AtsOf(data.kind),
         pump' \in Pumps, pump'.at # "none" => data.kind = "platform",
         data.at = "ended" => at = "ended",
         Behindhand => at \in {"descriptor", "ended"},
         at = "ended" /\ code = "OK" => data.at = "ended" /\ data.code = "OK",
         pump'.at = pump.at \/ pump.at \notin {"none", "done"} \/ data.at # "ended",
         walk.at \notin {"fresh", "ended"} \/ data.at # "none"
  PROVE  IInv'
<1>1. /\ data' \in Datas /\ data'.kind = data.kind /\ data'.at = at /\ data'.got = data.got
      /\ data'.out = data.out /\ data'.code = code /\ data'.width = data.width
  <2> HIDE DEF DataKinds, DataAts, Codes, Contents, Ranges
  <2>1. QED
    BY DEF IInv, Typed, Datas
<1>2. Typed'
  BY <1>1 DEF IInv, Typed, Constant, Sourced, Filled
<1>3. WalkWell'
  BY DEF IInv, WalkWell
<1>4. Header' = Header /\ (Delimited' <=> Delimited)
  BY <1>1 DEF Header, Delimited
<1>5. DoneWell'
  BY <1>1, <1>4 DEF IInv, DoneWell
<1>6. DataWell'
  <2> HIDE DEF AtsOf
  <2>1. data'.at \in AtsOf(data'.kind)
    BY <1>1
  <2>2. QED
    BY <1>1, <1>4, <2>1 DEF IInv, DataWell
<1>7. OutWell'
  BY <1>1 DEF IInv, OutWell, Units, Produced, Header
<1>8. EndWell'
  BY <1>1, <1>4 DEF IInv, EndWell, Finished, Vouches
<1>9. PayloadWell'
  BY <1>1, PayloadStays DEF IInv
<1>10. SourceWell'
  BY DEF IInv, SourceWell
<1>11. QED
  BY <1>2, <1>3, <1>5, <1>6, <1>7, <1>8, <1>9, <1>10 DEF IInv

(* The reader goes on where it yielded. *)
LEMMA PullKeeps == ASSUME IInv, Pull PROVE IInv'
<1> DEFINE at == CASE data.kind = "platform" -> "read"
                   [] Delimited /\ data.at = "yielded" -> "pushed"
                   [] OTHER -> "take"
<1>1. /\ UNCHANGED <<served, platform, aborted, src, cursor, walk, current>>
      /\ data.at \in {"fresh", "yielded"} /\ data' = [data EXCEPT !.at = at]
      /\ pump' = IF data.at = "fresh" /\ data.kind = "platform" THEN [NoPump EXCEPT !.at = "take"] ELSE pump
  BY DEF Pull, caller
<1>2. data \in Datas /\ pump \in Pumps /\ data.kind \in DataKinds /\ data.at \in AtsOf(data.kind)
  <2> HIDE DEF DataKinds, AtsOf, DataAts, Codes, Contents, Ranges
  <2>1. QED
    BY DEF IInv, Typed, DataWell, Datas
<1>3. data.kind \in {"store", "push", "platform", "descriptor"}
  BY <1>1, <1>2 DEF DataKinds, AtsOf
<1>4. at \in AtsOf(data.kind) /\ at \in DataAts /\ at # "ended"
  <2>1. CASE data.kind = "platform"
    <3>1. at = "read"
      BY <2>1 DEF Delimited
    <3> HIDE DEF at
    <3>2. QED
      BY <2>1, <3>1 DEF AtsOf, DataAts
  <2>2. CASE data.kind = "descriptor"
    <3>1. at \in {"pushed", "take"}
      BY <2>2 DEF Delimited
    <3> HIDE DEF at
    <3>2. QED
      BY <2>2, <3>1 DEF AtsOf, DataAts
  <2>3. CASE data.kind \in {"store", "push"}
    <3>1. at = "take"
      BY <2>3 DEF Delimited
    <3> HIDE DEF at
    <3>2. QED
      BY <2>3, <3>1 DEF AtsOf, DataAts
  <2>4. QED
    BY <1>3, <2>1, <2>2, <2>3
<1> HIDE DEF at
<1>5. data' = [data EXCEPT !.at = at, !.code = data.code] /\ data.code \in Codes
  <2> HIDE DEF DataKinds, DataAts, Codes, Contents, Ranges
  <2>1. QED
    BY <1>1, <1>2 DEF Datas
<1>6. pump' \in Pumps /\ (pump'.at # "none" => data.kind = "platform")
  <2>1. [NoPump EXCEPT !.at = "take"] \in Pumps
    BY DEF NoPump, Pumps, PumpAts, Codes
  <2> HIDE DEF Pumps
  <2>2. QED
    BY <1>1, <1>2, <2>1 DEF IInv, DataWell
<1>7. ~Behindhand
  BY <1>1 DEF Behindhand
<1>8. QED
  BY <1>1, <1>4, <1>5, <1>6, <1>7, DataMoves

(* A reader that is left ends, and its entry is not done with. *)
LEMMA ReturnDataKeeps == ASSUME IInv, ReturnData PROVE IInv'
<1>1. /\ UNCHANGED <<served, platform, aborted, src, cursor, walk, current, pump>>
      /\ data.at \in {"fresh", "yielded"}
      /\ data' = [data EXCEPT !.at = "ended", !.code = "RETURNED"]
  BY DEF ReturnData, caller
<1>2. pump \in Pumps /\ data.kind \in DataKinds /\ (pump.at # "none" => data.kind = "platform")
  <2> HIDE DEF DataKinds, AtsOf, DataAts, Codes, Contents, Ranges
  <2>1. QED
    BY DEF IInv, Typed, DataWell, Datas
<1>3. "ended" \in AtsOf(data.kind) /\ "ended" \in DataAts /\ "RETURNED" \in Codes
  BY <1>2 DEF AtsOf, DataKinds, DataAts, Codes
<1>4. ~Behindhand
  BY <1>1 DEF Behindhand
<1>5. QED
  BY <1>1, <1>2, <1>3, <1>4, DataMoves

(* The pump runs beside a read of the platform's only, and what it does    *)
(* between two reads of the source changes nothing else.                   *)
LEMMA PumpMoves ==
  ASSUME IInv, UNCHANGED <<served, platform, aborted, src, cursor, walk, current, data>>,
         pump' \in Pumps, pump.at \notin {"none", "done"}
  PROVE  IInv'
<1>1. Typed'
  BY DEF IInv, Typed, Constant, Sourced, Filled
<1>2. WalkWell' /\ DoneWell'
  BY DEF IInv, WalkWell, DoneWell, Header
<1>3. DataWell'
  BY DEF IInv, DataWell, AtsOf, Delimited, Header
<1>4. OutWell' /\ EndWell' /\ PayloadWell'
  <2>1. Header' = Header /\ Taken' = Taken /\ Delimited' = Delimited /\ Behindhand' = Behindhand
    BY DEF Header, Taken, Delimited, Behindhand
  <2>2. PayloadWell'
    BY <2>1 DEF IInv, PayloadWell
  <2>3. OutWell'
    BY DEF IInv, OutWell, Produced, Units, Header
  <2>4. EndWell'
    BY DEF IInv, EndWell, Finished, Vouches, Header
  <2>5. QED
    BY <2>2, <2>3, <2>4
<1>5. SourceWell'
  BY DEF IInv, SourceWell
<1>6. QED
  BY <1>1, <1>2, <1>3, <1>4, <1>5 DEF IInv

(* The pump waits until its chunk is accepted. *)
LEMMA PumpWritesKeeps == ASSUME IInv, PumpWrites PROVE IInv'
<1>1. /\ UNCHANGED <<served, platform, aborted, src, cursor, walk, current, data>>
      /\ pump.at = "write"
      /\ \/ \E error \in {"CANCELLED", "ZIP_DEFLATE_CORRUPT"} :
              pump' = [pump EXCEPT !.at = "abort", !.error = error]
         \/ pump' = [pump EXCEPT !.at = "take"]
  BY DEF PumpWrites, Steady, caller
<1>2. pump' \in Pumps
  BY <1>1 DEF IInv, Typed, Pumps, PumpAts, Codes
<1>3. QED
  BY <1>1, <1>2, PumpMoves

(* It closes the stream, or finds it cannot. *)
LEMMA PumpClosesKeeps == ASSUME IInv, PumpCloses PROVE IInv'
<1>1. /\ UNCHANGED <<served, platform, aborted, src, cursor, walk, current, data>>
      /\ pump.at = "close"
      /\ \/ \E error \in {"CANCELLED", "ZIP_DEFLATE_CORRUPT"} :
              pump' = [pump EXCEPT !.at = "abort", !.error = error]
         \/ pump' = [pump EXCEPT !.at = "done", !.closed = TRUE]
  BY DEF PumpCloses, Steady, caller
<1>2. pump' \in Pumps
  BY <1>1 DEF IInv, Typed, Pumps, PumpAts, Codes
<1>3. QED
  BY <1>1, <1>2, PumpMoves

(* A pump that fails ends. *)
LEMMA PumpAbortsKeeps == ASSUME IInv, PumpAborts PROVE IInv'
<1>1. /\ UNCHANGED <<served, platform, aborted, src, cursor, walk, current, data>>
      /\ pump.at = "abort" /\ pump' = [pump EXCEPT !.at = "done", !.errored = TRUE]
  BY DEF PumpAborts, Steady, caller
<1>2. pump' \in Pumps
  BY <1>1 DEF IInv, Typed, Pumps, PumpAts
<1>3. QED
  BY <1>1, <1>2, PumpMoves

(* The source fails under whoever waits for it. *)
LEMMA SourceFailsKeeps == ASSUME IInv, SourceFails PROVE IInv'
<1>1. /\ UNCHANGED <<served, platform, aborted, cursor, current>> /\ src.next
      /\ src' = [src EXCEPT !.state = "failed", !.next = FALSE]
  BY DEF SourceFails, caller
<1>2. src' \in Sources /\ src'.at = src.at /\ src'.state = "failed"
  BY <1>1 DEF IInv, Typed, Sourced, Sources
<1>3. walk.at # "fresh"
  BY <1>1 DEF IInv, SourceWell
<1>4. Constant' /\ Sourced' /\ Filled'
  <2>1. Sourced'
    BY <1>1, <1>2 DEF IInv, Typed, Sourced
  <2>2. QED
    BY <1>1, <1>2, <2>1 DEF IInv, Typed, Constant, Filled
<1>5. "SOURCE" \in Codes
  BY DEF Codes
<1>6. CASE walk.at \in {"peek", "fixed", "tail"}
  <2>1. Close("SOURCE") /\ UNCHANGED <<data, pump>>
    BY <1>6 DEF SourceFails
  <2>2. walk' \in Walks /\ walk'.total = walk.total /\ walk'.at = "closing"
    BY <1>5, <2>1 DEF IInv, Typed, Walks, WalkAts, Close
  <2>3. Typed'
    BY <1>1, <1>4, <2>1, <2>2 DEF IInv, Typed
  <2>4. WalkWell' /\ DoneWell'
    BY <1>1, <2>1, <2>2 DEF IInv, WalkWell, DoneWell, Header
  <2>5. DataWell' /\ OutWell' /\ EndWell' /\ PayloadWell'
    BY <1>1, <2>1, DataKept, PayloadKept DEF IInv
  <2>6. SourceWell'
    BY <2>2 DEF SourceWell
  <2>7. QED
    BY <2>3, <2>4, <2>5, <2>6 DEF IInv
<1>7. CASE walk.at \notin {"peek", "fixed", "tail"} /\ pump.at = "take"
  <2>1. pump' = [pump EXCEPT !.at = "abort", !.error = "SOURCE"] /\ UNCHANGED <<walk, data>>
    BY <1>7 DEF SourceFails
  <2>2. pump' \in Pumps /\ pump'.at = "abort"
    BY <1>5, <2>1 DEF IInv, Typed, Pumps, PumpAts
  <2>3. Typed'
    BY <1>1, <1>4, <2>1, <2>2 DEF IInv, Typed
  <2>4. WalkWell' /\ DoneWell'
    BY <1>1, <1>7, <2>1 DEF IInv, WalkWell, DoneWell, Header
  <2>5. DataWell'
    BY <1>1, <1>7, <2>1 DEF IInv, DataWell, AtsOf, Delimited, Header
  <2>6. OutWell' /\ EndWell'
    BY <1>1, <2>1 DEF IInv, OutWell, EndWell, Produced, Units, Finished, Vouches, Header
  <2>7. PayloadWell'
    BY <1>1, <2>1, PayloadKept DEF IInv
  <2>8. SourceWell'
    BY <1>2, <1>3, <2>1 DEF SourceWell
  <2>9. QED
    BY <2>3, <2>4, <2>5, <2>6, <2>7, <2>8 DEF IInv
<1>8. CASE walk.at \notin {"peek", "fixed", "tail"} /\ pump.at # "take"
  <2>1. data' = [data EXCEPT !.at = "ended", !.code = "SOURCE"] /\ UNCHANGED <<walk, pump>>
    BY <1>8 DEF SourceFails, Ended
  <2>2. /\ data' \in Datas /\ data'.kind = data.kind /\ data'.at = "ended" /\ data'.got = data.got
        /\ data'.out = data.out /\ data'.code = "SOURCE"
    <3>1. "ended" \in DataAts
      BY DEF DataAts
    <3> HIDE DEF DataKinds, DataAts, Codes, Contents, Ranges
    <3>2. QED
      BY <1>5, <2>1, <3>1 DEF IInv, Typed, Datas
  <2>3. Typed'
    BY <1>1, <1>4, <2>1, <2>2 DEF IInv, Typed
  <2>4. WalkWell' /\ DoneWell'
    BY <1>1, <2>1, <2>2 DEF IInv, WalkWell, DoneWell, Header
  <2>5. DataWell'
    <3>1. data.kind \in DataKinds
      BY DEF IInv, Typed, Datas
    <3>2. "ended" \in AtsOf(data.kind)
      BY <3>1 DEF AtsOf, DataKinds
    <3>3. data'.at \in AtsOf(data'.kind)
      BY <2>2, <3>2
    <3>4. Delimited' = Delimited /\ Header' = Header
      BY <1>1, <2>2 DEF Delimited, Header
    <3> HIDE DEF AtsOf
    <3>5. QED
      BY <1>1, <2>1, <2>2, <3>3, <3>4 DEF IInv, DataWell
  <2>6. OutWell' /\ EndWell'
    BY <2>2 DEF OutWell, EndWell, Finished
  <2>7. PayloadWell'
    BY <1>1, <2>2, PayloadStays DEF IInv
  <2>8. SourceWell'
    BY <1>2, <1>3, <2>1 DEF SourceWell
  <2>9. QED
    BY <2>3, <2>4, <2>5, <2>6, <2>7, <2>8 DEF IInv
<1>9. QED
  BY <1>6, <1>7, <1>8

-----------------------------------------------------------------------------
(* The steps that end a read.                                              *)

(* A read that ends well has been checked, and leaves nothing to be taken. *)
LEMMA DataCompletes ==
  ASSUME IInv, UNCHANGED <<served, platform, aborted, src, cursor, walk, pump>>,
         NEW code \in Codes, Completed(code),
         data.at \notin {"none", "ended"}, pump.at \in {"none", "done"},
         code = "OK" => ~Delimited /\ (data.kind = "skip" \/ data.out = Header.crc)
  PROVE  IInv'
<1>1. data.kind # "none" /\ data.kind \in DataKinds
  BY DEF IInv, Typed, DataWell, AtsOf, Datas
<1>2. /\ data' \in Datas /\ data'.kind = data.kind /\ data'.at = "ended" /\ data'.got = data.got
      /\ data'.out = data.out /\ data'.code = code
  <2>1. "ended" \in DataAts
    BY DEF DataAts
  <2>2. data' = [data EXCEPT !.at = "ended", !.code = code]
    BY DEF Completed, Ended
  <2> HIDE DEF DataKinds, DataAts, Codes, Contents, Ranges
  <2>3. QED
    BY <2>1, <2>2 DEF IInv, Typed, Datas
<1>3. /\ current' \in Currents /\ current'.header = current.header
      /\ current'.consumed = current.consumed
      /\ current'.done <=> code = "OK" \/ current.done
  <2>1. current' = IF code = "OK" THEN [current EXCEPT !.done = TRUE] ELSE current
    BY DEF Completed
  <2> HIDE DEF Headers
  <2>2. QED
    BY <2>1 DEF IInv, Typed, Currents
<1>4. Header' = Header /\ Delimited' = Delimited
  BY <1>2, <1>3 DEF Header, Delimited
<1>5. Typed'
  BY <1>2, <1>3 DEF IInv, Typed, Constant, Sourced, Filled
<1>6. WalkWell'
  BY DEF IInv, WalkWell
<1>7. DoneWell'
  <2>1. current.consumed
    BY <1>1 DEF IInv, DataWell
  <2>2. QED
    BY <1>2, <1>3, <1>4, <2>1 DEF IInv, DoneWell
<1>8. DataWell'
  <2>1. "ended" \in AtsOf(data.kind)
    BY <1>1 DEF AtsOf, DataKinds
  <2>2. data'.at \in AtsOf(data'.kind)
    BY <1>2, <2>1
  <2> HIDE DEF AtsOf
  <2>3. QED
    BY <1>2, <1>3, <1>4, <2>2 DEF IInv, DataWell
<1>9. OutWell'
  BY <1>2 DEF OutWell
<1>10. EndWell'
  <2>1. Delimited <=> Header.bit3
    BY <1>1 DEF IInv, DataWell
  <2>2. Finished' => code = "OK" /\ data.kind # "skip"
    BY <1>2 DEF Finished
  <2>3. QED
    BY <1>2, <1>4, <2>1, <2>2 DEF EndWell
<1>11. PayloadWell'
  BY <1>2, <1>3, PayloadStays DEF IInv
<1>12. SourceWell'
  BY DEF IInv, SourceWell
<1>13. QED
  BY <1>5, <1>6, <1>7, <1>8, <1>9, <1>10, <1>11, <1>12 DEF IInv

(* Where a read ends early its entry is not done with. *)
LEMMA DataFails ==
  ASSUME IInv, UNCHANGED <<served, platform, aborted, src, cursor, walk, current, pump>>,
         NEW code \in Codes \ {"OK"}, Ended(code), data.at \in {"take", "pushed", "descriptor"}
  PROVE  IInv'
<1>1. Completed(code)
  BY DEF Completed
<1>2. data.kind \in DataKinds /\ data.kind # "platform"
  BY DEF IInv, Typed, DataWell, AtsOf, Datas
<1>3. pump.at = "none"
  BY <1>2 DEF IInv, DataWell
<1>4. QED
  BY <1>1, <1>3, DataCompletes

(* Behind the last byte the content is checked. *)
LEMMA EndOfPayloadKeeps == ASSUME IInv, EndOfPayload PROVE IInv'
<1> DEFINE checked == CheckedContent(Decompressed(Header, Units(data.got)))
<1> DEFINE code == IF data.kind = "skip" THEN "OK" ELSE checked
<1>1. /\ UNCHANGED <<served, platform, aborted, src, cursor, walk, pump>>
      /\ data.at = "take" /\ ~Delimited /\ Completed(code)
  BY DEF EndOfPayload, Steady, caller
<1>2. data.kind \in {"store", "push", "skip"}
  <2>1. data.kind \in DataKinds /\ data.at \in AtsOf(data.kind)
    BY DEF IInv, Typed, DataWell, Datas
  <2>2. QED
    BY <1>1, <2>1 DEF DataKinds, AtsOf, Delimited
<1>3. pump.at = "none"
  BY <1>2 DEF IInv, DataWell
<1>4. code \in Codes
  <2>1. checked \in Codes /\ "OK" \in Codes
    BY CodesTyped DEF Codes
  <2> HIDE DEF checked, Codes
  <2>2. QED
    BY <2>1
<1>5. ASSUME data.kind # "skip", checked = "OK" PROVE data.out = Header.crc
  <2>1. Units(data.got) \in Seq(FileUnits)
    <3>1. Chain(data.got, Header.from, Header.from + Taken)
      BY DEF IInv, PayloadWell
    <3>2. QED
      BY <3>1, UnitsTyped DEF IInv, Typed
  <2>2. Produced(Units(data.got)) = Header.crc
    BY <1>5, <2>1, CheckedIsVouched
  <2>3. data.out = Produced(Units(data.got))
    BY <1>1, <1>2, <1>5 DEF IInv, OutWell
  <2>4. QED
    BY <2>2, <2>3
<1> HIDE DEF checked
<1>6. code = "OK" => data.kind = "skip" \/ data.out = Header.crc
  BY <1>5
<1> HIDE DEF code
<1>7. QED
  BY <1>1, <1>3, <1>4, <1>6, DataCompletes

(* A read beside the pump ends when that has. *)
LEMMA JoinKeeps == ASSUME IInv, Join PROVE IInv'
<1> DEFINE checked == checkDecompressedOutput(Header, data.out, TRUE)
<1> DEFINE code == IF data.code # "OK" THEN data.code ELSE IF pump.error # "OK" THEN pump.error ELSE checked
<1>1. /\ UNCHANGED <<served, platform, aborted, src, cursor, walk, pump>>
      /\ data.at = "join" /\ pump.at = "done" /\ Completed(code)
  BY DEF Join, Steady, caller
<1>2. data.kind \in DataKinds /\ data.at \in AtsOf(data.kind) /\ data.code \in Codes /\ pump.error \in Codes
  <2> HIDE DEF DataKinds, AtsOf, DataAts, Codes, Contents, Ranges
  <2>1. QED
    BY DEF IInv, Typed, DataWell, Datas, Pumps
<1>3. ~Delimited
  BY <1>1, <1>2 DEF DataKinds, AtsOf, Delimited
<1>4. code \in Codes
  <2>1. checked \in Codes
    BY CodesTyped
  <2> HIDE DEF checked, Codes
  <2>2. QED
    BY <1>2, <2>1
<1>5. checked = "OK" => data.out = Header.crc
  BY DEF checkDecompressedOutput
<1> HIDE DEF checked
<1>6. code = "OK" => data.out = Header.crc
  BY <1>5
<1> HIDE DEF code
<1>7. QED
  BY <1>1, <1>3, <1>4, <1>6, DataCompletes

-----------------------------------------------------------------------------
(* The steps that take bytes, or hand out content.                         *)

(* What is handed out has passed account(), or is nothing. *)
LEMMA GiveTyped ==
  ASSUME walk \in Walks, data \in Datas, walk.total <= Limits.maxTotalUncompressedSize,
         NEW got \in Seq(Ranges), NEW out \in Contents, NEW code \in Codes, NEW then \in DataAts,
         Give(got, out, code, then),
         code = "OK" => Accounted(out) = "OK" \/ (out = <<>> /\ data.out = <<>>)
  PROVE  /\ data' \in Datas /\ data'.kind = data.kind /\ data'.got = got /\ data'.code = code
         /\ data'.out = IF code = "OK" THEN out ELSE data.out
         /\ data'.at = IF code # "OK" THEN "ended"
                       ELSE IF out # data.out /\ data.kind # "skipDescriptor" THEN "yielded" ELSE then
         /\ walk' \in Walks /\ walk'.total <= Limits.maxTotalUncompressedSize
         /\ walk'.at = walk.at /\ walk'.lfh = walk.lfh
<1> DEFINE at == CASE code # "OK" -> "ended"
                   [] code = "OK" /\ out # data.out /\ data.kind # "skipDescriptor" -> "yielded"
                   [] OTHER -> then
<1> DEFINE handed == IF code = "OK" THEN out ELSE data.out
<1> DEFINE total == walk.total + ContentSize(out) - ContentSize(data.out)
<1>1. /\ data' = [data EXCEPT !.got = got, !.out = handed, !.code = code, !.at = at]
      /\ walk' = IF code = "OK" THEN [walk EXCEPT !.total = total] ELSE walk
  <2>1. data.out = data.out
    OBVIOUS
  <2>2. data' = [data EXCEPT !.got = got, !.out = IF code = "OK" THEN out ELSE data.out,
                   !.code = code, !.at = at]
    BY DEF Give
  <2> HIDE DEF at
  <2>3. QED
    BY <2>2 DEF Give
<1>2. at = IF code # "OK" THEN "ended"
           ELSE IF out # data.out /\ data.kind # "skipDescriptor" THEN "yielded" ELSE then
  OBVIOUS
<1>3. at \in DataAts
  <2>1. "ended" \in DataAts /\ "yielded" \in DataAts
    BY DEF DataAts
  <2> HIDE DEF DataAts
  <2>2. QED
    BY <2>1
<1>4. handed \in Contents
  <2> HIDE DEF Contents
  <2>1. QED
    BY DEF Datas
<1>5. code = "OK" => total \in Int /\ total <= Limits.maxTotalUncompressedSize
  <2>1. CASE Accounted(out) = "OK"
    BY <2>1, AccountedFits
  <2>2. CASE out = <<>> /\ data.out = <<>>
    <3>1. ContentSize(out) = 0 /\ ContentSize(data.out) = 0 /\ walk.total \in Int
      BY <2>2, ContentSizeEmpty DEF Walks
    <3>2. total = walk.total
      BY <3>1
    <3>3. QED
      BY <3>1, <3>2
  <2>3. QED
    BY <2>1, <2>2
<1> HIDE DEF at, handed, total
<1>6. /\ data' \in Datas /\ data'.kind = data.kind /\ data'.got = got /\ data'.code = code
      /\ data'.out = handed /\ data'.at = at
  <2> HIDE DEF DataKinds, DataAts, Codes, Contents, Ranges
  <2>1. QED
    BY <1>1, <1>3, <1>4 DEF Datas
<1>7. /\ walk' \in Walks /\ walk'.total <= Limits.maxTotalUncompressedSize
      /\ walk'.at = walk.at /\ walk'.lfh = walk.lfh
  <2> HIDE DEF WalkAts, Codes, Headers, LocalHeaders
  <2>1. CASE code = "OK"
    BY <1>1, <1>5, <2>1 DEF Walks
  <2>2. CASE code # "OK"
    BY <1>1, <2>2
  <2>3. QED
    BY <2>1, <2>2
<1>8. QED
  BY <1>2, <1>6, <1>7 DEF handed

(* How much was taken is how far the pieces reach. *)
LEMMA TakenIs ==
  ASSUME NEW got, NEW a \in Nat, NEW n, Chain(got, a, n)
  PROVE  SumOf(PieceLength, got) = n - a /\ SumOf(PieceLength, got) \in Nat /\ n \in Nat
BY ChainSum DEF Chain

(* What is taken of the buffer follows what was taken before, and the      *)
(* cursor stands behind it again.                                          *)
LEMMA PayloadTaken ==
  ASSUME PayloadWell, Fills(cursor, src.at), ~current.done, ~Behindhand, current' = current,
         NEW n \in Nat, n <= Buffered(cursor), cursor' = Consumed(cursor, n),
         NEW more, Chain(more, cursor.bytesRead, cursor.bytesRead + n),
         data'.got = data.got \o more, data'.kind = data.kind, ~Delimited => n <= Remaining,
         current.header \in Headers
  PROVE  Chain(data.got \o more, Header.from, Header.from + Taken + n) /\ PayloadWell'
<1>1. /\ Chain(data.got, Header.from, Header.from + Taken) /\ cursor.bytesRead = Header.from + Taken
      /\ ~Delimited => Taken <= Header.compressedSize
  BY DEF PayloadWell
<1>2. Chain(data.got \o more, Header.from, Header.from + Taken + n)
  BY <1>1, ChainConcat
<1>3. Header.from \in Nat /\ Header.compressedSize \in Nat
  BY DEF Header, Headers
<1> DEFINE end == Header.from + Taken
<1>4. Chain(data.got, Header.from, end) /\ Chain(data.got \o more, Header.from, end + n)
  BY <1>1, <1>2
<1> HIDE DEF end
<1>5. Taken \in Nat /\ Taken = end - Header.from /\ end \in Nat
  BY <1>3, <1>4, TakenIs DEF Taken
<1>6. Taken' = Taken + n
  <2>1. Chain(data.got \o more, Header.from, end + n)
    BY <1>4
  <2>2. SumOf(PieceLength, data.got \o more) = (end + n) - Header.from
    BY <1>3, <2>1, TakenIs, Zenon
  <2>3. Taken' = SumOf(PieceLength, data.got \o more)
    BY DEF Taken
  <2>4. Taken' = (end + n) - Header.from
    BY <2>2, <2>3, Zenon
  <2>5. QED
    BY <1>3, <1>5, <2>4
<1>7. Header' = Header /\ Delimited' = Delimited
  BY DEF Header, Delimited
<1>8. Header.from + Taken + n = Header.from + (Taken + n)
  BY <1>3, <1>5
<1>9. cursor'.bytesRead = Header.from + (Taken + n)
  <2>1. cursor'.bytesRead = cursor.bytesRead + n
    BY ConsumedFills
  <2>2. QED
    BY <1>1, <1>8, <2>1
<1>10. ~Delimited => Taken + n <= Header.compressedSize
  <2>1. ~Delimited => n <= Header.compressedSize - Taken
    BY DEF Remaining, Header
  <2>2. QED
    BY <1>3, <1>5, <2>1
<1>11. Chain(data'.got, Header.from, Header.from + (Taken + n))
  BY <1>2, <1>8
<1>12. PayloadWell'
  BY <1>6, <1>7, <1>9, <1>10, <1>11 DEF PayloadWell
<1>13. QED
  BY <1>2, <1>12

(* An entry that is done with has nothing to be taken. *)
LEMMA NotDone ==
  ASSUME IInv, \/ data.at \in {"take", "pushed", "descriptor"} /\ (Delimited \/ Remaining > 0)
               \/ pump.at = "take" /\ Remaining # 0
  PROVE  ~current.done
<1>1. SUFFICES ASSUME current.done PROVE FALSE
  OBVIOUS
<1>2. ~Header.bit3 /\ Header.compressedSize = 0
  BY <1>1 DEF IInv, DoneWell
<1>3. data.at \in {"take", "pushed", "descriptor"} \/ pump.at = "take" => data.kind # "none"
  BY DEF IInv, DataWell, AtsOf
<1>4. ~Delimited
  BY <1>2, <1>3 DEF IInv, DataWell, Delimited
<1>5. Taken <= 0 /\ Chain(data.got, Header.from, Header.from + Taken)
  BY <1>2, <1>4 DEF IInv, PayloadWell
<1>6. Header.from \in Nat
  BY DEF IInv, Typed, Currents, Headers, Header
<1>7. Taken \in Nat
  <2> DEFINE end == Header.from + Taken
  <2>1. Chain(data.got, Header.from, end)
    BY <1>5
  <2> HIDE DEF end
  <2>2. QED
    BY <1>6, <2>1, TakenIs DEF Taken
<1>8. Taken = 0
  BY <1>5, <1>7
<1>9. Remaining = 0
  BY <1>2, <1>8 DEF Remaining, Header
<1>10. QED
  BY <1>4, <1>9

(* A read or a skip takes what comes next. *)
LEMMA DataTakes ==
  ASSUME IInv, UNCHANGED <<served, platform, aborted, src, current, pump>>,
         data.at = "take", ~current.done,
         NEW n \in Nat, n <= Buffered(cursor), cursor' = Consumed(cursor, n),
         NEW more, Chain(more, cursor.bytesRead, cursor.bytesRead + n), ~Delimited => n <= Remaining,
         NEW out \in Contents, NEW code \in Codes, NEW then \in {"take", "pushed"},
         then \in AtsOf(data.kind), Give(data.got \o more, out, code, then),
         code = "OK" => Accounted(out) = "OK" \/ data.kind = "skip",
         data.kind = "skip" => out = <<>>,
         data.kind \in {"store", "push"} => out = Produced(Units(data.got \o more))
  PROVE  IInv'
<1> DEFINE got == data.got \o more
<1>1. walk \in Walks /\ data \in Datas /\ walk.total <= Limits.maxTotalUncompressedSize
      /\ data.kind \in DataKinds /\ data.at \in AtsOf(data.kind)
  <2> HIDE DEF AtsOf, DataAts, DataKinds, Codes, Contents, Ranges
  <2>1. QED
    BY DEF IInv, Typed, WalkWell, DataWell, Datas
<1>2. got \in Seq(Ranges)
  <2>1. data.got \in Seq(Ranges) /\ more \in Seq(Ranges)
    <3> HIDE DEF AtsOf, DataAts, DataKinds, Codes, Contents, Ranges
    <3>1. QED
      BY <1>1 DEF Datas, Chain
  <2> HIDE DEF Ranges
  <2>2. QED
    BY <2>1, ConcatTyped
<1>3. then \in DataAts
  BY DEF DataAts
<1>4. code = "OK" => Accounted(out) = "OK" \/ (out = <<>> /\ data.out = <<>>)
  BY DEF IInv, DataWell
<1> HIDE DEF got
<1>5. /\ data' \in Datas /\ data'.kind = data.kind /\ data'.got = got /\ data'.code = code
      /\ data'.out = IF code = "OK" THEN out ELSE data.out
      /\ data'.at = IF code # "OK" THEN "ended"
                    ELSE IF out # data.out /\ data.kind # "skipDescriptor" THEN "yielded" ELSE then
      /\ walk' \in Walks /\ walk'.total <= Limits.maxTotalUncompressedSize
      /\ walk'.at = walk.at /\ walk'.lfh = walk.lfh
  <2>1. Give(got, out, code, then)
    BY DEF got
  <2>2. QED
    BY <1>1, <1>2, <1>3, <1>4, <2>1, GiveTyped
<1>6. Header' = Header /\ Delimited' = Delimited
  BY <1>5 DEF Header, Delimited
<1>7. Fills(cursor, src.at) /\ Fills(cursor', src.at)
  BY ConsumedFills DEF IInv, Typed, Filled
<1>8. Typed'
  BY <1>5, <1>7 DEF IInv, Typed, Constant, Sourced, Filled
<1>9. walk.at \in {"entry", "closing", "ended"}
  BY DEF IInv, DoneWell
<1>10. WalkWell'
  BY <1>5, <1>9 DEF WalkWell
<1>11. DoneWell'
  BY <1>5, <1>6, <1>9 DEF DoneWell
<1>12. DataWell'
  <2>1. data'.at \in {"ended", "yielded", then} /\ (data.kind = "skip" => data'.at # "yielded" /\ data'.out = <<>>)
        /\ (data'.at = "yielded" => data.kind # "skipDescriptor")
    <3>1. data.kind = "skip" => data.out = <<>>
      BY DEF IInv, DataWell
    <3>2. QED
      BY <1>5, <3>1
  <2>2. data'.at \in AtsOf(data.kind)
    <3>1. data.kind \in {"store", "push", "descriptor", "skip", "skipDescriptor"}
      BY <1>1 DEF AtsOf, DataKinds
    <3>2. QED
      BY <2>1, <3>1 DEF AtsOf
  <2>3. data'.at \in AtsOf(data'.kind)
    BY <1>5, <2>2
  <2> HIDE DEF AtsOf
  <2>4. data.kind # "none"
    BY <1>1 DEF AtsOf
  <2>5. QED
    BY <1>5, <1>6, <2>1, <2>3, <2>4 DEF IInv, DataWell
<1>13. OutWell'
  <2>1. data.kind \in {"store", "push"} /\ data'.at # "ended" => data'.out = Produced(Units(got))
    BY <1>5 DEF got
  <2>2. QED
    BY <1>5, <2>1 DEF OutWell, Produced, Units, Header
<1>14. EndWell'
  BY <1>5 DEF EndWell, Finished
<1>15. PayloadWell'
  <2>1. ~Behindhand
    BY DEF Behindhand
  <2>2. current.header \in Headers
    <3> HIDE DEF Headers
    <3>1. QED
      BY DEF IInv, Typed, Currents
  <2>3. data'.got = data.got \o more
    BY <1>5 DEF got
  <2>4. QED
    BY <1>5, <1>7, <2>1, <2>2, <2>3, PayloadTaken DEF IInv
<1>16. SourceWell'
  BY <1>5, <1>9 DEF IInv, SourceWell
<1>17. QED
  BY <1>8, <1>10, <1>11, <1>12, <1>13, <1>14, <1>15, <1>16 DEF IInv

(* What is no deflate stream is read past, and the entry never done with.  *)
LEMMA CorruptKeeps ==
  ASSUME IInv, UNCHANGED <<served, platform, aborted, src, walk, current, pump>>,
         data.at = "take", Delimited, NEW n \in Nat, n <= Buffered(cursor),
         cursor' = Consumed(cursor, n), Ended("ZIP_DEFLATE_CORRUPT")
  PROVE  IInv'
<1>1. /\ data' \in Datas /\ data'.kind = data.kind /\ data'.at = "ended" /\ data'.got = data.got
      /\ data'.out = data.out /\ data'.code = "ZIP_DEFLATE_CORRUPT"
  <2>1. "ended" \in DataAts /\ "ZIP_DEFLATE_CORRUPT" \in Codes
    BY DEF DataAts, Codes
  <2> HIDE DEF DataKinds, DataAts, Codes, Contents, Ranges
  <2>2. QED
    BY <2>1 DEF IInv, Typed, Datas, Ended
<1>2. Header' = Header /\ Delimited' = Delimited /\ Taken' = Taken
  BY <1>1 DEF Header, Delimited, Taken
<1>3. Fills(cursor', src.at)
  BY ConsumedFills DEF IInv, Typed, Filled
<1>4. Typed'
  BY <1>1, <1>3 DEF IInv, Typed, Constant, Sourced, Filled
<1>5. walk.at \in {"entry", "closing", "ended"}
  BY NotDone DEF IInv, DoneWell
<1>6. WalkWell' /\ DoneWell'
  BY <1>1, <1>2, <1>5, NotDone DEF IInv, WalkWell, DoneWell
<1>7. DataWell'
  <2>1. "ended" \in AtsOf(data.kind)
    BY DEF AtsOf, Delimited
  <2>2. data'.at \in AtsOf(data'.kind)
    BY <1>1, <2>1
  <2> HIDE DEF AtsOf
  <2>3. QED
    BY <1>1, <1>2, <2>2 DEF IInv, DataWell
<1>8. OutWell' /\ EndWell'
  BY <1>1 DEF OutWell, EndWell, Finished
<1>9. PayloadWell'
  BY <1>1, <1>2 DEF IInv, PayloadWell, Behindhand
<1>10. SourceWell'
  BY <1>5 DEF IInv, SourceWell
<1>11. QED
  BY <1>4, <1>6, <1>7, <1>8, <1>9, <1>10 DEF IInv

(* A payload of known length is taken piece by piece, not past its end. *)
LEMMA TakePieceKeeps == ASSUME IInv, TakePiece PROVE IInv'
<1> DEFINE n == HeadLength(cursor, Remaining)
<1> DEFINE more == FirstBytes(cursor.pending, n)
<1> DEFINE got == data.got \o more
<1>1. /\ UNCHANGED <<served, platform, aborted, src, current, pump>>
      /\ data.at = "take" /\ ~Delimited /\ Remaining > 0
  BY DEF TakePiece, Steady, caller
<1>2. CASE Buffered(cursor) = 0
  <2>1. Ended("ZIP_STREAM_TRUNCATED") /\ UNCHANGED <<cursor, walk>>
    BY <1>2 DEF TakePiece
  <2>2. "ZIP_STREAM_TRUNCATED" \in Codes \ {"OK"}
    BY DEF Codes
  <2>3. QED
    BY <1>1, <2>1, <2>2, DataFails
<1>3. CASE Buffered(cursor) # 0
  <2>1. cursor' = Consumed(cursor, n) /\ TakeTo(got)
    BY <1>3 DEF TakePiece, Taking1
  <2>2. Fills(cursor, src.at)
    BY DEF IInv, Typed, Filled
  <2>3. Remaining \in Nat \ {0}
    <3>1. /\ Chain(data.got, Header.from, Header.from + Taken)
          /\ Header.from \in Nat /\ Header.compressedSize \in Nat
      BY DEF IInv, PayloadWell, Typed, Currents, Headers, Header
    <3>2. Taken \in Nat
      BY <3>1, TakenIs, Zenon DEF Taken
    <3>3. QED
      BY <1>1, <3>1, <3>2 DEF Remaining, Header
  <2>4. n \in 1 .. Buffered(cursor) /\ n <= Remaining
    BY <1>3, <2>2, <2>3, HeadLengthIs
  <2>5. Buffered(cursor) \in Nat
    BY <2>2, BufferedIs
  <2> HIDE DEF n
  <2>6. n \in Nat /\ n <= Buffered(cursor)
    BY <2>4, <2>5
  <2>7. Chain(more, cursor.bytesRead, cursor.bytesRead + n)
    BY <2>2, <2>6, ConsumedFills
  <2>8. ~current.done
    BY <1>1, NotDone
  <2>9. data.kind \in {"store", "push", "skip"} /\ "take" \in AtsOf(data.kind)
    <3>1. data.kind \in DataKinds /\ data.at \in AtsOf(data.kind)
      BY DEF IInv, Typed, DataWell, Datas
    <3>2. QED
      BY <1>1, <3>1 DEF DataKinds, AtsOf, Delimited
  <2> HIDE DEF more, AtsOf
  <2>10. CASE data.kind = "skip"
    <3>1. Give(got, <<>>, "OK", "take")
      BY <2>1, <2>10 DEF TakeTo
    <3>2. <<>> \in Contents /\ "OK" \in Codes
      BY ContentSizeEmpty DEF Codes
    <3>3. QED
      BY <1>1, <2>1, <2>4, <2>6, <2>7, <2>8, <2>9, <2>10, <3>1, <3>2, DataTakes
  <2>11. CASE data.kind # "skip"
    <3> DEFINE out == Produced(Units(got))
    <3>1. Give(got, out, Accounted(out), "take")
      BY <2>1, <2>11 DEF TakeTo
    <3>2. out \in Contents
      <4>1. Chain(got, Header.from, Header.from + Taken + n)
        <5>1. cursor.bytesRead = Header.from + Taken /\ Chain(data.got, Header.from, Header.from + Taken)
          BY <1>1, <2>8 DEF IInv, PayloadWell, Behindhand
        <5>2. QED
          BY <2>7, <5>1, ChainConcat
      <4>2. Units(got) \in Seq(FileUnits)
        <5> HIDE DEF got
        <5>1. QED
          BY <4>1, UnitsTyped DEF IInv, Typed
      <4>3. QED
        BY <4>2, ProducedTyped
    <3>3. Accounted(out) \in Codes
      BY CodesTyped
    <3>4. data.kind \in {"store", "push"} => out = Produced(Units(data.got \o more))
      OBVIOUS
    <3> HIDE DEF out
    <3>5. QED
      BY <1>1, <2>1, <2>4, <2>6, <2>7, <2>8, <2>9, <2>11, <3>1, <3>2, <3>3, <3>4, DataTakes
  <2>12. QED
    BY <2>10, <2>11
<1>4. QED
  BY <1>2, <1>3

(* One of unknown length is taken a chunk at a time. *)
LEMMA OnChunkKeeps == ASSUME IInv, OnChunk PROVE IInv'
<1> DEFINE piece == Head(cursor.pending)
<1> DEFINE n == PieceLength(piece)
<1> DEFINE got == data.got \o <<piece>>
<1>1. /\ UNCHANGED <<served, platform, aborted, src, current, pump>>
      /\ data.at = "take" /\ Delimited
  BY DEF OnChunk, Steady, caller
<1>2. CASE Buffered(cursor) = 0
  <2>1. Ended("ZIP_STREAM_TRUNCATED") /\ UNCHANGED <<cursor, walk>>
    BY <1>2 DEF OnChunk
  <2>2. "ZIP_STREAM_TRUNCATED" \in Codes \ {"OK"}
    BY DEF Codes
  <2>3. QED
    BY <1>1, <2>1, <2>2, DataFails
<1>3. CASE Buffered(cursor) # 0
  <2>1. Fills(cursor, src.at)
    BY DEF IInv, Typed, Filled
  <2>2. /\ piece \in Ranges /\ piece.from = cursor.bytesRead /\ piece.to = cursor.bytesRead + n
        /\ n \in 1 .. Buffered(cursor)
    BY <1>3, <2>1, HeadIs
  <2>3. Buffered(cursor) \in Nat /\ cursor.bytesRead \in Nat
    BY <2>1, BufferedIs
  <2>4. data.got \in Seq(Ranges)
    BY DEF IInv, PayloadWell, Chain
  <2>5. Append(data.got, piece) = got
    <3> HIDE DEF piece, Ranges
    <3>1. QED
      BY <2>2, <2>4
  <2>6. /\ cursor' = Consumed(cursor, n)
        /\ IF Corrupt(piece) THEN Ended("ZIP_DEFLATE_CORRUPT") /\ UNCHANGED walk
           ELSE PushTo(got, DecodedSoFar([method |-> METHOD_DEFLATE], Units(got)))
    <3>1. nextChunk(cursor).c = Consumed(cursor, n) /\ nextChunk(cursor).piece = piece
      BY DEF nextChunk
    <3> HIDE DEF piece, n, got
    <3>2. QED
      BY <1>3, <2>5, <3>1 DEF OnChunk
  <2>7. ~current.done
    BY <1>1, NotDone
  <2>8. Chain(<<piece>>, cursor.bytesRead, cursor.bytesRead + n)
    BY <2>2, ChainOne
  <2> HIDE DEF n, piece
  <2>9. n \in Nat /\ n <= Buffered(cursor)
    BY <2>2, <2>3
  <2>10. CASE Corrupt(piece)
    BY <1>1, <2>1, <2>6, <2>9, <2>10, CorruptKeeps
  <2>11. CASE ~Corrupt(piece)
    <3> DEFINE out == DecodedSoFar([method |-> METHOD_DEFLATE], Units(got))
    <3>1. Give(got, out, Accounted(out), "pushed")
      BY <2>6, <2>11 DEF PushTo
    <3>2. out \in Contents
      <4>1. Chain(got, Header.from, Header.from + Taken + n)
        <5>1. cursor.bytesRead = Header.from + Taken /\ Chain(data.got, Header.from, Header.from + Taken)
          BY <1>1, <2>7 DEF IInv, PayloadWell, Behindhand
        <5>2. QED
          BY <2>8, <5>1, ChainConcat
      <4>2. Units(got) \in Seq(FileUnits)
        <5> HIDE DEF got
        <5>1. QED
          BY <4>1, UnitsTyped DEF IInv, Typed
      <4>3. QED
        BY <4>2, DecodedTyped
    <3>3. Accounted(out) \in Codes
      BY CodesTyped
    <3>4. "pushed" \in AtsOf(data.kind) /\ data.kind \notin {"store", "push", "skip"}
      BY <1>1 DEF AtsOf, Delimited
    <3> HIDE DEF out, AtsOf
    <3>5. QED
      BY <1>1, <2>6, <2>7, <2>8, <2>9, <3>1, <3>2, <3>3, <3>4, DataTakes
  <2>12. QED
    BY <2>10, <2>11
<1>4. QED
  BY <1>2, <1>3

(* The pump takes the payload for the decoder, even when nobody reads it. *)
LEMMA PumpTakesKeeps == ASSUME IInv, PumpTakes PROVE IInv'
<1> DEFINE n == HeadLength(cursor, Remaining)
<1> DEFINE more == FirstBytes(cursor.pending, n)
<1> DEFINE got == data.got \o more
<1>1. UNCHANGED <<served, platform, aborted, src, walk, current>> /\ pump.at = "take"
  BY DEF PumpTakes, Steady, caller
<1>2. data.kind = "platform" /\ ~Delimited /\ pump \in Pumps
  BY <1>1 DEF IInv, Typed, DataWell, Delimited
<1>3. CASE Remaining = 0 \/ Buffered(cursor) = 0
  <2>1. /\ UNCHANGED <<cursor, data>>
        /\ \/ pump' = [pump EXCEPT !.at = "close"]
           \/ pump' = [pump EXCEPT !.at = "abort", !.error = "ZIP_STREAM_TRUNCATED"]
    BY <1>3 DEF PumpTakes
  <2>2. pump' \in Pumps
    BY <1>2, <2>1 DEF Pumps, PumpAts, Codes
  <2>3. QED
    BY <1>1, <2>1, <2>2, PumpMoves
<1>4. CASE Remaining # 0 /\ Buffered(cursor) # 0
  <2>1. cursor' = Consumed(cursor, n) /\ data' = [data EXCEPT !.got = got] /\ pump' = Fed(got)
    BY <1>4 DEF PumpTakes
  <2>2. Fills(cursor, src.at)
    BY DEF IInv, Typed, Filled
  <2>3. Remaining \in Nat \ {0}
    <3>1. /\ Chain(data.got, Header.from, Header.from + Taken) /\ Taken <= Header.compressedSize
          /\ Header.from \in Nat /\ Header.compressedSize \in Nat
      BY <1>2 DEF IInv, PayloadWell, Typed, Currents, Headers, Header
    <3>2. Taken \in Nat
      BY <3>1, TakenIs, Zenon DEF Taken
    <3>3. QED
      BY <1>4, <3>1, <3>2 DEF Remaining, Header
  <2>4. n \in 1 .. Buffered(cursor) /\ n <= Remaining
    BY <1>4, <2>2, <2>3, HeadLengthIs
  <2>5. Buffered(cursor) \in Nat
    BY <2>2, BufferedIs
  <2> HIDE DEF n
  <2>6. n \in Nat /\ n <= Buffered(cursor)
    BY <2>4, <2>5
  <2>7. Chain(more, cursor.bytesRead, cursor.bytesRead + n) /\ Fills(cursor', src.at)
    BY <2>1, <2>2, <2>6, ConsumedFills
  <2>8. ~current.done
    BY <1>1, <1>4, NotDone
  <2> HIDE DEF more
  <2>9. Chain(got, Header.from, Header.from + Taken + n) /\ PayloadWell'
    <3>1. ~Behindhand /\ PayloadWell
      BY <1>2 DEF IInv, Behindhand
    <3>2. current.header \in Headers
      <4> HIDE DEF Headers
      <4>1. QED
        BY DEF IInv, Typed, Currents
    <3>3. data'.got = data.got \o more /\ data'.kind = data.kind
      <4>1. data \in Datas
        BY DEF IInv, Typed
      <4> HIDE DEF got, DataKinds, DataAts, Codes, Contents, Ranges
      <4>2. data'.got = got /\ data'.kind = data.kind
        BY <2>1, <4>1 DEF Datas
      <4>3. QED
        BY <4>2 DEF got
    <3>4. current' = current /\ (~Delimited => n <= Remaining)
      BY <1>1, <2>4
    <3>5. QED
      BY <2>1, <2>2, <2>6, <2>7, <2>8, <3>1, <3>2, <3>3, <3>4, PayloadTaken
  <2> HIDE DEF got
  <2>10. /\ data' \in Datas /\ data'.kind = data.kind /\ data'.at = data.at /\ data'.out = data.out
         /\ data'.code = data.code /\ data'.got = got
    <3>1. got \in Seq(Ranges)
      BY <2>9 DEF Chain
    <3>2. data \in Datas
      BY DEF IInv, Typed
    <3> HIDE DEF DataKinds, DataAts, Codes, Contents, Ranges
    <3>3. QED
      BY <2>1, <3>1, <3>2 DEF Datas
  <2>11. pump' \in Pumps /\ pump'.at = "write"
    <3> DEFINE fed == SumOf(PieceLength, got)
    <3>1. fed \in Nat
      <4>1. Header.from \in Nat
        BY DEF IInv, Typed, Currents, Headers, Header
      <4>2. QED
        BY <2>9, <4>1, TakenIs, Zenon
    <3>2. pump' = [pump EXCEPT !.at = "write", !.written = fed]
      BY <2>1 DEF Fed
    <3> HIDE DEF fed, Codes
    <3>3. QED
      BY <1>2, <3>1, <3>2 DEF Pumps, PumpAts
  <2>12. Header' = Header /\ Delimited' = Delimited
    BY <1>1, <2>10 DEF Header, Delimited
  <2>13. Typed'
    BY <1>1, <2>7, <2>10, <2>11 DEF IInv, Typed, Constant, Sourced, Filled
  <2>14. walk.at \in {"entry", "closing", "ended"}
    BY <2>8 DEF IInv, DoneWell
  <2>15. WalkWell' /\ DoneWell'
    BY <1>1, <2>8, <2>14 DEF IInv, WalkWell, DoneWell
  <2>16. DataWell'
    <3>1. data'.at \in AtsOf(data'.kind)
      BY <2>10 DEF IInv, DataWell
    <3> HIDE DEF AtsOf
    <3>2. QED
      BY <1>1, <1>2, <2>10, <2>12, <3>1 DEF IInv, DataWell
  <2>17. OutWell'
    BY <1>2, <2>10 DEF OutWell
  <2>18. EndWell'
    BY <1>1, <2>10, <2>12 DEF IInv, EndWell, Finished, Vouches
  <2>19. SourceWell'
    BY <1>1, <2>14 DEF IInv, SourceWell
  <2>20. QED
    BY <2>9, <2>13, <2>15, <2>16, <2>17, <2>18, <2>19 DEF IInv
<1>5. QED
  BY <1>3, <1>4

(* What the decoder put out is handed out, or refused. *)
LEMMA OnReadKeeps == ASSUME IInv, OnRead PROVE IInv'
<1>1. UNCHANGED <<served, platform, aborted, src, cursor, current>> /\ data.at = "read"
  BY DEF OnRead, Steady, caller
<1>2. /\ data \in Datas /\ walk \in Walks /\ pump \in Pumps /\ data.code \in Codes /\ data.got \in Seq(Ranges)
      /\ data.kind \in DataKinds /\ data.at \in AtsOf(data.kind)
  <2> HIDE DEF DataKinds, DataAts, AtsOf, Codes, Contents, Ranges
  <2>1. QED
    BY DEF IInv, Typed, DataWell, Datas
<1>3. data.kind = "platform" /\ ~Delimited /\ ~Behindhand
  BY <1>1, <1>2 DEF DataKinds, AtsOf, Delimited, Behindhand
<1>4. "join" \in DataAts /\ "join" \in AtsOf(data.kind)
  BY <1>3 DEF DataAts, AtsOf
<1>5. ASSUME NEW code \in Codes, data' = [data EXCEPT !.at = "join", !.code = code], walk' = walk,
             pump' \in Pumps, pump'.at = pump.at
      PROVE  IInv'
  BY <1>1, <1>3, <1>4, <1>5, DataMoves
<1>6. CASE data' = [data EXCEPT !.at = "join"] /\ UNCHANGED <<walk, pump>>
  <2>1. data' = [data EXCEPT !.at = "join", !.code = data.code]
    <3> HIDE DEF DataKinds, DataAts, Codes, Contents, Ranges
    <3>1. QED
      BY <1>2, <1>6 DEF Datas
  <2>2. QED
    BY <1>2, <1>5, <1>6, <2>1
<1>7. CASE ReadGives(Inflatable, Accounted(Inflatable))
  <2> DEFINE out == Inflatable
  <2>1. out \in Contents
    <3>1. Units(data.got) \in Seq(FileUnits)
      <4>1. Chain(data.got, Header.from, Header.from + Taken)
        BY DEF IInv, PayloadWell
      <4>2. QED
        BY <4>1, UnitsTyped DEF IInv, Typed
    <3>2. QED
      BY <3>1, DecodedTyped DEF Inflatable
  <2> HIDE DEF out
  <2>2. CASE Accounted(out) = "OK"
    <3>1. Give(data.got, out, "OK", "read") /\ UNCHANGED pump
      BY <1>7, <2>2 DEF ReadGives, out
    <3>2. "OK" \in Codes /\ "read" \in DataAts
      BY DEF Codes, DataAts
    <3>3. walk.total <= Limits.maxTotalUncompressedSize
      BY DEF IInv, WalkWell
    <3>4. /\ data' \in Datas /\ data'.kind = data.kind /\ data'.got = data.got /\ data'.code = "OK"
          /\ data'.at \in {"yielded", "read"}
          /\ walk' \in Walks /\ walk'.total <= Limits.maxTotalUncompressedSize
          /\ walk'.at = walk.at /\ walk'.lfh = walk.lfh
      BY <1>2, <2>1, <2>2, <3>1, <3>2, <3>3, GiveTyped
    <3>5. Header' = Header /\ Delimited' = Delimited /\ ~Behindhand'
      BY <1>1, <1>3, <3>4 DEF Header, Delimited, Behindhand
    <3>6. Typed'
      BY <1>1, <3>1, <3>4 DEF IInv, Typed, Constant, Sourced, Filled
    <3>7. WalkWell' /\ DoneWell'
      BY <1>1, <3>1, <3>4, <3>5 DEF IInv, WalkWell, DoneWell
    <3>8. DataWell'
      <4>1. data'.at \in AtsOf(data'.kind)
        BY <1>3, <3>4 DEF AtsOf
      <4> HIDE DEF AtsOf
      <4>2. QED
        BY <1>1, <1>3, <3>1, <3>4, <3>5, <4>1 DEF IInv, DataWell
    <3>9. OutWell' /\ EndWell'
      BY <1>3, <3>4 DEF OutWell, EndWell, Finished
    <3>10. PayloadWell'
      BY <1>1, <1>3, <3>4, PayloadStays DEF IInv
    <3>11. SourceWell'
      BY <1>1, <3>1, <3>4 DEF IInv, SourceWell
    <3>12. QED
      BY <3>6, <3>7, <3>8, <3>9, <3>10, <3>11 DEF IInv
  <2>3. CASE Accounted(out) # "OK"
    <3> DEFINE code == Accounted(out)
    <3>1. /\ pump' = [pump EXCEPT !.cancelled = TRUE]
          /\ data' = [data EXCEPT !.at = "join", !.code = code] /\ UNCHANGED walk
      BY <1>7, <2>3 DEF ReadGives, out
    <3>2. code \in Codes
      BY CodesTyped
    <3> HIDE DEF code
    <3>3. pump' \in Pumps /\ pump'.at = pump.at
      <4> HIDE DEF Codes
      <4>1. QED
        BY <1>2, <3>1 DEF Pumps
    <3>4. QED
      BY <1>5, <3>1, <3>2, <3>3
  <2>4. QED
    BY <2>2, <2>3
<1>8. QED
  BY <1>6, <1>7 DEF OnRead

-----------------------------------------------------------------------------
(* The end of a deflate stream, and its descriptor.                        *)

(* A descriptor that is seen in the buffer is one of the stream's units. *)
LEMMA HeadMatched ==
  ASSUME Constant, Filled, NEW crc, NEW sizes, matchDataDescriptor(Head24, crc, sizes) # 0
  PROVE  /\ matchDataDescriptor(Head24, crc, sizes) \in Nat
         /\ matchDataDescriptor(Head24, crc, sizes) <= Buffered(cursor)
         /\ \E u \in ToSet(served) : u.kind \in {"descriptor", "bare"} /\ u.crc = crc
<1> DEFINE n == IF Buffered(cursor) < 24 THEN Buffered(cursor) ELSE 24
<1> DEFINE window == Slice(served, Following(n).from, Following(n).to)
<1>1. served \in Seq(FileUnits) /\ Buffered(cursor) \in Nat
  BY ServedTyped, BufferedIs DEF Filled
<1>2. n \in Nat /\ n <= Buffered(cursor)
  BY <1>1
<1>3. Head24 = Words(window, n)
  BY DEF Head24
<1> HIDE DEF n
<1>4. Following(n).from \in Int /\ Following(n).to \in Int
  BY <1>2, FollowingIs
<1>5. window \in Seq(FileUnits) /\ window \in Seq(CutUnits(served))
  BY <1>1, <1>4, SliceTyped, SliceIsCut
<1> HIDE DEF window
<1>6. /\ matchDataDescriptor(Head24, crc, sizes) \in 1 .. n
      /\ \E u \in ToSet(window) : u.kind \in {"descriptor", "bare"} /\ u.crc = crc
  <2>1. matchDataDescriptor(Words(window, n), crc, sizes) # 0
    BY <1>3
  <2>2. QED
    BY <1>2, <1>3, <1>5, <2>1, MatchedDescriptor
<1>7. PICK u \in ToSet(window) : u.kind \in {"descriptor", "bare"} /\ u.crc = crc
  BY <1>6
<1>8. u \in CutUnits(served)
  <2> HIDE DEF CutUnits
  <2>1. QED
    BY <1>5 DEF ToSet
<1>9. u \in ToSet(served)
  <2>1. u \in LocalHeaders => u.kind = "lfh"
    BY DEF LocalHeaders
  <2>2. u \in [kind : {"junk"}, len : Nat] => u.kind = "junk"
    OBVIOUS
  <2> HIDE DEF LocalHeaders
  <2>3. QED
    BY <1>7, <1>8, <2>1, <2>2 DEF CutUnits
<1>10. QED
  BY <1>1, <1>2, <1>6, <1>7, <1>9

(* What the stream turns out not to have been part of goes back.           *)
LEMMA OnPushedKeeps == ASSUME IInv, OnPushed PROVE IInv'
<1> DEFINE end == EndOfStream(Header.from)
<1>1. UNCHANGED <<served, platform, aborted, src, walk, current, pump>> /\ data.at = "pushed"
  BY DEF OnPushed, Steady, caller
<1>2. /\ data \in Datas /\ pump \in Pumps /\ data.code \in Codes /\ data.kind \in DataKinds
      /\ data.at \in AtsOf(data.kind)
  <2> HIDE DEF DataKinds, DataAts, AtsOf, Codes, Contents, Ranges
  <2>1. QED
    BY DEF IInv, Typed, DataWell, Datas
<1>3. Delimited /\ pump.at = "none" /\ ~Behindhand
  <2>1. data.kind \in {"descriptor", "skipDescriptor"}
    BY <1>1, <1>2 DEF DataKinds, AtsOf
  <2>2. QED
    BY <1>1, <2>1 DEF IInv, DataWell, Delimited, Behindhand
<1>4. {"take", "descriptor", "ended"} \subseteq AtsOf(data.kind) \cap DataAts
  BY <1>3 DEF AtsOf, DataAts, Delimited
<1>5. {"OK", "ZIP_LIMIT_EXCEEDED"} \subseteq Codes
  BY DEF Codes
<1>6. end \in Nat
  BY EndOfStreamNat DEF IInv, Typed
<1> HIDE DEF end
<1>7. CASE ~RatioHolds(Taken)
  <2>1. Ended("ZIP_LIMIT_EXCEEDED") /\ UNCHANGED cursor
    BY <1>7 DEF OnPushed
  <2>2. QED
    BY <1>1, <1>5, <2>1, DataFails
<1>8. CASE RatioHolds(Taken) /\ Got.to < end
  <2>1. data' = [data EXCEPT !.at = "take"] /\ UNCHANGED cursor
    BY <1>8 DEF OnPushed, end
  <2>2. data' = [data EXCEPT !.at = "take", !.code = data.code]
    <3> HIDE DEF DataKinds, DataAts, Codes, Contents, Ranges
    <3>1. QED
      BY <1>2, <2>1 DEF Datas
  <2>3. QED
    BY <1>1, <1>2, <1>3, <1>4, <2>1, <2>2, DataMoves
<1>9. CASE RatioHolds(Taken) /\ ~(Got.to < end)
  <2> DEFINE at == IF RatioHolds(end - Header.from) THEN "descriptor" ELSE "ended"
  <2> DEFINE code == IF RatioHolds(end - Header.from) THEN "OK" ELSE "ZIP_LIMIT_EXCEEDED"
  <2>1. cursor' = unread(cursor, Piece(end, Got.to)) /\ data' = [data EXCEPT !.at = at, !.code = code]
    BY <1>9 DEF OnPushed, end
  <2>2. at \in {"descriptor", "ended"} /\ (at = "ended" => code = "ZIP_LIMIT_EXCEEDED")
        /\ code \in {"OK", "ZIP_LIMIT_EXCEEDED"}
    OBVIOUS
  <2> HIDE DEF at, code
  <2>3. /\ data' \in Datas /\ data'.kind = data.kind /\ data'.at = at /\ data'.got = data.got
        /\ data'.out = data.out /\ data'.code = code
    <3>1. at \in DataAts /\ code \in Codes
      BY <1>4, <1>5, <2>2
    <3> HIDE DEF DataKinds, DataAts, Codes, Contents, Ranges
    <3>2. QED
      BY <1>2, <2>1, <3>1 DEF Datas
  <2>4. Fills(cursor', src.at)
    <3>1. Fills(cursor, src.at) /\ cursor.bytesRead \in Nat
      BY BufferedIs DEF IInv, Typed, Filled
    <3>2. CASE data.got = <<>>
      <4>1. Got.to = 0
        BY <3>2 DEF Got, OneRange, Piece
      <4>2. end = 0
        BY <1>6, <1>9, <4>1
      <4>3. PieceLength(Piece(end, Got.to)) = 0
        BY <4>1, <4>2 DEF PieceLength, Piece
      <4>4. cursor' = cursor
        BY <2>1, <4>3 DEF unread
      <4>5. QED
        BY <3>1, <4>4
    <3>3. CASE data.got # <<>>
      <4>1. Chain(data.got, Header.from, Header.from + Taken) /\ cursor.bytesRead = Header.from + Taken
        BY <1>1, <1>3, NotDone DEF IInv, PayloadWell
      <4>2. Got = Piece(Header.from, cursor.bytesRead)
        BY <3>3, <4>1, ChainRange DEF Got
      <4>3. Got.to = cursor.bytesRead
        BY <4>2 DEF Piece
      <4>4. end <= cursor.bytesRead
        BY <1>6, <1>9, <3>1, <4>3
      <4>5. QED
        BY <1>6, <2>1, <3>1, <4>3, <4>4, UnreadFills
    <3>4. QED
      BY <3>2, <3>3
  <2>5. Header' = Header /\ Delimited' = Delimited /\ Taken' = Taken
    BY <1>1, <2>3 DEF Header, Delimited, Taken
  <2>6. Typed'
    BY <1>1, <2>3, <2>4 DEF IInv, Typed, Constant, Sourced, Filled
  <2>7. ~current.done
    BY <1>1, <1>3, NotDone
  <2>8. walk.at \in {"entry", "closing", "ended"}
    BY <2>7 DEF IInv, DoneWell
  <2>9. WalkWell' /\ DoneWell'
    BY <1>1, <2>3, <2>5, <2>7, <2>8 DEF IInv, WalkWell, DoneWell
  <2>10. DataWell'
    <3>1. data'.at \in AtsOf(data'.kind)
      BY <1>4, <2>2, <2>3
    <3> HIDE DEF AtsOf
    <3>2. QED
      BY <1>1, <1>3, <2>3, <2>5, <3>1 DEF IInv, DataWell
  <2>11. OutWell' /\ EndWell'
    <3>1. data.kind \notin {"store", "push"}
      BY <1>3 DEF Delimited
    <3>2. QED
      BY <2>2, <2>3, <3>1 DEF OutWell, EndWell, Finished
  <2>12. PayloadWell'
    <3>1. Behindhand'
      BY <1>3, <2>2, <2>3, <2>5 DEF Behindhand
    <3>2. QED
      BY <1>3, <2>3, <2>5, <3>1 DEF IInv, PayloadWell
  <2>13. SourceWell'
    BY <1>1, <2>3, <2>8 DEF IInv, SourceWell
  <2>14. QED
    BY <2>6, <2>9, <2>10, <2>11, <2>12, <2>13 DEF IInv
<1>10. QED
  BY <1>7, <1>8, <1>9

(* A descriptor that matches is taken, and the entry is done with. *)
LEMMA OnDescriptorKeeps == ASSUME IInv, OnDescriptor PROVE IInv'
<1> DEFINE width == matchDataDescriptor(Head24, data.out, Measured)
<1>1. UNCHANGED <<served, platform, aborted, src, walk, pump>> /\ data.at = "descriptor"
  BY DEF OnDescriptor, Steady, caller
<1>2. /\ data \in Datas /\ data.kind \in DataKinds /\ data.at \in AtsOf(data.kind)
      /\ Constant /\ Filled /\ Fills(cursor, src.at)
  <2> HIDE DEF DataKinds, DataAts, AtsOf, Codes, Contents, Ranges
  <2>1. QED
    BY DEF IInv, Typed, DataWell, Datas, Filled
<1>3. data.kind \in {"descriptor", "skipDescriptor"}
  BY <1>1, <1>2 DEF DataKinds, AtsOf
<1>4. Delimited /\ pump.at = "none" /\ current.consumed /\ Header.bit3
  BY <1>3 DEF IInv, DataWell, Delimited
<1>5. CASE width = 0
  <2>1. Completed("ZIP_DESCRIPTOR_MISMATCH") /\ UNCHANGED cursor
    BY <1>5 DEF OnDescriptor
  <2>2. "ZIP_DESCRIPTOR_MISMATCH" \in Codes
    BY DEF Codes
  <2>3. QED
    BY <1>1, <1>4, <2>1, <2>2, DataCompletes
<1>6. CASE width # 0
  <2>1. /\ cursor' = Consumed(cursor, width) /\ data' = [data EXCEPT !.at = "ended", !.width = width]
        /\ current' = [current EXCEPT !.done = TRUE]
    BY <1>6 DEF OnDescriptor
  <2>2. width \in Nat /\ width <= Buffered(cursor) /\ \E u \in ToSet(served) : Vouches(u)
    BY <1>2, <1>6, HeadMatched DEF Vouches
  <2> HIDE DEF width
  <2>3. /\ data' \in Datas /\ data'.kind = data.kind /\ data'.at = "ended" /\ data'.got = data.got
        /\ data'.out = data.out
    <3>1. "ended" \in DataAts
      BY DEF DataAts
    <3> HIDE DEF DataKinds, DataAts, Codes, Contents, Ranges
    <3>2. QED
      BY <1>2, <2>1, <2>2, <3>1 DEF Datas
  <2>4. /\ current' \in Currents /\ current'.header = current.header
        /\ current'.consumed = current.consumed /\ current'.done
    <3> HIDE DEF Headers
    <3>1. QED
      BY <2>1 DEF IInv, Typed, Currents
  <2>5. Fills(cursor', src.at)
    BY <1>2, <2>1, <2>2, ConsumedFills
  <2>6. Header' = Header /\ Delimited' = Delimited /\ Taken' = Taken
    BY <2>3, <2>4 DEF Header, Delimited, Taken
  <2>7. Typed'
    BY <1>1, <2>3, <2>4, <2>5 DEF IInv, Typed, Constant, Sourced, Filled
  <2>8. walk.at \in {"entry", "closing", "ended"}
    BY <1>1, <1>4, NotDone DEF IInv, DoneWell
  <2>9. WalkWell' /\ DoneWell'
    BY <1>1, <1>4, <2>3, <2>4, <2>6, <2>8 DEF IInv, WalkWell, DoneWell
  <2>10. DataWell'
    <3>1. data'.at \in AtsOf(data'.kind)
      BY <1>3, <2>3 DEF AtsOf
    <3> HIDE DEF AtsOf
    <3>2. QED
      BY <1>1, <1>3, <1>4, <2>3, <2>4, <2>6, <3>1 DEF DataWell
  <2>11. OutWell'
    BY <1>3, <2>3 DEF OutWell
  <2>12. EndWell'
    BY <1>1, <1>4, <2>2, <2>3, <2>6 DEF EndWell, Vouches
  <2>13. PayloadWell'
    BY <1>4, <2>3, <2>4, <2>6 DEF IInv, PayloadWell
  <2>14. SourceWell'
    BY <1>1, <2>8 DEF IInv, SourceWell
  <2>15. QED
    BY <2>7, <2>9, <2>10, <2>11, <2>12, <2>13, <2>14 DEF IInv
<1>7. QED
  BY <1>5, <1>6

-----------------------------------------------------------------------------
(* The theorems.                                                           *)

(* The invariant holds before anything is read. *)
LEMMA InitInvariant == Init => IInv
<1> SUFFICES ASSUME Init PROVE IInv
  OBVIOUS
<1>1. /\ Constant /\ src = [state |-> "open", at |-> 0, next |-> FALSE] /\ aborted = FALSE
      /\ cursor = NewCursor /\ data = NoData /\ pump = NoPump
      /\ walk = [at |-> "fresh", code |-> "OK", found |-> <<>>, total |-> 0, lfh |-> NoHeader]
      /\ current = [header |-> NoHeader, done |-> TRUE, consumed |-> TRUE]
  BY DEF Init, Constant
<1>2. NoHeader \in Headers /\ NoHeader.compressedSize = 0 /\ NoHeader.from = 0 /\ NoHeader.bit3 = FALSE
  BY DEF NoHeader, Headers, METHOD_STORE, Contents
<1>3. Sourced
  <2>1. Length(served) \in Nat
    BY <1>1, ServedTyped, LengthNat
  <2>2. src \in Sources
    BY <1>1 DEF Sources
  <2>3. src.at = 0 /\ aborted \in BOOLEAN
    BY <1>1
  <2>4. QED
    BY <2>1, <2>2, <2>3 DEF Sourced
<1>4. Filled
  <2>1. Chain(<<>>, 0, 0) /\ <<>> \in Seq(Ranges)
    BY ChainNone, EmptyTyped
  <2>2. QED
    BY <1>1, <2>1 DEF Filled, Fills, Cursors, NewCursor
<1>5. walk \in Walks
  <2>1. <<>> \in Seq(Headers)
    BY EmptyTyped
  <2> HIDE DEF Headers, LocalHeaders, NoHeader
  <2>2. QED
    BY <1>1, <2>1 DEF Walks, WalkAts, Codes
<1>6. current \in Currents
  <2> HIDE DEF Headers, NoHeader
  <2>1. QED
    BY <1>1, <1>2 DEF Currents
<1>7. data \in Datas /\ data.kind = "none" /\ data.at = "none" /\ data.got = <<>>
  BY <1>1 DEF NoData, Datas, DataKinds, DataAts, Codes, Contents
<1>8. pump \in Pumps /\ pump.at = "none"
  BY <1>1 DEF NoPump, Pumps, PumpAts, Codes
<1>9. Typed
  BY <1>1, <1>3, <1>4, <1>5, <1>6, <1>7, <1>8 DEF Typed
<1>10. WalkWell
  <2>1. Limits.maxTotalUncompressedSize \in Nat
    BY LimitsAssumption
  <2>2. walk.at = "fresh" /\ walk.total = 0
    BY <1>1
  <2>3. QED
    BY <2>1, <2>2 DEF WalkWell
<1>11. current.header = NoHeader /\ current.done
  BY <1>1
<1>12. DataWell /\ OutWell /\ EndWell
  BY <1>7, <1>8 DEF DataWell, AtsOf, OutWell, EndWell, Finished
<1>13. DoneWell
  BY <1>2, <1>11 DEF DoneWell, Header
<1>14. PayloadWell
  <2>1. Chain(<<>>, 0, 0)
    BY ChainNone
  <2>2. SumOf(PieceLength, <<>>) = 0
    BY <2>1, ChainSum
  <2>3. Taken = 0
    BY <1>7, <2>2 DEF Taken
  <2>4. Header.from + Taken = 0 /\ Header.from = 0 /\ Header.compressedSize = 0
    BY <1>2, <1>11, <2>3 DEF Header
  <2>5. QED
    BY <1>7, <1>11, <2>1, <2>3, <2>4 DEF PayloadWell
<1>15. SourceWell
  BY <1>1, <1>7, <1>8 DEF SourceWell
<1>16. QED
  BY <1>9, <1>10, <1>12, <1>13, <1>14, <1>15 DEF IInv

(* Every step keeps it. *)
LEMMA StepKeeps == ASSUME IInv, [Step]_vars PROVE IInv'
<1>1. CASE UNCHANGED vars
  <2>1. UNCHANGED <<served, platform, aborted, src, cursor, walk, current, data, pump>>
    BY <1>1 DEF vars
  <2>2. Typed'
    BY <2>1 DEF IInv, Typed, Constant, Sourced, Filled
  <2>3. WalkWell' /\ DoneWell' /\ DataWell' /\ OutWell' /\ EndWell' /\ PayloadWell'
    BY <2>1, DataKept, PayloadKept, WalkKept DEF IInv
  <2>4. SourceWell'
    BY <2>1 DEF IInv, SourceWell
  <2>5. QED
    BY <2>2, <2>3, <2>4 DEF IInv
<1>2. CASE Calls
  BY <1>2, NextKeeps, LeaveKeeps, DataKeeps, SkipKeeps, PullKeeps, ReturnDataKeeps, AbortKeeps DEF Calls
<1>3. CASE Walking
  BY <1>3, OnPeekKeeps, OnFixedKeeps, OnTailKeeps, CloseSourceKeeps DEF Walking
<1>4. CASE Reading
  BY <1>4, TakePieceKeeps, EndOfPayloadKeeps, OnChunkKeeps, OnPushedKeeps, OnDescriptorKeeps,
     PumpTakesKeeps, PumpWritesKeeps, PumpClosesKeeps, PumpAbortsKeeps, OnReadKeeps, JoinKeeps
     DEF Reading
<1>5. CASE Ask \/ SourceDelivers \/ SourceEnds \/ SourceFails
  BY <1>5, AskKeeps, SourceDeliversKeeps, SourceEndsKeeps, SourceFailsKeeps
<1>6. QED
  BY <1>1, <1>2, <1>3, <1>4, <1>5 DEF Step, Running

(* In every behaviour: the types, what the cursor holds, who may take      *)
(* bytes, what was taken and what was handed out of it.                    *)
THEOREM ForwardInvariant == Spec => []IInv
<1>1. IInv /\ [Step]_vars => IInv'
  BY StepKeeps
<1>2. QED
  BY InitInvariant, <1>1, PTL DEF Spec

(* What the cursor holds is the bytes of the stream that come next, in     *)
(* their order, up to what was delivered, and all entries together never   *)
(* produce more than the limit, whatever the stream carries (TypeOK).      *)
THEOREM ForwardTyped == Spec => []TypeOK
<1>1. IInv => TypeOK
  <2> SUFFICES ASSUME IInv PROVE TypeOK
    OBVIOUS
  <2>1. aborted \in BOOLEAN /\ src \in Sources /\ src.at <= Length(served) /\ current \in Currents
    BY DEF IInv, Typed, Sourced
  <2>2. {aborted, src.next, current.done, current.consumed} \subseteq BOOLEAN /\ platform \in BOOLEAN
    BY <2>1 DEF IInv, Typed, Constant, Sources, Currents
  <2>3. src.at \in 0 .. Length(served) /\ src.state \in {"open", "failed", "returned"}
    <3>1. Length(served) \in Nat
      BY ServedTyped, LengthNat DEF IInv, Typed
    <3>2. QED
      BY <2>1, <3>1 DEF Sources
  <2>4. cursor.pending # <<>> => OneRange(cursor.pending) = Piece(cursor.bytesRead, src.at)
    BY ChainRange DEF IInv, Typed, Filled, Fills
  <2>5. walk.total <= Limits.maxTotalUncompressedSize
    BY DEF IInv, WalkWell
  <2>6. QED
    BY <2>2, <2>3, <2>4, <2>5 DEF TypeOK
<1>2. QED
  BY ForwardInvariant, <1>1, PTL

(* data() takes an entry's payload from where its header ends, without a   *)
(* gap, and never past the length the header gives; and when it ends well  *)
(* what it handed out is what the header vouches for, or, where the header *)
(* gives nothing, a descriptor in the stream (zip-iterate.ts), in whatever *)
(* pieces any stream arrives and whoever else is waiting (ContentIsExact). *)
THEOREM ContentExact == Spec => []ContentIsExact
<1>1. IInv => ContentIsExact
  <2> SUFFICES ASSUME IInv PROVE ContentIsExact
    OBVIOUS
  <2>1. data.got # <<>> => Got = Piece(Header.from, Header.from + Taken)
    BY ChainRange DEF IInv, PayloadWell, Got
  <2>2. ~Delimited => Taken <= Header.compressedSize
    BY DEF IInv, PayloadWell
  <2>3. QED
    BY <2>1, <2>2 DEF IInv, EndWell, ContentIsExact
<1>2. QED
  BY ForwardInvariant, <1>1, PTL

(* A walk that has ended has let go of its source, unless it never touched *)
(* it, however it ended (SourceLetGo, a part of FindsEveryEntry).          *)
THEOREM SourceReleased == Spec => []SourceLetGo
<1>1. IInv => SourceLetGo
  BY DEF IInv, SourceWell, SourceLetGo
<1>2. QED
  BY ForwardInvariant, <1>1, PTL
=============================================================================
