----------------------------- MODULE ListsProofs -----------------------------
(***************************************************************************)
(* Lemmas about sums, joined sequences and the sort, and the two forms of  *)
(* induction they rest on.  The provers cannot instantiate an induction    *)
(* theorem that takes a predicate; both forms here are about sets, and     *)
(* follow from the least element of a set of naturals.                     *)
(***************************************************************************)
EXTENDS Lists, WellFoundedInduction, TLAPS

-----------------------------------------------------------------------------
(* Induction, and recursion.                                               *)

(* A set of numbers up to N that has 0, and each successor, has them all.  *)
LEMMA Induction ==
  ASSUME NEW N \in Nat, NEW T, 0 \in T,
         \A n \in 1 .. N : n - 1 \in T => n \in T
  PROVE  \A n \in 0 .. N : n \in T
<1> DEFINE Bad == {n \in 0 .. N : n \notin T}
<1> DEFINE R == OpToRel(<, Nat)
<1>1. SUFFICES ASSUME Bad # {} PROVE FALSE
  OBVIOUS
<1>2. PICK x \in Bad : \A y \in Bad : <<y, x>> \notin R
  <2>1. Bad \subseteq Nat
    OBVIOUS
  <2> HIDE DEF R, Bad
  <2>2. IsWellFoundedOn(R, Nat)
    BY NatLessThanWellFounded DEF R
  <2>3. QED
    BY <1>1, <2>1, <2>2, WFMin
<1>3. x # 0 /\ x - 1 \in 0 .. N /\ x \in 1 .. N
  OBVIOUS
<1>4. x - 1 \in Bad
  BY <1>3
<1>5. <<x - 1, x>> \in R
  BY <1>3 DEF OpToRel
<1>6. QED
  BY <1>2, <1>4, <1>5

(* A step that stays in S defines a function up to N.                      *)
Recursive(N, S, base, step) ==
  \E f \in [0 .. N -> S] : f[0] = base /\ \A n \in 1 .. N : f[n] = step[<<f[n - 1], n>>]

(* Such a function exists. *)
LEMMA Recursion ==
  ASSUME NEW N \in Nat, NEW S, NEW base \in S, NEW step \in [S \X (1 .. N) -> S]
  PROVE  Recursive(N, S, base, step)
<1> DEFINE Upto(f, n) ==
      f[0] = base /\ \A m \in 1 .. n : f[m] = step[<<f[m - 1], m>>]
<1> DEFINE T == {n \in 0 .. N : \E f \in [0 .. n -> S] : Upto(f, n)}
<1>1. 0 \in T
  <2>1. [m \in 0 .. 0 |-> base] \in [0 .. 0 -> S] /\ Upto([m \in 0 .. 0 |-> base], 0)
    OBVIOUS
  <2> HIDE DEF Upto
  <2>2. \E f \in [0 .. 0 -> S] : Upto(f, 0)
    BY <2>1
  <2>3. QED
    BY <2>2
<1>2. ASSUME NEW n \in 1 .. N, n - 1 \in T PROVE n \in T
  <2>1. PICK f \in [0 .. n - 1 -> S] : Upto(f, n - 1)
    BY <1>2
  <2>2. f[n - 1] \in S /\ step[<<f[n - 1], n>>] \in S
    OBVIOUS
  <2> DEFINE g == [m \in 0 .. n |-> IF m = n THEN step[<<f[n - 1], n>>] ELSE f[m]]
  <2>3. g \in [0 .. n -> S]
    BY <2>2
  <2>4. g[0] = base
    BY <2>1
  <2>5. ASSUME NEW m \in 1 .. n PROVE g[m] = step[<<g[m - 1], m>>]
    <3>1. CASE m = n
      <4>1. n \in 0 .. n /\ n - 1 \in 0 .. n /\ n - 1 # n
        OBVIOUS
      <4>2. g[n] = step[<<f[n - 1], n>>] /\ g[n - 1] = f[n - 1]
        BY <4>1
      <4>3. QED
        BY <3>1, <4>2
    <3>2. CASE m # n
      <4>1. m \in 1 .. n - 1
        BY <3>2
      <4>2. f[m] = step[<<f[m - 1], m>>]
        BY <2>1, <4>1
      <4>3. g[m] = f[m] /\ g[m - 1] = f[m - 1]
        BY <4>1
      <4>4. QED
        BY <4>2, <4>3
    <3>3. QED
      BY <3>1, <3>2
  <2>6. Upto(g, n)
    BY <2>4, <2>5
  <2> HIDE DEF Upto, g
  <2>7. QED
    BY <2>3, <2>6
<1>3. N \in T
  <2> HIDE DEF T
  <2>1. \A n \in 0 .. N : n \in T
    BY <1>1, <1>2, Induction
  <2>2. QED
    BY <2>1
<1>4. QED
  BY <1>3 DEF Recursive

-----------------------------------------------------------------------------
(* Small facts about sequences, and what is equal to a concatenation. *)
LEMMA Singleton == ASSUME NEW S, NEW x \in S PROVE <<x>> \in Seq(S)
OBVIOUS

(* A concatenation stays within the elements of both. *)
LEMMA ConcatTyped == ASSUME NEW S, NEW a \in Seq(S), NEW b \in Seq(S) PROVE a \o b \in Seq(S)
OBVIOUS

(* The empty sequence is one of any elements. *)
LEMMA EmptyTyped == ASSUME NEW S PROVE <<>> \in Seq(S)
OBVIOUS

(* A sequence of some elements is one of more. *)
LEMMA SubsetTyped == ASSUME NEW S, NEW T, S \subseteq T, NEW a \in Seq(S) PROVE a \in Seq(T)
OBVIOUS

(* What has the elements of both, one behind the other, is a concatenation. *)
LEMMA IsConcat ==
  ASSUME NEW S, NEW a \in Seq(S), NEW b \in Seq(S), NEW c \in Seq(S),
         Len(c) = Len(a) + Len(b),
         \A i \in 1 .. Len(a) : c[i] = a[i], \A i \in 1 .. Len(b) : c[Len(a) + i] = b[i]
  PROVE  c = a \o b
<1>1. a \o b \in Seq(S) /\ Len(a \o b) = Len(a) + Len(b)
  OBVIOUS
<1>2. ASSUME NEW i \in 1 .. Len(c) PROVE c[i] = (a \o b)[i]
  <2>1. CASE i <= Len(a)
    BY <2>1
  <2>2. CASE i > Len(a)
    <3>1. i - Len(a) \in 1 .. Len(b) /\ i = Len(a) + (i - Len(a))
      BY <2>2
    <3>2. (a \o b)[i] = b[i - Len(a)]
      BY <2>2
    <3>3. QED
      BY <3>1, <3>2
  <2>3. QED
    BY <2>1, <2>2
<1>3. QED
  BY <1>1, <1>2

-----------------------------------------------------------------------------
(* Sums.  TotalOf(a) is what SumOf(f, s) is for the sequence a of the      *)
(* numbers f(s[1]), f(s[2]), ...                                           *)

PrefixSums(sum, a) == sum = [n \in 0 .. Len(a) |-> IF n = 0 THEN 0 ELSE sum[n - 1] + a[n]]
TotalOf(a) == (CHOOSE sum : PrefixSums(sum, a))[Len(a)]

(* The running sums of a sequence exist, and are numbers. *)
LEMMA SumsExist ==
  ASSUME NEW a \in Seq(Nat)
  PROVE  \E sum \in [0 .. Len(a) -> Nat] : PrefixSums(sum, a)
<1> DEFINE step == [p \in Nat \X (1 .. Len(a)) |-> p[1] + a[p[2]]]
<1>1. step \in [Nat \X (1 .. Len(a)) -> Nat]
  OBVIOUS
<1>2. PICK f \in [0 .. Len(a) -> Nat] :
        f[0] = 0 /\ \A n \in 1 .. Len(a) : f[n] = step[<<f[n - 1], n>>]
  <2> HIDE DEF step
  <2>0. Len(a) \in Nat /\ 0 \in Nat
    OBVIOUS
  <2>1. Recursive(Len(a), Nat, 0, step)
    BY <1>1, <2>0, Recursion
  <2>2. QED
    BY <2>1 DEF Recursive
<1>3. ASSUME NEW n \in 1 .. Len(a) PROVE f[n] = f[n - 1] + a[n]
  <2> HIDE DEF step
  <2>1. n - 1 \in 0 .. Len(a)
    OBVIOUS
  <2>2. f[n - 1] \in Nat
    BY <2>1
  <2>3. f[n] = step[<<f[n - 1], n>>]
    BY <1>2
  <2>4. step[<<f[n - 1], n>>] = f[n - 1] + a[n]
    BY <2>2 DEF step
  <2>5. QED
    BY <2>3, <2>4
<1>4. f = [n \in 0 .. Len(a) |-> IF n = 0 THEN 0 ELSE f[n - 1] + a[n]]
  BY <1>2, <1>3
<1>5. QED
  BY <1>4 DEF PrefixSums

(* The running sums, element by element. *)
LEMMA SumStep ==
  ASSUME NEW a, Len(a) \in Nat, NEW s, PrefixSums(s, a)
  PROVE  s[0] = 0 /\ \A n \in 1 .. Len(a) : s[n] = s[n - 1] + a[n]
<1>1. s = [n \in 0 .. Len(a) |-> IF n = 0 THEN 0 ELSE s[n - 1] + a[n]]
  BY DEF PrefixSums
<1>2. \A n \in 0 .. Len(a) : s[n] = IF n = 0 THEN 0 ELSE s[n - 1] + a[n]
  BY <1>1, Zenon
<1>3. QED
  BY <1>2

(* Two sums agree as far as their numbers do. *)
SameUpTo(N, a, b) == \A n \in 1 .. N : a[n] = b[n]
EqualUpTo(N, s, t) == \A n \in 0 .. N : s[n] = t[n]

(* Sequences that agree up to N have the same sums up to N. *)
LEMMA SumsAgree ==
  ASSUME NEW a, Len(a) \in Nat, NEW b, Len(b) \in Nat,
         NEW s, PrefixSums(s, a), NEW t, PrefixSums(t, b),
         NEW N \in Nat, N <= Len(a), N <= Len(b), SameUpTo(N, a, b)
  PROVE  EqualUpTo(N, s, t)
<1> DEFINE T == {n \in 0 .. N : s[n] = t[n]}
<1>0. /\ s[0] = 0 /\ \A n \in 1 .. Len(a) : s[n] = s[n - 1] + a[n]
      /\ t[0] = 0 /\ \A n \in 1 .. Len(b) : t[n] = t[n - 1] + b[n]
  BY SumStep
<1>1. 0 \in T
  BY <1>0
<1>2. ASSUME NEW n \in 1 .. N, n - 1 \in T PROVE n \in T
  <2>1. s[n] = s[n - 1] + a[n] /\ t[n] = t[n - 1] + b[n]
    BY <1>0
  <2>2. QED
    BY <1>2, <2>1 DEF SameUpTo
<1>3. \A n \in 0 .. N : n \in T
  <2> HIDE DEF T
  <2>1. QED
    BY <1>1, <1>2, Induction
<1>4. QED
  BY <1>3 DEF EqualUpTo

(* Any function that sums up is the total. *)
LEMMA TotalIs ==
  ASSUME NEW a \in Seq(Nat), NEW s, PrefixSums(s, a)
  PROVE  TotalOf(a) = s[Len(a)] /\ TotalOf(a) \in Nat
<1> DEFINE c == CHOOSE sum : PrefixSums(sum, a)
<1>1. PICK sum \in [0 .. Len(a) -> Nat] : PrefixSums(sum, a)
  BY SumsExist
<1>2. PrefixSums(c, a)
  BY <1>1
<1> HIDE DEF c
<1>3. c[Len(a)] = s[Len(a)] /\ c[Len(a)] = sum[Len(a)]
  <2>1. SameUpTo(Len(a), a, a) /\ Len(a) \in Nat /\ Len(a) \in 0 .. Len(a)
    BY DEF SameUpTo
  <2>2. EqualUpTo(Len(a), c, s) /\ EqualUpTo(Len(a), c, sum)
    BY <1>1, <1>2, <2>1, SumsAgree
  <2>3. QED
    BY <2>1, <2>2 DEF EqualUpTo
<1>4. QED
  BY <1>1, <1>3 DEF TotalOf, c

(* A total is a number. *)
LEMMA TotalNat == ASSUME NEW a \in Seq(Nat) PROVE TotalOf(a) \in Nat
BY SumsExist, TotalIs

(* Nothing adds up to 0. *)
LEMMA TotalEmpty == TotalOf(<<>>) = 0
<1>1. <<>> \in Seq(Nat)
  OBVIOUS
<1>2. PICK sum \in [0 .. Len(<<>>) -> Nat] : PrefixSums(sum, <<>>)
  BY <1>1, SumsExist
<1>3. sum[0] = 0
  BY <1>2 DEF PrefixSums
<1>4. QED
  BY <1>1, <1>2, <1>3, TotalIs

(* A total of two sequences is that of the one and that of the other. *)
LEMMA TotalConcat ==
  ASSUME NEW a \in Seq(Nat), NEW b \in Seq(Nat)
  PROVE  TotalOf(a \o b) = TotalOf(a) + TotalOf(b)
<1> DEFINE ab == a \o b
<1>1. ab \in Seq(Nat) /\ Len(ab) = Len(a) + Len(b)
  OBVIOUS
<1>2. /\ \A n \in 1 .. Len(a) : ab[n] = a[n]
      /\ \A n \in 1 .. Len(b) : ab[Len(a) + n] = b[n]
  OBVIOUS
<1> HIDE DEF ab
<1>3. PICK s \in [0 .. Len(ab) -> Nat] : PrefixSums(s, ab)
  BY <1>1, SumsExist
<1>4. PICK t \in [0 .. Len(a) -> Nat] : PrefixSums(t, a)
  BY SumsExist
<1>5. PICK u \in [0 .. Len(b) -> Nat] : PrefixSums(u, b)
  BY SumsExist
<1>6. /\ Len(a) \in Nat /\ Len(b) \in Nat /\ Len(ab) \in Nat
      /\ Len(a) <= Len(ab) /\ Len(a) <= Len(a)
  BY <1>1
<1>7. \A n \in 0 .. Len(a) : s[n] = t[n]
  <2>1. SameUpTo(Len(a), ab, a)
    BY <1>2 DEF SameUpTo
  <2>2. EqualUpTo(Len(a), s, t)
    BY <2>1, <1>3, <1>4, <1>6, SumsAgree
  <2>3. QED
    BY <2>2 DEF EqualUpTo
<1>8. /\ \A n \in 1 .. Len(ab) : s[n] = s[n - 1] + ab[n]
      /\ u[0] = 0 /\ \A n \in 1 .. Len(b) : u[n] = u[n - 1] + b[n]
  BY <1>3, <1>5, <1>6, SumStep
<1>9. \A n \in 0 .. Len(b) : s[Len(a) + n] = t[Len(a)] + u[n]
  <2> DEFINE T == {n \in 0 .. Len(b) : s[Len(a) + n] = t[Len(a)] + u[n]}
  <2>1. t[Len(a)] \in Nat /\ s[Len(a)] = t[Len(a)] /\ Len(b) \in Nat
    BY <1>6, <1>7
  <2>2. 0 \in T
    BY <1>6, <1>8, <2>1
  <2>3. ASSUME NEW n \in 1 .. Len(b), n - 1 \in T PROVE n \in T
    <3>0. Len(a) + n \in 1 .. Len(ab) /\ Len(a) + n - 1 = Len(a) + (n - 1)
      BY <1>1, <1>6
    <3>1. s[Len(a) + n] = s[Len(a) + n - 1] + ab[Len(a) + n]
      BY <1>8, <3>0
    <3>2. u[n] = u[n - 1] + b[n]
      BY <1>8
    <3>3. s[Len(a) + n - 1] = t[Len(a)] + u[n - 1]
      BY <2>3, <3>0
    <3>4. u[n - 1] \in Nat /\ b[n] \in Nat
      <4>1. n - 1 \in 0 .. Len(b)
        BY <1>6
      <4>2. u[n - 1] \in Nat
        BY <4>1
      <4>3. b[n] \in Nat
        OBVIOUS
      <4>4. QED
        BY <4>2, <4>3
    <3>5. ab[Len(a) + n] = b[n]
      BY <1>2
    <3>6. QED
      BY <2>1, <3>1, <3>2, <3>3, <3>4, <3>5, SMTT(30)
  <2>4. \A n \in 0 .. Len(b) : n \in T
    <3> HIDE DEF T
    <3>1. QED
      BY <2>1, <2>2, <2>3, Induction
  <2>5. QED
    BY <2>4
<1>10. s[Len(ab)] = t[Len(a)] + u[Len(b)]
  <2>1. Len(b) \in 0 .. Len(b)
    BY <1>6
  <2>2. s[Len(a) + Len(b)] = t[Len(a)] + u[Len(b)]
    BY <1>9, <2>1
  <2>3. QED
    BY <1>1, <2>2
<1>11. QED
  BY <1>1, <1>3, <1>4, <1>5, <1>10, TotalIs DEF ab

(* One number is its own total. *)
LEMMA TotalSingle ==
  ASSUME NEW x \in Nat
  PROVE  TotalOf(<<x>>) = x
<1>1. <<x>> \in Seq(Nat) /\ Len(<<x>>) = 1 /\ <<x>>[1] = x
  OBVIOUS
<1>2. PICK sum \in [0 .. 1 -> Nat] : PrefixSums(sum, <<x>>)
  BY <1>1, SumsExist
<1>3. sum[0] = 0 /\ sum[1] = sum[0] + x
  BY <1>1, <1>2 DEF PrefixSums
<1>4. QED
  BY <1>1, <1>2, <1>3, TotalIs

(* One number more, *)
LEMMA TotalAppend ==
  ASSUME NEW a \in Seq(Nat), NEW x \in Nat
  PROVE  TotalOf(Append(a, x)) = TotalOf(a) + x
<1>1. <<x>> \in Seq(Nat)
  OBVIOUS
<1>2. Append(a, x) = a \o <<x>>
  OBVIOUS
<1>3. QED
  BY <1>1, <1>2, TotalConcat, TotalSingle

(* or one in the place of another. *)
LEMMA TotalReplaced ==
  ASSUME NEW a \in Seq(Nat), NEW i \in 1 .. Len(a), NEW x \in Nat
  PROVE  TotalOf([a EXCEPT ![i] = x]) = TotalOf(a) - a[i] + x
<1> DEFINE front == SubSeq(a, 1, i - 1)
<1> DEFINE back == SubSeq(a, i + 1, Len(a))
<1> DEFINE b == [a EXCEPT ![i] = x]
<1>1. front \in Seq(Nat) /\ back \in Seq(Nat) /\ <<a[i]>> \in Seq(Nat) /\ <<x>> \in Seq(Nat) /\ a[i] \in Nat
  OBVIOUS
<1>2. Len(front) = i - 1 /\ Len(back) = Len(a) - i
  OBVIOUS
<1>3. /\ \A n \in 1 .. i - 1 : front[n] = a[n]
      /\ \A n \in 1 .. Len(a) - i : back[n] = a[i + n]
  <2> HIDE DEF b
  <2>1. i \in Nat /\ Len(a) \in Nat /\ i - 1 \in Int /\ i + 1 \in Int /\ i <= Len(a) /\ 1 <= i
    OBVIOUS
  <2>2. ASSUME NEW n \in 1 .. i - 1 PROVE front[n] = a[n]
    <3> HIDE DEF back
    <3>1. n \in 1 .. (i - 1) - 1 + 1 /\ 1 + n - 1 = n
      BY <2>1
    <3>2. QED
      BY <2>1, <3>1
  <2>3. ASSUME NEW n \in 1 .. Len(a) - i PROVE back[n] = a[i + n]
    <3> HIDE DEF front
    <3>1. n \in 1 .. Len(a) - (i + 1) + 1 /\ (i + 1) + n - 1 = i + n
      BY <2>1
    <3>2. QED
      BY <2>1, <3>1
  <2>4. QED
    BY <2>2, <2>3
<1>4. b \in Seq(Nat) /\ Len(b) = Len(a) /\ b[i] = x /\ \A n \in 1 .. Len(a) : n # i => b[n] = a[n]
  OBVIOUS
<1> HIDE DEF front, back, b
<1>5. ASSUME NEW c \in Seq(Nat), NEW y \in Nat, Len(c) = Len(a), c[i] = y,
             \A n \in 1 .. Len(a) : n # i => c[n] = a[n]
      PROVE  TotalOf(c) = TotalOf(front) + y + TotalOf(back)
  <2> DEFINE prefix == front \o <<y>>
  <2>0. i \in Nat /\ Len(a) \in Nat /\ front \in Seq(Nat) /\ Len(front) = i - 1
    BY <1>1, <1>2
  <2>1. <<y>> \in Seq(Nat) /\ Len(<<y>>) = 1 /\ <<y>>[1] = y
    OBVIOUS
  <2>2. /\ prefix \in Seq(Nat) /\ Len(prefix) = i /\ prefix[i] = y
        /\ \A n \in 1 .. i - 1 : prefix[n] = front[n]
    <3>1. prefix = Append(front, y) /\ i = Len(front) + 1
      BY <2>0
    <3>2. /\ Append(front, y) \in Seq(Nat) /\ Len(Append(front, y)) = Len(front) + 1
          /\ Append(front, y)[Len(front) + 1] = y
          /\ \A n \in 1 .. Len(front) : Append(front, y)[n] = front[n]
      BY <2>0
    <3>3. i - 1 = Len(front)
      BY <2>0
    <3> HIDE DEF prefix
    <3>4. QED
      BY <3>1, <3>2, <3>3
  <2>3. TotalOf(prefix) = TotalOf(front) + y
    <3>1. TotalOf(prefix) = TotalOf(front) + TotalOf(<<y>>)
      BY <2>0, <2>1, TotalConcat
    <3>2. QED
      BY <3>1, TotalSingle
  <2> HIDE DEF prefix
  <2>4. Len(c) = Len(prefix) + Len(back)
    BY <1>2, <1>5, <2>2
  <2>5. ASSUME NEW n \in 1 .. Len(prefix) PROVE c[n] = prefix[n]
    <3>1. n \in 1 .. i /\ n \in 1 .. Len(a) /\ (n # i => n \in 1 .. i - 1)
      BY <2>0, <2>2
    <3>2. QED
      BY <1>3, <1>5, <2>2, <3>1
  <2>6. ASSUME NEW n \in 1 .. Len(back) PROVE c[Len(prefix) + n] = back[n]
    <3>1. i + n \in 1 .. Len(a) /\ i + n # i
      BY <1>2
    <3>2. QED
      BY <1>2, <1>3, <1>5, <2>2, <3>1
  <2>7. c = prefix \o back
    BY <1>1, <1>5, <2>2, <2>4, <2>5, <2>6, IsConcat
  <2>8. QED
    BY <1>1, <2>2, <2>3, <2>7, TotalConcat
<1>6. TotalOf(a) = TotalOf(front) + a[i] + TotalOf(back)
  BY <1>1, <1>5
<1>7. TotalOf(b) = TotalOf(front) + x + TotalOf(back)
  BY <1>4, <1>5
<1>8. TotalOf(front) \in Nat /\ TotalOf(back) \in Nat /\ a[i] \in Nat
  BY <1>1, TotalNat
<1>9. TotalOf(b) = TotalOf(a) - a[i] + x
  BY <1>6, <1>7, <1>8, SMTT(30)
<1>10. QED
  BY <1>9 DEF b

-----------------------------------------------------------------------------
(* Joined sequences: the parts p[1], p[2], ... one behind the other.       *)

Joins(join, p, N) ==
  join = [n \in 0 .. N |-> IF n = 0 THEN <<>> ELSE join[n - 1] \o p[n]]

(* The parts can be joined one after the other. *)
LEMMA JoinsExist ==
  ASSUME NEW S, NEW N \in Nat, NEW p \in [1 .. N -> Seq(S)]
  PROVE  \E join : Joins(join, p, N)
<1> DEFINE step == [x \in Seq(S) \X (1 .. N) |-> x[1] \o p[x[2]]]
<1>1. step \in [Seq(S) \X (1 .. N) -> Seq(S)]
  <2>1. ASSUME NEW x \in Seq(S) \X (1 .. N) PROVE x[1] \o p[x[2]] \in Seq(S)
    <3>1. x[1] \in Seq(S) /\ p[x[2]] \in Seq(S)
      OBVIOUS
    <3>2. QED
      BY <3>1
  <2>2. QED
    BY <2>1
<1>2. PICK f \in [0 .. N -> Seq(S)] :
        f[0] = <<>> /\ \A n \in 1 .. N : f[n] = step[<<f[n - 1], n>>]
  <2> HIDE DEF step
  <2>1. <<>> \in Seq(S)
    OBVIOUS
  <2>2. Recursive(N, Seq(S), <<>>, step)
    BY <1>1, <2>1, Recursion
  <2>3. QED
    BY <2>2 DEF Recursive
<1>3. ASSUME NEW n \in 1 .. N PROVE f[n] = f[n - 1] \o p[n]
  <2>1. f[n - 1] \in Seq(S)
    OBVIOUS
  <2>2. QED
    BY <1>2, <2>1
<1>4. f = [n \in 0 .. N |-> IF n = 0 THEN <<>> ELSE f[n - 1] \o p[n]]
  <2>1. ASSUME NEW n \in 0 .. N PROVE f[n] = IF n = 0 THEN <<>> ELSE f[n - 1] \o p[n]
    <3>1. CASE n = 0
      BY <1>2, <3>1
    <3>2. CASE n # 0
      <4>1. n \in 1 .. N
        BY <3>2
      <4>2. QED
        BY <1>3, <3>2, <4>1
    <3>3. QED
      BY <3>1, <3>2
  <2> HIDE DEF step
  <2>2. QED
    BY <2>1
<1>5. QED
  BY <1>4 DEF Joins

(* The join, part by part. *)
LEMMA JoinStep ==
  ASSUME NEW N \in Nat, NEW p, NEW join, Joins(join, p, N)
  PROVE  join[0] = <<>> /\ \A n \in 1 .. N : join[n] = join[n - 1] \o p[n]
<1>1. join = [n \in 0 .. N |-> IF n = 0 THEN <<>> ELSE join[n - 1] \o p[n]]
  BY DEF Joins
<1>2. \A n \in 0 .. N : join[n] = IF n = 0 THEN <<>> ELSE join[n - 1] \o p[n]
  BY <1>1, Zenon
<1>3. join[0] = <<>>
  BY <1>2
<1>4. ASSUME NEW n \in 1 .. N PROVE join[n] = join[n - 1] \o p[n]
  <2>1. n \in 0 .. N /\ n # 0
    OBVIOUS
  <2>2. QED
    BY <1>2, <2>1
<1>5. QED
  BY <1>3, <1>4

(* Parts of elements of S join to a sequence of them. *)
LEMMA JoinsTyped ==
  ASSUME NEW S, NEW N \in Nat, NEW p \in [1 .. N -> Seq(S)], NEW join, Joins(join, p, N)
  PROVE  join[N] \in Seq(S)
<1> DEFINE T == {n \in 0 .. N : join[n] \in Seq(S)}
<1>1. 0 \in T
  <2>1. <<>> \in Seq(S)
    OBVIOUS
  <2>2. join[0] = <<>>
    BY JoinStep
  <2>3. 0 \in 0 .. N
    OBVIOUS
  <2>4. QED
    BY <2>1, <2>2, <2>3
<1>2. ASSUME NEW n \in 1 .. N, n - 1 \in T PROVE n \in T
  <2>0. join[n] = join[n - 1] \o p[n]
    BY JoinStep
  <2>1. join[n - 1] \in Seq(S) /\ p[n] \in Seq(S)
    BY <1>2
  <2>2. join[n - 1] \o p[n] \in Seq(S)
    BY <2>1
  <2>3. n \in 0 .. N
    OBVIOUS
  <2>4. QED
    BY <2>0, <2>2, <2>3
<1>3. \A n \in 0 .. N : n \in T
  <2> HIDE DEF T
  <2>1. QED
    BY <1>1, <1>2, Induction
<1>4. QED
  BY <1>3

-----------------------------------------------------------------------------
(* The sort keeps the elements of the sequence: what it returns is of the  *)
(* same set.                                                               *)

(* A set of numbers that is not empty has a least one. *)
LEMMA LeastExists ==
  ASSUME NEW K, K \subseteq Nat, K # {}
  PROVE  Min(K) \in K /\ \A y \in K : Min(K) <= y
<1>1. PICK x \in K : \A y \in K : <<y, x>> \notin OpToRel(<, Nat)
  BY NatLessThanWellFounded, WFMin
<1>2. ASSUME NEW y \in K PROVE x <= y
  <2>1. <<y, x>> \in Nat \X Nat /\ <<y, x>> \notin OpToRel(<, Nat)
    BY <1>1
  <2>2. ~(<<y, x>>[1] < <<y, x>>[2])
    BY <2>1, Zenon DEF OpToRel
  <2>3. x \in Nat /\ y \in Nat /\ ~(y < x)
    BY <2>2
  <2>4. QED
    BY <2>3
<1>3. QED
  BY <1>2 DEF Min

(* An element is inserted without losing another. *)
LEMMA InsertTyped ==
  ASSUME NEW S, NEW t \in Seq(S), NEW x \in S, NEW k \in 1 .. Len(t) + 1
  PROVE  InsertAt(t, k, x) \in Seq(S) /\ Len(InsertAt(t, k, x)) = Len(t) + 1
<1>1. SubSeq(t, 1, k - 1) \in Seq(S) /\ Len(SubSeq(t, 1, k - 1)) = k - 1
  OBVIOUS
<1>2. SubSeq(t, k, Len(t)) \in Seq(S) /\ Len(SubSeq(t, k, Len(t))) = Len(t) + 1 - k
  OBVIOUS
<1>3. <<x>> \in Seq(S) /\ Len(<<x>>) = 1
  OBVIOUS
<1>4. SubSeq(t, 1, k - 1) \o <<x>> \in Seq(S) /\ Len(SubSeq(t, 1, k - 1) \o <<x>>) = k
  BY <1>1, <1>3
<1>5. SubSeq(t, 1, k - 1) \o <<x>> \o SubSeq(t, k, Len(t)) \in Seq(S)
      /\ Len(SubSeq(t, 1, k - 1) \o <<x>> \o SubSeq(t, k, Len(t))) = Len(t) + 1
  <2> DEFINE front == SubSeq(t, 1, k - 1) \o <<x>>
  <2> DEFINE back == SubSeq(t, k, Len(t))
  <2>1. front \in Seq(S) /\ back \in Seq(S) /\ Len(front) = k /\ Len(back) = Len(t) + 1 - k
    BY <1>2, <1>4
  <2> HIDE DEF front, back
  <2>2. front \o back \in Seq(S) /\ Len(front \o back) = Len(front) + Len(back)
    BY <2>1
  <2>3. Len(front \o back) = Len(t) + 1
    BY <2>1, <2>2
  <2>4. QED
    BY <2>2, <2>3 DEF front, back
<1>6. QED
  BY <1>5 DEF InsertAt

=============================================================================
