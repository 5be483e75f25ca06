----------------------------- MODULE RecordProofs -----------------------------
(***************************************************************************)
(* Lemmas about the operators that the writers and the readers share: what *)
(* the sizes of files, contents and extra fields add up to, and that what  *)
(* is planned, emitted, cut out or parsed is of its type.                  *)
(***************************************************************************)
EXTENDS ZipReader, ArchiveSegments, ListsProofs, FiniteSetTheorems

-----------------------------------------------------------------------------
(* Sizes.  Each is the total of a sequence of numbers.                     *)

Lens(file) == [i \in DOMAIN file |-> file[i].len]
LengthSums(sum, file) ==
  sum = [n \in 0 .. Len(file) |-> IF n = 0 THEN 0 ELSE sum[n - 1] + file[n].len]

(* Every unit has a length. *)
LEMMA UnitLength == ASSUME NEW u \in FileUnits PROVE u.len \in Nat
BY DEF FileUnits, LocalHeaders, DirectoryRecords, ClosingRecords, Zip64Ends, Locators,
       Descriptors, DataUnits

(* The length of a file is the total of the lengths of its units. *)
LEMMA LengthIsTotal ==
  ASSUME NEW file \in Seq(FileUnits)
  PROVE  Lens(file) \in Seq(Nat) /\ Len(Lens(file)) = Len(file) /\ Length(file) = TotalOf(Lens(file))
<1> DEFINE c == CHOOSE sum : LengthSums(sum, file)
<1>1. Lens(file) \in Seq(Nat) /\ Len(Lens(file)) = Len(file)
  <2>1. \A i \in DOMAIN file : file[i] \in FileUnits
    OBVIOUS
  <2> HIDE DEF FileUnits
  <2>2. QED
    BY <2>1, UnitLength DEF Lens
<1>2. \A sum : LengthSums(sum, file) <=> PrefixSums(sum, Lens(file))
  <2>1. /\ Len(Lens(file)) = Len(file) /\ Len(file) \in Nat
        /\ \A n \in 1 .. Len(file) : Lens(file)[n] = file[n].len
    BY <1>1 DEF Lens
  <2>2. ASSUME NEW sum PROVE LengthSums(sum, file) <=> PrefixSums(sum, Lens(file))
    <3>1. [n \in 0 .. Len(file) |-> IF n = 0 THEN 0 ELSE sum[n - 1] + file[n].len]
          = [n \in 0 .. Len(Lens(file)) |-> IF n = 0 THEN 0 ELSE sum[n - 1] + Lens(file)[n]]
      BY <2>1
    <3>2. QED
      BY <3>1, Zenon DEF LengthSums, PrefixSums
  <2>3. QED
    BY <2>2
<1>3. \E sum : LengthSums(sum, file)
  BY <1>1, <1>2, SumsExist
<1>4. PrefixSums(c, Lens(file))
  BY <1>2, <1>3
<1>5. Length(file) = c[Len(file)]
  BY DEF Length, SumOf, LengthSums, c
<1> HIDE DEF c
<1>6. QED
  BY <1>1, <1>4, <1>5, TotalIs

(* It is a number, *)
LEMMA LengthNat == ASSUME NEW file \in Seq(FileUnits) PROVE Length(file) \in Nat
BY LengthIsTotal, TotalNat

(* 0 for no unit, *)
LEMMA LengthEmpty == Length(<<>>) = 0
<1>1. <<>> \in Seq(FileUnits)
  OBVIOUS
<1>2. Lens(<<>>) = <<>>
  BY DEF Lens
<1>3. QED
  BY <1>1, <1>2, LengthIsTotal, TotalEmpty

(* that of the unit for one, *)
LEMMA LengthSingle == ASSUME NEW u \in FileUnits PROVE Length(<<u>>) = u.len
<1>1. <<u>> \in Seq(FileUnits)
  OBVIOUS
<1>2. Lens(<<u>>) = <<u.len>>
  BY DEF Lens
<1>3. QED
  BY <1>1, <1>2, UnitLength, LengthIsTotal, TotalSingle

(* and of two files the sum. *)
LEMMA LengthConcat ==
  ASSUME NEW f \in Seq(FileUnits), NEW h \in Seq(FileUnits)
  PROVE  f \o h \in Seq(FileUnits) /\ Length(f \o h) = Length(f) + Length(h)
<1>1. f \o h \in Seq(FileUnits)
  OBVIOUS
<1>2. Lens(f \o h) = Lens(f) \o Lens(h)
  <2>1. /\ Lens(f) \in Seq(Nat) /\ Lens(h) \in Seq(Nat) /\ Lens(f \o h) \in Seq(Nat)
        /\ Len(Lens(f)) = Len(f) /\ Len(Lens(h)) = Len(h)
        /\ Len(Lens(f \o h)) = Len(f \o h) /\ Len(f \o h) = Len(f) + Len(h)
    <3>1. Len(f \o h) = Len(f) + Len(h)
      OBVIOUS
    <3>2. Lens(f) \in Seq(Nat) /\ Len(Lens(f)) = Len(f)
      BY LengthIsTotal
    <3>3. Lens(h) \in Seq(Nat) /\ Len(Lens(h)) = Len(h)
      BY LengthIsTotal
    <3>4. Lens(f \o h) \in Seq(Nat) /\ Len(Lens(f \o h)) = Len(f \o h)
      BY <1>1, LengthIsTotal
    <3>5. QED
      BY <3>1, <3>2, <3>3, <3>4
  <2>2. \A i \in 1 .. Len(Lens(f)) : Lens(f \o h)[i] = Lens(f)[i]
    <3>1. ASSUME NEW i \in 1 .. Len(f) PROVE (f \o h)[i] = f[i]
      OBVIOUS
    <3>2. QED
      BY <2>1, <3>1 DEF Lens
  <2>3. \A i \in 1 .. Len(Lens(h)) : Lens(f \o h)[Len(Lens(f)) + i] = Lens(h)[i]
    <3>1. ASSUME NEW i \in 1 .. Len(h)
          PROVE (f \o h)[Len(f) + i] = h[i] /\ Len(f) + i \in DOMAIN (f \o h) /\ i \in DOMAIN h
      OBVIOUS
    <3>2. ASSUME NEW i \in 1 .. Len(h) PROVE Lens(f \o h)[Len(f) + i] = Lens(h)[i]
      BY <3>1 DEF Lens
    <3>3. QED
      BY <2>1, <3>2
  <2>4. Len(Lens(f \o h)) = Len(Lens(f)) + Len(Lens(h))
    BY <2>1
  <2>5. /\ Lens(f) \in Seq(Nat) /\ Lens(h) \in Seq(Nat) /\ Lens(f \o h) \in Seq(Nat)
    BY <2>1
  <2>6. QED
    BY <2>2, <2>3, <2>4, <2>5, IsConcat, Zenon
<1>3. QED
  BY <1>1, <1>2, LengthIsTotal, TotalConcat

Sizes(content) == [i \in DOMAIN content |-> content[i].size]
ContentSums(sum, content) ==
  sum = [n \in 0 .. Len(content) |-> IF n = 0 THEN 0 ELSE sum[n - 1] + content[n].size]

(* The size of a content is the total of the sizes of its chunks. *)
LEMMA ContentSizeIsTotal ==
  ASSUME NEW content \in Contents
  PROVE  Sizes(content) \in Seq(Nat) /\ ContentSize(content) = TotalOf(Sizes(content))
<1> DEFINE c == CHOOSE sum : ContentSums(sum, content)
<1>1. Sizes(content) \in Seq(Nat) /\ Len(Sizes(content)) = Len(content)
  <2>1. \A i \in DOMAIN content : content[i].size \in Nat
    <3>1. \A i \in DOMAIN content : content[i] \in Chunks
      BY DEF Contents
    <3>2. QED
      BY <3>1 DEF Chunks
  <2>2. Len(content) \in Nat /\ DOMAIN content = 1 .. Len(content)
    BY DEF Contents
  <2>3. QED
    BY <2>1, <2>2 DEF Sizes
<1>2. \A sum : ContentSums(sum, content) <=> PrefixSums(sum, Sizes(content))
  <2>1. /\ Len(Sizes(content)) = Len(content) /\ Len(content) \in Nat
        /\ \A n \in 1 .. Len(content) : Sizes(content)[n] = content[n].size
    BY <1>1 DEF Sizes, Contents
  <2>2. ASSUME NEW sum PROVE ContentSums(sum, content) <=> PrefixSums(sum, Sizes(content))
    <3>1. [n \in 0 .. Len(content) |-> IF n = 0 THEN 0 ELSE sum[n - 1] + content[n].size]
          = [n \in 0 .. Len(Sizes(content)) |->
               IF n = 0 THEN 0 ELSE sum[n - 1] + Sizes(content)[n]]
      BY <2>1
    <3>2. QED
      BY <3>1, Zenon DEF ContentSums, PrefixSums
  <2>3. QED
    BY <2>2
<1>3. \E sum : ContentSums(sum, content)
  BY <1>1, <1>2, SumsExist
<1>4. PrefixSums(c, Sizes(content))
  BY <1>2, <1>3
<1>5. ContentSize(content) = c[Len(content)]
  BY DEF ContentSize, SumOf, ContentSums, c
<1> HIDE DEF c
<1>6. QED
  BY <1>1, <1>4, <1>5, TotalIs

(* It is a number, *)
LEMMA ContentSizeNat == ASSUME NEW content \in Contents PROVE ContentSize(content) \in Nat
BY ContentSizeIsTotal, TotalNat

(* 0 for no chunk, *)
LEMMA ContentSizeEmpty == <<>> \in Contents /\ ContentSize(<<>>) = 0
<1>1. <<>> \in Contents
  BY DEF Contents
<1>2. Sizes(<<>>) = <<>>
  BY DEF Sizes
<1>3. QED
  BY <1>1, <1>2, ContentSizeIsTotal, TotalEmpty

(* and grows by that of a chunk. *)
LEMMA ContentSizeAppend ==
  ASSUME NEW content \in Contents, NEW chunk \in Chunks
  PROVE  Append(content, chunk) \in Contents
         /\ ContentSize(Append(content, chunk)) = ContentSize(content) + chunk.size
<1>1. Append(content, chunk) \in Contents
  BY DEF Contents, Chunks
<1>2. Sizes(Append(content, chunk)) = Sizes(content) \o <<chunk.size>>
  BY DEF Sizes, Contents
<1>3. <<chunk.size>> \in Seq(Nat) /\ chunk.size \in Nat
  BY DEF Chunks
<1>4. QED
  BY <1>1, <1>2, <1>3, ContentSizeIsTotal, TotalConcat, TotalSingle
PackedSizes(content) == [i \in DOMAIN content |-> content[i].packed]
PackedSums(sum, content) ==
  sum = [n \in 0 .. Len(content) |-> IF n = 0 THEN 0 ELSE sum[n - 1] + content[n].packed]

(* So is its size once deflated, *)
LEMMA PackedIsTotal ==
  ASSUME NEW content \in Contents
  PROVE  PackedSizes(content) \in Seq(Nat) /\ Packed(content) = TotalOf(PackedSizes(content))
<1> DEFINE c == CHOOSE sum : PackedSums(sum, content)
<1>1. PackedSizes(content) \in Seq(Nat) /\ Len(PackedSizes(content)) = Len(content)
  <2>1. \A i \in DOMAIN content : content[i].packed \in Nat
    <3>1. \A i \in DOMAIN content : content[i] \in Chunks
      BY DEF Contents
    <3>2. QED
      BY <3>1 DEF Chunks
  <2>2. Len(content) \in Nat /\ DOMAIN content = 1 .. Len(content)
    BY DEF Contents
  <2>3. QED
    BY <2>1, <2>2 DEF PackedSizes
<1>2. \A sum : PackedSums(sum, content) <=> PrefixSums(sum, PackedSizes(content))
  <2>1. /\ Len(PackedSizes(content)) = Len(content) /\ Len(content) \in Nat
        /\ \A n \in 1 .. Len(content) : PackedSizes(content)[n] = content[n].packed
    BY <1>1 DEF PackedSizes, Contents
  <2>2. ASSUME NEW sum PROVE PackedSums(sum, content) <=> PrefixSums(sum, PackedSizes(content))
    <3>1. [n \in 0 .. Len(content) |-> IF n = 0 THEN 0 ELSE sum[n - 1] + (content[n].packed)]
          = [n \in 0 .. Len(PackedSizes(content)) |->
               IF n = 0 THEN 0 ELSE sum[n - 1] + PackedSizes(content)[n]]
      BY <2>1
    <3>2. QED
      BY <3>1, Zenon DEF PackedSums, PrefixSums
  <2>3. QED
    BY <2>2
<1>3. \E sum : PackedSums(sum, content)
  BY <1>1, <1>2, SumsExist
<1>4. PrefixSums(c, PackedSizes(content))
  BY <1>2, <1>3
<1>5. Packed(content) = c[Len(content)]
  BY DEF Packed, SumOf, PackedSums, c
<1> HIDE DEF c
<1>6. QED
  BY <1>1, <1>4, <1>5, TotalIs

(* a number too. *)
LEMMA PackedNat == ASSUME NEW content \in Contents PROVE Packed(content) \in Nat
BY PackedIsTotal, TotalNat

FieldSizes(extra) == [i \in DOMAIN extra |-> 4 + extra[i].size]
FieldSums(sum, extra) ==
  sum = [n \in 0 .. Len(extra) |-> IF n = 0 THEN 0 ELSE sum[n - 1] + (4 + extra[n].size)]

(* And the size of an extra block, *)
LEMMA ExtraSizeIsTotal ==
  ASSUME NEW extra \in Seq(ExtraFields)
  PROVE  FieldSizes(extra) \in Seq(Nat) /\ ExtraSize(extra) = TotalOf(FieldSizes(extra))
<1> DEFINE c == CHOOSE sum : FieldSums(sum, extra)
<1>1. FieldSizes(extra) \in Seq(Nat) /\ Len(FieldSizes(extra)) = Len(extra)
  <2>1. \A i \in DOMAIN extra : 4 + extra[i].size \in Nat
    <3>1. \A i \in DOMAIN extra : extra[i] \in ExtraFields
      BY DEF Contents
    <3>2. QED
      BY <3>1 DEF ExtraFields
  <2>2. Len(extra) \in Nat /\ DOMAIN extra = 1 .. Len(extra)
    BY DEF Contents
  <2>3. QED
    BY <2>1, <2>2 DEF FieldSizes
<1>2. \A sum : FieldSums(sum, extra) <=> PrefixSums(sum, FieldSizes(extra))
  <2>1. /\ Len(FieldSizes(extra)) = Len(extra) /\ Len(extra) \in Nat
        /\ \A n \in 1 .. Len(extra) : FieldSizes(extra)[n] = (4 + extra[n].size)
    BY <1>1 DEF FieldSizes, Contents
  <2>2. ASSUME NEW sum PROVE FieldSums(sum, extra) <=> PrefixSums(sum, FieldSizes(extra))
    <3>1. [n \in 0 .. Len(extra) |-> IF n = 0 THEN 0 ELSE sum[n - 1] + ((4 + extra[n].size))]
          = [n \in 0 .. Len(FieldSizes(extra)) |->
               IF n = 0 THEN 0 ELSE sum[n - 1] + FieldSizes(extra)[n]]
      BY <2>1
    <3>2. QED
      BY <3>1, Zenon DEF FieldSums, PrefixSums
  <2>3. QED
    BY <2>2
<1>3. \E sum : FieldSums(sum, extra)
  BY <1>1, <1>2, SumsExist
<1>4. PrefixSums(c, FieldSizes(extra))
  BY <1>2, <1>3
<1>5. ExtraSize(extra) = c[Len(extra)]
  BY DEF ExtraSize, SumOf, FieldSums, c
<1> HIDE DEF c
<1>6. QED
  BY <1>1, <1>4, <1>5, TotalIs

(* another number. *)
LEMMA ExtraSizeNat == ASSUME NEW extra \in Seq(ExtraFields) PROVE ExtraSize(extra) \in Nat
BY ExtraSizeIsTotal, TotalNat

-----------------------------------------------------------------------------
(* The sort by name keeps the elements of a list and their number.         *)

PlaceOf(t, x) ==
  Min({k \in 1 .. Len(t) + 1 : k <= Len(t) => compareNames(x.name, t[k].name) < 0})
SortsByName(sorted, s) ==
  sorted = [n \in 0 .. Len(s) |->
              IF n = 0 THEN <<>> ELSE InsertAt(sorted[n - 1], PlaceOf(sorted[n - 1], s[n]), s[n])]
SortedByName(s) == Sorted(s, LAMBDA a, b : compareNames(a.name, b.name) < 0)

(* A place in the list, or behind it. *)
LEMMA PlaceInRange ==
  ASSUME NEW S, NEW t \in Seq(S), NEW x
  PROVE  PlaceOf(t, x) \in 1 .. Len(t) + 1
<1> DEFINE K == {k \in 1 .. Len(t) + 1 : k <= Len(t) => compareNames(x.name, t[k].name) < 0}
<1>1. K \subseteq 1 .. Len(t) + 1
  OBVIOUS
<1>2. Len(t) \in Nat
  OBVIOUS
<1>3. Len(t) + 1 \in 1 .. Len(t) + 1 /\ ~(Len(t) + 1 <= Len(t))
  BY <1>2
<1>4. Len(t) + 1 \in K
  BY <1>3
<1> HIDE DEF K
<1>5. K \subseteq Nat /\ K # {}
  BY <1>1, <1>2, <1>4
<1>6. Min(K) \in K
  BY <1>5, LeastExists
<1>7. QED
  BY <1>1, <1>6 DEF PlaceOf, K

(* With one more in its place the list is a list. *)
LEMMA InsertedTyped ==
  ASSUME NEW S, NEW t \in Seq(S), NEW x \in S
  PROVE  InsertAt(t, PlaceOf(t, x), x) \in Seq(S)
         /\ Len(InsertAt(t, PlaceOf(t, x), x)) = Len(t) + 1
BY PlaceInRange, InsertTyped

(* The sort goes through the whole list, *)
LEMMA SortsExist ==
  ASSUME NEW S, NEW s \in Seq(S)
  PROVE  \E sorted : SortsByName(sorted, s)
<1> DEFINE step == [p \in Seq(S) \X (1 .. Len(s)) |-> InsertAt(p[1], PlaceOf(p[1], s[p[2]]), s[p[2]])]
<1>0. Len(s) \in Nat
  OBVIOUS
<1>1. step \in [Seq(S) \X (1 .. Len(s)) -> Seq(S)]
  <2>1. ASSUME NEW p \in Seq(S) \X (1 .. Len(s))
        PROVE InsertAt(p[1], PlaceOf(p[1], s[p[2]]), s[p[2]]) \in Seq(S)
    <3>1. p[1] \in Seq(S) /\ s[p[2]] \in S
      OBVIOUS
    <3>2. QED
      BY <3>1, InsertedTyped
  <2>2. QED
    BY <2>1
<1>2. PICK f \in [0 .. Len(s) -> Seq(S)] :
        f[0] = <<>> /\ \A n \in 1 .. Len(s) : f[n] = step[<<f[n - 1], n>>]
  <2> HIDE DEF step
  <2>1. <<>> \in Seq(S)
    OBVIOUS
  <2>2. Recursive(Len(s), Seq(S), <<>>, step)
    BY <1>0, <1>1, <2>1, Recursion
  <2>3. QED
    BY <2>2 DEF Recursive
<1>3. ASSUME NEW n \in 1 .. Len(s)
      PROVE f[n] = InsertAt(f[n - 1], PlaceOf(f[n - 1], s[n]), s[n])
  <2>1. f[n - 1] \in Seq(S)
    BY <1>0
  <2>2. QED
    BY <1>2, <2>1
<1>4. f = [n \in 0 .. Len(s) |->
             IF n = 0 THEN <<>> ELSE InsertAt(f[n - 1], PlaceOf(f[n - 1], s[n]), s[n])]
  <2>1. ASSUME NEW n \in 0 .. Len(s)
        PROVE f[n] = IF n = 0 THEN <<>>
                     ELSE InsertAt(f[n - 1], PlaceOf(f[n - 1], s[n]), s[n])
    <3>1. CASE n = 0
      BY <1>2, <3>1
    <3>2. CASE n # 0
      <4>1. n \in 1 .. Len(s)
        BY <1>0, <3>2
      <4>2. QED
        BY <1>3, <3>2, <4>1
    <3>3. QED
      BY <3>1, <3>2
  <2> HIDE DEF step
  <2>2. QED
    BY <2>1
<1>5. QED
  BY <1>4 DEF SortsByName

(* and returns as many elements, of the same set. *)
LEMMA SortKeeps ==
  ASSUME NEW S, NEW s \in Seq(S)
  PROVE  SortedByName(s) \in Seq(S) /\ Len(SortedByName(s)) = Len(s)
<1> DEFINE c == CHOOSE sorted : SortsByName(sorted, s)
<1> DEFINE T == {n \in 0 .. Len(s) : c[n] \in Seq(S) /\ Len(c[n]) = n}
<1>0. Len(s) \in Nat
  OBVIOUS
<1>1. SortsByName(c, s)
  BY SortsExist
<1>2. SortedByName(s) = c[Len(s)]
  BY DEF SortedByName, Sorted, Inserted, SortsByName, PlaceOf, c
<1> HIDE DEF c
<1>3. c = [n \in 0 .. Len(s) |->
             IF n = 0 THEN <<>> ELSE InsertAt(c[n - 1], PlaceOf(c[n - 1], s[n]), s[n])]
  BY <1>1 DEF SortsByName
<1>4. \A n \in 0 .. Len(s) :
        c[n] = IF n = 0 THEN <<>> ELSE InsertAt(c[n - 1], PlaceOf(c[n - 1], s[n]), s[n])
  BY <1>3, Zenon
<1>5. 0 \in T
  <2>1. 0 \in 0 .. Len(s) /\ <<>> \in Seq(S) /\ Len(<<>>) = 0
    BY <1>0
  <2>2. c[0] = <<>>
    BY <1>4, <2>1
  <2>3. QED
    BY <2>1, <2>2
<1>6. ASSUME NEW n \in 1 .. Len(s), n - 1 \in T PROVE n \in T
  <2>1. n \in 0 .. Len(s) /\ n # 0 /\ s[n] \in S /\ n - 1 + 1 = n
    BY <1>0
  <2>2. c[n] = InsertAt(c[n - 1], PlaceOf(c[n - 1], s[n]), s[n])
    BY <1>4, <2>1
  <2>3. c[n - 1] \in Seq(S) /\ Len(c[n - 1]) = n - 1
    BY <1>6
  <2>4. c[n] \in Seq(S) /\ Len(c[n]) = n - 1 + 1
    <3>1. s[n] \in S /\ c[n - 1] \in Seq(S)
      BY <2>1, <2>3
    <3> HIDE DEF T
    <3>2. /\ InsertAt(c[n - 1], PlaceOf(c[n - 1], s[n]), s[n]) \in Seq(S)
          /\ Len(InsertAt(c[n - 1], PlaceOf(c[n - 1], s[n]), s[n])) = Len(c[n - 1]) + 1
      BY <3>1, InsertedTyped
    <3>3. QED
      BY <2>2, <2>3, <3>2
  <2>5. QED
    BY <2>1, <2>4
<1>7. \A n \in 0 .. Len(s) : n \in T
  <2> HIDE DEF T
  <2>1. QED
    BY <1>0, <1>5, <1>6, Induction
<1>8. Len(s) \in T
  BY <1>0, <1>7
<1>9. QED
  BY <1>2, <1>8

-----------------------------------------------------------------------------
(* What the writers write is of its type.                                  *)

(* A name is made of segments, *)
LEMMA NameTyped ==
  ASSUME NEW name \in Names
  PROVE  name.segments \in Seq(STRING) /\ name.segments # <<>>
<1>1. PICK i \in DOMAIN NameOrder : name = NameOrder[i]
  BY DEF Names, ToSet
<1> DEFINE S == [segments : Seq(STRING) \ {<<>>}, odd : STRING]
<1>2. NameOrder \in Seq(S)
  BY NamesAssumption
<1>3. NameOrder[i] \in S
  <2> HIDE DEF S
  <2>1. QED
    BY <1>2
<1>4. QED
  BY <1>1, <1>3

(* and has a length. *)
LEMMA NameLengthNat == ASSUME NEW name \in Names PROVE NameLength(name) \in Nat
<1>1. name.segments \in Seq(STRING) /\ name.segments # <<>>
  BY NameTyped
<1>2. Len(name.segments) \in Nat /\ Len(name.segments) # 0
  BY <1>1
<1>3. QED
  BY <1>2 DEF NameLength

(* What does not fit a field wraps to a number. *)
LEMMA FieldTypes ==
  ASSUME NEW n \in Nat
  PROVE  U32(n) \in Nat /\ U16(n) \in Nat /\ Declared(n) \in Nat
BY SentinelAssumption DEF U32, U16, Declared

(* The defined values are numbers. *)
LEMMA DefinedTyped ==
  ASSUME NEW values \in Seq(Nat \cup {Undefined})
  PROVE  Defined(values) \in Seq(Nat)
<1> DEFINE p == [n \in 1 .. Len(values) |-> IF values[n] # Undefined THEN <<values[n]>> ELSE <<>>]
<1> DEFINE J(join) ==
      join = [n \in 0 .. Len(values) |->
                IF n = 0 THEN <<>>
                ELSE join[n - 1] \o (IF values[n] # Undefined THEN <<values[n]>> ELSE <<>>)]
<1> DEFINE c == CHOOSE join : J(join)
<1>0. Len(values) \in Nat
  OBVIOUS
<1>1. p \in [1 .. Len(values) -> Seq(Nat)]
  <2>1. ASSUME NEW n \in 1 .. Len(values)
        PROVE (IF values[n] # Undefined THEN <<values[n]>> ELSE <<>>) \in Seq(Nat)
    <3>1. <<>> \in Seq(Nat)
      OBVIOUS
    <3>2. values[n] # Undefined => values[n] \in Nat
      OBVIOUS
    <3>3. QED
      BY <3>1, <3>2
  <2>2. QED
    BY <2>1
<1>2. \A join : J(join) <=> Joins(join, p, Len(values))
  <2>1. ASSUME NEW join PROVE J(join) <=> Joins(join, p, Len(values))
    <3>1. [n \in 0 .. Len(values) |->
             IF n = 0 THEN <<>>
             ELSE join[n - 1] \o (IF values[n] # Undefined THEN <<values[n]>> ELSE <<>>)]
          = [n \in 0 .. Len(values) |-> IF n = 0 THEN <<>> ELSE join[n - 1] \o p[n]]
      BY <1>0
    <3>2. QED
      BY <3>1, Zenon DEF Joins
  <2>2. QED
    BY <2>1
<1>3. Defined(values) = c[Len(values)]
  BY DEF Defined, Selected, Joined
<1> HIDE DEF p, J
<1>4. Joins(c, p, Len(values))
  BY <1>0, <1>1, <1>2, JoinsExist
<1> HIDE DEF c
<1>5. QED
  BY <1>0, <1>1, <1>3, <1>4, JoinsTyped

Wide == Nat \cup {Undefined}

(* A Zip64 field is a field, whichever of its values are given. *)
LEMMA Zip64ExtraTyped ==
  ASSUME NEW u \in Wide, NEW c \in Wide, NEW o \in Wide
  PROVE  buildZip64Extra(u, c, o) \in ExtraFields
<1>1. <<u, c, o>> \in Seq(Nat \cup {Undefined})
  BY DEF Wide
<1>2. Defined(<<u, c, o>>) \in Seq(Nat)
  BY <1>1, DefinedTyped
<1> DEFINE v == Defined(<<u, c, o>>)
<1>3. buildZip64Extra(u, c, o) = [id |-> "zip64", values |-> v, size |-> 8 * Len(v)]
  BY DEF buildZip64Extra, ExtraField
<1> HIDE DEF v
<1>4. v \in Seq(Nat) /\ 8 * Len(v) \in Nat
  BY <1>2 DEF v
<1>5. [id |-> "zip64", values |-> v, size |-> 8 * Len(v)] \in ExtraFields
  BY <1>4 DEF ExtraFields
<1>6. QED
  BY <1>3, <1>5

(* The sizes of a local header, in or beside its Zip64 field. *)
LEMMA LocalSizesTyped ==
  ASSUME NEW u \in Nat, NEW c \in Nat
  PROVE  /\ lfhZip64Fields(u, c).compressed \in Nat
         /\ lfhZip64Fields(u, c).uncompressed \in Nat
         /\ lfhZip64Fields(u, c).extra \in Seq(ExtraFields)
<1>1. buildZip64Extra(u, c, Undefined) \in ExtraFields
  BY Zip64ExtraTyped DEF Wide
<1>2. <<buildZip64Extra(u, c, Undefined)>> \in Seq(ExtraFields) /\ <<>> \in Seq(ExtraFields)
  BY <1>1
<1>3. QED
  BY <1>2, SentinelAssumption DEF lfhZip64Fields

(* Plans.  Refs are the sources a stream entry may have. *)
Emissions ==
  [kind : {"payload"}, holds : Seq(FileUnits)] \cup [kind : {"header"}, holds : Nat] \cup {None}
Plans(Refs) ==
  [name : Names, attributes : STRING, pinned : BOOLEAN, extra : Seq(ExtraFields),
   comment : Nat, method : Nat, bit3 : BOOLEAN, encrypted : BOOLEAN, source : Refs \cup {None},
   deterministic : BOOLEAN, zip64 : BOOLEAN, payload : Seq(FileUnits), emitted : Emissions,
   crc : Contents, compressedSize : Nat, uncompressedSize : Nat]
GoodRaws ==
  [method : Nat, payload : Seq(FileUnits), crc : Contents, uncompressedSize : Nat,
   encrypted : BOOLEAN]
Specs(Refs) ==
  [name : Names, attributes : STRING, pinned : BOOLEAN, extra : Seq(ExtraFields),
   comment : Nat, content : Contents, raw : GoodRaws \cup {None}, source : Refs \cup {None},
   method : {"store", "deflate"}, deterministic : BOOLEAN, zip64 : BOOLEAN]

(* A deflated content is a stretch of payload. *)
LEMMA DeflatedTyped ==
  ASSUME NEW content \in Contents
  PROVE  Deflated(content) \in FileUnits
<1>1. Packed(content) + 1 \in Nat
  BY PackedNat
<1>2. QED
  BY <1>1 DEF Deflated, DataUnit, METHOD_DEFLATE, FileUnits, DataUnits

(* A plan of typed parts is a plan. *)
LEMMA PlanTyped ==
  ASSUME NEW Refs, NEW spec \in Specs(Refs), NEW method \in Nat, NEW payload \in Seq(FileUnits),
         NEW crc \in Contents, NEW size \in Nat
  PROVE  Plan(spec, method, payload, crc, size) \in Plans(Refs)
<1>1. Length(payload) \in Nat /\ None \in Emissions /\ None \in Refs \cup {None}
  BY LengthNat DEF Emissions
<1>2. QED
  BY <1>1 DEF Plan, Plans, Specs

(* Each planner makes a plan of its entry. *)
LEMMA PlansTyped ==
  ASSUME NEW Refs, NEW spec \in Specs(Refs)
  PROVE  /\ spec.source # None => buildStreamPlan(spec) \in Plans(Refs)
         /\ spec.raw # None => buildRawPlan(spec) \in Plans(Refs)
         /\ finishBufferedPlan(spec) \in Plans(Refs)
<1>0. /\ spec.source \in Refs \cup {None} /\ spec.raw \in GoodRaws \cup {None}
      /\ spec.deterministic \in BOOLEAN /\ spec.zip64 \in BOOLEAN /\ spec.content \in Contents
  BY DEF Specs
<1>1. spec.source # None => buildStreamPlan(spec) \in Plans(Refs)
  <2>1. methodOf(spec) \in Nat
    BY DEF methodOf, METHOD_STORE, METHOD_DEFLATE
  <2>2. <<>> \in Seq(FileUnits) /\ <<>> \in Contents
    BY DEF Contents
  <2>3. Plan(spec, methodOf(spec), <<>>, <<>>, 0) \in Plans(Refs)
    BY <2>1, <2>2, PlanTyped
  <2>4. QED
    BY <1>0, <2>3 DEF buildStreamPlan, Plans
<1>2. spec.raw # None => buildRawPlan(spec) \in Plans(Refs)
  <2>1. SUFFICES ASSUME spec.raw \in GoodRaws PROVE buildRawPlan(spec) \in Plans(Refs)
    BY <1>0
  <2>2. /\ spec.raw.method \in Nat /\ spec.raw.payload \in Seq(FileUnits)
        /\ spec.raw.crc \in Contents /\ spec.raw.uncompressedSize \in Nat
        /\ spec.raw.encrypted \in BOOLEAN
    BY <2>1 DEF GoodRaws
  <2>3. Plan(spec, spec.raw.method, spec.raw.payload, spec.raw.crc, spec.raw.uncompressedSize)
          \in Plans(Refs)
    BY <2>2, PlanTyped
  <2>4. QED
    BY <2>2, <2>3 DEF buildRawPlan, Plans
<1>3. finishBufferedPlan(spec) \in Plans(Refs)
  <2> DEFINE size == ContentSize(spec.content)
  <2> DEFINE stored == IF size = 0 THEN <<>> ELSE <<DataUnit(METHOD_STORE, size, spec.content, TRUE)>>
  <2>1. size \in Nat
    BY <1>0, ContentSizeNat
  <2>2. DataUnit(METHOD_STORE, size, spec.content, TRUE) \in FileUnits
    BY <1>0, <2>1 DEF DataUnit, METHOD_STORE, FileUnits, DataUnits
  <2>3. stored \in Seq(FileUnits)
    <3>1. <<>> \in Seq(FileUnits)
      OBVIOUS
    <3> HIDE DEF size
    <3>2. <<DataUnit(METHOD_STORE, size, spec.content, TRUE)>> \in Seq(FileUnits)
      BY <2>2, Singleton
    <3>3. QED
      BY <3>1, <3>2
  <2>4. <<Deflated(spec.content)>> \in Seq(FileUnits)
    BY <1>0, DeflatedTyped
  <2> HIDE DEF size, stored
  <2>5. Plan(spec, METHOD_DEFLATE, <<Deflated(spec.content)>>, spec.content, size) \in Plans(Refs)
    BY <1>0, <2>1, <2>4, PlanTyped DEF METHOD_DEFLATE
  <2>6. Plan(spec, METHOD_STORE, stored, spec.content, size) \in Plans(Refs)
    BY <1>0, <2>1, <2>3, PlanTyped DEF METHOD_STORE
  <2>7. QED
    BY <2>5, <2>6 DEF finishBufferedPlan, size, stored
<1>4. QED
  BY <1>1, <1>2, <1>3

(* So does the planner of them all, one for each. *)
LEMMA PlanArchiveTyped ==
  ASSUME NEW Refs, NEW specs \in Seq(Specs(Refs))
  PROVE  planArchive(specs) \in Seq(Plans(Refs)) /\ Len(planArchive(specs)) = Len(specs)
<1>1. ASSUME NEW i \in DOMAIN specs PROVE planArchive(specs)[i] \in Plans(Refs)
  <2>1. specs[i] \in Specs(Refs)
    OBVIOUS
  <2>2. planArchive(specs)[i] \in {buildStreamPlan(specs[i]), buildRawPlan(specs[i]), finishBufferedPlan(specs[i])}
    BY DEF planArchive
  <2>3. QED
    BY <2>1, PlansTyped DEF planArchive
<1>2. DOMAIN planArchive(specs) = 1 .. Len(specs)
  BY DEF planArchive
<1>3. QED
  BY <1>1, <1>2 DEF planArchive

(* A local header of typed fields is one. *)
LEMMA LocalRecordTyped ==
  ASSUME NEW f, f.name \in Names, f.bit3 \in BOOLEAN, f.encrypted \in BOOLEAN,
         f.method \in Nat, f.crc \in Contents, f.extra \in Seq(ExtraFields),
         f.uncompressedSize \in Nat, f.compressedSize \in Nat
  PROVE  writeLocalFileHeader(f) \in FileUnits
<1>1. NameLength(f.name) \in Nat /\ ExtraSize(f.extra) \in Nat
  BY NameLengthNat, ExtraSizeNat
<1>2. /\ U32(f.uncompressedSize) \in Nat /\ U32(f.compressedSize) \in Nat
      /\ Declared(ExtraSize(f.extra)) \in Nat
  BY <1>1, FieldTypes
<1>3. LocalHeaderSize + NameLength(f.name) + ExtraSize(f.extra) \in Nat
  BY <1>1 DEF LocalHeaderSize
<1>4. writeLocalFileHeader(f) \in LocalHeaders
  BY <1>2, <1>3 DEF writeLocalFileHeader, LocalHeaders
<1>5. QED
  BY <1>4 DEF FileUnits

(* A directory record of typed fields is one. *)
LEMMA DirectoryRecordTyped ==
  ASSUME NEW f, f.name \in Names, f.bit3 \in BOOLEAN, f.encrypted \in BOOLEAN,
         f.method \in Nat, f.crc \in Contents, f.extra \in Seq(ExtraFields),
         f.uncompressedSize \in Nat, f.compressedSize \in Nat, f.comment \in Nat,
         f.attributes \in STRING, f.pinned \in BOOLEAN, NEW offset \in Nat
  PROVE  writeCentralFileHeader(f, offset) \in FileUnits
<1>1. NameLength(f.name) \in Nat /\ ExtraSize(f.extra) \in Nat
  BY NameLengthNat, ExtraSizeNat
<1>2. /\ U32(f.uncompressedSize) \in Nat /\ U32(f.compressedSize) \in Nat
      /\ Declared(ExtraSize(f.extra)) \in Nat /\ U32(offset) \in Nat
  BY <1>1, FieldTypes
<1>3. CentralHeaderSize + NameLength(f.name) + ExtraSize(f.extra) + f.comment \in Nat
  BY <1>1 DEF CentralHeaderSize
<1>4. writeCentralFileHeader(f, offset) \in DirectoryRecords
  BY <1>2, <1>3 DEF writeCentralFileHeader, DirectoryRecords
<1>5. QED
  BY <1>4 DEF FileUnits

-----------------------------------------------------------------------------
(* The generator of the archive.                                           *)

(* The local header of a plan. *)
LEMMA LocalHeaderTyped ==
  ASSUME NEW Refs, NEW plan \in Plans(Refs)
  PROVE  LocalHeader(plan) \in FileUnits
<1> DEFINE known == IF isStream(plan) \/ plan.zip64
                    THEN [compressed |-> plan.compressedSize,
                          uncompressed |-> plan.uncompressedSize, extra |-> <<>>]
                    ELSE lfhZip64Fields(plan.uncompressedSize, plan.compressedSize)
<1> DEFINE size(n) == IF plan.zip64 THEN SentinelU32 ELSE IF isStream(plan) THEN 0 ELSE n
<1> DEFINE sizeExtra == IF plan.zip64 THEN <<buildZip64Extra(0, 0, Undefined)>> ELSE known.extra
<1> DEFINE crc == IF isStream(plan) THEN <<>> ELSE plan.crc
<1>1. /\ plan.name \in Names /\ plan.bit3 \in BOOLEAN /\ plan.encrypted \in BOOLEAN
      /\ plan.method \in Nat /\ plan.crc \in Contents /\ plan.extra \in Seq(ExtraFields)
      /\ plan.uncompressedSize \in Nat /\ plan.compressedSize \in Nat
  BY DEF Plans
<1>2. /\ known.compressed \in Nat /\ known.uncompressed \in Nat
      /\ known.extra \in Seq(ExtraFields)
  BY <1>1, LocalSizesTyped, EmptyTyped
<1>3. size(known.compressed) \in Nat /\ size(known.uncompressed) \in Nat
  BY <1>2, SentinelAssumption
<1>4. sizeExtra \in Seq(ExtraFields)
  <2>1. buildZip64Extra(0, 0, Undefined) \in ExtraFields
    BY Zip64ExtraTyped DEF Wide
  <2>2. <<buildZip64Extra(0, 0, Undefined)>> \in Seq(ExtraFields)
    BY <2>1, Singleton
  <2>3. QED
    BY <1>2, <2>2
<1>5. sizeExtra \o plan.extra \in Seq(ExtraFields)
  BY <1>1, <1>4, ConcatTyped
<1>6. crc \in Contents
  BY <1>1, ContentSizeEmpty
<1> DEFINE f == [name |-> plan.name, bit3 |-> plan.bit3, encrypted |-> plan.encrypted,
                 method |-> plan.method, crc |-> crc, compressedSize |-> size(known.compressed),
                 uncompressedSize |-> size(known.uncompressed), extra |-> sizeExtra \o plan.extra]
<1>7. LocalHeader(plan) = writeLocalFileHeader(f)
  BY DEF LocalHeader
<1>8. /\ f.name \in Names /\ f.bit3 \in BOOLEAN /\ f.encrypted \in BOOLEAN
      /\ f.method \in Nat /\ f.crc \in Contents /\ f.extra \in Seq(ExtraFields)
      /\ f.uncompressedSize \in Nat /\ f.compressedSize \in Nat
  BY <1>1, <1>3, <1>5, <1>6
<1> HIDE DEF f
<1>9. writeLocalFileHeader(f) \in FileUnits
  BY <1>8, LocalRecordTyped
<1>10. QED
  BY <1>7, <1>9

(* The directory record of a plan. *)
LEMMA CentralHeaderTyped ==
  ASSUME NEW Refs, NEW plan \in Plans(Refs), NEW offset \in Nat
  PROVE  CentralHeader(plan, offset) \in FileUnits
<1> DEFINE over(n) == IF n > SentinelU32 - 1 THEN n ELSE Undefined
<1> DEFINE wide(n) == IF plan.zip64 THEN n ELSE over(n)
<1> DEFINE usesZip64 ==
      {wide(plan.uncompressedSize), wide(plan.compressedSize), over(offset)} # {Undefined}
<1> DEFINE extra ==
      IF usesZip64 THEN <<buildZip64Extra(wide(plan.uncompressedSize),
                                          wide(plan.compressedSize), over(offset))>>
      ELSE <<>>
<1> DEFINE classic(n, resolved) == IF resolved = Undefined THEN n ELSE SentinelU32
<1> DEFINE f == [plan EXCEPT !.compressedSize = classic(@, wide(@)),
                             !.uncompressedSize = classic(@, wide(@)),
                             !.extra = extra \o @]
<1>1. /\ plan.name \in Names /\ plan.bit3 \in BOOLEAN /\ plan.encrypted \in BOOLEAN
      /\ plan.method \in Nat /\ plan.crc \in Contents /\ plan.extra \in Seq(ExtraFields)
      /\ plan.uncompressedSize \in Nat /\ plan.compressedSize \in Nat
      /\ plan.comment \in Nat /\ plan.attributes \in STRING /\ plan.pinned \in BOOLEAN
  BY DEF Plans
<1>2. \A n \in Nat : over(n) \in Wide /\ wide(n) \in Wide
  BY DEF Wide
<1>3. extra \in Seq(ExtraFields)
  <2>1. buildZip64Extra(wide(plan.uncompressedSize), wide(plan.compressedSize), over(offset))
          \in ExtraFields
    <3> HIDE DEF over, wide
    <3>1. QED
      BY <1>1, <1>2, Zip64ExtraTyped
  <2> HIDE DEF over, wide
  <2>2. QED
    BY <2>1, Singleton, EmptyTyped
<1>4. \A n \in Nat : classic(n, wide(n)) \in Nat /\ classic(n, over(n)) \in Nat
  BY SentinelAssumption
<1> HIDE DEF extra, classic, over, wide
<1>5. extra \o plan.extra \in Seq(ExtraFields)
  BY <1>1, <1>3, ConcatTyped
<1>6. /\ f.name \in Names /\ f.bit3 \in BOOLEAN /\ f.encrypted \in BOOLEAN
      /\ f.method \in Nat /\ f.crc \in Contents
      /\ f.comment \in Nat /\ f.attributes \in STRING /\ f.pinned \in BOOLEAN
      /\ f.uncompressedSize \in Nat /\ f.compressedSize \in Nat
      /\ f.extra \in Seq(ExtraFields)
  <2>1. /\ f.name = plan.name /\ f.bit3 = plan.bit3 /\ f.encrypted = plan.encrypted
        /\ f.method = plan.method /\ f.crc = plan.crc /\ f.comment = plan.comment
        /\ f.attributes = plan.attributes /\ f.pinned = plan.pinned
        /\ f.extra = extra \o plan.extra
        /\ f.uncompressedSize = classic(plan.uncompressedSize, wide(plan.uncompressedSize))
        /\ f.compressedSize = classic(plan.compressedSize, wide(plan.compressedSize))
    BY DEF Plans
  <2> HIDE DEF f
  <2>2. QED
    BY <1>1, <1>4, <1>5, <2>1
<1>7. classic(offset, over(offset)) \in Nat
  BY <1>4
<1>8. CentralHeader(plan, offset) = writeCentralFileHeader(f, classic(offset, over(offset)))
  BY DEF CentralHeader, extra, classic, over, wide
<1> HIDE DEF f
<1>9. writeCentralFileHeader(f, classic(offset, over(offset))) \in FileUnits
  BY <1>6, <1>7, DirectoryRecordTyped
<1>10. QED
  BY <1>8, <1>9

(* What a generator is at every point, and where it is in its archive. *)
Generators(Refs) ==
  [at : {"header", "entry", "payload", "central", "zip64", "locator", "eocd", "done"},
   i : Nat, plans : Seq(Plans(Refs)), comment : Seq(FileUnits), offset : Nat,
   offsets : Seq(Nat), cdOffset : Nat, cdSize : Nat, z64Pos : Nat]
InEntries == {"header", "entry", "payload"}
InRange(g) ==
  /\ g.at \in InEntries =>
       /\ g.i \in 1 .. Len(g.plans) /\ Len(g.offsets) = g.i
  /\ g.at \notin InEntries => Len(g.offsets) = Len(g.plans) /\ g.cdOffset <= g.offset
  /\ g.at = "central" => g.i \in 1 .. Len(g.plans)
  /\ g.at = "entry" => isStream(g.plans[g.i])
Well(g, Refs) == g \in Generators(Refs) /\ InRange(g)

(* The end record with its comment. *)
LEMMA EocdTyped ==
  ASSUME NEW Refs, NEW g \in Generators(Refs)
  PROVE  Eocd(g) \in Seq(FileUnits)
<1> DEFINE classic(n, sentinel) == IF n > sentinel - 1 THEN sentinel ELSE n
<1>1. /\ Count(g) \in Nat /\ g.cdSize \in Nat /\ g.cdOffset \in Nat
      /\ g.comment \in Seq(FileUnits)
  BY DEF Generators, Count
<1>2. /\ classic(Count(g), SentinelU16) \in Nat /\ classic(g.cdSize, SentinelU32) \in Nat
      /\ classic(g.cdOffset, SentinelU32) \in Nat
  BY <1>1, SentinelAssumption
<1>3. \A n \in Nat, size \in Nat, offset \in Nat :
        writeEocd(n, size, offset, g.comment) \in Seq(FileUnits)
  <2>1. SUFFICES ASSUME NEW n \in Nat, NEW size \in Nat, NEW offset \in Nat
                 PROVE writeEocd(n, size, offset, g.comment) \in Seq(FileUnits)
    OBVIOUS
  <2> DEFINE r == [kind |-> "eocd", len |-> EocdSize, disk |-> 0, entriesOnDisk |-> U16(n),
                   totalEntries |-> U16(n), cdSize |-> U32(size), cdOffset |-> U32(offset),
                   commentLength |-> Length(g.comment)]
  <2>2. U16(n) \in Nat /\ U32(size) \in Nat /\ U32(offset) \in Nat /\ Length(g.comment) \in Nat
    BY <1>1, FieldTypes, LengthNat
  <2>3. r \in ClosingRecords
    BY <2>2 DEF ClosingRecords, EocdSize
  <2>4. writeEocd(n, size, offset, g.comment) = <<r>> \o g.comment
    BY DEF writeEocd
  <2> HIDE DEF r
  <2>5. <<r>> \in Seq(FileUnits)
    BY <2>3, Singleton DEF FileUnits
  <2>6. QED
    BY <1>1, <2>4, <2>5, ConcatTyped
<1>4. Eocd(g) = writeEocd(classic(Count(g), SentinelU16), classic(g.cdSize, SentinelU32),
                          classic(g.cdOffset, SentinelU32), g.comment)
  BY DEF Eocd
<1> HIDE DEF classic
<1>5. QED
  BY <1>2, <1>3, <1>4

(* Whatever the generator yields are units. *)
LEMMA SegmentTyped ==
  ASSUME NEW Refs, NEW g, Well(g, Refs), g.at \notin {"entry", "done"}
  PROVE  Segment(g) \in Seq(FileUnits)
<1>0. g \in Generators(Refs) /\ InRange(g)
  BY DEF Well
<1>1. CASE g.at = "header"
  <2>1. g.plans[g.i] \in Plans(Refs)
    BY <1>0, <1>1 DEF Generators, InRange, InEntries
  <2>2. QED
    BY <1>1, <2>1, LocalHeaderTyped, Singleton DEF Segment
<1>2. CASE g.at = "payload"
  <2>1. g.plans[g.i] \in Plans(Refs)
    BY <1>0, <1>2 DEF Generators, InRange, InEntries
  <2>2. g.plans[g.i].payload \in Seq(FileUnits)
    BY <2>1 DEF Plans
  <2>3. QED
    BY <1>2, <2>2 DEF Segment
<1>3. CASE g.at = "central"
  <2>1. g.plans[g.i] \in Plans(Refs) /\ g.offsets[g.i] \in Nat
    BY <1>0, <1>3 DEF Generators, InRange, InEntries
  <2>2. QED
    BY <1>3, <2>1, CentralHeaderTyped, Singleton DEF Segment
<1>4. CASE g.at = "zip64"
  <2>1. Count(g) \in Nat /\ g.cdSize \in Nat /\ g.cdOffset \in Nat
    BY <1>0 DEF Generators, Count
  <2>2. writeZip64Eocd(Count(g), g.cdSize, g.cdOffset) \in FileUnits
    BY <2>1 DEF writeZip64Eocd, Zip64EocdSize, FileUnits, Zip64Ends
  <2>3. QED
    BY <1>4, <2>2, Singleton DEF Segment
<1>5. CASE g.at = "locator"
  <2>1. g.z64Pos \in Nat
    BY <1>0 DEF Generators
  <2>2. writeZip64Locator(g.z64Pos) \in FileUnits
    BY <2>1 DEF writeZip64Locator, LocatorSize, FileUnits, Locators
  <2>3. QED
    BY <1>5, <2>2, Singleton DEF Segment
<1>6. CASE g.at = "eocd"
  BY <1>0, <1>6, EocdTyped DEF Segment
<1>7. g.at \in {"header", "payload", "central", "zip64", "locator", "eocd"}
  BY <1>0 DEF Generators
<1>8. QED
  BY <1>1, <1>2, <1>3, <1>4, <1>5, <1>6, <1>7

(* Where the generator goes from a point, and that its plans stay.         *)
LEMMA NextRecordWell ==
  ASSUME NEW Refs, NEW g \in Generators(Refs),
         Len(g.offsets) = Len(g.plans), g.cdOffset <= g.offset
  PROVE  /\ Well(NextRecord(g), Refs) /\ NextRecord(g).plans = g.plans
         /\ NextRecord(g).at \notin InEntries /\ NextRecord(g).at # "done"
<1>0. g.i \in Nat /\ Len(g.plans) \in Nat /\ g.offset \in Nat /\ g.cdOffset \in Nat
  BY DEF Generators
<1>1. CASE g.i < Count(g)
  <2>1. NextRecord(g) = [g EXCEPT !.at = "central", !.i = @ + 1]
    BY <1>1 DEF NextRecord
  <2>2. g.i + 1 \in 1 .. Len(g.plans) /\ g.i + 1 \in Nat
    BY <1>0, <1>1 DEF Count
  <2>3. [g EXCEPT !.at = "central", !.i = g.i + 1] \in Generators(Refs)
    BY <2>2, Zenon DEF Generators
  <2>4. /\ NextRecord(g).at = "central" /\ NextRecord(g).i = g.i + 1
        /\ NextRecord(g).plans = g.plans /\ NextRecord(g).offsets = g.offsets
        /\ NextRecord(g).cdOffset = g.cdOffset /\ NextRecord(g).offset = g.offset
    BY <2>1 DEF Generators
  <2>5. QED
    BY <2>1, <2>2, <2>3, <2>4 DEF Well, InRange, InEntries
<1>2. CASE ~(g.i < Count(g))
  <2>0. NextRecord(g) = Trailer(g)
    BY <1>2 DEF NextRecord
  <2>1. PICK at \in {"zip64", "eocd"} :
          Trailer(g) = [g EXCEPT !.at = at, !.cdSize = g.offset - g.cdOffset, !.z64Pos = g.offset]
    BY DEF Trailer
  <2>2. g.offset - g.cdOffset \in Nat
    BY <1>0
  <2>3. [g EXCEPT !.at = at, !.cdSize = g.offset - g.cdOffset, !.z64Pos = g.offset]
          \in Generators(Refs)
    BY <1>0, <2>2, Zenon DEF Generators
  <2>4. /\ NextRecord(g).at = at /\ NextRecord(g).i = g.i
        /\ NextRecord(g).plans = g.plans /\ NextRecord(g).offsets = g.offsets
        /\ NextRecord(g).cdOffset = g.cdOffset /\ NextRecord(g).offset = g.offset
    BY <2>0, <2>1 DEF Generators
  <2>5. QED
    BY <2>0, <2>1, <2>3, <2>4 DEF Well, InRange, InEntries
<1>3. QED
  BY <1>1, <1>2

(* It goes on to the next entry, or to the directory. *)
LEMMA NextEntryWell ==
  ASSUME NEW Refs, NEW g \in Generators(Refs), Len(g.offsets) = g.i, g.i <= Len(g.plans)
  PROVE  /\ Well(NextEntry(g), Refs) /\ NextEntry(g).plans = g.plans
         /\ IF g.i < Len(g.plans) THEN NextEntry(g).at = "header" /\ NextEntry(g).i = g.i + 1
            ELSE NextEntry(g).at \notin InEntries /\ NextEntry(g).at # "done"
<1>0. /\ g.i \in Nat /\ Len(g.plans) \in Nat /\ g.offset \in Nat /\ g.cdOffset \in Nat
      /\ g.offsets \in Seq(Nat)
  BY DEF Generators
<1>1. CASE g.i < Count(g)
  <2>1. NextEntry(g) = [g EXCEPT !.at = "header", !.i = @ + 1, !.offsets = Append(@, g.offset)]
    BY <1>1 DEF NextEntry
  <2>2. g.i + 1 \in 1 .. Len(g.plans)
    BY <1>0, <1>1 DEF Count
  <2>3. Append(g.offsets, g.offset) \in Seq(Nat) /\ Len(Append(g.offsets, g.offset)) = g.i + 1
    BY <1>0
  <2>4. NextEntry(g) \in Generators(Refs)
    <3>1. g.i + 1 \in Nat
      BY <1>0
    <3>2. [g EXCEPT !.at = "header", !.i = g.i + 1, !.offsets = Append(g.offsets, g.offset)]
            \in Generators(Refs)
      BY <2>3, <3>1, Zenon DEF Generators
    <3>3. QED
      BY <2>1, <3>2
  <2>5. /\ NextEntry(g).at = "header" /\ NextEntry(g).i = g.i + 1 /\ NextEntry(g).plans = g.plans
        /\ NextEntry(g).offsets = Append(g.offsets, g.offset)
    BY <2>1 DEF Generators
  <2>6. InRange(NextEntry(g))
    BY <2>2, <2>3, <2>5 DEF InRange, InEntries
  <2>7. QED
    BY <1>1, <2>4, <2>5, <2>6 DEF Well, Count
<1>2. CASE ~(g.i < Count(g))
  <2> DEFINE h == [g EXCEPT !.i = 0, !.cdOffset = g.offset]
  <2>1. NextEntry(g) = NextRecord(h)
    BY <1>2 DEF NextEntry
  <2>2. /\ h \in Generators(Refs) /\ Len(h.offsets) = Len(h.plans) /\ h.cdOffset <= h.offset
        /\ h.plans = g.plans
    <3>1. h \in Generators(Refs)
      <4>1. 0 \in Nat
        OBVIOUS
      <4>2. QED
        BY <1>0, <4>1, Zenon DEF Generators
    <3>2. h.offsets = g.offsets /\ h.plans = g.plans /\ h.cdOffset = g.offset /\ h.offset = g.offset
      BY DEF Generators
    <3>3. QED
      BY <1>0, <1>2, <3>1, <3>2 DEF Count
  <2> HIDE DEF h
  <2>3. /\ Well(NextRecord(h), Refs) /\ NextRecord(h).plans = h.plans
        /\ NextRecord(h).at \notin InEntries /\ NextRecord(h).at # "done"
    BY <2>2, NextRecordWell
  <2>4. QED
    BY <1>2, <2>1, <2>2, <2>3 DEF Count
<1>3. QED
  BY <1>1, <1>2

(* It starts at the first entry, or without one at the directory. *)
LEMMA GeneratorStarts ==
  ASSUME NEW Refs, NEW plans \in Seq(Plans(Refs)), NEW comment \in Seq(FileUnits)
  PROVE  LET g == archiveSegments(plans, comment)
         IN  /\ Well(g, Refs) /\ g.plans = plans
             /\ IF 0 < Len(plans) THEN g.at = "header" /\ g.i = 1
                ELSE g.at \notin InEntries /\ g.at # "done"
<1> DEFINE h == [at |-> "header", i |-> 0, plans |-> plans, comment |-> comment, offset |-> 0,
                 offsets |-> <<>>, cdOffset |-> 0, cdSize |-> 0, z64Pos |-> 0]
<1>1. archiveSegments(plans, comment) = NextEntry(h)
  BY DEF archiveSegments
<1>2. <<>> \in Seq(Nat) /\ Len(<<>>) = 0 /\ Len(plans) \in Nat
  OBVIOUS
<1>3. /\ h \in Generators(Refs) /\ Len(h.offsets) = h.i /\ h.i <= Len(h.plans)
      /\ h.plans = plans /\ h.i = 0
  BY <1>2 DEF Generators
<1> HIDE DEF h
<1>4. /\ Well(NextEntry(h), Refs) /\ NextEntry(h).plans = h.plans
      /\ IF h.i < Len(h.plans) THEN NextEntry(h).at = "header" /\ NextEntry(h).i = h.i + 1
         ELSE NextEntry(h).at \notin InEntries /\ NextEntry(h).at # "done"
  BY <1>3, NextEntryWell
<1>5. QED
  BY <1>1, <1>3, <1>4

(* Marking a plan changes no other, and does not move it. *)
LEMMA MarkedWell ==
  ASSUME NEW Refs, NEW g, Well(g, Refs), g.at \notin {"entry", "done"}
  PROVE  /\ Well(Marked(g), Refs) /\ Marked(g).at = g.at /\ Marked(g).i = g.i
         /\ Len(Marked(g).plans) = Len(g.plans)
         /\ \A k \in 1 .. Len(g.plans) :
              Marked(g).plans[k] = IF k = g.i /\ Marked(g) # g
                                   THEN [g.plans[k] EXCEPT !.emitted = Identity(g)]
                                   ELSE g.plans[k]
<1>0. g \in Generators(Refs) /\ InRange(g)
  BY DEF Well
<1>1. CASE Marked(g) = g
  BY <1>0, <1>1
<1>2. CASE Marked(g) # g
  <2>1. Marked(g) = [g EXCEPT !.plans[g.i].emitted = Identity(g)] /\ g.at \in {"payload", "header"}
    BY <1>2 DEF Marked
  <2>2. g.i \in 1 .. Len(g.plans) /\ g.plans[g.i] \in Plans(Refs) /\ g.i \in Nat
    BY <1>0, <2>1 DEF InRange, InEntries, Generators
  <2>3. Identity(g) \in Emissions
    BY <2>1, <2>2 DEF Identity, Emissions, Plans
  <2> DEFINE p == [g.plans[g.i] EXCEPT !.emitted = Identity(g)]
  <2>4. p \in Plans(Refs) /\ p.source = g.plans[g.i].source
    BY <2>2, <2>3 DEF Plans
  <2>5. Marked(g) = [g EXCEPT !.plans = [g.plans EXCEPT ![g.i] = p]]
    BY <1>0, <2>1 DEF Generators
  <2> HIDE DEF p
  <2>6. [g.plans EXCEPT ![g.i] = p] \in Seq(Plans(Refs))
        /\ Len([g.plans EXCEPT ![g.i] = p]) = Len(g.plans)
    BY <1>0, <2>2, <2>4 DEF Generators
  <2>7. Marked(g) \in Generators(Refs)
    BY <1>0, <2>5, <2>6 DEF Generators
  <2>8. /\ Marked(g).at = g.at /\ Marked(g).i = g.i /\ Marked(g).offsets = g.offsets
        /\ Marked(g).plans = [g.plans EXCEPT ![g.i] = p]
    BY <1>0, <2>5 DEF Generators
  <2>9. InRange(Marked(g))
    BY <1>0, <2>1, <2>6, <2>8 DEF InRange, InEntries
  <2>10. ASSUME NEW k \in 1 .. Len(g.plans)
         PROVE Marked(g).plans[k] = IF k = g.i THEN p ELSE g.plans[k]
    BY <1>0, <2>8 DEF Generators
  <2>11. QED
    BY <1>2, <2>6, <2>7, <2>8, <2>9, <2>10 DEF Well, p
<1>3. QED
  BY <1>1, <1>2

(* Which point comes after an entry: the next header, or the directory. *)
Beyond(g, h) ==
  IF g.i < Len(g.plans) THEN h.at = "header" /\ h.i = g.i + 1
  ELSE h.at \notin InEntries /\ h.at # "done"
(* An entry whose header is all there is to write. *)
HeaderOnly(g) == ~isStream(g.plans[g.i]) /\ g.plans[g.i].payload = <<>>

(* Resumed, it frees the payload it emitted and nothing else. *)
LEMMA ResumedWell ==
  ASSUME NEW Refs, NEW g, Well(g, Refs), g.at # "done", NEW consumed \in Nat
  PROVE  LET h == Resumed(g, consumed)
         IN  /\ Well(h, Refs) /\ Len(h.plans) = Len(g.plans)
             /\ \A k \in 1 .. Len(g.plans) :
                  h.plans[k] = IF g.at = "payload" /\ k = g.i
                               THEN [g.plans[k] EXCEPT !.payload = <<>>] ELSE g.plans[k]
             /\ g.at \in {"payload", "entry"} => Beyond(g, h)
             /\ g.at = "header" => IF HeaderOnly(g) THEN Beyond(g, h)
                                   ELSE h.at \in {"payload", "entry"} /\ h.i = g.i
             /\ g.at \notin InEntries => h.at \notin InEntries
<1>0. g \in Generators(Refs) /\ InRange(g) /\ Len(g.plans) \in Nat
  BY DEF Well, Generators
<1> DEFINE step == IF g.at = "entry" THEN consumed ELSE Length(Segment(g))
<1> DEFINE moved == [g EXCEPT !.offset = @ + step]
<1>1. step \in Nat
  BY SegmentTyped, LengthNat
<1> HIDE DEF step
<1>2. g.offset + step \in Nat /\ g.offset <= g.offset + step /\ g.offset \in Nat
  <2>1. g.offset \in Nat
    BY <1>0 DEF Generators
  <2>2. QED
    BY <1>1, <2>1
<1>3. moved \in Generators(Refs)
  BY <1>0, <1>2, Zenon DEF Generators
<1>4. /\ moved.at = g.at /\ moved.i = g.i /\ moved.plans = g.plans /\ moved.offsets = g.offsets
      /\ moved.cdOffset = g.cdOffset /\ moved.offset = g.offset + step
  BY <1>0 DEF Generators
<1>5. Resumed(g, consumed) =
        CASE g.at = "header" /\ isStream(g.plans[g.i]) -> [moved EXCEPT !.at = "entry"]
          [] g.at = "header" /\ g.plans[g.i].payload # <<>> -> [moved EXCEPT !.at = "payload"]
          [] g.at = "payload" -> NextEntry([moved EXCEPT !.plans[g.i].payload = <<>>])
          [] g.at = "central" -> NextRecord(moved)
          [] g.at = "zip64" -> [moved EXCEPT !.at = "locator"]
          [] g.at = "locator" -> [moved EXCEPT !.at = "eocd"]
          [] g.at = "eocd" -> [moved EXCEPT !.at = "done"]
          [] OTHER -> NextEntry(moved)
  BY DEF Resumed, step
<1> HIDE DEF moved
<1> DEFINE h == Resumed(g, consumed)
<1>6. ASSUME NEW at \in {"entry", "payload", "locator", "eocd", "done"},
             h = [moved EXCEPT !.at = at]
      PROVE  /\ h \in Generators(Refs) /\ h.at = at /\ h.i = g.i /\ h.plans = g.plans
             /\ h.offsets = g.offsets /\ h.cdOffset = g.cdOffset /\ h.offset = g.offset + step
  <2>1. [moved EXCEPT !.at = at] \in Generators(Refs)
    BY <1>3, Zenon DEF Generators
  <2>2. QED
    BY <1>3, <1>4, <1>6, <2>1 DEF Generators
<1>7. CASE g.at = "header" /\ ~HeaderOnly(g)
  <2>1. PICK at \in {"entry", "payload"} :
          h = [moved EXCEPT !.at = at] /\ (at = "entry" => isStream(g.plans[g.i]))
    BY <1>5, <1>7 DEF HeaderOnly
  <2> HIDE DEF h
  <2>2. /\ h \in Generators(Refs) /\ h.at = at /\ h.i = g.i /\ h.plans = g.plans
        /\ h.offsets = g.offsets
    BY <1>6, <2>1
  <2>3. Well(h, Refs)
    BY <1>0, <1>7, <2>1, <2>2 DEF Well, InRange, InEntries
  <2>4. QED
    BY <1>7, <2>2, <2>3 DEF h, InEntries
<1>8. CASE (g.at = "header" /\ HeaderOnly(g)) \/ g.at = "entry"
  <2>1. h = NextEntry(moved)
    BY <1>5, <1>8 DEF HeaderOnly
  <2>2. Len(moved.offsets) = moved.i /\ moved.i <= Len(moved.plans)
    BY <1>0, <1>4, <1>8 DEF InRange, InEntries
  <2> HIDE DEF h
  <2>3. /\ Well(h, Refs) /\ h.plans = moved.plans
        /\ IF moved.i < Len(moved.plans) THEN h.at = "header" /\ h.i = moved.i + 1
           ELSE h.at \notin InEntries /\ h.at # "done"
    BY <1>3, <2>1, <2>2, NextEntryWell
  <2>4. Beyond(g, h) /\ h.plans = g.plans
    BY <1>4, <2>3 DEF Beyond
  <2>5. QED
    BY <1>8, <2>3, <2>4 DEF h, InEntries
<1>9. CASE g.at = "payload"
  <2> DEFINE p == [g.plans[g.i] EXCEPT !.payload = <<>>]
  <2> DEFINE m == [moved EXCEPT !.plans[g.i].payload = <<>>]
  <2>1. h = NextEntry(m)
    BY <1>5, <1>9
  <2>2. g.i \in 1 .. Len(g.plans) /\ g.plans[g.i] \in Plans(Refs) /\ Len(g.offsets) = g.i
    BY <1>0, <1>9 DEF InRange, InEntries, Generators
  <2>3. p \in Plans(Refs)
    <3>1. <<>> \in Seq(FileUnits)
      BY EmptyTyped
    <3>2. QED
      BY <2>2, <3>1, Zenon DEF Plans
  <2>4. m = [moved EXCEPT !.plans = [g.plans EXCEPT ![g.i] = p]]
    BY <1>3, <1>4 DEF Generators
  <2> HIDE DEF p
  <2>5. [g.plans EXCEPT ![g.i] = p] \in Seq(Plans(Refs))
        /\ Len([g.plans EXCEPT ![g.i] = p]) = Len(g.plans)
    BY <1>0, <2>2, <2>3 DEF Generators
  <2>6. m \in Generators(Refs)
    BY <1>3, <2>4, <2>5, Zenon DEF Generators
  <2>7. m.i = g.i /\ m.offsets = g.offsets /\ m.plans = [g.plans EXCEPT ![g.i] = p]
    BY <1>3, <1>4, <2>4 DEF Generators
  <2> HIDE DEF h, m
  <2>8. Len(m.offsets) = m.i /\ m.i <= Len(m.plans)
    BY <2>2, <2>5, <2>7
  <2>9. /\ Well(h, Refs) /\ h.plans = m.plans
        /\ IF m.i < Len(m.plans) THEN h.at = "header" /\ h.i = m.i + 1
           ELSE h.at \notin InEntries /\ h.at # "done"
    BY <2>1, <2>6, <2>8, NextEntryWell
  <2>10. Beyond(g, h) /\ Len(h.plans) = Len(g.plans)
    BY <2>5, <2>7, <2>9 DEF Beyond
  <2>11. ASSUME NEW k \in 1 .. Len(g.plans) PROVE h.plans[k] = IF k = g.i THEN p ELSE g.plans[k]
    BY <1>0, <2>7, <2>9 DEF Generators
  <2>12. QED
    BY <1>9, <2>9, <2>10, <2>11 DEF h, p, InEntries
<1>10. CASE g.at = "central"
  <2>1. h = NextRecord(moved)
    BY <1>5, <1>10
  <2>2. Len(moved.offsets) = Len(moved.plans) /\ moved.cdOffset <= moved.offset
    <3>1. g.cdOffset \in Nat /\ g.cdOffset <= g.offset
      BY <1>0, <1>10 DEF InRange, InEntries, Generators
    <3>2. g.cdOffset <= g.offset + step
      BY <1>1, <1>2, <3>1
    <3>3. QED
      BY <1>0, <1>4, <1>10, <3>2 DEF InRange, InEntries
  <2> HIDE DEF h
  <2>3. /\ Well(h, Refs) /\ h.plans = moved.plans /\ h.at \notin InEntries
    BY <1>3, <2>1, <2>2, NextRecordWell
  <2>4. QED
    BY <1>4, <1>10, <2>3 DEF h, InEntries
<1>11. CASE g.at \in {"zip64", "locator", "eocd"}
  <2>1. PICK at \in {"locator", "eocd", "done"} : h = [moved EXCEPT !.at = at]
    BY <1>5, <1>11
  <2> HIDE DEF h
  <2>2. /\ h \in Generators(Refs) /\ h.at = at /\ h.i = g.i /\ h.plans = g.plans
        /\ h.offsets = g.offsets /\ h.cdOffset = g.cdOffset /\ h.offset = g.offset + step
    BY <1>6, <2>1
  <2>3. g.cdOffset <= g.offset + step
    <3>1. g.cdOffset \in Nat /\ g.cdOffset <= g.offset
      BY <1>0, <1>11 DEF InRange, InEntries, Generators
    <3>2. QED
      BY <1>1, <1>2, <3>1
  <2>4. Well(h, Refs)
    BY <1>0, <1>11, <2>1, <2>2, <2>3 DEF Well, InRange, InEntries
  <2>5. QED
    BY <1>11, <2>1, <2>2, <2>4 DEF h, InEntries
<1>12. g.at \in {"header", "entry", "payload", "central", "zip64", "locator", "eocd"}
  BY <1>0 DEF Generators
<1>13. QED
  BY <1>7, <1>8, <1>9, <1>10, <1>11, <1>12

-----------------------------------------------------------------------------
(* The readers.  Where the units of a file begin, and what begins there.   *)

StartsOf(start, file) ==
  start = [i \in 1 .. Len(file) + 1 |-> IF i = 1 THEN 0 ELSE start[i - 1] + file[i - 1].len]

(* Every unit of a file has a place: behind the one before it.             *)
LEMMA StartsAre ==
  ASSUME NEW file \in Seq(FileUnits)
  PROVE  /\ \A i \in 1 .. Len(file) + 1 : Starts(file)[i] \in Nat
         /\ Starts(file)[1] = 0
         /\ \A i \in 2 .. Len(file) + 1 : Starts(file)[i] = Starts(file)[i - 1] + file[i - 1].len
<1> DEFINE c == CHOOSE start : StartsOf(start, file)
<1>0. Lens(file) \in Seq(Nat) /\ Len(Lens(file)) = Len(file) /\ Len(file) \in Nat
      /\ \A n \in 1 .. Len(file) : Lens(file)[n] = file[n].len
  <2>1. Len(file) \in Nat /\ DOMAIN file = 1 .. Len(file)
    OBVIOUS
  <2>2. QED
    BY <2>1, LengthIsTotal DEF Lens
<1>1. PICK sum \in [0 .. Len(Lens(file)) -> Nat] : PrefixSums(sum, Lens(file))
  BY <1>0, SumsExist
<1> DEFINE start == [i \in 1 .. Len(file) + 1 |-> sum[i - 1]]
<1>2. StartsOf(start, file)
  <2>1. sum[0] = 0 /\ \A n \in 1 .. Len(file) : sum[n] = sum[n - 1] + file[n].len
    <3>1. Len(Lens(file)) \in Nat
      BY <1>0
    <3>2. /\ sum[0] = 0
          /\ \A n \in 1 .. Len(Lens(file)) : sum[n] = sum[n - 1] + Lens(file)[n]
      BY <1>1, <3>1, SumStep
    <3>3. QED
      BY <1>0, <3>2
  <2>2. ASSUME NEW i \in 1 .. Len(file) + 1
        PROVE  start[i] = IF i = 1 THEN 0 ELSE start[i - 1] + file[i - 1].len
    <3>1. CASE i = 1
      BY <2>1, <3>1
    <3>2. CASE i # 1
      <4>1. i - 1 \in 1 .. Len(file) /\ i - 1 \in 1 .. Len(file) + 1 /\ (i - 1) - 1 = i - 2
        BY <1>0, <3>2
      <4>2. sum[i - 1] = sum[(i - 1) - 1] + file[i - 1].len
        BY <2>1, <4>1
      <4>3. start[i] = sum[i - 1] /\ start[i - 1] = sum[(i - 1) - 1]
        BY <4>1
      <4>4. QED
        BY <3>2, <4>2, <4>3
    <3>3. QED
      BY <3>1, <3>2
  <2>3. QED
    BY <2>2 DEF StartsOf
<1>3. StartsOf(c, file)
  <2> HIDE DEF start
  <2>1. QED
    BY <1>2
<1>4. Starts(file) = c
  BY DEF Starts, StartsOf, c
<1> HIDE DEF c, start
<1>5. c[1] = 0 /\ \A i \in 2 .. Len(file) + 1 : c[i] = c[i - 1] + file[i - 1].len
  <2>1. c = [i \in 1 .. Len(file) + 1 |-> IF i = 1 THEN 0 ELSE c[i - 1] + file[i - 1].len]
    BY <1>3 DEF StartsOf
  <2>2. \A i \in 1 .. Len(file) + 1 : c[i] = IF i = 1 THEN 0 ELSE c[i - 1] + file[i - 1].len
    BY <2>1, Zenon
  <2>3. 1 \in 1 .. Len(file) + 1 /\ \A i \in 2 .. Len(file) + 1 : i \in 1 .. Len(file) + 1 /\ i # 1
    BY <1>0
  <2>4. QED
    BY <2>2, <2>3
<1> DEFINE T == {n \in 0 .. Len(file) : c[n + 1] \in Nat}
<1>6. \A n \in 0 .. Len(file) : n \in T
  <2>1. 0 \in T
    BY <1>0, <1>5
  <2>2. ASSUME NEW n \in 1 .. Len(file), n - 1 \in T PROVE n \in T
    <3>1. n + 1 \in 2 .. Len(file) + 1 /\ (n + 1) - 1 = n /\ (n - 1) + 1 = n
      BY <1>0
    <3>2. c[n + 1] = c[n] + file[n].len
      BY <1>5, <3>1
    <3>3. c[n] \in Nat
      BY <2>2, <3>1
    <3>4. file[n].len \in Nat
      BY UnitLength
    <3>5. QED
      BY <3>2, <3>3, <3>4
  <2> HIDE DEF T
  <2>3. QED
    BY <1>0, <2>1, <2>2, Induction
<1>7. ASSUME NEW i \in 1 .. Len(file) + 1 PROVE c[i] \in Nat
  <2>1. i - 1 \in 0 .. Len(file) /\ (i - 1) + 1 = i
    BY <1>0
  <2>2. QED
    BY <1>6, <2>1
<1>8. QED
  BY <1>4, <1>5, <1>7

(* They are positions. *)
LEMMA StartsTyped ==
  ASSUME NEW file \in Seq(FileUnits)
  PROVE  \A i \in 1 .. Len(file) + 1 : Starts(file)[i] \in Nat
BY StartsAre

(* A unit further on begins where this one ends, or further on. *)
LEMMA StartsAscend ==
  ASSUME NEW file \in Seq(FileUnits), NEW i \in 1 .. Len(file), NEW j \in 1 .. Len(file), i < j
  PROVE  Starts(file)[i + 1] <= Starts(file)[j]
<1> DEFINE start == Starts(file)
<1> DEFINE T == {n \in 0 .. Len(file) : i < n => start[i + 1] <= start[n]}
<1>0. Len(file) \in Nat
  OBVIOUS
<1>1. /\ \A n \in 1 .. Len(file) + 1 : start[n] \in Nat
      /\ \A n \in 2 .. Len(file) + 1 : start[n] = start[n - 1] + file[n - 1].len
  BY StartsAre
<1>2. \A n \in 1 .. Len(file) : file[n].len \in Nat
  BY UnitLength
<1> HIDE DEF start
<1>3. 0 \in T
  BY <1>0
<1>4. ASSUME NEW n \in 1 .. Len(file), n - 1 \in T PROVE n \in T
  <2>1. CASE i < n - 1
    <3>1. n \in 2 .. Len(file) + 1 /\ n - 1 \in 1 .. Len(file) /\ n \in 1 .. Len(file) + 1
          /\ n - 1 \in 1 .. Len(file) + 1 /\ i + 1 \in 1 .. Len(file) + 1
      BY <1>0, <2>1
    <3>2. start[n] = start[n - 1] + file[n - 1].len /\ start[i + 1] <= start[n - 1]
      BY <1>1, <1>4, <2>1, <3>1
    <3>3. start[n] \in Nat /\ start[n - 1] \in Nat /\ start[i + 1] \in Nat /\ file[n - 1].len \in Nat
      BY <1>1, <1>2, <3>1
    <3>4. start[i + 1] <= start[n]
      BY <3>2, <3>3
    <3>5. QED
      BY <3>4
  <2>2. CASE i = n - 1
    <3>1. i + 1 = n /\ n \in 1 .. Len(file) + 1
      BY <1>0, <2>2
    <3>2. start[n] \in Nat /\ start[i + 1] = start[n]
      BY <1>1, <3>1
    <3>3. QED
      BY <3>2
  <2>3. CASE i > n - 1
    BY <1>0, <2>3
  <2>4. QED
    BY <1>0, <2>1, <2>2, <2>3
<1>5. \A n \in 0 .. Len(file) : n \in T
  <2> HIDE DEF T
  <2>1. QED
    BY <1>0, <1>3, <1>4, Induction
<1>6. QED
  BY <1>5 DEF start

(* What begins at a position is a unit of the file, or nothing. *)
LEMMA AtTyped ==
  ASSUME NEW file \in Seq(FileUnits), NEW pos
  PROVE  At(file, pos) \in ToSet(file) \cup {None}
BY DEF At, ToSet

(* A unit of a kind is of that kind's type. *)
LEMMA KindIsType ==
  ASSUME NEW file \in Seq(FileUnits), NEW unit \in ToSet(file) \cup {None}
  PROVE  /\ unit.kind = "lfh" => unit \in LocalHeaders
         /\ unit.kind = "cfh" => unit \in ToSet(file) \cap DirectoryRecords
         /\ unit.kind = "eocd" => unit \in ClosingRecords
         /\ unit.kind = "zip64" => unit \in Zip64Ends
         /\ unit.kind = "locator" => unit \in Locators
         /\ unit.kind = "data" => unit \in ToSet(file) \cap DataUnits
         /\ unit.kind \in {"descriptor", "bare"} => unit \in ToSet(file) \cap Descriptors
<1>1. CASE unit = None
  BY <1>1 DEF None
<1>2. CASE unit \in ToSet(file)
  <2>1. unit \in FileUnits
    BY <1>2 DEF ToSet
  <2>2. /\ unit \in DirectoryRecords => unit.kind = "cfh"
        /\ unit \in LocalHeaders => unit.kind = "lfh"
        /\ unit \in ClosingRecords => unit.kind = "eocd"
        /\ unit \in Zip64Ends => unit.kind = "zip64"
        /\ unit \in Locators => unit.kind = "locator"
        /\ unit \in Descriptors => unit.kind \in {"descriptor", "bare"}
        /\ unit \in DataUnits => unit.kind = "data"
        /\ unit \in [kind : {"junk"}, len : Nat] => unit.kind = "junk"
    BY DEF LocalHeaders, DirectoryRecords, ClosingRecords, Zip64Ends, Locators, Descriptors,
           DataUnits
  <2>3. QED
    BY <1>2, <2>1, <2>2 DEF FileUnits
<1>3. QED
  BY <1>1, <1>2

(* What is cut out of a file: units of it, headers cut short, and junk.    *)
CutUnits(file) == ToSet(file) \cup LocalHeaders \cup [kind : {"junk"}, len : Nat]

(* A slice is made of them. *)
LEMMA SliceIsCut ==
  ASSUME NEW file \in Seq(FileUnits), NEW from \in Int, NEW to \in Int
  PROVE  Slice(file, from, to) \in Seq(CutUnits(file))
<1> DEFINE start == Starts(file)
<1> DEFINE lo(i) == IF start[i] < from THEN from ELSE start[i]
<1> DEFINE hi(i) == IF start[i + 1] > to THEN to ELSE start[i + 1]
<1> DEFINE part(i) ==
      IF hi(i) <= lo(i) THEN <<>>
      ELSE IF hi(i) - lo(i) = file[i].len THEN <<file[i]>>
      ELSE IF file[i].kind = "lfh" /\ lo(i) = start[i] /\ hi(i) - lo(i) >= LocalHeaderSize
           THEN <<[file[i] EXCEPT !.len = hi(i) - lo(i)]>>
      ELSE <<Junk(hi(i) - lo(i))>>
<1> DEFINE s == [i \in DOMAIN file |-> i]
<1> DEFINE p == [n \in 1 .. Len(file) |-> part(n)]
<1> DEFINE J(join) == join = [n \in 0 .. Len(s) |-> IF n = 0 THEN <<>> ELSE join[n - 1] \o part(s[n])]
<1> DEFINE c == CHOOSE join : J(join)
<1>0. Len(file) \in Nat /\ DOMAIN file = 1 .. Len(file)
  OBVIOUS
<1>1. Len(s) = Len(file) /\ \A n \in 1 .. Len(file) : s[n] = n
  BY <1>0
<1>2. ASSUME NEW i \in 1 .. Len(file) PROVE part(i) \in Seq(CutUnits(file))
  <2>1. start[i] \in Nat /\ start[i + 1] \in Nat
    <3>1. i \in 1 .. Len(file) + 1 /\ i + 1 \in 1 .. Len(file) + 1
      BY <1>0
    <3>2. QED
      BY <3>1, StartsTyped
  <2>2. lo(i) \in Int /\ hi(i) \in Int
    <3> HIDE DEF start
    <3>1. QED
      BY <2>1
  <2>3. file[i] \in FileUnits /\ file[i] \in ToSet(file)
    <3> HIDE DEF FileUnits
    <3>1. QED
      BY <1>0 DEF ToSet
  <2> DEFINE cut == hi(i) - lo(i)
  <2>4. cut \in Int /\ (cut \in Nat \/ hi(i) <= lo(i))
    <3> HIDE DEF lo, hi
    <3>1. QED
      BY <2>2
  <2> HIDE DEF lo, hi, start
  <2>5. CASE hi(i) <= lo(i)
    BY <2>5, EmptyTyped
  <2>6. CASE ~(hi(i) <= lo(i)) /\ cut = file[i].len
    <3>1. part(i) = <<file[i]>>
      BY <2>6
    <3>2. file[i] \in CutUnits(file)
      BY <2>3 DEF CutUnits
    <3>3. QED
      BY <3>1, <3>2, Singleton
  <2>7. CASE /\ ~(hi(i) <= lo(i)) /\ ~(cut = file[i].len)
             /\ file[i].kind = "lfh" /\ lo(i) = start[i] /\ cut >= LocalHeaderSize
    <3>1. part(i) = <<[file[i] EXCEPT !.len = cut]>>
      BY <2>7
    <3>2. cut \in Nat /\ file[i] \in LocalHeaders
      BY <2>3, <2>4, <2>7, KindIsType
    <3>3. [file[i] EXCEPT !.len = cut] \in LocalHeaders
      <4> HIDE DEF cut
      <4>1. QED
        BY <3>2, Zenon DEF LocalHeaders
    <3>4. [file[i] EXCEPT !.len = cut] \in CutUnits(file)
      BY <3>3 DEF CutUnits
    <3>5. QED
      BY <3>1, <3>4, Singleton
  <2>8. CASE /\ ~(hi(i) <= lo(i)) /\ ~(cut = file[i].len)
             /\ ~(file[i].kind = "lfh" /\ lo(i) = start[i] /\ cut >= LocalHeaderSize)
    <3>1. part(i) = <<Junk(cut)>>
      BY <2>8
    <3>2. cut \in Nat
      BY <2>4, <2>8
    <3>3. Junk(cut) \in CutUnits(file)
      <4> HIDE DEF cut
      <4>1. QED
        BY <3>2 DEF Junk, CutUnits
    <3>4. QED
      BY <3>1, <3>3, Singleton
  <2>9. QED
    BY <2>5, <2>6, <2>7, <2>8
<1>3. p \in [1 .. Len(file) -> Seq(CutUnits(file))]
  <2> HIDE DEF part
  <2>1. QED
    BY <1>2
<1>4. \A join : J(join) <=> Joins(join, p, Len(file))
  <2> HIDE DEF part, s
  <2>1. ASSUME NEW join PROVE J(join) <=> Joins(join, p, Len(file))
    <3>1. [n \in 0 .. Len(s) |-> IF n = 0 THEN <<>> ELSE join[n - 1] \o part(s[n])]
          = [n \in 0 .. Len(file) |-> IF n = 0 THEN <<>> ELSE join[n - 1] \o p[n]]
      BY <1>0, <1>1
    <3>2. QED
      BY <3>1, Zenon DEF Joins
  <2>2. QED
    BY <2>1
<1>5. Slice(file, from, to) = c[Len(s)]
  BY DEF Slice, Joined
<1> HIDE DEF p, J, s, part
<1>6. Joins(c, p, Len(file))
  BY <1>0, <1>3, <1>4, JoinsExist
<1> HIDE DEF c
<1>7. QED
  BY <1>0, <1>1, <1>3, <1>5, <1>6, JoinsTyped

(* A stretch cut out of a file is a file. *)
LEMMA SliceTyped ==
  ASSUME NEW file \in Seq(FileUnits), NEW from \in Int, NEW to \in Int
  PROVE  Slice(file, from, to) \in Seq(FileUnits)
<1>1. CutUnits(file) \subseteq FileUnits
  <2>1. ToSet(file) \subseteq FileUnits
    <3> HIDE DEF FileUnits
    <3>1. QED
      BY DEF ToSet
  <2>2. LocalHeaders \subseteq FileUnits /\ [kind : {"junk"}, len : Nat] \subseteq FileUnits
    BY DEF FileUnits
  <2>3. QED
    BY <2>1, <2>2 DEF CutUnits
<1>2. Slice(file, from, to) \in Seq(CutUnits(file))
  BY SliceIsCut
<1>3. QED
  BY <1>1, <1>2, SubsetTyped

(* The fields an extra block is parsed into are fields of the block. *)
LEMMA FieldsTyped ==
  ASSUME NEW extra \in Seq(ExtraFields), NEW length \in Nat
  PROVE  /\ parseExtraFields(extra, length).fields \in Seq(ExtraFields)
         /\ parseExtraFields(extra, length).malformed \in BOOLEAN
<1> DEFINE whole(n) == ExtraSize(SubSeq(extra, 1, n)) <= length
<1> DEFINE Most(n) == whole(n) /\ \A m \in 0 .. Len(extra) : whole(m) => m <= n
<1> DEFINE count == CHOOSE n \in 0 .. Len(extra) : Most(n)
<1> DEFINE K == {k \in 0 .. Len(extra) : whole(Len(extra) - k)}
<1>0. Len(extra) \in Nat
  OBVIOUS
<1>1. whole(0)
  <2>1. SubSeq(extra, 1, 0) = <<>> /\ <<>> \in Seq(ExtraFields)
    OBVIOUS
  <2>2. ExtraSize(<<>>) = 0
    <3>1. FieldSizes(<<>>) = <<>>
      BY DEF FieldSizes
    <3>2. QED
      BY <2>1, <3>1, ExtraSizeIsTotal, TotalEmpty
  <2>3. ExtraSize(SubSeq(extra, 1, 0)) = 0
    BY <2>1, <2>2, Zenon
  <2>4. QED
    BY <2>3
<1> HIDE DEF whole
<1>2. K \subseteq Nat /\ K # {}
  <2>1. Len(extra) - Len(extra) = 0 /\ Len(extra) \in 0 .. Len(extra)
    BY <1>0
  <2>2. Len(extra) \in K
    BY <1>1, <2>1
  <2>3. QED
    BY <2>2
<1>3. PICK k \in K : \A y \in K : k <= y
  <2> HIDE DEF K
  <2>1. QED
    BY <1>2, LeastExists
<1>4. Most(Len(extra) - k) /\ Len(extra) - k \in 0 .. Len(extra)
  <2>1. ASSUME NEW m \in 0 .. Len(extra), whole(m) PROVE m <= Len(extra) - k
    <3>1. Len(extra) - m \in 0 .. Len(extra) /\ Len(extra) - (Len(extra) - m) = m
      BY <1>0
    <3>2. Len(extra) - m \in K
      BY <2>1, <3>1
    <3>3. k <= Len(extra) - m /\ k \in 0 .. Len(extra)
      <4> HIDE DEF K
      <4>1. k <= Len(extra) - m
        BY <1>3, <3>2
      <4>2. QED
        BY <4>1 DEF K
    <3>4. QED
      BY <1>0, <3>3
  <2>2. QED
    BY <1>0, <2>1
<1>5. count \in 0 .. Len(extra)
  <2> HIDE DEF Most
  <2>1. QED
    BY <1>4
<1> DEFINE fields == SubSeq(extra, 1, count)
<1>6. parseExtraFields(extra, length)
      = [fields |-> fields, malformed |-> count < Len(extra) /\ length - ExtraSize(fields) >= 4]
  BY DEF parseExtraFields, whole
<1> HIDE DEF count
<1>7. fields \in Seq(ExtraFields)
  <2> HIDE DEF ExtraFields
  <2>1. QED
    BY <1>5
<1> HIDE DEF fields
<1>8. QED
  BY <1>6, <1>7

(* The values that a Zip64 field stands in for are numbers: the field is   *)
(* read only as far as it goes.                                            *)
LEMMA Zip64Typed ==
  ASSUME NEW fields \in Seq(ExtraFields), NEW u \in Nat, NEW c \in Nat, NEW o \in Nat
  PROVE  /\ resolveZip64(fields, <<u, c, o>>).uncompressedSize \in Nat
         /\ resolveZip64(fields, <<u, c, o>>).compressedSize \in Nat
         /\ resolveZip64(fields, <<u, c, o>>).localHeaderOffset \in Nat
         /\ resolveZip64(fields, <<u, c, o>>).usesZip64 \in BOOLEAN
         /\ resolveZip64(fields, <<u, c, o>>).suppliedNonSentinel \in BOOLEAN
<1> DEFINE classic == <<u, c, o>>
<1> DEFINE found == SelectInSeq(fields, LAMBDA f : f.id = "zip64")
<1> DEFINE z64 == IF found = 0 THEN <<>> ELSE fields[found].values
<1> DEFINE place(n) == Cardinality({m \in 1 .. n : classic[m] = SentinelU32})
<1> DEFINE supplied(n) == classic[n] = SentinelU32 /\ place(n) <= Len(z64)
<1> DEFINE value(n) == IF supplied(n) THEN z64[place(n)] ELSE classic[n]
<1>1. z64 \in Seq(Nat)
  <2> DEFINE I == {i \in 1 .. Len(fields) : fields[i].id = "zip64"}
  <2>1. found = IF I # {} THEN Min(I) ELSE 0
    BY DEF SelectInSeq
  <2>2. I \subseteq Nat /\ I \subseteq 1 .. Len(fields)
    OBVIOUS
  <2> HIDE DEF I, found
  <2>3. CASE found = 0
    BY <2>3, EmptyTyped
  <2>4. CASE found # 0
    <3>1. found \in 1 .. Len(fields)
      BY <2>1, <2>2, <2>4, LeastExists
    <3>2. fields[found] \in ExtraFields
      <4> HIDE DEF ExtraFields
      <4>1. QED
        BY <3>1
    <3>3. fields[found].values \in Seq(Nat)
      BY <3>2 DEF ExtraFields
    <3>4. QED
      BY <2>4, <3>3
  <2>5. QED
    BY <2>3, <2>4
<1>2. ASSUME NEW n \in 1 .. 3, classic[n] = SentinelU32 PROVE place(n) \in Nat /\ place(n) >= 1
  <2> DEFINE M == {m \in 1 .. n : classic[m] = SentinelU32}
  <2>1. IsFiniteSet(1 .. n) /\ M \in SUBSET (1 .. n)
    <3>1. 1 \in Int /\ n \in Int /\ M \in SUBSET (1 .. n)
      OBVIOUS
    <3> HIDE DEF M
    <3>2. QED
      BY <3>1, FS_Interval
  <2>2. n \in M
    BY <1>2
  <2> HIDE DEF M
  <2>3. IsFiniteSet(M)
    BY <2>1, FS_Subset
  <2>4. Cardinality(M) \in Nat /\ Cardinality(M) # 0
    BY <2>2, <2>3, FS_CardinalityType, FS_EmptySet
  <2>5. QED
    BY <2>4 DEF M
<1>3. \A n \in 1 .. 3 : classic[n] \in Nat
  OBVIOUS
<1>4. resolveZip64(fields, <<u, c, o>>)
      = [uncompressedSize |-> value(1), compressedSize |-> value(2), localHeaderOffset |-> value(3),
         usesZip64 |-> \E n \in 1 .. 3 : supplied(n), suppliedNonSentinel |-> Len(z64) > place(3)]
  BY DEF resolveZip64
<1>5. ASSUME NEW n \in 1 .. 3 PROVE value(n) \in Nat
  <2>1. CASE supplied(n)
    <3>1. place(n) \in 1 .. Len(z64)
      <4>1. classic[n] = SentinelU32 /\ place(n) <= Len(z64) /\ Len(z64) \in Nat
        BY <1>1, <2>1
      <4>2. place(n) \in Nat /\ place(n) >= 1
        BY <1>2, <4>1
      <4> HIDE DEF place, z64, classic
      <4>3. QED
        BY <4>1, <4>2
    <3>2. value(n) = z64[place(n)]
      BY <2>1
    <3> HIDE DEF place, z64, classic, value
    <3>3. QED
      BY <1>1, <3>1, <3>2
  <2>2. CASE ~supplied(n)
    <3>1. value(n) = classic[n]
      BY <2>2
    <3> HIDE DEF value, classic
    <3>2. QED
      BY <1>3, <3>1
  <2>3. QED
    BY <2>1, <2>2
<1> HIDE DEF value, supplied, place, z64
<1>6. value(1) \in Nat /\ value(2) \in Nat /\ value(3) \in Nat
  BY <1>5
<1> DEFINE some == \E n \in 1 .. 3 : supplied(n)
<1> DEFINE more == Len(z64) > place(3)
<1>7. some \in BOOLEAN /\ more \in BOOLEAN
  <2>1. some \in BOOLEAN
    OBVIOUS
  <2>2. more \in BOOLEAN
    OBVIOUS
  <2>3. QED
    BY <2>1, <2>2
<1> DEFINE z == resolveZip64(fields, <<u, c, o>>)
<1>8. z = [uncompressedSize |-> value(1), compressedSize |-> value(2),
           localHeaderOffset |-> value(3), usesZip64 |-> some, suppliedNonSentinel |-> more]
  BY <1>4
<1> HIDE DEF some, more, z
<1>9. /\ z.uncompressedSize \in Nat /\ z.compressedSize \in Nat /\ z.localHeaderOffset \in Nat
      /\ z.usesZip64 \in BOOLEAN /\ z.suppliedNonSentinel \in BOOLEAN
  BY <1>6, <1>7, <1>8
<1>10. QED
  BY <1>9 DEF z

(* What a reader knows of an entry, and that it is filed under the name of *)
(* a record of the file.                                                   *)
Doubts == {"extra-field-malformed", "zip64-extra-ignored"}
ReaderEntries ==
  [code : {"OK"}, name : Names, method : Nat, compressedSize : Nat, uncompressedSize : Nat,
   crc : Contents, localHeaderOffset : Nat, encrypted : BOOLEAN, bit3 : BOOLEAN,
   extra : Seq(ExtraFields), usesZip64 : BOOLEAN, pinned : BOOLEAN, foreign : BOOLEAN,
   comment : Nat, attributes : STRING, isSymlink : BOOLEAN, isDirectory : BOOLEAN,
   doubts : SUBSET Doubts]
Filed(entry, unit) ==
  entry.name = unit.name /\ (entry.isDirectory => Directory(unit.name) \/ unit.attributes = "directory")
EntriesOf(file) == {e \in ReaderEntries : \E unit \in ToSet(file) \cap DirectoryRecords : Filed(e, unit)}

(* A record is refused, or makes an entry that is filed under its name. *)
LEMMA EntryTyped ==
  ASSUME NEW file, NEW cfh \in ToSet(file) \cap DirectoryRecords, NEW base \in Nat
  PROVE  \/ makeEntry(cfh, base) \in EntriesOf(file)
         \/ makeEntry(cfh, base) = Refused("ZIP_UNSUPPORTED_MULTI_DISK")
<1>1. CASE cfh.disk # 0
  BY <1>1 DEF makeEntry
<1>2. CASE cfh.disk = 0
  <2> DEFINE block == parseExtraFields(cfh.extra, cfh.extraLength)
  <2> DEFINE z == resolveZip64(block.fields,
                    <<cfh.uncompressedSize, cfh.compressedSize, cfh.localHeaderOffset>>)
  <2>1. /\ cfh.name \in Names /\ cfh.method \in Nat /\ cfh.crc \in Contents
        /\ cfh.encrypted \in BOOLEAN /\ cfh.bit3 \in BOOLEAN /\ cfh.pinned \in BOOLEAN
        /\ cfh.foreign \in BOOLEAN /\ cfh.comment \in Nat /\ cfh.attributes \in STRING
        /\ cfh.extra \in Seq(ExtraFields) /\ cfh.extraLength \in Nat
        /\ cfh.uncompressedSize \in Nat /\ cfh.compressedSize \in Nat
        /\ cfh.localHeaderOffset \in Nat
    BY DEF DirectoryRecords
  <2>2. block.fields \in Seq(ExtraFields) /\ block.malformed \in BOOLEAN
    BY <2>1, FieldsTyped
  <2> HIDE DEF block
  <2>3. /\ z.uncompressedSize \in Nat /\ z.compressedSize \in Nat /\ z.localHeaderOffset \in Nat
        /\ z.usesZip64 \in BOOLEAN /\ z.suppliedNonSentinel \in BOOLEAN
    BY <2>1, <2>2, Zip64Typed
  <2>4. makeEntry(cfh, base) = EntryOf(cfh, base, block, z)
    BY <1>2 DEF makeEntry, EntryWith, block
  <2> HIDE DEF z
  <2> DEFINE doubts == (IF block.malformed THEN {"extra-field-malformed"} ELSE {})
                         \union (IF z.suppliedNonSentinel THEN {"zip64-extra-ignored"} ELSE {})
  <2> DEFINE folder == Directory(cfh.name) \/ (cfh.attributes = "directory" /\ z.uncompressedSize = 0)
  <2> DEFINE link == cfh.attributes = "symlink"
  <2> DEFINE place == z.localHeaderOffset + base
  <2>5. doubts \in SUBSET Doubts
    BY DEF Doubts
  <2>6. folder \in BOOLEAN /\ link \in BOOLEAN /\ place \in Nat
    <3>1. folder \in BOOLEAN
      OBVIOUS
    <3>2. link \in BOOLEAN
      OBVIOUS
    <3>3. place \in Nat
      BY <2>3
    <3>4. QED
      BY <3>1, <3>2, <3>3
  <2> DEFINE e == EntryOf(cfh, base, block, z)
  <2>7. e = [code |-> "OK", name |-> cfh.name, method |-> cfh.method,
             compressedSize |-> z.compressedSize, uncompressedSize |-> z.uncompressedSize,
             crc |-> cfh.crc, localHeaderOffset |-> place,
             encrypted |-> cfh.encrypted, bit3 |-> cfh.bit3, extra |-> block.fields,
             usesZip64 |-> z.usesZip64, pinned |-> cfh.pinned, foreign |-> cfh.foreign,
             comment |-> cfh.comment, attributes |-> cfh.attributes,
             isSymlink |-> link, isDirectory |-> folder, doubts |-> doubts]
    BY DEF EntryOf
  <2>8. folder => Directory(cfh.name) \/ cfh.attributes = "directory"
    OBVIOUS
  <2> HIDE DEF doubts, folder, link, place, e
  <2>9. e \in ReaderEntries
    BY <2>1, <2>2, <2>3, <2>5, <2>6, <2>7 DEF ReaderEntries
  <2>10. e.name = cfh.name /\ e.isDirectory = folder
    BY <2>7
  <2>11. Filed(e, cfh)
    BY <2>8, <2>10 DEF Filed
  <2>12. QED
    BY <2>4, <2>9, <2>11 DEF EntriesOf, e
<1>3. QED
  BY <1>1, <1>2

(* The directory, record by record.                                        *)
ParseRefusals ==
  {"ZIP_UNSUPPORTED_MULTI_DISK", "ZIP_LIMIT_EXCEEDED", "ZIP_CD_INCONSISTENT",
   "ZIP_SIGNATURE_MISMATCH"}
Parses(file) ==
  [code : {"OK"}, pos : Int, entries : Seq(EntriesOf(file)), doubts : SUBSET Doubts]
    \cup [code : ParseRefusals]

(* One record more is parsed, or the directory refused. *)
LEMMA ParseNextTyped ==
  ASSUME NEW file \in Seq(FileUnits), NEW before \in Parses(file), NEW pos, NEW cdEnd \in Int,
         NEW base \in Nat
  PROVE  ParseNext(before, At(file, pos), cdEnd, base) \in Parses(file)
<1> DEFINE cfh == At(file, pos)
<1> DEFINE after == ParseNext(before, cfh, cdEnd, base)
<1>1. ASSUME NEW code \in ParseRefusals PROVE Refused(code) \in Parses(file)
  BY <1>1 DEF Refused, Parses
<1>2. \/ after = before
      \/ after = Refused("ZIP_CD_INCONSISTENT") \/ after = Refused("ZIP_SIGNATURE_MISMATCH")
      \/ /\ IsOk(before) /\ cfh.kind = "cfh"
         /\ after = Described(before, cfh, makeEntry(cfh, base))
  <2> HIDE DEF cfh
  <2>1. QED
    BY DEF ParseNext
<1>3. cfh \in ToSet(file) \cup {None}
  BY AtTyped
<1>4. SUFFICES after \in Parses(file)
  OBVIOUS
<1> HIDE DEF after, cfh
<1>5. CASE after = before
  BY <1>5
<1>6. CASE after = Refused("ZIP_CD_INCONSISTENT") \/ after = Refused("ZIP_SIGNATURE_MISMATCH")
  <2>1. "ZIP_CD_INCONSISTENT" \in ParseRefusals /\ "ZIP_SIGNATURE_MISMATCH" \in ParseRefusals
    BY DEF ParseRefusals
  <2>2. QED
    BY <1>1, <1>6, <2>1
<1>7. CASE /\ IsOk(before) /\ cfh.kind = "cfh"
           /\ after = Described(before, cfh, makeEntry(cfh, base))
  <2>2. cfh \in ToSet(file) \cap DirectoryRecords
    BY <1>7, <1>3, KindIsType
  <2> DEFINE entry == makeEntry(cfh, base)
  <2>3. entry \in EntriesOf(file) \/ entry = Refused("ZIP_UNSUPPORTED_MULTI_DISK")
    BY <2>2, EntryTyped
  <2> HIDE DEF entry
  <2>4. "ZIP_LIMIT_EXCEEDED" \in ParseRefusals /\ "ZIP_UNSUPPORTED_MULTI_DISK" \in ParseRefusals
    BY DEF ParseRefusals
  <2>5. CASE Described(before, cfh, entry) = Refused("ZIP_LIMIT_EXCEEDED")
    BY <1>1, <1>7, <2>4, <2>5 DEF entry
  <2>6. CASE ~IsOk(entry) /\ Described(before, cfh, entry) = entry
    <3>1. ~(entry \in EntriesOf(file))
      BY <2>6 DEF EntriesOf, ReaderEntries, IsOk
    <3>2. after = Refused("ZIP_UNSUPPORTED_MULTI_DISK")
      BY <1>7, <2>3, <2>6, <3>1 DEF entry
    <3>3. Refused("ZIP_UNSUPPORTED_MULTI_DISK") \in Parses(file)
      BY <1>1, <2>4
    <3>4. QED
      BY <3>2, <3>3
  <2>7. CASE /\ IsOk(entry)
             /\ Described(before, cfh, entry)
                  = [code |-> "OK", pos |-> before.pos + recordLength(cfh),
                     entries |-> Append(before.entries, entry),
                     doubts |-> before.doubts \union entry.doubts]
    <3>1. entry \in EntriesOf(file)
      BY <2>3, <2>7 DEF IsOk, Refused
    <3>2. /\ before.pos \in Int /\ before.entries \in Seq(EntriesOf(file))
          /\ before.doubts \in SUBSET Doubts
      BY <1>7 DEF Parses, IsOk, ParseRefusals
    <3>3. entry.doubts \in SUBSET Doubts
      BY <3>1 DEF EntriesOf, ReaderEntries
    <3>4. before.pos + recordLength(cfh) \in Int
      <4>1. cfh.name \in Names /\ cfh.extraLength \in Nat /\ cfh.comment \in Nat
        BY <2>2 DEF DirectoryRecords
      <4>2. NameLength(cfh.name) \in Nat
        BY <4>1, NameLengthNat
      <4>3. QED
        BY <3>2, <4>1, <4>2 DEF recordLength, CentralHeaderSize
    <3>5. Append(before.entries, entry) \in Seq(EntriesOf(file))
      <4> DEFINE E == EntriesOf(file)
      <4>1. entry \in E /\ before.entries \in Seq(E)
        BY <3>1, <3>2
      <4> HIDE DEF E
      <4>2. Append(before.entries, entry) \in Seq(E)
        BY <4>1
      <4>3. QED
        BY <4>2 DEF E
    <3>6. before.doubts \union entry.doubts \in SUBSET Doubts
      BY <3>2, <3>3
    <3>7. Described(before, cfh, entry) \in Parses(file)
      BY <2>7, <3>4, <3>5, <3>6 DEF Parses
    <3>8. QED
      BY <1>7, <3>7 DEF entry
  <2>8. QED
    BY <2>5, <2>6, <2>7 DEF Described
<1>8. QED
  BY <1>2, <1>6, <1>7, <1>5

(* So the parse of the directory is one of entries of the file, or a refusal. *)
LEMMA DirectoryTyped ==
  ASSUME NEW file \in Seq(FileUnits), NEW layout, layout.totalEntries \in Nat,
         layout.cdOffset \in Int, layout.cdSize \in Nat, layout.base \in Nat
  PROVE  parseCentralDirectory(file, layout) \in Parses(file)
<1> DEFINE N == layout.totalEntries
<1> DEFINE S == Parses(file)
<1> DEFINE cdEnd == layout.cdOffset + layout.cdSize
<1> DEFINE base == [code |-> "OK", pos |-> layout.cdOffset, entries |-> <<>>, doubts |-> {}]
<1> DEFINE next(p) == ParseNext(p, At(file, p.pos), cdEnd, layout.base)
<1> DEFINE P(parse) == parse = [n \in 0 .. N |-> IF n = 0 THEN base ELSE next(parse[n - 1])]
<1> DEFINE parse == CHOOSE parse : P(parse)
<1> DEFINE step == [x \in S \X (1 .. N) |-> next(x[1])]
<1>0. N \in Nat /\ cdEnd \in Int /\ layout.base \in Nat
  OBVIOUS
<1>1. base \in S
  <2>1. <<>> \in Seq(EntriesOf(file)) /\ {} \in SUBSET Doubts /\ layout.cdOffset \in Int
    BY EmptyTyped
  <2> HIDE DEF base
  <2>2. QED
    BY <2>1 DEF Parses, base
<1>2. ASSUME NEW p \in S PROVE next(p) \in S
  <2> HIDE DEF cdEnd
  <2>1. QED
    BY <1>0, ParseNextTyped
<1>3. parseCentralDirectory(file, layout)
      = IF IsOk(parse[N]) /\ parse[N].pos # cdEnd THEN Refused("ZIP_CD_INCONSISTENT") ELSE parse[N]
  BY DEF parseCentralDirectory
<1> HIDE DEF next, base, S, cdEnd
<1>4. step \in [S \X (1 .. N) -> S]
  BY <1>2
<1> HIDE DEF N
<1>5. PICK f \in [0 .. N -> S] :
        f[0] = base /\ \A n \in 1 .. N : f[n] = step[<<f[n - 1], n>>]
  <2> HIDE DEF step
  <2>1. Recursive(N, S, base, step)
    BY <1>0, <1>1, <1>4, Recursion
  <2>2. QED
    BY <2>1 DEF Recursive
<1>6. P(f)
  <2>1. ASSUME NEW n \in 0 .. N PROVE f[n] = IF n = 0 THEN base ELSE next(f[n - 1])
    <3>1. CASE n = 0
      BY <1>5, <3>1
    <3>2. CASE n # 0
      <4>1. n \in 1 .. N /\ f[n - 1] \in S
        BY <1>0, <3>2
      <4>2. f[n] = step[<<f[n - 1], n>>]
        BY <1>5, <4>1
      <4>3. QED
        BY <3>2, <4>1, <4>2
    <3>3. QED
      BY <3>1, <3>2
  <2> HIDE DEF step
  <2>2. QED
    BY <2>1
<1>7. P(parse)
  <2> HIDE DEF P
  <2>1. QED
    BY <1>6
<1> HIDE DEF parse, step
<1>8. \A n \in 0 .. N : parse[n] = IF n = 0 THEN base ELSE next(parse[n - 1])
  BY <1>7, Zenon
<1> DEFINE T == {n \in 0 .. N : parse[n] \in S}
<1>9. \A n \in 0 .. N : n \in T
  <2>1. 0 \in T
    BY <1>0, <1>1, <1>8
  <2>2. ASSUME NEW n \in 1 .. N, n - 1 \in T PROVE n \in T
    <3>1. n \in 0 .. N /\ n # 0
      BY <1>0
    <3>2. parse[n] = next(parse[n - 1])
      BY <1>8, <3>1
    <3>3. QED
      BY <1>2, <2>2, <3>1, <3>2
  <2> HIDE DEF T
  <2>3. QED
    BY <1>0, <2>1, <2>2, Induction
<1>10. parse[N] \in S
  BY <1>0, <1>9
<1>11. Refused("ZIP_CD_INCONSISTENT") \in S
  BY DEF S, Parses, Refused, ParseRefusals
<1>12. QED
  BY <1>3, <1>10, <1>11 DEF S

(* The layout of a file.                                                   *)
Layouts ==
  [code : {"OK"}, totalEntries : Nat, cdSize : Nat, cdOffset : Nat, base : Nat,
   isZip64 : BOOLEAN, comment : Seq(FileUnits), doubts : SUBSET {"multiple-eocd", "prepended-data"}]
LayoutFits(layout) == IsOk(layout) => layout \in Layouts

(* A layout made of an end record has numbers in it. *)
LEMMA LayoutTyped ==
  ASSUME NEW end \in ClosingRecords \cup Zip64Ends, NEW cdEnd \in Int, NEW windowStart \in Int,
         NEW isZip64 \in BOOLEAN, NEW comment \in Seq(FileUnits), NEW ambiguous \in BOOLEAN
  PROVE  LayoutFits(LayoutOf(end, cdEnd, windowStart, isZip64, comment, ambiguous))
<1> DEFINE base == cdEnd + windowStart - (end.cdOffset + end.cdSize)
<1> DEFINE layout == LayoutOf(end, cdEnd, windowStart, isZip64, comment, ambiguous)
<1> DEFINE doubts == (IF ambiguous THEN {"multiple-eocd"} ELSE {})
                       \union (IF base > 0 THEN {"prepended-data"} ELSE {})
<1>1. end.totalEntries \in Nat /\ end.cdSize \in Nat /\ end.cdOffset \in Nat
  BY DEF ClosingRecords, Zip64Ends
<1>2. base \in Int /\ doubts \in SUBSET {"multiple-eocd", "prepended-data"}
  BY <1>1
<1>3. \/ layout.code # "OK"
      \/ /\ ~(base < 0)
         /\ layout = [code |-> "OK", totalEntries |-> end.totalEntries, cdSize |-> end.cdSize,
                      cdOffset |-> end.cdOffset + base, base |-> base, isZip64 |-> isZip64,
                      comment |-> comment, doubts |-> doubts]
  <2> HIDE DEF doubts, base
  <2>1. \/ layout \in {Refused("ZIP_UNSUPPORTED_MULTI_DISK"), Refused("ZIP_EOCD_INCONSISTENT"),
                       Refused("ZIP_LIMIT_EXCEEDED")}
        \/ /\ ~(base < 0)
           /\ layout = [code |-> "OK", totalEntries |-> end.totalEntries, cdSize |-> end.cdSize,
                        cdOffset |-> end.cdOffset + base, base |-> base, isZip64 |-> isZip64,
                        comment |-> comment, doubts |-> doubts]
    BY Zenon DEF LayoutOf, doubts, base
  <2> HIDE DEF layout
  <2>2. QED
    BY <2>1 DEF Refused
<1> HIDE DEF doubts, base, layout
<1>4. LayoutFits(layout)
  <2>1. CASE layout.code # "OK"
    BY <2>1 DEF LayoutFits, IsOk
  <2>2. CASE /\ ~(base < 0)
             /\ layout = [code |-> "OK", totalEntries |-> end.totalEntries, cdSize |-> end.cdSize,
                          cdOffset |-> end.cdOffset + base, base |-> base, isZip64 |-> isZip64,
                          comment |-> comment, doubts |-> doubts]
    <3>1. base \in Nat /\ end.cdOffset + base \in Nat
      BY <1>1, <1>2, <2>2
    <3>2. layout \in Layouts
      BY <1>1, <1>2, <2>2, <3>1 DEF Layouts
    <3>3. QED
      BY <3>2 DEF LayoutFits
  <2>3. QED
    BY <1>3, <2>1, <2>2
<1>5. QED
  BY <1>4 DEF layout

(* So has the one that is located, by either end record. *)
LEMMA LocatedTyped ==
  ASSUME NEW file \in Seq(FileUnits), NEW windowStart \in Int
  PROVE  LayoutFits(locateEocd(file, windowStart))
<1> DEFINE i == OneOf(Closing(file))
<1> DEFINE eocd == file[i]
<1> DEFINE eocdPos == Starts(file)[i]
<1> DEFINE ambiguous == EndRecords(file) # {i}
<1> DEFINE comment == SubSeq(file, i + 1, Len(file))
<1> DEFINE locatorPos == eocdPos - LocatorSize
<1> DEFINE locator == At(file, locatorPos)
<1> DEFINE z64Pos == zip64Position(file, locator, locatorPos, windowStart)
<1> DEFINE z64 == At(file, z64Pos)
<1> DEFINE layout == locateEocd(file, windowStart)
<1>1. \/ layout.code # "OK"
      \/ /\ Closing(file) # {}
         /\ layout = LayoutOf(eocd, eocdPos, windowStart, FALSE, comment, ambiguous)
      \/ /\ Closing(file) # {} /\ locator.kind = "locator" /\ z64Pos # Undefined
         /\ layout = LayoutOf(z64, z64Pos, windowStart, TRUE, comment, ambiguous)
  <2> HIDE DEF eocd, eocdPos, ambiguous, comment, locatorPos, locator, z64Pos, z64
  <2> DEFINE Classic == /\ Closing(file) # {}
                        /\ layout = LayoutOf(eocd, eocdPos, windowStart, FALSE, comment, ambiguous)
  <2> DEFINE Wide64 == /\ Closing(file) # {} /\ locator.kind = "locator" /\ z64Pos # Undefined
                       /\ layout = LayoutOf(z64, z64Pos, windowStart, TRUE, comment, ambiguous)
  <2>1. \/ layout \in {Refused("ZIP_EOCD_NOT_FOUND"), Refused("ZIP_LIMIT_EXCEEDED"),
                       Refused("ZIP_ZIP64_LOCATOR_MISSING"), Refused("ZIP_UNSUPPORTED_MULTI_DISK"),
                       Refused("ZIP_ZIP64_EOCD_MISPLACED"), Refused("ZIP_ZIP64_CONTRADICTION")}
        \/ Classic
        \/ Wide64
    BY Zenon DEF locateEocd, eocd, eocdPos, ambiguous, comment, locatorPos, locator, z64Pos, z64
  <2> HIDE DEF layout
  <2>2. layout.code # "OK" \/ Classic \/ Wide64
    <3> HIDE DEF Classic, Wide64
    <3>1. QED
      BY <2>1 DEF Refused
  <2>3. QED
    BY <2>2
<1> HIDE DEF layout
<1>2. ASSUME Closing(file) # {}
      PROVE  i \in 1 .. Len(file) /\ eocd \in ClosingRecords /\ eocdPos \in Nat
  <2>1. i \in Closing(file)
    BY <1>2 DEF OneOf
  <2>2. i \in 1 .. Len(file) /\ eocd.kind = "eocd"
    BY <2>1 DEF Closing, EndRecords
  <2> HIDE DEF i
  <2>3. eocd \in ToSet(file)
    BY <2>2 DEF ToSet
  <2>4. eocd \in ToSet(file) \cup {None} /\ eocd.kind = "eocd"
    BY <2>2, <2>3
  <2>5. i \in 1 .. Len(file) + 1
    <3>1. Len(file) \in Nat
      OBVIOUS
    <3>2. QED
      BY <2>2, <3>1
  <2> HIDE DEF eocd
  <2>6. eocd \in ClosingRecords
    BY <2>4, KindIsType
  <2>7. QED
    BY <2>2, <2>5, <2>6, StartsTyped
<1>7. ASSUME Closing(file) # {}
      PROVE  comment \in Seq(FileUnits) /\ ambiguous \in BOOLEAN
  <2>1. ambiguous \in BOOLEAN
    OBVIOUS
  <2>2. i \in 1 .. Len(file)
    BY <1>2, <1>7
  <2> HIDE DEF i
  <2> DEFINE U == FileUnits
  <2>3. file \in Seq(U)
    OBVIOUS
  <2> HIDE DEF U
  <2>4. SubSeq(file, i + 1, Len(file)) \in Seq(U)
    BY <2>2, <2>3
  <2>5. QED
    BY <2>1, <2>4 DEF U
<1> HIDE DEF i, eocd, ambiguous, comment
<1>3. CASE layout.code # "OK"
  BY <1>3 DEF LayoutFits, IsOk, layout
<1>4. CASE /\ Closing(file) # {}
           /\ layout = LayoutOf(eocd, eocdPos, windowStart, FALSE, comment, ambiguous)
  <2> HIDE DEF eocdPos
  <2>1. eocd \in ClosingRecords \cup Zip64Ends /\ eocdPos \in Int
    BY <1>2, <1>4
  <2>2. LayoutFits(LayoutOf(eocd, eocdPos, windowStart, FALSE, comment, ambiguous))
    BY <1>4, <1>7, <2>1, LayoutTyped
  <2>3. QED
    BY <1>4, <2>2 DEF layout
<1>5. CASE /\ Closing(file) # {} /\ locator.kind = "locator" /\ z64Pos # Undefined
           /\ layout = LayoutOf(z64, z64Pos, windowStart, TRUE, comment, ambiguous)
  <2>1. locatorPos \in Int
    <3> HIDE DEF eocdPos
    <3>1. QED
      BY <1>2, <1>5 DEF LocatorSize
  <2> HIDE DEF eocdPos, locatorPos
  <2>2. locator \in Locators
    <3>1. locator \in ToSet(file) \cup {None}
      BY AtTyped
    <3> HIDE DEF locator
    <3>2. QED
      BY <1>5, <3>1, KindIsType
  <2> HIDE DEF locator
  <2>3. locator.offset - windowStart \in Int /\ locatorPos - Zip64EocdSize \in Int
    BY <2>1, <2>2 DEF Locators, Zip64EocdSize
  <2>4. z64Pos \in Int /\ z64.kind = "zip64"
    BY <1>5, <2>3 DEF zip64Position, Undefined
  <2> HIDE DEF z64Pos
  <2>5. z64 \in ToSet(file) \cup {None}
    BY AtTyped
  <2> HIDE DEF z64
  <2>6. z64 \in Zip64Ends
    BY <2>4, <2>5, KindIsType
  <2>7. z64 \in ClosingRecords \cup Zip64Ends
    BY <2>6
  <2>8. LayoutFits(LayoutOf(z64, z64Pos, windowStart, TRUE, comment, ambiguous))
    BY <1>5, <1>7, <2>4, <2>7, LayoutTyped
  <2>9. QED
    BY <1>5, <2>8 DEF layout
<1>6. QED
  BY <1>1, <1>3, <1>4, <1>5

(* A reader knows its file, where its directory is, and entries of it.     *)
LEMMA OpenedTyped ==
  ASSUME NEW file \in Seq(FileUnits), NEW strict \in BOOLEAN, NEW eager \in BOOLEAN,
         IsOk(openZip(file, strict, eager))
  PROVE  /\ openZip(file, strict, eager).file = file
         /\ openZip(file, strict, eager).size = Length(file)
         /\ openZip(file, strict, eager).layout \in Layouts
         /\ openZip(file, strict, eager).entries \in Seq(EntriesOf(file))
<1> DEFINE located == locateEocd(file, 0)
<1> DEFINE layout == Strictly(strict, located)
<1> DEFINE whole == parseCentralDirectory(file, layout)
<1> DEFINE parsed == Strictly(strict, whole)
<1> DEFINE unchecked == Parsed(file, strict, layout)
<1> DEFINE reader == openZip(file, strict, eager)
<1>1. reader = Validated(unchecked, eager)
  BY DEF openZip
<1>2. LayoutFits(located)
  BY LocatedTyped
<1> HIDE DEF located
<1>3. IsOk(layout) => layout = located
  BY DEF Strictly, Refused, IsOk
<1> HIDE DEF layout
<1>4. unchecked = IF ~IsOk(layout) THEN layout ELSE ReaderOf(file, strict, layout, parsed)
  BY DEF Parsed
<1>5. ASSUME IsOk(unchecked), reader = unchecked
      PROVE  /\ reader.file = file /\ reader.size = Length(file) /\ reader.layout \in Layouts
             /\ reader.entries \in Seq(EntriesOf(file))
  <2>1. IsOk(layout) /\ unchecked = ReaderOf(file, strict, layout, parsed)
    <3> HIDE DEF unchecked, parsed
    <3>1. QED
      BY <1>4, <1>5
  <2>2. /\ layout \in Layouts /\ layout.totalEntries \in Nat /\ layout.cdOffset \in Int
        /\ layout.cdSize \in Nat /\ layout.base \in Nat
    BY <1>2, <1>3, <2>1 DEF LayoutFits, Layouts
  <2>3. whole \in Parses(file)
    BY <2>2, DirectoryTyped
  <2> HIDE DEF whole
  <2>4. IsOk(parsed) => parsed = whole
    BY DEF Strictly, Refused, IsOk
  <2> HIDE DEF parsed
  <2>5. IsOk(parsed) => parsed.entries \in Seq(EntriesOf(file))
    BY <2>3, <2>4 DEF Parses, IsOk, ParseRefusals
  <2> DEFINE known == IF IsOk(parsed) THEN parsed.entries ELSE <<>>
  <2>6. known \in Seq(EntriesOf(file))
    <3>1. <<>> \in Seq(EntriesOf(file))
      BY EmptyTyped
    <3>2. CASE IsOk(parsed)
      BY <2>5, <3>2
    <3>3. CASE ~IsOk(parsed)
      <4>1. known = <<>>
        BY <3>3
      <4> HIDE DEF known
      <4>2. QED
        BY <3>1, <4>1
    <3>4. QED
      BY <3>2, <3>3
  <2>7. /\ ReaderOf(file, strict, layout, parsed).file = file
        /\ ReaderOf(file, strict, layout, parsed).size = Length(file)
        /\ ReaderOf(file, strict, layout, parsed).layout = layout
        /\ ReaderOf(file, strict, layout, parsed).entries = known
    BY DEF ReaderOf
  <2> HIDE DEF known, unchecked, reader
  <2>8. QED
    BY <1>5, <2>1, <2>2, <2>6, <2>7
<1>6. IsOk(unchecked) /\ reader = unchecked
  <2> HIDE DEF unchecked, reader
  <2>1. IsOk(Validated(unchecked, eager)) => IsOk(unchecked) /\ Validated(unchecked, eager) = unchecked
    BY DEF Validated, Eagerly, Refused, IsOk
  <2>2. IsOk(reader)
    BY DEF reader
  <2>3. QED
    BY <1>1, <2>1, <2>2
<1>7. QED
  BY <1>5, <1>6

(* What is found eagerly is what is found lazily, and has a directory.     *)
LEMMA EagerIsLazy ==
  ASSUME NEW file, NEW strict, IsOk(openZip(file, strict, TRUE))
  PROVE  /\ openZip(file, strict, TRUE) = openZip(file, strict, FALSE)
         /\ openZip(file, strict, TRUE).directory = "OK"
<1> DEFINE unchecked == Parsed(file, strict, Strictly(strict, locateEocd(file, 0)))
<1>1. /\ openZip(file, strict, TRUE) = Validated(unchecked, TRUE)
      /\ openZip(file, strict, FALSE) = Validated(unchecked, FALSE)
  BY DEF openZip
<1> HIDE DEF unchecked
<1>2. Validated(unchecked, FALSE) = unchecked
  BY DEF Validated
<1>3. /\ Validated(unchecked, TRUE) = unchecked
      /\ unchecked.directory = "OK"
  <2>1. IsOk(Validated(unchecked, TRUE))
    BY <1>1
  <2>2. \/ ~IsOk(unchecked) /\ Validated(unchecked, TRUE) = unchecked
        \/ Validated(unchecked, TRUE) = Eagerly(unchecked)
    BY DEF Validated
  <2>3. \/ ~IsOk(Eagerly(unchecked))
        \/ Eagerly(unchecked) = unchecked /\ unchecked.directory = "OK"
        \/ Eagerly(unchecked) = Refused(unchecked.directory) /\ unchecked.directory # "OK"
    BY DEF Eagerly
  <2>4. Eagerly(unchecked) = Refused(unchecked.directory) /\ unchecked.directory # "OK"
          => ~IsOk(Eagerly(unchecked))
    BY DEF Refused, IsOk
  <2>5. QED
    BY <2>1, <2>2, <2>3, <2>4
<1>4. QED
  BY <1>1, <1>2, <1>3

(* The payload that a reader cuts out is one. *)
LEMMA PayloadTyped ==
  ASSUME NEW reader, reader.file \in Seq(FileUnits), NEW entry \in ReaderEntries,
         IsOk(readEntryRaw(reader, entry))
  PROVE  readEntryRaw(reader, entry).payload \in Seq(FileUnits)
<1> DEFINE lfh == At(reader.file, entry.localHeaderOffset)
<1> DEFINE extent == Extent(reader, entry, lfh)
<1> DEFINE found == AgreedAt(reader, entry, lfh, extent)
<1> DEFINE raw == WithPayload(reader.file, found)
<1>1. IsOk(raw) /\ readEntryRaw(reader, entry) = raw
  <2>1. \/ readEntryRaw(reader, entry) = raw
        \/ ~IsOk(readEntryRaw(reader, entry))
    <3> HIDE DEF raw
    <3>1. \/ readEntryRaw(reader, entry) = raw
          \/ readEntryRaw(reader, entry) = Refused("ZIP_UNSUPPORTED_ENCRYPTION")
          \/ readEntryRaw(reader, entry) = Refused("ZIP_LIMIT_EXCEEDED")
      BY DEF readEntryRaw, prepareRead, guardEncryption, crossChecked, Agreed, raw
    <3>2. QED
      BY <3>1 DEF Refused, IsOk
  <2>2. QED
    BY <2>1
<1> HIDE DEF lfh
<1>2. IsOk(found) /\ raw.payload = Slice(reader.file, found.from, found.to)
  <2> HIDE DEF found
  <2>1. QED
    BY <1>1 DEF WithPayload, IsOk
<1>3. IsOk(extent) /\ found.from = extent.from /\ found.to = extent.to
  <2> HIDE DEF extent
  <2>1. QED
    BY <1>2 DEF AgreedAt, Strictly, Refused, IsOk
<1>4. lfh.kind = "lfh" /\ extent.from = entry.localHeaderOffset + headerLength(lfh)
      /\ extent.to = extent.from + entry.compressedSize
  BY <1>3 DEF Extent, Refused, IsOk
<1>5. lfh \in LocalHeaders
  <2>1. lfh \in ToSet(reader.file) \cup {None}
    BY AtTyped DEF lfh
  <2>2. QED
    BY <1>4, <2>1, KindIsType
<1>6. extent.from \in Int /\ extent.to \in Int
  <2>1. lfh.name \in Names /\ lfh.extraLength \in Nat
    BY <1>5 DEF LocalHeaders
  <2>2. NameLength(lfh.name) \in Nat
    BY <2>1, NameLengthNat
  <2>3. entry.localHeaderOffset \in Int /\ entry.compressedSize \in Int
    BY DEF ReaderEntries
  <2> HIDE DEF extent
  <2>4. headerLength(lfh) \in Int
    BY <2>1, <2>2 DEF headerLength, LocalHeaderSize
  <2>5. QED
    BY <1>4, <2>3, <2>4
<1>7. Slice(reader.file, found.from, found.to) \in Seq(FileUnits)
  <2> HIDE DEF found, extent
  <2>1. QED
    BY <1>3, <1>6, SliceTyped
<1> HIDE DEF raw, found
<1>8. QED
  BY <1>1, <1>2, <1>7

(* The extra fields that a transplant keeps are fields. *)
LEMMA KeptTyped ==
  ASSUME NEW extra \in Seq(ExtraFields)
  PROVE  Selected(extra, LAMBDA f : f.id # "zip64") \in Seq(ExtraFields)
<1> DEFINE part(x) == IF x.id # "zip64" THEN <<x>> ELSE <<>>
<1> DEFINE p == [n \in 1 .. Len(extra) |-> part(extra[n])]
<1> DEFINE J(join) ==
      join = [n \in 0 .. Len(extra) |-> IF n = 0 THEN <<>> ELSE join[n - 1] \o part(extra[n])]
<1> DEFINE c == CHOOSE join : J(join)
<1>0. Len(extra) \in Nat
  OBVIOUS
<1>1. Selected(extra, LAMBDA f : f.id # "zip64") = c[Len(extra)]
  BY DEF Selected, Joined
<1>2. p \in [1 .. Len(extra) -> Seq(ExtraFields)]
  <2>1. ASSUME NEW n \in 1 .. Len(extra) PROVE part(extra[n]) \in Seq(ExtraFields)
    <3>1. extra[n] \in ExtraFields
      <4> HIDE DEF ExtraFields
      <4>1. QED
        OBVIOUS
    <3>2. <<extra[n]>> \in Seq(ExtraFields) /\ <<>> \in Seq(ExtraFields)
      BY <3>1, Singleton, EmptyTyped
    <3>3. QED
      BY <3>2
  <2> HIDE DEF part
  <2>2. QED
    BY <2>1
<1> HIDE DEF part
<1>3. \A join : J(join) <=> Joins(join, p, Len(extra))
  <2>1. ASSUME NEW join PROVE J(join) <=> Joins(join, p, Len(extra))
    <3>1. [n \in 0 .. Len(extra) |-> IF n = 0 THEN <<>> ELSE join[n - 1] \o part(extra[n])]
          = [n \in 0 .. Len(extra) |-> IF n = 0 THEN <<>> ELSE join[n - 1] \o p[n]]
      BY <1>0
    <3>2. QED
      BY <3>1, Zenon DEF Joins
  <2>2. QED
    BY <2>1
<1> HIDE DEF p, J
<1>4. Joins(c, p, Len(extra))
  BY <1>0, <1>2, <1>3, JoinsExist
<1> HIDE DEF c
<1>5. QED
  BY <1>0, <1>1, <1>2, <1>4, JoinsTyped

=============================================================================
