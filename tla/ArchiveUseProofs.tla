---------------------------- MODULE ArchiveUseProofs ----------------------------
(***************************************************************************)
(* Proofs about reading an archive: no two readable entries share a byte,  *)
(* what is extracted is confined, whole and within its budget, and what    *)
(* the range reader asks for lies inside the file.                         *)
(***************************************************************************)
EXTENDS ArchiveUse, RecordProofs

-----------------------------------------------------------------------------
(* Where the entries of a reader lie.                                      *)

(* What it takes for a local header to agree with its directory entry. *)
LEMMA AgreedIs ==
  ASSUME NEW reader, NEW entry, NEW lfh, IsOk(Agreed(reader, entry, lfh))
  PROVE  LET agreed == Agreed(reader, entry, lfh)
         IN  /\ lfh.kind = "lfh"
             /\ agreed.from = entry.localHeaderOffset + headerLength(lfh)
             /\ agreed.to = agreed.from + entry.compressedSize
             /\ checkExtent(reader, entry, agreed.to + descriptorSlack(lfh)) = "OK"
<1> DEFINE extent == Extent(reader, entry, lfh)
<1> DEFINE agreed == AgreedAt(reader, entry, lfh, extent)
<1>1. IsOk(agreed) /\ Agreed(reader, entry, lfh) = agreed
  BY DEF Agreed
<1>2. IsOk(extent) /\ agreed.from = extent.from /\ agreed.to = extent.to
  <2> HIDE DEF extent
  <2> DEFINE doubts == nameDoubts(entry, lfh)
  <2> DEFINE a == [code |-> "OK", from |-> extent.from, to |-> extent.to, doubts |-> doubts]
  <2>1. \/ ~IsOk(extent) /\ agreed = extent
        \/ agreed = Refused(crossCheckLocalHeader(entry, lfh)) /\ crossCheckLocalHeader(entry, lfh) # "OK"
        \/ IsOk(extent) /\ agreed = Strictly(reader.strict, a)
    BY DEF AgreedAt
  <2>2. a.from = extent.from /\ a.to = extent.to
    OBVIOUS
  <2> HIDE DEF agreed, a
  <2>3. IsOk(extent) /\ agreed = Strictly(reader.strict, a)
    BY <1>1, <2>1 DEF Refused, IsOk
  <2>4. agreed = a
    BY <1>1, <2>3 DEF Strictly, Refused, IsOk
  <2>5. QED
    BY <2>2, <2>3, <2>4
<1> HIDE DEF agreed
<1>3. /\ lfh.kind = "lfh"
      /\ extent.from = entry.localHeaderOffset + headerLength(lfh)
      /\ extent.to = extent.from + entry.compressedSize
      /\ checkExtent(reader, entry, extent.to + descriptorSlack(lfh)) = "OK"
  <2> DEFINE from == entry.localHeaderOffset + headerLength(lfh)
  <2> DEFINE to == from + entry.compressedSize
  <2> DEFINE check == checkExtent(reader, entry, to + descriptorSlack(lfh))
  <2>1. \/ extent = Refused("ZIP_SIGNATURE_MISMATCH") /\ lfh.kind # "lfh"
        \/ extent = Refused(check) /\ check # "OK"
        \/ /\ lfh.kind = "lfh" /\ check = "OK"
           /\ extent = [code |-> "OK", lfh |-> lfh, from |-> from, to |-> to]
    BY DEF Extent
  <2> HIDE DEF extent, from, check
  <2>2. /\ lfh.kind = "lfh" /\ check = "OK"
        /\ extent = [code |-> "OK", lfh |-> lfh, from |-> from, to |-> to]
    BY <1>2, <2>1 DEF Refused, IsOk
  <2>3. extent.from = from /\ extent.to = to
    BY <2>2
  <2>4. QED
    BY <2>2, <2>3 DEF from, check
<1>4. QED
  BY <1>1, <1>2, <1>3

(* What it takes for an entry to pass the checks against its local header. *)
LEMMA CrossCheckedIs ==
  ASSUME NEW reader, NEW entry, IsOk(crossChecked(reader, entry))
  PROVE  LET lfh  == At(reader.file, entry.localHeaderOffset)
             read == crossChecked(reader, entry)
         IN  /\ enforceDeclaredSizes(entry) /\ lfh.kind = "lfh"
             /\ read.from = entry.localHeaderOffset + headerLength(lfh)
             /\ read.to = read.from + entry.compressedSize
             /\ read.payload = Slice(reader.file, read.from, read.to)
             /\ checkExtent(reader, entry, read.to + descriptorSlack(lfh)) = "OK"
<1> DEFINE lfh == At(reader.file, entry.localHeaderOffset)
<1> DEFINE agreed == Agreed(reader, entry, lfh)
<1> DEFINE read == WithPayload(reader.file, agreed)
<1>1. crossChecked(reader, entry) = read /\ enforceDeclaredSizes(entry) /\ IsOk(read)
  <2>1. crossChecked(reader, entry) =
          IF ~enforceDeclaredSizes(entry) THEN Refused("ZIP_LIMIT_EXCEEDED") ELSE read
    BY DEF crossChecked
  <2> HIDE DEF read
  <2>2. enforceDeclaredSizes(entry)
    BY <2>1 DEF Refused, IsOk
  <2>3. QED
    BY <2>1, <2>2
<1> HIDE DEF lfh
<1>2. /\ IsOk(agreed) /\ read.from = agreed.from /\ read.to = agreed.to
      /\ read.payload = Slice(reader.file, agreed.from, agreed.to)
  <2> HIDE DEF agreed
  <2>1. IsOk(agreed)
    BY <1>1 DEF WithPayload, read
  <2>2. QED
    BY <2>1 DEF WithPayload, read
<1> HIDE DEF read
<1>3. /\ lfh.kind = "lfh"
      /\ agreed.from = entry.localHeaderOffset + headerLength(lfh)
      /\ agreed.to = agreed.from + entry.compressedSize
      /\ checkExtent(reader, entry, agreed.to + descriptorSlack(lfh)) = "OK"
  BY <1>2, AgreedIs
<1> HIDE DEF agreed
<1>4. QED
  BY <1>1, <1>2, <1>3 DEF lfh

(* An extent that is accepted ends within the file and in front of the     *)
(* directory, and every header starts in front of it or behind.            *)
LEMMA ExtentIs ==
  ASSUME NEW reader, NEW entry, NEW dataEnd \in Int, checkExtent(reader, entry, dataEnd) = "OK"
  PROVE  LET starts == {e.localHeaderOffset : e \in ToSet(reader.entries)} \union {reader.layout.cdOffset}
         IN  /\ ~(dataEnd > reader.size) /\ ~(entry.localHeaderOffset >= reader.layout.cdOffset)
             /\ ~(Cardinality(starts) < Len(reader.entries) + 1)
             /\ \A s \in starts : ~(entry.localHeaderOffset < s /\ s < dataEnd)
BY DEF checkExtent

(* As many starts as entries: no two entries start at one place. *)
LEMMA StartsApart ==
  ASSUME NEW S, NEW entries \in Seq(S), NEW cdOffset,
         ~(Cardinality({e.localHeaderOffset : e \in ToSet(entries)} \union {cdOffset}) < Len(entries) + 1),
         NEW n \in 1 .. Len(entries), NEW m \in 1 .. Len(entries), n # m
  PROVE  entries[n].localHeaderOffset # entries[m].localHeaderOffset
<1> DEFINE T == {e.localHeaderOffset : e \in ToSet(entries)}
<1> DEFINE others == (1 .. Len(entries)) \ {m}
<1> DEFINE f == [k \in others |-> entries[k].localHeaderOffset]
<1>1. SUFFICES ASSUME entries[n].localHeaderOffset = entries[m].localHeaderOffset PROVE FALSE
  OBVIOUS
<1>2. Len(entries) \in Nat /\ DOMAIN entries = 1 .. Len(entries)
  OBVIOUS
<1>3. IsFiniteSet(others) /\ Cardinality(others) = Len(entries) - 1
  <2> DEFINE whole == 1 .. Len(entries)
  <2>1. /\ IsFiniteSet(whole)
        /\ Cardinality(whole) = (IF 1 > Len(entries) THEN 0 ELSE Len(entries) - 1 + 1)
    BY <1>2, FS_Interval
  <2>2. Cardinality(whole) = Len(entries)
    BY <1>2, <2>1
  <2>3. IsFiniteSet(whole \ {m}) /\ Cardinality(whole \ {m}) = Cardinality(whole) - 1
    BY <2>1, FS_RemoveElement, Zenon
  <2>4. QED
    BY <2>2, <2>3
<1>4. f \in Surjection(others, T)
  <2>1. ASSUME NEW k \in others PROVE f[k] \in T
    BY <1>2 DEF ToSet
  <2>2. ASSUME NEW t \in T PROVE \E k \in others : f[k] = t
    <3>1. PICK k \in 1 .. Len(entries) : t = entries[k].localHeaderOffset
      BY <1>2 DEF ToSet
    <3>2. CASE k = m
      <4>1. n \in others /\ f[n] = t
        BY <1>1, <3>1, <3>2
      <4>2. QED
        BY <4>1
    <3>3. CASE k # m
      <4>1. k \in others /\ f[k] = t
        BY <3>1, <3>3
      <4>2. QED
        BY <4>1
    <3>4. QED
      BY <3>2, <3>3
  <2>3. f \in [others -> T]
    BY <2>1
  <2> HIDE DEF f, T, others
  <2>4. QED
    BY <2>2, <2>3 DEF Surjection
<1> HIDE DEF f, T, others
<1>5. IsFiniteSet(T) /\ Cardinality(T) <= Len(entries) - 1
  BY <1>3, <1>4, FS_Surjection
<1>6. Cardinality(T) \in Nat
  BY <1>5, FS_CardinalityType
<1>7. Cardinality(T \union {cdOffset}) <= Cardinality(T) + 1
  <2>1. Cardinality(T \union {cdOffset}) = IF cdOffset \in T THEN Cardinality(T) ELSE Cardinality(T) + 1
    BY <1>5, FS_AddElement
  <2>2. QED
    BY <1>6, <2>1
<1>8. Cardinality(T \union {cdOffset}) \in Nat
  BY <1>5, FS_AddElement, FS_CardinalityType
<1>9. QED
  BY <1>2, <1>5, <1>6, <1>7, <1>8 DEF T

(* A local header is of some length. *)
LEMMA HeaderLengthNat ==
  ASSUME NEW lfh \in LocalHeaders
  PROVE  headerLength(lfh) \in Nat /\ descriptorSlack(lfh) \in Nat
<1>1. lfh.name \in Names /\ lfh.extraLength \in Nat
  BY DEF LocalHeaders
<1>2. NameLength(lfh.name) \in Nat
  BY <1>1, NameLengthNat
<1>3. QED
  BY <1>1, <1>2 DEF headerLength, descriptorSlack, LocalHeaderSize

(* A reader over a file, as far as its entries' places go. *)
ReaderFits(reader, file) ==
  /\ reader.file = file /\ reader.size = Length(file) /\ reader.layout \in Layouts
  /\ reader.entries \in Seq(EntriesOf(file))

(* An entry that can be read lies behind its own header, in front of every *)
(* header behind it and of the directory.                                  *)
LEMMA ReadableLies ==
  ASSUME NEW file \in Seq(FileUnits), NEW reader, ReaderFits(reader, file),
         NEW entry \in ReaderEntries, IsOk(crossChecked(reader, entry))
  PROVE  LET read   == crossChecked(reader, entry)
             starts == {e.localHeaderOffset : e \in ToSet(reader.entries)} \union {reader.layout.cdOffset}
         IN  /\ read.from \in Nat /\ read.to \in Nat /\ read.payload = Slice(file, read.from, read.to)
             /\ entry.localHeaderOffset <= read.from /\ read.to = read.from + entry.compressedSize
             /\ read.to <= reader.size /\ read.to <= reader.layout.cdOffset
             /\ ~(Cardinality(starts) < Len(reader.entries) + 1)
             /\ \A s \in starts \cap Nat : s <= entry.localHeaderOffset \/ read.to <= s
<1> DEFINE lfh == At(file, entry.localHeaderOffset)
<1> DEFINE read == crossChecked(reader, entry)
<1> DEFINE offset == entry.localHeaderOffset
<1> DEFINE cdOffset == reader.layout.cdOffset
<1> DEFINE starts == {e.localHeaderOffset : e \in ToSet(reader.entries)} \union {cdOffset}
<1> DEFINE slack == descriptorSlack(lfh)
<1>1. /\ lfh.kind = "lfh" /\ read.from = offset + headerLength(lfh)
      /\ read.to = read.from + entry.compressedSize /\ read.payload = Slice(file, read.from, read.to)
      /\ checkExtent(reader, entry, read.to + slack) = "OK"
  BY CrossCheckedIs DEF ReaderFits
<1>2. lfh \in LocalHeaders
  <2>1. lfh \in ToSet(file) \cup {None}
    BY AtTyped
  <2> HIDE DEF lfh
  <2>2. QED
    BY <1>1, <2>1, KindIsType
<1>3. headerLength(lfh) \in Nat /\ slack \in Nat
  <2> HIDE DEF lfh
  <2>1. QED
    BY <1>2, HeaderLengthNat
<1>4. /\ offset \in Nat /\ entry.compressedSize \in Nat /\ cdOffset \in Nat /\ reader.size \in Nat
  <2>1. offset \in Nat /\ entry.compressedSize \in Nat
    BY DEF ReaderEntries
  <2>2. reader.layout.cdOffset \in Nat
    BY DEF ReaderFits, Layouts
  <2>3. QED
    BY <2>1, <2>2, LengthNat DEF ReaderFits
<1> HIDE DEF read, lfh
<1>5. read.from \in Nat /\ read.to \in Nat /\ read.to + slack \in Int /\ offset <= read.from
  <2> HIDE DEF offset, slack
  <2>1. QED
    BY <1>1, <1>3, <1>4
<1> HIDE DEF slack
<1>6. /\ ~(read.to + slack > reader.size) /\ ~(offset >= cdOffset)
      /\ ~(Cardinality(starts) < Len(reader.entries) + 1)
      /\ \A s \in starts : ~(offset < s /\ s < read.to + slack)
  BY <1>1, <1>5, ExtentIs
<1>7. cdOffset \in starts
  OBVIOUS
<1> HIDE DEF starts, offset, cdOffset
<1>8. /\ read.to <= reader.size /\ read.to <= cdOffset
      /\ \A s \in starts \cap Nat : s <= offset \/ read.to <= s
  <2>1. read.to <= reader.size
    BY <1>3, <1>4, <1>5, <1>6
  <2>2. ASSUME NEW s \in starts \cap Nat PROVE s <= offset \/ read.to <= s
    <3>1. ~(offset < s) \/ ~(s < read.to + slack)
      BY <1>6
    <3>2. QED
      BY <1>3, <1>4, <1>5, <3>1
  <2>3. cdOffset <= offset \/ read.to <= cdOffset
    BY <1>4, <1>7, <2>2
  <2>4. read.to <= cdOffset
    BY <1>4, <1>5, <1>6, <2>3
  <2>5. QED
    BY <2>1, <2>2, <2>4
<1>9. /\ read.from \in Nat /\ read.to \in Nat /\ read.payload = Slice(file, read.from, read.to)
      /\ offset <= read.from /\ read.to = read.from + entry.compressedSize
      /\ read.to <= reader.size /\ read.to <= cdOffset
      /\ ~(Cardinality(starts) < Len(reader.entries) + 1)
      /\ \A s \in starts \cap Nat : s <= offset \/ read.to <= s
  BY <1>1, <1>5, <1>6, <1>8
<1>10. QED
  BY <1>9, Zenon DEF starts, offset, cdOffset, read

(* Of two entries that can be read one ends where the other begins, or     *)
(* before.                                                                 *)
LEMMA ReadsLieApart ==
  ASSUME NEW file \in Seq(FileUnits), NEW reader, ReaderFits(reader, file),
         NEW n \in 1 .. Len(reader.entries), NEW m \in 1 .. Len(reader.entries), n # m,
         IsOk(crossChecked(reader, reader.entries[n])), IsOk(crossChecked(reader, reader.entries[m]))
  PROVE  \/ crossChecked(reader, reader.entries[m]).to <= crossChecked(reader, reader.entries[n]).from
         \/ crossChecked(reader, reader.entries[n]).to <= crossChecked(reader, reader.entries[m]).from
<1> DEFINE entries == reader.entries
<1> DEFINE read(k) == crossChecked(reader, entries[k])
<1> DEFINE starts == {e.localHeaderOffset : e \in ToSet(entries)} \union {reader.layout.cdOffset}
<1>1. entries \in Seq(EntriesOf(file))
  BY DEF ReaderFits
<1>2. ASSUME NEW k \in {n, m}
      PROVE  /\ entries[k] \in ReaderEntries /\ entries[k].localHeaderOffset \in starts \cap Nat
  <2>1. k \in 1 .. Len(entries) /\ entries[k] \in ToSet(entries)
    BY <1>1 DEF ToSet
  <2>2. entries[k] \in EntriesOf(file)
    BY <1>1, <2>1
  <2>3. entries[k] \in ReaderEntries
    BY <2>2 DEF EntriesOf
  <2>4. entries[k].localHeaderOffset \in Nat
    BY <2>3 DEF ReaderEntries
  <2>5. QED
    BY <2>1, <2>3, <2>4
<1>3. ASSUME NEW k \in {n, m}
      PROVE  /\ read(k).from \in Nat /\ read(k).to \in Nat
             /\ entries[k].localHeaderOffset <= read(k).from
             /\ ~(Cardinality(starts) < Len(entries) + 1)
             /\ \A s \in starts \cap Nat : s <= entries[k].localHeaderOffset \/ read(k).to <= s
  <2>1. IsOk(crossChecked(reader, entries[k])) /\ entries[k] \in ReaderEntries
    BY <1>2
  <2> HIDE DEF entries
  <2>2. QED
    BY <2>1, ReadableLies DEF entries
<1>4. entries[n].localHeaderOffset # entries[m].localHeaderOffset
  <2>1. ~(Cardinality(starts) < Len(entries) + 1)
    BY <1>3
  <2> HIDE DEF entries
  <2>2. QED
    BY <1>1, <2>1, StartsApart DEF entries
<1>5. entries[n].localHeaderOffset \in starts \cap Nat /\ entries[m].localHeaderOffset \in starts \cap Nat
  BY <1>2
<1>6. /\ read(n).from \in Nat /\ read(n).to \in Nat /\ read(m).from \in Nat /\ read(m).to \in Nat
      /\ entries[n].localHeaderOffset <= read(n).from /\ entries[m].localHeaderOffset <= read(m).from
      /\ entries[m].localHeaderOffset <= entries[n].localHeaderOffset
           \/ read(n).to <= entries[m].localHeaderOffset
      /\ entries[n].localHeaderOffset <= entries[m].localHeaderOffset
           \/ read(m).to <= entries[n].localHeaderOffset
  BY <1>3, <1>5
<1> DEFINE at(k) == entries[k].localHeaderOffset
<1>7. at(n) \in Nat /\ at(m) \in Nat
  BY <1>5
<1> DEFINE rn == read(n)
<1> DEFINE rm == read(m)
<1>8. /\ rn.from \in Nat /\ rn.to \in Nat /\ rm.from \in Nat /\ rm.to \in Nat
      /\ at(n) <= rn.from /\ at(m) <= rm.from /\ at(n) # at(m)
      /\ at(m) <= at(n) \/ rn.to <= at(m)
      /\ at(n) <= at(m) \/ rm.to <= at(n)
  BY <1>4, <1>6
<1> HIDE DEF at, rn, rm
<1>9. rm.to <= rn.from \/ rn.to <= rm.from
  BY <1>7, <1>8
<1>10. QED
  BY <1>9 DEF rn, rm

-----------------------------------------------------------------------------
(* The plan of an extraction.                                              *)

(* A path is made of the segments that mean something. *)
LEMMA MeaningfulTyped ==
  ASSUME NEW segments \in Seq(STRING)
  PROVE  Meaningful(segments) \in Seq({s \in ToSet(segments) : s \notin {"", "."}})
<1> DEFINE S == {s \in ToSet(segments) : s \notin {"", "."}}
<1> DEFINE part(s) == IF s \notin {"", "."} THEN <<s>> ELSE <<>>
<1> DEFINE p == [n \in 1 .. Len(segments) |-> part(segments[n])]
<1> DEFINE J(join) ==
      join = [n \in 0 .. Len(segments) |-> IF n = 0 THEN <<>> ELSE join[n - 1] \o part(segments[n])]
<1> DEFINE c == CHOOSE join : J(join)
<1>0. Len(segments) \in Nat
  OBVIOUS
<1>1. Meaningful(segments) = c[Len(segments)]
  BY DEF Meaningful, Selected, Joined
<1>2. p \in [1 .. Len(segments) -> Seq(S)]
  <2>1. ASSUME NEW n \in 1 .. Len(segments) PROVE part(segments[n]) \in Seq(S)
    <3>1. segments[n] \in ToSet(segments)
      BY DEF ToSet
    <3>2. segments[n] \notin {"", "."} => segments[n] \in S
      BY <3>1
    <3> HIDE DEF S
    <3>3. QED
      BY <3>2, Singleton, EmptyTyped
  <2> HIDE DEF part, S
  <2>2. QED
    BY <2>1
<1> HIDE DEF part, S
<1>3. \A join : J(join) <=> Joins(join, p, Len(segments))
  <2>1. ASSUME NEW join PROVE J(join) <=> Joins(join, p, Len(segments))
    <3>1. [n \in 0 .. Len(segments) |-> IF n = 0 THEN <<>> ELSE join[n - 1] \o part(segments[n])]
          = [n \in 0 .. Len(segments) |-> IF n = 0 THEN <<>> ELSE join[n - 1] \o p[n]]
      BY <1>0
    <3>2. QED
      BY <3>1, Zenon DEF Joins
  <2>2. QED
    BY <2>1
<1> HIDE DEF p, J
<1>4. Joins(c, p, Len(segments))
  BY <1>0, <1>2, <1>3, JoinsExist
<1> HIDE DEF c
<1>5. QED
  BY <1>0, <1>1, <1>2, <1>4, JoinsTyped DEF S

(* A name has no path, or a safe one. *)
LEMMA SanitizedIsSafe ==
  ASSUME NEW name \in Names
  PROVE  /\ sanitizeEntryPath(name) \in Seq(STRING)
         /\ sanitizeEntryPath(name) # NoPath => SafePath(sanitizeEntryPath(name))
<1> DEFINE segments == name.segments
<1> DEFINE bad == {".."} \union ReservedDevices \union StreamSegments
<1> DEFINE path == sanitizeEntryPath(name)
<1> DEFINE S == {s \in ToSet(segments) : s \notin {"", "."}}
<1>1. segments \in Seq(STRING)
  BY NameTyped
<1>2. Meaningful(segments) \in Seq(S)
  BY <1>1, MeaningfulTyped
<1>3. S \subseteq STRING
  <2>1. \A i \in DOMAIN segments : segments[i] \in STRING
    <3> DEFINE T == STRING
    <3>1. segments \in Seq(T)
      BY <1>1
    <3> HIDE DEF T, segments
    <3>2. \A i \in DOMAIN segments : segments[i] \in T
      BY <3>1
    <3>3. QED
      BY <3>2 DEF T
  <2> HIDE DEF segments
  <2>2. QED
    BY <2>1, Zenon DEF ToSet
<1>4. <<>> \in Seq(STRING)
  BY EmptyTyped
<1>5. \/ path = NoPath
      \/ path = Meaningful(segments) /\ \A s \in ToSet(segments) : s \notin bad
  BY DEF sanitizeEntryPath
<1>6. \A s \in S : s \in ToSet(segments) /\ s \notin {"", "."}
  OBVIOUS
<1> HIDE DEF S, segments, path
<1>7. CASE path = NoPath
  BY <1>4, <1>7 DEF NoPath, path
<1>8. CASE path = Meaningful(segments) /\ \A s \in ToSet(segments) : s \notin bad
  <2>1. path \in Seq(S)
    BY <1>2, <1>8
  <2>2. path \in Seq(STRING)
    BY <1>3, <2>1, SubsetTyped
  <2>3. ASSUME NEW s \in ToSet(path) PROVE s \notin {"", ".", ".."} \union ReservedDevices \union StreamSegments
    <3>1. s \in S
      BY <2>1 DEF ToSet
    <3>2. s \notin {"", "."} /\ s \notin bad
      BY <1>6, <1>8, <3>1
    <3>3. QED
      BY <3>2
  <2>4. QED
    BY <2>2, <2>3 DEF SafePath, NoPath, path
<1>9. QED
  BY <1>5, <1>7, <1>8

(* Plans of different, safe paths, with what they weigh. *)
PlanItems(entries) == {p \in [path : Seq(STRING), entry : entries] : SafePath(p.path)}
PathsDiffer(plan) ==
  \A n \in DOMAIN plan : \A m \in DOMAIN plan : plan[m].path = plan[n].path => m = n
ExtractionPlans(entries) == {plan \in Seq(PlanItems(entries)) : PathsDiffer(plan)}
Weights(plan) == [n \in DOMAIN plan |-> plan[n].entry.uncompressedSize]
WeightSums(sum, plan) ==
  sum = [n \in 0 .. Len(plan) |-> IF n = 0 THEN 0 ELSE sum[n - 1] + plan[n].entry.uncompressedSize]

(* The declared sizes of a plan add up. *)
LEMMA PlannedBytesIsTotal ==
  ASSUME NEW entries \in SUBSET ReaderEntries, NEW plan \in Seq(PlanItems(entries))
  PROVE  /\ Weights(plan) \in Seq(Nat) /\ Len(Weights(plan)) = Len(plan)
         /\ PlannedBytes(plan) = TotalOf(Weights(plan)) /\ PlannedBytes(plan) \in Nat
<1> DEFINE c == CHOOSE sum : WeightSums(sum, plan)
<1>1. Weights(plan) \in Seq(Nat) /\ Len(Weights(plan)) = Len(plan)
  <2>1. \A n \in DOMAIN plan : plan[n] \in PlanItems(entries)
    <3> DEFINE S == PlanItems(entries)
    <3>1. plan \in Seq(S)
      OBVIOUS
    <3> HIDE DEF S
    <3>2. \A n \in DOMAIN plan : plan[n] \in S
      BY <3>1
    <3>3. QED
      BY <3>2 DEF S
  <2>2. ASSUME NEW n \in DOMAIN plan PROVE plan[n].entry.uncompressedSize \in Nat
    <3>1. plan[n].entry \in ReaderEntries
      BY <2>1 DEF PlanItems
    <3>2. QED
      BY <3>1 DEF ReaderEntries
  <2> DEFINE S == PlanItems(entries)
  <2>3. plan \in Seq(S)
    OBVIOUS
  <2> HIDE DEF S
  <2>4. QED
    BY <2>2, <2>3 DEF Weights
<1>2. \A sum : WeightSums(sum, plan) <=> PrefixSums(sum, Weights(plan))
  <2>1. /\ Len(Weights(plan)) = Len(plan) /\ Len(plan) \in Nat
        /\ \A n \in 1 .. Len(plan) : Weights(plan)[n] = plan[n].entry.uncompressedSize
    BY <1>1 DEF Weights
  <2>2. ASSUME NEW sum PROVE WeightSums(sum, plan) <=> PrefixSums(sum, Weights(plan))
    <3>1. [n \in 0 .. Len(plan) |-> IF n = 0 THEN 0 ELSE sum[n - 1] + plan[n].entry.uncompressedSize]
          = [n \in 0 .. Len(Weights(plan)) |-> IF n = 0 THEN 0 ELSE sum[n - 1] + Weights(plan)[n]]
      BY <2>1
    <3>2. QED
      BY <3>1, Zenon DEF WeightSums, PrefixSums
  <2>3. QED
    BY <2>2
<1>3. \E sum : WeightSums(sum, plan)
  BY <1>1, <1>2, SumsExist
<1>4. PrefixSums(c, Weights(plan))
  BY <1>2, <1>3
<1>5. PlannedBytes(plan) = c[Len(plan)]
  BY DEF PlannedBytes, SumOf, WeightSums, c
<1> HIDE DEF c
<1>6. QED
  BY <1>1, <1>4, <1>5, TotalIs

(* No item, no bytes. *)
LEMMA PlannedNothing == PlannedBytes(<<>>) = 0
<1>1. <<>> \in Seq(PlanItems({})) /\ DOMAIN <<>> = {}
  BY EmptyTyped
<1>2. Weights(<<>>) = <<>>
  BY <1>1 DEF Weights
<1>3. QED
  BY <1>1, <1>2, PlannedBytesIsTotal, TotalEmpty

(* One item more, to a path of its own. *)
LEMMA PlanAppended ==
  ASSUME NEW entries \in SUBSET ReaderEntries, NEW plan \in ExtractionPlans(entries),
         NEW item \in PlanItems(entries),
         Holding(plan, item.path) = {}
  PROVE  /\ Append(plan, item) \in ExtractionPlans(entries)
         /\ PlannedBytes(Append(plan, item)) = PlannedBytes(plan) + item.entry.uncompressedSize
<1> DEFINE S == PlanItems(entries)
<1> DEFINE longer == Append(plan, item)
<1>1. plan \in Seq(S) /\ PathsDiffer(plan) /\ item \in S
  BY DEF ExtractionPlans
<1>2. item.entry.uncompressedSize \in Nat
  BY DEF PlanItems, ReaderEntries
<1>3. \A n \in DOMAIN plan : plan[n].path # item.path
  BY DEF Holding
<1> HIDE DEF S
<1>4. /\ longer \in Seq(S) /\ Len(longer) = Len(plan) + 1 /\ longer[Len(plan) + 1] = item
      /\ \A n \in 1 .. Len(plan) : longer[n] = plan[n]
      /\ DOMAIN longer = 1 .. Len(plan) + 1 /\ DOMAIN plan = 1 .. Len(plan) /\ Len(plan) \in Nat
  BY <1>1
<1> HIDE DEF longer
<1>5. PathsDiffer(longer)
  BY <1>1, <1>3, <1>4 DEF PathsDiffer
<1>6. longer \in Seq(PlanItems(entries)) /\ plan \in Seq(PlanItems(entries))
  BY <1>1, <1>4 DEF S
<1>7. Weights(longer) = Append(Weights(plan), item.entry.uncompressedSize)
  <2> DEFINE w == Weights(plan)
  <2> DEFINE x == item.entry.uncompressedSize
  <2>1. w \in Seq(Nat) /\ Len(w) = Len(plan) /\ Weights(longer) \in Seq(Nat)
        /\ Len(Weights(longer)) = Len(longer)
    BY <1>6, PlannedBytesIsTotal
  <2>2. /\ \A n \in 1 .. Len(plan) : Weights(longer)[n] = w[n]
        /\ Weights(longer)[Len(plan) + 1] = x
    BY <1>4 DEF Weights
  <2> HIDE DEF w, x
  <2>3. /\ Append(w, x) \in Seq(Nat) /\ Len(Append(w, x)) = Len(w) + 1 /\ Append(w, x)[Len(w) + 1] = x
        /\ \A n \in 1 .. Len(w) : Append(w, x)[n] = w[n]
    BY <1>2, <2>1 DEF x
  <2>4. \A n \in 1 .. Len(plan) + 1 : Weights(longer)[n] = Append(w, x)[n]
    BY <1>4, <2>1, <2>2, <2>3
  <2>5. Weights(longer) = Append(w, x)
    BY <1>4, <2>1, <2>3, <2>4
  <2>6. QED
    BY <2>5 DEF w, x
<1>8. PlannedBytes(longer) = PlannedBytes(plan) + item.entry.uncompressedSize
  BY <1>2, <1>6, <1>7, PlannedBytesIsTotal, TotalAppend
<1>9. QED
  BY <1>5, <1>6, <1>8 DEF ExtractionPlans, longer

(* An item in the place of the one that goes to the same path. *)
LEMMA PlanReplaced ==
  ASSUME NEW entries \in SUBSET ReaderEntries, NEW plan \in ExtractionPlans(entries),
         NEW item \in PlanItems(entries),
         NEW i \in Holding(plan, item.path)
  PROVE  /\ [plan EXCEPT ![i] = item] \in ExtractionPlans(entries)
         /\ PlannedBytes([plan EXCEPT ![i] = item]) <= PlannedBytes(plan) + item.entry.uncompressedSize
<1> DEFINE S == PlanItems(entries)
<1> DEFINE other == [plan EXCEPT ![i] = item]
<1>1. plan \in Seq(S) /\ PathsDiffer(plan) /\ item \in S
  BY DEF ExtractionPlans
<1>2. item.entry.uncompressedSize \in Nat
  BY DEF PlanItems, ReaderEntries
<1>3. i \in DOMAIN plan /\ plan[i].path = item.path
  BY DEF Holding
<1> HIDE DEF S
<1>4. /\ other \in Seq(S) /\ Len(other) = Len(plan) /\ other[i] = item
      /\ DOMAIN other = 1 .. Len(plan) /\ DOMAIN plan = 1 .. Len(plan) /\ Len(plan) \in Nat
      /\ \A n \in 1 .. Len(plan) : n # i => other[n] = plan[n]
  BY <1>1, <1>3
<1> HIDE DEF other
<1>5. PathsDiffer(other)
  <2>1. \A n \in 1 .. Len(plan) : other[n].path = plan[n].path
    BY <1>3, <1>4
  <2>2. QED
    BY <1>1, <1>4, <2>1 DEF PathsDiffer
<1>6. other \in Seq(PlanItems(entries)) /\ plan \in Seq(PlanItems(entries))
  BY <1>1, <1>4 DEF S
<1> DEFINE w == Weights(plan)
<1> DEFINE x == item.entry.uncompressedSize
<1>7. /\ w \in Seq(Nat) /\ Len(w) = Len(plan) /\ Weights(other) \in Seq(Nat)
      /\ Len(Weights(other)) = Len(other)
      /\ PlannedBytes(plan) = TotalOf(w) /\ PlannedBytes(other) = TotalOf(Weights(other))
      /\ PlannedBytes(plan) \in Nat
  BY <1>6, PlannedBytesIsTotal
<1>8. \A n \in 1 .. Len(plan) : Weights(other)[n] = IF n = i THEN x ELSE w[n]
  BY <1>4 DEF Weights
<1> HIDE DEF w, x
<1>9. i \in 1 .. Len(w) /\ w[i] \in Nat /\ x \in Nat
  BY <1>2, <1>3, <1>4, <1>7 DEF x
<1>10. Weights(other) = [w EXCEPT ![i] = x]
  <2> DEFINE u == Weights(other)
  <2> DEFINE v == [w EXCEPT ![i] = x]
  <2>1. /\ v \in Seq(Nat) /\ Len(v) = Len(w)
        /\ \A n \in 1 .. Len(w) : v[n] = IF n = i THEN x ELSE w[n]
    BY <1>7, <1>9
  <2>2. /\ u \in Seq(Nat) /\ Len(u) = Len(w)
        /\ \A n \in 1 .. Len(w) : u[n] = IF n = i THEN x ELSE w[n]
    BY <1>4, <1>7, <1>8
  <2> HIDE DEF u, v
  <2>3. u \in Seq(Nat) /\ v \in Seq(Nat) /\ Len(u) = Len(v) /\ \A n \in 1 .. Len(u) : u[n] = v[n]
    BY <2>1, <2>2
  <2>4. u = v
    BY <2>3, Z3
  <2>5. QED
    BY <2>4 DEF u, v
<1>11. PlannedBytes(other) = PlannedBytes(plan) - w[i] + x
  <2>1. TotalOf([w EXCEPT ![i] = x]) = TotalOf(w) - w[i] + x
    BY <1>7, <1>9, TotalReplaced
  <2>2. QED
    BY <1>7, <1>10, <2>1
<1>12. PlannedBytes(other) <= PlannedBytes(plan) + x
  BY <1>7, <1>9, <1>11
<1>13. QED
  BY <1>5, <1>6, <1>12 DEF ExtractionPlans, other, x

(* What planning has come to: a plan within its budget, or a refusal. *)
Budget == Limits.maxTotalUncompressedSize
AcceptedPlans(entries) ==
  {a \in [code : {"OK"}, total : Nat, plan : ExtractionPlans(entries)] :
     PlannedBytes(a.plan) <= a.total /\ a.total <= Budget}
Plannings(entries) == AcceptedPlans(entries) \union {Refused(code) : code \in PolicyCodes}

(* An entry is taken into the plan, left out, or refused. *)
LEMMA PlanEntryWell ==
  ASSUME NEW entries \in SUBSET ReaderEntries, NEW before \in Plannings(entries),
         NEW entry \in entries, NEW choice
  PROVE  planEntry(before, entry, choice) \in Plannings(entries)
<1> DEFINE path == sanitizeEntryPath(entry.name)
<1> DEFINE total == before.total + entry.uncompressedSize
<1> DEFINE after == planEntry(before, entry, choice)
<1> DEFINE plan == Place(before.plan, path, entry, choice.onDuplicate)
<1> DEFINE grown == [code |-> "OK", total |-> total, plan |-> plan]
<1>1. \/ after = before
      \/ \E code \in PolicyCodes : after = Refused(code)
      \/ IsOk(before) /\ path # NoPath /\ ~(total > Budget) /\ after = grown
  BY DEF planEntry, PolicyCodes, Budget
<1>2. entry.name \in Names /\ entry.uncompressedSize \in Nat
  BY DEF ReaderEntries
<1> HIDE DEF after
<1>3. CASE after = before
  BY <1>3 DEF after
<1>4. CASE \E code \in PolicyCodes : after = Refused(code)
  BY <1>4 DEF after, Plannings
<1>5. CASE IsOk(before) /\ path # NoPath /\ ~(total > Budget) /\ after = grown
  <2>1. "OK" \notin PolicyCodes
    BY DEF PolicyCodes
  <2>2. before \in AcceptedPlans(entries)
    BY <1>5, <2>1 DEF Plannings, Refused, IsOk
  <2>3. /\ before.total \in Nat /\ before.plan \in ExtractionPlans(entries)
        /\ PlannedBytes(before.plan) <= before.total
    BY <2>2 DEF AcceptedPlans
  <2> DEFINE item == Planned(path, entry)
  <2> DEFINE same == Holding(before.plan, path)
  <2>4. item \in PlanItems(entries) /\ item.path = path /\ item.entry = entry
    <3>1. path \in Seq(STRING) /\ SafePath(path)
      BY <1>2, <1>5, SanitizedIsSafe
    <3> HIDE DEF path
    <3>2. QED
      BY <3>1 DEF Planned, PlanItems
  <2> HIDE DEF path, item
  <2>5. PlannedBytes(before.plan) \in Nat
    BY <2>3, PlannedBytesIsTotal DEF ExtractionPlans
  <2>6. plan \in ExtractionPlans(entries) /\ PlannedBytes(plan) <= total
    <3>1. \/ same = {} /\ plan = Append(before.plan, item)
          \/ plan = before.plan
          \/ same # {} /\ plan = [before.plan EXCEPT ![OneOf(same)] = item]
      BY DEF Place, item
    <3>2. CASE same = {} /\ plan = Append(before.plan, item)
      <4>1. Holding(before.plan, item.path) = {}
        BY <2>4, <3>2
      <4>2. /\ Append(before.plan, item) \in ExtractionPlans(entries)
            /\ PlannedBytes(Append(before.plan, item)) = PlannedBytes(before.plan) + entry.uncompressedSize
        BY <2>3, <2>4, <4>1, PlanAppended
      <4> HIDE DEF plan
      <4>3. QED
        BY <1>2, <2>3, <2>5, <3>2, <4>2
    <3>3. CASE plan = before.plan
      <4> HIDE DEF plan
      <4>1. QED
        BY <1>2, <2>3, <2>5, <3>3
    <3>4. CASE same # {} /\ plan = [before.plan EXCEPT ![OneOf(same)] = item]
      <4> DEFINE i == OneOf(same)
      <4>1. i \in Holding(before.plan, item.path)
        BY <2>4, <3>4 DEF OneOf
      <4> HIDE DEF i
      <4>2. /\ [before.plan EXCEPT ![i] = item] \in ExtractionPlans(entries)
            /\ PlannedBytes([before.plan EXCEPT ![i] = item])
                 <= PlannedBytes(before.plan) + entry.uncompressedSize
        BY <2>3, <2>4, <4>1, PlanReplaced
      <4>3. plan = [before.plan EXCEPT ![i] = item]
        BY <3>4 DEF i
      <4> DEFINE replaced == [before.plan EXCEPT ![i] = item]
      <4>4. PlannedBytes(replaced) \in Nat
        BY <4>2, PlannedBytesIsTotal DEF ExtractionPlans
      <4> HIDE DEF plan, replaced
      <4>5. QED
        BY <1>2, <2>3, <2>5, <4>2, <4>3, <4>4 DEF replaced
    <3>5. QED
      BY <3>1, <3>2, <3>3, <3>4
  <2> HIDE DEF plan
  <2>7. total \in Nat /\ total <= Budget
    <3>1. total \in Nat
      BY <1>2, <2>3
    <3>2. Budget \in Nat
      BY LimitsAssumption DEF Budget
    <3> HIDE DEF total
    <3>3. QED
      BY <1>5, <3>1, <3>2
  <2> HIDE DEF total
  <2>8. grown \in AcceptedPlans(entries)
    BY <2>6, <2>7 DEF AcceptedPlans
  <2>9. QED
    BY <1>5, <2>8 DEF Plannings, after
<1>6. QED
  BY <1>1, <1>3, <1>4, <1>5

(* So is the whole archive. *)
LEMMA PlanExtractionWell ==
  ASSUME NEW list \in Seq(ReaderEntries), NEW choice
  PROVE  planExtraction(list, choice) \in Plannings(ToSet(list))
<1> DEFINE N == Len(list)
<1> DEFINE entries == ToSet(list)
<1> DEFINE S == Plannings(entries)
<1> DEFINE next(before, n) == planEntry(before, list[n], choice)
<1> DEFINE P(plan) == plan = [n \in 0 .. N |-> IF n = 0 THEN NoPlan ELSE next(plan[n - 1], n)]
<1> DEFINE plan == CHOOSE plan : P(plan)
<1> DEFINE step == [x \in S \X (1 .. N) |-> next(x[1], x[2])]
<1>0. N \in Nat /\ entries \in SUBSET ReaderEntries /\ \A n \in 1 .. N : list[n] \in entries
  <2> DEFINE E == ReaderEntries
  <2>1. list \in Seq(E)
    OBVIOUS
  <2> HIDE DEF E
  <2>2. N \in Nat /\ entries \subseteq E /\ \A n \in 1 .. N : list[n] \in entries
    BY <2>1 DEF ToSet
  <2>3. QED
    BY <2>2 DEF E
<1> HIDE DEF entries
<1>1. NoPlan \in S
  <2>1. <<>> \in Seq(PlanItems(entries)) /\ DOMAIN <<>> = {}
    BY EmptyTyped
  <2>2. <<>> \in ExtractionPlans(entries)
    BY <2>1 DEF ExtractionPlans, PathsDiffer
  <2>3. PlannedBytes(<<>>) = 0
    BY PlannedNothing
  <2>4. Budget \in Nat
    BY LimitsAssumption DEF Budget
  <2>5. NoPlan \in AcceptedPlans(entries)
    BY <2>2, <2>3, <2>4 DEF NoPlan, AcceptedPlans
  <2>6. QED
    BY <2>5 DEF Plannings
<1>2. ASSUME NEW before \in S, NEW n \in 1 .. N PROVE next(before, n) \in S
  BY <1>0, PlanEntryWell
<1>3. planExtraction(list, choice) = plan[N]
  BY DEF planExtraction
<1> HIDE DEF next, S
<1>4. step \in [S \X (1 .. N) -> S]
  BY <1>2
<1> HIDE DEF N
<1>5. PICK f \in [0 .. N -> S] :
        f[0] = NoPlan /\ \A n \in 1 .. N : f[n] = step[<<f[n - 1], n>>]
  <2> HIDE DEF step
  <2>1. Recursive(N, S, NoPlan, step)
    BY <1>0, <1>1, <1>4, Recursion
  <2>2. QED
    BY <2>1 DEF Recursive
<1>6. P(f)
  <2>1. ASSUME NEW n \in 0 .. N PROVE f[n] = IF n = 0 THEN NoPlan ELSE next(f[n - 1], n)
    <3>1. CASE n = 0
      BY <1>5, <3>1
    <3>2. CASE n # 0
      <4>1. n \in 1 .. N /\ f[n - 1] \in S
        BY <1>0, <3>2
      <4>2. f[n] = step[<<f[n - 1], n>>]
        BY <1>5, <4>1
      <4>3. QED
        BY <3>2, <4>1, <4>2
    <3>3. QED
      BY <3>1, <3>2
  <2> HIDE DEF step
  <2>2. QED
    BY <2>1
<1>7. P(plan)
  <2> HIDE DEF P
  <2>1. QED
    BY <1>6
<1> HIDE DEF plan, step
<1>8. \A n \in 0 .. N : plan[n] = IF n = 0 THEN NoPlan ELSE next(plan[n - 1], n)
  BY <1>7, Zenon
<1> DEFINE T == {n \in 0 .. N : plan[n] \in S}
<1>9. \A n \in 0 .. N : n \in T
  <2>1. 0 \in T
    BY <1>0, <1>1, <1>8
  <2>2. ASSUME NEW n \in 1 .. N, n - 1 \in T PROVE n \in T
    <3>1. n \in 0 .. N /\ n # 0
      BY <1>0
    <3>2. plan[n] = next(plan[n - 1], n)
      BY <1>8, <3>1
    <3>3. QED
      BY <1>2, <2>2, <3>1, <3>2
  <2> HIDE DEF T
  <2>3. QED
    BY <1>0, <2>1, <2>2, Induction
<1>10. plan[N] \in S
  BY <1>0, <1>9
<1>11. QED
  BY <1>3, <1>10 DEF S, entries

-----------------------------------------------------------------------------
(* Reading in one mode or the other.                                       *)

(* What an entry's stream gives is what it reads as, unless its codec      *)
(* decodes streams only.                                                   *)
LEMMA StreamIsRead ==
  ASSUME NEW reader, NEW entry, IsOk(readEntryStream(reader, entry, TRUE))
  PROVE  readEntry(reader, entry, TRUE) =
           IF StreamOnly(entry) THEN Refused("ZIP_UNSUPPORTED_CODEC_MODE")
           ELSE readEntryStream(reader, entry, TRUE)
<1> DEFINE prepared == prepareRead(reader, entry)
<1> DEFINE raw == Decompressed(entry, prepared.payload)
<1> DEFINE checked == CheckedOutput(entry, raw, TRUE)
<1> DEFINE trailing == Trailing(entry, prepared.payload)
<1> DEFINE sync == codecFor(entry, "sync")
<1> DEFINE stream == codecFor(entry, "stream")
<1> DEFINE synced == readEntry(reader, entry, TRUE)
<1> DEFINE streamed == readEntryStream(reader, entry, TRUE)
<1>1. synced = IF ~IsOk(prepared) THEN prepared ELSE IF sync # "OK" THEN Refused(sync) ELSE checked
  BY DEF readEntry, Decoded, DecodedFrom, DecodedAs
<1>2. streamed = IF ~IsOk(prepared) THEN prepared
                 ELSE IF stream # "OK" THEN Refused(stream)
                 ELSE IF trailing /\ IsOk(raw) THEN Refused("ZIP_DEFLATE_CORRUPT")
                 ELSE checked
  <2>1. streamed = IF ~IsOk(prepared) THEN prepared
                   ELSE IF stream # "OK" THEN Refused(stream)
                   ELSE CheckedOutput(entry, DecodedAs(entry, prepared.payload, "stream"), TRUE)
    BY DEF readEntryStream, Decoded, DecodedFrom
  <2>2. DecodedAs(entry, prepared.payload, "stream") =
          IF trailing /\ IsOk(raw) THEN Refused("ZIP_DEFLATE_CORRUPT") ELSE raw
    BY DEF DecodedAs
  <2> HIDE DEF prepared, raw, trailing, stream, streamed
  <2>3. CheckedOutput(entry, Refused("ZIP_DEFLATE_CORRUPT"), TRUE) = Refused("ZIP_DEFLATE_CORRUPT")
    BY DEF CheckedOutput, Refused, IsOk
  <2>4. QED
    BY <2>1, <2>2, <2>3
<1>3. stream = "OK" => sync = "OK" \/ sync = "ZIP_UNSUPPORTED_CODEC_MODE"
  BY DEF codecFor
<1>4. StreamOnly(entry) <=> sync = "ZIP_UNSUPPORTED_CODEC_MODE"
  BY DEF StreamOnly
<1> HIDE DEF prepared, raw, checked, trailing, sync, stream, synced
<1>5. IsOk(streamed)
  OBVIOUS
<1> HIDE DEF streamed
<1>6. IsOk(prepared) /\ stream = "OK" /\ streamed = checked
  BY <1>2, <1>5 DEF Refused, IsOk
<1>7. synced = IF StreamOnly(entry) THEN Refused("ZIP_UNSUPPORTED_CODEC_MODE") ELSE streamed
  BY <1>1, <1>3, <1>4, <1>6
<1>8. QED
  BY <1>7 DEF synced, streamed

(* An entry that verifies reads. *)
LEMMA VerifiedReads ==
  ASSUME NEW reader, NEW entry, verifyEntry(reader, entry).ok
  PROVE  IsOk(readEntry(reader, entry, TRUE))
<1> DEFINE found == crossChecked(reader, entry)
<1> DEFINE sync == codecFor(entry, "sync")
<1> DEFINE skipped == IF entry.encrypted THEN "encrypted" ELSE sync
<1> DEFINE checked == CheckedOutput(entry, Decompressed(entry, found.payload), TRUE)
<1>1. skipped = "OK" /\ IsOk(found) /\ IsOk(checked)
  <2>1. verifyEntry(reader, entry) = reportOf(entry, found, skipped)
    BY DEF verifyEntry
  <2> HIDE DEF found, skipped
  <2>2. reportOf(entry, found, skipped).ok <=> skipped = "OK" /\ IsOk(found) /\ IsOk(checked)
    BY DEF reportOf
  <2>3. QED
    BY <2>1, <2>2
<1> HIDE DEF found, sync
<1>2. ~entry.encrypted /\ sync = "OK"
  BY <1>1
<1>3. prepareRead(reader, entry) = found
  BY <1>2 DEF prepareRead, guardEncryption, found
<1>4. readEntry(reader, entry, TRUE) = checked
  BY <1>1, <1>2, <1>3 DEF readEntry, Decoded, DecodedFrom, DecodedAs, sync
<1>5. QED
  BY <1>1, <1>4

(* Extraction ends with a refusal of the plan, or with what each of its    *)
(* entries reads as.                                                       *)
LEMMA ExtractedWhen ==
  ASSUME NEW file, NEW strictly, NEW choice, IsOk(openZip(file, strictly, FALSE)),
         openZip(file, strictly, FALSE).directory = "OK"
  PROVE  LET reader  == openZip(file, strictly, FALSE)
             planned == planExtraction(reader.entries, choice)
             reads   == [n \in DOMAIN planned.plan |-> readEntry(reader, planned.plan[n].entry, TRUE)]
         IN  extractZip(file, strictly, choice) =
               IF ~IsOk(planned) THEN planned ELSE Extracted(planned.plan, reads)
<1> DEFINE reader == openZip(file, strictly, FALSE)
<1>1. extractZip(file, strictly, choice) = ExtractAll(reader, choice)
  BY DEF extractZip
<1> HIDE DEF reader
<1>2. ExtractAll(reader, choice) = ExtractPlanned(reader, planExtraction(reader.entries, choice))
  <2>1. IsOk(reader) /\ reader.directory = "OK"
    BY DEF reader
  <2>2. QED
    BY <2>1 DEF ExtractAll
<1>3. QED
  BY <1>1, <1>2 DEF ExtractPlanned, reader

(* An archive that verifies extracts, unless a policy is in the way or an  *)
(* entry was skipped by design.                                            *)
LEMMA VerifiedExtracts ==
  ASSUME NEW file \in Seq(FileUnits), NEW choice, verifyZip(file).ok,
         ~\E r \in ToSet(verifyZip(file).entries) : designSkip(r)
  PROVE  OkOrPolicy(extractZip(file, FALSE, choice))
<1> DEFINE eager == openZip(file, FALSE, TRUE)
<1> DEFINE reader == openZip(file, FALSE, FALSE)
<1> DEFINE reports == [n \in DOMAIN eager.entries |-> verifyEntry(eager, eager.entries[n])]
<1> DEFINE report == verifyZip(file)
<1>1. IsOk(eager) /\ report.entries = reports /\ \A r \in ToSet(reports) : r.ok
  <2>1. report = WithVerdict(VerifyAll(eager))
    BY DEF verifyZip
  <2>2. /\ VerifyAll(eager).error = eager.code
        /\ VerifyAll(eager).entries = IF ~IsOk(eager) THEN <<>> ELSE reports
    BY DEF VerifyAll
  <2> HIDE DEF eager, reports
  <2> DEFINE all == VerifyAll(eager)
  <2>3. /\ all.error = eager.code
        /\ all.entries = IF ~IsOk(eager) THEN <<>> ELSE reports
    BY <2>2
  <2> HIDE DEF all
  <2>4. /\ report.entries = all.entries
        /\ report.ok <=> all.error = "OK" /\ \A r \in ToSet(all.entries) : r.ok \/ designSkip(r)
    <3>1. report = WithVerdict(all)
      BY <2>1 DEF all
    <3> HIDE DEF report
    <3>2. /\ WithVerdict(all).entries = all.entries
          /\ WithVerdict(all).ok = (all.error = "OK" /\ \A r \in ToSet(all.entries) : r.ok \/ designSkip(r))
      BY DEF WithVerdict
    <3>3. QED
      BY <3>1, <3>2
  <2>5. IsOk(eager)
    BY <2>3, <2>4 DEF IsOk
  <2>6. QED
    BY <2>3, <2>4, <2>5
<1> HIDE DEF eager, report
<1>2. eager = reader /\ reader.directory = "OK" /\ IsOk(reader)
  BY <1>1, EagerIsLazy DEF eager
<1> DEFINE planned == planExtraction(reader.entries, choice)
<1> DEFINE reads == [n \in DOMAIN planned.plan |-> readEntry(reader, planned.plan[n].entry, TRUE)]
<1> DEFINE extracted == extractZip(file, FALSE, choice)
<1>3. extracted = IF ~IsOk(planned) THEN planned ELSE Extracted(planned.plan, reads)
  BY <1>2, ExtractedWhen
<1>4. reader.entries \in Seq(ReaderEntries)
  <2>1. reader.entries \in Seq(EntriesOf(file))
    BY <1>2, OpenedTyped
  <2>2. EntriesOf(file) \subseteq ReaderEntries
    BY DEF EntriesOf
  <2> HIDE DEF reader
  <2>3. QED
    BY <2>1, <2>2, SubsetTyped
<1>5. ASSUME NEW e \in ToSet(reader.entries) PROVE IsOk(readEntry(reader, e, TRUE))
  <2>1. PICK n \in DOMAIN reader.entries : e = reader.entries[n]
    BY DEF ToSet
  <2>2. verifyEntry(eager, eager.entries[n]) \in ToSet(reports)
    BY <1>2, <2>1 DEF ToSet
  <2>3. verifyEntry(reader, e).ok
    BY <1>1, <1>2, <2>1, <2>2
  <2>4. QED
    BY <2>3, VerifiedReads
<1> HIDE DEF reader, reports
<1>6. planned \in Plannings(ToSet(reader.entries))
  BY <1>4, PlanExtractionWell
<1> HIDE DEF planned
<1>7. CASE ~IsOk(planned)
  <2>1. planned.code \in PolicyCodes
    BY <1>6, <1>7 DEF Plannings, AcceptedPlans, Refused, IsOk
  <2>2. QED
    BY <1>3, <1>7, <2>1 DEF OkOrPolicy
<1>8. CASE IsOk(planned)
  <2>1. ASSUME NEW n \in DOMAIN planned.plan PROVE IsOk(reads[n])
    <3>1. planned \in AcceptedPlans(ToSet(reader.entries))
      BY <1>6, <1>8 DEF Plannings, Refused, IsOk, PolicyCodes
    <3>2. planned.plan \in Seq(PlanItems(ToSet(reader.entries)))
      BY <3>1 DEF AcceptedPlans, ExtractionPlans
    <3> DEFINE S == PlanItems(ToSet(reader.entries))
    <3>3. planned.plan[n] \in S
      <4> HIDE DEF S
      <4>1. planned.plan \in Seq(S)
        BY <3>2 DEF S
      <4>2. QED
        BY <4>1
    <3>4. planned.plan[n].entry \in ToSet(reader.entries)
      BY <3>3 DEF PlanItems
    <3>5. QED
      BY <1>5, <3>4
  <2> HIDE DEF reads
  <2>2. IsOk(Extracted(planned.plan, reads))
    BY <2>1 DEF Extracted, IsOk
  <2>3. QED
    BY <1>3, <1>8, <2>2 DEF OkOrPolicy
<1>9. QED
  BY <1>7, <1>8

(* What the generator has given, item by item. *)
Given(reader, item) == [path |-> item.path, data |-> readEntryStream(reader, item.entry, TRUE).out]
Readable(reader, item) == IsOk(readEntryStream(reader, item.entry, TRUE))
AllGiven(reader, plan, done) ==
  \A n \in DOMAIN done : Readable(reader, plan[n]) /\ done[n] = Given(reader, plan[n])
IsList(s) == s \in Seq(ToSet(s))

Lazily(file, strictly) == openZip(file, strictly, FALSE)
ReadThrough(reader, choice, plan, done) ==
  /\ IsOk(reader) /\ reader.directory = "OK" /\ IsOk(planExtraction(reader.entries, choice))
  /\ plan = planExtraction(reader.entries, choice).plan
  /\ DOMAIN plan = 1 .. Len(plan) /\ Len(plan) \in Nat
  /\ IsList(done) /\ Len(done) = Len(plan) /\ AllGiven(reader, plan, done)

(* Every stream read: that is the extraction, unless a codec decodes       *)
(* streams only.                                                           *)
LEMMA StreamedIsExtracted ==
  ASSUME NEW file \in Seq(FileUnits), NEW strictly, NEW choice, NEW plan, NEW done,
         ReadThrough(Lazily(file, strictly), choice, plan, done)
  PROVE  extractZip(file, strictly, choice) = AsAWhole(plan, done)
<1> DEFINE reader == openZip(file, strictly, FALSE)
<1> DEFINE reads == [n \in DOMAIN plan |-> readEntry(reader, plan[n].entry, TRUE)]
<1> DEFINE stream(n) == readEntryStream(reader, plan[n].entry, TRUE)
<1> DEFINE only == Refused("ZIP_UNSUPPORTED_CODEC_MODE")
<1> DEFINE N == Len(plan)
<1>1. extractZip(file, strictly, choice) = Extracted(plan, reads)
  BY ExtractedWhen DEF ReadThrough, Lazily
<1>2. DOMAIN done = 1 .. N /\ N \in Nat /\ DOMAIN plan = 1 .. N /\ done = [n \in 1 .. N |-> done[n]]
  <2> DEFINE S == ToSet(done)
  <2>1. done \in Seq(S)
    BY DEF IsList, ReadThrough
  <2> HIDE DEF S
  <2>2. Len(done) = N /\ N \in Nat /\ DOMAIN plan = 1 .. N
    BY DEF ReadThrough
  <2> HIDE DEF N
  <2>3. done \in [1 .. N -> S]
    BY <2>1, <2>2
  <2>4. DOMAIN done = 1 .. N /\ done = [n \in 1 .. N |-> done[n]]
    BY <2>3
  <2>5. QED
    BY <2>2, <2>4 DEF N
<1>3. \A n \in 1 .. N : IsOk(stream(n)) /\ done[n] = [path |-> plan[n].path, data |-> stream(n).out]
  BY <1>2 DEF ReadThrough, Lazily, AllGiven, Readable, Given
<1>4. ASSUME NEW n \in 1 .. N
      PROVE  reads[n] = IF StreamOnly(plan[n].entry) THEN only ELSE stream(n)
  BY <1>2, <1>3, StreamIsRead
<1>5. DOMAIN reads = 1 .. N
  BY <1>2
<1>6. only.code # "OK"
  BY DEF Refused
<1> HIDE DEF reader, reads, stream, only
<1>7. ASSUME NEW n \in 1 .. N PROVE IsOk(reads[n]) <=> ~StreamOnly(plan[n].entry)
  BY <1>3, <1>4, <1>6 DEF IsOk
<1>8. CASE \E n \in DOMAIN plan : StreamOnly(plan[n].entry)
  <2> DEFINE misplaced == {i \in DOMAIN reads : ~IsOk(reads[i])}
  <2> DEFINE first == CHOOSE i \in misplaced : \A j \in misplaced : i <= j
  <2>1. misplaced # {} /\ misplaced \subseteq Nat
    <3>1. PICK n \in 1 .. N : StreamOnly(plan[n].entry)
      BY <1>2, <1>8
    <3>2. n \in misplaced
      BY <1>5, <1>7, <3>1
    <3>3. misplaced \subseteq 1 .. N
      BY <1>5
    <3> HIDE DEF misplaced, N
    <3>4. 1 .. N \subseteq Nat
      BY <1>2
    <3>5. misplaced # {}
      BY <3>2
    <3>6. QED
      BY <3>3, <3>4, <3>5, Zenon
  <2>2. \E i \in misplaced : \A j \in misplaced : i <= j
    <3> HIDE DEF misplaced
    <3>1. QED
      BY <2>1, LeastExists
  <2>3. first \in misplaced
    BY <2>2
  <2>4. Found(reads) = reads[first]
    BY <2>1 DEF Found
  <2> HIDE DEF first
  <2>5. reads[first] = only
    BY <1>4, <1>5, <1>7, <2>3
  <2>6. Extracted(plan, reads) = Found(reads)
    BY <1>2, <1>7, <1>8 DEF Extracted
  <2>7. QED
    BY <1>1, <1>8, <2>4, <2>5, <2>6 DEF AsAWhole, only
<1>9. CASE ~\E n \in DOMAIN plan : StreamOnly(plan[n].entry)
  <2> DEFINE out == [n \in DOMAIN plan |-> [path |-> plan[n].path, data |-> reads[n].out]]
  <2>1. \A n \in 1 .. N : IsOk(reads[n]) /\ reads[n] = stream(n)
    BY <1>2, <1>4, <1>7, <1>9
  <2>2. out = [n \in 1 .. N |-> done[n]]
    BY <1>2, <1>3, <2>1
  <2>3. Extracted(plan, reads) = [code |-> "OK", out |-> out]
    BY <1>2, <2>1 DEF Extracted
  <2>4. AsAWhole(plan, done) = [code |-> "OK", out |-> done]
    BY <1>9 DEF AsAWhole
  <2> HIDE DEF out
  <2>5. QED
    BY <1>1, <1>2, <2>2, <2>3, <2>4
<1>10. QED
  BY <1>8, <1>9

-----------------------------------------------------------------------------
(* The inductive invariant.                                                *)

(* An operation that waits is in the phase the answer takes it to.  What   *)
(* it fetches lies in the file; in the phases of an entry there is one,    *)
(* and there is a layout when the directory is due.                        *)
EntryPhases == {"guard", "locate", "header", "located", "payload", "piece", "fed", "yielded"}
Phases == EntryPhases \union {"idle", "wait", "tail", "directory"}
Phase(o) == IF o.at = "wait" THEN o.then ELSE o.at
Operations(delivered) ==
  [kind : {"none", "open", "read", "raw", "stream", "verify"}, at : Phases, then : Phases,
   entry : Nat, window : [from : Nat, to : Nat], payload : [from : Nat, to : Nat],
   delivered : {delivered}]
RangeRecords ==
  [open : BOOLEAN, tailStart : Nat, size : Nat, strict : BOOLEAN, eager : BOOLEAN,
   layout : Layouts \union {None}, entries : Seq(ReaderEntries)]
Positioned(o, r) ==
  /\ o \in Operations(o.delivered)
  /\ o.window.from <= o.window.to /\ o.window.to <= size
  /\ o.payload.to - o.payload.from <= size
  /\ Phase(o) = "directory" => r.layout \in Layouts
  /\ Phase(o) \in EntryPhases => o.entry \in 1 .. Len(r.entries)

Sourced == served \in Seq(FileUnits) /\ strict \in BOOLEAN
Flagged == aborted \in BOOLEAN /\ faulted \in BOOLEAN
Fits(o, r) == r \in RangeRecords /\ Positioned(o, r)
RangeFits == Fits(op, range)

(* The generator goes through a plan; Passed() counts the items it is done *)
(* with.  As long as each of them was read, done has what their streams    *)
(* gave.                                                                   *)
GeneratorStates(g) ==
  [at : {"none", "items", "item", "stream", "ended"}, plan : {g.plan}, next : Nat,
   content : {g.content}, sent : Nat, total : Nat, done : {g.done}, code : {g.code}]
Drawn(reader, chosen, g) ==
  IsOk(Planning(reader, chosen)) /\ g.plan = Planning(reader, chosen).plan
Passed(g) == IF g.at \in {"item", "stream"} THEN g.next - 2 ELSE g.next - 1
Advanced(g) ==
  /\ g \in GeneratorStates(g)
  /\ Len(g.plan) \in Nat /\ DOMAIN g.plan = 1 .. Len(g.plan) /\ g.total = Len(g.plan)
  /\ g.next \in 1 .. g.total + 1 /\ (g.at \in {"item", "stream"} => g.next >= 2)
  /\ IsList(g.done) /\ Len(g.done) <= Passed(g)
Faithful(reader, chosen, g) ==
  /\ g.at = "none" => g = Unstarted
  /\ g.plan = <<>> \/ Drawn(reader, chosen, g)
  /\ g.at \in {"items", "item", "stream"} => Drawn(reader, chosen, g)
  /\ g.at = "ended" /\ g.code = "OK" => Drawn(reader, chosen, g) /\ g.next = g.total + 1
  /\ Len(g.done) = Passed(g) => AllGiven(reader, g.plan, g.done)
  /\ g.at = "stream" => /\ Readable(reader, g.plan[g.next - 1])
                        /\ g.content = readEntryStream(reader, g.plan[g.next - 1].entry, TRUE).out
Reported == outcome.of = "verification" => outcome.report = verifyZip(served)

IInv ==
  /\ Sourced /\ Flagged /\ RangeFits /\ options \in OptionSet
  /\ Advanced(extraction) /\ Faithful(Reader, options, extraction) /\ Reported

-----------------------------------------------------------------------------
(* The steps of the range reader.                                          *)

(* The file has a size. *)
LEMMA SizeNat == ASSUME Sourced PROVE size \in Nat
BY LengthNat DEF Sourced, size

(* No operation: nothing is fetched. *)
LEMMA IdleFits == ASSUME Sourced, NEW r \in RangeRecords PROVE Fits(Idle, r)
<1>1. size \in Nat
  BY SizeNat
<1>2. Idle \in Operations(Idle.delivered)
  BY DEF Idle, Operations, NoWindow, Phases
<1>3. /\ Idle.window.from = 0 /\ Idle.window.to = 0 /\ Idle.payload.from = 0 /\ Idle.payload.to = 0
      /\ Phase(Idle) = "idle"
  BY DEF Idle, NoWindow, Phase
<1>4. "idle" # "directory" /\ "idle" \notin EntryPhases
  BY DEF EntryPhases
<1>5. QED
  BY <1>1, <1>2, <1>3, <1>4 DEF Fits, Positioned

(* An operation that has ended. *)
LEMMA FailIdles == ASSUME NEW code, Fail(code) PROVE op' = Idle
BY DEF Fail, Ended

(* What the invariant says of an operation under way. *)
LEMMA Operating ==
  ASSUME RangeFits
  PROVE  /\ op \in Operations(op.delivered) /\ range \in RangeRecords
         /\ op.window.from \in Nat /\ op.window.to \in Nat
         /\ op.payload.from \in Nat /\ op.payload.to \in Nat
         /\ op.window.from <= op.window.to /\ op.window.to <= size
         /\ op.payload.to - op.payload.from <= size
BY DEF RangeFits, Fits, Positioned, Operations

(* An operation on an entry has one. *)
LEMMA EntryIs ==
  ASSUME RangeFits, Phase(op) \in EntryPhases
  PROVE  op.entry \in 1 .. Len(range.entries) /\ Entry \in ReaderEntries
<1> DEFINE E == ReaderEntries
<1>1. op.entry \in 1 .. Len(range.entries) /\ range.entries \in Seq(E)
  BY DEF RangeFits, Fits, Positioned, RangeRecords
<1> HIDE DEF E
<1>2. range.entries[op.entry] \in E
  BY <1>1
<1>3. QED
  BY <1>1, <1>2 DEF E, Entry

(* A window moves within the file. *)
LEMMA WindowFits ==
  ASSUME Sourced, RangeFits, NEW r \in RangeRecords, NEW from \in Nat, NEW to \in Nat,
         from <= to, to <= size, NEW o, o \in Operations(op.delivered),
         o.window = [from |-> from, to |-> to], o.payload = op.payload,
         Phase(o) = "directory" => r.layout \in Layouts,
         Phase(o) \in EntryPhases => o.entry \in 1 .. Len(r.entries)
  PROVE  Fits(o, r)
<1>1. o.delivered = op.delivered
  BY DEF Operations
<1>2. o.window.from = from /\ o.window.to = to
  OBVIOUS
<1>3. op.payload.to - op.payload.from <= size
  BY Operating
<1>4. QED
  BY <1>1, <1>2, <1>3 DEF Fits, Positioned

(* A range of an entry is asked for, in the tail or at the source. *)
LEMMA ReadRangeFits ==
  ASSUME Sourced, RangeFits, NEW from \in Nat, NEW length \in Nat, NEW then \in EntryPhases,
         op.entry \in 1 .. Len(range.entries), readRange(from, length, then), range' = range
  PROVE  Fits(op', range')
<1> DEFINE w == [from |-> from, to |-> from + length]
<1> DEFINE cached == [op EXCEPT !.at = then, !.window = w]
<1> DEFINE asked == [op EXCEPT !.at = "wait", !.then = then, !.window = w]
<1>1. \/ op' = Idle
      \/ ~(from + length > size) /\ op' = cached
      \/ from + length <= size /\ op' = cached
      \/ ~(from + length > size) /\ op' = asked
  BY DEF readRange, Read, Fail, Ended
<1>2. size \in Nat /\ from + length \in Nat /\ from <= from + length
  BY SizeNat
<1>3. op \in Operations(op.delivered) /\ range \in RangeRecords
  BY Operating
<1>4. then \in Phases /\ "wait" \in Phases /\ "wait" \notin EntryPhases /\ "directory" \notin EntryPhases
  BY DEF Phases, EntryPhases
<1>5. w \in [from : Nat, to : Nat] /\ w = [from |-> from, to |-> from + length]
  BY <1>2
<1>6. /\ cached \in Operations(op.delivered) /\ cached.window = w /\ cached.payload = op.payload
      /\ cached.entry = op.entry /\ Phase(cached) = then
      /\ asked \in Operations(op.delivered) /\ asked.window = w /\ asked.payload = op.payload
      /\ asked.entry = op.entry /\ Phase(asked) = then
  <2> HIDE DEF w
  <2>1. /\ cached \in Operations(op.delivered) /\ asked \in Operations(op.delivered)
    BY <1>3, <1>4, <1>5 DEF Operations
  <2>2. /\ cached.at = then /\ cached.window = w /\ cached.payload = op.payload /\ cached.entry = op.entry
        /\ asked.at = "wait" /\ asked.then = then /\ asked.window = w
        /\ asked.payload = op.payload /\ asked.entry = op.entry
    BY <1>3 DEF Operations
  <2>3. then # "wait"
    BY <1>4
  <2> HIDE DEF cached, asked
  <2>4. QED
    BY <2>1, <2>2, <2>3 DEF Phase
<1> HIDE DEF cached, asked
<1>7. CASE op' = Idle
  BY <1>3, <1>7, IdleFits
<1>8. CASE from + length <= size /\ op' \in {cached, asked}
  <2>1. PICK o \in {cached, asked} : op' = o
    BY <1>8
  <2>2. /\ o \in Operations(op.delivered) /\ o.window = [from |-> from, to |-> from + length]
        /\ o.payload = op.payload /\ o.entry = op.entry /\ Phase(o) = then
    BY <1>5, <1>6
  <2>3. Fits(o, range)
    BY <1>2, <1>3, <1>4, <1>8, <2>2, WindowFits
  <2>4. QED
    BY <2>1, <2>3
<1>9. QED
  BY <1>1, <1>2, <1>7, <1>8

(* The tail is no longer than the file. *)
LEMMA TailFits == ASSUME Sourced PROVE size - tailLength \in Nat /\ size - tailLength <= size
<1>1. size \in Nat /\ MAX_EOCD_SCAN + LocatorSize + Zip64EocdSize + TailSlack \in Nat
  BY SizeNat, ReaderAssumption, RangeAssumption DEF LocatorSize, Zip64EocdSize
<1> DEFINE wanted == MAX_EOCD_SCAN + LocatorSize + Zip64EocdSize + TailSlack
<1>2. tailLength = IF size < wanted THEN size ELSE wanted
  BY DEF tailLength
<1> HIDE DEF wanted
<1>3. wanted \in Nat
  BY <1>1 DEF wanted
<1>4. QED
  BY <1>1, <1>2, <1>3

(* An operation that begins. *)
LEMMA StartsFit ==
  ASSUME Sourced, NEW r \in RangeRecords, NEW o, o \in Operations(<<>>), o.payload = NoWindow,
         o.window.from \in Nat, o.window.to \in Nat, o.window.from <= o.window.to, o.window.to <= size,
         Phase(o) # "directory", Phase(o) \in EntryPhases => o.entry \in 1 .. Len(r.entries)
  PROVE  Fits(o, r)
<1>1. o.delivered = <<>>
  BY DEF Operations
<1>2. o.payload.to - o.payload.from <= size
  BY SizeNat DEF NoWindow
<1>3. QED
  BY <1>1, <1>2 DEF Fits, Positioned

LEMMA OpenFits == ASSUME Sourced, RangeFits, Open PROVE Fits(op', range')
<1> DEFINE w == [from |-> size - tailLength, to |-> size]
<1> DEFINE o == [Idle EXCEPT !.kind = "open", !.at = "wait", !.then = "tail", !.window = w]
<1>1. PICK eager \in BOOLEAN : range' = [range EXCEPT !.eager = eager]
  BY DEF Open
<1>2. op' = o
  BY DEF Open
<1>3. range' \in RangeRecords
  BY <1>1, Operating DEF RangeRecords
<1>4. w \in [from : Nat, to : Nat] /\ w.from <= w.to /\ w.to <= size
  BY TailFits, SizeNat
<1> HIDE DEF w
<1>5. /\ o \in Operations(<<>>) /\ o.payload = NoWindow /\ o.window = w /\ Phase(o) = "tail"
  BY <1>4 DEF Idle, Operations, NoWindow, Phases, Phase
<1> HIDE DEF o
<1>6. "tail" # "directory" /\ "tail" \notin EntryPhases
  BY DEF EntryPhases
<1>7. w.from \in Nat /\ w.to \in Nat
  BY <1>4
<1>8. QED
  BY <1>2, <1>3, <1>4, <1>5, <1>6, <1>7, StartsFit

LEMMA BeginFits ==
  ASSUME Sourced, RangeFits, NEW kind \in {"read", "raw", "stream", "verify"}, Begin(kind)
  PROVE  Fits(op', range')
<1> DEFINE E == ReaderEntries
<1>1. PICK i \in DOMAIN range.entries : op' = [Idle EXCEPT !.kind = kind, !.entry = i, !.at = "guard"]
  BY DEF Begin
<1> DEFINE o == [Idle EXCEPT !.kind = kind, !.entry = i, !.at = "guard"]
<1>2. range' = range /\ range \in RangeRecords
  BY Operating DEF Begin
<1>3. i \in 1 .. Len(range.entries) /\ i \in Nat
  <2>1. range.entries \in Seq(E)
    BY <1>2 DEF RangeRecords
  <2> HIDE DEF E
  <2>2. QED
    BY <2>1
<1>4. /\ o \in Operations(<<>>) /\ o.payload = NoWindow /\ o.window = NoWindow /\ Phase(o) = "guard"
      /\ o.entry = i
  BY <1>3 DEF Idle, Operations, NoWindow, Phases, EntryPhases, Phase
<1> HIDE DEF o
<1>5. /\ o.window.from \in Nat /\ o.window.to \in Nat /\ o.window.from <= o.window.to
      /\ o.window.to <= size
  BY <1>4, SizeNat DEF NoWindow
<1>6. Fits(o, range)
  BY <1>2, <1>3, <1>4, <1>5, StartsFit
<1>7. QED
  BY <1>1, <1>2, <1>6 DEF o

(* An operation goes on, with the same window. *)
LEMMA GoesOn ==
  ASSUME Sourced, RangeFits, NEW at \in Phases, op' = [op EXCEPT !.at = at], range' = range,
         at = Phase(op) \/ (at \in EntryPhases /\ Phase(op) \in EntryPhases)
  PROVE  Fits(op', range')
<1> DEFINE o == [op EXCEPT !.at = at]
<1>1. op \in Operations(op.delivered) /\ range \in RangeRecords
  BY Operating
<1>2. /\ o \in Operations(op.delivered) /\ o.at = at /\ o.then = op.then /\ o.entry = op.entry
      /\ o.window = op.window /\ o.payload = op.payload /\ o.delivered = op.delivered
  BY <1>1 DEF Operations
<1> HIDE DEF o
<1>3. "wait" \notin EntryPhases
  BY DEF EntryPhases
<1>4. Phase(o) = at
  BY <1>2, <1>3 DEF Phase
<1>5. /\ Phase(op) = "directory" => range.layout \in Layouts
      /\ Phase(op) \in EntryPhases => op.entry \in 1 .. Len(range.entries)
  BY DEF RangeFits, Fits, Positioned
<1>6. "directory" \notin EntryPhases
  BY DEF EntryPhases
<1>7. Phase(o) = "directory" => range.layout \in Layouts
  BY <1>4, <1>5, <1>6
<1>8. Phase(o) \in EntryPhases => o.entry \in 1 .. Len(range.entries)
  BY <1>2, <1>4, <1>5
<1>9. Fits(o, range)
  BY <1>1, <1>2, <1>7, <1>8, Operating DEF Fits, Positioned
<1>10. QED
  BY <1>9 DEF o

(* The answer of the source takes an operation on. *)
LEMMA AnswersFit == ASSUME Sourced, RangeFits, SourceAnswers PROVE Fits(op', range')
<1>1. op.at = "wait" /\ op' = [op EXCEPT !.at = op.then] /\ range' = range
  BY DEF SourceAnswers
<1>2. op.then \in Phases /\ op.then = Phase(op)
  BY <1>1, Operating DEF Operations, Phase
<1>3. QED
  BY <1>1, <1>2, GoesOn

(* An operation that fails is over. *)
LEMMA EndsFit == ASSUME Sourced, RangeFits, op' = Idle, range' = range PROVE Fits(op', range')
<1>1. range \in RangeRecords
  BY Operating
<1>2. QED
  BY <1>1, IdleFits

(* What has been fetched is a part of the file. *)
LEMMA BytesTyped == ASSUME Sourced, RangeFits PROVE Bytes(op.window) \in Seq(FileUnits)
<1>1. op.window.from \in Nat /\ op.window.to \in Nat
  BY Operating
<1>2. QED
  BY <1>1, SliceTyped DEF Bytes, Sourced

(* The tail gives a layout, or nothing. *)
LEMMA OnTailFits == ASSUME Sourced, RangeFits, OnTail PROVE Fits(op', range')
<1> DEFINE located == locateEocd(Bytes(op.window), op.window.from)
<1> DEFINE layout == Strictly(strict, located)
<1> DEFINE tailStart == op.window.from
<1> DEFINE w == [from |-> layout.cdOffset, to |-> layout.cdOffset + layout.cdSize]
<1> DEFINE opened == [range EXCEPT !.layout = layout, !.tailStart = tailStart]
<1> DEFINE cached == [op EXCEPT !.at = "directory", !.window = w]
<1> DEFINE asked == [op EXCEPT !.at = "wait", !.then = "directory", !.window = w]
<1>1. \/ ~IsOk(layout) /\ op' = Idle /\ range' = range
      \/ IsOk(layout) /\ range' = opened /\ op' = Idle
      \/ IsOk(layout) /\ range' = opened /\ layout.cdOffset + layout.cdSize <= size /\ op' = cached
      \/ IsOk(layout) /\ range' = opened /\ ~(layout.cdOffset + layout.cdSize > size) /\ op' = asked
  BY DEF OnTail, LaidOut, Read, Fail, Ended
<1>2. IsOk(layout) => layout \in Layouts
  <2>1. tailStart \in Nat /\ op.window.to \in Nat
    BY Operating
  <2>2. Bytes(op.window) \in Seq(FileUnits)
    BY BytesTyped
  <2>3. LayoutFits(located)
    BY <2>1, <2>2, LocatedTyped
  <2> HIDE DEF located
  <2>4. IsOk(layout) => layout = located
    BY DEF Strictly, Refused, IsOk
  <2>5. QED
    BY <2>3, <2>4 DEF LayoutFits
<1> HIDE DEF layout
<1>3. CASE ~IsOk(layout) /\ op' = Idle /\ range' = range
  BY <1>3, EndsFit
<1>4. CASE IsOk(layout) /\ range' = opened
  <2>1. layout \in Layouts /\ layout.cdOffset \in Nat /\ layout.cdSize \in Nat
    BY <1>2, <1>4 DEF Layouts
  <2>2. op \in Operations(op.delivered) /\ range \in RangeRecords /\ tailStart \in Nat
    BY Operating
  <2>3. opened \in RangeRecords /\ opened.layout = layout
    BY <2>1, <2>2 DEF RangeRecords
  <2>4. /\ w \in [from : Nat, to : Nat] /\ layout.cdOffset <= layout.cdOffset + layout.cdSize
        /\ layout.cdOffset + layout.cdSize \in Nat
    BY <2>1
  <2> HIDE DEF opened
  <2>5. CASE op' = Idle
    BY <1>4, <2>3, <2>5, IdleFits
  <2>6. CASE layout.cdOffset + layout.cdSize <= size /\ op' \in {cached, asked}
    <3> HIDE DEF w
    <3>1. /\ cached \in Operations(op.delivered) /\ asked \in Operations(op.delivered)
      BY <2>2, <2>4 DEF Operations, Phases
    <3>2. /\ cached.at = "directory" /\ cached.window = w /\ cached.payload = op.payload
          /\ asked.at = "wait" /\ asked.then = "directory" /\ asked.window = w
          /\ asked.payload = op.payload
      BY <2>2 DEF Operations
    <3> HIDE DEF cached, asked
    <3>3. PICK o \in {cached, asked} : op' = o
      BY <2>6
    <3>4. /\ o \in Operations(op.delivered) /\ o.window = w /\ o.payload = op.payload
          /\ Phase(o) = "directory"
      BY <3>1, <3>2 DEF Phase
    <3>5. "directory" \notin EntryPhases
      BY DEF EntryPhases
    <3>6. o.window = [from |-> layout.cdOffset, to |-> layout.cdOffset + layout.cdSize]
      BY <3>4 DEF w
    <3>7. Fits(o, opened)
      BY <2>1, <2>3, <2>4, <2>6, <3>4, <3>5, <3>6, WindowFits
    <3>8. QED
      BY <1>4, <3>3, <3>7
  <2>7. layout.cdOffset + layout.cdSize > size \/ layout.cdOffset + layout.cdSize <= size
    BY <2>4, SizeNat
  <2>8. QED
    BY <1>1, <1>4, <2>5, <2>6, <2>7
<1>5. QED
  BY <1>1, <1>3, <1>4

(* The directory gives the entries, or nothing. *)
LEMMA OnDirectoryFits == ASSUME Sourced, RangeFits, OnDirectory PROVE Fits(op', range')
<1> DEFINE file == Bytes(op.window)
<1> DEFINE layout == [range.layout EXCEPT !.cdOffset = 0]
<1> DEFINE whole == parseCentralDirectory(file, layout)
<1> DEFINE parsed == Strictly(strict, whole)
<1> DEFINE listed == [range EXCEPT !.entries = parsed.entries]
<1> DEFINE opened == [range EXCEPT !.entries = parsed.entries, !.open = TRUE]
<1> DEFINE first == [op EXCEPT !.at = "locate", !.entry = 1]
<1>1. \/ ~IsOk(parsed) /\ op' = Idle /\ range' = range
      \/ IsOk(parsed) /\ parsed.entries # <<>> /\ range' = listed /\ op' = first
      \/ IsOk(parsed) /\ range' = opened /\ op' = Idle
  BY DEF OnDirectory, Listed, Fail, Ended
<1>2. op \in Operations(op.delivered) /\ range \in RangeRecords
  BY Operating
<1>3. IsOk(parsed) => parsed.entries \in Seq(ReaderEntries)
  <2>1. op.at = "directory"
    BY DEF OnDirectory
  <2>2. range.layout \in Layouts
    BY <2>1 DEF RangeFits, Fits, Positioned, Phase
  <2>3. layout.totalEntries \in Nat /\ layout.cdOffset \in Int /\ layout.cdSize \in Nat /\ layout.base \in Nat
    BY <2>2 DEF Layouts
  <2>4. file \in Seq(FileUnits)
    BY BytesTyped
  <2> HIDE DEF file, layout
  <2>5. whole \in Parses(file)
    BY <2>3, <2>4, DirectoryTyped
  <2> HIDE DEF whole
  <2>6. IsOk(parsed) => parsed = whole
    BY DEF Strictly, Refused, IsOk
  <2>7. IsOk(whole) => whole.entries \in Seq(EntriesOf(file))
    BY <2>5 DEF Parses, Refused, IsOk, ParseRefusals
  <2>8. EntriesOf(file) \subseteq ReaderEntries
    BY DEF EntriesOf
  <2>9. QED
    BY <2>6, <2>7, <2>8, SubsetTyped
<1> HIDE DEF parsed
<1>4. CASE ~IsOk(parsed) /\ op' = Idle /\ range' = range
  BY <1>4, EndsFit
<1>5. CASE IsOk(parsed) /\ parsed.entries # <<>> /\ range' = listed /\ op' = first
  <2> DEFINE E == ReaderEntries
  <2>1. parsed.entries \in Seq(E)
    BY <1>3, <1>5
  <2> HIDE DEF E
  <2>2. 1 \in 1 .. Len(parsed.entries)
    BY <1>5, <2>1
  <2>3. listed \in RangeRecords /\ listed.entries = parsed.entries
    BY <1>2, <2>1 DEF RangeRecords, E
  <2>4. first \in Operations(op.delivered) /\ first.window = op.window /\ first.payload = op.payload
        /\ first.at = "locate" /\ first.entry = 1
    BY <1>2 DEF Operations, Phases, EntryPhases
  <2> HIDE DEF first, listed
  <2>5. Phase(first) = "locate" /\ first.delivered = op.delivered
    BY <2>4 DEF Phase, Operations
  <2>6. Fits(first, listed)
    BY <2>2, <2>3, <2>4, <2>5, Operating DEF Fits, Positioned
  <2>7. QED
    BY <1>5, <2>6
<1>6. CASE IsOk(parsed) /\ range' = opened /\ op' = Idle
  <2>1. opened \in RangeRecords
    <3> DEFINE S == Seq(ReaderEntries)
    <3>1. parsed.entries \in S
      BY <1>3, <1>6
    <3> HIDE DEF S
    <3>2. QED
      BY <1>2, <3>1 DEF RangeRecords, S
  <2> HIDE DEF opened
  <2>2. QED
    BY <1>6, <2>1, IdleFits
<1>7. QED
  BY <1>1, <1>4, <1>5, <1>6

(* Not encrypted, or only verified. *)
LEMMA GuardFits == ASSUME Sourced, RangeFits, Guard PROVE Fits(op', range')
<1>1. op.at = "guard" /\ range' = range /\ (op' = Idle \/ op' = [op EXCEPT !.at = "locate"])
  BY DEF Guard, Fail, Ended
<1>2. Phase(op) \in EntryPhases /\ "locate" \in EntryPhases /\ "locate" \in Phases
  BY <1>1 DEF Phase, EntryPhases, Phases
<1>3. QED
  BY <1>1, <1>2, GoesOn, EndsFit

(* The header is asked for. *)
LEMMA LocateFits == ASSUME Sourced, RangeFits, Locate PROVE Fits(op', range')
<1> DEFINE from == Entry.localHeaderOffset
<1> DEFINE available == size - from
<1> DEFINE least == IF available < LocalHeaderSize THEN LocalHeaderSize ELSE available
<1> DEFINE length == IF LocalHeaderSize + LFH_PREFETCH < least THEN LocalHeaderSize + LFH_PREFETCH ELSE least
<1>1. op.at = "locate" /\ range' = range /\ (op' = Idle \/ readRange(from, length, "header"))
  BY DEF Locate, Fail, Ended
<1>2. Phase(op) \in EntryPhases /\ "header" \in EntryPhases
  BY <1>1 DEF Phase, EntryPhases
<1>3. op.entry \in 1 .. Len(range.entries) /\ Entry \in ReaderEntries
  BY <1>2, EntryIs
<1>4. from \in Nat
  BY <1>3 DEF ReaderEntries
<1>5. length \in Nat
  <2>1. size \in Nat /\ LFH_PREFETCH \in Nat /\ LocalHeaderSize \in Nat
    BY SizeNat, RangeAssumption DEF LocalHeaderSize
  <2> HIDE DEF from
  <2>2. available \in Int /\ (least = LocalHeaderSize \/ (least = available /\ ~(available < LocalHeaderSize)))
    BY <1>4, <2>1
  <2> HIDE DEF available
  <2>3. least \in Nat
    BY <2>1, <2>2
  <2> HIDE DEF least
  <2>4. QED
    BY <2>1, <2>3
<1> HIDE DEF from, length
<1>6. QED
  BY <1>1, <1>2, <1>3, <1>4, <1>5, ReadRangeFits, EndsFit

(* What has been fetched of a local header. *)
LEMMA FetchedHeader ==
  ASSUME Sourced, RangeFits, At(Bytes(op.window), 0).kind = "lfh"
  PROVE  headerLength(At(Bytes(op.window), 0)) \in Nat
<1> DEFINE file == Bytes(op.window)
<1> DEFINE lfh == At(file, 0)
<1>1. file \in Seq(FileUnits)
  BY BytesTyped
<1> HIDE DEF file
<1>2. lfh \in ToSet(file) \cup {None}
  BY <1>1, AtTyped
<1>3. lfh.kind = "lfh"
  BY DEF file
<1> HIDE DEF lfh
<1>4. lfh \in LocalHeaders
  BY <1>1, <1>2, <1>3, KindIsType
<1>5. headerLength(lfh) \in Nat
  BY <1>4, HeaderLengthNat
<1>6. QED
  BY <1>5 DEF lfh, file

(* The header is there, or the rest of it is asked for. *)
LEMMA OnHeaderFits == ASSUME Sourced, RangeFits, OnHeader PROVE Fits(op', range')
<1> DEFINE lfh == At(Bytes(op.window), 0)
<1> DEFINE from == Entry.localHeaderOffset
<1> DEFINE length == headerLength(lfh)
<1>1. /\ op.at = "header" /\ range' = range
      /\ \/ op' = Idle
         \/ op' = [op EXCEPT !.at = "located"]
         \/ lfh.kind = "lfh" /\ readRange(from, length, "located")
  BY DEF OnHeader, Fail, Ended
<1>2. Phase(op) \in EntryPhases /\ "located" \in EntryPhases /\ "located" \in Phases
  BY <1>1 DEF Phase, EntryPhases, Phases
<1>3. op.entry \in 1 .. Len(range.entries) /\ Entry \in ReaderEntries
  BY <1>2, EntryIs
<1>4. from \in Nat
  BY <1>3 DEF ReaderEntries
<1>5. lfh.kind = "lfh" => length \in Nat
  BY FetchedHeader
<1> HIDE DEF from, length, lfh
<1>6. QED
  BY <1>1, <1>2, <1>3, <1>4, <1>5, ReadRangeFits, GoesOn, EndsFit

(* The payload is asked for in one piece, or the next entry is begun, or   *)
(* the stream; or there is nothing more to do.                             *)
LEMMA OnLocatedFits == ASSUME Sourced, RangeFits, OnLocated PROVE Fits(op', range')
<1> DEFINE lfh == At(Bytes(op.window), 0)
<1> DEFINE found == Agreed(range, Entry, lfh)
<1> DEFINE opened == [range EXCEPT !.open = TRUE]
<1> DEFINE onward == [op EXCEPT !.at = "locate", !.entry = op.entry + 1]
<1> DEFINE stream == [op EXCEPT !.at = "piece", !.payload = [from |-> found.from, to |-> found.from]]
<1>1. /\ op.at = "located"
      /\ \/ op' = Idle /\ range' \in {range, opened}
         \/ op.entry # Len(range.entries) /\ op' = onward /\ range' = range
         \/ IsOk(found) /\ op' = stream /\ range' = range
         \/ IsOk(found) /\ readRange(found.from, Entry.compressedSize, "payload") /\ range' = range
  <2>1. op.at = "located"
    BY DEF OnLocated
  <2>2. CASE ~IsOk(found)
    BY <2>2 DEF OnLocated, Fail, Ended
  <2>3. CASE IsOk(found) /\ op.kind = "open"
    BY <2>3 DEF OnLocated, Ended
  <2>4. CASE IsOk(found) /\ op.kind # "open"
    <3>1. op' = Idle \/ op' = stream \/ readRange(found.from, Entry.compressedSize, "payload")
      BY <2>4 DEF OnLocated, Fail, Ended, Streaming, fetchPayload
    <3>2. range' = range
      BY <2>4 DEF OnLocated
    <3>3. QED
      BY <2>1, <2>4, <3>1, <3>2
  <2>5. QED
    BY <2>1, <2>2, <2>3, <2>4
<1>2. Phase(op) \in EntryPhases /\ {"locate", "piece", "payload"} \subseteq EntryPhases
  BY <1>1 DEF Phase, EntryPhases
<1>3. /\ op.entry \in 1 .. Len(range.entries) /\ Len(range.entries) \in Nat /\ op.entry \in Nat
      /\ Entry \in ReaderEntries
  <2> DEFINE E == ReaderEntries
  <2>1. op.entry \in 1 .. Len(range.entries) /\ Entry \in E
    BY <1>2, EntryIs
  <2>2. range.entries \in Seq(E)
    BY Operating DEF RangeRecords
  <2> HIDE DEF E
  <2>3. Len(range.entries) \in Nat
    BY <2>2
  <2>4. QED
    BY <2>1, <2>3 DEF E
<1>4. Entry.localHeaderOffset \in Nat /\ Entry.compressedSize \in Nat
  BY <1>3 DEF ReaderEntries
<1>5. IsOk(found) => found.from \in Nat
  <2>1. SUFFICES ASSUME IsOk(found) PROVE found.from \in Nat
    OBVIOUS
  <2>2. lfh.kind = "lfh" /\ found.from = Entry.localHeaderOffset + headerLength(lfh)
    BY <2>1, AgreedIs
  <2>3. headerLength(lfh) \in Nat
    BY <2>2, FetchedHeader
  <2>4. QED
    BY <1>4, <2>2, <2>3
<1> HIDE DEF found
<1>6. op \in Operations(op.delivered) /\ range \in RangeRecords /\ size \in Nat
  BY Operating, SizeNat
<1>7. CASE op' = Idle /\ range' \in {range, opened}
  <2>1. range' \in RangeRecords
    BY <1>6, <1>7 DEF RangeRecords
  <2>2. QED
    BY <1>7, <2>1, IdleFits
<1>8. CASE op.entry # Len(range.entries) /\ op' = onward /\ range' = range
  <2>1. op.entry + 1 \in 1 .. Len(range.entries) /\ op.entry + 1 \in Nat
    BY <1>3, <1>8
  <2>2. /\ onward \in Operations(op.delivered) /\ onward.at = "locate" /\ onward.entry = op.entry + 1
        /\ onward.window = op.window /\ onward.payload = op.payload /\ onward.delivered = op.delivered
    BY <1>6, <2>1 DEF Operations, Phases, EntryPhases
  <2> HIDE DEF onward
  <2>3. Phase(onward) = "locate"
    BY <2>2 DEF Phase
  <2>4. Fits(onward, range)
    BY <1>6, <2>1, <2>2, <2>3, Operating DEF Fits, Positioned
  <2>5. QED
    BY <1>8, <2>4
<1>9. CASE IsOk(found) /\ op' = stream /\ range' = range
  <2> DEFINE p == [from |-> found.from, to |-> found.from]
  <2>1. p \in [from : Nat, to : Nat] /\ p.to - p.from <= size
    BY <1>5, <1>6, <1>9
  <2> HIDE DEF p
  <2>2. stream = [op EXCEPT !.at = "piece", !.payload = p]
    BY DEF p
  <2>3. /\ stream \in Operations(op.delivered) /\ stream.at = "piece" /\ stream.entry = op.entry
        /\ stream.window = op.window /\ stream.payload = p /\ stream.delivered = op.delivered
    <3> HIDE DEF stream
    <3>1. QED
      BY <1>6, <2>1, <2>2 DEF Operations, Phases, EntryPhases
  <2> HIDE DEF stream
  <2>4. Phase(stream) = "piece"
    BY <2>3 DEF Phase
  <2>5. Fits(stream, range)
    BY <1>3, <1>6, <2>1, <2>3, <2>4, Operating DEF Fits, Positioned
  <2>6. QED
    BY <1>9, <2>5
<1>10. CASE IsOk(found) /\ readRange(found.from, Entry.compressedSize, "payload") /\ range' = range
  <2> DEFINE from == found.from
  <2> DEFINE length == Entry.compressedSize
  <2>1. from \in Nat /\ length \in Nat /\ readRange(from, length, "payload")
    BY <1>4, <1>5, <1>10
  <2> HIDE DEF from, length
  <2>2. QED
    BY <1>2, <1>3, <1>10, <2>1, ReadRangeFits
<1>11. QED
  BY <1>1, <1>7, <1>8, <1>9, <1>10

(* The payload is decoded, or refused. *)
LEMMA OnPayloadFits == ASSUME Sourced, RangeFits, OnPayload PROVE Fits(op', range')
<1>1. op' = Idle /\ range' = range
  BY DEF OnPayload, Fail, Ended
<1>2. QED
  BY <1>1, EndsFit

(* The next piece of the payload is asked for, *)
LEMMA NextPieceFits == ASSUME Sourced, RangeFits, NextPiece PROVE Fits(op', range')
<1> DEFINE fed == op.payload.to - op.payload.from
<1> DEFINE rest == Entry.compressedSize - fed
<1> DEFINE length == IF rest < STREAM_CHUNK THEN rest ELSE STREAM_CHUNK
<1> DEFINE from == op.payload.to
<1>1. op.at = "piece" /\ fed < Entry.compressedSize /\ readRange(from, length, "fed") /\ range' = range
  BY DEF NextPiece
<1>2. Phase(op) \in EntryPhases /\ "fed" \in EntryPhases
  BY <1>1 DEF Phase, EntryPhases
<1>3. op.entry \in 1 .. Len(range.entries) /\ Entry \in ReaderEntries
  BY <1>2, EntryIs
<1>4. Entry.compressedSize \in Nat
  BY <1>3 DEF ReaderEntries
<1>5. from \in Nat /\ fed \in Int
  BY Operating
<1>6. length \in Nat
  BY <1>1, <1>4, <1>5, RangeAssumption
<1> HIDE DEF from, length
<1>7. QED
  BY <1>1, <1>2, <1>3, <1>5, <1>6, ReadRangeFits

(* and what has been fed ends where it ends. *)
LEMMA OnPieceFits == ASSUME Sourced, RangeFits, OnPiece PROVE Fits(op', range')
<1> DEFINE payload == [op.payload EXCEPT !.to = op.window.to]
<1> DEFINE out == DecodedSoFar(Entry, Bytes(payload))
<1> DEFINE next == IF out = op.delivered THEN "piece" ELSE "yielded"
<1> DEFINE fed == [op EXCEPT !.payload = payload, !.delivered = out, !.at = next]
<1>1. /\ op.at = "fed" /\ range' = range
      /\ op' = Idle \/ op' = fed
  BY DEF OnPiece, Fail, Ended
<1>2. op \in Operations(op.delivered) /\ range \in RangeRecords /\ size \in Nat
  BY Operating, SizeNat
<1>3. CASE op' = Idle
  BY <1>1, <1>3, EndsFit
<1>4. CASE op' = fed
  <2>1. payload = [from |-> op.payload.from, to |-> op.window.to]
    BY <1>2 DEF Operations
  <2>2. payload \in [from : Nat, to : Nat] /\ payload.to - payload.from <= size
    BY <1>2, <2>1, Operating
  <2>3. next \in EntryPhases /\ "wait" \notin EntryPhases /\ "directory" \notin EntryPhases
    BY DEF EntryPhases
  <2> HIDE DEF payload, out, next
  <2>4. /\ fed \in Operations(out) /\ fed.at = next /\ fed.entry = op.entry /\ fed.window = op.window
        /\ fed.payload = payload /\ fed.delivered = out
    BY <1>2, <2>2, <2>3 DEF Operations, Phases
  <2> HIDE DEF fed
  <2>5. Phase(fed) = next
    BY <2>3, <2>4 DEF Phase
  <2>6. op.entry \in 1 .. Len(range.entries)
    <3>1. Phase(op) \in EntryPhases
      BY <1>1 DEF Phase, EntryPhases
    <3>2. QED
      BY <3>1, EntryIs
  <2>7. Fits(fed, range)
    BY <1>2, <2>2, <2>3, <2>4, <2>5, <2>6, Operating DEF Fits, Positioned
  <2>8. QED
    BY <1>1, <1>4, <2>7
<1>5. QED
  BY <1>1, <1>3, <1>4

(* The last piece has been fed. *)
LEMMA EndOfEntryFits == ASSUME Sourced, RangeFits, EndOfEntry PROVE Fits(op', range')
<1>1. op' = Idle /\ range' = range
  BY DEF EndOfEntry, Fail, Ended
<1>2. QED
  BY <1>1, EndsFit

(* The consumer goes on, or leaves. *)
LEMMA PullFits == ASSUME Sourced, RangeFits, Pull PROVE Fits(op', range')
<1>1. op.at = "yielded" /\ range' = range /\ op' = [op EXCEPT !.at = "piece"]
  BY DEF Pull
<1>2. Phase(op) \in EntryPhases /\ "piece" \in EntryPhases /\ "piece" \in Phases
  BY <1>1 DEF Phase, EntryPhases, Phases
<1>3. QED
  BY <1>1, <1>2, GoesOn

(* Every step of the range reader. *)
LEMMA RangeStepFits ==
  ASSUME Sourced, Flagged, RangeFits, RangeNext
  PROVE  Fits(op', range') /\ UNCHANGED <<served, strict>> /\ Flagged'
<1>1. UNCHANGED <<served, strict>> /\ Flagged'
  BY DEF RangeNext, RangeCalls, RangeRunning, Open, ReadEntry, ReadEntryRaw, ReadEntryStream,
         VerifyEntry, Begin, Abort, Pull, Return, SourceAnswers, SourceShort, SourceFails, OnTail,
         OnDirectory, Guard, Locate, OnHeader, OnLocated, OnPayload, NextPiece, OnPiece, EndOfEntry,
         Flagged
<1>2. SUFFICES Fits(op', range')
  BY <1>1
<1>3. CASE RangeCalls
  <2>1. CASE Open
    BY <2>1, OpenFits
  <2>2. CASE \E kind \in {"read", "raw", "stream", "verify"} : Begin(kind)
    BY <2>2, BeginFits
  <2>3. QED
    BY <1>3, <2>1, <2>2 DEF RangeCalls, ReadEntry, ReadEntryRaw, ReadEntryStream, VerifyEntry
<1>4. CASE Abort \/ Return \/ SourceShort \/ SourceFails
  <2>1. CASE Abort
    <3>1. op' = op /\ range' = range
      BY <2>1 DEF Abort
    <3>2. QED
      BY <3>1 DEF RangeFits
  <2>2. CASE Return \/ SourceShort \/ SourceFails
    <3>1. op' = Idle /\ range' = range
      BY <2>2 DEF Return, SourceShort, SourceFails, Fail, Ended
    <3>2. QED
      BY <3>1, EndsFit
  <2>3. QED
    BY <1>4, <2>1, <2>2
<1>5. CASE Pull
  BY <1>5, PullFits
<1>6. CASE RangeRunning /\ ~(SourceShort \/ SourceFails)
  BY <1>6, AnswersFit, OnTailFits, OnDirectoryFits, GuardFits, LocateFits, OnHeaderFits,
     OnLocatedFits, OnPayloadFits, NextPieceFits, OnPieceFits, EndOfEntryFits DEF RangeRunning
<1>7. QED
  BY <1>3, <1>4, <1>5, <1>6, Zenon DEF RangeNext

-----------------------------------------------------------------------------
(* The steps of the generator.                                             *)

(* The fields of the generator. *)
LEMMA Advancing ==
  ASSUME NEW g, Advanced(g)
  PROVE  /\ g.next \in Nat /\ g.total \in Nat /\ Len(g.plan) = g.total /\ 1 <= g.next
         /\ g.next <= g.total + 1 /\ Len(g.done) \in Nat /\ Len(g.done) <= Passed(g) /\ Passed(g) \in Int
<1>1. /\ g.next \in 1 .. g.total + 1 /\ g.total \in Nat /\ Len(g.plan) = g.total
      /\ Len(g.done) <= Passed(g)
  BY DEF Advanced
<1>2. g.next \in Nat /\ 1 <= g.next /\ g.next <= g.total + 1
  BY <1>1
<1>3. Len(g.done) \in Nat
  BY DEF Advanced, IsList
<1>4. QED
  BY <1>1, <1>2, <1>3 DEF Passed

(* A list grows by an element. *)
LEMMA ListAppended ==
  ASSUME NEW s, IsList(s), NEW x
  PROVE  /\ IsList(Append(s, x)) /\ Len(Append(s, x)) = Len(s) + 1 /\ Append(s, x)[Len(s) + 1] = x
         /\ DOMAIN s = 1 .. Len(s) /\ DOMAIN Append(s, x) = 1 .. Len(s) + 1
         /\ \A n \in 1 .. Len(s) : Append(s, x)[n] = s[n]
<1> DEFINE S == ToSet(s)
<1> DEFINE T == S \union {x}
<1> DEFINE t == Append(s, x)
<1>1. s \in Seq(S)
  BY DEF IsList
<1>2. s \in Seq(T)
  <2> HIDE DEF S
  <2>1. S \subseteq T
    OBVIOUS
  <2>2. QED
    BY <1>1, <2>1, SubsetTyped
<1>3. /\ t \in Seq(T) /\ Len(t) = Len(s) + 1 /\ t[Len(s) + 1] = x /\ DOMAIN s = 1 .. Len(s)
      /\ DOMAIN t = 1 .. Len(s) + 1 /\ \A n \in 1 .. Len(s) : t[n] = s[n]
  <2> HIDE DEF T
  <2>1. x \in T
    BY DEF T
  <2>2. QED
    BY <1>2, <2>1
<1>4. IsList(t)
  <2> DEFINE U == ToSet(t)
  <2>1. Len(t) \in Nat /\ t \in [1 .. Len(t) -> U]
    <3> HIDE DEF t, T
    <3>1. Len(t) \in Nat /\ DOMAIN t = 1 .. Len(t) /\ t = [n \in 1 .. Len(t) |-> t[n]]
      BY <1>3
    <3>2. \A n \in 1 .. Len(t) : t[n] \in U
      BY <3>1 DEF ToSet
    <3> HIDE DEF U
    <3>3. QED
      BY <3>1, <3>2
  <2> HIDE DEF U, t
  <2>2. t \in Seq(U)
    BY <2>1
  <2>3. QED
    BY <2>2 DEF U, IsList
<1>5. QED
  BY <1>3, <1>4

(* Before it is called, the generator has nothing. *)
LEMMA UnstartedWell ==
  ASSUME NEW reader, NEW chosen
  PROVE  Advanced(Unstarted) /\ Faithful(reader, chosen, Unstarted)
<1>1. /\ Unstarted.plan = <<>> /\ Unstarted.done = <<>> /\ Unstarted.next = 1 /\ Unstarted.at = "none"
      /\ Unstarted.total = 0
  BY DEF Unstarted
<1>2. Unstarted \in GeneratorStates(Unstarted)
  BY DEF Unstarted, GeneratorStates
<1>3. Passed(Unstarted) = 0
  BY <1>1 DEF Passed
<1>4. Len(<<>>) = 0 /\ DOMAIN <<>> = {} /\ IsList(<<>>) /\ 1 .. 0 = {}
  BY DEF IsList
<1> HIDE DEF Unstarted
<1>5. Advanced(Unstarted)
  BY <1>1, <1>2, <1>3, <1>4 DEF Advanced
<1>6. QED
  BY <1>1, <1>3, <1>4, <1>5 DEF Faithful, AllGiven

(* A generator that breaks off, refusing. *)
LEMMA BrokenWell ==
  ASSUME NEW reader, NEW chosen, NEW g, Advanced(g), Faithful(reader, chosen, g), g.at # "ended",
         NEW code, code # "OK"
  PROVE  LET h == [g EXCEPT !.at = "ended", !.code = code]
         IN  Advanced(h) /\ Faithful(reader, chosen, h)
<1> DEFINE h == [g EXCEPT !.at = "ended", !.code = code]
<1>1. /\ h \in GeneratorStates(h) /\ h.at = "ended" /\ h.code = code /\ h.plan = g.plan
      /\ h.next = g.next /\ h.total = g.total /\ h.done = g.done
  BY DEF Advanced, GeneratorStates
<1> HIDE DEF h
<1>2. Len(g.done) <= Passed(g) /\ Passed(g) \in Int /\ g.next \in Nat /\ Len(g.done) \in Nat
  BY Advancing
<1>3. /\ Passed(h) = g.next - 1
      /\ Passed(g) = (IF g.at \in {"item", "stream"} THEN g.next - 2 ELSE g.next - 1)
  BY <1>1 DEF Passed
<1>4. Len(h.done) <= Passed(h) /\ (Len(h.done) = Passed(h) => Len(g.done) = Passed(g))
  BY <1>1, <1>2, <1>3
<1>5. Advanced(h)
  BY <1>1, <1>4 DEF Advanced
<1>6. h.plan = <<>> \/ Drawn(reader, chosen, h)
  BY <1>1 DEF Faithful, Drawn
<1>7. Len(h.done) = Passed(h) => AllGiven(reader, h.plan, h.done)
  BY <1>1, <1>4 DEF Faithful
<1>8. Faithful(reader, chosen, h)
  BY <1>1, <1>6, <1>7 DEF Faithful
<1>9. QED
  BY <1>5, <1>8 DEF h

(* A plan that is accepted is gone through. *)
LEMMA StartedWell ==
  ASSUME NEW reader, NEW chosen, IsOk(Planning(reader, chosen)),
         NEW plan, plan = Planning(reader, chosen).plan,
         Len(plan) \in Nat, DOMAIN plan = 1 .. Len(plan)
  PROVE  LET h == [Unstarted EXCEPT !.at = "items", !.plan = plan, !.total = Len(plan)]
         IN  Advanced(h) /\ Faithful(reader, chosen, h)
<1> DEFINE h == [Unstarted EXCEPT !.at = "items", !.plan = plan, !.total = Len(plan)]
<1>1. /\ h \in GeneratorStates(h) /\ h.at = "items" /\ h.plan = plan /\ h.next = 1
      /\ h.total = Len(plan) /\ h.done = <<>>
  BY DEF Unstarted, GeneratorStates
<1> HIDE DEF h
<1>2. Passed(h) = 0
  BY <1>1 DEF Passed
<1>3. Len(<<>>) = 0 /\ DOMAIN <<>> = {} /\ IsList(<<>>) /\ 1 \in 1 .. Len(plan) + 1
  BY DEF IsList
<1>4. Advanced(h)
  BY <1>1, <1>2, <1>3 DEF Advanced
<1>5. Drawn(reader, chosen, h)
  BY <1>1 DEF Drawn
<1>6. Faithful(reader, chosen, h)
  BY <1>1, <1>3, <1>5 DEF Faithful, AllGiven
<1>7. QED
  BY <1>4, <1>6 DEF h

(* The plan is exhausted, *)
LEMMA ExhaustedWell ==
  ASSUME NEW reader, NEW chosen, NEW g, Advanced(g), Faithful(reader, chosen, g),
         g.at \in {"items", "item"}, g.next > Len(g.plan)
  PROVE  LET h == [g EXCEPT !.at = "ended", !.code = "OK"]
         IN  Advanced(h) /\ Faithful(reader, chosen, h)
<1> DEFINE h == [g EXCEPT !.at = "ended", !.code = "OK"]
<1>1. /\ h \in GeneratorStates(h) /\ h.at = "ended" /\ h.plan = g.plan
      /\ h.next = g.next /\ h.total = g.total /\ h.done = g.done
  BY DEF Advanced, GeneratorStates
<1> HIDE DEF h
<1>2. /\ Len(g.done) <= Passed(g) /\ g.next \in Nat /\ Len(g.done) \in Nat /\ g.total \in Nat
      /\ g.next <= g.total + 1 /\ Len(g.plan) = g.total
  BY Advancing
<1>3. /\ Passed(h) = g.next - 1
      /\ Passed(g) = (IF g.at \in {"item", "stream"} THEN g.next - 2 ELSE g.next - 1)
  BY <1>1 DEF Passed
<1>4. /\ Len(h.done) <= Passed(h) /\ (Len(h.done) = Passed(h) => Len(g.done) = Passed(g))
      /\ h.next = h.total + 1
  BY <1>1, <1>2, <1>3, Z3
<1>5. Advanced(h)
  BY <1>1, <1>4 DEF Advanced
<1>6. Drawn(reader, chosen, h)
  BY <1>1 DEF Faithful, Drawn
<1>7. Len(h.done) = Passed(h) => AllGiven(reader, h.plan, h.done)
  BY <1>1, <1>4 DEF Faithful
<1>8. Faithful(reader, chosen, h)
  BY <1>1, <1>4, <1>6, <1>7 DEF Faithful
<1>9. QED
  BY <1>5, <1>8 DEF h

(* or its next item is handed out. *)
LEMMA TakenWell ==
  ASSUME NEW reader, NEW chosen, NEW g, Advanced(g), Faithful(reader, chosen, g),
         g.at \in {"items", "item"}, ~(g.next > Len(g.plan))
  PROVE  LET h == [g EXCEPT !.at = "item", !.next = g.next + 1]
         IN  Advanced(h) /\ Faithful(reader, chosen, h)
<1> DEFINE h == [g EXCEPT !.at = "item", !.next = g.next + 1]
<1>1. /\ g.next \in Nat /\ 1 <= g.next /\ Len(g.done) \in Nat /\ g.total \in Nat
      /\ Len(g.done) <= Passed(g) /\ Len(g.plan) = g.total
  BY Advancing
<1>2. /\ h \in GeneratorStates(h) /\ h.at = "item" /\ h.plan = g.plan
      /\ h.next = g.next + 1 /\ h.total = g.total /\ h.done = g.done
  <2> DEFINE next == g.next + 1
  <2>1. next \in Nat
    BY <1>1
  <2> HIDE DEF next
  <2>2. /\ [g EXCEPT !.at = "item", !.next = next].at = "item"
        /\ [g EXCEPT !.at = "item", !.next = next].next = next
        /\ [g EXCEPT !.at = "item", !.next = next] \in GeneratorStates([g EXCEPT !.at = "item", !.next = next])
        /\ [g EXCEPT !.at = "item", !.next = next].plan = g.plan
        /\ [g EXCEPT !.at = "item", !.next = next].total = g.total
        /\ [g EXCEPT !.at = "item", !.next = next].done = g.done
    BY <2>1 DEF Advanced, GeneratorStates
  <2>3. QED
    BY <2>2 DEF next
<1> HIDE DEF h
<1>3. /\ Passed(h) = (g.next + 1) - 2
      /\ Passed(g) = (IF g.at \in {"item", "stream"} THEN g.next - 2 ELSE g.next - 1)
  BY <1>2 DEF Passed
<1>4. /\ Len(h.done) <= Passed(h) /\ (Len(h.done) = Passed(h) => Len(g.done) = Passed(g))
      /\ h.next \in 1 .. h.total + 1 /\ h.next >= 2
  BY <1>1, <1>2, <1>3, SMTT(30)
<1>5. Advanced(h)
  BY <1>2, <1>4 DEF Advanced
<1>6. Drawn(reader, chosen, h)
  BY <1>2 DEF Faithful, Drawn
<1>7. Len(h.done) = Passed(h) => AllGiven(reader, h.plan, h.done)
  BY <1>2, <1>4 DEF Faithful
<1>8. Faithful(reader, chosen, h)
  BY <1>2, <1>6, <1>7 DEF Faithful
<1>9. QED
  BY <1>5, <1>8 DEF h

(* Its stream is begun, *)
LEMMA BegunWell ==
  ASSUME NEW reader, NEW chosen, NEW g, Advanced(g), Faithful(reader, chosen, g), g.at = "item",
         NEW read, read = readEntryStream(reader, g.plan[g.next - 1].entry, TRUE), IsOk(read)
  PROVE  LET h == [g EXCEPT !.at = "stream", !.content = read.out, !.sent = 0]
         IN  Advanced(h) /\ Faithful(reader, chosen, h)
<1> DEFINE h == [g EXCEPT !.at = "stream", !.content = read.out, !.sent = 0]
<1>1. /\ h \in GeneratorStates(h) /\ h.at = "stream" /\ h.plan = g.plan /\ h.content = read.out
      /\ h.next = g.next /\ h.total = g.total /\ h.done = g.done
  BY DEF Advanced, GeneratorStates
<1> HIDE DEF h
<1>2. Passed(h) = Passed(g) /\ g.next >= 2
  BY <1>1 DEF Passed, Advanced
<1>3. Advanced(h)
  BY <1>1, <1>2 DEF Advanced
<1>4. Drawn(reader, chosen, h)
  BY <1>1 DEF Faithful, Drawn
<1>5. Len(h.done) = Passed(h) => AllGiven(reader, h.plan, h.done)
  BY <1>1, <1>2 DEF Faithful
<1>6. /\ Readable(reader, h.plan[h.next - 1])
      /\ h.content = readEntryStream(reader, h.plan[h.next - 1].entry, TRUE).out
  BY <1>1 DEF Readable
<1>7. Faithful(reader, chosen, h)
  BY <1>1, <1>4, <1>5, <1>6 DEF Faithful
<1>8. QED
  BY <1>3, <1>7 DEF h

(* gives a chunk, *)
LEMMA SentWell ==
  ASSUME NEW reader, NEW chosen, NEW g, Advanced(g), Faithful(reader, chosen, g), g.at = "stream"
  PROVE  LET h == [g EXCEPT !.sent = g.sent + 1]
         IN  Advanced(h) /\ Faithful(reader, chosen, h)
<1> DEFINE h == [g EXCEPT !.sent = g.sent + 1]
<1>1. /\ h \in GeneratorStates(h) /\ h.at = "stream" /\ h.plan = g.plan /\ h.content = g.content
      /\ h.next = g.next /\ h.total = g.total /\ h.done = g.done
  BY DEF Advanced, GeneratorStates
<1> HIDE DEF h
<1>2. Passed(h) = Passed(g)
  BY <1>1 DEF Passed
<1>3. Advanced(h)
  BY <1>1, <1>2 DEF Advanced
<1>4. Drawn(reader, chosen, h)
  BY <1>1 DEF Faithful, Drawn
<1>5. Faithful(reader, chosen, h)
  BY <1>1, <1>2, <1>4 DEF Faithful
<1>6. QED
  BY <1>3, <1>5 DEF h

(* is abandoned, *)
LEMMA AbandonedWell ==
  ASSUME NEW reader, NEW chosen, NEW g, Advanced(g), Faithful(reader, chosen, g), g.at = "stream"
  PROVE  LET h == [g EXCEPT !.at = "items"]
         IN  Advanced(h) /\ Faithful(reader, chosen, h)
<1> DEFINE h == [g EXCEPT !.at = "items"]
<1>1. /\ h \in GeneratorStates(h) /\ h.at = "items" /\ h.plan = g.plan
      /\ h.next = g.next /\ h.total = g.total /\ h.done = g.done
  BY DEF Advanced, GeneratorStates
<1> HIDE DEF h
<1>2. Passed(h) = g.next - 1 /\ Passed(g) = g.next - 2
  BY <1>1 DEF Passed
<1>3. Len(h.done) <= Passed(h) /\ Len(h.done) # Passed(h)
  BY <1>1, <1>2, Advancing
<1>4. Advanced(h)
  BY <1>1, <1>3 DEF Advanced
<1>5. Drawn(reader, chosen, h)
  BY <1>1 DEF Faithful, Drawn
<1>6. Faithful(reader, chosen, h)
  BY <1>1, <1>3, <1>5 DEF Faithful
<1>7. QED
  BY <1>4, <1>6 DEF h

(* or has been read to its end. *)
LEMMA DoneWell ==
  ASSUME NEW reader, NEW chosen, NEW g, Advanced(g), Faithful(reader, chosen, g), g.at = "stream"
  PROVE  LET h == [g EXCEPT !.at = "items",
                     !.done = Append(g.done, [path |-> g.plan[g.next - 1].path, data |-> g.content])]
         IN  Advanced(h) /\ Faithful(reader, chosen, h)
<1> DEFINE item == [path |-> g.plan[g.next - 1].path, data |-> g.content]
<1> DEFINE done == Append(g.done, item)
<1> DEFINE h == [g EXCEPT !.at = "items", !.done = done]
<1>1. item = Given(reader, g.plan[g.next - 1]) /\ Readable(reader, g.plan[g.next - 1])
  BY DEF Faithful, Given
<1> HIDE DEF item
<1>2. /\ IsList(done) /\ Len(done) = Len(g.done) + 1 /\ done[Len(g.done) + 1] = item
      /\ DOMAIN g.done = 1 .. Len(g.done) /\ DOMAIN done = 1 .. Len(g.done) + 1
      /\ \A n \in 1 .. Len(g.done) : done[n] = g.done[n]
  BY ListAppended DEF Advanced
<1> HIDE DEF done
<1>3. /\ h \in GeneratorStates(h) /\ h.at = "items" /\ h.plan = g.plan
      /\ h.next = g.next /\ h.total = g.total /\ h.done = done
  BY DEF Advanced, GeneratorStates
<1> HIDE DEF h
<1>4. Passed(h) = g.next - 1 /\ Passed(g) = g.next - 2
  BY <1>3 DEF Passed
<1>5. Len(g.done) \in Nat /\ Len(g.done) <= Passed(g) /\ g.next \in Nat
  BY Advancing
<1>6. Len(h.done) <= Passed(h)
  BY <1>2, <1>3, <1>4, <1>5
<1>7. Advanced(h)
  BY <1>2, <1>3, <1>6 DEF Advanced
<1>8. Drawn(reader, chosen, h)
  BY <1>3 DEF Faithful, Drawn
<1>9. ASSUME Len(h.done) = Passed(h) PROVE AllGiven(reader, h.plan, h.done)
  <2>1. Len(g.done) = Passed(g) /\ Len(g.done) + 1 = g.next - 1
    BY <1>2, <1>3, <1>4, <1>5, <1>9
  <2>2. AllGiven(reader, g.plan, g.done)
    BY <2>1 DEF Faithful
  <2>3. ASSUME NEW n \in DOMAIN done
        PROVE  Readable(reader, g.plan[n]) /\ done[n] = Given(reader, g.plan[n])
    <3>1. CASE n \in 1 .. Len(g.done)
      BY <1>2, <2>2, <3>1 DEF AllGiven
    <3>2. CASE n = Len(g.done) + 1
      BY <1>1, <1>2, <2>1, <3>2
    <3>3. n \in 1 .. Len(g.done) \/ n = Len(g.done) + 1
      BY <1>2, <1>5
    <3>4. QED
      BY <3>1, <3>2, <3>3
  <2>4. QED
    BY <1>3, <2>3 DEF AllGiven
<1>10. Faithful(reader, chosen, h)
  BY <1>3, <1>8, <1>9 DEF Faithful
<1>11. QED
  BY <1>7, <1>10 DEF h, done, item

(* A plan that is accepted is a list of items of the reader's entries. *)
LEMMA PlanningWell ==
  ASSUME Sourced, NEW chosen, IsOk(Planning(Reader, chosen))
  PROVE  LET plan == Planning(Reader, chosen).plan
         IN  /\ IsOk(Reader) /\ Reader.directory = "OK"
             /\ Planning(Reader, chosen) = planExtraction(Reader.entries, chosen)
             /\ Len(plan) \in Nat /\ DOMAIN plan = 1 .. Len(plan)
             /\ \A n \in DOMAIN plan : SafePath(plan[n].path)
             /\ PathsDiffer(plan) /\ PlannedBytes(plan) <= Limits.maxTotalUncompressedSize
<1> DEFINE reader == Reader
<1> DEFINE planned == Planning(reader, chosen)
<1> DEFINE made == planExtraction(reader.entries, chosen)
<1> DEFINE plan == made.plan
<1>1. IsOk(reader) /\ reader.directory = "OK" /\ planned = made
  <2> HIDE DEF reader
  <2>1. IsOk(planned)
    BY DEF reader
  <2>2. QED
    BY <2>1 DEF Planning, Refused, IsOk
<1>2. reader.entries \in Seq(ReaderEntries)
  <2>1. reader.entries \in Seq(EntriesOf(served))
    BY <1>1, OpenedTyped DEF Sourced, Reader
  <2>2. EntriesOf(served) \subseteq ReaderEntries
    BY DEF EntriesOf
  <2> HIDE DEF reader
  <2>3. QED
    BY <2>1, <2>2, SubsetTyped
<1> HIDE DEF reader
<1>3. made \in Plannings(ToSet(reader.entries))
  BY <1>2, PlanExtractionWell
<1>4. IsOk(made)
  BY <1>1 DEF reader
<1> HIDE DEF made
<1>5. made \in AcceptedPlans(ToSet(reader.entries))
  BY <1>3, <1>4 DEF Plannings, Refused, IsOk, PolicyCodes
<1>6. /\ plan \in Seq(PlanItems(ToSet(reader.entries))) /\ PathsDiffer(plan)
      /\ PlannedBytes(plan) <= made.total /\ made.total <= Budget /\ made.total \in Nat
  BY <1>5 DEF AcceptedPlans, ExtractionPlans
<1> DEFINE S == PlanItems(ToSet(reader.entries))
<1>7. Len(plan) \in Nat /\ DOMAIN plan = 1 .. Len(plan) /\ \A n \in DOMAIN plan : plan[n] \in S
  <2>1. plan \in Seq(S)
    BY <1>6
  <2> HIDE DEF S, plan
  <2>2. QED
    BY <2>1
<1>8. \A n \in DOMAIN plan : SafePath(plan[n].path)
  BY <1>7 DEF PlanItems
<1>9. PlannedBytes(plan) <= Limits.maxTotalUncompressedSize
  <2>1. PlannedBytes(plan) \in Nat
    <3>1. ToSet(reader.entries) \in SUBSET ReaderEntries
      <4> DEFINE E == ReaderEntries
      <4>1. reader.entries \in Seq(E)
        BY <1>2
      <4> HIDE DEF E
      <4>2. ToSet(reader.entries) \subseteq E
        BY <4>1 DEF ToSet
      <4>3. QED
        BY <4>2 DEF E
    <3>2. QED
      BY <1>6, <3>1, PlannedBytesIsTotal
  <2>2. Budget = Limits.maxTotalUncompressedSize /\ Budget \in Int
    BY LimitsAssumption DEF Budget
  <2>3. QED
    BY <1>6, <2>1, <2>2
<1>10. Planning(Reader, chosen) = made /\ IsOk(Reader) /\ Reader.directory = "OK"
  BY <1>1 DEF reader
<1>11. made = planExtraction(Reader.entries, chosen)
  BY DEF made, reader
<1>12. QED
  BY <1>6, <1>7, <1>8, <1>9, <1>10, <1>11

-----------------------------------------------------------------------------
(* The invariant holds.                                                    *)

LEMMA InitWell == ASSUME Init PROVE IInv
<1>1. Sourced
  BY RangeAssumption DEF Init, RangeInit, Sourced
<1>2. Flagged
  BY DEF Init, RangeInit, Flagged
<1>3. RangeFits
  <2>1. size \in Nat
    BY <1>1, SizeNat
  <2>2. range = Closed /\ op = Idle /\ strict \in BOOLEAN
    BY DEF Init, RangeInit
  <2>3. Closed \in RangeRecords
    BY <2>1, <2>2, EmptyTyped DEF Closed, RangeRecords, size
  <2>4. Fits(Idle, range)
    BY <1>1, <2>2, <2>3, IdleFits
  <2>5. QED
    BY <2>2, <2>4 DEF RangeFits
<1>4. options \in OptionSet
  BY DEF Init, Default, OptionSet
<1>5. Advanced(extraction) /\ Faithful(Reader, options, extraction)
  BY UnstartedWell DEF Init
<1>6. Reported
  BY DEF Init, Nothing, Reported
<1>7. QED
  BY <1>1, <1>2, <1>3, <1>4, <1>5, <1>6 DEF IInv

(* The range reader goes on while nothing is asked of the whole archive. *)
LEMMA RangedWell == ASSUME IInv, Ranged PROVE IInv'
<1>1. /\ Fits(op', range') /\ served' = served /\ strict' = strict /\ Flagged'
  BY RangeStepFits DEF IInv, Ranged
<1>2. options' = options /\ extraction' = extraction /\ outcome' = outcome
  BY DEF Ranged
<1>3. RangeFits'
  BY <1>1 DEF RangeFits, Fits, Positioned, size
<1>4. Sourced' /\ Reported'
  BY <1>1, <1>2 DEF IInv, Sourced, Reported
<1>5. Advanced(extraction)' /\ Faithful(Reader, options, extraction)'
  <2>1. Reader' = Reader
    BY <1>1 DEF Reader
  <2>2. Advanced(extraction') /\ Faithful(Reader', options', extraction')
    BY <1>2, <2>1 DEF IInv
  <2>3. QED
    BY <2>2
<1>6. options' \in OptionSet
  BY <1>2 DEF IInv
<1>7. QED
  BY <1>1, <1>3, <1>4, <1>5, <1>6 DEF IInv

(* The whole archive is verified, extracted, made canonical, or planned. *)
LEMMA WholeWell == ASSUME IInv, Whole PROVE IInv'
<1>1. /\ UNCHANGED <<served, strict, aborted, range, op, faulted>>
      /\ extraction = Unstarted
  BY DEF IInv, Whole, VerifyZip, ExtractZip, CanonicalizeZip, ExtractZipStream, ReadOnly,
         rangeVars, Untouched, Faithful
<1>2. Sourced' /\ Flagged' /\ RangeFits'
  BY <1>1 DEF IInv, Sourced, Flagged, RangeFits, Fits, Positioned, size
<1>3. options' \in OptionSet
  BY DEF IInv, Whole, VerifyZip, ExtractZip, CanonicalizeZip, ExtractZipStream
<1>4. Reported'
  <2>1. CASE VerifyZip
    BY <1>1, <2>1 DEF VerifyZip, Reported
  <2>2. CASE ExtractZip \/ CanonicalizeZip
    BY <2>2 DEF ExtractZip, CanonicalizeZip, Reported
  <2>3. CASE ExtractZipStream
    BY <1>1, <2>3 DEF ExtractZipStream, Reported, IInv
  <2>4. QED
    BY <2>1, <2>2, <2>3 DEF Whole
<1>5. Advanced(extraction') /\ Faithful(Reader', options', extraction')
  <2>1. Reader' = Reader
    BY <1>1 DEF Reader
  <2>2. CASE extraction' = Unstarted
    BY <2>2, UnstartedWell
  <2>3. CASE ExtractZipStream
    <3> DEFINE planned == Planning(Reader, options')
    <3>1. Start(planned)
      BY <2>3 DEF ExtractZipStream
    <3>2. CASE ~IsOk(planned)
      <4>1. extraction' = [Unstarted EXCEPT !.at = "ended", !.code = planned.code]
        BY <1>1, <3>1, <3>2 DEF Start, Broken
      <4>2. planned.code # "OK" /\ Unstarted.at # "ended"
        BY <3>2 DEF IsOk, Unstarted
      <4> HIDE DEF planned
      <4>3. PICK code : code = planned.code
        OBVIOUS
      <4>4. PICK chosen : chosen = options'
        OBVIOUS
      <4>5. QED
        BY <2>1, <4>1, <4>2, <4>3, <4>4, UnstartedWell, BrokenWell
    <3>3. CASE IsOk(planned)
      <4>1. extraction' = [Unstarted EXCEPT !.at = "items", !.plan = planned.plan,
                                            !.total = Len(planned.plan)]
        BY <1>1, <3>1, <3>3 DEF Start
      <4>2. PICK chosen : chosen = options'
        OBVIOUS
      <4>3. PICK plan : plan = planned.plan
        OBVIOUS
      <4>4. IsOk(Planning(Reader, chosen)) /\ plan = Planning(Reader, chosen).plan
        BY <3>3, <4>2, <4>3
      <4>5. Len(plan) \in Nat /\ DOMAIN plan = 1 .. Len(plan)
        BY <4>4, PlanningWell DEF IInv
      <4>6. extraction' = [Unstarted EXCEPT !.at = "items", !.plan = plan, !.total = Len(plan)]
        BY <4>1, <4>3
      <4> HIDE DEF planned
      <4>7. QED
        BY <2>1, <4>2, <4>4, <4>5, <4>6, StartedWell
    <3>4. QED
      BY <3>2, <3>3
  <2>4. QED
    BY <1>1, <2>2, <2>3 DEF Whole, VerifyZip, ExtractZip, CanonicalizeZip
<1>6. Advanced(extraction)' /\ Faithful(Reader, options, extraction)'
  BY <1>5
<1>7. QED
  BY <1>2, <1>3, <1>4, <1>6 DEF IInv

(* The generator goes on, and its consumer. *)
LEMMA ExtractingWell == ASSUME IInv, Extracting PROVE IInv'
<1>1. /\ UNCHANGED <<served, strict, range, op, faulted, options, outcome>> /\ aborted' \in BOOLEAN
  BY DEF IInv, Flagged, Extracting, NextItem, BeginStream, StreamChunk, EndStream, AbandonStream,
         AbortExtraction, ReadOnly, rangeVars
<1>2. Sourced' /\ Flagged' /\ RangeFits' /\ options' \in OptionSet /\ Reported'
  <2>1. Sourced' /\ Flagged' /\ options' \in OptionSet /\ Reported'
    BY <1>1 DEF IInv, Sourced, Flagged, Reported
  <2>2. RangeFits'
    BY <1>1 DEF IInv, RangeFits, Fits, Positioned, size
  <2>3. QED
    BY <2>1, <2>2
<1> DEFINE g == extraction
<1>3. Advanced(g) /\ Faithful(Reader, options, g)
  BY DEF IInv
<1>4. Advanced(g') /\ Faithful(Reader, options, g')
  <2>1. ASSUME NEW code, code # "OK", g.at # "ended", Broken(code)
        PROVE  Advanced(g') /\ Faithful(Reader, options, g')
    BY <1>3, <2>1, BrokenWell DEF Broken
  <2>2. CASE NextItem
    <3>1. CASE g.next > Len(g.plan)
      <4>1. g' = [g EXCEPT !.at = "ended", !.code = "OK"] /\ g.at \in {"items", "item"}
        BY <2>2, <3>1 DEF NextItem, Broken
      <4> HIDE DEF g
      <4>2. QED
        BY <1>3, <3>1, <4>1, ExhaustedWell
    <3>2. CASE ~(g.next > Len(g.plan)) /\ aborted
      BY <2>1, <2>2, <3>2 DEF NextItem
    <3>3. CASE ~(g.next > Len(g.plan)) /\ ~aborted
      <4>1. g' = [g EXCEPT !.at = "item", !.next = g.next + 1] /\ g.at \in {"items", "item"}
        BY <2>2, <3>3 DEF NextItem
      <4> HIDE DEF g
      <4>2. QED
        BY <1>3, <3>3, <4>1, TakenWell
    <3>4. QED
      BY <3>1, <3>2, <3>3
  <2>3. CASE BeginStream
    <3> DEFINE read == readEntryStream(Reader, Item, TRUE)
    <3>1. CASE ~IsOk(read)
      BY <2>1, <2>3, <3>1 DEF BeginStream, Stream, IsOk
    <3>2. CASE IsOk(read) /\ aborted
      BY <2>1, <2>3, <3>2 DEF BeginStream, Stream
    <3>3. CASE IsOk(read) /\ ~aborted
      <4>1. /\ g' = [g EXCEPT !.at = "stream", !.content = read.out, !.sent = 0] /\ g.at = "item"
            /\ read = readEntryStream(Reader, g.plan[g.next - 1].entry, TRUE)
        BY <2>3, <3>3 DEF BeginStream, Stream, Item
      <4> HIDE DEF g, read
      <4>2. QED
        BY <1>3, <3>3, <4>1, BegunWell
    <3>4. QED
      BY <3>1, <3>2, <3>3
  <2>4. CASE StreamChunk
    <3>1. CASE aborted
      BY <2>1, <2>4, <3>1 DEF StreamChunk
    <3>2. CASE ~aborted
      BY <1>3, <2>4, <3>2, SentWell DEF StreamChunk
    <3>3. QED
      BY <3>1, <3>2
  <2>5. CASE EndStream
    BY <1>3, <2>5, DoneWell DEF EndStream
  <2>6. CASE AbandonStream
    BY <1>3, <2>6, AbandonedWell DEF AbandonStream
  <2>7. CASE AbortExtraction
    BY <1>3, <2>7 DEF AbortExtraction
  <2>8. QED
    BY <2>2, <2>3, <2>4, <2>5, <2>6, <2>7 DEF Extracting
<1>5. Advanced(extraction)' /\ Faithful(Reader, options, extraction)'
  <2>1. Reader' = Reader /\ options' = options
    BY <1>1 DEF Reader
  <2>2. Advanced(extraction') /\ Faithful(Reader', options', extraction')
    BY <1>4, <2>1
  <2>3. QED
    BY <2>2
<1>6. QED
  BY <1>2, <1>5 DEF IInv

(* Every step keeps the invariant. *)
THEOREM ReadingInductive == IInv /\ [Next]_vars => IInv'
<1> SUFFICES ASSUME IInv, [Next]_vars PROVE IInv'
  OBVIOUS
<1>1. CASE Ranged
  BY <1>1, RangedWell
<1>2. CASE Whole
  BY <1>2, WholeWell
<1>3. CASE Extracting
  BY <1>3, ExtractingWell
<1>4. CASE UNCHANGED vars
  <2>1. UNCHANGED <<served, strict, aborted, range, op, faulted, options, extraction, outcome>>
    BY <1>4 DEF vars, rangeVars
  <2>2. Sourced' /\ Flagged' /\ options' \in OptionSet /\ Reported'
    BY <2>1 DEF IInv, Sourced, Flagged, Reported
  <2>3. RangeFits'
    BY <2>1 DEF IInv, RangeFits, Fits, Positioned, size
  <2>4. Advanced(extraction)' /\ Faithful(Reader, options, extraction)'
    <3>1. Reader' = Reader
      BY <2>1 DEF Reader
    <3>2. Advanced(extraction') /\ Faithful(Reader', options', extraction')
      BY <2>1, <3>1 DEF IInv
    <3>3. QED
      BY <3>2
  <2>5. QED
    BY <2>2, <2>3, <2>4 DEF IInv
<1>5. QED
  BY <1>1, <1>2, <1>3, <1>4 DEF Next

(* The invariant holds in every state a reader reaches. *)
THEOREM ReadingInvariant == Spec => []IInv
<1>1. Init => IInv
  BY InitWell
<1>2. QED
  BY <1>1, ReadingInductive, PTL DEF Spec

-----------------------------------------------------------------------------
(* What follows from it.                                                   *)

(* The records of the readers have their types; what is fetched lies in    *)
(* the file, and no more is done than was planned. *)
THEOREM ReadingTyped == Spec => []TypeOK
<1>1. IInv => TypeOK
  <2> SUFFICES ASSUME IInv PROVE TypeOK
    OBVIOUS
  <2>1. {aborted, faulted, strict, range.open} \subseteq BOOLEAN /\ options \in OptionSet
    <3>1. range.open \in BOOLEAN
      BY Operating DEF IInv, RangeRecords
    <3>2. QED
      BY <3>1 DEF IInv, Sourced, Flagged
  <2>2. /\ 0 <= op.window.from /\ op.window.from <= op.window.to /\ op.window.to <= size
        /\ op.payload.to - op.payload.from <= size
    BY Operating DEF IInv
  <2>3. extraction.next \in 1 .. extraction.total + 1
    BY DEF IInv, Advanced
  <2>4. Len(extraction.done) < extraction.next
    <3> DEFINE g == extraction
    <3>1. Len(g.done) \in Nat /\ Len(g.done) <= Passed(g) /\ g.next \in Nat
      BY Advancing DEF IInv
    <3>2. Passed(g) = g.next - 2 \/ Passed(g) = g.next - 1
      BY DEF Passed
    <3> HIDE DEF g
    <3>3. Len(g.done) < g.next
      BY <3>1, <3>2
    <3>4. QED
      BY <3>3 DEF g
  <2>5. QED
    BY <2>1, <2>2, <2>3, <2>4 DEF TypeOK
<1>2. QED
  BY <1>1, ReadingInvariant, PTL

(* No two entries that can be read share a byte of the file, and none      *)
(* reaches into the directory (zip-entry-checks.ts). *)
THEOREM PayloadsApart == Spec => []PayloadsDisjoint
<1>1. IInv => PayloadsDisjoint
  <2> SUFFICES ASSUME IInv, IsOk(InMemory)
               PROVE  Apart([n \in DOMAIN InMemory.entries |-> crossChecked(InMemory, InMemory.entries[n])],
                            InMemory.layout.cdOffset)
    BY DEF PayloadsDisjoint, ReadsApart
  <2> DEFINE reader == InMemory
  <2> DEFINE reads == [n \in DOMAIN reader.entries |-> crossChecked(reader, reader.entries[n])]
  <2>1. ReaderFits(reader, served) /\ served \in Seq(FileUnits)
    BY OpenedTyped DEF IInv, Sourced, InMemory, ReaderFits
  <2> HIDE DEF reader
  <2>2. /\ DOMAIN reader.entries = 1 .. Len(reader.entries)
        /\ \A n \in DOMAIN reader.entries : reader.entries[n] \in ReaderEntries
    <3> DEFINE E == EntriesOf(served)
    <3>1. reader.entries \in Seq(E)
      BY <2>1 DEF ReaderFits
    <3>2. E \subseteq ReaderEntries
      BY DEF EntriesOf
    <3> HIDE DEF E
    <3>3. DOMAIN reader.entries = 1 .. Len(reader.entries) /\ \A n \in DOMAIN reader.entries : reader.entries[n] \in E
      BY <3>1
    <3>4. QED
      BY <3>2, <3>3
  <2>3. ASSUME NEW n \in DOMAIN reads, IsOk(reads[n]) PROVE reads[n].to <= reader.layout.cdOffset
    BY <2>1, <2>2, <2>3, ReadableLies
  <2>4. ASSUME NEW n \in DOMAIN reads, NEW m \in DOMAIN reads, n # m, IsOk(reads[n]), IsOk(reads[m])
        PROVE  reads[m].to <= reads[n].from \/ reads[n].to <= reads[m].from
    BY <2>1, <2>2, <2>4, ReadsLieApart
  <2> HIDE DEF reads
  <2>5. Apart(reads, reader.layout.cdOffset)
    BY <2>3, <2>4 DEF Apart
  <2>6. QED
    BY <2>5 DEF reads, reader
<1>2. QED
  BY <1>1, ReadingInvariant, PTL

(* Extracted paths differ and lie below the root, within the budget; what  *)
(* verifyZip() passes can be extracted, and who reads every stream of      *)
(* extractZipStream() has what extractZip() returns (zip-extract.ts). *)
THEOREM ExtractedSafely == Spec => []ExtractionIsSafe
<1>1. IInv => ExtractionIsSafe
  <2> SUFFICES ASSUME IInv PROVE ExtractionIsSafe
    OBVIOUS
  <2> DEFINE g == extraction
  <2>1. Sourced /\ Advanced(g) /\ Faithful(Reader, options, g) /\ Reported
    BY DEF IInv
  <2>2. g.plan = <<>> \/ Drawn(Reader, options, g)
    BY <2>1 DEF Faithful
  <2>3. /\ \A n \in DOMAIN g.plan : SafePath(g.plan[n].path)
        /\ PathsDiffer(g.plan)
        /\ PlannedBytes(g.plan) <= Limits.maxTotalUncompressedSize
    <3>1. CASE g.plan = <<>>
      <4>1. DOMAIN <<>> = {}
        OBVIOUS
      <4>2. PlannedBytes(<<>>) = 0
        BY PlannedNothing
      <4>3. Limits.maxTotalUncompressedSize \in Nat
        BY LimitsAssumption
      <4>4. QED
        BY <3>1, <4>1, <4>2, <4>3 DEF PathsDiffer
    <3>2. CASE Drawn(Reader, options, g)
      BY <2>1, <3>2, PlanningWell DEF Drawn
    <3>3. QED
      BY <2>2, <3>1, <3>2
  <2>4. ASSUME outcome.of = "verification", outcome.report.ok
        PROVE  \/ \A chosen \in OptionSet : OkOrPolicy(extractZip(served, FALSE, chosen))
               \/ \E r \in ToSet(outcome.report.entries) : designSkip(r)
    <3>1. outcome.report = verifyZip(served)
      BY <2>1, <2>4 DEF Reported
    <3>2. QED
      BY <2>1, <2>4, <3>1, VerifiedExtracts DEF Sourced
  <2>5. ASSUME g.at = "ended", g.code = "OK", Len(g.done) = g.total
        PROVE  extractZip(served, strict, options) = AsAWhole(g.plan, g.done)
    <3>1. Drawn(Reader, options, g) /\ g.next = g.total + 1
      BY <2>1, <2>5 DEF Faithful
    <3>2. Passed(g) = g.next - 1 /\ g.next \in Nat /\ g.total \in Nat
      BY <2>1, <2>5, Advancing DEF Passed
    <3>3. Len(g.done) = Passed(g)
      BY <2>5, <3>1, <3>2
    <3>4. AllGiven(Reader, g.plan, g.done)
      BY <2>1, <3>3 DEF Faithful
    <3>5. /\ IsList(g.done) /\ Len(g.plan) \in Nat /\ DOMAIN g.plan = 1 .. Len(g.plan)
          /\ Len(g.done) = Len(g.plan)
      BY <2>1, <2>5 DEF Advanced
    <3>6. /\ IsOk(Reader) /\ Reader.directory = "OK"
          /\ IsOk(planExtraction(Reader.entries, options))
          /\ g.plan = planExtraction(Reader.entries, options).plan
      BY <2>1, <3>1, PlanningWell DEF Drawn
    <3> HIDE DEF g
    <3>7. ReadThrough(Lazily(served, strict), options, g.plan, g.done)
      BY <3>4, <3>5, <3>6 DEF ReadThrough, Reader, Lazily
    <3>8. served \in Seq(FileUnits)
      BY <2>1 DEF Sourced
    <3>9. extractZip(served, strict, options) = AsAWhole(g.plan, g.done)
      BY <3>7, <3>8, StreamedIsExtracted
    <3>10. QED
      BY <3>9
  <2>6. QED
    BY <2>3, <2>4, <2>5 DEF ExtractionIsSafe, PathsDiffer
<1>2. QED
  BY <1>1, ReadingInvariant, PTL
=============================================================================
