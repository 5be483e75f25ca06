----------------------------- MODULE ZipRecords ------------------------------
(***************************************************************************)
(* The records of a ZIP file, as core/zip-structs.ts writes and parses     *)
(* them, and the Zip64 extra field of core/zip-extra-fields.ts.  A file is *)
(* a sequence of units, each with its length in bytes: headers, payload    *)
(* pieces, descriptors, end records, and junk.  Every offset and size is   *)
(* in bytes and headers have their real sizes; the Zip64 sentinels are     *)
(* constants, small enough for a small file to reach them, and a field     *)
(* keeps its width: what does not fit wraps.                               *)
(***************************************************************************)
EXTENDS EntryNames

CONSTANTS
  SentinelU32,   \* 0xFFFFFFFF in the format
  SentinelU16,   \* 0xFFFF in the format
  MaxBlock,      \* what the length of a name, an extra block or a comment can say
  Limits         \* resolveLimits(options.limits)

ASSUME SentinelAssumption == {SentinelU32, SentinelU16, MaxBlock} \subseteq Nat

(* resolveLimits() lets positive numbers through only. *)
ASSUME LimitsAssumption ==
  /\ {"maxEntries", "maxNameBytes", "maxExtraFieldBytes", "maxCommentBytes",
      "maxCentralDirectoryBytes", "maxEntryUncompressedSize", "maxEntryCompressedSize",
      "maxTotalUncompressedSize", "maxCompressionRatio", "ratioFloor"} \subseteq DOMAIN Limits
  /\ \A limit \in DOMAIN Limits : Limits[limit] \in Nat \ {0}

None == [kind |-> "none"]

LocalHeaderSize   == 30
CentralHeaderSize == 46
EocdSize          == 22
Zip64EocdSize     == 56
LocatorSize       == 20

U32(n) == n % (SentinelU32 + 1)
U16(n) == n % (SentinelU16 + 1)

METHOD_STORE   == 0
METHOD_DEFLATE == 8

-----------------------------------------------------------------------------
(* Contents.  A content is a sequence of chunks; a chunk has a length and  *)
(* a length when deflated on its own.  The CRC-32 of a content is the      *)
(* content: the model has no collisions.                                   *)

Chunks == [id : {"noise"} \cup STRING, size : Nat, packed : Nat]
Contents == Seq(Chunks)
ContentSize(content) == SumOf(LAMBDA c : c.size, content)

(* A stretch of payload: what it decodes to, and whether the deflate       *)
(* stream ends with it.                                                    *)
DataUnit(method, len, holds, final) ==
  [kind |-> "data", len |-> len, method |-> method, holds |-> holds, final |-> final]

Junk(len) == [kind |-> "junk", len |-> len]

-----------------------------------------------------------------------------
(* A file and its parts.  A unit is a record the format knows, a stretch   *)
(* of payload, or junk.                                                    *)

ExtraFields == [id : {"zip64", "other"}, values : Seq(Nat), size : Nat]
LocalHeaders ==
  [kind : {"lfh"}, len : Nat, name : Names, bit3 : BOOLEAN, encrypted : BOOLEAN, method : Nat,
   crc : Contents, compressedSize : Nat, uncompressedSize : Nat, extra : Seq(ExtraFields),
   extraLength : Nat]
DirectoryRecords ==
  [kind : {"cfh"}, len : Nat, name : Names, bit3 : BOOLEAN, encrypted : BOOLEAN, method : Nat,
   crc : Contents, compressedSize : Nat, uncompressedSize : Nat, extra : Seq(ExtraFields),
   extraLength : Nat, localHeaderOffset : Nat, comment : Nat, attributes : STRING,
   pinned : BOOLEAN, foreign : BOOLEAN, disk : Nat]
ClosingRecords ==
  [kind : {"eocd"}, len : Nat, disk : Nat, entriesOnDisk : Nat, totalEntries : Nat,
   cdSize : Nat, cdOffset : Nat, commentLength : Nat]
Zip64Ends ==
  [kind : {"zip64"}, len : Nat, disk : Nat, entriesOnDisk : Nat, totalEntries : Nat,
   cdSize : Nat, cdOffset : Nat]
Locators == [kind : {"locator"}, len : Nat, offset : Nat, totalDisks : Nat]
Descriptors ==  \* "bare": without signature
  [kind : {"descriptor", "bare"}, len : Nat, wide : BOOLEAN, crc : Contents, compressedSize : Nat,
   uncompressedSize : Nat]
DataUnits ==
  [kind : {"data"}, len : Nat, method : Nat, holds : Contents, final : BOOLEAN]
FileUnits ==
  LocalHeaders \cup DirectoryRecords \cup ClosingRecords \cup Zip64Ends \cup Locators
    \cup Descriptors \cup DataUnits \cup [kind : {"junk"}, len : Nat]

Length(file) == SumOf(LAMBDA u : u.len, file)

(* Starts(file)[i] is where unit i begins, and the last is the length. *)
Starts(file) ==
  LET start[i \in 1 .. Len(file) + 1] == IF i = 1 THEN 0 ELSE start[i - 1] + file[i - 1].len
  IN  start

(* The record that begins at byte pos, if one does. *)
At(file, pos) ==
  LET start == Starts(file)
      here  == {i \in DOMAIN file : start[i] = pos}
  IN  IF here = {} THEN None ELSE file[CHOOSE i \in here : TRUE]

(* bytes.subarray(from, to): a unit cut in two is junk, but a local header *)
(* cut behind its fixed part is still one.                                 *)
Slice(file, from, to) ==
  LET start == Starts(file)
      lo(i) == IF start[i] < from THEN from ELSE start[i]
      hi(i) == IF start[i + 1] > to THEN to ELSE start[i + 1]
      part(i) ==
        IF hi(i) <= lo(i) THEN <<>>
        ELSE IF hi(i) - lo(i) = file[i].len THEN <<file[i]>>
        ELSE IF file[i].kind = "lfh" /\ lo(i) = start[i] /\ hi(i) - lo(i) >= LocalHeaderSize
             THEN <<[file[i] EXCEPT !.len = hi(i) - lo(i)]>>
        ELSE <<Junk(hi(i) - lo(i))>>
  IN  Joined(part, [i \in DOMAIN file |-> i])

-----------------------------------------------------------------------------
(* Extra fields: an id, the u64 values of a Zip64 field, and the size of   *)
(* the data.  The length of a block is a field of its header, and wraps.   *)

Declared(n) == n % (MaxBlock + 1)
ExtraField(id, values, size) == [id |-> id, values |-> values, size |-> size]
ExtraSize(extra) == SumOf(LAMBDA f : 4 + f.size, extra)

(* The fields that end within the length the header gives; a field cut by  *)
(* it is malformed, less than a field header is padding.                   *)
parseExtraFields(extra, length) ==
  LET whole(n) == ExtraSize(SubSeq(extra, 1, n)) <= length
      count == CHOOSE n \in 0 .. Len(extra) :
                 whole(n) /\ \A m \in 0 .. Len(extra) : whole(m) => m <= n
      fields == SubSeq(extra, 1, count)
  IN  [fields |-> fields, malformed |-> count < Len(extra) /\ length - ExtraSize(fields) >= 4]

(* undefined for a field whose classic counterpart is not the sentinel. *)
Undefined == -1
Defined(values) == Selected(values, LAMBDA v : v # Undefined)
buildZip64Extra(uncompressedSize, compressedSize, localHeaderOffset) ==
  LET values == Defined(<<uncompressedSize, compressedSize, localHeaderOffset>>)
  IN  ExtraField("zip64", values, 8 * Len(values))

(* The value a Zip64 field gives for the n-th classic field, and whether   *)
(* it gives one: the field is walked in step with the sentinels.           *)
resolveZip64(fields, classic) ==
  LET found == SelectInSeq(fields, LAMBDA f : f.id = "zip64")
      z64   == IF found = 0 THEN <<>> ELSE fields[found].values
      place(n) == Cardinality({m \in 1 .. n : classic[m] = SentinelU32})
      supplied(n) == classic[n] = SentinelU32 /\ place(n) <= Len(z64)
      value(n) == IF supplied(n) THEN z64[place(n)] ELSE classic[n]
  IN  [uncompressedSize |-> value(1), compressedSize |-> value(2), localHeaderOffset |-> value(3),
       usesZip64 |-> \E n \in 1 .. 3 : supplied(n), suppliedNonSentinel |-> Len(z64) > place(3)]

(* A local header has both sizes in its Zip64 field, or none. *)
lfhZip64Fields(uncompressedSize, compressedSize) ==
  IF uncompressedSize > SentinelU32 - 1 \/ compressedSize > SentinelU32 - 1
  THEN [compressed |-> SentinelU32, uncompressed |-> SentinelU32,
        extra |-> <<buildZip64Extra(uncompressedSize, compressedSize, Undefined)>>]
  ELSE [compressed |-> compressedSize, uncompressed |-> uncompressedSize, extra |-> <<>>]

-----------------------------------------------------------------------------
(* The writers.                                                            *)

writeLocalFileHeader(f) ==
  [kind |-> "lfh", len |-> LocalHeaderSize + NameLength(f.name) + ExtraSize(f.extra),
   name |-> f.name, bit3 |-> f.bit3, encrypted |-> f.encrypted, method |-> f.method,
   crc |-> f.crc, compressedSize |-> U32(f.compressedSize),
   uncompressedSize |-> U32(f.uncompressedSize), extra |-> f.extra,
   extraLength |-> Declared(ExtraSize(f.extra))]

writeDataDescriptor(crc, compressedSize, uncompressedSize, zip64) ==
  LET field(n) == IF zip64 THEN n ELSE U32(n)
  IN  [kind |-> "descriptor", len |-> IF zip64 THEN 24 ELSE 16, wide |-> zip64, crc |-> crc,
       compressedSize |-> field(compressedSize), uncompressedSize |-> field(uncompressedSize)]

writeCentralFileHeader(f, localHeaderOffset) ==
  [kind |-> "cfh",
   len |-> CentralHeaderSize + NameLength(f.name) + ExtraSize(f.extra) + f.comment,
   name |-> f.name, bit3 |-> f.bit3, encrypted |-> f.encrypted, method |-> f.method,
   crc |-> f.crc, compressedSize |-> U32(f.compressedSize),
   uncompressedSize |-> U32(f.uncompressedSize), extra |-> f.extra,
   extraLength |-> Declared(ExtraSize(f.extra)),
   localHeaderOffset |-> U32(localHeaderOffset), comment |-> f.comment,
   attributes |-> f.attributes, pinned |-> f.pinned, foreign |-> FALSE, disk |-> 0]

(* The comment is the units behind the record. *)
writeEocd(totalEntries, cdSize, cdOffset, comment) ==
  <<[kind |-> "eocd", len |-> EocdSize, disk |-> 0, entriesOnDisk |-> U16(totalEntries),
     totalEntries |-> U16(totalEntries), cdSize |-> U32(cdSize), cdOffset |-> U32(cdOffset),
     commentLength |-> Length(comment)]>> \o comment

writeZip64Eocd(totalEntries, cdSize, cdOffset) ==
  [kind |-> "zip64", len |-> Zip64EocdSize, disk |-> 0, entriesOnDisk |-> totalEntries,
   totalEntries |-> totalEntries, cdSize |-> cdSize, cdOffset |-> cdOffset]

writeZip64Locator(zip64EocdOffset) ==
  [kind |-> "locator", len |-> LocatorSize, offset |-> zip64EocdOffset, totalDisks |-> 1]
=============================================================================
