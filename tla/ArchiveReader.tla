----------------------------- MODULE ArchiveReader -----------------------------
(***************************************************************************)
(* What the readers make of a file: finding the end record                 *)
(* (parser/zip-eocd.ts), the central directory (parser/zip-cd.ts), the     *)
(* checks of an entry against its local header (parser/zip-entry-checks.ts)*)
(* and the operations of the in-memory reader (parser/zip-reader.ts).  A   *)
(* refusal is its error code; doubts are the diagnostics, which refuse     *)
(* too when the reader is strict.                                          *)
(***************************************************************************)
EXTENDS ZipRecords

CONSTANTS
  MAX_EOCD_SCAN,  \* how far from the end the end record is looked for
  Codecs          \* method -> which decoders its codec has: "sync", "stream", "push"

ASSUME ReaderAssumption == MAX_EOCD_SCAN \in Nat

Refused(code) == [code |-> code]
IsOk(result) == result.code = "OK"
OneOf(s) == CHOOSE x \in s : TRUE

-----------------------------------------------------------------------------
(* The end record: the one that closes the file, and nothing else.         *)

EndRecords(window) ==
  {i \in DOMAIN window : /\ window[i].kind = "eocd"
                         /\ Starts(window)[i] >= Length(window) - MAX_EOCD_SCAN}
Closing(window) ==
  LET closes == {i \in EndRecords(window) :
                   Starts(window)[i] + EocdSize + window[i].commentLength = Length(window)}
  IN  {i \in closes : \A j \in closes : j <= i}

needsZip64(eocd) ==
  \/ SentinelU16 \in {eocd.totalEntries, eocd.entriesOnDisk, eocd.disk}
  \/ SentinelU32 \in {eocd.cdSize, eocd.cdOffset}

(* Where the Zip64 record is: where the locator points, else right before  *)
(* the locator; Undefined when at neither.                                 *)
zip64Position(window, locator, locatorPos, windowStart) ==
  LET isRecord(pos) == pos >= 0 /\ At(window, pos).kind = "zip64"
      pointed == locator.offset - windowStart
      before == locatorPos - Zip64EocdSize
  IN  IF isRecord(pointed) THEN pointed ELSE IF isRecord(before) THEN before ELSE Undefined

(* The Zip64 record may only replace sentinels. *)
contradicts(eocd, z64) ==
  \/ eocd.totalEntries \notin {SentinelU16, z64.totalEntries}
  \/ eocd.entriesOnDisk \notin {SentinelU16, z64.entriesOnDisk}
  \/ eocd.cdSize \notin {SentinelU32, z64.cdSize}
  \/ eocd.cdOffset \notin {SentinelU32, z64.cdOffset}
  \/ eocd.disk \notin {SentinelU16, z64.disk}

(* The layout that a record and the end of the directory amount to. *)
LayoutOf(end, cdEnd, windowStart, isZip64, comment, ambiguous) ==
  LET base == cdEnd + windowStart - (end.cdOffset + end.cdSize)
  IN  IF end.disk # 0 THEN Refused("ZIP_UNSUPPORTED_MULTI_DISK")
      ELSE IF end.entriesOnDisk # end.totalEntries THEN Refused("ZIP_EOCD_INCONSISTENT")
      ELSE IF end.totalEntries > Limits.maxEntries THEN Refused("ZIP_LIMIT_EXCEEDED")
      ELSE IF end.cdSize > Limits.maxCentralDirectoryBytes THEN Refused("ZIP_LIMIT_EXCEEDED")
      ELSE IF base < 0 THEN Refused("ZIP_EOCD_INCONSISTENT")
      ELSE [code |-> "OK", totalEntries |-> end.totalEntries, cdSize |-> end.cdSize,
            cdOffset |-> end.cdOffset + base, base |-> base, isZip64 |-> isZip64,
            comment |-> comment,
            doubts |-> (IF ambiguous THEN {"multiple-eocd"} ELSE {})
                         \union (IF base > 0 THEN {"prepended-data"} ELSE {})]

(* window is the file from byte windowStart on. *)
locateEocd(window, windowStart) ==
  LET i == OneOf(Closing(window))
      eocd == window[i]
      eocdPos == Starts(window)[i]
      ambiguous == EndRecords(window) # {i}
      comment == SubSeq(window, i + 1, Len(window))
      locatorPos == eocdPos - LocatorSize
      locator == At(window, locatorPos)
      z64Pos == zip64Position(window, locator, locatorPos, windowStart)
      z64 == At(window, z64Pos)
  IN  IF Closing(window) = {} THEN Refused("ZIP_EOCD_NOT_FOUND")
      ELSE IF eocd.commentLength > Limits.maxCommentBytes THEN Refused("ZIP_LIMIT_EXCEEDED")
      ELSE IF ~needsZip64(eocd)
           THEN LayoutOf(eocd, eocdPos, windowStart, FALSE, comment, ambiguous)
      ELSE IF locatorPos < 0 \/ locator.kind # "locator" THEN Refused("ZIP_ZIP64_LOCATOR_MISSING")
      ELSE IF locator.totalDisks > 1 THEN Refused("ZIP_UNSUPPORTED_MULTI_DISK")
      ELSE IF z64Pos = Undefined THEN Refused("ZIP_ZIP64_EOCD_MISPLACED")
      ELSE IF contradicts(eocd, z64) THEN Refused("ZIP_ZIP64_CONTRADICTION")
      ELSE LayoutOf(z64, z64Pos, windowStart, TRUE, comment, ambiguous)

-----------------------------------------------------------------------------
(* The central directory.                                                  *)

recordLength(cfh) ==
  CentralHeaderSize + NameLength(cfh.name) + cfh.extraLength + cfh.comment

EntryOf(cfh, base, extra, z64) ==
  [code |-> "OK", name |-> cfh.name, method |-> cfh.method,
   compressedSize |-> z64.compressedSize, uncompressedSize |-> z64.uncompressedSize,
   crc |-> cfh.crc, localHeaderOffset |-> z64.localHeaderOffset + base,
   encrypted |-> cfh.encrypted, bit3 |-> cfh.bit3, extra |-> extra.fields,
   usesZip64 |-> z64.usesZip64, pinned |-> cfh.pinned, foreign |-> cfh.foreign,
   comment |-> cfh.comment, attributes |-> cfh.attributes,
   isSymlink |-> cfh.attributes = "symlink",
   isDirectory |-> \/ Directory(cfh.name)
                   \/ cfh.attributes = "directory" /\ z64.uncompressedSize = 0,
   doubts |-> (IF extra.malformed THEN {"extra-field-malformed"} ELSE {})
                \union (IF z64.suppliedNonSentinel THEN {"zip64-extra-ignored"} ELSE {})]
EntryWith(cfh, base, extra) ==
  EntryOf(cfh, base, extra,
          resolveZip64(extra.fields, <<cfh.uncompressedSize, cfh.compressedSize, cfh.localHeaderOffset>>))
makeEntry(cfh, base) ==
  IF cfh.disk # 0 THEN Refused("ZIP_UNSUPPORTED_MULTI_DISK")
  ELSE EntryWith(cfh, base, parseExtraFields(cfh.extra, cfh.extraLength))

(* The next record behind those parsed, and the entry it describes. *)
Described(before, cfh, entry) ==
  IF \/ NameLength(cfh.name) > Limits.maxNameBytes
     \/ cfh.extraLength > Limits.maxExtraFieldBytes
     \/ cfh.comment > Limits.maxCommentBytes THEN Refused("ZIP_LIMIT_EXCEEDED")
  ELSE IF ~IsOk(entry) THEN entry
  ELSE [code |-> "OK", pos |-> before.pos + recordLength(cfh),
        entries |-> Append(before.entries, entry), doubts |-> before.doubts \union entry.doubts]
ParseNext(before, cfh, cdEnd, base) ==
  IF ~IsOk(before) THEN before
  ELSE IF before.pos >= cdEnd THEN Refused("ZIP_CD_INCONSISTENT")
  ELSE IF cfh.kind # "cfh" THEN Refused("ZIP_SIGNATURE_MISMATCH")
  ELSE IF before.pos + recordLength(cfh) > cdEnd THEN Refused("ZIP_CD_INCONSISTENT")
  ELSE Described(before, cfh, makeEntry(cfh, base))

(* One record after the other, and the directory ends with the last. *)
parseCentralDirectory(window, layout) ==
  LET cdEnd == layout.cdOffset + layout.cdSize
      parse[n \in 0 .. layout.totalEntries] ==
        IF n = 0 THEN [code |-> "OK", pos |-> layout.cdOffset, entries |-> <<>>, doubts |-> {}]
        ELSE ParseNext(parse[n - 1], At(window, parse[n - 1].pos), cdEnd, layout.base)
      parsed == parse[layout.totalEntries]
  IN  IF IsOk(parsed) /\ parsed.pos # cdEnd THEN Refused("ZIP_CD_INCONSISTENT") ELSE parsed
=============================================================================
