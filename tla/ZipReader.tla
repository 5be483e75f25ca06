------------------------------- MODULE ZipReader -------------------------------
(***************************************************************************)
(* The reader over a file in memory (parser/zip-reader.ts) and the checks  *)
(* it shares with the range reader (parser/zip-entry-checks.ts).  A reader *)
(* is its file, its layout and its entries; nothing here changes state.    *)
(***************************************************************************)
EXTENDS ArchiveReader

(* An entry's declared sizes against the limits. *)
enforceDeclaredSizes(entry) ==
  /\ entry.uncompressedSize <= Limits.maxEntryUncompressedSize
  /\ entry.compressedSize >= Limits.ratioFloor
       => entry.uncompressedSize <= Limits.maxCompressionRatio * entry.compressedSize

(* The least a descriptor adds to an entry's region. *)
descriptorSlack(lfh) == IF lfh.bit3 THEN 12 ELSE 0

(* Mutant: two entries may start at the same place. *)
checkExtent_SharedStart(reader, entry, dataEnd) ==
  LET cdOffset == reader.layout.cdOffset
      starts == {e.localHeaderOffset : e \in ToSet(reader.entries)} \union {cdOffset}
  IN  IF dataEnd > reader.size THEN "ZIP_RECORD_TRUNCATED"
      ELSE IF entry.localHeaderOffset >= cdOffset THEN "ZIP_ENTRY_OVERLAP"
      ELSE IF \E s \in starts : entry.localHeaderOffset < s /\ s < dataEnd THEN "ZIP_ENTRY_OVERLAP"
      ELSE "OK"

(* An entry ends before the next one starts, or the directory. *)
checkExtent(reader, entry, dataEnd) ==
  LET cdOffset == reader.layout.cdOffset
      starts == {e.localHeaderOffset : e \in ToSet(reader.entries)} \union {cdOffset}
  IN  IF dataEnd > reader.size THEN "ZIP_RECORD_TRUNCATED"
      ELSE IF entry.localHeaderOffset >= cdOffset THEN "ZIP_ENTRY_OVERLAP"
      ELSE IF Cardinality(starts) < Len(reader.entries) + 1 THEN "ZIP_ENTRY_OVERLAP"
      ELSE IF \E s \in starts : entry.localHeaderOffset < s /\ s < dataEnd THEN "ZIP_ENTRY_OVERLAP"
      ELSE "OK"

(* The directory against the local header: the method must agree, and the  *)
(* sizes and the CRC unless a descriptor follows; sentinels are tolerated. *)
crossCheckLocalHeader(entry, lfh) ==
  IF lfh.method # entry.method THEN "ZIP_CD_LFH_MISMATCH"
  ELSE IF /\ ~lfh.bit3
          /\ \/ lfh.crc # entry.crc
             \/ /\ <<lfh.compressedSize, lfh.uncompressedSize>>
                     # <<entry.compressedSize, entry.uncompressedSize>>
                /\ <<lfh.compressedSize, lfh.uncompressedSize>> # <<SentinelU32, SentinelU32>>
       THEN "ZIP_SIZE_MISMATCH"
  ELSE "OK"

headerLength(lfh) == LocalHeaderSize + NameLength(lfh.name) + lfh.extraLength
nameDoubts(entry, lfh) == IF lfh.name # entry.name THEN {"name-mismatch"} ELSE {}

-----------------------------------------------------------------------------
(* Decoding.                                                               *)

Noise(len) == [id |-> "noise", size |-> len, packed |-> len]
Stored(units) ==
  Joined(LAMBDA u : IF u.kind = "data" /\ u.method = METHOD_STORE THEN u.holds
                    ELSE <<Noise(u.len)>>, units)

(* Up to the end of the stream; what follows it is not looked at. *)
Inflated(method, units, maxOutput) ==
  LET ends == {i \in DOMAIN units : units[i].kind = "data" /\ units[i].final}
      last == CHOOSE i \in ends : \A j \in ends : i <= j
      stream == SubSeq(units, 1, last)
      out == Joined(LAMBDA u : u.holds, stream)
  IN  IF ends = {} THEN Refused("ZIP_DEFLATE_TRUNCATED")
      ELSE IF \E u \in ToSet(stream) : u.kind # "data" \/ u.method # method
           THEN Refused("ZIP_DEFLATE_CORRUPT")
      ELSE IF ContentSize(out) > maxOutput THEN Refused("ZIP_INFLATE_OUTPUT_OVERFLOW")
      ELSE [code |-> "OK", out |-> out]

Decompressed(entry, units) ==
  IF entry.method = METHOD_STORE THEN [code |-> "OK", out |-> Stored(units)]
  ELSE Inflated(entry.method, units, entry.uncompressedSize)

(* What an incremental decoder has given out once these units are in. *)
DecodedSoFar(entry, units) ==
  LET good(n) == \A m \in 1 .. n : /\ units[m].kind = "data" /\ units[m].method = entry.method
                                   /\ \A k \in 1 .. m - 1 : ~units[k].final
      n == CHOOSE n \in 0 .. Len(units) : good(n) /\ \A m \in 0 .. Len(units) : good(m) => m <= n
  IN  Joined(LAMBDA u : u.holds, SubSeq(units, 1, n))

(* These units hold the end of a deflate stream that is sound so far.      *)
StreamEnded(entry, units) ==
  /\ entry.method = METHOD_DEFLATE
  /\ \E i \in DOMAIN units : /\ units[i].kind = "data" /\ units[i].final
                             /\ \A j \in 1 .. i : units[j].kind = "data" /\ units[j].method = entry.method

(* Bytes behind the end of a deflate stream.                               *)
Trailing(entry, units) == units # <<>> /\ StreamEnded(entry, Front(units))

(* The codec of a mode: DecompressionStream refuses bytes behind the end,  *)
(* the others do not look at them.                                         *)
DecodedAs(entry, units, mode) ==
  IF mode = "stream" /\ Trailing(entry, units) /\ IsOk(Decompressed(entry, units))
  THEN Refused("ZIP_DEFLATE_CORRUPT")
  ELSE Decompressed(entry, units)

checkDecompressedOutput(entry, out, verifyCrc) ==
  IF ContentSize(out) # entry.uncompressedSize THEN "ZIP_SIZE_MISMATCH"
  ELSE IF verifyCrc /\ out # entry.crc THEN "ZIP_CRC_MISMATCH"
  ELSE "OK"

guardEncryption(entry) == IF entry.encrypted THEN "ZIP_UNSUPPORTED_ENCRYPTION" ELSE "OK"
codecFor(entry, mode) ==
  IF entry.method \notin DOMAIN Codecs THEN "ZIP_UNSUPPORTED_METHOD"
  ELSE IF mode \notin Codecs[entry.method] THEN "ZIP_UNSUPPORTED_CODEC_MODE"
  ELSE "OK"

-----------------------------------------------------------------------------
(* The operations.  openZip locates the directory; it is parsed on first   *)
(* use.  With validate: 'eager' every extent is checked as well.           *)

Strictly(strict, result) ==
  IF strict /\ IsOk(result) /\ result.doubts # {} THEN Refused("ZIP_STRICT_DIAGNOSTIC") ELSE result

(* Where the payload of an entry with this local header lies. *)
Extent(reader, entry, lfh) ==
  LET dataStart == entry.localHeaderOffset + headerLength(lfh)
      dataEnd == dataStart + entry.compressedSize
      extent == checkExtent(reader, entry, dataEnd + descriptorSlack(lfh))
  IN  IF lfh.kind # "lfh" THEN Refused("ZIP_SIGNATURE_MISMATCH")
      ELSE IF extent # "OK" THEN Refused(extent)
      ELSE [code |-> "OK", lfh |-> lfh, from |-> dataStart, to |-> dataEnd]
localHeader(reader, entry) ==
  Extent(reader, entry, At(reader.file, entry.localHeaderOffset))

Found(headers) ==
  LET misplaced == {i \in DOMAIN headers : ~IsOk(headers[i])}
  IN  IF misplaced = {} THEN [code |-> "OK"]
      ELSE headers[CHOOSE i \in misplaced : \A j \in misplaced : i <= j]
ReaderOf(file, strict, layout, parsed) ==
  [code |-> "OK", file |-> file, size |-> Length(file), layout |-> layout, strict |-> strict,
   directory |-> parsed.code, entries |-> IF IsOk(parsed) THEN parsed.entries ELSE <<>>]
Eagerly(reader) ==
  LET found == Found([i \in DOMAIN reader.entries |-> localHeader(reader, reader.entries[i])])
  IN  IF reader.directory # "OK" THEN Refused(reader.directory)
      ELSE IF ~IsOk(found) THEN found ELSE reader
Parsed(file, strict, layout) ==
  IF ~IsOk(layout) THEN layout
  ELSE ReaderOf(file, strict, layout, Strictly(strict, parseCentralDirectory(file, layout)))
Validated(reader, eager) == IF IsOk(reader) /\ eager THEN Eagerly(reader) ELSE reader

openZip(file, strict, eager) ==
  Validated(Parsed(file, strict, Strictly(strict, locateEocd(file, 0))), eager)

(* The same, once the local header agrees with the directory. *)
AgreedAt(reader, entry, lfh, found) ==
  IF ~IsOk(found) THEN found
  ELSE IF crossCheckLocalHeader(entry, lfh) # "OK" THEN Refused(crossCheckLocalHeader(entry, lfh))
  ELSE Strictly(reader.strict, [code |-> "OK", from |-> found.from, to |-> found.to,
                                doubts |-> nameDoubts(entry, lfh)])
Agreed(reader, entry, lfh) == AgreedAt(reader, entry, lfh, Extent(reader, entry, lfh))

WithPayload(file, found) ==
  IF ~IsOk(found) THEN found
  ELSE [code |-> "OK", payload |-> Slice(file, found.from, found.to),
        from |-> found.from, to |-> found.to]
crossChecked(reader, entry) ==
  IF ~enforceDeclaredSizes(entry) THEN Refused("ZIP_LIMIT_EXCEEDED")
  ELSE WithPayload(reader.file, Agreed(reader, entry, At(reader.file, entry.localHeaderOffset)))

prepareRead(reader, entry) ==
  IF guardEncryption(entry) # "OK" THEN Refused(guardEncryption(entry))
  ELSE crossChecked(reader, entry)

readEntryRaw(reader, entry) == prepareRead(reader, entry)

CheckedOutput(entry, raw, verifyCrc) ==
  IF ~IsOk(raw) THEN raw
  ELSE IF checkDecompressedOutput(entry, raw.out, verifyCrc) # "OK"
       THEN Refused(checkDecompressedOutput(entry, raw.out, verifyCrc))
  ELSE [code |-> "OK", out |-> raw.out]
DecodedFrom(prepared, entry, mode, verifyCrc) ==
  IF ~IsOk(prepared) THEN prepared
  ELSE IF codecFor(entry, mode) # "OK" THEN Refused(codecFor(entry, mode))
  ELSE CheckedOutput(entry, DecodedAs(entry, prepared.payload, mode), verifyCrc)
Decoded(reader, entry, mode, verifyCrc) ==
  DecodedFrom(prepareRead(reader, entry), entry, mode, verifyCrc)

readEntry(reader, entry, verifyCrc) == Decoded(reader, entry, "sync", verifyCrc)
readEntryStream(reader, entry, verifyCrc) == Decoded(reader, entry, "stream", verifyCrc)

(* Never refuses: it reports whether the local header agrees, why the      *)
(* content was not decoded, and whether all is well.                       *)
reportOf(entry, found, skipped) ==
  [localHeaderMatch |-> IsOk(found), skipped |-> skipped,
   ok |-> /\ skipped = "OK" /\ IsOk(found)
          /\ IsOk(CheckedOutput(entry, Decompressed(entry, found.payload), TRUE))]
verifyEntry(reader, entry) ==
  reportOf(entry, crossChecked(reader, entry),
           IF entry.encrypted THEN "encrypted" ELSE codecFor(entry, "sync"))
=============================================================================
