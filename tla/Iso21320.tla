------------------------------- MODULE Iso21320 ------------------------------
(***************************************************************************)
(* The project's conformance validator (scripts/validate-zip.ts): what     *)
(* ISO/IEC 21320-1 and the format itself ask of an archive, checked by a   *)
(* parser that is not the package's own.  validateArchive(file) is the set *)
(* of the checks that fail.  Versions, character sets and the DOS volume   *)
(* label are below this model, and of the forbidden flags there is         *)
(* encryption.                                                             *)
(***************************************************************************)
EXTENDS ZipRecords

Failing(check, broken) == IF broken THEN {check} ELSE {}

-----------------------------------------------------------------------------
(* The end: the consistent end record closest to the end of the file.      *)

Closers(file, starts) ==
  {i \in DOMAIN file : /\ file[i].kind = "eocd"
                       /\ starts[i] >= Length(file) - EocdSize - MaxBlock
                       /\ starts[i] + EocdSize + file[i].commentLength = Length(file)}

(* Where the Zip64 record begins: where the locator points, or the last    *)
(* one before the locator, as prepended bytes would have moved it. *)
Zip64Records(file, starts, locPos, pointed) ==
  LET records == {i \in DOMAIN file : file[i].kind = "zip64"}
      there == {i \in records : starts[i] = pointed}
      before == {i \in records : starts[i] <= locPos - Zip64EocdSize}
  IN  IF there # {} THEN there ELSE {i \in before : \A j \in before : j <= i}

-----------------------------------------------------------------------------
(* The central directory.                                                  *)

DirectoryEntry(cfh, sizes) ==
  [name |-> cfh.name, method |-> cfh.method, encrypted |-> cfh.encrypted, crc |-> cfh.crc,
   compressedSize |-> sizes.compressedSize, uncompressedSize |-> sizes.uncompressedSize,
   localOffset |-> sizes.localHeaderOffset]
Zip64Aware(cfh) ==
  DirectoryEntry(cfh, resolveZip64(parseExtraFields(cfh.extra, cfh.extraLength).fields,
                                   <<cfh.uncompressedSize, cfh.compressedSize, cfh.localHeaderOffset>>))
WalkedPast(walk, cfh) ==
  [pos |-> walk.pos + CentralHeaderSize + NameLength(cfh.name) + cfh.extraLength + cfh.comment,
   entries |-> Append(walk.entries, Zip64Aware(cfh))]
WalkOn(walk, cfh, cdEnd) ==
  IF walk.pos < cdEnd /\ cfh.kind = "cfh" THEN WalkedPast(walk, cfh) ELSE walk
Walk(file, from, cdEnd, total) ==
  LET walk[n \in 0 .. total] ==
        IF n = 0 THEN [pos |-> from, entries |-> <<>>]
        ELSE WalkOn(walk[n - 1], At(file, walk[n - 1].pos), cdEnd)
  IN  walk[total]

-----------------------------------------------------------------------------
(* An entry against its local header and, if that announces one, the       *)
(* descriptor behind its payload.                                          *)

LocalZip64(lfh) ==
  SelectSeq(parseExtraFields(lfh.extra, lfh.extraLength).fields, LAMBDA f : f.id = "zip64")
LocalSizes(lfh, zip64) ==
  IF SentinelU32 \in {lfh.compressedSize, lfh.uncompressedSize} /\ zip64 # <<>>
       /\ Len(zip64[1].values) >= 2
  THEN zip64[1].values ELSE <<lfh.uncompressedSize, lfh.compressedSize>>
KnownSizes(e, lfh, sizes) ==
  Failing("WF/LFH-SIZE-MISMATCH", <<sizes[1], sizes[2]>> # <<e.uncompressedSize, e.compressedSize>>)
    \cup Failing("WF/LFH-CRC-MISMATCH", lfh.crc # e.crc)

matchDescriptor(unit, e, wide) ==
  /\ unit.kind = "descriptor" /\ unit.wide = wide
  /\ <<unit.crc, unit.compressedSize, unit.uncompressedSize>>
       = <<e.crc, e.compressedSize, e.uncompressedSize>>
DescriptorFailures(unit, e, zip64) ==
  CASE matchDescriptor(unit, e, zip64) -> {}
    [] matchDescriptor(unit, e, ~zip64) -> {"WF/DESCRIPTOR-WIDTH"}
    [] OTHER -> {"WF/DESCRIPTOR-MISMATCH"}

dataStart(lfh, pos) == pos + LocalHeaderSize + NameLength(lfh.name) + lfh.extraLength
AgainstLocal(file, e, lfh, dataEnd) ==
  Failing("ISO21320-1/APPNOTE-4.4.4", lfh.encrypted)
    \cup Failing("WF/LFH-METHOD-MISMATCH", lfh.method # e.method)
    \cup Failing("WF/LFH-NAME-MISMATCH", lfh.name # e.name)
    \cup (IF lfh.bit3 THEN DescriptorFailures(At(file, dataEnd), e, LocalZip64(lfh) # <<>>)
                      ELSE KnownSizes(e, lfh, LocalSizes(lfh, LocalZip64(lfh))))
EntryFailures(file, e, lfh, pos) ==
  Failing("ISO21320-1/APPNOTE-4.4.5", e.method \notin {METHOD_STORE, METHOD_DEFLATE})
    \cup Failing("ISO21320-1/APPNOTE-4.3.8", e.encrypted)
    \cup (IF lfh.kind # "lfh" THEN {"WF/LFH-SIGNATURE"}
          ELSE AgainstLocal(file, e, lfh, dataStart(lfh, pos) + e.compressedSize))

(* The bytes an entry claims, its descriptor included. *)
SpanEnd(e, lfh, pos, unit) ==
  dataStart(lfh, pos) + e.compressedSize
    + (IF lfh.bit3 /\ \E wide \in BOOLEAN : matchDescriptor(unit, e, wide) THEN unit.len ELSE 0)
SpanOf(file, e, lfh, pos) ==
  [start |-> pos,
   end |-> SpanEnd(e, lfh, pos, At(file, dataStart(lfh, pos) + e.compressedSize))]
Overlapping(spans) ==
  \E i, j \in DOMAIN spans : i # j /\ spans[i].start <= spans[j].start /\ spans[j].start < spans[i].end
LastEnd(spans, shift) ==
  LET last == {i \in DOMAIN spans : \A j \in DOMAIN spans : spans[j].start <= spans[i].start}
  IN  IF last = {} THEN shift ELSE spans[CHOOSE i \in last : TRUE].end

-----------------------------------------------------------------------------
(* All of it.                                                              *)

Layout(file, spans, shift) ==
  Failing("WF/ENTRY-OVERLAP", Overlapping(spans))
    \cup Failing("ISO21320-1/APPNOTE-4.3.10", At(file, LastEnd(spans, shift)).kind = "archiveExtra")
Entries(file, entries, shift) ==
  LET lfh(e) == At(file, e.localOffset + shift)
      found == SelectSeq(entries, LAMBDA e : lfh(e).kind = "lfh")
  IN  UNION {EntryFailures(file, e, lfh(e), e.localOffset + shift) : e \in ToSet(entries)}
        \cup Layout(file, [i \in DOMAIN found |-> SpanOf(file, found[i], lfh(found[i]),
                                                          found[i].localOffset + shift)], shift)
Walked(file, walk, end, cdEnd, shift) ==
  Failing("WF/CD-COUNT", Len(walk.entries) # end.totalEntries)
    \cup Failing("WF/CD-SIZE", walk.pos # cdEnd /\ Len(walk.entries) = end.totalEntries)
    \cup Entries(file, walk.entries, shift)
DirectoryFailures(file, end, cdEnd, cdPos) ==
  IF \/ cdPos < end.cdOffset
     \/ At(file, cdPos).kind # "cfh" /\ end.totalEntries > 0 THEN {"WF/CD-OFFSET"}
  ELSE Failing("ISO21320-1/APPNOTE-4.3.13", At(file, cdEnd).kind = "signature")
         \cup Walked(file, Walk(file, cdPos, cdEnd, end.totalEntries), end, cdEnd, cdPos - end.cdOffset)
EndFailures(file, eocd, end, cdEnd) ==
  Failing("ISO21320-1/APPNOTE-4.3.3", eocd.disk \notin {0, SentinelU16})
    \cup Failing("ISO21320-1/APPNOTE-4.4.1.5", end.entriesOnDisk # end.totalEntries)
    \cup DirectoryFailures(file, end, cdEnd, cdEnd - end.cdSize)

(* The classic record stands for itself unless a field of it overflows. *)
Sentinels(eocd) ==
  eocd.totalEntries = SentinelU16 \/ SentinelU32 \in {eocd.cdSize, eocd.cdOffset}
Zip64End(file, starts, eocd, locator, records) ==
  Failing("ISO21320-1/APPNOTE-4.3.3", locator.totalDisks # 1)
    \cup (IF records = {} THEN {"WF/ZIP64-EOCD"}
          ELSE LET here == CHOOSE i \in records : TRUE
               IN  EndFailures(file, eocd, file[here], starts[here]))
End(file, starts, eocd, eocdPos, locator) ==
  CASE ~Sentinels(eocd) -> EndFailures(file, eocd, eocd, eocdPos)
    [] Sentinels(eocd) /\ locator.kind # "locator" -> {"WF/ZIP64-LOCATOR"}
    [] OTHER -> Zip64End(file, starts, eocd, locator,
                         Zip64Records(file, starts, eocdPos - LocatorSize, locator.offset))
FromEnd(file, starts, closers) ==
  IF closers = {} THEN {"WF/EOCD-NOT-FOUND"}
  ELSE LET last == CHOOSE i \in closers : \A j \in closers : j <= i
       IN  End(file, starts, file[last], starts[last], At(file, starts[last] - LocatorSize))
validateArchive(file) == FromEnd(file, Starts(file), Closers(file, Starts(file)))
=============================================================================
