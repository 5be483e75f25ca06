------------------------------- MODULE Extraction -------------------------------
(***************************************************************************)
(* What is done with a whole archive in memory: extraction with its guards *)
(* (parser/zip-extract.ts), verification (zip-verify.ts), the determinism  *)
(* report (zip-determinism.ts) and the canonical form (zip-canonical.ts    *)
(* and the compact save it calls).                                         *)
(***************************************************************************)
EXTENDS ZipReader, ArchiveSegments

-----------------------------------------------------------------------------
(* Extraction.  The options are rejectTraversal, rejectSymlinks and        *)
(* onDuplicate.                                                            *)

Planned(path, entry) == [path |-> path, entry |-> entry]
Holding(plan, path) == {n \in DOMAIN plan : plan[n].path = path}

(* Mutant: a duplicate is found by its name, not by the path it goes to. *)
Place_ByName(plan, path, entry, onDuplicate) ==
  LET same == {n \in DOMAIN plan : plan[n].entry.name = entry.name}
  IN  IF same = {} THEN Append(plan, Planned(path, entry))
      ELSE IF onDuplicate = "first" THEN plan
      ELSE [plan EXCEPT ![OneOf(same)] = Planned(path, entry)]

(* The plan is keyed by path: the last of two takes the place of the first.*)
Place(plan, path, entry, onDuplicate) ==
  LET same == Holding(plan, path)
  IN  IF same = {} THEN Append(plan, Planned(path, entry))
      ELSE IF onDuplicate = "first" THEN plan
      ELSE [plan EXCEPT ![OneOf(same)] = Planned(path, entry)]

(* Directories are implied.  Every other entry passes the symlink policy,  *)
(* its path, the budget and the duplicate policy, in this order.           *)
planEntry(before, entry, options) ==
  LET path == sanitizeEntryPath(entry.name)
      total == before.total + entry.uncompressedSize
  IN  IF ~IsOk(before) \/ entry.isDirectory THEN before
      ELSE IF entry.isSymlink /\ options.rejectSymlinks THEN Refused("ZIP_SYMLINK_REJECTED")
      ELSE IF path = NoPath /\ options.rejectTraversal THEN Refused("ZIP_PATH_TRAVERSAL")
      ELSE IF path = NoPath THEN before
      ELSE IF total > Limits.maxTotalUncompressedSize THEN Refused("ZIP_LIMIT_EXCEEDED")
      ELSE IF Holding(before.plan, path) # {} /\ options.onDuplicate = "error"
           THEN Refused("ZIP_EXTRACT_DUPLICATE_PATH")
      ELSE [code |-> "OK", total |-> total,
            plan |-> Place(before.plan, path, entry, options.onDuplicate)]
NoPlan == [code |-> "OK", total |-> 0, plan |-> <<>>]
planExtraction(entries, options) ==
  LET plan[n \in 0 .. Len(entries)] ==
        IF n = 0 THEN NoPlan ELSE planEntry(plan[n - 1], entries[n], options)
  IN  plan[Len(entries)]

(* Up to the first entry that cannot be read. *)
Extracted(plan, reads) ==
  IF \E n \in DOMAIN plan : ~IsOk(reads[n]) THEN Found(reads)
  ELSE [code |-> "OK",
        out |-> [n \in DOMAIN plan |-> [path |-> plan[n].path, data |-> reads[n].out]]]
ExtractPlanned(reader, planned) ==
  IF ~IsOk(planned) THEN planned
  ELSE Extracted(planned.plan, [n \in DOMAIN planned.plan |->
                                  readEntry(reader, planned.plan[n].entry, TRUE)])
ExtractAll(reader, options) ==
  IF ~IsOk(reader) THEN reader
  ELSE IF reader.directory # "OK" THEN Refused(reader.directory)
  ELSE ExtractPlanned(reader, planExtraction(reader.entries, options))
extractZip(file, strict, options) == ExtractAll(openZip(file, strict, FALSE), options)

-----------------------------------------------------------------------------
(* Verification.                                                           *)

(* An entry that cannot be decoded by design passes on its header. *)
designSkip(report) ==
  report.skipped \in {"encrypted", "ZIP_UNSUPPORTED_CODEC_MODE"} /\ report.localHeaderMatch

VerifyAll(reader) ==
  [error |-> reader.code,
   entries |-> IF ~IsOk(reader) THEN <<>>
               ELSE [n \in DOMAIN reader.entries |-> verifyEntry(reader, reader.entries[n])]]
WithVerdict(report) ==
  [ok |-> report.error = "OK" /\ \A r \in ToSet(report.entries) : r.ok \/ designSkip(r),
   error |-> report.error, entries |-> report.entries]
verifyZip(file) == WithVerdict(VerifyAll(openZip(file, FALSE, TRUE)))

-----------------------------------------------------------------------------
(* The canonical form.                                                     *)

Offends(reader, n) ==
  LET entry == reader.entries[n]
  IN  \/ ~entry.pinned \/ entry.foreign
      \/ n > 1 /\ compareNames(reader.entries[n - 1].name, entry.name) > 0
      \/ \E f \in ToSet(entry.extra) : f.id # "zip64"

(* Data descriptors are reported and do not count. *)
Analyzed(reader) ==
  IF ~IsOk(reader) THEN reader
  ELSE IF reader.directory # "OK" THEN Refused(reader.directory)
  ELSE [code |-> "OK", deterministic |-> \A n \in DOMAIN reader.entries : ~Offends(reader, n),
        noDataDescriptors |-> \A e \in ToSet(reader.entries) : ~e.bit3]
analyzeDeterminism(file) == Analyzed(openZip(file, FALSE, FALSE))

(* The payload to copy; an encrypted one is checked here, not by the       *)
(* reader.                                                                 *)
rawCompressedSlice(reader, entry) ==
  LET lfh == At(reader.file, entry.localHeaderOffset)
      dataStart == entry.localHeaderOffset + headerLength(lfh)
      dataEnd == dataStart + entry.compressedSize
  IN  IF ~entry.encrypted THEN readEntryRaw(reader, entry)
      ELSE IF lfh.kind # "lfh" THEN Refused("ZIP_SIGNATURE_MISMATCH")
      ELSE IF lfh.method # entry.method THEN Refused("ZIP_CD_LFH_MISMATCH")
      ELSE IF dataEnd > reader.size \/ dataEnd > reader.layout.cdOffset
           THEN Refused("ZIP_RECORD_TRUNCATED")
      ELSE [code |-> "OK", payload |-> Slice(reader.file, dataStart, dataEnd)]

(* Mutant: the extra fields travel. *)
planForCanonicalCopy_KeepsExtra(entry, slice) ==
  [name |-> entry.name, attributes |-> entry.attributes, pinned |-> TRUE, comment |-> 0,
   extra |-> Selected(entry.extra, LAMBDA f : f.id # "zip64"),
   method |-> entry.method, bit3 |-> FALSE, encrypted |-> entry.encrypted, source |-> None,
   deterministic |-> FALSE, zip64 |-> FALSE, payload |-> slice.payload,
   emitted |-> None, crc |-> entry.crc, compressedSize |-> entry.compressedSize,
   uncompressedSize |-> entry.uncompressedSize]

(* The same bytes under canonical metadata; the extra fields of an         *)
(* encrypted entry belong to its ciphertext and stay.                      *)
planForCanonicalCopy(entry, slice) ==
  [name |-> entry.name, attributes |-> entry.attributes, pinned |-> TRUE, comment |-> 0,
   extra |-> IF entry.encrypted THEN Selected(entry.extra, LAMBDA f : f.id # "zip64") ELSE <<>>,
   method |-> entry.method, bit3 |-> FALSE, encrypted |-> entry.encrypted, source |-> None,
   deterministic |-> FALSE, zip64 |-> FALSE, payload |-> slice.payload,
   emitted |-> None, crc |-> entry.crc, compressedSize |-> entry.compressedSize,
   uncompressedSize |-> entry.uncompressedSize]

(* openZip, a modifier without edits, and its canonical compact save. *)
CanonicalCopies(entries, slices) ==
  IF ~IsOk(Found(slices)) THEN Found(slices)
  ELSE [code |-> "OK", bytes |-> assembleArchive(
             Sorted([n \in DOMAIN entries |-> planForCanonicalCopy(entries[n], slices[n])],
                    LAMBDA a, b : compareNames(a.name, b.name) < 0), <<>>)]
CanonicalForm(reader) ==
  LET entries == reader.entries
  IN  IF ~IsOk(reader) THEN reader
      ELSE IF reader.directory # "OK" THEN Refused(reader.directory)
      ELSE IF Cardinality({e.name : e \in ToSet(entries)}) < Len(entries)
           THEN Refused("ZIP_DUPLICATE_ENTRY_NAME")
      ELSE CanonicalCopies(entries, [n \in DOMAIN entries |-> rawCompressedSlice(reader, entries[n])])
canonicalizeZip(file, strict) == CanonicalForm(openZip(file, strict, FALSE))
=============================================================================
