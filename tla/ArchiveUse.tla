------------------------------ MODULE ArchiveUse ------------------------------
(***************************************************************************)
(* Reading an archive: through the range reader, operation by operation,   *)
(* or as a whole, extracted, verified or made canonical.  The generator of *)
(* extractZipStream() yields its entries one by one, each with a stream    *)
(* its consumer may read to the end, abandon or not begin.                 *)
(***************************************************************************)
EXTENDS RangeReader, Extraction

VARIABLES
  options,     \* rejectTraversal, rejectSymlinks, onDuplicate
  extraction,  \* the generator of extractZipStream()
  outcome      \* what an operation on the whole archive returned
vars == <<rangeVars, options, extraction, outcome>>

OptionSet == [rejectTraversal : BOOLEAN, rejectSymlinks : BOOLEAN,
              onDuplicate : {"error", "first", "last"}]
Default == [rejectTraversal |-> TRUE, rejectSymlinks |-> TRUE, onDuplicate |-> "error"]
Unstarted == [at |-> "none", plan |-> <<>>, next |-> 1, content |-> <<>>, sent |-> 0,
              total |-> 0, done |-> <<>>, code |-> "OK"]
Nothing == [of |-> "none"]

Init ==
  /\ RangeInit /\ options = Default
  /\ extraction = Unstarted /\ outcome = Nothing

Untouched == op.at = "idle" /\ results = {} /\ extraction.at = "none" /\ outcome = Nothing
ReadOnly == UNCHANGED rangeVars

-----------------------------------------------------------------------------
(* The operations on the whole archive.                                    *)

VerifyZip ==
  /\ Untouched
  /\ outcome' = [of |-> "verification", report |-> verifyZip(served)]
  /\ ReadOnly /\ UNCHANGED <<extraction, options>>

ExtractZip ==
  /\ Untouched
  /\ options' \in OptionSet
  /\ outcome' = [of |-> "extraction", report |-> extractZip(served, strict, options')]
  /\ ReadOnly /\ UNCHANGED extraction

CanonicalizeZip ==
  /\ Untouched
  /\ outcome' = [of |-> "canonical", report |-> canonicalizeZip(served, strict)]
  /\ ReadOnly /\ UNCHANGED <<extraction, options>>

-----------------------------------------------------------------------------
(* extractZipStream().                                                     *)

Reader == openZip(served, strict, FALSE)
Planning(reader, chosen) ==
  IF ~IsOk(reader) THEN reader
  ELSE IF reader.directory # "OK" THEN Refused(reader.directory)
  ELSE planExtraction(reader.entries, chosen)
Item == extraction.plan[extraction.next - 1].entry
Broken(code) == extraction' = [extraction EXCEPT !.at = "ended", !.code = code]

Start(planned) ==
  IF ~IsOk(planned) THEN Broken(planned.code)
  ELSE extraction' = [extraction EXCEPT !.at = "items", !.plan = planned.plan,
                                        !.total = Len(planned.plan)]
ExtractZipStream ==
  /\ Untouched
  /\ options' \in OptionSet
  /\ Start(Planning(Reader, options'))
  /\ ReadOnly /\ UNCHANGED outcome

NextItem ==
  /\ extraction.at \in {"items", "item"}
  /\ IF extraction.next > Len(extraction.plan) THEN Broken("OK")
     ELSE IF aborted THEN Broken("ABORT")
     ELSE extraction' = [extraction EXCEPT !.at = "item", !.next = @ + 1]
  /\ ReadOnly /\ UNCHANGED <<outcome, options>>

(* The entry's stream: its checks come before its first chunk.             *)
Stream(read) ==
  IF ~IsOk(read) THEN Broken(read.code)
  ELSE IF aborted THEN Broken("ABORT")
  ELSE extraction' = [extraction EXCEPT !.at = "stream", !.content = read.out, !.sent = 0]
BeginStream ==
  /\ extraction.at = "item"
  /\ Stream(readEntryStream(Reader, Item, TRUE))
  /\ ReadOnly /\ UNCHANGED <<outcome, options>>

StreamChunk ==
  /\ extraction.at = "stream" /\ extraction.sent < Len(extraction.content)
  /\ IF aborted THEN Broken("ABORT") ELSE extraction' = [extraction EXCEPT !.sent = @ + 1]
  /\ ReadOnly /\ UNCHANGED <<outcome, options>>

EndStream ==
  /\ extraction.at = "stream" /\ extraction.sent = Len(extraction.content)
  /\ extraction' = [extraction EXCEPT !.at = "items",
                      !.done = Append(@, [path |-> extraction.plan[extraction.next - 1].path,
                                          data |-> extraction.content])]
  /\ ReadOnly /\ UNCHANGED <<outcome, options>>

AbandonStream ==
  /\ extraction.at = "stream"
  /\ extraction' = [extraction EXCEPT !.at = "items"]
  /\ ReadOnly /\ UNCHANGED <<outcome, options>>

AbortExtraction ==
  /\ extraction.at \in {"items", "item", "stream"} /\ ~aborted
  /\ aborted' = TRUE
  /\ UNCHANGED <<served, strict, range, op, results, faulted, options, extraction, outcome>>

-----------------------------------------------------------------------------
Whole == VerifyZip \/ ExtractZip \/ CanonicalizeZip \/ ExtractZipStream
Extracting ==
  NextItem \/ BeginStream \/ StreamChunk \/ EndStream \/ AbandonStream \/ AbortExtraction

Ranged ==
  /\ RangeNext
  /\ extraction.at = "none" /\ outcome = Nothing
  /\ UNCHANGED <<options, extraction, outcome>>

Next == Ranged \/ Whole \/ Extracting

(* The event loop takes up a settled read, and the source settles it; the  *)
(* consumer of a stream owes nothing.  This is WF_vars(Going) written out: *)
(* a step of Going is possible at just these points of an operation.  TLC  *)
(* is too slow to find that out by itself.                                 *)
Going == RangeRunning /\ UNCHANGED <<options, extraction, outcome>>
Points == {"wait", "tail", "directory", "guard", "locate", "header", "located", "payload",
           "piece", "fed"}
Fairness == []<>(op.at \notin Points) \/ []<><<Going>>_vars

Spec == Init /\ [][Next]_vars /\ Fairness

-----------------------------------------------------------------------------
(* Properties.                                                             *)

(* The readers' records have their types, and what is fetched lies inside  *)
(* the file (zip-range-reader.ts, zip-extract.ts). *)
TypeOK ==
  /\ {aborted, faulted, strict, range.open} \subseteq BOOLEAN
  /\ options \in OptionSet
  /\ 0 <= op.window.from /\ op.window.from <= op.window.to /\ op.window.to <= size
  /\ op.payload.to - op.payload.from <= size
  /\ extraction.next \in 1 .. extraction.total + 1 /\ Len(extraction.done) < extraction.next

InMemory == openZip(served, strict, FALSE)
(* What the reader in memory answers to the same call. *)
ExpectedFor(mem, entry, kind) ==
  CASE kind = "read" -> readEntry(mem, entry, TRUE)
    [] kind = "stream" -> readEntryStream(mem, entry, TRUE)
    [] kind = "raw" -> readEntryRaw(mem, entry)
    [] kind = "verify" -> verifyEntry(mem, entry)

(* The range reader's own bounds: the lengths in a local header, and what  *)
(* it allocates at once.                                                   *)
WithinBounds(entry) ==
  LET lfh == At(served, entry.localHeaderOffset)
  IN  /\ lfh.kind = "lfh" => /\ NameLength(lfh.name) <= Limits.maxNameBytes
                             /\ lfh.extraLength <= Limits.maxExtraFieldBytes
      /\ entry.compressedSize <= Limits.maxEntryCompressedSize

(* One answer against the one expected; intact: neither did the source     *)
(* fail it nor was it out of bounds.                                       *)
Agrees(r, expected, intact) ==
  IF r.kind = "verify"
  THEN IsOk(r) => /\ r.ok => expected.ok
                  /\ intact => /\ r.ok = expected.ok
                               /\ r.localHeaderMatch = expected.localHeaderMatch
  ELSE /\ IsOk(r) => IsOk(expected) /\ r.out = (IF r.kind = "raw" THEN expected.payload ELSE expected.out)
       /\ intact /\ ~aborted => IsOk(r) = IsOk(expected)

(* Where the readers part: bytes behind the deflate stream of an entry.    *)
(* The stream in memory refuses them (inflate.ts:191, DecompressionStream) *)
(* while readEntry() ignores them; the range reader's stream ignores them  *)
(* within the piece the deflate stream ends in and refuses a piece behind  *)
(* it (zip-range-reader.ts:335, inflate-stream.ts:369).                    *)
Surplus(mem, entry) ==
  LET prepared == prepareRead(mem, entry)
  IN  IsOk(prepared) /\ StreamMode(entry) = "push" /\ Trailing(entry, prepared.payload)
LastPiece(entry) == STREAM_CHUNK * ((entry.compressedSize - 1) \div STREAM_CHUNK)
AnsweredByPieces(mem, entry) ==
  IF StreamEnded(entry, Slice(prepareRead(mem, entry).payload, 0, LastPiece(entry)))
  THEN Refused("ZIP_API_MISUSE") ELSE Decoded(mem, entry, "push", TRUE)

Answer(mem, entry, kind) ==
  IF kind = "stream" /\ Surplus(mem, entry) THEN AnsweredByPieces(mem, entry)
  ELSE ExpectedFor(mem, entry, kind)

(* The Zip64 end record, where it is found by the locator's offset only,   *)
(* and where it is in front of the tail besides.                           *)
RecordsApart ==
  {i \in 1 .. Len(served) - 1 : served[i].kind = "zip64" /\ served[i + 1].kind # "locator"}
OutOfTail(i) == Starts(served)[i] < size - tailLength

AgreeWith(mem) ==
  /\ range.open => IsOk(mem) /\ mem.directory = "OK" /\ range.entries = mem.entries
  /\ \A r \in results :
       IF r.kind = "open"
       THEN ~IsOk(r) /\ ~faulted /\ ~aborted =>
              \/ ~IsOk(mem) \/ mem.directory # "OK"
              \/ \E i \in RecordsApart : OutOfTail(i)
              \/ range.eager /\ \E e \in ToSet(mem.entries) :
                                  ~IsOk(crossChecked(mem, e)) \/ ~WithinBounds(e)
       ELSE Agrees(r, Answer(mem, mem.entries[r.entry], r.kind),
                   ~faulted /\ WithinBounds(mem.entries[r.entry]))

(* Served in ranges, from its cached tail or not, with local headers that  *)
(* need a second read, a file is what it is in memory: the same entries,   *)
(* and for each call the same answer, but for the stream of an entry with  *)
(* bytes behind its deflate stream.  There the readers disagree, though    *)
(* zip-range-reader.ts:20 says they cannot: in memory it is refused, in    *)
(* ranges it is refused just if a piece starts behind the deflate stream,  *)
(* and what it gives is what readEntry() gives.  A source that answers     *)
(* short or fails, or an abort, can only turn an answer into a refusal;    *)
(* neither makes verifyEntry() accept, nor an abort alone find fault.  An  *)
(* archive whose Zip64 record lies in front of the tail is refused by      *)
(* design (zip-range-reader.ts:23).                                        *)
SameAsInMemory == AgreeWith(InMemory)

Apart(reads, cdOffset) ==
  LET readable == {n \in DOMAIN reads : IsOk(reads[n])}
  IN  \A n \in readable :
        /\ reads[n].to <= cdOffset
        /\ \A m \in readable \ {n} : reads[m].to <= reads[n].from \/ reads[n].to <= reads[m].from
ReadsApart(mem) ==
  IsOk(mem) => Apart([n \in DOMAIN mem.entries |-> crossChecked(mem, mem.entries[n])],
                     mem.layout.cdOffset)

(* No two entries that can be read share a byte of the file, nor does one  *)
(* reach into the directory, whatever the directory says.                  *)
PayloadsDisjoint == Untouched => ReadsApart(InMemory)

PolicyCodes == {"ZIP_SYMLINK_REJECTED", "ZIP_PATH_TRAVERSAL", "ZIP_EXTRACT_DUPLICATE_PATH",
                "ZIP_LIMIT_EXCEEDED"}
SafePath(path) ==
  path # <<>> /\ \A s \in ToSet(path) : s \notin {"", ".", ".."} \union ReservedDevices \union StreamSegments
OkOrPolicy(extracted) == IsOk(extracted) \/ extracted.code \in PolicyCodes

(* What extractZip() makes of entries whose streams have given done.       *)
StreamOnly(entry) == codecFor(entry, "sync") = "ZIP_UNSUPPORTED_CODEC_MODE"
AsAWhole(plan, done) ==
  IF \E n \in DOMAIN plan : StreamOnly(plan[n].entry) THEN Refused("ZIP_UNSUPPORTED_CODEC_MODE")
  ELSE [code |-> "OK", out |-> done]

PlannedBytes(plan) == SumOf(LAMBDA p : p.entry.uncompressedSize, plan)

(* What is extracted goes to different paths, all below the root, and is   *)
(* within the budget, whatever the policies; an archive verifyZip() passes *)
(* can be read: extraction refuses it for a policy only, or for an entry   *)
(* it was told cannot be decoded; and who has read every stream has what   *)
(* extractZip() returns, unless a codec decodes streams only.              *)
ExtractionIsSafe ==
  /\ \A n \in DOMAIN extraction.plan :
       /\ SafePath(extraction.plan[n].path)
       /\ \A m \in DOMAIN extraction.plan : extraction.plan[m].path = extraction.plan[n].path => m = n
  /\ PlannedBytes(extraction.plan) <= Limits.maxTotalUncompressedSize
  /\ outcome.of = "verification" /\ outcome.report.ok =>
       \/ \A chosen \in OptionSet : OkOrPolicy(extractZip(served, FALSE, chosen))
       \/ \E r \in ToSet(outcome.report.entries) : designSkip(r)
  /\ extraction.at = "ended" /\ extraction.code = "OK" /\ Len(extraction.done) = extraction.total =>
       extractZip(served, strict, options) = AsAWhole(extraction.plan, extraction.done)

Kept(e) == e.encrypted /\ \E f \in ToSet(e.extra) : f.id # "zip64"
Passes(report, entries) ==
  /\ report.deterministic \/ \E e \in ToSet(entries) : Kept(e)
  /\ report.noDataDescriptors
Payloads(reader) == {<<e.name, rawCompressedSlice(reader, e).payload>> : e \in ToSet(reader.entries)}
CanonicalReader(bytes) ==
  LET reader == openZip(bytes, TRUE, TRUE)
  IN  IsOk(reader) /\ Passes(analyzeDeterminism(bytes), reader.entries) /\ Payloads(reader) = Payloads(InMemory)
Prefixed == IF RecordsApart = {} THEN outcome.report ELSE Refused("ZIP_ZIP64_EOCD_MISPLACED")

(* The canonical form is a fixed point, whatever the archive was: it       *)
(* passes analyzeDeterminism() unless an encrypted entry keeps its extra   *)
(* fields (determinism.md:65 says so, zip-canonical.ts:7 makes no          *)
(* exception), a second pass gives the same bytes, and every payload is    *)
(* the one that was there.  Bytes in front of the original change nothing, *)
(* but they make the locator's offset stale: a Zip64 record that is not    *)
(* next to its locator is lost, and the archive refused.                   *)
CanonicalIsFixed ==
  outcome.of = "canonical" /\ IsOk(outcome.report) =>
    /\ CanonicalReader(outcome.report.bytes)
    /\ canonicalizeZip(outcome.report.bytes, TRUE) = outcome.report
    /\ canonicalizeZip(<<Junk(7)>> \o served, FALSE) = Prefixed

Running == op.at \notin {"idle", "yielded"}
(* An operation of the range reader that waits for its source settles, or  *)
(* hands its consumer a chunk.                                             *)
OperationsSettle == Running ~> ~Running
=============================================================================
