------------------------------ MODULE RangeReader ------------------------------
(***************************************************************************)
(* The reader over a byte-range source (parser/zip-range-reader.ts).  Each *)
(* operation is a chain of awaited reads; a read inside the cached tail is *)
(* served from it.  The source may answer short or fail, the caller may    *)
(* abort or stop reading a stream, at any wait.  What an operation has     *)
(* fetched is a range of the file, its window.                             *)
(***************************************************************************)
EXTENDS ZipReader

CONSTANTS
  Files,         \* the files a source may serve
  TailSlack,     \* room in the tail for what a Zip64 record may be extended by
  LFH_PREFETCH,  \* read along with a local header
  STREAM_CHUNK   \* the payload is fetched in ranges of this size

ASSUME RangeAssumption ==
  Files \subseteq Seq(FileUnits) /\ {TailSlack, LFH_PREFETCH} \subseteq Nat /\ STREAM_CHUNK \in Nat \ {0}

VARIABLES
  served,   \* what the source serves
  strict,   \* options.strict
  aborted,  \* options.signal
  range,    \* the reader: its tail, its layout and its entries
  op,       \* the operation under way
  results,  \* the operations that have ended, each with its outcome
  faulted   \* the source has answered short, or failed
rangeVars == <<served, strict, aborted, range, op, results, faulted>>

size == Length(served)
NoWindow == [from |-> 0, to |-> 0]
Idle == [kind |-> "none", at |-> "idle", then |-> "idle", entry |-> 0, window |-> NoWindow,
         payload |-> NoWindow, delivered |-> <<>>]
Closed == [open |-> FALSE, tailStart |-> Length(served) + 1, size |-> size, strict |-> strict,
           eager |-> FALSE, layout |-> None, entries |-> <<>>]

RangeInit ==
  /\ served \in Files /\ strict \in BOOLEAN
  /\ aborted = FALSE /\ faulted = FALSE
  /\ range = Closed /\ op = Idle /\ results = {}

Bytes(window) == Slice(served, window.from, window.to)
Entry == range.entries[op.entry]

-----------------------------------------------------------------------------
(* Reads, and how an operation ends.                                       *)

Ended(result) ==
  /\ results' = results \union {result @@ [kind |-> op.kind, entry |-> op.entry]}
  /\ op' = Idle

VerifySkip(entry) == IF entry.encrypted THEN "encrypted" ELSE codecFor(entry, "sync")
Report(ok) ==
  [code |-> "OK", ok |-> ok, localHeaderMatch |-> "payload" \in {op.at, op.then},
   skipped |-> VerifySkip(Entry)]

(* A refusal is what the operation rejects with; only verifyEntry() makes  *)
(* a report of it, unless it is the abort.                                 *)
Fail(code) ==
  Ended(IF op.kind = "verify" /\ code # "ABORT" THEN Report(FALSE) ELSE Refused(code))

(* Mutant: a range is asked for past the end of the source. *)
Read_Unbounded(from, length, then) ==
  IF aborted THEN Fail("ABORT")
  ELSE /\ op' = [op EXCEPT !.at = "wait", !.then = then, !.window = [from |-> from, to |-> from + length]]
       /\ UNCHANGED results

Read(from, length, then) ==
  IF aborted THEN Fail("ABORT")
  ELSE IF from + length > size THEN Fail("ZIP_RECORD_TRUNCATED")
  ELSE /\ op' = [op EXCEPT !.at = "wait", !.then = then, !.window = [from |-> from, to |-> from + length]]
       /\ UNCHANGED results

(* Mutant: the cached tail is taken for the file. *)
readRange_Unshifted(from, length, then) ==
  IF from >= range.tailStart /\ from + length <= size /\ ~aborted
  THEN /\ op' = [op EXCEPT !.at = then,
                   !.window = [from |-> from + range.tailStart,
                               to |-> from + range.tailStart + length]]
       /\ UNCHANGED results
  ELSE Read(from, length, then)

(* From the cached tail where it covers the range. *)
readRange(from, length, then) ==
  IF from >= range.tailStart /\ from + length <= size /\ ~aborted
  THEN /\ op' = [op EXCEPT !.at = then, !.window = [from |-> from, to |-> from + length]]
       /\ UNCHANGED results
  ELSE Read(from, length, then)

SourceAnswers ==
  /\ op.at = "wait"
  /\ op' = [op EXCEPT !.at = op.then]
  /\ UNCHANGED <<served, strict, aborted, range, results, faulted>>

SourceShort ==
  /\ op.at = "wait" /\ op.window.to > op.window.from
  /\ Fail("ZIP_RECORD_TRUNCATED")
  /\ faulted' = TRUE
  /\ UNCHANGED <<served, strict, aborted, range>>

(* Mutant: the operation is forgotten and never rejects. *)
SourceFails_Dropped ==
  /\ op.at = "wait"
  /\ op' = [op EXCEPT !.at = "dropped"]
  /\ faulted' = TRUE
  /\ UNCHANGED <<served, strict, aborted, range, results>>

SourceFails ==
  /\ op.at = "wait"
  /\ Fail("SOURCE")
  /\ faulted' = TRUE
  /\ UNCHANGED <<served, strict, aborted, range>>

Abort ==
  /\ op.at # "idle" /\ ~aborted
  /\ aborted' = TRUE
  /\ UNCHANGED <<served, strict, range, op, results, faulted>>

-----------------------------------------------------------------------------
(* Opening: the tail, then the directory.                                  *)

tailLength ==
  LET wanted == MAX_EOCD_SCAN + LocatorSize + Zip64EocdSize + TailSlack
  IN  IF size < wanted THEN size ELSE wanted

Open ==
  /\ op.at = "idle" /\ ~range.open /\ results = {} /\ ~aborted
  /\ \E eager \in BOOLEAN : range' = [range EXCEPT !.eager = eager]
  /\ op' = [Idle EXCEPT !.kind = "open", !.at = "wait", !.then = "tail",
                        !.window = [from |-> size - tailLength, to |-> size]]
  /\ UNCHANGED <<served, strict, aborted, results, faulted>>

LaidOut(tailStart, layout) ==
  IF ~IsOk(layout) THEN Fail(layout.code) /\ UNCHANGED range
  ELSE /\ range' = [range EXCEPT !.layout = layout, !.tailStart = tailStart]
       /\ IF layout.cdOffset >= tailStart /\ layout.cdOffset + layout.cdSize <= size /\ ~aborted
          THEN op' = [op EXCEPT !.at = "directory",
                        !.window = [from |-> layout.cdOffset,
                                    to |-> layout.cdOffset + layout.cdSize]]
               /\ UNCHANGED results
          ELSE Read(layout.cdOffset, layout.cdSize, "directory")
OnTail ==
  /\ op.at = "tail"
  /\ LaidOut(op.window.from, Strictly(strict, locateEocd(Bytes(op.window), op.window.from)))
  /\ UNCHANGED <<served, strict, aborted, faulted>>

(* Opened, or with validate: 'eager' on to the first local header. *)
Listed(parsed) ==
  IF ~IsOk(parsed) THEN Fail(parsed.code) /\ UNCHANGED range
  ELSE IF range.eager /\ parsed.entries # <<>>
  THEN /\ range' = [range EXCEPT !.entries = parsed.entries]
       /\ op' = [op EXCEPT !.at = "locate", !.entry = 1] /\ UNCHANGED results
  ELSE /\ range' = [range EXCEPT !.entries = parsed.entries, !.open = TRUE]
       /\ Ended([code |-> "OK", out |-> <<>>])
OnDirectory ==
  /\ op.at = "directory"
  /\ Listed(Strictly(strict, parseCentralDirectory(Bytes(op.window),
                                                   [range.layout EXCEPT !.cdOffset = 0])))
  /\ UNCHANGED <<served, strict, aborted, faulted>>

-----------------------------------------------------------------------------
(* An entry: its local header, and what has been asked for.                *)

Begin(kind) ==
  /\ op.at = "idle" /\ range.open /\ ~\E r \in results : r.kind # "open"
  /\ \E i \in DOMAIN range.entries :
       op' = [Idle EXCEPT !.kind = kind, !.entry = i, !.at = "guard"]
  /\ UNCHANGED <<served, strict, aborted, range, results, faulted>>
ReadEntry == Begin("read")
ReadEntryRaw == Begin("raw")
ReadEntryStream == Begin("stream")
VerifyEntry == Begin("verify")

Guard ==
  /\ op.at = "guard"
  /\ IF op.kind # "verify" /\ guardEncryption(Entry) # "OK" THEN Fail(guardEncryption(Entry))
     ELSE op' = [op EXCEPT !.at = "locate"] /\ UNCHANGED results
  /\ UNCHANGED <<served, strict, aborted, range, faulted>>

(* The fixed part of the header and what fits behind it in one read. *)
Locate ==
  LET available == size - Entry.localHeaderOffset
      least == IF available < LocalHeaderSize THEN LocalHeaderSize ELSE available
      length == IF LocalHeaderSize + LFH_PREFETCH < least THEN LocalHeaderSize + LFH_PREFETCH ELSE least
  IN  /\ op.at = "locate"
      /\ IF ~enforceDeclaredSizes(Entry) THEN Fail("ZIP_LIMIT_EXCEEDED")
         ELSE readRange(Entry.localHeaderOffset, length, "header")
      /\ UNCHANGED <<served, strict, aborted, range, faulted>>

(* A second read when the header is longer than the first. *)
OnHeader ==
  LET first == Bytes(op.window)
      lfh == At(first, 0)
  IN  /\ op.at = "header"
      /\ IF lfh.kind # "lfh" THEN Fail("ZIP_SIGNATURE_MISMATCH")
         ELSE IF \/ NameLength(lfh.name) > Limits.maxNameBytes
                 \/ lfh.extraLength > Limits.maxExtraFieldBytes THEN Fail("ZIP_LIMIT_EXCEEDED")
         ELSE IF headerLength(lfh) <= Length(first)
         THEN op' = [op EXCEPT !.at = "located"] /\ UNCHANGED results
         ELSE readRange(Entry.localHeaderOffset, headerLength(lfh), "located")
      /\ UNCHANGED <<served, strict, aborted, range, faulted>>

(* The payload in one piece, bounded first. *)
fetchPayload(found) ==
  IF Entry.compressedSize <= Limits.maxEntryCompressedSize
  THEN readRange(found.from, Entry.compressedSize, "payload")
  ELSE IF op.kind = "verify"
  THEN Ended([code |-> "OK", ok |-> FALSE, localHeaderMatch |-> TRUE, skipped |-> "OK"])
  ELSE Fail("ZIP_LIMIT_EXCEEDED")

Streaming(found) ==
  op' = [op EXCEPT !.at = "piece", !.payload = [from |-> found.from, to |-> found.from]]
    /\ UNCHANGED results

StreamMode(entry) == IF codecFor(entry, "push") = "OK" THEN "push" ELSE "stream"

(* The header is in the window and agrees, or the operation is refused.    *)
OnLocated ==
  LET found == Agreed(range, Entry, At(Bytes(op.window), 0))
      mode == IF op.kind = "stream" THEN StreamMode(Entry) ELSE "sync"
      codec == codecFor(Entry, mode)
  IN  /\ op.at = "located"
      /\ CASE ~IsOk(found) -> Fail(found.code) /\ UNCHANGED range
           [] IsOk(found) /\ op.kind = "open" ->
                IF op.entry = Len(range.entries)
                THEN Ended([code |-> "OK", out |-> <<>>]) /\ range' = [range EXCEPT !.open = TRUE]
                ELSE /\ op' = [op EXCEPT !.at = "locate", !.entry = @ + 1]
                     /\ UNCHANGED <<range, results>>
           [] IsOk(found) /\ op.kind = "verify" /\ VerifySkip(Entry) # "OK" ->
                /\ Ended([code |-> "OK", ok |-> FALSE, localHeaderMatch |-> TRUE,
                          skipped |-> VerifySkip(Entry)])
                /\ UNCHANGED range
           [] IsOk(found) /\ op.kind \in {"read", "stream"} /\ codec # "OK" ->
                Fail(codec) /\ UNCHANGED range
           [] IsOk(found) /\ op.kind = "stream" /\ codec = "OK" /\ mode = "push" ->
                /\ IF aborted THEN Fail("ABORT") ELSE Streaming(found)
                /\ UNCHANGED range
           [] OTHER -> fetchPayload(found) /\ UNCHANGED range
      /\ UNCHANGED <<served, strict, aborted, faulted>>

OnPayload ==
  LET payload == Bytes(op.window)
      raw == DecodedAs(Entry, payload, IF op.kind = "stream" THEN "stream" ELSE "sync")
      check == checkDecompressedOutput(Entry, raw.out, TRUE)
  IN  /\ op.at = "payload"
      /\ CASE op.kind = "raw" -> Ended([code |-> "OK", out |-> payload])
           [] op.kind = "verify" -> Ended(Report(IsOk(raw) /\ check = "OK"))
           [] OTHER -> IF ~IsOk(raw) THEN Fail(raw.code)
                       ELSE IF op.kind = "stream" /\ aborted THEN Fail("ABORT")
                       ELSE IF check # "OK" THEN Fail(check)
                       ELSE Ended([code |-> "OK", out |-> raw.out])
      /\ UNCHANGED <<served, strict, aborted, range, faulted>>

-----------------------------------------------------------------------------
(* Streaming with an incremental decoder.                                  *)

NextPiece ==
  LET fed == op.payload.to - op.payload.from
      length == IF Entry.compressedSize - fed < STREAM_CHUNK THEN Entry.compressedSize - fed ELSE STREAM_CHUNK
  IN  /\ op.at = "piece" /\ fed < Entry.compressedSize
      /\ readRange(op.payload.to, length, "fed")
      /\ UNCHANGED <<served, strict, aborted, range, faulted>>

(* The decoder takes the piece, unless its stream has ended in an earlier  *)
(* one; what comes out is yielded.                                         *)
OnPiece ==
  LET payload == [op.payload EXCEPT !.to = op.window.to]
      out == DecodedSoFar(Entry, Bytes(payload))
      over == ContentSize(out) > Entry.uncompressedSize /\ Entry.method # METHOD_STORE
  IN  /\ op.at = "fed"
      /\ IF StreamEnded(Entry, Bytes(op.payload)) THEN Fail("ZIP_API_MISUSE")
         ELSE IF over THEN Fail("ZIP_INFLATE_OUTPUT_OVERFLOW")
         ELSE /\ op' = [op EXCEPT !.payload = payload, !.delivered = out,
                          !.at = IF out = op.delivered THEN "piece" ELSE "yielded"]
              /\ UNCHANGED results
      /\ UNCHANGED <<served, strict, aborted, range, faulted>>

Pull ==
  /\ op.at = "yielded"
  /\ op' = [op EXCEPT !.at = "piece"]
  /\ UNCHANGED <<served, strict, aborted, range, results, faulted>>

Return ==
  /\ op.at = "yielded"
  /\ op' = Idle
  /\ UNCHANGED <<served, strict, aborted, range, results, faulted>>

EndOfEntry ==
  LET raw == Decompressed(Entry, Bytes(op.payload))
      check == checkDecompressedOutput(Entry, raw.out, TRUE)
  IN  /\ op.at = "piece" /\ op.payload.to - op.payload.from >= Entry.compressedSize
      /\ IF ~IsOk(raw) THEN Fail(raw.code)
         ELSE IF check # "OK" THEN Fail(check)
         ELSE Ended([code |-> "OK", out |-> raw.out])
      /\ UNCHANGED <<served, strict, aborted, range, faulted>>

-----------------------------------------------------------------------------
RangeCalls == Open \/ ReadEntry \/ ReadEntryRaw \/ ReadEntryStream \/ VerifyEntry
RangeRunning ==
  \/ SourceAnswers \/ SourceShort \/ SourceFails
  \/ OnTail \/ OnDirectory \/ Guard \/ Locate \/ OnHeader \/ OnLocated \/ OnPayload
  \/ NextPiece \/ OnPiece \/ EndOfEntry
RangeNext == RangeCalls \/ Abort \/ Pull \/ Return \/ RangeRunning
=============================================================================
