----------------------------- MODULE ForwardReader -----------------------------
(***************************************************************************)
(* The forward reader (parser/zip-iterate.ts): local headers off a byte    *)
(* stream that is read once.  Three parties run at their own awaits: the   *)
(* walk from header to header, the generator of an entry's data(), and,    *)
(* where the platform inflates, the pump that feeds it.  The caller may    *)
(* call next() too early, leave either generator, abort, or lose its       *)
(* source at any of them.                                                  *)
(***************************************************************************)
EXTENDS ChunkCursor

CONSTANTS
  Files,   \* what a stream may carry
  Written, \* those of them that a writer has emitted
  Pieces   \* how many bytes a stream may deliver at once

ASSUME ForwardAssumption == Files \subseteq Seq(FileUnits) /\ Pieces \subseteq Nat

VARIABLES
  served,   \* what this one carries
  platform, \* hasDecompressionStream()
  aborted,  \* options.signal
  src,      \* the source's iterator, its position, and whether a next() is pending
  cursor,
  walk,     \* the generator of entries, what it awaits, and what it has found
  current,  \* the entry it yielded last, with its state
  data,     \* the generator of that entry's content, or its skip()
  pump      \* pumpInflate's writeAll, and the DecompressionStream
caller == <<served, platform>>
vars == <<served, platform, aborted, src, cursor, walk, current, data, pump>>

NoHeader == [name |-> Name(<<"">>), method |-> METHOD_STORE, bit3 |-> FALSE, encrypted |-> FALSE,
             compressedSize |-> 0, uncompressedSize |-> 0, crc |-> <<>>, from |-> 0]
NoData == [kind |-> "none", at |-> "none", code |-> "OK", got |-> <<>>, out |-> <<>>, width |-> 0]
NoPump == [at |-> "none", error |-> "OK", written |-> 0, closed |-> FALSE, errored |-> FALSE,
           cancelled |-> FALSE]

Init ==
  /\ served \in Files /\ platform \in BOOLEAN /\ aborted = FALSE
  /\ src = [state |-> "open", at |-> 0, next |-> FALSE]
  /\ cursor = NewCursor
  /\ walk = [at |-> "fresh", code |-> "OK", found |-> <<>>, total |-> 0, lfh |-> NoHeader]
  /\ current = [header |-> NoHeader, done |-> TRUE, consumed |-> TRUE]
  /\ data = NoData /\ pump = NoPump

-----------------------------------------------------------------------------
(* The source.  One party at a time waits for bytes: the cursor is filled  *)
(* until there are as many as it needs, or the source ends.                *)

Got == OneRange(data.got)
Taken == SumOf(PieceLength, data.got)
Remaining == current.header.compressedSize - Taken
Taking == data.at = "take" \/ pump.at = "take"
Delimited == data.kind \in {"descriptor", "skipDescriptor"}

Wanted ==
  CASE walk.at = "peek" -> 4
    [] walk.at = "fixed" -> LocalHeaderSize
    [] walk.at = "tail" -> NameLength(walk.lfh.name) + walk.lfh.extraLength
    [] walk.at \notin {"peek", "fixed", "tail"} /\ Taking ->
         IF Delimited \/ Remaining > 0 THEN 1 ELSE 0
    [] walk.at \notin {"peek", "fixed", "tail"} /\ data.at = "descriptor" -> 24
    [] OTHER -> 0
Waiting == Buffered(cursor) < Wanted /\ ~cursor.done

Ask ==
  /\ Waiting /\ ~src.next /\ walk.at # "closing"
  /\ src' = [src EXCEPT !.next = TRUE]
  /\ UNCHANGED <<caller, aborted, cursor, walk, current, data, pump>>

SourceDelivers ==
  /\ src.next /\ src.state = "open" /\ src.at < Length(served)
  /\ \E n \in Pieces :
       LET to == IF src.at + n < Length(served) THEN src.at + n ELSE Length(served)
       IN  /\ cursor' = Pushed(cursor, Piece(src.at, to))
           /\ src' = [src EXCEPT !.at = to, !.next = FALSE]
  /\ UNCHANGED <<caller, aborted, walk, current, data, pump>>

SourceEnds ==
  /\ src.next /\ (src.at = Length(served) \/ src.state # "open")
  /\ cursor' = [cursor EXCEPT !.done = TRUE]
  /\ src' = [src EXCEPT !.next = FALSE, !.state = "returned"]
  /\ UNCHANGED <<caller, aborted, walk, current, data, pump>>

Abort ==
  /\ walk.at # "ended" /\ ~aborted
  /\ aborted' = TRUE
  /\ UNCHANGED <<caller, src, cursor, walk, current, data, pump>>

-----------------------------------------------------------------------------
(* The walk.                                                               *)

Close(code) == walk' = [walk EXCEPT !.at = "closing", !.code = code]
DataUntouched == UNCHANGED <<caller, aborted, src, data, pump>>

(* The caller's next(): before the first no source has been touched. *)
Next ==
  /\ walk.at \in {"fresh", "entry"}
  /\ IF aborted /\ walk.at = "fresh" THEN walk' = [walk EXCEPT !.at = "ended", !.code = "ABORT"]
     ELSE IF ~current.done THEN Close("ZIP_API_MISUSE")
     ELSE IF aborted THEN Close("ABORT")
     ELSE walk' = [walk EXCEPT !.at = "peek"]
  /\ DataUntouched /\ UNCHANGED <<cursor, current>>

(* What starts at the front of the buffer, if that has come in one range.  *)
Following(n) == OneRange(FirstBytes(cursor.pending, n))
Signature == At(served, Following(4).from).kind

(* The directory, or the end of an empty archive, ends the walk unread. *)
OnPeek ==
  /\ walk.at = "peek" /\ ~Waiting
  /\ IF Buffered(cursor) = 0 \/ (Buffered(cursor) >= 4 /\ Signature \in {"cfh", "eocd", "zip64"})
     THEN Close("OK")
     ELSE IF Buffered(cursor) < 4 THEN Close("ZIP_STREAM_TRUNCATED")
     ELSE IF Signature # "lfh" THEN Close("ZIP_SIGNATURE_MISMATCH")
     ELSE IF Len(walk.found) = Limits.maxEntries THEN Close("ZIP_LIMIT_EXCEEDED")
     ELSE walk' = [walk EXCEPT !.at = "fixed"]
  /\ DataUntouched /\ UNCHANGED <<cursor, current>>

(* The fixed part says how long the rest is, which is bounded first. *)
OnFixed ==
  LET lfh == At(served, Following(LocalHeaderSize).from)
  IN  /\ walk.at = "fixed" /\ ~Waiting
      /\ IF Buffered(cursor) < LocalHeaderSize
         THEN Close("ZIP_STREAM_TRUNCATED") /\ UNCHANGED cursor
         ELSE IF \/ NameLength(lfh.name) > Limits.maxNameBytes
                 \/ lfh.extraLength > Limits.maxExtraFieldBytes
         THEN Close("ZIP_LIMIT_EXCEEDED") /\ UNCHANGED cursor
         ELSE /\ walk' = [walk EXCEPT !.at = "tail", !.lfh = lfh]
              /\ cursor' = Consumed(cursor, LocalHeaderSize)
      /\ DataUntouched /\ UNCHANGED current

(* Sizes from the Zip64 field where the header has sentinels. *)
Interpreted(lfh, z64, from) ==
  [name |-> lfh.name, method |-> lfh.method, bit3 |-> lfh.bit3, encrypted |-> lfh.encrypted,
   crc |-> lfh.crc, compressedSize |-> z64.compressedSize,
   uncompressedSize |-> z64.uncompressedSize, from |-> from]
Declared64(lfh) ==
  resolveZip64(parseExtraFields(lfh.extra, lfh.extraLength).fields,
               <<lfh.uncompressedSize, lfh.compressedSize, 0>>)

(* An entry with a descriptor is readable when it is plain deflate; one    *)
(* without payload has nothing to be drained.                              *)
Yielded(header) ==
  IF header.bit3 /\ (header.encrypted \/ header.method # METHOD_DEFLATE)
  THEN Close("ZIP_UNSUPPORTED_CD_LESS_DESCRIPTOR") /\ UNCHANGED <<current, data, pump>>
  ELSE IF ~header.bit3 /\ ~enforceDeclaredSizes(header)
  THEN Close("ZIP_LIMIT_EXCEEDED") /\ UNCHANGED <<current, data, pump>>
  ELSE /\ walk' = [walk EXCEPT !.at = "entry", !.found = Append(@, header), !.lfh = NoHeader]
       /\ current' = [header |-> header, consumed |-> FALSE,
                    done |-> header.compressedSize = 0 /\ ~header.bit3]
       /\ data' = NoData /\ pump' = NoPump
OnTail ==
  LET length == NameLength(walk.lfh.name) + walk.lfh.extraLength
  IN  /\ walk.at = "tail" /\ ~Waiting
      /\ IF Buffered(cursor) < length
         THEN Close("ZIP_STREAM_TRUNCATED") /\ UNCHANGED <<cursor, current, data, pump>>
         ELSE /\ cursor' = Consumed(cursor, length)
              /\ Yielded(Interpreted(walk.lfh, Declared64(walk.lfh),
                                     cursor.bytesRead + length))
      /\ UNCHANGED <<caller, aborted, src>>

(* The caller leaves: return(), or a break out of the loop. *)
Leave ==
  /\ walk.at \in {"fresh", "entry"}
  /\ IF walk.at = "fresh" THEN walk' = [walk EXCEPT !.at = "ended", !.code = "RETURNED"]
     ELSE Close("RETURNED")
  /\ DataUntouched /\ UNCHANGED <<cursor, current>>

(* The source's return() waits for a next() it has not answered. *)
CloseSource ==
  /\ walk.at = "closing" /\ ~src.next
  /\ src' = IF src.state = "open" THEN [src EXCEPT !.state = "returned"] ELSE src
  /\ walk' = [walk EXCEPT !.at = "ended"]
  /\ UNCHANGED <<caller, aborted, cursor, current, data, pump>>

-----------------------------------------------------------------------------
(* data() and skip().                                                      *)

Header == current.header
outputCap ==
  IF Header.uncompressedSize < Limits.maxEntryUncompressedSize THEN Header.uncompressedSize
  ELSE Limits.maxEntryUncompressedSize

BuiltIn == Header.method \in {METHOD_STORE, METHOD_DEFLATE}
Readable ==
  /\ ~Header.encrypted /\ Header.method \in DOMAIN Codecs
  /\ BuiltIn \/ "push" \in Codecs[Header.method]
Kind ==
  CASE Header.bit3 -> "descriptor"
    [] ~Header.bit3 /\ Header.method = METHOD_STORE -> "store"
    [] ~Header.bit3 /\ Header.method = METHOD_DEFLATE /\ platform -> "platform"
    [] OTHER -> "push"

(* A refusal leaves the entry as it is: it can still be skipped. *)
Data ==
  /\ walk.at = "entry" /\ ~current.consumed /\ Readable
  /\ current' = [current EXCEPT !.consumed = TRUE]
  /\ data' = [NoData EXCEPT !.kind = Kind, !.at = "fresh"]
  /\ UNCHANGED <<caller, aborted, src, cursor, walk, pump>>

Skip ==
  /\ walk.at = "entry" /\ ~current.consumed
  /\ current' = [current EXCEPT !.consumed = TRUE]
  /\ data' = [NoData EXCEPT !.kind = IF Header.bit3 THEN "skipDescriptor" ELSE "skip", !.at = "take"]
  /\ UNCHANGED <<caller, aborted, src, cursor, walk, pump>>

Pull ==
  /\ data.at \in {"fresh", "yielded"}
  /\ data' = [data EXCEPT !.at = CASE data.kind = "platform" -> "read"
                                   [] Delimited /\ data.at = "yielded" -> "pushed"
                                   [] OTHER -> "take"]
  /\ pump' = IF data.at = "fresh" /\ data.kind = "platform" THEN [NoPump EXCEPT !.at = "take"] ELSE pump
  /\ UNCHANGED <<caller, aborted, src, cursor, walk, current>>

ReturnData ==
  /\ data.at \in {"fresh", "yielded"}
  /\ data' = [data EXCEPT !.at = "ended", !.code = "RETURNED"]
  /\ UNCHANGED <<caller, aborted, src, cursor, walk, current, pump>>

Ended(code) == data' = [data EXCEPT !.at = "ended", !.code = code]
Completed(code) ==
  /\ Ended(code)
  /\ current' = IF code = "OK" THEN [current EXCEPT !.done = TRUE] ELSE current
Steady == UNCHANGED <<caller, aborted, src>>

(* account(): the signal, and what this entry and all of them produced.    *)
Accounted(out) ==
  LET more == ContentSize(out) - ContentSize(data.out)
  IN  IF ~Delimited /\ aborted THEN "ABORT"
      ELSE IF ContentSize(out) > outputCap /\ ~Delimited THEN "ZIP_SIZE_MISMATCH"
      ELSE IF ContentSize(out) > Limits.maxEntryUncompressedSize THEN "ZIP_INFLATE_OUTPUT_OVERFLOW"
      ELSE IF walk.total + more > Limits.maxTotalUncompressedSize THEN "ZIP_LIMIT_EXCEEDED"
      ELSE "OK"

(* These bytes are handed out, if they pass; a skip keeps them.            *)
Give(got, out, code, then) ==
  /\ data' = [data EXCEPT !.got = got, !.out = IF code = "OK" THEN out ELSE @, !.code = code,
                !.at = CASE code # "OK" -> "ended"
                         [] code = "OK" /\ out # data.out /\ data.kind # "skipDescriptor" -> "yielded"
                         [] OTHER -> then]
  /\ walk' = IF code = "OK" THEN [walk EXCEPT !.total = @ + ContentSize(out) - ContentSize(data.out)]
             ELSE walk

Units(got) == IF got = <<>> THEN <<>> ELSE Slice(served, OneRange(got).from, OneRange(got).to)
Produced(units) ==
  IF Header.method = METHOD_STORE THEN Stored(units) ELSE DecodedSoFar(Header, units)

TakeTo(got) ==
  IF data.kind = "skip" THEN Give(got, <<>>, "OK", "take")
  ELSE Give(got, Produced(Units(got)), Accounted(Produced(Units(got))), "take")
Taking1(n) ==
  /\ cursor' = Consumed(cursor, n)
  /\ TakeTo(data.got \o FirstBytes(cursor.pending, n))

(* Mutant: the piece is not cut where the payload ends. *)
TakePiece_Whole ==
  /\ data.at = "take" /\ ~Delimited /\ ~Waiting /\ Remaining > 0
  /\ IF Buffered(cursor) = 0 THEN Ended("ZIP_STREAM_TRUNCATED") /\ UNCHANGED <<cursor, walk>>
     ELSE Taking1(PieceLength(Head(cursor.pending)))
  /\ Steady /\ UNCHANGED <<current, pump>>

(* The next piece of a payload whose length the header gives. *)
TakePiece ==
  /\ data.at = "take" /\ ~Delimited /\ ~Waiting /\ Remaining > 0
  /\ IF Buffered(cursor) = 0 THEN Ended("ZIP_STREAM_TRUNCATED") /\ UNCHANGED <<cursor, walk>>
     ELSE Taking1(HeadLength(cursor, Remaining))
  /\ Steady /\ UNCHANGED <<current, pump>>

CheckedContent(raw) ==
  IF ~IsOk(raw) THEN raw.code ELSE checkDecompressedOutput(Header, raw.out, TRUE)
EndOfPayload ==
  /\ data.at = "take" /\ ~Delimited /\ Remaining <= 0
  /\ Completed(IF data.kind = "skip" THEN "OK"
               ELSE CheckedContent(Decompressed(Header, Units(data.got))))
  /\ Steady /\ UNCHANGED <<cursor, walk, pump>>

-----------------------------------------------------------------------------
(* A payload that only its deflate stream delimits, and its descriptor.    *)

(* Where the stream that starts here ends, if it is one. *)
EndOfStream(from) ==
  LET ends == {i \in DOMAIN served : served[i].kind = "data" /\ served[i].final /\ Starts(served)[i] >= from}
      first == CHOOSE i \in ends : \A j \in ends : i <= j
  IN  IF ends = {} THEN Length(served) + 1 ELSE Starts(served)[first] + served[first].len

(* A unit that is none of this method's is corrupt where it begins. *)
Corrupt(piece) ==
  \E i \in DOMAIN served : /\ piece.from <= Starts(served)[i] /\ Starts(served)[i] < piece.to
                         /\ Starts(served)[i] < EndOfStream(Header.from)
                         /\ ~(served[i].kind = "data" /\ served[i].method = METHOD_DEFLATE)

PushTo(got, out) == Give(got, out, Accounted(out), "pushed")
OnChunk ==
  /\ data.at = "take" /\ Delimited /\ ~Waiting
  /\ IF Buffered(cursor) = 0 THEN Ended("ZIP_STREAM_TRUNCATED") /\ UNCHANGED <<cursor, walk>>
     ELSE LET next == nextChunk(cursor)
              got == Append(data.got, next.piece)
          IN  /\ cursor' = next.c
              /\ IF Corrupt(next.piece) THEN Ended("ZIP_DEFLATE_CORRUPT") /\ UNCHANGED walk
                 ELSE PushTo(got, DecodedSoFar([method |-> METHOD_DEFLATE], Units(got)))
  /\ Steady /\ UNCHANGED <<current, pump>>

(* What was produced against what was fed, and once the stream has ended   *)
(* against what it took; the bytes behind it go back.                      *)
RatioHolds(length) ==
  length >= Limits.ratioFloor => ContentSize(data.out) <= Limits.maxCompressionRatio * length
OnPushed ==
  LET end == EndOfStream(Header.from)
  IN  /\ data.at = "pushed"
      /\ IF ~RatioHolds(Taken) THEN Ended("ZIP_LIMIT_EXCEEDED") /\ UNCHANGED cursor
         ELSE IF Got.to < end THEN data' = [data EXCEPT !.at = "take"] /\ UNCHANGED cursor
         ELSE /\ cursor' = unread(cursor, Piece(end, Got.to))
              /\ data' = [data EXCEPT !.at = IF RatioHolds(end - Header.from) THEN "descriptor" ELSE "ended",
                            !.code = IF RatioHolds(end - Header.from) THEN "OK" ELSE "ZIP_LIMIT_EXCEEDED"]
      /\ Steady /\ UNCHANGED <<walk, current, pump>>

(* The words of a record; the high half of a size is zero, and so is the   *)
(* CRC of nothing.                                                         *)
Number(n) == <<"number", n>>
CrcWord(content) == IF content = <<>> THEN Number(0) ELSE <<"crc", content>>
Signed(record) == <<"signature", record>>
WordsOf(unit) ==
  IF unit.kind \notin {"descriptor", "bare"} THEN <<Signed(unit.kind)>>
  ELSE (IF unit.kind = "bare" THEN <<>> ELSE <<Signed("descriptor")>>)
         \o <<CrcWord(unit.crc)>>
         \o (IF unit.wide THEN <<Number(unit.compressedSize), Number(0),
                                 Number(unit.uncompressedSize), Number(0)>>
             ELSE <<Number(unit.compressedSize), Number(unit.uncompressedSize)>>)
Words(window, length) ==
  LET place(i, pos) == (pos - Starts(window)[i]) \div 4 + 1
      here(pos) == {i \in DOMAIN window : /\ Starts(window)[i] <= pos /\ pos < Starts(window)[i + 1]
                                          /\ (pos - Starts(window)[i]) % 4 = 0
                                          /\ place(i, pos) \in DOMAIN WordsOf(window[i])}
      word(pos) == IF here(pos) = {} THEN <<"other", pos>>
                   ELSE WordsOf(window[OneOf(here(pos))])[place(OneOf(here(pos)), pos)]
  IN  [n \in 1 .. length \div 4 |-> word(4 * (n - 1))]

(* Mutant: the two forms of an empty entry's descriptor are one. *)
matchDataDescriptor_Short(words, crc, sizes) ==
  LET word(n) == IF n \in DOMAIN words THEN words[n] ELSE <<"none">>
      Short(k) == /\ word(k) = CrcWord(crc) /\ word(k + 1) = Number(sizes[1])
                  /\ word(k + 2) = Number(sizes[2])
      Long(k) == /\ word(k) = CrcWord(crc) /\ word(k + 1) = Number(sizes[1]) /\ word(k + 2) = Number(0)
                 /\ word(k + 3) = Number(sizes[2]) /\ word(k + 4) = Number(0)
      signed == word(1) = Signed("descriptor")
  IN  CASE signed /\ Short(2) -> 16
        [] signed /\ Long(2) /\ ~Short(2) -> 24
        [] Short(1) /\ ~(signed /\ (Short(2) \/ Long(2))) -> 12
        [] Long(1) /\ ~Short(1) /\ ~(signed /\ (Short(2) \/ Long(2))) -> 20
        [] OTHER -> 0

(* How long the descriptor is that says what was measured: with or without *)
(* signature, sizes of four bytes or eight; of two that both do, the one   *)
(* behind which a record begins.  0: none.                                 *)
matchDataDescriptor(words, crc, sizes) ==
  LET word(n) == IF n \in DOMAIN words THEN words[n] ELSE <<"none">>
      Short(k) == /\ word(k) = CrcWord(crc) /\ word(k + 1) = Number(sizes[1])
                  /\ word(k + 2) = Number(sizes[2])
      Long(k) == /\ word(k) = CrcWord(crc) /\ word(k + 1) = Number(sizes[1]) /\ word(k + 2) = Number(0)
                 /\ word(k + 3) = Number(sizes[2]) /\ word(k + 4) = Number(0)
      startsRecord(k) == word(k) \in {Signed("lfh"), Signed("cfh")}
      signed == word(1) = Signed("descriptor")
      form(k) == CASE Short(k) /\ (~Long(k) \/ startsRecord(k + 3)) -> 4 * (k + 2)
                   [] Long(k) /\ ~(Short(k) /\ startsRecord(k + 3)) -> 4 * (k + 4)
                   [] OTHER -> 0
  IN  IF signed /\ form(2) > 0 THEN form(2) ELSE form(1)

Head24 == LET n == IF Buffered(cursor) < 24 THEN Buffered(cursor) ELSE 24
          IN  Words(Slice(served, Following(n).from, Following(n).to), n)
Measured == <<EndOfStream(Header.from) - Header.from, ContentSize(data.out)>>

OnDescriptor ==
  LET width == matchDataDescriptor(Head24, data.out, Measured)
  IN  /\ data.at = "descriptor" /\ ~Waiting
      /\ IF width = 0 THEN Completed("ZIP_DESCRIPTOR_MISMATCH") /\ UNCHANGED cursor
         ELSE /\ cursor' = Consumed(cursor, width)
              /\ data' = [data EXCEPT !.at = "ended", !.width = width]
              /\ current' = [current EXCEPT !.done = TRUE]
      /\ Steady /\ UNCHANGED <<walk, pump>>

-----------------------------------------------------------------------------
(* pumpInflate: writeAll feeds the DecompressionStream, data() reads it.   *)

Fed(got) == [pump EXCEPT !.at = "write", !.written = SumOf(PieceLength, got)]
PumpTakes ==
  /\ pump.at = "take" /\ (Remaining = 0 \/ ~Waiting)
  /\ IF Remaining = 0 THEN pump' = [pump EXCEPT !.at = "close"] /\ UNCHANGED <<cursor, data>>
     ELSE IF Buffered(cursor) = 0
     THEN pump' = [pump EXCEPT !.at = "abort", !.error = "ZIP_STREAM_TRUNCATED"] /\ UNCHANGED <<cursor, data>>
     ELSE LET n == HeadLength(cursor, Remaining)
              got == data.got \o FirstBytes(cursor.pending, n)
          IN  /\ cursor' = Consumed(cursor, n)
              /\ data' = [data EXCEPT !.got = got] /\ pump' = Fed(got)
  /\ Steady /\ UNCHANGED <<walk, current>>

(* What the decoder has put out of what it was given, and whether more is  *)
(* to be read: then a write is not accepted yet.                           *)
Inflatable == DecodedSoFar(Header, Units(data.got))
Unread == Inflatable # data.out
PumpWrites ==
  /\ pump.at = "write" /\ (~Unread \/ pump.cancelled)
  /\ pump' = IF pump.cancelled THEN [pump EXCEPT !.at = "abort", !.error = "CANCELLED"]
             ELSE IF Corrupt(Got) THEN [pump EXCEPT !.at = "abort", !.error = "ZIP_DEFLATE_CORRUPT"]
             ELSE [pump EXCEPT !.at = "take"]
  /\ Steady /\ UNCHANGED <<cursor, walk, current, data>>

Flawed(raw) == ~IsOk(raw) \/ Trailing(Header, Units(data.got))
PumpCloses ==
  /\ pump.at = "close"
  /\ pump' = IF pump.cancelled THEN [pump EXCEPT !.at = "abort", !.error = "CANCELLED"]
             ELSE IF Flawed(Inflated(METHOD_DEFLATE, Units(data.got), Length(served) * 1000))
             THEN [pump EXCEPT !.at = "abort", !.error = "ZIP_DEFLATE_CORRUPT"]
             ELSE [pump EXCEPT !.at = "done", !.closed = TRUE]
  /\ Steady /\ UNCHANGED <<cursor, walk, current, data>>

(* Mutant: a pump that fails does not abort the stream. *)
PumpAborts_Not ==
  /\ pump.at = "abort"
  /\ pump' = [pump EXCEPT !.at = "done"]
  /\ Steady /\ UNCHANGED <<cursor, walk, current, data>>

(* Without this read() would wait for input that never comes. *)
PumpAborts ==
  /\ pump.at = "abort"
  /\ pump' = [pump EXCEPT !.at = "done", !.errored = TRUE]
  /\ Steady /\ UNCHANGED <<cursor, walk, current, data>>

(* A chunk is accounted for before it is yielded; what account() throws    *)
(* cancels the stream, and data() ends when writeAll has.                  *)
ReadGives(out, code) ==
  IF code = "OK" THEN Give(data.got, out, "OK", "read") /\ UNCHANGED pump
  ELSE /\ pump' = [pump EXCEPT !.cancelled = TRUE]
       /\ data' = [data EXCEPT !.at = "join", !.code = code] /\ UNCHANGED walk
OnRead ==
  /\ data.at = "read"
  /\ \/ /\ pump.errored \/ (~Unread /\ pump.closed)
        /\ data' = [data EXCEPT !.at = "join"] /\ UNCHANGED <<walk, pump>>
     \/ /\ ~pump.errored /\ Unread
        /\ ReadGives(Inflatable, Accounted(Inflatable))
  /\ Steady /\ UNCHANGED <<cursor, current>>

Join ==
  /\ data.at = "join" /\ pump.at = "done"
  /\ Completed(IF data.code # "OK" THEN data.code
               ELSE IF pump.error # "OK" THEN pump.error
               ELSE checkDecompressedOutput(Header, data.out, TRUE))
  /\ Steady /\ UNCHANGED <<cursor, walk, pump>>
-----------------------------------------------------------------------------
(* The source fails: whoever waits for it is told. *)
SourceFails ==
  /\ src.next /\ src.state = "open"
  /\ src' = [src EXCEPT !.state = "failed", !.next = FALSE]
  /\ IF walk.at \in {"peek", "fixed", "tail"} THEN Close("SOURCE") /\ UNCHANGED <<data, pump>>
     ELSE IF pump.at = "take"
     THEN pump' = [pump EXCEPT !.at = "abort", !.error = "SOURCE"] /\ UNCHANGED <<walk, data>>
     ELSE Ended("SOURCE") /\ UNCHANGED <<walk, pump>>
  /\ UNCHANGED <<caller, aborted, cursor, current>>

Calls == Next \/ Leave \/ Data \/ Skip \/ Pull \/ ReturnData \/ Abort
Walking == OnPeek \/ OnFixed \/ OnTail \/ CloseSource
Reading ==
  \/ TakePiece \/ EndOfPayload \/ OnChunk \/ OnPushed \/ OnDescriptor
  \/ PumpTakes \/ PumpWrites \/ PumpCloses \/ PumpAborts \/ OnRead \/ Join
Running == Ask \/ SourceDelivers \/ SourceEnds \/ Walking \/ Reading
Step == Calls \/ Running \/ SourceFails

(* The event loop runs what can run and the source answers.  This is       *)
(* WF_vars(Running) written out: TLC is too slow to find out by itself     *)
(* when a step of Running is possible.                                     *)
CanRun ==
  \/ Waiting /\ ~src.next /\ walk.at # "closing"
  \/ src.next
  \/ walk.at \in {"peek", "fixed", "tail"} /\ ~Waiting
  \/ walk.at = "closing" /\ ~src.next
  \/ data.at \in {"take", "descriptor"} /\ ~Waiting
  \/ data.at = "take" /\ ~Delimited /\ Remaining <= 0
  \/ data.at = "pushed"
  \/ data.at = "read" /\ (pump.errored \/ pump.closed \/ Unread)
  \/ data.at = "join" /\ pump.at = "done"
  \/ pump.at = "take" /\ (Remaining = 0 \/ ~Waiting)
  \/ pump.at = "write" /\ (pump.cancelled \/ ~Unread)
  \/ pump.at \in {"close", "abort"}
Fairness == []<>~CanRun \/ []<><<Running>>_vars

Spec == Init /\ [][Step]_vars /\ Fairness

-----------------------------------------------------------------------------
(* Properties.                                                             *)

(* The records have their types, and what the cursor holds is the bytes    *)
(* next in line, in their order, up to what the source has delivered.      *)
TypeOK ==
  /\ {aborted, platform, src.next, current.done, current.consumed} \subseteq BOOLEAN
  /\ src.at \in 0 .. Length(served) /\ src.state \in {"open", "failed", "returned"}
  /\ cursor.pending # <<>> => OneRange(cursor.pending) = Piece(cursor.bytesRead, src.at)
  /\ walk.total <= Limits.maxTotalUncompressedSize

(* What the in-memory reader finds, in the order of the file. *)
InFile(reader) == Sorted(reader.entries, LAMBDA a, b : a.localHeaderOffset < b.localHeaderOffset)
Archived == {[served |-> f, entries |-> InFile(openZip(f, TRUE, TRUE))] : f \in Written}
FoundAre(entries) ==
  /\ Len(walk.found) <= Len(entries)
  /\ \A i \in DOMAIN walk.found :
       /\ walk.found[i].name = entries[i].name
       /\ walk.found[i].method = entries[i].method
       /\ ~walk.found[i].bit3 => /\ walk.found[i].crc = entries[i].crc
                                 /\ walk.found[i].compressedSize = entries[i].compressedSize
  /\ walk.code = "OK" /\ walk.at \in {"closing", "ended"} => Len(walk.found) = Len(entries)

Finished == data.at = "ended" /\ data.code = "OK" /\ data.kind \notin {"skip", "skipDescriptor"}
Vouches(u) == u.kind \in {"descriptor", "bare"} /\ u.crc = data.out

WalkFinds(entries) ==
  FoundAre(entries) /\ walk.code \in {"OK", "ZIP_API_MISUSE", "ABORT", "RETURNED", "SOURCE"}
ContentArrives(entries) ==
  data.kind # "none" /\ walk.at \in {"entry", "closing", "ended"} =>
    /\ data.kind # "store" => IsPrefix(data.out, entries[Len(walk.found)].crc)
    /\ Finished => data.out = entries[Len(walk.found)].crc
    /\ walk.at = "entry" => data.code \in {"OK", "ABORT", "RETURNED", "SOURCE", "CANCELLED"}
DescriptorTakenWhole ==
  Finished /\ Header.bit3 => \E u \in ToSet(served) : Vouches(u) /\ u.len = data.width
SourceLetGo ==
  walk.at = "ended" => src.state # "open" \/ src = [state |-> "open", at |-> 0, next |-> FALSE]

(* In an archive a writer has emitted, without stream entries that are     *)
(* stored (zip-iterate.ts:211 refuses those by design), the walk finds the *)
(* entries of the directory it never sees, in their order, and all of them *)
(* when it comes to its end, however the stream is cut and whatever was    *)
(* read, skipped or left in between; it finds fault with the caller or the *)
(* source, never with the archive.  What data() hands out is a prefix of the content     *)
(* (the bytes of a stored payload are told apart only as a whole), in the  *)
(* end all of it, and it ends well but for an abort, the caller or the     *)
(* source.  In any file of these a descriptor is taken whole, and a walk   *)
(* that has ended has let go of its source.                                *)
FindsEveryEntry ==
  /\ \A a \in Archived : a.served = served => WalkFinds(a.entries) /\ ContentArrives(a.entries)
  /\ DescriptorTakenWhole
  /\ SourceLetGo

(* data() takes the payload from its beginning, without a gap, and not     *)
(* past the length its header gives, and it ends well only with what the   *)
(* header, or a descriptor of the stream, vouches for.                     *)
ContentIsExact ==
  /\ data.got # <<>> => Got = Piece(Header.from, Header.from + Taken)
  /\ ~Delimited => Taken <= Header.compressedSize
  /\ Finished /\ ~Header.bit3 => data.out = Header.crc
  /\ Finished /\ Header.bit3 => \E u \in ToSet(served) : Vouches(u)

(* A next() of either generator settles, as does a skip(), even when what  *)
(* it waits for fails in the pump beside it; and a walk that is left ends. *)
Settles ==
  /\ walk.at \in {"peek", "fixed", "tail"} ~> walk.at \notin {"peek", "fixed", "tail"}
  /\ walk.at = "closing" ~> walk.at = "ended"
  /\ data.at \in {"take", "pushed", "descriptor", "read", "join"} ~> data.at \in {"yielded", "ended"}
=============================================================================
