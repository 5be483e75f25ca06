----------------------------- MODULE StreamWriter -----------------------------
(***************************************************************************)
(* The outputs of a builder: toBytes(), and the generator of stream()      *)
(* (core/zip-stream-writer.ts), which drains the segments of the archive   *)
(* through a re-chunker and expands a stream entry from its source in one  *)
(* of three ways: stored, deflated by a CompressionStream beside it, or    *)
(* deflated in one piece.  The consumer pulls, stops or aborts; a source   *)
(* answers, ends, fails or hangs for a while.  The writer runs to its next *)
(* wait or yield in steps of one segment, piece or chunk.                  *)
(***************************************************************************)
EXTENDS EntryCollector, Iso21320

CONSTANTS
  ChunkSize,             \* options.chunkSize: what a full chunk holds
  HasCompressionStream,  \* the platform deflates incrementally
  SourceContents         \* what each source delivers: a sequence of chunks

ASSUME WriterAssumption ==
  /\ ChunkSize \in Nat \ {0} /\ HasCompressionStream \in BOOLEAN
  /\ \A s \in DOMAIN SourceContents : SourceContents[s] \in Contents
  /\ \A call \in Calls : call.source # None => call.source.id \in DOMAIN SourceContents

VARIABLES
  built,      \* what toBytes() returned, <<>> before
  writer,     \* the generator of stream()
  pump,       \* writeAll(), which feeds the CompressionStream
  cs,         \* the CompressionStream
  sources,    \* the sources of the stream entries
  aborted     \* the signal
vars == <<specs, names, streaming, comment, calls, built, writer, pump, cs, sources, aborted>>
output == <<writer, pump, cs, sources>>

NoGenerator == archiveSegments(<<>>, <<>>)
NoWriter ==
  [at |-> "none", then |-> "segment", asked |-> FALSE, stopping |-> FALSE, outcome |-> "none",
   planned |-> <<>>, g |-> NoGenerator, out |-> <<>>, rest |-> 0, filled |-> 0, yielded |-> 0,
   consumed |-> 0, content |-> <<>>, planIndex |-> 0,
   bytesIn |-> 0, bytesOut |-> 0, entriesDone |-> 0]  \* createProgressTracker()
Unread(content) == [left |-> content, next |-> FALSE, return |-> FALSE, state |-> "unstarted"]

Init ==
  /\ CollectorInit
  /\ built = <<>>
  /\ writer = NoWriter
  /\ pump = [at |-> "idle", chunk |-> <<>>]
  /\ cs = [at |-> "none", held |-> <<>>, ready |-> <<>>]
  /\ sources = [s \in DOMAIN SourceContents |-> Unread(SourceContents[s])]
  /\ aborted = FALSE

builder == <<specs, names, streaming, comment, calls, built>>

-----------------------------------------------------------------------------
(* The calls of the builder's owner.                                       *)

Building ==
  /\ writer.at \in {"none", "fresh"} /\ built = <<>>
  /\ Add \/ AddDirectory \/ AddStream \/ AddRaw \/ AddFromReader \/ SetComment
  /\ UNCHANGED <<built, writer, pump, cs, sources, aborted>>

(* Refused for an archive that streams; a source is never read here. *)
ToBytes ==
  /\ built = <<>> /\ ~aborted /\ ~streaming /\ Planned
  /\ built' = assembleArchive(planArchive(orderedSpecs), comment)
  /\ UNCHANGED <<specs, names, streaming, comment, calls, writer, pump, cs, sources, aborted>>

Stream ==
  /\ writer.at = "none"
  /\ writer' = [writer EXCEPT !.at = "fresh"]
  /\ UNCHANGED <<builder, pump, cs, sources, aborted>>

(* Where another task may run: at an await, or between two calls. *)
Parked == writer.at \in {"fresh", "chunk", "tail", "wait", "read", "join", "closing"}

Abort ==
  /\ Parked /\ ~aborted
  /\ aborted' = TRUE
  /\ UNCHANGED <<builder, writer, pump, cs, sources>>

(* The consumer's next() and return(); a return() queues behind a next().  *)
Pull ==
  /\ writer.at \in {"fresh", "chunk", "tail"} /\ ~writer.asked /\ ~writer.stopping
  /\ writer' = [writer EXCEPT !.asked = TRUE]
  /\ UNCHANGED <<builder, pump, cs, sources, aborted>>

Return ==
  /\ Parked /\ ~writer.stopping
  /\ writer' = [writer EXCEPT !.stopping = TRUE]
  /\ UNCHANGED <<builder, pump, cs, sources, aborted>>

-----------------------------------------------------------------------------
(* The writer's own steps.                                                 *)

Current(w) == w.g.plans[w.g.i]
SourceOf(w) == Current(w).source.id
Incremental(w) ==
  Current(w).method = METHOD_DEFLATE /\ ~Current(w).deterministic /\ HasCompressionStream

(* The source's loop is still open: leaving the generator has to close it. *)
Engaged(w) == w.g.at = "entry" /\ w.then \in {"ask", "read"}

Ended(w, outcome) == [w EXCEPT !.at = "ended", !.outcome = outcome, !.asked = FALSE]

(* Mutant: the source is left to itself. *)
Leave_NoReturn(w, outcome) == writer' = Ended(w, outcome) /\ UNCHANGED <<cs, sources>>

(* Leave with an outcome, closing the source first where one is being read *)
(* and cancelling the CompressionStream beside it.                         *)
Leave(w, outcome) ==
  IF ~Engaged(w) THEN writer' = Ended(w, outcome) /\ UNCHANGED <<cs, sources>>
  ELSE /\ writer' = [w EXCEPT !.at = "closing", !.outcome = outcome]
       /\ sources' = [sources EXCEPT ![SourceOf(w)].return = TRUE]
       /\ cs' = IF Incremental(w) THEN [cs EXCEPT !.at = "cancelled", !.ready = <<>>] ELSE cs

Pushing(w, units, then) ==
  [w EXCEPT !.at = "push", !.then = then, !.out = @ \o units, !.rest = Length(units)]

(* Mutant: every segment but a header counts as the end of an entry. *)
Matched_AnyPayload(w) ==
  IF w.planIndex < Count(w.g) /\ w.g.at = "payload"
  THEN [w EXCEPT !.bytesIn = @ + w.g.plans[w.planIndex + 1].uncompressedSize,
                 !.entriesDone = @ + 1, !.planIndex = @ + 1]
  ELSE w

(* A segment ends an entry when it is the one the entry's plan names. *)
Matched(w) ==
  IF w.planIndex < Count(w.g) /\ w.g.plans[w.planIndex + 1].emitted = Identity(w.g)
  THEN [w EXCEPT !.bytesIn = @ + w.g.plans[w.planIndex + 1].uncompressedSize,
                 !.entriesDone = @ + 1, !.planIndex = @ + 1]
  ELSE w

Advanced(w, consumed) ==
  LET g == Resumed(writer.g, consumed)
  IN  [w EXCEPT !.g = g, !.at = IF g.at = "done" THEN "finish" ELSE "segment"]

(* All of it is in the buffer, or yielded: on with what comes then. *)
Pushed(filled) ==
  LET w == [writer EXCEPT !.rest = 0, !.filled = filled]
  IN  CASE w.then = "segment" -> Advanced(Matched(w), 0)
        [] w.then = "entryEnd" ->
             Advanced([w EXCEPT !.entriesDone = @ + 1, !.planIndex = @ + 1], w.consumed)
        [] OTHER -> [w EXCEPT !.at = w.then]

Start ==
  /\ writer.at = "fresh" /\ writer.asked
  /\ \E entries \in {orderedSpecs} :
       writer' = IF aborted THEN Ended(writer, "aborted")
                 ELSE IF ~Planned THEN Ended(writer, "refused")
                 ELSE [writer EXCEPT !.at = "segment", !.planned = entries,
                                     !.g = archiveSegments(planArchive(entries), comment)]
  /\ UNCHANGED <<builder, pump, cs, sources, aborted>>

EmitSegment ==
  /\ writer.at = "segment" /\ writer.g.at # "entry"
  /\ writer' = Pushing([writer EXCEPT !.g = Marked(@)], Segment(writer.g), "segment")
  /\ UNCHANGED <<builder, pump, cs, sources, aborted>>

(* Mutant: a full chunk is handed out without a look at the signal. *)
PushStep_Unchecked ==
  LET take == IF writer.rest < ChunkSize - writer.filled THEN writer.rest
              ELSE ChunkSize - writer.filled
      full == writer.filled + take = ChunkSize
  IN  /\ writer.at = "push"
      /\ writer' = IF full
                   THEN [writer EXCEPT !.at = "chunk", !.asked = FALSE, !.filled = ChunkSize,
                           !.rest = @ - take, !.bytesOut = @ + ChunkSize,
                           !.yielded = @ + ChunkSize]
                   ELSE Pushed(writer.filled + take)
      /\ UNCHANGED <<builder, pump, cs, sources, aborted>>

(* The re-chunker: a full chunk is yielded, unless the signal is up.       *)
PushStep ==
  LET take == IF writer.rest < ChunkSize - writer.filled THEN writer.rest
              ELSE ChunkSize - writer.filled
      full == writer.filled + take = ChunkSize
  IN  /\ writer.at = "push"
      /\ IF full /\ aborted THEN Leave(writer, "aborted")
         ELSE /\ writer' = IF full
                   THEN [writer EXCEPT !.at = "chunk", !.asked = FALSE, !.filled = ChunkSize,
                           !.rest = @ - take, !.bytesOut = @ + ChunkSize,
                           !.yielded = @ + ChunkSize]
                   ELSE Pushed(writer.filled + take)
              /\ UNCHANGED <<cs, sources>>
      /\ UNCHANGED <<builder, pump, aborted>>

Resume ==
  /\ writer.at = "chunk" /\ writer.asked
  /\ writer' = IF writer.rest > 0 THEN [writer EXCEPT !.at = "push", !.filled = 0]
                                  ELSE Pushed(0)
  /\ UNCHANGED <<builder, pump, cs, sources, aborted>>

(* The last bytes, fewer than a chunk, without a look at the signal. *)
Finish ==
  /\ writer.at = "finish"
  /\ writer' = IF writer.filled = 0 THEN Ended(writer, "done")
               ELSE [writer EXCEPT !.at = "tail", !.asked = FALSE,
                       !.bytesOut = @ + writer.filled, !.yielded = @ + writer.filled]
  /\ UNCHANGED <<builder, pump, cs, sources, aborted>>

AfterTail ==
  /\ writer.at = "tail" /\ writer.asked
  /\ writer' = Ended(writer, "done")
  /\ UNCHANGED <<builder, pump, cs, sources, aborted>>

(* A return() is taken up where the generator is suspended. *)
Stop ==
  /\ writer.stopping /\ ~writer.asked /\ writer.at \in {"fresh", "chunk", "tail"}
  /\ Leave(writer, "returned")
  /\ UNCHANGED <<builder, pump, aborted>>

-----------------------------------------------------------------------------
(* A stream entry, stored or deflated in one piece: the source is read in  *)
(* a for await.                                                            *)

Asked(s) == [sources EXCEPT ![s].next = TRUE,
                            ![s].state = IF @ = "unstarted" THEN "open" ELSE @]

BeginEntry ==
  LET w == [writer EXCEPT !.consumed = 0, !.content = <<>>]
  IN  /\ writer.at = "segment" /\ writer.g.at = "entry"
      /\ IF Incremental(writer)
         THEN /\ writer' = [w EXCEPT !.at = "read", !.then = "read"]
              /\ cs' = [at |-> "open", held |-> <<>>, ready |-> <<>>]
              /\ pump' = [at |-> "next", chunk |-> <<>>]
              /\ sources' = Asked(SourceOf(writer))
         ELSE writer' = [w EXCEPT !.at = "ask", !.then = "ask"] /\ UNCHANGED <<cs, pump, sources>>
      /\ UNCHANGED <<builder, aborted>>

AskSource ==
  /\ writer.at = "ask"
  /\ writer' = [writer EXCEPT !.at = "wait"]
  /\ sources' = Asked(SourceOf(writer))
  /\ UNCHANGED <<builder, pump, cs, aborted>>

(* The entry so far; its CRC is set with the descriptor. *)
Sized(w, content, compressedSize) ==
  [w EXCEPT !.content = content,
            !.g.plans[w.g.i] = [@ EXCEPT !.uncompressedSize = ContentSize(content),
                                         !.compressedSize = compressedSize]]

Piece(w, units, then) == Pushing([w EXCEPT !.consumed = @ + Length(units)], units, then)

(* Mutant: the descriptor is wide if the sizes need it, not if the local   *)
(* header has said so.                                                     *)
Descriptor_ByNeed(w) ==
  LET plan == Current(w)
      over == plan.uncompressedSize > SentinelU32 - 1 \/ plan.compressedSize > SentinelU32 - 1
  IN  Piece([w EXCEPT !.g.plans[w.g.i].crc = w.content],
            <<writeDataDescriptor(w.content, plan.compressedSize, plan.uncompressedSize, over)>>,
            "entryEnd")

Descriptor(w) ==
  LET plan == Current(w)
  IN  Piece([w EXCEPT !.g.plans[w.g.i].crc = w.content],
            <<writeDataDescriptor(w.content, plan.compressedSize, plan.uncompressedSize,
                                  plan.zip64)>>, "entryEnd")

ChunkArrives ==
  LET s == SourceOf(writer)
      chunk == Head(sources[s].left)
      content == Append(writer.content, chunk)
      w == Sized([writer EXCEPT !.bytesIn = @ + chunk.size], content, ContentSize(content))
      delivered == [sources EXCEPT ![s].left = Tail(@), ![s].next = FALSE]
      given(v, code) == /\ writer' = [v EXCEPT !.at = "closing", !.outcome = code]
                        /\ sources' = [delivered EXCEPT ![s].return = TRUE]
  IN  /\ writer.at = "wait" /\ sources[s].state = "open" /\ sources[s].left # <<>>
      /\ IF aborted THEN given(writer, "aborted")
         ELSE IF Current(writer).method = METHOD_DEFLATE
         THEN writer' = [writer EXCEPT !.at = "ask", !.content = content, !.bytesIn = w.bytesIn]
              /\ sources' = delivered
         ELSE IF ~StreamSizesInRange(Current(w)) THEN given(w, "range")
         ELSE /\ writer' = Piece(w, <<DataUnit(METHOD_STORE, chunk.size, <<chunk>>, FALSE)>>, "ask")
              /\ sources' = delivered
      /\ UNCHANGED <<builder, pump, cs, aborted>>

Drained(s) == [sources EXCEPT ![s].next = FALSE, ![s].state = "closed"]

(* The source is read: what is left of the entry, up to its descriptor.    *)
SourceDone ==
  LET content == writer.content
      whole == Deflated(content)
      w == Sized(writer, content, whole.len)
  IN  /\ writer.at = "wait" /\ sources[SourceOf(writer)].left = <<>>
      /\ sources' = Drained(SourceOf(writer))
      /\ writer' = IF Current(writer).method = METHOD_STORE
                   THEN Descriptor(Sized(writer, content, ContentSize(content)))
                   ELSE IF ~StreamSizesInRange(Current(w)) THEN Ended(w, "range")
                   ELSE Piece(w, <<whole>>, "describe")
      /\ UNCHANGED <<builder, pump, cs, aborted>>

SourceFails ==
  /\ writer.at = "wait" /\ sources[SourceOf(writer)].state = "open"
  /\ sources' = Drained(SourceOf(writer))
  /\ writer' = Ended(writer, "source")
  /\ UNCHANGED <<builder, pump, cs, aborted>>

Describe ==
  /\ writer.at = "describe"
  /\ writer' = Descriptor(writer)
  /\ UNCHANGED <<builder, pump, cs, sources, aborted>>

-----------------------------------------------------------------------------
(* A stream entry deflated by a CompressionStream.  writeAll() feeds it,   *)
(* the writer reads it, and each may be ahead of the other.                *)

PumpChunk ==
  LET s == SourceOf(writer)
      chunk == Head(sources[s].left)
  IN  /\ pump.at = "next" /\ sources[s].state = "open" /\ sources[s].left # <<>>
      /\ sources' = [sources EXCEPT ![s].left = Tail(@), ![s].next = FALSE]
      /\ IF aborted
         THEN /\ pump' = [pump EXCEPT !.at = "aborted"]
              /\ cs' = IF cs.at = "open" THEN [cs EXCEPT !.at = "aborted", !.ready = <<>>] ELSE cs
              /\ UNCHANGED writer
         ELSE /\ pump' = [at |-> "write", chunk |-> <<chunk>>]
              /\ writer' = [writer EXCEPT !.bytesIn = @ + chunk.size,
                                         !.content = Append(@, chunk)]
              /\ UNCHANGED cs
      /\ UNCHANGED <<builder, aborted>>

(* write() resolves once the stream has taken the chunk in; one that has   *)
(* been cancelled rejects it.                                              *)
PumpWrite ==
  /\ pump.at = "write"
  /\ IF cs.at = "open"
     THEN /\ cs.held = <<>>
          /\ cs' = [cs EXCEPT !.held = pump.chunk]
          /\ pump' = [at |-> "next", chunk |-> <<>>]
          /\ sources' = Asked(SourceOf(writer))
     ELSE pump' = [at |-> "failed", chunk |-> <<>>] /\ UNCHANGED <<cs, sources>>
  /\ UNCHANGED <<builder, writer, aborted>>

PumpDone ==
  /\ pump.at = "next" /\ sources[SourceOf(writer)].left = <<>>
  /\ sources' = Drained(SourceOf(writer))
  /\ pump' = [pump EXCEPT !.at = IF cs.at = "open" THEN "close" ELSE "failed"]
  /\ cs' = IF cs.at = "open" THEN [cs EXCEPT !.at = "closing"] ELSE cs
  /\ UNCHANGED <<builder, writer, aborted>>

(* close() rejects on a stream that is cancelled before it has closed. *)
PumpClose ==
  /\ pump.at = "close" /\ cs.at = "cancelled"
  /\ pump' = [pump EXCEPT !.at = "failed"]
  /\ UNCHANGED <<builder, writer, cs, sources, aborted>>

(* Mutant: a failing source leaves the stream open for its reader. *)
PumpFails_Silent ==
  /\ pump.at = "next" /\ sources[SourceOf(writer)].state = "open"
  /\ sources' = Drained(SourceOf(writer))
  /\ pump' = [pump EXCEPT !.at = "failed"]
  /\ UNCHANGED <<builder, writer, cs, aborted>>

PumpFails ==
  /\ pump.at = "next" /\ sources[SourceOf(writer)].state = "open"
  /\ sources' = Drained(SourceOf(writer))
  /\ pump' = [pump EXCEPT !.at = "failed"]
  /\ cs' = IF cs.at = "open" THEN [cs EXCEPT !.at = "source", !.ready = <<>>] ELSE cs
  /\ UNCHANGED <<builder, writer, aborted>>

(* The stream hands out what it holds when it likes, and the rest with its *)
(* end once it is closed.                                                  *)
Compress ==
  /\ cs.at \in {"open", "closing"} /\ cs.held # <<>> /\ cs.ready = <<>>
  /\ cs' = [cs EXCEPT !.held = <<>>,
               !.ready = <<DataUnit(METHOD_DEFLATE, Packed(cs.held), cs.held, FALSE)>>]
  /\ UNCHANGED <<builder, writer, pump, sources, aborted>>

Flush ==
  /\ cs.at = "closing"
  /\ cs' = [at |-> "closed", held |-> <<>>,
            ready |-> Append(cs.ready,
                             DataUnit(METHOD_DEFLATE, Packed(cs.held) + 1, cs.held, TRUE))]
  /\ pump' = [pump EXCEPT !.at = "done"]
  /\ UNCHANGED <<builder, writer, sources, aborted>>

ReadPiece ==
  LET unit == Head(cs.ready)
      w == Sized(writer, writer.content, Current(writer).compressedSize + unit.len)
      taken == [cs EXCEPT !.ready = Tail(@)]
  IN  /\ writer.at = "read" /\ cs.ready # <<>>
      /\ IF StreamSizesInRange(Current(w))
         THEN writer' = Piece(w, <<unit>>, "read") /\ cs' = taken /\ UNCHANGED sources
         ELSE Leave(w, "range")
      /\ UNCHANGED <<builder, pump, aborted>>

ReadEnd ==
  /\ writer.at = "read" /\ cs.ready = <<>>
  /\ \/ /\ cs.at = "closed"
        /\ writer' = [writer EXCEPT !.at = "join"]
        /\ UNCHANGED <<cs, sources>>
     \/ cs.at \in {"aborted", "source"} /\ Leave(writer, cs.at)
  /\ UNCHANGED <<builder, pump, aborted>>

Join ==
  /\ writer.at = "join" /\ pump.at = "done"
  /\ writer' = [Sized(writer, writer.content, Current(writer).compressedSize)
                  EXCEPT !.at = "closing"]
  /\ sources' = [sources EXCEPT ![SourceOf(writer)].return = TRUE]
  /\ UNCHANGED <<builder, pump, cs, aborted>>

(* return() of the source settles, behind a next() it has not answered.    *)
SourceReturned ==
  /\ writer.at = "closing" /\ ~sources[SourceOf(writer)].next
  /\ sources' = [sources EXCEPT ![SourceOf(writer)].return = FALSE,
                                ![SourceOf(writer)].state = "closed"]
  /\ writer' = IF writer.outcome # "none" THEN Ended(writer, writer.outcome)
               ELSE IF ~StreamSizesInRange(Current(writer)) THEN Ended(writer, "range")
               ELSE Descriptor(writer)
  /\ UNCHANGED <<builder, pump, cs, aborted>>

-----------------------------------------------------------------------------
SourceAnswers ==
  ChunkArrives \/ SourceDone \/ SourceFails \/ PumpChunk \/ PumpDone \/ PumpFails
WriterStep ==
  \/ Start \/ EmitSegment \/ PushStep \/ Resume \/ Finish \/ AfterTail \/ Stop
  \/ BeginEntry \/ AskSource \/ Describe \/ ReadPiece \/ ReadEnd \/ Join \/ SourceReturned
PumpStep == PumpWrite \/ PumpClose
StreamStep == Compress \/ Flush

Running == SourceAnswers \/ WriterStep \/ PumpStep \/ StreamStep

Next == Building \/ ToBytes \/ Stream \/ Abort \/ Pull \/ Return \/ Running

(* What can run does: the event loop takes up the writer and the pump, the *)
(* platform's stream compresses, and a source answers in the end.  Nobody  *)
(* has to pull, stop or abort.                                             *)
Spec == Init /\ [][Next]_vars /\ WF_vars(Running)

-----------------------------------------------------------------------------
(* Properties.                                                             *)

(* The writer's fields have their types, and it is inside the archive it   *)
(* writes (zip-stream-writer.ts, zip-builder.ts). *)
TypeOK ==
  /\ names \subseteq ToSet(NameOrder) /\ {spec.name : spec \in ToSet(specs)} \subseteq names
  /\ {streaming, aborted, writer.asked, writer.stopping} \subseteq BOOLEAN
  /\ writer.filled \in 0 .. ChunkSize /\ writer.rest \in 0 .. Length(writer.out)
  /\ writer.planIndex <= Count(writer.g)
  /\ pump.at \in {"idle", "next", "write", "close", "done", "failed", "aborted"}

ContentOf(spec) == IF spec.source # None THEN SourceContents[spec.source.id] ELSE spec.content

(* The reader finds these entries in the file, in this order, each with    *)
(* its content; a raw payload comes back as it was given.                  *)
HasPayload(read, payload) == IsOk(read) /\ read.payload = payload
HasContent(read, content) == IsOk(read) /\ read.out = content
ReadsAs(reader, entries) ==
  /\ IsOk(reader) /\ reader.directory = "OK" /\ Len(reader.entries) = Len(entries)
  /\ \A i \in DOMAIN entries :
       /\ reader.entries[i].name = entries[i].name
       /\ reader.entries[i].comment = entries[i].comment
       /\ IF entries[i].raw # None
          THEN HasPayload(readEntryRaw(reader, reader.entries[i]), entries[i].raw.payload)
          ELSE HasContent(readEntry(reader, reader.entries[i], TRUE), ContentOf(entries[i]))
ReadsBackAs(file, entries) == ReadsAs(openZip(file, FALSE, TRUE), entries)

(* Whatever the sizes, the offsets and the count, with Zip64 or without,   *)
(* buffered, raw or streamed by either deflater: an archive the writers    *)
(* finish is one the package's own reader opens, and it holds exactly the  *)
(* entries that were added, in the order asked for.                        *)
ReadsBack ==
  /\ built # <<>> => ReadsBackAs(built, orderedSpecs)
  /\ writer.outcome = "done" => ReadsBackAs(writer.out, writer.planned)

(* And it is well-formed for a validator that shares no code with the      *)
(* package: both headers of every entry and its descriptor say the same,   *)
(* the descriptor is as wide as the local header announces, and no two     *)
(* entries claim a byte (scripts/validate-zip.ts, zip-segments.ts). *)
Conforms ==
  /\ built # <<>> => validateArchive(built) = {}
  /\ writer.outcome = "done" => validateArchive(writer.out) = {}

(* An entry counts as done from when its last byte has been pushed, no     *)
(* sooner and no later, whether it has a payload, none, or a source; and   *)
(* when the directory begins every entry's bytes have been counted.        *)
ProgressIsExact ==
  LET g == writer.g
      size(plan) == plan.uncompressedSize
  IN  /\ g.at \in {"header", "entry", "payload"} => writer.entriesDone = g.i - 1
      /\ g.at \in {"central", "zip64", "locator", "eocd", "done"} =>
           writer.entriesDone = Count(g) /\ writer.bytesIn = SumOf(size, g.plans)
      /\ writer.outcome = "done" => writer.bytesOut = Length(writer.out)

(* However the generator ends, by itself, by a failure, an abort or its    *)
(* consumer's return(), a source it has started is closed, and no call to  *)
(* it is left without an answer.                                           *)
SourcesReleased ==
  writer.at = "ended" =>
    \A s \in DOMAIN sources :
      sources[s].state # "open" /\ ~sources[s].next /\ ~sources[s].return

(* After the signal is up the consumer receives no full chunk any more;    *)
(* only the last bytes of an archive that was complete.                    *)
NoChunkAfterAbort == [][aborted => writer'.yielded - writer.yielded < ChunkSize]_vars

(* Every next() and every return() of the output settles, and the pump of  *)
(* an output that has ended does not run on.                               *)
Settles ==
  /\ writer.asked ~> ~writer.asked
  /\ writer.stopping ~> writer.at = "ended"
  /\ writer.at = "ended" ~> pump.at \in {"idle", "done", "failed", "aborted"}

(* What checkSpec() has let through can be read back: an extra block that  *)
(* did not fit its length field "would wrap and silently emit a corrupt    *)
(* archive (its own reader would then reject it)" (zip-segments.ts:147).   *)
OwnReaderAccepts ==
  writer.outcome = "done" =>
    LET reader == openZip(writer.out, FALSE, TRUE)
    IN  /\ IsOk(reader) /\ reader.directory = "OK"
        /\ \A e \in ToSet(reader.entries) : verifyEntry(reader, e).ok
=============================================================================
