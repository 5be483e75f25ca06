--------------------------- MODULE ArchiveSegments ---------------------------
(***************************************************************************)
(* Planning and emission (core/zip-segments.ts): planArchive() turns the   *)
(* builder's entries into plans, and archiveSegments() is the generator    *)
(* both writers drain.  A generator is a record of where it is suspended   *)
(* and of its locals; Segment is what it yields there and Resumed the      *)
(* generator after its consumer asked for more.                            *)
(***************************************************************************)
EXTENDS ZipRecords

-----------------------------------------------------------------------------
(* Planning.  An entry holds a content, a raw payload with what is said of *)
(* it, or a source that will be read while the archive is written.         *)

checkSpec(spec) ==
  /\ NameLength(spec.name) <= Limits.maxNameBytes
  /\ spec.comment <= Limits.maxCommentBytes
  /\ ExtraSize(spec.extra) <= Limits.maxExtraFieldBytes
  /\ ExtraSize(spec.extra) <= MaxBlock
Accepted(specs) == Len(specs) <= Limits.maxEntries /\ \A i \in DOMAIN specs : checkSpec(specs[i])

Plan(spec, method, payload, crc, uncompressedSize) ==
  [name |-> spec.name, attributes |-> spec.attributes, pinned |-> spec.pinned,
   extra |-> spec.extra, comment |-> spec.comment, method |-> method, bit3 |-> FALSE, encrypted |-> FALSE,
   source |-> None, deterministic |-> FALSE, zip64 |-> FALSE, payload |-> payload, emitted |-> None, crc |-> crc,
   compressedSize |-> Length(payload),
   uncompressedSize |-> uncompressedSize]

methodOf(spec) == IF spec.method = "store" THEN METHOD_STORE ELSE METHOD_DEFLATE

buildStreamPlan(spec) ==
  [Plan(spec, methodOf(spec), <<>>, <<>>, 0)
     EXCEPT !.bit3 = TRUE, !.source = spec.source,
            !.deterministic = spec.deterministic, !.zip64 = spec.zip64]

buildRawPlan(spec) ==
  [Plan(spec, spec.raw.method, spec.raw.payload, spec.raw.crc, spec.raw.uncompressedSize)
     EXCEPT !.encrypted = spec.raw.encrypted]

(* A deflate stream costs one byte more than its chunks: its end. *)
Packed(content) == SumOf(LAMBDA c : c.packed, content)
Deflated(content) == DataUnit(METHOD_DEFLATE, Packed(content) + 1, content, TRUE)
needsDeflate(spec) == spec.method = "deflate" /\ ContentSize(spec.content) > 0

(* Deflated when that is asked for and makes it smaller; an empty content  *)
(* has no payload.                                                         *)
finishBufferedPlan(spec) ==
  LET size   == ContentSize(spec.content)
      stored == IF size = 0 THEN <<>> ELSE <<DataUnit(METHOD_STORE, size, spec.content, TRUE)>>
      packed == Deflated(spec.content)
  IN  IF needsDeflate(spec) /\ packed.len < size
      THEN Plan(spec, METHOD_DEFLATE, <<packed>>, spec.content, size)
      ELSE Plan(spec, METHOD_STORE, stored, spec.content, size)

planArchive(specs) ==
  [i \in DOMAIN specs |-> IF specs[i].source # None THEN buildStreamPlan(specs[i])
                          ELSE IF specs[i].raw # None THEN buildRawPlan(specs[i])
                          ELSE finishBufferedPlan(specs[i])]

-----------------------------------------------------------------------------
(* The generator.                                                          *)

isStream(plan) == plan.source # None
Count(g) == Len(g.plans)

(* The directory has been emitted; which records close the archive. *)
Trailer(g) ==
  LET cdSize == g.offset - g.cdOffset
      needsZip64 == \/ Count(g) > SentinelU16 - 1
                    \/ cdSize > SentinelU32 - 1
                    \/ g.cdOffset > SentinelU32 - 1
  IN  [g EXCEPT !.at = IF needsZip64 THEN "zip64" ELSE "eocd", !.cdSize = cdSize,
                !.z64Pos = g.offset]

NextRecord(g) ==
  IF g.i < Count(g) THEN [g EXCEPT !.at = "central", !.i = @ + 1] ELSE Trailer(g)
NextEntry(g) ==
  IF g.i < Count(g) THEN [g EXCEPT !.at = "header", !.i = @ + 1, !.offsets = Append(@, g.offset)]
  ELSE NextRecord([g EXCEPT !.i = 0, !.cdOffset = g.offset])

(* The generator before its first segment. *)
archiveSegments(plans, comment) ==
  NextEntry([at |-> "header", i |-> 0, plans |-> plans, comment |-> comment, offset |-> 0,
             offsets |-> <<>>, cdOffset |-> 0, cdSize |-> 0, z64Pos |-> 0])

(* The local header.  Sizes that are known go into it, in the Zip64 form   *)
(* where they overflow; a stream entry has zeros, or sentinels and a zero  *)
(* Zip64 field if it opted in.                                             *)
LocalHeader(plan) ==
  LET known == IF isStream(plan) \/ plan.zip64
               THEN [compressed |-> plan.compressedSize, uncompressed |-> plan.uncompressedSize,
                     extra |-> <<>>]
               ELSE lfhZip64Fields(plan.uncompressedSize, plan.compressedSize)
      size(n) == IF plan.zip64 THEN SentinelU32 ELSE IF isStream(plan) THEN 0 ELSE n
      sizeExtra == IF plan.zip64 THEN <<buildZip64Extra(0, 0, Undefined)>> ELSE known.extra
  IN  writeLocalFileHeader([name |-> plan.name, bit3 |-> plan.bit3, encrypted |-> plan.encrypted,
        method |-> plan.method, crc |-> IF isStream(plan) THEN <<>> ELSE plan.crc,
        compressedSize |-> size(known.compressed),
        uncompressedSize |-> size(known.uncompressed), extra |-> sizeExtra \o plan.extra])

(* Mutant: an offset that overflows stays in its classic field. *)
CentralHeader_ClassicOffset(plan, offset) ==
  LET wide(n) == IF plan.zip64 \/ n > SentinelU32 - 1 THEN n ELSE Undefined
      usesZip64 == {wide(plan.uncompressedSize), wide(plan.compressedSize)} # {Undefined}
      extra == IF usesZip64 THEN <<buildZip64Extra(wide(plan.uncompressedSize),
                                                   wide(plan.compressedSize), Undefined)>>
               ELSE <<>>
      classic(n) == IF wide(n) = Undefined THEN n ELSE SentinelU32
  IN  writeCentralFileHeader([plan EXCEPT !.compressedSize = classic(@),
                                          !.uncompressedSize = classic(@),
                                          !.extra = extra \o @],
                             offset)

(* The directory record: each field that overflows goes to the Zip64 field *)
(* and leaves a sentinel; an entry that opted in always has both sizes     *)
(* there.                                                                  *)
CentralHeader(plan, offset) ==
  LET over(n) == IF n > SentinelU32 - 1 THEN n ELSE Undefined
      wide(n) == IF plan.zip64 THEN n ELSE over(n)
      usesZip64 == {wide(plan.uncompressedSize), wide(plan.compressedSize), over(offset)}
                     # {Undefined}
      extra == IF usesZip64 THEN <<buildZip64Extra(wide(plan.uncompressedSize),
                                                   wide(plan.compressedSize), over(offset))>>
               ELSE <<>>
      classic(n, resolved) == IF resolved = Undefined THEN n ELSE SentinelU32
  IN  writeCentralFileHeader(
        [plan EXCEPT !.compressedSize = classic(@, wide(@)),
                     !.uncompressedSize = classic(@, wide(@)),
                     !.extra = extra \o @],
        classic(offset, over(offset)))

Eocd(g) ==
  LET classic(n, sentinel) == IF n > sentinel - 1 THEN sentinel ELSE n
  IN  writeEocd(classic(Count(g), SentinelU16), classic(g.cdSize, SentinelU32),
                classic(g.cdOffset, SentinelU32), g.comment)

(* What is yielded: units, or a stream entry for the writer to expand. *)
Segment(g) ==
  CASE g.at = "header"  -> <<LocalHeader(g.plans[g.i])>>
    [] g.at = "payload" -> g.plans[g.i].payload
    [] g.at = "central" -> <<CentralHeader(g.plans[g.i], g.offsets[g.i])>>
    [] g.at = "zip64"   -> <<writeZip64Eocd(Count(g), g.cdSize, g.cdOffset)>>
    [] g.at = "locator" -> <<writeZip64Locator(g.z64Pos)>>
    [] g.at = "eocd"    -> Eocd(g)

(* Which object a segment is: a payload is the caller's own array and may  *)
(* be that of several entries, everything else is made for the occasion.   *)
Identity(g) ==
  IF g.at = "payload" THEN [kind |-> "payload", holds |-> g.plans[g.i].payload]
                      ELSE [kind |-> g.at, holds |-> g.i]

(* The plan marks the segment after which its entry is complete. *)
Marked(g) ==
  IF \/ g.at = "payload"
     \/ g.at = "header" /\ ~isStream(g.plans[g.i]) /\ g.plans[g.i].payload = <<>>
  THEN [g EXCEPT !.plans[g.i].emitted = Identity(g)]
  ELSE g

(* next(consumed): consumed is what the writer made of a stream entry. *)
Resumed(g, consumed) ==
  LET moved == [g EXCEPT !.offset = @ + (IF g.at = "entry" THEN consumed ELSE Length(Segment(g)))]
  IN  CASE g.at = "header" /\ isStream(g.plans[g.i]) -> [moved EXCEPT !.at = "entry"]
        [] g.at = "header" /\ g.plans[g.i].payload # <<>> -> [moved EXCEPT !.at = "payload"]
        [] g.at = "payload" -> NextEntry([moved EXCEPT !.plans[g.i].payload = <<>>])
        [] g.at = "central" -> NextRecord(moved)
        [] g.at = "zip64" -> [moved EXCEPT !.at = "locator"]
        [] g.at = "locator" -> [moved EXCEPT !.at = "eocd"]
        [] g.at = "eocd" -> [moved EXCEPT !.at = "done"]
        [] OTHER -> NextEntry(moved)

(* Drained into one archive; only for archives without stream entries. *)
assembleArchive(plans, comment) ==
  LET run[k \in 0 .. 3 * Len(plans) + 3] ==
        IF k = 0 THEN [g |-> archiveSegments(plans, comment), out |-> <<>>]
        ELSE LET before == run[k - 1]
             IN  IF before.g.at = "done" THEN before
                 ELSE [g |-> Resumed(before.g, 0), out |-> before.out \o Segment(before.g)]
  IN  run[3 * Len(plans) + 3].out

(* A stream entry of 4 GiB or more must have opted in to Zip64. *)
StreamSizesInRange(plan) ==
  plan.zip64 \/ ~(plan.uncompressedSize > SentinelU32 - 1 \/ plan.compressedSize > SentinelU32 - 1)
=============================================================================
