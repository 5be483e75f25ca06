# A TLA+ model of zipnative

zipnative is a ZIP library in TypeScript without dependencies: it writes, reads,
edits, iterates and verifies archives, buffered or streamed. This directory holds
TLA+ specifications of its core, the TLC configurations that check them on small
instances, and proofs that TLAPS checks for instances of every size.

| module | what it is |
| --- | --- |
| `NamedArchive` | what editing an archive promises: names, contents, a comment |
| `ZipModifier` | `parser/zip-modifier.ts`: the overlay, both saves, generations of one archive |
| `DeflatePool` | `worker/worker-pool.ts` over the workers of `worker/worker-adapter.ts` |
| `JobService` | what a pool promises whoever hands it jobs |
| `ParallelPlan` | `toBytes()` of `worker/index.ts` with `planArchiveAsync`, over a `JobService` |
| `Lists` | sums, concatenations, selection and sorting of sequences, as functions a proof can open |
| `EntryNames` | the names writers accept, the paths extraction makes of them, their order |
| `ZipRecords` | the records of a file, with their lengths and the width of their fields (`core/zip-structs.ts`, `core/zip-extra-fields.ts`) |
| `ArchiveSegments` | planning, and the generator of an archive's segments (`core/zip-segments.ts`) |
| `ArchiveReader` | the end of an archive and its directory (`parser/zip-eocd.ts`, `parser/zip-cd.ts`) |
| `ZipReader` | every way to read an entry in memory (`parser/zip-reader.ts`, `parser/zip-entry-checks.ts`) |
| `EntryCollector` | the builder's adding calls (`createSpecCollector` in `core/zip-builder.ts`) |
| `StreamWriter` | `createZip()` with its buffered and its streamed output (`core/zip-stream-writer.ts`) |
| `Iso21320` | the archive validator of `scripts/validate-zip.ts` |
| `RangeReader` | the reader over a byte-range source (`parser/zip-range-reader.ts`) |
| `Extraction` | extraction, verification, the determinism report, the canonical form |
| `ArchiveUse` | range reader and whole-archive operations, composed on one file |
| `ChunkCursor` | the buffer of the forward reader (`parser/zip-chunk-cursor.ts`) |
| `ForwardReader` | the forward reader (`parser/zip-iterate.ts`) |
| `HuffmanCodes` | code lengths, canonical codes and decoding tables |
| `DeflateEncoder` | the pure encoder (`codecs/deflate-pure.ts`) |
| `InflatePure` | the one-shot decoder (`codecs/inflate-pure.ts`) |
| `InflateStream` | the resumable decoder (`codecs/inflate-stream.ts`) |
| `Codec` | the facades and their tiers, over the encoder and both decoders (`codecs/deflate.ts`, `codecs/inflate.ts`) |
| `MCZipModifier` `MCStreamWriter` `MCArchiveUse` `MCForwardReader` `MCCodec` | the small instances |
| `ListsProofs` `RecordProofs` | lemmas: sequences; records, planning, the generator, the reader |
| `ZipModifierProofs` `DeflatePoolProofs` `ParallelPlanProofs` `StreamWriterProofs` `ArchiveUseProofs` `ForwardReaderProofs` | the theorems |

Which module stands on which: `Lists` under `EntryNames`, `ZipRecords`, under it
`ArchiveSegments` (writing) and `ArchiveReader`, then `ZipReader` (reading).
`EntryCollector` takes both, because `addFromReader()` reads; `StreamWriter` extends it
and the validator. `RangeReader` and `ChunkCursor` extend `ZipReader`; `ArchiveUse`
composes the first with `Extraction`, `ForwardReader` stands on the second.
`Codec` extends `InflateStream`, and through it the encoder and the one-shot decoder.

Paths below are relative to `src/src/`.

## The system

| part | state it keeps | operations | what is hard |
| --- | --- | --- | --- |
| Incremental modifier (`parser/zip-modifier.ts`) | the source index, the overlay of pending edits, a pending comment | `addEntry` `replaceEntry` `removeEntry` `renameEntry` `setComment` `save` `saveCompact` | chains of edits on the same names; offsets relative to a recovered base; records copied verbatim through generations; payloads that cannot be copied |
| Deflate pool (`worker/worker-pool.ts`, `worker-adapter.ts`, `zip-worker.ts`, `worker-protocol.ts`) | slots with a job in flight, a queue, a timer per job, `closed` | `createDeflatePool` `deflate` `close`, and the callbacks message, error, timeout | late, lost and crossing messages; deaths reported or not; close at any time |
| Parallel building (`worker/index.ts`) | the entry collector, one pool per plan, a progress tracker | `toBytes` `stream` and the adds | awaits between reading the entries and using them; abort against pool creation; failure of one job among many |
| Archive builder (`core/zip-builder.ts`, `core/zip-source.ts`) | entries, reserved names, whether a streamed entry was added | `add` `addDirectory` `addStream` `addRaw` `addFromReader` `setComment` `toBytes` `stream` | what an `add` that throws leaves behind; order; sources that can be read once |
| Planning and emission (`core/zip-segments.ts`, `zip-structs.ts`, `zip-extra-fields.ts`) | the running offset, the offset of each entry, payloads not yet freed | `planArchive` `planArchiveAsync` `archiveSegments` `assembleArchive` | offsets and Zip64 sentinels at their boundaries; a context drains once |
| Streaming writer (`core/zip-stream-writer.ts`, `core/zip-control.ts`) | the segment generator, a coalescing buffer, the index of the current entry | pull, cancel, abort | entry sources that fail, stall or outlive the consumer; matching payloads to entries |
| Forward iterator (`parser/zip-iterate.ts`, `zip-chunk-cursor.ts`) | the cursor over the source's chunks, the state of the entry handed out last | next, `data`, `skip`, close | an entry must be consumed once before the next header; three parties can fail in the decompressor pump |
| Range reader (`parser/zip-range-reader.ts`) | the cached tail, the directory | `openZipRange`, entry reads | short reads, reads that straddle the cache, abort between ranges |
| Archive reader (`parser/zip-reader.ts`, `zip-eocd.ts`, `zip-cd.ts`, `zip-entry-checks.ts`) | the located directory, entries, a count of produced bytes | `openZip`, entry reads | ambiguous end records, the Zip64 cross-check, local against central headers |
| Extraction, verification (`parser/zip-extract.ts`, `zip-verify.ts`) | the paths seen so far, the report | `extractAll`, `verifyArchive` | the order of checks, and what one bad entry does to the others |
| Determinism, canonical form (`parser/zip-determinism.ts`, `zip-canonical.ts`) | none | checks, `canonicalizeZip` | agreeing with what the writer emits |
| Codecs (`codecs/`) | the registry, the tier in use, decoder state | register, inflate, deflate, initialise | initialisation awaited by several callers; chunk boundaries in the streaming decoder |
| Names, attributes, times (`core/zip-encoding.ts`, `zip-attributes.ts`, `zip-dos-time.ts`), limits, errors, types, `index.ts` | none | pure functions, constants, re-exports | boundaries of the DOS clock |

How they meet: the builder collects entries and hands them to planning; the
parallel builder does the same with the pool as compressor; planning hands a
context to emission, which the buffered or the streaming writer drains. The
modifier opens an archive through the reader, plans its writes with the builder's
planner, and lays a compacted archive out with the emitter. The reader, the range
reader and the iterator share the header parsers, the checks and the codecs.

Everything runs on one thread of JavaScript: a callback runs to completion, and
interleaving happens at awaits, at timers and between the main thread and the
workers. Apart from the workers there is no concurrency, and nothing is persisted:
a crash loses a session and no file.

`PROJECT.json` lists the hazards of all parts at the lines where they bite, with the
properties that would catch each going wrong.

## The modifier

**State.** `file` is the archive the session wraps (`reader.bytes` and what
`locateEocd` and the directory walk make of it), `edits` the overlay,
`pendingComment` the comment set in this session. A file is a function from
positions to units: one unit stands for a local entry (header and payload), one
for a prepended block, one for a central directory with its trailer. Its directory
`cd` maps a name to the offset *stored* for it; `Base` is recovered as the code
recovers it, from where the directory was found and where it says it is, and
`HeaderAt` adds it. A name is a path and whether it ends in a slash; `Key` is the
byte order `compareNames` gives such names. Contents are tokens: no bytes, an
entry that is a directory by its DOS attribute, payloads that `readEntryRaw`
refuses (`Damaged`), and others.

**Actions.** One per operation; a call that throws changes nothing and is no step.

| action | code |
| --- | --- |
| `AddEntry` `ReplaceEntry` | 472–498, with `validateEntryName` and the data-under-a-slash check that only `addEntry` has |
| `RemoveEntry`, `Gone` | 500–511: a removal is recorded only for a name the source has |
| `RenameEntry`, `fromIsDirectory`, `finalTo`, `Moved` | 513–540 |
| `SetComment` | 542–546 |
| `SaveUnchanged` | 550–554: the very bytes are returned |
| `Save`, `saved` | 556–680: appended zone in name order, survivors' records verbatim, trailer |
| `SaveCompact`, `compacted` | 683–712, with and without `canonical` (which drops the comment of the source unless asked to keep it) |

A save leaves the session alone; the model lets the caller open the output with the
next modifier at once (`NewSession`), which is the only step after a save that
shows anything new. That a save can be repeated on the same session is the fact
that `saved` and `compacted` are functions of the state: `SavesAgree` checks both
in every state, not only when a save is taken. Deduplication by
`createZipModifier` (it refuses archives with duplicate names) is in the type of
`cd`. The abort signal is read once on entry of each save and only makes it throw. So does a
payload that cannot be copied: no save assigns to the overlay or the comment anywhere.

**What is claimed.**

- `HeadersAgree`: each directory record, however many generations it was copied
  through, leads to a local header of its own name.
- `OverlayCoherent`: no entry is kept twice, by two copies or by a copy and a
  survivor, and only names of the source are marked removed.
- `SavesAgree`: what either save writes opens again under the entry limit, though edits may
  have passed it meanwhile, and reads back as what the session shows.
- `SaveAppends`, `CompactErases`: `save` keeps its input as a prefix and the base
  where it was; `saveCompact` leaves no unit that is not a live entry.
- `ImplementsArchive`: under the mapping `View`, every edit is the edit of
  `NamedArchive` and every save a stutter, except that a canonical save may drop
  the comment. `NamedArchive!Rename` allows an entry to lose its bytes only under
  the name of a directory: that is the code's behaviour, and the subject of the
  first finding.

**Findings.** Two runs are meant to fail.

- `modifier_slash`: `replaceEntry('d/', data)` is accepted, as is renaming a
  pending write to a name with a slash; the data is dropped at the save
  (line 301). `addEntry` refuses the same input.
- `modifier_rename`: after a removal of a directory entry `b` (a directory by its
  DOS attribute, without a slash), a file renamed to `b` and then to `c` arrives
  as `c/`, because line 521 looks the name up in the source.

## The pool

**State.** `phase` and `handshake` are the awaits of `createDeflatePool` and
`spawnWorker`; `live`, `current`, `queue`, `timers` are the slots' `dead` and
`current`, the queue and the timeouts armed; `outcome` is each job's promise.
Between callbacks things are under way: `requests` posted and not answered, `mail`
posted back and not delivered, `failed` workers, and `reports` of deaths not yet
delivered. Job ids are `nextId`: they number the submissions in order.

**Actions.** `Handshake` and `Open` (spawning; a worker that is not ready in time
is dropped), `Submit` (`deflate`, 152–173), `Message`, `DeathReported` and
`TimeOut` (the callbacks of 110 and 130–147), `Close` (175–182), and the workers'
`WorkerAnswers` and `WorkerDies`. `settleOnMainThread`, `retire`, `dispatch` are
operators over what their caller has already done, since in the code they run inside
the same callback: `retire` may run inside `dispatch` (a `post` that throws) inside
`pump` inside the answer of another job. A worker promises nothing: it may answer
after it was retired, not answer, or die unreported, which the code allows by
listening for exit codes other than 0 only (`worker-adapter.ts` 93–95) and by
installing the pool's handlers after every handshake is done.

**What is claimed.** `Accounted` (a pending job is in one slot or one place of the
queue), `QueueIsServed` (while jobs wait, a slot lives and every live slot is busy),
`InFlightIsTimed` (exactly the jobs in flight have a timer), `AnswersMatch` (a live
worker owes one answer, to the job in flight, so that only retired workers' answers
are dropped), `QueueIsTail` (first come, first served), `ClosedIsSettled`,
`SettledForGood` (no late event changes a settled job) and `JobsSettle` (every job
settles). `ImplementsService`: with `outcome` and `phase = "closed"` as the only things
seen, the pool is a `JobService`: each callback submits a job, settles some that were
pending, closes, or shows nothing.

**Fairness.** `JobsSettle` assumes weak fairness of the job timeouts of each slot and
nothing else: `jobTimeout` is finite and the event loop serves timers that have
expired. In particular nothing is assumed of workers, of reports, or of the caller
ever calling `close`. A timer of a live job is disabled only by the job's settling.

## Parallel planning

**State.** `specs`, `streaming`, `order` are the collector's entries (by what they ask
of the planner: `Kinds`), its `hasStreamEntries` and its order; `phase` is the await
`toBytes()` is at; `held` is the array as it was when `planParallel` asked for it, and
`orderedSpecs` what planning refers to from then on, which under `'insertion'` is the
collector's own array. `pool`, `outcome` are the job service; `mapped`, `ended`,
`broken` stand for the promises `planArchiveAsync` waits for; `total` and `done` are
the tracker's.

**Actions.** Between awaits nothing intervenes, so an action is what runs from one
await to the next.

| action | code |
| --- | --- |
| `ToBytes` | 191–199: refuses streamed entries, counts the entries |
| `TakeSpecs` | 124–137: behind `initNodeDeflate()`; the entries are taken, the signal read |
| `Spawn`, `Spawned`, `BeginAlone` | 138–164: with a pool (which may come up without workers), or without; the listener, the guards of `planArchiveAsync`, and all deflate callbacks up to their own await |
| `Resume` | 158–163: a callback behind its `pool.deflate()` |
| `JobsFail`, `Finish` | `Promise.all` (`core/zip-segments.ts` 338) rejects with the first that threw, or resolves and every entry of the array is planned; both run the `finally` (`Release`) |
| `Return` | `toBytes()` settles for its caller, `ZIP_INTERNAL` if a streamed entry got in |
| `Add`, `AddStreamFails`, `Abort` | the caller, at any moment |

`Return` waits for the callbacks that closing the pool resumes: their reactions are
queued before the rejection has passed the two async functions above it, and promise
reactions run in the order they are queued. Entries are added in the byte order of
their names, so that both orders emit the same sequence and only the sharing of the
array tells them apart. `Poisoned` entries are those whose compression on the main
thread throws.

**What is claimed.** `NothingLeft`: once `toBytes()` is past its `finally`, however it
got there, no pool is open, no job pending, no listener registered.
`CanonicalIsSequential`: under canonical order the plan is the sequential planner's for
entries it accepts. `SilentAfterwards`: no progress is reported to a caller who has the
result. `ToBytesReturns`: the call ends if its jobs settle, which `JobsSettle` has of the
pool, and after an abort even if they would not.

**Fairness.** Weak fairness of `Advance`, the steps that the event loop runs sooner or
later (promise reactions, and handshakes that have a timeout of their own); none for
the pool's answers or the caller.

**Finding.** `parallel_insertion` is meant to fail: under `'insertion'` an entry added
while the jobs run is planned without a check and stored although it asks for deflate.

## Files and records

The readers and writers share one picture of a file. `ZipRecords` makes it a sequence
of *units*: local header, payload piece, descriptor, central header, Zip64 end record,
its locator, end record, and junk. A unit has the fields that somebody reads back and a
length; a position in a file is a sum of lengths, so offsets, sizes and "does not fit"
are those of the code. The header lengths are the real ones (30, 46, 22, 12, 20, 56 ...).
What is scaled down are the limits of the fields: `SentinelU32`, `SentinelU16` for
0xFFFFFFFF and 0xFFFF, `MaxBlock` for the largest extra block; a field keeps its width,
so a value that does not fit wraps as it does in `DataView`. A content is a sequence of
chunks, its CRC is that sequence: equal contents and equal checksums are one thing, and
collisions are not modelled. A payload piece has a compressed length and knows of which
content it is a part and whether it is its last.

`EntryNames` has a name as a sequence of segments: what `validateEntryName` refuses
(`core/zip-encoding.ts`), the byte order, and the path `sanitizeEntryPath` makes of it,
with the reserved device names and stream segments as constants. `ArchiveSegments` has
planning (which method, which size, which of the limits is hit first) and `archiveSegments`
as a generator that returns one segment per step, with its running offset, its choice of
Zip64 per header, and the payloads it frees; `assembleArchive` drains it at once.

## The builder and the streaming writer

**State.** `EntryCollector` has `specs`, `names` (reserved), `streaming`, `comment`, and
the number of `calls` made (a bound). `StreamWriter` adds `built` (what `toBytes()` gave),
`writer` (the async generator of `stream()`: where it waits, its segment generator, the
re-chunker's fill, the counters of the tracker), `pump` and `cs` (`writeAll` beside a
`CompressionStream`), `sources` (what each stream entry still delivers, and whether a
`next()` or `return()` on it is pending) and `aborted`.

**Actions.** Building: one step per call, from a set of calls (`Calls`) in any order and
with repetitions; a call that throws keeps what it had done before, in the code's order of
checks: `add` reserves a name before it plans, `addStream` marks the archive before it
reserves; `addFromReader` is given what `openZip` returned, so it has a reader only of a file
that opens. `ToBytes` and `Stream` end the building: a builder that is changed while its
generator runs is outside the model (for the parallel writer, where awaits make it a
question, it is `ParallelPlan`'s). Then the consumer's `Pull`, `Return` and `Abort`, the
source's answers and failures, the generator's own steps of one segment, piece or chunk
(`WriterStep`), the pump's and the compressor's. A stream entry is expanded in the three
ways of `compressStreamEntry`: stored, by a `CompressionStream` beside the generator, or in
one piece when the platform has none or the entry is to be deterministic.

**Claims.** `ReadsBack`: what the writers finish, the package's reader opens, and finds the
entries that were added, in the order asked for, with their contents. `Conforms`: the
validator finds no fault in it. `ProgressIsExact`: an entry counts as done from when its
last byte was pushed. `SourcesReleased`: an ended generator leaves no source open and no
call to one pending. `NoChunkAfterAbort`: no full chunk leaves after the signal is up.
`Settles`: each pull and each return is answered, and the pump ends with its output.

`Iso21320` is the validator of `scripts/validate-zip.ts`. It walks the file on its own and
has in common with the reader only the format operators of `ZipRecords`. It has one Zip64
field per header and descriptors with a signature (those of the writers); versions,
character sets and the volume label are left out.

**Fairness.** Weak fairness of `Running`: the event loop takes up generator and pump, the
platform's stream compresses, a source answers. Nobody has to pull, return or abort. A
source that never answers would hang `stream()` in the code as well, by design.

**Finding.** `writer_extra` is meant to fail: `checkSpec` measures the caller's extra fields,
the Zip64 field is put in front of them later, and the length of both may not fit.

## Reading

`ArchiveReader` is `locateEocd` with its backward search, the Zip64 record behind its
locator and the check of the one against the other, the recovered base, and the walk of
the directory. `ZipReader` is what `openZip()` makes of them: limits, codecs, local
against central header (`crossChecked`), extents, `readEntry`, `readEntryRaw`,
`readEntryStream`, `verifyEntry`, strict mode. Both are operators on a file, as nothing in
them awaits.

`RangeReader` is the same over a source of byte ranges, from read to read: opening (the
tail, the directory when the tail does not hold it, all local headers when `validate` is
`'eager'`), then one operation on one entry per behaviour, whose reads go through the
cached tail, prefetch a local header and may need a second read for its names and extra
fields. Every read may be answered, answered short, or fail, and the signal may go up
between them. One operation at a time is enough: they write nothing they share.

`Extraction` has `planExtraction` (policies, duplicates, the budget), `extractZip`,
`verifyZip`, `analyzeDeterminism` and the canonical copy; `ArchiveUse` composes both on one
file and has the generator of `extractZipStream()` whose consumer may read a stream to its
end, abandon it or not begin it.

**Claims.** `SameAsInMemory`: a file served in ranges is what it is in memory, entry by
entry and call by call; faults and aborts only turn answers into refusals. Each exception is
spelled out:

- The range reader has bounds of its own (`WithinBounds`), and refuses by design an archive
  whose Zip64 record lies in front of its tail (`OutOfTail`). One that is away from its
  locator but in the tail is read, although line 23 of `parser/zip-range-reader.ts` says
  that record has to be next to its locator.
- **Bytes behind a deflate stream** (`Surplus`). The header of `parser/zip-range-reader.ts` says
  the two readers cannot disagree on what is safe; here they do. The stream in
  memory goes through a `DecompressionStream` (line 191 of `codecs/inflate.ts`), which refuses
  them. The range reader pushes every piece into its decoder (335), which throws
  `ZIP_API_MISUSE` on a push after the stream has finished (line 369 of
  `codecs/inflate-stream.ts`): the entry is read if the deflate stream ends in its last piece,
  and refused if a piece starts behind it, by how `STREAM_CHUNK` happens to cut. `readEntry()`
  reads it either way, and so does the forward reader's path that pushes, which drains what comes behind
  (line 576 of `parser/zip-iterate.ts`). The property states that answer of the range reader
  exactly (`AnsweredByPieces`), refusal and content. With the in-memory
  reader's answer in its place (`ExpectedFor` alone) the property fails, in the files `SurplusBehind` with
  65 of 71 bytes; without the refusal it fails in those with 15 and 60.

`PayloadsDisjoint`: no
two readable entries share a byte. `ExtractionIsSafe`: paths are different, below the root,
within the budget, what `verifyZip` passes can be extracted but for policies, and who has read every
stream of `extractZipStream()` has what `extractZip()` returns, unless a codec decodes streams only.
`CanonicalIsFixed`: the canonical form passes `analyzeDeterminism`, is a fixed point, does
not depend on a prefix and keeps each payload. An archive with an encrypted entry that keeps
its extra fields is exempt from the first: `docs/guides/determinism.md` (65) makes that exception, the
header of `parser/zip-canonical.ts` (7-10) promises `deterministic: true` without one. An
archive whose Zip64 record is away from its locator is refused once bytes are in front of it
(`Prefixed`), since the locator's offset is stale then (`zip-eocd.ts` 137-149).
`OperationsSettle`.

Conventions: the in-memory `readEntryStream()` is modelled with a `DecompressionStream`, as every
current runtime has one; without it, or with an injected decoder, it decodes at once and ignores
surplus bytes like `readEntry()`. Corrupt bytes are noticed when the payload has ended, in the
code as soon as the decoder comes to them. A codec that has `createDecompressor` and no
`decompressStream` would stream in ranges only, by its own declaration; the instance has none.

**Fairness.** `[]<>(op.at \notin Points) \/ []<><<Going>>_vars`, weak fairness of the steps of
an operation written out: the source answers in the end, one way or another. Without it no
caller of the code could expect an answer either.

## The forward reader

`ChunkCursor` is the buffer over an async source: what it holds (as ranges of the stream),
what was put back by `unread`, how much was read. `ForwardReader` has the three parties
that run at their own awaits: `walk` (the generator of entries: next header, implicit skip,
trailer), `data` (the generator of an entry's content in each of its modes, or its
`skip()`), and `pump` (`writeAll` into a `DecompressionStream`), over `src`, which answers in
pieces of the sizes in `Pieces`, ends early or fails.

Conventions: a `data()` that is refused is no step. Entry operations happen while their
entry is current. All output of one `push()` is one yield. The bytes of a stored payload
are told apart only as a whole. The two codes a bad descriptor can give are one. On the
path with a descriptor nobody looks at the signal, in the model as in the code.

**Claims.** `TypeOK` says more than types: what the cursor holds is the bytes next in line,
whichever way they came and were put back. `FindsEveryEntry`: in an archive a writer
emitted (without stream entries that are stored, which line 211 refuses by design) the walk finds the entries of the directory it never sees, whatever was read,
skipped or left (`WalkFinds`), and what `data()` hands out is a prefix of the content, in the end
all of it (`ContentArrives`). In any of the files a descriptor is taken whole
(`DescriptorTakenWhole`), and a walk that has ended has let go of its source (`SourceLetGo`).
`ContentIsExact`, of any file: `data()` takes its own payload from its first byte, without a
gap and not past the length the header gives, and ends well only with the content that the header,
or a descriptor somewhere in the stream, vouches for. That it is the entry's *own* descriptor can
be said of an archive only, and is part of `ContentArrives`.
`Settles`: no `next()` or `skip()` stays pending, even when what it waits for fails in the
pump; a walk that is left ends.

**Fairness.** `[]<>~CanRun \/ []<><<Running>>_vars`: weak fairness of `Running`, with the
guards written out. The consumer need not come back.

## The codecs

The algorithms are modelled on a scaled-down DEFLATE: bytes of 2 bits, codes of at most
4 bits (3 for the code-length code), 4 match lengths up to 9, 3 distances up to 8, a window
of 8, blocks of at most 24 symbols. The tables, and so the format, are constants; the
algorithms over them are the code's.

- `HuffmanCodes`: `buildCodeLengths` with the repair of lengths past the limit, canonical
  codes, and the decoding table with its over- and under-subscription checks.
- `DeflateEncoder`: the hash chains in a ring whose slots are reused without being cleared,
  lazy matching, the choice between stored, fixed and dynamic blocks, run-length coded
  lengths, and the bits.
- `InflatePure`: the one-shot decoder. `InflateStream`: the generator decoder, suspended
  between any two reads of bits, with its window, what it keeps of it (`KEEP`), `push()`,
  the bytes it gives back and its consumed count.
- `Codec`: the tiers of `deflate.ts` and `inflate.ts` (injected, node by probe or import,
  platform stream, pure) and the choice each call makes, then a stream of bits decoded at
  once or pushed in pieces, as it is, with other bytes behind it, damaged, or bounded too
  tightly. A foreign compressor is represented by the pure encoder at any of the levels,
  a foreign decoder by the one-shot decoder.

**Claim.** `RoundTrip == FacadeIsExact /\ StreamIsExact`: what was compressed comes back by
whichever tier; a deterministic stream is the pure encoder's; and the resumable decoder
agrees with the one-shot decoder on *any* bytes, ends where it ends and gives back every
byte it did not need, however the bytes come in pieces.

Bounds of the composition: one stream is compressed per behaviour; only the contents in
`Few` are compressed in every state of the tiers; the resumable decoder, which does not
look at the tiers, starts from the initial ones; one `initNodeZipCodecs()` runs at a time.
The ring has as many hash heads as window slots (`HASH_SIZE = WSIZE`); the guards of
`deflateRawJS` on its level and its input's size are left out.

## Runs

| run | instance | what it shows |
| --- | --- | --- |
| `modifier_generations` | two paths with and without slash, one of them refused by the writer but allowed in a source; damaged payloads; two comments; an optional prefix; at most 3 entries; saves from files of at most 4 units | types, offsets, saves and their bytes, over generations |
| `modifier_edits` | both paths writable; no appended generations (`MaxSize = 0`), compaction still reopens | every chain of edits refines `NamedArchive` |
| `modifier_slash`, `modifier_rename` | as `modifier_edits` (the second with DOS directories in the source) | the first two findings |
| `pool` | 2 workers, 5 jobs of which job 2 fails on the main thread | all of the pool's properties |
| `parallel` | both orders, up to 4 entries of each kind, at most 3 accepted, entry 2 fails on the main thread | all of the parallel plan's properties but the next |
| `parallel_insertion` | the same, insertion order only | the third finding |
| `writer` | up to 2 adding calls out of ten kinds, some refused; sentinels 100 and 2; chunks of 64; two sources of two chunks (28,618 states) | the seven properties of the writers |
| `writer_extra` | one stream entry with extra fields, opted into Zip64 or not; a block of at most 24 | the fourth finding |
| `reader` | 56 files: written, behind a prefix, truncated, with one record altered, cut or moved, with bytes behind a deflate stream or a Zip64 record; sentinels 160 and 3; prefetch 10, pieces of 20 (85,704 states) | the six properties of reading |
| `forward` | 27 streams: written with and without stream entries, cut, altered, with bare descriptors; pieces of 26 or 80 bytes (89,511 states) | the four properties of the forward reader |
| `codec` | every content of up to 4 two-valued bytes, and seven of 18 to 90 bytes; levels 0 to 2; pieces of 1, 3 and 20 bytes; every single bit of three streams flipped (220,312 states) | `RoundTrip` |

Why these bounds are enough to be of interest: with 4 names (2 paths, slash or not) an
edit chain can shadow, swap, remove and re-add names and meet a directory's slash;
`MaxEntries = 3` lets the merged directory exceed the limit and come back; a file of
4 units can be appended to after it already holds dead units of an earlier append,
behind a prefix, so that verbatim records, dead bytes and a base meet in one file. Two
workers and five jobs let two jobs be in flight and two wait while a fifth comes
later, one slot die and the other take over, and the last slot die with a queue.
Four entries with a limit of three let two jobs run in a pool while a small entry is
compressed inline and another is added late, and let the late one exceed the limit.

In `writer` a content of 105 passes the sentinel by itself, one of 70 makes the offset of the
next record or of the directory pass it, and two entries reach the count's: each of the
four switches to Zip64 happens alone and with others. Sources of 5 and of 105 bytes give
entries within one chunk, across chunks, and descriptors of both widths with and without
the opt-in. In `reader` the tail is long enough for short files and too short for long ones,
so entries are read from the cache, past it and across its edge; a local header with 20
bytes of extra fields needs the second read, one without does not; content of 75 in pieces
of 20 is yielded several times; a deflate stream ends inside a piece, with a piece or inside the
last one when bytes are behind it. The files alter each field that a check reads at least
once. In `forward` the pieces cut every header and descriptor somewhere: 26 ends inside a
local header of 30 and a name, 80 holds several records. In `codec` the long contents need
dynamic blocks, several blocks, a window that slides, matches at the longest distance and
codes past the limit; the short ones are exhaustive.

`MaxSize` bounds when an append may start and `MaxPrefix`, `Originals`, `JobCount`,
`MaxSpecs`, `MaxCalls` the initial states and the calls; `MaxEntries` and `Limits` are the
code's limits. `CHECK_DEADLOCK FALSE`: a pool whose jobs are all settled and whose workers
are silent has no step left, a session may be at its bounds, and a call of `toBytes()`, an
output, an operation, a walk or a decoded stream is over at some time.

## Proofs

All proofs are checked by TLAPS without assumptions besides the constants', which TLC evaluates
on every run: any set of names, contents and comments, any limit, any number of generations;
any number of workers, jobs and added entries; any calls of a builder, any sources; any file a
reader may be given, any stream and any cut of it into pieces.
`ModifierAssumption`, `PoolAssumption`, `PlanAssumption` and, for the records and what is built
on them, `NamesAssumption` (names are sequences of segments), `SentinelAssumption`,
`LimitsAssumption` (sentinels are numbers, limits positive ones), `ReaderAssumption`,
`CallsAssumption` (what a caller passes has the type the API declares, an archive to copy from is a
sequence of units), `WriterAssumption` (a chunk is not empty, a source is a sequence of chunks),
`RangeAssumption` (a served file is a sequence of units, a streamed piece is not empty) and
`ForwardAssumption` (a stream carries a sequence of units, a piece has a length): they say
what a constant is and bound none of them.

**Modifier.** `IInv == TypeOK /\ HeadersAgree /\ OverlayCoherent` is inductive. Types
alone are not: a raw copy has a content only if its source entry has a header to read
it from. The argument: `Positions` shows that the appended entries occupy consecutive
positions, one each (the number of names before a name is an injection into as many
positions, hence a bijection);
`Written` says what a written file holds where, `WrittenTyped` and `WrittenAgrees` that
it is well formed and its records resolve, for any sorted entries appended to any old
bytes. Both saves are instances of `WriteFile` (`SavedReads`, `CompactReads`). The edits
leave the file alone (`FileKept`) and keep the overlay coherent one by one
(`WriteKeeps`, `RemoveKeeps`, `RenameKeeps`). `SavesAgree` (with `EntriesAreLive`: a file
that reads as the session shows has as many entries as are live), `SaveAppends`,
`CompactErases` follow from the same lemmas, and `ModifierImplementsArchive` maps each
edit to its abstract edit (`AddRefines` ... `RenameRefines`, `SaveStutters`).

**Pool.** The inductive invariant is `Typed /\ Coherent /\ QueueIsServed /\ AnswersMatch
/\ OneAnswer /\ PhaseOK`; `Coherent` states `Accounted`, `InFlightIsTimed` and the
order of the queue in one form that settling, dispatching and queueing preserve
(`SettleInFlight`, `SettleQueue`, `DispatchNext`, `Enqueue`), from which each callback
is composed as in the code. `OneAnswer` (no two requests to one live worker) is what
`AnswersMatch` needs when a slot takes its next job. `PoolImplementsService` follows
the same steps: a callback settles only jobs that are pending (`SettlingRefines`), a
submission settles no job but its own because the queue is empty whenever a slot is idle
(`QueueIsServed`), and `close` settles exactly what is pending (`CloseRefines`).

**Parallel plan.** The inductive invariant says how long things live: before the jobs start
there is no pool, no job and no verdict (`NothingYet`); a pool is open, and the signal
listened to, only while the jobs run, and without an open pool nothing is pending
(`PoolLife`); in canonical order what the jobs were made of is what was checked
(`Checked`); and a call that has settled has no callback left to resume (`Quiet`).
`NothingLeft` is `PoolLife` at the end, `CanonicalIsSequential` follows from `Checked` when
the jobs are done, since the array it speaks of is a copy. `SilentAfterwards` is the action
property: of all steps only `Resume` reports progress behind the end, and `Quiet` excludes
it. `Released` and `Submitted` are the two lemmas about the pool's steps.

**Streaming writer.** The inductive invariant is in two layers.

`Typed /\ Control` (`Inductive`) is the form of every variable and who can be where. `Typed` is
more than the fields' types: the plans are those of added entries, the generator's index is
inside them and, in the state `entry`, at one with a source (`InRange`). `Control` says that
the writer is at a wait for a source, a compressor or a pump only inside such an entry, and
with an outcome only when it is closing or has ended (`Positions`); that no source is at work
but the one of the entry being written (`OthersQuiet`), and that one in the way the writer's
place asks for (`SourceFits`); that the pump waits for that source and no other (`PumpFits`);
that a `CompressionStream` is open only while the writer reads from it, and closes after its pump
(`StreamFits`). The types alone are not inductive: that `Join` finds a source which needs
no `return()` any more depends on `pump` and `cs`. `SourcesReleased` is `OthersQuiet` in an ended
writer (`Releases`).

`Accounts` (`AccountsTally`), preserved by steps from and to such states, is the bookkeeping.
`Chunked`: what was pushed is what was handed on plus what the buffer and the segment being
pushed still hold, and the buffer never holds a full chunk between two pushes. `Counting`: the
entries counted are those in front of the generator; the bytes counted are theirs, and
inside an entry those of its source so far; a plan names a segment as its last one only from when
that segment is pushed (`Marking`), which is why `Matched` counts each entry once; and where an
entry is complete, the sizes its descriptor will give are those of what was read (`Complete`).
`TypesHold` and `ProgressTold` follow. `AbortStopsChunks` is the action property: a step
that hands a full chunk on has just looked at the signal, and the tail is less than a chunk.

**Reading an archive.** The three theorems hold for *any* sequence of units as the file: nothing is
assumed of what the directory, the local headers or the end records say.

`PayloadsApart` needs no history: it is about what `openZip` makes of the file. `OpenedTyped` (a
reader that opens has its layout and its entries well formed) gives `ReaderFits`; a readable entry
passed `checkExtent`, so it ends in front of each header that starts behind its own, and of the
directory (`ReadableLies`). That alone would let two entries share a start; the count of different
starts excludes it (`StartsApart`: were two starts equal, the starts would be the image of one entry
fewer, a surjection that is too small). Of two entries the one whose header is in front ends in front
of the other (`ReadsLieApart`).

`ReadingTyped` and `ExtractedSafely` follow from `IInv` (`ReadingInvariant`), checked by TLC on the
instance of `reader` as well. Its part for the range reader, `RangeFits`, says for each phase of an
operation what it has: a window that lies in the file, an entry that is one of the reader's in the
phases of an entry, a layout when the directory is due; an operation that waits counts as in the phase
the answer takes it to (`Phase`), which is what makes `SourceAnswers` keep it. What has been fed
to a decoder reaches from the start of the payload to the end of the last piece, a window of the file
(`OnPieceFits`). Each read is bounded by the one operator all of them go through
(`ReadRangeFits`).

Its part for the generator, `Advanced /\ Faithful`, says that the plan is the one `planExtraction`
makes of the reader's entries, that no more items are done than have been passed (`Passed`; an item
abandoned or never begun is passed without being done), and that as long as each of them was read,
`done` holds, item by item, what the entries' streams give. `PlanExtractionWell` is about that plan,
for any entries and any options: safe paths (`SanitizedIsSafe`), all different, with their sizes within
the budget, under replacement by `onDuplicate: 'last'` as well (`PlanAppended`, `PlanReplaced`).
`StreamedIsExtracted` compares the streams with `extractZip()`, which decodes at once: a `stream`
decoder that succeeds has the same result as the `sync` one (`StreamIsRead`), so that an extraction of
streams that has read everything is `extractZip()`'s, or `extractZip()` has no codec for an entry.
`VerifiedExtracts` goes from `verifyZip()`'s verdict on each entry to the extraction of the plan, whatever
its policies leave in it.

**Forward reader.** The theorems hold for any stream, cut into any pieces, for any calls of
the consumer: `ForwardTyped`, `ContentExact`, and of `FindsEveryEntry` the part that needs no archive at
the other end, `SourceReleased`. They follow from `IInv` (`ForwardInvariant`). Three parties
read from one cursor, and neither the types nor the claims are inductive without saying
who may do so when:

- `Filled`: what the cursor holds are pieces that follow one another, from the byte it has come to
  (`bytesRead`) to the byte the source has come to (`src.at`). It is kept by each operation, for every split:
  a piece that comes in, a piece cut in two, bytes looked at, handed out or put back (`FirstIsChain`,
  `BehindIsChain`, `UnreadFills`).
- `DoneWell`: while the walk reads, the entry before is done with. Either its `data()` or
  `skip()` has ended and no pump runs beside it, or it has no bytes to read.
- `PayloadWell`: what was taken of a payload starts at its first byte, has no gap and stays
  within the length in the header; and until the entry is done with, the cursor stands where
  that ends, but for a payload that has a descriptor behind it and has come to it
  (`Behindhand`). The last clause is what lets the next `take()` continue without a gap, after
  surplus bytes have been put back as well.
- `OutWell`: what a `store` or `push` has handed out is what it has taken, decoded; at the end of
  the payload the checks make of that what the header vouches for (`EndOfPayload`). With a descriptor
  it is the descriptor that matched, and what matched was cut from the file as it stands
  (`MatchedDescriptor`, `SliceIsCut`), so it is one of the stream's units. `EndWell` keeps either.
- `WalkWell`, `DataWell`: a header is parsed where one has been seen, the budget holds, and each
  kind of `data()` is at one of its own places. `SourceWell`: a walk that ends without having
  called `return()` on its source, or found it at fault, never touched it.

There is one lemma for each action. `IInv` was checked by TLC on the instance of `forward` before it was proved.

What stands below: `ListsProofs` has, for the recursive functions of `Lists` and of `Folds`, that
they exist and satisfy their equations, and from that what sums and concatenations do under
`Append`, `\o`, `SubSeq` and the change of one element. `RecordProofs` has the types of what
planning makes of an entry, what a step of the segment generator keeps (`Well`, `InRange`), and the types
of what the reader makes of any file (`OpenedTyped`, `PayloadTyped`), on which the copy of
an entry out of an archive depends (`Transplanted`), and which units a slice of a file is made of
(`StartsAre`, `CutUnits`, `SliceIsCut`).

Only model-checked:

- liveness: `JobsSettle`, `ToBytesReturns`, both `Settles`, `OperationsSettle`;
- `ReadsBack` and `Conforms` of the writers, `SameAsInMemory` and `CanonicalIsFixed` of the readers,
  `FindsEveryEntry` of the forward reader but for `SourceLetGo`: they compare what two recursive passes make of one file, byte offset by byte offset, for which
  induction along the file would be needed;
- the codecs, which use recursive operators;
- the findings.

What the runs of the modifier, the pool and the parallel plan check besides liveness is
also proved, of the writers' run all but `ReadsBack` and `Conforms`, of the readers' run all but
`SameAsInMemory` and `CanonicalIsFixed`, and of the forward reader's all but `FindsEveryEntry`.

## Not modelled

- The public entry point (`index.ts`, re-exports) and the scripts that prepare releases,
  check documents and run gates: they keep no state the library depends on.
- Times, Unix ids and attributes (`core/zip-dos-time.ts`, `core/zip-attributes.ts`, the
  `resolve*` functions of `core/zip-extra-fields.ts`): pure functions of one record; the
  models keep what is decided by them (directory, link, pinned time).
- The codec registry, a constant of the readers' models; the CRC and the character
  encodings; wording of errors and diagnostics; progress handlers that throw or abort.

Met while modelling, and no property judges it: there is no promise in the repository that
it would break, or the model has no room for both sides.

- The limits on the lengths in a local header and `maxEntryCompressedSize` are applied by
  the range reader only; `openZip()` with `validate: 'eager'` checks extents but no local
  headers, `openZipRange()` cross-checks them all.
- The stream of an `extractZipStream()` item can be taken twice, which counts the entry twice
  in `entriesDone`.
- On its path with a descriptor the forward reader looks neither at the signal nor reports
  progress.
- `saveCompact({canonical: true})` leaves pending writes as they were asked for.
- After a failed `addStream()` the archive counts as streamed, and `toBytes()` refuses.
- A second `stream()` of a builder finds its sources read and writes empty entries.
- A synchronous call before `initNodeZipCodecs()` remembers that node:zlib is missing, and
  the later initialisation does not try again.
- A consumer that abandons `data()` while the pump waits leaves the pump's promise pending;
  nobody awaits it.
- A `push()` after one that threw leaves `finished` true; its one caller drops the decoder.
- `dispatch()` of the pool copies the data of a job after the slot was taken: if that throws,
  the armed timer moves the job to the main thread.
- An entry added during the parallel writer's first await is not in `entriesTotal`.
- An abort whose reason is no `AbortError` is wrapped as a failure of the codec.

What is left of the plan is proof: that the segment generator's offsets are the positions of its records (`ArchiveSegments`).
