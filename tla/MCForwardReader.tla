--------------------------- MODULE MCForwardReader ---------------------------
(***************************************************************************)
(* Instances of ForwardReader.  The streams are archives as the writers    *)
(* emit them, with and without stream entries, and the same archives with  *)
(* a record altered, cut off or of another form.                           *)
(***************************************************************************)
EXTENDS ForwardReader, ArchiveSegments

MCLimits ==
  [maxEntries |-> 2, maxNameBytes |-> 5, maxExtraFieldBytes |-> 40, maxCommentBytes |-> 30,
   maxCentralDirectoryBytes |-> 1000, maxEntryUncompressedSize |-> 200,
   maxEntryCompressedSize |-> 200, maxTotalUncompressedSize |-> 200,
   maxCompressionRatio |-> 4, ratioFloor |-> 10]
All == {"sync", "stream", "push"}
MCCodecs ==
  (METHOD_STORE :> All) @@ (METHOD_DEFLATE :> All) @@ (93 :> All) @@ (97 :> {"sync", "stream"})
MCNameOrder == <<Name(<<"a">>), Name(<<"b">>), Name(<<"c">>), Name(<<"d", "">>)>>

Chunk(id, n, packed) == [id |-> id, size |-> n, packed |-> packed]
Small == <<Chunk("small", 6, 8)>>
Big == <<Chunk("big", 40, 20), Chunk("ger", 35, 20)>>
Bomb == <<Chunk("bomb", 170, 11)>>
Huge == <<Chunk("huge", 190, 60)>>

File(path, content) ==
  [name |-> Name(path), attributes |-> "file", pinned |-> TRUE, extra |-> <<>>, comment |-> 0,
   content |-> content, raw |-> None, source |-> None, method |-> "deflate",
   deterministic |-> FALSE, zip64 |-> FALSE]
Archive(specs) == assembleArchive(planArchive(specs), <<>>)

(* A stream entry as compressStreamEntry() writes it. *)
StreamUnits(content) ==
  IF content = <<>> THEN <<DataUnit(METHOD_DEFLATE, 2, <<>>, TRUE)>>
  ELSE [i \in DOMAIN content |-> DataUnit(METHOD_DEFLATE, content[i].packed, <<content[i]>>,
                                          i = Len(content))]
StreamPlan(path, content, zip64) ==
  [name |-> Name(path), attributes |-> "file", pinned |-> TRUE, extra |-> <<>>, comment |-> 0,
   source |-> [kind |-> "source", id |-> 1], method |-> METHOD_DEFLATE, deterministic |-> FALSE,
   zip64 |-> zip64, payload |-> StreamUnits(content), emitted |-> None, bit3 |-> TRUE,
   encrypted |-> FALSE, crc |-> content, uncompressedSize |-> ContentSize(content),
   compressedSize |-> Length(StreamUnits(content))]
EntryStreamed(plan) ==
  <<LocalHeader(plan)>> \o plan.payload
    \o <<writeDataDescriptor(plan.crc, plan.compressedSize, plan.uncompressedSize, plan.zip64)>>
ArchiveStreamed(plans) ==
  LET body(n) == Joined(EntryStreamed, SubSeq(plans, 1, n))
      cds == [i \in DOMAIN plans |-> CentralHeader(plans[i], Length(body(i - 1)))]
  IN  body(Len(plans)) \o cds \o writeEocd(Len(plans), Length(cds), Length(body(Len(plans))), <<>>)

Two == Archive(<<File(<<"a">>, Small), File(<<"b">>, Big)>>)
Wide == Archive(<<File(<<"a">>, Huge), File(<<"d", "">>, <<>>)>>)
Streamed == ArchiveStreamed(<<StreamPlan(<<"a">>, Big, FALSE), StreamPlan(<<"b">>, Small, TRUE)>>)
Hollow == ArchiveStreamed(<<StreamPlan(<<"a">>, <<>>, TRUE), StreamPlan(<<"b">>, <<>>, FALSE)>>)
Custom(two) == [i \in DOMAIN two |-> IF i \in {3, 4, 6} THEN [two[i] EXCEPT !.method = 93] ELSE two[i]]

(* Descriptors without signature. *)
Bare(archive) ==
  [i \in DOMAIN archive |-> IF archive[i].kind = "descriptor"
                            THEN [archive[i] EXCEPT !.kind = "bare", !.len = @ - 4] ELSE archive[i]]

MCWritten == {Two, Wide, Streamed, Hollow, Archive(<<>>)}
TwoAltered(two) ==
  {Custom(two), SubSeq(two, 1, 3), <<Junk(9)>> \o two, [two EXCEPT ![4] = Junk(41)]}
  \union {[two EXCEPT ![3][f[1]] = f[2]] :
            f \in {<<"crc", Small>>, <<"compressedSize", 50>>, <<"uncompressedSize", 60>>,
                   <<"method", 97>>, <<"encrypted", TRUE>>, <<"extraLength", 41>>}}
  \union {<<[two[1] EXCEPT !.len = n]>> : n \in {20, 30}}
StreamedAltered(streamed) ==
  {Bare(streamed), SubSeq(streamed, 1, 2), [streamed EXCEPT ![1].method = METHOD_STORE],
   [streamed EXCEPT ![4].crc = Small], [streamed EXCEPT ![3] = Junk(20)]}
MCFiles ==
  MCWritten \union TwoAltered(Two) \union StreamedAltered(Streamed)
  \union {Bare(Hollow), <<Junk(3)>>,
          Archive(<<File(<<"a">>, Small), File(<<"b">>, Small), File(<<"c">>, Small)>>),
          ArchiveStreamed(<<StreamPlan(<<"a">>, Bomb, FALSE)>>), Archive(<<File(<<"a">>, Bomb)>>)}
=============================================================================
