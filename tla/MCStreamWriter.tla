--------------------------- MODULE MCStreamWriter ---------------------------
(***************************************************************************)
(* Instances of StreamWriter.  The sentinels are 100 and 2, so two entries *)
(* can reach the first and do reach the second.                            *)
(***************************************************************************)
EXTENDS StreamWriter

Chunk(id, size, packed) == [id |-> id, size |-> size, packed |-> packed]
Small == <<Chunk("small", 6, 2)>>
Big == <<Chunk("big", 70, 80)>>
Huge == <<Chunk("huge", 105, 4)>>

MCLimits ==
  [maxEntries |-> 3, maxNameBytes |-> 5, maxExtraFieldBytes |-> 30, maxCommentBytes |-> 9,
   maxCentralDirectoryBytes |-> 1000, maxEntryUncompressedSize |-> 200,
   maxEntryCompressedSize |-> 200, maxTotalUncompressedSize |-> 300,
   maxCompressionRatio |-> 30, ratioFloor |-> 50]
MCCodecs == (METHOD_STORE :> {"sync", "stream", "push"}) @@ (METHOD_DEFLATE :> {"sync", "stream", "push"})
MCNameOrder ==
  <<Name(<<"..">>), Name(<<"a">>), Name(<<"b">>), Name(<<"d">>), Name(<<"d", "">>),
    Name(<<"o">>), Name(<<"r">>), Name(<<"s">>), Name(<<"t">>)>>

Call(op, path) ==
  [op |-> op, name |-> Name(path), directory |-> FALSE, content |-> <<>>, raw |-> None,
   source |-> None, method |-> "deflate", level |-> "default", deterministic |-> FALSE, zip64 |-> Undefined,
   attributes |-> "file", pinned |-> TRUE, extra |-> <<>>, comment |-> 0, verify |-> TRUE]
Streamed(path, id, method, zip64) ==
  [Call("addStream", path) EXCEPT !.source = [kind |-> "source", id |-> id], !.method = method,
                                  !.zip64 = zip64]
RawHuge ==
  [method |-> METHOD_DEFLATE, payload |-> <<Deflated(Huge)>>, crc |-> Huge,
   uncompressedSize |-> 105, encrypted |-> FALSE]

MCCalls ==
  { [Call("add", <<"b">>) EXCEPT !.content = Big, !.comment = 9],
    Call("add", <<"a">>),
    [Call("add", <<"d", "">>) EXCEPT !.content = Small, !.level = "invalid"],
    [Call("addDirectory", <<"d">>) EXCEPT !.directory = TRUE, !.attributes = "directory"],
    Streamed(<<"s">>, 1, "deflate", Undefined),
    Streamed(<<"s">>, 1, "store", 1),
    Streamed(<<"t">>, 2, "store", Undefined),
    [Streamed(<<"t">>, 2, "deflate", 1) EXCEPT !.deterministic = TRUE],
    [Call("addRaw", <<"r">>) EXCEPT !.raw = RawHuge],
    Call("addFromReader", <<"..">>) }

(* The extra block is within its limit, and the Zip64 field on top of it   *)
(* is not.                                                                 *)
ExtraCalls ==
  { [Streamed(<<"s">>, 1, "store", zip64) EXCEPT !.extra = <<ExtraField("other", <<>>, 12)>>]
      : zip64 \in {Undefined, 1} }

SpecA(path, content) ==
  [name |-> Name(path), attributes |-> "file", pinned |-> FALSE, extra |-> <<>>, comment |-> 0,
   content |-> content, raw |-> None, source |-> None, method |-> "deflate", deterministic |-> FALSE,
   zip64 |-> FALSE]
MCOrigin == assembleArchive(planArchive(<<SpecA(<<"o">>, Small)>>), <<>>)
MCComments == {<<Junk(2)>>, <<Junk(12)>>}
MCSourceContents == <<<<Chunk("x", 2, 1), Chunk("y", 3, 2)>>, <<Chunk("u", 70, 3), Chunk("v", 35, 2)>>>>
=============================================================================
