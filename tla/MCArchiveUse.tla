---------------------------- MODULE MCArchiveUse ----------------------------
(***************************************************************************)
(* Instances of ArchiveUse.  The files are archives the writer emits, and  *)
(* the same archives with one record altered, cut, repeated or moved.      *)
(***************************************************************************)
EXTENDS ArchiveUse

MCLimits ==
  [maxEntries |-> 4, maxNameBytes |-> 5, maxExtraFieldBytes |-> 40, maxCommentBytes |-> 30,
   maxCentralDirectoryBytes |-> 1000, maxEntryUncompressedSize |-> 200,
   maxEntryCompressedSize |-> 75, maxTotalUncompressedSize |-> 200,
   maxCompressionRatio |-> 30, ratioFloor |-> 50]
All == {"sync", "stream", "push"}
MCCodecs ==
  (METHOD_STORE :> All) @@ (METHOD_DEFLATE :> All) @@ (93 :> {"stream"}) @@ (97 :> {"sync", "stream"})
MCNameOrder ==
  <<Name(<<".", "a">>), Name(<<"..", "x">>), Name(<<"a">>), Name(<<"aux">>), Name(<<"b">>),
    Name(<<"c">>), Name(<<"d", "">>)>>

Chunk(id, n, packed) == [id |-> id, size |-> n, packed |-> packed]
Small == <<Chunk("small", 6, 8)>>
Big == <<Chunk("big", 40, 20), Chunk("ger", 35, 20)>>
Huge == <<Chunk("huge", 165, 70)>>

File(path, content) ==
  [name |-> Name(path), attributes |-> "file", pinned |-> TRUE, extra |-> <<>>, comment |-> 0,
   content |-> content, raw |-> None, source |-> None, method |-> "deflate",
   deterministic |-> FALSE, zip64 |-> FALSE]
Extra(n) == <<ExtraField("other", <<>>, n)>>
Archive(specs) == assembleArchive(planArchive(specs), <<>>)

(* a: local header, payload; b: local header, payload; directory; end. *)
Two == Archive(<<[File(<<"a">>, Small) EXCEPT !.extra = Extra(20)], File(<<"b">>, Big)>>)
Wide == Archive(<<File(<<"a">>, Huge), File(<<"b">>, Small), File(<<"d", "">>, <<>>)>>)
Paths == {<<".", "a">>, <<"..", "x">>, <<"aux">>, <<"c">>, <<"d", "">>}

(* The archives as they are, in part, and with something before or behind. *)
Surrounded(two, wide) ==
  {two, wide, <<Junk(9)>> \o two, <<Junk(9)>> \o wide, Append(two, Junk(2)), SubSeq(two, 2, 7),
   [two EXCEPT ![7].commentLength = 22] \o writeEocd(0, 0, 0, <<>>)}

(* Entry n altered in its local header and in the directory. *)
Both(two, field, value, n) ==
  [i \in DOMAIN two |-> IF i \in {2 * n - 1, 4 + n} THEN [two[i] EXCEPT ![field] = value] ELSE two[i]]
BothAltered(two) ==
  {Both(two, "method", m, 2) : m \in {93, 97, 99}}
    \union {[Both(two, "method", 93, 2) EXCEPT ![4].method = 93]}
    \union {Both(two, "encrypted", TRUE, 1), Both(two, "crc", Small, 2)}
    \union {Both(two, "uncompressedSize", n, 2) : n \in {70, 80}}
    \union {Both(two, "name", Name(<<s>>), 1) : s \in {"b", "c"}}

(* One record altered: <<i, field, value>>. *)
Alterations ==
  {<<1, "method", 8>>, <<1, "crc", Big>>, <<1, "name", Name(<<"c">>)>>, <<1, "extraLength", 50>>,
   <<3, "bit3", TRUE>>, <<3, "compressedSize", 40>>, <<4, "final", FALSE>>,
   <<5, "crc", Big>>, <<5, "compressedSize", 7>>, <<5, "uncompressedSize", 5>>,
   <<5, "attributes", "symlink">>, <<5, "disk", 1>>, <<5, "foreign", TRUE>>, <<5, "extraLength", 22>>,
   <<6, "uncompressedSize", 70>>, <<6, "localHeaderOffset", 0>>, <<6, "localHeaderOffset", 90>>,
   <<6, "pinned", FALSE>>, <<7, "totalEntries", 1>>, <<7, "cdOffset", 140>>}
OneAltered(two) ==
  {[two EXCEPT ![a[1]][a[2]] = a[3]] : a \in Alterations} \union {[two EXCEPT ![4] = Junk(41)]}
(* The deflate stream of the first entry ends after n of its 71 bytes, and *)
(* others fill its place: the stream ends inside a piece, with a piece, or *)
(* inside the last one.                                                    *)
SurplusBehind(wide, n) ==
  <<wide[1], [wide[2] EXCEPT !.len = n], Junk(wide[2].len - n)>> \o Tail(Tail(wide))
Zip64Altered(wide) ==
  {[wide EXCEPT ![9].cdSize = 100], [wide EXCEPT ![9].totalEntries = 2],
   [wide EXCEPT ![10].offset = 3], [wide EXCEPT ![10] = Junk(20)], [wide EXCEPT ![10].totalDisks = 2]}
(* The Zip64 record away from its locator, in the tail or in front of it.  *)
Gap(wide, n) == SubSeq(wide, 1, 9) \o <<Junk(n)>> \o SubSeq(wide, 10, Len(wide))
Altered(two, wide) ==
  Surrounded(two, wide) \union BothAltered(two) \union OneAltered(two) \union Zip64Altered(wide)
    \union {SurplusBehind(wide, n) : n \in {15, 60, 65}}
    \union {Gap(wide, n) : n \in {9, 300}}

Written == {Archive(<<File(<<"a">>, Huge), File(<<"c">>, Huge)>>)}
  \union {Archive(<<File(<<"a">>, Small), File(path, <<>>), File(<<"b">>, Small)>>) : path \in Paths}
MisplacedOne(one) == [one EXCEPT ![3].localHeaderOffset = 100]
MisplacedTwo(both) == [both EXCEPT ![6].localHeaderOffset = 0]
MCFiles ==
  Altered(Two, Wide) \union Written
    \union {MisplacedOne(Archive(<<File(<<"a">>, Small)>>)),
            MisplacedTwo(Archive(<<File(<<"a">>, Small), File(<<"b">>, Small)>>))}
=============================================================================
