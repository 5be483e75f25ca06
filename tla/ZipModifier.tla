----------------------------- MODULE ZipModifier -----------------------------
(***************************************************************************)
(* The incremental modifier (parser/zip-modifier.ts).  Edits are an        *)
(* overlay over an archive whose bytes are never touched; save() appends   *)
(* the written and renamed entries behind the original bytes and writes a  *)
(* merged central directory, saveCompact() lays every live entry out       *)
(* again.  A session ends when its output is opened by the next modifier,  *)
(* so that behaviours run through several generations of one archive.      *)
(*                                                                         *)
(* A file is a sequence of units counted from 0: one unit per local entry  *)
(* (header and payload), one per prepended (SFX) block, one for a central  *)
(* directory with its trailer.  A stored offset is relative to the base,   *)
(* the length of what was prepended, which only the position and the       *)
(* stored offset of the central directory give away.                       *)
(***************************************************************************)
EXTENDS Integers, FiniteSets

CONSTANTS
  Stems, Content, Empty, Comments, NoComment, Absent,
  ValidStems,     \* the paths validateEntryName and maxNameBytes accept
  Damaged,        \* contents whose local record readEntryRaw refuses
  DosDirectory,   \* no bytes, and the DOS directory attribute
  Filler,         \* a unit that is no local entry
  MaxPrefix,      \* bound: prepended units
  MaxEntries,     \* limits.maxEntries
  MaxSize,        \* bound: units of a file a session may start from
  Originals       \* bound: the directories the first archive is taken from

Name == [stem : Stems, slash : BOOLEAN]
Valid(n) == n.stem \in ValidStems
Slashed(n) == [n EXCEPT !.slash = TRUE]

ASSUME ModifierAssumption ==
  /\ Stems \subseteq Nat /\ IsFiniteSet(Stems)
  /\ ValidStems \subseteq Stems
  /\ {Empty, DosDirectory} \subseteq Content
  /\ Damaged \subseteq Content /\ Empty \notin Damaged
  /\ NoComment \in Comments
  /\ Absent \notin Content /\ Absent \notin Int /\ Absent \notin Comments
  /\ Filler \notin [name : Name, content : Content]
  /\ MaxPrefix \in Nat /\ MaxEntries \in Nat /\ MaxSize \in Nat
  /\ Originals \subseteq [Name -> Content \cup {Absent}]

VARIABLES
  file,           \* the archive the session works on
  edits,          \* the overlay: name -> pending edit
  pendingComment  \* the comment set in this session, or Absent

vars == <<file, edits, pendingComment>>

-----------------------------------------------------------------------------
(* Pending edits.  A raw copy remembers the source entry it copies.        *)

Untouched  == [kind |-> "none"]
Removed    == [kind |-> "remove"]
Write(c)   == [kind |-> "write", data |-> c]
RawCopy(s) == [kind |-> "rawCopy", source |-> s]
Edit == {Untouched, Removed} \cup {Write(c) : c \in Content}
                             \cup {RawCopy(s) : s \in Name}
NoEdits == [n \in Name |-> Untouched]

-----------------------------------------------------------------------------
(* Files.                                                                  *)

(* locateEocd: what lies between the stored directory offset and the place *)
(* the directory was found at was prepended.                               *)
Base(f) == (f.size - 1) - f.cdOffset
InSource(f, n) == f.cd[n] # Absent
HeaderAt(f, n) == f.cd[n] + Base(f)
Held(f, n) == f.bytes[HeaderAt(f, n)].content

(* Appended entries go out in the byte order of their names.               *)
Key(n) == 2 * n.stem + (IF n.slash THEN 1 ELSE 0)
Before(A, n) == {m \in A : Key(m) < Key(n)}
Position(start, A, n) == start + Cardinality(Before(A, n))

(* The entries A behind the first start units of old, then the directory.  *)
Emit(old, start, A, holds) ==
  [p \in 0 .. start + Cardinality(A) |->
     IF p < start THEN old[p]
     ELSE IF p = start + Cardinality(A) THEN Filler
     ELSE LET n == CHOOSE m \in A : Position(start, A, m) = p
          IN [name |-> n, content |-> holds[n]]]

(* Mutant: the size does not count the directory that closes the file. *)
WriteFile_NoTrailer(old, start, A, holds, kept, base, comment) ==
  [bytes    |-> Emit(old, start, A, holds),
   size     |-> start + Cardinality(A),
   cdOffset |-> start + Cardinality(A) - base,
   cd       |-> [n \in Name |-> IF n \in A THEN Position(start, A, n) - base
                                           ELSE kept[n]],
   comment  |-> comment]

WriteFile(old, start, A, holds, kept, base, comment) ==
  [bytes    |-> Emit(old, start, A, holds),
   size     |-> start + Cardinality(A) + 1,
   cdOffset |-> start + Cardinality(A) - base,
   cd       |-> [n \in Name |-> IF n \in A THEN Position(start, A, n) - base
                                           ELSE kept[n]],
   comment  |-> comment]

Nothing == [n \in Name |-> Absent]

-----------------------------------------------------------------------------
(* The overlay.                                                            *)

existsNow(n) ==
  IF edits[n].kind = "none" THEN InSource(file, n)
                            ELSE edits[n].kind # "remove"

Appended  == {n \in Name : edits[n].kind \in {"write", "rawCopy"}}
(* Mutant: the record of an entry survives its removal. *)
Surviving_Removed == {n \in Name : edits[n].kind \in {"none", "remove"} /\ InSource(file, n)}

Surviving == {n \in Name : edits[n].kind = "none" /\ InSource(file, n)}

Live == Appended \cup Surviving

(* What the entry will hold once written: specForWrite empties a write     *)
(* whose name ends in a slash, a copy takes the source's payload as it is. *)
ContentNow(n) ==
  CASE edits[n].kind = "write"   -> IF n.slash THEN Empty ELSE edits[n].data
    [] edits[n].kind = "rawCopy" -> Held(file, edits[n].source)
    [] edits[n].kind = "remove"  -> Absent
    [] OTHER -> IF InSource(file, n) THEN Held(file, n) ELSE Absent

commentNow == IF pendingComment = Absent THEN file.comment ELSE pendingComment

IsDirectoryEntry(n, c) == n.slash \/ c = DosDirectory

-----------------------------------------------------------------------------
(* The first archive: well formed, possibly behind a prefix.               *)

Init ==
  /\ \E d \in Originals, b \in 0 .. MaxPrefix, t \in Comments :
       LET A == {n \in Name : d[n] # Absent}
       IN /\ Cardinality(A) <= MaxEntries
          /\ file = WriteFile([p \in 0 .. b - 1 |-> Filler], b, A, d, Nothing, b, t)
  /\ edits = NoEdits
  /\ pendingComment = Absent

AddEntry(n, c) ==
  /\ Valid(n)
  /\ n.slash => c = Empty
  /\ ~existsNow(n)
  /\ edits' = [edits EXCEPT ![n] = Write(c)]
  /\ UNCHANGED <<file, pendingComment>>

ReplaceEntry(n, c) ==
  /\ Valid(n)
  /\ existsNow(n)
  /\ edits' = [edits EXCEPT ![n] = Write(c)]
  /\ UNCHANGED <<file, pendingComment>>

(* Mutant: every removal is the removal of a name of this session only. *)
Gone_Forgotten(n) == Untouched

(* A removal is remembered only for a name the source has.                 *)
Gone(n) == IF InSource(file, n) THEN Removed ELSE Untouched

RemoveEntry(n) ==
  /\ existsNow(n)
  /\ edits' = [edits EXCEPT ![n] = Gone(n)]
  /\ UNCHANGED <<file, pendingComment>>

(* Unless a write is pending under the name, what the source holds under   *)
(* it tells whether a directory is being renamed.                          *)
fromIsDirectory(from) ==
  IF edits[from].kind # "write" /\ InSource(file, from)
  THEN IsDirectoryEntry(from, Held(file, from))
  ELSE from.slash

finalTo(from, to) == IF fromIsDirectory(from) THEN Slashed(to) ELSE to

Moved(from) == IF edits[from].kind = "none" THEN RawCopy(from) ELSE edits[from]

(* Mutant: the target is looked up under the name it was given, not the    *)
(* name it ends up with.                                                   *)
RenameEntry_EarlyCheck(from, to) ==
  /\ existsNow(from)
  /\ Valid(to)
  /\ ~existsNow(to)
  /\ edits' = [edits EXCEPT ![finalTo(from, to)] = Moved(from), ![from] = Gone(from)]
  /\ UNCHANGED <<file, pendingComment>>

RenameEntry(from, to) ==
  /\ existsNow(from)
  /\ Valid(to)
  /\ ~existsNow(finalTo(from, to))
  /\ edits' = [edits EXCEPT ![finalTo(from, to)] = Moved(from), ![from] = Gone(from)]
  /\ UNCHANGED <<file, pendingComment>>

SetComment(t) ==
  /\ pendingComment' = t
  /\ UNCHANGED <<file, edits>>

-----------------------------------------------------------------------------
(* Saving.  Both saves are functions of the session's state: they leave it *)
(* alone, and throw when a payload they must copy is damaged or when too   *)
(* many entries survive.  The caller then opens what was returned.         *)

(* Mutant: offsets are stored without subtracting what was prepended. *)
saved_Absolute ==
  WriteFile(file.bytes, file.size, Appended, [n \in Appended |-> ContentNow(n)],
            [n \in Name |-> IF n \in Surviving THEN file.cd[n] ELSE Absent],
            0, commentNow)

(* Mutant: the new entries overwrite the old directory. *)
saved_OverDirectory ==
  WriteFile(file.bytes, file.size - 1, Appended, [n \in Appended |-> ContentNow(n)],
            [n \in Name |-> IF n \in Surviving THEN file.cd[n] ELSE Absent],
            Base(file), commentNow)

saved ==
  WriteFile(file.bytes, file.size, Appended, [n \in Appended |-> ContentNow(n)],
            [n \in Name |-> IF n \in Surviving THEN file.cd[n] ELSE Absent],
            Base(file), commentNow)

(* Mutant: the live entries are laid out behind the original bytes. *)
compacted_Appended(keepComments) ==
  WriteFile(file.bytes, file.size, Live, [n \in Live |-> ContentNow(n)], Nothing, 0,
            IF keepComments \/ pendingComment # Absent THEN commentNow ELSE NoComment)

(* keepComments: a canonical rewrite drops an archive comment that was not *)
(* set in this session.                                                    *)
compacted(keepComments) ==
  WriteFile(<<>>, 0, Live, [n \in Live |-> ContentNow(n)], Nothing, 0,
            IF keepComments \/ pendingComment # Absent THEN commentNow ELSE NoComment)

Copied == {n \in Appended : edits[n].kind = "rawCopy"}
CanSave    == /\ Cardinality(Live) <= MaxEntries
              /\ \A n \in Copied : ContentNow(n) \notin Damaged
CanCompact == /\ Cardinality(Live) <= MaxEntries
              /\ \A n \in Live : edits[n].kind # "write" => ContentNow(n) \notin Damaged

NothingToSave == edits = NoEdits /\ commentNow = file.comment

NewSession == edits' = NoEdits /\ pendingComment' = Absent

(* The very bytes the session started from are returned.                   *)
SaveUnchanged ==
  /\ NothingToSave
  /\ NewSession
  /\ UNCHANGED file

Save ==
  /\ ~NothingToSave
  /\ CanSave
  /\ file.size <= MaxSize
  /\ file' = saved
  /\ NewSession

SaveCompact(keepComments) ==
  /\ CanCompact
  /\ file' = compacted(keepComments)
  /\ NewSession

Next ==
  \/ \E n \in Name, c \in Content \ (Damaged \cup {DosDirectory}) :
       AddEntry(n, c) \/ ReplaceEntry(n, c)
  \/ \E n \in Name : RemoveEntry(n)
  \/ \E from, to \in Name : RenameEntry(from, to)
  \/ \E t \in Comments : SetComment(t)
  \/ SaveUnchanged
  \/ Save
  \/ \E keepComments \in BOOLEAN : SaveCompact(keepComments)

Spec == Init /\ [][Next]_vars

-----------------------------------------------------------------------------
Unit == [name : Name, content : Content] \cup {Filler}

TypeOK ==
  /\ file.size \in Nat \ {0}
  /\ file.bytes \in [0 .. file.size - 1 -> Unit]
  /\ file.cdOffset \in Int
  /\ file.cd \in [Name -> Int \cup {Absent}]
  /\ file.comment \in Comments
  /\ edits \in [Name -> Edit]
  /\ pendingComment \in Comments \cup {Absent}

(* Every directory record, verbatim ones of earlier generations included,  *)
(* resolves to a local header of its own name: a strict reader flags any   *)
(* other, and two entries would share one header.                          *)
HeadersAgree ==
  \A n \in Name : InSource(file, n) =>
    /\ HeaderAt(file, n) \in 0 .. file.size - 2
    /\ file.bytes[HeaderAt(file, n)] # Filler
    /\ file.bytes[HeaderAt(file, n)].name = n

(* The overlay never keeps an entry twice: whatever is copied under a new  *)
(* name no longer survives under its own, is copied once, and only names   *)
(* of the source are marked removed.                                       *)
OverlayCoherent ==
  /\ \A n \in Name : edits[n].kind = "remove" => InSource(file, n)
  /\ \A n \in Copied : /\ InSource(file, edits[n].source)
                       /\ edits[edits[n].source].kind # "none"
  /\ \A m, n \in Copied : edits[m].source = edits[n].source => m = n

Reads(f, n) == IF InSource(f, n) THEN Held(f, n) ELSE Absent
OpensAsShown(f) ==
  /\ Cardinality({n \in Name : InSource(f, n)}) <= MaxEntries
  /\ \A n \in Name : Reads(f, n) = ContentNow(n)

(* What either save returns opens again under the limit on entries         *)
(* (zip-eocd.ts:182), however many the edits had added meanwhile, and what *)
(* a reader finds in it is what the session shows: neither loses, revives  *)
(* or mixes up an entry.                                                   *)
SavesAgree ==
  /\ CanSave    => OpensAsShown(saved)
  /\ CanCompact => OpensAsShown(compacted(TRUE))

(* save() keeps the original bytes as a prefix of its output, and what was *)
(* prepended stays what was prepended: removed content stays recoverable.  *)
SaveAppends ==
  [][file' # file /\ Save =>
             /\ \A p \in 0 .. file.size - 1 : file'.bytes[p] = file.bytes[p]
             /\ Base(file') = Base(file)]_vars

(* saveCompact() keeps nothing but live entries: true deletion.            *)
CompactErases ==
  [][\A k \in BOOLEAN : file' # file /\ SaveCompact(k) =>
       \A p \in 0 .. file'.size - 2 :
         \E n \in Name : InSource(file', n) /\ HeaderAt(file', n) = p]_vars

(* The session is an editing session on the directory of what it shows.    *)
View == [n \in Name |-> ContentNow(n)]
Archive == INSTANCE NamedArchive WITH directory <- View, remark <- commentNow
ImplementsArchive == Archive!Spec

(* replaceEntry "replaces an existing entry's content": what a caller      *)
(* wrote is what will be saved.                                            *)
WriteNeverDropped ==
  \A n \in Name : edits[n].kind = "write" => ContentNow(n) = edits[n].data

(* renameEntry appends a slash for directories: an entry that is none goes *)
(* to the very name it was given, its bytes with it.                       *)
RenameGoesWhereAsked ==
  [][\A from, to \in Name :
       /\ RenameEntry(from, to)
       /\ ~IsDirectoryEntry(from, ContentNow(from))
       /\ ~to.slash
       => (ContentNow(to))' = ContentNow(from)]_vars
=============================================================================
