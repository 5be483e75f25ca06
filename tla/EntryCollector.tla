---------------------------- MODULE EntryCollector ----------------------------
(***************************************************************************)
(* The entries of an archive under construction (createSpecCollector in    *)
(* core/zip-builder.ts): what each adding call checks, in which order, and *)
(* what it leaves behind when it is refused.                               *)
(***************************************************************************)
EXTENDS ArchiveSegments, ZipReader

CONSTANTS
  Calls,     \* the adding calls a caller may make
  Comments,  \* the comments it may set, each a sequence of units
  Order,     \* options.order: "canonical" or "insertion"
  Origin,    \* the file addFromReader() takes entries from
  MaxCalls   \* bound: calls per run

Raws ==
  [method : Int, payload : Seq(FileUnits), crc : Contents, uncompressedSize : Int,
   encrypted : BOOLEAN]
SourceRefs == [kind : {"source"}, id : Nat]

(* What TypeScript asks of a call.  The names are all there are: those of  *)
(* the calls and of the origin's entries, as they come and as they are     *)
(* filed.                                                                  *)
ASSUME CallsAssumption ==
  /\ Calls \subseteq
       [op : {"add", "addDirectory", "addStream", "addRaw", "addFromReader"},
        name : [segments : Seq(STRING), odd : STRING], directory : BOOLEAN, content : Contents,
        raw : Raws \cup {None}, source : SourceRefs \cup {None}, method : {"store", "deflate"},
        level : STRING, deterministic : BOOLEAN, zip64 : {Undefined, 0, 1}, attributes : STRING,
        pinned : BOOLEAN, extra : Seq(ExtraFields), comment : Nat, verify : BOOLEAN]
  /\ \A call \in Calls : finalName(call.name, call.directory) \in Names
  /\ Comments \subseteq Seq(FileUnits) /\ Origin \in Seq(FileUnits)
  /\ \A unit \in ToSet(Origin) \cap DirectoryRecords :
       finalName(unit.name, unit.attributes = "directory") \in Names
  /\ MaxCalls \in Nat

VARIABLES
  specs,      \* the entries, as they were added
  names,      \* the names taken
  streaming,  \* hasStreamEntries
  comment,    \* the archive's comment
  calls       \* calls made
collector == <<specs, names, streaming, comment, calls>>

CollectorInit ==
  specs = <<>> /\ names = {} /\ streaming = FALSE /\ comment = <<>> /\ calls = 0

(* What a raw payload needs: no compression option, fields in range. *)
RawAccepted(call) ==
  call.level = "default" /\ call.raw.method \in Nat /\ call.raw.uncompressedSize \in Nat

(* The checks up to the one that reserves the name. *)
Admissible(call, name) ==
  /\ WritableName(call.name)
  /\ call.raw # None => RawAccepted(call)
  /\ call.zip64 # Undefined => call.source # None
  /\ name \notin names

SpecOf(call, name) ==
  [name |-> name, attributes |-> call.attributes, pinned |-> call.pinned, extra |-> call.extra,
   comment |-> call.comment, content |-> IF call.directory THEN <<>> ELSE call.content,
   raw |-> call.raw, source |-> call.source,
   method |-> IF call.directory THEN "store" ELSE call.method,
   deterministic |-> call.deterministic, zip64 |-> call.zip64 = 1]

(* Mutant: a name is not reserved. *)
makeSpec_Unreserved(call) ==
  LET name == finalName(call.name, call.directory)
  IN  IF Admissible(call, name) /\ call.level # "invalid"
      THEN names' = names /\ specs' = Append(specs, SpecOf(call, name))
      ELSE UNCHANGED <<names, specs>>

(* A call that passes takes its name even if its level is refused next. *)
makeSpec(call) ==
  LET name == finalName(call.name, call.directory)
  IN  /\ names' = IF Admissible(call, name) THEN names \union {name} ELSE names
      /\ specs' = IF Admissible(call, name) /\ call.level # "invalid"
                  THEN Append(specs, SpecOf(call, name)) ELSE specs

Calling(op) == {call \in Calls : call.op = op /\ calls < MaxCalls}

Add ==
  \E call \in Calling("add") :
    makeSpec(call) /\ calls' = calls + 1 /\ UNCHANGED <<streaming, comment>>

AddDirectory ==
  \E call \in Calling("addDirectory") :
    makeSpec(call) /\ calls' = calls + 1 /\ UNCHANGED <<streaming, comment>>

(* The archive counts as streaming before the entry is accepted. *)
AddStream ==
  \E call \in Calling("addStream") :
    makeSpec(call) /\ streaming' = TRUE /\ calls' = calls + 1 /\ UNCHANGED comment

AddRaw ==
  \E call \in Calling("addRaw") :
    makeSpec(call) /\ calls' = calls + 1 /\ UNCHANGED <<streaming, comment>>

(* An entry of another archive, as it is: its payload passes the reader's  *)
(* defence, its content is verified unless the caller waives that.         *)
Transplantable(reader, entry, verify) ==
  LET verified == verifyEntry(reader, entry)
  IN  IsOk(readEntryRaw(reader, entry))
      /\ (verify => verified.ok \/ verified.skipped # "OK")

Transplant(call, reader, entry) ==
  [call EXCEPT !.name = entry.name, !.directory = entry.isDirectory,
               !.raw = [method |-> entry.method, payload |-> readEntryRaw(reader, entry).payload,
                        crc |-> entry.crc, uncompressedSize |-> entry.uncompressedSize,
                        encrypted |-> entry.encrypted],
               !.pinned = entry.pinned, !.attributes = entry.attributes,
               !.comment = entry.comment,
               !.extra = Selected(entry.extra, LAMBDA f : f.id # "zip64")]

(* The entry asked for; a name the reader does not know is no entry.  Who  *)
(* calls has a reader: openZip() gave one.                                 *)
resolveSource(reader) == ToSet(reader.entries) \union {None}

AddFromReader ==
  LET reader == openZip(Origin, FALSE, FALSE)
  IN  /\ IsOk(reader)
      /\ \E call \in Calling("addFromReader"), entry \in resolveSource(reader) :
           IF entry # None /\ Transplantable(reader, entry, call.verify)
           THEN makeSpec(Transplant(call, reader, entry))
           ELSE UNCHANGED <<specs, names>>
      /\ calls' = calls + 1
      /\ UNCHANGED <<streaming, comment>>

SetComment ==
  /\ calls < MaxCalls
  /\ \E units \in Comments : comment' = units
  /\ calls' = calls + 1
  /\ UNCHANGED <<specs, names, streaming>>

(* In the order of their names' bytes, or as they were added. *)
orderedSpecs ==
  IF Order = "canonical" THEN Sorted(specs, LAMBDA a, b : compareNames(a.name, b.name) < 0)
                         ELSE specs

(* Whether an output of the archive can be planned. *)
Planned == Accepted(orderedSpecs) /\ Length(comment) <= Limits.maxCommentBytes
=============================================================================
