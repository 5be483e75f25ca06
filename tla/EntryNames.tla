------------------------------ MODULE EntryNames ------------------------------
(***************************************************************************)
(* Entry names: what the writers accept (core/zip-encoding.ts), the path a *)
(* name is extracted to (parser/zip-extract.ts), and the order of the      *)
(* canonical archive.  A name is the segments between its separators, as   *)
(* split('/') gives them once backslashes are slashes, and what is odd     *)
(* about its characters.                                                   *)
(***************************************************************************)
EXTENDS Lists

CONSTANTS
  NameOrder,        \* the names, in the order of their bytes
  ReservedDevices,  \* segments Windows reads as devices: "aux", "con.txt"
  StreamSegments    \* segments with a colon: "file:stream"

ASSUME NamesAssumption ==
  NameOrder \in Seq([segments : Seq(STRING) \ {<<>>}, odd : STRING])
Names == ToSet(NameOrder)

Name(segments) == [segments |-> segments, odd |-> "none"]
Odd(segments, odd) == [segments |-> segments, odd |-> odd]  \* nul, backslash or drive
NameLength(name) == 2 * Len(name.segments) - 1

Directory(name) == Len(name.segments) > 1 /\ Last(name.segments) = "" /\ name.odd # "backslash"
Absolute(name) == Len(name.segments) > 1 /\ Head(name.segments) = ""
Meaningful(segments) == Selected(segments, LAMBDA s : s \notin {"", "."})

(* The names the writers take. *)
WritableName(name) ==
  /\ name.segments # <<"">>
  /\ name.odd = "none"
  /\ ~Absolute(name)
  /\ ".." \notin ToSet(name.segments)
  /\ Meaningful(name.segments) # <<>>

(* Under which name a writer files it. *)
finalName(name, isDirectory) ==
  IF isDirectory /\ ~Directory(name) THEN [name EXCEPT !.segments = Append(@, "")] ELSE name

Rank(name) == CHOOSE n \in DOMAIN NameOrder : NameOrder[n] = name
compareNames(a, b) == Rank(a) - Rank(b)

NoPath == <<>>

(* The safe relative form of a name, NoPath when it has none. *)
sanitizeEntryPath(name) ==
  IF \/ name.segments = <<"">> \/ name.odd \in {"nul", "drive"} \/ Absolute(name)
     \/ \E s \in ToSet(name.segments) : s \in {".."} \union ReservedDevices \union StreamSegments
  THEN NoPath ELSE Meaningful(name.segments)
=============================================================================
