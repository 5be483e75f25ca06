--------------------------- MODULE MCZipModifier ----------------------------
(* Small instances of ZipModifier.                                         *)
EXTENDS ZipModifier

CONSTANTS text, broken, note

MCContent == {Empty, DosDirectory, text, broken}
MCDamaged == {broken}

(* Sources whose plain entries hold one of Plain and whose directory       *)
(* entries are empty.                                                      *)
From(Plain) ==
  {d \in [Name -> MCContent \cup {Absent}] :
     \A n \in Name : d[n] \in (IF n.slash THEN {Empty} ELSE Plain) \cup {Absent}}
MCOriginals == From({text})
MCDamagedOriginals == From({text, broken})
MCDosOriginals == From({text, DosDirectory})
=============================================================================
