CONSTANTS
  Stems = {1, 2}
  ValidStems = {1}
  Content <- MCContent
  Damaged <- MCDamaged
  Originals <- MCDamagedOriginals
  Empty = Empty
  DosDirectory = DosDirectory
  text = text
  broken = broken
  Comments = {NoComment, note}
  NoComment = NoComment
  note = note
  Absent = Absent
  Filler = Filler
  MaxPrefix = 1
  MaxEntries = 3
  MaxSize = 4
SPECIFICATION Spec
INVARIANTS TypeOK HeadersAgree SavesAgree
PROPERTIES SaveAppends CompactErases
CHECK_DEADLOCK FALSE
