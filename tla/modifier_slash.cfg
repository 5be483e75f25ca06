CONSTANTS
  Stems = {1, 2}
  ValidStems = {1,2}
  Content <- MCContent
  Damaged <- MCDamaged
  Originals <- MCOriginals
  Empty = Empty
  DosDirectory = DosDirectory
  text = text
  broken = broken
  Comments = {NoComment}
  NoComment = NoComment
  note = note
  Absent = Absent
  Filler = Filler
  MaxPrefix = 0
  MaxEntries = 3
  MaxSize = 0
SPECIFICATION Spec
INVARIANT WriteNeverDropped
CHECK_DEADLOCK FALSE
