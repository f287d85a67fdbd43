\* One transaction, crashes anywhere; two segments of a cell, or one segment of up to two
\* cells with two commits in the log (MCRVM).
SPECIFICATION MCSpec
CONSTANTS
  Segs = {a, b}
  Trans = {t1}
  Sizes = {1, 2}
  Val = {0, 1, 2}
  Split = {2}
  MaxMods = 2
  MaxLog = 1
  MaxCells = 2
  NoFile = NoFile
  NoTrans = NoTrans
  Lost = Lost
  a = a
  b = b
  t1 = t1
SYMMETRY Symmetry
INVARIANTS
  TypeOK
  CommittedKept
  MappedCurrent
  AbortRestores
PROPERTIES
  OnlyCommitsChange
