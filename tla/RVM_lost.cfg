SPECIFICATION Spec
CONSTANTS
  Segs = {a, b}
  Trans = {t1, t2}
  Sizes = {1}
  Val = {0, 1}
  Split = {}
  MaxMods = 1
  MaxLog = 0
  MaxCells = 1
  NoFile = NoFile
  NoTrans = NoTrans
  Lost = Lost
  a = a
  b = b
  t1 = t1
  t2 = t2
INVARIANTS
  CommitReturnsDurable
