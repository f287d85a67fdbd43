SPECIFICATION Spec
CONSTANTS
  Segs = {a}
  Trans = {t1}
  Sizes = {1, 2}
  Val = {0, 1}
  Split = {}
  MaxMods = 1
  MaxLog = 0
  MaxCells = 2
  NoFile = NoFile
  NoTrans = NoTrans
  Lost = Lost
  a = a
  t1 = t1
INVARIANTS
  MapExtends
