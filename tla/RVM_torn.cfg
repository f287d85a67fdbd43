SPECIFICATION Spec
CONSTANTS
  Segs = {a}
  Trans = {t1}
  Sizes = {1}
  Val = {0, 1}
  Split = {}
  MaxMods = 1
  MaxLog = 1
  MaxCells = 1
  NoFile = NoFile
  NoTrans = NoTrans
  Lost = Lost
  a = a
  t1 = t1
INVARIANTS
  CommitsSeenAtRestart
