SPECIFICATION Spec
CONSTANTS
  a = a
  b = b
  c = c
  f1 = f1
  f2 = f2
  t1 = t1
  t2 = t2
  Id = {a, b, c}
  Folder = {f1, f2}
  Thread = {t1, t2}
  Operation = {"add", "addBatch", "remove", "delete", "addFolder", "grow", "shrink", "drop", "close"}
  Layouts <- MCLayouts
  Granularity = 2
  MaxWords = 2
  MaxCount = 2
  MaxOps = 2
  MaxFaults = 1
  MaxCrashes = 1
CHECK_DEADLOCK FALSE
SYMMETRY MCSymmetry
INVARIANTS
    SlotsSound
    RelocationSafe
PROPERTIES
    Durable
