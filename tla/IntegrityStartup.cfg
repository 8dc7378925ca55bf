SPECIFICATION Spec
CONSTANTS
  Files = {f1, f2}
  Contents = {c1}
  TaskIds = {t1, t2}
  MaxEdits = 0
  MaxFaults = 0
  Faults = {}
SYMMETRY Sym
PROPERTIES OnlyRemovedFilesAreDeleted
