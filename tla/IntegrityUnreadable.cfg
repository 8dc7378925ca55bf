SPECIFICATION Spec
CONSTANTS
  Files = {f1, f2}
  Contents = {c1, c2}
  TaskIds = {t1, t2}
  MaxEdits = 1
  MaxFaults = 1
  Faults = {"read"}
SYMMETRY Sym
PROPERTIES FilesNotCompressedAreLeftOut
