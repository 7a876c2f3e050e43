SPECIFICATION Spec
CONSTANTS
  Threads = {t1, t2, t3}
  Cells = {a, b}
  None = None
  MaxVersion = 3
  LateReads = FALSE
SYMMETRY MCSymmetry
INVARIANTS TypeOK ValidatedReadIsAtomic CloneIsOfItsVersion
