SPECIFICATION Spec
CONSTANTS
  t1 = t1
  t2 = t2
  a1 = a1
  a2 = a2
  a3 = a3
  a4 = a4
  Null = Null
  Threads = {t1, t2}
  Addrs = {a1, a2, a3, a4}
  Results = {"too_short"}
  Valid = "valid"
  MaxLost = 1
SYMMETRY MCSymmetry
INVARIANT ReleasedWithPvFree
