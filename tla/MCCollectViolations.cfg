SPECIFICATION CollectSpec
CONSTANTS
  t1 = t1
  t2 = t2
  a1 = a1
  a2 = a2
  a3 = a3
  Null = Null
  Threads = {t1, t2}
  Addrs = {a1, a2, a3}
  Results = {"v1", "v3", "v4", "v5", "v7", "v8", "v9", "v10"}
  Valid = "valid"
  MaxLost = 1
  Fields <- MCFields
  Oneofs <- MCOneofs
  MaxDepth = 3
  Callers = {t1}
  Messages = {"full", "edited", "bare"}
  Content <- MCContent
  Decoded <- MCDecoded
  OthersGet <- MCOthersGet
SYMMETRY MCSymmetry
INVARIANTS
  TypeOK
  NothingDangles
  NothingForgotten
  
  ValueIsOffending
  ValueIsAtPath
