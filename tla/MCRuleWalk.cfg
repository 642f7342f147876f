SPECIFICATION FairSpec
CONSTANTS
  a = a
  b = b
  c = c
  leaf = leaf
  bad = bad
  t1 = t1
  t2 = t2
  Types <- MCTypes
  Fields <- MCFields
  Good <- MCGood
  Threads <- MCThreads
  NoType = NoType
INVARIANTS
  TypeOK
  CompiledSound
  WalkComplete
PROPERTIES
  ImplementsOracle
  CallsReturn
