SPECIFICATION EngineSpec
CONSTANTS
  well = well
  dep = dep
  top = top
  m = m
  x = x
  a = a
  t1 = t1
  t2 = t2
  Types <- MCTypes
  Fields <- MCFields
  Good <- MCGood
  Threads <- MCThreads2
  NoThread = NoThread
  WriterPreference = FALSE
  Files <- MCFiles
  FileNames <- MCFiles
  NameOf <- MCNameOf
  Imports <- MCImports
  BadFiles <- MCBadFiles
  Linked <- MCLinked
  TypeNames <- MCTypes
  TypeName <- MCTypeName
  Home <- MCHome
  Payloads <- MCPayloads
  Mismatched = {}
INVARIANTS
  FilesNeedNoOrder
