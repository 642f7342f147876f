SPECIFICATION Spec
CONSTANTS
  well = well
  newer = newer
  dep = dep
  top = top
  orphan = orphan
  other = other
  NWell = NWell
  NDep = NDep
  NTop = NTop
  NOrphan = NOrphan
  NMissing = NMissing
  old = old
  oldcopy = oldcopy
  new = new
  addr = addr
  user = user
  badrule = badrule
  lost = lost
  stranger = stranger
  TOld = TOld
  TNew = TNew
  TAddr = TAddr
  TUser = TUser
  TBadRule = TBadRule
  TLost = TLost
  Old = Old
  New = New
  Addr = Addr
  User = User
  BadRule = BadRule
  Lost = Lost
  Stranger = Stranger
  String = String
  t1 = t1
  t2 = t2
  NoThread = NoThread
  WriterPreference = FALSE
  NoFile = NoFile
  NoCall = NoCall
  Files <- MCFiles
  FileNames <- MCFileNames
  NameOf <- MCNameOf
  Imports <- MCImports
  Types <- MCTypes
  Fields <- MCFields
  Good <- MCGood
  TypeNames <- MCTypeNames
  TypeName <- MCTypeName
  Home <- MCHome
  MessageClasses <- MCMessageClasses
  Classes <- MCClasses
  Descriptor <- MCDescriptor
  Payloads <- MCPayloads
  Pool <- MCPool
  Loaded <- MCLoaded
  BadFiles = {}
  Mismatched = {}
  Linked = {well}
  Calls <- MCStrangerCalls
  Threads <- MCThreads2
INVARIANTS
  OwnRules
