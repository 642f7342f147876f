SPECIFICATION FairForkSpec
\* A child that inherits a lock nobody will release does stop.
CHECK_DEADLOCK FALSE
CONSTANTS
  base = base
  dep = dep
  NBase = NBase
  NDep = NDep
  addr = addr
  badrule = badrule
  TAddr = TAddr
  TBadRule = TBadRule
  Addr = Addr
  BadRule = BadRule
  t1 = t1
  t2 = t2
  t3 = t3
  NoThread = NoThread
  WriterPreference = TRUE
  NoFile = NoFile
  NoCall = NoCall
  Files = {base, dep}
  FileNames = {NBase, NDep}
  NameOf <- MCNameOf
  Imports <- MCImports
  BadFiles = {}
  Linked = {}
  Types <- MCTypes
  Fields <- MCFields
  Good = {addr}
  TypeNames = {TAddr, TBadRule}
  TypeName <- MCTypeName
  Home <- MCHome
  Mismatched = {}
  Payloads <- MCPayloads
  Classes = {Addr, BadRule}
  MessageClasses = {Addr, BadRule}
  Descriptor <- MCDescriptor
  Pool <- MCPool
  Loaded <- MCLoaded
  Calls <- MCCalls
  Threads = {t1, t2, t3}
  Forkers = {t1}
INVARIANTS
  EngineTypeOK
  GuardsInSection
  PoolComplete
  NotShutOut
PROPERTIES
  RulesStillWhileHeld
  EveryCallReturns
  RegisteredServeInChild
