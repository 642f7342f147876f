SPECIFICATION FairSpec
CONSTANTS
  r1 = r1
  r2 = r2
  o1 = o1
  o2 = o2
  cc = cc
  cel = cel
  common = common
  oldcc = oldcc
  oldh = oldh
  v1 = v1
  v2 = v2
  None = None
  Refs = {r1, r2}
  Overrides = {o1, o2}
  Configs <- MCConfigs
  Modules = {cc, cel}
  Main = cc
  Pin <- MCPin
  Names <- MCNames
  Headers = {oldh}
  GenOf <- MCGenOf
  Version <- MCVersion
  AbortPlaces = {"relock"}
  MaxAborts = 1
  MaxEdits = 1
INVARIANTS
  LockIsDropped
