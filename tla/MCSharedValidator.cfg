SPECIFICATION FairSpec
CONSTANTS
  t1 = t1
  t2 = t2
  t3 = t3
  a = a
  b = b
  Threads = {t1, t2, t3}
  NoThread = NoThread
  Validators = {v1, v2, v3, v4}
  NoValidator = NoValidator
  Classes = {a, b}
  Calls <- MCCalls
  NoCall = NoCall
  Forkers = {t1}
INVARIANTS
  TypeOK
  OneForAll
PROPERTIES
  ServesAsOne
  CallsReturn
