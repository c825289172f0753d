CONSTANTS
  t1 = t1
  t2 = t2
  d1 = d1
  d2 = d2
  Host = Host
  Null = Null
  Thread <- MCThread
  Device <- MCDevice
  Uses   <- Shared
  Buffer = {b1}
  Kinds  = {"copy"}
  Ops    = {"Write"}
  Offsets = {0}
  BaseStarts = {0}
  MaxGlobalAddr = 10
  MaxCommands = 3
  Modulus = 4
SPECIFICATION Spec
CHECK_DEADLOCK FALSE
INVARIANTS CopyHasSource
