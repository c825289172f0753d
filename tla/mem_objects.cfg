CONSTANTS
  t1 = t1
  t2 = t2
  d1 = d1
  d2 = d2
  Host = Host
  Null = Null
  Thread <- MCThread
  Device <- MCDevice
  Uses   <- Apart
  Buffer = {b1, b2}
  Kinds  = {"copy", "host", "sub"}
  Ops    = {"Read", "Write", "Copy", "Map", "Kernel"}
  Offsets = {0}
  BaseStarts = {0, 10}
  MaxGlobalAddr = 10
  MaxCommands = 3
  Modulus = 4
SPECIFICATION Spec
CHECK_DEADLOCK FALSE
SYMMETRY ApartSymmetry
INVARIANTS TypeOK CopyHasSource AliasesHold
PROPERTIES ReadsLatest
