CONSTANTS
  Host     = {h1, h2}
  Worker   = w
  Queue    = {q1}
  InOrder  = {q1}
  Event    = {1, 2, 3}
  Kind     = {"Copy", "Kernel", "Marker", "User"}
  Api      = {"SetUser"}
  None     = None
  MaxCalls = 2
  MaxWait  = 1
SPECIFICATION Spec
CHECK_DEADLOCK FALSE
INVARIANTS InOrderExecution OnDeviceOnce NoneDropped
