CONSTANTS
  Host     = {h1}
  Worker   = w
  Queue    = {q1}
  InOrder  = {}
  Event    = {1, 2, 3, 4}
  Kind     = {"Kernel", "Barrier", "WaitForEvents", "User"}
  Api      = {"SetUser"}
  None     = None
  MaxCalls = 5
  MaxWait  = 2
SPECIFICATION Spec
CHECK_DEADLOCK FALSE
INVARIANTS IInv BarriersHold WaitListsHold
PROPERTIES ImplementsOrder ImplementsDevice
