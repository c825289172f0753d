CONSTANTS
  Host    = {h1, h2}
  Creator = {h1}
  Worker  = {w1, w2}
  Event   = {1, 2, 3, 4}
  None    = None
SPECIFICATION FairSpec
CHECK_DEADLOCK FALSE
INVARIANTS IInv KernelMutexFree
PROPERTIES StopIsFinal ImplementsService EventsServed
