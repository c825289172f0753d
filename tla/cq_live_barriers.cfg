CONSTANTS
  Host     = {h1}
  Worker   = w
  Queue    = {q1}
  InOrder  = {}
  Event    = {1, 2, 3}
  Kind     = {"Copy", "Barrier"}
  Api      = {"Flush", "Finish", "Wait"}
  None     = None
  MaxCalls = 4
  MaxWait  = 1
SPECIFICATION FairSpec
CHECK_DEADLOCK FALSE
PROPERTIES WaitEnds
