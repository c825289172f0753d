CONSTANTS
  Host     = {h1, h2}
  Worker   = w
  Queue    = {q1}
  InOrder  = {q1}
  Event    = {1, 2}
  Kind     = {"Kernel"}
  Api      = {"Flush", "Finish"}
  None     = None
  MaxCalls = 2
  MaxWait  = 0
SPECIFICATION FairSpec
CHECK_DEADLOCK FALSE
PROPERTIES FlushPushes EmptyMeansFinished EveryEventEnds FlushEnds FinishEnds
