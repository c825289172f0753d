CONSTANTS
  Host     = {h1, h2}
  Worker   = w
  Queue    = {q1}
  InOrder  = {q1}
  Event    = {1, 2}
  Kind     = {"Marker", "Copy"}
  Api      = {"Finish"}
  None     = None
  MaxCalls = 2
  MaxWait  = 1
SPECIFICATION FairSpec
CHECK_DEADLOCK FALSE
PROPERTIES FinishEnds
