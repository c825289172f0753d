CONSTANTS
  p1 = p1
  p2 = p2
  n1 = n1
  n2 = n2
  d1 = d1
  d2 = d2
  Thread = {t1, t2}
  Builder = {t1}
  Device = {d1, d2}
  Program <- MCProgram
  For <- MCFor
  Kernel = {k1, k2}
  Name <- MCName
  Has <- MCHas
  Args = {v1, v2}
  Command = {c1, c2}
  None = None
  MaxSets = 1
SPECIFICATION Spec
CHECK_DEADLOCK FALSE
SYMMETRY Interchangeable
INVARIANTS TypeOK KernelsOfBuilt
PROPERTIES RunsAsEnqueued
