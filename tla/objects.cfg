CONSTANTS
  Event = {e1, e2, e3}
  Queue = {q1, q2}
  Ctx = Ctx
  None = None
  MaxHeld = 2
  Retained = {e1, e2, e3}
SPECIFICATION Spec
CHECK_DEADLOCK FALSE
SYMMETRY Interchangeable
INVARIANTS TypeOK Accounting NoDangling DependentsThere
