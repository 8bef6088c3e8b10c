SPECIFICATION Spec
CONSTANTS
  Lengths = {2, 6, 7}
  BufSize = 6
  MaxFrames = 4
INVARIANTS LagBounded ClosedForCause
PROPERTY PatientServed
CHECK_DEADLOCK FALSE
