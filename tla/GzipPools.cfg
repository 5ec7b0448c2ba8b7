CONSTANTS
  r1 = r1
  r2 = r2
  r3 = r3
  Requests = {r1, r2, r3}
  Inputs <- MCInputs
  MaxPooled = 3
  None = None
  Discard = Discard
  End = End
SPECIFICATION Spec
INVARIANTS OwnStreams WholeStreams
SYMMETRY Symmetry
CHECK_DEADLOCK FALSE
