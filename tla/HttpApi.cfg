CONSTANTS
  a = a
  v = v
  nan = nan
  k = k
  k2 = k2
  r1 = r1
  r2 = r2
  r3 = r3
  Nil = Nil
  NoKey = NoKey
  ServerKey = k
  Requests = {r1, r2, r3}
  Inputs <- MCInputs
  CNames = {a}
  GNames = {a}
  Finite = {v}
  NonFinite = {nan}
  Half = 4
  Attempts = 2
SYMMETRY Symmetry
SPECIFICATION Spec
INVARIANTS CounterReads GaugeReads SignedAccepted
CHECK_DEADLOCK FALSE
