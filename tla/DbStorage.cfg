CONSTANTS
  a = a
  b = b
  v = v
  c1 = c1
  c2 = c2
  Null = Null
  Calls = {c1, c2}
  Ids = {a, b}
  Values = {v}
  Half = 4
  Ops <- MCReads
  Attempts = 3
  Delays = 2
SPECIFICATION FairSpec
INVARIANTS TypeOK CountersAddUp AckedIsApplied LocksExclusive
PROPERTY CallsReturn
CHECK_DEADLOCK FALSE
