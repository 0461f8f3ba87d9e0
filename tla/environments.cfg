CONSTANTS
  o1 = o1
  o2 = o2
  i1 = i1
  i2 = i2
  h1 = h1
  None = None
SPECIFICATION Spec
INVARIANT CallIsWhole
INVARIANT NeighboursAgree
PROPERTY RefinesLine
\* All callers and the panel may stay quiet: the system may stop.
CHECK_DEADLOCK FALSE
