CONSTANTS
  o1 = o1
  o2 = o2
  i1 = i1
  i2 = i2
  h1 = h1
  None = None
  Outgoing = {o1, o2}
  Incoming = {}
  Views = {}
  Offers = {}
  Foreign = {}
  Hangups = {h1}
  LongCalls = FALSE
  Yields = {"stop"}
  SendFails = FALSE
  Reinvites = {}
  Lossy = {}
  MaxLoss = 0
SPECIFICATION Spec
INVARIANT CallKept
\* All callers and the panel may stay quiet: the system may stop.
CHECK_DEADLOCK FALSE
