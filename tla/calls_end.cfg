CONSTANTS
  o1 = o1
  o2 = o2
  i1 = i1
  i2 = i2
  h1 = h1
  None = None
  Outgoing = {o1}
  Incoming = {i1}
  Views = {}
  Offers = {i1}
  Foreign = {}
  Hangups = {h1}
  LongCalls = TRUE
  Yields = {"stop"}
  SendFails = FALSE
  Reinvites = {i1}
  Lossy = {"INVITE", "200", "final"}
  MaxLoss = 1
SPECIFICATION FairSpec
INVARIANT TypeOK
INVARIANT LineExclusive
INVARIANT HandlerInv
INVARIANT NoOrphanMedia
INVARIANT EndsAreSet
PROPERTY FinalIsFinal
PROPERTY KeepsToTheLine
PROPERTY LineFreed
\* All callers and the panel may stay quiet: the system may stop.
CHECK_DEADLOCK FALSE
