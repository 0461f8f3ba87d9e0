CONSTANTS
  o1 = o1
  o2 = o2
  i1 = i1
  i2 = i2
  h1 = h1
  None = None
  Outgoing = {o1}
  Incoming = {i1}
  Views = {}
  Offers = {}
  Foreign = {}
  Hangups = {h1}
  LongCalls = FALSE
  Yields = {"emit"}
  SendFails = FALSE
  Reinvites = {}
  Lossy = {"BYE", "lone BYE"}
  MaxLoss = 2
SPECIFICATION FairSpec
PROPERTY HangupCloses
\* All callers and the panel may stay quiet: the system may stop.
CHECK_DEADLOCK FALSE
