CONSTANTS
  c1 = c1
  c2 = c2
  s1 = s1
  \* A client of the standby (c2) leaves under asyncio.shield; one client (c1) is slow.
  Clients = {c1, c2}
  Shielded = {c2}
  Slow = {c1}
  Stops = {s1}
  Grace = Grace
  MaxProcs = 3
  MaxCalls = 1
  Cuttable = {"sub", "reap", "replace", "sdp", "spawn", "listen", "autopsy", "stop"}
  Laggards = {c2}
  Unload = Unload
  MaxRuns = 2
  MaxLive = 1
  StandbyCuttable = {"sub", "encoder"}
  None = None
SPECIFICATION FairSpec
INVARIANT TypeOK
INVARIANT NoneLeftRunning
PROPERTY Served
PROPERTY NobodyHangs
\* Nobody may come any more: the system may stop.
CHECK_DEADLOCK FALSE
