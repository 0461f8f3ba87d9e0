CONSTANTS
  MaxRings = 2
  MaxFrames = 1
  MaxViews = 0
  Better = FALSE
  Faults = {"soon"}
  None = None
SPECIFICATION Spec
INVARIANT NotifiesOwn
\* No more visitors: the system may stop.
CHECK_DEADLOCK FALSE
