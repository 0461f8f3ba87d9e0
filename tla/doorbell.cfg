CONSTANTS
  v1 = v1
  v2 = v2
  None = None
  Controllers = {c1, c2}
  PairFailures = 2
  PairFaults = {"save", "crash"}
  MaxCodes = 4
  MaxHeld = 2
  TalkFailures = 2
  LoudFrames = 2
  MaxVoice = 5
  MaxDecoders = 3
  MaxRings = 3
  MaxSims = 2
  AwayOn = TRUE
  MaxFrames = 2
  MaxViews = 2
  Better = TRUE
  FileFaults = {"disk"}
  Chosen = {"watched", "unloaded", "two_views", "answers", "pairing", "talk", "rings", "bad_disk", "files"}
SPECIFICATION Spec
INVARIANT SessionsInOrder
INVARIANT CodeAndTalk
INVARIANT RingsTold
INVARIANT PicturesOfRing
PROPERTY KeepsToItsOwn
\* No more visitors and no more views: the system may stop.
CHECK_DEADLOCK FALSE
