CONSTANTS
  SeqMod = 10
  Window = 3
  ResyncRun = 2
  PastRun = 3
  None = None
  Networks = {"reordered", "in_order", "strays"}
  Starts = {0, 7}
  MaxIndex = 40
  MaxReordered = 12
  MaxJumps = 1
  Flight = 2
SPECIFICATION PacketsSpec
INVARIANT TypeOK
INVARIANT ShortLoss
PROPERTY TakenOnce
PROPERTY NoFalseRepeat
INVARIANT PhoneMedia
PROPERTY PicturesDecode
PROPERTY VoiceInTime
\* The stream ends: the system may stop.
CHECK_DEADLOCK FALSE
