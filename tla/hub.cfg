CONSTANTS
  v1 = v1
  v2 = v2
  v3 = v3
  Views = {v1, v2, v3}
  HomeKit = {v2}
  User = User
  None = None
  MaxTries = 2
  Casts <- Pairs
  ModeCases <- TheModes
  SearchCases <- TheSearches
  MessageCases <- TheMessages
  Msgs = {"m1", "m2"}
  Window = 2
  MaxTime = 5
  Setters = {"s1", "s2"}
  Values = {10, 20, 30}
  MaxHands = 1
  Phones = {"c1", "c2"}
  Gop <- TheGop
  Limit = 2
  MaxVideo = 7
  MaxVoice = 2
SPECIFICATION HubSpec
INVARIANT HubTyped
INVARIANT GuardEnds
INVARIANT OneDelayed
INVARIANT UnwatchedHasHangup
PROPERTY NoDyingCall
INVARIANT PlantAnswers
INVARIANT MessagesOnce
INVARIANT PhonesServed
\* Every view, hang-up, message and phone comes once: the system may stop.
CHECK_DEADLOCK FALSE
