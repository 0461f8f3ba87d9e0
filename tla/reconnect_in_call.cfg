CONSTANTS
  c1 = c1
  c2 = c2
  c3 = c3
  c4 = c4
  c5 = c5
  c6 = c6
  None = None
  Links = {c1, c2, c3, c4, c5}
  Attempts = 2
  Challenges = 2
  Troubles = {"answer", "call"}
  MaxTrouble = 2
SPECIFICATION Spec
PROPERTY CallKeepsLink
