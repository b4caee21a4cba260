CONSTANTS
  S = 2
  IndexRange = 4
  Values = {v1}
  Junk = Junk
  Probe = "empty"
SPECIFICATION FairSpec
PROPERTY Drains
