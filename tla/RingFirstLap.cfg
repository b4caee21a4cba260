CONSTANTS
  S = 3
  IndexRange = 8
  Values = {v1, v2}
  Junk = Junk
  Probe = "empty"
SPECIFICATION FairBeforeWrapSpec
INVARIANT IInv
INVARIANT EmptyIsExact
PROPERTY Drains
