CONSTANTS
  S = 2
  IndexRange = 8
  Values = {v1, v2}
  Junk = Junk
  Probe = "size"
SPECIFICATION FairSpec
INVARIANT TypeOK
INVARIANT NoOverrun
INVARIANT NoSharedSlot
PROPERTY ImplementsFifo
PROPERTY Drains
