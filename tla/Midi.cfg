CONSTANTS
  Channels = {0, 1}
  FirstNote = 60
  LastNote = 61
  Velocities = {0, 100}
  Values = {127}
  Controllers = {1}
  Bends = {8192, 16383}
  Transports = {"clk"}
SPECIFICATION Spec
INVARIANT TypeOK
INVARIANT NoStuckNote
INVARIANT RemembersTruly
PROPERTY EndsForAReason
