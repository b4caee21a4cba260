CONSTANTS
  Channels = {0}
  FirstNote = 60
  LastNote = 60
  Velocities = {100}
  Values = {0, 127}
  Controllers = {1, 7}
  Bends = {0, 8192, 16383}
  Transports = {"clk"}
SPECIFICATION Spec
INVARIANT SizeAsAsked
