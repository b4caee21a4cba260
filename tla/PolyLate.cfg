CONSTANTS
  Inputs = {"in1"}
  Outputs = {"out1", "out2"}
  Volts = {0, 1}
  Unplugged = Unplugged
  Routes <- OneOutTwoRoutes
  MaxPolyChannels = 3
  LateInput = TRUE
SPECIFICATION Spec
INVARIANT TypeOK
INVARIANT CountsFollowCables
INVARIANT PresentCable
