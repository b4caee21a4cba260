CONSTANTS
  Inputs = {"in1"}
  Outputs = {"out1"}
  Volts = {0, 1}
  Unplugged = Unplugged
  Routes <- OneOutTwoRoutes
  MaxPolyChannels = 2
  LateInput = TRUE
SPECIFICATION Spec
PROPERTY LikeSmartCore
