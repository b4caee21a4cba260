CONSTANTS
  Inputs = {"in1", "in2"}
  Outputs = {"out1"}
  Volts = {0, 1}
  Unplugged = Unplugged
  Routes <- OneOutTwoRoutes
  MaxPolyChannels = 2
  LateInput = FALSE
SPECIFICATION Spec
INVARIANT UnpatchedSilent
PROPERTY LikeSmartCore
