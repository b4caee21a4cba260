CONSTANTS
  MaxElements = 3
  PanelKinds = {"ImageElement", "Knob", "EncoderRGB", "JackInput", "JackOutput", "DualLight", "RgbLight", "DynamicGraphicDisplay", "SliderLight", "AltParamChoice", "TextDisplay"}
  Values = {0, 1}
SPECIFICATION Spec
INVARIANT OnlyItselfMatches
PROPERTY ImplementsPanel
