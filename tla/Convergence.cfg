SPECIFICATION ConvergenceSpec
CONSTANTS
  x = x
  a = a
  b = b
  MayStick = TRUE
  NoLabels = NoLabels
  Specs = {s1}
  LabelSets <- TwoLabelSets
  MaxRelabels = 2
  MaxEdits = 0
  PromptListener = TRUE
  MayAbort = TRUE
PROPERTIES Converges
