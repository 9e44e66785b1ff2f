SPECIFICATION Spec
CONSTANTS
  x = x
  a = a
  b = b
  MayStick = FALSE
  NoLabels = NoLabels
  Specs = {s1}
  LabelSets <- TwoLabelSets
  MaxRelabels = 2
  MaxEdits = 1
  PromptListener = TRUE
  MayAbort = TRUE
SYMMETRY LabelSymmetry
INVARIANTS TemplatesBacked
PROPERTIES NoQueueGap TargetKept PatientDrain
