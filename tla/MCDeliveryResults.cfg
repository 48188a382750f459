SPECIFICATION PromptSpec
CONSTANTS
  w1 = w1
  w2 = w2
  NoOne = NoOne
  Gone = Gone
  Workers = {w1, w2}
  MAX_ATTEMPTS = 2
  MaxMishaps = 3
SYMMETRY MCSymmetry
PROPERTIES
  ResultsStand
CHECK_DEADLOCK FALSE
