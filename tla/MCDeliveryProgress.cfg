SPECIFICATION FairSpec
CONSTANTS
  w1 = w1
  w2 = w2
  NoOne = NoOne
  Gone = Gone
  Workers = {w1, w2}
  MAX_ATTEMPTS = 2
  MaxMishaps = 1
PROPERTIES
  Settles
CHECK_DEADLOCK FALSE
