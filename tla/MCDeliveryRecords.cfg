SPECIFICATION Spec
CONSTANTS
  w1 = w1
  w2 = w2
  NoOne = NoOne
  Gone = Gone
  Workers = {w1, w2}
  MAX_ATTEMPTS = 3
  MaxMishaps = 2
SYMMETRY MCSymmetry
INVARIANTS
  TypeOK
  AttemptsAreLogged
  RecordsAreHonest
  DeliveredOnce
PROPERTIES
  FinalIsFinal
  FirstAttemptWasAsked
CHECK_DEADLOCK FALSE
