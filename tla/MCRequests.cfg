SPECIFICATION RequestsSpec
CONSTANTS
  ann = ann
  ben = ben
  case1 = case1
  case2 = case2
  rent = rent
  study = study
  receipt = receipt
  proof = proof
  letter = letter
  None = None
  Sessions = {session1, session2, session3}
  Requests = {request1, request2}
  MaxChanges = 1
  GrantCases = {case1}
  SchemeOf <- MCSchemeOf
  ClaimCases = {case1, case2}
  Creator <- MCCreator
  Files = {receipt, proof, letter}
  Size <- MCSize
  Schemes = {rent, study}
  Roles = {"reviewer", "supervisor"}
  MaxGrants = 2
  MaxTime = 1
  NClaims = 2
  MaxPending = 2
  Handlers = {handler1}
  Accounts = {ann, ben}
  NCases = 2
  Staff = {ann, ben}
  MaxVersion = 2
  NJobs = 2
  Workers = {request1, request2}
  MaxActive = 3
  Batch = 2
  MaxDeaths = 1
  Contents = {body1, body2}
  MaxEffects = 2
  TaskFiles = {proof}
  Quota = 2
  MaxStarted = 4
  MaxBodies = 2
  MaxCrashes = 1
SYMMETRY MCSymmetry
INVARIANTS
  SessionsEnd
  AuthorityIsGiven
  DoneAsTold
PROPERTIES
  RevokedStays
  DecidedStands
CHECK_DEADLOCK FALSE
