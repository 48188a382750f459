SPECIFICATION MCFairSpec
CONSTANTS
  receipt = receipt
  proof = proof
  received = received
  all = all
  photo = photo
  ann = ann
  ben = ben
  e1 = e1
  e2 = e2
  e3 = e3
  e4 = e4
  e5 = e5
  None = None
  Requests = {request1, request2}
  Workers = {request1, request2}
  Contents = {body1}
  TaskFiles = {proof}
  Quota = 3
  MaxStarted = 4
  MaxBodies = 1
  MaxCrashes = 2
  Files = {file1}
  MAX_ATTEMPTS = 3
  NJobs = 2
  MaxActive = 3
  Batch = 1
  MaxDeaths = 1
  Events = {e1, e2, e3, e4}
  Subjects = {ann, ben}
  Limit = 3
  MaxBinds = 1
  PageSize = 1
INVARIANTS
  VerdictIsTrue
PROPERTIES
  VerdictsStand
  ServerGetsOn
  PagesGetOn
CHECK_DEADLOCK FALSE
