SPECIFICATION LoginsSpec
CONSTANTS
  sam = sam
  e1 = e1
  e2 = e2
  e3 = e3
  e4 = e4
  None = None
  Challenges = {challenge1, challenge2}
  Requests = {request1, request2}
  MaxStep = 2
  MaxAttempts = 2
  MaxCodes = 3
  Identities = {ann, ben}
  MaxTime = 4
  Window <- MCWindow
  Allowed <- MCAllowed
  Accounts = {ann, ben}
  Subjects = {line1, line2}
  Messages = {message1}
  MaxLinks = 3
  MaxCalls = 2
  Events = {e1, e2, e3, e4}
  Senders = {sam}
  Kind <- MCKind
  At <- MCAt
  Subject <- MCSubject
  Workers = {request1, request2}
  Limit = 2
  MaxBinds = 2
SYMMETRY MCSymmetry
INVARIANTS
  LetsInOnce
  TriesAreCounted
  LinksAreTrue
PROPERTIES
  NoLoginWhenDisabled
  CountedOnce
CHECK_DEADLOCK FALSE
