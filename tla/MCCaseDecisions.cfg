SPECIFICATION Spec
CONSTANTS
  t1 = t1
  t2 = t2
  fa = fa
  fb = fb
  c1 = c1
  empty = empty
  filled = filled
  receipt = receipt
  NoTask = NoTask
  NoFile = NoFile
  Tasks = {t1}
  Files = {fa, fb}
  Criteria = {c1}
  Forms = {empty, filled}
  Complete = {filled}
  DocTypes = {receipt}
  Required <- MCRequired
  FileTask <- MCFileTask
  FileType <- MCFileType
  AllowLate = FALSE
  AllowWithdrawal = TRUE
  MaxTime = 1
  MaxVersion = 12
INVARIANTS
  TypeOK
  DecisionsAreFounded
  DecisionChain
  OutcomeMatchesReview
  EvidenceIsSubmittedAndClean
  ReceivedOnceAndComplete
CHECK_DEADLOCK FALSE
