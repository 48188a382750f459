SPECIFICATION Spec
CONSTANTS
  t1 = t1
  t2 = t2
  fa = fa
  fb = fb
  c1 = c1
  empty = empty
  filled = filled
  receipt = receipt
  NoTask = NoTask
  NoFile = NoFile
  Tasks = {t1, t2}
  Files = {fb}
  Criteria = {c1}
  Forms = {empty, filled}
  Complete = {filled}
  DocTypes = {receipt}
  Required <- MCNothingRequired
  FileTask <- MCFileTask
  FileType <- MCFileType
  AllowLate = FALSE
  AllowWithdrawal = TRUE
  MaxTime = 2
  MaxVersion = 10
INVARIANTS
  AcceptedIsCurrent
  ReceiptsMeetTheirRevision
  RemindersAreCurrent
CHECK_DEADLOCK FALSE
