SPECIFICATION Spec
CONSTANTS
  t1 = t1
  t2 = t2
  fa = fa
  fb = fb
  c1 = c1
  empty = empty
  filled = filled
  receipt = receipt
  NoTask = NoTask
  NoFile = NoFile
  Tasks = {t1, t2}
  Files = {}
  Criteria = {c1}
  Forms = {empty, filled}
  Complete = {filled}
  DocTypes = {receipt}
  Required <- MCNothingRequired
  FileTask <- MCFileTask
  FileType <- MCFileType
  AllowLate = TRUE
  AllowWithdrawal = TRUE
  MaxTime = 1
  MaxVersion = 14
PROPERTIES
  KeepsItsPromises
CHECK_DEADLOCK FALSE
