SPECIFICATION RulesSpec
CONSTANTS
  t1 = t1
  c1 = c1
  s1 = s1
  empty = empty
  filled = filled
  None = None
  Blank = "blank"
  NoTask = NoTask
  NoFile = NoFile
  Tasks = {t1}
  Files = {}
  Criteria = {c1}
  Forms = {empty, filled}
  Complete = {filled}
  DocTypes = {}
  Required <- MCRequired
  FileTask <- MCFileTask
  FileType <- MCFileType
  AllowLate = TRUE
  AllowWithdrawal = TRUE
  MaxTime = 1
  MaxVersion = 9
  Supervisors = {s1}
  ByAmount <- MCByAmount
  ByDocument <- MCByDocument
  Names = {"n1", "n2"}
  Ids = {"i1", "i2"}
  Dates = {"d1", "d2"}
  Junk = "junk"
  MaxFront = 3
  MaxBack = 6
  Typed <- MCDates
  Someday <- MCOneDate
  Today <- MCToday
INVARIANTS
  EtagNamesContent
  RulesNeverGuess
PROPERTIES
  DecidedOnWhatWasSeen
CHECK_DEADLOCK FALSE
