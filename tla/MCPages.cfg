SPECIFICATION PagesSpec
CONSTANTS
  one = one
  two = two
  ann = ann
  ben = ben
  received = received
  all = all
  None = None
  Mounts = {1}
  Cases = {case1, case2}
  Existing = {}
  MaxClicks = 2
  MaxVersion = 3
  MaxLate = 1
  Forms = {form1, form2}
  Empty = form1
  Complete = {form1, form2}
  Files = {file1}
  Tabs = {one, two}
  Drafts = {case1}
  MaxSubmits = 1
  MaxSaves = 2
  MaxDelayed = 0
  Accounts = {ann, ben}
  Sessions = {1, 2, 3}
  OwnerOf <- MCLogins
  MaxAnswers = 2
  Listed = {1, 2, 3}
  Filters = {received, all}
  InboxFilter = received
  FilterShows <- MCShows
  PageSize = 1
  MaxWaiting = 2
  Criteria = {criterion1}
  Sources = {file1}
  MaxReviews = 5
  Tasks = {1, 2}
  TaskBodies = {one, two}
  Actions = {"accept", "reopen", "revise", "cancel"}
  MaxChanges = 4
  MaxKey = 2
  Followed = {one, two}
  MaxSelected = 1
  Images = {one, two}
  Jobs = {1, 2}
  Callers = {one, two}
  Scripts = {1, 2, 3}
  MaxCalls = 2
SYMMETRY MCSymmetry
INVARIANTS
  SubmittedAsConfirmed
  SentAsConfirmed
  ShownIsCurrent
PROPERTIES
  ReceiptIsOwn
  ActedAsSeen
CHECK_DEADLOCK FALSE
