CONSTANTS
  None = None
  Blank = Blank
  p = p
  Reader = {p}
  User = {"u", "v"}
  Id = {1, 2, 3}
  Beer <- Beers
  Review <- Pours
  Seeds <- Start
  Calls <- SomeCalls
  Conns = 1
  MaxInt = 7
  MaxPerPage = 3
  DefaultPerPage = 2
  MaxPage = 3
  MaxWrites = 2
SPECIFICATION FairReads
INVARIANTS
  TypeOK
  PagesFitTotals
  WalksMissOnlyShifted
PROPERTIES
  PrivatePhotosNeedARace
  Answered
\* A reader's request ends, and the writes are bounded.
CHECK_DEADLOCK FALSE
