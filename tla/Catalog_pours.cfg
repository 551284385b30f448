CONSTANTS
  None = None
  Same = Same
  Blank = Blank
  User = {"u", "v"}
  Name = {"ipa", "porter"}
  Brewery = {"brew"}
  Style = {"hazy", "west", "lager"}
  Spelling = {"lower", "UPPER"}
  Request = {a, p, q}
  Admin = {a}
  MaxId = 4
  Seeds <- PoursSeeds
  UserCalls <- PoursUserCalls
  AdminCalls <- PoursAdminCalls
  ConnectionsBreak = TRUE
SPECIFICATION Spec
INVARIANTS
  TypeOK
  ReviewsHaveBeers
  NothingLeftOpen
  UpdateOKMeansApplied
PROPERTIES
  MergeLeavesSurvivor
\* One arrival per request: once all are answered nothing is left to do.
CHECK_DEADLOCK FALSE
