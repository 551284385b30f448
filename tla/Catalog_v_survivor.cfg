CONSTANTS
  None = None
  Same = Same
  Blank = Blank
  User = {"u", "v"}
  Name = {"ipa", "porter"}
  Brewery = {"brew"}
  Style = {"hazy", "west", "lager"}
  Spelling = {"lower", "UPPER"}
  Request = {a, b}
  Admin = {a, b}
  MaxId = 2
  Seeds <- UnusedSeeds
  UserCalls <- NoCalls
  AdminCalls <- OppositeMerges
  ConnectionsBreak = FALSE
SPECIFICATION Spec
PROPERTIES
  MergeLeavesSurvivor
\* One arrival per request: once all are answered nothing is left to do.
CHECK_DEADLOCK FALSE
