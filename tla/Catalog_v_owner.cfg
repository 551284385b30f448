CONSTANTS
  None = None
  Same = Same
  Blank = Blank
  User = {"u", "v"}
  Name = {"ipa", "porter"}
  Brewery = {"brew"}
  Style = {"hazy", "west", "lager"}
  Spelling = {"lower", "UPPER"}
  Request = {a, p}
  Admin = {a}
  MaxId = 3
  Seeds <- PoursSeeds
  UserCalls <- PourOfMerged
  AdminCalls <- OneMerge
  ConnectionsBreak = FALSE
SPECIFICATION Spec
PROPERTIES
  OnlyOwnersRemovePours
\* One arrival per request: once all are answered nothing is left to do.
CHECK_DEADLOCK FALSE
