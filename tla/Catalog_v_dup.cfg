CONSTANTS
  None = None
  Same = Same
  Blank = Blank
  User = {"u", "v"}
  Name = {"ipa", "porter"}
  Brewery = {"brew"}
  Style = {"hazy", "west", "lager"}
  Spelling = {"lower", "UPPER"}
  Request = {p, q}
  Admin = {}
  MaxId = 2
  Seeds <- EmptySeeds
  UserCalls <- FindOrCreateCalls
  AdminCalls <- NoCalls
  ConnectionsBreak = FALSE
SPECIFICATION Spec
PROPERTIES
  NoNewDuplicates
\* One arrival per request: once all are answered nothing is left to do.
CHECK_DEADLOCK FALSE
