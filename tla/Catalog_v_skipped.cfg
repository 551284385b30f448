CONSTANTS
  None = None
  Same = Same
  Blank = Blank
  User = {"u", "v"}
  Name = {"ipa", "porter"}
  Brewery = {"brew"}
  Style = {"hazy", "west", "lager"}
  Spelling = {"lower", "UPPER"}
  Request = {a, b, p}
  Admin = {a, b}
  MaxId = 4
  Seeds <- AdminsSeeds
  UserCalls <- DedupeUserCalls
  AdminCalls <- DedupeAdminCalls
  ConnectionsBreak = TRUE
SPECIFICATION Spec
INVARIANTS
  DedupeLeavesNoDuplicates
\* One arrival per request: once all are answered nothing is left to do.
CHECK_DEADLOCK FALSE
