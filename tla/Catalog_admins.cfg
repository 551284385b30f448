CONSTANTS
  None = None
  Same = Same
  Blank = Blank
  User = {"u", "v"}
  Name = {"ipa", "porter"}
  Brewery = {"brew"}
  Style = {"hazy", "west", "lager"}
  Spelling = {"lower", "UPPER"}
  Request = {a, b, p}
  Admin = {a, b}
  MaxId = 4
  Seeds <- AdminsSeeds
  UserCalls <- AdminsUserCalls
  AdminCalls <- AdminsAdminCalls
  ConnectionsBreak = FALSE
SPECIFICATION FairSpec
INVARIANTS
  LockDiscipline
  WorkInOrder
  MergeOKMeansMerged
  DedupeLeavesNoDuplicates
PROPERTIES
  OnlyLatePoursAreLost
  KeepsPromise
  Answered
\* One arrival per request: once all are answered nothing is left to do.
CHECK_DEADLOCK FALSE
