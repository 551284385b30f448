CONSTANTS
  None = None
  g = g
  h = h
  k = k
  x = x
  y = y
  lower = lower
  upper = upper
  old = old
  new = new
  Request = {p, q, r}
  Identity <- Identities
  Address <- Addresses
  Spelling <- Spellings
  Text <- Texts
  Calls <- AllCalls
  AdminLists <- Lists
  OldUsers <- Users
  MaxUser = 3
  MaxRestart = 1
SYMMETRY Symmetry
SPECIFICATION Spec
INVARIANTS
  TypeOK
  SignInsAgree
  AdminsWereConfigured
  ConfiguredAreAdmins
  PastGateIsAdmin
  ProfilesKeepEdits
\* One arrival per request: once all are answered nothing is left to do.
CHECK_DEADLOCK FALSE
