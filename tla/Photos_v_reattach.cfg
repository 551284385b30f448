CONSTANTS
  None = None
  u = u
  v = v
  User <- Users
  Request = {p, q}
  MaxReview = 3
  MaxKey = 3
  OwnerAtStart <- Owners
  KeysAtStart <- Keys
  Calls <- ResaveCalls
SPECIFICATION Spec
PROPERTIES
  DeletedObjectsHaveNoRows
\* One arrival per request: once all are answered nothing is left to do.
CHECK_DEADLOCK FALSE
