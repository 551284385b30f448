CONSTANTS
  None = None
  u = u
  v = v
  User <- Users
  Request = {p, q, s}
  MaxReview = 3
  MaxKey = 3
  OwnerAtStart <- Owners
  KeysAtStart <- Keys
  Calls <- EditCalls
SPECIFICATION FairSpec
INVARIANTS
  TypeOK
  RowsHaveReviews
  PhotosKeepObjects
  ListsMixOnlyWithoutColumns
  UpdateOKShowsPhotos
  ServingsAreWhole
PROPERTIES
  Answered
\* One arrival per request: once all are answered nothing is left to do.
CHECK_DEADLOCK FALSE
