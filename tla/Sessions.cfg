CONSTANTS
  None = None
  Malformed = Malformed
  Unset = Unset
  u = u
  strong = strong
  default = default
  dev = dev
  DefaultJWTSecret = default
  Request = {p, q}
  User <- Users
  Secret <- Secrets
  Envs <- SomeEnvs
  DevRuns <- SomeDevRuns
  AppleTokens <- SomeAppleTokens
  Hour = 2
  Quarter = 1
  Month = 3
  FetchTime = 1
  MaxTime = 3
  MaxKid = 2
  MaxRestart = 1
SPECIFICATION FairSpec
INVARIANTS
  TypeOK
  SignInsAreVouched
PROPERTIES
  RejectedKeysAreNewOrOld
  QuietSessionsEnd
  Answered
\* One arrival per request, and a clock that ends: then nothing is left to do.
CHECK_DEADLOCK FALSE
