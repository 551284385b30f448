CONSTANTS
  None = None
  Any = Any
  Blank = Blank
  old = old
  new = new
  app = app
  web = web
  other = other
  Server <- Servers
  Origin <- Origins
  Release <- Releases
  OriginTexts <- Texts
  Request = {p, q}
  Attempts = 2
  Grace = 1
SPECIFICATION FairSpec
INVARIANTS
  TypeOK
  ServesMigrated
  OriginsRead
PROPERTIES
  DrainsRequests
  Settles
\* Processes live once: when all have ended and no request is left, nothing happens.
CHECK_DEADLOCK FALSE
