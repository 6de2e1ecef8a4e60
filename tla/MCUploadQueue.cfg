SPECIFICATION FairSpec
CONSTANTS
  Sessions = {s1, s2, s3}
  Enqueuers = {finalize, rescan}
  QueueCap = 2
  None = None
  Stop = Stop
INVARIANTS
  TypeOK
  OneHolder
  InflightExact
PROPERTIES
  ImplementsLedger
  Drains
