SPECIFICATION FairSpec
CONSTANTS
  s1 = s1
  s2 = s2
  e1 = e1
  e2 = e2
  Sessions = {s1}
  Events = {e1}
  EventOf <- Solo
  Ops = {}
  QueueCap = 1
  MaxRetries = 2
  MaxFaults = 3
  MaxCrashes = 0
  MaxTaps = 1
  None = None
  Stop = Stop
PROPERTIES
  UploadsWhenCloudReturns
