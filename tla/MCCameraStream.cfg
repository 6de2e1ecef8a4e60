SPECIFICATION FairSpec
CONSTANTS
  Viewers = {kiosk}
  Looks = {clean, warm}
  SavedLook = clean
  ChunkCap = 1
  MaxFailures = 2
  MaxChanges = 1
  MaxCaptures = 1
  MaxStalls = 1
  MaxOpens = 1
  None = None
INVARIANTS
  TypeOK ViewersCounted
PROPERTIES
  CaptureGetsCamera
  UnwatchedRests
  StallRestarts
  LookShows
