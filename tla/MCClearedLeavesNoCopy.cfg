SPECIFICATION GallerySpec
CONSTANTS
  Strips = {s1}
  MaxLinks = 1
  NoStrip = NoStrip
  Callers = {c1}
  MaxMishaps = 0
INVARIANT ClearedLeavesNoCopy
\* Nothing happens until the next request.
CHECK_DEADLOCK FALSE
