SPECIFICATION Spec
CONSTANTS
  Requests = {slider, button}
  Values = {neutral, other}
  Default = neutral
  MaxUpdates = 3
  MaxResets = 2
  MaxStops = 1
  Timer = Timer
  None = None
SYMMETRY Symmetry
INVARIANTS
  SavedWhenQuiet
  ControlsFollow
\* Nothing happens until the next request.
CHECK_DEADLOCK FALSE
