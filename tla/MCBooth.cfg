SPECIFICATION Spec
CONSTANTS
  Strips = {s1}
  MaxLinks = 2
  NoStrip = NoStrip
  Callers = {c1, c2}
  MaxMishaps = 1
  PartyEvents = {e1, e2}
  NoEvent = NoEvent
  Settings = {"ssid", "pin"}
  Clerks = {k1, k2}
  MaxChanges = 3
  MaxSaveMishaps = 1
  Custom = {hidden, t1}
  Hidden = hidden
  Parties = {p1, p2}
  NoTemplate = NoTemplate
  Desks = {d1, d2}
  MaxTemplateCuts = 1
  Networks = {n1, n2}
  NoNetwork = NoNetwork
  Attempts = {a1, a2}
  MaxAttempts = 3
  MaxRadioMishaps = 1
  KeySets = {old, new}
  NoKeys = NoKeys
  MaxBootFaults = 2
  MaxBootCuts = 2
  StaleAfter = 9
  CheckInterval = 2
  RestartGap = 12
  MaxPause = 8
  MaxDeaths = 3
  ImageSize = 1
  CardSize = 2
  MaxGrowFaults = 2
  MaxGrowCuts = 2
  MaxUpdates = 3
  Kept = 2
  MaxReleaseMishaps = 2
INVARIANTS
  TypesOK
  LinkOpens RevokedLinksDie DeletedEventOffline CountMatches
  ChangesKept EventTemplateThere NeverStranded OneProfile
  KeysNeverLost ProvisionedIsComplete LivePageSpared DeadPageRestarted
  EngineOnWholeDisk CurrentRuns
PROPERTIES ConcludedExpires LocksDown DiskGrows
\* Nothing happens in some part until the next request.
CHECK_DEADLOCK FALSE
