CONSTANTS
  Torrents = {m1, f1}
  Magnets = {m1}
  Callers = {c1}
  RestThreads = {}
  MaxAdds = 2
  MaxCrashes = 0
  None = None
  Unstored = {}
  Crowded = {}
SPECIFICATION Spec
INVARIANT OnlyLateAlertsAreSkipped
