\* One caller thread, three selections among two torrents of two files.
CONSTANTS
  Torrents = {t1, t2}
  Files = {f1, f2}
  Pieces = {p1}
  Callers = {c1}
  Connections = {h1}
  MaxSelections = 3
  None = None
SYMMETRY Interchangeable
SPECIFICATION Spec
INVARIANTS TypeOK TableIsLive CancelledBeforeDestroyed
           TablesAgree AvailabilityIsSound
PROPERTY KeepsDirectory
