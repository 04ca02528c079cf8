CONSTANTS
  Torrents = {t1, t2}
  Files = {f1, f2}
  Pieces = {p1}
  Callers = {c1}
  Connections = {}
  MaxSelections = 3
  None = None
SYMMETRY Interchangeable
SPECIFICATION Spec
INVARIANTS NoPieceMissed
