\* A magnet and a .torrent file, the isolate as only caller, one control API thread.
\* Nothing is left to do when the adds are used up and all is removed.
CHECK_DEADLOCK FALSE
CONSTANTS
  Torrents = {m1, f1}
  Magnets = {m1}
  Callers = {isolate}
  Isolate = isolate
  RestThreads = {r1}
  MaxAdds = 2
  MaxCrashes = 1
  None = None
  Unstored = {f1}
  Crowded = {f1}
  LongIds = {f1}
SPECIFICATION ClientSpec
INVARIANTS TypeOK AcknowledgedAddSurvives AcknowledgedRemoveIsFinal
           DeleteLastsTheProcess CatalogHasRows ClientTypeOK AcknowledgedAddIsListed
PROPERTIES FilesAppear SavedAtOnce
