\* Two torrents of two files, three seconds; no quota, a tight and a wide one.
CONSTANTS
  Torrents = {t1, t2}
  NFiles = 2
  Size <- FileSizes
  Quotas = {0, 2, 4}
  Times = {1, 2, 3}
SPECIFICATION Spec
INVARIANTS TypeOK ReadyIsEarned
PROPERTIES ReadySticks EvictsOldestWhileOver EvictionReachesQuota
