--------------------------- MODULE MCOfflineCache ---------------------------
(* Model-checking definitions for OfflineCache: two files of different       *)
(* size in every torrent.                                                    *)
EXTENDS OfflineCache

FileSizes == [k \in Torrents \X (1..NFiles) |-> k[2]]
=============================================================================
