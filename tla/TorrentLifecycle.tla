-------------------------- MODULE TorrentLifecycle --------------------------
(***************************************************************************)
(* The life of a torrent in the engine: add_torrent, remove_torrent, the   *)
(* control API's POST and DELETE, the alerts that fill the metadata        *)
(* catalog, the URIs kept in SQLite, and a crash with the restore that the *)
(* engine's constructor makes of them.                                     *)
(*                                                                         *)
(* Every call is the sequence of its separately locked steps.  The engine  *)
(* keeps a torrent in four places - libtorrent's session, handles_, the    *)
(* catalog and the torrents table - and updates them one after the other.  *)
(* What a selection adds to this is in FileSelection.                      *)
(*                                                                         *)
(* A SQLite statement may fail: the database did not open, the prepare or  *)
(* the step fails.  The cache logs it at most, and its callers are not     *)
(* told.  Unstored names the torrents it happens to, as often as it likes. *)
(***************************************************************************)
EXTENDS Integers, Sequences, FiniteSets

CONSTANTS Torrents,
          Magnets,      \* torrents whose metadata comes from the swarm
          Callers,      \* threads that call the engine API
          RestThreads,  \* threads of the control API
          Unstored,     \* torrents of which a SQLite statement may fail
          Crowded,      \* torrents whose alerts may find libtorrent's queue full
          MaxAdds,      \* bound: torrents given to libtorrent by a call
          MaxCrashes,   \* bound: crashes from outside
          None

ASSUME LifecycleAssumption == /\ Magnets \subseteq Torrents
                              /\ None \notin Torrents
                              /\ Callers \cap RestThreads = {}
                              /\ Unstored \subseteq Torrents
                              /\ Crowded \subseteq Torrents
                              /\ MaxAdds \in Nat /\ MaxCrashes \in Nat

VARIABLES
    uris, rows,    \* SQLite: torrents table; torrents with all their cache_entries rows
    session,       \* torrents in lt::session
    metadata,      \* those libtorrent has the metadata of
    alerts,        \* alerts not yet dispatched
    handles,       \* TorrentSessionManager::handles_
    catalog,       \* MetadataCatalog::catalog_
    removed,       \* SeekServeEngine::removed_ids_
    handler,       \* the alert thread: idle, or a metadata handler past its guard
    op,            \* [Threads -> the call in progress]
    toRestore,     \* URIs the constructor has still to add
    adds, crashes, \* counters for the bounds
    owed,          \* history: added, acknowledged, and not removed since
    gone,          \* history: removed by remove_torrent, acknowledged, not added since
    deleted        \* history: DELETEd in this process, acknowledged, not added since
                   \* (nor removed by remove_torrent)

disk       == <<uris, rows>>
libtorrent == <<session, metadata, alerts>>
volatile   == <<handles, catalog, removed>>
history    == <<owed, gone, deleted>>
vars == <<disk, libtorrent, volatile, handler, op, toRestore, adds, crashes, history>>

Threads == Callers \cup RestThreads
Idle == [at |-> "idle", t |-> None, alone |-> TRUE]
Constructed == toRestore = {}

Adding   == {"ltAdd", "register", "save"}
Removing == {"forgetUri", "erase", "uncatalog", "leave"}
Busy(t, places) == \E c \in Threads : op[c].t = t /\ op[c].at \in places

Init == /\ uris = {} /\ rows = {}
        /\ session = {} /\ metadata = {} /\ alerts = << >>
        /\ handles = {} /\ catalog = {} /\ removed = {}
        /\ handler = [at |-> "idle", t |-> None]
        /\ op = [c \in Threads |-> Idle]
        /\ toRestore = {}
        /\ adds = 0 /\ crashes = 0
        /\ owed = {} /\ gone = {} /\ deleted = {}

-----------------------------------------------------------------------------
(* libtorrent.                                                             *)

\* libtorrent drops an alert when its queue (alert_queue_size) is full.
Post(kind, t) ==
    \/ alerts' = Append(alerts, [kind |-> kind, t |-> t, stale |-> FALSE])
    \/ t \in Crowded /\ UNCHANGED alerts

\* session_->add_torrent: a .torrent file brings its metadata.  Adding a torrent
\* that is there returns its handle; an alert may be posted or not.
LtAdd(t) ==
    /\ session' = session \cup {t}
    /\ metadata' = IF t \in Magnets THEN metadata ELSE metadata \cup {t}
    /\ Post("add", t) \/ (t \in session /\ UNCHANGED alerts)

\* session_->remove_torrent: the handles in older alerts refer to a torrent that
\* is going away.
LtRemove(t) ==
    /\ session' = session \ {t}
    /\ metadata' = metadata \ {t}
    /\ alerts' = [i \in DOMAIN alerts |->
                    [alerts[i] EXCEPT !.stale = @ \/ alerts[i].t = t]]

MetadataReceived(t) ==
    /\ t \in (session \cap Magnets) \ metadata
    /\ metadata' = metadata \cup {t}
    /\ Post("metadata", t)
    /\ UNCHANGED <<disk, session, volatile, handler, op, toRestore, adds, crashes,
                   history>>

-----------------------------------------------------------------------------
(* SQLite.                                                                 *)

\* A statement that changes the torrents table for t.
Write(t, new) == \/ uris' = new
                 \/ t \in Unstored /\ UNCHANGED uris

\* A SELECT may end early.
Read(table) == {table \ lost : lost \in SUBSET Unstored}

-----------------------------------------------------------------------------
(* Calls.  A call is "alone" while no call of the opposite kind for the same *)
(* torrent overlaps it; only such a call settles what the client is owed.    *)

Begin(c, t, place, opposite) ==
    /\ Constructed
    /\ op[c].at = "idle"
    /\ op' = [d \in Threads |->
                CASE d = c -> [at |-> place, t |-> t, alone |-> ~Busy(t, opposite)]
                  [] d # c /\ op[d].t = t /\ op[d].at \in opposite
                         -> [op[d] EXCEPT !.alone = FALSE]
                  [] OTHER -> op[d]]

Step(c, from, to) == op[c].at = from /\ op' = [op EXCEPT ![c].at = to]
Return(c) == op' = [op EXCEPT ![c] = Idle]

\* add_torrent and POST /api/torrents.  A URI that does not parse, or a file that
\* does not load, returns an error and changes nothing.
AddBegin(c, t) ==
    /\ adds < MaxAdds
    /\ Begin(c, t, "ltAdd", Removing)
    /\ adds' = adds + 1
    /\ gone' = gone \ {t} /\ deleted' = deleted \ {t}
    /\ UNCHANGED <<disk, libtorrent, volatile, handler, toRestore, crashes, owed>>

AddToLibtorrent(c) ==
    /\ Step(c, "ltAdd", "register")
    /\ LtAdd(op[c].t)
    /\ UNCHANGED <<disk, volatile, handler, toRestore, adds, crashes, history>>

\* handles_[id] = h.  The control API is done: it does not save the URI.
AddRegister(c) ==
    /\ op[c].at = "register"
    /\ handles' = handles \cup {op[c].t}
    /\ IF c \in RestThreads THEN Return(c) ELSE Step(c, "register", "save")
    /\ UNCHANGED <<disk, libtorrent, catalog, removed, handler, toRestore, adds,
                   crashes, history>>

\* cache_->save_torrent_uri, then return the id.
AddSave(c) ==
    /\ op[c].at = "save"
    /\ Return(c)
    /\ Write(op[c].t, uris \cup {op[c].t})
    /\ owed' = IF op[c].alone THEN owed \cup {op[c].t} ELSE owed
    /\ UNCHANGED <<rows, libtorrent, volatile, handler, toRestore, adds, crashes, gone,
                   deleted>>

\* remove_torrent, of any id.
RemoveBegin(c, t) ==
    /\ c \in Callers
    /\ Begin(c, t, "forgetUri", Adding)
    /\ owed' = owed \ {t}
    /\ UNCHANGED <<disk, libtorrent, volatile, handler, toRestore, adds, crashes, gone,
                   deleted>>

\* Slip: the URI stays.
RemoveForgetNothing(c) ==
    /\ Step(c, "forgetUri", "erase")
    /\ UNCHANGED <<disk, libtorrent, volatile, handler, toRestore, adds, crashes,
                   history>>

RemoveForgetUri(c) ==
    /\ Step(c, "forgetUri", "erase")
    /\ Write(op[c].t, uris \ {op[c].t})
    /\ UNCHANGED <<rows, libtorrent, volatile, handler, toRestore, adds, crashes,
                   history>>

\* Under mu_: removed_ids_.insert(id).
RemoveErase(c) ==
    /\ Step(c, "erase", "uncatalog")
    /\ removed' = removed \cup {op[c].t}
    /\ UNCHANGED <<disk, libtorrent, handles, catalog, handler, toRestore, adds, crashes,
                   history>>

RemoveUncatalog(c) ==
    /\ Step(c, "uncatalog", "leave")
    /\ catalog' = catalog \ {op[c].t}
    /\ UNCHANGED <<disk, libtorrent, handles, removed, handler, toRestore, adds, crashes,
                   history>>

\* sessions_->remove_torrent: an unknown id is an error that changes nothing.
LeaveSession(t) ==
    \/ t \notin handles /\ UNCHANGED <<libtorrent, handles>>
    \/ t \in handles /\ LtRemove(t) /\ handles' = handles \ {t}

RemoveLeave(c) ==
    /\ op[c].at = "leave"
    /\ LeaveSession(op[c].t)
    /\ Return(c)
    /\ gone' = IF op[c].alone THEN gone \cup {op[c].t} ELSE gone
    /\ deleted' = deleted \ gone'
    /\ UNCHANGED <<disk, catalog, removed, handler, toRestore, adds, crashes, owed>>

\* DELETE /api/torrents/{id} answers "removed" and has only left the session: the URI
\* stays on disk.
RestRemove(c, t) ==
    /\ Constructed
    /\ c \in RestThreads /\ op[c].at = "idle"
    /\ t \in handles
    /\ LeaveSession(t)
    /\ op' = [d \in Threads |-> IF op[d].t = t /\ op[d].at \in Adding
                               THEN [op[d] EXCEPT !.alone = FALSE] ELSE op[d]]
    /\ owed' = owed \ {t}
    /\ deleted' = IF Busy(t, Adding) THEN deleted ELSE deleted \cup {t}
    /\ UNCHANGED <<disk, catalog, removed, handler, toRestore, adds, crashes, gone>>

-----------------------------------------------------------------------------
(* The alert thread: the handlers of metadata_received and add_torrent.    *)

\* Slip: only metadata_received_alert counts.
FollowAddNever(a) == FALSE

\* An add_torrent_alert counts if the torrent has its metadata by now; what the
\* handle of a torrent that is going away says, nobody knows.
FollowAdd(a) == a.stale \/ a.t \in metadata

\* The next alert.  A stale handle may throw, which the dispatcher logs.
Dispatch ==
    /\ handler.at = "idle"
    /\ alerts # << >>
    /\ alerts' = Tail(alerts)
    /\ LET a == Head(alerts)
       IN  \/ /\ a.kind = "metadata" \/ FollowAdd(a)
              /\ a.t \notin removed        \* under mu_, released again
              /\ handler' = [at |-> "catalog", t |-> a.t]
           \/ /\ a.stale \/ a.t \in removed \/ (a.kind = "add" /\ ~FollowAdd(a))
              /\ UNCHANGED handler
    /\ UNCHANGED <<disk, session, metadata, volatile, op, toRestore, adds, crashes,
                   history>>

\* Slip: the handle of the alert is entered in handles_ again.
HandlerCatalogEnters ==
    /\ handler.at = "catalog"
    /\ handler' = [handler EXCEPT !.at = "rows"]
    /\ catalog' = catalog \cup {handler.t}
    /\ handles' = handles \cup {handler.t}
    /\ UNCHANGED <<disk, libtorrent, removed, op, toRestore, adds, crashes, history>>

\* catalog_.on_metadata_received: an entry that is there stays.
HandlerCatalog ==
    /\ handler.at = "catalog"
    /\ handler' = [handler EXCEPT !.at = "rows"]
    /\ catalog' = catalog \cup {handler.t}
    /\ UNCHANGED <<disk, libtorrent, handles, removed, op, toRestore, adds, crashes,
                   history>>

\* Slip: rows only for torrents that are new to the engine.
HandlerRowsUnlessListed ==
    /\ handler.at = "rows"
    /\ handler' = [at |-> "idle", t |-> None]
    /\ rows' = IF handler.t \in catalog \ handles THEN rows \cup {handler.t} ELSE rows
    /\ UNCHANGED <<uris, libtorrent, volatile, op, toRestore, adds, crashes, history>>

\* Slip: the torrent's URI is written again with its rows.
HandlerRowsAndUri ==
    /\ handler.at = "rows"
    /\ handler' = [at |-> "idle", t |-> None]
    /\ rows' = IF handler.t \in catalog THEN rows \cup {handler.t} ELSE rows
    /\ uris' = IF handler.t \in catalog THEN uris \cup {handler.t} ELSE uris
    /\ UNCHANGED <<libtorrent, volatile, op, toRestore, adds, crashes, history>>

\* catalog_.list_files, and cache_->on_torrent_added if it gave a list.  That may
\* insert nothing, or not all of the files; rows has the torrents with all of them.
HandlerRows ==
    /\ handler.at = "rows"
    /\ handler' = [at |-> "idle", t |-> None]
    /\ \/ rows' = IF handler.t \in catalog THEN rows \cup {handler.t} ELSE rows
       \/ handler.t \in Unstored /\ UNCHANGED rows
    /\ UNCHANGED <<uris, libtorrent, volatile, op, toRestore, adds, crashes, history>>

-----------------------------------------------------------------------------
(* The process ends, cleanly or not, and a new one is constructed.         *)

Restart ==
    /\ session' = {} /\ metadata' = {} /\ alerts' = << >>
    /\ handles' = {} /\ catalog' = {} /\ removed' = {}
    /\ handler' = [at |-> "idle", t |-> None]
    /\ op' = [c \in Threads |-> Idle]
    /\ toRestore' \in Read(uris)
    /\ deleted' = {}
    /\ UNCHANGED <<disk, adds, owed, gone>>

Crash == crashes < MaxCrashes /\ crashes' = crashes + 1 /\ Restart

\* handles_ may hold a torrent that has left the session (a removal between the two
\* steps of an add).  libtorrent may throw when it is asked to remove it, and
\* nothing catches that: the process ends.
RemoveThrows(c) ==
    /\ \/ op[c].at = "leave" /\ op[c].t \in handles \ session
       \/ /\ c \in RestThreads /\ op[c].at = "idle" /\ Constructed
          /\ handles \ session # {}
    /\ Restart
    /\ UNCHANGED crashes

\* Slip: restored torrents are not entered in handles_.
RestoreUnlisted(t) ==
    /\ t \in toRestore
    /\ toRestore' = toRestore \ {t}
    /\ LtAdd(t)
    /\ UNCHANGED <<disk, volatile, handler, op, adds, crashes, history>>

\* The constructor adds the saved URIs; nobody else can call the engine yet.  This is
\* where a torrent comes back that a DELETE has answered "removed" for.
Restore(t) ==
    /\ t \in toRestore
    /\ toRestore' = toRestore \ {t}
    /\ LtAdd(t)
    /\ handles' = handles \cup {t}
    /\ UNCHANGED <<disk, catalog, removed, handler, op, adds, crashes, history>>

\* Slip: a URI that failed is tried again.
RestoreFailsAgain(t) ==
    /\ t \in toRestore \ Magnets
    /\ uris' = uris \ {t}
    /\ owed' = owed \ {t}
    /\ UNCHANGED <<rows, libtorrent, volatile, handler, op, toRestore, adds, crashes,
                   gone, deleted>>

\* A .torrent file that cannot be loaded any more loses its entry.
RestoreFails(t) ==
    /\ t \in toRestore \ Magnets
    /\ toRestore' = toRestore \ {t}
    /\ Write(t, uris \ {t})
    /\ owed' = owed \ {t}
    /\ UNCHANGED <<rows, libtorrent, volatile, handler, op, adds, crashes, gone,
                   deleted>>

-----------------------------------------------------------------------------
Next == \/ \E c \in Threads :
              \/ \E t \in Torrents : AddBegin(c, t) \/ RemoveBegin(c, t)
                                        \/ RestRemove(c, t)
              \/ AddToLibtorrent(c) \/ AddRegister(c) \/ AddSave(c)
              \/ RemoveForgetUri(c) \/ RemoveErase(c) \/ RemoveUncatalog(c)
              \/ RemoveLeave(c) \/ RemoveThrows(c)
        \/ \E t \in Torrents : MetadataReceived(t) \/ Restore(t) \/ RestoreFails(t)
        \/ Dispatch \/ HandlerCatalog \/ HandlerRows
        \/ Crash

Spec == Init /\ [][Next]_vars

-----------------------------------------------------------------------------
\* Every variable stays in its type.
TypeOK ==
    /\ uris \subseteq Torrents /\ rows \subseteq Torrents
    /\ session \subseteq Torrents /\ metadata \subseteq session
    /\ alerts \in Seq([kind : {"add", "metadata"}, t : Torrents, stale : BOOLEAN])
    /\ handles \subseteq Torrents /\ catalog \subseteq Torrents
    /\ removed \subseteq Torrents
    /\ handler \in [at : {"idle", "catalog", "rows"}, t : Torrents \cup {None}]
    /\ op \in [Threads -> [at : {"idle"} \cup Adding \cup Removing,
                           t : Torrents \cup {None}, alone : BOOLEAN]]
    /\ toRestore \subseteq uris
    /\ adds \in 0..MaxAdds /\ crashes \in 0..MaxCrashes
    /\ owed \subseteq Torrents /\ gone \subseteq Torrents /\ deleted \subseteq Torrents

\* A torrent whose add was acknowledged is not lost, unless SQLite fails it: its URI is
\* on disk from then on, and it is in the session again after every restart, until
\* somebody removes it or its .torrent file cannot be loaded.
AcknowledgedAddSurvives ==
    /\ owed \ Unstored \subseteq uris
    /\ Constructed => owed \ Unstored \subseteq handles \cap session

\* A torrent that remove_torrent was acknowledged for does not come back, whatever
\* crashes and restores follow, until somebody adds it or unless SQLite kept its URI.
\* This is the engine's own call, not the control API's DELETE.
AcknowledgedRemoveIsFinal ==
    (gone \ Unstored) \cap (uris \cup session \cup handles) = {}

\* A DELETE of the control API, acknowledged with "removed", lasts as long as the
\* process: no other call, alert or handler brings the torrent back until somebody adds
\* it.  It does not last longer: the next process restores the torrent from the URI that
\* DELETE has left behind.
DeleteLastsTheProcess == deleted \cap (session \cup handles) = {}

\* A torrent in the catalog has all its rows in cache_entries, or the handler is about
\* to insert them, unless an insertion fails: no later progress or completion update
\* falls on no row.
CatalogHasRows == catalog \ Unstored \subseteq rows \cup {handler.t}

\* The saved torrents are a set that add_torrent and remove_torrent change, each call
\* once and at one moment (or not at all, when SQLite fails it), whatever the alert
\* thread, the control API and crashes do between its steps.
CallOf(o) == CASE o.at \in Adding   -> [kind |-> "add", t |-> o.t]
               [] o.at = "forgetUri" -> [kind |-> "remove", t |-> o.t]
               [] o.at \in Removing \ {"forgetUri"} -> [kind |-> "removed", t |-> o.t]
               [] OTHER -> [kind |-> "none"]
Durable == INSTANCE DurableTorrents WITH
              saved   <- uris,
              booting <- toRestore,
              call    <- [c \in Callers |-> CallOf(op[c])]
SavedAtOnce == Durable!Spec

-----------------------------------------------------------------------------
(* What docs/ARCHITECTURE.md claims.                                       *)

NoCalls == Constructed /\ \A c \in Threads : op[c] = Idle

\* removed_ids_ keeps out late alerts of removed torrents, and only those: with
\* no call in progress and all alerts handled, a torrent with metadata is in the
\* catalog.
OnlyLateAlertsAreSkipped ==
    NoCalls /\ alerts = << >> /\ handler.at = "idle" => metadata \subseteq catalog
=============================================================================
