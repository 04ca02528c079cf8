--------------------------- MODULE TorrentManager ---------------------------
(***************************************************************************)
(* The Dart side over the engine: SeekServeClient and SsTorrentManager of  *)
(* the one isolate that calls the C API, composed with TorrentLifecycle.   *)
(*                                                                         *)
(* The alert thread posts its events to the isolate's message queue; the   *)
(* isolate takes one when no call is in progress.  An event fired before   *)
(* the callback is set is lost; a poll every second makes up for it.  An   *)
(* entry is replaced whenever its torrent is added.  Of the events only    *)
(* metadata_received does more than repaint.  The handler's last two steps *)
(* - insert the rows, fire the event - are one here: nothing but a restart *)
(* tells them apart from an event that is handled later.                   *)
(*                                                                         *)
(* The id that addTorrent gives back is cut: the Dart client passes        *)
(* ss_add_torrent room for 63 characters, and the id of a v2 or hybrid     *)
(* torrent has 64.  list_torrents and the events carry whole ids.          *)
(***************************************************************************)
EXTENDS TorrentLifecycle

CONSTANTS Isolate,   \* the thread of the Dart isolate
          LongIds    \* v2 and hybrid torrents

\* The id given back for t.  63 digits are nobody's id: the engine knows of no such
\* torrent, so no event, status or list is ever about it.
Given(t) == IF t \in LongIds THEN [cut |-> t] ELSE t

ASSUME IsolateAssumption == /\ Isolate \in Callers
                            /\ LongIds \subseteq Torrents
                            /\ \A t \in LongIds : Given(t) \notin Torrents

VARIABLES
    ui,       \* "none"; "deaf", init failed at the server; or "ready"
    queue,    \* torrents of the metadata_received messages not yet handled
    entries,  \* keys of SsTorrentManager::_torrents
    noted,    \* entries with metadataReceived
    listed    \* entries with their files

client  == <<ui, queue, entries, noted, listed>>
allVars == <<vars, client>>

NoClient == /\ ui' = "none" /\ queue' = << >>
            /\ entries' = {} /\ noted' = {} /\ listed' = {}

ClientInit == /\ Init
              /\ ui = "none" /\ queue = << >>
              /\ entries = {} /\ noted = {} /\ listed = {}

-----------------------------------------------------------------------------
(* Turns of the isolate.  A call into the engine blocks it.                *)

Turn == op[Isolate].at = "idle"

\* Slip: the torrents with a catalog entry.
ListCatalogued == {catalog}

\* list_torrents reads the saved URIs; init keeps an empty list if it fails.
ListTorrents == Read(uris)

\* init: make the engine, set the callback, start the server, list the restored
\* torrents, listen and start the poll timer.
Attach ==
    /\ Constructed /\ Turn /\ ui = "none"
    /\ ui' = "ready"
    /\ entries' \in ListTorrents
    /\ UNCHANGED <<vars, queue, noted, listed>>

\* The server does not start: the engine and its callback stay, there is neither a
\* list nor a listener nor a timer, and a second init returns at once.
AttachFails ==
    /\ Constructed /\ Turn /\ ui = "none"
    /\ ui' = "deaf"
    /\ UNCHANGED <<vars, queue, entries, noted, listed>>

\* Slip: an event for no entry is marked too.
HeardAnyway(t) == ui = "ready"

Heard(t) == ui = "ready" /\ t \in entries

\* _onEvent of the first message; list_files answers for catalogued torrents.
HandleEvent ==
    /\ Turn /\ queue # << >>
    /\ queue' = Tail(queue)
    /\ LET t == Head(queue)
       IN  /\ noted' = IF Heard(t) THEN noted \cup {t} ELSE noted
           /\ listed' = IF Heard(t) /\ t \in catalog THEN listed \cup {t} ELSE listed
    /\ UNCHANGED <<vars, ui, entries>>

\* get_status_json: has_metadata of a torrent with a valid handle.
HasMetadata(t) == t \in catalog \cap handles \cap session

Discover(new) == noted' = noted \cup new /\ listed' = listed \cup new

\* _pollStatus: entries whose metadata was not noted yet are, and get their files.
Poll ==
    /\ Turn /\ ui = "ready"
    /\ LET new == {t \in entries \ noted : HasMetadata(t)}
       IN  new # {} /\ Discover(new)
    /\ UNCHANGED <<vars, ui, queue, entries>>

\* listFiles, which the torrent's screen calls whenever it is drawn: the files are
\* asked for if they are not there, whether or not the metadata was noted.
ListFiles(t) ==
    /\ Turn /\ ui # "none"
    /\ t \in (entries \ listed) \cap catalog
    /\ listed' = listed \cup {t}
    /\ UNCHANGED <<vars, ui, queue, entries, noted>>

-----------------------------------------------------------------------------
(* What the engine's steps do to the client.                               *)

\* addTorrent returns: a new entry under the given id, in place of an old one.
NewEntry(t) ==
    /\ entries' = IF ui = "none" THEN entries ELSE entries \cup {Given(t)}
    /\ noted' = noted \ {Given(t)} /\ listed' = listed \ {Given(t)}
    /\ UNCHANGED <<ui, queue>>

\* removeTorrent returns; an unknown torrent is an exception, and its entry stays.
\* (So does every entry under a cut id.  Removing one leaves no trace that matters:
\* neither a URI nor a torrent nor an alert has that id.)
DropEntry(t) ==
    IF t \in handles
    THEN /\ entries' = entries \ {t} /\ noted' = noted \ {t} /\ listed' = listed \ {t}
         /\ UNCHANGED <<ui, queue>>
    ELSE UNCHANGED client

\* fire_event calls the callback, if there is one, which posts a message.
Fire(t) == /\ queue' = IF ui = "none" THEN queue ELSE Append(queue, t)
           /\ UNCHANGED <<ui, entries, noted, listed>>

\* The isolate calls once it has the engine, the control API once the server runs.
MayCall(c) == IF c \in RestThreads THEN ui = "ready" ELSE ui # "none"

\* The user removes what the list shows.
Call(c) ==
    /\ MayCall(c)
    /\ \E t \in Torrents : \/ AddBegin(c, t)
                           \/ RestRemove(c, t)
                           \/ t \in entries /\ RemoveBegin(c, t)
    /\ UNCHANGED client

InCall(c) ==
    \/ /\ \/ AddToLibtorrent(c) \/ AddRegister(c)
          \/ RemoveForgetUri(c) \/ RemoveErase(c) \/ RemoveUncatalog(c)
       /\ UNCHANGED client
    \/ AddSave(c) /\ NewEntry(op[c].t)
    \/ RemoveLeave(c) /\ DropEntry(op[c].t)

Libtorrent ==
    /\ \E t \in Torrents : MetadataReceived(t) \/ Restore(t) \/ RestoreFails(t)
    /\ UNCHANGED client

AlertThread == \/ (Dispatch \/ HandlerCatalog) /\ UNCHANGED client
               \/ HandlerRows /\ Fire(handler.t)

EngineGone == (Crash \/ \E c \in Threads : RemoveThrows(c)) /\ NoClient

ClientNext == \/ \E c \in Threads : Call(c) \/ InCall(c)
              \/ Libtorrent \/ AlertThread \/ EngineGone
              \/ Attach \/ AttachFails \/ HandleEvent \/ Poll
              \/ \E t \in Torrents : ListFiles(t)

\* The alert thread runs, a call of the isolate that has begun goes on, and its event
\* loop serves a message or the timer now and again, however often the user calls in
\* between.  (Each subscript is something that the step always changes.)
ClientSpec == /\ ClientInit /\ [][ClientNext]_allVars
              /\ WF_<<alerts, handler>>(AlertThread) /\ WF_op(InCall(Isolate))
              /\ SF_<<queue, noted>>(HandleEvent \/ Poll)

-----------------------------------------------------------------------------
\* The client's variables stay in their types; what is noted or listed is an entry
\* whose id the engine knows.
ClientTypeOK ==
    /\ ui \in {"none", "deaf", "ready"}
    /\ queue \in Seq(Torrents)
    /\ entries \subseteq Torrents \cup {Given(t) : t \in LongIds}
    /\ noted \subseteq entries \cap Torrents
    /\ listed \subseteq entries \cap Torrents

\* The list on the screen has an entry for every torrent whose add was acknowledged,
\* before a restart or after, until it is removed, unless SQLite fails it.  For a
\* torrent with a long id, and until a restart lists it with its own id, that entry is
\* there under the cut id: nothing else is ever shown in it.
AcknowledgedAddIsListed ==
    ui = "ready" => \A t \in owed \ Unstored : {t, Given(t)} \cap entries # {}

\* Once libtorrent has the metadata of a torrent and has not dropped the alert, its
\* catalog entry follows and, if it is in the list under its own id, its files appear
\* there, unless it is removed: whichever alert comes first, whether the event is fired
\* too early to be heard, or for an entry that was replaced since.
Known(t) == t \in (handles \cap session) \ removed
Alerted(t) == \/ t \in catalog \/ handler.t = t
              \/ \E i \in DOMAIN alerts : alerts[i].t = t /\ ~alerts[i].stale
FilesAppear ==
    \A t \in Torrents :
        t \in metadata /\ Alerted(t) /\ Known(t)
            ~> \/ t \in catalog /\ (ui = "ready" /\ t \in entries => t \in listed)
               \/ ~Known(t)
=============================================================================
