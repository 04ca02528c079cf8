# SeekServe: a TLA+ verification project

SeekServe streams files out of torrents while they download. A C++ core on top of
libtorrent keeps track of pieces, decides which are urgent and serves byte ranges
over HTTP; a C API and a Flutter client sit on top. The code is small, and almost
everything difficult in it is about *who runs when*: five kinds of threads share
the state of a torrent, most operations are several critical sections in a row, and
what is on disk has to agree with what is in memory after a crash.

This directory holds TLA+ models of that behaviour, TLC configurations that check
them on small instances, and proofs checked by TLAPS. Paths below are relative to
the repository (`src/` here).

## 1. Inventory

### Threads

| Thread | Runs | Takes |
|---|---|---|
| caller threads | C API / engine calls | `mu_`, `sources_mu_`, catalog and session locks, one after the other |
| alert thread (`AlertDispatcher::run`) | the handlers of `wire_alerts` | `mu_` for pieces; `mu_` only for a guard in the metadata handlers |
| io_context thread | accept loops, `on_tick` once a second | `mu_` in `on_tick` |
| HTTP connection threads (one each, detached) | `handle_connection`, `ByteSource::read` | `sources_mu_` for the lookup, the source's `mu_` while waiting |
| control API threads (one each, detached) | REST requests | session and catalog locks |
| libtorrent's own threads | pieces, metadata, alerts | not part of this code |

### Components

| Component | State | Operations | Interacts with | What makes it correct |
|---|---|---|---|---|
| `ByteSource` | `cancelled_`, `cv_`, references to index and mapper | `read`, `notify_piece_complete`, `cancel` | HTTP threads wait, alert thread and callers signal | no bytes of missing pieces; honest timeouts; every read returns |
| `PieceAvailabilityIndex` | bit per piece | `mark_complete`, span and contiguity queries | written by the alert thread, read by all | monotonic; only pieces libtorrent has |
| `ByteRangeMapper` | file layout | `map`, `first_piece`, `end_piece` | pure | spans cover exactly the bytes of a range |
| `StreamingScheduler` | playhead, mode, stall counter, boost, gauge | `on_range_request`, `on_piece_complete`, `tick` | sets libtorrent's deadlines | the next pieces are urgent; seeks clear the old window; recovers its mode |
| Engine: file selection | `states_`, the server's `sources_`, `range_callback_` | `select_file`, `remove_torrent` | catalog, server, alert thread | one live stream per torrent; tables agree; nothing destroyed in use |
| Engine: torrent lifecycle | `handles_`, `catalog_`, `removed_ids_`, SQLite `torrents` | `add_torrent`, `remove_torrent`, restore, metadata handlers | libtorrent, SQLite, control API | acknowledged calls survive crashes; metadata reaches the catalog |
| Engine: server lifecycle | `server_running_`, servers, timer, io_context | `start_server`, `stop_server`, `on_tick`, destructor | both servers, all threads | restartable; no timer or handler after stop |
| `HttpRangeServer` | acceptor, `sources_`, connection count | accept, `handle_connection`, `start`, `stop` | `ByteSource`, engine | limit holds; the body has exactly the promised bytes |
| `ControlApiServer` | acceptor | REST over session, catalog, cache | session manager directly, not the engine | leaves the engine's tables consistent |
| `AlertDispatcher` | handlers, `running_`, cv | `start`, `stop`, `run` | libtorrent | every alert is handled, in order |
| `MetadataCatalog` | files and selection per torrent | `on_metadata_received`, `select_file`, `remove` | alert thread, callers | knows every torrent with metadata |
| `OfflineCacheManager` | SQLite `cache_entries`, `torrents` | added, progress, completed, access, quota, URIs | alert thread, tick, callers | completion is not lost; quota evicts the oldest |
| Range header parser | none | `parse_range_header` | HTTP server | agrees with the byte ranges asked for |
| C API | the callback and its `user_data` | create, destroy, callback, one engine call each | engine, client | adds no state of its own |
| Token check | none | one comparison | both servers | stateless |
| Dart `SeekServeClient`, `SsTorrentManager` | entries, event stream, poll timer | add, remove, select, events, poll, dispose | C API, native callbacks | nothing after dispose; entries follow the engine |
| `SsVideoPlayer` | player, retry timer, pending probe | probe, start, retry, URL change, dispose | HTTP server | plays the current URL |
| Screens, demo | presentation | | | not modelled |

### What is hard here

Lost wakeups (the signalling sides of `ByteSource` do not take its mutex); objects
destroyed while a connection thread holds references into them; multi-step calls
racing each other and the alert thread; a check under a lock acted on after it;
crashes between two of the four places that record a torrent; and the boundaries of
windows and ranges. `PROJECT.json` lists each hazard at its line together with the
properties that cover it, or with the reason why none does.

## 2. Plan

Done:

1. `ReadPromise`, `ByteSource`, `ByteSourceProofs` - the wait at the heart of streaming.
2. `StreamingScheduler`, `SchedulerProofs` - which pieces are urgent.
3. `FileSelection` - selection and removal against alerts and connections.
4. `TorrentLifecycle` - add, remove, metadata, crash and restore.
5. `RangeParser`, `ByteRangeMapper`, `HttpStream`, `HttpStreamProofs` - a response body
   is the promised range or a prefix of it, and the promise is what was asked.
6. `ServerLifecycle`, `ServerProofs` - start, stop, timer, accept loop, shutdown request,
   destructor.

7. `OfflineCache`, `OfflineCacheProofs` - completion and quota, one SQL statement at a time.
8. `TorrentManager` - the Dart client over `TorrentLifecycle`: its event queue, its poll,
   its list.
9. `FileSelectionProofs`, `LifecycleProofs` - inductive invariants of the two views of the
   engine, and of the client.
10. `ServerSwitch`, `DurableTorrents`, `StreamDirectory`, `RangeTransfer` - what the four
    multi-step components promise, and the proofs that they keep it.

The video player was planned and is left out: its probe, timer and URL are local to one
widget, and what a late probe does to the picture is decided by the player package, whose
source is not in the repository.

Five components have an abstract specification that says, without threads, locks and the
order of the records, what their users may rely on: `ReadPromise` for `ByteSource`,
`StreamDirectory` for `FileSelection`, `DurableTorrents` for `TorrentLifecycle`,
`RangeTransfer` for `HttpStream` and `ServerSwitch` for `ServerLifecycle`. `FileSelection` and
`TorrentLifecycle` are two views of one engine: the first follows the objects a
selection creates and assumes torrents that are added and have metadata, the second
follows the torrents and leaves selections out; they meet in `remove_torrent`, whose
steps they divide (sources and states in the first, URI, guard and metadata in the
second, the catalog entry and the session in both). `HttpStream` takes the wait for
pieces as one step, as `ReadPromise` allows, and follows the bytes; `FileSelection`
follows the same connection as far as it touches objects that selections destroy.
`HttpStream` is built on `RangeParser` and `ByteRangeMapper`, which are pure.
`TorrentManager` composes the client with `TorrentLifecycle`: every step of the
composition is a step of the engine, with what it does to the client, or a step of the
client alone, so that it implements `TorrentLifecycle` (`ClientImplementsEngine`) and the
theorems about the engine hold in it. `OfflineCache` is the `cache_entries` table alone;
the `torrents` table is `uris` of `TorrentLifecycle`.

## 3. Modules

### ReadPromise

What a reader may rely on, without condition variables: a request waits until it is
*granted* (its pieces are complete, or it was cancelled) or *refused* (they are not
all complete), and then gets an answer that fits; every request is answered. The
decision and the answer are two steps because a cancellation may come in between.

### ByteSource

One action per place where `byte_source.cpp` takes a lock, evaluates half of the
predicate, waits, or returns. `wait_for(lock, timeout, pred)` is the loop the
standard prescribes: evaluate, wait, evaluate again, with a last evaluation after the
deadline. `Park` releases the mutex and joins the wait set atomically; `NotifyAll`
moves the current members of the wait set back to the lock. `MarkComplete` and
`NotifyPieceComplete` are separate steps of the alert thread, `CancelStore` and
`CancelNotify` of the canceller, and neither needs the mutex: the lost wakeup is in
the model because it is in the code. Reading the file may fail at any time.

### StreamingScheduler

`have` is what libtorrent has, `avail` what the availability index says; the alert
handler marks a piece and then calls `on_piece_complete`, with a range request
possibly in between (it does not take the engine's `mu_`; the tick does). `Planned`
is the set of pieces `set_deadlines` walks over, in order, as far as the budget goes.
Deadlines are a set of pieces, their milliseconds are left out. Contiguous bytes are
computed as the code does, with the file's first offset and beyond the file's end.
The clock of the seek boost may run out at any moment, the download rate is any.
The stall counter stops at twice the threshold, beyond which nothing compares it.

### FileSelection, MCFileSelection

Every selection makes an object (`TorrentState`) with its own availability index;
`states_` owns it, the server's table and connection threads refer to it, and
`destroyed` and `cancelled` record its end. `select_file` is seven steps,
`remove_torrent` six, each one critical section or unlocked assignment of the code,
in its order, with one exception: `SelectUnregisterOld` joins the look at the old state
under `mu_` (`engine.cpp:226`) and the removal of its source under `sources_mu_` (`:233`).
Between the two only another engine call could change what the first has read. The control API's DELETE goes past the engine (`RestDelete`): the torrent
leaves the session, its state and its source stay. A selection that finds the torrent
gone between two steps goes on with the handle it copied, or its use of that handle
throws and the process ends, where the behaviour simply stops. A connection looks up its source, asks
for the size, runs the range callback and reads chunks; each access to a destroyed object
is undefined behaviour, modelled by the place `"undefined"` where the connection stops.
Sending HTTP is not modelled. The HTTP server is running throughout. A torrent that has
been removed is not added again here (that is TorrentLifecycle's subject). The MC module
declares torrents and files symmetric; no property of its runs is about liveness, and the
one that is about steps treats all torrents and all files alike.

### StreamDirectory

A torrent has a file that is `chosen` (`selected` of FileSelection, the catalog's record)
and the streams it offers (`Offers`: the server's table of that torrent, a set, so that two
sources of one torrent would show). A stream ends (`cancelled`) when nobody can look it up
any more and goes away (`destroyed`) after that. Each of the steps of `select_file` and
`remove_torrent` is one step of the directory or none.

### TorrentLifecycle

The four records of a torrent, each changed in its own step; the alert queue, whose
handles become stale when the torrent leaves the session (their use may throw, which
the dispatcher swallows, or still work); the metadata handlers in three steps, after
the guard, after the catalog and after the cache; and a crash at any point followed
by the restore, during which the alert thread already runs but nobody can call. The
control API's POST and DELETE are the steps the code gives them, fewer than the
engine's. A removal that meets a handle which has already left the session may throw
and end the process (`RemoveThrows`), because neither the C API nor the control API
catches it. `owed` and `gone` are history: what acknowledged calls promise, taken
back when an opposite call for the same torrent overlaps (`alone` says whether one did).
`deleted` is the same for the control API's DELETE, which promises less: it leaves the URI,
so its promise ends with the process (`Restart` clears it). The events that handlers fire
are in TorrentManager.

What SQLite and libtorrent may fail at is in the model, for torrents that the
configuration names. Every statement about a torrent of `Unstored` may fail, now and then
or always (the database did not open): a URI is not saved or not deleted (`Write`), not
read (`Read`), a row not inserted (`HandlerRows`); nobody is told, so the call goes on and
returns success. An alert of a torrent of `Crowded` may find libtorrent's queue full and
is dropped (`Post`). The properties say what this costs: nothing is claimed of what is not
stored, and everything of the others.

### DurableTorrents

One set, `saved` (`uris`), that a call changes at one moment: `add_torrent` as it returns,
`remove_torrent` when it deletes the URI; of an `Unstored` torrent it may not (`Change`). `booting` is `toRestore`, what a new process has
still to take over. A call is known by its place (`CallOf`): one of the places of
`add_torrent`, the place before the URI's deletion, one behind it.

### TorrentManager

The isolate is one of TorrentLifecycle's callers. A call into the C API blocks it, so its
other steps - `Attach`, `HandleEvent`, `Poll`, `ListFiles` - are guarded by `Turn`: no call of its own
is in progress. The callback only posts a message, hence `queue`, which the alert thread
appends to and the isolate takes from. Before `init` has set the callback `Fire` is lost.
`init` may fail at the server; engine and callback then stay, without list, listener and
poll (`"deaf"`), and a second `init` returns at once. `addTorrent` puts a new entry in
the place of an old one and thereby forgets that its metadata was noted (`NewEntry`); the
poll, which asks for every entry without metadata, makes up for that and for lost events.
Of the entries only three facts are kept: that there is one, that its metadata was noted,
that its files are in it. `ListFiles` is what a torrent's screen calls whenever it is
drawn; it puts the files in the entry whether or not the metadata was noted, so that
neither fact implies the other. Progress and rates are repainted and leave no trace.
The id that `addTorrent` returns is not always the engine's (`Given`): the Dart client passes
`ss_add_torrent` a buffer for 63 characters, and the id of a v2 or hybrid torrent
(`LongIds`) has 64. The entry is then under an id nobody knows. The events and
`list_torrents` carry whole ids, so that the next process lists the torrent under its own.
The user removes what the list shows; TorrentLifecycle alone, and the theorems about it,
have removals of any id.
The end of the process takes the client with it (`EngineGone`).

### OfflineCache, MCOfflineCache

`mu_` makes one operation at a time, but no operation is a transaction: `op.todo` holds
the statements an insertion or an eviction has still to run, each of which may fail, and
`Close` may fall between two of them. `cache_entries` keeps `offline_ready` and
`last_access`; progress, path and `added_at` are left out because no decision depends on
them. `op.failed` has the keys whose statement has failed. The clock is `now_epoch`, seconds that may be equal and may go back. `LruOrders` are
the results SQLite may return for `ORDER BY last_access ASC`, ties in any order, and
`Enough` says where the loop over them stops. `completed` is history: the calls of
`on_file_completed`. `enforce_quota` and `on_access` are modelled as written, although
nothing calls them yet (section 5).

### RangeParser, ByteRangeMapper, HttpStream

`RangeParser` is `parse_range_header` over tokens: trimming and splitting at the first
dash leave two tokens, each none, junk (what `std::stoll` throws on) or the number it
reads, which can be negative on the right side only. `ByteRangeMapper` gives the pieces of
a range of bytes; libtorrent's `map_file` is taken from how it is used.

`HttpStream` is `handle_connection`: the refusals in their order, the lookup, the promise
(headers, and the scheduler's hint) and the loop of `stream_body`, where each chunk is a
read and a write that both may fail, and a read may return less than it was asked. A
`Content-Length` is not a variable of its own: it is the length of the promised range.
Pieces complete and the source is removed at any time. The body is the sequence of the
file's bytes that were sent, so that a byte that is skipped or repeated shows.

### RangeTransfer

One connection after another: asked, answered with a promise (`head`), serving. `got` is
`body`, and `ready` the bytes whose pieces are complete. Only the next bytes of the promise
may be delivered, and only when they are ready; the connection may be over at any time.

### ServerLifecycle

One owner calls `start_server`, `stop_server` and the destructor, one after the other;
each step of them that another thread can come between is an action. `stop_server` is
also called by a control API connection that was asked to shut down, hence its place per
thread (`stopping`). The io_context thread runs one handler at a time; `on_tick` is four
steps because it holds `mu_` for a part of it and uses `tick_timer_` after that. A timer
that has expired has queued its handler (`due`), which cancelling does not take back.
Connections of the control API keep no reference to its object (`orphans`); those of the
stream server do, and are left to the modules above. Where the code would use an object
that is gone, or destroy a thread that is still joinable, the step sets `undefined` and
the behaviour ends there. `start_server` replaces the server objects and the thread; if
another thread's `stop_server` is still using them, that is undefined too.

### ServerSwitch

A switch that is down, rising, up or falling (`Phase`: `server_running_`, and the places of
`start_server` and `stop_server`), the `parts` that there are of the server (`Present`: the
acceptors that listen, the timer, the io thread), and `retired`, when the owner is behind
the destructor's first step. Parts appear one at a time while it rises, and vanish only
while it falls or when a start fails.

## 4. Runs

| Run | Bounds | Shows |
|---|---|---|
| `byte_source` | 2 readers, 1 read each, 1 canceller, 2 pieces | `DataOnlyWhenComplete`, `TimeoutIsHonest`, `EveryReadReturns`, and `KeepsPromise`: ByteSource implements ReadPromise, fairness included |
| `cancel_unblocks` (violation) | 1 reader | a cancelled read may sleep until its timeout |
| `scheduler` | 5 pieces, file of 4 that shares its first piece, budget 2, windows of 1 | `HotWindowRequested`, `ActiveNeverOvercounts`, `SeekDropsOldDeadlines`, `SettlesInStreamingFirst` |
| `file_selection` | 2 torrents x 2 files, 1 piece, 3 selections, 1 caller, 1 connection, DELETE at any time | `TableIsLive`, `CancelledBeforeDestroyed`, `TablesAgree`, `AvailabilityIsSound`, and `KeepsDirectory`: FileSelection implements StreamDirectory |
| `use_after_destroy`, `missed_piece` (violations) | as above | two statements of a comment and the change log that the code does not keep |
| `torrent_manager` | a magnet and a .torrent file, the isolate, 1 REST thread, 2 adds, 1 crash; the file's statements may fail, its alerts may be dropped, its id is cut | `AcknowledgedAddSurvives`, `AcknowledgedRemoveIsFinal`, `DeleteLastsTheProcess`, `CatalogHasRows`, `AcknowledgedAddIsListed`, `FilesAppear`, and `SavedAtOnce`: the engine, with the client over it, implements DurableTorrents |
| `readded_torrent` (violation) | 2 adds, no crash | a torrent added again never gets its metadata |
| `offline_cache` | 2 torrents x 2 files of sizes 1 and 2, quotas 0, 2 and 4, 3 times | `ReadyIsEarned`, `ReadySticks`, `EvictsOldestWhileOver`, `EvictionReachesQuota` |
| `http_stream` | pieces of 3 bytes, chunks of 2, files of 0 to 5 bytes at 3 offsets, numbers up to 6 | `RangeIsWhatWasAsked`, `OnlyCompleteBytes`, `EveryRequestEnds`, and `KeepsTransfer`: HttpStream implements RangeTransfer |
| `server_lifecycle` | 2 connections, limit 1, 2 starts | `OneStopPerStart`, `MembersOutliveHandlers`, `EveryStopReturns`, and `IsOneSwitch`: ServerLifecycle implements ServerSwitch |
| `graceful_shutdown` (violation) | 1 connection, 1 start | a stop that falls into a tick leaves it without its timer |

**Why the bounds are enough.** Two readers are needed for contention on the mutex and
for a notification that wakes one and misses another; a second read per thread adds
only a fresh call in the same states. Two pieces give spans that are partly complete.
For the scheduler, four file pieces with windows of one leave a piece before, in,
after and beyond both windows, a seek in both directions, and a budget that cuts the
plan; the file does not start at a piece boundary and ends at the torrent's shorter last piece. In
FileSelection two torrents are needed to confuse their schedulers, two files to
replace a selection by another, three selections to replace one twice or to come back
to a file; one piece is enough because pieces never interact. The caller is one because
the client calls from one isolate; what holds for several is proved for any number. In
TorrentManager two adds allow remove-and-add-again, and a duplicate that replaces an
entry; the two torrents differ in where their metadata comes from and share nothing but
the queue; the crash may fall anywhere, also into a restore. The .torrent file has
all the bad luck at once (`Unstored`, `Crowded`, `LongIds`) and the magnet none: what fails
for the one must cost the other nothing, and the promises about the magnet are checked in
every run of the file's failures. In OfflineCache the four
files weigh six: a quota of four is passed by deleting a small file and a large one, or
two small ones, one of two leaves one large file or two small ones, and zero is no quota;
three times give an oldest, a tie and a newest, in any order. In HttpStream chunks do not divide pieces, so that a chunk lies in one
piece or in two; the longest body is three chunks, the last of them shorter; numbers go
beyond the largest file, and every form of header is there with every pair of tokens. In
ServerLifecycle the second start is the one on a stopped io_context, and two connections
can both ask for a shutdown while the owner stops or destroys.

**Fairness.** `ByteSource`: a thread inside `read` runs, and a deadline passes and
wakes its thread (the operating system's scheduler and clock); the swarm, the alert
thread and cancellations owe nothing, so liveness holds when notifications are lost.
`StreamingScheduler`: the alert thread and the one-second timer run; the player and
the swarm owe nothing. `TorrentManager`: the alert thread runs, a call of the isolate that has begun goes on, and
the isolate's event loop now and again serves a message or its timer, however often the
user calls in between (strong fairness of `HandleEvent \/ Poll`, the loop as a whole: it is
disabled while a call blocks the isolate); the user, the control API, the swarm and
crashes owe nothing. That the alert thread runs rests on its timeout: the dispatcher waits
for a notification without a predicate and may miss one, but never waits longer than 500 ms
(`alert_dispatcher.cpp:41`). The wait itself is not modelled, here or in `ServerLifecycle`. `HttpStream`: the connection's
thread runs where it does not wait for its client, and a read ends (`EveryReadReturns`
of ByteSource). The client owes nothing, not even to go away: `do_accept` sets socket
timeouts, but nothing here relies on blocking calls honouring them, so
`EveryRequestEnds` excepts a client that keeps a write waiting for ever.
`ServerLifecycle`: threads inside `stop_server`, the io_context thread and the alert
thread run; a lock that is free again and again is not starved for ever, because at most
one tick follows the destruction of the timer. `FileSelection` and
`OfflineCache` have no liveness property and no fairness, and `TorrentLifecycle` alone
has neither: its run checks one invariant.

**Deadlock** is checked in every run but those of ServerLifecycle, which end with the
engine's destruction or undefined behaviour, and `torrent_manager`, which has nothing
left to do when the adds are used up and everything is removed.

## 5. What the code does not keep

Five runs are expected to fail; each checks one sentence of a comment or document.

- `cancel_unblocks`: `engine.cpp:406` says cancelled reads "unblock immediately".
  The notification may fall between the predicate and the wait.
- `use_after_destroy`: `CHANGELOG.md:211`. A connection that holds its source already
  reads the mapper after `remove_torrent` destroyed it; testing `cancelled_` first
  narrows the window and does not close it.
- `missed_piece`: `engine.cpp:252`. A piece finished between the status query and the
  publication is marked nowhere; reads of it time out.
- `readded_torrent`: `ARCHITECTURE.md:97`. `removed_ids_` is never cleared.
- `graceful_shutdown`: `README.md:1556`. `stop_server` resets `tick_timer_` on its
  caller's thread; an `on_tick` that has released `mu_` then uses it. Posting the
  cancellation to the io_context, or resetting after the join, would close this.

Seen while modelling, and not turned into runs:

- `SCHEDULER_POLICY.md` bounds the pieces with a deadline by the budget (moves within
  the hot window keep older ones), switches to download-assist above the stall threshold
  (the code: at it), and leads download-first to streaming-first (the code: to
  download-assist).
- One range callback serves all torrents and runs the scheduler of the last selection,
  whichever stream was asked for (`engine.cpp:286`; `ARCHITECTURE.md:70`).
- POST `/api/torrents` adds to the session but saves no URI (`control_api_server.cpp:249`;
  `ARCHITECTURE.md:99`).
- DELETE `/api/torrents/{id}` answers "removed" (`control_api_server.cpp:333-340`) and keeps
  the URI: the next process restores the torrent. `README.md:1554` says "Remove torrent", and
  `ARCHITECTURE.md:99` that persistence "works for all consumers (Flutter, REST, CLI)".
  `DeleteLastsTheProcess` is what is left of the promise; `AcknowledgedRemoveIsFinal` is the
  engine's call only.
- The Dart client's `addTorrent` says it "returns the 40-character hex torrent ID"
  (`seekserve_client.dart:85`; `C_API.md:39`). That of a v2 or hybrid torrent has 64, of which
  `ss_add_torrent` copies 63 (`seekserve_c.cpp:113`): no event or poll finds the new entry
  and no call with its id finds the torrent, until a restart lists it under its own id.
  `AcknowledgedAddIsListed` and `FilesAppear` are claimed accordingly.
- `save_torrent_uri`, `remove_torrent_uri`, `list_torrent_uris` and `on_torrent_added` log a
  failing statement at most; `add_torrent` and `remove_torrent` return success. A torrent is
  then lost, comes back, or has no rows that later updates would fall on.
- An alert that libtorrent drops because its queue is full is not made up for: if it was the
  last one of a torrent's metadata, the torrent gets no catalog entry.
- Two engine calls at once can leave a destroyed state's source registered
  (`engine.cpp:212`; `C_API.md:130` calls the API thread-safe). `TableIsLive` holds for
  one caller only.
- `start_server` after `stop_server` returns a port, but its io_context was stopped and
  is never restarted: nothing is accepted (`engine.cpp:383`, `:417`).
- A shutdown request between the start of the io thread and the end of `start_server` is
  answered and lost (`engine.cpp:388`).
- The connection limits (`SECURITY.md:24`) can be exceeded by connections that are
  accepted before the first of them counts itself, and an accept error ends an accept
  loop for good (`http_range_server.cpp:226`, `control_api_server.cpp:126`).
- `std::stoll` accepts a number followed by anything, so "bytes=1x-2" is served, where
  `HTTP_RANGE_SPEC.md:42` has a malformed header answered with 416.
- `enforce_quota` and `on_access` are called by nobody, though `STORAGE_POLICY.md:66` and
  `:72-78` describe when they are; a row's `last_access` moves with progress only.
- `enforce_quota` deletes rows, not files, and `is_offline_ready` does not look at the
  disk: it outlives files that are deleted by hand (`STORAGE_POLICY.md:82-86`), and a file
  that is still there loses it when its row is evicted and inserted again.
- `on_progress_update` overwrites the 1.0 that `on_file_completed` has set
  (`offline_cache.cpp:113`); progress is only shown.
- `on_file_completed` is called for `file_completed_alert`, whose category the session's
  alert mask does not name (`session_manager.cpp:34`).
- POST of a file selection over REST changes the catalog only: no state, no source. The
  catalog's selection and the engine's then differ until the next `select_file`.
- `select_file` calls `handle.status()` unguarded (`engine.cpp:257`): if the control API
  deletes the torrent at that moment the exception leaves the C API and ends the process.
- `fire_event` calls the callback with `event_mu_` held (`engine.cpp:484`). Dart's callback
  posts a message and returns; one that called back into the event setters would deadlock.
- In the Dart client: an `init` that fails at the server leaves a client that a second
  `init` takes for ready (`ss_torrent_manager.dart:76`); a removal of a torrent that the
  engine does not know throws and keeps the entry (`:138`); adding a torrent again replaces
  its entry (found again by the poll); the callback is closed before the engine that may
  still call it is destroyed (`seekserve_client.dart:256`); `togglePause` acts on the
  status of the last poll (`ss_torrent_manager.dart:178`); strings the callback gets are
  not freed, though `seekserve_c.cpp:218` says the callee frees them.

## 6. Proofs

| Theorem | Says |
|---|---|
| `ByteSourceProofs!TypeCorrect` | type correctness, any threads, pieces, reads |
| `ByteSourceProofs!DataSafe` | `Spec => []DataOnlyWhenComplete` |
| `ByteSourceProofs!TimeoutHonest` | `Spec => []TimeoutIsHonest` |
| `ByteSourceProofs!Refinement` | `Spec => Promise!Safety`: every step of ByteSource is a step of ReadPromise or a stutter |
| `SchedulerProofs!TypeCorrect` | playhead and deadlines stay in the file, for every layout and configuration |
| `SchedulerProofs!HotWindowTheorem` | `Spec => []HotWindowRequested` |
| `SchedulerProofs!ActiveTheorem` | `Spec => []ActiveNeverOvercounts` |
| `SchedulerProofs!PlanHasNoGap` | every plan of `set_deadlines` is without a hole: a missing piece of its windows that comes before a planned one is planned |
| `SchedulerProofs!SeekTheorem` | `Spec => SeekDropsOldDeadlines` |
| `HttpStreamProofs!ParseIsExact` | for every header and size, the parser yields exactly the bytes asked for, or nothing when there are none |
| `HttpStreamProofs!TypeCorrect` | `Spec => []TypeOK`: offset and remaining stay natural numbers |
| `HttpStreamProofs!RangeTheorem` | `Spec => []RangeIsWhatWasAsked` |
| `HttpStreamProofs!BodyTheorem` | `Spec => []BodyFollowsHead` |
| `HttpStreamProofs!CompleteBytesTheorem` | `Spec => []OnlyCompleteBytes` |
| `HttpStreamProofs!TransferTheorem` | `Spec => KeepsTransfer`: every step of HttpStream is a step of RangeTransfer or a stutter |
| `ServerProofs!TypeCorrect` | type correctness; `active_connections_` stays between zero and the number of connections |
| `ServerProofs!OneStop` | `Spec => []OneStopPerStart` |
| `ServerProofs!StoppedQuiet` | `Spec => []StoppedIsQuiet` |
| `ServerProofs!MembersOutlive` | `Spec => []MembersOutliveHandlers` |
| `ServerProofs!SwitchTheorem` | `Spec => IsOneSwitch`: every step of ServerLifecycle is a step of ServerSwitch or a stutter |
| `FileSelectionProofs!SelectionTypes`, `NoForeignPieces` | `[]TypeOK`, `[]AvailabilityIsSound`, for any number of callers |
| `FileSelectionProofs!TableStaysLive`, `OneStreamAtATime`, `CancelledFirst`, `TablesAgreeBetweenCalls` | `[]TableIsLive`, `[]OneStreamPerTorrent`, `[]CancelledBeforeDestroyed`, `[]TablesAgree`, for one caller (`OneCaller`), whatever the control API deletes |
| `FileSelectionProofs!DirectoryTheorem` | `Spec => KeepsDirectory`, for one caller: every step of FileSelection is a step of StreamDirectory or a stutter |
| `LifecycleProofs!LifecycleTypes` | type correctness of TorrentLifecycle |
| `LifecycleProofs!AddsAreKept` | `Spec => []AcknowledgedAddSurvives`, of what SQLite stores |
| `LifecycleProofs!RemovalsAreFinal` | `Spec => []AcknowledgedRemoveIsFinal`, of the engine's `remove_torrent` |
| `LifecycleProofs!DeletesLast` | `Spec => []DeleteLastsTheProcess`, of the control API's DELETE |
| `LifecycleProofs!RowsFollowTheCatalog` | `Spec => []CatalogHasRows` |
| `LifecycleProofs!SavedTheorem` | `Spec => SavedAtOnce`: every step of TorrentLifecycle is a step of DurableTorrents or a stutter |
| `LifecycleProofs!ClientImplementsEngine` | `ClientSpec => Spec`: TorrentManager implements TorrentLifecycle |
| `LifecycleProofs!ClientTypes` | `ClientSpec => []ClientTypeOK` |
| `LifecycleProofs!AddsAreListed` | `ClientSpec => []AcknowledgedAddIsListed` |
| `OfflineCacheProofs!TypeCorrect` | type correctness, any torrents, sizes, quotas and times |
| `OfflineCacheProofs!OnlyCompleteFilesAreReady` | `Spec => []ReadyIsEarned` |
| `OfflineCacheProofs!ReadyFilesStayReady` | `Spec => ReadySticks` |
| `OfflineCacheProofs!OnlyTheOldestAreEvicted` | `Spec => EvictsOldestWhileOver` |
| `OfflineCacheProofs!QuotaIsReached` | `Spec => EvictionReachesQuota` |

`StoppedIsQuiet`, `OneStreamPerTorrent` and `BodyFollowsHead` are defined in the proof
modules: the runs check the refinements, which say more.

They assume only what the modules' ASSUMEs state: positive numbers of pieces, a file
that has at least one piece, windows and budget that are natural numbers; a positive piece
length and chunk size; finitely many connections and callers; that `None` is no torrent,
file or object; that calls of the engine and of the control API come from different
threads; that the isolate is a caller; that magnets, and the torrents that may go unstored or whose
alerts may be dropped, are torrents (all of them or none), and a cut id is no torrent's; sizes and quotas that are natural numbers.

*ByteSource.* `DataOnlyWhenComplete` is not inductive: a thread reads the file because
its wait was granted, and the wait is also granted by a cancellation. The invariant
says, for each place behind the predicate, what the thread knows there: at `granted`
its span is complete (pieces are never unmarked), at `stopped` the source is
cancelled (and stays so, so the test after the wait stops it), at `refused` the span
was not complete when its time was up. The refinement uses the same invariant to show
that `AfterWait` answers only what ReadPromise allows.

*StreamingScheduler.* `HotWindowRequested` needs that every deadline of the plan is set
in the same step as the playhead, mode and boost that define the window, and that
nothing else moves the window or clears deadlines; then only completions can change
it, and they remove a piece from both sides. The arithmetic is about the budget: the
first `DeadlineBudget` pieces of the hot window are among the planned ones.
`ActiveNeverOvercounts` relates the gauge to a cardinality that changes with
`MarkComplete` and is made up for by `OnPieceComplete`; the half-handled piece is the
term in between. A seek is the one step that moves the playhead by more than the hot window,
and it clears before it plans, so that what is left is the new plan, which lies in the new
windows (`PlanInWindow`). That the budget is never spent behind a hole (`PlanHasNoGap`) is a
comparison of cardinalities: fewer pieces are missing before an earlier piece.

*HttpStream.* The invariant adds to the three properties what the loop maintains: while a
body is being sent, `offset` is the first byte after those that were sent and `offset +
remaining` the first after those promised (`LoopInv`); a chunk that was read lies in
complete pieces (`ChunkInv`), which follows from the monotony of `map_file`
(`MapFileMonotone`, `MapCovers`): a byte between two bytes lies in a piece between
theirs. `ParseIsExact` is by cases of the three forms of a header; with it, that headers
and hint agree with the request holds from the promise on, because nothing changes the
request or the head before the next connection. The refinement of `RangeTransfer` needs one
thing more, that the promise lies in the file (`PromiseInFile`), from `ParseIsExact` again: then
every byte of a chunk is one of the file's, its piece is complete, and the chunk is the next
bytes of the promise (`SendRefines`). A write that sent nothing is a stutter or the end.

*ServerLifecycle.* None of the properties is inductive. The invariant follows the
phases: a start begins from nothing and adds one part after the other (`StartInv`), a
stop takes them away one after the other (`StopInv`), in between nothing is there
(`QuietInv`), and only a connection that was asked to shut down is in `stop_server`
(`CallInv`). `OwnerInv` carries the destructor: once its `stop_server` is past the test of
`server_running_` the server does not run again, and each later place has the earlier ones'
effects behind it. `PartsInv`, which the refinement of `ServerSwitch` adds, says which parts a
start has put up by the place it has reached, and that all are there while the server runs;
that a stop is the only one under way (`StoppedIsQuiet`) then makes every step of a stop a
step of one switch, whichever thread takes it. `active_connections_` is the cardinality of
the connections inside their guard (`CountInv`); it needs that those of a replaced server are orphans, and that
without members there are only orphans.

*FileSelection.* Two invariants. The first (`GenInv`) holds for any callers: a call knows
its torrent, its file and its object (`CallsAreFormed`), an object that is being wired is
in nobody else's hands (`WiringIsPrivate`), an alert speaks of pieces its torrent has
(`AlertsAreTrue`), and there is room for the objects that calls in progress will create
(`RoomIsReserved`), and what `states_` holds is alive (`StatesAreAlive`, which no run checks:
it holds because `states_` owns its objects). The second (`CallerInv`) needs one caller: all torrents but the one of
the call are at rest - table, catalog and state name the same file (`OthersAreSettled`) -
and the call's place says which of its torrent's records it has already changed
(`Progress`). The directory's steps are read off `Progress`: the table has nothing of the torrent
when its old state is cancelled (`CancelRefines`), so nobody finds a stream that ends; the
old state is cancelled when it is destroyed (`DropRefines`); and what is registered is of the
file chosen, in an empty entry, and not cancelled (`RegisterRefines`). With two callers `Progress`
fails, and so do the properties (section 5).

*TorrentLifecycle.* A call is `alone` if no call of the opposite kind for its torrent has
overlapped it so far, and two opposite calls always know of each other (`OppositesKnow`). So what
an earlier step of a lone add has recorded is still recorded when it returns
(`OwedIsKept`), and what a lone removal has deleted is still deleted (`GoneIsForgotten`).
A crash keeps `uris`, and a restore brings back exactly those it can read, hence the
disjunct `toRestore`; both are claimed outside `Unstored` only, and no step changes what they
say of one torrent by failing on another. A DELETE is settled when no add of its torrent is
under way, and then only a new add or the restore enters it in the session or in `handles_`
(`DeletedStaysAway`). The client's list is made from `uris` and grows with every add, so that what
is owed is listed; that its steps are the engine's or leave it alone is `ClientImplementsEngine`. The
refinement of `DurableTorrents` needs that no call changes `uris` twice and that nobody else does: the
control API's threads are never at a place that saves or forgets a URI (`RestNeverSaves`),
and the restore, which forgets a file that it cannot load, runs before anybody may call.
By `ClientImplementsEngine` it holds with the client too.

*OfflineCache.* The sum of the sizes is never computed. The victims of an eviction are
rows, each once (`VictimsAreRows`), the first of the order (`VictimsAreOldest`), and their
last is the first after whose deletion the rest fits (`VictimsAreEnough`); deleting the
head shifts that by one. All three are about the rows but those whose deletion has failed
(`Deletable`): whether its statement succeeds or fails, the head leaves them, so that
failures need no case of their own.

*Only model-checked:* the liveness properties (`EveryReadReturns`,
`SettlesInStreamingFirst`, `EveryRequestEnds`, `EveryStopReturns`, `FilesAppear`) and the
fairness part of `KeepsPromise`, because temporal reasoning about ENABLED is out of the
prover's reach. The abstract specifications of the other four refinements state no fairness,
so these are proved whole.

## 7. Not modelled

- The video player (section 2 says why) and the other widgets and screens.
- The control API's selection of a file, which touches the catalog's record only.
- `pause`, `resume`, file selection and stream URLs of the Dart manager: one engine call
  each and no state beside what the next poll reads. `dispose` is the end of the process.
- The stream server's own accept loop: it is the control API's but for the reference each
  connection holds, and is not modelled twice.
- The token comparison, the C API's argument checks and string allocation (but for the
  cut id), JSON, logging,
  settings of libtorrent and the demo program: they have no state whose changes could be
  ordered wrongly.
- The alert dispatcher's wait for a notification: the alert thread is assumed to go on
  because of its timeout (section 4).
- The lock-free bitset of `PieceAvailabilityIndex`: a set of pieces stands for it.
