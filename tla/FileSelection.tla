--------------------------- MODULE FileSelection ---------------------------
(***************************************************************************)
(* The engine's per-torrent streaming state and the HTTP server's table of *)
(* byte sources: SeekServeEngine::select_file and remove_torrent as the    *)
(* sequences of separately locked steps they are, running against the      *)
(* alert thread, the HTTP connection threads and the control API's DELETE. *)
(*                                                                         *)
(* A selection creates a TorrentState, here an object 1, 2, ... that holds *)
(* the availability index, the mapper and the scheduler of one file.       *)
(* states_ owns it.  Its ByteSource is shared with the HTTP server and     *)
(* outlives it, holding references into it; the range callback holds a     *)
(* bare pointer to its scheduler.                                          *)
(***************************************************************************)
EXTENDS Integers, FiniteSets, Sequences

CONSTANTS Torrents, Files, Pieces,
          Callers,        \* threads that call the engine API
          Connections,    \* HTTP connection threads
          MaxSelections,  \* bound: select_file calls that create a state
          None            \* no object, no file, no torrent

ASSUME SelectionAssumption == /\ MaxSelections \in Nat
                              /\ IsFiniteSet(Callers)
                              /\ None \notin Nat
                              /\ None \notin Files
                              /\ None \notin Torrents

VARIABLES
    session,    \* TorrentSessionManager::handles_
    catalog,    \* torrents with a MetadataCatalog entry
    selected,   \* [Torrents -> the catalog's selected file or None]
    have,       \* [Torrents -> pieces libtorrent has]
    alerts,     \* [Torrents -> pieces with a piece_finished_alert to dispatch]
    objects,    \* [Objects created so far -> their torrent and file]
    avail,      \* [Objects -> pieces marked complete]
    cancelled,  \* objects whose ByteSource is cancelled
    destroyed,  \* objects whose TorrentState is destroyed
    states,     \* [Torrents -> object or None], the engine's states_
    sources,    \* [Torrents \X Files -> object or None], the server's sources_
    rangeCb,    \* object whose scheduler range_callback_ points to, or None
    op,         \* [Callers -> the call in progress]
    conn        \* [Connections -> the request in progress]

engineVars == <<session, catalog, selected, states>>
swarmVars  == <<have, alerts>>
objectVars == <<objects, avail, cancelled, destroyed>>
serverVars == <<sources, rangeCb>>
vars == <<engineVars, swarmVars, objectVars, serverVars, op, conn>>

Objects == 1..MaxSelections
Created == DOMAIN objects
NoCall == [at |-> "idle", t |-> None, f |-> None, obj |-> None, victims |-> {}]
NoRequest == [at |-> "idle", src |-> None, want |-> {}]

Init == /\ session = Torrents          \* added, with metadata
        /\ catalog = Torrents
        /\ selected = [t \in Torrents |-> None]
        /\ have \in [Torrents -> SUBSET Pieces]
        /\ alerts = [t \in Torrents |-> {}]
        /\ objects = << >>
        /\ avail = [o \in Objects |-> {}]
        /\ cancelled = {} /\ destroyed = {}
        /\ states = [t \in Torrents |-> None]
        /\ sources = [k \in Torrents \X Files |-> None]
        /\ rangeCb = None
        /\ op = [c \in Callers |-> NoCall]
        /\ conn = [h \in Connections |-> NoRequest]

-----------------------------------------------------------------------------
(* select_file(t, f)                                                       *)

Step(c, from, to) == /\ op[c].at = from
                     /\ op' = [op EXCEPT ![c].at = to]
Return(c) == op' = [op EXCEPT ![c] = NoCall]

\* A call that is going to create a state.
Creating(d) == op[d].f # None /\ op[d].obj = None

\* The handle is valid, the catalog knows the file and records the selection.
\* (Otherwise the call returns an error and changes nothing.)
SelectBegin(c, t, f) ==
    /\ op[c].at = "idle"
    /\ t \in session /\ t \in catalog
    /\ Len(objects) + Cardinality({d \in Callers : Creating(d)}) < MaxSelections
    /\ selected' = [selected EXCEPT ![t] = f]
    /\ op' = [op EXCEPT ![c] = [NoCall EXCEPT !.at = "unregister", !.t = t, !.f = f]]
    /\ UNCHANGED <<session, catalog, states, swarmVars, objectVars, serverVars, conn>>

\* Slip: the previous selection is not looked up.
OldKeysForgotten(t) == {}

\* Under mu_: the file of the old state.  Then, under sources_mu_, take its
\* source out of the server's table.
OldKeys(t) == IF states[t] = None THEN {} ELSE {<<t, objects[states[t]].f>>}

\* Slip: sources are cancelled but stay in the table.
UnregisterNothing(keys) == UNCHANGED sources

Unregister(keys) ==
    sources' = [k \in DOMAIN sources |-> IF k \in keys THEN None ELSE sources[k]]

\* Slip: an absent source is not told from a present one.
TakeOutUnchecked(c, keys, to) ==
    /\ op' = [op EXCEPT ![c].at = to, ![c].victims = {sources[k] : k \in keys}]
    /\ Unregister(keys)
    /\ UNCHANGED <<engineVars, swarmVars, objectVars, rangeCb, conn>>

TakeOut(c, keys, to) ==
    /\ op' = [op EXCEPT ![c].at = to,
                        ![c].victims = {sources[k] : k \in keys} \ {None}]
    /\ Unregister(keys)
    /\ UNCHANGED <<engineVars, swarmVars, objectVars, rangeCb, conn>>

\* The old file is looked up under mu_ before the server is told, under a lock of its
\* own; only calls change states_, so with one caller nothing comes between the two.
SelectUnregisterOld(c) ==
    /\ op[c].at = "unregister"
    /\ TakeOut(c, OldKeys(op[c].t), "cancelOld")

\* Slip: sources leave the table without being cancelled.
CancelNobody(c) ==
    UNCHANGED <<engineVars, swarmVars, objectVars, serverVars, conn>>

CancelVictims(c) ==
    /\ cancelled' = cancelled \cup op[c].victims
    /\ UNCHANGED <<engineVars, swarmVars, objects, avail, destroyed, serverVars, conn>>

SelectCancelOld(c) == Step(c, "cancelOld", "create") /\ CancelVictims(c)

\* A new state, its availability copied from handle.status().  libtorrent answers for
\* a torrent that has just left the session too, or throws, and the process ends.
NewState(c) ==
    /\ LET o == Len(objects) + 1
       IN  /\ objects' = Append(objects, [t |-> op[c].t, f |-> op[c].f])
           /\ avail' = [avail EXCEPT ![o] = have[op[c].t]]
           /\ op' = [op EXCEPT ![c].at = "register", ![c].obj = o]
    /\ UNCHANGED <<cancelled, destroyed>>

\* If another thread has removed the torrent: metadata_not_ready, with the old source
\* already withdrawn.
SelectCreate(c) ==
    /\ op[c].at = "create"
    /\ IF op[c].t \in catalog THEN NewState(c) ELSE Return(c) /\ UNCHANGED objectVars
    /\ UNCHANGED <<engineVars, swarmVars, serverVars, conn>>

SelectRegister(c) ==
    /\ Step(c, "register", "callback")
    /\ sources' = [sources EXCEPT ![<<op[c].t, op[c].f>>] = op[c].obj]
    /\ UNCHANGED <<engineVars, swarmVars, objectVars, rangeCb, conn>>

SelectSetCallback(c) ==
    /\ Step(c, "callback", "publish")
    /\ rangeCb' = op[c].obj
    /\ UNCHANGED <<engineVars, swarmVars, objectVars, sources, conn>>

\* Under mu_: states_[id] = std::move(state) destroys the old state.
Drop(t) == destroyed' = destroyed \cup ({states[t]} \ {None})

SelectPublish(c) ==
    /\ op[c].at = "publish"
    /\ Return(c)
    /\ states' = [states EXCEPT ![op[c].t] = op[c].obj]
    /\ Drop(op[c].t)
    /\ UNCHANGED <<session, catalog, selected, swarmVars, objects, avail, cancelled,
                   serverVars, conn>>

-----------------------------------------------------------------------------
(* remove_torrent(t)                                                       *)

RemoveBegin(c, t) ==
    /\ op[c].at = "idle"
    /\ op' = [op EXCEPT ![c] = [NoCall EXCEPT !.at = "takeAll", !.t = t]]
    /\ UNCHANGED <<engineVars, swarmVars, objectVars, serverVars, conn>>

RemoveUnregister(c) ==
    /\ op[c].at = "takeAll"
    /\ TakeOut(c, {op[c].t} \X Files, "cancelAll")

RemoveCancel(c) == Step(c, "cancelAll", "erase") /\ CancelVictims(c)

\* Under mu_: states_.erase(id).
RemoveErase(c) ==
    /\ Step(c, "erase", "forget")
    /\ states' = [states EXCEPT ![op[c].t] = None]
    /\ Drop(op[c].t)
    /\ UNCHANGED <<session, catalog, selected, swarmVars, objects, avail, cancelled,
                   serverVars, conn>>

\* Slip: the catalog entry survives the torrent.
RemoveForgetNothing(c) ==
    /\ Step(c, "forget", "leave")
    /\ UNCHANGED <<engineVars, swarmVars, objectVars, serverVars, conn>>

RemoveForget(c) ==
    /\ Step(c, "forget", "leave")
    /\ catalog' = catalog \ {op[c].t}
    /\ selected' = [selected EXCEPT ![op[c].t] = None]
    /\ UNCHANGED <<session, states, swarmVars, objectVars, serverVars, conn>>

RemoveLeave(c) ==
    /\ op[c].at = "leave"
    /\ Return(c)
    /\ session' = session \ {op[c].t}
    /\ UNCHANGED <<catalog, selected, states, swarmVars, objectVars, serverVars, conn>>

\* DELETE of the control API: the torrent leaves the session and nothing else.
RestDelete(t) ==
    /\ t \in session
    /\ session' = session \ {t}
    /\ UNCHANGED <<catalog, selected, states, swarmVars, objectVars, serverVars, op, conn>>

-----------------------------------------------------------------------------
(* The swarm and the alert thread.                                         *)

Download(t, p) ==
    /\ t \in session
    /\ p \notin have[t]
    /\ have' = [have EXCEPT ![t] = @ \cup {p}]
    /\ alerts' = [alerts EXCEPT ![t] = @ \cup {p}]
    /\ UNCHANGED <<engineVars, objectVars, serverVars, op, conn>>

\* Slip: the alert's torrent is ignored.
DispatchToEveryone(t, p) ==
    /\ p \in alerts[t]
    /\ alerts' = [alerts EXCEPT ![t] = @ \ {p}]
    /\ avail' = [o \in Objects |-> IF \E u \in Torrents : states[u] = o
                                  THEN avail[o] \cup {p} ELSE avail[o]]
    /\ UNCHANGED <<engineVars, have, objects, cancelled, destroyed, serverVars, op, conn>>

\* piece_finished_alert, under mu_: mark the piece in the state states_ holds.
DispatchPieceFinished(t, p) ==
    /\ p \in alerts[t]
    /\ alerts' = [alerts EXCEPT ![t] = @ \ {p}]
    /\ avail' = IF states[t] = None THEN avail
                ELSE [avail EXCEPT ![states[t]] = @ \cup {p}]
    /\ UNCHANGED <<engineVars, have, objects, cancelled, destroyed, serverVars, op, conn>>

-----------------------------------------------------------------------------
(* An HTTP connection.  Touching a destroyed TorrentState is undefined      *)
(* behaviour: the connection is then "undefined" and not followed further.  *)

unchangedByConn == <<engineVars, swarmVars, objectVars, serverVars, op>>

Goto(h, place) == /\ conn' = [conn EXCEPT ![h].at = place]
                  /\ UNCHANGED unchangedByConn
Touch(h, o, place) == Goto(h, IF o \in destroyed THEN "undefined" ELSE place)
Close(h) == conn' = [conn EXCEPT ![h] = NoRequest] /\ UNCHANGED unchangedByConn

\* Under sources_mu_: find the source; the copy keeps the ByteSource alive.
Lookup(h, k) ==
    /\ conn[h].at = "idle"
    /\ sources[k] # None
    /\ conn' = [conn EXCEPT ![h] = [NoRequest EXCEPT !.at = "size", !.src = sources[k]]]
    /\ UNCHANGED unchangedByConn

\* source->file_size() reads the mapper.
FileSize(h) == conn[h].at = "size" /\ Touch(h, conn[h].src, "notify")

\* The callback takes the torrent and file of the request but does not use them:
\* it runs the scheduler it was made with.  Before the first selection is wired
\* there is none.
RangeCallback(h) ==
    /\ conn[h].at = "notify"
    /\ Touch(h, rangeCb, "read")

\* read() of one chunk: the first test of cancelled_ ...
ReadBegin(h) ==
    /\ conn[h].at = "read"
    /\ IF conn[h].src \in cancelled THEN Close(h) ELSE Goto(h, "map")

\* ... the mapper gives the span ...
ReadMap(h, s) ==
    /\ conn[h].at = "map"
    /\ conn' = [conn EXCEPT
           ![h].at = IF conn[h].src \in destroyed THEN "undefined" ELSE "wait",
           ![h].want = s]
    /\ UNCHANGED unchangedByConn

\* ... the predicate tests the flag first and then the availability index ...
ReadTestCancelled(h) ==
    /\ conn[h].at = "wait"
    /\ IF conn[h].src \in cancelled THEN Close(h) ELSE Goto(h, "testSpan")

ReadTestSpan(h) ==
    /\ conn[h].at = "testSpan"
    /\ Touch(h, conn[h].src,
             IF conn[h].want \subseteq avail[conn[h].src] THEN "disk" ELSE "wait")

\* ... until the pieces are there, or time is up.
ReadTimeout(h) == conn[h].at = "wait" /\ Close(h)

\* The chunk is sent; another follows or the response is complete.
SendChunk(h) == conn[h].at = "disk" /\ (Goto(h, "read") \/ Close(h))

-----------------------------------------------------------------------------
Next ==
    \/ \E c \in Callers :
          \/ \E t \in Torrents, f \in Files : SelectBegin(c, t, f)
          \/ SelectUnregisterOld(c) \/ SelectCancelOld(c) \/ SelectCreate(c)
          \/ SelectRegister(c) \/ SelectSetCallback(c) \/ SelectPublish(c)
          \/ \E t \in Torrents : RemoveBegin(c, t)
          \/ RemoveUnregister(c) \/ RemoveCancel(c) \/ RemoveErase(c)
          \/ RemoveForget(c) \/ RemoveLeave(c)
    \/ \E t \in Torrents : RestDelete(t)
    \/ \E t \in Torrents, p \in Pieces : Download(t, p) \/ DispatchPieceFinished(t, p)
    \/ \E h \in Connections :
          \/ \E k \in Torrents \X Files : Lookup(h, k)
          \/ FileSize(h) \/ RangeCallback(h) \/ ReadBegin(h)
          \/ \E s \in SUBSET Pieces \ {{}} : ReadMap(h, s)
          \/ ReadTestCancelled(h) \/ ReadTestSpan(h) \/ ReadTimeout(h) \/ SendChunk(h)

Spec == Init /\ [][Next]_vars

-----------------------------------------------------------------------------
CallPlaces == {"idle", "unregister", "cancelOld", "create", "register", "callback",
               "publish", "takeAll", "cancelAll", "erase", "forget", "leave"}
ConnPlaces == {"idle", "size", "notify", "read", "map", "wait", "testSpan", "disk",
               "undefined"}

\* Every variable stays in its type; objects are created in order.
TypeOK ==
    /\ session \subseteq Torrents /\ catalog \subseteq Torrents
    /\ selected \in [Torrents -> Files \cup {None}]
    /\ have \in [Torrents -> SUBSET Pieces] /\ alerts \in [Torrents -> SUBSET Pieces]
    /\ objects \in Seq([t : Torrents, f : Files]) /\ Len(objects) <= MaxSelections
    /\ avail \in [Objects -> SUBSET Pieces]
    /\ cancelled \subseteq Created /\ destroyed \subseteq Created
    /\ states \in [Torrents -> Created \cup {None}]
    /\ sources \in [Torrents \X Files -> Created \cup {None}]
    /\ rangeCb \in Created \cup {None}
    /\ op \in [Callers -> [at : CallPlaces, t : Torrents \cup {None},
                           f : Files \cup {None}, obj : Created \cup {None},
                           victims : SUBSET Created]]
    /\ conn \in [Connections -> [at : ConnPlaces, src : Created \cup {None},
                                 want : SUBSET Pieces]]

\* The server never offers a source whose state is destroyed or whose reads are
\* cancelled: a source leaves the table before either happens.
Registered == {sources[k] : k \in DOMAIN sources} \ {None}
TableIsLive == Registered \cap (destroyed \cup cancelled) = {}

\* No state is destroyed before its source is cancelled: whoever still reads from
\* it has been told to stop.
CancelledBeforeDestroyed == destroyed \subseteq cancelled

\* When no call is in progress, the engine's states, the server's table and the
\* catalog's selection agree on every torrent, whatever the control API has deleted.
AllCallersIdle == \A c \in Callers : op[c].at = "idle"
TablesAgree ==
    AllCallersIdle =>
        \A t \in Torrents :
            /\ \A f \in Files :
                  sources[<<t, f>>] = IF states[t] # None /\ objects[states[t]].f = f
                                      THEN states[t] ELSE None
            /\ selected[t] = IF states[t] = None THEN None ELSE objects[states[t]].f

\* A state claims only pieces its own torrent has: no alert of one torrent ever
\* marks a piece of another's.
AvailabilityIsSound ==
    \A o \in Created : avail[o] \subseteq have[objects[o].t]

-----------------------------------------------------------------------------
(* The streams as the application and the player see them, when one thread  *)
(* calls at a time.                                                         *)

\* Each torrent offers one stream at a time, of the file chosen last; the old stream is
\* withdrawn, then told to stop, then destroyed, and the new one is offered after the
\* first of these: select_file and remove_torrent keep the directory of the abstract
\* specification in every step.
Offers(t) == {<<f, sources[<<t, f>>]>> : f \in {g \in Files : sources[<<t, g>>] # None}}
Directory == INSTANCE StreamDirectory WITH
                Streams <- Objects,
                chosen  <- selected,
                offered <- [t \in Torrents |-> Offers(t)],
                ended   <- cancelled,
                gone    <- destroyed
KeepsDirectory == Directory!Spec

-----------------------------------------------------------------------------
(* What comments and documents claim.                                      *)

\* remove_torrent and select_file leave no HTTP thread with a destroyed state.
NoUseAfterDestroy == \A h \in Connections : conn[h].at # "undefined"

\* Pre-population plus the alerts make every piece that is on disk available to
\* the reads of the selected file.
NoPieceMissed ==
    \A t \in Torrents :
        states[t] # None /\ alerts[t] = {} => have[t] \subseteq avail[states[t]]
=============================================================================
