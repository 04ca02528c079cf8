-------------------------- MODULE LifecycleProofs --------------------------
(***************************************************************************)
(* Proofs about TorrentLifecycle, for any torrents, threads and number of  *)
(* crashes, and about the Dart client over it (TorrentManager), which      *)
(* implements it: each of its steps is a step of the engine or leaves the  *)
(* engine alone.                                                           *)
(*                                                                         *)
(* The argument: a call that is alone has, at every step, no call of the   *)
(* opposite kind for its torrent beside it, so what its earlier steps have *)
(* established still holds when it returns.                                *)
(* That the saved torrents are a set which each call changes once is the   *)
(* refinement of DurableTorrents.                                          *)
(***************************************************************************)
EXTENDS TorrentManager, TLAPS, SequenceTheorems

Alerts == [kind : {"add", "metadata"}, t : Torrents, stale : BOOLEAN]
Places == {"idle"} \cup Adding \cup Removing
Calls  == [at : Places, t : Torrents \cup {None}, alone : BOOLEAN]

-----------------------------------------------------------------------------
(* The inductive invariant.                                                *)

CallsNameTorrents == \A c \in Threads : op[c].at # "idle" => op[c].t \in Torrents

HandlerNamesTorrent == IF handler.at = "idle" THEN handler.t = None
                                              ELSE handler.t \in Torrents

RestoringIsQuiet == toRestore # {} => \A c \in Threads : op[c].at = "idle"

\* Two opposite calls for one torrent know of each other.
OppositesKnow ==
    \A c, d \in Threads :
        op[c].at \in Adding /\ op[d].at \in Removing /\ op[c].t = op[d].t
            => ~op[c].alone /\ ~op[d].alone

ControlInv == /\ CallsNameTorrents /\ HandlerNamesTorrent
              /\ RestoringIsQuiet /\ OppositesKnow

OwedIsKept ==
    /\ owed \ Unstored \subseteq uris
    /\ owed \ Unstored \subseteq (handles \cap session) \cup toRestore
    /\ \A c \in Threads : op[c].at \in Removing => op[c].t \notin owed
    /\ \A c \in Threads : op[c].at \in {"register", "save"} /\ op[c].alone
                            => op[c].t \in session
    /\ \A c \in Threads : op[c].at = "save" /\ op[c].alone => op[c].t \in handles

GoneIsForgotten ==
    /\ (gone \ Unstored) \cap (uris \cup session \cup handles) = {}
    /\ \A t \in session \ handles :
          \E c \in Threads : op[c].at = "register" /\ op[c].t = t
    /\ \A c \in Threads : op[c].at \in Adding => op[c].t \notin gone
    /\ \A c \in Threads : op[c].at \in {"erase", "uncatalog", "leave"} /\ op[c].alone
                            => op[c].t \notin uris \ Unstored

DeletedStaysAway ==
    /\ deleted \cap (session \cup handles) = {}
    /\ \A c \in Threads : op[c].at \in Adding => op[c].t \notin deleted
    /\ toRestore # {} => deleted = {}

-----------------------------------------------------------------------------
(* What the steps of a call do to op.                                      *)

LEMMA OpType == TypeOK <=> TypeOK /\ op \in [Threads -> Calls]
  BY DEF TypeOK, Calls, Places

LEMMA StepEffect ==
  ASSUME op \in [Threads -> Calls],
         NEW c \in Threads, NEW from, NEW to \in Places, Step(c, from, to)
  PROVE  /\ op' \in [Threads -> Calls]
         /\ op[c].at = from
         /\ op'[c].at = to /\ op'[c].t = op[c].t /\ op'[c].alone = op[c].alone
         /\ \A d \in Threads \ {c} : op'[d] = op[d]
  BY DEF Step, Calls

LEMMA ReturnEffect ==
  ASSUME op \in [Threads -> Calls], NEW c \in Threads, Return(c)
  PROVE  /\ op' \in [Threads -> Calls]
         /\ op'[c].at = "idle"
         /\ \A d \in Threads \ {c} : op'[d] = op[d]
  <1>1. Idle \in Calls
    BY DEF Idle, Calls, Places
  <1> QED  BY <1>1 DEF Return, Idle

\* A new call, and what it makes the others know.
Outstrips(d, t, opposite) == op[d].t = t /\ op[d].at \in opposite

LEMMA BeginEffect ==
  ASSUME op \in [Threads -> Calls],
         NEW c \in Threads, NEW t \in Torrents, NEW place \in Places, NEW opposite,
         Begin(c, t, place, opposite)
  PROVE  /\ op' \in [Threads -> Calls]
         /\ Constructed /\ op[c].at = "idle"
         /\ op'[c].at = place /\ op'[c].t = t
         /\ op'[c].alone => \A d \in Threads : ~Outstrips(d, t, opposite)
         /\ \A d \in Threads \ {c} :
               /\ op'[d].at = op[d].at /\ op'[d].t = op[d].t
               /\ op'[d].alone => op[d].alone /\ ~Outstrips(d, t, opposite)
  <1> DEFINE New(d) ==
        CASE d = c -> [at |-> place, t |-> t, alone |-> ~Busy(t, opposite)]
          [] d # c /\ op[d].t = t /\ op[d].at \in opposite
                 -> [op[d] EXCEPT !.alone = FALSE]
          [] OTHER -> op[d]
  <1>1. op' = [d \in Threads |-> New(d)] /\ Constructed /\ op[c].at = "idle"
    BY DEF Begin
  <1>2. New(c) = [at |-> place, t |-> t, alone |-> ~Busy(t, opposite)]
    OBVIOUS
  <1>3. (~Busy(t, opposite)) = TRUE \/ (~Busy(t, opposite)) = FALSE
    BY Zenon DEF Busy
  <1>4. New(c) \in Calls
    BY <1>2, <1>3 DEF Calls
  <1>5. ASSUME NEW d \in Threads \ {c}
        PROVE  /\ New(d) \in Calls
               /\ New(d).at = op[d].at /\ New(d).t = op[d].t
               /\ New(d).alone => op[d].alone /\ ~Outstrips(d, t, opposite)
    <2>1. CASE Outstrips(d, t, opposite)
      <3>1. New(d) = [op[d] EXCEPT !.alone = FALSE]
        BY <2>1 DEF Outstrips
      <3>2. op[d] \in Calls
        OBVIOUS
      <3> QED  BY <3>1, <3>2 DEF Calls
    <2>2. CASE ~Outstrips(d, t, opposite)
      <3>1. New(d) = op[d]
        BY <2>2 DEF Outstrips
      <3> QED  BY <2>2, <3>1
    <2> QED  BY <2>1, <2>2
  <1>6. New(c).alone => \A d \in Threads : ~Outstrips(d, t, opposite)
    BY <1>2 DEF Busy, Outstrips
  <1> HIDE DEF New
  <1>7. \A d \in Threads : op'[d] = New(d) /\ New(d) \in Calls
    BY <1>1, <1>4, <1>5
  <1>8. op' \in [Threads -> Calls]
    BY <1>1, <1>7
  <1> QED  BY <1>1, <1>2, <1>5, <1>6, <1>7, <1>8

LEMMA RestRemoveEffect ==
  ASSUME op \in [Threads -> Calls], NEW c \in Threads, NEW t \in Torrents,
         RestRemove(c, t)
  PROVE  /\ op' \in [Threads -> Calls]
         /\ Constructed /\ op[c].at = "idle" /\ t \in handles
         /\ LeaveSession(t) /\ owed' = owed \ {t}
         /\ deleted' \subseteq deleted \cup {t}
         /\ t \in deleted' \ deleted => \A d \in Threads : ~Outstrips(d, t, Adding)
         /\ \A d \in Threads :
               /\ op'[d].at = op[d].at /\ op'[d].t = op[d].t
               /\ op'[d].alone => op[d].alone /\ ~Outstrips(d, t, Adding)
         /\ UNCHANGED <<uris, rows, catalog, removed, handler, toRestore, adds, crashes,
                        gone>>
  <1> DEFINE New(d) == IF op[d].t = t /\ op[d].at \in Adding
                       THEN [op[d] EXCEPT !.alone = FALSE] ELSE op[d]
  <1>1. op' = [d \in Threads |-> New(d)]
    BY DEF RestRemove
  <1>2. ASSUME NEW d \in Threads
        PROVE  /\ New(d) \in Calls
               /\ New(d).at = op[d].at /\ New(d).t = op[d].t
               /\ New(d).alone => op[d].alone /\ ~Outstrips(d, t, Adding)
    <2>1. op[d] \in Calls
      OBVIOUS
    <2>2. CASE Outstrips(d, t, Adding)
      BY <2>1, <2>2 DEF Outstrips, Calls
    <2>3. CASE ~Outstrips(d, t, Adding)
      BY <2>1, <2>3 DEF Outstrips
    <2> QED  BY <2>2, <2>3
  <1> HIDE DEF New
  <1>3. \A d \in Threads : op'[d] = New(d)
    BY <1>1
  <1>4. op' \in [Threads -> Calls]
    BY <1>1, <1>2
  <1>5. Constructed /\ op[c].at = "idle" /\ t \in handles /\ LeaveSession(t)
    BY DEF RestRemove
  <1>6. /\ owed' = owed \ {t}
        /\ deleted' \subseteq deleted \cup {t}
        /\ t \in deleted' \ deleted => \A d \in Threads : ~Outstrips(d, t, Adding)
        /\ UNCHANGED <<uris, rows, catalog, removed, handler, toRestore, adds, crashes,
                       gone>>
    BY DEF RestRemove, disk, Busy, Outstrips
  <1> QED  BY <1>2, <1>3, <1>4, <1>5, <1>6
-----------------------------------------------------------------------------
(* What SQLite makes of a statement.                                       *)

LEMMA InsertEffect ==
  ASSUME NEW t, Write(t, uris \cup {t})
  PROVE  uris \subseteq uris' /\ uris' \subseteq uris \cup {t} /\ t \in uris' \cup Unstored
  BY DEF Write

LEMMA DeleteEffect ==
  ASSUME NEW t, Write(t, uris \ {t})
  PROVE  uris' \subseteq uris /\ uris \ {t} \subseteq uris' /\ t \notin uris' \ Unstored
  BY DEF Write

LEMMA ReadEffect ==
  ASSUME NEW table, NEW result \in Read(table)
  PROVE  result \subseteq table /\ table \ Unstored \subseteq result
  BY DEF Read

-----------------------------------------------------------------------------
(* What the steps do to libtorrent.                                        *)

LEMMA PostEffect ==
  ASSUME alerts \in Seq(Alerts), NEW t \in Torrents, NEW kind \in {"add", "metadata"},
         Post(kind, t)
  PROVE  alerts' \in Seq(Alerts)
  <1> DEFINE a == [kind |-> kind, t |-> t, stale |-> FALSE]
  <1>1. a \in Alerts
    BY DEF Alerts
  <1>2. alerts' = Append(alerts, a) \/ alerts' = alerts
    BY DEF Post
  <1> QED  BY <1>1, <1>2

LEMMA LtAddEffect ==
  ASSUME TypeOK, NEW t \in Torrents, LtAdd(t)
  PROVE  /\ session' = session \cup {t}
         /\ metadata' \subseteq session'
         /\ alerts' \in Seq(Alerts)
  <1>1. metadata \subseteq session /\ alerts \in Seq(Alerts)
    BY DEF TypeOK, Alerts
  <1>2. session' = session \cup {t} /\ metadata' \subseteq metadata \cup {t}
    BY DEF LtAdd
  <1>3. Post("add", t) \/ alerts' = alerts
    BY DEF LtAdd
  <1> QED  BY <1>1, <1>2, <1>3, PostEffect

LEMMA LeaveEffect ==
  ASSUME TypeOK, NEW t \in Torrents, LeaveSession(t)
  PROVE  /\ session' \subseteq session /\ handles' \subseteq handles
         /\ metadata' \subseteq session'
         /\ alerts' \in Seq(Alerts)
         /\ t \notin handles' /\ (t \in session' => t \notin handles)
         /\ \A u \in Torrents \ {t} : /\ u \in session => u \in session'
                                      /\ u \in handles => u \in handles'
  <1>1. metadata \subseteq session /\ alerts \in Seq(Alerts)
    BY DEF TypeOK, Alerts
  <1>2. CASE t \notin handles /\ UNCHANGED <<libtorrent, handles>>
    BY <1>1, <1>2 DEF libtorrent
  <1>3. CASE t \in handles /\ LtRemove(t) /\ handles' = handles \ {t}
    <2>1. session' = session \ {t} /\ metadata' = metadata \ {t}
      BY <1>3 DEF LtRemove
    <2> DEFINE Aged(i) == [alerts[i] EXCEPT !.stale = @ \/ alerts[i].t = t]
    <2>2. alerts' = [i \in DOMAIN alerts |-> Aged(i)]
      BY <1>3 DEF LtRemove
    <2>3. ASSUME NEW i \in DOMAIN alerts  PROVE Aged(i) \in Alerts
      <3>1. alerts[i] \in Alerts
        BY <1>1
      <3>2. (alerts[i].stale \/ alerts[i].t = t) \in BOOLEAN
        BY <3>1 DEF Alerts
      <3> QED  BY <3>1, <3>2 DEF Alerts
    <2> HIDE DEF Aged
    <2>4. alerts' \in Seq(Alerts)
      BY <1>1, <2>2, <2>3
    <2> QED  BY <1>1, <1>3, <2>1, <2>4
  <1> QED  BY <1>2, <1>3 DEF LeaveSession

-----------------------------------------------------------------------------
Inv == /\ TypeOK /\ ControlInv
       /\ OwedIsKept /\ GoneIsForgotten /\ DeletedStaysAway /\ CatalogHasRows

LEMMA AddBeginKeeps ==
  ASSUME Inv, NEW c \in Threads, NEW t \in Torrents, AddBegin(c, t)
  PROVE  Inv'
  <1>1. /\ gone' = gone \ {t} /\ deleted' = deleted \ {t}
        /\ adds < MaxAdds /\ adds' = adds + 1
        /\ UNCHANGED <<uris, rows, session, metadata, alerts, handles, catalog, removed,
                       handler, toRestore, crashes, owed>>
    BY DEF AddBegin, disk, libtorrent, volatile
  <1>2. /\ op' \in [Threads -> Calls]
        /\ Constructed /\ op[c].at = "idle"
        /\ op'[c].at = "ltAdd" /\ op'[c].t = t
        /\ op'[c].alone => \A d \in Threads : ~Outstrips(d, t, Removing)
        /\ \A d \in Threads \ {c} :
              /\ op'[d].at = op[d].at /\ op'[d].t = op[d].t
              /\ op'[d].alone => op[d].alone /\ ~Outstrips(d, t, Removing)
    <2>1. op \in [Threads -> Calls] /\ "ltAdd" \in Places
      BY OpType DEF Inv, Places, Adding
    <2> QED  BY <2>1, BeginEffect DEF AddBegin
  <1>3. TypeOK'
    BY <1>1, <1>2, LifecycleAssumption DEF Inv, TypeOK, Calls, Places
  <1>4. ControlInv'
    BY <1>1, <1>2 DEF Inv, ControlInv, CallsNameTorrents, HandlerNamesTorrent,
       RestoringIsQuiet, OppositesKnow, Outstrips, Constructed, Adding, Removing
  <1>5. OwedIsKept'
    BY <1>1, <1>2 DEF Inv, OwedIsKept, Removing
  <1>6. GoneIsForgotten'
    BY <1>1, <1>2 DEF Inv, GoneIsForgotten, Adding
  <1>7. CatalogHasRows'
    BY <1>1 DEF Inv, CatalogHasRows
  <1>8. DeletedStaysAway'
    BY <1>1, <1>2 DEF Inv, DeletedStaysAway, Adding
  <1> QED  BY <1>3, <1>4, <1>5, <1>6, <1>7, <1>8 DEF Inv

LEMMA AddToLibtorrentKeeps ==
  ASSUME Inv, NEW c \in Threads, AddToLibtorrent(c)
  PROVE  Inv'
  <1>1. /\ session' = session \cup {op[c].t}
        /\ metadata' \subseteq session' /\ alerts' \in Seq(Alerts)
        /\ op[c].t \in Torrents
        /\ UNCHANGED <<uris, rows, handles, catalog, removed, handler, toRestore,
                       adds, crashes, owed, gone, deleted>>
    BY LtAddEffect DEF AddToLibtorrent, Step, Inv, ControlInv, CallsNameTorrents,
       disk, volatile, history
  <1>2. /\ op' \in [Threads -> Calls]
        /\ op[c].at = "ltAdd"
        /\ op'[c].at = "register" /\ op'[c].t = op[c].t /\ op'[c].alone = op[c].alone
        /\ \A d \in Threads \ {c} : op'[d] = op[d]
    <2>1. op \in [Threads -> Calls] /\ "register" \in Places
      BY OpType DEF Inv, Places, Adding, Removing
    <2> QED  BY <2>1, StepEffect DEF AddToLibtorrent
  <1>3. TypeOK'
    BY <1>1, <1>2 DEF Inv, TypeOK, Calls, Places, Alerts
  <1>4. ControlInv'
    <2>1. CallsNameTorrents' /\ HandlerNamesTorrent'
      BY <1>1, <1>2 DEF Inv, ControlInv, CallsNameTorrents, HandlerNamesTorrent
    <2>2. RestoringIsQuiet'
      BY <1>1, <1>2 DEF Inv, ControlInv, RestoringIsQuiet, Constructed
    <2>3. OppositesKnow'
      <3>1. \A d \in Threads : /\ op'[d].t = op[d].t /\ (op'[d].alone => op[d].alone)
                               /\ op'[d].at \in Adding => op[d].at \in Adding
                               /\ op'[d].at \in Removing => op[d].at \in Removing
        BY <1>2 DEF Adding, Removing
      <3> QED  BY <3>1 DEF Inv, ControlInv, OppositesKnow, Adding, Removing
    <2> QED  BY <2>1, <2>2, <2>3 DEF ControlInv
  <1>5. OwedIsKept'
    BY <1>1, <1>2 DEF Inv, OwedIsKept, Adding, Removing
  <1>6. GoneIsForgotten'
    BY <1>1, <1>2 DEF Inv, GoneIsForgotten, Adding, Removing
  <1>7. CatalogHasRows'
    BY <1>1, <1>2 DEF Inv, TypeOK, ControlInv, HandlerNamesTorrent, CatalogHasRows
  <1>8. DeletedStaysAway'
    BY <1>1, <1>2 DEF Inv, DeletedStaysAway, Adding
  <1> QED  BY <1>3, <1>4, <1>5, <1>6, <1>7, <1>8 DEF Inv

LEMMA AddRegisterKeeps ==
  ASSUME Inv, NEW c \in Threads, AddRegister(c)
  PROVE  Inv'
  <1>1. /\ handles' = handles \cup {op[c].t}
        /\ UNCHANGED <<uris, rows, session, metadata, alerts, catalog, removed,
                       handler, toRestore, adds, crashes, owed, gone, deleted>>
    BY DEF AddRegister, disk, libtorrent, history
  <1>2. /\ op' \in [Threads -> Calls]
        /\ op[c].at = "register" /\ op[c].t \in Torrents
        /\ \/ op'[c].at = "idle"
           \/ op'[c].at = "save" /\ op'[c].t = op[c].t /\ (op'[c].alone => op[c].alone)
        /\ \A d \in Threads \ {c} : op'[d] = op[d]
    <2>1. /\ op \in [Threads -> Calls] /\ "save" \in Places
          /\ op[c].at = "register" /\ op[c].t \in Torrents
      BY OpType DEF AddRegister, Inv, ControlInv, CallsNameTorrents, Places, Adding
    <2>2. CASE Return(c)
      <3>1. /\ op' \in [Threads -> Calls] /\ op'[c].at = "idle"
            /\ \A d \in Threads \ {c} : op'[d] = op[d]
        BY <2>1, <2>2, ReturnEffect
      <3> QED  BY <2>1, <3>1
    <2>3. CASE Step(c, "register", "save")
      BY <2>1, <2>3, StepEffect
    <2> QED  BY <2>2, <2>3 DEF AddRegister
  <1>3. TypeOK'
    BY <1>1, <1>2 DEF Inv, TypeOK, Calls, Places, Alerts
  <1>4. ControlInv'
    <2>1. CallsNameTorrents' /\ HandlerNamesTorrent'
      BY <1>1, <1>2 DEF Inv, ControlInv, CallsNameTorrents, HandlerNamesTorrent
    <2>2. RestoringIsQuiet'
      BY <1>1, <1>2 DEF Inv, ControlInv, RestoringIsQuiet, Constructed
    <2>3. OppositesKnow'
      BY <1>2 DEF Inv, ControlInv, OppositesKnow, Outstrips, Adding, Removing
    <2> QED  BY <2>1, <2>2, <2>3 DEF ControlInv
  <1>5. OwedIsKept'
    BY <1>1, <1>2 DEF Inv, OwedIsKept, Adding, Removing
  <1>6. GoneIsForgotten'
    <2>1. ((gone \ Unstored) \cap (uris \cup session \cup handles))' = {}
      BY <1>1, <1>2 DEF Inv, GoneIsForgotten, Adding
    <2>2. ASSUME NEW t \in session' \ handles'
          PROVE  \E d \in Threads : op'[d].at = "register" /\ op'[d].t = t
      <3>1. PICK d \in Threads : op[d].at = "register" /\ op[d].t = t
        BY <1>1, <2>2 DEF Inv, GoneIsForgotten
      <3>2. d # c
        BY <1>1, <2>2, <3>1
      <3> QED  BY <1>2, <3>1, <3>2
    <2>3. \A d \in Threads : op'[d].at \in Adding => op'[d].t \notin gone'
      BY <1>1, <1>2 DEF Inv, GoneIsForgotten, Adding
    <2>4. \A d \in Threads : op'[d].at \in {"erase", "uncatalog", "leave"} /\ op'[d].alone
                             => op'[d].t \notin uris' \ Unstored
      BY <1>1, <1>2 DEF Inv, GoneIsForgotten
    <2> QED  BY <2>1, <2>2, <2>3, <2>4 DEF GoneIsForgotten
  <1>7. CatalogHasRows'
    BY <1>1, <1>2 DEF Inv, TypeOK, ControlInv, HandlerNamesTorrent, CatalogHasRows
  <1>8. DeletedStaysAway'
    BY <1>1, <1>2 DEF Inv, DeletedStaysAway, Adding
  <1> QED  BY <1>3, <1>4, <1>5, <1>6, <1>7, <1>8 DEF Inv

LEMMA AddSaveKeeps ==
  ASSUME Inv, NEW c \in Threads, AddSave(c)
  PROVE  Inv'
  <1>1. /\ uris \subseteq uris' /\ uris' \subseteq uris \cup {op[c].t}
        /\ op[c].t \in uris' \cup Unstored
        /\ owed' = IF op[c].alone THEN owed \cup {op[c].t} ELSE owed
        /\ op[c].t \in Torrents
        /\ UNCHANGED <<rows, session, metadata, alerts, handles, catalog, removed,
                       handler, toRestore, adds, crashes, gone, deleted>>
    BY InsertEffect DEF AddSave, libtorrent, volatile, Inv, ControlInv, CallsNameTorrents
  <1>2. /\ op' \in [Threads -> Calls]
        /\ op[c].at = "save"
        /\ op'[c].at = "idle"
        /\ \A d \in Threads \ {c} : op'[d] = op[d]
    <2>1. op \in [Threads -> Calls]
      BY OpType DEF Inv
    <2> QED  BY <2>1, ReturnEffect DEF AddSave
  <1>3. TypeOK'
    BY <1>1, <1>2 DEF Inv, TypeOK, Calls, Places, Alerts
  <1>4. ControlInv'
    <2>1. CallsNameTorrents' /\ HandlerNamesTorrent'
      BY <1>1, <1>2 DEF Inv, ControlInv, CallsNameTorrents, HandlerNamesTorrent
    <2>2. RestoringIsQuiet'
      BY <1>1, <1>2 DEF Inv, ControlInv, RestoringIsQuiet, Constructed
    <2>3. OppositesKnow'
      BY <1>2 DEF Inv, ControlInv, OppositesKnow, Adding, Removing
    <2> QED  BY <2>1, <2>2, <2>3 DEF ControlInv
  <1>5. OwedIsKept'
    <2>1. /\ owed' \ Unstored \subseteq uris'
          /\ owed' \ Unstored \subseteq (handles' \cap session') \cup toRestore'
      BY <1>1, <1>2 DEF Inv, OwedIsKept
    <2>2. \A d \in Threads : op'[d].at \in Removing => op'[d].t \notin owed'
      BY <1>1, <1>2 DEF Inv, OwedIsKept, ControlInv, OppositesKnow, Adding, Removing
    <2>3. \A d \in Threads : op'[d].at \in {"register", "save"} =>
             op'[d] = op[d] /\ session' = session /\ handles' = handles
      BY <1>1, <1>2
    <2>4. /\ \A d \in Threads : op'[d].at \in {"register", "save"} /\ op'[d].alone
                                => op'[d].t \in session'
          /\ \A d \in Threads : op'[d].at = "save" /\ op'[d].alone
                                => op'[d].t \in handles'
      BY <2>3 DEF Inv, OwedIsKept
    <2> QED  BY <2>1, <2>2, <2>4 DEF OwedIsKept
  <1>6. GoneIsForgotten'
    <2>1. op[c].t \notin gone
      BY <1>2 DEF Inv, GoneIsForgotten, Adding
    <2>2. (gone' \ Unstored) \cap (uris' \cup session' \cup handles') = {}
      BY <1>1, <2>1 DEF Inv, GoneIsForgotten
    <2>3. \A t \in session' \ handles' :
             \E d \in Threads : op'[d].at = "register" /\ op'[d].t = t
      BY <1>1, <1>2 DEF Inv, GoneIsForgotten
    <2>4. \A d \in Threads : op'[d].at \in Adding => op'[d].t \notin gone'
      BY <1>1, <1>2 DEF Inv, GoneIsForgotten, Adding
    <2>5. \A d \in Threads : op'[d].at \in {"erase", "uncatalog", "leave"} /\ op'[d].alone
                             => op'[d].t \notin uris' \ Unstored
      BY <1>1, <1>2 DEF Inv, GoneIsForgotten, ControlInv, OppositesKnow, Adding, Removing
    <2> QED  BY <2>2, <2>3, <2>4, <2>5 DEF GoneIsForgotten
  <1>7. CatalogHasRows'
    BY <1>1, <1>2 DEF Inv, TypeOK, ControlInv, HandlerNamesTorrent, CatalogHasRows
  <1>8. DeletedStaysAway'
    BY <1>1, <1>2 DEF Inv, DeletedStaysAway, Adding
  <1> QED  BY <1>3, <1>4, <1>5, <1>6, <1>7, <1>8 DEF Inv

LEMMA RemoveBeginKeeps ==
  ASSUME Inv, NEW c \in Threads, NEW t \in Torrents, RemoveBegin(c, t)
  PROVE  Inv'
  <1>1. /\ owed' = owed \ {t}
        /\ UNCHANGED <<uris, rows, session, metadata, alerts, handles, catalog,
                       removed, handler, toRestore, adds, crashes, gone, deleted>>
    BY DEF RemoveBegin, disk, libtorrent, volatile
  <1>2. /\ op' \in [Threads -> Calls]
        /\ Constructed /\ op[c].at = "idle"
        /\ op'[c].at = "forgetUri" /\ op'[c].t = t
        /\ op'[c].alone => \A d \in Threads : ~Outstrips(d, t, Adding)
        /\ \A d \in Threads \ {c} :
              /\ op'[d].at = op[d].at /\ op'[d].t = op[d].t
              /\ op'[d].alone => op[d].alone /\ ~Outstrips(d, t, Adding)
    <2>1. op \in [Threads -> Calls] /\ "forgetUri" \in Places
      BY OpType DEF Inv, Places, Removing
    <2> QED  BY <2>1, BeginEffect DEF RemoveBegin
  <1>3. TypeOK'
    BY <1>1, <1>2 DEF Inv, TypeOK, Calls, Places, Alerts
  <1>4. ControlInv'
    <2>1. CallsNameTorrents' /\ HandlerNamesTorrent'
      BY <1>1, <1>2 DEF Inv, ControlInv, CallsNameTorrents, HandlerNamesTorrent
    <2>2. RestoringIsQuiet'
      BY <1>1, <1>2 DEF Inv, ControlInv, RestoringIsQuiet, Constructed
    <2>3. OppositesKnow'
      BY <1>2 DEF Inv, ControlInv, OppositesKnow, Outstrips, Adding, Removing
    <2> QED  BY <2>1, <2>2, <2>3 DEF ControlInv
  <1>5. OwedIsKept'
    BY <1>1, <1>2 DEF Inv, OwedIsKept, Adding, Removing
  <1>6. GoneIsForgotten'
    BY <1>1, <1>2 DEF Inv, GoneIsForgotten, Adding, Removing
  <1>7. CatalogHasRows'
    BY <1>1, <1>2 DEF Inv, TypeOK, ControlInv, HandlerNamesTorrent, CatalogHasRows
  <1>8. DeletedStaysAway'
    BY <1>1, <1>2 DEF Inv, DeletedStaysAway, Adding
  <1> QED  BY <1>3, <1>4, <1>5, <1>6, <1>7, <1>8 DEF Inv

LEMMA RemoveForgetUriKeeps ==
  ASSUME Inv, NEW c \in Threads, RemoveForgetUri(c)
  PROVE  Inv'
  <1>1. /\ uris' \subseteq uris /\ uris \ {op[c].t} \subseteq uris'
        /\ op[c].t \notin uris' \ Unstored
        /\ UNCHANGED <<rows, session, metadata, alerts, handles, catalog, removed,
                       handler, toRestore, adds, crashes, owed, gone, deleted>>
    BY DeleteEffect DEF RemoveForgetUri, libtorrent, volatile, history
  <1>2. /\ op' \in [Threads -> Calls]
        /\ op[c].at = "forgetUri"
        /\ op'[c].at = "erase" /\ op'[c].t = op[c].t /\ op'[c].alone = op[c].alone
        /\ \A d \in Threads \ {c} : op'[d] = op[d]
    <2>1. op \in [Threads -> Calls] /\ "erase" \in Places
      BY OpType DEF Inv, Places, Adding, Removing
    <2> QED  BY <2>1, StepEffect DEF RemoveForgetUri
  <1>3. TypeOK'
    BY <1>1, <1>2 DEF Inv, TypeOK, Calls, Places, Alerts, ControlInv, RestoringIsQuiet,
       Constructed
  <1>4. ControlInv'
    <2>1. CallsNameTorrents' /\ HandlerNamesTorrent'
      BY <1>1, <1>2 DEF Inv, ControlInv, CallsNameTorrents, HandlerNamesTorrent
    <2>2. RestoringIsQuiet'
      BY <1>1, <1>2 DEF Inv, ControlInv, RestoringIsQuiet, Constructed
    <2>3. OppositesKnow'
      BY <1>2 DEF Inv, ControlInv, OppositesKnow, Outstrips, Adding, Removing
    <2> QED  BY <2>1, <2>2, <2>3 DEF ControlInv
  <1>5. OwedIsKept'
    BY <1>1, <1>2 DEF Inv, OwedIsKept, Adding, Removing
  <1>6. GoneIsForgotten'
    BY <1>1, <1>2 DEF Inv, GoneIsForgotten, Adding, Removing
  <1>7. CatalogHasRows'
    BY <1>1, <1>2 DEF Inv, TypeOK, ControlInv, HandlerNamesTorrent, CatalogHasRows
  <1>8. DeletedStaysAway'
    BY <1>1, <1>2 DEF Inv, DeletedStaysAway, Adding
  <1> QED  BY <1>3, <1>4, <1>5, <1>6, <1>7, <1>8 DEF Inv

LEMMA RemoveEraseKeeps ==
  ASSUME Inv, NEW c \in Threads, RemoveErase(c)
  PROVE  Inv'
  <1>1. /\ removed' = removed \cup {op[c].t}
        /\ op[c].t \in Torrents
        /\ UNCHANGED <<uris, rows, session, metadata, alerts, handles, catalog,
                       handler, toRestore, adds, crashes, owed, gone, deleted>>
    BY DEF RemoveErase, Step, disk, libtorrent, history, Inv, ControlInv,
       CallsNameTorrents
  <1>2. /\ op' \in [Threads -> Calls]
        /\ op[c].at = "erase"
        /\ op'[c].at = "uncatalog" /\ op'[c].t = op[c].t /\ op'[c].alone = op[c].alone
        /\ \A d \in Threads \ {c} : op'[d] = op[d]
    <2>1. op \in [Threads -> Calls] /\ "uncatalog" \in Places
      BY OpType DEF Inv, Places, Adding, Removing
    <2> QED  BY <2>1, StepEffect DEF RemoveErase
  <1>3. TypeOK'
    BY <1>1, <1>2 DEF Inv, TypeOK, Calls, Places, Alerts
  <1>4. ControlInv'
    <2>1. CallsNameTorrents' /\ HandlerNamesTorrent'
      BY <1>1, <1>2 DEF Inv, ControlInv, CallsNameTorrents, HandlerNamesTorrent
    <2>2. RestoringIsQuiet'
      BY <1>1, <1>2 DEF Inv, ControlInv, RestoringIsQuiet, Constructed
    <2>3. OppositesKnow'
      BY <1>2 DEF Inv, ControlInv, OppositesKnow, Outstrips, Adding, Removing
    <2> QED  BY <2>1, <2>2, <2>3 DEF ControlInv
  <1>5. OwedIsKept'
    BY <1>1, <1>2 DEF Inv, OwedIsKept, Adding, Removing
  <1>6. GoneIsForgotten'
    BY <1>1, <1>2 DEF Inv, GoneIsForgotten, Adding, Removing
  <1>7. CatalogHasRows'
    BY <1>1, <1>2 DEF Inv, TypeOK, ControlInv, HandlerNamesTorrent, CatalogHasRows
  <1>8. DeletedStaysAway'
    BY <1>1, <1>2 DEF Inv, DeletedStaysAway, Adding
  <1> QED  BY <1>3, <1>4, <1>5, <1>6, <1>7, <1>8 DEF Inv

LEMMA RemoveUncatalogKeeps ==
  ASSUME Inv, NEW c \in Threads, RemoveUncatalog(c)
  PROVE  Inv'
  <1>1. /\ catalog' = catalog \ {op[c].t}
        /\ UNCHANGED <<uris, rows, session, metadata, alerts, handles, removed,
                       handler, toRestore, adds, crashes, owed, gone, deleted>>
    BY DEF RemoveUncatalog, disk, libtorrent, history
  <1>2. /\ op' \in [Threads -> Calls]
        /\ op[c].at = "uncatalog"
        /\ op'[c].at = "leave" /\ op'[c].t = op[c].t /\ op'[c].alone = op[c].alone
        /\ \A d \in Threads \ {c} : op'[d] = op[d]
    <2>1. op \in [Threads -> Calls] /\ "leave" \in Places
      BY OpType DEF Inv, Places, Adding, Removing
    <2> QED  BY <2>1, StepEffect DEF RemoveUncatalog
  <1>3. TypeOK'
    BY <1>1, <1>2 DEF Inv, TypeOK, Calls, Places, Alerts
  <1>4. ControlInv'
    <2>1. CallsNameTorrents' /\ HandlerNamesTorrent'
      BY <1>1, <1>2 DEF Inv, ControlInv, CallsNameTorrents, HandlerNamesTorrent
    <2>2. RestoringIsQuiet'
      BY <1>1, <1>2 DEF Inv, ControlInv, RestoringIsQuiet, Constructed
    <2>3. OppositesKnow'
      BY <1>2 DEF Inv, ControlInv, OppositesKnow, Outstrips, Adding, Removing
    <2> QED  BY <2>1, <2>2, <2>3 DEF ControlInv
  <1>5. OwedIsKept'
    BY <1>1, <1>2 DEF Inv, OwedIsKept, Adding, Removing
  <1>6. GoneIsForgotten'
    <2>1. ((gone \ Unstored) \cap (uris \cup session \cup handles))' = {}
      BY <1>1 DEF Inv, GoneIsForgotten
    <2>2. \A t \in session' \ handles' :
             \E d \in Threads : op'[d].at = "register" /\ op'[d].t = t
      BY <1>1, <1>2 DEF Inv, GoneIsForgotten
    <2>3. \A d \in Threads : op'[d].at \in Adding => op'[d].t \notin gone'
      BY <1>1, <1>2 DEF Inv, GoneIsForgotten, Adding
    <2>4. \A d \in Threads : op'[d].at \in {"erase", "uncatalog", "leave"} /\ op'[d].alone
                             => op'[d].t \notin uris' \ Unstored
      BY <1>1, <1>2 DEF Inv, GoneIsForgotten
    <2> QED  BY <2>1, <2>2, <2>3, <2>4 DEF GoneIsForgotten
  <1>7. CatalogHasRows'
    BY <1>1, <1>2 DEF Inv, TypeOK, ControlInv, HandlerNamesTorrent, CatalogHasRows
  <1>8. DeletedStaysAway'
    BY <1>1, <1>2 DEF Inv, DeletedStaysAway, Adding
  <1> QED  BY <1>3, <1>4, <1>5, <1>6, <1>7, <1>8 DEF Inv

LEMMA RemoveLeaveKeeps ==
  ASSUME Inv, NEW c \in Threads, RemoveLeave(c)
  PROVE  Inv'
  <1>1. /\ session' \subseteq session /\ handles' \subseteq handles
        /\ metadata' \subseteq session' /\ alerts' \in Seq(Alerts)
        /\ op[c].t \notin handles' /\ (op[c].t \in session' => op[c].t \notin handles)
        /\ \A u \in Torrents \ {op[c].t} : /\ u \in session => u \in session'
                                           /\ u \in handles => u \in handles'
        /\ gone' = IF op[c].alone THEN gone \cup {op[c].t} ELSE gone
        /\ deleted' = deleted \ gone'
        /\ op[c].t \in Torrents
        /\ UNCHANGED <<uris, rows, catalog, removed, handler, toRestore, adds,
                       crashes, owed>>
    BY LeaveEffect DEF RemoveLeave, disk, Inv, ControlInv, CallsNameTorrents
  <1>2. /\ op' \in [Threads -> Calls]
        /\ op[c].at = "leave"
        /\ op'[c].at = "idle"
        /\ \A d \in Threads \ {c} : op'[d] = op[d]
    <2>1. op \in [Threads -> Calls]
      BY OpType DEF Inv
    <2> QED  BY <2>1, ReturnEffect DEF RemoveLeave
  <1>3. TypeOK'
    BY <1>1, <1>2 DEF Inv, TypeOK, Calls, Places, Alerts
  <1>4. ControlInv'
    <2>1. CallsNameTorrents' /\ HandlerNamesTorrent' /\ RestoringIsQuiet'
      BY <1>1, <1>2 DEF Inv, ControlInv, CallsNameTorrents, HandlerNamesTorrent,
         RestoringIsQuiet
    <2>2. OppositesKnow'
      BY <1>2 DEF Inv, ControlInv, OppositesKnow, Adding, Removing
    <2> QED  BY <2>1, <2>2 DEF ControlInv
  <1>5. OwedIsKept'
    <2>1. owed \subseteq Torrents /\ op[c].t \notin owed
      BY <1>2 DEF Inv, TypeOK, OwedIsKept, Removing
    <2>2. /\ owed' \ Unstored \subseteq uris'
          /\ owed' \ Unstored \subseteq ((handles \cap session) \cup toRestore)'
      BY <1>1, <2>1 DEF Inv, OwedIsKept
    <2>3. \A d \in Threads : op'[d].at \in Removing => op'[d].t \notin owed'
      BY <1>1, <1>2 DEF Inv, OwedIsKept, Removing
    <2>4. ASSUME NEW d \in Threads, op'[d].at \in Adding, op'[d].alone
          PROVE  d # c /\ op'[d] = op[d] /\ op[d].t \in Torrents /\ op[d].t # op[c].t
      BY <1>2, <2>4 DEF Inv, ControlInv, CallsNameTorrents, OppositesKnow, Adding, Removing
    <2>5. \A d \in Threads : op'[d].at \in {"register", "save"} /\ op'[d].alone
                             => op'[d].t \in session'
      BY <1>1, <2>4 DEF Inv, OwedIsKept, Adding
    <2>6. \A d \in Threads : op'[d].at = "save" /\ op'[d].alone => op'[d].t \in handles'
      BY <1>1, <2>4 DEF Inv, OwedIsKept, Adding
    <2> QED  BY <2>2, <2>3, <2>5, <2>6 DEF OwedIsKept
  <1>6. GoneIsForgotten'
    <2>1. ((gone \ Unstored) \cap (uris \cup session \cup handles))' = {}
      <3>1. CASE gone' = gone
        BY <1>1, <3>1 DEF Inv, GoneIsForgotten
      <3>2. CASE op[c].alone /\ gone' = gone \cup {op[c].t}
        <4>1. op[c].t \notin uris \ Unstored
          BY <1>2, <3>2 DEF Inv, GoneIsForgotten
        <4>2. op[c].t \notin session'
          <5>1. SUFFICES ASSUME op[c].t \in session \ handles
                         PROVE  FALSE
            BY <1>1
          <5>2. PICK d \in Threads : op[d].at = "register" /\ op[d].t = op[c].t
            BY <5>1 DEF Inv, GoneIsForgotten
          <5> QED  BY <1>2, <3>2, <5>2 DEF Inv, ControlInv, OppositesKnow, Adding, Removing
        <4> QED  BY <1>1, <3>2, <4>1, <4>2 DEF Inv, GoneIsForgotten
      <3> QED  BY <1>1, <3>1, <3>2
    <2>2. ASSUME NEW t \in session' \ handles'
          PROVE  \E d \in Threads : op'[d].at = "register" /\ op'[d].t = t
      <3>1. t \in Torrents /\ t \in session \ handles
        BY <1>1, <2>2 DEF Inv, TypeOK
      <3>2. PICK d \in Threads : op[d].at = "register" /\ op[d].t = t
        BY <3>1 DEF Inv, GoneIsForgotten
      <3> QED  BY <1>2, <3>2
    <2>3. ASSUME NEW d \in Threads, op'[d].at \in Adding
          PROVE  op'[d].t \notin gone'
      <3>1. d # c /\ op'[d] = op[d]
        BY <1>2, <2>3 DEF Adding
      <3>2. op[d].t \notin gone
        BY <2>3, <3>1 DEF Inv, GoneIsForgotten
      <3>3. op[c].alone => op[d].t # op[c].t
        BY <1>2, <2>3, <3>1 DEF Inv, ControlInv, OppositesKnow, Removing
      <3> QED  BY <1>1, <3>1, <3>2, <3>3
    <2>4. \A d \in Threads : op'[d].at \in {"erase", "uncatalog", "leave"} /\ op'[d].alone
                             => op'[d].t \notin uris' \ Unstored
      BY <1>1, <1>2 DEF Inv, GoneIsForgotten
    <2> QED  BY <2>1, <2>2, <2>3, <2>4 DEF GoneIsForgotten
  <1>7. CatalogHasRows'
    BY <1>1, <1>2 DEF Inv, TypeOK, ControlInv, HandlerNamesTorrent, CatalogHasRows
  <1>8. DeletedStaysAway'
    BY <1>1, <1>2 DEF Inv, DeletedStaysAway, Adding
  <1> QED  BY <1>3, <1>4, <1>5, <1>6, <1>7, <1>8 DEF Inv

LEMMA RestRemoveKeeps ==
  ASSUME Inv, NEW c \in Threads, NEW t \in Torrents, RestRemove(c, t)
  PROVE  Inv'
  <1>1. /\ session' \subseteq session /\ handles' \subseteq handles
        /\ metadata' \subseteq session' /\ alerts' \in Seq(Alerts)
        /\ t \notin handles' /\ (t \in session' => t \notin handles)
        /\ \A u \in Torrents \ {t} : /\ u \in session => u \in session'
                                     /\ u \in handles => u \in handles'
        /\ owed' = owed \ {t}
        /\ UNCHANGED <<uris, rows, catalog, removed, handler, toRestore, adds,
                       crashes, gone>>
    BY LeaveEffect DEF RestRemove, disk, Inv
  <1>2. /\ op' \in [Threads -> Calls]
        /\ Constructed /\ op[c].at = "idle" /\ t \in handles
        /\ deleted' \subseteq deleted \cup {t}
        /\ t \in deleted' \ deleted => \A d \in Threads : ~Outstrips(d, t, Adding)
        /\ \A d \in Threads :
              /\ op'[d].at = op[d].at /\ op'[d].t = op[d].t
              /\ op'[d].alone => op[d].alone /\ ~Outstrips(d, t, Adding)
    <2>1. op \in [Threads -> Calls]
      BY OpType DEF Inv
    <2> QED  BY <2>1, RestRemoveEffect
  <1>3. TypeOK'
    BY <1>1, <1>2 DEF Inv, TypeOK, Calls, Places, Alerts
  <1>4. ControlInv'
    <2>1. CallsNameTorrents' /\ HandlerNamesTorrent' /\ RestoringIsQuiet'
      BY <1>1, <1>2 DEF Inv, ControlInv, CallsNameTorrents, HandlerNamesTorrent,
         RestoringIsQuiet
    <2>2. OppositesKnow'
      BY <1>2, Zenon DEF Inv, ControlInv, OppositesKnow
    <2> QED  BY <2>1, <2>2 DEF ControlInv
  <1>5. OwedIsKept'
    <2>1. owed \subseteq Torrents
      BY DEF Inv, TypeOK
    <2>2. /\ owed' \ Unstored \subseteq uris'
          /\ owed' \ Unstored \subseteq ((handles \cap session) \cup toRestore)'
      BY <1>1, <2>1 DEF Inv, OwedIsKept
    <2>3. \A d \in Threads : op'[d].at \in Removing => op'[d].t \notin owed'
      BY <1>1, <1>2 DEF Inv, OwedIsKept
    <2>4. ASSUME NEW d \in Threads, op'[d].at \in Adding, op'[d].alone
          PROVE  /\ op'[d].at = op[d].at /\ op'[d].t = op[d].t /\ op[d].alone
                 /\ op[d].t \in Torrents /\ op[d].t # t
      BY <1>2, <2>4 DEF Inv, ControlInv, CallsNameTorrents, Outstrips, Adding
    <2>5. \A d \in Threads : op'[d].at \in {"register", "save"} /\ op'[d].alone
                             => op'[d].t \in session'
      BY <1>1, <2>4 DEF Inv, OwedIsKept, Adding
    <2>6. \A d \in Threads : op'[d].at = "save" /\ op'[d].alone => op'[d].t \in handles'
      BY <1>1, <2>4 DEF Inv, OwedIsKept, Adding
    <2> QED  BY <2>2, <2>3, <2>5, <2>6 DEF OwedIsKept
  <1>6. GoneIsForgotten'
    <2>1. ((gone \ Unstored) \cap (uris \cup session \cup handles))' = {}
      BY <1>1 DEF Inv, GoneIsForgotten
    <2>2. ASSUME NEW u \in session' \ handles'
          PROVE  \E d \in Threads : op'[d].at = "register" /\ op'[d].t = u
      <3>1. u \in Torrents /\ u \in session \ handles
        BY <1>1, <2>2 DEF Inv, TypeOK
      <3>2. PICK d \in Threads : op[d].at = "register" /\ op[d].t = u
        BY <3>1 DEF Inv, GoneIsForgotten
      <3> QED  BY <1>2, <3>2
    <2>3. \A d \in Threads : op'[d].at \in Adding => op'[d].t \notin gone'
      BY <1>1, <1>2 DEF Inv, GoneIsForgotten
    <2>4. \A d \in Threads : op'[d].at \in {"erase", "uncatalog", "leave"} /\ op'[d].alone
                             => op'[d].t \notin uris' \ Unstored
      BY <1>1, <1>2 DEF Inv, GoneIsForgotten
    <2> QED  BY <2>1, <2>2, <2>3, <2>4 DEF GoneIsForgotten
  <1>7. CatalogHasRows'
    BY <1>1, <1>2 DEF Inv, TypeOK, ControlInv, HandlerNamesTorrent, CatalogHasRows
  <1>8. DeletedStaysAway'
    <2>1. deleted' \cap (session' \cup handles') = {}
      BY <1>1, <1>2 DEF Inv, DeletedStaysAway
    <2>2. \A d \in Threads : op'[d].at \in Adding => op'[d].t \notin deleted'
      BY <1>2 DEF Inv, DeletedStaysAway, Outstrips
    <2>3. toRestore' = {}
      BY <1>1, <1>2 DEF Constructed
    <2> QED  BY <2>1, <2>2, <2>3 DEF DeletedStaysAway
  <1> QED  BY <1>3, <1>4, <1>5, <1>6, <1>7, <1>8 DEF Inv

LEMMA MetadataReceivedKeeps ==
  ASSUME Inv, NEW t \in Torrents, MetadataReceived(t)
  PROVE  Inv'
  <1>1. /\ metadata' \subseteq session' /\ alerts' \in Seq(Alerts)
        /\ UNCHANGED <<uris, rows, session, handles, catalog, removed, handler, op,
                       toRestore, adds, crashes, owed, gone, deleted>>
    BY PostEffect DEF MetadataReceived, disk, volatile, history, Inv, TypeOK, Alerts
  <1>3. TypeOK'
    BY <1>1 DEF Inv, TypeOK, Calls, Places, Alerts
  <1>4. ControlInv'
    BY <1>1 DEF Inv, ControlInv, CallsNameTorrents, HandlerNamesTorrent,
       RestoringIsQuiet, OppositesKnow
  <1>5. OwedIsKept'
    BY <1>1 DEF Inv, OwedIsKept
  <1>6. GoneIsForgotten'
    BY <1>1 DEF Inv, GoneIsForgotten, Adding, Removing
  <1>7. CatalogHasRows'
    BY <1>1 DEF Inv, TypeOK, ControlInv, HandlerNamesTorrent, CatalogHasRows
  <1>8. DeletedStaysAway'
    BY <1>1 DEF Inv, DeletedStaysAway, Adding
  <1> QED  BY <1>3, <1>4, <1>5, <1>6, <1>7, <1>8 DEF Inv

LEMMA RestoreKeeps ==
  ASSUME Inv, NEW t \in Torrents, Restore(t)
  PROVE  Inv'
  <1>1. /\ t \in toRestore /\ toRestore' = toRestore \ {t}
        /\ session' = session \cup {t} /\ handles' = handles \cup {t}
        /\ metadata' \subseteq session' /\ alerts' \in Seq(Alerts)
        /\ UNCHANGED <<uris, rows, catalog, removed, handler, op, adds, crashes,
                       owed, gone, deleted>>
    BY LtAddEffect DEF Restore, disk, history, Inv
  <1>3. TypeOK'
    BY <1>1 DEF Inv, TypeOK, Calls, Places, Alerts
  <1>4. ControlInv'
    BY <1>1 DEF Inv, ControlInv, CallsNameTorrents, HandlerNamesTorrent,
       RestoringIsQuiet, OppositesKnow
  <1>5. OwedIsKept'
    BY <1>1 DEF Inv, OwedIsKept, Adding, Removing
  <1>6. GoneIsForgotten'
    <2>1. t \in uris
      BY <1>1 DEF Inv, TypeOK
    <2>2. (gone' \ Unstored) \cap (uris' \cup session' \cup handles') = {}
      BY <1>1, <2>1 DEF Inv, GoneIsForgotten
    <2>3. session' \ handles' \subseteq session \ handles
      BY <1>1
    <2> QED  BY <1>1, <2>2, <2>3 DEF Inv, GoneIsForgotten
  <1>7. CatalogHasRows'
    BY <1>1 DEF Inv, TypeOK, ControlInv, HandlerNamesTorrent, CatalogHasRows
  <1>8. DeletedStaysAway'
    BY <1>1 DEF Inv, DeletedStaysAway, Adding
  <1> QED  BY <1>3, <1>4, <1>5, <1>6, <1>7, <1>8 DEF Inv

LEMMA RestoreFailsKeeps ==
  ASSUME Inv, NEW t \in Torrents, RestoreFails(t)
  PROVE  Inv'
  <1>1. /\ t \in toRestore /\ toRestore' = toRestore \ {t}
        /\ uris' \subseteq uris /\ uris \ {t} \subseteq uris'
        /\ owed' = owed \ {t}
        /\ UNCHANGED <<rows, session, metadata, alerts, handles, catalog, removed,
                       handler, op, adds, crashes, gone, deleted>>
    BY DeleteEffect DEF RestoreFails, libtorrent, volatile
  <1>3. TypeOK'
    BY <1>1 DEF Inv, TypeOK, Calls, Places, Alerts
  <1>4. ControlInv'
    BY <1>1 DEF Inv, ControlInv, CallsNameTorrents, HandlerNamesTorrent,
       RestoringIsQuiet, OppositesKnow
  <1>5. OwedIsKept'
    BY <1>1 DEF Inv, OwedIsKept, Adding, Removing
  <1>6. GoneIsForgotten'
    BY <1>1 DEF Inv, GoneIsForgotten, Adding, Removing
  <1>7. CatalogHasRows'
    BY <1>1 DEF Inv, TypeOK, ControlInv, HandlerNamesTorrent, CatalogHasRows
  <1>8. DeletedStaysAway'
    BY <1>1 DEF Inv, DeletedStaysAway, Adding
  <1> QED  BY <1>3, <1>4, <1>5, <1>6, <1>7, <1>8 DEF Inv

LEMMA HandlerCatalogKeeps ==
  ASSUME Inv, HandlerCatalog
  PROVE  Inv'
  <1>1. /\ handler.at = "catalog" /\ handler.t \in Torrents
        /\ handler' = [at |-> "rows", t |-> handler.t]
        /\ catalog' = catalog \cup {handler.t}
        /\ UNCHANGED <<uris, rows, session, metadata, alerts, handles, removed, op,
                       toRestore, adds, crashes, owed, gone, deleted>>
    BY DEF HandlerCatalog, disk, libtorrent, history, Inv, TypeOK, ControlInv,
       HandlerNamesTorrent
  <1>3. TypeOK'
    BY <1>1 DEF Inv, TypeOK, Calls, Places, Alerts
  <1>4. ControlInv'
    BY <1>1 DEF Inv, ControlInv, CallsNameTorrents, HandlerNamesTorrent,
       RestoringIsQuiet, OppositesKnow
  <1>5. OwedIsKept'
    BY <1>1 DEF Inv, OwedIsKept, Adding, Removing
  <1>6. GoneIsForgotten'
    BY <1>1 DEF Inv, GoneIsForgotten, Adding, Removing
  <1>7. CatalogHasRows'
    BY <1>1 DEF Inv, TypeOK, ControlInv, HandlerNamesTorrent, CatalogHasRows
  <1>8. DeletedStaysAway'
    BY <1>1 DEF Inv, DeletedStaysAway, Adding
  <1> QED  BY <1>3, <1>4, <1>5, <1>6, <1>7, <1>8 DEF Inv

LEMMA HandlerRowsKeeps ==
  ASSUME Inv, HandlerRows
  PROVE  Inv'
  <1>1. /\ handler.at = "rows" /\ handler.t \in Torrents
        /\ handler' = [at |-> "idle", t |-> None]
        /\ rows \subseteq rows' /\ rows' \subseteq rows \cup {handler.t}
        /\ handler.t \in catalog \ Unstored => handler.t \in rows'
        /\ UNCHANGED <<uris, session, metadata, alerts, handles, catalog, removed,
                       op, toRestore, adds, crashes, owed, gone, deleted>>
    BY DEF HandlerRows, libtorrent, volatile, history, Inv, ControlInv, HandlerNamesTorrent
  <1>3. TypeOK'
    BY <1>1 DEF Inv, TypeOK, Calls, Places, Alerts
  <1>4. ControlInv'
    BY <1>1 DEF Inv, ControlInv, CallsNameTorrents, HandlerNamesTorrent,
       RestoringIsQuiet, OppositesKnow
  <1>5. OwedIsKept'
    BY <1>1 DEF Inv, OwedIsKept, Adding, Removing
  <1>6. GoneIsForgotten'
    BY <1>1 DEF Inv, GoneIsForgotten, Adding, Removing
  <1>7. CatalogHasRows'
    BY <1>1 DEF Inv, TypeOK, ControlInv, HandlerNamesTorrent, CatalogHasRows
  <1>8. DeletedStaysAway'
    BY <1>1 DEF Inv, DeletedStaysAway, Adding
  <1> QED  BY <1>3, <1>4, <1>5, <1>6, <1>7, <1>8 DEF Inv

LEMMA DispatchKeeps ==
  ASSUME Inv, Dispatch
  PROVE  Inv'
  <1>1. /\ handler.at = "idle" /\ handler.t = None
        /\ alerts' \in Seq(Alerts)
        /\ \/ handler' = handler
           \/ \E t \in Torrents : handler' = [at |-> "catalog", t |-> t]
        /\ UNCHANGED <<uris, rows, session, metadata, handles, catalog, removed, op,
                       toRestore, adds, crashes, owed, gone, deleted>>
    <2>1. /\ handler.at = "idle" /\ handler.t = None
          /\ alerts \in Seq(Alerts) /\ alerts # << >>
          /\ alerts' = Tail(alerts)
          /\ UNCHANGED <<uris, rows, session, metadata, handles, catalog, removed, op,
                         toRestore, adds, crashes, owed, gone, deleted>>
      BY DEF Dispatch, disk, volatile, history, Inv, TypeOK, ControlInv,
         HandlerNamesTorrent, Alerts
    <2>2. alerts' \in Seq(Alerts) /\ Head(alerts) \in Alerts
      BY <2>1, HeadTailProperties
    <2>3. \/ handler' = handler
          \/ handler' = [at |-> "catalog", t |-> Head(alerts).t]
      BY DEF Dispatch
    <2> QED  BY <2>1, <2>2, <2>3 DEF Alerts
  <1>3. TypeOK'
    BY <1>1 DEF Inv, TypeOK, Calls, Places, Alerts
  <1>4. ControlInv'
    BY <1>1 DEF Inv, ControlInv, CallsNameTorrents, HandlerNamesTorrent,
       RestoringIsQuiet, OppositesKnow
  <1>5. OwedIsKept'
    BY <1>1 DEF Inv, OwedIsKept, Adding, Removing
  <1>6. GoneIsForgotten'
    BY <1>1 DEF Inv, GoneIsForgotten, Adding, Removing
  <1>7. CatalogHasRows'
    <2>1. None \notin catalog
      BY LifecycleAssumption DEF Inv, TypeOK
    <2> QED  BY <1>1, <2>1 DEF Inv, CatalogHasRows
  <1>8. DeletedStaysAway'
    BY <1>1 DEF Inv, DeletedStaysAway, Adding
  <1> QED  BY <1>3, <1>4, <1>5, <1>6, <1>7, <1>8 DEF Inv

LEMMA RestartKeeps ==
  ASSUME Inv, Restart, crashes' \in 0..MaxCrashes
  PROVE  Inv'
  <1>1. Idle \in Calls /\ Idle.at = "idle"
    BY DEF Idle, Calls, Places
  <1>2. op' \in [Threads -> Calls] /\ \A c \in Threads : op'[c].at = "idle"
    BY <1>1 DEF Restart
  <1>3. /\ session' = {} /\ metadata' = {} /\ alerts' = << >>
        /\ handles' = {} /\ catalog' = {} /\ removed' = {}
        /\ handler' = [at |-> "idle", t |-> None]
        /\ toRestore' \subseteq uris /\ uris \ Unstored \subseteq toRestore'
        /\ deleted' = {}
        /\ UNCHANGED <<uris, rows, adds, owed, gone>>
    BY ReadEffect DEF Restart, disk
  <1>4. TypeOK'
    BY <1>2, <1>3 DEF Inv, TypeOK, Calls, Places
  <1>5. CallsNameTorrents' /\ OppositesKnow' /\ RestoringIsQuiet'
    BY <1>2 DEF CallsNameTorrents, OppositesKnow, RestoringIsQuiet, Adding
  <1>6. HandlerNamesTorrent'
    BY <1>3 DEF HandlerNamesTorrent
  <1>7. OwedIsKept'
    BY <1>2, <1>3 DEF Inv, OwedIsKept, Removing
  <1>8. GoneIsForgotten'
    BY <1>2, <1>3 DEF Inv, GoneIsForgotten, Adding
  <1>9. DeletedStaysAway' /\ CatalogHasRows'
    BY <1>2, <1>3 DEF DeletedStaysAway, CatalogHasRows, Adding
  <1> QED  BY <1>4, <1>5, <1>6, <1>7, <1>8, <1>9 DEF Inv, ControlInv

-----------------------------------------------------------------------------
(* The engine.                                                             *)

LEMMA InitInv == Init => Inv
  <1> SUFFICES ASSUME Init
               PROVE  Inv
    OBVIOUS
  <1>1. Idle \in Calls /\ Idle.at = "idle"
    BY DEF Idle, Calls, Places
  <1>2. op \in [Threads -> Calls] /\ \A c \in Threads : op[c].at = "idle"
    BY <1>1 DEF Init
  <1>3. TypeOK
    BY <1>2, LifecycleAssumption DEF Init, TypeOK, Calls, Places
  <1>4. ControlInv
    BY <1>2 DEF Init, ControlInv, CallsNameTorrents, HandlerNamesTorrent,
       RestoringIsQuiet, OppositesKnow, Adding
  <1>5. OwedIsKept /\ GoneIsForgotten /\ DeletedStaysAway /\ CatalogHasRows
    BY <1>2 DEF Init, OwedIsKept, GoneIsForgotten, DeletedStaysAway, CatalogHasRows,
       Adding, Removing
  <1> QED  BY <1>3, <1>4, <1>5 DEF Inv

LEMMA StutterKeeps == ASSUME Inv, UNCHANGED vars PROVE Inv'
  <1>1. UNCHANGED <<uris, rows, session, metadata, alerts, handles, catalog, removed,
                    handler, op, toRestore, adds, crashes, owed, gone, deleted>>
    BY DEF vars, disk, libtorrent, volatile, history
  <1>2. TypeOK' /\ CatalogHasRows'
    BY <1>1 DEF Inv, TypeOK, CatalogHasRows
  <1>3. ControlInv'
    BY <1>1 DEF Inv, ControlInv, CallsNameTorrents, HandlerNamesTorrent,
       RestoringIsQuiet, OppositesKnow
  <1>4. OwedIsKept' /\ GoneIsForgotten' /\ DeletedStaysAway'
    BY <1>1 DEF Inv, OwedIsKept, GoneIsForgotten, DeletedStaysAway
  <1> QED  BY <1>2, <1>3, <1>4 DEF Inv

LEMMA NextInv == Inv /\ [Next]_vars => Inv'
  <1> SUFFICES ASSUME Inv, [Next]_vars
               PROVE  Inv'
    OBVIOUS
  <1>1. ASSUME NEW c \in Threads, NEW t \in Torrents,
               AddBegin(c, t) \/ RemoveBegin(c, t) \/ RestRemove(c, t)
        PROVE  Inv'
    BY <1>1, AddBeginKeeps, RemoveBeginKeeps, RestRemoveKeeps
  <1>2. ASSUME NEW c \in Threads,
               AddToLibtorrent(c) \/ AddRegister(c) \/ AddSave(c)
        PROVE  Inv'
    BY <1>2, AddToLibtorrentKeeps, AddRegisterKeeps, AddSaveKeeps
  <1>3. ASSUME NEW c \in Threads,
               \/ RemoveForgetUri(c) \/ RemoveErase(c)
               \/ RemoveUncatalog(c) \/ RemoveLeave(c)
        PROVE  Inv'
    BY <1>3, RemoveForgetUriKeeps, RemoveEraseKeeps, RemoveUncatalogKeeps,
       RemoveLeaveKeeps
  <1>4. ASSUME NEW t \in Torrents, MetadataReceived(t) \/ Restore(t) \/ RestoreFails(t)
        PROVE  Inv'
    BY <1>4, MetadataReceivedKeeps, RestoreKeeps, RestoreFailsKeeps
  <1>5. CASE Dispatch \/ HandlerCatalog \/ HandlerRows
    BY <1>5, DispatchKeeps, HandlerCatalogKeeps, HandlerRowsKeeps
  <1>6. CASE Crash
    <2>1. crashes' \in 0..MaxCrashes
      BY <1>6, LifecycleAssumption DEF Crash, Inv, TypeOK
    <2> QED  BY <1>6, <2>1, RestartKeeps DEF Crash
  <1>7. ASSUME NEW c \in Threads, RemoveThrows(c)
        PROVE  Inv'
    <2>1. crashes' \in 0..MaxCrashes
      BY <1>7 DEF RemoveThrows, Inv, TypeOK
    <2> QED  BY <1>7, <2>1, RestartKeeps DEF RemoveThrows
  <1>8. CASE UNCHANGED vars
    BY <1>8, StutterKeeps
  <1> QED  BY <1>1, <1>2, <1>3, <1>4, <1>5, <1>6, <1>7, <1>8 DEF Next

\* The invariant holds in every run.
THEOREM InvHolds == Spec => []Inv
  BY InitInv, NextInv, PTL DEF Spec

\* Every variable of the engine's lifecycle stays in its type.
THEOREM LifecycleTypes == Spec => []TypeOK
  <1>1. Inv => TypeOK
    BY DEF Inv
  <1> QED  BY <1>1, InvHolds, PTL

LEMMA OwedSurvives == Inv => AcknowledgedAddSurvives
  BY DEF Inv, OwedIsKept, AcknowledgedAddSurvives, Constructed

\* add_torrent keeps its word, unless SQLite fails it: an acknowledged torrent is on
\* disk, and in the session whenever an engine is constructed, until it is removed - for
\* any number of threads and crashes, and whichever torrents' statements fail.
THEOREM AddsAreKept == Spec => []AcknowledgedAddSurvives
  BY InvHolds, OwedSurvives, PTL

\* remove_torrent keeps its word, unless SQLite fails it: neither an alert, a crash nor
\* the restore brings an acknowledged removal back.  Of the control API's DELETE this
\* is not true; DeletesLast says what is.
THEOREM RemovalsAreFinal == Spec => []AcknowledgedRemoveIsFinal
  <1>1. Inv => AcknowledgedRemoveIsFinal
    BY DEF Inv, GoneIsForgotten, AcknowledgedRemoveIsFinal
  <1> QED  BY <1>1, InvHolds, PTL

\* What DELETE has removed stays away as long as the process: no alert, handler or
\* call of another thread enters it again, for any number of threads.
THEOREM DeletesLast == Spec => []DeleteLastsTheProcess
  <1>1. Inv => DeleteLastsTheProcess
    BY DEF Inv, DeletedStaysAway, DeleteLastsTheProcess
  <1> QED  BY <1>1, InvHolds, PTL

\* Whatever is in the catalog, and whose insertions SQLite carries out, has all its
\* cache rows, or the handler is about to insert them.
THEOREM RowsFollowTheCatalog == Spec => []CatalogHasRows
  <1>1. Inv => CatalogHasRows
    BY DEF Inv
  <1> QED  BY <1>1, InvHolds, PTL

-----------------------------------------------------------------------------
(* Refinement: the saved torrents implement DurableTorrents.               *)

\* A thread of the control API leaves add_torrent before the URI is saved, and never
\* enters remove_torrent.
RestNeverSaves == \A c \in RestThreads : op[c].at \in {"idle", "ltAdd", "register"}

LEMMA RestNeverSavesStep ==
  ASSUME Inv, RestNeverSaves, [Next]_vars
  PROVE  RestNeverSaves'
  <1> USE DEF RestNeverSaves, Threads
  <1>0. op \in [Threads -> Calls] /\ RestThreads \subseteq Threads
    BY OpType DEF Inv
  <1>1. ASSUME op' = op  PROVE RestNeverSaves'
    BY <1>1
  <1>2. ASSUME NEW c \in Threads, NEW to \in Places,
               c \in RestThreads => to = "register",
               \E from \in Places : Step(c, from, to)
        PROVE  RestNeverSaves'
    <2>1. op'[c].at = to /\ \A d \in Threads \ {c} : op'[d] = op[d]
      BY <1>0, <1>2, StepEffect
    <2> QED  BY <1>0, <1>2, <2>1
  <1>3. ASSUME NEW c \in Threads, Return(c)
        PROVE  RestNeverSaves'
    <2>1. op'[c].at = "idle" /\ \A d \in Threads \ {c} : op'[d] = op[d]
      BY <1>0, <1>3, ReturnEffect
    <2> QED  BY <1>0, <2>1
  <1>4. ASSUME NEW c \in Threads, NEW t \in Torrents, AddBegin(c, t)
        PROVE  RestNeverSaves'
    <2>1. op'[c].at = "ltAdd" /\ \A d \in Threads \ {c} : op'[d].at = op[d].at
      BY <1>0, <1>4, BeginEffect DEF AddBegin, Places, Adding
    <2> QED  BY <1>0, <2>1
  <1>5. ASSUME NEW c \in Threads, NEW t \in Torrents, RemoveBegin(c, t)
        PROVE  RestNeverSaves'
    <2>1. c \in Callers /\ \A d \in Threads \ {c} : op'[d].at = op[d].at
      BY <1>0, <1>5, BeginEffect DEF RemoveBegin, Places, Removing
    <2> QED  BY <1>0, <2>1, LifecycleAssumption
  <1>6. ASSUME NEW c \in Threads, NEW t \in Torrents, RestRemove(c, t)
        PROVE  RestNeverSaves'
    <2>1. \A d \in Threads : op'[d].at = op[d].at
      BY <1>0, <1>6, RestRemoveEffect
    <2> QED  BY <1>0, <2>1
  <1>7. ASSUME NEW c \in Threads, AddToLibtorrent(c)
        PROVE  RestNeverSaves'
    BY <1>2, <1>7 DEF AddToLibtorrent, Places, Adding
  <1>8. ASSUME NEW c \in Threads, AddRegister(c)
        PROVE  RestNeverSaves'
    BY <1>2, <1>3, <1>8 DEF AddRegister, Places, Adding
  <1>9. ASSUME NEW c \in Threads, AddSave(c) \/ RemoveLeave(c)
        PROVE  RestNeverSaves'
    BY <1>3, <1>9 DEF AddSave, RemoveLeave
  <1>10. ASSUME NEW c \in Threads, RemoveForgetUri(c) \/ RemoveErase(c) \/ RemoveUncatalog(c)
         PROVE  RestNeverSaves'
    <2>1. PICK from \in Removing, to \in Removing : Step(c, from, to)
      BY <1>10 DEF RemoveForgetUri, RemoveErase, RemoveUncatalog, Removing
    <2>2. op[c].at \in Removing
      BY <2>1 DEF Step
    <2>3. c \notin RestThreads
      BY <2>2 DEF Removing
    <2> QED  BY <1>2, <2>1, <2>3 DEF Places
  <1>11. ASSUME Restart
         PROVE  RestNeverSaves'
    BY <1>11 DEF Restart, Idle
  <1>12. CASE \/ \E t \in Torrents : MetadataReceived(t) \/ Restore(t) \/ RestoreFails(t)
              \/ Dispatch \/ HandlerCatalog \/ HandlerRows \/ UNCHANGED vars
    BY <1>1, <1>12
       DEF MetadataReceived, Restore, RestoreFails, Dispatch, HandlerCatalog, HandlerRows,
           vars
  <1> QED
    BY <1>4, <1>5, <1>6, <1>7, <1>8, <1>9, <1>10, <1>11, <1>12
       DEF Next, Crash, RemoveThrows

\* What the abstract specification sees of the calls.
SeenCalls == [c \in Callers |-> CallOf(op[c])]

LEMMA SameCall ==
  ASSUME NEW o, NEW p, o.at = p.at, o.t = p.t
  PROVE  CallOf(o) = CallOf(p)
  BY DEF CallOf

LEMMA AddingSeen ==
  ASSUME NEW o, o.at \in Adding
  PROVE  CallOf(o) = Durable!Call("add", o.t)
  <1>1. o.at # "forgetUri" /\ o.at \notin Removing \ {"forgetUri"}
    BY DEF Adding, Removing
  <1> QED  BY <1>1 DEF CallOf, Durable!Call

LEMMA SeenCallsStay ==
  ASSUME \A c \in Callers : CallOf(op'[c]) = CallOf(op[c])
  PROVE  SeenCalls' = SeenCalls
  BY DEF SeenCalls

LEMMA SeenCallMoves ==
  ASSUME NEW c \in Callers, NEW seen, CallOf(op'[c]) = seen,
         \A d \in Callers \ {c} : CallOf(op'[d]) = CallOf(op[d])
  PROVE  SeenCalls' = [SeenCalls EXCEPT ![c] = seen]
  BY DEF SeenCalls

\* The calls' steps.
LEMMA BeginRefines ==
  ASSUME Inv, NEW c \in Threads, NEW t \in Torrents,
         AddBegin(c, t) \/ RemoveBegin(c, t) \/ RestRemove(c, t)
  PROVE  Durable!Next \/ UNCHANGED Durable!vars
  <1>0. op \in [Threads -> Calls] /\ Callers \subseteq Threads
    BY OpType DEF Inv, Threads
  <1>1. UNCHANGED <<uris, toRestore>>
    BY DEF AddBegin, RemoveBegin, RestRemove, disk
  <1>2. ASSUME NEW kind, NEW place \in Places, op[c].at = "idle", Constructed, c \in Callers,
               op'[c].at = place, op'[c].t = t,
               \A d \in Threads \ {c} : op'[d].at = op[d].at /\ op'[d].t = op[d].t,
               \A o : o.at = place /\ o.t = t => CallOf(o) = Durable!Call(kind, t)
        PROVE  Durable!Begin(c, kind, t)
    <2>1. SeenCalls[c] = Durable!NoCall
      BY <1>2 DEF SeenCalls, CallOf, Adding, Removing, Durable!NoCall
    <2>2. CallOf(op'[c]) = Durable!Call(kind, t)
      BY <1>2
    <2>3. \A d \in Callers \ {c} : CallOf(op'[d]) = CallOf(op[d])
      BY <1>0, <1>2, SameCall
    <2>4. SeenCalls' = [SeenCalls EXCEPT ![c] = Durable!Call(kind, t)]
      BY <1>2, <2>2, <2>3, SeenCallMoves
    <2> QED  BY <1>1, <1>2, <2>1, <2>4 DEF Durable!Begin, SeenCalls, Constructed
  <1>3. CASE AddBegin(c, t)
    <2>1. /\ Constructed /\ op[c].at = "idle" /\ op'[c].at = "ltAdd" /\ op'[c].t = t
          /\ \A d \in Threads \ {c} : op'[d].at = op[d].at /\ op'[d].t = op[d].t
      BY <1>0, <1>3, BeginEffect DEF AddBegin, Places, Adding
    <2>2. \A o : o.at = "ltAdd" /\ o.t = t => CallOf(o) = Durable!Call("add", t)
      BY AddingSeen DEF Adding
    <2>3. CASE c \in Callers
      <3>1. Durable!Begin(c, "add", t)
        BY <1>2, <2>1, <2>2, <2>3 DEF Places, Adding
      <3> QED  BY <2>3, <3>1 DEF Durable!Next
    <2>4. CASE c \notin Callers
      <3>1. SeenCalls' = SeenCalls
        BY <1>0, <2>1, <2>4, SameCall, SeenCallsStay
      <3> QED  BY <1>1, <3>1 DEF Durable!vars, SeenCalls
    <2> QED  BY <2>3, <2>4
  <1>4. CASE RemoveBegin(c, t)
    <2>1. /\ Constructed /\ op[c].at = "idle" /\ op'[c].at = "forgetUri" /\ op'[c].t = t
          /\ \A d \in Threads \ {c} : op'[d].at = op[d].at /\ op'[d].t = op[d].t
          /\ c \in Callers
      BY <1>0, <1>4, BeginEffect DEF RemoveBegin, Places, Removing
    <2>2. \A o : o.at = "forgetUri" /\ o.t = t => CallOf(o) = Durable!Call("remove", t)
      BY DEF CallOf, Adding, Durable!Call
    <2>3. Durable!Begin(c, "remove", t)
      BY <1>2, <2>1, <2>2 DEF Places, Removing
    <2> QED  BY <2>1, <2>3 DEF Durable!Next
  <1>5. CASE RestRemove(c, t)
    <2>1. \A d \in Threads : op'[d].at = op[d].at /\ op'[d].t = op[d].t
      BY <1>0, <1>5, RestRemoveEffect
    <2>2. SeenCalls' = SeenCalls
      BY <1>0, <2>1, SameCall, SeenCallsStay
    <2> QED  BY <1>1, <2>2 DEF Durable!vars, SeenCalls
  <1> QED  BY <1>3, <1>4, <1>5

LEMMA CallRefines ==
  ASSUME Inv, RestNeverSaves, NEW c \in Threads,
         \/ AddToLibtorrent(c) \/ AddRegister(c) \/ AddSave(c)
         \/ RemoveForgetUri(c) \/ RemoveErase(c) \/ RemoveUncatalog(c) \/ RemoveLeave(c)
  PROVE  Durable!Next \/ UNCHANGED Durable!vars
  <1>0. op \in [Threads -> Calls] /\ Callers \subseteq Threads /\ Threads = Callers \cup RestThreads
    BY OpType DEF Inv, Threads
  <1>1. op[c].t \in Torrents /\ toRestore' = toRestore
    BY DEF AddToLibtorrent, AddRegister, AddSave, RemoveForgetUri, RemoveErase,
           RemoveUncatalog, RemoveLeave, Step, Inv, ControlInv, CallsNameTorrents
  <1>2. ASSUME NEW from \in Places, NEW to \in Places, Step(c, from, to)
        PROVE  /\ op[c].at = from /\ op'[c].at = to /\ op'[c].t = op[c].t
               /\ \A d \in Callers \ {c} : CallOf(op'[d]) = CallOf(op[d])
    BY <1>0, <1>2, StepEffect
  <1>3. ASSUME Return(c)
        PROVE  /\ CallOf(op'[c]) = Durable!NoCall
               /\ \A d \in Callers \ {c} : CallOf(op'[d]) = CallOf(op[d])
    <2>1. op'[c].at = "idle" /\ \A d \in Threads \ {c} : op'[d] = op[d]
      BY <1>0, <1>3, ReturnEffect
    <2> QED  BY <1>0, <2>1 DEF CallOf, Adding, Removing, Durable!NoCall
  <1>4. ASSUME uris' = uris, SeenCalls' = SeenCalls
        PROVE  UNCHANGED Durable!vars
    BY <1>1, <1>4 DEF Durable!vars, SeenCalls
  <1>5. ASSUME NEW from \in Places, NEW to \in Places, Step(c, from, to), uris' = uris,
               {from, to} \subseteq Adding \/ {from, to} \subseteq Removing \ {"forgetUri"}
        PROVE  UNCHANGED Durable!vars
    <2>1. CallOf(op'[c]) = CallOf(op[c])
      BY <1>2, <1>5 DEF CallOf, Adding, Removing
    <2>2. SeenCalls' = SeenCalls
      BY <1>2, <1>5, <2>1, SeenCallsStay
    <2> QED  BY <1>4, <1>5, <2>2
  <1> USE DEF Places, Adding, Removing
  <1>6. CASE AddToLibtorrent(c)
    BY <1>5, <1>6 DEF AddToLibtorrent, disk
  <1>7. CASE AddRegister(c)
    <2>1. CASE c \in RestThreads
      <3>1. c \notin Callers /\ Return(c) /\ uris' = uris
        BY <1>7, <2>1, LifecycleAssumption DEF AddRegister, disk
      <3>2. SeenCalls' = SeenCalls
        BY <1>3, <3>1, SeenCallsStay
      <3> QED  BY <1>4, <3>1, <3>2
    <2>2. CASE c \notin RestThreads
      BY <1>5, <1>7, <2>2 DEF AddRegister, disk
    <2> QED  BY <2>1, <2>2
  <1>8. CASE RemoveErase(c) \/ RemoveUncatalog(c)
    BY <1>5, <1>8 DEF RemoveErase, RemoveUncatalog, disk
  <1>9. CASE AddSave(c)
    <2>1. op[c].at = "save" /\ Return(c) /\ Write(op[c].t, uris \cup {op[c].t})
      BY <1>9 DEF AddSave
    <2>2. c \in Callers
      BY <1>0, <2>1 DEF RestNeverSaves
    <2>3. SeenCalls[c] = Durable!Call("add", op[c].t)
      BY <2>1, <2>2 DEF SeenCalls, CallOf, Durable!Call
    <2>4. SeenCalls' = [SeenCalls EXCEPT ![c] = Durable!NoCall]
      BY <1>3, <2>1, <2>2, SeenCallMoves
    <2>5. Durable!AddReturns(c, op[c].t)
      BY <1>1, <2>1, <2>3, <2>4 DEF Durable!AddReturns, Durable!Change, Write, SeenCalls
    <2> QED  BY <1>1, <2>2, <2>5 DEF Durable!Next
  <1>10. CASE RemoveForgetUri(c)
    <2>1. Step(c, "forgetUri", "erase") /\ Write(op[c].t, uris \ {op[c].t})
      BY <1>10 DEF RemoveForgetUri
    <2>2. /\ op[c].at = "forgetUri" /\ op'[c].at = "erase" /\ op'[c].t = op[c].t
          /\ \A d \in Callers \ {c} : CallOf(op'[d]) = CallOf(op[d])
      BY <1>2, <2>1
    <2>3. c \in Callers
      BY <1>0, <2>2 DEF RestNeverSaves
    <2>4. SeenCalls[c] = Durable!Call("remove", op[c].t)
      BY <2>2, <2>3 DEF SeenCalls, CallOf, Durable!Call
    <2>5. CallOf(op'[c]) = Durable!Call("removed", op[c].t)
      BY <2>2 DEF CallOf, Durable!Call
    <2>6. SeenCalls' = [SeenCalls EXCEPT ![c] = Durable!Call("removed", op[c].t)]
      BY <2>2, <2>3, <2>5, SeenCallMoves
    <2>7. Durable!Forget(c, op[c].t)
      BY <1>1, <2>1, <2>4, <2>6 DEF Durable!Forget, Durable!Change, Write, SeenCalls
    <2> QED  BY <1>1, <2>3, <2>7 DEF Durable!Next
  <1>11. CASE RemoveLeave(c)
    <2>1. op[c].at = "leave" /\ Return(c) /\ uris' = uris
      BY <1>11 DEF RemoveLeave, disk
    <2>2. c \in Callers
      BY <1>0, <2>1 DEF RestNeverSaves
    <2>3. SeenCalls[c] = Durable!Call("removed", op[c].t)
      BY <2>1, <2>2 DEF SeenCalls, CallOf, Durable!Call
    <2>4. SeenCalls' = [SeenCalls EXCEPT ![c] = Durable!NoCall]
      BY <1>3, <2>1, <2>2, SeenCallMoves
    <2>5. Durable!RemoveReturns(c, op[c].t)
      BY <1>1, <2>1, <2>3, <2>4 DEF Durable!RemoveReturns, SeenCalls
    <2> QED  BY <1>1, <2>2, <2>5 DEF Durable!Next
  <1> QED  BY <1>6, <1>7, <1>8, <1>9, <1>10, <1>11

LEMMA DurableStep ==
  ASSUME Inv, RestNeverSaves, [Next]_vars
  PROVE  Durable!Next \/ UNCHANGED Durable!vars
  <1>1. ASSUME NEW t \in Torrents, Restore(t)
        PROVE  Durable!Next
    <2>1. Durable!TakeOver(t)
      BY <1>1 DEF Restore, Durable!TakeOver, disk
    <2> QED  BY <2>1 DEF Durable!Next
  <1>2. ASSUME NEW t \in Torrents, RestoreFails(t)
        PROVE  Durable!Next
    <2>1. Durable!Drop(t)
      BY <1>2 DEF RestoreFails, Durable!Drop, Durable!Change, Write
    <2> QED  BY <2>1 DEF Durable!Next
  <1>3. ASSUME Restart
        PROVE  Durable!Next
    <2>1. \A c \in Callers : op'[c] = Idle
      BY <1>3 DEF Restart, Threads
    <2>2. \A c \in Callers : CallOf(op'[c]) = Durable!NoCall
      BY <2>1 DEF Idle, CallOf, Adding, Removing, Durable!NoCall
    <2>3. Durable!Restart
      BY <1>3, <2>2 DEF Restart, Durable!Restart, Read, disk
    <2> QED  BY <2>3 DEF Durable!Next
  <1>4. CASE \/ \E t \in Torrents : MetadataReceived(t)
             \/ Dispatch \/ HandlerCatalog \/ HandlerRows \/ UNCHANGED vars
    <2>1. UNCHANGED <<uris, toRestore, op>>
      BY <1>4 DEF MetadataReceived, Dispatch, HandlerCatalog, HandlerRows, vars, disk
    <2> QED  BY <2>1 DEF Durable!vars
  <1> QED
    BY <1>1, <1>2, <1>3, <1>4, BeginRefines, CallRefines DEF Next, Crash, RemoveThrows

\* For any threads, torrents and crashes: the saved torrents change only by the calls of
\* the engine's API, once per call and between its beginning and its return, and a new
\* process takes over what the last one saved (engine.cpp:26-41, 143-173).
THEOREM SavedTheorem == Spec => SavedAtOnce
  <1>1. Init => RestNeverSaves
    BY DEF Init, Idle, RestNeverSaves, Threads
  <1>2. Inv /\ RestNeverSaves /\ [Next]_vars => RestNeverSaves'
    BY RestNeverSavesStep
  <1>3. Init => Durable!Init
    <2>1. Init => \A c \in Callers : CallOf(op[c]) = Durable!NoCall
      BY DEF Init, Idle, Threads, CallOf, Adding, Removing, Durable!NoCall
    <2> QED  BY <2>1 DEF Init, Durable!Init
  <1>4. Inv /\ RestNeverSaves /\ [Next]_vars => [Durable!Next]_(Durable!vars)
    BY DurableStep
  <1> QED  BY <1>1, <1>2, <1>3, <1>4, InvHolds, PTL DEF Spec, SavedAtOnce, Durable!Spec

-----------------------------------------------------------------------------
(* The client over the engine.                                             *)

LEMMA ClientStep == [ClientNext]_allVars => [Next]_vars
  <1> SUFFICES ASSUME [ClientNext]_allVars
               PROVE  [Next]_vars
    OBVIOUS
  <1>1. ASSUME NEW c \in Threads, Call(c) \/ InCall(c)
        PROVE  Next
    BY <1>1 DEF Call, InCall, Next
  <1>2. CASE Libtorrent \/ AlertThread \/ EngineGone
    BY <1>2 DEF Libtorrent, AlertThread, EngineGone, Next
  <1>3. CASE Attach \/ AttachFails \/ HandleEvent \/ Poll \/ \E t \in Torrents : ListFiles(t)
    BY <1>3 DEF Attach, AttachFails, HandleEvent, Poll, ListFiles
  <1>4. CASE UNCHANGED allVars
    BY <1>4 DEF allVars
  <1> QED  BY <1>1, <1>2, <1>3, <1>4 DEF ClientNext

\* The client only does what the engine allows: the engine under it behaves as it does
\* under any caller, and what holds of every engine holds of this one.
THEOREM ClientImplementsEngine == ClientSpec => Spec
  <1>1. ClientInit => Init
    BY DEF ClientInit
  <1> QED  BY <1>1, ClientStep, PTL DEF ClientSpec, Spec

NothingBeforeInit == ui = "none" => entries = {}

ClientInv == ClientTypeOK /\ NothingBeforeInit /\ AcknowledgedAddIsListed

\* A whole id is nobody's cut id.
LEMMA GivenIsOwn ==
  ASSUME NEW t \in Torrents, NEW u \in Torrents, Given(t) = u
  PROVE  t = u
  BY IsolateAssumption DEF Given

LEMMA GivenType ==
  ASSUME NEW t \in Torrents
  PROVE  Given(t) \in Torrents \cup {Given(u) : u \in LongIds}
  BY DEF Given

LEMMA ClientInitInv == ClientInit => ClientInv
  BY DEF ClientInit, ClientInv, ClientTypeOK, NothingBeforeInit, AcknowledgedAddIsListed

LEMMA CallStepKeeps ==
  ASSUME Inv, ClientInv, NEW c \in Threads, Call(c) \/ InCall(c)
  PROVE  ClientInv'
  <1>1. CASE Call(c)
    <2>1. UNCHANGED client /\ owed' \subseteq owed
      BY <1>1 DEF Call, AddBegin, RemoveBegin, RestRemove
    <2> QED  BY <2>1 DEF ClientInv, ClientTypeOK, NothingBeforeInit,
                          AcknowledgedAddIsListed, client
  <1>2. CASE AddSave(c) /\ NewEntry(op[c].t)
    <2>1. op[c].t \in Torrents
      BY <1>2 DEF AddSave, Inv, ControlInv, CallsNameTorrents
    <2>2. owed' \subseteq owed \cup {op[c].t}
      BY <1>2 DEF AddSave
    <2>3. Given(op[c].t) \in Torrents \cup {Given(u) : u \in LongIds}
      BY <2>1, GivenType
    <2>4. /\ UNCHANGED <<ui, queue>>
          /\ entries' = IF ui = "none" THEN entries ELSE entries \cup {Given(op[c].t)}
          /\ noted' \subseteq noted /\ listed' \subseteq listed
      BY <1>2 DEF NewEntry
    <2>5. ClientTypeOK' /\ NothingBeforeInit'
      BY <2>3, <2>4 DEF ClientInv, ClientTypeOK, NothingBeforeInit
    <2>6. AcknowledgedAddIsListed'
      BY <2>2, <2>4 DEF ClientInv, AcknowledgedAddIsListed
    <2> QED  BY <2>5, <2>6 DEF ClientInv
  <1>3. CASE RemoveLeave(c) /\ DropEntry(op[c].t)
    <2>1. owed' = owed /\ op[c].t \notin owed
      BY <1>3 DEF RemoveLeave, Inv, OwedIsKept, Removing
    <2>2. CASE op[c].t \in handles
      <3>1. /\ UNCHANGED <<ui, queue>> /\ entries' = entries \ {op[c].t}
            /\ noted' = noted \ {op[c].t} /\ listed' = listed \ {op[c].t}
        BY <1>3, <2>2 DEF DropEntry
      <3>2. ClientTypeOK' /\ NothingBeforeInit'
        BY <3>1 DEF ClientInv, ClientTypeOK, NothingBeforeInit
      <3>3. op[c].t \in Torrents /\ owed \subseteq Torrents
        BY <1>3 DEF RemoveLeave, Inv, TypeOK, ControlInv, CallsNameTorrents
      <3>4. \A t \in owed : t # op[c].t /\ Given(t) # op[c].t
        BY <2>1, <3>3, GivenIsOwn
      <3>5. AcknowledgedAddIsListed'
        BY <2>1, <3>1, <3>4 DEF ClientInv, AcknowledgedAddIsListed
      <3> QED  BY <3>2, <3>5 DEF ClientInv
    <2>3. CASE op[c].t \notin handles
      BY <1>3, <2>1, <2>3 DEF DropEntry, client, ClientInv, ClientTypeOK,
         NothingBeforeInit, AcknowledgedAddIsListed
    <2> QED  BY <2>2, <2>3
  <1>4. CASE /\ \/ AddToLibtorrent(c) \/ AddRegister(c)
                \/ RemoveForgetUri(c) \/ RemoveErase(c) \/ RemoveUncatalog(c)
             /\ UNCHANGED client
    <2>1. owed' = owed
      BY <1>4 DEF AddToLibtorrent, AddRegister, RemoveForgetUri, RemoveErase,
         RemoveUncatalog, history
    <2> QED  BY <1>4, <2>1 DEF ClientInv, ClientTypeOK, NothingBeforeInit,
                AcknowledgedAddIsListed, client
  <1> QED  BY <1>1, <1>2, <1>3, <1>4 DEF InCall

LEMMA ClientInvStep == Inv /\ ClientInv /\ [ClientNext]_allVars => ClientInv'
  <1> SUFFICES ASSUME Inv, ClientInv, [ClientNext]_allVars
               PROVE  ClientInv'
    OBVIOUS
  <1> USE DEF ClientInv, ClientTypeOK, NothingBeforeInit, AcknowledgedAddIsListed
  <1>1. ASSUME NEW c \in Threads, Call(c) \/ InCall(c)
        PROVE  ClientInv'
    BY <1>1, CallStepKeeps
  <1>2. CASE Libtorrent
    <2>1. UNCHANGED client /\ owed' \subseteq owed
      BY <1>2 DEF Libtorrent, MetadataReceived, Restore, RestoreFails, history
    <2> QED  BY <2>1 DEF client
  <1>3. CASE (Dispatch \/ HandlerCatalog) /\ UNCHANGED client
    <2>1. owed' = owed
      BY <1>3 DEF Dispatch, HandlerCatalog, history
    <2> QED  BY <1>3, <2>1 DEF client
  <1>4. CASE HandlerRows /\ Fire(handler.t)
    <2>1. handler.t \in Torrents /\ owed' = owed
      BY <1>4 DEF HandlerRows, history, Inv, ControlInv, HandlerNamesTorrent
    <2> QED  BY <1>4, <2>1 DEF Fire
  <1>5. CASE EngineGone
    BY <1>5 DEF EngineGone, NoClient
  <1>6. CASE Attach
    <2>1. uris \subseteq Torrents /\ owed \ Unstored \subseteq uris
      BY DEF Inv, TypeOK, OwedIsKept
    <2>2. /\ owed' = owed /\ ui = "none" /\ ui' = "ready"
          /\ UNCHANGED <<queue, noted, listed>>
      BY <1>6 DEF Attach, vars, history
    <2>3. entries' \subseteq uris /\ uris \ Unstored \subseteq entries'
      BY <1>6, ReadEffect DEF Attach, ListTorrents
    <2>4. noted = {} /\ listed = {}
      BY <2>2
    <2>5. ClientTypeOK' /\ NothingBeforeInit'
      BY <2>1, <2>2, <2>3, <2>4
    <2>6. AcknowledgedAddIsListed'
      BY <2>1, <2>2, <2>3
    <2> QED  BY <2>5, <2>6
  <1>7. CASE AttachFails
    BY <1>7 DEF AttachFails
  <1>8. CASE HandleEvent
    <2>1. /\ owed' = owed /\ ui' = ui /\ entries' = entries
          /\ queue' = Tail(queue) /\ queue # << >>
      BY <1>8 DEF HandleEvent, vars, history
    <2>2. queue' \in Seq(Torrents)
      BY <2>1, HeadTailProperties
    <2>3. Head(queue) \in Torrents
      BY <2>1, HeadTailProperties
    <2>4. PICK t \in Torrents :
                   /\ noted' = IF Heard(t) THEN noted \cup {t} ELSE noted
                   /\ listed' = IF Heard(t) /\ t \in catalog THEN listed \cup {t}
                                                             ELSE listed
      BY <1>8, <2>3 DEF HandleEvent
    <2>5. /\ noted' \subseteq entries \cap Torrents
          /\ listed' \subseteq entries \cap Torrents
      BY <2>4 DEF Heard
    <2> QED  BY <2>1, <2>2, <2>5
  <1>9. CASE Poll
    <2>1. /\ owed' = owed /\ ui' = ui /\ entries' = entries /\ queue' = queue
      BY <1>9 DEF Poll, vars, history
    <2>2. catalog \subseteq Torrents
      BY DEF Inv, TypeOK
    <2>3. PICK new : /\ new \subseteq entries \cap Torrents
                     /\ noted' = noted \cup new /\ listed' = listed \cup new
      BY <1>9, <2>2 DEF Poll, Discover, HasMetadata
    <2> QED  BY <2>1, <2>3
  <1>10. ASSUME NEW t \in Torrents, ListFiles(t)
         PROVE  ClientInv'
    <2>1. /\ UNCHANGED <<owed, ui, entries, queue, noted>>
          /\ t \in entries /\ listed' = listed \cup {t}
      BY <1>10 DEF ListFiles, vars, history
    <2> QED  BY <2>1
  <1>11. CASE UNCHANGED allVars
    BY <1>11 DEF allVars, client, vars, history
  <1> QED  BY <1>1, <1>2, <1>3, <1>4, <1>5, <1>6, <1>7, <1>8, <1>9, <1>10, <1>11
           DEF ClientNext, AlertThread

\* The client's variables stay in their types: what is noted, and what has files, is in
\* the list, under an id that the engine knows.
THEOREM ClientTypes == ClientSpec => []ClientTypeOK
  <1>1. Inv /\ [ClientNext]_allVars => Inv'
    BY ClientStep, NextInv
  <1>2. ClientInit => Inv
    BY InitInv DEF ClientInit
  <1>3. ClientInv => ClientTypeOK
    BY DEF ClientInv
  <1> QED  BY <1>1, <1>2, <1>3, ClientInitInv, ClientInvStep, PTL DEF ClientSpec

\* What the user added and was told so has an entry in the list, also after any restart,
\* unless SQLite fails it: under its own id or, if that is long and the list was not
\* read again since, under the id that addTorrent cut.
THEOREM AddsAreListed == ClientSpec => []AcknowledgedAddIsListed
  <1>1. Inv /\ [ClientNext]_allVars => Inv'
    BY ClientStep, NextInv
  <1>2. ClientInit => Inv
    BY InitInv DEF ClientInit
  <1>3. ClientInv => AcknowledgedAddIsListed
    BY DEF ClientInv
  <1> QED  BY <1>1, <1>2, <1>3, ClientInitInv, ClientInvStep, PTL DEF ClientSpec
=============================================================================
