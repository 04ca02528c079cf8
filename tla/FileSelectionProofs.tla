------------------------ MODULE FileSelectionProofs ------------------------
(***************************************************************************)
(* Proofs about FileSelection.  For any number of caller threads: types,   *)
(* and that a state is only ever marked with pieces of its own torrent.    *)
(* For one caller at a time, as the Dart isolate is: the server's table is *)
(* live, has one file of a torrent, and agrees with the engine's states,   *)
(* whatever the control API deletes; no state is destroyed before its      *)
(* source is cancelled; and every step is one of StreamDirectory or none.  *)
(***************************************************************************)
EXTENDS FileSelection, TLAPS, FiniteSetTheorems, SequenceTheorems

-----------------------------------------------------------------------------
(* The invariant for any number of callers.                                *)

Selecting == {"unregister", "cancelOld", "create", "register", "callback", "publish"}
Wiring    == {"register", "callback", "publish"}

\* A call knows its torrent, a selection its file, and an object once it has one.
CallsAreFormed ==
    \A c \in Callers :
        /\ op[c].at = "idle" => op[c] = NoCall
        /\ op[c].at # "idle" => op[c].t \in Torrents
        /\ op[c].at \in Selecting => op[c].f \in Files
        /\ op[c].at \in Selecting \ Wiring => op[c].obj = None
        /\ op[c].at \in Wiring => /\ op[c].obj \in Created
                                  /\ objects[op[c].obj] = [t |-> op[c].t, f |-> op[c].f]

\* A state that is being wired is in nobody else's hands.
WiringIsPrivate ==
    \A c \in Callers : op[c].at \in Wiring =>
        /\ op[c].obj \notin destroyed
        /\ \A t \in Torrents : states[t] # op[c].obj
        /\ \A d \in Callers \ {c} : op[d].at \in Wiring => op[d].obj # op[c].obj

AlertsAreTrue == \A t \in Torrents : alerts[t] \subseteq have[t]

\* Room for the states that the calls in progress have still to create.
Creators == {d \in Callers : Creating(d)}
RoomIsReserved == Len(objects) + Cardinality(Creators) <= MaxSelections

\* What is in states_ is alive and is its own torrent's.
StatesAreAlive ==
    \A t \in Torrents :
        states[t] # None => /\ states[t] \notin destroyed
                            /\ objects[states[t]].t = t

GenInv == /\ TypeOK
          /\ CallsAreFormed /\ WiringIsPrivate /\ AlertsAreTrue /\ RoomIsReserved
          /\ AvailabilityIsSound /\ StatesAreAlive

-----------------------------------------------------------------------------
(* The invariant for one caller: how far its call has got with its torrent. *)

Settled(t) ==
    \A f \in Files : sources[<<t, f>>] = IF states[t] # None /\ objects[states[t]].f = f
                                         THEN states[t] ELSE None
Withdrawn(t) == \A f \in Files : sources[<<t, f>>] = None
Wired(t, g, o) == \A f \in Files : sources[<<t, f>>] = IF f = g THEN o ELSE None
Live(t)   == states[t] \notin cancelled
Chosen(t) == selected[t] = IF states[t] = None THEN None ELSE objects[states[t]].f

OthersAreSettled ==
    \A t \in Torrents :
        (\A c \in Callers : op[c].t # t) => Settled(t) /\ Live(t) /\ Chosen(t)

Progress(c) ==
    LET t == op[c].t
        At(places) == op[c].at \in places
    IN  /\ At({"unregister", "takeAll"}) => Settled(t) /\ Live(t)
        /\ At({"cancelOld", "cancelAll", "create", "register", "erase", "forget", "leave"})
              => Withdrawn(t)
        /\ At({"callback", "publish"}) => Wired(t, op[c].f, op[c].obj)
        /\ At({"cancelOld", "cancelAll"}) => op[c].victims = {states[t]} \ {None}
        /\ At({"create", "register", "callback", "publish", "erase"})
              => states[t] = None \/ states[t] \in cancelled
        /\ At({"forget", "leave"}) => states[t] = None
        /\ At(Wiring) => op[c].obj \notin cancelled
        /\ At(Selecting) => selected[t] = op[c].f
        /\ At({"unregister", "cancelOld", "create"}) => t \in catalog
        /\ At({"leave"}) => selected[t] = None

CallerInv == OthersAreSettled /\ CancelledBeforeDestroyed /\ \A c \in Callers : Progress(c)

-----------------------------------------------------------------------------
(* What the steps do to op and to objects.                                 *)

CallType == [at : CallPlaces, t : Torrents \cup {None}, f : Files \cup {None},
             obj : Created \cup {None}, victims : SUBSET Created]

\* The two ends of SelectCreate.
Creates(c) ==
    /\ op[c].at = "create" /\ NewState(c)
    /\ UNCHANGED <<engineVars, swarmVars, serverVars, conn>>
Fails(c) ==
    /\ op[c].at = "create" /\ op[c].t \notin catalog /\ Return(c)
    /\ UNCHANGED <<engineVars, swarmVars, objectVars, serverVars, conn>>

LEMMA TwoEnds == \A c \in Callers : SelectCreate(c) => Creates(c) \/ Fails(c)
  BY DEF SelectCreate, Creates, Fails

LEMMA OpType == TypeOK => op \in [Callers -> CallType]
  BY DEF TypeOK, CallType

LEMMA ObjectsAreFormed ==
  ASSUME TypeOK
  PROVE  \A o \in Created : objects[o] \in [t : Torrents, f : Files]
  <1> DEFINE S == [t : Torrents, f : Files]
  <1>1. objects \in Seq(S)
    BY DEF TypeOK
  <1> HIDE DEF S
  <1>2. \A o \in DOMAIN objects : objects[o] \in S
    BY <1>1, LenProperties, ElementOfSeq
  <1> QED  BY <1>2 DEF Created, S

LEMMA StepEffect ==
  ASSUME op \in [Callers -> CallType],
         NEW c \in Callers, NEW from, NEW to \in CallPlaces, Step(c, from, to)
  PROVE  /\ op' \in [Callers -> CallType]
         /\ op[c].at = from
         /\ op'[c].at = to
         /\ op'[c].t = op[c].t /\ op'[c].f = op[c].f
         /\ op'[c].obj = op[c].obj /\ op'[c].victims = op[c].victims
         /\ \A d \in Callers \ {c} : op'[d] = op[d]
  BY DEF Step, CallType

LEMMA ReturnEffect ==
  ASSUME op \in [Callers -> CallType], NEW c \in Callers, Return(c)
  PROVE  /\ op' \in [Callers -> CallType]
         /\ op'[c] = NoCall
         /\ \A d \in Callers \ {c} : op'[d] = op[d]
  <1>1. NoCall \in CallType
    BY DEF NoCall, CallType, CallPlaces
  <1> QED  BY <1>1 DEF Return

LEMMA TakeOutEffect ==
  ASSUME TypeOK, NEW c \in Callers, NEW keys \in SUBSET (Torrents \X Files),
         NEW to \in CallPlaces, TakeOut(c, keys, to)
  PROVE  /\ op' \in [Callers -> CallType]
         /\ op'[c].at = to
         /\ op'[c].t = op[c].t /\ op'[c].f = op[c].f /\ op'[c].obj = op[c].obj
         /\ op'[c].victims = {sources[k] : k \in keys} \ {None}
         /\ \A d \in Callers \ {c} : op'[d] = op[d]
         /\ sources' \in [Torrents \X Files -> Created \cup {None}]
         /\ \A k \in Torrents \X Files :
               sources'[k] = IF k \in keys THEN None ELSE sources[k]
         /\ UNCHANGED <<session, catalog, selected, states, have, alerts, objects, avail,
                        cancelled, destroyed, rangeCb, conn>>
  <1>1. /\ op \in [Callers -> CallType]
        /\ sources \in [Torrents \X Files -> Created \cup {None}]
    BY OpType DEF TypeOK
  <1> DEFINE V == {sources[k] : k \in keys} \ {None}
  <1>2. V \subseteq Created
    BY <1>1
  <1>3. op' = [op EXCEPT ![c].at = to, ![c].victims = V]
    BY DEF TakeOut
  <1> HIDE DEF V
  <1>4. /\ op' \in [Callers -> CallType]
        /\ op'[c].at = to
        /\ op'[c].t = op[c].t /\ op'[c].f = op[c].f /\ op'[c].obj = op[c].obj
        /\ op'[c].victims = V
        /\ \A d \in Callers \ {c} : op'[d] = op[d]
    BY <1>1, <1>2, <1>3 DEF CallType
  <1>5. /\ sources' \in [Torrents \X Files -> Created \cup {None}]
        /\ \A k \in Torrents \X Files :
              sources'[k] = IF k \in keys THEN None ELSE sources[k]
    BY <1>1 DEF TakeOut, Unregister
  <1>6. UNCHANGED <<session, catalog, selected, states, have, alerts, objects, avail,
                    cancelled, destroyed, rangeCb, conn>>
    BY DEF TakeOut, engineVars, swarmVars, objectVars
  <1> QED  BY <1>4, <1>5, <1>6 DEF V

LEMMA CreatorsAreFinite == IsFiniteSet(Creators) /\ Cardinality(Creators) \in Nat
  <1>1. Creators \subseteq Callers
    BY DEF Creators
  <1> QED  BY <1>1, SelectionAssumption, FS_Subset, FS_CardinalityType

LEMMA CreateEffect ==
  ASSUME GenInv, NEW c \in Callers, Creates(c),
         NEW o, o = Len(objects) + 1
  PROVE  /\ op[c].at = "create" /\ o \in Objects /\ o \notin Created
         /\ objects' \in Seq([t : Torrents, f : Files]) /\ Len(objects') = o
         /\ Created' = Created \cup {o}
         /\ objects'[o] = [t |-> op[c].t, f |-> op[c].f]
         /\ \A i \in Created : objects'[i] = objects[i]
         /\ avail' = [avail EXCEPT ![o] = have[op[c].t]]
         /\ op'[c].at = "register" /\ op'[c].obj = o
         /\ op'[c].t = op[c].t /\ op'[c].f = op[c].f /\ op'[c].victims = op[c].victims
         /\ \A d \in Callers \ {c} : op'[d] = op[d]
         /\ op' \in [Callers -> [at : CallPlaces, t : Torrents \cup {None},
                                 f : Files \cup {None}, obj : Objects \cup {None},
                                 victims : SUBSET Created]]
         /\ UNCHANGED <<session, catalog, selected, states, have, alerts, cancelled,
                        destroyed, sources, rangeCb, conn>>
  <1>1. /\ op[c].at = "create" /\ op[c].t \in Torrents /\ op[c].f \in Files
        /\ op[c].obj = None
        /\ op \in [Callers -> CallType]
        /\ objects \in Seq([t : Torrents, f : Files])
    BY OpType DEF Creates, NewState, GenInv, CallsAreFormed, TypeOK, Selecting, Wiring
  <1>2. Cardinality(Creators) # 0
    <2>1. c \in Creators
      BY <1>1, SelectionAssumption DEF Creators, Creating
    <2> QED  BY <2>1, CreatorsAreFinite, FS_EmptySet
  <1>3. o \in Objects /\ o \notin Created /\ Created \subseteq Objects
    BY <1>1, <1>2, CreatorsAreFinite, SelectionAssumption
       DEF GenInv, RoomIsReserved, Objects, Created
  <1>4. /\ objects' = Append(objects, [t |-> op[c].t, f |-> op[c].f])
        /\ avail' = [avail EXCEPT ![o] = have[op[c].t]]
        /\ op' = [op EXCEPT ![c].at = "register", ![c].obj = o]
        /\ UNCHANGED <<session, catalog, selected, states, have, alerts, cancelled,
                       destroyed, sources, rangeCb, conn>>
    BY DEF Creates, NewState, engineVars, swarmVars, serverVars
  <1>5. /\ objects' \in Seq([t : Torrents, f : Files]) /\ Len(objects') = o
        /\ objects'[o] = [t |-> op[c].t, f |-> op[c].f]
        /\ \A i \in Created : objects'[i] = objects[i]
    BY <1>1, <1>4 DEF Created
  <1>6. Created' = Created \cup {o}
    BY <1>1, <1>5 DEF Created
  <1>7. op' \in [Callers -> [at : CallPlaces, t : Torrents \cup {None},
                             f : Files \cup {None}, obj : Objects \cup {None},
                             victims : SUBSET Created]]
    <2> DEFINE Big == [at : CallPlaces, t : Torrents \cup {None}, f : Files \cup {None},
                       obj : Objects \cup {None}, victims : SUBSET Created]
    <2>1. \A d \in Callers : op[d] \in Big
      BY <1>1, <1>3 DEF CallType
    <2>2. [op[c] EXCEPT !.at = "register", !.obj = o] \in Big
      BY <1>3, <2>1 DEF CallPlaces
    <2>3. op' = [op EXCEPT ![c] = [op[c] EXCEPT !.at = "register", !.obj = o]]
      BY <1>1, <1>4 DEF CallType
    <2> HIDE DEF Big
    <2>4. op' \in [Callers -> Big]
      BY <1>1, <2>1, <2>2, <2>3
    <2> QED  BY <2>4 DEF Big
  <1>8. /\ op'[c].at = "register" /\ op'[c].obj = o
        /\ op'[c].t = op[c].t /\ op'[c].f = op[c].f /\ op'[c].victims = op[c].victims
        /\ \A d \in Callers \ {c} : op'[d] = op[d]
    BY <1>1, <1>4 DEF CallType
  <1> QED  BY <1>1, <1>3, <1>4, <1>5, <1>6, <1>7, <1>8

-----------------------------------------------------------------------------
(* Any number of callers.                                                  *)

\* A step of a call that goes on and creates nothing.
CallGoesOn(c) ==
    /\ op'[c].t = op[c].t /\ op'[c].f = op[c].f /\ op'[c].obj = op[c].obj
    /\ op[c].at # "idle" /\ op'[c].at # "idle"
    /\ op[c].at \in Selecting <=> op'[c].at \in Selecting
    /\ op[c].at \in Wiring <=> op'[c].at \in Wiring
    /\ \A d \in Callers \ {c} : op'[d] = op[d]

LEMMA GoingOn ==
  ASSUME GenInv, NEW c \in Callers, CallGoesOn(c), UNCHANGED objects
  PROVE  CallsAreFormed' /\ RoomIsReserved'
  <1>1. \A d \in Callers : Creating(d)' = Creating(d)
    BY DEF CallGoesOn, Creating
  <1>2. Creators' = Creators
    BY <1>1 DEF Creators
  <1>3. RoomIsReserved'
    BY <1>2 DEF GenInv, RoomIsReserved
  <1>4. Created' = Created
    BY DEF Created
  <1>5. CallsAreFormed'
    BY <1>4 DEF GenInv, CallsAreFormed, CallGoesOn
  <1> QED  BY <1>3, <1>5

LEMMA GoingOnPrivately ==
  ASSUME GenInv, NEW c \in Callers, CallGoesOn(c), UNCHANGED objects,
         UNCHANGED <<have, alerts, avail, states, destroyed>>
  PROVE  /\ CallsAreFormed' /\ RoomIsReserved' /\ WiringIsPrivate' /\ AlertsAreTrue'
         /\ AvailabilityIsSound' /\ StatesAreAlive'
  <1>1. CallsAreFormed' /\ RoomIsReserved'
    BY GoingOn
  <1>2. WiringIsPrivate'
    BY DEF GenInv, WiringIsPrivate, CallGoesOn
  <1>3. Created' = Created
    BY DEF Created
  <1>4. AlertsAreTrue' /\ AvailabilityIsSound' /\ StatesAreAlive'
    BY <1>3 DEF GenInv, AlertsAreTrue, AvailabilityIsSound, StatesAreAlive
  <1> QED  BY <1>1, <1>2, <1>4

\* Nothing but the connections.
ConnStep == /\ UNCHANGED unchangedByConn
            /\ conn' \in [Connections -> [at : ConnPlaces, src : Created \cup {None},
                                          want : SUBSET Pieces]]

LEMMA ConnSteps ==
  ASSUME TypeOK, NEW h \in Connections,
         \/ \E k \in Torrents \X Files : Lookup(h, k)
         \/ FileSize(h) \/ RangeCallback(h) \/ ReadBegin(h)
         \/ \E s \in SUBSET Pieces \ {{}} : ReadMap(h, s)
         \/ ReadTestCancelled(h) \/ ReadTestSpan(h) \/ ReadTimeout(h) \/ SendChunk(h)
  PROVE  ConnStep
  <1> DEFINE Request == [at : ConnPlaces, src : Created \cup {None}, want : SUBSET Pieces]
  <1>1. /\ conn \in [Connections -> Request]
        /\ sources \in [Torrents \X Files -> Created \cup {None}]
        /\ NoRequest \in Request
    BY DEF TypeOK, NoRequest, ConnPlaces
  <1>2. \A place \in ConnPlaces : [conn EXCEPT ![h].at = place] \in [Connections -> Request]
    BY <1>1
  <1>3. ASSUME NEW place \in ConnPlaces, Goto(h, place)  PROVE ConnStep
    BY <1>2, <1>3 DEF Goto, ConnStep
  <1>4. ASSUME Close(h)  PROVE ConnStep
    BY <1>1, <1>4 DEF Close, ConnStep
  <1>5. ASSUME NEW o, NEW place \in ConnPlaces, Touch(h, o, place)  PROVE ConnStep
    <2>1. \E p \in ConnPlaces : Goto(h, p)
      BY <1>5 DEF Touch, ConnPlaces
    <2> QED  BY <1>3, <2>1
  <1>6. ASSUME NEW k \in Torrents \X Files, Lookup(h, k)  PROVE ConnStep
    BY <1>1, <1>6 DEF Lookup, ConnStep, NoRequest, ConnPlaces
  <1>7. ASSUME NEW s \in SUBSET Pieces, ReadMap(h, s)  PROVE ConnStep
    <2>1. PICK place \in ConnPlaces :
             conn' = [conn EXCEPT ![h].at = place, ![h].want = s]
      BY <1>7 DEF ReadMap, ConnPlaces
    <2>2. conn' \in [Connections -> Request]
      BY <1>1, <2>1
    <2> QED  BY <1>7, <2>2 DEF ReadMap, ConnStep
  <1>8. {"notify", "read", "map", "wait", "testSpan", "disk"} \subseteq ConnPlaces
    BY DEF ConnPlaces
  <1>9. CASE FileSize(h)
    BY <1>5, <1>8, <1>9 DEF FileSize
  <1>10. CASE RangeCallback(h)
    BY <1>5, <1>8, <1>10 DEF RangeCallback
  <1>11. CASE ReadBegin(h) \/ ReadTestCancelled(h) \/ ReadTimeout(h) \/ SendChunk(h)
    BY <1>3, <1>4, <1>8, <1>11 DEF ReadBegin, ReadTestCancelled, ReadTimeout, SendChunk
  <1>12. CASE ReadTestSpan(h)
    BY <1>5, <1>8, <1>12 DEF ReadTestSpan
  <1> QED  BY <1>6, <1>7, <1>9, <1>10, <1>11, <1>12

LEMMA ConnKeeps ==
  ASSUME GenInv, ConnStep
  PROVE  GenInv'
  <1>1. UNCHANGED <<session, catalog, selected, states, have, alerts, objects, avail,
                    cancelled, destroyed, sources, rangeCb, op>>
    BY DEF ConnStep, unchangedByConn, engineVars, swarmVars, objectVars, serverVars
  <1>2. Created' = Created /\ Creators' = Creators
    BY <1>1 DEF Created, Creators, Creating
  <1>3. TypeOK'
    BY <1>1, <1>2 DEF ConnStep, GenInv, TypeOK
  <1>4. CallsAreFormed' /\ WiringIsPrivate' /\ AlertsAreTrue' /\ RoomIsReserved'
    BY <1>1, <1>2 DEF GenInv, CallsAreFormed, WiringIsPrivate, AlertsAreTrue, RoomIsReserved
  <1>5. AvailabilityIsSound' /\ StatesAreAlive'
    BY <1>1, <1>2 DEF GenInv, AvailabilityIsSound, StatesAreAlive
  <1> QED  BY <1>3, <1>4, <1>5 DEF GenInv

LEMMA DownloadKeeps ==
  ASSUME GenInv, NEW t \in Torrents, NEW p \in Pieces, Download(t, p)
  PROVE  GenInv'
  <1>1. /\ have' = [have EXCEPT ![t] = @ \cup {p}]
        /\ alerts' = [alerts EXCEPT ![t] = @ \cup {p}]
        /\ UNCHANGED <<session, catalog, selected, states, objects, avail, cancelled,
                       destroyed, sources, rangeCb, op, conn>>
    BY DEF Download, engineVars, objectVars, serverVars
  <1>2. Created' = Created /\ Creators' = Creators
    BY <1>1 DEF Created, Creators, Creating
  <1>3. /\ have \in [Torrents -> SUBSET Pieces] /\ alerts \in [Torrents -> SUBSET Pieces]
        /\ have' \in [Torrents -> SUBSET Pieces] /\ alerts' \in [Torrents -> SUBSET Pieces]
    BY <1>1 DEF GenInv, TypeOK
  <1>4. TypeOK'
    BY <1>1, <1>2, <1>3 DEF GenInv, TypeOK
  <1>5. CallsAreFormed' /\ WiringIsPrivate' /\ RoomIsReserved' /\ StatesAreAlive'
    BY <1>1, <1>2 DEF GenInv, CallsAreFormed, WiringIsPrivate, RoomIsReserved, StatesAreAlive
  <1>6. AlertsAreTrue'
    BY <1>1, <1>3 DEF GenInv, AlertsAreTrue
  <1>7. \A u \in Torrents : have[u] \subseteq have'[u]
    BY <1>1, <1>3
  <1>8. \A o \in Created : objects[o].t \in Torrents
    BY ObjectsAreFormed DEF GenInv
  <1>9. AvailabilityIsSound'
    BY <1>1, <1>2, <1>7, <1>8 DEF GenInv, AvailabilityIsSound
  <1> QED  BY <1>4, <1>5, <1>6, <1>9 DEF GenInv

LEMMA DispatchKeeps ==
  ASSUME GenInv, NEW t \in Torrents, NEW p \in Pieces, DispatchPieceFinished(t, p)
  PROVE  GenInv'
  <1>1. /\ p \in alerts[t]
        /\ alerts' = [alerts EXCEPT ![t] = @ \ {p}]
        /\ avail' = IF states[t] = None THEN avail
                    ELSE [avail EXCEPT ![states[t]] = @ \cup {p}]
        /\ UNCHANGED <<session, catalog, selected, states, have, objects, cancelled,
                       destroyed, sources, rangeCb, op, conn>>
    BY DEF DispatchPieceFinished, engineVars, serverVars
  <1>2. Created' = Created /\ Creators' = Creators /\ Created \subseteq Objects
    BY <1>1, SelectionAssumption DEF Created, Creators, Creating, GenInv, TypeOK, Objects
  <1>3. /\ avail \in [Objects -> SUBSET Pieces] /\ alerts \in [Torrents -> SUBSET Pieces]
        /\ avail' \in [Objects -> SUBSET Pieces] /\ alerts' \in [Torrents -> SUBSET Pieces]
    BY <1>1 DEF GenInv, TypeOK
  <1>4. TypeOK'
    BY <1>1, <1>2, <1>3 DEF GenInv, TypeOK
  <1>5. CallsAreFormed' /\ WiringIsPrivate' /\ RoomIsReserved' /\ StatesAreAlive'
    BY <1>1, <1>2 DEF GenInv, CallsAreFormed, WiringIsPrivate, RoomIsReserved, StatesAreAlive
  <1>6. AlertsAreTrue'
    BY <1>1, <1>3 DEF GenInv, AlertsAreTrue
  <1>7. p \in have[t]
    BY <1>1 DEF GenInv, AlertsAreTrue
  <1>8. states[t] = None \/ objects[states[t]].t = t
    BY DEF GenInv, StatesAreAlive
  <1>9. AvailabilityIsSound'
    <2> SUFFICES ASSUME NEW o \in Created
                 PROVE  avail'[o] \subseteq have[objects[o].t]
      BY <1>1, <1>2 DEF AvailabilityIsSound
    <2>1. avail'[o] \subseteq IF states[t] = o THEN avail[o] \cup {p} ELSE avail[o]
      BY <1>1, <1>2, <1>3
    <2>2. avail[o] \subseteq have[objects[o].t]
      BY DEF GenInv, AvailabilityIsSound
    <2>3. o # None
      BY <1>2, SelectionAssumption DEF Objects
    <2>4. states[t] = o => p \in have[objects[o].t]
      BY <1>7, <1>8, <2>3
    <2> QED  BY <2>1, <2>2, <2>4
  <1> QED  BY <1>4, <1>5, <1>6, <1>9 DEF GenInv

LEMMA SelectBeginKeeps ==
  ASSUME GenInv, NEW c \in Callers, NEW t \in Torrents, NEW f \in Files,
         SelectBegin(c, t, f)
  PROVE  GenInv'
  <1> DEFINE New == [NoCall EXCEPT !.at = "unregister", !.t = t, !.f = f]
  <1>1. /\ op[c].at = "idle"
        /\ Len(objects) + Cardinality(Creators) < MaxSelections
        /\ selected' = [selected EXCEPT ![t] = f]
        /\ op' = [op EXCEPT ![c] = New]
        /\ UNCHANGED <<session, catalog, states, have, alerts, objects, avail, cancelled,
                       destroyed, sources, rangeCb, conn>>
    BY DEF SelectBegin, swarmVars, objectVars, serverVars, Creators
  <1>2. op \in [Callers -> CallType] /\ New \in CallType
    BY OpType DEF GenInv, NoCall, CallType, CallPlaces
  <1>3. New.at = "unregister" /\ New.t = t /\ New.f = f /\ New.obj = None
    BY DEF NoCall
  <1>4. Created' = Created
    BY <1>1 DEF Created
  <1> HIDE DEF New
  <1>5. /\ op' \in [Callers -> CallType] /\ op'[c] = New
        /\ \A d \in Callers \ {c} : op'[d] = op[d]
    BY <1>1, <1>2
  <1>6. TypeOK'
    BY <1>1, <1>4, <1>5 DEF GenInv, TypeOK, CallType
  <1>7. CallsAreFormed'
    BY <1>1, <1>3, <1>4, <1>5 DEF GenInv, CallsAreFormed, Selecting, Wiring
  <1>8. WiringIsPrivate' /\ AlertsAreTrue' /\ AvailabilityIsSound' /\ StatesAreAlive'
    BY <1>1, <1>3, <1>4, <1>5 DEF GenInv, WiringIsPrivate, AlertsAreTrue,
       AvailabilityIsSound, StatesAreAlive, Wiring
  <1>9. RoomIsReserved'
    <2>1. \A d \in Callers \ {c} : Creating(d)' = Creating(d)
      BY <1>5 DEF Creating
    <2>2. Creators' \subseteq Creators \cup {c}
      BY <2>1 DEF Creators
    <2>3. /\ IsFiniteSet(Creators \cup {c})
          /\ Cardinality(Creators \cup {c}) <= Cardinality(Creators) + 1
      <3>1. Cardinality(Creators \cup {c}) = IF c \in Creators THEN Cardinality(Creators)
                                             ELSE Cardinality(Creators) + 1
        BY CreatorsAreFinite, FS_AddElement
      <3>2. IsFiniteSet(Creators \cup {c})
        BY CreatorsAreFinite, FS_AddElement
      <3> QED  BY <3>1, <3>2, CreatorsAreFinite
    <2>4. Cardinality(Creators') <= Cardinality(Creators) + 1 /\ Cardinality(Creators') \in Nat
      BY <2>2, <2>3, CreatorsAreFinite, FS_Subset, FS_CardinalityType
    <2> QED  BY <1>1, <2>4, CreatorsAreFinite, SelectionAssumption
             DEF GenInv, TypeOK, RoomIsReserved
  <1> QED  BY <1>6, <1>7, <1>8, <1>9 DEF GenInv

\* Old keys of a torrent are keys of the table.
LEMMA OldKeysAreKeys ==
  ASSUME TypeOK, NEW t \in Torrents
  PROVE  OldKeys(t) \in SUBSET (Torrents \X Files)
  <1>1. \A o \in DOMAIN objects : objects[o] \in [t : Torrents, f : Files]
    BY ObjectsAreFormed DEF Created
  <1>2. states[t] = None \/ states[t] \in DOMAIN objects
    BY DEF TypeOK, Created
  <1> QED  BY <1>1, <1>2 DEF OldKeys

LEMMA TakeOutKeeps ==
  ASSUME GenInv, NEW c \in Callers, NEW keys \in SUBSET (Torrents \X Files),
         NEW to, TakeOut(c, keys, to),
         \/ op[c].at = "unregister" /\ to = "cancelOld"
         \/ op[c].at = "takeAll" /\ to = "cancelAll"
  PROVE  GenInv'
  <1>1. to \in CallPlaces
    BY DEF CallPlaces
  <1>2. /\ op' \in [Callers -> CallType]
        /\ op'[c].at = to
        /\ op'[c].t = op[c].t /\ op'[c].f = op[c].f /\ op'[c].obj = op[c].obj
        /\ op'[c].victims = {sources[k] : k \in keys} \ {None}
        /\ \A d \in Callers \ {c} : op'[d] = op[d]
        /\ sources' \in [Torrents \X Files -> Created \cup {None}]
        /\ \A k \in Torrents \X Files :
              sources'[k] = IF k \in keys THEN None ELSE sources[k]
        /\ UNCHANGED <<session, catalog, selected, states, have, alerts, objects, avail,
                       cancelled, destroyed, rangeCb, conn>>
    <2>1. TypeOK
      BY DEF GenInv
    <2> QED  BY <1>1, <2>1, TakeOutEffect, Zenon
  <1>3. Created' = Created
    BY <1>2 DEF Created
  <1>4. TypeOK'
    BY <1>2, <1>3 DEF GenInv, TypeOK, CallType
  <1>5. CallGoesOn(c)
    BY <1>2 DEF CallGoesOn, Selecting, Wiring
  <1> QED  BY <1>2, <1>4, <1>5, GoingOnPrivately DEF GenInv

LEMMA CancelKeeps ==
  ASSUME GenInv, NEW c \in Callers, CancelVictims(c),
         Step(c, "cancelOld", "create") \/ Step(c, "cancelAll", "erase")
  PROVE  GenInv'
  <1>1. PICK to \in {"create", "erase"} :
           /\ op' \in [Callers -> CallType]
           /\ to = "create" <=> op[c].at = "cancelOld"
           /\ op[c].at \in {"cancelOld", "cancelAll"}
           /\ op'[c].at = to
           /\ op'[c].t = op[c].t /\ op'[c].f = op[c].f /\ op'[c].obj = op[c].obj
           /\ \A d \in Callers \ {c} : op'[d] = op[d]
    <2>1. op \in [Callers -> CallType] /\ {"create", "erase"} \subseteq CallPlaces
      BY OpType DEF GenInv, CallPlaces
    <2> QED  BY <2>1, StepEffect
  <1>2. /\ cancelled' = cancelled \cup op[c].victims
        /\ UNCHANGED <<session, catalog, selected, states, have, alerts, objects, avail,
                       destroyed, sources, rangeCb, conn>>
    BY DEF CancelVictims, engineVars, swarmVars, serverVars
  <1>3. Created' = Created /\ op[c].victims \subseteq Created
    BY <1>2, OpType DEF Created, GenInv, CallType
  <1>4. TypeOK'
    BY <1>1, <1>2, <1>3 DEF GenInv, TypeOK, CallType
  <1>5. CallGoesOn(c)
    BY <1>1 DEF CallGoesOn, Selecting, Wiring
  <1> QED  BY <1>2, <1>4, <1>5, GoingOnPrivately DEF GenInv

\* A call that returns, or that is a removal that begins.
LEMMA NotCreatingAnyMore ==
  ASSUME GenInv, NEW c \in Callers, UNCHANGED objects,
         op'[c].f = None, \A d \in Callers \ {c} : op'[d] = op[d]
  PROVE  RoomIsReserved'
  <1>1. \A d \in Callers : Creating(d)' => Creating(d)
    BY DEF Creating
  <1>2. Creators' \subseteq Creators
    BY <1>1 DEF Creators
  <1>3. Cardinality(Creators') <= Cardinality(Creators) /\ Cardinality(Creators') \in Nat
    BY <1>2, CreatorsAreFinite, FS_Subset, FS_CardinalityType
  <1> QED  BY <1>3, CreatorsAreFinite, SelectionAssumption DEF GenInv, TypeOK, RoomIsReserved

LEMMA RestDeleteKeeps ==
  ASSUME GenInv, NEW t \in Torrents, RestDelete(t)
  PROVE  GenInv'
  <1>1. /\ session' \subseteq session
        /\ UNCHANGED <<catalog, selected, states, have, alerts, objects, avail, cancelled,
                       destroyed, sources, rangeCb, op, conn>>
    BY DEF RestDelete, swarmVars, objectVars, serverVars
  <1>2. Created' = Created
    BY <1>1 DEF Created
  <1>3. TypeOK'
    BY <1>1, <1>2 DEF GenInv, TypeOK
  <1>4. CallsAreFormed' /\ WiringIsPrivate' /\ RoomIsReserved'
    BY <1>1, <1>2 DEF GenInv, CallsAreFormed, WiringIsPrivate, RoomIsReserved, Creators,
                      Creating
  <1>5. AlertsAreTrue' /\ AvailabilityIsSound' /\ StatesAreAlive'
    BY <1>1, <1>2 DEF GenInv, AlertsAreTrue, AvailabilityIsSound, StatesAreAlive
  <1> QED  BY <1>3, <1>4, <1>5 DEF GenInv

LEMMA ReturnKeeps ==
  ASSUME GenInv, NEW c \in Callers, Fails(c) \/ RemoveLeave(c)
  PROVE  GenInv'
  <1>1. /\ op' \in [Callers -> CallType] /\ op'[c] = NoCall
        /\ \A d \in Callers \ {c} : op'[d] = op[d]
    BY OpType, ReturnEffect DEF Fails, RemoveLeave, GenInv
  <1>2. /\ session' \subseteq session
        /\ UNCHANGED <<catalog, selected, states, have, alerts, objects, avail, cancelled,
                       destroyed, sources, rangeCb, conn>>
    BY DEF Fails, RemoveLeave, engineVars, swarmVars, objectVars, serverVars
  <1>3. Created' = Created
    BY <1>2 DEF Created
  <1>4. NoCall.f = None /\ NoCall.at = "idle"
    BY DEF NoCall
  <1>5. TypeOK'
    BY <1>1, <1>2, <1>3 DEF GenInv, TypeOK, CallType
  <1>6. CallsAreFormed' /\ WiringIsPrivate'
    BY <1>1, <1>2, <1>3, <1>4 DEF GenInv, CallsAreFormed, WiringIsPrivate, Selecting, Wiring
  <1>7. AlertsAreTrue' /\ AvailabilityIsSound' /\ StatesAreAlive'
    BY <1>2, <1>3 DEF GenInv, AlertsAreTrue, AvailabilityIsSound, StatesAreAlive
  <1> QED  BY <1>1, <1>2, <1>4, <1>5, <1>6, <1>7, NotCreatingAnyMore DEF GenInv

LEMMA RemoveBeginKeeps ==
  ASSUME GenInv, NEW c \in Callers, NEW t \in Torrents, RemoveBegin(c, t)
  PROVE  GenInv'
  <1> DEFINE New == [NoCall EXCEPT !.at = "takeAll", !.t = t]
  <1>1. /\ op' = [op EXCEPT ![c] = New]
        /\ UNCHANGED <<session, catalog, selected, states, have, alerts, objects, avail,
                       cancelled, destroyed, sources, rangeCb, conn>>
    BY DEF RemoveBegin, engineVars, swarmVars, objectVars, serverVars
  <1>2. op \in [Callers -> CallType] /\ New \in CallType
    BY OpType DEF GenInv, NoCall, CallType, CallPlaces
  <1>3. New.at = "takeAll" /\ New.t = t /\ New.f = None
    BY DEF NoCall
  <1>4. Created' = Created
    BY <1>1 DEF Created
  <1> HIDE DEF New
  <1>5. /\ op' \in [Callers -> CallType] /\ op'[c] = New
        /\ \A d \in Callers \ {c} : op'[d] = op[d]
    BY <1>1, <1>2
  <1>6. TypeOK'
    BY <1>1, <1>4, <1>5 DEF GenInv, TypeOK, CallType
  <1>7. CallsAreFormed' /\ WiringIsPrivate'
    BY <1>1, <1>3, <1>4, <1>5
       DEF GenInv, CallsAreFormed, WiringIsPrivate, Selecting, Wiring
  <1>8. AlertsAreTrue' /\ AvailabilityIsSound' /\ StatesAreAlive'
    BY <1>1, <1>4 DEF GenInv, AlertsAreTrue, AvailabilityIsSound, StatesAreAlive
  <1> QED  BY <1>1, <1>3, <1>5, <1>6, <1>7, <1>8, NotCreatingAnyMore DEF GenInv

LEMMA SelectCreateKeeps ==
  ASSUME GenInv, NEW c \in Callers, Creates(c)
  PROVE  GenInv'
  <1>1. PICK o : o = Len(objects) + 1
    OBVIOUS
  <1>2. /\ op[c].at = "create" /\ o \in Objects /\ o \notin Created
        /\ objects' \in Seq([t : Torrents, f : Files]) /\ Len(objects') = o
        /\ Created' = Created \cup {o}
        /\ objects'[o] = [t |-> op[c].t, f |-> op[c].f]
        /\ \A i \in Created : objects'[i] = objects[i]
        /\ avail' = [avail EXCEPT ![o] = have[op[c].t]]
        /\ op'[c].at = "register" /\ op'[c].obj = o
        /\ op'[c].t = op[c].t /\ op'[c].f = op[c].f /\ op'[c].victims = op[c].victims
        /\ \A d \in Callers \ {c} : op'[d] = op[d]
        /\ op' \in [Callers -> [at : CallPlaces, t : Torrents \cup {None},
                                f : Files \cup {None}, obj : Objects \cup {None},
                                victims : SUBSET Created]]
        /\ UNCHANGED <<session, catalog, selected, states, have, alerts, cancelled,
                       destroyed, sources, rangeCb, conn>>
    BY <1>1, CreateEffect
  <1>3. /\ op \in [Callers -> CallType]
        /\ op[c].t \in Torrents /\ op[c].f \in Files /\ op[c].obj = None
        /\ o # None
    BY <1>2, OpType, SelectionAssumption DEF GenInv, CallsAreFormed, Selecting, Wiring, Objects
  <1>4. op' \in [Callers -> CallType']
    <2>1. ASSUME NEW d \in Callers
          PROVE  op'[d] \in CallType'
      <3>1. CASE d = c
        BY <1>2, <1>3, <3>1 DEF CallType
      <3>2. CASE d # c
        <4>1. op'[d] = op[d] /\ op[d] \in CallType
          BY <1>2, <1>3, <3>2
        <4> QED  BY <1>2, <4>1 DEF CallType
      <3> QED  BY <3>1, <3>2
    <2> QED  BY <1>2, <2>1
  <1>5. TypeOK'
    <2>1. avail' \in [Objects -> SUBSET Pieces]
      BY <1>2, <1>3 DEF GenInv, TypeOK
    <2>2. o <= MaxSelections
      BY <1>2 DEF Objects
    <2>3. op' \in [Callers -> CallType]'
      BY <1>4
    <2> QED  BY <1>2, <2>1, <2>2, <2>3 DEF GenInv, TypeOK, CallType
  <1>6. CallsAreFormed'
    <2> SUFFICES ASSUME NEW d \in Callers
                 PROVE  /\ op'[d].at = "idle" => op'[d] = NoCall
                        /\ op'[d].at # "idle" => op'[d].t \in Torrents
                        /\ op'[d].at \in Selecting => op'[d].f \in Files
                        /\ op'[d].at \in Selecting \ Wiring => op'[d].obj = None
                        /\ op'[d].at \in Wiring =>
                              /\ op'[d].obj \in Created'
                              /\ objects'[op'[d].obj] = [t |-> op'[d].t, f |-> op'[d].f]
      BY DEF CallsAreFormed, Selecting, Wiring
    <2>1. CASE d = c
      BY <1>2, <1>3, <2>1 DEF Wiring
    <2>2. CASE d # c
      <3>1. op'[d] = op[d]
        BY <1>2, <2>2
      <3> QED  BY <1>2, <3>1 DEF GenInv, CallsAreFormed
    <2> QED  BY <2>1, <2>2
  <1>7. WiringIsPrivate'
    <2>1. o \notin destroyed /\ \A t \in Torrents : states[t] # o
      BY <1>2, <1>3 DEF GenInv, TypeOK
    <2>2. \A d \in Callers : op[d].at \in Wiring => op[d].obj # o
      BY <1>2 DEF GenInv, CallsAreFormed
    <2> QED  BY <1>2, <2>1, <2>2 DEF GenInv, WiringIsPrivate
  <1>8. AlertsAreTrue'
    BY <1>2 DEF GenInv, AlertsAreTrue
  <1>9. AvailabilityIsSound'
    <2>1. \A i \in Created : avail'[i] = avail[i]
      BY <1>2 DEF GenInv, TypeOK
    <2>2. avail'[o] = have[op[c].t]
      BY <1>2 DEF GenInv, TypeOK
    <2> QED  BY <1>2, <2>1, <2>2 DEF GenInv, AvailabilityIsSound
  <1>10. StatesAreAlive'
    <2>1. \A t \in Torrents : states[t] # None => states[t] \in Created
      BY DEF GenInv, TypeOK
    <2> QED  BY <1>2, <2>1 DEF GenInv, StatesAreAlive
  <1>11. RoomIsReserved'
    <2>1. \A d \in Callers \ {c} : Creating(d)' = Creating(d)
      BY <1>2 DEF Creating
    <2>2. ~Creating(c)' /\ c \in Creators
      BY <1>2, <1>3, SelectionAssumption DEF Creating, Creators
    <2>3. Creators' = Creators \ {c}
      BY <2>1, <2>2 DEF Creators
    <2>4. Cardinality(Creators') = Cardinality(Creators) - 1
      BY <2>2, <2>3, CreatorsAreFinite, FS_RemoveElement
    <2> QED  BY <1>1, <1>2, <2>4, CreatorsAreFinite, SelectionAssumption
             DEF GenInv, TypeOK, RoomIsReserved
  <1> QED  BY <1>5, <1>6, <1>7, <1>8, <1>9, <1>10, <1>11 DEF GenInv

LEMMA WiringStepKeeps ==
  ASSUME GenInv, NEW c \in Callers,
         SelectRegister(c) \/ SelectSetCallback(c) \/ RemoveForget(c)
  PROVE  GenInv'
  <1>1. PICK to \in {"callback", "publish", "leave"} :
           /\ op' \in [Callers -> CallType]
           /\ to = "leave" <=> op[c].at = "forget"
           /\ op[c].at \in {"register", "callback", "forget"}
           /\ op'[c].at = to
           /\ op'[c].t = op[c].t /\ op'[c].f = op[c].f /\ op'[c].obj = op[c].obj
           /\ \A d \in Callers \ {c} : op'[d] = op[d]
    <2>1. op \in [Callers -> CallType] /\ {"callback", "publish", "leave"} \subseteq CallPlaces
      BY OpType DEF GenInv, CallPlaces
    <2> QED  BY <2>1, StepEffect DEF SelectRegister, SelectSetCallback, RemoveForget
  <1>2. UNCHANGED <<session, states, have, alerts, objects, avail, cancelled,
                    destroyed, conn>>
    BY DEF SelectRegister, SelectSetCallback, RemoveForget, engineVars, swarmVars, objectVars
  <1>3. Created' = Created
    BY <1>2 DEF Created
  <1>4. /\ catalog' \subseteq catalog
        /\ selected' \in [Torrents -> Files \cup {None}]
        /\ sources' \in [Torrents \X Files -> Created \cup {None}]
        /\ rangeCb' \in Created \cup {None}
    <2>1. /\ selected \in [Torrents -> Files \cup {None}]
          /\ sources \in [Torrents \X Files -> Created \cup {None}]
          /\ rangeCb \in Created \cup {None} /\ op[c].obj \in Created \cup {None}
      BY OpType DEF GenInv, TypeOK, CallType
    <2>2. CASE SelectRegister(c)
      BY <2>1, <2>2 DEF SelectRegister, engineVars
    <2>3. CASE SelectSetCallback(c)
      BY <2>1, <2>3 DEF SelectSetCallback, engineVars
    <2>4. CASE RemoveForget(c)
      BY <2>1, <2>4 DEF RemoveForget, serverVars
    <2> QED  BY <2>2, <2>3, <2>4
  <1>5. TypeOK'
    BY <1>1, <1>2, <1>3, <1>4 DEF GenInv, TypeOK, CallType
  <1>6. CallGoesOn(c)
    BY <1>1 DEF CallGoesOn, Selecting, Wiring
  <1> QED  BY <1>2, <1>5, <1>6, GoingOnPrivately DEF GenInv

LEMMA SelectPublishKeeps ==
  ASSUME GenInv, NEW c \in Callers, SelectPublish(c)
  PROVE  GenInv'
  <1>1. /\ op' \in [Callers -> CallType] /\ op'[c] = NoCall
        /\ \A d \in Callers \ {c} : op'[d] = op[d]
    BY OpType, ReturnEffect DEF SelectPublish, GenInv
  <1>2. /\ op[c].at = "publish"
        /\ states' = [states EXCEPT ![op[c].t] = op[c].obj]
        /\ destroyed' = destroyed \cup ({states[op[c].t]} \ {None})
        /\ UNCHANGED <<session, catalog, selected, have, alerts, objects, avail, cancelled,
                       sources, rangeCb, conn>>
    BY DEF SelectPublish, Drop, swarmVars, serverVars
  <1>3. Created' = Created
    BY <1>2 DEF Created
  <1>4. /\ op[c].t \in Torrents /\ op[c].obj \in Created /\ objects[op[c].obj].t = op[c].t
        /\ op[c].obj \notin destroyed /\ \A t \in Torrents : states[t] # op[c].obj
    <2>1. op[c].at \in Wiring /\ op[c].at # "idle"
      BY <1>2 DEF Wiring
    <2>2. /\ op[c].t \in Torrents /\ op[c].obj \in Created
          /\ objects[op[c].obj] = [t |-> op[c].t, f |-> op[c].f]
      BY <2>1 DEF GenInv, CallsAreFormed
    <2>3. op[c].obj \notin destroyed /\ \A t \in Torrents : states[t] # op[c].obj
      BY <2>1 DEF GenInv, WiringIsPrivate
    <2> QED  BY <2>2, <2>3
  <1>5. NoCall.f = None /\ NoCall.at = "idle"
    BY DEF NoCall
  <1>6. /\ states \in [Torrents -> Created \cup {None}]
        /\ states' \in [Torrents -> Created \cup {None}]
        /\ destroyed' \subseteq Created
    BY <1>2, <1>4 DEF GenInv, TypeOK
  <1>7. TypeOK'
    BY <1>1, <1>2, <1>3, <1>6 DEF GenInv, TypeOK, CallType
  <1>8. CallsAreFormed'
    BY <1>1, <1>2, <1>3, <1>5 DEF GenInv, CallsAreFormed, Selecting, Wiring
  <1>9. WiringIsPrivate'
    <2> SUFFICES ASSUME NEW d \in Callers, op'[d].at \in Wiring
                 PROVE  /\ op'[d].obj \notin destroyed'
                        /\ \A t \in Torrents : states'[t] # op'[d].obj
                        /\ \A e \in Callers \ {d} :
                              op'[e].at \in Wiring => op'[e].obj # op'[d].obj
      BY DEF WiringIsPrivate, Wiring
    <2>1. d # c /\ op'[d] = op[d]
      BY <1>1, <1>5 DEF Wiring
    <2>2. /\ op[d].obj \notin destroyed
          /\ \A t \in Torrents : states[t] # op[d].obj
          /\ \A e \in Callers \ {d} : op[e].at \in Wiring => op[e].obj # op[d].obj
      BY <2>1 DEF GenInv, WiringIsPrivate
    <2>3. op[c].obj # op[d].obj
      BY <1>2, <2>1, <2>2 DEF Wiring
    <2>4. \A e \in Callers \ {d} : op'[e].at \in Wiring => op'[e].obj # op'[d].obj
      BY <1>1, <1>5, <2>1, <2>2 DEF Wiring
    <2> QED  BY <1>2, <1>4, <1>6, <2>1, <2>2, <2>3, <2>4
  <1>10. AlertsAreTrue' /\ AvailabilityIsSound'
    BY <1>2, <1>3 DEF GenInv, AlertsAreTrue, AvailabilityIsSound
  <1>11. StatesAreAlive'
    <2> SUFFICES ASSUME NEW t \in Torrents, states'[t] # None
                 PROVE  states'[t] \notin destroyed' /\ objects[states'[t]].t = t
      BY <1>2 DEF StatesAreAlive
    <2>1. CASE t = op[c].t
      BY <1>2, <1>4, <1>6, <2>1
    <2>2. CASE t # op[c].t
      <3>1. states'[t] = states[t]
        BY <1>2, <1>6, <2>2
      <3>2. states[t] \notin destroyed /\ objects[states[t]].t = t
        BY <2>2, <3>1 DEF GenInv, StatesAreAlive
      <3>3. states[op[c].t] # states[t]
        BY <1>4, <2>2, <3>1, <3>2 DEF GenInv, StatesAreAlive
      <3> QED  BY <1>2, <3>1, <3>2, <3>3
    <2> QED  BY <2>1, <2>2
  <1> QED  BY <1>1, <1>2, <1>5, <1>7, <1>8, <1>9, <1>10, <1>11, NotCreatingAnyMore DEF GenInv

LEMMA RemoveEraseKeeps ==
  ASSUME GenInv, NEW c \in Callers, RemoveErase(c)
  PROVE  GenInv'
  <1>1. /\ op' \in [Callers -> CallType]
        /\ op[c].at = "erase" /\ op'[c].at = "forget"
        /\ op'[c].t = op[c].t /\ op'[c].f = op[c].f /\ op'[c].obj = op[c].obj
        /\ \A d \in Callers \ {c} : op'[d] = op[d]
    <2>1. op \in [Callers -> CallType] /\ "forget" \in CallPlaces
      BY OpType DEF GenInv, CallPlaces
    <2> QED  BY <2>1, StepEffect DEF RemoveErase
  <1>2. /\ states' = [states EXCEPT ![op[c].t] = None]
        /\ destroyed' = destroyed \cup ({states[op[c].t]} \ {None})
        /\ UNCHANGED <<session, catalog, selected, have, alerts, objects, avail, cancelled,
                       sources, rangeCb, conn>>
    BY DEF RemoveErase, Drop, swarmVars, serverVars
  <1>3. Created' = Created /\ op[c].t \in Torrents
    BY <1>1, <1>2 DEF Created, GenInv, CallsAreFormed
  <1>4. /\ states \in [Torrents -> Created \cup {None}]
        /\ states' \in [Torrents -> Created \cup {None}]
        /\ destroyed' \subseteq Created
    BY <1>2, <1>3 DEF GenInv, TypeOK
  <1>5. TypeOK'
    BY <1>1, <1>2, <1>3, <1>4 DEF GenInv, TypeOK, CallType
  <1>6. CallGoesOn(c)
    BY <1>1 DEF CallGoesOn, Selecting, Wiring
  <1>7. \A d \in Callers : op'[d].at \in Wiring =>
           op[d].at \in Wiring /\ op'[d].obj = op[d].obj
    BY <1>1 DEF Wiring
  <1>8. WiringIsPrivate'
    <2>1. \A d \in Callers : op[d].at \in Wiring =>
             /\ op[d].obj \in Created /\ op[d].obj \notin destroyed
             /\ \A t \in Torrents : states[t] # op[d].obj
             /\ \A e \in Callers \ {d} : op[e].at \in Wiring => op[e].obj # op[d].obj
      BY DEF GenInv, WiringIsPrivate, CallsAreFormed
    <2>2. None \notin Created
      BY SelectionAssumption DEF GenInv, TypeOK, Created
    <2>3. \A d \in Callers : op'[d].at \in Wiring =>
             /\ op'[d].obj \notin destroyed'
             /\ \A t \in Torrents : states'[t] # op'[d].obj
      BY <1>2, <1>3, <1>4, <1>7, <2>1, <2>2
    <2>4. \A d \in Callers : op'[d].at \in Wiring =>
             \A e \in Callers \ {d} : op'[e].at \in Wiring => op'[e].obj # op'[d].obj
      BY <1>7, <2>1
    <2> QED  BY <2>3, <2>4 DEF WiringIsPrivate, Wiring
  <1>9. AlertsAreTrue' /\ AvailabilityIsSound'
    BY <1>2, <1>3 DEF GenInv, AlertsAreTrue, AvailabilityIsSound
  <1>10. StatesAreAlive'
    <2> SUFFICES ASSUME NEW t \in Torrents, states'[t] # None
                 PROVE  states'[t] \notin destroyed' /\ objects[states'[t]].t = t
      BY <1>2 DEF StatesAreAlive
    <2>1. t # op[c].t /\ states'[t] = states[t]
      BY <1>2, <1>3, <1>4
    <2>2. states[t] \notin destroyed /\ objects[states[t]].t = t
      BY <2>1 DEF GenInv, StatesAreAlive
    <2>3. states[op[c].t] # states[t]
      BY <1>3, <2>1, <2>2 DEF GenInv, StatesAreAlive
    <2> QED  BY <1>2, <2>1, <2>2, <2>3
  <1> QED  BY <1>2, <1>5, <1>6, <1>8, <1>9, <1>10, GoingOn DEF GenInv

LEMMA GenInit == Init => GenInv
  <1> SUFFICES ASSUME Init
               PROVE  GenInv
    OBVIOUS
  <1>1. /\ NoCall \in CallType /\ NoRequest \in [at : ConnPlaces, src : Created \cup {None},
                                                want : SUBSET Pieces]
        /\ NoCall.at = "idle" /\ NoCall.f = None
    BY DEF NoCall, NoRequest, CallType, CallPlaces, ConnPlaces
  <1>2. Created = {}
    BY DEF Init, Created
  <1>3. TypeOK
    BY <1>1, <1>2, SelectionAssumption DEF Init, TypeOK, CallType
  <1>4. CallsAreFormed /\ WiringIsPrivate
    BY <1>1 DEF Init, CallsAreFormed, WiringIsPrivate, Selecting, Wiring
  <1>5. Creators = {}
    BY <1>1 DEF Init, Creators, Creating
  <1>6. RoomIsReserved
    BY <1>5, FS_EmptySet, SelectionAssumption DEF Init, RoomIsReserved
  <1>7. AlertsAreTrue /\ AvailabilityIsSound /\ StatesAreAlive
    BY <1>2 DEF Init, AlertsAreTrue, AvailabilityIsSound, StatesAreAlive
  <1> QED  BY <1>3, <1>4, <1>6, <1>7 DEF GenInv

LEMMA GenStutter == ASSUME GenInv, UNCHANGED vars PROVE GenInv'
  <1>1. /\ UNCHANGED unchangedByConn
        /\ conn' = conn
    BY DEF vars, unchangedByConn
  <1>2. ConnStep
    BY <1>1 DEF ConnStep, GenInv, TypeOK
  <1> QED  BY <1>2, ConnKeeps

LEMMA GenNext == GenInv /\ [Next]_vars => GenInv'
  <1> SUFFICES ASSUME GenInv, [Next]_vars
               PROVE  GenInv'
    OBVIOUS
  <1>1. TypeOK
    BY DEF GenInv
  <1>2. ASSUME NEW c \in Callers, NEW t \in Torrents, NEW f \in Files, SelectBegin(c, t, f)
        PROVE  GenInv'
    BY <1>2, SelectBeginKeeps
  <1>3. ASSUME NEW c \in Callers, SelectUnregisterOld(c) \/ RemoveUnregister(c)
        PROVE  GenInv'
    <2>1. CASE SelectUnregisterOld(c)
      <3>1. op[c].at = "unregister" /\ op[c].t \in Torrents
        BY <2>1 DEF SelectUnregisterOld, GenInv, CallsAreFormed
      <3>2. OldKeys(op[c].t) \in SUBSET (Torrents \X Files)
        BY <1>1, <3>1, OldKeysAreKeys
      <3> QED  BY <2>1, <3>1, <3>2, TakeOutKeeps DEF SelectUnregisterOld
    <2>2. CASE RemoveUnregister(c)
      <3>1. op[c].at = "takeAll" /\ op[c].t \in Torrents
        BY <2>2 DEF RemoveUnregister, GenInv, CallsAreFormed
      <3>2. {op[c].t} \X Files \in SUBSET (Torrents \X Files)
        BY <3>1
      <3> QED  BY <2>2, <3>1, <3>2, TakeOutKeeps DEF RemoveUnregister
    <2> QED  BY <1>3, <2>1, <2>2
  <1>4. ASSUME NEW c \in Callers, SelectCancelOld(c) \/ RemoveCancel(c)
        PROVE  GenInv'
    BY <1>4, CancelKeeps DEF SelectCancelOld, RemoveCancel
  <1>5. ASSUME NEW c \in Callers, Fails(c) \/ RemoveLeave(c)
        PROVE  GenInv'
    BY <1>5, ReturnKeeps
  <1>6. ASSUME NEW c \in Callers, Creates(c) \/ SelectPublish(c) \/ RemoveErase(c)
        PROVE  GenInv'
    BY <1>6, SelectCreateKeeps, SelectPublishKeeps, RemoveEraseKeeps
  <1>7. ASSUME NEW c \in Callers,
               SelectRegister(c) \/ SelectSetCallback(c) \/ RemoveForget(c)
        PROVE  GenInv'
    BY <1>7, WiringStepKeeps
  <1>8. ASSUME NEW c \in Callers, NEW t \in Torrents, RemoveBegin(c, t)
        PROVE  GenInv'
    BY <1>8, RemoveBeginKeeps
  <1>9. ASSUME NEW t \in Torrents, NEW p \in Pieces,
               Download(t, p) \/ DispatchPieceFinished(t, p)
        PROVE  GenInv'
    BY <1>9, DownloadKeeps, DispatchKeeps
  <1>10. ASSUME NEW h \in Connections,
               \/ \E k \in Torrents \X Files : Lookup(h, k)
               \/ FileSize(h) \/ RangeCallback(h) \/ ReadBegin(h)
               \/ \E s \in SUBSET Pieces \ {{}} : ReadMap(h, s)
               \/ ReadTestCancelled(h) \/ ReadTestSpan(h) \/ ReadTimeout(h) \/ SendChunk(h)
        PROVE  GenInv'
    BY <1>1, <1>10, ConnSteps, ConnKeeps
  <1>11. CASE UNCHANGED vars
    BY <1>11, GenStutter
  <1>12. ASSUME NEW t \in Torrents, RestDelete(t)
         PROVE  GenInv'
    BY <1>12, RestDeleteKeeps
  <1>13. ASSUME NEW c \in Callers, SelectCreate(c)
         PROVE  GenInv'
    BY <1>5, <1>6, <1>13, TwoEnds
  <1> QED  BY <1>2, <1>3, <1>4, <1>5, <1>6, <1>7, <1>8, <1>9, <1>10, <1>11, <1>12, <1>13
           DEF Next

\* The invariant holds whatever the callers do at the same time.
THEOREM GenHolds == Spec => []GenInv
  BY GenInit, GenNext, PTL DEF Spec

\* Every variable stays in its type, and no call runs out of states.
THEOREM SelectionTypes == Spec => []TypeOK
  <1>1. GenInv => TypeOK
    BY DEF GenInv
  <1> QED  BY <1>1, GenHolds, PTL

\* Whatever threads select and remove at the same time, a state is marked only with
\* pieces its own torrent has.
THEOREM NoForeignPieces == Spec => []AvailabilityIsSound
  <1>1. GenInv => AvailabilityIsSound
    BY DEF GenInv
  <1> QED  BY <1>1, GenHolds, PTL

-----------------------------------------------------------------------------
(* One caller at a time.                                                   *)

OneCaller == \A c, d \in Callers : c = d

\* All torrents but one are at rest.
AtRest(u) == Settled(u) /\ Live(u) /\ Chosen(u)
RestExcept(t) == \A u \in Torrents : u # t => AtRest(u)

LEMMA OthersAtRest ==
  ASSUME OneCaller, NEW c \in Callers
  PROVE  OthersAreSettled <=> RestExcept(op[c].t)
  BY DEF OneCaller, OthersAreSettled, RestExcept, AtRest

LEMMA OthersAtRestThen ==
  ASSUME OneCaller, NEW c \in Callers
  PROVE  OthersAreSettled' <=> \A u \in Torrents : u # op'[c].t => AtRest(u)'
  BY DEF OneCaller, OthersAreSettled, AtRest

LEMMA CallerSplit ==
  ASSUME OneCaller, NEW c \in Callers,
         \A u \in Torrents : u # op'[c].t => AtRest(u)',
         CancelledBeforeDestroyed', Progress(c)'
  PROVE  CallerInv'
  <1>1. \A d \in Callers : d = c
    BY DEF OneCaller
  <1> QED  BY <1>1, OthersAtRestThen DEF CallerInv

\* A torrent that a step leaves alone stays at rest.
LEMMA StaysAtRest ==
  ASSUME TypeOK, NEW u \in Torrents, AtRest(u),
         \A f \in Files : sources'[<<u, f>>] = sources[<<u, f>>],
         states'[u] = states[u], selected'[u] = selected[u],
         \A o \in Created : objects'[o] = objects[o],
         states[u] \in cancelled' => states[u] \in cancelled
  PROVE  AtRest(u)'
  <1>1. states[u] \in Created \cup {None}
    BY DEF TypeOK
  <1>2. states[u] # None => objects'[states[u]] = objects[states[u]]
    BY <1>1
  <1>3. Settled(u)'
    BY <1>2 DEF AtRest, Settled
  <1>4. Live(u)'
    BY DEF AtRest, Live
  <1>5. Chosen(u)'
    BY <1>2 DEF AtRest, Chosen
  <1> QED  BY <1>3, <1>4, <1>5 DEF AtRest

\* Steps that leave all of this alone.
LEMMA CallerUntouched ==
  ASSUME CallerInv,
         UNCHANGED <<catalog, selected, states, sources, objects, cancelled, destroyed, op>>
  PROVE  CallerInv'
  <1>1. OthersAreSettled'
    BY DEF CallerInv, OthersAreSettled, Settled, Live, Chosen
  <1>2. CancelledBeforeDestroyed'
    BY DEF CallerInv, CancelledBeforeDestroyed
  <1>3. ASSUME NEW c \in Callers  PROVE Progress(c)'
    <2>1. Progress(c)
      BY DEF CallerInv
    <2> QED  BY <2>1 DEF Progress, Settled, Withdrawn, Wired, Live, Selecting, Wiring
  <1> QED  BY <1>1, <1>2, <1>3 DEF CallerInv

LEMMA CallBeginsOne ==
  ASSUME OneCaller, GenInv, CallerInv, NEW c \in Callers, NEW t \in Torrents,
         \/ \E f \in Files : SelectBegin(c, t, f)
         \/ RemoveBegin(c, t)
  PROVE  CallerInv'
  <1>1. op[c].at = "idle" /\ op[c].t = None
    <2>1. op[c].at = "idle"
      BY DEF SelectBegin, RemoveBegin
    <2>2. op[c] = NoCall
      BY <2>1 DEF GenInv, CallsAreFormed
    <2> QED  BY <2>1, <2>2 DEF NoCall
  <1>2. \A u \in Torrents : AtRest(u)
    BY <1>1, OthersAtRest, SelectionAssumption DEF CallerInv, RestExcept
  <1>3. /\ UNCHANGED <<session, catalog, states, sources, objects, cancelled, destroyed>>
        /\ \A u \in Torrents : u # t => selected'[u] = selected[u]
    <2>1. selected \in [Torrents -> Files \cup {None}]
      BY DEF GenInv, TypeOK
    <2>2. CASE RemoveBegin(c, t)
      BY <2>2 DEF RemoveBegin, engineVars, objectVars, serverVars
    <2>3. CASE \E f \in Files : SelectBegin(c, t, f)
      BY <2>1, <2>3 DEF SelectBegin, objectVars, serverVars
    <2> QED  BY <2>2, <2>3
  <1>4. /\ op'[c].t = t
        /\ \/ op'[c].at = "takeAll"
           \/ /\ op'[c].at = "unregister" /\ t \in catalog \cap session
              /\ selected'[t] = op'[c].f
    <2>1. op \in [Callers -> CallType] /\ selected \in [Torrents -> Files \cup {None}]
      BY OpType DEF GenInv, TypeOK
    <2>2. CASE RemoveBegin(c, t)
      BY <2>1, <2>2 DEF RemoveBegin, NoCall
    <2>3. ASSUME NEW f \in Files, SelectBegin(c, t, f)
          PROVE  /\ op'[c].t = t /\ op'[c].at = "unregister" /\ t \in catalog \cap session
                 /\ selected'[t] = op'[c].f
      BY <2>1, <2>3 DEF SelectBegin, NoCall
    <2> QED  BY <2>2, <2>3
  <1>5. ASSUME NEW u \in Torrents, u # t  PROVE AtRest(u)'
    BY <1>2, <1>3, <1>5, StaysAtRest DEF GenInv
  <1>6. Settled(t)' /\ Live(t)'
    BY <1>2, <1>3 DEF AtRest, Settled, Live
  <1>7. Progress(c)'
    BY <1>3, <1>4, <1>6 DEF Progress, Selecting, Wiring, Settled, Live
  <1>8. CancelledBeforeDestroyed'
    BY <1>3 DEF CallerInv, CancelledBeforeDestroyed
  <1> QED  BY <1>4, <1>5, <1>7, <1>8, CallerSplit

LEMMA TakeOutOne ==
  ASSUME OneCaller, GenInv, CallerInv, NEW c \in Callers,
         SelectUnregisterOld(c) \/ RemoveUnregister(c)
  PROVE  CallerInv'
  <1>1. op[c].at \in {"unregister", "takeAll"}
    BY DEF SelectUnregisterOld, RemoveUnregister
  <1>2. PICK t \in Torrents : t = op[c].t
    BY <1>1 DEF GenInv, CallsAreFormed
  <1>3. Settled(t) /\ Live(t) /\ RestExcept(t)
    BY <1>1, <1>2, OthersAtRest DEF CallerInv, Progress
  <1>4. PICK keys \in SUBSET (Torrents \X Files), to \in {"cancelOld", "cancelAll"} :
           /\ TakeOut(c, keys, to)
           /\ to = "cancelOld" <=> op[c].at = "unregister"
           /\ keys = OldKeys(t) \/ keys = {t} \X Files
    <2>1. OldKeys(t) \in SUBSET (Torrents \X Files)
      BY OldKeysAreKeys DEF GenInv
    <2>2. {t} \X Files \in SUBSET (Torrents \X Files)
      OBVIOUS
    <2> QED  BY <1>2, <2>1, <2>2 DEF SelectUnregisterOld, RemoveUnregister
  <1>5. /\ op' \in [Callers -> CallType]
        /\ op'[c].at = to
        /\ op'[c].t = op[c].t /\ op'[c].f = op[c].f /\ op'[c].obj = op[c].obj
        /\ op'[c].victims = {sources[k] : k \in keys} \ {None}
        /\ \A d \in Callers \ {c} : op'[d] = op[d]
        /\ sources' \in [Torrents \X Files -> Created \cup {None}]
        /\ \A k \in Torrents \X Files :
              sources'[k] = IF k \in keys THEN None ELSE sources[k]
        /\ UNCHANGED <<session, catalog, selected, states, have, alerts, objects, avail,
                       cancelled, destroyed, rangeCb, conn>>
    <2>1. TypeOK /\ to \in CallPlaces
      BY DEF GenInv, CallPlaces
    <2> QED  BY <1>4, <2>1, TakeOutEffect
  <1>6. /\ \A f \in Files : sources[<<t, f>>] # None => <<t, f>> \in keys
        /\ \A k \in keys : k[1] = t /\ k[2] \in Files /\ k = <<t, k[2]>>
        /\ states[t] # None => \E k \in keys : sources[k] = states[t]
    <2>1. states[t] = None \/ /\ states[t] \in Created
                              /\ objects[states[t]].f \in Files
      BY ObjectsAreFormed DEF GenInv, TypeOK
    <2>2. CASE keys = OldKeys(t)
      BY <1>3, <2>1, <2>2 DEF OldKeys, Settled
    <2>3. CASE keys = {t} \X Files
      <3>1. \A f \in Files : <<t, f>> \in keys
        BY <2>3
      <3>2. \A k \in keys : k[1] = t /\ k[2] \in Files /\ k = <<t, k[2]>>
        BY <2>3
      <3>3. states[t] # None => sources[<<t, objects[states[t]].f>>] = states[t]
        BY <1>3, <2>1 DEF Settled
      <3>4. states[t] # None => <<t, objects[states[t]].f>> \in keys
        BY <2>1, <3>1, SelectionAssumption
      <3> QED  BY <3>1, <3>2, <3>3, <3>4
    <2> QED  BY <1>4, <2>2, <2>3
  <1>7. Withdrawn(t)'
    BY <1>5, <1>6 DEF Withdrawn
  <1>8. op'[c].victims = {states'[t]} \ {None}
    <2>1. \A k \in keys : sources[k] = None \/ sources[k] = states[t]
      BY <1>3, <1>6 DEF Settled
    <2> QED  BY <1>5, <1>6, <2>1
  <1>9. ASSUME NEW u \in Torrents, u # t  PROVE AtRest(u)'
    BY <1>3, <1>5, <1>6, <1>9, StaysAtRest DEF GenInv, RestExcept
  <1>10. Progress(c)'
    <2>1. op[c].at = "unregister" => t \in catalog /\ selected[t] = op[c].f
      BY <1>2 DEF CallerInv, Progress, Selecting
    <2> QED  BY <1>1, <1>2, <1>4, <1>5, <1>7, <1>8, <2>1
             DEF Progress, Selecting, Wiring, Withdrawn
  <1>11. CancelledBeforeDestroyed'
    BY <1>5 DEF CallerInv, CancelledBeforeDestroyed
  <1> QED  BY <1>2, <1>5, <1>9, <1>10, <1>11, CallerSplit

LEMMA CancelOne ==
  ASSUME OneCaller, GenInv, CallerInv, NEW c \in Callers, CancelVictims(c),
         Step(c, "cancelOld", "create") \/ Step(c, "cancelAll", "erase")
  PROVE  CallerInv'
  <1>1. PICK to \in {"create", "erase"} :
           /\ op[c].at \in {"cancelOld", "cancelAll"}
           /\ to = "create" <=> op[c].at = "cancelOld"
           /\ op'[c].at = to
           /\ op'[c].t = op[c].t /\ op'[c].f = op[c].f
    <2>1. op \in [Callers -> CallType] /\ {"create", "erase"} \subseteq CallPlaces
      BY OpType DEF GenInv, CallPlaces
    <2> QED  BY <2>1, StepEffect
  <1>2. PICK t \in Torrents : t = op[c].t
    BY <1>1 DEF GenInv, CallsAreFormed
  <1>3. /\ cancelled' = cancelled \cup op[c].victims
        /\ UNCHANGED <<session, catalog, selected, states, sources, objects, destroyed>>
    BY DEF CancelVictims, engineVars, serverVars
  <1>4. RestExcept(t) /\ Withdrawn(t) /\ op[c].victims = {states[t]} \ {None}
    BY <1>1, <1>2, OthersAtRest DEF CallerInv, Progress
  <1>5. ASSUME NEW u \in Torrents, u # t  PROVE AtRest(u)'
    <2>1. states[u] = states[t] => states[u] = None
      BY <1>5 DEF GenInv, StatesAreAlive
    <2>2. states[u] \in cancelled' => states[u] \in cancelled
      BY <1>3, <1>4, <2>1
    <2> QED  BY <1>3, <1>4, <1>5, <2>2, StaysAtRest DEF GenInv, RestExcept
  <1>6. Withdrawn(t)' /\ (states'[t] = None \/ states'[t] \in cancelled')
    BY <1>3, <1>4 DEF Withdrawn
  <1>7. Progress(c)'
    <2>1. op[c].at = "cancelOld" => t \in catalog /\ selected[t] = op[c].f
      BY <1>2 DEF CallerInv, Progress, Selecting
    <2> QED  BY <1>1, <1>2, <1>3, <1>6, <2>1 DEF Progress, Selecting, Wiring, Withdrawn
  <1>8. CancelledBeforeDestroyed'
    BY <1>3 DEF CallerInv, CancelledBeforeDestroyed
  <1> QED  BY <1>1, <1>2, <1>5, <1>7, <1>8, CallerSplit

LEMMA CreateOne ==
  ASSUME OneCaller, GenInv, CallerInv, NEW c \in Callers, Creates(c)
  PROVE  CallerInv'
  <1>1. PICK o : o = Len(objects) + 1
    OBVIOUS
  <1>2. /\ op[c].at = "create" /\ o \notin Created
        /\ \A i \in Created : objects'[i] = objects[i]
        /\ op'[c].at = "register" /\ op'[c].obj = o
        /\ op'[c].t = op[c].t /\ op'[c].f = op[c].f
        /\ UNCHANGED <<session, catalog, selected, states, cancelled, destroyed, sources>>
    BY <1>1, CreateEffect
  <1>3. PICK t \in Torrents : t = op[c].t
    BY <1>2 DEF GenInv, CallsAreFormed
  <1>4. /\ RestExcept(t) /\ Withdrawn(t) /\ selected[t] = op[c].f
        /\ states[t] = None \/ states[t] \in cancelled
    BY <1>2, <1>3, OthersAtRest DEF CallerInv, Progress, Selecting
  <1>5. ASSUME NEW u \in Torrents, u # t  PROVE AtRest(u)'
    BY <1>2, <1>4, <1>5, StaysAtRest DEF GenInv, RestExcept
  <1>6. o \notin cancelled'
    BY <1>2 DEF GenInv, TypeOK
  <1>7. Progress(c)'
    BY <1>2, <1>3, <1>4, <1>6 DEF Progress, Selecting, Wiring, Withdrawn
  <1>8. CancelledBeforeDestroyed'
    BY <1>2 DEF CallerInv, CancelledBeforeDestroyed
  <1> QED  BY <1>2, <1>3, <1>5, <1>7, <1>8, CallerSplit

LEMMA WireOne ==
  ASSUME OneCaller, GenInv, CallerInv, NEW c \in Callers,
         SelectRegister(c) \/ SelectSetCallback(c)
  PROVE  CallerInv'
  <1>1. /\ op[c].at \in {"register", "callback"}
        /\ op'[c].at = IF op[c].at = "register" THEN "callback" ELSE "publish"
        /\ op'[c].t = op[c].t /\ op'[c].f = op[c].f /\ op'[c].obj = op[c].obj
    <2>1. op \in [Callers -> CallType] /\ {"callback", "publish"} \subseteq CallPlaces
      BY OpType DEF GenInv, CallPlaces
    <2> QED  BY <2>1, StepEffect DEF SelectRegister, SelectSetCallback
  <1>2. PICK t \in Torrents : t = op[c].t
    BY <1>1 DEF GenInv, CallsAreFormed
  <1>3. UNCHANGED <<session, catalog, selected, states, objects, cancelled, destroyed>>
    BY DEF SelectRegister, SelectSetCallback, engineVars, objectVars
  <1>4. /\ RestExcept(t) /\ selected[t] = op[c].f /\ op[c].obj \notin cancelled
        /\ states[t] = None \/ states[t] \in cancelled
        /\ op[c].at = "register" => Withdrawn(t)
        /\ op[c].at = "callback" => Wired(t, op[c].f, op[c].obj)
    BY <1>1, <1>2, OthersAtRest DEF CallerInv, Progress, Selecting, Wiring
  <1>5. /\ Wired(t, op[c].f, op[c].obj)'
        /\ \A u \in Torrents, f \in Files : u # t => sources'[<<u, f>>] = sources[<<u, f>>]
    <2>1. sources \in [Torrents \X Files -> Created \cup {None}]
      BY DEF GenInv, TypeOK
    <2>2. CASE SelectRegister(c)
      <3>1. op[c].at = "register" /\ sources' = [sources EXCEPT ![<<t, op[c].f>>] = op[c].obj]
        BY <1>2, <2>2 DEF SelectRegister, Step
      <3>2. \A u \in Torrents, f \in Files :
               sources'[<<u, f>>] = IF u = t /\ f = op[c].f THEN op[c].obj
                                                             ELSE sources[<<u, f>>]
        BY <2>1, <3>1
      <3> QED  BY <1>1, <1>4, <3>1, <3>2 DEF Wired, Withdrawn
    <2>3. CASE SelectSetCallback(c)
      <3>1. op[c].at = "callback" /\ sources' = sources
        BY <2>3 DEF SelectSetCallback, Step
      <3> QED  BY <1>1, <1>4, <3>1 DEF Wired
    <2> QED  BY <2>2, <2>3
  <1>6. ASSUME NEW u \in Torrents, u # t  PROVE AtRest(u)'
    BY <1>3, <1>4, <1>5, <1>6, StaysAtRest DEF GenInv, RestExcept
  <1>7. Progress(c)'
    BY <1>1, <1>2, <1>3, <1>4, <1>5 DEF Progress, Selecting, Wiring, Wired
  <1>8. CancelledBeforeDestroyed'
    BY <1>3 DEF CallerInv, CancelledBeforeDestroyed
  <1> QED  BY <1>1, <1>2, <1>6, <1>7, <1>8, CallerSplit

LEMMA PublishOne ==
  ASSUME OneCaller, GenInv, CallerInv, NEW c \in Callers, SelectPublish(c)
  PROVE  CallerInv'
  <1>1. op[c].at = "publish" /\ op'[c] = NoCall
    BY OpType, ReturnEffect DEF SelectPublish, GenInv
  <1>2. PICK t \in Torrents, o \in Created : t = op[c].t /\ o = op[c].obj
    BY <1>1 DEF GenInv, CallsAreFormed, Wiring
  <1>3. objects[o] = [t |-> t, f |-> op[c].f]
    BY <1>1, <1>2 DEF GenInv, CallsAreFormed, Wiring
  <1>4. /\ RestExcept(t) /\ selected[t] = op[c].f /\ o \notin cancelled
        /\ states[t] = None \/ states[t] \in cancelled
        /\ Wired(t, op[c].f, o)
    BY <1>1, <1>2, OthersAtRest DEF CallerInv, Progress, Selecting, Wiring
  <1>5. /\ states'[t] = o /\ \A u \in Torrents : u # t => states'[u] = states[u]
        /\ destroyed' = destroyed \cup ({states[t]} \ {None})
        /\ UNCHANGED <<session, catalog, selected, sources, objects, cancelled>>
    BY <1>2 DEF SelectPublish, Drop, serverVars, GenInv, TypeOK
  <1>6. o # None
    BY SelectionAssumption DEF GenInv, TypeOK, Created
  <1>7. AtRest(t)'
    BY <1>3, <1>4, <1>5, <1>6 DEF AtRest, Settled, Live, Chosen, Wired
  <1>8. ASSUME NEW u \in Torrents  PROVE AtRest(u)'
    <2>1. CASE u # t
      BY <1>4, <1>5, <2>1, StaysAtRest DEF GenInv, RestExcept
    <2> QED  BY <1>7, <2>1
  <1>9. Progress(c)'
    BY <1>1 DEF Progress, NoCall, Selecting, Wiring
  <1>10. CancelledBeforeDestroyed'
    BY <1>4, <1>5 DEF CallerInv, CancelledBeforeDestroyed
  <1> QED  BY <1>8, <1>9, <1>10, CallerSplit

LEMMA EraseOne ==
  ASSUME OneCaller, GenInv, CallerInv, NEW c \in Callers, RemoveErase(c)
  PROVE  CallerInv'
  <1>1. op[c].at = "erase" /\ op'[c].at = "forget" /\ op'[c].t = op[c].t
    <2>1. op \in [Callers -> CallType] /\ "forget" \in CallPlaces
      BY OpType DEF GenInv, CallPlaces
    <2> QED  BY <2>1, StepEffect DEF RemoveErase
  <1>2. PICK t \in Torrents : t = op[c].t
    BY <1>1 DEF GenInv, CallsAreFormed
  <1>3. /\ RestExcept(t) /\ Withdrawn(t)
        /\ states[t] = None \/ states[t] \in cancelled
    BY <1>1, <1>2, OthersAtRest DEF CallerInv, Progress
  <1>4. /\ states'[t] = None /\ \A u \in Torrents : u # t => states'[u] = states[u]
        /\ destroyed' = destroyed \cup ({states[t]} \ {None})
        /\ UNCHANGED <<session, catalog, selected, sources, objects, cancelled>>
    BY <1>2 DEF RemoveErase, Drop, serverVars, GenInv, TypeOK
  <1>5. ASSUME NEW u \in Torrents, u # t  PROVE AtRest(u)'
    BY <1>3, <1>4, <1>5, StaysAtRest DEF GenInv, RestExcept
  <1>6. Progress(c)'
    BY <1>1, <1>2, <1>3, <1>4 DEF Progress, Selecting, Wiring, Withdrawn
  <1>7. CancelledBeforeDestroyed'
    BY <1>3, <1>4 DEF CallerInv, CancelledBeforeDestroyed
  <1> QED  BY <1>1, <1>2, <1>5, <1>6, <1>7, CallerSplit

LEMMA ForgetOne ==
  ASSUME OneCaller, GenInv, CallerInv, NEW c \in Callers, RemoveForget(c)
  PROVE  CallerInv'
  <1>1. op[c].at = "forget" /\ op'[c].at = "leave" /\ op'[c].t = op[c].t
    <2>1. op \in [Callers -> CallType] /\ "leave" \in CallPlaces
      BY OpType DEF GenInv, CallPlaces
    <2> QED  BY <2>1, StepEffect DEF RemoveForget
  <1>2. PICK t \in Torrents : t = op[c].t
    BY <1>1 DEF GenInv, CallsAreFormed
  <1>3. RestExcept(t) /\ Withdrawn(t) /\ states[t] = None
    BY <1>1, <1>2, OthersAtRest DEF CallerInv, Progress
  <1>4. /\ selected'[t] = None /\ \A u \in Torrents : u # t => selected'[u] = selected[u]
        /\ UNCHANGED <<states, sources, objects, cancelled, destroyed>>
    BY <1>2 DEF RemoveForget, objectVars, serverVars, GenInv, TypeOK
  <1>5. ASSUME NEW u \in Torrents, u # t  PROVE AtRest(u)'
    BY <1>3, <1>4, <1>5, StaysAtRest DEF GenInv, RestExcept
  <1>6. Progress(c)'
    BY <1>1, <1>2, <1>3, <1>4 DEF Progress, Selecting, Wiring, Withdrawn
  <1>7. CancelledBeforeDestroyed'
    BY <1>4 DEF CallerInv, CancelledBeforeDestroyed
  <1> QED  BY <1>1, <1>2, <1>5, <1>6, <1>7, CallerSplit

LEMMA LeaveOne ==
  ASSUME OneCaller, GenInv, CallerInv, NEW c \in Callers, RemoveLeave(c)
  PROVE  CallerInv'
  <1>1. op[c].at = "leave" /\ op'[c] = NoCall
    BY OpType, ReturnEffect DEF RemoveLeave, GenInv
  <1>2. PICK t \in Torrents : t = op[c].t
    BY <1>1 DEF GenInv, CallsAreFormed
  <1>3. RestExcept(t) /\ Withdrawn(t) /\ states[t] = None /\ selected[t] = None
    BY <1>1, <1>2, OthersAtRest DEF CallerInv, Progress
  <1>4. UNCHANGED <<selected, states, sources, objects, cancelled, destroyed>>
    BY DEF RemoveLeave, objectVars, serverVars
  <1>5. None \notin cancelled
    BY SelectionAssumption DEF GenInv, TypeOK, Created
  <1>6. AtRest(t)
    BY <1>3, <1>5 DEF AtRest, Settled, Live, Chosen, Withdrawn
  <1>7. ASSUME NEW u \in Torrents  PROVE AtRest(u)'
    BY <1>3, <1>4, <1>6, StaysAtRest DEF GenInv, RestExcept
  <1>8. Progress(c)'
    BY <1>1 DEF Progress, NoCall, Selecting, Wiring
  <1>9. CancelledBeforeDestroyed'
    BY <1>4 DEF CallerInv, CancelledBeforeDestroyed
  <1> QED  BY <1>7, <1>8, <1>9, CallerSplit

LEMMA CallerInit == Init => CallerInv
  <1> SUFFICES ASSUME Init
               PROVE  CallerInv
    OBVIOUS
  <1>1. \A c \in Callers : op[c].at = "idle"
    BY DEF Init, NoCall
  <1>2. \A c \in Callers : Progress(c)
    BY <1>1 DEF Progress, Selecting, Wiring
  <1>3. OthersAreSettled /\ CancelledBeforeDestroyed
    BY DEF Init, OthersAreSettled, Settled, Live, Chosen, CancelledBeforeDestroyed
  <1> QED  BY <1>2, <1>3 DEF CallerInv

LEMMA CallerNext == OneCaller /\ GenInv /\ CallerInv /\ [Next]_vars => CallerInv'
  <1> SUFFICES ASSUME OneCaller, GenInv, CallerInv, [Next]_vars
               PROVE  CallerInv'
    OBVIOUS
  <1>1. ASSUME NEW c \in Callers, NEW t \in Torrents,
               (\E f \in Files : SelectBegin(c, t, f)) \/ RemoveBegin(c, t)
        PROVE  CallerInv'
    BY <1>1, CallBeginsOne
  <1>2. ASSUME NEW c \in Callers,
               \/ SelectUnregisterOld(c) \/ RemoveUnregister(c)
               \/ SelectCancelOld(c) \/ RemoveCancel(c)
        PROVE  CallerInv'
    BY <1>2, TakeOutOne, CancelOne DEF SelectCancelOld, RemoveCancel
  <1>3. ASSUME NEW c \in Callers, Fails(c)
        PROVE  CallerInv'
    <2>1. op[c].at = "create" /\ op[c].t \notin catalog
      BY <1>3 DEF Fails
    <2> QED  BY <2>1 DEF CallerInv, Progress
  <1>4. ASSUME NEW c \in Callers,
               \/ Creates(c) \/ SelectRegister(c) \/ SelectSetCallback(c)
               \/ SelectPublish(c)
        PROVE  CallerInv'
    BY <1>4, CreateOne, WireOne, PublishOne
  <1>5. ASSUME NEW c \in Callers, RemoveErase(c) \/ RemoveForget(c) \/ RemoveLeave(c)
        PROVE  CallerInv'
    BY <1>5, EraseOne, ForgetOne, LeaveOne
  <1>6. ASSUME NEW t \in Torrents, NEW p \in Pieces,
               Download(t, p) \/ DispatchPieceFinished(t, p)
        PROVE  CallerInv'
    BY <1>6, CallerUntouched DEF Download, DispatchPieceFinished, engineVars, objectVars,
       serverVars
  <1>7. ASSUME NEW h \in Connections,
               \/ \E k \in Torrents \X Files : Lookup(h, k)
               \/ FileSize(h) \/ RangeCallback(h) \/ ReadBegin(h)
               \/ \E s \in SUBSET Pieces \ {{}} : ReadMap(h, s)
               \/ ReadTestCancelled(h) \/ ReadTestSpan(h) \/ ReadTimeout(h) \/ SendChunk(h)
        PROVE  CallerInv'
    <2>1. ConnStep
      BY <1>7, ConnSteps DEF GenInv
    <2> QED  BY <2>1, CallerUntouched DEF ConnStep, unchangedByConn, engineVars, objectVars,
                                          serverVars
  <1>8. CASE UNCHANGED vars
    BY <1>8, CallerUntouched DEF vars, engineVars, objectVars, serverVars
  <1>9. ASSUME NEW t \in Torrents, RestDelete(t)
        PROVE  CallerInv'
    BY <1>9, CallerUntouched DEF RestDelete, objectVars, serverVars
  <1>10. ASSUME NEW c \in Callers, SelectCreate(c)
         PROVE  CallerInv'
    BY <1>3, <1>4, <1>10, TwoEnds
  <1> QED  BY <1>1, <1>2, <1>4, <1>5, <1>6, <1>7, <1>8, <1>9, <1>10 DEF Next

\* With one caller the calls follow one another, and every torrent but that of the call
\* in progress is at rest.
THEOREM CallerHolds == OneCaller => (Spec => []CallerInv)
  <1> SUFFICES ASSUME OneCaller
               PROVE  Spec => []CallerInv
    OBVIOUS
  <1>1. GenInv /\ CallerInv /\ [Next]_vars => CallerInv'
    BY CallerNext
  <1> QED  BY <1>1, CallerInit, GenHolds, PTL DEF Spec

\* At every moment the table has at most one source of a torrent, and it is live.
LEMMA OneLiveSource ==
  ASSUME OneCaller, GenInv, CallerInv, NEW t \in Torrents
  PROVE  \E g, o : Wired(t, g, o) /\ o \notin cancelled
  <1>1. None \notin cancelled
    BY SelectionAssumption DEF GenInv, TypeOK, Created
  <1>2. CASE Withdrawn(t)
    <2>1. Wired(t, None, None)
      BY <1>2 DEF Withdrawn, Wired
    <2> QED  BY <1>1, <2>1
  <1>3. CASE Settled(t) /\ Live(t)
    <2>1. CASE states[t] = None
      BY <1>2, <1>3, <2>1 DEF Settled, Withdrawn
    <2>2. CASE states[t] # None
      <3>1. Wired(t, objects[states[t]].f, states[t])
        BY <1>3, <2>2 DEF Settled, Wired
      <3> QED  BY <1>3, <3>1 DEF Live
    <2> QED  BY <2>1, <2>2
  <1>4. CASE \A c \in Callers : op[c].t # t
    BY <1>3, <1>4 DEF CallerInv, OthersAreSettled
  <1>5. ASSUME NEW c \in Callers, op[c].t = t
        PROVE  Withdrawn(t) \/ (Settled(t) /\ Live(t))
                  \/ (Wired(t, op[c].f, op[c].obj) /\ op[c].obj \notin cancelled)
    <2>1. op[c].at \in CallPlaces \ {"idle"}
      <3>1. op[c].at \in CallPlaces
        BY OpType DEF GenInv, CallType
      <3>2. op[c].at # "idle"
        <4>1. op[c].at = "idle" => op[c] = NoCall
          BY DEF GenInv, CallsAreFormed
        <4>2. NoCall.t = None
          BY DEF NoCall
        <4> QED  BY <1>5, <4>1, <4>2, SelectionAssumption
      <3> QED  BY <3>1, <3>2
    <2> QED  BY <1>5, <2>1 DEF CallerInv, Progress, CallPlaces, Wiring
  <1> QED  BY <1>2, <1>3, <1>4, <1>5

\* The server offers at most one file of a torrent, also in the middle of a
\* selection.
OneStreamPerTorrent ==
    \A k, l \in DOMAIN sources :
        k[1] = l[1] /\ sources[k] # None /\ sources[l] # None => k = l

LEMMA TableFollows ==
  ASSUME OneCaller, GenInv, CallerInv
  PROVE  TableIsLive /\ OneStreamPerTorrent
  <1>1. DOMAIN sources = Torrents \X Files
    BY DEF GenInv, TypeOK
  <1>2. ASSUME NEW k \in Torrents \X Files, sources[k] # None
        PROVE  sources[k] \notin cancelled
    <2>1. PICK g, o : Wired(k[1], g, o) /\ o \notin cancelled
      BY OneLiveSource
    <2>2. k = <<k[1], k[2]>> /\ k[2] \in Files
      OBVIOUS
    <2> QED  BY <1>2, <2>1, <2>2 DEF Wired
  <1>3. TableIsLive
    BY <1>1, <1>2 DEF TableIsLive, Registered, CallerInv, CancelledBeforeDestroyed
  <1>4. OneStreamPerTorrent
    <2> SUFFICES ASSUME NEW k \in Torrents \X Files, NEW l \in Torrents \X Files,
                        k[1] = l[1], sources[k] # None, sources[l] # None
                 PROVE  k = l
      BY <1>1 DEF OneStreamPerTorrent
    <2>1. PICK g, o : Wired(k[1], g, o)
      BY OneLiveSource
    <2>2. k = <<k[1], k[2]>> /\ l = <<k[1], l[2]>> /\ k[2] \in Files /\ l[2] \in Files
      OBVIOUS
    <2>3. k[2] = g /\ l[2] = g
      BY <2>1, <2>2 DEF Wired
    <2> QED  BY <2>2, <2>3
  <1> QED  BY <1>3, <1>4

LEMMA IdleAgrees ==
  ASSUME GenInv, CallerInv
  PROVE  TablesAgree
  <1> SUFFICES ASSUME AllCallersIdle
               PROVE  \A t \in Torrents : Settled(t) /\ Chosen(t)
    BY DEF TablesAgree, Settled, Chosen
  <1>1. \A c \in Callers : op[c].t = None
    <2>1. \A c \in Callers : op[c] = NoCall
      BY DEF AllCallersIdle, GenInv, CallsAreFormed
    <2> QED  BY <2>1 DEF NoCall
  <1> QED  BY <1>1, SelectionAssumption DEF CallerInv, OthersAreSettled

\* With one caller at a time, the server never offers a source that is cancelled or
\* whose state is destroyed.
THEOREM TableStaysLive == OneCaller => (Spec => []TableIsLive)
  <1> SUFFICES ASSUME OneCaller
               PROVE  Spec => []TableIsLive
    OBVIOUS
  <1>1. GenInv /\ CallerInv => TableIsLive
    BY TableFollows
  <1>2. Spec => []CallerInv
    BY CallerHolds
  <1> QED  BY <1>1, <1>2, GenHolds, PTL

\* With one caller at a time, a torrent has at most one stream, also while one selection
\* replaces another.
THEOREM OneStreamAtATime == OneCaller => (Spec => []OneStreamPerTorrent)
  <1> SUFFICES ASSUME OneCaller
               PROVE  Spec => []OneStreamPerTorrent
    OBVIOUS
  <1>1. GenInv /\ CallerInv => OneStreamPerTorrent
    BY TableFollows
  <1>2. Spec => []CallerInv
    BY CallerHolds
  <1> QED  BY <1>1, <1>2, GenHolds, PTL

\* With one caller at a time, no state is destroyed before its reads are told to stop.
THEOREM CancelledFirst == OneCaller => (Spec => []CancelledBeforeDestroyed)
  <1> SUFFICES ASSUME OneCaller
               PROVE  Spec => []CancelledBeforeDestroyed
    OBVIOUS
  <1>1. CallerInv => CancelledBeforeDestroyed
    BY DEF CallerInv
  <1>2. Spec => []CallerInv
    BY CallerHolds
  <1> QED  BY <1>1, <1>2, PTL

\* With one caller at a time, between calls the engine, the server and the catalog agree
\* on what is selected.
THEOREM TablesAgreeBetweenCalls == OneCaller => (Spec => []TablesAgree)
  <1> SUFFICES ASSUME OneCaller
               PROVE  Spec => []TablesAgree
    OBVIOUS
  <1>1. GenInv /\ CallerInv => TablesAgree
    BY IdleAgrees
  <1>2. Spec => []CallerInv
    BY CallerHolds
  <1> QED  BY <1>1, <1>2, GenHolds, PTL

-----------------------------------------------------------------------------
(* Refinement: one caller keeps the directory of StreamDirectory.          *)

\* What the abstract specification sees of the table.
Seen == [t \in Torrents |-> Offers(t)]

LEMMA SeenMoves ==
  ASSUME NEW t \in Torrents,
         \A u \in Torrents, f \in Files : u # t => sources'[<<u, f>>] = sources[<<u, f>>]
  PROVE  Seen' = [Seen EXCEPT ![t] = Offers(t)']
  <1>1. \A u \in Torrents : u # t => Offers(u)' = Offers(u)
    BY DEF Offers
  <1> QED  BY <1>1 DEF Seen

LEMMA CreatedAreObjects ==
  ASSUME GenInv
  PROVE  Created \subseteq Objects /\ None \notin Created
  <1> DEFINE S == [t : Torrents, f : Files]
  <1>1. objects \in Seq(S) /\ Len(objects) <= MaxSelections
    BY DEF GenInv, TypeOK
  <1> HIDE DEF S
  <1>2. DOMAIN objects = 1..Len(objects) /\ Len(objects) \in Nat
    BY <1>1, LenProperties
  <1> QED  BY <1>1, <1>2, SelectionAssumption DEF Created, Objects

LEMMA DirectoryStutters ==
  ASSUME UNCHANGED <<selected, sources, cancelled, destroyed>>
  PROVE  UNCHANGED Directory!vars
  BY DEF Directory!vars, Offers

LEMMA TakeOutRefines ==
  ASSUME GenInv, CallerInv', NEW c \in Callers, SelectUnregisterOld(c) \/ RemoveUnregister(c)
  PROVE  Directory!Next
  <1>1. op[c].at \in {"unregister", "takeAll"}
    BY DEF SelectUnregisterOld, RemoveUnregister
  <1>2. PICK t \in Torrents : t = op[c].t
    BY <1>1 DEF GenInv, CallsAreFormed
  <1>3. PICK keys \in SUBSET (Torrents \X Files), to \in {"cancelOld", "cancelAll"} :
           /\ TakeOut(c, keys, to)
           /\ \A k \in keys : k[1] = t
    <2>1. OldKeys(t) \in SUBSET (Torrents \X Files) /\ \A k \in OldKeys(t) : k[1] = t
      BY OldKeysAreKeys DEF GenInv, OldKeys
    <2>2. {t} \X Files \in SUBSET (Torrents \X Files) /\ \A k \in {t} \X Files : k[1] = t
      OBVIOUS
    <2> QED  BY <1>2, <2>1, <2>2 DEF SelectUnregisterOld, RemoveUnregister
  <1>4. /\ op'[c].at = to /\ op'[c].t = t
        /\ \A k \in Torrents \X Files :
              sources'[k] = IF k \in keys THEN None ELSE sources[k]
        /\ UNCHANGED <<selected, cancelled, destroyed>>
    <2>1. TypeOK /\ to \in CallPlaces
      BY DEF GenInv, CallPlaces
    <2>2. TakeOut(c, keys, to)
      BY <1>3
    <2>3. /\ op' \in [Callers -> CallType]
          /\ op'[c].at = to
          /\ op'[c].t = op[c].t /\ op'[c].f = op[c].f /\ op'[c].obj = op[c].obj
          /\ op'[c].victims = {sources[k] : k \in keys} \ {None}
          /\ \A d \in Callers \ {c} : op'[d] = op[d]
          /\ sources' \in [Torrents \X Files -> Created \cup {None}]
          /\ \A k \in Torrents \X Files :
                sources'[k] = IF k \in keys THEN None ELSE sources[k]
          /\ UNCHANGED <<session, catalog, selected, states, have, alerts, objects, avail,
                          cancelled, destroyed, rangeCb, conn>>
      BY <2>1, <2>2, TakeOutEffect
    <2> QED  BY <1>2, <2>3
  <1>5. Offers(t)' = {}
    <2>1. Withdrawn(t)'
      BY <1>4 DEF CallerInv, Progress
    <2> QED  BY <2>1 DEF Withdrawn, Offers
  <1>6. \A u \in Torrents, f \in Files : u # t => sources'[<<u, f>>] = sources[<<u, f>>]
    BY <1>3, <1>4
  <1>7. Seen' = [Seen EXCEPT ![t] = {}]
    BY <1>5, <1>6, SeenMoves
  <1>8. Directory!Withdraw(t)
    BY <1>4, <1>7 DEF Directory!Withdraw, Seen
  <1> QED  BY <1>8 DEF Directory!Next

\* Nobody finds the stream of a torrent whose sources are withdrawn.
LEMMA CancelRefines ==
  ASSUME OneCaller, GenInv, CallerInv, NEW c \in Callers, CancelVictims(c),
         op[c].at \in {"cancelOld", "cancelAll"}
  PROVE  Directory!Next \/ UNCHANGED Directory!vars
  <1>1. PICK t \in Torrents : t = op[c].t
    BY DEF GenInv, CallsAreFormed
  <1>2. RestExcept(t) /\ Withdrawn(t) /\ op[c].victims = {states[t]} \ {None}
    BY <1>1, OthersAtRest DEF CallerInv, Progress
  <1>3. /\ cancelled' = cancelled \cup ({states[t]} \ {None})
        /\ UNCHANGED <<selected, sources, destroyed>>
    BY <1>2 DEF CancelVictims, engineVars, serverVars
  <1>4. CASE states[t] = None
    BY <1>3, <1>4, DirectoryStutters
  <1>5. CASE states[t] # None
    <2>1. states[t] \in Objects
      BY <1>5, CreatedAreObjects DEF GenInv, TypeOK
    <2>2. ASSUME NEW u \in Torrents, NEW f \in Files
          PROVE  <<f, states[t]>> \notin Offers(u)
      <3>1. CASE u = t
        BY <1>2, <3>1 DEF Withdrawn, Offers
      <3>2. CASE u # t
        <4>1. states[u] # states[t]
          BY <1>5, <3>2 DEF GenInv, StatesAreAlive
        <4>2. sources[<<u, f>>] \in {states[u], None}
          BY <1>2, <3>2 DEF RestExcept, AtRest, Settled
        <4> QED  BY <1>5, <4>1, <4>2 DEF Offers
      <3> QED  BY <3>1, <3>2
    <2>3. Directory!End(states[t])
      BY <1>3, <1>5, <2>2 DEF Directory!End, Offers
    <2> QED  BY <2>1, <2>3 DEF Directory!Next
  <1> QED  BY <1>4, <1>5

\* The new stream is of the file chosen, and nobody has been told to leave it.
LEMMA RegisterRefines ==
  ASSUME OneCaller, GenInv, CallerInv, NEW c \in Callers, SelectRegister(c)
  PROVE  Directory!Next
  <1>1. op[c].at = "register" /\ sources' = [sources EXCEPT ![<<op[c].t, op[c].f>>] = op[c].obj]
    BY DEF SelectRegister, Step
  <1>2. /\ op[c].t \in Torrents /\ op[c].f \in Files /\ op[c].obj \in Objects
        /\ op[c].obj # None
    BY <1>1, CreatedAreObjects, SelectionAssumption
       DEF GenInv, CallsAreFormed, Selecting, Wiring
  <1>3. PICK t \in Torrents, f \in Files, o \in Objects :
           t = op[c].t /\ f = op[c].f /\ o = op[c].obj
    BY <1>2
  <1>4. Withdrawn(t) /\ selected[t] = f /\ o \notin cancelled
    BY <1>1, <1>3 DEF CallerInv, Progress, Selecting, Wiring
  <1>5. \A u \in Torrents, g \in Files :
           sources'[<<u, g>>] = IF u = t /\ g = f THEN o ELSE sources[<<u, g>>]
    BY <1>1, <1>3 DEF GenInv, TypeOK
  <1>6. Offers(t) = {} /\ Offers(t)' = {<<f, o>>}
    <2>1. \A g \in Files : sources[<<t, g>>] = None
      BY <1>4 DEF Withdrawn
    <2>2. \A g \in Files : sources'[<<t, g>>] = IF g = f THEN o ELSE None
      BY <1>5, <2>1
    <2>3. {g \in Files : sources'[<<t, g>>] # None} = {f}
      BY <1>2, <1>3, <2>2
    <2>4. Offers(t)' = {<<g, sources'[<<t, g>>]>> : g \in {f}}
      BY <2>3 DEF Offers
    <2> QED  BY <2>1, <2>2, <2>4 DEF Offers
  <1>7. Seen' = [Seen EXCEPT ![t] = {<<selected[t], o>>}]
    BY <1>4, <1>5, <1>6, SeenMoves
  <1>8. UNCHANGED <<selected, cancelled, destroyed>>
    BY DEF SelectRegister, engineVars, objectVars
  <1>9. Directory!Offer(t, o)
    BY <1>4, <1>6, <1>7, <1>8, SelectionAssumption DEF Directory!Offer, Seen
  <1> QED  BY <1>9 DEF Directory!Next

LEMMA DropRefines ==
  ASSUME OneCaller, GenInv, CallerInv, NEW c \in Callers, SelectPublish(c) \/ RemoveErase(c)
  PROVE  Directory!Next \/ UNCHANGED Directory!vars
  <1>1. op[c].at \in {"publish", "erase"}
    BY DEF SelectPublish, RemoveErase, Step
  <1>2. PICK t \in Torrents : t = op[c].t
    BY <1>1 DEF GenInv, CallsAreFormed, Selecting
  <1>3. states[t] = None \/ states[t] \in cancelled
    BY <1>1, <1>2 DEF CallerInv, Progress
  <1>4. /\ destroyed' = destroyed \cup ({states[t]} \ {None})
        /\ UNCHANGED <<selected, sources, cancelled>>
    BY <1>2 DEF SelectPublish, RemoveErase, Drop, serverVars
  <1>5. CASE states[t] = None
    BY <1>4, <1>5, DirectoryStutters
  <1>6. CASE states[t] # None
    <2>1. states[t] \in Objects
      BY <1>6, CreatedAreObjects DEF GenInv, TypeOK
    <2>2. Directory!Discard(states[t])
      BY <1>3, <1>4, <1>6 DEF Directory!Discard, Offers
    <2> QED  BY <2>1, <2>2 DEF Directory!Next
  <1> QED  BY <1>5, <1>6

LEMMA ForgetRefines ==
  ASSUME GenInv, CallerInv, NEW c \in Callers, RemoveForget(c)
  PROVE  Directory!Next
  <1>1. op[c].at = "forget"
    BY DEF RemoveForget, Step
  <1>2. PICK t \in Torrents : t = op[c].t
    BY <1>1 DEF GenInv, CallsAreFormed
  <1>3. Withdrawn(t)
    BY <1>1, <1>2 DEF CallerInv, Progress
  <1>4. Offers(t) = {}
    BY <1>3 DEF Withdrawn, Offers
  <1>5. /\ selected' = [selected EXCEPT ![t] = None]
        /\ UNCHANGED <<sources, cancelled, destroyed>>
    BY <1>2 DEF RemoveForget, objectVars, serverVars
  <1>6. Directory!Forget(t)
    BY <1>4, <1>5 DEF Directory!Forget, Offers
  <1> QED  BY <1>6 DEF Directory!Next

LEMMA DirectoryStep ==
  ASSUME OneCaller, GenInv, CallerInv, CallerInv', [Next]_vars
  PROVE  Directory!Next \/ UNCHANGED Directory!vars
  <1>1. ASSUME NEW c \in Callers, NEW t \in Torrents, NEW f \in Files, SelectBegin(c, t, f)
        PROVE  Directory!Next
    <2>1. Directory!Choose(t, f)
      BY <1>1 DEF SelectBegin, Directory!Choose, Offers, objectVars, serverVars
    <2> QED  BY <2>1 DEF Directory!Next
  <1>2. ASSUME NEW c \in Callers, SelectCancelOld(c) \/ RemoveCancel(c)
        PROVE  Directory!Next \/ UNCHANGED Directory!vars
    BY <1>2, CancelRefines DEF SelectCancelOld, RemoveCancel, Step
  <1>3. ASSUME NEW c \in Callers,
               \/ SelectCreate(c) \/ SelectSetCallback(c) \/ RemoveLeave(c)
               \/ \E t \in Torrents : RemoveBegin(c, t)
        PROVE  UNCHANGED Directory!vars
    <2>1. UNCHANGED <<selected, sources, cancelled, destroyed>>
      BY <1>3 DEF SelectCreate, NewState, SelectSetCallback, RemoveLeave, RemoveBegin,
                  engineVars, objectVars, serverVars
    <2> QED  BY <2>1, DirectoryStutters
  <1>4. ASSUME NEW t \in Torrents,
               RestDelete(t) \/ \E p \in Pieces : Download(t, p) \/ DispatchPieceFinished(t, p)
        PROVE  UNCHANGED Directory!vars
    <2>1. UNCHANGED <<selected, sources, cancelled, destroyed>>
      BY <1>4 DEF RestDelete, Download, DispatchPieceFinished, engineVars, objectVars,
                  serverVars
    <2> QED  BY <2>1, DirectoryStutters
  <1>5. ASSUME NEW h \in Connections,
               \/ \E k \in Torrents \X Files : Lookup(h, k)
               \/ FileSize(h) \/ RangeCallback(h) \/ ReadBegin(h)
               \/ \E s \in SUBSET Pieces \ {{}} : ReadMap(h, s)
               \/ ReadTestCancelled(h) \/ ReadTestSpan(h) \/ ReadTimeout(h) \/ SendChunk(h)
        PROVE  UNCHANGED Directory!vars
    <2>1. ConnStep
      BY <1>5, ConnSteps DEF GenInv
    <2>2. UNCHANGED <<selected, sources, cancelled, destroyed>>
      BY <2>1 DEF ConnStep, unchangedByConn, engineVars, objectVars, serverVars
    <2> QED  BY <2>2, DirectoryStutters
  <1>6. CASE UNCHANGED vars
    BY <1>6, DirectoryStutters DEF vars, engineVars, objectVars, serverVars
  <1> QED
    BY <1>1, <1>2, <1>3, <1>4, <1>5, <1>6, TakeOutRefines, RegisterRefines, DropRefines,
       ForgetRefines DEF Next

\* With one caller at a time, select_file and remove_torrent implement the directory of
\* streams (engine.cpp:154-172, 212-299): withdrawn, told to stop, destroyed, in this
\* order, and a torrent never has a stream of a file other than the one chosen when it
\* was put up, whatever connections, alerts and the control API do in between.
THEOREM DirectoryTheorem == OneCaller => (Spec => KeepsDirectory)
  <1> SUFFICES ASSUME OneCaller
               PROVE  Spec => KeepsDirectory
    OBVIOUS
  <1>1. Init => Directory!Init
    <2>1. Init => \A t \in Torrents, f \in Files : sources[<<t, f>>] = None
      BY DEF Init
    <2>2. Init => \A t \in Torrents : Offers(t) = {}
      BY <2>1 DEF Offers
    <2> QED  BY <2>2 DEF Init, Directory!Init
  <1>2. GenInv /\ CallerInv /\ CallerInv' /\ [Next]_vars => [Directory!Next]_(Directory!vars)
    BY DirectoryStep
  <1>3. Spec => []CallerInv
    BY CallerHolds
  <1> QED
    BY <1>1, <1>2, <1>3, GenHolds, PTL DEF Spec, KeepsDirectory, Directory!Spec

=============================================================================
