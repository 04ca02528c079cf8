---------------------------- MODULE ServerProofs ----------------------------
(***************************************************************************)
(* Proofs about ServerLifecycle, for any number of connections, any limit  *)
(* and any number of starts; last, that it implements ServerSwitch.        *)
(***************************************************************************)
EXTENDS ServerLifecycle, FiniteSetTheorems, TLAPS

-----------------------------------------------------------------------------
(* The inductive invariant.                                                *)

\* The connections of the present ControlApiServer that have counted themselves.
Counted == {c \in Connections \ orphans : conn[c] \in {"serving", "closing"}}

\* active_connections_ counts them; without a server nobody is left to be counted.
CountInv == /\ members => active = Cardinality(Counted)
            /\ ~members => Live \subseteq orphans

\* What the owner has behind it, whoever else stops the server.
OwnerInv ==
    /\ stopping[Owner] # "out" => owner \in {"stop", "destroy"}
    /\ owner \in {"stop", "destroy"} /\ stopping[Owner] # "enter" => ~running
    /\ owner \in DestroyPlaces => ~running
    /\ owner \in {"destroy_members", "destroy_thread", "gone"} => alert = "ended"
    /\ ~members => owner \in {"destroy_thread", "gone"}

\* Only a connection that was asked to shut down is in stop_server.
CallInv == \A c \in Connections : stopping[c] # "out" => conn[c] = "closing"

\* A start begins from nothing and adds one part after the other.
StartInv ==
    /\ owner \in StartPlaces => ~running /\ \A t \in Threads : ~InStop(t)
    /\ owner = "start_http" => listening = {}
    /\ owner = "start_api" => listening \subseteq {"http"}
    /\ owner \in {"start_http", "start_api", "start_thread"} => timer = "none" /\ io = "none"

\* A stop takes one part away after the other.
StopInv ==
    \A t \in Threads :
        /\ stopping[t] \in {"api", "http", "sources", "ioc", "join"} => timer = "none"
        /\ stopping[t] \in {"http", "sources", "ioc", "join"} => "api" \notin listening
        /\ stopping[t] \in {"sources", "ioc", "join"} => listening = {}

\* Between a stop and the next start nothing is there, wherever the owner is.
QuietInv ==
    owner \notin StartPlaces /\ ~running /\ (\A t \in Threads : ~InStop(t))
        => listening = {} /\ timer = "none" /\ io = "none"

PhaseInv == OwnerInv /\ CallInv /\ StartInv /\ StopInv /\ QuietInv /\ OneStopPerStart

IInv == TypeOK /\ CountInv /\ PhaseInv

-----------------------------------------------------------------------------
(* The counter.                                                            *)

LEMMA CountedIsFinite ==
  /\ IsFiniteSet(Counted)
  /\ Cardinality(Counted) \in 0..Cardinality(Connections)
  <1>1. Counted \in SUBSET Connections
    BY DEF Counted
  <1>2. IsFiniteSet(Connections)
    BY LifecycleAssumption
  <1>3. IsFiniteSet(Counted) /\ Cardinality(Counted) <= Cardinality(Connections)
    BY <1>1, <1>2, FS_Subset
  <1>4. Cardinality(Counted) \in Nat /\ Cardinality(Connections) \in Nat
    BY <1>2, <1>3, FS_CardinalityType
  <1> QED
    BY <1>3, <1>4

LEMMA CountedIsFiniteNext ==
  /\ IsFiniteSet(Counted')
  /\ Cardinality(Counted') \in 0..Cardinality(Connections)
  <1>1. Counted' \in SUBSET Connections
    BY DEF Counted
  <1>2. IsFiniteSet(Connections)
    BY LifecycleAssumption
  <1>3. IsFiniteSet(Counted') /\ Cardinality(Counted') <= Cardinality(Connections)
    BY <1>1, <1>2, FS_Subset
  <1>4. Cardinality(Counted') \in Nat /\ Cardinality(Connections) \in Nat
    BY <1>2, <1>3, FS_CardinalityType
  <1> QED
    BY <1>3, <1>4

\* ConnGuard: active_connections_ is exactly the number of connections inside it, as
\* long as there is a server, and never negative (control_api_server.cpp:155-166).
LEMMA CountStep ==
  ASSUME TypeOK, CountInv, [Next]_vars
  PROVE  CountInv' /\ active' \in 0..Cardinality(Connections)
  <1> USE LifecycleAssumption
  <1>1. CASE UNCHANGED <<connVars, members>>
    <2>1. Counted' = Counted /\ Live' = Live
      BY <1>1 DEF Counted, Live, connVars
    <2> QED
      BY <1>1, <2>1 DEF CountInv, TypeOK, connVars
  <1>2. CASE StartCreate
    <2>1. CASE Undefined
      BY <2>1, <1>1 DEF Undefined, alertVars
    <2>2. CASE ~Undefined
      <3>1. /\ conn' = conn /\ active' = 0 /\ orphans' = orphans \cup Live
            /\ members' = members
        BY <1>2, <2>2 DEF StartCreate, alertVars
      <3>2. Counted' = {} /\ Live' \subseteq orphans'
        BY <3>1 DEF Counted, Live
      <3>3. Cardinality(Counted') = 0
        BY <3>2, FS_EmptySet
      <3> QED
        BY <3>1, <3>2, <3>3, CountedIsFiniteNext DEF CountInv
    <2> QED
      BY <2>1, <2>2
  <1>3. CASE DestroyMembers
    <2>1. /\ conn' = conn /\ active' = active /\ orphans' = orphans \cup Live
          /\ members' = FALSE
      BY <1>3 DEF DestroyMembers
    <2> QED
      BY <2>1 DEF CountInv, Live, TypeOK
  <1>4. ASSUME NEW c \in Connections, Accept(c)
        PROVE  CountInv' /\ active' \in 0..Cardinality(Connections)
    <2>1. CASE Undefined
      BY <2>1, <1>1 DEF Undefined, alertVars
    <2>2. CASE ~Undefined
      <3>1. /\ active' = active /\ orphans' = orphans /\ members /\ members'
            /\ conn[c] = "none"
            /\ \E p \in {"rejected", "spawned"} : conn' = [conn EXCEPT ![c] = p]
        BY <1>4, <2>2 DEF Accept, IoOnly, alertVars
      <3>2. Counted' = Counted
        BY <3>1 DEF Counted, TypeOK
      <3> QED
        BY <3>1, <3>2 DEF CountInv, TypeOK
    <2> QED
      BY <2>1, <2>2
  <1>5. ASSUME NEW c \in Connections, ConnBegin(c)
        PROVE  CountInv' /\ active' \in 0..Cardinality(Connections)
    <2>1. CASE Undefined
      BY <2>1, <1>1 DEF Undefined, alertVars
    <2>2. CASE ~Undefined
      <3>1. /\ active' = active + 1 /\ orphans' = orphans /\ members' = members
            /\ conn[c] = "spawned" /\ c \notin orphans
            /\ conn' = [conn EXCEPT ![c] = "serving"]
        BY <1>5, <2>2 DEF ConnBegin, ConnOnly, alertVars
      <3>2. members
        BY <3>1 DEF CountInv, Live
      <3>3. Counted' = Counted \cup {c} /\ c \notin Counted
        BY <3>1 DEF Counted, TypeOK
      <3>4. Cardinality(Counted') = Cardinality(Counted) + 1
        BY <3>3, CountedIsFinite, FS_AddElement
      <3> QED
        BY <3>1, <3>2, <3>4, CountedIsFiniteNext DEF CountInv
    <2> QED
      BY <2>1, <2>2
  <1>6. ASSUME NEW c \in Connections, ConnShutdown(c)
        PROVE  CountInv' /\ active' \in 0..Cardinality(Connections)
    <2>1. CASE Undefined
      BY <2>1, <1>1 DEF Undefined, alertVars
    <2>2. CASE ~Undefined
      <3>1. /\ active' = active /\ orphans' = orphans /\ members' = members
            /\ conn[c] = "serving" /\ conn' = [conn EXCEPT ![c] = "closing"]
        BY <1>6, <2>2 DEF ConnShutdown, ConnOnly, alertVars
      <3>2. Counted' = Counted /\ Live' = Live
        BY <3>1 DEF Counted, Live, TypeOK
      <3> QED
        BY <3>1, <3>2 DEF CountInv, TypeOK
    <2> QED
      BY <2>1, <2>2
  <1>7. ASSUME NEW c \in Connections, ConnEnd(c)
        PROVE  CountInv' /\ active' \in 0..Cardinality(Connections)
    <2>1. CASE Undefined
      BY <2>1, <1>1 DEF Undefined, alertVars
    <2>2. CASE ~Undefined
      <3>1. /\ active' = active - 1 /\ orphans' = orphans /\ members' = members
            /\ conn[c] \in {"serving", "closing"} /\ c \notin orphans
            /\ conn' = [conn EXCEPT ![c] = "done"]
        BY <1>7, <2>2 DEF ConnEnd, ConnOnly, alertVars
      <3>2. members
        BY <3>1 DEF CountInv, Live
      <3>3. Counted' = Counted \ {c} /\ c \in Counted
        BY <3>1 DEF Counted, TypeOK
      <3>4. Cardinality(Counted') = Cardinality(Counted) - 1
        BY <3>3, CountedIsFinite, FS_RemoveElement
      <3> QED
        BY <3>1, <3>2, <3>4, CountedIsFiniteNext DEF CountInv
    <2> QED
      BY <2>1, <2>2
  <1>8. CASE Start
    BY <1>8, <1>1
       DEF Start, StartHttp, StartApi, StartApiFails, StartThread, StartTickTimer,
           StartDone, OwnerOnly, alertVars
  <1>9. CASE StopCall \/ StopReturn \/ Destroy
    BY <1>9, <1>1 DEF StopCall, StopReturn, Destroy, OwnerOnly, alertVars
  <1>10. ASSUME NEW t \in Threads, StopStep(t)
         PROVE  CountInv' /\ active' \in 0..Cardinality(Connections)
    BY <1>10, <1>1
       DEF StopStep, StopOrphaned, StopEnter, StopTimer, StopApi, StopHttp, StopSources,
           StopIoc, StopJoin, StopAt, Undefined, alertVars
  <1>11. CASE AcceptFails \/ TimerExpires \/ IoStep
    BY <1>11, <1>1
       DEF AcceptFails, TimerExpires, IoStep, TickBegin, TickLock, TickUnlock, TickArm,
           RunEnds, IoOnly, Undefined, alertVars
  <1>12. CASE HandleAlerts \/ AlertsHandled \/ AlertThreadEnds
    BY <1>12, <1>1 DEF HandleAlerts, AlertsHandled, AlertThreadEnds, AlertOnly, connVars
  <1>13. CASE DestroyDispatcher \/ DestroyJoin \/ DestroyThread
    BY <1>13, <1>1
       DEF DestroyDispatcher, DestroyJoin, DestroyThread, OwnerOnly, Undefined, alertVars,
           connVars
  <1>14. CASE UNCHANGED vars
    BY <1>14, <1>1 DEF vars, connVars
  <1> QED
    BY <1>2, <1>3, <1>4, <1>5, <1>6, <1>7, <1>8, <1>9, <1>10, <1>11, <1>12, <1>13, <1>14
       DEF Next, DestroyStep

-----------------------------------------------------------------------------
(* Every step of start_server, stop_server, on_tick and the destructor.     *)

\* The flags of TypeOK, and the rest of it but for the counter.
Flags == /\ running \in BOOLEAN /\ accepting \in BOOLEAN /\ due \in BOOLEAN
         /\ stopped \in BOOLEAN /\ dispatching \in BOOLEAN /\ members \in BOOLEAN
         /\ undefined \in BOOLEAN

Places == /\ owner \in OwnerPlaces
          /\ stopping \in [Threads -> StopPlaces]
          /\ conn \in [Connections -> {"none", "rejected", "spawned", "serving", "closing",
                                       "done"}]
          /\ orphans \subseteq Connections
          /\ starts \in 0..MaxStarts
          /\ listening \subseteq {"http", "api"}
          /\ timer \in {"none", "idle", "armed"}
          /\ io \in {"none", "idle", "tick", "locked", "arm", "ended"}
          /\ mu \in Threads \cup {Free, "io"}
          /\ alert \in {"waiting", "handling", "ended"}

LEMMA FlagStep ==
  ASSUME Flags, [Next]_vars
  PROVE  Flags'
  <1> USE DEF Flags, Defined, OwnerAt, OwnerOnly, IoOnly, ConnOnly, AlertOnly, serverVars,
              ioVars, connVars, alertVars
  <1>1. CASE Undefined
    BY <1>1, Zenon DEF Undefined
  <1>2. CASE StartCreate
    BY <1>2, <1>1, Zenon DEF StartCreate, Live
  <1>3. CASE Start
    BY <1>3, Zenon
       DEF Start, StartHttp, StartApi, StartApiFails, StartThread, StartTickTimer, StartDone
  <1>4. CASE StopCall \/ StopReturn \/ Destroy
    BY <1>4, Zenon DEF StopCall, StopReturn, Destroy, Threads
  <1>5. ASSUME NEW t \in Threads, StopStep(t)
        PROVE  Flags'
    <2>1. CASE StopOrphaned(t)
      BY <2>1, <1>1 DEF StopOrphaned
    <2>2. CASE ~StopOrphaned(t)
      BY <1>5, <2>2, Zenon
         DEF StopStep, StopEnter, StopTimer, StopApi, StopHttp, StopSources, StopIoc,
             StopJoin, StopAt, Abort
    <2> QED
      BY <2>1, <2>2
  <1>6. ASSUME NEW c \in Connections,
               Accept(c) \/ ConnBegin(c) \/ ConnShutdown(c) \/ ConnEnd(c)
        PROVE  Flags'
    <2>1. CASE Accept(c)
      <3>1. CASE ~Undefined
        <4>1. accepting' = ("api" \in listening)
          BY <2>1, <3>1, Zenon DEF Accept
        <4>2. accepting' \in BOOLEAN
          BY <4>1
        <4> QED
          BY <2>1, <3>1, <4>2, Zenon DEF Accept
      <3> QED
        BY <1>1, <3>1, Zenon
    <2>2. CASE ConnBegin(c) \/ ConnShutdown(c) \/ ConnEnd(c)
      BY <2>2, <1>1, Zenon DEF ConnBegin, ConnShutdown, ConnEnd
    <2> QED
      BY <1>6, <2>1, <2>2, Zenon
  <1>7. CASE AcceptFails \/ TimerExpires \/ IoStep
    BY <1>7, <1>1, Zenon
       DEF AcceptFails, TimerExpires, IoStep, TickBegin, TickLock, TickUnlock, TickArm,
           RunEnds
  <1>8. CASE HandleAlerts \/ AlertsHandled \/ AlertThreadEnds
    BY <1>8, Zenon DEF HandleAlerts, AlertsHandled, AlertThreadEnds
  <1>9. CASE DestroyStep
    BY <1>9, <1>1, Zenon
       DEF DestroyStep, DestroyDispatcher, DestroyJoin, DestroyMembers, DestroyThread, Live,
           Abort
  <1>10. CASE UNCHANGED vars
    BY <1>10, Zenon DEF vars
  <1> QED
    BY <1>2, <1>3, <1>4, <1>5, <1>6, <1>7, <1>8, <1>9, <1>10, Zenon DEF Next

LEMMA PlaceStep ==
  ASSUME Places, [Next]_vars
  PROVE  Places'
  <1> USE DEF Places, OwnerPlaces, StartPlaces, DestroyPlaces, StopPlaces, OwnerAt, OwnerOnly, IoOnly, ConnOnly,
              AlertOnly, serverVars, ioVars, connVars, alertVars
  <1>1. CASE Undefined
    BY <1>1 DEF Undefined
  <1>2. CASE StartCreate
    <2>1. CASE ~Undefined
      <3>1. /\ owner' = "start_http" /\ starts < MaxStarts /\ starts' = starts + 1
            /\ orphans' = orphans \cup Live
            /\ UNCHANGED <<stopping, conn, mu, listening, timer, io, alert>>
        BY <1>2, <2>1 DEF StartCreate
      <3> QED
        BY <3>1, LifecycleAssumption DEF Live
    <2> QED
      BY <1>1, <2>1
  <1>3. CASE Start
    BY <1>3
      DEF Start, StartHttp, StartApi, StartApiFails, StartThread, StartTickTimer, StartDone
  <1>4. CASE StopCall \/ StopReturn \/ Destroy
    BY <1>4 DEF StopCall, StopReturn, Destroy, Threads
  <1>5. ASSUME NEW t \in Threads, StopStep(t)
        PROVE  Places'
    <2>1. CASE StopOrphaned(t)
      BY <2>1, <1>1 DEF StopOrphaned
    <2> USE DEF StopAt
    <2>2. CASE StopEnter(t)
      BY <2>2 DEF StopEnter
    <2>3. CASE StopTimer(t)
      BY <2>3 DEF StopTimer
    <2>4. CASE StopApi(t)
      BY <2>4 DEF StopApi
    <2>5. CASE StopHttp(t)
      BY <2>5 DEF StopHttp
    <2>6. CASE StopSources(t)
      BY <2>6 DEF StopSources
    <2>7. CASE StopIoc(t)
      BY <2>7 DEF StopIoc
    <2>8. CASE StopJoin(t)
      BY <2>8 DEF StopJoin
    <2> QED
      BY <1>5, <2>1, <2>2, <2>3, <2>4, <2>5, <2>6, <2>7, <2>8 DEF StopStep
  <1>6. ASSUME NEW c \in Connections,
               Accept(c) \/ ConnBegin(c) \/ ConnShutdown(c) \/ ConnEnd(c)
        PROVE  Places'
    <2>1. CASE ~Undefined
      <3>1. /\ \E p \in {"rejected", "spawned", "serving", "closing", "done"} :
                  conn' = [conn EXCEPT ![c] = p]
            /\ stopping' = stopping \/ stopping' = [stopping EXCEPT ![c] = "enter"]
            /\ UNCHANGED <<owner, orphans, starts, listening, timer, io, mu, alert>>
        BY <1>6, <2>1 DEF Accept, ConnBegin, ConnShutdown, ConnEnd
      <3> QED
        BY <3>1 DEF Threads
    <2> QED
      BY <1>1, <2>1
  <1>7. CASE AcceptFails \/ TimerExpires \/ IoStep
    <2>1. CASE ~Undefined
      <3>1. /\ timer' \in {timer, "idle", "armed"}
            /\ io' \in {io, "tick", "locked", "arm", "idle", "ended"}
            /\ mu' \in {mu, "io", Free}
            /\ UNCHANGED <<owner, stopping, conn, orphans, starts, listening, alert>>
        BY <1>7, <2>1
          DEF AcceptFails, TimerExpires, IoStep, TickBegin, TickLock, TickUnlock, TickArm,
               RunEnds
      <3> QED
        BY <3>1
    <2> QED
      BY <1>1, <2>1
  <1>8. CASE HandleAlerts \/ AlertsHandled \/ AlertThreadEnds
    BY <1>8 DEF HandleAlerts, AlertsHandled, AlertThreadEnds
  <1>9. CASE DestroyStep
    BY <1>9, <1>1
      DEF DestroyStep, DestroyDispatcher, DestroyJoin, DestroyMembers, DestroyThread, Live,
           Abort
  <1>10. CASE UNCHANGED vars
    BY <1>10 DEF vars
  <1> QED
    BY <1>2, <1>3, <1>4, <1>5, <1>6, <1>7, <1>8, <1>9, <1>10, Zenon DEF Next

LEMMA TypeStep ==
  ASSUME TypeOK, CountInv, [Next]_vars
  PROVE  TypeOK'
  <1>1. TypeOK <=> Flags /\ Places /\ active \in 0..Cardinality(Connections)
    BY DEF TypeOK, Flags, Places
  <1>2. TypeOK' <=> Flags' /\ Places' /\ active' \in 0..Cardinality(Connections)
    BY DEF TypeOK, Flags, Places
  <1> QED
    BY <1>1, <1>2, CountStep, FlagStep, PlaceStep

\* What PhaseInv speaks of.
phaseVars == <<owner, stopping, conn, running, listening, timer, io, alert, members>>

\* The io_context's thread neither ends itself nor makes a timer.
LEMMA IoStepEffect ==
  ASSUME IoStep, ~Undefined
  PROVE  /\ io # "none" /\ io' # "none"
         /\ timer' = timer \/ (timer # "none" /\ timer' # "none")
         /\ UNCHANGED <<owner, stopping, conn, running, listening, alert, members>>
  <1> USE DEF IoOnly, serverVars, connVars, alertVars
  <1>1. CASE TickBegin
    BY <1>1 DEF TickBegin, Idle
  <1>2. CASE TickLock
    BY <1>2 DEF TickLock
  <1>3. CASE TickUnlock
    BY <1>3 DEF TickUnlock
  <1>4. CASE TickArm
    BY <1>4 DEF TickArm
  <1>5. CASE RunEnds
    BY <1>5 DEF RunEnds
  <1> QED
    BY <1>1, <1>2, <1>3, <1>4, <1>5 DEF IoStep

LEMMA PhaseStep ==
  ASSUME TypeOK, PhaseInv, [Next]_vars
  PROVE  PhaseInv'
  <1> stopping \in [Threads -> StopPlaces] /\ listening \subseteq {"http", "api"}
    BY DEF TypeOK
  <1> USE LifecycleAssumption
      DEF OwnerPlaces, StopPlaces, StartPlaces, DestroyPlaces, Threads, InStop, PhaseInv,
          OwnerInv, CallInv, StartInv, StopInv, QuietInv, OneStopPerStart, OwnerAt,
          OwnerOnly, IoOnly, ConnOnly, AlertOnly, serverVars, ioVars, connVars, alertVars,
          phaseVars
  <1>1. CASE UNCHANGED phaseVars
    BY <1>1
  <1>2. Undefined => PhaseInv'
    BY <1>1 DEF Undefined
  <1>3. CASE StartCreate
    <2>1. CASE ~Undefined
      <3>1. /\ owner = "idle" /\ owner' = "start_http" /\ ~running
            /\ \A t \in Threads : ~InStop(t)
            /\ UNCHANGED <<stopping, conn, running, listening, timer, io, alert, members>>
        BY <1>3, <2>1 DEF StartCreate
      <3> QED
        BY <3>1
    <2> QED
      BY <1>2, <2>1
  <1>4. CASE StartHttp
    BY <1>4 DEF StartHttp
  <1>5. CASE StartApi
    BY <1>5 DEF StartApi
  <1>6. CASE StartApiFails
    BY <1>6 DEF StartApiFails
  <1>7. CASE StartThread \/ StartTickTimer \/ StartDone
    BY <1>7 DEF StartThread, StartTickTimer, StartDone
  <1>8. CASE StopCall
    BY <1>8 DEF StopCall
  <1>9. CASE Destroy
    BY <1>9 DEF Destroy
  <1>10. CASE StopReturn
    BY <1>10 DEF StopReturn
  <1>11. ASSUME NEW t \in Threads, StopStep(t)
         PROVE  PhaseInv'
    <2> USE DEF StopAt
    <2>1. CASE StopOrphaned(t)
      BY <2>1, <1>2 DEF StopOrphaned
    <2>2. CASE StopEnter(t)
      BY <2>2 DEF StopEnter
    <2>3. CASE StopTimer(t)
      BY <2>3 DEF StopTimer
    <2>4. CASE StopApi(t)
      BY <2>4 DEF StopApi
    <2>5. CASE StopHttp(t)
      BY <2>5 DEF StopHttp
    <2>6. CASE StopSources(t)
      BY <2>6 DEF StopSources
    <2>7. CASE StopIoc(t)
      BY <2>7 DEF StopIoc
    <2>8. CASE StopJoin(t)
      BY <2>8 DEF StopJoin
    <2> QED
      BY <1>11, <2>1, <2>2, <2>3, <2>4, <2>5, <2>6, <2>7, <2>8 DEF StopStep
  <1>12. ASSUME NEW c \in Connections, Accept(c) \/ ConnBegin(c) \/ ConnEnd(c)
         PROVE  PhaseInv'
    <2>1. CASE ~Undefined
      <3>1. /\ stopping[c] = "out"
            /\ \A d \in Connections \ {c} : conn'[d] = conn[d]
            /\ UNCHANGED <<owner, stopping, running, listening, timer, io, alert, members>>
        BY <1>12, <2>1 DEF Accept, ConnBegin, ConnEnd, TypeOK
      <3> QED
        BY <3>1
    <2> QED
      BY <1>2, <2>1
  <1>13. ASSUME NEW c \in Connections, ConnShutdown(c)
         PROVE  PhaseInv'
    <2>1. CASE ~Undefined
      <3>1. /\ stopping[c] = "out" /\ stopping' = [stopping EXCEPT ![c] = "enter"]
            /\ conn' = [conn EXCEPT ![c] = "closing"]
            /\ UNCHANGED <<owner, running, listening, timer, io, alert, members>>
        BY <1>13, <2>1 DEF ConnShutdown
      <3>2. conn'[c] = "closing" /\ \A d \in Connections \ {c} : conn'[d] = conn[d]
        BY <3>1 DEF TypeOK
      <3> QED
        BY <3>1, <3>2
    <2> QED
      BY <1>2, <2>1
  <1>14. CASE AcceptFails
    BY <1>14, <1>1 DEF AcceptFails
  <1>15. CASE TimerExpires
    BY <1>15 DEF TimerExpires, Idle
  <1>16. CASE IoStep
    <2>1. CASE ~Undefined
      <3>1. /\ io # "none" /\ io' # "none"
            /\ timer' = timer \/ (timer # "none" /\ timer' # "none")
            /\ UNCHANGED <<owner, stopping, conn, running, listening, alert, members>>
        BY <1>16, <2>1, IoStepEffect
      <3> QED
        BY <3>1
    <2> QED
      BY <1>2, <2>1
  <1>17. CASE HandleAlerts \/ AlertsHandled \/ AlertThreadEnds
    <2>1. /\ alert # "ended"
          /\ UNCHANGED <<owner, stopping, conn, running, listening, timer, io, members>>
      BY <1>17 DEF HandleAlerts, AlertsHandled, AlertThreadEnds
    <2> QED
      BY <2>1
  <1>18. CASE DestroyDispatcher
    BY <1>18 DEF DestroyDispatcher
  <1>19. CASE DestroyJoin
    BY <1>19 DEF DestroyJoin
  <1>20. CASE DestroyMembers
    BY <1>20 DEF DestroyMembers
  <1>21. CASE DestroyThread
    <2>1. CASE ~Undefined
      <3>1. /\ owner = "destroy_thread" /\ owner' = "gone"
            /\ UNCHANGED <<stopping, conn, running, listening, timer, io, alert, members>>
        BY <1>21, <2>1 DEF DestroyThread
      <3> QED
        BY <3>1
    <2> QED
      BY <1>2, <2>1
  <1>22. CASE UNCHANGED vars
    BY <1>22, <1>1 DEF vars
  <1> QED
    BY <1>3, <1>4, <1>5, <1>6, <1>7, <1>8, <1>9, <1>10, <1>11, <1>12, <1>13, <1>14, <1>15,
       <1>16, <1>17, <1>18, <1>19, <1>20, <1>21, <1>22 DEF Next, Start, DestroyStep

-----------------------------------------------------------------------------
(* The theorems.                                                           *)

THEOREM Invariance == Spec => []IInv
  <1>1. Init => IInv
    <2>1. Init => Counted = {} /\ Cardinality(Connections) \in Nat
      BY LifecycleAssumption, FS_CardinalityType DEF Init, Counted
    <2>2. Init => CountInv
      BY <2>1, FS_EmptySet DEF Init, CountInv
    <2>3. Init => TypeOK
      <3>1. Init => Flags
        BY Zenon DEF Init, Flags
      <3>2. Init => Places /\ active \in 0..Cardinality(Connections)
        BY <2>1, LifecycleAssumption DEF Init, Places, OwnerPlaces, StopPlaces, Threads
      <3> QED
        BY <3>1, <3>2 DEF TypeOK, Flags, Places
    <2>4. Init => PhaseInv
      BY DEF Init, PhaseInv, OwnerInv, CallInv, StartInv, StopInv, QuietInv,
             OneStopPerStart, StartPlaces, DestroyPlaces, InStop, Threads
    <2> QED
      BY <2>2, <2>3, <2>4 DEF IInv
  <1>2. IInv /\ [Next]_vars => IInv'
    BY TypeStep, CountStep, PhaseStep DEF IInv
  <1> QED
    BY <1>1, <1>2, PTL DEF Spec

\* Type correctness; active_connections_ neither falls below zero nor passes the number
\* of connections, in spite of a server that is replaced.
THEOREM TypeCorrect == Spec => []TypeOK
  <1>1. IInv => TypeOK
    BY DEF IInv
  <1> QED
    BY <1>1, Invariance, PTL

\* server_running_.exchange(false) lets one caller of stop_server through per start, for
\* any number of shutdown requests (engine.cpp:396).
THEOREM OneStop == Spec => []OneStopPerStart
  <1>1. IInv => OneStopPerStart
    BY DEF IInv, PhaseInv
  <1> QED
    BY <1>1, Invariance, PTL

\* When no call is in progress and the server does not run, nothing of it is left: no
\* open acceptor, no timer, no thread, whichever step of a start failed.
StoppedIsQuiet ==
    owner = "idle" /\ ~running /\ (\A t \in Threads : stopping[t] = "out")
        => listening = {} /\ timer = "none" /\ io = "none"

\* A stopped server leaves no acceptor, timer or thread, nor does a start that failed
\* (engine.cpp:370-424).
THEOREM StoppedQuiet == Spec => []StoppedIsQuiet
  <1>1. IInv => StoppedIsQuiet
    BY DEF IInv, PhaseInv, QuietInv, StoppedIsQuiet, StartPlaces, InStop
  <1> QED
    BY <1>1, Invariance, PTL

\* The destructor's order: the dispatcher is joined, and the server stopped or being
\* stopped, before states_ and cache_ go (engine.cpp:43-57).
THEOREM MembersOutlive == Spec => []MembersOutliveHandlers
  <1>1. IInv => MembersOutliveHandlers
    <2> SUFFICES ASSUME IInv, ~members
                 PROVE  /\ alert = "ended"
                        /\ io # "none" => \E c \in Connections : InStop(c)
      BY DEF MembersOutliveHandlers
    <2>1. owner \in {"destroy_thread", "gone"}
      BY DEF IInv, PhaseInv, OwnerInv
    <2>2. alert = "ended" /\ ~running /\ stopping[Owner] = "out"
      BY <2>1 DEF IInv, PhaseInv, OwnerInv, DestroyPlaces
    <2>3. (\A t \in Threads : ~InStop(t)) => io = "none"
      BY <2>1, <2>2 DEF IInv, PhaseInv, QuietInv, StartPlaces
    <2>4. ~InStop(Owner)
      BY <2>2 DEF InStop
    <2> QED
      BY <2>2, <2>3, <2>4 DEF Threads
  <1> QED
    BY <1>1, Invariance, PTL

-----------------------------------------------------------------------------
(* Refinement: starts and stops implement ServerSwitch.                    *)

\* The parts of a start, by the place it has reached; all of them while the server
\* runs.
PartsInv ==
    /\ owner \in StartPlaces \ {"start_http"} => "http" \in listening
    /\ owner \in {"start_thread", "start_timer", "start_done"} => "api" \in listening
    /\ owner \in {"start_timer", "start_done"} => io # "none"
    /\ owner = "start_timer" => timer = "none"
    /\ owner = "start_done" => timer # "none"
    /\ running => listening = {"http", "api"} /\ timer # "none" /\ io # "none"

LEMMA PartsStep ==
  ASSUME IInv, PartsInv, [Next]_vars
  PROVE  PartsInv'
  <1> /\ stopping \in [Threads -> StopPlaces] /\ listening \subseteq {"http", "api"}
      /\ owner \in StartPlaces => ~running /\ \A t \in Threads : ~InStop(t)
      /\ owner = "start_thread" => timer = "none"
      /\ \A t \in Threads : InStop(t) => ~running
      /\ owner \in {"destroy_members"} => ~running
    BY DEF IInv, TypeOK, PhaseInv, OwnerInv, StartInv, OneStopPerStart, DestroyPlaces
  <1> USE DEF PartsInv, StartPlaces, DestroyPlaces, InStop, OwnerAt, OwnerOnly, IoOnly,
              ConnOnly, AlertOnly, serverVars, ioVars, connVars, alertVars
  <1>1. CASE UNCHANGED <<owner, running, listening, timer, io>>
    BY <1>1
  <1>2. Undefined => PartsInv'
    BY <1>1 DEF Undefined
  <1>3. CASE StartCreate \/ StopCall \/ StopReturn \/ Destroy
    <2>1. CASE ~Undefined
      <3>1. /\ owner' \in {"start_http", "idle", "stop", "destroy", "destroy_dispatcher"}
            /\ UNCHANGED <<running, listening, timer, io>>
        BY <1>3, <2>1 DEF StartCreate, StopCall, StopReturn, Destroy
      <3> QED
        BY <3>1
    <2> QED
      BY <1>2, <2>1
  <1>4. CASE StartHttp \/ StartApi \/ StartApiFails
    BY <1>4 DEF StartHttp, StartApi, StartApiFails
  <1>5. CASE StartThread \/ StartTickTimer \/ StartDone
    <2>1. CASE StartThread
      <3>1. /\ owner = "start_thread" /\ owner' = "start_timer" /\ timer = "none"
            /\ io' # "none"
            /\ UNCHANGED <<running, listening, timer>>
        BY <2>1 DEF StartThread
      <3> QED
        BY <3>1
    <2>2. CASE StartTickTimer
      <3>1. /\ owner = "start_timer" /\ owner' = "start_done" /\ timer' = "armed"
            /\ UNCHANGED <<running, listening, io>>
        BY <2>2 DEF StartTickTimer
      <3> QED
        BY <3>1
    <2>3. CASE StartDone
      BY <2>3 DEF StartDone
    <2> QED
      BY <1>5, <2>1, <2>2, <2>3
  <1>6. ASSUME NEW t \in Threads, StopStep(t)
        PROVE  PartsInv'
    <2>1. CASE StopOrphaned(t)
      BY <1>2, <2>1 DEF StopOrphaned
    <2>2. CASE StopEnter(t)
      BY <2>2 DEF StopEnter, StopAt
    <2>3. CASE ~StopOrphaned(t) /\ ~StopEnter(t)
      <3>1. InStop(t) /\ UNCHANGED <<owner, running>>
        BY <1>6, <2>3
           DEF StopStep, StopTimer, StopApi, StopHttp, StopSources, StopIoc, StopJoin, StopAt
      <3> QED
        BY <3>1
    <2> QED
      BY <2>1, <2>2, <2>3
  <1>7. ASSUME NEW c \in Connections,
               Accept(c) \/ ConnBegin(c) \/ ConnShutdown(c) \/ ConnEnd(c)
        PROVE  PartsInv'
    BY <1>1, <1>2, <1>7 DEF Accept, ConnBegin, ConnShutdown, ConnEnd
  <1>8. CASE AcceptFails \/ HandleAlerts \/ AlertsHandled \/ AlertThreadEnds
    BY <1>1, <1>8 DEF AcceptFails, HandleAlerts, AlertsHandled, AlertThreadEnds
  <1>9. CASE TimerExpires \/ IoStep
    <2>1. CASE TimerExpires
      BY <2>1 DEF TimerExpires
    <2>2. CASE IoStep /\ ~Undefined
      <3>1. /\ io # "none" /\ io' # "none"
            /\ timer' = timer \/ (timer # "none" /\ timer' # "none")
            /\ UNCHANGED <<owner, running, listening>>
        BY <2>2, IoStepEffect
      <3> QED
        BY <3>1
    <2> QED
      BY <1>2, <1>9, <2>1, <2>2
  <1>10. CASE DestroyStep
    <2>1. CASE ~Undefined
      <3>1. /\ owner' \in DestroyPlaces
            /\ listening' = listening \/ owner = "destroy_members"
            /\ UNCHANGED <<running, timer, io>>
        BY <1>10, <2>1
           DEF DestroyStep, DestroyDispatcher, DestroyJoin, DestroyMembers, DestroyThread
      <3> QED
        BY <3>1
    <2> QED
      BY <1>2, <2>1
  <1>11. CASE UNCHANGED vars
    BY <1>1, <1>11 DEF vars
  <1> QED
    BY <1>3, <1>4, <1>5, <1>6, <1>7, <1>8, <1>9, <1>10, <1>11, Zenon DEF Next, Start

\* The phase, by who is where.
LEMMA PhaseIs ==
  ASSUME IInv
  PROVE  /\ running => Phase = "up"
         /\ owner \in StartPlaces => Phase = "rising"
         /\ \A t \in Threads : InStop(t) => Phase = "falling"
         /\ owner \notin StartPlaces /\ ~running /\ (\A t \in Threads : ~InStop(t))
               => Phase = "down"
  BY DEF IInv, PhaseInv, StartInv, OneStopPerStart, Phase

LEMMA PhaseIsNext ==
  ASSUME IInv'
  PROVE  /\ running' => Phase' = "up"
         /\ owner' \in StartPlaces => Phase' = "rising"
         /\ \A t \in Threads : InStop(t)' => Phase' = "falling"
         /\ owner' \notin StartPlaces /\ ~running' /\ (\A t \in Threads : ~InStop(t)')
               => Phase' = "down"
  BY DEF IInv, PhaseInv, StartInv, OneStopPerStart, Phase

\* Nothing the switch sees has changed.
LEMMA SwitchStutters ==
  ASSUME UNCHANGED <<running, listening>>,
         owner' = owner \/ {owner, owner'} \cap (StartPlaces \cup DestroyPlaces) = {}
                        \/ {owner, owner'} \subseteq DestroyPlaces,
         \A t \in Threads : InStop(t)' <=> InStop(t),
         timer' = "none" <=> timer = "none",
         io' = "none" <=> io = "none"
  PROVE  UNCHANGED Switch!vars
  <1>1. (owner' \in StartPlaces <=> owner \in StartPlaces)
        /\ (owner' \in DestroyPlaces <=> owner \in DestroyPlaces)
    BY DEF StartPlaces, DestroyPlaces
  <1>2. (\E t \in Threads : InStop(t))' <=> \E t \in Threads : InStop(t)
    OBVIOUS
  <1>3. Phase' = Phase
    BY <1>1, <1>2 DEF Phase
  <1>4. Present' = Present
    BY DEF Present
  <1> QED
    BY <1>1, <1>3, <1>4 DEF Switch!vars

\* Every step of a start raises a part, ends the start or takes back what there is.
LEMMA StartRefines ==
  ASSUME IInv, IInv', PartsInv, Start
  PROVE  Switch!Next
  <1>1. /\ owner \in StartPlaces /\ Phase = "rising" /\ running = FALSE
        /\ \A t \in Threads : ~InStop(t)
    BY PhaseIs
       DEF Start, StartHttp, StartApi, StartApiFails, StartThread, StartTickTimer,
           StartDone, OwnerAt, StartPlaces, IInv, TypeOK, PhaseInv, StartInv
  <1>2. \A t \in Threads : ~InStop(t)'
    BY <1>1
       DEF Start, StartHttp, StartApi, StartApiFails, StartThread, StartTickTimer,
           StartDone, OwnerOnly, InStop
  <1>3. /\ owner = "start_http" => listening = {}
        /\ owner = "start_api" => listening \subseteq {"http"}
        /\ owner \in {"start_http", "start_api", "start_thread"}
              => timer = "none" /\ io = "none"
    BY DEF IInv, PhaseInv, StartInv
  <1>4. /\ owner' \in StartPlaces => Phase' = "rising"
        /\ owner' = "idle" /\ ~running' => Phase' = "down"
        /\ running' => Phase' = "up"
    BY <1>2, PhaseIsNext DEF StartPlaces
  <1>5. owner \notin DestroyPlaces /\ (owner' \in StartPlaces \cup {"idle"}
                                          => owner' \notin DestroyPlaces)
    BY <1>1 DEF StartPlaces, DestroyPlaces
  <1>6. ASSUME owner' \in StartPlaces
        PROVE  Switch!Turns("rising", "rising")
    BY <1>1, <1>4, <1>5, <1>6 DEF Switch!Turns
  <1>7. ASSUME owner' = "idle", running' = running, listening' = {}, timer' = "none",
               io' = "none"
        PROVE  Switch!Next
    BY <1>1, <1>4, <1>5, <1>7 DEF Switch!Turns, Switch!Fail, Switch!Next, Present
  <1> USE DEF OwnerAt, StartPlaces, Present, Switch!Parts
  <1>8. CASE StartHttp
    <2>1. CASE owner' = "idle"
      BY <1>1, <1>3, <1>7, <1>8, <2>1 DEF StartHttp, ioVars
    <2>2. CASE owner' = "start_api"
      <3>1. "http" \notin Present /\ Present' = Present \cup {"http"}
        BY <1>3, <1>8, <2>2 DEF StartHttp, ioVars
      <3> QED
        BY <1>6, <2>2, <3>1 DEF Switch!Raise, Switch!Next
    <2> QED
      BY <1>8, <2>1, <2>2 DEF StartHttp
  <1>9. CASE StartApi
    <2>1. "api" \notin Present /\ Present' = Present \cup {"api"}
      BY <1>3, <1>9 DEF StartApi, ioVars
    <2>2. owner' \in StartPlaces
      BY <1>9 DEF StartApi
    <2> QED
      BY <1>6, <2>1, <2>2 DEF Switch!Raise, Switch!Next
  <1>10. CASE StartApiFails
    <2>1. /\ owner' = "idle" /\ running' = running /\ listening' = {}
          /\ timer' = "none" /\ io' = "none"
      BY <1>3, <1>10 DEF StartApiFails, ioVars
    <2> QED
      BY <1>7, <2>1
  <1>11. CASE StartThread
    <2>1. "thread" \notin Present /\ Present' = Present \cup {"thread"}
      <3>1. /\ listening' = listening /\ listening \subseteq {"http", "api"}
            /\ timer' = timer /\ io = "none" /\ io' # "none"
        BY <1>3, <1>11 DEF StartThread, serverVars, IInv, TypeOK
      <3> QED
        BY <3>1
    <2>2. owner' \in StartPlaces
      BY <1>11 DEF StartThread
    <2> QED
      BY <1>6, <2>1, <2>2 DEF Switch!Raise, Switch!Next
  <1>12. CASE StartTickTimer
    <2>1. "timer" \notin Present /\ Present' = Present \cup {"timer"}
      <3>1. /\ listening' = listening /\ listening \subseteq {"http", "api"}
            /\ io' = io /\ timer = "none" /\ timer' # "none"
        BY <1>12 DEF StartTickTimer, serverVars, IInv, TypeOK, PartsInv
      <3> QED
        BY <3>1
    <2>2. owner' \in StartPlaces
      BY <1>12 DEF StartTickTimer
    <2> QED
      BY <1>6, <2>1, <2>2 DEF Switch!Raise, Switch!Next
  <1>13. CASE StartDone
    <2>1. /\ owner = "start_done" /\ owner' = "idle" /\ running' = TRUE
          /\ UNCHANGED <<listening, timer, io>>
      BY <1>13 DEF StartDone, ioVars
    <2>2. /\ "http" \in listening /\ "api" \in listening /\ listening \subseteq {"http", "api"}
          /\ timer # "none" /\ io # "none"
      BY <2>1 DEF PartsInv, IInv, TypeOK
    <2>3. Present = {"http", "api", "timer", "thread"} /\ Present' = Present
      BY <2>1, <2>2
    <2> QED
      BY <1>1, <1>4, <1>5, <2>1, <2>3 DEF Switch!Turns, Switch!Finish, Switch!Next
  <1> QED
    BY <1>8, <1>9, <1>10, <1>11, <1>12, <1>13 DEF Start

\* Every step of a stop lets the switch fall, or ends it with nothing left.
LEMMA StopRefines ==
  ASSUME IInv, IInv', PartsInv, NEW t \in Threads, StopStep(t)
  PROVE  Switch!Next \/ UNCHANGED Switch!vars
  <1> stopping \in [Threads -> StopPlaces]
    BY DEF IInv, TypeOK
  <1>1. CASE StopOrphaned(t)
    BY <1>1, SwitchStutters
       DEF StopOrphaned, Undefined, serverVars, ioVars, InStop
  <1>2. ASSUME ~StopOrphaned(t)
        PROVE  /\ UNCHANGED owner
               /\ \A u \in Threads \ {t} : stopping'[u] = stopping[u]
    BY <1>2
       DEF StopStep, StopEnter, StopTimer, StopApi, StopHttp, StopSources, StopIoc,
           StopJoin, StopAt
  <1>3. CASE StopEnter(t)
    <2>1. CASE running
      <3>1. /\ stopping' = [stopping EXCEPT ![t] = "timer"]
            /\ UNCHANGED <<owner, listening, timer, io>>
        BY <1>3, <2>1 DEF StopEnter, StopAt, ioVars
      <3>2. InStop(t)'
        BY <3>1 DEF InStop
      <3>3. Phase = "up" /\ Phase' = "falling"
        BY <2>1, <3>2, PhaseIs, PhaseIsNext
      <3> QED
        BY <3>1, <3>3 DEF Switch!Turns, Switch!BeginStop, Switch!Next, Present
    <2>2. CASE ~running
      <3>1. /\ stopping[t] = "enter" /\ stopping' = [stopping EXCEPT ![t] = "out"]
            /\ UNCHANGED <<owner, listening, timer, io>>
            /\ running' = FALSE /\ running \in BOOLEAN
        BY <1>3, <2>2 DEF StopEnter, StopAt, ioVars, IInv, TypeOK
      <3>2. \A u \in Threads : InStop(u)' <=> InStop(u)
        BY <3>1 DEF InStop
      <3> QED
        BY <2>2, <3>1, <3>2, SwitchStutters
    <2> QED
      BY <2>1, <2>2
  <1>4. CASE StopTimer(t) \/ StopApi(t) \/ StopHttp(t) \/ StopSources(t) \/ StopIoc(t)
    <2>1. /\ InStop(t) /\ InStop(t)' /\ UNCHANGED owner
          /\ listening' \subseteq listening
          /\ timer' \in {timer, "none"} /\ io' = io
      BY <1>4
         DEF StopTimer, StopApi, StopHttp, StopSources, StopIoc, StopAt, InStop, ioVars
    <2>2. Phase = "falling" /\ Phase' = "falling"
      BY <2>1, PhaseIs, PhaseIsNext
    <2>3. Present' \in SUBSET Present
      BY <2>1 DEF Present
    <2> QED
      BY <2>1, <2>2, <2>3 DEF Switch!Turns, Switch!Lower, Switch!Next
  <1>5. CASE StopJoin(t)
    <2>1. /\ stopping[t] = "join" /\ stopping' = [stopping EXCEPT ![t] = "out"]
          /\ UNCHANGED <<owner, running>>
      BY <1>5 DEF StopJoin, StopAt
    <2>2. InStop(t) /\ ~InStop(t)'
      BY <2>1 DEF InStop
    <2>3. /\ ~running /\ owner \notin StartPlaces
          /\ \A u \in Threads \ {t} : ~InStop(u)
      BY <2>2 DEF IInv, PhaseInv, OneStopPerStart, StartInv
    <2>4. \A u \in Threads : ~InStop(u)'
      BY <2>1, <2>2, <2>3 DEF InStop
    <2>5. Phase = "falling" /\ Phase' = "down"
      BY <2>1, <2>2, <2>3, <2>4, PhaseIs, PhaseIsNext
    <2>6. listening' = {} /\ timer' = "none" /\ io' = "none"
      BY <2>1, <2>3, <2>4 DEF IInv, PhaseInv, QuietInv
    <2> QED
      BY <2>1, <2>5, <2>6 DEF Switch!Turns, Switch!EndStop, Switch!Next, Present
  <1> QED
    BY <1>1, <1>3, <1>4, <1>5 DEF StopStep

\* The destructor's later steps find the switch down, or falling by another thread.
LEMMA DestroyRefines ==
  ASSUME IInv, IInv', DestroyStep
  PROVE  Switch!Next \/ UNCHANGED Switch!vars
  <1>1. CASE DestroyMembers
    <2>1. /\ owner = "destroy_members" /\ owner' = "destroy_thread" /\ listening' = {}
          /\ UNCHANGED <<stopping, running, timer, io>>
      BY <1>1 DEF DestroyMembers, OwnerAt, ioVars
    <2>2. ~running /\ owner \notin StartPlaces /\ {owner, owner'} \subseteq DestroyPlaces
      BY <2>1 DEF IInv, PhaseInv, OwnerInv, StartPlaces, DestroyPlaces
    <2>3. \A t \in Threads : InStop(t)' <=> InStop(t)
      BY <2>1 DEF InStop
    <2>4. CASE \E t \in Threads : InStop(t)
      <3>1. Phase = "falling" /\ Phase' = "falling"
        BY <2>3, <2>4, PhaseIs, PhaseIsNext
      <3>2. Present' \in SUBSET Present
        BY <2>1 DEF Present
      <3> QED
        BY <2>2, <3>1, <3>2 DEF Switch!Turns, Switch!Lower, Switch!Next
    <2>5. CASE \A t \in Threads : ~InStop(t)
      <3>1. listening' = listening
        BY <2>1, <2>2, <2>5 DEF IInv, PhaseInv, QuietInv
      <3> QED
        BY <2>1, <2>2, <2>3, <3>1, SwitchStutters
    <2> QED
      BY <2>4, <2>5
  <1>2. CASE DestroyDispatcher \/ DestroyJoin \/ DestroyThread
    <2>1. /\ owner' = owner \/ {owner, owner'} \subseteq DestroyPlaces
          /\ UNCHANGED <<stopping, running, listening, timer, io>>
      BY <1>2
         DEF DestroyDispatcher, DestroyJoin, DestroyThread, OwnerAt, OwnerOnly, Undefined,
             serverVars, ioVars, DestroyPlaces
    <2> QED
      BY <2>1, SwitchStutters DEF InStop
  <1> QED
    BY <1>1, <1>2 DEF DestroyStep

LEMMA StepRefines ==
  ASSUME IInv, IInv', PartsInv, [Next]_vars
  PROVE  Switch!Next \/ UNCHANGED Switch!vars
  <1> USE DEF Defined, OwnerAt, OwnerOnly, IoOnly, ConnOnly, AlertOnly, serverVars, ioVars,
              connVars, alertVars
  <1>1. ASSUME UNCHANGED <<stopping, running, listening>>,
               owner' = owner \/ {owner, owner'} \subseteq {"idle", "stop", "destroy"},
               timer' = "none" <=> timer = "none",
               io' = "none" <=> io = "none"
        PROVE  UNCHANGED Switch!vars
    BY <1>1, SwitchStutters DEF InStop, StartPlaces, DestroyPlaces
  <1>2. Undefined => UNCHANGED Switch!vars
    BY <1>1 DEF Undefined
  <1>3. CASE StartCreate
    <2>1. CASE ~Undefined
      <3>1. /\ owner = "idle" /\ owner' = "start_http" /\ ~running
            /\ \A t \in Threads : ~InStop(t)
            /\ UNCHANGED <<stopping, running, listening, timer, io>>
        BY <1>3, <2>1 DEF StartCreate
      <3>2. Phase = "down" /\ Phase' = "rising"
        BY <3>1, PhaseIs, PhaseIsNext DEF StartPlaces
      <3>3. owner \notin DestroyPlaces /\ owner' \notin DestroyPlaces /\ Present' = Present
        BY <3>1 DEF DestroyPlaces, Present
      <3> QED
        BY <3>2, <3>3 DEF Switch!Turns, Switch!Begin, Switch!Next
    <2> QED
      BY <1>2, <2>1
  <1>4. CASE StopCall \/ Destroy
    <2>1. /\ owner = "idle" /\ owner' \in {"stop", "destroy"}
          /\ stopping' = [stopping EXCEPT ![Owner] = "enter"]
          /\ UNCHANGED <<running, listening, timer, io>>
      BY <1>4 DEF StopCall, Destroy
    <2>2. stopping[Owner] = "out" /\ stopping \in [Threads -> StopPlaces]
      BY <2>1 DEF IInv, TypeOK, PhaseInv, OwnerInv
    <2>3. \A t \in Threads : InStop(t)' <=> InStop(t)
      BY <2>1, <2>2 DEF InStop
    <2> QED
      BY <2>1, <2>3, SwitchStutters DEF StartPlaces, DestroyPlaces
  <1>5. CASE StopReturn
    <2>1. UNCHANGED <<stopping, running, listening, timer, io>>
      BY <1>5 DEF StopReturn
    <2>2. CASE owner = "stop" /\ owner' = "idle"
      BY <1>1, <2>1, <2>2
    <2>3. CASE owner = "destroy" /\ owner' = "destroy_dispatcher"
      <3>1. ~running
        BY <1>5 DEF StopReturn, IInv, PhaseInv, OwnerInv
      <3>2. Phase \in {"down", "falling"}
        BY <2>3, <3>1, PhaseIs DEF StartPlaces
      <3>3. Phase' = Phase /\ Present' = Present
        BY <2>1, <2>3 DEF Phase, Present, InStop, StartPlaces
      <3>4. owner' \in DestroyPlaces
        BY <2>3 DEF DestroyPlaces
      <3> QED
        BY <3>2, <3>3, <3>4 DEF Switch!Retire, Switch!Next
    <2> QED
      BY <1>5, <2>2, <2>3 DEF StopReturn
  <1>6. ASSUME NEW c \in Connections,
               Accept(c) \/ ConnBegin(c) \/ ConnShutdown(c) \/ ConnEnd(c)
        PROVE  UNCHANGED Switch!vars
    <2>1. CASE ConnShutdown(c) /\ ~Undefined
      <3>1. /\ stopping' = [stopping EXCEPT ![c] = "enter"] /\ conn[c] = "serving"
            /\ UNCHANGED <<owner, running, listening, timer, io>>
        BY <2>1 DEF ConnShutdown
      <3>2. stopping[c] = "out" /\ stopping \in [Threads -> StopPlaces]
        BY <3>1 DEF IInv, TypeOK, PhaseInv, CallInv
      <3>3. \A t \in Threads : InStop(t)' <=> InStop(t)
        BY <3>1, <3>2 DEF InStop
      <3> QED
        BY <3>1, <3>3, SwitchStutters
    <2>2. CASE Accept(c) \/ ConnBegin(c) \/ ConnEnd(c)
      BY <1>1, <1>2, <2>2 DEF Accept, ConnBegin, ConnEnd
    <2> QED
      BY <1>2, <1>6, <2>1, <2>2
  <1>7. CASE AcceptFails \/ HandleAlerts \/ AlertsHandled \/ AlertThreadEnds
    BY <1>1, <1>7 DEF AcceptFails, HandleAlerts, AlertsHandled, AlertThreadEnds
  <1>8. CASE TimerExpires \/ IoStep
    <2>1. CASE TimerExpires
      BY <1>1, <2>1 DEF TimerExpires
    <2>2. CASE IoStep /\ ~Undefined
      <3>1. /\ io # "none" /\ io' # "none"
            /\ timer' = timer \/ (timer # "none" /\ timer' # "none")
            /\ UNCHANGED <<owner, stopping, running, listening>>
        BY <2>2, IoStepEffect
      <3> QED
        BY <1>1, <3>1
    <2> QED
      BY <1>2, <1>8, <2>1, <2>2
  <1>9. CASE UNCHANGED vars
    BY <1>1, <1>9 DEF vars
  <1> QED
    BY <1>3, <1>4, <1>5, <1>6, <1>7, <1>8, <1>9, StartRefines, StopRefines, DestroyRefines,
       Zenon DEF Next

\* start_server and stop_server, called by the owner, the destructor and any number of
\* connections in any order, implement one switch (engine.cpp:354-424): a failed start
\* and an ended stop leave nothing, up is up with every part, and the destructor's stop
\* is the last.
THEOREM SwitchTheorem == Spec => IsOneSwitch
  <1>1. Init => PartsInv
    BY DEF Init, PartsInv, StartPlaces
  <1>2. IInv /\ PartsInv /\ [Next]_vars => PartsInv'
    BY PartsStep
  <1>3. Init => Switch!Init
    <2>1. Init => Phase = "down" /\ Present = {} /\ owner \notin DestroyPlaces
      BY DEF Init, Phase, Present, StartPlaces, DestroyPlaces, InStop
    <2> QED
      BY <2>1 DEF Switch!Init
  <1>4. IInv /\ IInv' /\ PartsInv /\ [Next]_vars => [Switch!Next]_(Switch!vars)
    BY StepRefines
  <1> QED
    BY <1>1, <1>2, <1>3, <1>4, Invariance, PTL DEF Spec, IsOneSwitch, Switch!Spec
=============================================================================
