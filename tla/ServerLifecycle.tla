-------------------------- MODULE ServerLifecycle --------------------------
(***************************************************************************)
(* The servers of SeekServeEngine: start_server, stop_server, the timer    *)
(* and its on_tick, the control API's accept loop and its shutdown request,*)
(* the alert dispatcher and the destructor.                                *)
(*                                                                         *)
(* One client thread, the owner, starts, stops and finally destroys the    *)
(* engine.  The io_context thread runs the accept handler and on_tick.  A  *)
(* control API connection has a thread of its own, and one that is asked to*)
(* shut the server down calls stop_server while the owner does what it     *)
(* wants.  Where the code uses an object that is gone, replaces one that    *)
(* another thread uses, or destroys a thread that was not joined, the      *)
(* variable undefined records it and nothing happens afterwards.           *)
(***************************************************************************)
EXTENDS Integers, FiniteSets

CONSTANTS Owner,           \* the client's thread
          Connections,     \* connections to the control API
          MaxConnections,  \* its limit (20 in the code)
          MaxStarts        \* bound: servers that are started

ASSUME LifecycleAssumption == /\ IsFiniteSet(Connections)
                              /\ Owner \notin Connections
                              /\ MaxConnections \in Nat
                              /\ MaxStarts \in Nat

VARIABLES owner,        \* where the owner is
          stopping,     \* where each thread is in stop_server
          conn,         \* where each connection's thread is
          active,       \* active_connections_
          orphans,      \* connections whose ControlApiServer was destroyed
          running,      \* server_running_
          starts,       \* servers created so far
          listening,    \* which of the servers have an open acceptor
          accepting,    \* the control API accepts: pending, or its handler queued
          timer,        \* tick_timer_: none, or idle or armed
          due,          \* the timer's handler is queued
          io,           \* io_thread_, and where it is
          stopped,      \* ioc_.stop() was called; nothing restarts it
          mu,           \* mu_: who holds it
          dispatching,  \* AlertDispatcher::running_
          alert,        \* where the alert thread is
          members,      \* states_, cache_ and the servers exist
          undefined

vars == <<owner, stopping, conn, active, orphans, running, starts, listening, accepting,
          timer, due, io, stopped, mu, dispatching, alert, members, undefined>>

serverVars == <<running, starts, listening, accepting>>
ioVars     == <<timer, due, io, stopped>>
connVars   == <<conn, active, orphans>>
alertVars  == <<dispatching, alert, members>>

Threads == {Owner} \cup Connections
Free == "free"

StopPlaces  == {"out", "enter", "timer", "api", "http", "sources", "ioc", "join"}
\* Within start_server, and after the destructor's stop_server.
StartPlaces   == {"start_http", "start_api", "start_thread", "start_timer", "start_done"}
DestroyPlaces == {"destroy_dispatcher", "destroy_join", "destroy_members",
                  "destroy_thread", "gone"}
OwnerPlaces   == {"idle", "stop", "destroy"} \cup StartPlaces \cup DestroyPlaces

\* Connections that have a thread.
Live == {c \in Connections : conn[c] \in {"spawned", "serving", "closing"}}

InStop(t) == stopping[t] \notin {"out", "enter"}

Init == /\ owner = "idle"
        /\ stopping = [t \in Threads |-> "out"]
        /\ conn = [c \in Connections |-> "none"]
        /\ active = 0
        /\ orphans = {}
        /\ running = FALSE
        /\ starts = 0
        /\ listening = {}
        /\ accepting = FALSE
        /\ timer = "none"
        /\ due = FALSE
        /\ io = "none"
        /\ stopped = FALSE
        /\ mu = Free
        /\ dispatching = TRUE
        /\ alert = "waiting"
        /\ members = TRUE
        /\ undefined = FALSE

\* The step is defined ...
Defined == undefined = FALSE /\ undefined' = FALSE

\* ... or undefined behaviour.
Undefined == /\ undefined = FALSE
             /\ undefined' = TRUE
             /\ UNCHANGED <<owner, stopping, mu, serverVars, ioVars, connVars, alertVars>>

-----------------------------------------------------------------------------
(* start_server, by the owner.                                             *)

OwnerAt(here, there) == owner = here /\ owner' = there
OwnerOnly == Defined /\ UNCHANGED <<stopping, mu, connVars, alertVars>>

\* New server objects take the place of the old ones, which are destroyed; a stop
\* that is under way uses them.  If the server is running, start_server returns.
StartCreate ==
    /\ owner = "idle" /\ ~running /\ starts < MaxStarts
    /\ \/ /\ \E t \in Threads : InStop(t)
          /\ Undefined
       \/ /\ \A t \in Threads : ~InStop(t)
          /\ owner' = "start_http"
          /\ starts' = starts + 1
          /\ active' = 0
          /\ orphans' = orphans \cup Live
          /\ Defined
          /\ UNCHANGED <<stopping, conn, mu, running, listening, accepting, ioVars,
                         alertVars>>

\* HttpRangeServer::start binds and listens, or fails.
StartHttp == /\ \/ OwnerAt("start_http", "start_api") /\ listening' = listening \cup {"http"}
                \/ OwnerAt("start_http", "idle") /\ UNCHANGED listening
             /\ OwnerOnly
             /\ UNCHANGED <<running, starts, accepting, ioVars>>

\* ControlApiServer::start and its first do_accept.
StartApi == /\ OwnerAt("start_api", "start_thread")
            /\ listening' = listening \cup {"api"}
            /\ accepting' = TRUE
            /\ OwnerOnly
            /\ UNCHANGED <<running, starts, ioVars>>

\* Slip: the stream server is left listening.
StartApiFailsLeaving ==
    /\ OwnerAt("start_api", "idle")
    /\ OwnerOnly
    /\ UNCHANGED <<serverVars, ioVars>>

\* ControlApiServer::start fails: the stream server is stopped again.
StartApiFails == /\ OwnerAt("start_api", "idle")
                 /\ listening' = listening \ {"http"}
                 /\ OwnerOnly
                 /\ UNCHANGED <<running, starts, accepting, ioVars>>

\* An io_context that was stopped once returns from run() at once.
StartThread == /\ OwnerAt("start_thread", "start_timer")
               /\ io' = IF stopped THEN "ended" ELSE "idle"
               /\ OwnerOnly
               /\ UNCHANGED <<serverVars, timer, due, stopped>>

\* start_tick_timer: the first on_tick runs here.
StartTickTimer == /\ mu = Free
                  /\ OwnerAt("start_timer", "start_done")
                  /\ timer' = "armed"
                  /\ OwnerOnly
                  /\ UNCHANGED <<serverVars, due, io, stopped>>

StartDone == /\ OwnerAt("start_done", "idle")
             /\ running' = TRUE
             /\ OwnerOnly
             /\ UNCHANGED <<starts, listening, accepting, ioVars>>

-----------------------------------------------------------------------------
(* stop_server, by the owner, by its destructor or by a connection.        *)

StopCall == /\ OwnerAt("idle", "stop")
            /\ stopping' = [stopping EXCEPT ![Owner] = "enter"]
            /\ Defined
            /\ UNCHANGED <<mu, serverVars, ioVars, connVars, alertVars>>

StopReturn == /\ stopping[Owner] = "out"
              /\ \/ OwnerAt("stop", "idle")
                 \/ OwnerAt("destroy", "destroy_dispatcher")
              /\ OwnerOnly
              /\ UNCHANGED <<serverVars, ioVars>>

\* One step of thread t in stop_server.  A connection's server object, whose callback
\* it is in, and the engine must still be there.
StopAt(t, here, there) == /\ stopping[t] = here
                          /\ t \notin orphans
                          /\ stopping' = [stopping EXCEPT ![t] = there]
                          /\ Defined
                          /\ UNCHANGED <<owner, starts, connVars, alertVars>>

StopOrphaned(t) == stopping[t] # "out" /\ t \in orphans /\ Undefined

\* Slip: server_running_ is not tested.
StopEnterAlways(t) == /\ StopAt(t, "enter", "timer")
                      /\ running' = FALSE
                      /\ UNCHANGED <<mu, listening, accepting, ioVars>>

\* server_running_.exchange(false).
StopEnter(t) == /\ \/ running /\ StopAt(t, "enter", "timer")
                   \/ ~running /\ StopAt(t, "enter", "out")
                /\ running' = FALSE
                /\ UNCHANGED <<mu, listening, accepting, ioVars>>

\* Cancelling does not take back a handler that is queued.
StopTimer(t) == /\ StopAt(t, "timer", "api")
                /\ timer' = "none"
                /\ UNCHANGED <<mu, running, listening, accepting, due, io, stopped>>

\* Closing aborts an accept, unless it has succeeded and its handler is queued.
Abort == accepting' \in {FALSE, accepting}

StopApi(t) == /\ StopAt(t, "api", "http")
              /\ listening' = listening \ {"api"}
              /\ Abort
              /\ UNCHANGED <<mu, running, ioVars>>

StopHttp(t) == /\ StopAt(t, "http", "sources")
               /\ listening' = listening \ {"http"}
               /\ UNCHANGED <<mu, running, accepting, ioVars>>

\* Slip: mu_ is not let go before the thread is joined.
StopSourcesKeepsLock(t) == /\ mu = Free
                           /\ StopAt(t, "sources", "ioc")
                           /\ mu' = t
                           /\ UNCHANGED <<running, listening, accepting, ioVars>>

\* The sources are cancelled under mu_.
StopSources(t) == /\ mu = Free
                  /\ StopAt(t, "sources", "ioc")
                  /\ UNCHANGED <<mu, running, listening, accepting, ioVars>>

StopIoc(t) == /\ StopAt(t, "ioc", "join")
              /\ stopped' = TRUE
              /\ UNCHANGED <<mu, running, listening, accepting, timer, due, io>>

StopJoin(t) == /\ io \in {"ended", "none"}
               /\ StopAt(t, "join", "out")
               /\ io' = "none"
               /\ UNCHANGED <<mu, running, listening, accepting, timer, due, stopped>>

StopStep(t) == \/ StopOrphaned(t) \/ StopEnter(t) \/ StopTimer(t) \/ StopApi(t)
               \/ StopHttp(t) \/ StopSources(t) \/ StopIoc(t) \/ StopJoin(t)

-----------------------------------------------------------------------------
(* The io_context's thread: one handler at a time.                         *)

Idle == io = "idle" /\ ~stopped
IoOnly == Defined /\ UNCHANGED <<owner, stopping, alertVars>>

\* The accept handler: reject, or give the connection a thread; then accept again, if
\* the acceptor is still open.
Accept(c) ==
    /\ Idle /\ accepting /\ conn[c] = "none"
    /\ \/ /\ members
          /\ conn' = [conn EXCEPT ![c] =
                         IF active >= MaxConnections THEN "rejected" ELSE "spawned"]
          /\ accepting' = ("api" \in listening)
          /\ IoOnly
          /\ UNCHANGED <<mu, running, starts, listening, ioVars, active, orphans>>
       \/ ~members /\ Undefined

\* An error other than operation_aborted: nobody accepts any more.
AcceptFails == /\ Idle
               /\ accepting
               /\ accepting' = FALSE
               /\ IoOnly
               /\ UNCHANGED <<mu, running, starts, listening, ioVars, connVars>>

TimerExpires == /\ Idle
                /\ timer = "armed"
                /\ timer' = "idle"
                /\ due' = TRUE
                /\ IoOnly
                /\ UNCHANGED <<mu, serverVars, io, stopped, connVars>>

TickBegin == /\ Idle
             /\ due
             /\ due' = FALSE
             /\ io' = "tick"
             /\ IoOnly
             /\ UNCHANGED <<mu, serverVars, timer, stopped, connVars>>

\* on_tick takes mu_ and goes over states_.
TickLock == \/ /\ io = "tick" /\ mu = Free /\ members
               /\ mu' = "io"
               /\ io' = "locked"
               /\ IoOnly
               /\ UNCHANGED <<serverVars, timer, due, stopped, connVars>>
            \/ io = "tick" /\ ~members /\ Undefined

TickUnlock == \/ /\ io = "locked" /\ members
                 /\ mu' = Free
                 /\ io' = "arm"
                 /\ IoOnly
                 /\ UNCHANGED <<serverVars, timer, due, stopped, connVars>>
              \/ io = "locked" /\ ~members /\ Undefined

\* ... and arms tick_timer_, whatever it points to by now.
TickArm == \/ /\ io = "arm" /\ timer # "none"
              /\ timer' = "armed"
              /\ io' = "idle"
              /\ IoOnly
              /\ UNCHANGED <<mu, serverVars, due, stopped, connVars>>
           \/ io = "arm" /\ timer = "none" /\ Undefined

\* run() returns.
RunEnds == /\ io = "idle" /\ stopped
           /\ io' = "ended"
           /\ IoOnly
           /\ UNCHANGED <<mu, serverVars, timer, due, stopped, connVars>>

IoStep == \/ TickBegin \/ TickLock \/ TickUnlock \/ TickArm \/ RunEnds

-----------------------------------------------------------------------------
(* A control API connection's thread.  Its server object is not kept alive.  *)

ConnOnly == Defined /\ UNCHANGED <<owner, mu, orphans, serverVars, ioVars, alertVars>>

\* It counts itself.
ConnBegin(c) == \/ /\ conn[c] = "spawned" /\ c \notin orphans
                   /\ conn' = [conn EXCEPT ![c] = "serving"]
                   /\ active' = active + 1
                   /\ ConnOnly
                   /\ UNCHANGED stopping
                \/ conn[c] = "spawned" /\ c \in orphans /\ Undefined

\* Slip: the connection is counted out before the shutdown, and again when it ends.
ConnShutdownUncounted(c) == /\ conn[c] = "serving" /\ c \notin orphans
                            /\ conn' = [conn EXCEPT ![c] = "closing"]
                            /\ active' = active - 1
                            /\ stopping' = [stopping EXCEPT ![c] = "enter"]
                            /\ ConnOnly

\* POST /api/server/stop, after its answer was sent.
ConnShutdown(c) == \/ /\ conn[c] = "serving" /\ c \notin orphans
                      /\ conn' = [conn EXCEPT ![c] = "closing"]
                      /\ stopping' = [stopping EXCEPT ![c] = "enter"]
                      /\ ConnOnly
                      /\ UNCHANGED active
                   \/ conn[c] = "serving" /\ c \in orphans /\ Undefined

\* Any other request, or none; then, and after the shutdown, ~ConnGuard.
ConnEnd(c) == /\ conn[c] \in {"serving", "closing"} /\ stopping[c] = "out"
              /\ \/ /\ c \notin orphans
                    /\ conn' = [conn EXCEPT ![c] = "done"]
                    /\ active' = active - 1
                    /\ ConnOnly
                    /\ UNCHANGED stopping
                 \/ c \in orphans /\ Undefined

-----------------------------------------------------------------------------
(* AlertDispatcher::run.  The handlers use catalog_, cache_ and states_.     *)

AlertOnly == /\ Defined
             /\ UNCHANGED <<owner, stopping, mu, serverVars, ioVars, connVars, members>>

HandleAlerts == /\ alert = "waiting" /\ dispatching
                /\ alert' = "handling"
                /\ AlertOnly
                /\ UNCHANGED dispatching

\* Some handlers take mu_.
AlertsHandled == /\ alert = "handling" /\ mu = Free
                 /\ alert' = "waiting"
                 /\ AlertOnly
                 /\ UNCHANGED dispatching

\* The loop's condition; the wait has a timeout of 500 ms.
AlertThreadEnds == /\ alert = "waiting" /\ ~dispatching
                   /\ alert' = "ended"
                   /\ AlertOnly
                   /\ UNCHANGED dispatching

-----------------------------------------------------------------------------
(* ~SeekServeEngine, by the owner.                                           *)

Destroy == /\ OwnerAt("idle", "destroy")
           /\ stopping' = [stopping EXCEPT ![Owner] = "enter"]
           /\ Defined
           /\ UNCHANGED <<mu, serverVars, ioVars, connVars, alertVars>>

\* Slip: the alert thread is left to the destructor of sessions_.
DestroyDispatcherLater ==
    /\ OwnerAt("destroy_dispatcher", "destroy_members")
    /\ OwnerOnly
    /\ UNCHANGED <<serverVars, ioVars>>

\* AlertDispatcher::stop ...
DestroyDispatcher == /\ OwnerAt("destroy_dispatcher", "destroy_join")
                     /\ dispatching' = FALSE
                     /\ Defined
                     /\ UNCHANGED <<stopping, mu, serverVars, ioVars, connVars, alert,
                                    members>>

\* ... joins its thread.
DestroyJoin == /\ alert = "ended"
               /\ OwnerAt("destroy_join", "destroy_members")
               /\ OwnerOnly
               /\ UNCHANGED <<serverVars, ioVars>>

\* The servers, which stop if they were not stopped, states_ and cache_.
DestroyMembers ==
    /\ OwnerAt("destroy_members", "destroy_thread")
    /\ members' = FALSE
    /\ listening' = {}
    /\ Abort
    /\ orphans' = orphans \cup Live
    /\ Defined
    /\ UNCHANGED <<stopping, mu, running, starts, ioVars, conn, active, dispatching, alert>>

\* The members in reverse order; io_thread_ must have been joined.
DestroyThread == \/ /\ io = "none"
                    /\ OwnerAt("destroy_thread", "gone")
                    /\ Defined
                    /\ UNCHANGED <<stopping, mu, serverVars, ioVars, connVars, alertVars>>
                 \/ owner = "destroy_thread" /\ io # "none" /\ Undefined

-----------------------------------------------------------------------------
Start == \/ StartHttp \/ StartApi \/ StartApiFails \/ StartThread \/ StartTickTimer
         \/ StartDone

DestroyStep == DestroyDispatcher \/ DestroyJoin \/ DestroyMembers \/ DestroyThread

Next == \/ StartCreate \/ Start
        \/ StopCall \/ StopReturn \/ (\E t \in Threads : StopStep(t))
        \/ (\E c \in Connections :
               Accept(c) \/ ConnBegin(c) \/ ConnShutdown(c) \/ ConnEnd(c))
        \/ AcceptFails \/ TimerExpires \/ IoStep
        \/ HandleAlerts \/ AlertsHandled \/ AlertThreadEnds
        \/ Destroy \/ DestroyStep

\* The threads run.  The owner's calls and the connections' requests owe nothing.
Fairness == /\ \A t \in Threads : WF_vars(StopStep(t))
            /\ WF_vars(IoStep)
            /\ WF_vars(AlertsHandled \/ AlertThreadEnds)

Spec == Init /\ [][Next]_vars /\ Fairness

-----------------------------------------------------------------------------
TypeOK ==
    /\ owner \in OwnerPlaces
    /\ stopping \in [Threads -> StopPlaces]
    /\ conn \in [Connections -> {"none", "rejected", "spawned", "serving", "closing", "done"}]
    /\ active \in 0..Cardinality(Connections)
    /\ orphans \subseteq Connections
    /\ running \in BOOLEAN
    /\ starts \in 0..MaxStarts
    /\ listening \subseteq {"http", "api"}
    /\ accepting \in BOOLEAN
    /\ timer \in {"none", "idle", "armed"}
    /\ due \in BOOLEAN
    /\ io \in {"none", "idle", "tick", "locked", "arm", "ended"}
    /\ stopped \in BOOLEAN
    /\ mu \in Threads \cup {Free, "io"}
    /\ dispatching \in BOOLEAN
    /\ alert \in {"waiting", "handling", "ended"}
    /\ members \in BOOLEAN
    /\ undefined \in BOOLEAN

\* At most one thread is in the steps of stop_server, and only while the server does
\* not run: whoever calls, a start is undone once.
OneStopPerStart ==
    \A t \in Threads : InStop(t) => /\ ~running
                                    /\ \A u \in Threads : InStop(u) => u = t

\* Starts and stops, whoever makes them, are those of one switch: a start that fails
\* and a stop that ends leave nothing, the server runs only with all its parts, parts
\* appear only in a start and go only in a stop, and the destructor's stop is the last.
Phase == CASE running -> "up"
           [] owner \in StartPlaces -> "rising"
           [] \E t \in Threads : InStop(t) -> "falling"
           [] OTHER -> "down"
Present == listening \cup (IF timer = "none" THEN {} ELSE {"timer"})
                     \cup (IF io = "none" THEN {} ELSE {"thread"})
Switch == INSTANCE ServerSwitch WITH
             phase   <- Phase,
             parts   <- Present,
             retired <- owner \in DestroyPlaces
IsOneSwitch == Switch!Spec

\* "Must stop before those members are destroyed": no alert handler runs without them,
\* and on_tick only if another thread's stop_server was still under way when the
\* destructor's returned at once.
MembersOutliveHandlers ==
    ~members => /\ alert = "ended"
                /\ io # "none" => \E c \in Connections : InStop(c)

\* Every call of stop_server returns, the destructor's too: on_tick does not keep the
\* thread that is to be joined waiting for a lock of the joiner.
EveryStopReturns ==
    \A t \in Threads : stopping[t] # "out" ~> (stopping[t] = "out" \/ undefined)

\* "Graceful shutdown": on_tick finds the timer that it arms again.
TickFindsTimer == io = "arm" => timer # "none"
=============================================================================
