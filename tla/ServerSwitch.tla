---------------------------- MODULE ServerSwitch ----------------------------
(***************************************************************************)
(* What start_server and stop_server promise together: one switch.  A      *)
(* start puts up the parts of the server one after the other, or fails and *)
(* leaves none; the server is up only with all of them; a stop, whoever    *)
(* asked for it, takes them away and leaves none; and an engine that is    *)
(* being destroyed is never started again.  ServerLifecycle.tla is the     *)
(* detailed specification shown to implement this one.                     *)
(***************************************************************************)

VARIABLES phase,    \* "down", "rising", "up" or "falling"
          parts,    \* what there is of the server
          retired   \* the destructor has begun to take the engine apart

vars == <<phase, parts, retired>>

\* The two acceptors, the timer and the io_context's thread.
Parts == {"http", "api", "timer", "thread"}

Init == phase = "down" /\ parts = {} /\ retired = FALSE

Turns(from, to) == phase = from /\ phase' = to /\ UNCHANGED retired

Begin == ~retired /\ Turns("down", "rising") /\ UNCHANGED parts

Raise(p) == Turns("rising", "rising") /\ p \notin parts /\ parts' = parts \cup {p}

Fail == Turns("rising", "down") /\ parts' = {}

Finish == parts = Parts /\ Turns("rising", "up") /\ UNCHANGED parts

BeginStop == Turns("up", "falling") /\ UNCHANGED parts

Lower == Turns("falling", "falling") /\ parts' \in SUBSET parts

EndStop == Turns("falling", "down") /\ parts' = {}

Retire == phase \in {"down", "falling"} /\ retired' = TRUE /\ UNCHANGED <<phase, parts>>

Next == \/ Begin \/ (\E p \in Parts : Raise(p)) \/ Fail \/ Finish
        \/ BeginStop \/ Lower \/ EndStop \/ Retire

Spec == Init /\ [][Next]_vars
=============================================================================
