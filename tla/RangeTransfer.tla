--------------------------- MODULE RangeTransfer ---------------------------
(***************************************************************************)
(* What a player may count on of one connection of the range server: its   *)
(* request is answered once, with a promise that stands until the next     *)
(* connection; then it gets the promised bytes one after the other, each   *)
(* when it is there to be had, and at any moment the connection may be     *)
(* over, after which nothing more comes.  HttpStream.tla is the detailed   *)
(* specification shown to implement this one.                              *)
(***************************************************************************)
EXTENDS Integers, Sequences

VARIABLES phase,    \* "over", "asked" or "serving"
          promise,  \* the status and the range of the response's headers
          got,      \* the bytes of the file that were sent, in order
          ready     \* bytes of the file that are there

vars == <<phase, promise, got, ready>>

NoPromise == [status |-> 0, range |-> [start |-> 0, end |-> -1]]
Promises  == [status: {200, 206, 403, 404, 405, 416}, range: [start: Int, end: Int]]
Kept(p)   == p.status \in {200, 206}

NextByte == promise.range.start + Len(got)
Left     == promise.range.end - NextByte + 1

Init == phase = "over" /\ promise = NoPromise /\ got = <<>> /\ ready \subseteq Nat

Ask == /\ phase = "over" /\ phase' = "asked"
       /\ promise' = NoPromise /\ got' = <<>>
       /\ UNCHANGED ready

\* A body follows only a 200 and a 206, and not for every method.
Reply == /\ phase = "asked" /\ phase' \in {"serving", "over"}
         /\ promise' \in Promises
         /\ phase' = "serving" => Kept(promise')
         /\ UNCHANGED <<got, ready>>

\* The next n bytes of the promise; the connection may be over with them.
Deliver(n) == /\ phase = "serving" /\ phase' \in {"serving", "over"}
              /\ NextByte .. NextByte + n - 1 \subseteq ready
              /\ got' = got \o [i \in 1..n |-> NextByte + i - 1]
              /\ UNCHANGED <<promise, ready>>

GiveUp == phase # "over" /\ phase' = "over" /\ UNCHANGED <<promise, got, ready>>

Gain == ready \subseteq ready' /\ UNCHANGED <<phase, promise, got>>

Next == Ask \/ Reply \/ (\E n \in 1..Left : Deliver(n)) \/ GiveUp \/ Gain

Spec == Init /\ [][Next]_vars
=============================================================================
