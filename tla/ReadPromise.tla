---------------------------- MODULE ReadPromise ----------------------------
(***************************************************************************)
(* What ByteSource::read promises to the HTTP threads, without mutex,      *)
(* condition variable or notification: a read is asked, the wait for its   *)
(* pieces is decided once (granted when all of them are complete, refused  *)
(* when time is up and some are not), and the read is answered.  A         *)
(* cancelled source may answer "cancelled" at any point before it touches  *)
(* the disk.  ByteSource.tla is the detailed specification shown to        *)
(* implement this one.                                                     *)
(***************************************************************************)
EXTENDS Integers

CONSTANTS Readers,    \* the threads that call read()
          NumPieces   \* pieces of the torrent

VARIABLES complete,   \* pieces the availability index holds as complete
          cancelled,  \* has cancel() been called
          phase,      \* [Readers -> "idle", "waiting", "granted" or "refused"]
          want,       \* [Readers -> pieces of the current (or last) read]
          answer      \* [Readers -> result of the last read]

vars == <<complete, cancelled, phase, want, answer>>

Pieces == 0..(NumPieces - 1)

Init == /\ complete \in SUBSET Pieces
        /\ cancelled = FALSE
        /\ phase  = [r \in Readers |-> "idle"]
        /\ want   = [r \in Readers |-> {}]
        /\ answer = [r \in Readers |-> "none"]

Download(p) == /\ complete' = complete \cup {p}
               /\ UNCHANGED <<cancelled, phase, want, answer>>

Cancel == /\ cancelled' = TRUE
          /\ UNCHANGED <<complete, phase, want, answer>>

\* Asking a cancelled source is answered on the spot.
AskCancelled(r) == /\ phase[r] = "idle"
                   /\ cancelled
                   /\ answer' = [answer EXCEPT ![r] = "cancelled"]
                   /\ UNCHANGED <<complete, cancelled, phase, want>>

Ask(r, s) == /\ phase[r] = "idle"
             /\ ~cancelled
             /\ phase'  = [phase EXCEPT ![r] = "waiting"]
             /\ want'   = [want EXCEPT ![r] = s]
             /\ answer' = [answer EXCEPT ![r] = "none"]
             /\ UNCHANGED <<complete, cancelled>>

Grant(r) == /\ phase[r] = "waiting"
            /\ want[r] \subseteq complete
            /\ phase' = [phase EXCEPT ![r] = "granted"]
            /\ UNCHANGED <<complete, cancelled, want, answer>>

Refuse(r) == /\ phase[r] = "waiting"
             /\ ~(want[r] \subseteq complete)
             /\ phase' = [phase EXCEPT ![r] = "refused"]
             /\ UNCHANGED <<complete, cancelled, want, answer>>

Reply(r, a) == /\ phase'  = [phase EXCEPT ![r] = "idle"]
               /\ answer' = [answer EXCEPT ![r] = a]
               /\ UNCHANGED <<complete, cancelled, want>>

ReplyData(r) == /\ phase[r] = "granted"
                /\ \E a \in {"data", "io_error"} : Reply(r, a)

ReplyTimeout(r) == phase[r] = "refused" /\ Reply(r, "timeout")

ReplyCancelled(r) == phase[r] # "idle" /\ cancelled /\ Reply(r, "cancelled")

Answer(r) == ReplyData(r) \/ ReplyTimeout(r) \/ ReplyCancelled(r)

Next == \/ \E p \in Pieces : Download(p)
        \/ Cancel
        \/ \E r \in Readers :
              \/ AskCancelled(r)
              \/ \E s \in SUBSET Pieces : Ask(r, s)
              \/ Grant(r) \/ Refuse(r) \/ Answer(r)

Safety == Init /\ [][Next]_vars

\* Every read is decided and every decided read is answered.
Fairness == \A r \in Readers : WF_vars(Grant(r) \/ Refuse(r) \/ Answer(r))

Spec == Safety /\ Fairness
=============================================================================
