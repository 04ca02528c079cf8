----------------------------- MODULE ByteSource -----------------------------
(***************************************************************************)
(* seekserve-core ByteSource: HTTP threads block in read() until the       *)
(* pieces of their range are complete, the read times out, or the source   *)
(* is cancelled.                                                           *)
(*                                                                         *)
(* The waiting side holds mu_ while it evaluates the predicate of          *)
(* cv_.wait_for; the two signalling sides do not take mu_:                 *)
(*   - the alert thread marks a piece and then notifies (two steps);       *)
(*   - cancel() stores the flag and then notifies (two steps).             *)
(* So a notification may fall between a predicate that was false and the   *)
(* moment its thread joins the wait set.                                   *)
(***************************************************************************)
EXTENDS Integers, FiniteSets

CONSTANTS Readers,     \* HTTP threads that share this source
          Cancellers,  \* threads that may call cancel()
          NumPieces,   \* pieces of the torrent
          MaxReads     \* bound: reads (64 KiB chunks) one HTTP thread issues

ASSUME SourceAssumption == /\ NumPieces \in Nat \ {0}
                           /\ MaxReads \in Nat

VARIABLES complete,   \* PieceAvailabilityIndex::completed_, as a set
          cancelled,  \* ByteSource::cancelled_
          alert,      \* alert thread: "idle", or "marked" with the notify to come
          canceller,  \* [Cancellers -> "idle", "stored" or "done"]
          pc,         \* [Readers -> where the thread is in read()]
          span,       \* [Readers -> pieces of the range being read]
          expired,    \* [Readers -> BOOLEAN] the clock is past the deadline
          final,      \* [Readers -> BOOLEAN] the wait has returned timeout
          result,     \* [Readers -> what the last read() returned]
          todo,       \* [Readers -> reads left]
          fullAtExpiry  \* history: was the span complete when the wait expired

vars == <<complete, cancelled, alert, canceller, pc, span, expired, final, result,
          todo, fullAtExpiry>>

Pieces == 0..(NumPieces - 1)

\* PieceSpan: first..last, the pieces ByteRangeMapper::map gives for a range.
Spans == {first..last : first \in Pieces, last \in Pieces} \ {{}}

\* Places of a thread in read() where it owns mu_.
HoldsMu == {"testCancelled", "testSpan", "park", "stopped", "granted", "refused"}
MuFree == \A q \in Readers : pc[q] \notin HoldsMu

\* PieceAvailabilityIndex::is_span_complete
SpanComplete(r) == span[r] \subseteq complete

Init == /\ complete \in SUBSET Pieces     \* pre-populated by select_file
        /\ cancelled = FALSE
        /\ alert = "idle"
        /\ canceller = [c \in Cancellers |-> "idle"]
        /\ pc     = [r \in Readers |-> "idle"]
        /\ span   = [r \in Readers |-> {}]
        /\ expired = [r \in Readers |-> FALSE]
        /\ final  = [r \in Readers |-> FALSE]
        /\ result = [r \in Readers |-> "none"]
        /\ todo   = [r \in Readers |-> MaxReads]
        /\ fullAtExpiry = [r \in Readers |-> FALSE]

-----------------------------------------------------------------------------
(* The threads in read().                                                  *)

Goto(r, place) == pc' = [pc EXCEPT ![r] = place]

Return(r, res) == /\ Goto(r, "idle")
                  /\ result' = [result EXCEPT ![r] = res]

\* A read of a cancelled source returns before it maps the range.
CallCancelled(r) ==
    /\ pc[r] = "idle"
    /\ todo[r] > 0
    /\ cancelled
    /\ Return(r, "cancelled")
    /\ todo' = [todo EXCEPT ![r] = @ - 1]
    /\ UNCHANGED <<complete, cancelled, alert, canceller, span, expired, final,
                   fullAtExpiry>>

Call(r, s) ==
    /\ pc[r] = "idle"
    /\ todo[r] > 0
    /\ ~cancelled
    /\ Goto(r, "lock")
    /\ span'   = [span EXCEPT ![r] = s]
    /\ expired' = [expired EXCEPT ![r] = FALSE]
    /\ final'  = [final EXCEPT ![r] = FALSE]
    /\ result' = [result EXCEPT ![r] = "none"]
    /\ todo'   = [todo EXCEPT ![r] = @ - 1]
    /\ fullAtExpiry' = [fullAtExpiry EXCEPT ![r] = FALSE]
    /\ UNCHANGED <<complete, cancelled, alert, canceller>>

\* Take mu_, at first or again after a wait.
AcquireMu(r) ==
    /\ pc[r] = "lock"
    /\ MuFree
    /\ Goto(r, "testCancelled")
    /\ UNCHANGED <<complete, cancelled, alert, canceller, span, expired, final, result,
                   todo, fullAtExpiry>>

\* Slip: at the deadline the thread gives up without a last look at its span
\* (wait_until without a predicate).
TestCancelledGivesUp(r) ==
    /\ pc[r] = "testCancelled"
    /\ Goto(r, IF cancelled THEN "stopped"
               ELSE IF final[r] THEN "refused" ELSE "testSpan")
    /\ UNCHANGED <<complete, cancelled, alert, canceller, span, expired, final, result,
                   todo, fullAtExpiry>>

\* The predicate's left operand, cancelled_.load().  "stopped" and "granted" are
\* the two ways for wait_for to return true; the code does not tell them apart.
TestCancelled(r) ==
    /\ pc[r] = "testCancelled"
    /\ Goto(r, IF cancelled THEN "stopped" ELSE "testSpan")
    /\ UNCHANGED <<complete, cancelled, alert, canceller, span, expired, final, result,
                   todo, fullAtExpiry>>

\* Slip: the result of wait_for is taken for TRUE.
TestSpanIgnoresTimeout(r) ==
    /\ pc[r] = "testSpan"
    /\ Goto(r, IF SpanComplete(r) \/ final[r] THEN "granted" ELSE "park")
    /\ UNCHANGED <<complete, cancelled, alert, canceller, span, expired, final, result,
                   todo, fullAtExpiry>>

\* Its right operand.  When it is false the thread waits (again), unless its
\* deadline has passed: then wait_for returns false.
TestSpan(r) ==
    /\ pc[r] = "testSpan"
    /\ \/ SpanComplete(r) /\ Goto(r, "granted")
       \/ ~SpanComplete(r) /\ final[r] /\ Goto(r, "refused")
       \/ ~SpanComplete(r) /\ ~final[r] /\ Goto(r, "park")
    /\ UNCHANGED <<complete, cancelled, alert, canceller, span, expired, final, result,
                   todo, fullAtExpiry>>

\* Release mu_ and join the wait set, atomically with respect to notify.
Park(r) ==
    /\ pc[r] = "park"
    /\ Goto(r, "asleep")
    /\ UNCHANGED <<complete, cancelled, alert, canceller, span, expired, final, result,
                   todo, fullAtExpiry>>

\* Slip: cv_.wait instead of cv_.wait_for.
ExpireNever(r) == FALSE /\ UNCHANGED vars

\* read_timeout elapses while the thread is in wait_for.
Expire(r) ==
    /\ pc[r] \in {"lock", "testCancelled", "testSpan", "park", "asleep"}
    /\ ~expired[r]
    /\ expired' = [expired EXCEPT ![r] = TRUE]
    /\ fullAtExpiry' = [fullAtExpiry EXCEPT ![r] = SpanComplete(r)]
    /\ UNCHANGED <<complete, cancelled, alert, canceller, pc, span, final, result,
                   todo>>

\* Threads leave the wait set.  The wait returns timeout if the clock is past the
\* deadline by then, and the predicate is evaluated for the last time.
Wake(sleepers) ==
    /\ pc'    = [r \in Readers |-> IF r \in sleepers THEN "lock" ELSE pc[r]]
    /\ final' = [r \in Readers |-> IF r \in sleepers THEN expired[r] ELSE final[r]]

\* A sleeping thread wakes by itself: at its deadline, or spuriously before it.
WakeByItself(r) ==
    /\ pc[r] = "asleep"
    /\ Wake({r})
    /\ UNCHANGED <<complete, cancelled, alert, canceller, span, expired, result,
                   todo, fullAtExpiry>>

\* Slip: cancelled_ is not tested again after the wait.
AfterWaitUntested(r) ==
    /\ pc[r] \in {"stopped", "granted", "refused"}
    /\ \/ pc[r] = "refused" /\ Return(r, "timeout")
       \/ pc[r] # "refused" /\ Goto(r, "disk") /\ UNCHANGED result
    /\ UNCHANGED <<complete, cancelled, alert, canceller, span, expired, final, todo,
                   fullAtExpiry>>

\* After wait_for: cancelled_ is tested before ok is.
AfterWait(r) ==
    /\ pc[r] \in {"stopped", "granted", "refused"}
    /\ \/ cancelled /\ Return(r, "cancelled")
       \/ ~cancelled /\ pc[r] = "refused" /\ Return(r, "timeout")
       \/ ~cancelled /\ pc[r] # "refused" /\ Goto(r, "disk") /\ UNCHANGED result
    /\ UNCHANGED <<complete, cancelled, alert, canceller, span, expired, final, todo,
                   fullAtExpiry>>

\* read_from_disk: open or seek may fail.
ReadFromDisk(r) ==
    /\ pc[r] = "disk"
    /\ \E res \in {"data", "io_error"} : Return(r, res)
    /\ UNCHANGED <<complete, cancelled, alert, canceller, span, expired, final, todo,
                   fullAtExpiry>>

-----------------------------------------------------------------------------
(* The signalling threads; neither takes mu_.                              *)

NotifyAll == Wake({r \in Readers : pc[r] = "asleep"})

\* Slip: an index off by one.
MarkCompleteNext(p) ==
    /\ alert = "idle"
    /\ p \in Pieces \ complete
    /\ complete' = complete \cup {p + 1}
    /\ alert' = "marked"
    /\ UNCHANGED <<cancelled, canceller, pc, span, expired, final, result, todo,
                   fullAtExpiry>>

\* piece_finished_alert: avail.mark_complete(piece) ...
MarkComplete(p) ==
    /\ alert = "idle"
    /\ p \in Pieces \ complete
    /\ complete' = complete \cup {p}
    /\ alert' = "marked"
    /\ UNCHANGED <<cancelled, canceller, pc, span, expired, final, result, todo,
                   fullAtExpiry>>

\* ... then source->notify_piece_complete().
NotifyPieceComplete ==
    /\ alert = "marked"
    /\ alert' = "idle"
    /\ NotifyAll
    /\ UNCHANGED <<complete, cancelled, canceller, span, expired, result, todo,
                   fullAtExpiry>>

\* cancel(): store ...
CancelStore(c) ==
    /\ canceller[c] = "idle"
    /\ canceller' = [canceller EXCEPT ![c] = "stored"]
    /\ cancelled' = TRUE
    /\ UNCHANGED <<complete, alert, pc, span, expired, final, result, todo, fullAtExpiry>>

\* ... then notify_all.
CancelNotify(c) ==
    /\ canceller[c] = "stored"
    /\ canceller' = [canceller EXCEPT ![c] = "done"]
    /\ NotifyAll
    /\ UNCHANGED <<complete, cancelled, alert, span, expired, result, todo,
                   fullAtExpiry>>

-----------------------------------------------------------------------------
ReaderStep(r) == \/ AcquireMu(r) \/ TestCancelled(r) \/ TestSpan(r) \/ Park(r)
                 \/ AfterWait(r) \/ ReadFromDisk(r)

AtDeadline(r) == Expire(r) \/ (expired[r] /\ WakeByItself(r))

\* All reads done: the threads are gone.
Finished == /\ \A r \in Readers : pc[r] = "idle" /\ todo[r] = 0
            /\ UNCHANGED vars

Next == \/ \E r \in Readers :
              \/ CallCancelled(r)
              \/ \E s \in Spans : Call(r, s)
              \/ ReaderStep(r)
              \/ Expire(r)
              \/ WakeByItself(r)
        \/ \E p \in Pieces : MarkComplete(p)
        \/ NotifyPieceComplete
        \/ \E c \in Cancellers : CancelStore(c) \/ CancelNotify(c)
        \/ Finished

\* A thread inside read() runs when it can, and a wait expires.  Nothing is
\* assumed of the swarm, of the alert thread or of cancel().
Fairness == \A r \in Readers : WF_vars(ReaderStep(r)) /\ WF_vars(AtDeadline(r))

Spec == Init /\ [][Next]_vars /\ Fairness

-----------------------------------------------------------------------------
Places == HoldsMu \cup {"idle", "lock", "asleep", "disk"}
Results == {"none", "data", "io_error", "timeout", "cancelled"}

\* Every variable stays in its type: in particular only pieces of the torrent
\* are ever marked complete.
TypeOK == /\ complete \subseteq Pieces
          /\ cancelled \in BOOLEAN
          /\ alert \in {"idle", "marked"}
          /\ canceller \in [Cancellers -> {"idle", "stored", "done"}]
          /\ pc \in [Readers -> Places]
          /\ span \in [Readers -> SUBSET Pieces]
          /\ expired \in [Readers -> BOOLEAN]
          /\ final \in [Readers -> BOOLEAN]
          /\ result \in [Readers -> Results]
          /\ todo \in [Readers -> 0..MaxReads]
          /\ fullAtExpiry \in [Readers -> BOOLEAN]

\* No read touches the file, or returns bytes of it, before every piece of its
\* span is complete, however the wait ended: the wait also ends "ok" when the
\* source is cancelled, and the test after it must catch that.
DataOnlyWhenComplete ==
    \A r \in Readers : pc[r] = "disk" \/ result[r] = "data" => SpanComplete(r)

\* A read that reports a timeout really lacked a piece when its time was up: a
\* piece whose notification was lost is still seen by the last evaluation of
\* the predicate.
TimeoutIsHonest ==
    \A r \in Readers : result[r] = "timeout" => ~fullAtExpiry[r]

\* Every read returns, even if the notification it waits for was lost and no
\* piece ever arrives.
EveryReadReturns ==
    \A r \in Readers : pc[r] # "idle" ~> pc[r] = "idle"

\* The wait, the predicate and the notifications implement ReadPromise.
PhaseOf(place) == CASE place = "idle" -> "idle"
                    [] place \in {"granted", "disk"} -> "granted"
                    [] place = "refused" -> "refused"
                    [] OTHER -> "waiting"
Promise == INSTANCE ReadPromise WITH
              phase  <- [r \in Readers |-> PhaseOf(pc[r])],
              want   <- span,
              answer <- result
KeepsPromise == Promise!Spec

-----------------------------------------------------------------------------
(* What a comment of engine.cpp claims of cancel().                        *)

\* Once a cancel() has stored its flag and notified, no thread still sleeps on
\* the condition variable.
CancelUnblocksAtOnce ==
    (\E c \in Cancellers : canceller[c] = "done")
        => \A r \in Readers : pc[r] # "asleep"
=============================================================================
