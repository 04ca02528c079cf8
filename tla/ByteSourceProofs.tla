-------------------------- MODULE ByteSourceProofs --------------------------
(***************************************************************************)
(* Proofs about ByteSource for any number of threads, pieces and reads:    *)
(* type correctness, the two safety invariants, and the step simulation of *)
(* ReadPromise.                                                            *)
(***************************************************************************)
EXTENDS ByteSource, TLAPS

-----------------------------------------------------------------------------
(* The inductive invariant.                                                *)

\* wait_for returned true on the flag: the flag is set (and stays set).
StoppedMeansCancelled == \A r \in Readers : pc[r] = "stopped" => cancelled

\* A granted read has its pieces, up to and including its answer.
GrantedMeansComplete ==
    \A r \in Readers :
        pc[r] \in {"granted", "disk"} \/ result[r] = "data" => SpanComplete(r)

\* A read in progress has no answer yet.
BusyMeansUnanswered == \A r \in Readers : pc[r] # "idle" => result[r] = "none"

\* A span complete when the deadline passed is still complete, and such a read
\* is never refused.
ExpiryInv ==
    \A r \in Readers :
        /\ fullAtExpiry[r] => SpanComplete(r)
        /\ pc[r] = "refused" \/ result[r] = "timeout" => ~fullAtExpiry[r]

IInv == /\ TypeOK
        /\ StoppedMeansCancelled
        /\ GrantedMeansComplete
        /\ BusyMeansUnanswered
        /\ ExpiryInv

-----------------------------------------------------------------------------
\* The first state has the declared types.
LEMMA InitType == Init => TypeOK
  <1> SUFFICES ASSUME Init
               PROVE  TypeOK
    OBVIOUS
  <1>1. todo \in [Readers -> 0..MaxReads]
    BY SourceAssumption DEF Init
  <1>2. span \in [Readers -> SUBSET Pieces]
    BY DEF Init
  <1>3. /\ expired \in [Readers -> BOOLEAN]
        /\ final \in [Readers -> BOOLEAN]
        /\ fullAtExpiry \in [Readers -> BOOLEAN]
    BY DEF Init
  <1>4. pc \in [Readers -> Places] /\ result \in [Readers -> Results]
    BY DEF Init, Places, Results
  <1> QED
    BY <1>1, <1>2, <1>3, <1>4 DEF Init, TypeOK

\* A span is an interval of pieces of the torrent.
LEMMA SpansArePieces == \A s \in Spans : s \subseteq Pieces
  <1> SUFFICES ASSUME NEW s \in Spans
               PROVE  s \subseteq Pieces
    OBVIOUS
  <1>1. PICK first \in Pieces, last \in Pieces : s = first..last
    BY DEF Spans
  <1> QED
    BY <1>1, SourceAssumption DEF Pieces

\* Every step keeps the declared types.
LEMMA NextType == TypeOK /\ [Next]_vars => TypeOK'
  <1> SUFFICES ASSUME TypeOK, [Next]_vars
               PROVE  TypeOK'
    OBVIOUS
  <1> USE DEF TypeOK, Places, HoldsMu, Results
  <1>1. ASSUME NEW r \in Readers, CallCancelled(r)
        PROVE  TypeOK'
    BY <1>1, SourceAssumption DEF CallCancelled, Return, Goto
  <1>2. ASSUME NEW r \in Readers, NEW s \in Spans, Call(r, s)
        PROVE  TypeOK'
    <2>1. span' \in [Readers -> SUBSET Pieces]
      BY <1>2, SpansArePieces DEF Call
    <2>2. todo' \in [Readers -> 0..MaxReads]
      BY <1>2, SourceAssumption DEF Call
    <2> QED
      BY <1>2, <2>1, <2>2 DEF Call, Goto
  <1>3. ASSUME NEW r \in Readers, AcquireMu(r)
        PROVE  TypeOK'
    BY <1>3 DEF AcquireMu, Goto
  <1>4. ASSUME NEW r \in Readers, TestCancelled(r)
        PROVE  TypeOK'
    BY <1>4 DEF TestCancelled, Goto
  <1>5. ASSUME NEW r \in Readers, TestSpan(r)
        PROVE  TypeOK'
    BY <1>5 DEF TestSpan, Goto
  <1>6. ASSUME NEW r \in Readers, Park(r)
        PROVE  TypeOK'
    BY <1>6 DEF Park, Goto
  <1>7. ASSUME NEW r \in Readers, Expire(r)
        PROVE  TypeOK'
    BY <1>7, SpanComplete(r) \in BOOLEAN DEF Expire, SpanComplete
  <1>8. ASSUME NEW sleepers, Wake(sleepers)
        PROVE  /\ pc' \in [Readers -> Places]
               /\ final' \in [Readers -> BOOLEAN]
    BY <1>8 DEF Wake
  <1>9. ASSUME NEW r \in Readers, WakeByItself(r)
        PROVE  TypeOK'
    BY <1>8, <1>9 DEF WakeByItself
  <1>10. ASSUME NEW r \in Readers, AfterWait(r)
         PROVE  TypeOK'
    BY <1>10 DEF AfterWait, Return, Goto
  <1>11. ASSUME NEW r \in Readers, ReadFromDisk(r)
         PROVE  TypeOK'
    BY <1>11 DEF ReadFromDisk, Return, Goto
  <1>12. ASSUME NEW p \in Pieces, MarkComplete(p)
         PROVE  TypeOK'
    BY <1>12 DEF MarkComplete
  <1>13. CASE NotifyPieceComplete
    BY <1>8, <1>13 DEF NotifyPieceComplete, NotifyAll
  <1>14. ASSUME NEW c \in Cancellers, CancelStore(c)
         PROVE  TypeOK'
    BY <1>14 DEF CancelStore
  <1>15. ASSUME NEW c \in Cancellers, CancelNotify(c)
         PROVE  TypeOK'
    BY <1>8, <1>15 DEF CancelNotify, NotifyAll
  <1>16. CASE UNCHANGED vars
    BY <1>16 DEF vars
  <1> QED
    BY <1>1, <1>2, <1>3, <1>4, <1>5, <1>6, <1>7, <1>9, <1>10, <1>11, <1>12,
       <1>13, <1>14, <1>15, <1>16 DEF Next, ReaderStep, Finished

\* Type correctness of ByteSource: in particular mark_complete only ever marks
\* pieces of the torrent.
THEOREM TypeCorrect == Spec => []TypeOK
  BY InitType, NextType, PTL DEF Spec

-----------------------------------------------------------------------------
\* The inductive invariant holds at first.
LEMMA InitInv == Init => IInv
  BY InitType DEF Init, IInv, StoppedMeansCancelled, GrantedMeansComplete,
                  BusyMeansUnanswered, ExpiryInv

\* One step per action.  complete and cancelled only grow, so what was granted
\* or stopped stays so while other threads move.
LEMMA NextInv == IInv /\ [Next]_vars => IInv'
  <1> SUFFICES ASSUME IInv, [Next]_vars
               PROVE  IInv'
    OBVIOUS
  <1>0. TypeOK' /\ TypeOK
    BY NextType DEF IInv
  <1> USE <1>0 DEF IInv, StoppedMeansCancelled, GrantedMeansComplete,
                   BusyMeansUnanswered, ExpiryInv, SpanComplete, TypeOK
  <1>1. ASSUME NEW r \in Readers, CallCancelled(r)
        PROVE  IInv'
    BY <1>1 DEF CallCancelled, Return, Goto
  <1>2. ASSUME NEW r \in Readers, NEW s \in Spans, Call(r, s)
        PROVE  IInv'
    BY <1>2 DEF Call, Goto
  <1>3. ASSUME NEW r \in Readers, AcquireMu(r)
        PROVE  IInv'
    BY <1>3 DEF AcquireMu, Goto
  <1>4. ASSUME NEW r \in Readers, TestCancelled(r)
        PROVE  IInv'
    BY <1>4 DEF TestCancelled, Goto
  <1>5. ASSUME NEW r \in Readers, TestSpan(r)
        PROVE  IInv'
    BY <1>5 DEF TestSpan, Goto
  <1>6. ASSUME NEW r \in Readers, Park(r)
        PROVE  IInv'
    BY <1>6 DEF Park, Goto
  <1>7. ASSUME NEW r \in Readers, Expire(r)
        PROVE  IInv'
    BY <1>7 DEF Expire
  <1>8. ASSUME NEW sleepers, Wake(sleepers),
               UNCHANGED <<complete, span, expired, result, fullAtExpiry>>,
               cancelled' = cancelled,
               \A q \in Readers : q \in sleepers => pc[q] = "asleep"
        PROVE  IInv'
    BY <1>8 DEF Wake
  <1>9. ASSUME NEW r \in Readers, WakeByItself(r)
        PROVE  IInv'
    BY <1>8, <1>9 DEF WakeByItself
  <1>10. ASSUME NEW r \in Readers, AfterWait(r)
         PROVE  IInv'
    <2> USE <1>10 DEF AfterWait, Return, Goto
    <2>1. CASE cancelled
      BY <2>1
    <2>2. CASE ~cancelled /\ pc[r] = "refused"
      BY <2>2
    <2>3. CASE ~cancelled /\ pc[r] = "granted"
      BY <2>3
    <2> QED
      BY <2>1, <2>2, <2>3
  <1>11. ASSUME NEW r \in Readers, ReadFromDisk(r)
         PROVE  IInv'
    BY <1>11 DEF ReadFromDisk, Return, Goto
  <1>12. ASSUME NEW p \in Pieces, MarkComplete(p)
         PROVE  IInv'
    BY <1>12 DEF MarkComplete
  <1>13. CASE NotifyPieceComplete
    BY <1>8, <1>13 DEF NotifyPieceComplete, NotifyAll
  <1>14. ASSUME NEW c \in Cancellers, CancelStore(c)
         PROVE  IInv'
    BY <1>14 DEF CancelStore
  <1>15. ASSUME NEW c \in Cancellers, CancelNotify(c)
         PROVE  IInv'
    BY <1>8, <1>15 DEF CancelNotify, NotifyAll
  <1>16. CASE UNCHANGED vars
    BY <1>16 DEF vars
  <1> QED
    BY <1>1, <1>2, <1>3, <1>4, <1>5, <1>6, <1>7, <1>9, <1>10, <1>11, <1>12,
       <1>13, <1>14, <1>15, <1>16 DEF Next, ReaderStep, Finished

\* The inductive invariant always holds.
LEMMA InvHolds == Spec => []IInv
  BY InitInv, NextInv, PTL DEF Spec

\* read() never returns bytes of a piece that is not complete, whatever the order
\* of notifications, timeouts and cancel() (byte_source.cpp:33-46).
THEOREM DataSafe == Spec => []DataOnlyWhenComplete
  <1>1. IInv => DataOnlyWhenComplete
    BY DEF IInv, GrantedMeansComplete, DataOnlyWhenComplete
  <1> QED
    BY <1>1, InvHolds, PTL

\* read() never reports a timeout for a span that was complete when its time was
\* up, even when the notification was lost (byte_source.cpp:34-43).
THEOREM TimeoutHonest == Spec => []TimeoutIsHonest
  <1>1. IInv => TimeoutIsHonest
    BY DEF IInv, ExpiryInv, TimeoutIsHonest
  <1> QED
    BY <1>1, InvHolds, PTL

-----------------------------------------------------------------------------
(* Refinement: the wait implements ReadPromise (safety part).              *)

\* Initial states map to initial states.
LEMMA InitRefines == Init => Promise!Init
  BY DEF Init, Promise!Init, Promise!Pieces, Pieces, PhaseOf

\* Moving between places of one phase, with nothing else the promise sees, is a
\* stutter.
LEMMA SamePhaseStutters ==
  ASSUME TypeOK, TypeOK',
         UNCHANGED <<complete, cancelled, span, result>>,
         \A r \in Readers : PhaseOf(pc'[r]) = PhaseOf(pc[r])
  PROVE  UNCHANGED Promise!vars
  BY DEF Promise!vars

\* A thread that moves alone moves its phase alone.
LEMMA PhaseMoves ==
  ASSUME TypeOK, NEW r \in Readers, NEW place \in Places,
         pc' = [pc EXCEPT ![r] = place]
  PROVE  [q \in Readers |-> PhaseOf(pc[q])]'
            = [[q \in Readers |-> PhaseOf(pc[q])] EXCEPT ![r] = PhaseOf(place)]
  <1>1. \A q \in Readers : pc'[q] = IF q = r THEN place ELSE pc[q]
    BY DEF TypeOK
  <1>2. \A q \in Readers :
           PhaseOf(pc'[q]) = IF q = r THEN PhaseOf(place) ELSE PhaseOf(pc[q])
    BY <1>1
  <1> QED
    BY <1>2

\* Returning from read() answers the request of the promise.
LEMMA ReturnReplies ==
  ASSUME TypeOK, NEW r \in Readers, NEW res, Return(r, res),
         UNCHANGED <<complete, cancelled, span>>
  PROVE  Promise!Reply(r, res)
  <1>1. pc' = [pc EXCEPT ![r] = "idle"] /\ result' = [result EXCEPT ![r] = res]
    BY DEF Return, Goto
  <1>2. "idle" \in Places /\ PhaseOf("idle") = "idle"
    BY DEF Places, PhaseOf
  <1>3. [q \in Readers |-> PhaseOf(pc[q])]'
            = [[q \in Readers |-> PhaseOf(pc[q])] EXCEPT ![r] = "idle"]
    BY <1>1, <1>2, PhaseMoves
  <1> QED
    BY <1>1, <1>3 DEF Promise!Reply

\* Every step of a thread maps to a step of the promise or to a stutter.
LEMMA StepRefines == IInv /\ IInv' /\ [Next]_vars => [Promise!Next]_(Promise!vars)
  <1> SUFFICES ASSUME IInv, IInv', [Next]_vars
               PROVE  Promise!Next \/ UNCHANGED Promise!vars
    OBVIOUS
  <1>0. TypeOK /\ TypeOK'
    BY DEF IInv
  <1>1. ASSUME NEW r \in Readers, CallCancelled(r)
        PROVE  Promise!Next
    <2>1. Promise!AskCancelled(r)
      BY <1>0, <1>1 DEF CallCancelled, Return, Goto, Promise!AskCancelled,
                        PhaseOf, TypeOK
    <2> QED
      BY <2>1 DEF Promise!Next
  <1>2. ASSUME NEW r \in Readers, NEW s \in Spans, Call(r, s)
        PROVE  Promise!Next
    <2>1. Promise!Ask(r, s)
      BY <1>0, <1>2 DEF Call, Goto, Promise!Ask, PhaseOf, TypeOK
    <2>2. s \in SUBSET Promise!Pieces
      BY SpansArePieces DEF Promise!Pieces, Pieces
    <2> QED
      BY <2>1, <2>2 DEF Promise!Next
  <1>3. ASSUME NEW r \in Readers, AcquireMu(r) \/ TestCancelled(r) \/ Park(r)
        PROVE  UNCHANGED Promise!vars
    BY <1>0, <1>3, SamePhaseStutters
       DEF AcquireMu, TestCancelled, Park, Goto, PhaseOf, TypeOK
  <1>4. ASSUME NEW r \in Readers, TestSpan(r)
        PROVE  Promise!Next \/ UNCHANGED Promise!vars
    <2>1. CASE SpanComplete(r)
      <3>1. /\ pc[r] = "testSpan" /\ pc' = [pc EXCEPT ![r] = "granted"]
            /\ UNCHANGED <<complete, cancelled, span, result>>
        BY <1>4, <2>1 DEF TestSpan, Goto
      <3>2. [q \in Readers |-> PhaseOf(pc[q])]'
               = [[q \in Readers |-> PhaseOf(pc[q])] EXCEPT ![r] = "granted"]
        <4>1. "granted" \in Places /\ PhaseOf("granted") = "granted"
          BY DEF Places, HoldsMu, PhaseOf
        <4> QED
          BY <1>0, <3>1, <4>1, PhaseMoves
      <3>3. PhaseOf(pc[r]) = "waiting"
        BY <3>1 DEF PhaseOf
      <3>4. Promise!Grant(r)
        BY <2>1, <3>1, <3>2, <3>3 DEF Promise!Grant, SpanComplete
      <3> QED
        BY <3>4 DEF Promise!Next
    <2>2. CASE ~SpanComplete(r) /\ final[r]
      <3>1. /\ pc[r] = "testSpan" /\ pc' = [pc EXCEPT ![r] = "refused"]
            /\ UNCHANGED <<complete, cancelled, span, result>>
        BY <1>4, <2>2 DEF TestSpan, Goto
      <3>2. [q \in Readers |-> PhaseOf(pc[q])]'
               = [[q \in Readers |-> PhaseOf(pc[q])] EXCEPT ![r] = "refused"]
        <4>1. "refused" \in Places /\ PhaseOf("refused") = "refused"
          BY DEF Places, HoldsMu, PhaseOf
        <4> QED
          BY <1>0, <3>1, <4>1, PhaseMoves
      <3>3. PhaseOf(pc[r]) = "waiting"
        BY <3>1 DEF PhaseOf
      <3>4. Promise!Refuse(r)
        BY <2>2, <3>1, <3>2, <3>3 DEF Promise!Refuse, SpanComplete
      <3> QED
        BY <3>4 DEF Promise!Next
    <2>3. CASE ~SpanComplete(r) /\ ~final[r]
      BY <1>0, <1>4, <2>3, SamePhaseStutters DEF TestSpan, Goto, PhaseOf, TypeOK
    <2> QED
      BY <2>1, <2>2, <2>3, <1>0 DEF TypeOK
  <1>5. ASSUME NEW r \in Readers, Expire(r)
        PROVE  UNCHANGED Promise!vars
    BY <1>5 DEF Expire, Promise!vars
  <1>6. ASSUME NEW sleepers, Wake(sleepers),
               UNCHANGED <<complete, cancelled, span, result>>,
               \A q \in Readers : q \in sleepers => pc[q] = "asleep"
        PROVE  UNCHANGED Promise!vars
    BY <1>0, <1>6, SamePhaseStutters DEF Wake, PhaseOf, TypeOK
  <1>7. ASSUME NEW r \in Readers, WakeByItself(r)
        PROVE  UNCHANGED Promise!vars
    BY <1>6, <1>7 DEF WakeByItself
  <1>8. ASSUME NEW r \in Readers, AfterWait(r)
        PROVE  Promise!Next \/ UNCHANGED Promise!vars
    <2>1. CASE cancelled
      <3>1. Promise!ReplyCancelled(r)
        <4>1. Return(r, "cancelled") /\ PhaseOf(pc[r]) # "idle"
          BY <1>8, <2>1 DEF AfterWait, PhaseOf
        <4> QED
          BY <1>0, <1>8, <2>1, <4>1, ReturnReplies
             DEF AfterWait, Promise!ReplyCancelled
      <3> QED
        BY <3>1 DEF Promise!Next, Promise!Answer
    <2>2. CASE ~cancelled /\ pc[r] = "refused"
      <3>1. Promise!ReplyTimeout(r)
        <4>1. Return(r, "timeout") /\ PhaseOf(pc[r]) = "refused"
          BY <1>8, <2>2 DEF AfterWait, PhaseOf
        <4> QED
          BY <1>0, <1>8, <4>1, ReturnReplies DEF AfterWait, Promise!ReplyTimeout
      <3> QED
        BY <3>1 DEF Promise!Next, Promise!Answer
    <2>3. CASE ~cancelled /\ pc[r] = "granted"
      BY <1>0, <1>8, <2>3, SamePhaseStutters DEF AfterWait, Goto, PhaseOf, TypeOK
    <2> QED
      BY <1>8, <2>1, <2>2, <2>3 DEF AfterWait, IInv, StoppedMeansCancelled
  <1>9. ASSUME NEW r \in Readers, ReadFromDisk(r)
        PROVE  Promise!Next
    <2>1. Promise!ReplyData(r)
      <3>1. PhaseOf(pc[r]) = "granted"
        BY <1>9 DEF ReadFromDisk, PhaseOf
      <3> QED
        BY <1>0, <1>9, <3>1, ReturnReplies DEF ReadFromDisk, Promise!ReplyData
    <2> QED
      BY <2>1 DEF Promise!Next, Promise!Answer
  <1>10. ASSUME NEW p \in Pieces, MarkComplete(p)
         PROVE  Promise!Next
    <2>1. Promise!Download(p)
      BY <1>10 DEF MarkComplete, Promise!Download
    <2> QED
      BY <2>1 DEF Promise!Next, Promise!Pieces, Pieces
  <1>11. CASE NotifyPieceComplete
    BY <1>6, <1>11 DEF NotifyPieceComplete, NotifyAll
  <1>12. ASSUME NEW c \in Cancellers, CancelStore(c)
         PROVE  Promise!Next
    BY <1>12 DEF CancelStore, Promise!Next, Promise!Cancel
  <1>13. ASSUME NEW c \in Cancellers, CancelNotify(c)
         PROVE  UNCHANGED Promise!vars
    BY <1>6, <1>13 DEF CancelNotify, NotifyAll
  <1>14. CASE UNCHANGED vars
    BY <1>14 DEF vars, Promise!vars
  <1> QED
    BY <1>1, <1>2, <1>3, <1>4, <1>5, <1>7, <1>8, <1>9, <1>10, <1>11, <1>12,
       <1>13, <1>14 DEF Next, ReaderStep, Finished

\* Every behaviour of the threads, the wait set and the notifications is, on the
\* variables a caller of read() sees, a behaviour of ReadPromise (its fairness
\* is left to the model checker).
THEOREM Refinement == Spec => Promise!Safety
  BY InitRefines, StepRefines, InvHolds, PTL DEF Spec, Promise!Safety
=============================================================================
