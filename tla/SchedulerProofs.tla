-------------------------- MODULE SchedulerProofs --------------------------
(***************************************************************************)
(* Proofs about StreamingScheduler for every torrent, file and             *)
(* configuration: type correctness, that the hot window is always          *)
(* requested, that active_deadlines never overcounts, and that a seek      *)
(* leaves no old deadline.                                                 *)
(***************************************************************************)
EXTENDS StreamingScheduler, FiniteSetTheorems, TLAPS

-----------------------------------------------------------------------------
(* Lemmas about the plan of set_deadlines.                                 *)

\* The windows have natural sizes.
LEMMA WindowSizes ==
  ASSUME NEW boost \in BOOLEAN, NEW m \in Modes
  PROVE  HotSize(boost, m) \in Nat /\ LookaheadSize(boost, m) \in Nat
  <1>1. (HotWindow + (IF boost THEN SeekBoost ELSE 0)) \in Nat
    BY SchedulerAssumption
  <1>2. \A n \in Nat : Larger(3, n \div 2) \in Nat
    BY DEF Larger
  <1>3. HotSize(boost, m) \in Nat
    BY <1>1, <1>2 DEF HotSize
  <1>4. LookaheadSize(boost, m) \in Nat
    BY <1>3, SchedulerAssumption DEF LookaheadSize, Modes
  <1> QED
    BY <1>3, <1>4

\* Missing pieces are finitely many pieces of the file, none of them complete.
LEMMA MissingPieces ==
  ASSUME NEW from \in FilePieces, NEW count \in Nat
  PROVE  /\ Missing(from, count) \subseteq (from..(EndPiece - 1)) \ avail
         /\ Missing(from, count) \subseteq FilePieces
         /\ IsFiniteSet(Missing(from, count))
         /\ \A p \in Missing(from, count) :
               IsFiniteSet({q \in Missing(from, count) : q < p})
  <1>1. IsFiniteSet(FilePieces)
    BY SchedulerAssumption, FS_Interval DEF FilePieces
  <1>2. /\ Missing(from, count) \subseteq (from..(EndPiece - 1)) \ avail
        /\ Missing(from, count) \subseteq FilePieces
    BY SchedulerAssumption DEF Missing, FilePieces
  <1>3. IsFiniteSet(Missing(from, count))
    BY <1>1, <1>2, FS_Subset
  <1>4. \A p \in Missing(from, count) :
           {q \in Missing(from, count) : q < p} \in SUBSET Missing(from, count)
    OBVIOUS
  <1> QED
    BY <1>2, <1>3, <1>4, FS_Subset

\* What a plan holds: missing pieces of the file at or after its position.
LEMMA PlanPieces ==
  ASSUME NEW from \in FilePieces, NEW boost \in BOOLEAN, NEW m \in Modes
  PROVE  /\ Planned(from, boost, m) \subseteq (from..(EndPiece - 1)) \ avail
         /\ Planned(from, boost, m) \subseteq FilePieces
         /\ IsFiniteSet(Planned(from, boost, m))
         /\ Cardinality(Planned(from, boost, m)) \in Nat
  <1> DEFINE count == HotSize(boost, m) + LookaheadSize(boost, m)
  <1>1. count \in Nat
    BY WindowSizes
  <1>2. Planned(from, boost, m) \in SUBSET Missing(from, count)
    BY DEF Planned
  <1>3. IsFiniteSet(Planned(from, boost, m))
    BY <1>1, <1>2, MissingPieces, FS_Subset
  <1> HIDE DEF count
  <1> QED
    BY <1>1, <1>2, <1>3, MissingPieces, FS_CardinalityType

\* The budget never cuts into the first DeadlineBudget pieces after the position:
\* a missing piece of the hot window among them is planned.
LEMMA PlanCoversHotWindow ==
  ASSUME NEW from \in FilePieces, NEW boost \in BOOLEAN, NEW m \in Modes,
         NEW p \in FilePieces, p \notin avail,
         p \in from..(from + Smaller(HotSize(boost, m), DeadlineBudget) - 1)
  PROVE  p \in Planned(from, boost, m)
  <1> DEFINE count == HotSize(boost, m) + LookaheadSize(boost, m)
             missing == Missing(from, count)
             before == {q \in missing : q < p}
  <1>1. /\ HotSize(boost, m) \in Nat /\ count \in Nat
        /\ count >= HotSize(boost, m)
    BY WindowSizes
  <1>2. /\ from \in Int /\ p \in Int
        /\ from <= p /\ p < from + HotSize(boost, m) /\ p < from + DeadlineBudget
    BY <1>1, SchedulerAssumption DEF Smaller, FilePieces
  <1>3. p \in missing
    BY <1>1, <1>2 DEF Missing
  <1>4. before \subseteq from..(p - 1)
    BY <1>1, <1>2, SchedulerAssumption DEF Missing, FilePieces
  <1>5. IsFiniteSet(from..(p - 1)) /\ Cardinality(from..(p - 1)) = p - from
    <2>1. p - 1 \in Int
      BY <1>2
    <2>2. /\ IsFiniteSet(from..(p - 1))
          /\ Cardinality(from..(p - 1)) =
                IF from > p - 1 THEN 0 ELSE (p - 1) - from + 1
      BY <1>2, <2>1, FS_Interval
    <2> QED
      BY <1>2, <2>2
  <1>6. Cardinality(before) <= p - from /\ Cardinality(before) \in Nat
    BY <1>4, <1>5, FS_Subset, FS_CardinalityType
  <1>7. Cardinality(before) < DeadlineBudget
    BY <1>2, <1>6, SchedulerAssumption
  <1> QED
    BY <1>3, <1>7 DEF Planned

\* A plan holds at most DeadlineBudget pieces: each planned piece has its own
\* number of missing pieces before it, and that number is below the budget.
LEMMA PlanWithinBudget ==
  ASSUME NEW from \in FilePieces, NEW boost \in BOOLEAN, NEW m \in Modes
  PROVE  Cardinality(Planned(from, boost, m)) <= DeadlineBudget
  <1> DEFINE count == HotSize(boost, m) + LookaheadSize(boost, m)
             missing == Missing(from, count)
             plan == Planned(from, boost, m)
             rank == [p \in plan |-> Cardinality({q \in missing : q < p})]
  <1>1. count \in Nat
    BY WindowSizes
  <1>2. /\ \A p \in missing : IsFiniteSet({q \in missing : q < p})
        /\ missing \subseteq FilePieces
    BY <1>1, MissingPieces
  <1>3. plan \subseteq missing
    BY DEF Planned
  <1>4. rank \in [plan -> 0..(DeadlineBudget - 1)]
    <2> SUFFICES ASSUME NEW p \in plan
                 PROVE  Cardinality({q \in missing : q < p}) \in 0..(DeadlineBudget - 1)
      OBVIOUS
    <2>1. Cardinality({q \in missing : q < p}) < DeadlineBudget
      BY DEF Planned
    <2>2. Cardinality({q \in missing : q < p}) \in Nat
      BY <1>2, <1>3, FS_CardinalityType
    <2> QED
      BY <2>1, <2>2, SchedulerAssumption
  <1>5. ASSUME NEW p \in plan, NEW r \in plan, p < r
        PROVE  rank[p] # rank[r]
    <2> DEFINE low == {q \in missing : q < p}
               high == {q \in missing : q < r}
    <2>1. p \in Int /\ r \in Int /\ \A q \in missing : q \in Int
      BY <1>2, <1>3, SchedulerAssumption DEF FilePieces
    <2>2. IsFiniteSet(high) /\ low \in SUBSET high
      BY <1>2, <1>3, <1>5, <2>1
    <2>3. p \in high /\ p \notin low
      BY <1>3, <1>5, <2>1
    <2>4. Cardinality(high) # Cardinality(low)
      BY <2>2, <2>3, FS_Subset
    <2> QED
      BY <2>4
  <1>6. \A p, r \in plan : p # r => rank[p] # rank[r]
    <2> SUFFICES ASSUME NEW p \in plan, NEW r \in plan, p # r
                 PROVE  rank[p] # rank[r]
      OBVIOUS
    <2>1. p \in Int /\ r \in Int
      BY <1>2, <1>3, SchedulerAssumption DEF FilePieces
    <2>2. p < r \/ r < p
      BY <2>1
    <2> HIDE DEF rank, plan
    <2> QED
      BY <1>5, <2>2
  <1>7. /\ IsFiniteSet(0..(DeadlineBudget - 1))
        /\ Cardinality(0..(DeadlineBudget - 1)) = DeadlineBudget
    BY SchedulerAssumption, FS_Interval
  <1>8. IsFiniteSet(plan) /\ Cardinality(plan) \in Nat
    BY PlanPieces
  <1> HIDE DEF rank, plan
  <1>9. ~(Cardinality(0..(DeadlineBudget - 1)) < Cardinality(plan))
    BY <1>4, <1>6, <1>7, <1>8, FS_PigeonHole
  <1> QED
    BY <1>7, <1>8, <1>9, SchedulerAssumption DEF plan

-----------------------------------------------------------------------------
(* Type correctness.                                                       *)

\* The initial state has the declared types.
LEMMA InitType == Init => TypeOK
  <1>1. FirstPiece \in FilePieces
    BY SchedulerAssumption DEF FilePieces
  <1>2. 0 \in 0..StallCap
    BY SchedulerAssumption DEF StallCap
  <1> SUFFICES ASSUME Init
               PROVE  TypeOK
    OBVIOUS
  <1>3. have \subseteq Pieces /\ avail \subseteq have
    BY DEF Init
  <1>4. deadlines \subseteq FilePieces \ have /\ marking \in Pieces \cup {NoPiece}
    BY DEF Init
  <1> QED
    BY <1>1, <1>2, <1>3, <1>4 DEF Init, TypeOK, Modes

\* A pass of set_deadlines leaves deadlines on missing pieces of the file only.
LEMMA PassType ==
  ASSUME NEW kept, kept \subseteq FilePieces \ have, avail \subseteq have,
         playhead' \in FilePieces, boosting' \in BOOLEAN, mode' \in Modes,
         SetDeadlines(kept)
  PROVE  /\ deadlines' \subseteq FilePieces \ have
         /\ active' \in Nat
         /\ planned' = TRUE
  BY PlanPieces DEF SetDeadlines

\* Every step keeps the declared types.
LEMMA NextType == TypeOK /\ [Next]_vars => TypeOK'
  <1> SUFFICES ASSUME TypeOK, [Next]_vars
               PROVE  TypeOK'
    OBVIOUS
  <1>1. ASSUME NEW first \in FilePieces, OnRangeRequest(first)
        PROVE  TypeOK'
    <2> DEFINE seek == Distance(first, playhead) > HotWindow
    <2>1. /\ playhead' \in FilePieces /\ boosting' \in BOOLEAN
          /\ boostOver' \in BOOLEAN /\ mode' \in Modes
          /\ (IF seek THEN {} ELSE deadlines) \subseteq FilePieces \ have
          /\ SetDeadlines(IF seek THEN {} ELSE deadlines)
      BY <1>1 DEF OnRangeRequest, TypeOK
    <2>2. deadlines' \subseteq FilePieces \ have /\ active' \in Nat /\ planned' = TRUE
      <3> HIDE DEF seek
      <3> QED
        BY <2>1, PassType DEF TypeOK
    <2> QED
      BY <1>1, <2>1, <2>2 DEF OnRangeRequest, TypeOK
  <1>2. ASSUME NEW p \in Pieces, MarkComplete(p)
        PROVE  TypeOK'
    BY <1>2 DEF MarkComplete, TypeOK
  <1>3. ASSUME NEW p \in Pieces, Download(p)
        PROVE  TypeOK'
    BY <1>3 DEF Download, TypeOK
  <1>4. CASE OnPieceComplete
    BY <1>4 DEF OnPieceComplete, TypeOK
  <1>5. ASSUME NEW slow \in BOOLEAN, Tick(slow)
        PROVE  TypeOK'
    <2>1. NextStall \in 0..StallCap
      BY SchedulerAssumption DEF NextStall, Smaller, StallCap, TypeOK
    <2>2. NextMode(NextStall, slow) \in Modes
      BY DEF NextMode, TypeOK, Modes
    <2>3. /\ playhead' \in FilePieces /\ boosting' \in BOOLEAN /\ mode' \in Modes
          /\ stall' \in 0..StallCap
      BY <1>5, <2>1, <2>2, SchedulerAssumption DEF Tick, TypeOK, StallCap
    <2>4. deadlines' \subseteq FilePieces \ have /\ active' \in Nat /\ planned' = TRUE
      BY <1>5, <2>3, PassType DEF Tick, TypeOK
    <2> QED
      BY <1>5, <2>3, <2>4 DEF Tick, TypeOK
  <1>6. CASE BoostElapses
    BY <1>6 DEF BoostElapses, TypeOK
  <1>7. CASE UNCHANGED vars
    BY <1>7 DEF vars, TypeOK
  <1> QED
    BY <1>1, <1>2, <1>3, <1>4, <1>5, <1>6, <1>7 DEF Next

\* Type correctness: the playhead never leaves the selected file and no deadline is
\* ever set on a piece outside it or on one libtorrent has.
THEOREM TypeCorrect == Spec => []TypeOK
  BY InitType, NextType, PTL DEF Spec

-----------------------------------------------------------------------------
(* The hot window is always requested.                                     *)

\* A pass establishes the property, whatever it starts from.
LEMMA PassRequestsHotWindow ==
  ASSUME NEW kept, avail \subseteq have, have' = have,
         playhead' \in FilePieces, boosting' \in BOOLEAN, mode' \in Modes,
         SetDeadlines(kept)
  PROVE  HotWindowRequested'
  <1> SUFFICES
        ASSUME NEW p \in FilePieces, p \notin have,
               p \in playhead'..(playhead'
                        + Smaller(HotSize(boosting', mode'), DeadlineBudget) - 1)
        PROVE  p \in deadlines'
    BY DEF HotWindowRequested, HotSize
  <1>1. p \in Planned(playhead', boosting', mode')
    BY PlanCoversHotWindow
  <1> QED
    BY <1>1 DEF SetDeadlines

\* Every step preserves it: downloads and alerts only remove what is no longer
\* missing, requests and ticks plan again.
LEMMA NextRequested ==
  TypeOK /\ TypeOK' /\ HotWindowRequested /\ [Next]_vars => HotWindowRequested'
  <1> SUFFICES ASSUME TypeOK, TypeOK', HotWindowRequested, [Next]_vars
               PROVE  HotWindowRequested'
    OBVIOUS
  <1>1. ASSUME NEW first \in FilePieces, OnRangeRequest(first)
        PROVE  HotWindowRequested'
    BY <1>1, PassRequestsHotWindow DEF OnRangeRequest, TypeOK
  <1>2. ASSUME NEW slow \in BOOLEAN, Tick(slow)
        PROVE  HotWindowRequested'
    BY <1>2, PassRequestsHotWindow DEF Tick, TypeOK
  <1>3. ASSUME NEW p \in Pieces, Download(p)
        PROVE  HotWindowRequested'
    BY <1>3 DEF Download, HotWindowRequested, HotSize
  <1>4. ASSUME NEW p \in Pieces, MarkComplete(p)
        PROVE  HotWindowRequested'
    BY <1>4 DEF MarkComplete, HotWindowRequested, HotSize
  <1>5. CASE OnPieceComplete \/ BoostElapses \/ UNCHANGED vars
    <2>1. UNCHANGED <<have, deadlines, playhead, mode, boosting, planned>>
      BY <1>5 DEF OnPieceComplete, BoostElapses, vars
    <2> QED
      BY <2>1 DEF HotWindowRequested, HotSize
  <1> QED
    BY <1>1, <1>2, <1>3, <1>4, <1>5 DEF Next

\* For every torrent, file and configuration: once planned, each missing piece
\* of the hot window carries a deadline, as far as the budget reaches
\* (streaming_scheduler.cpp:98-149 after every seek, tick and mode switch).
THEOREM HotWindowTheorem == Spec => []HotWindowRequested
  <1>1. Init => HotWindowRequested
    BY DEF Init, HotWindowRequested
  <1> QED
    BY <1>1, NextRequested, TypeCorrect, PTL DEF Spec

-----------------------------------------------------------------------------
(* active_deadlines.                                                       *)

Ahead(from, complete) == (from..(EndPiece - 1)) \ complete

\* The pieces ahead are finitely many.
LEMMA AheadFinite ==
  ASSUME NEW from \in FilePieces, NEW complete
  PROVE  IsFiniteSet(Ahead(from, complete)) /\ Cardinality(Ahead(from, complete)) \in Nat
  <1>1. IsFiniteSet(from..(EndPiece - 1))
    BY SchedulerAssumption, FS_Interval DEF FilePieces
  <1> QED
    BY <1>1, FS_Subset, FS_CardinalityType DEF Ahead

\* A pass sets the counter to the size of its plan, which lies ahead.
LEMMA PassCounts ==
  ASSUME NEW kept, avail' = avail, marking' = marking,
         playhead' \in FilePieces, boosting' \in BOOLEAN, mode' \in Modes,
         SetDeadlines(kept)
  PROVE  ActiveNeverOvercounts'
  <1> DEFINE plan == Planned(playhead', boosting', mode')
             ahead == Ahead(playhead', avail)
  <1>1. Cardinality(plan) <= DeadlineBudget /\ Cardinality(plan) \in Nat
    BY PlanWithinBudget, PlanPieces
  <1>2. IsFiniteSet(ahead) /\ Cardinality(ahead) \in Nat
    BY AheadFinite
  <1>3. plan \in SUBSET ahead
    BY PlanPieces DEF Ahead
  <1>4. Cardinality(plan) <= Cardinality(ahead)
    BY <1>2, <1>3, FS_Subset
  <1>5. active' = Cardinality(plan)
    BY DEF SetDeadlines
  <1>6. ahead = ((playhead..(EndPiece - 1)) \ avail)'
    BY DEF Ahead
  <1> HIDE DEF plan, ahead
  <1> QED
    BY <1>1, <1>2, <1>4, <1>5, <1>6 DEF ActiveNeverOvercounts

\* Every step preserves the bound.
LEMMA NextCounts ==
  TypeOK /\ TypeOK' /\ ActiveNeverOvercounts /\ [Next]_vars => ActiveNeverOvercounts'
  <1> SUFFICES ASSUME TypeOK, TypeOK', ActiveNeverOvercounts, [Next]_vars
               PROVE  ActiveNeverOvercounts'
    OBVIOUS
  <1> DEFINE ahead == Ahead(playhead, avail)
  <1>0. /\ IsFiniteSet(ahead) /\ Cardinality(ahead) \in Nat /\ active \in Nat
        /\ active <= DeadlineBudget
        /\ active <= Cardinality(ahead) + (IF marking >= playhead THEN 1 ELSE 0)
        /\ playhead \in Nat /\ marking \in Int
    <2>1. playhead \in FilePieces /\ active \in Nat
      BY DEF TypeOK
    <2>2. IsFiniteSet(ahead) /\ Cardinality(ahead) \in Nat
      BY <2>1, AheadFinite
    <2>3. playhead \in Nat /\ marking \in Int
      BY SchedulerAssumption DEF TypeOK, FilePieces, Pieces, NoPiece
    <2> QED
      BY <2>1, <2>2, <2>3 DEF ActiveNeverOvercounts, Ahead
  <1>1. ASSUME NEW first \in FilePieces, OnRangeRequest(first)
        PROVE  ActiveNeverOvercounts'
    BY <1>1, PassCounts DEF OnRangeRequest, TypeOK
  <1>2. ASSUME NEW slow \in BOOLEAN, Tick(slow)
        PROVE  ActiveNeverOvercounts'
    BY <1>2, PassCounts DEF Tick, TypeOK
  <1>3. ASSUME NEW p \in Pieces, MarkComplete(p)
        PROVE  ActiveNeverOvercounts'
    <2>1. ~(marking >= playhead)
      BY <1>0, <1>3 DEF MarkComplete, NoPiece
    <2>2. (Ahead(playhead, avail))' = ahead \ {p}
      BY <1>3 DEF MarkComplete, Ahead
    <2>3. Cardinality(ahead \ {p}) = IF p \in ahead THEN Cardinality(ahead) - 1
                                                   ELSE Cardinality(ahead)
      BY <1>0, FS_RemoveElement
    <2>4. p \in ahead => p >= playhead
      BY <1>0 DEF Ahead
    <2>5. p \in Int
      BY SchedulerAssumption DEF Pieces
    <2>6. active <= Cardinality(ahead \ {p}) + (IF p >= playhead THEN 1 ELSE 0)
      <3> HIDE DEF ahead
      <3> QED
        BY <1>0, <2>1, <2>3, <2>4, <2>5
    <2>7. ((playhead..(EndPiece - 1)) \ avail)' = ahead \ {p}
      BY <2>2 DEF Ahead
    <2> HIDE DEF ahead
    <2> QED
      BY <1>0, <1>3, <2>6, <2>7 DEF MarkComplete, ActiveNeverOvercounts
  <1>4. CASE OnPieceComplete
    <2>1. ((playhead..(EndPiece - 1)) \ avail)' = ahead
      BY <1>4 DEF OnPieceComplete, Ahead
    <2>2. marking' = NoPiece /\ ~(NoPiece >= playhead) /\ playhead' = playhead
      BY <1>0, <1>4 DEF OnPieceComplete, NoPiece
    <2>3. active' <= Cardinality(ahead) /\ active' <= DeadlineBudget
      <3> HIDE DEF ahead
      <3> QED
        BY <1>0, <1>4, SchedulerAssumption DEF OnPieceComplete
    <2> HIDE DEF ahead
    <2> QED
      BY <1>0, <2>1, <2>2, <2>3 DEF ActiveNeverOvercounts
  <1>5. CASE (\E p \in Pieces : Download(p)) \/ BoostElapses \/ UNCHANGED vars
    BY <1>5 DEF Download, BoostElapses, vars, ActiveNeverOvercounts
  <1> QED
    BY <1>1, <1>2, <1>3, <1>4, <1>5 DEF Next

\* For every configuration: the counter the status reports stays within the
\* deadline budget and within what is really missing ahead of the playhead,
\* although alerts decrement it between passes (streaming_scheduler.cpp:42-47,148).
THEOREM ActiveTheorem == Spec => []ActiveNeverOvercounts
  <1>1. Init => ActiveNeverOvercounts
    <2> SUFFICES ASSUME Init
                 PROVE  ActiveNeverOvercounts
      OBVIOUS
    <2>1. playhead \in FilePieces
      BY InitType DEF TypeOK
    <2>2. Cardinality((playhead..(EndPiece - 1)) \ avail) \in Nat
      BY <2>1, AheadFinite DEF Ahead
    <2> QED
      BY <2>2, SchedulerAssumption DEF Init, ActiveNeverOvercounts
  <1> QED
    BY <1>1, NextCounts, TypeCorrect, PTL DEF Spec

-----------------------------------------------------------------------------
(* Seeks.                                                                  *)

\* A plan lies in the windows it was made for.
LEMMA PlanInWindow ==
  ASSUME NEW from, NEW boost, NEW m
  PROVE  Planned(from, boost, m) \subseteq
            from..(from + (HotSize(boost, m) + LookaheadSize(boost, m)) - 1)
  BY DEF Planned, Missing

\* A plan leaves no gap: what it holds comes before every missing piece of the
\* windows that it leaves out, so a budget is never spent behind a hole.
THEOREM PlanHasNoGap ==
  ASSUME NEW from \in FilePieces, NEW boost \in BOOLEAN, NEW m \in Modes,
         NEW p \in Planned(from, boost, m),
         NEW q \in Missing(from, HotSize(boost, m) + LookaheadSize(boost, m)), q < p
  PROVE  q \in Planned(from, boost, m)
  <1> DEFINE missing == Missing(from, HotSize(boost, m) + LookaheadSize(boost, m))
             low == {r \in missing : r < q}
             high == {r \in missing : r < p}
  <1>1. /\ missing \subseteq FilePieces
        /\ IsFiniteSet(low) /\ IsFiniteSet(high)
        /\ p \in missing
    BY WindowSizes, MissingPieces DEF Planned
  <1>2. low \in SUBSET high
    BY <1>1, SchedulerAssumption DEF FilePieces
  <1>3. /\ Cardinality(low) <= Cardinality(high)
        /\ Cardinality(low) \in Nat /\ Cardinality(high) \in Nat
    BY <1>1, <1>2, FS_Subset, FS_CardinalityType
  <1>4. Cardinality(high) < DeadlineBudget
    BY DEF Planned
  <1>5. Cardinality(low) < DeadlineBudget
    <2> HIDE DEF low, high
    <2> QED
      BY <1>3, <1>4, SchedulerAssumption
  <1> QED
    BY <1>5 DEF Planned

\* A step that moves the playhead beyond the hot window is a seek: it leaves only
\* deadlines of its own plan.
LEMMA SeekStep ==
  ASSUME TypeOK, [Next]_vars, Distance(playhead', playhead) > HotWindow
  PROVE  deadlines' \subseteq
            playhead'..(playhead' + HotSize(TRUE, mode) + LookaheadSize(TRUE, mode) - 1)
  <1>1. playhead' # playhead
    <2>1. playhead \in Int
      BY SchedulerAssumption DEF TypeOK, FilePieces
    <2>2. Distance(playhead, playhead) = 0
      BY <2>1 DEF Distance
    <2> QED
      BY <2>2, SchedulerAssumption
  <1>2. PICK first \in FilePieces : OnRangeRequest(first)
    BY <1>1 DEF Next, MarkComplete, Download, OnPieceComplete, Tick, BoostElapses, vars
  <1>3. /\ Distance(first, playhead) > HotWindow
        /\ playhead' = first /\ mode' = mode
    BY <1>2 DEF OnRangeRequest
  <1>4. boosting' = TRUE
    BY <1>2, <1>3 DEF OnRangeRequest
  <1>5. deadlines' \subseteq Planned(playhead', TRUE, mode)
    BY <1>2, <1>3, <1>4 DEF OnRangeRequest, SetDeadlines
  <1>6. HotSize(TRUE, mode) \in Nat /\ LookaheadSize(TRUE, mode) \in Nat
    BY WindowSizes DEF TypeOK
  <1>7. playhead' \in Int
    BY <1>3, SchedulerAssumption DEF FilePieces
  <1>8. playhead' + (HotSize(TRUE, mode) + LookaheadSize(TRUE, mode)) - 1
          = playhead' + HotSize(TRUE, mode) + LookaheadSize(TRUE, mode) - 1
    <2>1. \A a \in Int : \A b, c \in Nat : a + (b + c) - 1 = a + b + c - 1
      OBVIOUS
    <2> QED
      BY <1>6, <1>7, <2>1, Zenon
  <1> QED
    BY <1>5, <1>8, PlanInWindow

\* For every torrent and configuration: after a seek no deadline is left outside the
\* windows of the new position, whatever was requested before and however many pieces
\* the old plan had (streaming_scheduler.cpp:22-32).
THEOREM SeekTheorem == Spec => SeekDropsOldDeadlines
  <1>1. TypeOK /\ [Next]_vars =>
          [Distance(playhead', playhead) > HotWindow
             => deadlines' \subseteq
                  playhead'..(playhead' + HotSize(TRUE, mode)
                                        + LookaheadSize(TRUE, mode) - 1)]_vars
    BY SeekStep
  <1> QED
    BY <1>1, TypeCorrect, PTL DEF Spec, SeekDropsOldDeadlines
=============================================================================
