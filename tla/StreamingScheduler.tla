------------------------- MODULE StreamingScheduler -------------------------
(***************************************************************************)
(* seekserve-core StreamingScheduler with the PieceAvailabilityIndex it    *)
(* reads and the deadlines it sets in libtorrent.                          *)
(*                                                                         *)
(* Three threads act on it: an HTTP thread calls on_range_request, the     *)
(* alert thread marks a piece and then calls on_piece_complete, the        *)
(* io_context thread calls tick once a second.  tick and the alert handler *)
(* hold the engine's mu_, so no tick falls between the two steps of the    *)
(* handler; a range request does not hold it, and may.                     *)
(***************************************************************************)
EXTENDS Integers, FiniteSets

CONSTANTS
    NumPieces, PieceLength, LastPieceLength,  \* the torrent
    FirstPiece, EndPiece,   \* pieces of the selected file: FirstPiece..EndPiece-1
    FileOffset,             \* where the file starts in its first piece
    HotWindow, Lookahead, SeekBoost, DeadlineBudget,
    MinContiguous,          \* min_contiguous_bytes
    StallThreshold

ASSUME SchedulerAssumption ==
    /\ NumPieces \in Nat /\ FirstPiece \in Nat /\ EndPiece \in Nat
    /\ FirstPiece < EndPiece /\ EndPiece <= NumPieces
    /\ PieceLength \in Nat \ {0} /\ LastPieceLength \in 1..PieceLength
    /\ FileOffset \in 0..(PieceLength - 1)
    /\ HotWindow \in Nat /\ Lookahead \in Nat /\ SeekBoost \in Nat
    /\ DeadlineBudget \in Nat
    /\ MinContiguous \in Nat \ {0}
    /\ StallThreshold \in Nat \ {0}

VARIABLES
    have,       \* pieces libtorrent has
    avail,      \* pieces the availability index holds as complete
    marking,    \* alert handler between mark_complete and on_piece_complete
    deadlines,  \* pieces with a deadline in libtorrent
    playhead,   \* playhead_piece_
    mode,       \* mode_
    active,     \* active_deadlines_
    boosting,   \* seek_boosting_
    boostOver,  \* seek_boost_duration_ms have passed since seek_boost_start_
    stall,      \* stall_count_
    planned     \* history: set_deadlines has run at least once

vars == <<have, avail, marking, deadlines, playhead, mode, active, boosting,
          boostOver, stall, planned>>

Pieces     == 0..(NumPieces - 1)
FilePieces == FirstPiece..(EndPiece - 1)
Modes      == {"StreamingFirst", "DownloadAssist", "DownloadFirst"}
NoPiece    == -1

\* No comparison looks beyond twice the threshold: the counter may stop there.
StallCap == 2 * StallThreshold

Larger(a, b)  == IF a > b THEN a ELSE b
Smaller(a, b) == IF a < b THEN a ELSE b
Distance(a, b) == IF a > b THEN a - b ELSE b - a

-----------------------------------------------------------------------------
(* The two windows of set_deadlines.                                       *)

HotSize(boost, m) ==
    LET size == HotWindow + (IF boost THEN SeekBoost ELSE 0)
    IN  IF m = "DownloadFirst" THEN Larger(3, size \div 2) ELSE size

LookaheadSize(boost, m) ==
    CASE m = "StreamingFirst" -> Lookahead
      [] m = "DownloadAssist" -> 2 * Lookahead
      [] m = "DownloadFirst"  -> HotSize(boost, m)

\* Slip: the window is not clipped to the file.
MissingUnclipped(from, count) == (from..(from + count - 1)) \ avail

Missing(from, count) == ((from..(from + count - 1)) \cap FilePieces) \ avail

\* The pieces a pass of set_deadlines gives a deadline: the missing pieces of
\* the hot window and the lookahead, in piece order, as far as the budget goes.
Planned(from, boost, m) ==
    LET missing == Missing(from, HotSize(boost, m) + LookaheadSize(boost, m))
    IN  {p \in missing :
            Cardinality({q \in missing : q < p}) < DeadlineBudget}

\* set_piece_deadline adds; libtorrent ignores pieces it already has.
SetDeadlines(kept) ==
    LET plan == Planned(playhead', boosting', mode')
    IN  /\ deadlines' = kept \cup (plan \ have)
        /\ active' = Cardinality(plan)
        /\ planned' = TRUE

\* PieceAvailabilityIndex::contiguous_bytes_from(playhead, FileOffset): the
\* bytes of the run of complete pieces that starts at the playhead.
ContiguousRun(from) == {p \in from..(NumPieces - 1) : from..p \subseteq avail}
ContiguousBytes(from) ==
    LET run == ContiguousRun(from)
    IN  IF run = {} THEN 0
        ELSE Cardinality(run) * PieceLength - FileOffset
             - (IF NumPieces - 1 \in run THEN PieceLength - LastPieceLength ELSE 0)

-----------------------------------------------------------------------------
Init == /\ have \in SUBSET Pieces
        /\ avail = have              \* pre-populated by select_file
        /\ marking = NoPiece
        /\ deadlines = {}
        /\ playhead = FirstPiece
        /\ mode = "StreamingFirst"
        /\ active = 0
        /\ boosting = FALSE
        /\ boostOver = FALSE
        /\ stall = 0
        /\ planned = FALSE

\* Slip: the plan is made before the playhead moves.
OnRangeRequestPlansFirst(first) ==
    LET seek == Distance(first, playhead) > HotWindow
        plan == Planned(playhead, boosting \/ seek, mode)
    IN  /\ playhead' = first
        /\ boosting' = (boosting \/ seek)
        /\ boostOver' = (boostOver /\ ~seek)
        /\ deadlines' = (IF seek THEN {} ELSE deadlines) \cup (plan \ have)
        /\ active' = Cardinality(plan)
        /\ planned' = TRUE
        /\ UNCHANGED <<have, avail, marking, mode, stall>>

\* Slip: a seek does not clear the deadlines.
OnRangeRequestKeepsDeadlines(first) ==
    LET seek == Distance(first, playhead) > HotWindow
    IN  /\ playhead' = first
        /\ boosting' = (boosting \/ seek)
        /\ boostOver' = (boostOver /\ ~seek)
        /\ UNCHANGED <<have, avail, marking, mode, stall>>
        /\ SetDeadlines(deadlines)

\* HTTP thread: a Range request whose first byte lies in piece first.  A jump
\* beyond the hot window is a seek: it drops all deadlines and starts the boost.
OnRangeRequest(first) ==
    LET seek == Distance(first, playhead) > HotWindow
    IN  /\ playhead' = first
        /\ boosting' = (boosting \/ seek)
        /\ boostOver' = (boostOver /\ ~seek)
        /\ UNCHANGED <<have, avail, marking, mode, stall>>
        /\ SetDeadlines(IF seek THEN {} ELSE deadlines)

\* Alert thread, piece_finished_alert: avail.mark_complete(piece) ...
MarkComplete(p) ==
    /\ marking = NoPiece
    /\ p \in have \ avail
    /\ avail' = avail \cup {p}
    /\ marking' = p
    /\ UNCHANGED <<have, deadlines, playhead, mode, active, boosting, boostOver,
                   stall, planned>>

\* Slip: the piece at the playhead is not counted.
OnPieceCompleteBeyond ==
    /\ marking # NoPiece
    /\ active' = IF marking > playhead /\ active > 0 THEN active - 1 ELSE active
    /\ marking' = NoPiece
    /\ UNCHANGED <<have, avail, deadlines, playhead, mode, boosting, boostOver,
                   stall, planned>>

\* ... then scheduler->on_piece_complete(piece).
OnPieceComplete ==
    /\ marking # NoPiece
    /\ active' = IF marking >= playhead /\ active > 0 THEN active - 1 ELSE active
    /\ marking' = NoPiece
    /\ UNCHANGED <<have, avail, deadlines, playhead, mode, boosting, boostOver,
                   stall, planned>>

\* Slip: the stall counter is not reset when the playhead piece is there.
NextStallKept == IF playhead \in avail THEN stall ELSE Smaller(stall + 1, StallCap)

\* tick: detect a stall, switch the mode, plan again.
NextStall == IF playhead \in avail THEN 0 ELSE Smaller(stall + 1, StallCap)

NextMode(stalls, slow) ==
    LET buffered == ContiguousBytes(playhead) >= MinContiguous
    IN  CASE mode = "StreamingFirst" ->
                IF stalls >= StallThreshold THEN "DownloadAssist" ELSE mode
          [] mode = "DownloadAssist" ->
                IF buffered /\ stalls = 0 THEN "StreamingFirst"
                ELSE IF slow /\ stalls >= 2 * StallThreshold
                     THEN "DownloadFirst" ELSE mode
          [] mode = "DownloadFirst" ->
                IF buffered THEN "DownloadAssist" ELSE mode

\* slow: the status says download_rate < min_sustained_rate.
Tick(slow) ==
    /\ marking = NoPiece
    /\ boosting' = (boosting /\ ~boostOver)
    /\ mode' = NextMode(NextStall, slow)
    /\ stall' = IF mode' # mode THEN 0 ELSE NextStall
    /\ UNCHANGED <<have, avail, marking, playhead, boostOver>>
    /\ SetDeadlines(deadlines)

-----------------------------------------------------------------------------
(* The environment: the swarm and the clock.                               *)

\* libtorrent finishes a piece (with a deadline or without) and forgets its
\* deadline.  Its alert comes later.
Download(p) ==
    /\ p \notin have
    /\ have' = have \cup {p}
    /\ deadlines' = deadlines \ {p}
    /\ UNCHANGED <<avail, marking, playhead, mode, active, boosting, boostOver,
                   stall, planned>>

BoostElapses ==
    /\ boosting /\ ~boostOver
    /\ boostOver' = TRUE
    /\ UNCHANGED <<have, avail, marking, deadlines, playhead, mode, active,
                   boosting, stall, planned>>

Next == \/ \E p \in FilePieces : OnRangeRequest(p)
        \/ \E p \in Pieces : MarkComplete(p) \/ Download(p)
        \/ OnPieceComplete
        \/ \E slow \in BOOLEAN : Tick(slow)
        \/ BoostElapses

\* The alert thread and the tick timer run; the player and the swarm owe nothing.
Fairness == /\ WF_vars(OnPieceComplete)
            /\ WF_vars(\E p \in Pieces : MarkComplete(p))
            /\ WF_vars(\E slow \in BOOLEAN : Tick(slow))

Spec == Init /\ [][Next]_vars /\ Fairness

-----------------------------------------------------------------------------
\* Every variable stays in its type: the playhead in the file, deadlines only on
\* pieces of the file.
TypeOK == /\ have \subseteq Pieces
          /\ avail \subseteq have
          /\ marking \in Pieces \cup {NoPiece}
          /\ deadlines \subseteq FilePieces \ have
          /\ playhead \in FilePieces
          /\ mode \in Modes
          /\ active \in Nat
          /\ boosting \in BOOLEAN
          /\ boostOver \in BOOLEAN
          /\ stall \in 0..StallCap
          /\ planned \in BOOLEAN

\* The pieces the player needs next always have a deadline: every piece of the
\* hot window that libtorrent does not have yet carries one, as far as the
\* budget reaches, whatever seeks, ticks, mode switches and completions came
\* before.
HotWindowRequested ==
    planned =>
        ((playhead..(playhead + Smaller(HotSize(boosting, mode), DeadlineBudget) - 1))
            \cap FilePieces) \ have \subseteq deadlines

\* active_deadlines never reports more than is outstanding: pieces at or after
\* the playhead that are missing, plus the one whose alert is half handled, and
\* never more than the budget.
ActiveNeverOvercounts ==
    /\ active <= DeadlineBudget
    /\ active <= Cardinality((playhead..(EndPiece - 1)) \ avail)
                 + (IF marking >= playhead THEN 1 ELSE 0)

\* A seek leaves no deadline behind that belongs to the old position: what is
\* requested afterwards lies in the window of the new playhead.
SeekDropsOldDeadlines ==
    [][Distance(playhead', playhead) > HotWindow
         => deadlines' \subseteq
              playhead'..(playhead' + HotSize(TRUE, mode)
                                    + LookaheadSize(TRUE, mode) - 1)]_vars

\* Once the buffer ahead of the player stays full, the scheduler settles in
\* streaming-first, from any mode and whatever stalls it counted before.
Buffered == ContiguousBytes(playhead) >= MinContiguous
SettlesInStreamingFirst ==
    <>[]Buffered => <>[](mode = "StreamingFirst")
=============================================================================
