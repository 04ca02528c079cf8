-------------------------- MODULE HttpStreamProofs --------------------------
(***************************************************************************)
(* Proofs about RangeParser, ByteRangeMapper and HttpStream, for files,    *)
(* pieces, chunks and Range headers of any size; last, that HttpStream     *)
(* implements RangeTransfer.                                               *)
(***************************************************************************)
EXTENDS HttpStream, SequenceTheorems, TLAPS

-----------------------------------------------------------------------------
(* The pure functions.                                                     *)

\* A later byte of a file is never in an earlier piece.
LEMMA MapFileMonotone ==
  ASSUME NEW f \in Files, NEW a \in Nat, NEW b \in Nat, a <= b
  PROVE  /\ MapFile(f, a) \in Nat /\ MapFile(f, b) \in Nat
         /\ MapFile(f, a) <= MapFile(f, b)
  <1> DEFINE x == f.offset + a
             y == f.offset + b
  <1>1. x \in Nat /\ y \in Nat /\ x <= y
    BY StreamAssumption DEF Files
  <1> HIDE DEF x, y
  <1>2. x \div PieceLength \in Nat /\ y \div PieceLength \in Nat
        /\ x \div PieceLength <= y \div PieceLength
    BY <1>1, PieceLengthAssumption, SMTT(30)
  <1> QED
    BY <1>2 DEF MapFile, x, y

\* The span of a range covers every byte of it (byte_range_mapper.cpp:18-36).
LEMMA MapCovers ==
  ASSUME NEW f \in Files, NEW range \in Ranges, range.start \in Nat,
         NEW b \in Bytes(range)
  PROVE  MapFile(f, b) \in Map(f, range)
  <1>1. /\ b \in Nat /\ range.end \in Nat
        /\ range.start <= b /\ b <= range.end
    BY DEF Bytes, Ranges
  <1>2. /\ MapFile(f, range.start) \in Nat /\ MapFile(f, b) \in Nat
        /\ MapFile(f, range.start) <= MapFile(f, b)
    BY <1>1, MapFileMonotone
  <1>3. /\ MapFile(f, range.end) \in Nat
        /\ MapFile(f, b) <= MapFile(f, range.end)
    BY <1>1, MapFileMonotone
  <1> QED
    BY <1>2, <1>3 DEF Map

\* The forms of a header, and what its tokens hold.
LEMMA HeaderForms ==
  ASSUME NEW h \in Headers
  PROVE  /\ h.left.value \in Nat /\ h.right.value \in Int
         /\ h.form = "malformed" => ~IsSuffix(h) /\ ~IsOpen(h) /\ ~IsClosed(h)
  <1>1. CASE h \in {Absent, Malformed}
    BY <1>1 DEF Absent, Malformed, NoToken, IsSuffix, IsOpen, IsClosed
  <1>2. ASSUME NEW l \in LeftTokens, NEW r \in RightTokens, h = RangeSpec(l, r)
        PROVE  /\ h.left.value \in Nat /\ h.right.value \in Int
               /\ h.form = "range"
    <2>1. h.left = l /\ h.right = r /\ h.form = "range"
      BY <1>2 DEF RangeSpec
    <2>2. l.value \in Nat
      BY StreamAssumption DEF LeftTokens, NoToken, Junk, Number
    <2>3. r.value \in Int
      BY StreamAssumption DEF RightTokens, NoToken, Junk, Number
    <2> QED
      BY <2>1, <2>2, <2>3
  <1> QED
    BY <1>1, <1>2 DEF Headers

\* What parse_range_header returns lies in the file, and is a range or NoRange.
LEMMA ParseInFile ==
  ASSUME NEW h \in Headers, NEW size \in Nat
  PROVE  \/ ParseRangeHeader(h, size) = NoRange
         \/ \E first, last \in Nat :
               /\ ParseRangeHeader(h, size) = ByteRange(first, last)
               /\ first <= last /\ last < size
  BY HeaderForms DEF ParseRangeHeader, LastByte

\* For every header and every size parse_range_header returns the range of the
\* bytes asked for, and nothing when there are none (range_parser.cpp:5-83).
THEOREM ParseIsExact ==
  ASSUME file \in Files, NEW h \in Headers
  PROVE  /\ Bytes(ParseRangeHeader(h, file.size)) = Asked(h)
         /\ ParseRangeHeader(h, file.size) = NoRange <=> Asked(h) = {}
  <1> DEFINE range == ParseRangeHeader(h, file.size)
  <1>0. /\ file.size \in Nat
        /\ h.left.value \in Nat /\ h.right.value \in Int
    BY HeaderForms, StreamAssumption DEF Files
  <1>1. Bytes(range) = Asked(h)
    <2>1. CASE h.form = "malformed" \/ file.size = 0
      <3>1. range = NoRange
        BY <1>0, <2>1 DEF ParseRangeHeader
      <3>2. Bytes(NoRange) = {}
        BY DEF Bytes, NoRange, ByteRange
      <3>3. Asked(h) = {}
        BY <1>0, <2>1, HeaderForms DEF Asked, FileSpan
      <3> QED
        BY <3>1, <3>2, <3>3
    <2>2. CASE h.form # "malformed" /\ file.size > 0 /\ IsSuffix(h)
      BY <1>0, <2>2 DEF ParseRangeHeader, Bytes, Asked, FileSpan, ByteRange, NoRange,
                        IsSuffix, IsOpen, IsClosed
    <2>3. CASE h.form # "malformed" /\ file.size > 0 /\ IsOpen(h)
      BY <1>0, <2>3 DEF ParseRangeHeader, Bytes, Asked, FileSpan, ByteRange, NoRange,
                        IsSuffix, IsOpen, IsClosed
    <2>4. CASE h.form # "malformed" /\ file.size > 0 /\ IsClosed(h)
      BY <1>0, <2>4 DEF ParseRangeHeader, LastByte, Bytes, Asked, FileSpan, ByteRange,
                        NoRange, IsSuffix, IsOpen, IsClosed
    <2>5. CASE ~IsSuffix(h) /\ ~IsOpen(h) /\ ~IsClosed(h)
      BY <1>0, <2>5 DEF ParseRangeHeader, Bytes, Asked, FileSpan, ByteRange, NoRange
    <2> QED
      BY <1>0, <2>1, <2>2, <2>3, <2>4, <2>5
  <1>2. range = NoRange <=> Bytes(range) = {}
    <2>1. Bytes(NoRange) = {}
      BY DEF Bytes, NoRange, ByteRange
    <2>2. ASSUME NEW first \in Nat, NEW last \in Nat, first <= last,
                 range = ByteRange(first, last)
          PROVE  Bytes(range) # {} /\ range # NoRange
      BY <2>2 DEF Bytes, ByteRange, NoRange
    <2> QED
      BY <1>0, <2>1, <2>2, ParseInFile
  <1> QED
    BY <1>1, <1>2

-----------------------------------------------------------------------------
(* The body.                                                               *)

\* The bytes of a chunk, as a sequence.
LEMMA FileBytesSeq ==
  ASSUME NEW first \in Nat, NEW n \in Nat
  PROVE  /\ FileBytes(first, n) \in Seq(Nat)
         /\ Len(FileBytes(first, n)) = n
         /\ \A i \in 1..n : FileBytes(first, n)[i] = first + i - 1
  BY DEF FileBytes

\* A run of bytes followed by the bytes after it is a longer run.
LEMMA RunGrows ==
  ASSUME NEW s \in Seq(Nat), NEW start \in Nat, NEW n \in Nat,
         \A i \in 1..Len(s) : s[i] = start + i - 1
  PROVE  LET t == s \o FileBytes(start + Len(s), n)
         IN  /\ t \in Seq(Nat)
             /\ Len(t) = Len(s) + n
             /\ \A i \in 1..Len(t) : t[i] = start + i - 1
  <1> DEFINE base == start + Len(s)
             more == FileBytes(base, n)
             t == s \o more
  <1>1. Len(s) \in Nat /\ base \in Nat
    BY LenProperties
  <1> HIDE DEF base
  <1>2. /\ more \in Seq(Nat)
        /\ Len(more) = n
        /\ \A i \in 1..n : more[i] = base + i - 1
    BY <1>1, FileBytesSeq
  <1> HIDE DEF more
  <1>3. t \in Seq(Nat) /\ Len(t) = Len(s) + n
    BY <1>2, ConcatProperties
  <1>4. ASSUME NEW i \in 1..Len(t)
        PROVE  t[i] = start + i - 1
    <2>0. i \in 1..(Len(s) + Len(more)) /\ i \in Nat
      BY <1>1, <1>2, <1>3
    <2>1. CASE i <= Len(s)
      <3>1. t[i] = s[i]
        BY <1>2, <2>0, <2>1, ConcatProperties
      <3> QED
        BY <1>1, <2>0, <2>1, <3>1
    <2>2. CASE ~(i <= Len(s))
      <3>1. t[i] = more[i - Len(s)]
        BY <1>2, <2>0, <2>2, ConcatProperties
      <3>2. i - Len(s) \in 1..n
        BY <1>1, <1>2, <2>0, <2>2
      <3> QED
        BY <1>1, <1>2, <2>0, <3>1, <3>2 DEF base
    <2> QED
      BY <2>1, <2>2
  <1> QED
    BY <1>3, <1>4 DEF more, base

-----------------------------------------------------------------------------
(* The inductive invariant.                                                *)

\* The promised range begins in the file, and is empty at least.
HeadInv == /\ head.range.start \in Nat
           /\ head.range.start <= head.range.end + 1

\* Until it is answered a request has no head and no body.
Unanswered == pc \in {"reading", "checking", "found"} => head = NoHead /\ body = <<>>

\* The loop's counters say how much of the promise is kept.
LoopInv == pc \in {"body", "write"} =>
               /\ offset = head.range.start + Len(body)
               /\ remaining = head.range.end - head.range.start + 1 - Len(body)

\* The body is, byte for byte, the beginning of the promised range.
BodyFollowsHead ==
    /\ head.range.start + Len(body) - 1 <= head.range.end
    /\ \A i \in 1..Len(body) : body[i] = head.range.start + i - 1

\* A chunk that waits to be sent is within the promise, and its pieces are there.
ChunkInv == pc = "write" =>
               /\ remaining > 0
               /\ chunk <= ChunkLength
               /\ Map(file, ByteRange(offset, offset + ChunkLength - 1)) \subseteq complete

IInv == /\ TypeOK
        /\ HeadInv
        /\ Unanswered
        /\ LoopInv
        /\ ChunkInv
        /\ BodyFollowsHead
        /\ OnlyCompleteBytes
        /\ RangeIsWhatWasAsked

\* The first state: a closed connection.
LEMMA InitInv == Init => IInv
  <1> SUFFICES ASSUME Init
               PROVE  IInv
    OBVIOUS
  <1>1. NoRequest \in Requests
    BY DEF NoRequest, Requests, Headers
  <1>2. NoHead \in [status: Statuses, range: Ranges] /\ NoRange \in Ranges
    BY DEF NoHead, Statuses, Ranges, NoRange, ByteRange
  <1>3. TypeOK
    BY <1>1, <1>2, StreamAssumption DEF Init, TypeOK
  <1> QED
    BY <1>3 DEF Init, IInv, HeadInv, Unanswered, LoopInv, ChunkInv, BodyFollowsHead,
                OnlyCompleteBytes, RangeIsWhatWasAsked, NoHead, NoRange, ByteRange

\* Taking one more chunk, or a part of it, keeps what is said of the body.
LEMMA SendKeepsBody ==
  ASSUME IInv, pc = "write", NEW n \in 0..chunk,
         body' = body \o FileBytes(offset, n), UNCHANGED <<file, complete, head>>
  PROVE  /\ body' \in Seq(Nat) /\ Len(body') = Len(body) + n
         /\ BodyFollowsHead' /\ OnlyCompleteBytes'
  <1> DEFINE start == head.range.start
  <1>1. /\ start \in Nat /\ head.range.end \in Int /\ body \in Seq(Nat)
        /\ offset \in Nat /\ remaining \in Nat /\ n \in Nat /\ file \in Files
        /\ ChunkLength \in Nat /\ n <= ChunkLength /\ ChunkLength <= remaining
    BY StreamAssumption
       DEF IInv, TypeOK, HeadInv, ChunkInv, Ranges, ChunkLength, Least
  <1>2. /\ offset = start + Len(body)
        /\ remaining = head.range.end - start + 1 - Len(body)
        /\ \A i \in 1..Len(body) : body[i] = start + i - 1
    BY DEF IInv, LoopInv, BodyFollowsHead
  <1> HIDE DEF start
  <1>3. /\ body' \in Seq(Nat)
        /\ Len(body') = Len(body) + n
        /\ \A i \in 1..Len(body') : body'[i] = start + i - 1
    <2>1. body' = body \o FileBytes(start + Len(body), n)
      BY <1>2
    <2>2. body \in Seq(Nat) /\ start \in Nat /\ n \in Nat
      BY <1>1
    <2>3. \A i \in 1..Len(body) : body[i] = start + i - 1
      BY <1>2
    <2>4. LET t == body \o FileBytes(start + Len(body), n)
          IN  /\ t \in Seq(Nat)
              /\ Len(t) = Len(body) + n
              /\ \A i \in 1..Len(t) : t[i] = start + i - 1
      BY <2>2, <2>3, RunGrows, Zenon
    <2> QED
      BY <2>1, <2>4
  <1>4. BodyFollowsHead'
    <2>1. Len(body) \in Nat /\ Len(body') \in Nat /\ head' = head
      BY <1>1, <1>3, LenProperties
    <2>2. start + Len(body') - 1 <= head.range.end
      BY <1>1, <1>2, <1>3, <2>1
    <2> QED
      BY <1>3, <2>1, <2>2 DEF BodyFollowsHead, start
  <1>5. ASSUME NEW i \in 1..Len(body')
        PROVE  MapFile(file, body'[i]) \in complete
    <2>1. CASE i <= Len(body)
      <3>1. body'[i] = body[i]
        BY <1>1, <1>2, <1>3, <2>1
      <3> QED
        BY <1>1, <2>1, <3>1 DEF IInv, OnlyCompleteBytes
    <2>2. CASE i > Len(body)
      <3> DEFINE range == ByteRange(offset, offset + ChunkLength - 1)
      <3>1. body'[i] \in Bytes(range)
        <4>1. Len(body) \in Nat
          BY <1>1, LenProperties
        <4>2. i \in Nat /\ i > Len(body) /\ i <= Len(body) + n
          BY <1>1, <1>3, <2>2, <4>1
        <4>3. body'[i] = start + i - 1
          BY <1>3
        <4>4. start + i - 1 \in offset..(offset + ChunkLength - 1)
          BY <1>1, <1>2, <4>1, <4>2
        <4> QED
          BY <4>3, <4>4 DEF Bytes, ByteRange
      <3>2. range \in Ranges /\ range.start \in Nat
        BY <1>1 DEF Ranges, ByteRange
      <3>3. MapFile(file, body'[i]) \in Map(file, range)
        BY <1>1, <3>1, <3>2, MapCovers
      <3> QED
        BY <3>3 DEF IInv, ChunkInv
    <2> QED
      BY <1>1, <1>3, <2>1, <2>2
  <1> QED
    BY <1>3, <1>4, <1>5 DEF OnlyCompleteBytes

\* A promise within the file starts the body at its beginning.
LEMMA PromiseInv ==
  ASSUME IInv, pc = "found", NEW range \in Ranges, NEW status \in Statuses,
         range.start \in Nat, range.start <= range.end + 1,
         Promise(status, range), UNCHANGED <<file, complete, registered, req, chunk, body>>,
         status # 416,
         status = 206 => Bytes(range) = Asked(req.range) /\ Asked(req.range) # {}
  PROVE  IInv'
  <1>1. /\ head' = [status |-> status, range |-> range]
        /\ hinted' = range /\ offset' = range.start
        /\ remaining' = range.end - range.start + 1
        /\ pc' \in {"body", "closed"}
    BY DEF Promise
  <1>2. head'.status = status /\ head'.range = range
    BY <1>1
  <1>3. TypeOK /\ body = <<>> /\ range.end \in Int
    BY DEF IInv, Unanswered, Ranges
  <1>4. remaining' \in Nat
    BY <1>1, <1>3
  <1>5. TypeOK'
    BY <1>1, <1>3, <1>4 DEF TypeOK
  <1>6. HeadInv' /\ LoopInv'
    BY <1>1, <1>2, <1>3 DEF HeadInv, LoopInv
  <1>7. Unanswered' /\ ChunkInv'
    BY <1>1 DEF Unanswered, ChunkInv
  <1>8. BodyFollowsHead' /\ OnlyCompleteBytes'
    BY <1>2, <1>3 DEF BodyFollowsHead, OnlyCompleteBytes
  <1>9. RangeIsWhatWasAsked'
    BY <1>1, <1>2 DEF RangeIsWhatWasAsked, Asked, FileSpan
  <1> QED
    BY <1>5, <1>6, <1>7, <1>8, <1>9 DEF IInv

\* An answer without bytes of the file.
LEMMA AnswerInv ==
  ASSUME IInv, pc \in {"checking", "found"}, NEW status \in Statuses, Answer(status),
         UNCHANGED <<file, complete, registered, req, offset, remaining, chunk, body>>,
         status # 206, status = 416 => Asked(req.range) = {}
  PROVE  IInv'
  <1>1. /\ pc' = "closed" /\ hinted' = hinted
        /\ head' = [status |-> status, range |-> NoRange]
    BY DEF Answer
  <1>2. /\ head'.status = status /\ head'.range = NoRange /\ NoRange \in Ranges
        /\ NoRange.start = 0 /\ NoRange.end = -1
    BY <1>1 DEF NoRange, ByteRange, Ranges
  <1>3. TypeOK /\ body = <<>>
    BY DEF IInv, Unanswered
  <1>4. TypeOK'
    BY <1>1, <1>2, <1>3 DEF TypeOK
  <1>5. HeadInv' /\ LoopInv' /\ Unanswered' /\ ChunkInv'
    BY <1>1, <1>2 DEF HeadInv, LoopInv, Unanswered, ChunkInv
  <1>6. BodyFollowsHead' /\ OnlyCompleteBytes'
    BY <1>2, <1>3 DEF BodyFollowsHead, OnlyCompleteBytes
  <1>7. RangeIsWhatWasAsked'
    BY <1>1, <1>2 DEF RangeIsWhatWasAsked, Asked, FileSpan
  <1> QED
    BY <1>4, <1>5, <1>6, <1>7 DEF IInv

\* Every step keeps the invariant.
LEMMA NextInv == IInv /\ [Next]_vars => IInv'
  <1> SUFFICES ASSUME IInv, [Next]_vars
               PROVE  IInv'
    OBVIOUS
  <1>0. TypeOK
    BY DEF IInv
  <1>1. CASE Connect
    <2>1. /\ NoRequest \in Requests /\ NoRange \in Ranges
          /\ NoHead \in [status: Statuses, range: Ranges]
      BY DEF NoRequest, Requests, Headers, NoHead, Statuses, Ranges, NoRange, ByteRange
    <2>2. TypeOK'
      BY <1>0, <1>1, <2>1, StreamAssumption DEF TypeOK, Connect
    <2> QED
      BY <1>1, <2>2 DEF Connect, IInv, HeadInv, Unanswered, LoopInv, ChunkInv,
                        BodyFollowsHead, OnlyCompleteBytes, RangeIsWhatWasAsked,
                        NoHead, NoRange, ByteRange
  <1>2. CASE RequestFails \/ ReadFails \/ EndBody
    <2>1. /\ pc' = "closed"
          /\ UNCHANGED <<file, complete, registered, req, head, hinted, offset,
                         remaining, chunk, body>>
      BY <1>2 DEF RequestFails, ReadFails, EndBody
    <2>2. TypeOK'
      BY <1>0, <2>1 DEF TypeOK
    <2> QED
      BY <2>1, <2>2 DEF IInv, HeadInv, Unanswered, LoopInv, ChunkInv, BodyFollowsHead,
                        OnlyCompleteBytes, RangeIsWhatWasAsked, Asked, FileSpan
  <1>3. CASE ReadRequest
    <2>1. TypeOK'
      BY <1>0, <1>3 DEF TypeOK, ReadRequest, Inputs
    <2>2. head = NoHead /\ NoHead.status = 0
      BY <1>3 DEF IInv, Unanswered, ReadRequest, NoHead
    <2> QED
      BY <1>3, <2>1, <2>2
         DEF ReadRequest, IInv, HeadInv, Unanswered, LoopInv, ChunkInv, BodyFollowsHead,
             OnlyCompleteBytes, RangeIsWhatWasAsked
  <1>4. CASE Refuse
    BY <1>4, AnswerInv DEF Refuse, Statuses
  <1>5. CASE Lookup
    <2>1. CASE ~registered
      BY <1>5, <2>1, AnswerInv DEF Lookup, Statuses
    <2>2. CASE registered
      <3>1. TypeOK'
        BY <1>0, <1>5, <2>2 DEF TypeOK, Lookup
      <3>2. head = NoHead /\ NoHead.status = 0
        BY <1>5 DEF IInv, Unanswered, Lookup, NoHead
      <3> QED
        BY <1>5, <2>2, <3>1, <3>2
           DEF Lookup, IInv, HeadInv, Unanswered, LoopInv, ChunkInv, BodyFollowsHead,
               OnlyCompleteBytes, RangeIsWhatWasAsked
    <2> QED
      BY <2>1, <2>2
  <1>6. CASE ServeFile
    <2> DEFINE range == ByteRange(0, file.size - 1)
    <2>1. file.size \in Nat
      BY <1>0, StreamAssumption DEF TypeOK, Files
    <2>2. range \in Ranges /\ range.start = 0 /\ range.end = file.size - 1
      BY <2>1 DEF Ranges, ByteRange
    <2>3. Promise(200, range) /\ pc = "found"
          /\ UNCHANGED <<file, complete, registered, req, chunk, body>>
      BY <1>6 DEF ServeFile
    <2> HIDE DEF range
    <2> QED
      BY <2>1, <2>2, <2>3, PromiseInv DEF Statuses
  <1>7. CASE ServeRange
    <2> DEFINE range == ParseRangeHeader(req.range, file.size)
    <2>1. file \in Files /\ file.size \in Nat /\ req.range \in Headers
      BY <1>0, StreamAssumption DEF TypeOK, Files, Requests
    <2>2. /\ Bytes(range) = Asked(req.range)
          /\ range = NoRange <=> Asked(req.range) = {}
      BY <2>1, ParseIsExact
    <2>3. range = NoRange \/ \E first, last \in Nat : /\ range = ByteRange(first, last)
                                                     /\ first <= last /\ last < file.size
      BY <2>1, ParseInFile
    <2>4. /\ pc = "found"
          /\ \/ range = NoRange /\ Answer(416) /\ UNCHANGED <<offset, remaining>>
             \/ range # NoRange /\ Promise(206, range)
          /\ UNCHANGED <<file, complete, registered, req, chunk, body>>
      BY <1>7 DEF ServeRange
    <2> HIDE DEF range
    <2>5. CASE range = NoRange
      BY <2>2, <2>4, <2>5, AnswerInv DEF Statuses
    <2>6. CASE range # NoRange
      <3>1. range \in Ranges /\ range.start \in Nat /\ range.start <= range.end + 1
        BY <2>3, <2>6 DEF Ranges, ByteRange
      <3> QED
        BY <2>2, <2>4, <2>6, <3>1, PromiseInv DEF Statuses
    <2> QED
      BY <2>5, <2>6
  <1>8. ASSUME NEW n \in 0..ChunkSize, ReadChunk(n)
        PROVE  IInv'
    <2>1. TypeOK'
      BY <1>0, <1>8 DEF TypeOK, ReadChunk
    <2>2. ChunkInv'
      BY <1>0, <1>8, StreamAssumption DEF ReadChunk, ChunkInv, ChunkLength, Least, TypeOK
    <2> QED
      BY <1>8, <2>1, <2>2
         DEF ReadChunk, IInv, HeadInv, Unanswered, LoopInv, BodyFollowsHead,
             OnlyCompleteBytes, RangeIsWhatWasAsked, Asked, FileSpan
  <1>9. CASE WriteChunk
    <2>1. chunk \in 0..chunk /\ chunk \in Nat
      BY <1>0, StreamAssumption DEF TypeOK
    <2>2. /\ body' \in Seq(Nat) /\ Len(body') = Len(body) + chunk
          /\ BodyFollowsHead' /\ OnlyCompleteBytes'
      BY <1>9, <2>1, SendKeepsBody DEF WriteChunk
    <2>3. /\ offset' = offset + chunk /\ remaining' = remaining - chunk
          /\ offset \in Nat /\ remaining \in Nat /\ chunk <= remaining
      BY <1>0, <1>9, <2>1, StreamAssumption
         DEF WriteChunk, IInv, ChunkInv, ChunkLength, Least, TypeOK
    <2>4. TypeOK'
      BY <1>0, <1>9, <2>1, <2>2, <2>3 DEF WriteChunk, TypeOK
    <2>5. LoopInv'
      <3>1. /\ offset = head.range.start + Len(body)
            /\ remaining = head.range.end - head.range.start + 1 - Len(body)
            /\ head' = head /\ head.range.start \in Int /\ head.range.end \in Int
            /\ Len(body) \in Nat
        BY <1>0, <1>9, LenProperties DEF IInv, LoopInv, WriteChunk, TypeOK, Ranges
      <3>2. /\ offset' = head.range.start + Len(body')
            /\ remaining' = head.range.end - head.range.start + 1 - Len(body')
        <4> DEFINE start == head.range.start
                   end == head.range.end
                   sent == Len(body)
                   sent2 == Len(body')
        <4>1. /\ start \in Int /\ end \in Int /\ sent \in Nat /\ chunk \in Nat
              /\ sent2 = sent + chunk
              /\ offset = start + sent /\ remaining = end - start + 1 - sent
              /\ offset' = offset + chunk /\ remaining' = remaining - chunk
          BY <2>1, <2>2, <2>3, <3>1
        <4> HIDE DEF start, end, sent, sent2
        <4>2. offset' = start + sent2 /\ remaining' = end - start + 1 - sent2
          BY <4>1
        <4> QED
          BY <4>2 DEF start, end, sent2
      <3> QED
        BY <3>1, <3>2 DEF LoopInv
    <2> QED
      BY <1>9, <2>2, <2>4, <2>5
         DEF WriteChunk, IInv, HeadInv, Unanswered, ChunkInv, RangeIsWhatWasAsked,
             Asked, FileSpan
  <1>10. CASE WriteFails
    <2>1. PICK n \in 0..chunk : body' = body \o FileBytes(offset, n)
      BY <1>10 DEF WriteFails
    <2>2. /\ body' \in Seq(Nat)
          /\ BodyFollowsHead' /\ OnlyCompleteBytes'
      BY <1>10, <2>1, SendKeepsBody DEF WriteFails
    <2>3. TypeOK'
      BY <1>0, <1>10, <2>2 DEF WriteFails, TypeOK
    <2> QED
      BY <1>10, <2>2, <2>3
         DEF WriteFails, IInv, HeadInv, Unanswered, LoopInv, ChunkInv,
             RangeIsWhatWasAsked, Asked, FileSpan
  <1>11. ASSUME NEW p \in Pieces, MarkComplete(p)
         PROVE  IInv'
    <2>1. TypeOK'
      BY <1>0, <1>11 DEF MarkComplete, TypeOK
    <2>2. ChunkInv' /\ OnlyCompleteBytes'
      BY <1>11 DEF MarkComplete, IInv, ChunkInv, OnlyCompleteBytes, ChunkLength
    <2> QED
      BY <1>11, <2>1, <2>2
         DEF MarkComplete, IInv, HeadInv, Unanswered, LoopInv, BodyFollowsHead,
             RangeIsWhatWasAsked, Asked, FileSpan
  <1>12. CASE RemoveByteSource \/ UNCHANGED vars
    <2>1. /\ registered' \in BOOLEAN
          /\ UNCHANGED <<file, complete, pc, req, head, hinted, offset, remaining,
                         chunk, body>>
      BY <1>0, <1>12 DEF RemoveByteSource, vars, TypeOK
    <2>2. TypeOK'
      BY <1>0, <2>1 DEF TypeOK
    <2> QED
      BY <2>1, <2>2
         DEF IInv, HeadInv, Unanswered, LoopInv, ChunkInv, ChunkLength, BodyFollowsHead,
             OnlyCompleteBytes, RangeIsWhatWasAsked, Asked, FileSpan
  <1> QED
    BY <1>1, <1>2, <1>3, <1>4, <1>5, <1>6, <1>7, <1>8, <1>9, <1>10, <1>11, <1>12
       DEF Next, Serve, Talk

\* The invariant always holds.
LEMMA InvHolds == Spec => []IInv
  BY InitInv, NextInv, PTL DEF Spec

\* Type correctness: the counters of stream_body never go below zero.
THEOREM TypeCorrect == Spec => []TypeOK
  <1>1. IInv => TypeOK
    BY DEF IInv
  <1> QED
    BY <1>1, InvHolds, PTL

\* A 206 promises exactly what the Range header asked for, a 416 says that it asked
\* for nothing of the file (http_range_server.cpp:421-440).
THEOREM RangeTheorem == Spec => []RangeIsWhatWasAsked
  <1>1. IInv => RangeIsWhatWasAsked
    BY DEF IInv
  <1> QED
    BY <1>1, InvHolds, PTL

\* The body is a beginning of the promised range, for every chunk size and every
\* pattern of short reads and failures (http_range_server.cpp:333-356).
THEOREM BodyTheorem == Spec => []BodyFollowsHead
  <1>1. IInv => BodyFollowsHead
    BY DEF IInv
  <1> QED
    BY <1>1, InvHolds, PTL

\* No byte is sent whose piece is not complete, wherever file, pieces and chunks
\* begin and end.
THEOREM CompleteBytesTheorem == Spec => []OnlyCompleteBytes
  <1>1. IInv => OnlyCompleteBytes
    BY DEF IInv
  <1> QED
    BY <1>1, InvHolds, PTL

-----------------------------------------------------------------------------
(* Refinement: a connection implements RangeTransfer.                      *)

\* What the abstract specification sees of the pieces.
Ready == {b \in FileSpan : MapFile(file, b) \in complete}

PromiseInFile == head.range.end < file.size

LEMMA PromiseInFileStep ==
  ASSUME IInv, PromiseInFile, [Next]_vars
  PROVE  PromiseInFile'
  <1>0. file.size \in Nat /\ file \in Files
    BY StreamAssumption DEF IInv, TypeOK, Files
  <1>1. NoRange.end = -1 /\ NoHead.range = NoRange
    BY DEF NoRange, NoHead, ByteRange
  <1>2. ASSUME NEW status, Answer(status), file' = file
        PROVE  PromiseInFile'
    BY <1>0, <1>1, <1>2 DEF Answer, PromiseInFile
  <1>3. ASSUME NEW status, NEW range, Promise(status, range), file' = file,
               range.end < file.size
        PROVE  PromiseInFile'
    BY <1>3 DEF Promise, PromiseInFile
  <1>4. CASE Connect
    BY <1>0, <1>1, <1>4 DEF Connect, PromiseInFile
  <1>5. CASE Refuse \/ Lookup
    <2>1. file' = file /\ (head' = head \/ \E status \in {403, 404, 405} : Answer(status))
      BY <1>5 DEF Refuse, Lookup
    <2> QED  BY <1>2, <2>1 DEF PromiseInFile
  <1>6. CASE ServeFile
    <2>1. ByteRange(0, file.size - 1).end < file.size
      BY <1>0 DEF ByteRange
    <2> QED  BY <1>3, <1>6, <2>1 DEF ServeFile
  <1>7. CASE ServeRange
    <2> DEFINE range == ParseRangeHeader(req.range, file.size)
    <2>1. range # NoRange => range.end < file.size
      <3>1. req.range \in Headers
        BY DEF IInv, TypeOK, Requests
      <3> QED  BY <1>0, <3>1, ParseInFile DEF ByteRange
    <2>2. file' = file /\ (Answer(416) \/ (range # NoRange /\ Promise(206, range)))
      BY <1>7 DEF ServeRange
    <2> HIDE DEF range
    <2> QED  BY <1>2, <1>3, <2>1, <2>2
  <1>8. CASE \/ RequestFails \/ ReadRequest \/ (\E n \in 0..ChunkSize : ReadChunk(n))
             \/ ReadFails \/ EndBody \/ WriteChunk \/ WriteFails
             \/ (\E p \in Pieces : MarkComplete(p)) \/ RemoveByteSource \/ UNCHANGED vars
    <2>1. UNCHANGED <<file, head>>
      BY <1>8 DEF RequestFails, ReadRequest, ReadChunk, ReadFails, EndBody, WriteChunk,
                  WriteFails, MarkComplete, RemoveByteSource, vars
    <2> QED  BY <2>1 DEF PromiseInFile
  <1> QED
    BY <1>4, <1>5, <1>6, <1>7, <1>8 DEF Next, Serve, Talk

LEMMA PhaseIs ==
  ASSUME TypeOK
  PROVE  /\ Phase \in {"over", "asked", "serving"}
         /\ Phase = "over" <=> pc = "closed"
         /\ Phase = "serving" <=> pc \in {"body", "write"}
  BY DEF TypeOK, Phase

LEMMA PhaseIsNext ==
  ASSUME TypeOK'
  PROVE  /\ Phase' \in {"over", "asked", "serving"}
         /\ Phase' = "over" <=> pc' = "closed"
         /\ Phase' = "serving" <=> pc' \in {"body", "write"}
  BY DEF TypeOK, Phase

\* Steps that only move the thread: within a phase, or to the end.
LEMMA ThreadMoves ==
  ASSUME TypeOK, TypeOK', UNCHANGED <<file, complete, head, body>>,
         Phase' = Phase \/ pc' = "closed"
  PROVE  Transfer!Next \/ UNCHANGED Transfer!vars
  <1>1. Ready' = Ready
    BY DEF Ready, FileSpan
  <1>2. CASE Phase' = Phase
    BY <1>1, <1>2 DEF Transfer!vars, Ready
  <1>3. CASE Phase' # Phase /\ pc' = "closed"
    <2>1. Transfer!GiveUp
      BY <1>1, <1>3, PhaseIs, PhaseIsNext DEF Transfer!GiveUp, Ready
    <2> QED  BY <2>1 DEF Transfer!Next
  <1> QED  BY <1>2, <1>3

\* What goes out is next, and there.
LEMMA SendRefines ==
  ASSUME IInv, PromiseInFile, TypeOK', pc = "write", pc' \in {"body", "closed"},
         NEW n \in 0..chunk, body' = body \o FileBytes(offset, n),
         UNCHANGED <<file, complete, head>>
  PROVE  Transfer!Next \/ UNCHANGED Transfer!vars
  <1> DEFINE start == head.range.start
             end == head.range.end
             sent == Len(body)
  <1>1. /\ start \in Nat /\ end \in Int /\ sent \in Nat /\ body \in Seq(Nat)
        /\ offset \in Nat /\ remaining \in Nat /\ n \in Nat /\ file \in Files
        /\ ChunkLength \in Nat /\ n <= ChunkLength /\ ChunkLength <= remaining
    BY StreamAssumption, LenProperties
       DEF IInv, TypeOK, HeadInv, ChunkInv, Ranges, ChunkLength, Least
  <1>2. offset = start + sent /\ remaining = end - start + 1 - sent
    BY DEF IInv, LoopInv
  <1>3. file.size \in Nat /\ end < file.size
    BY <1>1, StreamAssumption DEF PromiseInFile, Files
  <1>4. Phase = "serving" /\ Phase' \in {"serving", "over"} /\ Ready' = Ready
    BY PhaseIs, PhaseIsNext DEF IInv, Ready, FileSpan
  <1>5. CASE n = 0
    <2>1. FileBytes(offset, n) \in Seq(Nat) /\ Len(FileBytes(offset, n)) = 0
      BY <1>1, <1>5, FileBytesSeq
    <2>2. FileBytes(offset, n) = <<>>
      BY <2>1, EmptySeq
    <2>3. body' = body
      BY <1>1, <2>2, ConcatEmptySeq
    <2> QED
      BY <1>4, <2>3, ThreadMoves, PhaseIsNext DEF IInv
  <1>6. CASE n > 0
    <2>1. Transfer!NextByte = offset
      BY <1>2 DEF Transfer!NextByte
    <2>2. n \in 1..Transfer!Left
      <3> HIDE DEF start, end, sent
      <3>1. end - offset + 1 = remaining
        BY <1>1, <1>2
      <3>2. n \in 1..(end - offset + 1)
        BY <1>1, <1>6, <3>1
      <3> QED  BY <2>1, <3>2 DEF Transfer!Left, end
    <2>3. ASSUME NEW b \in offset .. offset + n - 1
          PROVE  b \in Ready
      <3> HIDE DEF start, end, sent
      <3> DEFINE range == ByteRange(offset, offset + ChunkLength - 1)
      <3>1. b \in Nat /\ b <= offset + ChunkLength - 1 /\ offset <= b
        BY <1>1, <2>3
      <3>2. b < file.size
        BY <1>1, <1>2, <1>3, <3>1
      <3>3. range \in Ranges /\ range.start \in Nat /\ b \in Bytes(range)
        BY <1>1, <3>1 DEF Ranges, ByteRange, Bytes
      <3>4. MapFile(file, b) \in Map(file, range)
        BY <1>1, <3>3, MapCovers
      <3>5. Map(file, range) \subseteq complete
        BY DEF IInv, ChunkInv
      <3> QED  BY <1>3, <3>1, <3>2, <3>4, <3>5 DEF Ready, FileSpan
    <2>4. Transfer!Deliver(n)
      <3>1. FileBytes(offset, n) = [i \in 1..n |-> Transfer!NextByte + i - 1]
        BY <2>1 DEF FileBytes
      <3>2. Transfer!NextByte .. Transfer!NextByte + n - 1 \subseteq Ready
        BY <2>1, <2>3
      <3> QED  BY <1>4, <3>1, <3>2 DEF Transfer!Deliver, Ready
    <2> QED  BY <2>2, <2>4 DEF Transfer!Next
  <1> QED  BY <1>1, <1>5, <1>6

LEMMA TransferStep ==
  ASSUME IInv, IInv', PromiseInFile, [Next]_vars
  PROVE  Transfer!Next \/ UNCHANGED Transfer!vars
  <1> TypeOK /\ TypeOK'
    BY DEF IInv
  <1> DEFINE Replies == /\ pc \in {"checking", "found"} /\ pc' \in {"body", "closed"}
                        /\ pc' = "body" => head'.status \in {200, 206}
                        /\ head'.status # 0
                        /\ UNCHANGED <<file, complete, body>>
  <1>1. CASE Connect
    <2>1. Phase = "over" /\ Phase' = "asked" /\ Ready' = Ready
      BY <1>1, PhaseIs, PhaseIsNext DEF Connect, Ready, FileSpan
    <2>2. Transfer!Ask
      BY <1>1, <2>1
         DEF Connect, Transfer!Ask, Transfer!NoPromise, NoHead, NoRange, ByteRange, Ready
    <2> QED  BY <2>2 DEF Transfer!Next
  <1>2. CASE Replies
    <2>1. /\ Phase = "asked" /\ Phase' \in {"serving", "over"} /\ Ready' = Ready
          /\ Phase' = "serving" => head'.status \in {200, 206}
      BY <1>2, PhaseIs, PhaseIsNext DEF Ready, FileSpan
    <2>2. head' \in Transfer!Promises
      <3>1. head' \in [status: Statuses, range: Ranges] /\ head'.status # 0
        BY <1>2 DEF TypeOK
      <3> QED  BY <3>1 DEF Statuses, Ranges, Transfer!Promises
    <2>3. Transfer!Reply
      BY <1>2, <2>1, <2>2 DEF Transfer!Reply, Transfer!Kept, Ready
    <2> QED  BY <2>3 DEF Transfer!Next
  <1>3. CASE Refuse \/ Lookup \/ ServeFile \/ ServeRange
    <2>1. CASE Replies
      BY <1>2, <2>1
    <2>2. CASE Lookup /\ registered
      <3>1. Phase' = Phase /\ UNCHANGED <<file, complete, head, body>>
        BY <2>2 DEF Lookup, Phase
      <3> QED  BY <3>1, ThreadMoves
    <2> QED
      BY <1>3, <2>1, <2>2 DEF Refuse, Lookup, ServeFile, ServeRange, Promise, Answer
  <1>4. CASE \/ RequestFails \/ ReadRequest \/ (\E n \in 0..ChunkSize : ReadChunk(n))
             \/ ReadFails \/ EndBody \/ RemoveByteSource \/ UNCHANGED vars
    <2>1. UNCHANGED <<file, complete, head, body>> /\ (Phase' = Phase \/ pc' = "closed")
      BY <1>4 DEF RequestFails, ReadRequest, ReadChunk, ReadFails, EndBody,
                  RemoveByteSource, vars, Phase
    <2> QED  BY <2>1, ThreadMoves
  <1>5. CASE WriteChunk
    <2>1. chunk \in 0..chunk
      BY StreamAssumption DEF TypeOK
    <2> QED  BY <1>5, <2>1, SendRefines DEF WriteChunk
  <1>6. CASE WriteFails
    BY <1>6, SendRefines DEF WriteFails
  <1>7. ASSUME NEW p \in Pieces, MarkComplete(p)
        PROVE  Transfer!Next
    <2>1. Ready \subseteq Ready' /\ Phase' = Phase
      BY <1>7 DEF MarkComplete, Ready, FileSpan, Phase
    <2>2. Transfer!Gain
      BY <1>7, <2>1 DEF MarkComplete, Transfer!Gain, Ready
    <2> QED  BY <2>2 DEF Transfer!Next
  <1> QED
    BY <1>1, <1>3, <1>4, <1>5, <1>6, <1>7 DEF Next, Serve, Talk

\* A connection implements the transfer a player may count on, for every file, range,
\* chunk size and order of completed pieces, short reads, failures and disconnections
\* (http_range_server.cpp:266-456).
THEOREM TransferTheorem == Spec => KeepsTransfer
  <1>1. Init => PromiseInFile
    BY StreamAssumption DEF Init, PromiseInFile, NoHead, NoRange, ByteRange, Files
  <1>2. IInv /\ PromiseInFile /\ [Next]_vars => PromiseInFile'
    BY PromiseInFileStep
  <1>3. Init => Transfer!Init
    BY DEF Init, Phase, Transfer!Init, Transfer!NoPromise, NoHead, NoRange, ByteRange,
           FileSpan
  <1>4. IInv /\ IInv' /\ PromiseInFile /\ [Next]_vars => [Transfer!Next]_(Transfer!vars)
    BY TransferStep
  <1> QED
    BY <1>1, <1>2, <1>3, <1>4, InvHolds, PTL DEF Spec, KeepsTransfer, Transfer!Spec
=============================================================================
