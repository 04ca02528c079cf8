----------------------------- MODULE HttpStream -----------------------------
(***************************************************************************)
(* seekserve-serve HttpRangeServer::handle_connection: one request of one  *)
(* connection, from the request line to the last byte of the body.         *)
(*                                                                         *)
(* The body is sent in chunks of at most ChunkSize bytes.  Each chunk is   *)
(* one ByteSource::read, which waits for the pieces of its bytes (module   *)
(* ByteSource shows how); the swarm completes pieces and the engine takes  *)
(* the source out of the table meanwhile.  The reader on the other side    *)
(* may go away at any time, and a read may return less than it was asked.  *)
(***************************************************************************)
EXTENDS RangeParser, ByteRangeMapper, Sequences

CONSTANTS ChunkSize,  \* kChunkSize
          MaxOffset,  \* bound: the file's first byte within the torrent
          MaxSize,    \* bound: the file's size
          MaxNumber   \* bound: numbers in a Range header

ASSUME StreamAssumption == /\ ChunkSize \in Nat \ {0}
                           /\ MaxOffset \in Nat
                           /\ MaxSize \in Nat
                           /\ MaxNumber \in Nat

VARIABLES file,        \* the stream's file: [offset, size]
          complete,    \* PieceAvailabilityIndex::completed_, as a set
          registered,  \* is the source in HttpRangeServer::sources_
          pc,          \* where the connection's thread is
          req,         \* the request
          head,        \* the response's status and the range its headers promise
          hinted,      \* the range the scheduler was told of
          offset,      \* stream_body: next byte of the file
          remaining,   \* stream_body: bytes left to send
          chunk,       \* bytes the last read returned
          body         \* the bytes of the file that were sent, in order

vars == <<file, complete, registered, pc, req, head, hinted, offset, remaining,
          chunk, body>>

Least(a, b) == IF a < b THEN a ELSE b

Files == [offset: 0..MaxOffset, size: 0..MaxSize]
Pieces == 0..MapFile([offset |-> MaxOffset], MaxSize)

\* A left token has no sign: the dash before it would be the separator.
LeftTokens  == {NoToken, Junk} \cup {Number(n) : n \in 0..MaxNumber}
RightTokens == {NoToken, Junk} \cup {Number(n) : n \in -MaxNumber..MaxNumber}
Headers == {Absent, Malformed} \cup {RangeSpec(l, r) : l \in LeftTokens, r \in RightTokens}

\* A request: its method, whether its target parses, whether its token is right.
Requests == [method: {"get", "head", "other"}, parses: BOOLEAN,
             authorized: BOOLEAN, range: Headers]

\* Every kind of request that is turned down, and all that are served.
Inputs == {q \in Requests : \/ q.method # "other" /\ q.parses /\ q.authorized
                            \/ q.range = Absent}

NoHead == [status |-> 0, range |-> NoRange]
NoRequest == [method |-> "get", parses |-> TRUE, authorized |-> TRUE, range |-> Absent]

Init == /\ file \in Files
        /\ complete \in SUBSET Pieces
        /\ registered = TRUE
        /\ pc = "closed"
        /\ req = NoRequest
        /\ head = NoHead
        /\ hinted = NoRange
        /\ offset = 0
        /\ remaining = 0
        /\ chunk = 0
        /\ body = <<>>

-----------------------------------------------------------------------------
(* The connection's thread.                                                *)

\* An accepted connection gets its thread.
Connect == /\ pc = "closed"
           /\ pc' = "reading"
           /\ head' = NoHead
           /\ hinted' = NoRange
           /\ offset' = 0
           /\ remaining' = 0
           /\ chunk' = 0
           /\ body' = <<>>
           /\ req' = NoRequest
           /\ UNCHANGED <<file, complete, registered>>

\* http::read of the request fails or times out.
RequestFails == /\ pc = "reading"
                /\ pc' = "closed"
                /\ UNCHANGED <<file, complete, registered, req, head, hinted, offset,
                               remaining, chunk, body>>

ReadRequest == /\ pc = "reading"
               /\ pc' = "checking"
               /\ req' \in Inputs
               /\ UNCHANGED <<file, complete, registered, head, hinted, offset,
                              remaining, chunk, body>>

\* send_error and the other answers without a body from the file.
Answer(status) == /\ pc' = "closed"
                  /\ head' = [status |-> status, range |-> NoRange]
                  /\ UNCHANGED hinted

\* Method, target and token, in this order.
Refuse == /\ pc = "checking"
          /\ \/ req.method = "other" /\ Answer(405)
             \/ req.method # "other" /\ ~req.parses /\ Answer(404)
             \/ req.method # "other" /\ req.parses /\ ~req.authorized /\ Answer(403)
          /\ UNCHANGED <<file, complete, registered, req, offset, remaining, chunk, body>>

\* Under sources_mu_.
Lookup == /\ pc = "checking"
          /\ req.method # "other" /\ req.parses /\ req.authorized
          /\ \/ registered /\ pc' = "found" /\ UNCHANGED <<head, hinted>>
             \/ ~registered /\ Answer(404)
          /\ UNCHANGED <<file, complete, registered, req, offset, remaining, chunk, body>>

\* The promise of a 200 or 206: tell the scheduler, send the headers, and for GET
\* prepare the body.  Sending the headers may fail.
Promise(status, range) ==
    /\ head' = [status |-> status, range |-> range]
    /\ hinted' = range
    /\ \/ req.method = "get" /\ pc' = "body"
       \/ pc' = "closed"
    /\ offset' = range.start
    /\ remaining' = range.end - range.start + 1

\* Without Range header: the whole file.
ServeFile == /\ pc = "found"
             /\ req.range = Absent
             /\ Promise(200, ByteRange(0, file.size - 1))
             /\ UNCHANGED <<file, complete, registered, req, chunk, body>>

ServeRange == /\ pc = "found"
              /\ req.range # Absent
              /\ LET range == ParseRangeHeader(req.range, file.size)
                 IN  \/ /\ range = NoRange
                        /\ Answer(416)
                        /\ UNCHANGED <<offset, remaining>>
                     \/ /\ range # NoRange
                        /\ Promise(206, range)
              /\ UNCHANGED <<file, complete, registered, req, chunk, body>>

\* Slip: always a whole chunk.
WholeChunk == ChunkSize

ChunkLength == Least(ChunkSize, remaining)

\* ByteSource::read returns bytes: their pieces are complete.  The file on disk
\* may end early.
ReadChunk(n) == /\ pc = "body"
                /\ remaining > 0
                /\ n \in 0..ChunkLength
                /\ Map(file, ByteRange(offset, offset + ChunkLength - 1)) \subseteq complete
                /\ chunk' = n
                /\ pc' = "write"
                /\ UNCHANGED <<file, complete, registered, req, head, hinted, offset,
                               remaining, body>>

\* ByteSource::read returns cancelled, timeout or io_error.
ReadFails == /\ pc = "body"
             /\ remaining > 0
             /\ pc' = "closed"
             /\ UNCHANGED <<file, complete, registered, req, head, hinted, offset,
                            remaining, chunk, body>>

FileBytes(first, n) == [i \in 1..n |-> first + i - 1]

\* Slip: a short read is written and the loop goes on as if it had been full.
WriteChunkAsFull ==
    /\ pc = "write"
    /\ body' = body \o FileBytes(offset, chunk)
    /\ remaining' = remaining - ChunkLength
    /\ offset' = offset + ChunkLength
    /\ pc' = "body"
    /\ UNCHANGED <<file, complete, registered, req, head, hinted, chunk>>

\* Slip: a short read does not end the loop.
WriteChunkAndRetry ==
    /\ pc = "write"
    /\ body' = body \o FileBytes(offset, chunk)
    /\ remaining' = remaining - chunk
    /\ offset' = offset + chunk
    /\ pc' = "body"
    /\ UNCHANGED <<file, complete, registered, req, head, hinted, chunk>>

\* net::write of the chunk; a short read ends the loop.
WriteChunk == /\ pc = "write"
              /\ body' = body \o FileBytes(offset, chunk)
              /\ remaining' = remaining - chunk
              /\ offset' = offset + chunk
              /\ pc' = IF chunk < ChunkLength THEN "closed" ELSE "body"
              /\ UNCHANGED <<file, complete, registered, req, head, hinted, chunk>>

\* The client is gone; a part of the chunk may have reached it.
WriteFails == /\ pc = "write"
              /\ \E n \in 0..chunk : body' = body \o FileBytes(offset, n)
              /\ pc' = "closed"
              /\ UNCHANGED <<file, complete, registered, req, head, hinted, offset,
                             remaining, chunk>>

\* The loop ends: everything was sent.
EndBody == /\ pc = "body"
           /\ remaining <= 0
           /\ pc' = "closed"
           /\ UNCHANGED <<file, complete, registered, req, head, hinted, offset,
                          remaining, chunk, body>>

-----------------------------------------------------------------------------
(* The engine and the swarm.                                               *)

MarkComplete(p) == /\ p \notin complete
                   /\ complete' = complete \cup {p}
                   /\ UNCHANGED <<file, registered, pc, req, head, hinted, offset,
                                  remaining, chunk, body>>

RemoveByteSource == /\ registered
                    /\ registered' = FALSE
                    /\ UNCHANGED <<file, complete, pc, req, head, hinted, offset,
                                   remaining, chunk, body>>

-----------------------------------------------------------------------------
\* Steps of the connection's thread that do not wait for the client.
Serve == \/ Refuse \/ Lookup \/ ServeFile \/ ServeRange
         \/ (\E n \in 0..ChunkSize : ReadChunk(n)) \/ ReadFails
         \/ EndBody

\* Steps that do.
Talk == RequestFails \/ ReadRequest \/ WriteChunk \/ WriteFails

Next == \/ Connect
        \/ Serve
        \/ Talk
        \/ \E p \in Pieces : MarkComplete(p)
        \/ RemoveByteSource

\* The thread of a connection runs, and a read ends by its timeout.  The client and
\* the swarm owe nothing.
Spec == Init /\ [][Next]_vars /\ WF_vars(Serve)

-----------------------------------------------------------------------------
Statuses == {0, 200, 206, 403, 404, 405, 416}
Ranges == [start: Int, end: Int]

TypeOK == /\ file \in Files
          /\ complete \subseteq Pieces
          /\ registered \in BOOLEAN
          /\ pc \in {"closed", "reading", "checking", "found", "body", "write"}
          /\ req \in Requests
          /\ head \in [status: Statuses, range: Ranges]
          /\ hinted \in Ranges
          /\ offset \in Nat
          /\ remaining \in Nat
          /\ chunk \in 0..ChunkSize
          /\ body \in Seq(Nat)

Bytes(range) == range.start..range.end
FileSpan == 0..(file.size - 1)

\* The bytes a Range header asks for, by its three forms (HTTP_RANGE_SPEC.md).
Asked(h) == {b \in FileSpan :
                \/ IsSuffix(h) /\ b >= file.size - h.right.value
                \/ IsOpen(h)   /\ b >= h.left.value
                \/ IsClosed(h) /\ h.left.value <= b /\ b <= h.right.value}

\* A 206 promises exactly the bytes of the file that were asked for, a 416 is the
\* answer when there are none, and the scheduler is told the same range.
RangeIsWhatWasAsked ==
    /\ head.status = 206 => /\ Bytes(head.range) = Asked(req.range)
                            /\ Asked(req.range) # {}
                            /\ hinted = head.range
    /\ head.status = 416 => Asked(req.range) = {}

\* What the client gets is, byte for byte, what the headers promised: one connection
\* implements the transfer of the abstract specification.  Nothing is skipped, repeated
\* or beyond the end, nothing comes after the end, and no byte is sent before it is
\* there, whatever the chunks, short reads, failures and disconnections.
Phase == CASE pc = "closed" -> "over"
           [] pc \in {"reading", "checking", "found"} -> "asked"
           [] pc \in {"body", "write"} -> "serving"
Transfer == INSTANCE RangeTransfer WITH
               phase   <- Phase,
               promise <- head,
               got     <- body,
               ready   <- {b \in FileSpan : MapFile(file, b) \in complete}
KeepsTransfer == Transfer!Spec

\* Every byte that was sent belongs to a piece that is complete: the span a chunk
\* waits for covers all its bytes, wherever file, pieces and chunks begin and end.
OnlyCompleteBytes ==
    \A i \in 1..Len(body) : MapFile(file, body[i]) \in complete

\* Every request that was read is over eventually, unless the client neither takes the
\* bytes nor goes away: a read that returns nothing does not keep the loop going.
EveryRequestEnds ==
    pc \notin {"closed", "reading"} ~> (pc = "closed" \/ [](pc = "write"))
=============================================================================
