---------------------------- MODULE RangeParser ----------------------------
(***************************************************************************)
(* seekserve-serve range_parser.cpp: what parse_range_header makes of a    *)
(* Range header.  A header is what is left of it after trimming and        *)
(* splitting at the first dash: two tokens.  A token is none (empty), junk *)
(* (std::stoll throws: no digits, or beyond 64 bits) or the number that    *)
(* std::stoll reads at its beginning.                                      *)
(***************************************************************************)
EXTENDS Integers

NoToken   == [kind |-> "none",   value |-> 0]
Junk      == [kind |-> "junk",   value |-> 0]
Number(n) == [kind |-> "number", value |-> n]

\* Absent is a request without Range header; a malformed one lacks "bytes=" or
\* the dash, is empty, or lists several ranges.
Absent      == [form |-> "absent",    left |-> NoToken, right |-> NoToken]
Malformed   == [form |-> "malformed", left |-> NoToken, right |-> NoToken]
RangeSpec(l, r) == [form |-> "range", left |-> l, right |-> r]

\* ByteRange, both ends inclusive.  std::nullopt is the empty range.
ByteRange(first, last) == [start |-> first, end |-> last]
NoRange == ByteRange(0, -1)

IsSuffix(h) == h.left.kind = "none"   /\ h.right.kind = "number"
IsOpen(h)   == h.left.kind = "number" /\ h.right.kind = "none"
IsClosed(h) == h.left.kind = "number" /\ h.right.kind = "number"

\* Slip: an end beyond the file is taken as it is.
LastByteUnclamped(end, size) == end

\* Clamp the end to the file.
LastByte(end, size) == IF end >= size THEN size - 1 ELSE end

ParseRangeHeader(h, size) ==
    LET first == h.left.value
        last  == h.right.value
    IN  IF size <= 0 \/ h.form = "malformed"
        THEN NoRange
        ELSE IF IsSuffix(h) /\ last > 0
        THEN ByteRange(IF last >= size THEN 0 ELSE size - last, size - 1)
        ELSE IF IsOpen(h) /\ 0 <= first /\ first < size
        THEN ByteRange(first, size - 1)
        ELSE IF IsClosed(h) /\ 0 <= first /\ first <= last /\ first < size
        THEN ByteRange(first, LastByte(last, size))
        ELSE NoRange
=============================================================================
