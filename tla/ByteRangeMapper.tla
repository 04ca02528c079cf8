-------------------------- MODULE ByteRangeMapper --------------------------
(***************************************************************************)
(* seekserve-core byte_range_mapper.cpp: from bytes of a file to pieces of *)
(* the torrent.  A file is a record [offset, size]: its first byte within  *)
(* the torrent and its length.  The span's offsets are left out: the       *)
(* scheduler's mode switch reads first_offset, of the span of byte 0, and  *)
(* has it as a constant (StreamingScheduler's FileOffset).                 *)
(***************************************************************************)
EXTENDS Integers

CONSTANT PieceLength
ASSUME PieceLengthAssumption == PieceLength \in Nat \ {0}

\* libtorrent's file_storage::map_file: the piece of one byte of the file.
MapFile(file, byte) == (file.offset + byte) \div PieceLength

\* Slip: the last piece is taken to be the first.
MapFirstOnly(file, range) == {MapFile(file, range.start)}

\* ByteRangeMapper::map: the pieces of the span, first to last.
Map(file, range) == MapFile(file, range.start)..MapFile(file, range.end)
=============================================================================
