---------------------------- MODULE MemoryPiece ----------------------------
(***************************************************************************)
(* One piece of a MemoryTorrentStorage: a zero-filled buffer of the        *)
(* piece's size beside the sorted list of byte ranges that have really     *)
(* been written.  The buffer alone cannot tell a written zero from a hole; *)
(* the ranges decide what may be read or hashed.  The module implements    *)
(* ByteMap: no hole is ever served, and nothing written is ever missed.    *)
(*                                                                         *)
(* A write stores one value over its whole range, so that which write a    *)
(* byte comes from stays visible.                                          *)
(***************************************************************************)
EXTENDS Integers, Sequences

CONSTANTS
    Size,       \* piece_size: bytes in the piece
    Block,      \* default_block_size: bytes hash2 hashes at a time
    Values,     \* what a write can store in a byte
    Zero,       \* what a new buffer is filled with
    Absent      \* of the abstract specification

ASSUME MemoryPieceAssumption ==
    /\ Size \in Nat \ {0}
    /\ Block \in Nat \ {0}
    /\ Zero \notin Values
    /\ Absent \notin Values

Byte == 0 .. (Size - 1)

-----------------------------------------------------------------------------
(* Written ranges: sequences of [begin, end), end excluded *)

Ranges == [begin : 0 .. Size, end : 0 .. Size]

BytesOfRange(r) == r.begin .. (r.end - 1)
BytesOf(ranges) == UNION {BytesOfRange(ranges[i]) : i \in DOMAIN ranges}

\* Mutant: two that touch stay apart.
MergeApart(merged, r) ==
    IF merged = <<>> \/ merged[Len(merged)].end <= r.begin
    THEN Append(merged, r)
    ELSE [merged EXCEPT ![Len(merged)].end = IF r.end > @ THEN r.end ELSE @]

MergeStep(merged, r) ==
    IF merged = <<>> \/ merged[Len(merged)].end < r.begin
    THEN Append(merged, r)
    ELSE [merged EXCEPT ![Len(merged)].end = IF r.end > @ THEN r.end ELSE @]

\* The loop over the sorted ranges: what it has merged after each of them.
Merging(sorted) ==
    LET merged[n \in 0 .. Len(sorted)] ==
            IF n = 0 THEN <<>> ELSE MergeStep(merged[n - 1], sorted[n])
    IN  merged

\* std::sort leaves ranges that begin at one byte in any order.
Orders(ranges) ==
    {order \in [DOMAIN ranges -> DOMAIN ranges] :
        /\ \A k \in DOMAIN ranges : \E i \in DOMAIN ranges : order[i] = k
        /\ \A i, j \in DOMAIN ranges :
                i < j => ranges[order[i]].begin <= ranges[order[j]].begin}

Sorted(ranges) ==
    LET order == CHOOSE o \in Orders(ranges) : TRUE
    IN  [i \in DOMAIN ranges |-> ranges[order[i]]]

MergeWrittenRange(ranges, next) ==
    IF next.begin >= next.end
    THEN ranges
    ELSE LET sorted == Sorted(Append(ranges, next)) IN Merging(sorted)[Len(sorted)]

\* The loop stops at the first range that starts after `begin`.
CoversRange(ranges, begin, end) ==
    \/ begin >= end
    \/ \E i \in DOMAIN ranges :
        /\ ranges[i].begin <= begin
        /\ ranges[i].end >= end
        /\ \A j \in 1 .. (i - 1) : ranges[j].begin <= begin

-----------------------------------------------------------------------------

VARIABLES
    held,       \* the piece has an entry, and so a buffer
    bytes,      \* the buffer; all Zero while not held
    written,    \* the written ranges; empty while not held
    answer      \* outcome of the last operation

vars == <<held, bytes, written, answer>>

TypeOK ==
    /\ held \in BOOLEAN
    /\ bytes \in [Byte -> Values \cup {Zero}]
    /\ written \in Seq(Ranges)
    /\ ~held => written = <<>>

None == [kind |-> "none"]
Miss == [kind |-> "miss"]
Refused == [kind |-> "refused"]
Done == [kind |-> "done"]
Data(from, to) == [kind |-> "data", from |-> from, bytes |-> [b \in from .. (to - 1) |-> bytes[b]]]

Empty == [b \in Byte |-> Zero]

Init ==
    /\ held = FALSE
    /\ bytes = Empty
    /\ written = <<>>
    /\ answer = None

\* valid_request, once the piece index is known to be right.
ValidRequest(start, length) ==
    length >= 0 /\ start >= 0 /\ start <= Size /\ length <= Size - start

\* A new entry's buffer is zero-filled, even for an empty write.
Write(start, length, v) ==
    /\ ValidRequest(start, length)
    /\ held' = TRUE
    /\ bytes' = [b \in Byte |-> IF b \in start .. (start + length - 1) THEN v ELSE bytes[b]]
    /\ written' = MergeWrittenRange(written, [begin |-> start, end |-> start + length])
    /\ answer' = Done

\* read and read_into; hash asks for the whole piece and hash2 for one block, and
\* answer with what they found or with the sentinel hash of a missing piece.
Lookup(start, length) ==
    /\ answer' = IF held /\ CoversRange(written, start, start + length)
                 THEN Data(start, start + length)
                 ELSE Miss
    /\ UNCHANGED <<held, bytes, written>>

Read(start, length) == ValidRequest(start, length) /\ Lookup(start, length)

Hash == Lookup(0, Size)

Hash2(offset) ==
    /\ offset >= 0 /\ offset < Size
    /\ Lookup(offset, IF Block < Size - offset THEN Block ELSE Size - offset)

Refuse(start, length) ==
    /\ ~ValidRequest(start, length)
    /\ answer' = Refused
    /\ UNCHANGED <<held, bytes, written>>

\* Mutant: the buffer goes, the ranges stay.
EvictKeepingRanges ==
    /\ held
    /\ bytes' = Empty
    /\ answer' = None
    /\ UNCHANGED <<held, written>>

\* Eviction, clear_piece, clear_all: the entry is erased with its ranges.
Evict ==
    /\ held
    /\ held' = FALSE
    /\ bytes' = Empty
    /\ written' = <<>>
    /\ answer' = None

Asked == -1 .. (Size + 1)

Next ==
    \/ \E start \in Asked, length \in Asked :
        \/ \E v \in Values : Write(start, length, v)
        \/ Read(start, length)
        \/ Refuse(start, length)
    \/ Hash
    \/ \E offset \in Byte : Hash2(offset)
    \/ Evict

Spec == Init /\ [][Next]_vars

-----------------------------------------------------------------------------
(* Properties *)

Stored == INSTANCE ByteMap WITH
    content <- [b \in Byte |-> IF b \in BytesOf(written) THEN bytes[b] ELSE Absent]

\* The piece is a partial map: every read and hash answers with the values last
\* written, or misses because one of the bytes asked for is not stored.
ImplementsByteMap == Stored!Spec
=============================================================================
