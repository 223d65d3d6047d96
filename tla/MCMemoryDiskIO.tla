--------------------------- MODULE MCMemoryDiskIO ---------------------------
(***************************************************************************)
(* MemoryDiskIO for TLC: a torrent of two pieces, the last one short, and  *)
(* one of a single piece, in two slots; limits that hold one piece, two    *)
(* and all of them.                                                        *)
(***************************************************************************)
EXTENDS MemoryDiskIO

CONSTANTS long, short

TheTorrents == {long, short}
ThePieceCount == [t \in TheTorrents |-> IF t = long THEN 2 ELSE 1]
ThePieceLength == [t \in TheTorrents |-> IF t = long THEN 2 ELSE 1]
TheLastPieceSize == [t \in TheTorrents |-> 1]

Policy(m, b, a) == [max |-> m, before |-> b, after |-> a]
TheInitialPolicy == Policy(2, 1, 1)
TheRawPolicySet == {Policy(1, 0, 1), Policy(5, 0, 0)}
TheOffsets == {2}
TheAskedWindows == {<<-1, 1>>, <<1, 5>>}
TheAskedPieces == {-1, 0, 1}
TheAskedRanges == {<<0, 2>>, <<1, 1>>, <<2, 0>>}
=============================================================================
