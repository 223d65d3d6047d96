---------------------------- MODULE CachePolicy ----------------------------
(***************************************************************************)
(* The arithmetic of the RAM cache's policy: how a limit becomes a policy, *)
(* how a policy is normalised, which pieces around a byte offset are       *)
(* retained, and how that window is cut to one file.  Pure operators; the  *)
(* storage, the scheduler and the service all compute with them.           *)
(*                                                                         *)
(* All quantities are natural or integer byte and piece counts.  C++       *)
(* division truncates and \div rounds down: they agree here, every         *)
(* dividend being non-negative.                                            *)
(***************************************************************************)
EXTENDS Integers

CONSTANTS
    Mib,            \* bytes in a MiB (CachePolicy::mib)
    MaxLimitMib     \* the largest limit from_limit_mib accepts

ASSUME CachePolicyAssumption ==
    /\ Mib \in Nat \ {0}
    /\ MaxLimitMib \in Nat \ {0}

AtMost(a, b) == IF a <= b THEN a ELSE b
AtLeast(a, b) == IF a >= b THEN a ELSE b

\* std::clamp(v, lo, hi), for lo <= hi.
Clamp(v, lo, hi) == IF v < lo THEN lo ELSE IF hi < v THEN hi ELSE v

CeilDiv(a, b) == (a + b - 1) \div b

-----------------------------------------------------------------------------
(* Policies *)

\* What callers may hand in, and what normalize_cache_policy answers.
RawPolicies == [max : Int, before : Int, after : Int]
Policies == {p \in [max : Nat \ {0}, before : Nat, after : Nat] :
                /\ p.before + p.after <= p.max
                /\ p.before + p.after > 0}

FromLimitMib(n) ==
    LET max == Clamp(n, 1, MaxLimitMib) * Mib
    IN  [max |-> max, before |-> max \div 4, after |-> max - (max \div 4)]

\* llround of a non-negative quotient: half rounds up.
LimitMib(p) == (2 * p.max + Mib) \div (2 * Mib)

\* Mutant: scaled with an end one byte late.
ScaleOffByOne(p) ==
    LET before == (p.max * p.before) \div (p.before + p.after)
    IN  [max |-> p.max, before |-> before, after |-> p.max - before + 1]

\* A window budget larger than the cache is scaled down, keeping its proportion.
ScaleToMax(p) ==
    LET before == (p.max * p.before) \div (p.before + p.after)
    IN  [max |-> p.max, before |-> before, after |-> p.max - before]

Normalize(p) ==
    LET q == [max    |-> AtLeast(p.max, 1),
              before |-> AtLeast(p.before, 0),
              after  |-> AtLeast(p.after, 0)]
    IN  IF q.before + q.after = 0 THEN [q EXCEPT !.after = q.max]
        ELSE IF q.before + q.after > q.max THEN ScaleToMax(q)
        ELSE q

-----------------------------------------------------------------------------
(* Windows: the pieces first .. end-1 *)

Windows == [first : Nat, end : Nat]
EmptyWindow == [first |-> 0, end |-> 0]
IsEmpty(w) == w.first >= w.end
Contains(w, piece) == w.first <= piece /\ piece < w.end
PiecesOf(w) == w.first .. (w.end - 1)

FirstByte(offset, p) == AtLeast(0, offset - p.before)
EndByte(offset, p) == offset + AtLeast(1, p.after)

\* Mutant: the window's end is rounded down.
EndPieceFloored(offset, p, total, pieceLength) ==
    Clamp(EndByte(offset, p) \div pieceLength, 0, total)

FirstPiece(offset, p, total, pieceLength) ==
    Clamp(FirstByte(offset, p) \div pieceLength, 0, total)
EndPiece(offset, p, total, pieceLength) ==
    Clamp(CeilDiv(EndByte(offset, p), pieceLength), 0, total)

\* Mutant: past the end of the torrent there is no window.
WindowAtNoneAtEnd(offset, p, total, pieceLength) ==
    LET first == FirstPiece(offset, p, total, pieceLength)
        end == EndPiece(offset, p, total, pieceLength)
    IN  IF first >= total THEN EmptyWindow ELSE [first |-> first, end |-> end]

WindowAt(offset, p, total, pieceLength) ==
    LET first == FirstPiece(offset, p, total, pieceLength)
        end == EndPiece(offset, p, total, pieceLength)
    IN  [first |-> first,
         end |-> IF end <= first THEN AtMost(total, first + 1) ELSE end]

\* compute_retained_piece_window: never empty for an offset inside the torrent,
\* and empty at the torrent's end once `before` no longer reaches back into it.
RetainedWindow(byteOffset, total, pieceLength, policy) ==
    IF total <= 0 \/ pieceLength <= 0
    THEN EmptyWindow
    ELSE WindowAt(AtLeast(byteOffset, 0), Normalize(policy), total, pieceLength)

\* clamp_to_file_window: the part of the window inside the file's pieces
\* firstPiece .. endPiece-1, and the file's first piece when they do not meet.
CutToFile(w, firstPiece, endPiece) ==
    LET first == Clamp(w.first, firstPiece, endPiece)
    IN  [first |-> first, end |-> Clamp(w.end, first, endPiece)]

ClampToFileWindow(w, firstPiece, endPiece) ==
    LET cut == CutToFile(w, firstPiece, endPiece)
    IN  IF IsEmpty(cut) /\ firstPiece < endPiece
        THEN [first |-> firstPiece, end |-> AtMost(endPiece, firstPiece + 1)]
        ELSE cut
=============================================================================
