----------------------------- MODULE PieceRail -----------------------------
(***************************************************************************)
(* The rail of pieces under the player: the scheduler's snapshot gives     *)
(* every piece of the file a state, the overlay draws them in fewer        *)
(* segments, each in the colour of the state that matters most in it.      *)
(***************************************************************************)
EXTENDS Integers, Sequences

CONSTANTS
    LeastSegments, MostSegments,    \* 32 and 120
    SegmentWidth                    \* 8 pixels

ASSUME RailAssumption ==
    /\ LeastSegments \in Nat \ {0} /\ MostSegments \in Nat /\ LeastSegments <= MostSegments
    /\ SegmentWidth \in Nat \ {0}

\* What snapshot() finds of a piece, the first that holds deciding.
PieceState(facts) ==
    IF "failed" \in facts THEN "failed"
    ELSE IF "evicted" \in facts THEN "evicted"
    ELSE IF "have" \in facts THEN (IF "window" \in facts THEN "retained" ELSE "evictable")
    ELSE IF "deadline" \in facts THEN "requested" ELSE "missing"

\* piece_state_rank, of the states there are.
Rank == [failed |-> 7, requested |-> 6, retained |-> 5, evictable |-> 3, evicted |-> 2, missing |-> 1]

\* The first of the pieces begin .. end-1 that has the highest rank.
DominantPieceState(states, begin, end) ==
    LET best == CHOOSE i \in begin .. (end - 1) :
                    /\ \A j \in begin .. (end - 1) : Rank[states[j + 1]] <= Rank[states[i + 1]]
                    /\ \A j \in begin .. (i - 1) : Rank[states[j + 1]] < Rank[states[i + 1]]
    IN  states[best + 1]

Segments(pieces, width) ==
    LET fit == width \div SegmentWidth
        most == IF fit < LeastSegments THEN LeastSegments
                ELSE IF fit > MostSegments THEN MostSegments ELSE fit
    IN  IF pieces < most THEN pieces ELSE most

SegmentBegin(segment, pieces, segments) == (segment * pieces) \div segments

\* Mutant: every segment is as long as the first.
SegmentEndEven(segment, pieces, segments) ==
    SegmentBegin(segment, pieces, segments) + (pieces \div segments)

SegmentEnd(segment, pieces, segments) ==
    LET begin == SegmentBegin(segment, pieces, segments)
        end == ((segment + 1) * pieces) \div segments
    IN  IF end > begin THEN end ELSE begin + 1

\* piece_rail
Rail(states, width) ==
    LET pieces == Len(states)
        segments == Segments(pieces, width)
    IN  [k \in 1 .. segments |->
            DominantPieceState(states, SegmentBegin(k - 1, pieces, segments),
                                       SegmentEnd(k - 1, pieces, segments))]
=============================================================================
