------------------------------ MODULE ByteMap ------------------------------
(***************************************************************************)
(* What one piece of a RAM torrent promises to libtorrent and to the       *)
(* player: a partial map from the piece's bytes to the values last written *)
(* there.  A read or a hash answers with exactly those values, and with a  *)
(* miss when any of the bytes asked for is absent.  The whole piece may be *)
(* lost at any time.                                                       *)
(***************************************************************************)
EXTENDS Integers

CONSTANTS
    Size,       \* bytes in the piece
    Values,     \* what a byte can hold
    Absent      \* the content of a byte that is not stored

VARIABLES
    content,    \* [Byte -> Values \cup {Absent}]
    answer      \* outcome of the last operation

vars == <<content, answer>>

Byte == 0 .. (Size - 1)

None == [kind |-> "none"]
Miss == [kind |-> "miss"]
Refused == [kind |-> "refused"]
Done == [kind |-> "done"]
Data(from, to) == [kind |-> "data", from |-> from, bytes |-> [b \in from .. (to - 1) |-> content[b]]]

Init ==
    /\ content = [b \in Byte |-> Absent]
    /\ answer = None

Write ==
    /\ answer' = Done
    /\ \E from \in 0 .. Size : \E to \in from .. Size : \E v \in Values :
        content' = [b \in Byte |-> IF b \in from .. (to - 1) THEN v ELSE content[b]]

\* An empty range is found or not as the store likes: no byte depends on it.
Read ==
    /\ UNCHANGED content
    /\ \E from \in 0 .. Size : \E to \in from .. Size :
        answer' \in (IF \E b \in from .. (to - 1) : content[b] = Absent
                     THEN {Miss}
                     ELSE IF from = to THEN {Data(from, to), Miss} ELSE {Data(from, to)})

Lose ==
    /\ content' = [b \in Byte |-> Absent]
    /\ answer' = None

\* A request outside the piece changes nothing.
Refuse ==
    /\ answer' = Refused
    /\ UNCHANGED content

Next == Write \/ Read \/ Lose \/ Refuse

Spec == Init /\ [][Next]_vars
=============================================================================
