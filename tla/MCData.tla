------------------------------- MODULE MCData -------------------------------
(***************************************************************************)
(* Data for TLC.                                                           *)
(***************************************************************************)
EXTENDS Data

TheLimits == {-1, 0, 1, 2, 3, 4, 9}
TheBudgets == {-2, 0, 1, 3, 8, 13}

\* Read offsets go past the end of the largest torrent and its `before` budget.
TheGeometries == [total : {1, 3, 5}, len : {1, 3, 4}]
TheOffsets == {0, 1, 2, 3, 4, 6, 7, 8, 11, 12, 13, 19, 20, 24, 31, 40}

\* Paths: up to two of the bytes 0, 1, 9, A and a, one above 127, and longer ones in
\* which zeros and numbers meet.
Paths == UNION {[1 .. n -> {48, 49, 57, 65, 97}] : n \in 0 .. 2}
            \cup {<<200>>, <<48, 49, 48>>, <<97, 49, 48>>, <<97, 48, 57, 97>>}
TheStoredFiles ==
    {[path |-> p, pad |-> FALSE, media |-> TRUE] : p \in Paths}
        \cup {[path |-> <<97>>, pad |-> pad, media |-> ~pad] : pad \in BOOLEAN}
        \cup {[path |-> <<49>>, pad |-> FALSE, media |-> FALSE]}

ThePieceFacts == {{}, {"deadline"}, {"have", "window"}, {"have", "failed"}}
=============================================================================
