------------------------ MODULE MemoryTorrentStorage ------------------------
(***************************************************************************)
(* The RAM storage of one torrent, as a value: the operators are the       *)
(* methods of class MemoryTorrentStorage, each giving the storage after    *)
(* the call or what the call answers.  MemoryDiskIO holds one storage per  *)
(* slot and calls these under its lock.                                    *)
(*                                                                         *)
(* A piece is the set of its written bytes: MemoryPiece shows that its     *)
(* buffer and its list of written ranges amount to that.  `held` are the   *)
(* keys of pieces_, whose buffers are allocated in full whatever part of   *)
(* them is written.                                                        *)
(***************************************************************************)
EXTENDS CachePolicy, FiniteSets

CONSTANTS
    Torrents,       \* the torrents that may be added
    MaxPieces,      \* bound on the pieces of one
    PieceCount,     \* file_storage::end_piece of each
    PieceLength,    \* file_storage::piece_length of each
    LastPieceSize,  \* piece_size of the last piece of each
    Block,          \* default_block_size
    NoWindow,       \* retained_window_ without a value
    MissBound       \* the miss counters stop counting here

ASSUME StorageAssumption ==
    /\ MaxPieces \in Nat
    /\ PieceCount \in [Torrents -> 1 .. MaxPieces]
    /\ PieceLength \in [Torrents -> Nat \ {0}]
    /\ LastPieceSize \in [Torrents -> Nat \ {0}]
    /\ \A t \in Torrents : LastPieceSize[t] <= PieceLength[t]
    /\ Block \in Nat \ {0}
    /\ MissBound \in Nat
    /\ NoWindow \notin Windows

PieceIndex == 0 .. (MaxPieces - 1)
Pieces(t) == 0 .. (PieceCount[t] - 1)
PieceSize(t, p) == IF p = PieceCount[t] - 1 THEN LastPieceSize[t] ELSE PieceLength[t]
BytesOfPiece(t, p) == 0 .. (PieceSize(t, p) - 1)

Storage == [torrent : Torrents,
            policy : Policies,
            window : Windows \cup {NoWindow},
            held : SUBSET PieceIndex,
            written : [PieceIndex -> SUBSET Nat],
            evicted : SUBSET PieceIndex,
            evictedMisses : 0 .. MissBound,
            missingMisses : 0 .. MissBound]

\* Mutant: a storage starts from the default of its policy member.
NewStorageDefaultPolicy(t, policy) ==
    [torrent |-> t, policy |-> FromLimitMib(1), window |-> NoWindow,
     held |-> {}, written |-> [p \in PieceIndex |-> {}], evicted |-> {},
     evictedMisses |-> 0, missingMisses |-> 0]

NewStorage(t, policy) ==
    [torrent |-> t, policy |-> policy, window |-> NoWindow,
     held |-> {}, written |-> [p \in PieceIndex |-> {}], evicted |-> {},
     evictedMisses |-> 0, missingMisses |-> 0]

-----------------------------------------------------------------------------
(* Requests *)

\* What valid_request answers: "ok", "invalid" or, outside the piece, "eof".
RequestError(st, piece, start, length) ==
    IF length < 0 \/ start < 0 \/ piece \notin Pieces(st.torrent) THEN "invalid"
    ELSE IF \/ start > PieceSize(st.torrent, piece)
            \/ length > PieceSize(st.torrent, piece) - start THEN "eof"
    ELSE "ok"

Readable(st, piece, start, length) ==
    piece \in st.held /\ start .. (start + length - 1) \subseteq st.written[piece]

Counted(n) == AtMost(n + 1, MissBound)

\* record_miss: evicted pieces and pieces never stored are counted apart.
Missed(st, piece) ==
    IF piece \in st.evicted
    THEN [st EXCEPT !.evictedMisses = Counted(@)]
    ELSE [st EXCEPT !.missingMisses = Counted(@)]

\* Mutant: the piece stays in the evicted set.
WroteStillEvicted(st, piece, start, length) ==
    [st EXCEPT !.held = @ \cup {piece},
               !.written[piece] = @ \cup start .. (start + length - 1)]

\* write, for a request that is ok.
Wrote(st, piece, start, length) ==
    [st EXCEPT !.held = @ \cup {piece},
               !.written[piece] = @ \cup start .. (start + length - 1),
               !.evicted = @ \ {piece}]

-----------------------------------------------------------------------------
(* The window and the pieces it lets go *)

WithPolicy(st, policy) == [st EXCEPT !.policy = policy]

WithWindowAt(st, byteOffset) ==
    [st EXCEPT !.window = RetainedWindow(byteOffset, PieceCount[st.torrent],
                                         PieceLength[st.torrent], st.policy)]

\* Mutant: the window is taken as it is given.
WithWindowUnclamped(st, first, end) == [st EXCEPT !.window = [first |-> first, end |-> end]]

\* set_retained_window clamps what it is given to the torrent.
WithWindow(st, first, end) ==
    LET f == Clamp(first, 0, PieceCount[st.torrent])
    IN  [st EXCEPT !.window = [first |-> f, end |-> Clamp(end, f, PieceCount[st.torrent])]]

WithoutWindow(st) == [st EXCEPT !.window = NoWindow]

\* Without a window nothing is ever evicted.
Unretained(st) ==
    IF st.window = NoWindow THEN {} ELSE {p \in st.held : ~Contains(st.window, p)}

\* Mutant: evicted pieces are not remembered.
DroppedForgotten(st, gone) ==
    [st EXCEPT !.held = @ \ gone,
               !.written = [p \in PieceIndex |-> IF p \in gone THEN {} ELSE @[p]]]

\* Pieces leave memory and are remembered as evicted (evict_to_fit, clear_piece).
Dropped(st, gone) ==
    [st EXCEPT !.held = @ \ gone,
               !.written = [p \in PieceIndex |-> IF p \in gone THEN {} ELSE @[p]],
               !.evicted = @ \cup gone]

\* clear_all: nothing is remembered, the window stays.
ClearedAll(st) ==
    [st EXCEPT !.held = {}, !.written = [p \in PieceIndex |-> {}], !.evicted = {},
               !.evictedMisses = 0, !.missingMisses = 0]
=============================================================================
