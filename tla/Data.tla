-------------------------------- MODULE Data --------------------------------
(***************************************************************************)
(* The pure parts of the program under any use.  A behaviour is the life   *)
(* of one subject: a cache policy beside a reader, a piece of the cache,   *)
(* the files of a torrent as they are listed, the rail of the pieces of a  *)
(* file.  The properties compare each result with a definition that shares *)
(* nothing with the arithmetic.                                            *)
(***************************************************************************)
EXTENDS CachePolicy, MemoryPiece, FileOrder, PieceRail, FiniteSets

CONSTANTS
    Limits,         \* limits in MiB that are asked for
    Budgets,        \* byte counts a policy is made of by hand
    Geometries,     \* torrents: their pieces, and the bytes of a piece
    Offsets,        \* read positions
    StoredFiles,    \* what a file of a torrent may be
    MaxFiles,       \* bound on the files of a torrent
    PieceFacts,     \* what may be known of a piece of the rail
    Widths,         \* widths of the player's window
    MaxRail         \* bound on the pieces of the rail

ASSUME DataAssumption ==
    /\ Limits \subseteq Int
    /\ Budgets \subseteq Int
    /\ Geometries \subseteq [total : Nat \ {0}, len : Nat \ {0}]
    /\ Offsets \subseteq Int
    /\ StoredFiles \subseteq [path : Seq(0 .. 255), pad : BOOLEAN, media : BOOLEAN]
    /\ MaxFiles \in Nat
    /\ PieceFacts \subseteq SUBSET {"failed", "evicted", "have", "window", "deadline"}
    /\ Widths \subseteq Int
    /\ MaxRail \in Nat

VARIABLES
    subject,
    geometry,       \* the torrent
    asked,          \* the limit that the policy comes from; empty for one made by hand
    policy,         \* the policy in force
    offset,         \* the read position
    storage,        \* the files of a torrent
    facts, width    \* the pieces of a file, the width of their rail

policyVars == <<geometry, asked, policy, offset>>
railVars == <<facts, width>>
dataVars == <<subject, policyVars, vars, storage, railVars>>

Window == RetainedWindow(offset, geometry.total, geometry.len, policy)

DataInit ==
    /\ subject \in {"policy", "piece", "files", "rail"}
    /\ geometry \in IF subject = "policy" THEN Geometries ELSE {[total |-> 1, len |-> 1]}
    /\ asked = {1}
    /\ policy = FromLimitMib(1)
    /\ offset = 0
    /\ Init
    /\ storage = <<>>
    /\ facts = <<>> /\ width = 0

SetLimit ==
    \E n \in Limits :
        /\ asked' = {n}
        /\ policy' = FromLimitMib(n)
        /\ UNCHANGED <<geometry, offset>>

SetPolicy ==
    \E m, b, a \in Budgets :
        /\ asked' = {}
        /\ policy' = Normalize([max |-> m, before |-> b, after |-> a])
        /\ UNCHANGED <<geometry, offset>>

MoveReader ==
    \E o \in Offsets :
        /\ offset' = o
        /\ UNCHANGED <<geometry, asked, policy>>

PolicyNext ==
    /\ subject = "policy"
    /\ SetLimit \/ SetPolicy \/ MoveReader
    /\ UNCHANGED <<subject, vars, storage, railVars>>

PieceNext ==
    /\ subject = "piece"
    /\ Next
    /\ UNCHANGED <<subject, policyVars, storage, railVars>>

FilesNext ==
    /\ subject = "files"
    /\ \/ Len(storage) < MaxFiles /\ \E f \in StoredFiles : storage' = Append(storage, f)
       \/ storage' = <<>>
    /\ UNCHANGED <<subject, policyVars, vars, railVars>>

RailNext ==
    /\ subject = "rail"
    /\ \/ Len(facts) < MaxRail /\ \E f \in PieceFacts : facts' = Append(facts, f)
       \/ facts' = <<>>
    /\ width' \in Widths
    /\ UNCHANGED <<subject, policyVars, vars, storage>>

DataNext == PolicyNext \/ PieceNext \/ FilesNext \/ RailNext

DataSpec == DataInit /\ [][DataNext]_dataVars

-----------------------------------------------------------------------------
(* Properties: the cache policy *)

\* A policy in force has a window budget that is not empty and never larger than the
\* cache; normalising it again, as the service, the scheduler and every storage do,
\* changes nothing; and the limit shown in the settings is the one asked for, cut to
\* the accepted range (cache_policy.cpp:16-53).
PolicyInForce ==
    /\ policy \in Policies
    /\ Normalize(policy) = policy
    /\ \A limit \in asked : LimitMib(policy) = Clamp(limit, 1, MaxLimitMib)

\* The bytes of the torrent the policy promises to keep around the offset:
\* `before` behind it, `after` (one at least) from it on.
PromisedBytes ==
    {b \in 0 .. (geometry.total * geometry.len - 1) :
        /\ b >= offset - policy.before
        /\ b < offset + AtLeast(1, policy.after)}

\* The retained window is exactly the pieces that hold a promised byte, for an
\* offset inside the torrent: no piece of the promise is left to eviction, and none
\* beyond it is retained.  Cut to a file it gives a window inside the file that is
\* their intersection when they meet and a piece of the file when they do not.
WindowsAreExact ==
    /\ offset \in 0 .. (geometry.total * geometry.len - 1)
        => PiecesOf(Window) = {b \div geometry.len : b \in PromisedBytes}
    /\ \A f \in 0 .. geometry.total : \A e \in f .. geometry.total :
        LET cut == ClampToFileWindow(Window, f, e)
            shared == PiecesOf(Window) \cap (f .. (e - 1))
        IN  /\ f <= cut.first /\ cut.first <= cut.end /\ cut.end <= e
            /\ shared # {} => PiecesOf(cut) = shared
            /\ f < e => PiecesOf(cut) # {}

\* Under one policy a read position that moves forward never moves an edge of the
\* window backward: pieces already left behind do not come back.
WindowFollowsReader ==
    [][ (policy' = policy /\ offset' >= offset)
            => Window.first <= Window'.first /\ Window.end <= Window'.end ]_dataVars

-----------------------------------------------------------------------------
(* The files *)

\* The number that digits write, after each of them.
NumberUpTo(run) ==
    LET number[k \in 0 .. Len(run)] ==
            IF k = 0 THEN 0 ELSE 10 * number[k - 1] + (run[k] - 48)
    IN  number

Number(run) == NumberUpTo(run)[Len(run)]

EndOfNumber(path, i) ==
    CHOOSE j \in i .. Len(path) :
        /\ \A k \in i .. j : IsDigit(path[k])
        /\ j < Len(path) => ~IsDigit(path[j + 1])

\* A path as a reader sees it: its letters and, where one begins, a whole number with the
\* digits it takes.
Signs(path) ==
    [i \in DOMAIN path |->
        IF ~IsDigit(path[i]) THEN [letter |-> Folded(path[i]), number |-> 0, digits |-> 0]
        ELSE IF i > 1 /\ IsDigit(path[i - 1]) THEN [letter |-> 48, number |-> 0, digits |-> 0]
        ELSE LET run == SubSeq(path, i, EndOfNumber(path, i))
             IN  [letter |-> 48, number |-> Number(run), digits |-> Len(run)]]

LessSign(a, b) ==
    \/ a.letter < b.letter
    \/ a.letter = b.letter /\ a.number < b.number
    \/ a.letter = b.letter /\ a.number = b.number /\ a.digits < b.digits

\* The order of dictionaries.
Comes(s, t) ==
    \E k \in 1 .. Len(t) :
        /\ \A i \in 1 .. (k - 1) : i <= Len(s) /\ s[i] = t[i]
        /\ k > Len(s) \/ LessSign(s[k], t[k])

Precedes(f, g) ==
    \/ Comes(Signs(f.path), Signs(g.path))
    \/ Signs(f.path) = Signs(g.path) /\ f.index < g.index

\* The browser lists every video of the torrent once and nothing else, and numbers in
\* names stand in the order of their values, whatever zeros precede them: episode 10
\* after episode 9 (torrent_service.cpp:311-395).  Without a video it lists every file
\* as the torrent has them.
FilesInOrder ==
    LET files == ExtractFiles(storage)
        videos == {files[i] : i \in {j \in DOMAIN files : files[j].likely_video}}
        rows == Rows(files)
    IN  /\ {rows[i] : i \in DOMAIN rows}
                = (IF videos = {} THEN {files[i] : i \in DOMAIN files} ELSE videos)
        /\ \A i, j \in DOMAIN rows : i < j =>
                IF videos = {} THEN rows[i].index < rows[j].index ELSE Precedes(rows[i], rows[j])

-----------------------------------------------------------------------------
(* The pieces in memory *)

\* The written ranges stay inside the piece and sorted, none is empty and no two touch,
\* which covers_range's early return needs, and covers_range is the subset test it
\* stands for, for every range of the piece (memory_disk_io.cpp:56-93).
RangesExact ==
    /\ TypeOK
    /\ \A i \in DOMAIN written : written[i].begin < written[i].end
    /\ \A i, j \in DOMAIN written : i < j => written[i].end < written[j].begin
    /\ \A begin, end \in 0 .. Size :
        CoversRange(written, begin, end) <=> (begin .. (end - 1)) \subseteq BytesOf(written)

-----------------------------------------------------------------------------
(* The rail *)

\* However many pieces there are and however narrow the window, every piece is drawn in
\* one segment, none in two, and a segment has the colour of one of its pieces that
\* matters most: a failed piece is never hidden behind others.
RailShowsAll ==
    LET states == [i \in DOMAIN facts |-> PieceState(facts[i])]
        rail == Rail(states, width)
        pieces == Len(states)
        in(k) == {p \in 1 .. pieces : /\ p > SegmentBegin(k - 1, pieces, Len(rail))
                                      /\ p <= SegmentEnd(k - 1, pieces, Len(rail))}
    IN  /\ UNION {in(k) : k \in DOMAIN rail} = 1 .. pieces
        /\ \A k, l \in DOMAIN rail : k # l => in(k) \cap in(l) = {}
        /\ \A k \in DOMAIN rail : \A p \in in(k) : Rank[states[p]] <= Rank[rail[k]]
        /\ \A k \in DOMAIN rail : \E p \in in(k) : states[p] = rail[k]
=============================================================================
