----------------------------- MODULE PieceStore -----------------------------
(***************************************************************************)
(* What the RAM disk promises to libtorrent and to the player, whatever    *)
(* its policy: a torrent in a slot of its own, bytes that are answered     *)
(* when all of them are there and only then, and pieces that may be        *)
(* forgotten, each as a whole, but for those it is told to keep.           *)
(***************************************************************************)
EXTENDS Integers

CONSTANTS
    Slot,           \* where torrents are put
    Sizes,          \* of each torrent, the bytes of each of its pieces
    Block,          \* bytes hashed at once by hash2
    AskedPieces,    \* piece indices that requests name, bad ones included
    AskedRanges     \* pairs <<start, length>> that requests name

VARIABLES
    content,        \* of each slot that is taken, its torrent and the bytes of each piece
    kept,           \* of each slot that is taken, the pieces it is told to keep
    answer          \* what the last job is answered: job, slot, piece, outcome

vars == <<content, kept, answer>>

Answer(job, s, p, outcome) == [job |-> job, slot |-> s, piece |-> p, outcome |-> outcome]
Nothing == Answer("none", 0, 0, "none")

\* The step answers a job on answer'.slot and answer'.piece.
Done(job, outcomes) ==
    /\ answer'.job = job /\ answer'.outcome \in outcomes
    /\ answer'.slot \in Slot /\ answer'.piece \in AskedPieces
    /\ answer' = Answer(job, answer'.slot, answer'.piece, answer'.outcome)

Taken == DOMAIN content
Blank(t) == [torrent |-> t, bytes |-> [p \in DOMAIN Sizes[t] |-> {}]]
SizeOf(s, p) == Sizes[content[s].torrent][p]
Has(s, p) == s \in Taken /\ p \in DOMAIN content[s].bytes
Fits(s, p, start, length) ==
    /\ Has(s, p)
    /\ start >= 0 /\ length >= 0 /\ start + length <= SizeOf(s, p)
There(s, p, start, length) == start .. (start + length - 1) \subseteq content[s].bytes[p]
LengthAt(s, p, start) ==
    LET rest == SizeOf(s, p) - start IN IF rest < Block THEN rest ELSE Block

\* The store is left with a content, but for whole pieces that it need not keep.
LeftWith(full) ==
    /\ Taken' = DOMAIN full
    /\ \A s \in DOMAIN full :
        \E forgotten \in SUBSET (DOMAIN full[s].bytes \ kept'[s]) :
            content'[s] = [torrent |-> full[s].torrent,
                           bytes |-> [p \in DOMAIN full[s].bytes |->
                                IF p \in forgotten THEN {} ELSE full[s].bytes[p]]]

Init ==
    /\ content = [s \in {} |-> Nothing]
    /\ kept = [s \in {} |-> {}]
    /\ answer = Nothing

Add ==
    /\ answer' = Nothing
    /\ \E s \in Slot \ Taken, t \in DOMAIN Sizes :
        /\ content' = [u \in Taken \cup {s} |-> IF u = s THEN Blank(t) ELSE content[u]]
        /\ kept' = [u \in Taken \cup {s} |-> IF u = s THEN DOMAIN Sizes[t] ELSE kept[u]]

Remove ==
    /\ answer' = Nothing
    /\ \E s \in Taken :
        /\ content' = [u \in Taken \ {s} |-> content[u]]
        /\ kept' = [u \in Taken \ {s} |-> kept[u]]

\* Told what to keep in one slot, or to live with less memory.
Keep ==
    /\ answer' = Nothing
    /\ \/ kept' = kept
       \/ \E s \in Taken : kept' = [kept EXCEPT ![s] = kept'[s]]
    /\ LeftWith(content)

Write ==
    /\ Done("write", {"ok"})
    /\ LET s == answer'.slot
           p == answer'.piece
       IN  \E r \in AskedRanges :
            /\ Fits(s, p, r[1], r[2])
            /\ LeftWith([content EXCEPT ![s].bytes[p] = @ \cup r[1] .. (r[1] + r[2] - 1)])
    /\ UNCHANGED kept

\* An empty range is found or not as the store likes: no byte depends on it.
Read ==
    /\ Done("read", {"ok", "eof"})
    /\ LET s == answer'.slot
           p == answer'.piece
       IN  \E r \in AskedRanges :
            /\ Fits(s, p, r[1], r[2])
            /\ IF answer'.outcome = "ok" THEN There(s, p, r[1], r[2])
               ELSE r[2] = 0 \/ ~There(s, p, r[1], r[2])
    /\ UNCHANGED <<content, kept>>

Hash ==
    /\ Done("hash", {"ok", "missing"})
    /\ LET s == answer'.slot
           p == answer'.piece
       IN  /\ Has(s, p)
           /\ answer'.outcome = "ok" <=> There(s, p, 0, SizeOf(s, p))
    /\ UNCHANGED <<content, kept>>

\* The block from a start that is inside the piece.
Hash2 ==
    /\ Done("hash2", {"ok", "missing"})
    /\ LET s == answer'.slot
           p == answer'.piece
       IN  /\ Has(s, p)
           /\ \E r \in AskedRanges :
                /\ r[1] >= 0 /\ r[1] < SizeOf(s, p)
                /\ answer'.outcome = "ok" <=> There(s, p, r[1], LengthAt(s, p, r[1]))
    /\ UNCHANGED <<content, kept>>

\* A job that names no torrent, or what is not in its torrent, is refused.
Refuse ==
    LET s == answer'.slot
        p == answer'.piece
        Job(jobs, outcomes) == \E job \in jobs : Done(job, outcomes)
    IN  /\ \/ Job({"read", "write", "hash", "hash2"}, {"no_storage"}) /\ s \notin Taken
           \/ Job({"hash"}, {"invalid"}) /\ s \in Taken /\ ~Has(s, p)
           \/ /\ Job({"read", "write"}, {"invalid", "eof"}) /\ s \in Taken
              /\ \E r \in AskedRanges : ~Fits(s, p, r[1], r[2])
           \/ /\ Job({"hash2"}, {"invalid"}) /\ Has(s, p)
              /\ \E r \in AskedRanges : ~(r[1] >= 0 /\ r[1] < SizeOf(s, p))
        /\ UNCHANGED <<content, kept>>

Delete ==
    /\ answer'.job = "delete_files" /\ answer'.slot \in Slot
    /\ answer' = Answer("delete_files", answer'.slot, 0, "ok")
    /\ LET s == answer'.slot
       IN  content' = IF s \in Taken THEN [content EXCEPT ![s] = Blank(content[s].torrent)] ELSE content
    /\ UNCHANGED kept

Clear ==
    /\ Done("clear_piece", {"ok"})
    /\ LET s == answer'.slot
           p == answer'.piece
       IN  content' = IF Has(s, p) THEN [content EXCEPT ![s].bytes[p] = {}] ELSE content
    /\ UNCHANGED kept

Next == Add \/ Remove \/ Keep \/ Write \/ Read \/ Hash \/ Hash2 \/ Refuse \/ Delete \/ Clear

Spec == Init /\ [][Next]_vars
=============================================================================
