---------------------------- MODULE MemoryDiskIO ----------------------------
(***************************************************************************)
(* libtorrent's disk interface over RAM: storages in slots that are        *)
(* reused, one byte account for all of them, and the eviction that keeps   *)
(* the account under the policy's limit where retained windows allow it.   *)
(*                                                                         *)
(* Every operation runs under Impl::mutex_ from start to end, on the       *)
(* caller's thread (libtorrent's network thread, the UI thread, mpv's):    *)
(* each is one action.  A job's handler is posted to the io_context after  *)
(* the unlock; `posted` is what the last action posted.                    *)
(***************************************************************************)
EXTENDS MemoryTorrentStorage, Sequences

CONSTANTS
    MaxSlots,       \* bound on the slots that are ever made
    NoStorage,      \* an empty slot
    InitialPolicy,  \* CachePolicy's default
    RawPolicySet,   \* policies a caller may set
    Offsets,        \* byte offsets a reader may be at
    AskedWindows,   \* pairs <<first, end>> given to set_retained_window
    AskedPieces,    \* piece indices that requests name, bad ones included
    AskedRanges     \* pairs <<start, length>> that requests name

ASSUME DiskAssumption ==
    /\ MaxSlots \in Nat
    /\ NoStorage \notin Storage
    /\ InitialPolicy \in Policies
    /\ RawPolicySet \subseteq RawPolicies
    /\ Offsets \subseteq Int
    /\ AskedWindows \subseteq Int \X Int
    /\ AskedPieces \subseteq Int
    /\ AskedRanges \subseteq Int \X Int

VARIABLES
    storages,       \* [Slot -> Storage \cup {NoStorage}]
    slotCount,      \* storages_.size()
    freeSlots,      \* stack of the slots below slotCount that are empty
    policy,
    bytesUsed,
    posted,         \* the handler the last action posted: job, slot, piece, outcome
    stored          \* history: [Slot -> pieces written since the storage was made or cleared]

disk == <<storages, slotCount, freeSlots, policy, bytesUsed>>
vars == <<disk, posted, stored>>

Slot == 0 .. (MaxSlots - 1)
Live == {s \in Slot : storages[s] # NoStorage}

Jobs == {"none", "read", "write", "hash", "hash2", "delete_files", "clear_piece"}
Outcomes == {"none", "ok", "missing", "eof", "invalid", "no_storage"}

TypeOK ==
    /\ storages \in [Slot -> Storage \cup {NoStorage}]
    /\ slotCount \in 0 .. MaxSlots
    /\ freeSlots \in Seq(Slot)
    /\ policy \in Policies
    /\ bytesUsed \in Int
    /\ posted \in [job : Jobs, slot : Int, piece : Int, outcome : Outcomes]
    /\ stored \in [Slot -> SUBSET PieceIndex]

Posted(job, s, p, outcome) == [job |-> job, slot |-> s, piece |-> p, outcome |-> outcome]
Nothing == Posted("none", 0, 0, "none")

-----------------------------------------------------------------------------
(* The byte account and eviction *)

\* A piece in memory is named <<slot, piece>>; its buffer, byte by byte.
Held(sts) == {c \in Slot \X PieceIndex : sts[c[1]] # NoStorage /\ c[2] \in sts[c[1]].held}
Buffer(sts, c) == {c} \X BytesOfPiece(sts[c[1]].torrent, c[2])
Footprint(sts, cs) == Cardinality(UNION {Buffer(sts, c) : c \in cs})

\* The order of the loops over storages_ and pieces_.
Before(c, d) == c[1] < d[1] \/ (c[1] = d[1] /\ c[2] < d[2])

Evictable(sts) == {c \in Held(sts) : c[2] \in Unretained(sts[c[1]])}

\* Mutants: everything outside the windows goes; eviction stops one piece early; windows
\* are not looked at.
EvictedAll(sts, used, max) == IF used > max THEN Evictable(sts) ELSE {}
EvictedTooFew(sts, used, max) ==
    {c \in Evictable(sts) :
        used - Footprint(sts, {d \in Evictable(sts) : Before(d, c) \/ d = c}) > max}
EvictedAnywhere(sts, used, max) ==
    {c \in Held(sts) : used - Footprint(sts, {d \in Held(sts) : Before(d, c)}) > max}

\* enforce_cache_locked and evict_to_fit: a piece outside its storage's window goes
\* when the pieces before it have not freed enough.  Every storage holds the disk's
\* own policy (PoliciesAgree), so both loops compare with the same limit.
Evicted(sts, used, max) ==
    {c \in Evictable(sts) :
        used - Footprint(sts, {d \in Evictable(sts) : Before(d, c)}) > max}

\* The same as the two loops they are: the cells in the order of the loops, the bytes
\* in use when the loops come to each, and the pieces that go.
Cells == [i \in 1 .. MaxSlots * MaxPieces |-> <<(i - 1) \div MaxPieces, (i - 1) % MaxPieces>>]

InUse(sts, used, max) ==
    LET left[i \in 1 .. Len(Cells) + 1] ==
            IF i = 1 THEN used
            ELSE IF Cells[i - 1] \in Evictable(sts) /\ left[i - 1] > max
            THEN left[i - 1] - PieceSize(sts[Cells[i - 1][1]].torrent, Cells[i - 1][2])
            ELSE left[i - 1]
    IN  left

LoopEvicted(sts, used, max) ==
    {Cells[i] : i \in {j \in DOMAIN Cells :
                         Cells[j] \in Evictable(sts) /\ InUse(sts, used, max)[j] > max}}

AfterEviction(sts, cs) ==
    [s \in Slot |-> IF sts[s] = NoStorage THEN NoStorage
                    ELSE Dropped(sts[s], {p \in PieceIndex : <<s, p>> \in cs})]

Enforce(sts, used, max) ==
    /\ storages' = AfterEviction(sts, Evicted(sts, used, max))
    /\ bytesUsed' = used - Footprint(sts, Evicted(sts, used, max))

With(s, st) == [storages EXCEPT ![s] = st]

-----------------------------------------------------------------------------

Init ==
    /\ storages = [s \in Slot |-> NoStorage]
    /\ slotCount = 0
    /\ freeSlots = <<>>
    /\ policy = InitialPolicy
    /\ bytesUsed = 0
    /\ posted = Nothing
    /\ stored = [s \in Slot |-> {}]

(* Policy and windows: called by the service and the scheduler *)

\* Mutant: the new limit is enforced at the next write.
SetCachePolicyLazily(raw) ==
    /\ policy' = Normalize(raw)
    /\ storages' = [s \in Slot |-> IF s \in Live THEN WithPolicy(storages[s], Normalize(raw))
                                   ELSE NoStorage]
    /\ posted' = Nothing
    /\ UNCHANGED <<slotCount, freeSlots, bytesUsed, stored>>

SetCachePolicy(raw) ==
    LET new == Normalize(raw)
        sts == [s \in Slot |-> IF s \in Live THEN WithPolicy(storages[s], new) ELSE NoStorage]
    IN  /\ policy' = new
        /\ Enforce(sts, bytesUsed, new.max)
        /\ posted' = Nothing
        /\ UNCHANGED <<slotCount, freeSlots, stored>>

UpdateRetainedWindow(s, byteOffset) ==
    /\ s \in Live
    /\ Enforce(With(s, WithWindowAt(storages[s], byteOffset)), bytesUsed, policy.max)
    /\ posted' = Nothing
    /\ UNCHANGED <<slotCount, freeSlots, policy, stored>>

SetRetainedWindow(s, first, end) ==
    /\ s \in Live
    /\ Enforce(With(s, WithWindow(storages[s], first, end)), bytesUsed, policy.max)
    /\ posted' = Nothing
    /\ UNCHANGED <<slotCount, freeSlots, policy, stored>>

ClearRetainedWindow(s) ==
    /\ s \in Live
    /\ storages' = With(s, WithoutWindow(storages[s]))
    /\ posted' = Nothing
    /\ UNCHANGED <<slotCount, freeSlots, policy, bytesUsed, stored>>

(* Slots *)

\* Mutant: the slot a new storage takes stays on the free list.
NewTorrentPeeks(t) ==
    LET s == IF freeSlots = <<>> THEN slotCount ELSE freeSlots[Len(freeSlots)]
    IN  /\ s < MaxSlots
        /\ storages' = With(s, NewStorage(t, policy))
        /\ slotCount' = IF s = slotCount THEN slotCount + 1 ELSE slotCount
        /\ posted' = Nothing
        /\ stored' = [stored EXCEPT ![s] = {}]
        /\ UNCHANGED <<freeSlots, policy, bytesUsed>>

NewTorrent(t) ==
    LET reuse == freeSlots # <<>>
        s == IF reuse THEN freeSlots[Len(freeSlots)] ELSE slotCount
    IN  /\ s < MaxSlots
        /\ storages' = With(s, NewStorage(t, policy))
        /\ slotCount' = IF reuse THEN slotCount ELSE slotCount + 1
        /\ freeSlots' = IF reuse THEN SubSeq(freeSlots, 1, Len(freeSlots) - 1) ELSE freeSlots
        /\ posted' = Nothing
        /\ stored' = [stored EXCEPT ![s] = {}]
        /\ UNCHANGED <<policy, bytesUsed>>

RemoveTorrent(s) ==
    /\ s \in Live
    /\ bytesUsed' = bytesUsed - Footprint(storages, {s} \X storages[s].held)
    /\ storages' = With(s, NoStorage)
    /\ freeSlots' = Append(freeSlots, s)
    /\ posted' = Nothing
    /\ stored' = [stored EXCEPT ![s] = {}]
    /\ UNCHANGED <<slotCount, policy>>

(* Jobs: called by libtorrent, answered through the io_context *)

\* A job on a slot that holds no storage, for jobs that can fail.
NoStorageJob(job, s, p) ==
    /\ s \notin Live
    /\ posted' = Posted(job, s, p, "no_storage")
    /\ UNCHANGED <<disk, stored>>

\* Mutant: every write takes a new buffer into the account.
NewBytesAlways(s, p) == PieceSize(storages[s].torrent, p)

\* A piece's buffer is allocated when its first write comes, even an empty one.
NewBytes(s, p) == IF p \in storages[s].held THEN 0 ELSE PieceSize(storages[s].torrent, p)

AsyncWrite(s, p, start, length) ==
    \/ NoStorageJob("write", s, p)
    \/ /\ s \in Live
       /\ RequestError(storages[s], p, start, length) # "ok"
       /\ posted' = Posted("write", s, p, RequestError(storages[s], p, start, length))
       /\ UNCHANGED <<disk, stored>>
    \/ /\ s \in Live
       /\ RequestError(storages[s], p, start, length) = "ok"
       /\ Enforce(With(s, Wrote(storages[s], p, start, length)),
                  bytesUsed + NewBytes(s, p), policy.max)
       /\ posted' = Posted("write", s, p, "ok")
       /\ stored' = [stored EXCEPT ![s] = @ \cup {p}]
       /\ UNCHANGED <<slotCount, freeSlots, policy>>

\* What looking a range up costs: a miss is counted.
Looked(s, p, found) ==
    IF found THEN UNCHANGED disk
    ELSE /\ storages' = With(s, Missed(storages[s], p))
         /\ UNCHANGED <<slotCount, freeSlots, policy, bytesUsed>>

\* The same lookup serves the player (read_bytes, no handler) and libtorrent.
ReadBytes(s, p, start, length) ==
    /\ s \in Live
    /\ RequestError(storages[s], p, start, length) = "ok"
    /\ Looked(s, p, Readable(storages[s], p, start, length))
    /\ posted' = Nothing
    /\ UNCHANGED stored

AsyncRead(s, p, start, length) ==
    \/ NoStorageJob("read", s, p)
    \/ /\ s \in Live
       /\ LET error == RequestError(storages[s], p, start, length)
              found == Readable(storages[s], p, start, length)
          IN  /\ IF error = "ok" THEN Looked(s, p, found) ELSE UNCHANGED disk
              /\ posted' = Posted("read", s, p, IF error # "ok" THEN error
                                                ELSE IF found THEN "ok" ELSE "eof")
       /\ UNCHANGED stored

\* A piece that is not whole hashes to the sentinel, without an error.
AsyncHash(s, p) ==
    \/ NoStorageJob("hash", s, p)
    \/ /\ s \in Live
       /\ p \notin Pieces(storages[s].torrent)
       /\ posted' = Posted("hash", s, p, "invalid")
       /\ UNCHANGED <<disk, stored>>
    \/ /\ s \in Live
       /\ p \in Pieces(storages[s].torrent)
       /\ LET whole == Readable(storages[s], p, 0, PieceSize(storages[s].torrent, p))
          IN  /\ Looked(s, p, whole)
              /\ posted' = Posted("hash", s, p, IF whole THEN "ok" ELSE "missing")
       /\ UNCHANGED stored

\* libtorrent asks for blocks of the torrent's own pieces only.
AsyncHash2(s, p, offset) ==
    \/ NoStorageJob("hash2", s, p)
    \/ /\ s \in Live
       /\ p \in Pieces(storages[s].torrent)
       /\ LET rest == PieceSize(storages[s].torrent, p) - offset
              found == Readable(storages[s], p, offset, AtMost(Block, rest))
          IN  IF offset < 0 \/ rest <= 0
              THEN posted' = Posted("hash2", s, p, "invalid") /\ UNCHANGED disk
              ELSE /\ Looked(s, p, found)
                   /\ posted' = Posted("hash2", s, p, IF found THEN "ok" ELSE "missing")
       /\ UNCHANGED stored

\* The torrent's data goes; its storage and window stay.
DeleteFiles(s) ==
    /\ posted' = Posted("delete_files", s, 0, "ok")
    /\ IF s \in Live
       THEN /\ bytesUsed' = bytesUsed - Footprint(storages, {s} \X storages[s].held)
            /\ storages' = With(s, ClearedAll(storages[s]))
            /\ stored' = [stored EXCEPT ![s] = {}]
            /\ UNCHANGED <<slotCount, freeSlots, policy>>
       ELSE UNCHANGED <<disk, stored>>

\* libtorrent drops a piece that failed its hash check.
ClearPiece(s, p) ==
    /\ posted' = Posted("clear_piece", s, p, "ok")
    /\ IF s \in Live /\ p \in storages[s].held
       THEN /\ bytesUsed' = bytesUsed - Footprint(storages, {<<s, p>>})
            /\ storages' = With(s, Dropped(storages[s], {p}))
            /\ UNCHANGED <<slotCount, freeSlots, policy>>
       ELSE UNCHANGED disk
    /\ UNCHANGED stored

Next ==
    \/ \E raw \in RawPolicySet : SetCachePolicy(raw)
    \/ \E t \in Torrents : NewTorrent(t)
    \/ \E s \in Slot :
        \/ \E o \in Offsets : UpdateRetainedWindow(s, o)
        \/ \E w \in AskedWindows : SetRetainedWindow(s, w[1], w[2])
        \/ ClearRetainedWindow(s)
        \/ RemoveTorrent(s)
        \/ DeleteFiles(s)
        \/ \E p \in AskedPieces :
            \/ \E r \in AskedRanges :
                \/ AsyncWrite(s, p, r[1], r[2])
                \/ AsyncRead(s, p, r[1], r[2])
                \/ ReadBytes(s, p, r[1], r[2])
                \/ AsyncHash2(s, p, r[1])
            \/ AsyncHash(s, p)
            \/ ClearPiece(s, p)

Spec == Init /\ [][Next]_vars

-----------------------------------------------------------------------------
(* Properties *)

\* bytes_used_ is the size of the buffers really allocated, over all slots, whatever
\* was written, evicted, cleared, deleted or removed: five places adjust it, none
\* recomputes it (memory_disk_io.cpp:470, 501, 561, 572, 611).
BytesAccounted == bytesUsed = Footprint(storages, Held(storages))

\* Over the limit, nothing outside a retained window is left in memory: only windows
\* that do not fit and storages without a window can keep the cache too large.
LimitEnforced == bytesUsed > policy.max => Evictable(storages) = {}

\* A piece once written is held or remembered as evicted, never both: a miss is then
\* counted for what it is, and the service can tell an evicted piece of the rail from
\* one that never came (memory_disk_io.cpp:154, 268, 299).
StoredHeldOrEvicted ==
    \A s \in Live :
        /\ storages[s].held \cup storages[s].evicted = stored[s]
        /\ storages[s].held \cap storages[s].evicted = {}

\* What Evicted describes at once is what the loops evict one by one, whatever the limit
\* (memory_disk_io.cpp:285-304, 601-616).
EvictedIsTheLoops ==
    \A max \in 0 .. bytesUsed :
        Evicted(storages, bytesUsed, max) = LoopEvicted(storages, bytesUsed, max)

\* The free list holds each empty slot below storages_.size() once: a new torrent
\* never takes the slot of a storage that is still there.
SlotsConsistent ==
    /\ {freeSlots[i] : i \in DOMAIN freeSlots} = {s \in Slot : s < slotCount} \ Live
    /\ \A i, j \in DOMAIN freeSlots : freeSlots[i] = freeSlots[j] => i = j
    /\ Live \subseteq 0 .. (slotCount - 1)

\* Each storage's copy of the policy is the disk's: evict_to_fit compares with the
\* copy, enforce_cache_locked with the original.
PoliciesAgree == \A s \in Live : storages[s].policy = policy

\* The piece of a write that the last action reported as done.
JustWritten == IF posted.job = "write" /\ posted.outcome = "ok"
               THEN {<<posted.slot, posted.piece>>} ELSE {}

\* A write reported as done has left its piece in memory, or outside the window and
\* known as evicted: a piece the reader waits for is never lost by its own arrival.
WriteKeptOrEvicted ==
    \A c \in JustWritten :
        \/ c \in Held(storages)
        \/ /\ c[2] \in storages[c[1]].evicted
           /\ storages[c[1]].window # NoWindow
           /\ ~Contains(storages[c[1]].window, c[2])

\* Pieces the step takes out of memory other than because libtorrent asked for it;
\* a piece written by this very step may be among them.
Victims ==
    {c \in (Held(storages) \cup JustWritten') \ Held(storages') :
        /\ storages'[c[1]] # NoStorage
        /\ posted'.job \notin {"delete_files", "clear_piece"}}

\* Eviction takes only pieces outside the window its storage then has.
RetainedKept ==
    [][\A c \in Victims : /\ storages'[c[1]].window # NoWindow
                          /\ ~Contains(storages'[c[1]].window, c[2])]_vars

\* Eviction stops as soon as the cache fits: without its last victim it would not.
NoOverEviction ==
    [][\A c \in Victims :
          (\A d \in Victims : d = c \/ Before(d, c))
              => bytesUsed' + PieceSize(storages'[c[1]].torrent, c[2]) > policy'.max]_vars

\* The promise behind all this, to libtorrent and the player: PieceStore, of which the
\* policy, the account, the order of eviction and the lists of slots are an implementation.
ContentOf(st) == [torrent |-> st.torrent,
                  bytes |-> [p \in Pieces(st.torrent) |-> st.written[p]]]
KeptOf(st) == {p \in Pieces(st.torrent) : st.window = NoWindow \/ Contains(st.window, p)}

Contents == [s \in Live |-> ContentOf(storages[s])]
Keeping == [s \in Live |-> KeptOf(storages[s])]

Store == INSTANCE PieceStore WITH
    Sizes <- [t \in Torrents |-> [p \in Pieces(t) |-> PieceSize(t, p)]],
    content <- Contents,
    kept <- Keeping,
    answer <- posted

\* Every answer is true of what was written and not forgotten, a window is never broken
\* into, and no torrent touches another's bytes but by their eviction
\* (memory_disk_io.cpp:365-818).
ImplementsPieceStore == Store!Spec
=============================================================================
