------------------------- MODULE MemoryDiskIOProofs -------------------------
(***************************************************************************)
(* The disk's types, its byte account and its eviction, for every number   *)
(* of slots, pieces and bytes, and every policy, window and request: what  *)
(* each method of MemoryTorrentStorage gives and leaves, then what always  *)
(* holds of the disk.  Every step is a new storage, the end of one, or one *)
(* of three kinds that many operations share (StepKinds); each invariant   *)
(* is then preserved kind by kind.                                         *)
(***************************************************************************)
EXTENDS MemoryDiskIO, CachePolicyProofs, FiniteSetTheorems

-----------------------------------------------------------------------------
(* Pieces *)

LEMMA PiecesInIndex ==
    ASSUME NEW t \in Torrents
    PROVE  Pieces(t) \subseteq PieceIndex
  BY StorageAssumption DEF Pieces, PieceIndex

LEMMA PieceSizeType ==
    ASSUME NEW t \in Torrents, NEW p \in PieceIndex
    PROVE  PieceSize(t, p) \in Nat \ {0}
  BY StorageAssumption DEF PieceSize

-----------------------------------------------------------------------------
(* Types *)

\* What the account, eviction and the policy look at.
SamePieces(st, new) ==
    /\ new.torrent = st.torrent
    /\ new.held = st.held
    /\ new.evicted = st.evicted

LEMMA NewStorageType ==
    ASSUME NEW t \in Torrents, NEW p \in Policies
    PROVE  /\ NewStorage(t, p) \in Storage
           /\ NewStorage(t, p).held = {} /\ NewStorage(t, p).evicted = {}
           /\ NewStorage(t, p).policy = p /\ NewStorage(t, p).window = NoWindow
  <1>1. 0 \in 0 .. MissBound
    BY StorageAssumption
  <1> QED BY <1>1 DEF NewStorage, Storage

LEMMA MissedType ==
    ASSUME NEW st \in Storage, NEW p
    PROVE  /\ Missed(st, p) \in Storage
           /\ SamePieces(st, Missed(st, p))
           /\ Missed(st, p).policy = st.policy /\ Missed(st, p).window = st.window
  <1>1. \A n \in 0 .. MissBound : Counted(n) \in 0 .. MissBound
    BY StorageAssumption DEF Counted, AtMost
  <1> QED BY <1>1 DEF Missed, Storage, SamePieces

LEMMA WroteType ==
    ASSUME NEW st \in Storage, NEW p, NEW start \in Int, NEW length \in Int,
           RequestError(st, p, start, length) = "ok"
    PROVE  /\ Wrote(st, p, start, length) \in Storage
           /\ p \in PieceIndex
           /\ Wrote(st, p, start, length).torrent = st.torrent
           /\ Wrote(st, p, start, length).held = st.held \cup {p}
           /\ Wrote(st, p, start, length).evicted = st.evicted \ {p}
           /\ Wrote(st, p, start, length).policy = st.policy
           /\ Wrote(st, p, start, length).window = st.window
  <1>1. start >= 0 /\ length >= 0 /\ p \in Pieces(st.torrent)
    BY DEF RequestError
  <1>2. p \in PieceIndex
    BY <1>1, PiecesInIndex DEF Storage
  <1>3. start .. (start + length - 1) \subseteq Nat
    BY <1>1
  <1>4. /\ Wrote(st, p, start, length) \in Storage
        /\ Wrote(st, p, start, length).torrent = st.torrent
        /\ Wrote(st, p, start, length).held = st.held \cup {p}
        /\ Wrote(st, p, start, length).evicted = st.evicted \ {p}
        /\ Wrote(st, p, start, length).policy = st.policy
        /\ Wrote(st, p, start, length).window = st.window
    BY <1>2, <1>3 DEF Wrote, Storage
  <1> QED BY <1>2, <1>4

LEMMA WithPolicyType ==
    ASSUME NEW st \in Storage, NEW p \in Policies
    PROVE  /\ WithPolicy(st, p) \in Storage
           /\ SamePieces(st, WithPolicy(st, p))
           /\ WithPolicy(st, p).policy = p /\ WithPolicy(st, p).window = st.window
  BY DEF WithPolicy, Storage, SamePieces

LEMMA PoliciesAreRaw == Policies \subseteq RawPolicies
  BY DEF Policies, RawPolicies

LEMMA WithWindowAtType ==
    ASSUME NEW st \in Storage, NEW offset \in Int
    PROVE  /\ WithWindowAt(st, offset) \in Storage
           /\ SamePieces(st, WithWindowAt(st, offset))
           /\ WithWindowAt(st, offset).policy = st.policy
  <1> DEFINE w == RetainedWindow(offset, PieceCount[st.torrent],
                                 PieceLength[st.torrent], st.policy)
  <1>1. PieceCount[st.torrent] \in Nat /\ PieceLength[st.torrent] \in Nat
    BY StorageAssumption DEF Storage
  <1>2. st.policy \in RawPolicies
    BY PoliciesAreRaw DEF Storage
  <1>3. w \in Windows
    BY <1>1, <1>2, WindowInTorrent
  <1>4. WithWindowAt(st, offset) = [st EXCEPT !.window = w]
    BY DEF WithWindowAt
  <1> HIDE DEF w
  <1> QED BY <1>3, <1>4 DEF Storage, SamePieces

LEMMA WithWindowType ==
    ASSUME NEW st \in Storage, NEW first \in Int, NEW end \in Int
    PROVE  /\ WithWindow(st, first, end) \in Storage
           /\ SamePieces(st, WithWindow(st, first, end))
           /\ WithWindow(st, first, end).policy = st.policy
  <1> DEFINE f == Clamp(first, 0, PieceCount[st.torrent])
             w == [first |-> f, end |-> Clamp(end, f, PieceCount[st.torrent])]
  <1>1. PieceCount[st.torrent] \in Nat
    BY StorageAssumption DEF Storage
  <1>2. w \in Windows
    BY <1>1 DEF Windows, Clamp
  <1>3. WithWindow(st, first, end) = [st EXCEPT !.window = w]
    BY DEF WithWindow
  <1> HIDE DEF w
  <1> QED BY <1>2, <1>3 DEF Storage, SamePieces

LEMMA WithoutWindowType ==
    ASSUME NEW st \in Storage
    PROVE  /\ WithoutWindow(st) \in Storage
           /\ SamePieces(st, WithoutWindow(st))
           /\ WithoutWindow(st).policy = st.policy
  BY DEF WithoutWindow, Storage, SamePieces

LEMMA DroppedType ==
    ASSUME NEW st \in Storage, NEW gone \in SUBSET PieceIndex
    PROVE  /\ Dropped(st, gone) \in Storage
           /\ Dropped(st, gone).held = st.held \ gone
           /\ Dropped(st, gone).evicted = st.evicted \cup gone
           /\ Dropped(st, gone).torrent = st.torrent
           /\ Dropped(st, gone).window = st.window
           /\ Dropped(st, gone).policy = st.policy
  BY DEF Dropped, Storage

LEMMA ClearedAllType ==
    ASSUME NEW st \in Storage
    PROVE  /\ ClearedAll(st) \in Storage
           /\ ClearedAll(st).torrent = st.torrent
           /\ ClearedAll(st).held = {} /\ ClearedAll(st).evicted = {}
           /\ ClearedAll(st).policy = st.policy /\ ClearedAll(st).window = st.window
  <1>1. 0 \in 0 .. MissBound
    BY StorageAssumption
  <1> QED BY <1>1 DEF ClearedAll, Storage

-----------------------------------------------------------------------------
(* Orders *)

Cell == Slot \X PieceIndex

LEMMA CellType ==
    /\ Slot \subseteq Nat
    /\ PieceIndex \subseteq Nat
    /\ IsFiniteSet(Cell)
  <1>1. Slot \subseteq Nat /\ PieceIndex \subseteq Nat
    BY DEF Slot, PieceIndex
  <1>2. IsFiniteSet(Slot) /\ IsFiniteSet(PieceIndex)
    BY FS_Interval, DiskAssumption, StorageAssumption DEF Slot, PieceIndex
  <1> QED BY <1>1, <1>2, FS_Product DEF Cell

\* The loops' order has a first element in every set of cells that is not empty.
LEMMA FirstCell ==
    ASSUME NEW cs \in SUBSET Cell, cs # {}
    PROVE  \E c \in cs : \A d \in cs : ~Before(d, c)
  <1> DEFINE slots == {c[1] : c \in cs}
  <1>1. slots \subseteq Nat /\ slots # {}
    BY CellType DEF Cell
  <1>2. PICK s \in slots : \A n \in slots : s <= n
    BY <1>1, LeastNatural
  <1> DEFINE in == {c \in cs : c[1] = s}
             pieces == {c[2] : c \in in}
  <1>3. pieces \subseteq Nat /\ pieces # {}
    BY <1>2, CellType DEF Cell
  <1>4. PICK p \in pieces : \A n \in pieces : p <= n
    BY <1>3, LeastNatural
  <1>5. PICK c \in in : c[2] = p
    BY <1>4
  <1>6. ASSUME NEW d \in cs, Before(d, c) PROVE FALSE
    <2>1. d[1] \in Nat /\ d[2] \in Nat /\ c[1] \in Nat /\ c[2] \in Nat
      BY CellType DEF Cell
    <2>2. s <= d[1]
      BY <1>2
    <2>3. d[1] = s /\ d[2] < p
      BY <1>5, <1>6, <2>1, <2>2 DEF Before
    <2>4. d[2] \in pieces
      BY <2>3
    <2> QED BY <1>4, <1>5, <2>1, <2>3, <2>4
  <1> QED BY <1>5, <1>6

-----------------------------------------------------------------------------
(* Footprints: the sizes of sets of buffers *)

Storages == [Slot -> Storage \cup {NoStorage}]

\* Cells whose slot holds a storage: those that have a buffer size.
CellsOf(sts) == {c \in Cell : sts[c[1]] # NoStorage}
BuffersOf(sts, cs) == UNION {Buffer(sts, c) : c \in cs}

LEMMA HeldCells ==
    ASSUME NEW sts
    PROVE  /\ Evictable(sts) \subseteq Held(sts)
           /\ Held(sts) \subseteq CellsOf(sts)
           /\ CellsOf(sts) \subseteq Cell
  BY DEF Evictable, Held, CellsOf, Cell

LEMMA BufferFinite ==
    ASSUME NEW sts \in Storages, NEW c \in CellsOf(sts)
    PROVE  /\ IsFiniteSet(Buffer(sts, c))
           /\ Cardinality(Buffer(sts, c)) = PieceSize(sts[c[1]].torrent, c[2])
  <1> DEFINE size == PieceSize(sts[c[1]].torrent, c[2])
  <1>1. sts[c[1]] \in Storage /\ c[2] \in PieceIndex
    <2>1. c[1] \in Slot /\ c[2] \in PieceIndex /\ sts[c[1]] # NoStorage
      BY DEF CellsOf, Cell
    <2> QED BY <2>1 DEF Storages
  <1>2. size \in Nat \ {0}
    BY <1>1, PieceSizeType DEF Storage
  <1>3. IsFiniteSet(0 .. (size - 1)) /\ Cardinality(0 .. (size - 1)) = size
    <2> HIDE DEF size
    <2>1. 0 \in Int /\ size - 1 \in Int /\ ~(0 > size - 1)
      BY <1>2
    <2>2. /\ IsFiniteSet(0 .. (size - 1))
          /\ Cardinality(0 .. (size - 1)) = (size - 1) - 0 + 1
      BY <2>1, FS_Interval
    <2> QED BY <1>2, <2>2
  <1>4. IsFiniteSet({c}) /\ Cardinality({c}) = 1
    BY FS_Singleton
  <1>5. Buffer(sts, c) = {c} \X (0 .. (size - 1))
    BY DEF Buffer, BytesOfPiece
  <1> HIDE DEF size
  <1> QED BY <1>2, <1>3, <1>4, <1>5, FS_Product DEF size

LEMMA BuffersFinite ==
    ASSUME NEW sts \in Storages, NEW cs \in SUBSET CellsOf(sts)
    PROVE  /\ IsFiniteSet(BuffersOf(sts, cs))
           /\ Footprint(sts, cs) = Cardinality(BuffersOf(sts, cs))
           /\ Footprint(sts, cs) \in Nat
  <1> DEFINE f == [c \in cs |-> Buffer(sts, c)]
             B == {Buffer(sts, c) : c \in cs}
  <1>1. IsFiniteSet(cs)
    BY CellType, FS_Subset, HeldCells
  <1>2. f \in Surjection(cs, B)
    BY DEF Surjection
  <1>3. IsFiniteSet(B)
    BY <1>1, <1>2, FS_Surjection
  <1>4. \A T \in B : IsFiniteSet(T)
    BY BufferFinite
  <1>5. IsFiniteSet(UNION B)
    BY <1>3, <1>4, FS_UNION
  <1> QED BY <1>5, FS_CardinalityType DEF BuffersOf, Footprint

LEMMA FootprintUnion ==
    ASSUME NEW sts \in Storages,
           NEW cs \in SUBSET CellsOf(sts), NEW ds \in SUBSET CellsOf(sts),
           cs \cap ds = {}
    PROVE  Footprint(sts, cs \cup ds) = Footprint(sts, cs) + Footprint(sts, ds)
  <1>1. BuffersOf(sts, cs \cup ds) = BuffersOf(sts, cs) \cup BuffersOf(sts, ds)
    BY DEF BuffersOf
  <1>2. BuffersOf(sts, cs) \cap BuffersOf(sts, ds) = {}
    BY DEF BuffersOf, Buffer
  <1>3. cs \cup ds \in SUBSET CellsOf(sts)
    OBVIOUS
  <1>4. /\ IsFiniteSet(BuffersOf(sts, cs)) /\ IsFiniteSet(BuffersOf(sts, ds))
        /\ Footprint(sts, cs) = Cardinality(BuffersOf(sts, cs))
        /\ Footprint(sts, ds) = Cardinality(BuffersOf(sts, ds))
        /\ Footprint(sts, cs) \in Nat /\ Footprint(sts, ds) \in Nat
    BY BuffersFinite
  <1>5. Footprint(sts, cs \cup ds) = Cardinality(BuffersOf(sts, cs \cup ds))
    BY <1>3, BuffersFinite
  <1>6. Cardinality({}) = 0
    BY FS_EmptySet
  <1>7. Cardinality(BuffersOf(sts, cs) \cup BuffersOf(sts, ds)) =
          Cardinality(BuffersOf(sts, cs)) + Cardinality(BuffersOf(sts, ds))
          - Cardinality(BuffersOf(sts, cs) \cap BuffersOf(sts, ds))
    BY <1>4, FS_Union
  <1>8. Footprint(sts, cs \cup ds) = Footprint(sts, cs) + Footprint(sts, ds) - 0
    BY <1>1, <1>2, <1>4, <1>5, <1>6, <1>7, Zenon
  <1> QED BY <1>4, <1>8

LEMMA FootprintMonotone ==
    ASSUME NEW sts \in Storages,
           NEW ds \in SUBSET CellsOf(sts), NEW cs \in SUBSET ds
    PROVE  /\ Footprint(sts, cs) \in Nat /\ Footprint(sts, ds) \in Nat
           /\ Footprint(sts, cs) <= Footprint(sts, ds)
           /\ Footprint(sts, ds \ cs) = Footprint(sts, ds) - Footprint(sts, cs)
  <1>1. cs \in SUBSET CellsOf(sts) /\ ds \ cs \in SUBSET CellsOf(sts)
    OBVIOUS
  <1>2. ds = cs \cup (ds \ cs) /\ cs \cap (ds \ cs) = {}
    OBVIOUS
  <1>3. Footprint(sts, ds) = Footprint(sts, cs) + Footprint(sts, ds \ cs)
    BY <1>1, <1>2, FootprintUnion
  <1>4. /\ Footprint(sts, cs) \in Nat /\ Footprint(sts, ds) \in Nat
        /\ Footprint(sts, ds \ cs) \in Nat
    BY <1>1, BuffersFinite
  <1> QED BY <1>3, <1>4

LEMMA FootprintOfOne ==
    ASSUME NEW sts \in Storages, NEW c \in CellsOf(sts)
    PROVE  Footprint(sts, {c}) = PieceSize(sts[c[1]].torrent, c[2])
  <1>1. BuffersOf(sts, {c}) = Buffer(sts, c)
    BY DEF BuffersOf
  <1>2. Footprint(sts, {c}) = Cardinality(BuffersOf(sts, {c}))
    BY BuffersFinite
  <1> QED BY <1>1, <1>2, BufferFinite

\* Only the torrents in the slots matter to the size of a buffer.
LEMMA FootprintSame ==
    ASSUME NEW sts \in Storages, NEW new \in Storages,
           NEW cs \in SUBSET CellsOf(sts),
           \A c \in cs : new[c[1]].torrent = sts[c[1]].torrent
    PROVE  Footprint(new, cs) = Footprint(sts, cs)
  <1>1. \A c \in cs : Buffer(new, c) = Buffer(sts, c)
    BY DEF Buffer
  <1>2. {Buffer(new, c) : c \in cs} = {Buffer(sts, c) : c \in cs}
    BY <1>1
  <1> QED BY <1>2 DEF Footprint

LEMMA FootprintOfNone ==
    ASSUME NEW sts
    PROVE  Footprint(sts, {}) = 0
  <1>1. UNION {Buffer(sts, c) : c \in {}} = {}
    OBVIOUS
  <1> QED BY <1>1, FS_EmptySet DEF Footprint

-----------------------------------------------------------------------------
(* Eviction *)

\* What leaves memory, slot by slot.
GoneOf(s, gone) == {p \in PieceIndex : <<s, p>> \in gone}

LEMMA AfterEvictionType ==
    ASSUME NEW sts \in Storages, NEW gone \in SUBSET Cell
    PROVE  LET new == AfterEviction(sts, gone)
           IN  /\ new \in Storages
               /\ \A s \in Slot : new[s] = NoStorage <=> sts[s] = NoStorage
               /\ \A s \in Slot : sts[s] # NoStorage =>
                    /\ new[s].held = sts[s].held \ GoneOf(s, gone)
                    /\ new[s].evicted = sts[s].evicted \cup GoneOf(s, gone)
                    /\ new[s].torrent = sts[s].torrent
                    /\ new[s].window = sts[s].window
                    /\ new[s].policy = sts[s].policy
  <1> DEFINE new == AfterEviction(sts, gone)
  <1>1. new = [s \in Slot |-> IF sts[s] = NoStorage THEN NoStorage
                              ELSE Dropped(sts[s], GoneOf(s, gone))]
    BY DEF AfterEviction, GoneOf
  <1>2. ASSUME NEW s \in Slot
        PROVE  /\ new[s] \in Storage \cup {NoStorage}
               /\ new[s] = NoStorage <=> sts[s] = NoStorage
               /\ sts[s] # NoStorage =>
                    /\ new[s].held = sts[s].held \ GoneOf(s, gone)
                    /\ new[s].evicted = sts[s].evicted \cup GoneOf(s, gone)
                    /\ new[s].torrent = sts[s].torrent
                    /\ new[s].window = sts[s].window
                    /\ new[s].policy = sts[s].policy
    <2>1. CASE sts[s] = NoStorage
      BY <1>1, <2>1
    <2>2. CASE sts[s] # NoStorage
      <3>1. sts[s] \in Storage
        BY <2>2 DEF Storages
      <3>2. GoneOf(s, gone) \in SUBSET PieceIndex
        BY DEF GoneOf
      <3>3. new[s] = Dropped(sts[s], GoneOf(s, gone))
        BY <1>1, <2>2
      <3> QED BY <2>2, <3>1, <3>2, <3>3, DroppedType, DiskAssumption
    <2> QED BY <2>1, <2>2
  <1>3. new \in Storages
    BY <1>1, <1>2 DEF Storages
  <1> HIDE DEF new
  <1> QED BY <1>2, <1>3 DEF new

LEMMA AfterEvictionHeld ==
    ASSUME NEW sts \in Storages, NEW gone \in SUBSET Held(sts)
    PROVE  LET new == AfterEviction(sts, gone)
           IN  /\ Held(new) = Held(sts) \ gone
               /\ Evictable(new) = Evictable(sts) \ gone
               /\ Footprint(new, Held(new)) =
                    Footprint(sts, Held(sts)) - Footprint(sts, gone)
  <1> DEFINE new == AfterEviction(sts, gone)
  <1>1. gone \in SUBSET Cell
    BY HeldCells
  <1>2. /\ new \in Storages
        /\ \A s \in Slot : new[s] = NoStorage <=> sts[s] = NoStorage
        /\ \A s \in Slot : sts[s] # NoStorage =>
             /\ new[s].held = sts[s].held \ GoneOf(s, gone)
             /\ new[s].torrent = sts[s].torrent
             /\ new[s].window = sts[s].window
    BY <1>1, AfterEvictionType
  <1> HIDE DEF new
  <1>3. ASSUME NEW c \in Cell
        PROVE  c \in Held(new) <=> c \in Held(sts) \ gone
    <2>1. c[1] \in Slot /\ c[2] \in PieceIndex /\ c = <<c[1], c[2]>>
      BY DEF Cell
    <2>2. c[2] \in GoneOf(c[1], gone) <=> c \in gone
      BY <2>1 DEF GoneOf
    <2> QED BY <1>2, <2>1, <2>2 DEF Held
  <1>4. Held(new) = Held(sts) \ gone
    BY <1>3, HeldCells
  <1>5. Evictable(new) = Evictable(sts) \ gone
    <2>1. ASSUME NEW c \in Held(new)
          PROVE  c[2] \in Unretained(new[c[1]]) <=> c[2] \in Unretained(sts[c[1]])
      <3>1. c \in Held(sts) /\ c[1] \in Slot /\ sts[c[1]] # NoStorage
        BY <1>4 DEF Held
      <3>2. c[2] \in new[c[1]].held /\ c[2] \in sts[c[1]].held
        BY <3>1 DEF Held
      <3>3. new[c[1]].window = sts[c[1]].window
        BY <1>2, <3>1
      <3> QED BY <3>2, <3>3 DEF Unretained
    <2> QED BY <1>4, <2>1 DEF Evictable
  <1>6. /\ Held(new) \in SUBSET CellsOf(sts)
        /\ \A c \in Held(new) : new[c[1]].torrent = sts[c[1]].torrent
    BY <1>2, <1>4, HeldCells DEF Held
  <1>7. Footprint(new, Held(new)) = Footprint(sts, Held(sts) \ gone)
    BY <1>2, <1>4, <1>6, FootprintSame
  <1>8. Footprint(sts, Held(sts) \ gone) = Footprint(sts, Held(sts)) - Footprint(sts, gone)
    BY HeldCells, FootprintMonotone
  <1> QED BY <1>4, <1>5, <1>7, <1>8 DEF new

\* When eviction ends over the limit, it has let go of all it may.  The first piece that
\* it keeps is one it found the cache small enough for; if there is one, all the
\* pieces before it are gone, and they alone make the cache fit.
LEMMA EvictionIsThorough ==
    ASSUME NEW sts \in Storages, NEW used \in Int, NEW max \in Int,
           used - Footprint(sts, Evicted(sts, used, max)) > max
    PROVE  Evictable(sts) \ Evicted(sts, used, max) = {}
  <1> DEFINE gone == Evicted(sts, used, max)
             kept == Evictable(sts) \ gone
             earlier(c) == {d \in Evictable(sts) : Before(d, c)}
  <1> SUFFICES ASSUME kept # {} PROVE FALSE
    OBVIOUS
  <1>1. kept \in SUBSET Cell
    BY HeldCells
  <1>2. PICK c \in kept : \A d \in kept : ~Before(d, c)
    BY <1>1, FirstCell
  <1>3. earlier(c) \subseteq gone
    BY <1>2
  <1>4. gone \subseteq CellsOf(sts)
    BY HeldCells DEF Evicted
  <1>5. ~(used - Footprint(sts, earlier(c)) > max)
    BY <1>2 DEF Evicted
  <1>6. /\ Footprint(sts, earlier(c)) \in Nat /\ Footprint(sts, gone) \in Nat
        /\ Footprint(sts, earlier(c)) <= Footprint(sts, gone)
    BY <1>3, <1>4, FootprintMonotone
  <1> HIDE DEF gone
  <1>7. used - Footprint(sts, gone) > max
    BY DEF gone
  <1> QED BY <1>5, <1>6, <1>7

\* What Enforce leaves, for the storages and the account it is given.
LEMMA EnforceEffect ==
    ASSUME NEW sts \in Storages, NEW used \in Int, NEW max \in Int,
           Enforce(sts, used, max)
    PROVE  /\ storages' \in Storages
           /\ bytesUsed' \in Int
           /\ \A s \in Slot : storages'[s] = NoStorage <=> sts[s] = NoStorage
           /\ \A s \in Slot : sts[s] # NoStorage => storages'[s].policy = sts[s].policy
           /\ bytesUsed' > max => Evictable(storages') = {}
           /\ used = Footprint(sts, Held(sts))
                => bytesUsed' = Footprint(storages', Held(storages'))
  <1> DEFINE gone == Evicted(sts, used, max)
             new == AfterEviction(sts, gone)
  <1>1. gone \in SUBSET Evictable(sts) /\ gone \in SUBSET Held(sts)
        /\ gone \in SUBSET CellsOf(sts) /\ gone \in SUBSET Cell
    BY HeldCells DEF Evicted
  <1>2. storages' = new /\ bytesUsed' = used - Footprint(sts, gone)
    BY DEF Enforce
  <1>3. Footprint(sts, gone) \in Nat
    BY <1>1, BuffersFinite
  <1>4. used - Footprint(sts, gone) > max => Evictable(sts) \ gone = {}
    BY EvictionIsThorough
  <1> HIDE DEF gone
  <1>5. /\ new \in Storages
        /\ \A s \in Slot : new[s] = NoStorage <=> sts[s] = NoStorage
        /\ \A s \in Slot : sts[s] # NoStorage => new[s].policy = sts[s].policy
    BY <1>1, AfterEvictionType
  <1>6. /\ Evictable(new) = Evictable(sts) \ gone
        /\ Footprint(new, Held(new)) = Footprint(sts, Held(sts)) - Footprint(sts, gone)
    BY <1>1, AfterEvictionHeld
  <1> HIDE DEF new
  <1> QED BY <1>2, <1>3, <1>4, <1>5, <1>6

-----------------------------------------------------------------------------
(* Types *)

LEMMA WithType ==
    ASSUME storages \in Storages, NEW s \in Slot, NEW st \in Storage \cup {NoStorage}
    PROVE  With(s, st) \in Storages
  BY DEF With, Storages

LEMMA LiveStorage ==
    ASSUME storages \in Storages, NEW s \in Live
    PROVE  s \in Slot /\ storages[s] \in Storage
  BY DEF Live, Storages

LEMMA RequestErrorType ==
    ASSUME NEW st, NEW p, NEW start, NEW length
    PROVE  RequestError(st, p, start, length) \in {"ok", "invalid", "eof"}
  BY DEF RequestError

LEMMA PostedType ==
    ASSUME NEW job \in Jobs, NEW s \in Slot, NEW p \in Int, NEW outcome \in Outcomes
    PROVE  Posted(job, s, p, outcome) \in [job : Jobs, slot : Int, piece : Int, outcome : Outcomes]
  BY CellType DEF Posted

LEMMA NoStorageJobType ==
    ASSUME TypeOK, NEW job \in Jobs, NEW s \in Slot, NEW p \in Int, NoStorageJob(job, s, p)
    PROVE  TypeOK'
  <1>1. posted' = Posted(job, s, p, "no_storage") /\ UNCHANGED <<disk, stored>>
    BY DEF NoStorageJob
  <1>2. posted' \in [job : Jobs, slot : Int, piece : Int, outcome : Outcomes]
    BY <1>1, PostedType DEF Outcomes
  <1> QED BY <1>1, <1>2 DEF TypeOK, disk

LEMMA NothingType == Nothing \in [job : Jobs, slot : Int, piece : Int, outcome : Outcomes]
  BY DEF Nothing, Posted, Jobs, Outcomes

LEMMA LookedType ==
    ASSUME TypeOK, NEW s \in Live, NEW p, NEW found, Looked(s, p, found)
    PROVE  /\ storages' \in Storages
           /\ UNCHANGED <<slotCount, freeSlots, policy, bytesUsed>>
  <1>1. storages \in Storages
    BY DEF TypeOK, Storages
  <1>2. CASE found
    BY <1>1, <1>2 DEF Looked, disk
  <1>3. CASE ~found
    BY <1>1, <1>3, LiveStorage, MissedType, WithType DEF Looked
  <1> QED BY <1>2, <1>3

\* Every variable keeps its type: in particular a window, a policy and a set of held
\* pieces of a storage are always ones the arithmetic is defined for, and the byte
\* account stays a number.
THEOREM TypeCorrect == Spec => []TypeOK
  <1>1. Init => TypeOK
    BY DiskAssumption, NothingType DEF Init, TypeOK
  <1>2. TypeOK /\ [Next]_vars => TypeOK'
    <2> SUFFICES ASSUME TypeOK, [Next]_vars PROVE TypeOK'
      OBVIOUS
    <2>0. /\ storages \in Storages /\ slotCount \in 0 .. MaxSlots /\ freeSlots \in Seq(Slot)
          /\ policy \in Policies /\ policy.max \in Int /\ bytesUsed \in Int
          /\ stored \in [Slot -> SUBSET PieceIndex]
      BY DEF TypeOK, Storages, Policies
    <2> USE CellType
    <2>1. ASSUME NEW raw \in RawPolicySet, SetCachePolicy(raw) PROVE TypeOK'
      <3> DEFINE new == Normalize(raw)
                 sts == [s \in Slot |-> IF s \in Live THEN WithPolicy(storages[s], new)
                                        ELSE NoStorage]
      <3>1. new \in Policies /\ new.max \in Int
        BY NormalizeFits, DiskAssumption DEF Policies
      <3> HIDE DEF new
      <3>2. sts \in Storages
        BY <2>0, <3>1, LiveStorage, WithPolicyType DEF Storages
      <3>3. /\ policy' = new /\ Enforce(sts, bytesUsed, new.max) /\ posted' = Nothing
            /\ UNCHANGED <<slotCount, freeSlots, stored>>
        BY <2>1 DEF SetCachePolicy, new
      <3> HIDE DEF sts
      <3>4. storages' \in Storages /\ bytesUsed' \in Int
        BY <2>0, <3>1, <3>2, <3>3, EnforceEffect
      <3> QED BY <2>0, <3>1, <3>3, <3>4, NothingType DEF TypeOK, Storages
    <2>2. ASSUME NEW t \in Torrents, NewTorrent(t) PROVE TypeOK'
      <3> DEFINE reuse == freeSlots # <<>>
                 s == IF reuse THEN freeSlots[Len(freeSlots)] ELSE slotCount
      <3>1. s \in Slot
        BY <2>0, <2>2, DiskAssumption DEF NewTorrent, Slot
      <3>2. slotCount' \in 0 .. MaxSlots /\ freeSlots' \in Seq(Slot)
        BY <2>0, <2>2, DiskAssumption DEF NewTorrent
      <3>3. storages' = With(s, NewStorage(t, policy))
        BY <2>2 DEF NewTorrent
      <3>4. storages' \in Storages
        BY <2>0, <3>1, <3>3, NewStorageType, WithType
      <3>5. stored' \in [Slot -> SUBSET PieceIndex]
        BY <2>0, <2>2 DEF NewTorrent
      <3> QED BY <2>0, <2>2, <3>2, <3>4, <3>5, NothingType DEF TypeOK, Storages, NewTorrent
    <2>3. ASSUME NEW s \in Slot, NEW o \in Offsets, UpdateRetainedWindow(s, o)
          PROVE  TypeOK'
      <3>1. s \in Live /\ o \in Int
        BY <2>3, DiskAssumption DEF UpdateRetainedWindow
      <3>2. With(s, WithWindowAt(storages[s], o)) \in Storages
        BY <2>0, <3>1, LiveStorage, WithWindowAtType, WithType
      <3>3. storages' \in Storages /\ bytesUsed' \in Int
        BY <2>0, <2>3, <3>2, EnforceEffect DEF UpdateRetainedWindow
      <3> QED BY <2>0, <2>3, <3>3, NothingType DEF TypeOK, Storages, UpdateRetainedWindow
    <2>4. ASSUME NEW s \in Slot, NEW w \in AskedWindows, SetRetainedWindow(s, w[1], w[2])
          PROVE  TypeOK'
      <3>1. s \in Live /\ w[1] \in Int /\ w[2] \in Int
        BY <2>4, DiskAssumption DEF SetRetainedWindow
      <3>2. With(s, WithWindow(storages[s], w[1], w[2])) \in Storages
        BY <2>0, <3>1, LiveStorage, WithWindowType, WithType
      <3>3. storages' \in Storages /\ bytesUsed' \in Int
        BY <2>0, <2>4, <3>2, EnforceEffect DEF SetRetainedWindow
      <3> QED BY <2>0, <2>4, <3>3, NothingType DEF TypeOK, Storages, SetRetainedWindow
    <2>5. ASSUME NEW s \in Slot, ClearRetainedWindow(s) PROVE TypeOK'
      <3>1. storages' \in Storages
        BY <2>0, <2>5, LiveStorage, WithoutWindowType, WithType DEF ClearRetainedWindow
      <3> QED BY <2>0, <2>5, <3>1, NothingType DEF TypeOK, Storages, ClearRetainedWindow
    <2>6. ASSUME NEW s \in Slot, RemoveTorrent(s) PROVE TypeOK'
      <3>1. {s} \X storages[s].held \in SUBSET CellsOf(storages)
        BY <2>0, <2>6, LiveStorage DEF RemoveTorrent, CellsOf, Cell, Live, Storage
      <3>2. bytesUsed' \in Int
        BY <2>0, <2>6, <3>1, BuffersFinite DEF RemoveTorrent
      <3>3. storages' \in Storages
        BY <2>0, <2>6, WithType DEF RemoveTorrent
      <3>4. freeSlots' \in Seq(Slot) /\ stored' \in [Slot -> SUBSET PieceIndex]
        BY <2>0, <2>6 DEF RemoveTorrent
      <3> QED BY <2>0, <2>6, <3>2, <3>3, <3>4, NothingType DEF TypeOK, Storages, RemoveTorrent
    <2>7. ASSUME NEW s \in Slot, DeleteFiles(s) PROVE TypeOK'
      <3>1. posted' \in [job : Jobs, slot : Int, piece : Int, outcome : Outcomes]
        <4>1. posted' = Posted("delete_files", s, 0, "ok")
          BY <2>7 DEF DeleteFiles
        <4>2. "delete_files" \in Jobs /\ "ok" \in Outcomes /\ 0 \in Int
          BY DEF Jobs, Outcomes
        <4>3. Posted("delete_files", s, 0, "ok")
                \in [job : Jobs, slot : Int, piece : Int, outcome : Outcomes]
          BY <4>2, PostedType
        <4> QED BY <4>1, <4>3
      <3>2. CASE s \in Live
        <4>1. {s} \X storages[s].held \in SUBSET CellsOf(storages)
          BY <2>0, <3>2, LiveStorage DEF CellsOf, Cell, Live, Storage
        <4>2. bytesUsed' \in Int
          BY <2>0, <2>7, <3>2, <4>1, BuffersFinite DEF DeleteFiles
        <4>3. storages' \in Storages
          BY <2>0, <2>7, <3>2, LiveStorage, ClearedAllType, WithType DEF DeleteFiles
        <4>4. stored' \in [Slot -> SUBSET PieceIndex]
          BY <2>0, <2>7, <3>2 DEF DeleteFiles
        <4> QED BY <2>0, <2>7, <3>1, <3>2, <4>2, <4>3, <4>4 DEF TypeOK, Storages, DeleteFiles
      <3>3. CASE s \notin Live
        BY <2>0, <2>7, <3>1, <3>3 DEF TypeOK, Storages, DeleteFiles, disk
      <3> QED BY <3>2, <3>3
    <2>8. ASSUME NEW s \in Slot, NEW p \in AskedPieces, NEW r \in AskedRanges,
                 AsyncWrite(s, p, r[1], r[2])
          PROVE  TypeOK'
      <3> DEFINE error == RequestError(storages[s], p, r[1], r[2])
      <3>1. p \in Int /\ r[1] \in Int /\ r[2] \in Int
        BY DiskAssumption
      <3>2. CASE NoStorageJob("write", s, p)
        BY <3>1, <3>2, NoStorageJobType DEF Jobs
      <3>3. CASE /\ s \in Live /\ error # "ok"
                 /\ posted' = Posted("write", s, p, error)
                 /\ UNCHANGED <<disk, stored>>
        <4>1. error \in Outcomes
          BY RequestErrorType DEF Outcomes
        <4> HIDE DEF error
        <4> QED BY <2>0, <3>1, <3>3, <4>1, PostedType DEF TypeOK, Storages, disk, Jobs
      <3>4. CASE /\ s \in Live /\ error = "ok"
                 /\ Enforce(With(s, Wrote(storages[s], p, r[1], r[2])),
                            bytesUsed + NewBytes(s, p), policy.max)
                 /\ posted' = Posted("write", s, p, "ok")
                 /\ stored' = [stored EXCEPT ![s] = @ \cup {p}]
                 /\ UNCHANGED <<slotCount, freeSlots, policy>>
        <4>0. s \in Live /\ RequestError(storages[s], p, r[1], r[2]) = "ok"
          BY <3>4
        <4>1. storages[s] \in Storage
          BY <2>0, <4>0, LiveStorage
        <4>2. Wrote(storages[s], p, r[1], r[2]) \in Storage /\ p \in PieceIndex
          <5> HIDE DEF error
          <5> QED BY <3>1, <4>0, <4>1, WroteType
        <4>3. With(s, Wrote(storages[s], p, r[1], r[2])) \in Storages
          BY <2>0, <4>2, WithType
        <4>4. bytesUsed + NewBytes(s, p) \in Int
          <5>1. PieceSize(storages[s].torrent, p) \in Int
            BY <4>1, <4>2, PieceSizeType DEF Storage
          <5> QED BY <2>0, <5>1 DEF NewBytes
        <4>5. storages' \in Storages /\ bytesUsed' \in Int
          BY <2>0, <3>4, <4>3, <4>4, EnforceEffect
        <4>6. posted' \in [job : Jobs, slot : Int, piece : Int, outcome : Outcomes]
          <5>1. Posted("write", s, p, "ok") \in [job : Jobs, slot : Int, piece : Int, outcome : Outcomes]
            BY <3>1, PostedType DEF Jobs, Outcomes
          <5> QED BY <3>4, <5>1
        <4>7. stored' \in [Slot -> SUBSET PieceIndex]
          BY <2>0, <3>4, <4>2
        <4> QED BY <2>0, <3>4, <4>5, <4>6, <4>7 DEF TypeOK, Storages
      <3> QED BY <2>8, <3>2, <3>3, <3>4 DEF AsyncWrite
    <2>9. ASSUME NEW s \in Slot, NEW p \in AskedPieces, NEW r \in AskedRanges,
                 AsyncRead(s, p, r[1], r[2])
          PROVE  TypeOK'
      <3> DEFINE error == RequestError(storages[s], p, r[1], r[2])
                 found == Readable(storages[s], p, r[1], r[2])
      <3>1. p \in Int
        BY DiskAssumption
      <3>2. CASE NoStorageJob("read", s, p)
        BY <3>1, <3>2, NoStorageJobType DEF Jobs
      <3>3. CASE /\ s \in Live
                 /\ IF error = "ok" THEN Looked(s, p, found) ELSE UNCHANGED disk
                 /\ posted' = Posted("read", s, p, IF error # "ok" THEN error
                                                   ELSE IF found THEN "ok" ELSE "eof")
                 /\ UNCHANGED stored
        <4>1. error \in {"ok", "invalid", "eof"}
          BY RequestErrorType
        <4> HIDE DEF error, found
        <4>2. posted' \in [job : Jobs, slot : Int, piece : Int, outcome : Outcomes]
          <5>1. PICK o \in Outcomes : posted' = Posted("read", s, p, o)
            BY <3>3, <4>1 DEF Outcomes
          <5> QED BY <3>1, <5>1, PostedType DEF Jobs
        <4>3. storages' \in Storages /\ UNCHANGED <<slotCount, freeSlots, policy, bytesUsed>>
          BY <2>0, <3>3, LookedType DEF disk
        <4> QED BY <2>0, <3>3, <4>2, <4>3 DEF TypeOK, Storages
      <3> QED BY <2>9, <3>2, <3>3 DEF AsyncRead
    <2>10. ASSUME NEW s \in Slot, NEW p \in AskedPieces, NEW r \in AskedRanges,
                  ReadBytes(s, p, r[1], r[2])
           PROVE  TypeOK'
      <3>1. storages' \in Storages /\ UNCHANGED <<slotCount, freeSlots, policy, bytesUsed>>
        BY <2>10, LookedType DEF ReadBytes
      <3> QED BY <2>0, <2>10, <3>1, NothingType DEF TypeOK, Storages, ReadBytes
    <2>11. ASSUME NEW s \in Slot, NEW p \in AskedPieces, NEW r \in AskedRanges,
                  AsyncHash2(s, p, r[1])
           PROVE  TypeOK'
      <3> DEFINE rest == PieceSize(storages[s].torrent, p) - r[1]
                 found == Readable(storages[s], p, r[1], AtMost(Block, rest))
      <3>1. p \in Int
        BY DiskAssumption
      <3>2. CASE NoStorageJob("hash2", s, p)
        BY <3>1, <3>2, NoStorageJobType DEF Jobs
      <3>3. CASE /\ s \in Live
                 /\ IF r[1] < 0 \/ rest <= 0
                    THEN posted' = Posted("hash2", s, p, "invalid") /\ UNCHANGED disk
                    ELSE /\ Looked(s, p, found)
                         /\ posted' = Posted("hash2", s, p, IF found THEN "ok" ELSE "missing")
                 /\ UNCHANGED stored
        <4> HIDE DEF rest, found
        <4>1. posted' \in [job : Jobs, slot : Int, piece : Int, outcome : Outcomes]
          <5>1. PICK o \in Outcomes : posted' = Posted("hash2", s, p, o)
            BY <3>3 DEF Outcomes
          <5> QED BY <3>1, <5>1, PostedType DEF Jobs
        <4>2. storages' \in Storages /\ UNCHANGED <<slotCount, freeSlots, policy, bytesUsed>>
          BY <2>0, <3>3, LookedType DEF disk
        <4> QED BY <2>0, <3>3, <4>1, <4>2 DEF TypeOK, Storages
      <3> QED BY <2>11, <3>2, <3>3 DEF AsyncHash2
    <2>12. ASSUME NEW s \in Slot, NEW p \in AskedPieces, AsyncHash(s, p) PROVE TypeOK'
      <3> DEFINE whole == Readable(storages[s], p, 0, PieceSize(storages[s].torrent, p))
      <3>1. p \in Int
        BY DiskAssumption
      <3>2. CASE NoStorageJob("hash", s, p)
        BY <3>1, <3>2, NoStorageJobType DEF Jobs
      <3>3. CASE /\ s \in Live
                 /\ posted' = Posted("hash", s, p, "invalid")
                 /\ UNCHANGED <<disk, stored>>
        <4>1. Posted("hash", s, p, "invalid") \in [job : Jobs, slot : Int, piece : Int, outcome : Outcomes]
          BY <3>1, PostedType DEF Jobs, Outcomes
        <4> QED BY <2>0, <3>3, <4>1 DEF TypeOK, Storages, disk
      <3>4. CASE /\ s \in Live
                 /\ Looked(s, p, whole)
                 /\ posted' = Posted("hash", s, p, IF whole THEN "ok" ELSE "missing")
                 /\ UNCHANGED stored
        <4> HIDE DEF whole
        <4>1. posted' \in [job : Jobs, slot : Int, piece : Int, outcome : Outcomes]
          <5>1. PICK o \in Outcomes : posted' = Posted("hash", s, p, o)
            BY <3>4 DEF Outcomes
          <5> QED BY <3>1, <5>1, PostedType DEF Jobs
        <4>2. storages' \in Storages /\ UNCHANGED <<slotCount, freeSlots, policy, bytesUsed>>
          BY <3>4, LookedType
        <4> QED BY <2>0, <3>4, <4>1, <4>2 DEF TypeOK, Storages
      <3> QED BY <2>12, <3>2, <3>3, <3>4 DEF AsyncHash
    <2>13. ASSUME NEW s \in Slot, NEW p \in AskedPieces, ClearPiece(s, p) PROVE TypeOK'
      <3>1. p \in Int
        BY DiskAssumption
      <3>2. posted' \in [job : Jobs, slot : Int, piece : Int, outcome : Outcomes]
        <4>1. Posted("clear_piece", s, p, "ok") \in [job : Jobs, slot : Int, piece : Int, outcome : Outcomes]
          BY <3>1, PostedType DEF Jobs, Outcomes
        <4> QED BY <2>13, <4>1 DEF ClearPiece
      <3>3. CASE s \in Live /\ p \in storages[s].held
        <4>1. storages[s] \in Storage /\ p \in PieceIndex
          BY <2>0, <3>3, LiveStorage DEF Storage
        <4>2. {<<s, p>>} \in SUBSET CellsOf(storages)
          BY <3>3, <4>1 DEF CellsOf, Cell, Live
        <4>3. bytesUsed' \in Int
          BY <2>0, <2>13, <3>3, <4>2, BuffersFinite DEF ClearPiece
        <4>4. storages' \in Storages
          BY <2>0, <2>13, <3>3, <4>1, DroppedType, WithType DEF ClearPiece
        <4> QED BY <2>0, <2>13, <3>2, <3>3, <4>3, <4>4 DEF TypeOK, Storages, ClearPiece
      <3>4. CASE ~(s \in Live /\ p \in storages[s].held)
        BY <2>0, <2>13, <3>2, <3>4 DEF TypeOK, Storages, ClearPiece, disk
      <3> QED BY <3>3, <3>4
    <2>14. CASE UNCHANGED vars
      BY <2>14 DEF vars, disk, TypeOK
    <2> QED BY <2>1, <2>2, <2>3, <2>4, <2>5, <2>6, <2>7, <2>8, <2>9, <2>10, <2>11, <2>12,
               <2>13, <2>14 DEF Next
  <1> QED BY <1>1, <1>2, PTL DEF Spec

-----------------------------------------------------------------------------
(* The kinds of step *)

\* In each slot the pieces written are held or evicted, not both.
StoredIn(sts, sto) ==
    \A s \in Slot : sts[s] # NoStorage =>
        /\ sts[s].held \cup sts[s].evicted = sto[s]
        /\ sts[s].held \cap sts[s].evicted = {}

PoliciesIn(sts, pol) == \A s \in Slot : sts[s] # NoStorage => sts[s].policy = pol

SameLive(sts, new) == \A s \in Slot : new[s] = NoStorage <=> sts[s] = NoStorage

SlotsKept == UNCHANGED <<slotCount, freeSlots>>

\* Reads, hashes, refused requests, the end of a window.
Quiet ==
    /\ storages' \in Storages
    /\ SameLive(storages, storages')
    /\ \A s \in Slot : storages[s] # NoStorage =>
        /\ SamePieces(storages[s], storages'[s])
        /\ storages'[s].policy = storages[s].policy
        /\ storages'[s].window \in {storages[s].window, NoWindow}
    /\ SlotsKept
    /\ UNCHANGED <<policy, bytesUsed, stored>>
    /\ JustWritten' = {}

\* A new policy, a new window or a write, and the eviction that follows it.
Enforcing ==
    /\ \E sts \in Storages, used \in Int :
        /\ Enforce(sts, used, policy'.max)
        /\ SameLive(storages, sts)
        /\ PoliciesIn(storages, policy) => PoliciesIn(sts, policy')
        /\ StoredIn(storages, stored) => StoredIn(sts, stored')
        /\ BytesAccounted => used = Footprint(sts, Held(sts))
        /\ Held(sts) = Held(storages) \cup JustWritten'
    /\ posted'.job \notin {"delete_files", "clear_piece"}
    /\ policy' \in Policies
    /\ SlotsKept

\* A torrent's pieces, all or one, leave memory because libtorrent said so.
Releasing ==
    /\ \E s \in Live : \E gone \in SUBSET storages[s].held, st \in Storage :
        /\ storages' = With(s, st)
        /\ st.torrent = storages[s].torrent /\ st.held = storages[s].held \ gone
        /\ st.policy = storages[s].policy /\ st.window = storages[s].window
        /\ bytesUsed' = bytesUsed - Footprint(storages, {s} \X gone)
        /\ StoredIn(storages, stored) => StoredIn(storages', stored')
    /\ posted'.job \in {"delete_files", "clear_piece"}
    /\ SlotsKept
    /\ UNCHANGED policy

LEMMA TypedState ==
    ASSUME TypeOK
    PROVE  /\ storages \in Storages /\ slotCount \in 0 .. MaxSlots
           /\ freeSlots \in Seq(Slot) /\ policy \in Policies /\ policy.max \in Int
           /\ bytesUsed \in Int /\ stored \in [Slot -> SUBSET PieceIndex]
  BY DEF TypeOK, Storages, Policies

\* A storage replaced by one with the same pieces.
LEMMA ReplacedQuietly ==
    ASSUME storages \in Storages, NEW s \in Live, NEW st \in Storage,
           SamePieces(storages[s], st), st.policy = storages[s].policy,
           st.window \in {storages[s].window, NoWindow},
           storages' = With(s, st), SlotsKept, UNCHANGED <<policy, bytesUsed, stored>>,
           JustWritten' = {}
    PROVE  Quiet
  <1>1. With(s, st) \in Storages
    BY LiveStorage, WithType
  <1>2. st # NoStorage /\ storages[s] # NoStorage /\ s \in Slot
    BY DiskAssumption DEF Live
  <1>3. \A r \in Slot : storages'[r] = IF r = s THEN st ELSE storages[r]
    BY DEF With, Storages
  <1> QED BY <1>1, <1>2, <1>3 DEF Quiet, SameLive, SamePieces

LEMMA NothingDone ==
    ASSUME storages \in Storages, UNCHANGED <<disk, stored>>, JustWritten' = {}
    PROVE  Quiet
  BY DEF Quiet, SameLive, SamePieces, SlotsKept, disk

LEMMA LookedQuietly ==
    ASSUME storages \in Storages, NEW s \in Live, NEW p, NEW found,
           Looked(s, p, found), UNCHANGED stored, JustWritten' = {}
    PROVE  Quiet
  <1>1. CASE found
    BY <1>1, NothingDone DEF Looked
  <1>2. CASE ~found
    BY <1>2, LiveStorage, MissedType, ReplacedQuietly DEF Looked, SlotsKept
  <1> QED BY <1>1, <1>2

\* The storages given to eviction with their pieces as they were: a policy or a window
\* has changed.
LEMMA EnforcedAsIs ==
    ASSUME storages \in Storages, NEW sts \in Storages, NEW used \in Int, used = bytesUsed,
           SameLive(storages, sts),
           \A s \in Slot : storages[s] # NoStorage => SamePieces(storages[s], sts[s]),
           PoliciesIn(storages, policy) => PoliciesIn(sts, policy'),
           Enforce(sts, used, policy'.max), policy' \in Policies,
           SlotsKept, UNCHANGED stored, posted' = Nothing
    PROVE  Enforcing
  <1>1. Held(sts) = Held(storages)
    BY DEF Held, SameLive, SamePieces
  <1>2. \A c \in Held(storages) : sts[c[1]].torrent = storages[c[1]].torrent
    BY DEF Held, SamePieces
  <1>3. Footprint(sts, Held(sts)) = Footprint(storages, Held(storages))
    BY <1>1, <1>2, HeldCells, FootprintSame
  <1>4. StoredIn(storages, stored) => StoredIn(sts, stored')
    BY DEF StoredIn, SamePieces, SameLive
  <1>5. JustWritten' = {} /\ posted'.job \notin {"delete_files", "clear_piece"}
    BY DEF JustWritten, Nothing, Posted
  <1> QED BY <1>1, <1>3, <1>4, <1>5 DEF Enforcing, BytesAccounted

\* A write puts its piece in memory and, if its buffer is new, into the account.
LEMMA EnforcedWrite ==
    ASSUME storages \in Storages, bytesUsed \in Int, stored \in [Slot -> SUBSET PieceIndex],
           NEW s \in Live, NEW p, NEW start \in Int, NEW length \in Int,
           RequestError(storages[s], p, start, length) = "ok",
           Enforce(With(s, Wrote(storages[s], p, start, length)),
                   bytesUsed + NewBytes(s, p), policy.max),
           stored' = [stored EXCEPT ![s] = @ \cup {p}],
           policy \in Policies, UNCHANGED policy, SlotsKept,
           posted' = Posted("write", s, p, "ok")
    PROVE  Enforcing
  <1> DEFINE st == Wrote(storages[s], p, start, length)
             sts == With(s, st)
             used == bytesUsed + NewBytes(s, p)
             c == <<s, p>>
  <1>1. s \in Slot /\ storages[s] \in Storage /\ storages[s] # NoStorage
    BY LiveStorage DEF Live
  <1>2. /\ st \in Storage /\ p \in PieceIndex
        /\ st.torrent = storages[s].torrent
        /\ st.held = storages[s].held \cup {p}
        /\ st.evicted = storages[s].evicted \ {p}
        /\ st.policy = storages[s].policy
    <2> DEFINE old == storages[s]
    <2>1. old \in Storage /\ RequestError(old, p, start, length) = "ok"
      BY <1>1
    <2> HIDE DEF old
    <2>2. /\ Wrote(old, p, start, length) \in Storage /\ p \in PieceIndex
          /\ Wrote(old, p, start, length).torrent = old.torrent
          /\ Wrote(old, p, start, length).held = old.held \cup {p}
          /\ Wrote(old, p, start, length).evicted = old.evicted \ {p}
          /\ Wrote(old, p, start, length).policy = old.policy
      BY <2>1, WroteType
    <2> QED BY <2>2 DEF old
  <1> HIDE DEF st
  <1>3. sts \in Storages /\ st # NoStorage
    BY <1>1, <1>2, WithType, DiskAssumption
  <1>4. \A r \in Slot : sts[r] = IF r = s THEN st ELSE storages[r]
    BY DEF With, Storages
  <1> HIDE DEF sts
  <1>5. SameLive(storages, sts)
    BY <1>1, <1>3, <1>4 DEF SameLive
  <1>6. PoliciesIn(storages, policy) => PoliciesIn(sts, policy')
    BY <1>1, <1>2, <1>4 DEF PoliciesIn
  <1>7. StoredIn(storages, stored) => StoredIn(sts, stored')
    <2> SUFFICES ASSUME StoredIn(storages, stored), NEW r \in Slot, sts[r] # NoStorage
                 PROVE  /\ sts[r].held \cup sts[r].evicted = stored'[r]
                        /\ sts[r].held \cap sts[r].evicted = {}
      BY DEF StoredIn
    <2>1. CASE r = s
      <3>1. stored'[r] = stored[s] \cup {p} /\ sts[r] = st
        BY <1>1, <1>4, <2>1
      <3>2. /\ storages[s].held \cup storages[s].evicted = stored[s]
            /\ storages[s].held \cap storages[s].evicted = {}
        BY <1>1 DEF StoredIn
      <3> QED BY <1>2, <3>1, <3>2
    <2>2. CASE r # s
      BY <1>4, <2>2 DEF StoredIn
    <2> QED BY <2>1, <2>2
  <1>8. c \in CellsOf(sts)
    BY <1>1, <1>2, <1>3, <1>4 DEF CellsOf, Cell
  <1>9. Held(sts) = Held(storages) \cup {c}
    <2>1. ASSUME NEW d \in Cell PROVE d \in Held(sts) <=> d \in Held(storages) \/ d = c
      <3>1. d[1] \in Slot /\ d[2] \in PieceIndex /\ d = <<d[1], d[2]>>
        BY DEF Cell
      <3> QED BY <1>1, <1>2, <1>3, <1>4, <3>1 DEF Held
    <2>2. Held(sts) \subseteq Cell /\ Held(storages) \subseteq Cell /\ c \in Cell
      BY <1>1, <1>2, HeldCells DEF Cell
    <2> QED BY <2>1, <2>2
  <1>10. Footprint(sts, Held(storages)) = Footprint(storages, Held(storages))
    <2>1. Held(storages) \in SUBSET CellsOf(storages)
      BY HeldCells
    <2>2. \A d \in Held(storages) : sts[d[1]].torrent = storages[d[1]].torrent
      BY <1>2, <1>4 DEF Held
    <2> QED BY <1>3, <2>1, <2>2, FootprintSame
  <1>11. Footprint(sts, Held(sts)) = Footprint(storages, Held(storages)) + NewBytes(s, p)
    <2>1. CASE p \in storages[s].held
      <3>1. Held(sts) = Held(storages)
        BY <1>1, <1>2, <1>9, <2>1 DEF Held
      <3>2. Footprint(storages, Held(storages)) \in Nat
        BY HeldCells, BuffersFinite
      <3> QED BY <1>10, <2>1, <3>1, <3>2 DEF NewBytes
    <2>2. CASE p \notin storages[s].held
      <3>1. Held(storages) \cap {c} = {}
        BY <2>2 DEF Held
      <3>2. Held(storages) \in SUBSET CellsOf(sts)
        BY <1>9, HeldCells
      <3>3. Footprint(sts, Held(sts)) =
              Footprint(sts, Held(storages)) + Footprint(sts, {c})
        BY <1>3, <1>8, <1>9, <3>1, <3>2, FootprintUnion
      <3>4. Footprint(sts, {c}) = PieceSize(storages[s].torrent, p)
        BY <1>1, <1>2, <1>3, <1>4, <1>8, FootprintOfOne
      <3>5. NewBytes(s, p) = PieceSize(storages[s].torrent, p)
        BY <2>2 DEF NewBytes
      <3> QED BY <1>10, <3>3, <3>4, <3>5
    <2> QED BY <2>1, <2>2
  <1>12. used \in Int
    BY <1>1, <1>2, PieceSizeType DEF NewBytes, Storage
  <1>13. BytesAccounted => used = Footprint(sts, Held(sts))
    BY <1>11 DEF BytesAccounted
  <1>14. Enforce(sts, used, policy'.max)
    BY DEF sts, st
  <1>15. JustWritten' = {c} /\ posted'.job \notin {"delete_files", "clear_piece"}
    BY DEF JustWritten, Posted
  <1> HIDE DEF used
  <1> QED BY <1>3, <1>5, <1>6, <1>7, <1>9, <1>12, <1>13, <1>14, <1>15 DEF Enforcing

\* Every step of the disk is of one kind.
LEMMA StepKinds ==
    ASSUME TypeOK, Next
    PROVE  \/ Quiet
           \/ Enforcing
           \/ Releasing
           \/ \E t \in Torrents : NewTorrent(t)
           \/ \E s \in Slot : RemoveTorrent(s)
  <1>0. /\ storages \in Storages /\ policy \in Policies /\ policy.max \in Int
        /\ bytesUsed \in Int /\ stored \in [Slot -> SUBSET PieceIndex]
    BY TypedState
  <1>1. ASSUME NEW raw \in RawPolicySet, SetCachePolicy(raw) PROVE Enforcing
    <2> DEFINE new == Normalize(raw)
               sts == [s \in Slot |-> IF s \in Live THEN WithPolicy(storages[s], new)
                                      ELSE NoStorage]
    <2>1. new \in Policies
      BY NormalizeFits, DiskAssumption DEF Policies
    <2> HIDE DEF new
    <2>2. policy' = new /\ Enforce(sts, bytesUsed, policy'.max) /\ SlotsKept /\ UNCHANGED stored
         /\ posted' = Nothing
      BY <1>1 DEF SetCachePolicy, new, SlotsKept
    <2>3. ASSUME NEW s \in Slot
          PROVE  /\ sts[s] \in Storage \cup {NoStorage}
                 /\ sts[s] = NoStorage <=> storages[s] = NoStorage
                 /\ storages[s] # NoStorage =>
                      SamePieces(storages[s], sts[s]) /\ sts[s].policy = new
      <3>1. CASE s \in Live
        BY <1>0, <2>1, <3>1, LiveStorage, WithPolicyType, DiskAssumption DEF Live
      <3>2. CASE s \notin Live
        BY <3>2 DEF Live
      <3> QED BY <3>1, <3>2
    <2>4. sts \in Storages
      BY <2>3 DEF Storages
    <2> HIDE DEF sts
    <2>5. SameLive(storages, sts) /\ PoliciesIn(sts, policy')
      BY <2>2, <2>3 DEF SameLive, PoliciesIn
    <2> QED BY <1>0, <2>1, <2>2, <2>3, <2>4, <2>5, EnforcedAsIs
  <1>2. ASSUME NEW s \in Live, NEW st \in Storage,
               SamePieces(storages[s], st), st.policy = storages[s].policy,
               Enforce(With(s, st), bytesUsed, policy.max), UNCHANGED policy,
               SlotsKept, UNCHANGED stored, posted' = Nothing
        PROVE  Enforcing
    <2> DEFINE sts == With(s, st)
    <2>1. s \in Slot /\ storages[s] # NoStorage /\ st # NoStorage
      BY DiskAssumption DEF Live
    <2>2. sts \in Storages
      BY <1>0, <2>1, WithType
    <2>3. \A r \in Slot : sts[r] = IF r = s THEN st ELSE storages[r]
      BY <1>0 DEF With, Storages
    <2>4. Enforce(sts, bytesUsed, policy'.max) /\ policy' \in Policies
      BY <1>0, <1>2
    <2> HIDE DEF sts
    <2>5. SameLive(storages, sts) /\ (PoliciesIn(storages, policy) => PoliciesIn(sts, policy'))
      BY <1>2, <2>1, <2>3 DEF SameLive, PoliciesIn
    <2>6. \A r \in Slot : storages[r] # NoStorage => SamePieces(storages[r], sts[r])
      BY <1>2, <2>3 DEF SamePieces
    <2> QED BY <1>0, <1>2, <2>2, <2>4, <2>5, <2>6, EnforcedAsIs
  <1>3. ASSUME NEW s \in Slot, NEW o \in Offsets, UpdateRetainedWindow(s, o) PROVE Enforcing
    <2>1. s \in Live /\ o \in Int
      BY <1>3, DiskAssumption DEF UpdateRetainedWindow
    <2>2. storages[s] \in Storage
      BY <1>0, <2>1, LiveStorage
    <2> QED BY <1>2, <1>3, <2>1, <2>2, WithWindowAtType DEF UpdateRetainedWindow, SlotsKept
  <1>4. ASSUME NEW s \in Slot, NEW w \in AskedWindows, SetRetainedWindow(s, w[1], w[2])
        PROVE  Enforcing
    <2>1. s \in Live /\ w[1] \in Int /\ w[2] \in Int
      BY <1>4, DiskAssumption DEF SetRetainedWindow
    <2>2. storages[s] \in Storage
      BY <1>0, <2>1, LiveStorage
    <2> QED BY <1>2, <1>4, <2>1, <2>2, WithWindowType DEF SetRetainedWindow, SlotsKept
  <1>5. ASSUME NEW s \in Slot, ClearRetainedWindow(s) PROVE Quiet
    <2>1. s \in Live /\ storages[s] \in Storage
      BY <1>0, <1>5, LiveStorage DEF ClearRetainedWindow
    <2>2. WithoutWindow(storages[s]).window = NoWindow
      BY <2>1 DEF WithoutWindow, Storage
    <2>3. JustWritten' = {}
      BY <1>5 DEF ClearRetainedWindow, JustWritten, Nothing, Posted
    <2> QED BY <1>0, <1>5, <2>1, <2>2, <2>3, WithoutWindowType, ReplacedQuietly
            DEF ClearRetainedWindow, SlotsKept
  <1>6. ASSUME NEW s \in Slot, DeleteFiles(s) PROVE Quiet \/ Releasing
    <2>0. JustWritten' = {} /\ posted'.job = "delete_files"
      BY <1>6 DEF DeleteFiles, JustWritten, Posted
    <2>1. CASE s \notin Live
      BY <1>0, <1>6, <2>0, <2>1, NothingDone DEF DeleteFiles
    <2>2. CASE s \in Live
      <3> DEFINE st == ClearedAll(storages[s])
      <3>1. storages[s] \in Storage
        BY <1>0, <2>2, LiveStorage
      <3>2. /\ st \in Storage /\ st.torrent = storages[s].torrent
            /\ st.held = {} /\ st.evicted = {}
            /\ st.policy = storages[s].policy /\ st.window = storages[s].window
        BY <3>1, ClearedAllType
      <3> HIDE DEF st
      <3>3. /\ storages' = With(s, st) /\ SlotsKept /\ UNCHANGED policy
            /\ bytesUsed' = bytesUsed - Footprint(storages, {s} \X storages[s].held)
            /\ stored' = [stored EXCEPT ![s] = {}]
        BY <1>6, <2>2 DEF DeleteFiles, SlotsKept, st
      <3>4. \A r \in Slot : /\ storages'[r] = IF r = s THEN st ELSE storages[r]
                            /\ stored'[r] = IF r = s THEN {} ELSE stored[r]
        BY <1>0, <3>3 DEF With, Storages
      <3>5. StoredIn(storages, stored) => StoredIn(storages', stored')
        BY <3>2, <3>4 DEF StoredIn
      <3> QED BY <2>0, <2>2, <3>2, <3>3, <3>5 DEF Releasing
    <2> QED BY <2>1, <2>2
  <1>7. ASSUME NEW s \in Slot, NEW p \in AskedPieces, ClearPiece(s, p)
        PROVE  Quiet \/ Releasing
    <2>0. JustWritten' = {} /\ posted'.job = "clear_piece"
      BY <1>7 DEF ClearPiece, JustWritten, Posted
    <2>1. CASE ~(s \in Live /\ p \in storages[s].held)
      BY <1>0, <1>7, <2>0, <2>1, NothingDone DEF ClearPiece
    <2>2. CASE s \in Live /\ p \in storages[s].held
      <3> DEFINE st == Dropped(storages[s], {p})
      <3>1. storages[s] \in Storage /\ {p} \in SUBSET PieceIndex
        BY <1>0, <2>2, LiveStorage DEF Storage
      <3>2. /\ st \in Storage /\ st.torrent = storages[s].torrent
            /\ st.held = storages[s].held \ {p}
            /\ st.evicted = storages[s].evicted \cup {p}
            /\ st.policy = storages[s].policy /\ st.window = storages[s].window
        BY <3>1, DroppedType
      <3> HIDE DEF st
      <3>3. {<<s, p>>} = {s} \X {p}
        OBVIOUS
      <3>4. /\ storages' = With(s, st) /\ SlotsKept /\ UNCHANGED <<policy, stored>>
            /\ bytesUsed' = bytesUsed - Footprint(storages, {s} \X {p})
        BY <1>7, <2>2, <3>3 DEF ClearPiece, SlotsKept, st
      <3>5. \A r \in Slot : storages'[r] = IF r = s THEN st ELSE storages[r]
        BY <1>0, <3>4 DEF With, Storages
      <3>6. StoredIn(storages, stored) => StoredIn(storages', stored')
        <4> SUFFICES ASSUME StoredIn(storages, stored), NEW r \in Slot,
                            storages'[r] # NoStorage
                     PROVE  /\ storages'[r].held \cup storages'[r].evicted = stored'[r]
                            /\ storages'[r].held \cap storages'[r].evicted = {}
          BY DEF StoredIn
        <4>1. CASE r = s
          <5>1. /\ storages[s].held \cup storages[s].evicted = stored[s]
                /\ storages[s].held \cap storages[s].evicted = {}
            BY <2>2 DEF StoredIn, Live
          <5> QED BY <2>2, <3>2, <3>4, <3>5, <4>1, <5>1
        <4>2. CASE r # s
          BY <3>4, <3>5, <4>2 DEF StoredIn
        <4> QED BY <4>1, <4>2
      <3> QED BY <2>0, <2>2, <3>1, <3>2, <3>4, <3>6 DEF Releasing
    <2> QED BY <2>1, <2>2
  <1>8. ASSUME NEW s \in Slot, NEW p \in AskedPieces, NEW r \in AskedRanges,
               AsyncWrite(s, p, r[1], r[2])
        PROVE  Quiet \/ Enforcing
    <2> DEFINE error == RequestError(storages[s], p, r[1], r[2])
    <2>1. r[1] \in Int /\ r[2] \in Int
      BY DiskAssumption
    <2>2. CASE NoStorageJob("write", s, p)
      BY <1>0, <2>2, NothingDone DEF NoStorageJob, JustWritten, Posted
    <2>3. CASE /\ error # "ok"
               /\ posted' = Posted("write", s, p, error)
               /\ UNCHANGED <<disk, stored>>
      BY <1>0, <2>3, NothingDone DEF JustWritten, Posted
    <2>4. CASE /\ s \in Live /\ error = "ok"
               /\ Enforce(With(s, Wrote(storages[s], p, r[1], r[2])),
                          bytesUsed + NewBytes(s, p), policy.max)
               /\ stored' = [stored EXCEPT ![s] = @ \cup {p}]
               /\ UNCHANGED <<slotCount, freeSlots, policy>>
               /\ posted' = Posted("write", s, p, "ok")
      BY <1>0, <2>1, <2>4, EnforcedWrite DEF SlotsKept
    <2> QED BY <1>8, <2>2, <2>3, <2>4 DEF AsyncWrite
  <1>9. ASSUME NEW s \in Slot, NEW p \in AskedPieces, NEW r \in AskedRanges,
               AsyncRead(s, p, r[1], r[2]) \/ ReadBytes(s, p, r[1], r[2])
        PROVE  Quiet
    <2> DEFINE found == Readable(storages[s], p, r[1], r[2])
    <2>0. JustWritten' = {}
      BY <1>9 DEF AsyncRead, ReadBytes, NoStorageJob, JustWritten, Posted, Nothing
    <2>1. CASE UNCHANGED <<disk, stored>>
      BY <1>0, <2>0, <2>1, NothingDone
    <2>2. CASE s \in Live /\ Looked(s, p, found) /\ UNCHANGED stored
      BY <1>0, <2>0, <2>2, LookedQuietly
    <2> QED BY <1>9, <2>1, <2>2 DEF AsyncRead, ReadBytes, NoStorageJob
  <1>10. ASSUME NEW s \in Slot, NEW p \in AskedPieces, AsyncHash(s, p) PROVE Quiet
    <2> DEFINE whole == Readable(storages[s], p, 0, PieceSize(storages[s].torrent, p))
    <2>0. JustWritten' = {}
      BY <1>10 DEF AsyncHash, NoStorageJob, JustWritten, Posted, Nothing
    <2>1. CASE UNCHANGED <<disk, stored>>
      BY <1>0, <2>0, <2>1, NothingDone
    <2>2. CASE s \in Live /\ Looked(s, p, whole) /\ UNCHANGED stored
      BY <1>0, <2>0, <2>2, LookedQuietly
    <2> QED BY <1>10, <2>1, <2>2 DEF AsyncHash, NoStorageJob
  <1>11. ASSUME NEW s \in Slot, NEW p \in AskedPieces, NEW r \in AskedRanges,
                AsyncHash2(s, p, r[1])
         PROVE  Quiet
    <2> DEFINE found == Readable(storages[s], p, r[1],
                                 AtMost(Block, PieceSize(storages[s].torrent, p) - r[1]))
    <2>0. JustWritten' = {}
      BY <1>11 DEF AsyncHash2, NoStorageJob, JustWritten, Posted, Nothing
    <2>1. CASE UNCHANGED <<disk, stored>>
      BY <1>0, <2>0, <2>1, NothingDone
    <2>2. CASE s \in Live /\ Looked(s, p, found) /\ UNCHANGED stored
      BY <1>0, <2>0, <2>2, LookedQuietly
    <2> QED BY <1>11, <2>1, <2>2 DEF AsyncHash2, NoStorageJob
  <1> QED BY <1>1, <1>3, <1>4, <1>5, <1>6, <1>7, <1>8, <1>9, <1>10, <1>11 DEF Next

-----------------------------------------------------------------------------
(* The invariants *)

\* What Enforcing leaves.
LEMMA EnforcingEffect ==
    ASSUME TypeOK, Enforcing
    PROVE  /\ storages' \in Storages
           /\ SameLive(storages, storages')
           /\ PoliciesIn(storages, policy) => PoliciesIn(storages', policy')
           /\ StoredIn(storages, stored) => StoredIn(storages', stored')
           /\ BytesAccounted => BytesAccounted'
           /\ LimitEnforced'
  <1>1. PICK sts \in Storages, used \in Int :
           /\ Enforce(sts, used, policy'.max)
           /\ SameLive(storages, sts)
           /\ PoliciesIn(storages, policy) => PoliciesIn(sts, policy')
           /\ StoredIn(storages, stored) => StoredIn(sts, stored')
           /\ BytesAccounted => used = Footprint(sts, Held(sts))
    BY DEF Enforcing
  <1>2. policy'.max \in Int
    BY DEF Enforcing, Policies
  <1>3. /\ storages' \in Storages
        /\ SameLive(sts, storages')
        /\ \A s \in Slot : sts[s] # NoStorage => storages'[s].policy = sts[s].policy
        /\ bytesUsed' > policy'.max => Evictable(storages') = {}
        /\ used = Footprint(sts, Held(sts))
             => bytesUsed' = Footprint(storages', Held(storages'))
    BY <1>1, <1>2, EnforceEffect DEF SameLive
  <1>4. StoredIn(sts, stored') => StoredIn(storages', stored')
    <2> DEFINE gone == Evicted(sts, used, policy'.max)
    <2>1. gone \in SUBSET Cell /\ gone \subseteq Held(sts)
      BY HeldCells DEF Evicted
    <2>2. storages' = AfterEviction(sts, gone)
      BY <1>1 DEF Enforce
    <2> HIDE DEF gone
    <2>3. \A s \in Slot : sts[s] # NoStorage =>
            /\ storages'[s].held = sts[s].held \ GoneOf(s, gone)
            /\ storages'[s].evicted = sts[s].evicted \cup GoneOf(s, gone)
            /\ GoneOf(s, gone) \subseteq sts[s].held
      <3>1. \A s \in Slot : GoneOf(s, gone) \subseteq sts[s].held
        BY <2>1 DEF GoneOf, Held
      <3> QED BY <2>1, <2>2, <3>1, AfterEvictionType
    <2> QED BY <1>3, <2>3 DEF StoredIn, SameLive
  <1>5. SameLive(storages, storages')
    BY <1>1, <1>3 DEF SameLive
  <1>6. PoliciesIn(sts, policy') => PoliciesIn(storages', policy')
    BY <1>3 DEF PoliciesIn, SameLive
  <1> QED BY <1>1, <1>3, <1>4, <1>5, <1>6 DEF BytesAccounted, LimitEnforced

LEMMA QuietEffect ==
    ASSUME TypeOK, Quiet
    PROVE  /\ Held(storages') = Held(storages)
           /\ Evictable(storages') \subseteq Evictable(storages)
           /\ Footprint(storages', Held(storages')) = Footprint(storages, Held(storages))
  <1>1. storages \in Storages /\ storages' \in Storages
    BY DEF TypeOK, Storages, Quiet
  <1>2. Held(storages') = Held(storages)
    BY DEF Quiet, SameLive, SamePieces, Held
  <1>3. \A c \in Held(storages) : storages'[c[1]].torrent = storages[c[1]].torrent
    BY DEF Quiet, SamePieces, Held
  <1>4. Evictable(storages') \subseteq Evictable(storages)
    <2> SUFFICES ASSUME NEW c \in Held(storages), c[2] \in Unretained(storages'[c[1]])
                 PROVE  c[2] \in Unretained(storages[c[1]])
      BY <1>2 DEF Evictable
    <2>1. /\ storages'[c[1]].held = storages[c[1]].held
          /\ storages'[c[1]].window \in {storages[c[1]].window, NoWindow}
      BY DEF Held, Quiet, SamePieces
    <2> QED BY <2>1 DEF Unretained
  <1>5. Footprint(storages', Held(storages)) = Footprint(storages, Held(storages))
    BY <1>1, <1>3, HeldCells, FootprintSame
  <1> QED BY <1>2, <1>4, <1>5

LEMMA ReleasingEffect ==
    ASSUME TypeOK, Releasing
    PROVE  /\ SameLive(storages, storages')
           /\ PoliciesIn(storages, policy) => PoliciesIn(storages', policy')
           /\ StoredIn(storages, stored) => StoredIn(storages', stored')
           /\ bytesUsed' \in Int /\ bytesUsed' <= bytesUsed
           /\ Evictable(storages') \subseteq Evictable(storages)
           /\ BytesAccounted => BytesAccounted'
  <1>1. PICK s \in Live : \E gone \in SUBSET storages[s].held, st \in Storage :
           /\ storages' = With(s, st)
           /\ st.torrent = storages[s].torrent /\ st.held = storages[s].held \ gone
           /\ st.policy = storages[s].policy /\ st.window = storages[s].window
           /\ bytesUsed' = bytesUsed - Footprint(storages, {s} \X gone)
           /\ StoredIn(storages, stored) => StoredIn(storages', stored')
    BY DEF Releasing
  <1>2. PICK gone \in SUBSET storages[s].held, st \in Storage :
           /\ storages' = With(s, st)
           /\ st.torrent = storages[s].torrent /\ st.held = storages[s].held \ gone
           /\ st.policy = storages[s].policy /\ st.window = storages[s].window
           /\ bytesUsed' = bytesUsed - Footprint(storages, {s} \X gone)
           /\ StoredIn(storages, stored) => StoredIn(storages', stored')
    BY <1>1
  <1> DEFINE cells == {s} \X gone
  <1>3. storages \in Storages /\ bytesUsed \in Int
    BY TypedState
  <1>4. s \in Slot /\ storages[s] \in Storage /\ storages[s] # NoStorage /\ st # NoStorage
    BY <1>3, LiveStorage, DiskAssumption DEF Live
  <1>5. \A r \in Slot : storages'[r] = IF r = s THEN st ELSE storages[r]
    BY <1>2, <1>3 DEF With, Storages
  <1>6. storages' \in Storages
    BY <1>2, <1>3, <1>4, WithType
  <1>7. SameLive(storages, storages') /\ UNCHANGED policy
    BY <1>4, <1>5 DEF SameLive, Releasing
  <1>8. PoliciesIn(storages, policy) => PoliciesIn(storages', policy')
    BY <1>2, <1>4, <1>5, <1>7 DEF PoliciesIn
  <1>9. cells \subseteq Held(storages)
    BY <1>4 DEF Held, Storage
  <1>10. Held(storages') = Held(storages) \ cells
    <2>1. ASSUME NEW d \in Cell PROVE d \in Held(storages') <=> d \in Held(storages) \ cells
      <3>1. d[1] \in Slot /\ d[2] \in PieceIndex /\ d = <<d[1], d[2]>>
        BY DEF Cell
      <3> QED BY <1>2, <1>4, <1>5, <3>1 DEF Held
    <2> QED BY <2>1, HeldCells
  <1>11. Evictable(storages') \subseteq Evictable(storages)
    <2> SUFFICES ASSUME NEW c \in Held(storages'), c[2] \in Unretained(storages'[c[1]])
                 PROVE  c[2] \in Unretained(storages[c[1]])
      BY <1>10 DEF Evictable
    <2>1. /\ storages'[c[1]].held \subseteq storages[c[1]].held
          /\ storages'[c[1]].window = storages[c[1]].window
      BY <1>2, <1>5 DEF Held
    <2> QED BY <2>1 DEF Unretained
  <1> HIDE DEF cells
  <1>12. /\ Footprint(storages, cells) \in Nat
         /\ Footprint(storages, Held(storages) \ cells) =
              Footprint(storages, Held(storages)) - Footprint(storages, cells)
    BY <1>3, <1>9, HeldCells, FootprintMonotone
  <1>13. bytesUsed' = bytesUsed - Footprint(storages, cells)
    BY <1>2 DEF cells
  <1>14. Footprint(storages', Held(storages')) = Footprint(storages, Held(storages) \ cells)
    <2>1. Held(storages') \in SUBSET CellsOf(storages)
      BY <1>10, HeldCells
    <2>2. \A d \in Held(storages') : storages'[d[1]].torrent = storages[d[1]].torrent
      BY <1>2, <1>5 DEF Held
    <2> QED BY <1>3, <1>6, <1>10, <2>1, <2>2, FootprintSame
  <1>15. BytesAccounted => BytesAccounted'
    BY <1>12, <1>13, <1>14 DEF BytesAccounted
  <1> QED BY <1>2, <1>3, <1>7, <1>8, <1>11, <1>12, <1>13, <1>15

\* The slot a new storage takes.
TakenSlot == IF freeSlots # <<>> THEN freeSlots[Len(freeSlots)] ELSE slotCount

LEMMA TakenSlotIsEmpty ==
    ASSUME TypeOK, SlotsConsistent
    PROVE  TakenSlot \notin Live
  <1>1. CASE freeSlots = <<>>
    BY <1>1, TypedState DEF TakenSlot, SlotsConsistent
  <1>2. CASE freeSlots # <<>>
    <2>1. Len(freeSlots) \in DOMAIN freeSlots
      BY <1>2, TypedState
    <2> QED BY <1>2, <2>1 DEF TakenSlot, SlotsConsistent
  <1> QED BY <1>1, <1>2

LEMMA NewTorrentEffect ==
    ASSUME TypeOK, NEW t \in Torrents, NewTorrent(t)
    PROVE  /\ TakenSlot \in Slot
           /\ storages' = With(TakenSlot, NewStorage(t, policy))
           /\ NewStorage(t, policy) \in Storage
           /\ \A r \in Slot : storages'[r] = IF r = TakenSlot THEN NewStorage(t, policy)
                                             ELSE storages[r]
           /\ stored' = [stored EXCEPT ![TakenSlot] = {}]
           /\ Live' = Live \cup {TakenSlot}
           /\ UNCHANGED <<policy, bytesUsed>>
  <1>1. /\ storages' = With(TakenSlot, NewStorage(t, policy)) /\ TakenSlot < MaxSlots
        /\ stored' = [stored EXCEPT ![TakenSlot] = {}]
        /\ UNCHANGED <<policy, bytesUsed>>
    BY DEF NewTorrent, TakenSlot
  <1>2. NewStorage(t, policy) \in Storage
    BY TypedState, NewStorageType
  <1>3. TakenSlot \in Slot
    <2>1. CASE freeSlots # <<>>
      BY <2>1, TypedState DEF TakenSlot
    <2>2. CASE freeSlots = <<>>
      BY <1>1, <2>2, TypedState, DiskAssumption DEF TakenSlot, Slot
    <2> QED BY <2>1, <2>2
  <1>4. \A r \in Slot : storages'[r] = IF r = TakenSlot THEN NewStorage(t, policy)
                                       ELSE storages[r]
    BY <1>1, TypedState DEF With, Storages
  <1>5. Live' = Live \cup {TakenSlot}
    BY <1>2, <1>3, <1>4, DiskAssumption DEF Live
  <1> QED BY <1>1, <1>2, <1>3, <1>4, <1>5

LEMMA RemoveTorrentEffect ==
    ASSUME TypeOK, NEW s \in Slot, RemoveTorrent(s)
    PROVE  /\ s \in Live /\ storages[s] \in Storage
           /\ \A r \in Slot : storages'[r] = IF r = s THEN NoStorage ELSE storages[r]
           /\ storages' \in Storages
           /\ Live' = Live \ {s}
           /\ UNCHANGED policy
  <1>1. s \in Live /\ storages' = With(s, NoStorage) /\ UNCHANGED policy
    BY DEF RemoveTorrent
  <1>2. \A r \in Slot : storages'[r] = IF r = s THEN NoStorage ELSE storages[r]
    BY <1>1, TypedState DEF With, Storages
  <1>3. storages[s] \in Storage /\ storages' \in Storages
    BY <1>1, TypedState, LiveStorage, WithType
  <1> QED BY <1>1, <1>2, <1>3 DEF Live

LEMMA LiveKept ==
    ASSUME SameLive(storages, storages')
    PROVE  Live' = Live
  BY DEF SameLive, Live

\* A new torrent never takes the slot of a storage that is still there, for any order of
\* additions and removals: the free list holds the empty slots, each of them once.
THEOREM SlotsAreConsistent == Spec => []SlotsConsistent
  <1>1. Init => SlotsConsistent
    BY DiskAssumption DEF Init, SlotsConsistent, Live, Slot
  <1>2. TypeOK /\ SlotsConsistent /\ [Next]_vars => SlotsConsistent'
    <2> SUFFICES ASSUME TypeOK, SlotsConsistent, [Next]_vars PROVE SlotsConsistent'
      OBVIOUS
    <2>1. CASE SlotsKept /\ Live' = Live
      BY <2>1 DEF SlotsConsistent, SlotsKept
    <2>2. CASE Quiet \/ Enforcing \/ Releasing
      BY <2>1, <2>2, LiveKept, EnforcingEffect, ReleasingEffect DEF Quiet, Enforcing, Releasing
    <2>3. ASSUME NEW t \in Torrents, NewTorrent(t) PROVE SlotsConsistent'
      <3>0. slotCount \in Nat /\ freeSlots \in Seq(Slot) /\ Live' = Live \cup {TakenSlot}
        BY <2>3, TypedState, NewTorrentEffect
      <3>1. CASE freeSlots = <<>>
        <4>1. /\ slotCount' = slotCount + 1 /\ freeSlots' = <<>>
              /\ TakenSlot = slotCount /\ slotCount \in Slot
          BY <2>3, <3>1, NewTorrentEffect DEF NewTorrent, TakenSlot
        <4>2. /\ Live = {s \in Slot : s < slotCount}
              /\ Live \subseteq 0 .. (slotCount - 1)
          <5>1. Live \subseteq 0 .. (slotCount - 1) /\ Live \subseteq Slot
            BY DEF SlotsConsistent, Live
          <5>2. DOMAIN freeSlots = {}
            BY <3>1
          <5>3. {s \in Slot : s < slotCount} \ Live = {}
            BY <5>2 DEF SlotsConsistent
          <5>4. \A s \in Live : s < slotCount
            BY <3>0, <5>1
          <5> QED BY <5>1, <5>3, <5>4
        <4>3. Live' = {s \in Slot : s < slotCount + 1} /\ Live' \subseteq 0 .. slotCount
          BY <3>0, <4>1, <4>2 DEF Slot
        <4> QED BY <3>0, <4>1, <4>3 DEF SlotsConsistent
      <3>2. CASE freeSlots # <<>>
        <4> DEFINE n == Len(freeSlots)
        <4>1. /\ slotCount' = slotCount /\ freeSlots' = SubSeq(freeSlots, 1, n - 1)
              /\ TakenSlot = freeSlots[n]
          BY <2>3, <3>2 DEF NewTorrent, TakenSlot
        <4>2. n \in Nat /\ n > 0 /\ DOMAIN freeSlots = 1 .. n
          BY <3>0, <3>2
        <4>3. /\ DOMAIN freeSlots' = 1 .. (n - 1)
              /\ \A i \in 1 .. (n - 1) : freeSlots'[i] = freeSlots[i]
          BY <3>0, <4>1, <4>2
        <4> HIDE DEF n
        <4>4. {freeSlots'[i] : i \in DOMAIN freeSlots'} =
                {freeSlots[i] : i \in DOMAIN freeSlots} \ {freeSlots[n]}
          BY <4>2, <4>3 DEF SlotsConsistent
        <4>5. freeSlots[n] \in {s \in Slot : s < slotCount} \ Live
          BY <4>2 DEF SlotsConsistent
        <4>6. {freeSlots'[i] : i \in DOMAIN freeSlots'} =
                {s \in Slot : s < slotCount} \ Live'
          BY <3>0, <4>1, <4>4 DEF SlotsConsistent
        <4>7. Live' \subseteq 0 .. (slotCount - 1)
          <5>1. Live \subseteq 0 .. (slotCount - 1)
            BY DEF SlotsConsistent
          <5>2. freeSlots[n] \in 0 .. (slotCount - 1)
            BY <3>0, <4>5 DEF Slot
          <5>3. Live' = Live \cup {freeSlots[n]}
            BY <3>0, <4>1
          <5> QED BY <5>1, <5>2, <5>3
        <4>8. \A i, j \in DOMAIN freeSlots' : freeSlots'[i] = freeSlots'[j] => i = j
          BY <4>2, <4>3 DEF SlotsConsistent
        <4> QED BY <4>1, <4>6, <4>7, <4>8 DEF SlotsConsistent
      <3> QED BY <3>1, <3>2
    <2>4. ASSUME NEW s \in Slot, RemoveTorrent(s) PROVE SlotsConsistent'
      <3> DEFINE n == Len(freeSlots)
      <3>1. /\ slotCount' = slotCount /\ freeSlots' = Append(freeSlots, s)
            /\ s \in Live /\ Live' = Live \ {s} /\ freeSlots \in Seq(Slot)
        BY <2>4, TypedState, RemoveTorrentEffect DEF RemoveTorrent
      <3>2. /\ n \in Nat /\ DOMAIN freeSlots = 1 .. n /\ DOMAIN freeSlots' = 1 .. (n + 1)
            /\ freeSlots'[n + 1] = s
            /\ \A i \in 1 .. n : freeSlots'[i] = freeSlots[i]
        BY <3>1
      <3> HIDE DEF n
      <3>3. {freeSlots'[i] : i \in DOMAIN freeSlots'} =
              {freeSlots[i] : i \in DOMAIN freeSlots} \cup {s}
        BY <3>2
      <3>4. s \in {r \in Slot : r < slotCount}
        BY <3>1, TypedState DEF SlotsConsistent, Slot
      <3>5. {freeSlots'[i] : i \in DOMAIN freeSlots'} = {r \in Slot : r < slotCount} \ Live'
        BY <3>1, <3>3, <3>4 DEF SlotsConsistent
      <3>6. \A i \in DOMAIN freeSlots : freeSlots[i] # s
        BY <3>1 DEF SlotsConsistent
      <3>7. \A i, j \in DOMAIN freeSlots' : freeSlots'[i] = freeSlots'[j] => i = j
        BY <3>2, <3>6 DEF SlotsConsistent
      <3> QED BY <3>1, <3>5, <3>7 DEF SlotsConsistent
    <2>5. CASE UNCHANGED vars
      BY <2>5 DEF vars, disk, SlotsConsistent, Live
    <2> QED BY <2>2, <2>3, <2>4, <2>5, StepKinds
  <1> QED BY <1>1, <1>2, TypeCorrect, PTL DEF Spec

\* evict_to_fit compares with its storage's own copy of the policy, enforce_cache_locked
\* with the disk's: they are the same, for storages made before and after it was set.
THEOREM PoliciesAlwaysAgree == Spec => []PoliciesAgree
  <1>1. Init => PoliciesAgree
    BY DEF Init, PoliciesAgree, Live
  <1>2. TypeOK /\ PoliciesAgree /\ [Next]_vars => PoliciesAgree'
    <2> SUFFICES ASSUME TypeOK, PoliciesAgree, [Next]_vars PROVE PoliciesAgree'
      OBVIOUS
    <2>1. PoliciesIn(storages, policy)
      BY DEF PoliciesAgree, PoliciesIn, Live
    <2>2. PoliciesIn(storages', policy')
      <3>1. CASE Quiet
        BY <2>1, <3>1 DEF Quiet, PoliciesIn, SameLive
      <3>2. CASE Enforcing \/ Releasing
        BY <2>1, <3>2, EnforcingEffect, ReleasingEffect
      <3>3. ASSUME NEW t \in Torrents, NewTorrent(t) PROVE PoliciesIn(storages', policy')
        <4>1. NewStorage(t, policy).policy = policy
          BY TypedState, NewStorageType
        <4>2. /\ \A r \in Slot : storages'[r] = IF r = TakenSlot THEN NewStorage(t, policy)
                                                ELSE storages[r]
              /\ UNCHANGED policy
          BY <3>3, NewTorrentEffect
        <4> QED BY <2>1, <4>1, <4>2 DEF PoliciesIn
      <3>4. ASSUME NEW s \in Slot, RemoveTorrent(s) PROVE PoliciesIn(storages', policy')
        BY <2>1, <3>4, RemoveTorrentEffect DEF PoliciesIn
      <3>5. CASE UNCHANGED vars
        BY <2>1, <3>5 DEF vars, disk
      <3> QED BY <3>1, <3>2, <3>3, <3>4, <3>5, StepKinds
    <2> QED BY <2>2 DEF PoliciesAgree, PoliciesIn, Live
  <1> QED BY <1>1, <1>2, TypeCorrect, PTL DEF Spec

\* bytes_used_ is the size of the buffers that exist, for any history of writes,
\* evictions, clears, deletions and removals over any number of slots: no counter drifts.
THEOREM BytesAreAccounted == Spec => []BytesAccounted
  <1>1. Init => BytesAccounted
    <2> SUFFICES ASSUME Init PROVE BytesAccounted
      OBVIOUS
    <2>1. Held(storages) = {}
      BY DEF Init, Held
    <2> QED BY <2>1, FootprintOfNone DEF Init, BytesAccounted
  <1>2. TypeOK /\ SlotsConsistent /\ BytesAccounted /\ [Next]_vars => BytesAccounted'
    <2> SUFFICES ASSUME TypeOK, SlotsConsistent, BytesAccounted, [Next]_vars
                 PROVE  BytesAccounted'
      OBVIOUS
    <2>1. CASE Quiet
      BY <2>1, QuietEffect DEF Quiet, BytesAccounted
    <2>2. CASE Enforcing \/ Releasing
      BY <2>2, EnforcingEffect, ReleasingEffect
    <2>3. ASSUME NEW t \in Torrents, NewTorrent(t) PROVE BytesAccounted'
      <3>1. TakenSlot \notin Live
        BY TakenSlotIsEmpty
      <3>2. /\ TakenSlot \in Slot /\ storages[TakenSlot] = NoStorage
            /\ NewStorage(t, policy) \in Storage /\ NewStorage(t, policy).held = {}
            /\ \A r \in Slot : storages'[r] = IF r = TakenSlot THEN NewStorage(t, policy)
                                              ELSE storages[r]
            /\ storages' = With(TakenSlot, NewStorage(t, policy))
            /\ UNCHANGED bytesUsed
        BY <2>3, <3>1, TypedState, NewTorrentEffect, NewStorageType DEF Live
      <3>3. storages \in Storages /\ storages' \in Storages
        BY <3>2, TypedState, WithType
      <3>4. Held(storages') = Held(storages)
        BY <3>2 DEF Held
      <3>5. \A c \in Held(storages) : storages'[c[1]].torrent = storages[c[1]].torrent
        BY <3>2 DEF Held
      <3>6. Footprint(storages', Held(storages)) = Footprint(storages, Held(storages))
        BY <3>3, <3>5, HeldCells, FootprintSame
      <3> QED BY <3>2, <3>4, <3>6 DEF BytesAccounted
    <2>4. ASSUME NEW s \in Slot, RemoveTorrent(s) PROVE BytesAccounted'
      <3> DEFINE gone == {s} \X storages[s].held
      <3>1. /\ s \in Live /\ storages[s] \in Storage /\ storages \in Storages
            /\ \A r \in Slot : storages'[r] = IF r = s THEN NoStorage ELSE storages[r]
            /\ storages' \in Storages
        BY <2>4, TypedState, RemoveTorrentEffect
      <3>2. gone \subseteq Held(storages)
        BY <3>1 DEF Held, Storage, Live
      <3>3. Held(storages') = Held(storages) \ gone
        <4>1. ASSUME NEW d \in Cell PROVE d \in Held(storages') <=> d \in Held(storages) \ gone
          <5>1. d[1] \in Slot /\ d[2] \in PieceIndex /\ d = <<d[1], d[2]>>
            BY DEF Cell
          <5> QED BY <3>1, <5>1 DEF Held
        <4> QED BY <4>1, HeldCells
      <3>4. bytesUsed' = bytesUsed - Footprint(storages, gone)
        BY <2>4 DEF RemoveTorrent
      <3> HIDE DEF gone
      <3>5. Footprint(storages, Held(storages) \ gone) =
              Footprint(storages, Held(storages)) - Footprint(storages, gone)
        BY <3>1, <3>2, HeldCells, FootprintMonotone
      <3>6. Held(storages') \in SUBSET CellsOf(storages)
        BY <3>3, HeldCells
      <3>7. \A c \in Held(storages') : storages'[c[1]].torrent = storages[c[1]].torrent
        BY <3>1 DEF Held
      <3>8. Footprint(storages', Held(storages')) = Footprint(storages, Held(storages'))
        BY <3>1, <3>6, <3>7, FootprintSame
      <3> QED BY <3>3, <3>4, <3>5, <3>8 DEF BytesAccounted
    <2>5. CASE UNCHANGED vars
      BY <2>5 DEF vars, disk, BytesAccounted
    <2> QED BY <2>1, <2>2, <2>3, <2>4, <2>5, StepKinds
  <1> QED BY <1>1, <1>2, TypeCorrect, SlotsAreConsistent, PTL DEF Spec

\* When the cache is over its limit, nothing is left that eviction could have taken: after
\* a lowered limit, a moved window or a write, at once and not at the next call.
THEOREM LimitIsEnforced == Spec => []LimitEnforced
  <1>1. Init => LimitEnforced
    BY DEF Init, LimitEnforced, Evictable, Held
  <1>2. TypeOK /\ LimitEnforced /\ [Next]_vars => LimitEnforced'
    <2> SUFFICES ASSUME TypeOK, LimitEnforced, [Next]_vars PROVE LimitEnforced'
      OBVIOUS
    <2>1. CASE Quiet
      BY <2>1, QuietEffect DEF Quiet, LimitEnforced
    <2>2. CASE Enforcing
      BY <2>2, EnforcingEffect
    <2>3. CASE Releasing
      <3>1. /\ bytesUsed \in Int /\ bytesUsed' \in Int /\ policy' = policy /\ policy.max \in Int
            /\ bytesUsed' <= bytesUsed
            /\ Evictable(storages') \subseteq Evictable(storages)
        BY <2>3, TypedState, ReleasingEffect DEF Releasing
      <3> QED BY <3>1 DEF LimitEnforced
    <2>4. ASSUME NEW t \in Torrents, NewTorrent(t) PROVE LimitEnforced'
      <3>1. /\ \A r \in Slot : storages'[r] = IF r = TakenSlot THEN NewStorage(t, policy)
                                              ELSE storages[r]
            /\ NewStorage(t, policy).held = {}
            /\ UNCHANGED <<policy, bytesUsed>>
        BY <2>4, TypedState, NewTorrentEffect, NewStorageType
      <3>2. Evictable(storages') \subseteq Evictable(storages)
        BY <3>1 DEF Evictable, Held
      <3> QED BY <3>1, <3>2 DEF LimitEnforced
    <2>5. ASSUME NEW s \in Slot, RemoveTorrent(s) PROVE LimitEnforced'
      <3>1. /\ s \in Live /\ storages[s] \in Storage /\ UNCHANGED policy
            /\ \A r \in Slot : storages'[r] = IF r = s THEN NoStorage ELSE storages[r]
            /\ bytesUsed' = bytesUsed - Footprint(storages, {s} \X storages[s].held)
        BY <2>5, RemoveTorrentEffect DEF RemoveTorrent
      <3>2. {s} \X storages[s].held \in SUBSET CellsOf(storages)
        BY <3>1 DEF CellsOf, Cell, Live, Storage
      <3>3. Footprint(storages, {s} \X storages[s].held) \in Nat
        BY <3>2, TypedState, BuffersFinite
      <3>4. Evictable(storages') \subseteq Evictable(storages)
        BY <3>1 DEF Evictable, Held
      <3> QED BY <3>1, <3>3, <3>4, TypedState DEF LimitEnforced
    <2>6. CASE UNCHANGED vars
      BY <2>6 DEF vars, disk, LimitEnforced
    <2> QED BY <2>1, <2>2, <2>3, <2>4, <2>5, <2>6, StepKinds
  <1> QED BY <1>1, <1>2, TypeCorrect, PTL DEF Spec

\* A piece written is in memory or remembered as evicted, never both and never
\* neither, however eviction, rewriting and clearing alternate.
THEOREM StoredAreHeldOrEvicted == Spec => []StoredHeldOrEvicted
  <1>1. Init => StoredHeldOrEvicted
    BY DEF Init, StoredHeldOrEvicted, Live
  <1>2. TypeOK /\ StoredHeldOrEvicted /\ [Next]_vars => StoredHeldOrEvicted'
    <2> SUFFICES ASSUME TypeOK, StoredHeldOrEvicted, [Next]_vars PROVE StoredHeldOrEvicted'
      OBVIOUS
    <2>1. StoredIn(storages, stored)
      BY DEF StoredHeldOrEvicted, StoredIn, Live
    <2>2. StoredIn(storages', stored')
      <3>1. CASE Quiet
        BY <2>1, <3>1 DEF Quiet, StoredIn, SameLive, SamePieces
      <3>2. CASE Enforcing \/ Releasing
        BY <2>1, <3>2, EnforcingEffect, ReleasingEffect
      <3>3. ASSUME NEW t \in Torrents, NewTorrent(t) PROVE StoredIn(storages', stored')
        <4>1. /\ \A r \in Slot : storages'[r] = IF r = TakenSlot THEN NewStorage(t, policy)
                                                ELSE storages[r]
              /\ NewStorage(t, policy).held = {} /\ NewStorage(t, policy).evicted = {}
              /\ \A r \in Slot : stored'[r] = IF r = TakenSlot THEN {} ELSE stored[r]
          BY <3>3, TypedState, NewTorrentEffect, NewStorageType
        <4> QED BY <2>1, <4>1 DEF StoredIn
      <3>4. ASSUME NEW s \in Slot, RemoveTorrent(s) PROVE StoredIn(storages', stored')
        <4>1. /\ \A r \in Slot : storages'[r] = IF r = s THEN NoStorage ELSE storages[r]
              /\ \A r \in Slot : stored'[r] = IF r = s THEN {} ELSE stored[r]
          BY <3>4, TypedState, RemoveTorrentEffect DEF RemoveTorrent
        <4> QED BY <2>1, <4>1 DEF StoredIn
      <3>5. CASE UNCHANGED vars
        BY <2>1, <3>5 DEF vars, disk
      <3> QED BY <3>1, <3>2, <3>3, <3>4, <3>5, StepKinds
    <2> QED BY <2>2 DEF StoredHeldOrEvicted, StoredIn, Live
  <1> QED BY <1>1, <1>2, TypeCorrect, PTL DEF Spec

-----------------------------------------------------------------------------
(* What a step may evict *)

\* When eviction runs, its victims are the ones it chose; the last of them is one that
\* the others had not made room for.
LEMMA EnforcingVictims ==
    ASSUME TypeOK, Enforcing
    PROVE  /\ WriteKeptOrEvicted'
           /\ \A c \in Victims : /\ storages'[c[1]].window # NoWindow
                                 /\ ~Contains(storages'[c[1]].window, c[2])
           /\ \A c \in Victims :
                (\A d \in Victims : d = c \/ Before(d, c))
                  => bytesUsed' + PieceSize(storages'[c[1]].torrent, c[2]) > policy'.max
  <1>1. PICK sts \in Storages, used \in Int :
           /\ Enforce(sts, used, policy'.max)
           /\ Held(sts) = Held(storages) \cup JustWritten'
    BY DEF Enforcing
  <1> DEFINE max == policy'.max
             gone == Evicted(sts, used, max)
             earlier(c) == {d \in Evictable(sts) : Before(d, c)}
  <1>2. max \in Int /\ posted'.job \notin {"delete_files", "clear_piece"}
    BY DEF Enforcing, Policies
  <1>3. gone \in SUBSET Held(sts) /\ gone \in SUBSET Cell /\ gone \in SUBSET CellsOf(sts)
    BY HeldCells DEF Evicted
  <1>4. storages' = AfterEviction(sts, gone) /\ bytesUsed' = used - Footprint(sts, gone)
    BY <1>1 DEF Enforce
  <1>5. \A c \in gone : /\ c \in Evictable(sts)
                        /\ used - Footprint(sts, earlier(c)) > max
    BY DEF Evicted
  <1> HIDE DEF gone
  <1>6. Held(storages') = Held(sts) \ gone
    BY <1>3, <1>4, AfterEvictionHeld
  <1>7. \A s \in Slot : /\ storages'[s] = NoStorage <=> sts[s] = NoStorage
                        /\ sts[s] # NoStorage =>
                             /\ storages'[s].evicted = sts[s].evicted \cup GoneOf(s, gone)
                             /\ storages'[s].torrent = sts[s].torrent
                             /\ storages'[s].window = sts[s].window
    BY <1>3, <1>4, AfterEvictionType
  <1>8. ASSUME NEW c \in gone
        PROVE  /\ c[1] \in Slot /\ c[2] \in PieceIndex /\ c = <<c[1], c[2]>>
               /\ sts[c[1]] # NoStorage /\ storages'[c[1]] # NoStorage
               /\ c[2] \in storages'[c[1]].evicted
               /\ storages'[c[1]].torrent = sts[c[1]].torrent
               /\ storages'[c[1]].window # NoWindow
               /\ ~Contains(storages'[c[1]].window, c[2])
    <2>1. /\ c[1] \in Slot /\ c[2] \in PieceIndex /\ c = <<c[1], c[2]>>
          /\ sts[c[1]] # NoStorage
      BY <1>3 DEF CellsOf, Cell
    <2>2. sts[c[1]].window # NoWindow /\ ~Contains(sts[c[1]].window, c[2])
      BY <1>5 DEF Evictable, Unretained
    <2>3. c[2] \in GoneOf(c[1], gone)
      BY <2>1 DEF GoneOf
    <2> QED BY <1>7, <2>1, <2>2, <2>3
  <1>9. Victims = gone
    BY <1>1, <1>2, <1>3, <1>6, <1>8 DEF Victims
  <1>10. WriteKeptOrEvicted'
    <2> SUFFICES ASSUME NEW c \in JustWritten', c \notin Held(storages')
                 PROVE  /\ c[2] \in storages'[c[1]].evicted
                        /\ storages'[c[1]].window # NoWindow
                        /\ ~Contains(storages'[c[1]].window, c[2])
      BY DEF WriteKeptOrEvicted
    <2>1. c \in gone
      BY <1>1, <1>6
    <2> QED BY <1>8, <2>1
  <1>11. ASSUME NEW c \in gone, \A d \in gone : d = c \/ Before(d, c)
         PROVE  bytesUsed' + PieceSize(storages'[c[1]].torrent, c[2]) > policy'.max
    <2> DEFINE size == PieceSize(sts[c[1]].torrent, c[2])
    <2>1. Footprint(sts, {c}) = size
      BY <1>3, FootprintOfOne
    <2>2. /\ Footprint(sts, {c}) \in Nat /\ Footprint(sts, gone) \in Nat
          /\ Footprint(sts, gone \ {c}) = Footprint(sts, gone) - Footprint(sts, {c})
      BY <1>3, FootprintMonotone
    <2>3. gone \ {c} \subseteq earlier(c) /\ earlier(c) \subseteq CellsOf(sts)
      BY <1>5, <1>11, HeldCells
    <2>4. /\ Footprint(sts, gone \ {c}) \in Nat /\ Footprint(sts, earlier(c)) \in Nat
          /\ Footprint(sts, gone \ {c}) <= Footprint(sts, earlier(c))
      BY <2>3, FootprintMonotone
    <2>5. used - Footprint(sts, earlier(c)) > max
      BY <1>5
    <2>6. storages'[c[1]].torrent = sts[c[1]].torrent
      BY <1>8
    <2> HIDE DEF size, max, earlier
    <2>7. bytesUsed' + size > max
      BY <1>2, <1>4, <2>1, <2>2, <2>4, <2>5
    <2> QED BY <2>6, <2>7 DEF size, max
  <1> QED BY <1>8, <1>9, <1>10, <1>11

\* Steps of the other kinds take nothing but what libtorrent asked them to.
LEMMA OtherVictims ==
    ASSUME TypeOK, SlotsConsistent,
           \/ Quiet
           \/ Releasing
           \/ \E t \in Torrents : NewTorrent(t)
           \/ \E s \in Slot : RemoveTorrent(s)
    PROVE  Victims = {}
  <1>1. CASE Quiet
    BY <1>1, QuietEffect DEF Victims, Quiet
  <1>2. CASE Releasing
    BY <1>2 DEF Victims, Releasing
  <1>3. ASSUME NEW t \in Torrents, NewTorrent(t) PROVE Victims = {}
    <2>1. \A r \in Slot : storages'[r] = IF r = TakenSlot THEN NewStorage(t, policy)
                                         ELSE storages[r]
      BY <1>3, NewTorrentEffect
    <2>2. JustWritten' = {}
      BY <1>3 DEF NewTorrent, JustWritten, Nothing, Posted
    <2>3. Held(storages) \subseteq Held(storages')
      BY <2>1, TakenSlotIsEmpty DEF Held, Live
    <2> QED BY <2>2, <2>3 DEF Victims
  <1>4. ASSUME NEW s \in Slot, RemoveTorrent(s) PROVE Victims = {}
    <2>1. \A r \in Slot : storages'[r] = IF r = s THEN NoStorage ELSE storages[r]
      BY <1>4, RemoveTorrentEffect
    <2>2. JustWritten' = {}
      BY <1>4 DEF RemoveTorrent, JustWritten, Nothing, Posted
    <2> QED BY <2>1, <2>2 DEF Victims, Held
  <1> QED BY <1>1, <1>2, <1>3, <1>4

\* A write that was reported as done has left its piece in memory, or outside its
\* storage's window and remembered as evicted.
THEOREM WritesAreKeptOrEvicted == Spec => []WriteKeptOrEvicted
  <1>1. Init => WriteKeptOrEvicted
    BY DEF Init, WriteKeptOrEvicted, JustWritten, Nothing, Posted
  <1>2. TypeOK /\ WriteKeptOrEvicted /\ [Next]_vars => WriteKeptOrEvicted'
    <2> SUFFICES ASSUME TypeOK, WriteKeptOrEvicted, [Next]_vars PROVE WriteKeptOrEvicted'
      OBVIOUS
    <2>1. CASE JustWritten' = {}
      BY <2>1 DEF WriteKeptOrEvicted
    <2>2. CASE Quiet
      BY <2>1, <2>2 DEF Quiet
    <2>3. CASE Enforcing
      BY <2>3, EnforcingVictims
    <2>4. CASE Releasing
      <3>1. JustWritten' = {}
        BY <2>4 DEF Releasing, JustWritten
      <3> QED BY <2>1, <3>1
    <2>5. CASE (\E t \in Torrents : NewTorrent(t)) \/ (\E s \in Slot : RemoveTorrent(s))
      <3>1. posted' = Nothing
        BY <2>5 DEF NewTorrent, RemoveTorrent
      <3>2. JustWritten' = {}
        BY <3>1 DEF JustWritten, Nothing, Posted
      <3> QED BY <2>1, <3>2
    <2>6. CASE UNCHANGED vars
      BY <2>6 DEF vars, disk, WriteKeptOrEvicted, JustWritten, Held
    <2> QED BY <2>2, <2>3, <2>4, <2>5, <2>6, StepKinds
  <1> QED BY <1>1, <1>2, TypeCorrect, PTL DEF Spec

\* Eviction never takes a piece of the window its storage then has: what the scheduler
\* retains for the reader stays, whatever torrent, policy or write caused the eviction.
THEOREM RetainedAreKept == Spec => RetainedKept
  <1>1. TypeOK /\ SlotsConsistent /\ [Next]_vars =>
          [\A c \in Victims : /\ storages'[c[1]].window # NoWindow
                              /\ ~Contains(storages'[c[1]].window, c[2])]_vars
    <2> SUFFICES ASSUME TypeOK, SlotsConsistent, Next
                 PROVE  \A c \in Victims : /\ storages'[c[1]].window # NoWindow
                                           /\ ~Contains(storages'[c[1]].window, c[2])
      OBVIOUS
    <2>1. CASE Enforcing
      BY <2>1, EnforcingVictims
    <2>2. CASE ~Enforcing
      BY <2>2, StepKinds, OtherVictims
    <2> QED BY <2>1, <2>2
  <1> QED BY <1>1, TypeCorrect, SlotsAreConsistent, PTL DEF Spec, RetainedKept

\* Eviction stops in time: had it kept its last victim, the cache would be over its limit.
THEOREM NothingIsOverEvicted == Spec => NoOverEviction
  <1>1. TypeOK /\ SlotsConsistent /\ [Next]_vars =>
          [\A c \in Victims :
              (\A d \in Victims : d = c \/ Before(d, c))
                => bytesUsed' + PieceSize(storages'[c[1]].torrent, c[2]) > policy'.max]_vars
    <2> SUFFICES ASSUME TypeOK, SlotsConsistent, Next
                 PROVE  \A c \in Victims :
                          (\A d \in Victims : d = c \/ Before(d, c))
                            => bytesUsed' + PieceSize(storages'[c[1]].torrent, c[2])
                                 > policy'.max
      OBVIOUS
    <2>1. CASE Enforcing
      BY <2>1, EnforcingVictims
    <2>2. CASE ~Enforcing
      BY <2>2, StepKinds, OtherVictims
    <2> QED BY <2>1, <2>2
  <1> QED BY <1>1, TypeCorrect, SlotsAreConsistent, PTL DEF Spec, NoOverEviction

-----------------------------------------------------------------------------
(* Eviction as the loops do it *)

\* The cells the loops go through: every one once, in order.
LEMMA CellsInOrder ==
    /\ Len(Cells) \in Nat /\ DOMAIN Cells = 1 .. Len(Cells)
    /\ \A i \in 1 .. Len(Cells) : Cells[i] \in Cell
    /\ \A c \in Cell : \E i \in 1 .. Len(Cells) : Cells[i] = c
    /\ \A i, j \in 1 .. Len(Cells) : Before(Cells[i], Cells[j]) <=> i < j
  <1> DEFINE n == MaxSlots * MaxPieces
  <1>1. MaxSlots \in Nat /\ MaxPieces \in Nat /\ n \in Nat
    BY DiskAssumption, StorageAssumption
  <1>2. Len(Cells) = n /\ DOMAIN Cells = 1 .. n
    BY <1>1 DEF Cells
  <1>3. CASE MaxPieces = 0
    <2>1. n = 0 /\ PieceIndex = {}
      BY <1>1, <1>3 DEF PieceIndex
    <2> QED BY <1>2, <2>1 DEF Cell
  <1>4. CASE MaxPieces > 0
    <2> DEFINE q(i) == (i - 1) \div MaxPieces
               r(i) == (i - 1) % MaxPieces
    <2>1. MaxPieces \in Nat \ {0}
      BY <1>1, <1>4
    <2>2. \A i \in 1 .. n : Cells[i] = <<q(i), r(i)>>
      BY <1>1 DEF Cells
    <2>3. \A i \in 1 .. n : /\ q(i) \in Nat /\ r(i) \in Nat /\ r(i) < MaxPieces
                            /\ i - 1 = q(i) * MaxPieces + r(i)
      <3> TAKE i \in 1 .. n
      <3>1. i - 1 \in Nat
        BY <1>1
      <3> DEFINE k == i - 1
      <3> HIDE DEF k
      <3>2. k \in Nat
        BY <3>1 DEF k
      <3>3. /\ k \div MaxPieces \in Nat /\ k % MaxPieces \in Nat /\ k % MaxPieces < MaxPieces
            /\ k = (k \div MaxPieces) * MaxPieces + (k % MaxPieces)
        BY <2>1, <3>2
      <3> QED BY <3>3 DEF k
    <2>4. \A i \in 1 .. n : q(i) < MaxSlots
      <3> SUFFICES ASSUME NEW i \in 1 .. n, MaxSlots <= q(i) PROVE FALSE
        BY <1>1, <2>3
      <3>1. q(i) \in Nat /\ r(i) \in Nat /\ i - 1 = q(i) * MaxPieces + r(i)
        BY <2>3
      <3> HIDE DEF q, r
      <3>2. MaxSlots * MaxPieces <= q(i) * MaxPieces /\ q(i) * MaxPieces \in Nat
        BY <1>1, <3>1
      <3>3. i \in Int /\ i <= n
        BY <1>1
      <3> QED BY <1>1, <3>1, <3>2, <3>3
    <2> HIDE DEF q, r
    <2>5. \A i \in 1 .. n : Cells[i] \in Cell
      <3> TAKE i \in 1 .. n
      <3>1. q(i) \in Nat /\ r(i) \in Nat /\ q(i) < MaxSlots /\ r(i) < MaxPieces
        BY <2>3, <2>4
      <3>2. q(i) \in Slot /\ r(i) \in PieceIndex
        BY <1>1, <3>1 DEF Slot, PieceIndex
      <3> QED BY <2>2, <3>2 DEF Cell
    <2>6. ASSUME NEW a \in Slot, NEW b \in PieceIndex
          PROVE  \E i \in 1 .. n : Cells[i] = <<a, b>>
      <3> DEFINE k == a * MaxPieces + b
                 i == k + 1
      <3>1. a \in Nat /\ b \in Nat /\ a + 1 <= MaxSlots /\ b < MaxPieces
        BY <1>1 DEF Slot, PieceIndex
      <3>2. (a + 1) * MaxPieces <= n /\ (a + 1) * MaxPieces = a * MaxPieces + MaxPieces
        BY <1>1, <3>1
      <3>3. a * MaxPieces \in Nat
        BY <1>1, <3>1
      <3> HIDE DEF n
      <3>4. i \in 1 .. n
        BY <1>1, <2>1, <3>1, <3>2, <3>3
      <3>5. q(i) \in Nat /\ r(i) \in Nat /\ r(i) < MaxPieces /\ k = q(i) * MaxPieces + r(i)
        <4>1. i - 1 = k
          BY <3>1, <3>3
        <4> HIDE DEF i
        <4> QED BY <2>3, <3>4, <4>1
      <3> HIDE DEF i
      <3>6. ~(q(i) < a)
        <4> SUFFICES ASSUME q(i) + 1 <= a PROVE FALSE
          BY <3>1, <3>5
        <4>1. (q(i) + 1) * MaxPieces <= a * MaxPieces
          BY <1>1, <3>1, <3>5
        <4>2. (q(i) + 1) * MaxPieces = q(i) * MaxPieces + MaxPieces /\ q(i) * MaxPieces \in Nat
          BY <1>1, <3>5
        <4> QED BY <1>1, <3>1, <3>3, <3>5, <4>1, <4>2
      <3>7. ~(a < q(i))
        <4> SUFFICES ASSUME a + 1 <= q(i) PROVE FALSE
          BY <3>1, <3>5
        <4>1. (a + 1) * MaxPieces <= q(i) * MaxPieces /\ q(i) * MaxPieces \in Nat
          BY <1>1, <3>1, <3>5
        <4> QED BY <1>1, <3>1, <3>2, <3>3, <3>5, <4>1
      <3>8. q(i) = a
        BY <3>1, <3>5, <3>6, <3>7
      <3>9. r(i) = b
        BY <3>1, <3>3, <3>5, <3>8
      <3> QED BY <2>2, <3>4, <3>8, <3>9
    <2>7. ASSUME NEW i \in 1 .. n, NEW j \in 1 .. n, i < j PROVE Before(Cells[i], Cells[j])
      <3>1. /\ q(i) \in Nat /\ r(i) \in Nat /\ r(i) < MaxPieces /\ i - 1 = q(i) * MaxPieces + r(i)
            /\ q(j) \in Nat /\ r(j) \in Nat /\ r(j) < MaxPieces /\ j - 1 = q(j) * MaxPieces + r(j)
        BY <2>3
      <3>2. i \in Int /\ j \in Int
        BY <1>1
      <3>3. ~(q(j) < q(i))
        <4> SUFFICES ASSUME q(j) + 1 <= q(i) PROVE FALSE
          BY <3>1
        <4>1. (q(j) + 1) * MaxPieces <= q(i) * MaxPieces
          BY <1>1, <3>1
        <4>2. (q(j) + 1) * MaxPieces = q(j) * MaxPieces + MaxPieces
          BY <1>1, <3>1
        <4>3. q(j) * MaxPieces \in Nat /\ q(i) * MaxPieces \in Nat
          BY <1>1, <3>1
        <4> QED BY <1>1, <2>7, <3>1, <3>2, <4>1, <4>2, <4>3
      <3>4. q(i) = q(j) => r(i) < r(j)
        <4> SUFFICES ASSUME q(i) = q(j) PROVE r(i) < r(j)
          OBVIOUS
        <4>1. q(j) * MaxPieces \in Nat
          BY <1>1, <3>1
        <4> QED BY <2>7, <3>1, <3>2, <4>1
      <3>5. q(i) < q(j) \/ (q(i) = q(j) /\ r(i) < r(j))
        BY <3>1, <3>3, <3>4
      <3> QED BY <2>2, <3>5 DEF Before
    <2>8. ASSUME NEW i \in 1 .. n, NEW j \in 1 .. n, Before(Cells[i], Cells[j]) PROVE i < j
      <3> SUFFICES ASSUME j < i PROVE FALSE
        <4>1. CASE i = j
          <5>1. q(i) \in Nat /\ r(i) \in Nat
            BY <2>3
          <5> QED BY <2>2, <2>8, <4>1, <5>1 DEF Before
        <4>2. CASE i # j
          BY <1>1, <4>2
        <4> QED BY <4>1, <4>2
      <3>1. Before(Cells[j], Cells[i])
        BY <2>7
      <3>2. q(i) \in Nat /\ r(i) \in Nat /\ q(j) \in Nat /\ r(j) \in Nat
        BY <2>3
      <3> QED BY <2>2, <2>8, <3>1, <3>2 DEF Before
    <2>9. \A i, j \in 1 .. n : Before(Cells[i], Cells[j]) <=> i < j
      BY <2>7, <2>8
    <2>10. \A c \in Cell : \E i \in 1 .. n : Cells[i] = c
      BY <2>6 DEF Cell
    <2> QED BY <1>1, <1>2, <2>5, <2>9, <2>10
  <1> QED BY <1>1, <1>3, <1>4

\* The recursion of the loops has a solution, found for every number of steps.
LEMMA InUseIs ==
    ASSUME NEW sts \in Storages, NEW used \in Int, NEW max \in Int
    PROVE  \A i \in 1 .. (Len(Cells) + 1) :
             InUse(sts, used, max)[i] =
                IF i = 1 THEN used
                ELSE IF Cells[i - 1] \in Evictable(sts) /\ InUse(sts, used, max)[i - 1] > max
                THEN InUse(sts, used, max)[i - 1]
                        - PieceSize(sts[Cells[i - 1][1]].torrent, Cells[i - 1][2])
                ELSE InUse(sts, used, max)[i - 1]
  <1> DEFINE Go(i, b) == IF Cells[i] \in Evictable(sts) /\ b > max
                         THEN b - PieceSize(sts[Cells[i][1]].torrent, Cells[i][2])
                         ELSE b
             Runs(f, l) == f = [i \in 1 .. (l + 1) |-> IF i = 1 THEN used ELSE Go(i - 1, f[i - 1])]
             reach == {l \in Nat : \E f : Runs(f, l)}
  <1> HIDE DEF Go
  <1>1. 0 \in reach
    <2> DEFINE f == [i \in {1} |-> used]
    <2>1. f = [i \in 1 .. (0 + 1) |-> IF i = 1 THEN used ELSE Go(i - 1, f[i - 1])]
      OBVIOUS
    <2> HIDE DEF f
    <2> QED BY <2>1
  <1>2. ASSUME NEW l \in Nat, l \in reach PROVE l + 1 \in reach
    <2>1. PICK f : Runs(f, l)
      BY <1>2
    <2> DEFINE g == [i \in 1 .. (l + 2) |-> IF i = l + 2 THEN Go(l + 1, f[l + 1]) ELSE f[i]]
    <2>2. \A i \in 1 .. (l + 2) : g[i] = IF i = 1 THEN used ELSE Go(i - 1, g[i - 1])
      <3> TAKE i \in 1 .. (l + 2)
      <3>1. CASE i = 1
        BY <2>1, <3>1
      <3>2. CASE i = l + 2
        <4>1. g[i] = Go(l + 1, f[l + 1]) /\ g[i - 1] = f[l + 1]
          BY <3>2
        <4> HIDE DEF g
        <4> QED BY <3>2, <4>1
      <3>3. CASE i \in 2 .. (l + 1)
        <4>1. g[i] = f[i] /\ g[i - 1] = f[i - 1]
          BY <3>3
        <4>2. f[i] = Go(i - 1, f[i - 1])
          BY <2>1, <3>3
        <4> HIDE DEF g
        <4> QED BY <3>3, <4>1, <4>2
      <3> QED BY <3>1, <3>2, <3>3
    <2>3. g = [i \in 1 .. (l + 2) |-> g[i]]
      OBVIOUS
    <2> HIDE DEF g
    <2>4. Runs(g, l + 1)
      <3>1. g = [i \in 1 .. (l + 2) |-> IF i = 1 THEN used ELSE Go(i - 1, g[i - 1])]
        BY <2>2, <2>3
      <3>2. l + 2 = (l + 1) + 1
        OBVIOUS
      <3> QED BY <3>1, <3>2
    <2> HIDE DEF Runs
    <2> QED BY <2>4
  <1> HIDE DEF Runs
  <1>3. Nat \subseteq reach
    <2>1. \A l \in Nat : l \in reach => l + 1 \in reach
      BY <1>2
    <2> HIDE DEF reach
    <2> QED BY <1>1, <2>1, NaturalsIn
  <1>4. \E f : Runs(f, Len(Cells))
    BY <1>3, CellsInOrder
  <1>5. Runs(InUse(sts, used, max), Len(Cells))
    BY <1>4 DEF Runs, InUse, Go
  <1> QED BY <1>5 DEF Runs, Go

\* When the loops come to a cell, either all that may go before it has gone, or they have
\* stopped and the cache fits.
LEMMA LoopsKeepUp ==
    ASSUME NEW sts \in Storages, NEW used \in Int, NEW max \in Int
    PROVE  \A i \in 1 .. Len(Cells) :
             (InUse(sts, used, max)[i] > max)
               <=> (used - Footprint(sts, {d \in Evictable(sts) : Before(d, Cells[i])}) > max)
  <1> DEFINE E == Evictable(sts)
             N == Len(Cells)
             left == InUse(sts, used, max)
             prior(i) == {d \in E : \E j \in 1 .. N : j < i /\ Cells[j] = d}
             all(i) == used - Footprint(sts, prior(i))
             Keep(i) == left[i] \in Int /\ (left[i] = all(i) \/ (left[i] <= max /\ all(i) <= max))
             kept == {n \in Nat : n < N => Keep(n + 1)}
  <1>1. /\ N \in Nat
        /\ \A i \in 1 .. N : Cells[i] \in Cell
        /\ \A c \in Cell : \E i \in 1 .. N : Cells[i] = c
        /\ \A i, j \in 1 .. N : Before(Cells[i], Cells[j]) <=> i < j
    BY CellsInOrder
  <1>2. E \subseteq CellsOf(sts) /\ E \subseteq Cell
    BY HeldCells
  <1>3. \A i \in Nat : prior(i) \in SUBSET CellsOf(sts) /\ Footprint(sts, prior(i)) \in Nat
    <2> TAKE i \in Nat
    <2>1. prior(i) \in SUBSET CellsOf(sts)
      BY <1>2
    <2> QED BY <2>1, BuffersFinite
  <1>4. /\ left[1] = used
        /\ \A i \in 1 .. N : left[i + 1] =
             IF Cells[i] \in E /\ left[i] > max
             THEN left[i] - PieceSize(sts[Cells[i][1]].torrent, Cells[i][2])
             ELSE left[i]
    BY <1>1, InUseIs
  <1> HIDE DEF left
  <1>5. Keep(1)
    <2>1. prior(1) = {}
      BY <1>1
    <2>2. all(1) = used
      BY <2>1, FootprintOfNone
    <2> QED BY <1>4, <2>2
  <1>6. ASSUME NEW i \in 1 .. N, Keep(i), i + 1 <= N PROVE Keep(i + 1)
    <2> DEFINE c == Cells[i]
               size == PieceSize(sts[c[1]].torrent, c[2])
    <2>1. c \notin prior(i)
      <3> SUFFICES ASSUME NEW j \in 1 .. N, j < i, Cells[j] = c PROVE FALSE
        OBVIOUS
      <3>1. Before(c, c)
        BY <1>1
      <3>2. i < i
        BY <1>1, <3>1
      <3> QED BY <1>1, <3>2
    <2>2. CASE c \notin E
      <3>1. prior(i + 1) = prior(i)
        BY <1>1, <2>2
      <3>2. left[i + 1] = left[i]
        BY <1>4, <2>2
      <3> QED BY <1>6, <3>1, <3>2
    <2>3. CASE c \in E
      <3>1. prior(i + 1) = prior(i) \cup {c}
        BY <1>1, <2>3
      <3>2. {c} \in SUBSET CellsOf(sts) /\ prior(i) \in SUBSET CellsOf(sts) /\ prior(i) \cap {c} = {}
        BY <1>2, <1>3, <2>1, <2>3
      <3>3. Footprint(sts, {c}) = size /\ Footprint(sts, {c}) \in Nat
        BY <1>2, <2>3, <3>2, FootprintOfOne, BuffersFinite
      <3>4. Footprint(sts, prior(i + 1)) = Footprint(sts, prior(i)) + size
        <4> DEFINE P == prior(i)
        <4>1. P \in SUBSET CellsOf(sts) /\ {c} \in SUBSET CellsOf(sts) /\ P \cap {c} = {}
          BY <3>2
        <4>2. prior(i + 1) = P \cup {c}
          BY <3>1
        <4> HIDE DEF P, prior, c, E
        <4>3. Footprint(sts, P \cup {c}) = Footprint(sts, P) + Footprint(sts, {c})
          BY <4>1, FootprintUnion
        <4> QED BY <3>3, <4>2, <4>3 DEF P
      <3>5. Footprint(sts, prior(i)) \in Nat /\ size \in Nat
        BY <1>3, <3>3
      <3> HIDE DEF prior, size
      <3>6. CASE left[i] > max
        <4>1. left[i] = all(i)
          BY <1>6, <3>5, <3>6
        <4>2. left[i + 1] = left[i] - size
          BY <1>4, <2>3, <3>6 DEF size
        <4> QED BY <1>6, <3>4, <3>5, <4>1, <4>2
      <3>7. CASE ~(left[i] > max)
        <4>1. left[i + 1] = left[i]
          BY <1>4, <3>7
        <4>2. all(i) <= max
          BY <1>6, <3>5, <3>7
        <4> QED BY <1>6, <3>4, <3>5, <3>7, <4>1, <4>2
      <3> QED BY <3>6, <3>7
    <2> QED BY <2>2, <2>3
  <1> HIDE DEF Keep
  <1>7. Nat \subseteq kept
    <2>1. 0 \in kept
      BY <1>5
    <2>2. ASSUME NEW n \in Nat, n \in kept PROVE n + 1 \in kept
      <3> SUFFICES ASSUME n + 1 < N PROVE Keep((n + 1) + 1)
        OBVIOUS
      <3>1. n + 1 \in 1 .. N /\ Keep(n + 1) /\ (n + 1) + 1 <= N
        BY <1>1, <2>2
      <3> QED BY <1>6, <3>1
    <2>3. \A n \in Nat : n \in kept => n + 1 \in kept
      BY <2>2
    <2> HIDE DEF kept
    <2> QED BY <2>1, <2>3, NaturalsIn
  <1>8. ASSUME NEW i \in 1 .. N
        PROVE  (left[i] > max) <=> (used - Footprint(sts, {d \in E : Before(d, Cells[i])}) > max)
    <2>1. Keep(i)
      <3>1. i - 1 \in Nat /\ i - 1 < N /\ (i - 1) + 1 = i
        BY <1>1
      <3>2. i - 1 \in kept
        BY <1>7, <3>1
      <3> QED BY <3>1, <3>2
    <2>2. prior(i) = {d \in E : Before(d, Cells[i])}
      <3> SUFFICES ASSUME NEW d \in E
                   PROVE  (\E j \in 1 .. N : j < i /\ Cells[j] = d) <=> Before(d, Cells[i])
        OBVIOUS
      <3>1. PICK k \in 1 .. N : Cells[k] = d
        BY <1>1, <1>2
      <3> QED BY <1>1, <3>1
    <2>3. Footprint(sts, prior(i)) \in Nat
      BY <1>1, <1>3
    <2> HIDE DEF prior
    <2>4. (left[i] > max) <=> (all(i) > max)
      BY <2>1, <2>3 DEF Keep
    <2> QED BY <2>2, <2>4
  <1> QED BY <1>8 DEF left

\* For every content of the cache and every limit, the pieces that Evicted names are those
\* the two loops take out one by one, stopping as soon as the cache fits
\* (memory_disk_io.cpp:285-304, 601-616).
THEOREM EvictionIsTheLoops == Spec => []EvictedIsTheLoops
  <1>1. TypeOK => EvictedIsTheLoops
    <2> SUFFICES ASSUME TypeOK, NEW max \in 0 .. bytesUsed
                 PROVE  Evicted(storages, bytesUsed, max) = LoopEvicted(storages, bytesUsed, max)
      BY DEF EvictedIsTheLoops
    <2> DEFINE N == Len(Cells)
               left == InUse(storages, bytesUsed, max)
               E == Evictable(storages)
               stays(c) == bytesUsed - Footprint(storages, {d \in E : Before(d, c)})
    <2>1. storages \in Storages /\ bytesUsed \in Int /\ max \in Int
      BY DEF TypeOK, Storages
    <2>2. \A i \in 1 .. N : (left[i] > max) <=> (stays(Cells[i]) > max)
      BY <2>1, LoopsKeepUp
    <2>3. DOMAIN Cells = 1 .. N /\ \A c \in E : \E i \in 1 .. N : Cells[i] = c
      BY CellsInOrder, HeldCells
    <2>4. Evicted(storages, bytesUsed, max) = {c \in E : stays(c) > max}
      BY DEF Evicted
    <2>5. LoopEvicted(storages, bytesUsed, max) =
            {Cells[i] : i \in {j \in 1 .. N : Cells[j] \in E /\ left[j] > max}}
      BY <2>3 DEF LoopEvicted
    <2> HIDE DEF stays, left, E, N
    <2> QED BY <2>2, <2>3, <2>4, <2>5
  <1> QED BY <1>1, TypeCorrect, PTL

-----------------------------------------------------------------------------
(* The store behind the disk *)

\* A piece that is not in memory has no bytes.
BlankIn(sts) ==
    \A s \in Slot : sts[s] # NoStorage =>
        \A p \in PieceIndex : p \notin sts[s].held => sts[s].written[p] = {}

OnlyHeldWritten == BlankIn(storages)

SameBytes(st, new) ==
    /\ new.torrent = st.torrent
    /\ new.held = st.held
    /\ new.written = st.written

LEMMA BytesKept ==
    ASSUME NEW st \in Storage
    PROVE  /\ \A p : SameBytes(st, Missed(st, p)) /\ Missed(st, p).window = st.window
           /\ \A pol : SameBytes(st, WithPolicy(st, pol)) /\ WithPolicy(st, pol).window = st.window
           /\ \A o : SameBytes(st, WithWindowAt(st, o))
           /\ \A f, e : SameBytes(st, WithWindow(st, f, e))
           /\ SameBytes(st, WithoutWindow(st))
  BY DEF SameBytes, Storage, Missed, WithPolicy, WithWindowAt, WithWindow, WithoutWindow

LEMMA BytesDropped ==
    ASSUME NEW st \in Storage, NEW gone \in SUBSET PieceIndex
    PROVE  \A p \in PieceIndex :
             Dropped(st, gone).written[p] = IF p \in gone THEN {} ELSE st.written[p]
  BY DEF Dropped, Storage

LEMMA SameContent ==
    ASSUME NEW st, NEW new, SameBytes(st, new)
    PROVE  /\ ContentOf(new) = ContentOf(st)
           /\ new.window = st.window => KeptOf(new) = KeptOf(st)
  BY DEF SameBytes, ContentOf, KeptOf

\* What eviction leaves of a storage: all but some pieces outside its window.
LEMMA EvictedFromEach ==
    ASSUME NEW sts \in Storages, NEW used, NEW max, Enforce(sts, used, max),
           NEW s \in Slot, sts[s] # NoStorage
    PROVE  \E gone \in SUBSET Unretained(sts[s]) :
             /\ gone \in SUBSET PieceIndex
             /\ storages'[s] = Dropped(sts[s], gone)
  <1> DEFINE gone == GoneOf(s, Evicted(sts, used, max))
  <1>1. storages'[s] = Dropped(sts[s], gone)
    BY DEF Enforce, AfterEviction, GoneOf
  <1>2. gone \in SUBSET Unretained(sts[s]) /\ gone \in SUBSET PieceIndex
    BY DEF GoneOf, Evicted, Evictable
  <1> QED BY <1>1, <1>2

LEMMA EvictionBlanks ==
    ASSUME NEW sts \in Storages, NEW used \in Int, NEW max \in Int, Enforce(sts, used, max), BlankIn(sts)
    PROVE  OnlyHeldWritten'
  <1> SUFFICES ASSUME NEW s \in Slot, storages'[s] # NoStorage,
                      NEW p \in PieceIndex, p \notin storages'[s].held
               PROVE  storages'[s].written[p] = {}
    BY DEF OnlyHeldWritten, BlankIn
  <1>1. sts[s] # NoStorage /\ sts[s] \in Storage
    BY EnforceEffect DEF Storages
  <1>2. PICK gone \in SUBSET PieceIndex : storages'[s] = Dropped(sts[s], gone)
    BY <1>1, EvictedFromEach
  <1>3. storages'[s].held = sts[s].held \ gone
    BY <1>1, <1>2, DroppedType
  <1>4. storages'[s].written[p] = IF p \in gone THEN {} ELSE sts[s].written[p]
    BY <1>1, <1>2, BytesDropped
  <1> QED BY <1>1, <1>3, <1>4 DEF BlankIn

\* What is left is what eviction was given, but for pieces that need not be kept.
LEMMA EvictionForgets ==
    ASSUME storages \in Storages, NEW sts \in Storages, NEW used \in Int, NEW max \in Int,
           Enforce(sts, used, max), SameLive(storages, sts)
    PROVE  /\ Live' = Live
           /\ Keeping' = [s \in Live |-> KeptOf(sts[s])]
           /\ Store!LeftWith([s \in Live |-> ContentOf(sts[s])])
  <1> DEFINE full == [s \in Live |-> ContentOf(sts[s])]
             Left(s, forgotten) == [torrent |-> full[s].torrent,
                                    bytes |-> [p \in DOMAIN full[s].bytes |->
                                        IF p \in forgotten THEN {} ELSE full[s].bytes[p]]]
  <1>1. Live' = Live
    BY EnforceEffect DEF Live, SameLive
  <1>2. ASSUME NEW s \in Live
        PROVE  /\ KeptOf(storages'[s]) = KeptOf(sts[s])
               /\ \E forgotten \in SUBSET (DOMAIN full[s].bytes \ KeptOf(sts[s])) :
                    ContentOf(storages'[s]) = Left(s, forgotten)
    <2> DEFINE pieces == Pieces(sts[s].torrent)
    <2>1. s \in Slot /\ sts[s] # NoStorage /\ sts[s] \in Storage
      BY DEF Live, SameLive, Storages
    <2>2. PICK gone \in SUBSET Unretained(sts[s]) :
             gone \in SUBSET PieceIndex /\ storages'[s] = Dropped(sts[s], gone)
      BY <2>1, EvictedFromEach
    <2>3. storages'[s].torrent = sts[s].torrent /\ storages'[s].window = sts[s].window
      BY <2>1, <2>2, DroppedType
    <2>4. pieces \subseteq PieceIndex
      BY <2>1, PiecesInIndex DEF Storage
    <2>5. \A p \in pieces :
             storages'[s].written[p] = IF p \in gone THEN {} ELSE sts[s].written[p]
      BY <2>1, <2>2, <2>4, BytesDropped
    <2>6. \A p \in gone : p \notin KeptOf(sts[s])
      BY <2>2 DEF Unretained, KeptOf
    <2>7. /\ full[s].torrent = sts[s].torrent
          /\ full[s].bytes = [p \in pieces |-> sts[s].written[p]]
      BY DEF ContentOf
    <2>8. ContentOf(storages'[s]) = [torrent |-> sts[s].torrent,
                                     bytes |-> [p \in pieces |-> storages'[s].written[p]]]
      BY <2>3 DEF ContentOf
    <2>9. KeptOf(storages'[s]) = KeptOf(sts[s])
      BY <2>3 DEF KeptOf
    <2> HIDE DEF full, pieces
    <2>10. ContentOf(storages'[s]) = Left(s, gone \cap pieces)
      <3>1. [p \in pieces |-> storages'[s].written[p]] =
              [p \in DOMAIN full[s].bytes |->
                  IF p \in gone \cap pieces THEN {} ELSE full[s].bytes[p]]
        BY <2>5, <2>7
      <3> QED BY <2>7, <2>8, <3>1
    <2>11. gone \cap pieces \in SUBSET (DOMAIN full[s].bytes \ KeptOf(sts[s]))
      BY <2>6, <2>7
    <2> QED BY <2>9, <2>10, <2>11
  <1>3. Keeping' = [s \in Live |-> KeptOf(sts[s])]
    BY <1>1, <1>2 DEF Keeping
  <1>4. /\ Contents' = [s \in Live |-> ContentOf(storages'[s])]
        /\ DOMAIN Contents' = Live
    BY <1>1 DEF Contents
  <1>5. DOMAIN full = Live
    OBVIOUS
  <1> HIDE DEF full
  <1>6. ASSUME NEW s \in Live
        PROVE  \E forgotten \in SUBSET (DOMAIN full[s].bytes \ Keeping'[s]) :
                  Contents'[s] = Left(s, forgotten)
    <2>1. Contents'[s] = ContentOf(storages'[s]) /\ Keeping'[s] = KeptOf(sts[s])
      BY <1>3, <1>4
    <2> QED BY <1>2, <2>1, Zenon
  <1>7. Store!LeftWith(full)
    BY <1>4, <1>5, <1>6, Zenon DEF Store!LeftWith, Store!Taken
  <1> QED BY <1>1, <1>3, <1>7 DEF full

LEMMA WithBlanks ==
    ASSUME storages \in Storages, NEW s \in Slot, NEW st \in Storage \cup {NoStorage},
           BlankIn(storages),
           st # NoStorage => \A p \in PieceIndex : p \notin st.held => st.written[p] = {}
    PROVE  BlankIn(With(s, st))
  BY DEF BlankIn, With, Storages

LEMMA SameBlanks ==
    ASSUME storages \in Storages, BlankIn(storages), NEW s \in Live,
           NEW st \in Storage, SameBytes(storages[s], st)
    PROVE  BlankIn(With(s, st))
  <1>1. s \in Slot /\ storages[s] # NoStorage
    BY DEF Live
  <1>2. \A p \in PieceIndex : p \notin st.held => st.written[p] = {}
    BY <1>1 DEF BlankIn, SameBytes
  <1> QED BY <1>1, <1>2, WithBlanks

LEMMA LookedBlanks ==
    ASSUME storages \in Storages, OnlyHeldWritten, NEW s \in Live, NEW p, NEW found,
           Looked(s, p, found)
    PROVE  OnlyHeldWritten'
  <1>1. CASE found
    BY <1>1 DEF Looked, disk, OnlyHeldWritten, BlankIn
  <1>2. CASE ~found
    <2>1. storages[s] \in Storage
      BY LiveStorage
    <2>2. storages' = With(s, Missed(storages[s], p))
      BY <1>2 DEF Looked
    <2>3. Missed(storages[s], p) \in Storage /\ SameBytes(storages[s], Missed(storages[s], p))
      BY <2>1, MissedType, BytesKept
    <2>4. BlankIn(With(s, Missed(storages[s], p)))
      BY <2>3, SameBlanks DEF OnlyHeldWritten
    <2> QED BY <2>2, <2>4 DEF OnlyHeldWritten, BlankIn
  <1> QED BY <1>1, <1>2

\* A step that leaves the storages alone.
LEMMA IdleBlanks ==
    ASSUME OnlyHeldWritten, UNCHANGED storages
    PROVE  OnlyHeldWritten'
  BY DEF OnlyHeldWritten, BlankIn

LEMMA GivenBlanks ==
    ASSUME NEW sts, BlankIn(sts), storages' = sts
    PROVE  OnlyHeldWritten'
  BY DEF OnlyHeldWritten, BlankIn

LEMMA WriteBlanks ==
    ASSUME TypeOK, OnlyHeldWritten, NEW s \in Live, NEW p \in Int,
           NEW start \in Int, NEW length \in Int,
           RequestError(storages[s], p, start, length) = "ok",
           Enforce(With(s, Wrote(storages[s], p, start, length)),
                   bytesUsed + NewBytes(s, p), policy.max)
    PROVE  OnlyHeldWritten'
  <1> DEFINE st == Wrote(storages[s], p, start, length)
  <1>1. storages \in Storages /\ storages[s] \in Storage /\ policy.max \in Int /\ bytesUsed \in Int
    BY TypedState, LiveStorage
  <1>2. st \in Storage /\ p \in PieceIndex /\ st.held = storages[s].held \cup {p}
    <2> DEFINE old == storages[s]
    <2>1. old \in Storage /\ RequestError(old, p, start, length) = "ok"
      BY <1>1
    <2> HIDE DEF old
    <2>2. /\ Wrote(old, p, start, length) \in Storage /\ p \in PieceIndex
          /\ Wrote(old, p, start, length).held = old.held \cup {p}
      BY <2>1, WroteType
    <2> QED BY <2>2 DEF old
  <1>3. \A q \in PieceIndex : q # p => st.written[q] = storages[s].written[q]
    <2> DEFINE old == storages[s]
    <2>1. old \in Storage /\ p \in PieceIndex
      BY <1>1, <1>2
    <2> HIDE DEF old
    <2>2. ASSUME NEW q \in PieceIndex, q # p
          PROVE  Wrote(old, p, start, length).written[q] = old.written[q]
      BY <2>1, <2>2 DEF Wrote, Storage
    <2> QED BY <2>2 DEF old
  <1>4. Enforce(With(s, st), bytesUsed + NewBytes(s, p), policy.max)
    OBVIOUS
  <1> HIDE DEF st
  <1>5. \A q \in PieceIndex : q \notin st.held => st.written[q] = {}
    BY <1>2, <1>3 DEF OnlyHeldWritten, BlankIn, Live
  <1>6. With(s, st) \in Storages /\ BlankIn(With(s, st))
    BY <1>1, <1>2, <1>5, LiveStorage, WithType, WithBlanks DEF OnlyHeldWritten
  <1>7. bytesUsed + NewBytes(s, p) \in Int
    <2>1. PieceSize(storages[s].torrent, p) \in Int
      BY <1>1, <1>2, PieceSizeType DEF Storage
    <2> QED BY <1>1, <2>1 DEF NewBytes
  <1> QED BY <1>1, <1>4, <1>6, <1>7, EvictionBlanks

\* A piece that was evicted, cleared or never written has no byte left to answer with, in
\* any slot, however often it was written and lost (memory_disk_io.cpp:285-304, 559-580).
THEOREM NothingOutlivesItsBuffer == Spec => []OnlyHeldWritten
  <1>1. Init => OnlyHeldWritten
    BY DEF Init, OnlyHeldWritten, BlankIn
  <1>2. TypeOK /\ OnlyHeldWritten /\ [Next]_vars => OnlyHeldWritten'
    <2> SUFFICES ASSUME TypeOK, OnlyHeldWritten, [Next]_vars PROVE OnlyHeldWritten'
      OBVIOUS
    <2>0. storages \in Storages /\ policy.max \in Int /\ bytesUsed \in Int /\ BlankIn(storages)
      BY TypedState DEF OnlyHeldWritten
    <2>1. ASSUME NEW raw \in RawPolicySet, SetCachePolicy(raw) PROVE OnlyHeldWritten'
      <3> DEFINE new == Normalize(raw)
                 sts == [s \in Slot |-> IF s \in Live THEN WithPolicy(storages[s], new)
                                        ELSE NoStorage]
      <3>1. new \in Policies /\ new.max \in Int
        BY NormalizeFits, DiskAssumption DEF Policies
      <3> HIDE DEF new
      <3>2. \A s \in Live : WithPolicy(storages[s], new) \in Storage
                            /\ SameBytes(storages[s], WithPolicy(storages[s], new))
        BY <2>0, <3>1, LiveStorage, WithPolicyType, BytesKept
      <3>3. sts \in Storages
        BY <3>2 DEF Storages
      <3>4. BlankIn(sts)
        BY <2>0, <3>2 DEF BlankIn, SameBytes, Live
      <3>5. Enforce(sts, bytesUsed, new.max)
        BY <2>1 DEF SetCachePolicy, new
      <3> HIDE DEF sts
      <3> QED BY <2>0, <3>1, <3>3, <3>4, <3>5, EvictionBlanks
    <2>2. ASSUME NEW t \in Torrents, NewTorrent(t) PROVE OnlyHeldWritten'
      <3>1. /\ TakenSlot \in Slot /\ NewStorage(t, policy) \in Storage
            /\ storages' = With(TakenSlot, NewStorage(t, policy))
        BY <2>2, NewTorrentEffect
      <3>2. \A p \in PieceIndex : NewStorage(t, policy).written[p] = {}
        BY DEF NewStorage
      <3>3. BlankIn(With(TakenSlot, NewStorage(t, policy)))
        BY <2>0, <3>1, <3>2, WithBlanks
      <3> QED BY <3>1, <3>3, GivenBlanks
    <2>3. ASSUME NEW s \in Slot, NEW o \in Offsets, UpdateRetainedWindow(s, o)
          PROVE  OnlyHeldWritten'
      <3>1. s \in Live /\ o \in Int
        BY <2>3, DiskAssumption DEF UpdateRetainedWindow
      <3>2. /\ WithWindowAt(storages[s], o) \in Storage
            /\ SameBytes(storages[s], WithWindowAt(storages[s], o))
        BY <2>0, <3>1, LiveStorage, WithWindowAtType, BytesKept
      <3>3. /\ With(s, WithWindowAt(storages[s], o)) \in Storages
            /\ BlankIn(With(s, WithWindowAt(storages[s], o)))
        BY <2>0, <3>1, <3>2, WithType, SameBlanks
      <3>4. Enforce(With(s, WithWindowAt(storages[s], o)), bytesUsed, policy.max)
        BY <2>3 DEF UpdateRetainedWindow
      <3> QED BY <2>0, <3>3, <3>4, EvictionBlanks
    <2>4. ASSUME NEW s \in Slot, NEW w \in AskedWindows, SetRetainedWindow(s, w[1], w[2])
          PROVE  OnlyHeldWritten'
      <3>1. s \in Live /\ w[1] \in Int /\ w[2] \in Int
        BY <2>4, DiskAssumption DEF SetRetainedWindow
      <3>2. /\ WithWindow(storages[s], w[1], w[2]) \in Storage
            /\ SameBytes(storages[s], WithWindow(storages[s], w[1], w[2]))
        BY <2>0, <3>1, LiveStorage, WithWindowType, BytesKept
      <3>3. /\ With(s, WithWindow(storages[s], w[1], w[2])) \in Storages
            /\ BlankIn(With(s, WithWindow(storages[s], w[1], w[2])))
        BY <2>0, <3>1, <3>2, WithType, SameBlanks
      <3>4. Enforce(With(s, WithWindow(storages[s], w[1], w[2])), bytesUsed, policy.max)
        BY <2>4 DEF SetRetainedWindow
      <3> QED BY <2>0, <3>3, <3>4, EvictionBlanks
    <2>5. ASSUME NEW s \in Slot, ClearRetainedWindow(s) PROVE OnlyHeldWritten'
      <3>1. s \in Live /\ storages' = With(s, WithoutWindow(storages[s]))
        BY <2>5 DEF ClearRetainedWindow
      <3>2. BlankIn(With(s, WithoutWindow(storages[s])))
        BY <2>0, <3>1, LiveStorage, WithoutWindowType, BytesKept, SameBlanks
      <3> QED BY <3>1, <3>2, GivenBlanks
    <2>6. ASSUME NEW s \in Slot, RemoveTorrent(s) PROVE OnlyHeldWritten'
      <3>1. BlankIn(With(s, NoStorage))
        BY <2>0, WithBlanks
      <3> QED BY <2>6, <3>1, GivenBlanks DEF RemoveTorrent
    <2>7. ASSUME NEW s \in Slot, DeleteFiles(s) PROVE OnlyHeldWritten'
      <3>1. CASE s \in Live
        <4>1. ClearedAll(storages[s]) \in Storage
          BY <2>0, <3>1, LiveStorage, ClearedAllType
        <4>2. \A p \in PieceIndex : ClearedAll(storages[s]).written[p] = {}
          BY <2>0, <3>1, LiveStorage DEF ClearedAll, Storage
        <4>3. BlankIn(With(s, ClearedAll(storages[s])))
          BY <2>0, <4>1, <4>2, WithBlanks
        <4> QED BY <2>7, <3>1, <4>3, GivenBlanks DEF DeleteFiles
      <3>2. CASE s \notin Live
        BY <2>7, <3>2, IdleBlanks DEF DeleteFiles, disk
      <3> QED BY <3>1, <3>2
    <2>8. ASSUME NEW s \in Slot, NEW p \in AskedPieces, NEW r \in AskedRanges,
                 AsyncWrite(s, p, r[1], r[2])
          PROVE  OnlyHeldWritten'
      <3>1. CASE UNCHANGED disk
        BY <3>1, IdleBlanks DEF disk
      <3>2. CASE /\ s \in Live /\ RequestError(storages[s], p, r[1], r[2]) = "ok"
                 /\ Enforce(With(s, Wrote(storages[s], p, r[1], r[2])),
                            bytesUsed + NewBytes(s, p), policy.max)
        BY <3>2, DiskAssumption, WriteBlanks
      <3> QED BY <2>8, <3>1, <3>2 DEF AsyncWrite, NoStorageJob
    <2>9. ASSUME NEW s \in Slot, NEW p \in AskedPieces, NEW r \in AskedRanges,
                 AsyncRead(s, p, r[1], r[2]) \/ ReadBytes(s, p, r[1], r[2])
                   \/ AsyncHash2(s, p, r[1])
          PROVE  OnlyHeldWritten'
      <3>1. CASE UNCHANGED disk
        BY <3>1, IdleBlanks DEF disk
      <3>2. ASSUME s \in Live, NEW found, Looked(s, p, found) PROVE OnlyHeldWritten'
        BY <2>0, <3>2, LookedBlanks
      <3>3. CASE AsyncRead(s, p, r[1], r[2])
        BY <3>1, <3>2, <3>3 DEF AsyncRead, NoStorageJob
      <3>4. CASE ReadBytes(s, p, r[1], r[2])
        BY <3>2, <3>4 DEF ReadBytes
      <3>5. CASE AsyncHash2(s, p, r[1])
        BY <3>1, <3>2, <3>5 DEF AsyncHash2, NoStorageJob
      <3> QED BY <2>9, <3>3, <3>4, <3>5
    <2>10. ASSUME NEW s \in Slot, NEW p \in AskedPieces, AsyncHash(s, p) PROVE OnlyHeldWritten'
      <3>1. CASE UNCHANGED disk
        BY <3>1, IdleBlanks DEF disk
      <3>2. ASSUME s \in Live, NEW found, Looked(s, p, found) PROVE OnlyHeldWritten'
        BY <2>0, <3>2, LookedBlanks
      <3> QED BY <2>10, <3>1, <3>2 DEF AsyncHash, NoStorageJob
    <2>11. ASSUME NEW s \in Slot, NEW p \in AskedPieces, ClearPiece(s, p) PROVE OnlyHeldWritten'
      <3>1. CASE s \in Live /\ p \in storages[s].held
        <4>1. storages[s] \in Storage /\ {p} \in SUBSET PieceIndex
          BY <2>0, <3>1, LiveStorage DEF Storage
        <4>2. /\ Dropped(storages[s], {p}) \in Storage
              /\ Dropped(storages[s], {p}).held = storages[s].held \ {p}
              /\ \A q \in PieceIndex : Dropped(storages[s], {p}).written[q] =
                    IF q \in {p} THEN {} ELSE storages[s].written[q]
          BY <4>1, DroppedType, BytesDropped
        <4>3. \A q \in PieceIndex : q \notin Dropped(storages[s], {p}).held
                => Dropped(storages[s], {p}).written[q] = {}
          BY <2>0, <3>1, <4>2 DEF BlankIn, Live
        <4>4. BlankIn(With(s, Dropped(storages[s], {p})))
          BY <2>0, <4>2, <4>3, WithBlanks
        <4> QED BY <2>11, <3>1, <4>4, GivenBlanks DEF ClearPiece
      <3>2. CASE ~(s \in Live /\ p \in storages[s].held)
        BY <2>11, <3>2, IdleBlanks DEF ClearPiece, disk
      <3> QED BY <3>1, <3>2
    <2>12. CASE UNCHANGED vars
      BY <2>12, IdleBlanks DEF vars, disk
    <2> QED BY <2>1, <2>2, <2>3, <2>4, <2>5, <2>6, <2>7, <2>8, <2>9, <2>10, <2>11, <2>12 DEF Next
  <1> QED BY <1>1, <1>2, TypeCorrect, PTL DEF Spec

LEMMA Answered ==
    ASSUME NEW job, NEW s \in Slot, NEW p \in AskedPieces, NEW outcomes, NEW o \in outcomes,
           posted' = Posted(job, s, p, o)
    PROVE  /\ Store!Done(job, outcomes)
           /\ posted'.slot = s /\ posted'.piece = p /\ posted'.outcome = o
  BY DEF Posted, Store!Done, Store!Answer

LEMMA NothingAnswered == Nothing = Store!Nothing
  BY DEF Nothing, Posted, Store!Nothing, Store!Answer

\* What the store sees of a slot.
LEMMA StoreSees ==
    ASSUME storages \in Storages
    PROVE  /\ Store!Taken = Live
           /\ \A s \in Live :
                LET t == storages[s].torrent
                IN  /\ t \in Torrents
                    /\ Contents[s] = ContentOf(storages[s])
                    /\ Contents[s].torrent = t
                    /\ Contents[s].bytes = [p \in Pieces(t) |-> storages[s].written[p]]
                    /\ \A p : Store!Has(s, p) <=> p \in Pieces(t)
                    /\ \A p \in Pieces(t) : Store!SizeOf(s, p) = PieceSize(t, p)
  <1>1. Store!Taken = Live
    BY DEF Store!Taken, Contents
  <1>2. ASSUME NEW s \in Live
        PROVE  LET t == storages[s].torrent
               IN  /\ t \in Torrents
                   /\ Contents[s] = ContentOf(storages[s])
                   /\ Contents[s].torrent = t
                   /\ Contents[s].bytes = [p \in Pieces(t) |-> storages[s].written[p]]
                   /\ \A p : Store!Has(s, p) <=> p \in Pieces(t)
                   /\ \A p \in Pieces(t) : Store!SizeOf(s, p) = PieceSize(t, p)
    <2> DEFINE t == storages[s].torrent
    <2>1. t \in Torrents
      BY LiveStorage DEF Storage
    <2>2. Contents[s] = ContentOf(storages[s])
      BY DEF Contents
    <2>3. /\ Contents[s].torrent = t
          /\ Contents[s].bytes = [p \in Pieces(t) |-> storages[s].written[p]]
      BY <2>2 DEF ContentOf
    <2>4. \A p : Store!Has(s, p) <=> p \in Pieces(t)
      BY <1>1, <2>3 DEF Store!Has
    <2>5. \A p \in Pieces(t) : Store!SizeOf(s, p) = PieceSize(t, p)
      BY <2>1, <2>3 DEF Store!SizeOf
    <2> QED BY <2>1, <2>2, <2>3, <2>4, <2>5
  <1> QED BY <1>1, <1>2

\* A request is refused when it does not fit the torrent's piece, and only then.
LEMMA FitsIs ==
    ASSUME storages \in Storages, NEW s \in Live, NEW p \in Int,
           NEW start \in Int, NEW length \in Int
    PROVE  /\ RequestError(storages[s], p, start, length) = "ok" <=> Store!Fits(s, p, start, length)
           /\ Store!Fits(s, p, start, length)
                => p \in Pieces(storages[s].torrent) /\ start \in Nat /\ length \in Nat
  <1> DEFINE t == storages[s].torrent
             size == PieceSize(t, p)
  <1>1. Store!Fits(s, p, start, length) <=>
          p \in Pieces(t) /\ start >= 0 /\ length >= 0 /\ start + length <= size
    BY StoreSees DEF Store!Fits
  <1>2. p \in Pieces(t) => size \in Int
    <2>1. t \in Torrents
      BY StoreSees
    <2> HIDE DEF t
    <2>2. Pieces(t) \subseteq PieceIndex
      BY <2>1, PiecesInIndex
    <2> QED BY <2>1, <2>2, PieceSizeType
  <1>3. RequestError(storages[s], p, start, length) =
          IF length < 0 \/ start < 0 \/ p \notin Pieces(t) THEN "invalid"
          ELSE IF start > size \/ length > size - start THEN "eof" ELSE "ok"
    BY DEF RequestError
  <1> HIDE DEF t, size
  <1> QED BY <1>1, <1>2, <1>3 DEF t

\* What is found is there; what is not found is not there, or is nothing.
LEMMA FoundIsThere ==
    ASSUME storages \in Storages, OnlyHeldWritten, NEW s \in Live,
           NEW p \in Pieces(storages[s].torrent), NEW start \in Nat, NEW length \in Nat
    PROVE  /\ Readable(storages[s], p, start, length) => Store!There(s, p, start, length)
           /\ Store!There(s, p, start, length)
                => Readable(storages[s], p, start, length) \/ length = 0
  <1> DEFINE asked == start .. (start + length - 1)
  <1>1. /\ p \in PieceIndex
        /\ Store!There(s, p, start, length) <=> asked \subseteq storages[s].written[p]
    BY StoreSees, PiecesInIndex DEF Store!There
  <1>2. p \notin storages[s].held => storages[s].written[p] = {}
    BY <1>1 DEF OnlyHeldWritten, BlankIn, Live
  <1>3. length # 0 => start \in asked
    OBVIOUS
  <1>4. Readable(storages[s], p, start, length)
          <=> p \in storages[s].held /\ asked \subseteq storages[s].written[p]
    BY DEF Readable
  <1> HIDE DEF asked
  <1> QED BY <1>1, <1>2, <1>3, <1>4

\* Steps the store does not see in its slots.
LEMMA SlotsUnseen ==
    ASSUME UNCHANGED storages
    PROVE  UNCHANGED <<Contents, Keeping>>
  BY DEF Contents, Keeping, Live

LEMMA SlotSeen ==
    ASSUME storages \in Storages, NEW s \in Live, NEW st \in Storage, storages' = With(s, st)
    PROVE  /\ Live' = Live
           /\ Contents' = [Contents EXCEPT ![s] = ContentOf(st)]
           /\ Keeping' = [Keeping EXCEPT ![s] = KeptOf(st)]
  <1>1. s \in Slot /\ st # NoStorage
    BY DiskAssumption DEF Live
  <1>2. \A r \in Slot : storages'[r] = IF r = s THEN st ELSE storages[r]
    BY <1>1 DEF With, Storages
  <1>3. Live' = Live
    BY <1>1, <1>2 DEF Live
  <1>4. Live \subseteq Slot
    BY DEF Live
  <1> QED BY <1>2, <1>3, <1>4 DEF Contents, Keeping

LEMMA LookedUnseen ==
    ASSUME storages \in Storages, NEW s \in Live, NEW p, NEW found, Looked(s, p, found)
    PROVE  UNCHANGED <<Contents, Keeping>>
  <1>1. CASE found
    BY <1>1, SlotsUnseen DEF Looked, disk
  <1>2. CASE ~found
    <2> DEFINE st == Missed(storages[s], p)
    <2>1. storages[s] \in Storage /\ storages' = With(s, st)
      BY <1>2, LiveStorage DEF Looked
    <2>2. st \in Storage /\ SameBytes(storages[s], st) /\ st.window = storages[s].window
      BY <2>1, MissedType, BytesKept
    <2> HIDE DEF st
    <2>3. ContentOf(st) = ContentOf(storages[s]) /\ KeptOf(st) = KeptOf(storages[s])
      BY <2>2, SameContent
    <2>4. /\ Contents' = [Contents EXCEPT ![s] = ContentOf(st)]
          /\ Keeping' = [Keeping EXCEPT ![s] = KeptOf(st)]
      BY <2>1, <2>2, SlotSeen
    <2>5. [Contents EXCEPT ![s] = ContentOf(st)] = Contents
      BY <2>3 DEF Contents
    <2>6. [Keeping EXCEPT ![s] = KeptOf(st)] = Keeping
      BY <2>3 DEF Keeping
    <2> QED BY <2>4, <2>5, <2>6
  <1> QED BY <1>1, <1>2

\* A new policy or a new window, and the eviction that follows it.
LEMMA EnforcedIsKeep ==
    ASSUME storages \in Storages, NEW sts \in Storages, NEW used \in Int, NEW max \in Int,
           Enforce(sts, used, max), SameLive(storages, sts), posted' = Nothing,
           \A s \in Live : SameBytes(storages[s], sts[s]),
           \/ \A s \in Live : sts[s].window = storages[s].window
           \/ \E s \in Live : \A r \in Live \ {s} : sts[r].window = storages[r].window
    PROVE  Store!Keep
  <1>1. /\ Keeping' = [s \in Live |-> KeptOf(sts[s])]
        /\ Store!LeftWith([s \in Live |-> ContentOf(sts[s])])
    BY EvictionForgets
  <1>2. [s \in Live |-> ContentOf(sts[s])] = Contents
    BY SameContent DEF Contents
  <1>3. ASSUME NEW s \in Live, sts[s].window = storages[s].window
        PROVE  Keeping'[s] = Keeping[s]
    BY <1>1, <1>3, SameContent DEF Keeping
  <1>4. Keeping' \in [Live -> {Keeping'[s] : s \in Live}] /\ DOMAIN Keeping = Live
    BY <1>1 DEF Keeping
  <1>5. CASE \A s \in Live : sts[s].window = storages[s].window
    <2>1. Keeping' = Keeping
      BY <1>1, <1>3, <1>4, <1>5 DEF Keeping
    <2> QED BY <1>1, <1>2, <2>1, NothingAnswered DEF Store!Keep
  <1>6. CASE \E s \in Live : \A r \in Live \ {s} : sts[r].window = storages[r].window
    <2>1. PICK s \in Live : \A r \in Live \ {s} : sts[r].window = storages[r].window
      BY <1>6
    <2>2. Keeping' = [Keeping EXCEPT ![s] = Keeping'[s]]
      BY <1>1, <1>3, <2>1 DEF Keeping
    <2>3. s \in Store!Taken
      BY StoreSees
    <2> QED BY <1>1, <1>2, <2>2, <2>3, NothingAnswered DEF Store!Keep
  <1> QED BY <1>5, <1>6

LEMMA SetCachePolicyIsKeep ==
    ASSUME TypeOK, NEW raw \in RawPolicySet, SetCachePolicy(raw)
    PROVE  Store!Keep
  <1> DEFINE new == Normalize(raw)
             sts == [s \in Slot |-> IF s \in Live THEN WithPolicy(storages[s], new)
                                    ELSE NoStorage]
  <1>1. new \in Policies /\ new.max \in Int
    BY NormalizeFits, DiskAssumption DEF Policies
  <1>2. Enforce(sts, bytesUsed, new.max) /\ posted' = Nothing
    BY DEF SetCachePolicy
  <1> HIDE DEF new
  <1>3. \A s \in Live : /\ WithPolicy(storages[s], new) \in Storage
                        /\ SameBytes(storages[s], WithPolicy(storages[s], new))
                        /\ WithPolicy(storages[s], new).window = storages[s].window
    BY <1>1, TypedState, LiveStorage, WithPolicyType, BytesKept
  <1>4. /\ sts \in Storages
        /\ SameLive(storages, sts)
        /\ \A s \in Live : sts[s] = WithPolicy(storages[s], new)
    BY <1>3, DiskAssumption DEF Storages, SameLive, Live
  <1> HIDE DEF sts
  <1>5. \A s \in Live : SameBytes(storages[s], sts[s]) /\ sts[s].window = storages[s].window
    BY <1>3, <1>4
  <1> QED BY <1>1, <1>2, <1>4, <1>5, TypedState, EnforcedIsKeep

LEMMA NewWindowIsKeep ==
    ASSUME TypeOK, NEW s \in Live, NEW st \in Storage, SameBytes(storages[s], st),
           Enforce(With(s, st), bytesUsed, policy.max), posted' = Nothing
    PROVE  Store!Keep
  <1>1. s \in Slot /\ st # NoStorage /\ storages[s] # NoStorage
    BY DiskAssumption DEF Live
  <1>2. With(s, st) \in Storages /\ storages \in Storages
    BY <1>1, TypedState, WithType
  <1>3. \A r \in Slot : With(s, st)[r] = IF r = s THEN st ELSE storages[r]
    BY <1>1, <1>2 DEF With, Storages
  <1>4. SameLive(storages, With(s, st))
    BY <1>1, <1>3 DEF SameLive
  <1>5. /\ \A r \in Live : SameBytes(storages[r], With(s, st)[r])
        /\ \A r \in Live \ {s} : With(s, st)[r].window = storages[r].window
    BY <1>3 DEF SameBytes, Live
  <1> QED BY <1>2, <1>4, <1>5, TypedState, EnforcedIsKeep

\* A store that forgets nothing.
LEMMA NothingForgotten ==
    ASSUME Contents' = Contents
    PROVE  Store!LeftWith(Contents)
  <1>1. /\ DOMAIN Contents = Live
        /\ \A s \in Live : Contents[s] =
              [torrent |-> Contents[s].torrent,
               bytes |-> [p \in DOMAIN Contents[s].bytes |-> Contents[s].bytes[p]]]
    BY DEF Contents, ContentOf
  <1>2. ASSUME NEW s \in Live
        PROVE  [p \in DOMAIN Contents[s].bytes |->
                  IF p \in {} THEN {} ELSE Contents[s].bytes[p]]
               = [p \in DOMAIN Contents[s].bytes |-> Contents[s].bytes[p]]
    OBVIOUS
  <1>3. ASSUME NEW s \in Live
        PROVE  \E forgotten \in SUBSET (DOMAIN Contents[s].bytes \ Keeping'[s]) :
                  Contents[s] = [torrent |-> Contents[s].torrent,
                                 bytes |-> [p \in DOMAIN Contents[s].bytes |->
                                    IF p \in forgotten THEN {} ELSE Contents[s].bytes[p]]]
    <2>1. {} \in SUBSET (DOMAIN Contents[s].bytes \ Keeping'[s])
      OBVIOUS
    <2> QED BY <1>1, <1>2, <2>1, Zenon
  <1> QED BY <1>1, <1>3, Zenon DEF Store!LeftWith, Store!Taken

LEMMA ClearedWindowIsKeep ==
    ASSUME TypeOK, NEW s \in Slot, ClearRetainedWindow(s)
    PROVE  Store!Keep
  <1> DEFINE st == WithoutWindow(storages[s])
  <1>1. s \in Live /\ storages' = With(s, st) /\ posted' = Nothing /\ storages[s] \in Storage
    BY TypedState, LiveStorage DEF ClearRetainedWindow
  <1>2. st \in Storage /\ SameBytes(storages[s], st)
    BY <1>1, WithoutWindowType, BytesKept
  <1> HIDE DEF st
  <1>3. ContentOf(st) = ContentOf(storages[s])
    BY <1>2, SameContent
  <1>4. /\ Contents' = [Contents EXCEPT ![s] = ContentOf(st)]
        /\ Keeping' = [Keeping EXCEPT ![s] = KeptOf(st)]
    BY <1>1, <1>2, TypedState, SlotSeen
  <1>5. Contents' = Contents
    BY <1>3, <1>4 DEF Contents
  <1>6. Keeping' = [Keeping EXCEPT ![s] = Keeping'[s]]
    BY <1>1, <1>4 DEF Keeping
  <1>7. Store!LeftWith(Contents)
    BY <1>5, NothingForgotten
  <1>8. s \in Store!Taken
    BY <1>1, TypedState, StoreSees
  <1> QED BY <1>1, <1>6, <1>7, <1>8, NothingAnswered DEF Store!Keep

LEMMA NewTorrentIsAdd ==
    ASSUME TypeOK, SlotsConsistent, NEW t \in Torrents, NewTorrent(t)
    PROVE  Store!Add
  <1> DEFINE s == TakenSlot
             st == NewStorage(t, policy)
             sizes == [u \in Torrents |-> [p \in Pieces(u) |-> PieceSize(u, p)]]
  <1>1. /\ s \in Slot /\ s \notin Live
        /\ \A r \in Slot : storages'[r] = IF r = s THEN st ELSE storages[r]
        /\ Live' = Live \cup {s}
    BY NewTorrentEffect, TakenSlotIsEmpty
  <1>2. posted' = Store!Nothing
    BY NothingAnswered DEF NewTorrent
  <1>3. Store!Taken = Live
    BY TypedState, StoreSees
  <1>4. t \in DOMAIN sizes /\ DOMAIN sizes[t] = Pieces(t)
    OBVIOUS
  <1>5. ContentOf(st) = Store!Blank(t)
    <2>1. Store!Blank(t) = [torrent |-> t, bytes |-> [p \in Pieces(t) |-> {}]]
      BY <1>4 DEF Store!Blank
    <2>2. Pieces(t) \subseteq PieceIndex
      BY PiecesInIndex
    <2>3. st.torrent = t /\ st.written = [p \in PieceIndex |-> {}]
      BY DEF NewStorage
    <2>4. ContentOf(st) = [torrent |-> t, bytes |-> [p \in Pieces(t) |-> {}]]
      BY <2>2, <2>3 DEF ContentOf
    <2> QED BY <2>1, <2>4
  <1>6. KeptOf(st) = Pieces(t)
    BY DEF KeptOf, NewStorage
  <1> HIDE DEF st, s
  <1>7. Live \subseteq Slot
    BY DEF Live
  <1>8. /\ Contents' = [u \in Live \cup {s} |-> IF u = s THEN Store!Blank(t) ELSE Contents[u]]
        /\ Keeping' = [u \in Live \cup {s} |-> IF u = s THEN DOMAIN sizes[t] ELSE Keeping[u]]
    BY <1>1, <1>4, <1>5, <1>6, <1>7 DEF Contents, Keeping
  <1> QED BY <1>1, <1>2, <1>3, <1>4, <1>8 DEF Store!Add

LEMMA RemoveTorrentIsRemove ==
    ASSUME TypeOK, NEW s \in Slot, RemoveTorrent(s)
    PROVE  Store!Remove
  <1>1. /\ s \in Live /\ Live' = Live \ {s}
        /\ \A r \in Slot : storages'[r] = IF r = s THEN NoStorage ELSE storages[r]
    BY RemoveTorrentEffect
  <1>2. posted' = Store!Nothing
    BY NothingAnswered DEF RemoveTorrent
  <1>3. Store!Taken = Live /\ Live \subseteq Slot
    BY TypedState, StoreSees DEF Live
  <1>4. /\ Contents' = [u \in Live \ {s} |-> Contents[u]]
        /\ Keeping' = [u \in Live \ {s} |-> Keeping[u]]
    BY <1>1, <1>3 DEF Contents, Keeping
  <1> QED BY <1>1, <1>2, <1>3, <1>4 DEF Store!Remove

LEMMA NoStorageIsRefused ==
    ASSUME TypeOK, NEW job \in {"read", "write", "hash", "hash2"}, NEW s \in Slot,
           NEW p \in AskedPieces, NoStorageJob(job, s, p)
    PROVE  Store!Refuse
  <1>1. s \notin Store!Taken
    BY TypedState, StoreSees DEF NoStorageJob
  <1>2. UNCHANGED <<Contents, Keeping>>
    BY SlotsUnseen DEF NoStorageJob, disk
  <1>3. posted' = Posted(job, s, p, "no_storage")
    BY DEF NoStorageJob
  <1>4. Store!Done(job, {"no_storage"}) /\ posted'.slot = s
    <2>1. "no_storage" \in {"no_storage"}
      OBVIOUS
    <2> QED BY <1>3, <2>1, Answered
  <1> QED BY <1>1, <1>2, <1>4 DEF Store!Refuse

\* A read or a write that does not fit the piece.
LEMMA MisfitIsRefused ==
    ASSUME TypeOK, NEW job \in {"read", "write"}, NEW s \in Live, NEW p \in AskedPieces,
           NEW r \in AskedRanges, NEW error \in {"ok", "invalid", "eof"},
           error = RequestError(storages[s], p, r[1], r[2]), error # "ok",
           posted' = Posted(job, s, p, error), UNCHANGED disk
    PROVE  Store!Refuse
  <1>1. s \in Slot /\ s \in Store!Taken
    BY TypedState, StoreSees DEF Live
  <1>2. UNCHANGED <<Contents, Keeping>>
    BY SlotsUnseen DEF disk
  <1>3. error \in {"invalid", "eof"}
    OBVIOUS
  <1>4. Store!Done(job, {"invalid", "eof"}) /\ posted'.slot = s /\ posted'.piece = p
    BY <1>1, <1>3, Answered
  <1>5. ~Store!Fits(s, p, r[1], r[2])
    <2>1. storages \in Storages /\ p \in Int /\ r[1] \in Int /\ r[2] \in Int
      BY TypedState, DiskAssumption
    <2>2. RequestError(storages[s], p, r[1], r[2]) # "ok"
      OBVIOUS
    <2> QED BY <2>1, <2>2, FitsIs
  <1> QED BY <1>1, <1>2, <1>4, <1>5 DEF Store!Refuse

LEMMA AsyncWriteIsWrite ==
    ASSUME TypeOK, NEW s \in Slot, NEW p \in AskedPieces, NEW r \in AskedRanges,
           AsyncWrite(s, p, r[1], r[2])
    PROVE  Store!Write \/ Store!Refuse
  <1> DEFINE start == r[1]
             length == r[2]
  <1>0. storages \in Storages /\ p \in Int /\ start \in Int /\ length \in Int
    BY TypedState, DiskAssumption
  <1>1. CASE NoStorageJob("write", s, p)
    BY <1>1, NoStorageIsRefused
  <1>2. CASE /\ s \in Live /\ RequestError(storages[s], p, r[1], r[2]) # "ok"
             /\ posted' = Posted("write", s, p, RequestError(storages[s], p, r[1], r[2]))
             /\ UNCHANGED <<disk, stored>>
    <2>1. PICK error \in {"ok", "invalid", "eof"} :
             error = RequestError(storages[s], p, r[1], r[2])
      BY RequestErrorType
    <2> QED BY <1>2, <2>1, MisfitIsRefused
  <1>3. CASE /\ s \in Live /\ RequestError(storages[s], p, start, length) = "ok"
             /\ Enforce(With(s, Wrote(storages[s], p, start, length)),
                        bytesUsed + NewBytes(s, p), policy.max)
             /\ posted' = Posted("write", s, p, "ok")
    <2> DEFINE old == storages[s]
               st == Wrote(old, p, start, length)
               written == start .. (start + length - 1)
    <2>1. /\ s \in Live /\ RequestError(old, p, start, length) = "ok"
          /\ Enforce(With(s, st), bytesUsed + NewBytes(s, p), policy.max)
          /\ posted' = Posted("write", s, p, "ok")
      BY <1>3
    <2>2. old \in Storage
      BY <1>0, <2>1, LiveStorage
    <2>3. Store!Fits(s, p, start, length) /\ p \in Pieces(old.torrent)
      BY <1>0, <2>1, FitsIs
    <2> HIDE DEF old
    <2>4. /\ st \in Storage /\ p \in PieceIndex
          /\ st.torrent = old.torrent /\ st.window = old.window
      BY <1>0, <2>1, <2>2, WroteType
    <2>5. \A q \in PieceIndex : st.written[q] =
             IF q = p THEN old.written[p] \cup written ELSE old.written[q]
      <3>1. p \in PieceIndex /\ start \in Int /\ length \in Int
        BY <1>0, <2>4
      <3> HIDE DEF start, length
      <3>2. ASSUME NEW q \in PieceIndex
            PROVE  st.written[q] = IF q = p THEN old.written[p] \cup written ELSE old.written[q]
        BY <2>2, <3>1 DEF Wrote, Storage
      <3> QED BY <3>2
    <2> HIDE DEF st, written, start, length
    <2>6. Pieces(old.torrent) \subseteq PieceIndex
      BY <2>2, PiecesInIndex DEF Storage
    <2>7. /\ ContentOf(old) = [torrent |-> old.torrent,
                               bytes |-> [q \in Pieces(old.torrent) |-> old.written[q]]]
          /\ ContentOf(st) = [torrent |-> old.torrent,
                              bytes |-> [q \in Pieces(old.torrent) |->
                                  IF q = p THEN old.written[p] \cup written ELSE old.written[q]]]
          /\ KeptOf(st) = KeptOf(old)
      BY <2>4, <2>5, <2>6 DEF ContentOf, KeptOf
    <2>8. ContentOf(st) = [ContentOf(old) EXCEPT !.bytes[p] = @ \cup written]
      BY <2>3, <2>7
    <2>9. With(s, st) \in Storages /\ bytesUsed + NewBytes(s, p) \in Int /\ policy.max \in Int
      <3>1. PieceSize(old.torrent, p) \in Int
        BY <2>2, <2>4, PieceSizeType DEF Storage
      <3> QED BY <1>0, <2>4, <3>1, TypedState, WithType DEF NewBytes, old
    <2>10. \A u \in Slot : With(s, st)[u] = IF u = s THEN st ELSE storages[u]
      BY <1>0 DEF With, Storages
    <2>11. SameLive(storages, With(s, st))
      BY <2>1, <2>4, <2>10, DiskAssumption DEF SameLive, Live
    <2>12. /\ Keeping' = [u \in Live |-> KeptOf(With(s, st)[u])]
           /\ Store!LeftWith([u \in Live |-> ContentOf(With(s, st)[u])])
      BY <1>0, <2>1, <2>9, <2>11, EvictionForgets
    <2>13. Live \subseteq Slot
      BY DEF Live
    <2>14. [u \in Live |-> ContentOf(With(s, st)[u])] =
              [Contents EXCEPT ![s].bytes[p] = @ \cup written]
      <3>1. [u \in Live |-> ContentOf(With(s, st)[u])] = [Contents EXCEPT ![s] = ContentOf(st)]
        BY <2>1, <2>10, <2>13 DEF Contents
      <3>2. Contents[s] = ContentOf(old)
        BY <2>1 DEF Contents, old
      <3>3. [Contents EXCEPT ![s].bytes[p] = @ \cup written] =
              [Contents EXCEPT ![s] = [ContentOf(old) EXCEPT !.bytes[p] = @ \cup written]]
        BY <3>2, Zenon
      <3> QED BY <2>8, <3>1, <3>3
    <2>15. Keeping' = Keeping
      BY <2>7, <2>10, <2>12, <2>13 DEF Keeping, old
    <2>16. Store!Done("write", {"ok"}) /\ posted'.slot = s /\ posted'.piece = p
      <3>1. "ok" \in {"ok"}
        OBVIOUS
      <3> QED BY <2>1, <3>1, Answered
    <2> QED BY <2>3, <2>12, <2>14, <2>15, <2>16 DEF Store!Write, written, start, length
  <1> QED BY <1>1, <1>2, <1>3 DEF AsyncWrite

LEMMA AsyncReadIsRead ==
    ASSUME TypeOK, OnlyHeldWritten, NEW s \in Slot, NEW p \in AskedPieces,
           NEW r \in AskedRanges, AsyncRead(s, p, r[1], r[2])
    PROVE  Store!Read \/ Store!Refuse
  <1> DEFINE error == RequestError(storages[s], p, r[1], r[2])
             found == Readable(storages[s], p, r[1], r[2])
  <1>0. storages \in Storages /\ p \in Int /\ r[1] \in Int /\ r[2] \in Int
    BY TypedState, DiskAssumption
  <1>1. CASE NoStorageJob("read", s, p)
    BY <1>1, NoStorageIsRefused
  <1>2. CASE s \in Live /\ error # "ok" /\ UNCHANGED disk /\ posted' = Posted("read", s, p, error)
    <2>1. PICK e \in {"ok", "invalid", "eof"} : e = error
      BY RequestErrorType
    <2> QED BY <1>2, <2>1, MisfitIsRefused
  <1>3. CASE /\ s \in Live /\ error = "ok" /\ Looked(s, p, found)
             /\ posted' = Posted("read", s, p, IF found THEN "ok" ELSE "eof")
    <2>1. UNCHANGED <<Contents, Keeping>>
      BY <1>0, <1>3, LookedUnseen
    <2>2. /\ Store!Fits(s, p, r[1], r[2]) /\ p \in Pieces(storages[s].torrent)
          /\ r[1] \in Nat /\ r[2] \in Nat
      BY <1>0, <1>3, FitsIs
    <2>3. /\ found => Store!There(s, p, r[1], r[2])
          /\ Store!There(s, p, r[1], r[2]) => found \/ r[2] = 0
      BY <1>0, <1>3, <2>2, FoundIsThere
    <2> HIDE DEF found
    <2>4. PICK o \in {"ok", "eof"} : o = IF found THEN "ok" ELSE "eof"
      OBVIOUS
    <2>5. posted' = Posted("read", s, p, o)
      BY <1>3, <2>4
    <2>6. /\ Store!Done("read", {"ok", "eof"})
          /\ posted'.slot = s /\ posted'.piece = p /\ posted'.outcome = o
      BY <2>5, Answered
    <2>7. IF o = "ok" THEN Store!There(s, p, r[1], r[2])
          ELSE r[2] = 0 \/ ~Store!There(s, p, r[1], r[2])
      BY <2>3, <2>4
    <2> QED BY <2>1, <2>2, <2>6, <2>7 DEF Store!Read
  <1> QED BY <1>1, <1>2, <1>3 DEF AsyncRead

\* The player's own look at the bytes: the store only sees that nothing is forgotten.
LEMMA ReadBytesIsKeep ==
    ASSUME TypeOK, NEW s \in Slot, NEW p, NEW start, NEW length, ReadBytes(s, p, start, length)
    PROVE  Store!Keep
  <1>1. posted' = Store!Nothing /\ UNCHANGED <<Contents, Keeping>>
    BY TypedState, LookedUnseen, NothingAnswered DEF ReadBytes
  <1>2. Store!LeftWith(Contents)
    BY <1>1, NothingForgotten
  <1> QED BY <1>1, <1>2 DEF Store!Keep

LEMMA AsyncHashIsHash ==
    ASSUME TypeOK, OnlyHeldWritten, NEW s \in Slot, NEW p \in AskedPieces, AsyncHash(s, p)
    PROVE  Store!Hash \/ Store!Refuse
  <1> DEFINE t == storages[s].torrent
             size == PieceSize(t, p)
             whole == Readable(storages[s], p, 0, size)
  <1>0. storages \in Storages /\ p \in Int
    BY TypedState, DiskAssumption
  <1>1. CASE NoStorageJob("hash", s, p)
    BY <1>1, NoStorageIsRefused
  <1>2. CASE /\ s \in Live /\ p \notin Pieces(t) /\ UNCHANGED disk
             /\ posted' = Posted("hash", s, p, "invalid")
    <2>1. s \in Store!Taken /\ ~Store!Has(s, p)
      BY <1>0, <1>2, StoreSees
    <2>2. UNCHANGED <<Contents, Keeping>>
      BY <1>2, SlotsUnseen DEF disk
    <2>3. Store!Done("hash", {"invalid"}) /\ posted'.slot = s /\ posted'.piece = p
      <3>1. "invalid" \in {"invalid"}
        OBVIOUS
      <3> QED BY <1>2, <3>1, Answered
    <2> QED BY <2>1, <2>2, <2>3 DEF Store!Refuse
  <1>3. CASE /\ s \in Live /\ p \in Pieces(t) /\ Looked(s, p, whole)
             /\ posted' = Posted("hash", s, p, IF whole THEN "ok" ELSE "missing")
    <2>1. UNCHANGED <<Contents, Keeping>>
      BY <1>0, <1>3, LookedUnseen
    <2>2. Store!Has(s, p) /\ Store!SizeOf(s, p) = size /\ t \in Torrents
      BY <1>0, <1>3, StoreSees
    <2>3. size \in Nat \ {0}
      <3> HIDE DEF t
      <3>1. p \in PieceIndex
        BY <1>3, <2>2, PiecesInIndex
      <3> QED BY <2>2, <3>1, PieceSizeType
    <2>4. whole <=> Store!There(s, p, 0, size)
      <3>1. p \in Pieces(storages[s].torrent)
        BY <1>3
      <3> HIDE DEF size
      <3>2. size \in Nat /\ size # 0 /\ 0 \in Nat
        BY <2>3
      <3> QED BY <1>0, <1>3, <3>1, <3>2, FoundIsThere
    <2> HIDE DEF whole
    <2>5. PICK o \in {"ok", "missing"} : o = IF whole THEN "ok" ELSE "missing"
      OBVIOUS
    <2>6. posted' = Posted("hash", s, p, o)
      BY <1>3, <2>5
    <2>7. /\ Store!Done("hash", {"ok", "missing"})
          /\ posted'.slot = s /\ posted'.piece = p /\ posted'.outcome = o
      BY <2>6, Answered
    <2>8. o = "ok" <=> Store!There(s, p, 0, Store!SizeOf(s, p))
      BY <2>2, <2>4, <2>5
    <2> QED BY <2>1, <2>2, <2>7, <2>8 DEF Store!Hash
  <1> QED BY <1>1, <1>2, <1>3 DEF AsyncHash

LEMMA AsyncHash2IsHash2 ==
    ASSUME TypeOK, OnlyHeldWritten, NEW s \in Slot, NEW p \in AskedPieces,
           NEW r \in AskedRanges, AsyncHash2(s, p, r[1])
    PROVE  Store!Hash2 \/ Store!Refuse
  <1> DEFINE t == storages[s].torrent
             size == PieceSize(t, p)
             rest == size - r[1]
             found == Readable(storages[s], p, r[1], AtMost(Block, rest))
  <1>0. storages \in Storages /\ p \in Int /\ r[1] \in Int
    BY TypedState, DiskAssumption
  <1>1. CASE NoStorageJob("hash2", s, p)
    BY <1>1, NoStorageIsRefused
  <1>2. CASE /\ s \in Live /\ p \in Pieces(t)
             /\ IF r[1] < 0 \/ rest <= 0
                THEN posted' = Posted("hash2", s, p, "invalid") /\ UNCHANGED disk
                ELSE /\ Looked(s, p, found)
                     /\ posted' = Posted("hash2", s, p, IF found THEN "ok" ELSE "missing")
    <2>1. Store!Has(s, p) /\ Store!SizeOf(s, p) = size /\ t \in Torrents
      BY <1>0, <1>2, StoreSees
    <2>2. size \in Nat \ {0}
      <3> HIDE DEF t
      <3>1. p \in PieceIndex
        BY <1>2, <2>1, PiecesInIndex
      <3> QED BY <2>1, <3>1, PieceSizeType
    <2>3. CASE r[1] < 0 \/ rest <= 0
      <3>1. ~(r[1] >= 0 /\ r[1] < Store!SizeOf(s, p))
        <4> HIDE DEF size
        <4> QED BY <1>0, <2>1, <2>2, <2>3
      <3>2. UNCHANGED <<Contents, Keeping>>
        BY <1>2, <2>3, SlotsUnseen DEF disk
      <3>3. Store!Done("hash2", {"invalid"}) /\ posted'.slot = s /\ posted'.piece = p
        <4>1. "invalid" \in {"invalid"}
          OBVIOUS
        <4> QED BY <1>2, <2>3, <4>1, Answered
      <3> QED BY <2>1, <3>1, <3>2, <3>3 DEF Store!Refuse
    <2>4. CASE ~(r[1] < 0 \/ rest <= 0)
      <3> DEFINE length == AtMost(Block, rest)
      <3>1. /\ Looked(s, p, found)
            /\ posted' = Posted("hash2", s, p, IF found THEN "ok" ELSE "missing")
        BY <1>2, <2>4
      <3>2. UNCHANGED <<Contents, Keeping>>
        BY <1>0, <1>2, <3>1, LookedUnseen
      <3>3. /\ r[1] \in Nat /\ r[1] < size /\ length \in Nat /\ length # 0
            /\ length = Store!LengthAt(s, p, r[1])
        <4> HIDE DEF size
        <4> QED BY <1>0, <2>1, <2>2, <2>4, StorageAssumption DEF Store!LengthAt, AtMost
      <3>4. found <=> Store!There(s, p, r[1], length)
        <4>1. p \in Pieces(storages[s].torrent) /\ s \in Live
          BY <1>2
        <4>2. found <=> Readable(storages[s], p, r[1], length)
          OBVIOUS
        <4> HIDE DEF length, found
        <4> QED BY <1>0, <3>3, <4>1, <4>2, FoundIsThere
      <3> HIDE DEF found, length
      <3>5. PICK o \in {"ok", "missing"} : o = IF found THEN "ok" ELSE "missing"
        OBVIOUS
      <3>6. posted' = Posted("hash2", s, p, o)
        BY <3>1, <3>5
      <3>7. /\ Store!Done("hash2", {"ok", "missing"})
            /\ posted'.slot = s /\ posted'.piece = p /\ posted'.outcome = o
        BY <3>6, Answered
      <3>8. o = "ok" <=> Store!There(s, p, r[1], Store!LengthAt(s, p, r[1]))
        BY <3>3, <3>4, <3>5
      <3>9. r[1] >= 0 /\ r[1] < Store!SizeOf(s, p)
        BY <2>1, <3>3
      <3> QED BY <2>1, <3>2, <3>7, <3>8, <3>9 DEF Store!Hash2
    <2> QED BY <2>3, <2>4
  <1> QED BY <1>1, <1>2 DEF AsyncHash2

\* The bytes of some pieces go, the storage stays.
LEMMA BytesGone ==
    ASSUME storages \in Storages, NEW s \in Live, NEW st \in Storage, storages' = With(s, st),
           st.torrent = storages[s].torrent, st.window = storages[s].window
    PROVE  /\ Contents' = [Contents EXCEPT ![s] = ContentOf(st)]
           /\ Keeping' = Keeping
  <1>1. /\ Contents' = [Contents EXCEPT ![s] = ContentOf(st)]
        /\ Keeping' = [Keeping EXCEPT ![s] = KeptOf(st)]
    BY SlotSeen
  <1>2. KeptOf(st) = KeptOf(storages[s])
    BY DEF KeptOf
  <1>3. [Keeping EXCEPT ![s] = KeptOf(st)] = Keeping
    BY <1>2 DEF Keeping
  <1> QED BY <1>1, <1>3

LEMMA DeleteFilesIsDelete ==
    ASSUME TypeOK, NEW s \in Slot, DeleteFiles(s)
    PROVE  Store!Delete
  <1>0. storages \in Storages /\ Store!Taken = Live
    BY TypedState, StoreSees
  <1>1. /\ posted'.job = "delete_files" /\ posted'.slot = s
        /\ posted' = Store!Answer("delete_files", s, 0, "ok")
    BY DEF DeleteFiles, Posted, Store!Answer
  <1>2. /\ Keeping' = Keeping
        /\ Contents' = IF s \in Live THEN [Contents EXCEPT ![s] = Store!Blank(Contents[s].torrent)]
                       ELSE Contents
    <2>1. CASE s \in Live
      <3> DEFINE old == storages[s]
                 st == ClearedAll(old)
      <3>1. old \in Storage /\ storages' = With(s, st)
        BY <1>0, <2>1, LiveStorage DEF DeleteFiles
      <3>2. /\ st \in Storage /\ st.torrent = old.torrent /\ st.window = old.window
            /\ st.written = [p \in PieceIndex |-> {}]
        <4> HIDE DEF old
        <4>1. st \in Storage /\ st.torrent = old.torrent /\ st.window = old.window
          BY <3>1, ClearedAllType
        <4>2. st.written = [p \in PieceIndex |-> {}]
          BY <3>1 DEF ClearedAll, Storage
        <4> QED BY <4>1, <4>2
      <3>3. old.torrent \in Torrents /\ Pieces(old.torrent) \subseteq PieceIndex
        BY <3>1, PiecesInIndex DEF Storage
      <3> HIDE DEF st
      <3>4. Contents[s].torrent = old.torrent
        BY <1>0, <2>1, StoreSees
      <3>5. ContentOf(st) = Store!Blank(Contents[s].torrent)
        <4>1. ContentOf(st) = [torrent |-> old.torrent, bytes |-> [p \in Pieces(old.torrent) |-> {}]]
          BY <3>2, <3>3 DEF ContentOf
        <4>2. Store!Blank(old.torrent) =
                [torrent |-> old.torrent, bytes |-> [p \in Pieces(old.torrent) |-> {}]]
          BY <3>3 DEF Store!Blank
        <4> QED BY <3>4, <4>1, <4>2
      <3> QED BY <1>0, <2>1, <3>1, <3>2, <3>5, BytesGone
    <2>2. CASE s \notin Live
      BY <2>2, SlotsUnseen DEF DeleteFiles, disk
    <2> QED BY <2>1, <2>2
  <1> QED BY <1>0, <1>1, <1>2 DEF Store!Delete

LEMMA ClearPieceIsClear ==
    ASSUME TypeOK, OnlyHeldWritten, NEW s \in Slot, NEW p \in AskedPieces, ClearPiece(s, p)
    PROVE  Store!Clear
  <1>0. storages \in Storages
    BY TypedState
  <1>1. Store!Done("clear_piece", {"ok"}) /\ posted'.slot = s /\ posted'.piece = p
    <2>1. "ok" \in {"ok"} /\ posted' = Posted("clear_piece", s, p, "ok")
      BY DEF ClearPiece
    <2> QED BY <2>1, Answered
  <1>2. /\ Keeping' = Keeping
        /\ Contents' = IF Store!Has(s, p) THEN [Contents EXCEPT ![s].bytes[p] = {}] ELSE Contents
    <2>1. CASE s \in Live
      <3> DEFINE old == storages[s]
                 t == old.torrent
      <3>1. /\ old \in Storage /\ t \in Torrents /\ Pieces(t) \subseteq PieceIndex
            /\ Store!Has(s, p) <=> p \in Pieces(t)
            /\ Contents[s] = ContentOf(old)
        <4>1. t \in Torrents
          BY <1>0, <2>1, StoreSees
        <4> QED BY <1>0, <2>1, <4>1, LiveStorage, StoreSees, PiecesInIndex
      <3>2. ContentOf(old) = [torrent |-> t, bytes |-> [q \in Pieces(t) |-> old.written[q]]]
        BY DEF ContentOf
      <3>3. DOMAIN Contents = Live
        BY DEF Contents
      <3>4. CASE p \in old.held
        <4> DEFINE st == Dropped(old, {p})
        <4>1. storages' = With(s, st) /\ {p} \in SUBSET PieceIndex
          BY <2>1, <3>1, <3>4 DEF ClearPiece, Storage
        <4> HIDE DEF old
        <4>2. /\ st \in Storage /\ st.torrent = t /\ st.window = old.window
              /\ \A q \in PieceIndex : st.written[q] = IF q \in {p} THEN {} ELSE old.written[q]
          BY <3>1, <4>1, DroppedType, BytesDropped
        <4> HIDE DEF st, t
        <4>3. ContentOf(st) = [torrent |-> t,
                               bytes |-> [q \in Pieces(t) |-> IF q = p THEN {} ELSE old.written[q]]]
          BY <3>1, <4>2 DEF ContentOf
        <4>4. /\ Contents' = [Contents EXCEPT ![s] = ContentOf(st)]
              /\ Keeping' = Keeping
          BY <1>0, <2>1, <4>1, <4>2, BytesGone DEF old, t
        <4>5. CASE p \in Pieces(t)
          <5>1. ContentOf(st) = [ContentOf(old) EXCEPT !.bytes[p] = {}]
            BY <3>2, <4>3, <4>5
          <5>2. [Contents EXCEPT ![s].bytes[p] = {}] =
                  [Contents EXCEPT ![s] = [ContentOf(old) EXCEPT !.bytes[p] = {}]]
            BY <3>1, Zenon
          <5> QED BY <3>1, <4>4, <4>5, <5>1, <5>2
        <4>6. CASE p \notin Pieces(t)
          <5>1. ContentOf(st) = ContentOf(old)
            BY <3>2, <4>3, <4>6
          <5>2. [Contents EXCEPT ![s] = ContentOf(old)] = Contents
            BY <2>1, <3>1 DEF Contents
          <5> QED BY <3>1, <4>4, <4>6, <5>1, <5>2
        <4> QED BY <4>5, <4>6
      <3>5. CASE p \notin old.held
        <4>1. UNCHANGED <<Contents, Keeping>>
          BY <3>5, SlotsUnseen DEF ClearPiece, disk
        <4>2. p \in Pieces(t) => old.written[p] = {}
          BY <2>1, <3>1, <3>5 DEF OnlyHeldWritten, BlankIn, Live
        <4>3. CASE p \in Pieces(t)
          <5> HIDE DEF old, t
          <5>1. [ContentOf(old) EXCEPT !.bytes[p] = {}] = ContentOf(old)
            <6>1. [[q \in Pieces(t) |-> old.written[q]] EXCEPT ![p] = {}] =
                    [q \in Pieces(t) |-> old.written[q]]
              BY <4>2, <4>3
            <6> QED BY <3>2, <6>1
          <5>2. [Contents EXCEPT ![s].bytes[p] = {}] =
                  [Contents EXCEPT ![s] = [ContentOf(old) EXCEPT !.bytes[p] = {}]]
            BY <3>1, Zenon
          <5>3. [Contents EXCEPT ![s] = ContentOf(old)] = Contents
            BY <2>1, <3>1 DEF Contents
          <5> QED BY <3>1, <4>1, <4>3, <5>1, <5>2, <5>3
        <4>4. CASE p \notin Pieces(t)
          BY <3>1, <4>1, <4>4
        <4> QED BY <4>3, <4>4
      <3> QED BY <3>4, <3>5
    <2>2. CASE s \notin Live
      <3>1. ~Store!Has(s, p)
        BY <1>0, <2>2, StoreSees DEF Store!Has
      <3> QED BY <2>2, <3>1, SlotsUnseen DEF ClearPiece, disk
    <2> QED BY <2>1, <2>2
  <1> QED BY <1>1, <1>2 DEF Store!Clear

\* The disk, with its slots, policies, account and eviction, is the store that libtorrent
\* and the player are promised: it answers what was written and not forgotten, forgets
\* only whole pieces outside the windows, and keeps the torrents apart
\* (memory_disk_io.cpp:365-818).
THEOREM DiskImplementsPieceStore == Spec => ImplementsPieceStore
  <1>1. Init => Store!Init
    <2> SUFFICES ASSUME Init PROVE Store!Init
      OBVIOUS
    <2>1. Live = {}
      BY DEF Init, Live
    <2>2. Contents = [s \in {} |-> Store!Nothing] /\ Keeping = [s \in {} |-> {}]
      BY <2>1 DEF Contents, Keeping
    <2>3. posted = Store!Nothing
      BY NothingAnswered DEF Init
    <2> QED BY <2>2, <2>3 DEF Store!Init
  <1>2. TypeOK /\ SlotsConsistent /\ OnlyHeldWritten /\ [Next]_vars => [Store!Next]_(Store!vars)
    <2> SUFFICES ASSUME TypeOK, SlotsConsistent, OnlyHeldWritten, [Next]_vars
                 PROVE  [Store!Next]_(Store!vars)
      OBVIOUS
    <2>0. storages \in Storages
      BY TypedState
    <2>1. ASSUME NEW raw \in RawPolicySet, SetCachePolicy(raw) PROVE Store!Next
      BY <2>1, SetCachePolicyIsKeep DEF Store!Next
    <2>2. ASSUME NEW t \in Torrents, NewTorrent(t) PROVE Store!Next
      BY <2>2, NewTorrentIsAdd DEF Store!Next
    <2>3. ASSUME NEW s \in Slot, NEW o \in Offsets, UpdateRetainedWindow(s, o) PROVE Store!Next
      <3>1. s \in Live /\ o \in Int
        BY <2>3, DiskAssumption DEF UpdateRetainedWindow
      <3>2. /\ WithWindowAt(storages[s], o) \in Storage
            /\ SameBytes(storages[s], WithWindowAt(storages[s], o))
        BY <2>0, <3>1, LiveStorage, WithWindowAtType, BytesKept
      <3> QED BY <2>3, <3>1, <3>2, NewWindowIsKeep DEF UpdateRetainedWindow, Store!Next
    <2>4. ASSUME NEW s \in Slot, NEW w \in AskedWindows, SetRetainedWindow(s, w[1], w[2])
          PROVE  Store!Next
      <3>1. s \in Live /\ w[1] \in Int /\ w[2] \in Int
        BY <2>4, DiskAssumption DEF SetRetainedWindow
      <3>2. /\ WithWindow(storages[s], w[1], w[2]) \in Storage
            /\ SameBytes(storages[s], WithWindow(storages[s], w[1], w[2]))
        BY <2>0, <3>1, LiveStorage, WithWindowType, BytesKept
      <3> QED BY <2>4, <3>1, <3>2, NewWindowIsKeep DEF SetRetainedWindow, Store!Next
    <2>5. ASSUME NEW s \in Slot, ClearRetainedWindow(s) PROVE Store!Next
      BY <2>5, ClearedWindowIsKeep DEF Store!Next
    <2>6. ASSUME NEW s \in Slot, RemoveTorrent(s) PROVE Store!Next
      BY <2>6, RemoveTorrentIsRemove DEF Store!Next
    <2>7. ASSUME NEW s \in Slot, DeleteFiles(s) PROVE Store!Next
      BY <2>7, DeleteFilesIsDelete DEF Store!Next
    <2>8. ASSUME NEW s \in Slot, NEW p \in AskedPieces, NEW r \in AskedRanges,
                 AsyncWrite(s, p, r[1], r[2])
          PROVE  Store!Next
      BY <2>8, AsyncWriteIsWrite DEF Store!Next
    <2>9. ASSUME NEW s \in Slot, NEW p \in AskedPieces, NEW r \in AskedRanges,
                 AsyncRead(s, p, r[1], r[2])
          PROVE  Store!Next
      BY <2>9, AsyncReadIsRead DEF Store!Next
    <2>10. ASSUME NEW s \in Slot, NEW p \in AskedPieces, NEW r \in AskedRanges,
                  ReadBytes(s, p, r[1], r[2])
           PROVE  Store!Next
      BY <2>10, ReadBytesIsKeep DEF Store!Next
    <2>11. ASSUME NEW s \in Slot, NEW p \in AskedPieces, NEW r \in AskedRanges,
                  AsyncHash2(s, p, r[1])
           PROVE  Store!Next
      BY <2>11, AsyncHash2IsHash2 DEF Store!Next
    <2>12. ASSUME NEW s \in Slot, NEW p \in AskedPieces, AsyncHash(s, p) PROVE Store!Next
      BY <2>12, AsyncHashIsHash DEF Store!Next
    <2>13. ASSUME NEW s \in Slot, NEW p \in AskedPieces, ClearPiece(s, p) PROVE Store!Next
      BY <2>13, ClearPieceIsClear DEF Store!Next
    <2>14. CASE UNCHANGED vars
      <3>1. UNCHANGED <<Contents, Keeping, posted>>
        BY <2>14, SlotsUnseen DEF vars, disk
      <3> QED BY <3>1 DEF Store!vars
    <2> QED BY <2>1, <2>2, <2>3, <2>4, <2>5, <2>6, <2>7, <2>8, <2>9, <2>10, <2>11, <2>12,
               <2>13, <2>14 DEF Next
  <1> QED BY <1>1, <1>2, TypeCorrect, SlotsAreConsistent, NothingOutlivesItsBuffer, PTL
          DEF Spec, ImplementsPieceStore, Store!Spec
=============================================================================
