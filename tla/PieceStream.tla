---------------------------- MODULE PieceStream ----------------------------
(***************************************************************************)
(* One file of a torrent being streamed: TorrentPieceStream, whose read    *)
(* blocks mpv's thread until the piece it needs is verified and in memory, *)
(* and StreamingScheduler, which moves the retained window and the piece   *)
(* priorities with it.                                                     *)
(*                                                                         *)
(* Four threads meet here.  mpv's demuxer calls read and seek, one at a    *)
(* time.  The UI thread processes alerts, changes the cache limit and      *)
(* closes the torrent.  Anyone may cancel.  libtorrent's network thread    *)
(* downloads wanted pieces, writes them to the disk, hashes them and       *)
(* remembers which it has; the disk evicts without telling it.             *)
(*                                                                         *)
(* An action is what a thread does between two points where another can    *)
(* come in: a critical section, a call of libtorrent, a call of the disk.  *)
(* Left out: deadlines, which only order downloads, and the stall timer    *)
(* (module StreamStatus); the disk beyond one torrent of equal pieces      *)
(* (module MemoryDiskIO); the partial pieces of module MemoryPiece.        *)
(***************************************************************************)
EXTENDS CachePolicy, FiniteSets

CONSTANTS
    TotalPieces,    \* pieces of the torrent
    PieceLength,    \* bytes of each
    FileOffset,     \* first byte of the file in the torrent
    FileSize,       \* bytes of the file
    InitialLimit,   \* cache limit when the stream is opened
    Limits,         \* limits the settings may ask for
    ReadSizes,      \* bytes mpv asks for at once
    MaxChanges,     \* bound on the changes of the limit
    MaxBadPieces    \* bound on the pieces peers send wrong

ASSUME StreamAssumption ==
    /\ TotalPieces \in Nat \ {0}
    /\ PieceLength \in Nat \ {0}
    /\ FileOffset \in Nat
    /\ FileSize \in Nat \ {0}
    /\ FileOffset + FileSize <= TotalPieces * PieceLength
    /\ InitialLimit \in Int
    /\ Limits \subseteq Int
    /\ ReadSizes \subseteq Nat \ {0}
    /\ MaxChanges \in Nat
    /\ MaxBadPieces \in Nat

VARIABLES
    (* MemoryDiskIO, through its global functions *)
    held,           \* pieces in memory
    window,         \* the retained window of the torrent's storage
    diskPolicy,
    (* StreamingScheduler *)
    schedPolicy,    \* policy_
    activeWindow,
    lastPosition,   \* last_file_position_
    (* TorrentPieceStream *)
    position,
    cancelled,
    failed,         \* error_ is not empty
    requested,      \* requested_pieces_
    recheck,        \* recheck_pieces_
    (* libtorrent *)
    torrent,        \* present, removing (asked for), gone (handles invalid)
    wanted,         \* pieces of a priority above dont_download
    have,           \* pieces it believes complete
    arrived,        \* pieces written whole and not hashed yet
    checking,       \* a forced recheck is under way
    alerts,         \* piece_finished_alerts not popped yet
    bad,            \* pieces peers sent wrong, so far
    (* where the threads are *)
    reader, readLength, readerWork,
    ui, uiPolicy, uiPosition, uiWork, changes

diskVars == <<held, window, diskPolicy>>
schedVars == <<schedPolicy, activeWindow, lastPosition>>
streamVars == <<position, cancelled, failed, requested, recheck>>
torrentVars == <<torrent, wanted, have, arrived, checking, alerts, bad>>
readerVars == <<reader, readLength, readerWork>>
uiVars == <<ui, uiPolicy, uiPosition, uiWork, changes>>
vars == <<diskVars, schedVars, streamVars, torrentVars, readerVars, uiVars>>

Piece == 0 .. (TotalPieces - 1)
Works == [background : SUBSET Piece, scheduled : SUBSET Piece]
NoWork == [background |-> {}, scheduled |-> {}]

\* Where the mpv thread is: in seek or in read, each before and after its scheduler
\* work is built; at the two halves of read_verified_piece_bytes, before the wait and
\* in it; entering the wait; asking for the piece.
Readers == {"idle", "seek", "apply_seek", "apply_read", "try", "copy",
            "enter", "request", "wait", "copy_waiting"}
Reading == reader \notin {"idle", "seek", "apply_seek"}

\* The stream's mutex_ is held from one action to the next in one place only.
StreamUnlocked == reader # "copy_waiting"

FirstFilePiece == FileOffset \div PieceLength
EndFilePiece == Clamp(CeilDiv(FileOffset + FileSize, PieceLength), FirstFilePiece, TotalPieces)
FilePieces == FirstFilePiece .. (EndFilePiece - 1)

\* The policies of the service, which are all from_limit_mib's, and the windows they
\* give at each offset of the torrent.
UsedPolicies == {FromLimitMib(n) : n \in Limits \cup {InitialLimit}}
RetainedAt ==
    [p \in UsedPolicies |-> [offset \in 0 .. TotalPieces * PieceLength |->
        RetainedWindow(offset, TotalPieces, PieceLength, p)]]
FileWindowAt ==
    [p \in UsedPolicies |-> [offset \in 0 .. TotalPieces * PieceLength |->
        ClampToFileWindow(RetainedAt[p][offset], FirstFilePiece, EndFilePiece)]]

TypeOK ==
    /\ held \subseteq Piece /\ window \in Windows /\ diskPolicy \in UsedPolicies
    /\ schedPolicy \in UsedPolicies /\ activeWindow \in Windows
    /\ lastPosition \in 0 .. FileSize /\ position \in 0 .. FileSize
    /\ cancelled \in BOOLEAN /\ failed \in BOOLEAN
    /\ requested \subseteq Piece /\ recheck \subseteq Piece
    /\ torrent \in {"present", "removing", "gone"}
    /\ wanted \subseteq Piece /\ have \subseteq Piece
    /\ arrived \subseteq Piece \ have
    /\ checking \in BOOLEAN /\ alerts \subseteq Piece /\ bad \in 0 .. MaxBadPieces
    /\ reader \in Readers /\ readLength \in 0 .. PieceLength /\ readerWork \in Works
    /\ Reading => readLength > 0 /\ position + readLength <= FileSize
    /\ ui \in {"idle", "policy", "position", "build", "apply"} /\ uiPolicy \in UsedPolicies
    /\ uiPosition \in 0 .. FileSize /\ uiWork \in Works /\ changes \in 0 .. MaxChanges

-----------------------------------------------------------------------------
(* The disk: one storage, under its own lock *)

Bytes(ps) == PieceLength * Cardinality(ps)

\* evict_to_fit: what stays of the pieces ps under a window and a limit.
Fitting(ps, w, max) ==
    LET out == {p \in ps : ~Contains(w, p)}
    IN  ps \ {p \in out : Bytes(ps) - Bytes({q \in out : q < p}) > max}

DiskSetPolicy(p) ==
    /\ diskPolicy' = Normalize(p)
    /\ held' = Fitting(held, window, diskPolicy'.max)
    /\ UNCHANGED window

DiskWindow(offset) == RetainedAt[diskPolicy][offset]

DiskUpdateWindow(offset) ==
    /\ window' = DiskWindow(offset)
    /\ held' = Fitting(held, window', diskPolicy.max)
    /\ UNCHANGED diskPolicy

-----------------------------------------------------------------------------
(* The scheduler *)

PieceAt(offset) == Clamp(offset \div PieceLength, 0, AtLeast(0, TotalPieces - 1))

NextWindow(filePosition) == FileWindowAt[schedPolicy][FileOffset + filePosition]

\* Mutant: what leaves the window stays wanted.
BuiltKeepingOld(filePosition) ==
    [background |-> {},
     scheduled |-> {p \in PiecesOf(NextWindow(filePosition)) : p >= PieceAt(FileOffset + filePosition)}]

\* The priorities to lower and to raise, of a window moved to a position.
Built(filePosition) ==
    [background |-> (IF IsEmpty(activeWindow) THEN FilePieces ELSE PiecesOf(activeWindow))
                        \ PiecesOf(NextWindow(filePosition)),
     scheduled |-> {p \in PiecesOf(NextWindow(filePosition)) : p >= PieceAt(FileOffset + filePosition)}]

\* Mutant: the disk is not told.
MoveActiveWindow(filePosition) ==
    /\ lastPosition' = filePosition
    /\ activeWindow' = NextWindow(filePosition)
    /\ UNCHANGED <<diskVars, schedPolicy>>

\* The critical section of schedule_for_read and on_seek, build_work_locked within:
\* the disk's window moves with the scheduler's own.
MoveWindow(filePosition) ==
    /\ lastPosition' = filePosition
    /\ activeWindow' = NextWindow(filePosition)
    /\ DiskUpdateWindow(FileOffset + filePosition)
    /\ UNCHANGED schedPolicy

\* apply_work, once the section is left.
Applied(work) ==
    IF torrent = "gone" THEN wanted ELSE (wanted \ work.background) \cup work.scheduled

-----------------------------------------------------------------------------
(* A stream that open_torrent_stream has just made on a fresh torrent: only the
   selected file is wanted, and schedule_for_read(0, 1) has run. *)

Init ==
    /\ held = {}
    /\ diskPolicy = FromLimitMib(InitialLimit)
    /\ schedPolicy = diskPolicy
    /\ window = DiskWindow(FileOffset)
    /\ lastPosition = 0
    /\ activeWindow = NextWindow(0)
    /\ position = 0 /\ cancelled = FALSE /\ failed = FALSE
    /\ requested = {} /\ recheck = {}
    /\ torrent = "present"
    /\ wanted = FilePieces \cap PiecesOf(activeWindow)
    /\ have = {} /\ arrived = {} /\ checking = FALSE /\ alerts = {} /\ bad = 0
    /\ reader = "idle" /\ readLength = 0 /\ readerWork = NoWork
    /\ ui = "idle" /\ uiPolicy = diskPolicy /\ uiPosition = 0 /\ uiWork = NoWork
    /\ changes = 0

(* mpv's thread: seek *)

\* seek's critical section.
Seek(offset) ==
    /\ reader = "idle"
    /\ position' = offset
    /\ cancelled' = FALSE /\ failed' = FALSE
    /\ requested' = {} /\ recheck' = {}
    /\ reader' = "seek"
    /\ UNCHANGED <<diskVars, schedVars, torrentVars, readLength, readerWork, uiVars>>

OnSeek ==
    /\ reader = "seek"
    /\ MoveWindow(position)
    /\ readerWork' = Built(position)
    /\ reader' = "apply_seek"
    /\ UNCHANGED <<streamVars, torrentVars, readLength, uiVars>>

(* mpv's thread: read.  Only this thread moves the position, so the position read
   first is still the one the window moves to. *)

ReaderPiece == (FileOffset + position) \div PieceLength

\* Mutant: a read is not cut at the end of the file.
ToCopyPastEnd(bytes) == bytes

\* What one read can copy: no further than the file or the piece.
ToCopy(bytes) ==
    AtMost(bytes, AtMost(FileSize - position,
                         PieceLength - ((FileOffset + position) % PieceLength)))

\* At the end of the file a read returns 0 and changes nothing.
Read(bytes) ==
    /\ reader = "idle"
    /\ position < FileSize
    /\ readLength' = ToCopy(bytes)
    /\ MoveWindow(position)
    /\ readerWork' = Built(position)
    /\ reader' = "apply_read"
    /\ UNCHANGED <<streamVars, torrentVars, uiVars>>

ReaderApply ==
    /\ reader \in {"apply_seek", "apply_read"}
    /\ wanted' = Applied(readerWork)
    /\ readerWork' = NoWork
    /\ reader' = IF reader = "apply_seek" THEN "idle" ELSE "try"
    /\ UNCHANGED <<diskVars, schedVars, streamVars, torrent, have, arrived, checking, alerts, bad,
                   readLength, uiVars>>

\* Mutant: what is in memory is taken to be right.
PieceAssumed(p) == torrent # "gone"

PieceVerified(p) == torrent # "gone" /\ p \in have

\* wait_for_piece looks before it asks, without the stream's mutex.
Try ==
    /\ reader = "try"
    /\ reader' = IF PieceVerified(ReaderPiece) THEN "copy" ELSE "enter"
    /\ UNCHANGED <<diskVars, schedVars, streamVars, torrentVars, readLength, readerWork, uiVars>>

\* A read ends: with its bytes, or with none.
ReadDone ==
    /\ position' = position + readLength
    /\ readLength' = 0
    /\ reader' = "idle"
ReadFailed ==
    /\ readLength' = 0
    /\ reader' = "idle"
    /\ UNCHANGED <<position, requested, recheck>>

Copy ==
    /\ reader = "copy"
    /\ IF ReaderPiece \in held
       THEN ReadDone
       ELSE reader' = "enter" /\ UNCHANGED <<position, readLength>>
    /\ UNCHANGED <<diskVars, schedVars, cancelled, failed, requested, recheck, torrentVars,
                   readerWork, uiVars>>

Enter ==
    /\ reader = "enter"
    /\ IF cancelled \/ failed
       THEN ReadFailed
       ELSE /\ requested' = requested \cup {ReaderPiece}
            /\ reader' = IF ReaderPiece \in requested THEN "wait" ELSE "request"
            /\ UNCHANGED <<position, readLength, recheck>>
    /\ UNCHANGED <<diskVars, schedVars, cancelled, failed, torrentVars, readerWork, uiVars>>

\* Mutant: a piece libtorrent believes complete is only waited for.
RequestWithoutRecheck ==
    /\ reader = "request"
    /\ reader' = "wait"
    /\ failed' = (failed \/ torrent = "gone")
    /\ wanted' = IF torrent = "gone" THEN wanted ELSE wanted \cup {ReaderPiece}
    /\ UNCHANGED <<diskVars, schedVars, position, cancelled, requested, recheck, torrent, have, arrived,
                   checking, alerts, bad, readLength, readerWork, uiVars>>

\* request_piece: a piece libtorrent believes complete was evicted, and only a recheck
\* of the whole torrent makes it forget the piece.
RequestPiece ==
    /\ reader = "request"
    /\ reader' = "wait"
    /\ failed' = (failed \/ torrent = "gone")
    /\ wanted' = IF torrent = "gone" THEN wanted ELSE wanted \cup {ReaderPiece}
    /\ IF PieceVerified(ReaderPiece) /\ ReaderPiece \notin recheck
       THEN /\ recheck' = recheck \cup {ReaderPiece}
            /\ have' = {} /\ arrived' = {} /\ checking' = TRUE
       ELSE UNCHANGED <<recheck, have, arrived, checking>>
    /\ UNCHANGED <<diskVars, schedVars, position, cancelled, requested, torrent, alerts, bad,
                   readLength, readerWork, uiVars>>

\* Mutant: only an error ends the wait.
PollUncancelled ==
    /\ reader = "wait"
    /\ IF failed
       THEN ReadFailed
       ELSE /\ reader' = IF PieceVerified(ReaderPiece) THEN "copy_waiting" ELSE "request"
            /\ UNCHANGED <<position, requested, recheck, readLength>>
    /\ UNCHANGED <<diskVars, schedVars, cancelled, failed, torrentVars, readerWork, uiVars>>

\* The wait ends, by a notification or after 500 ms.
Poll ==
    /\ reader = "wait"
    /\ IF cancelled \/ failed
       THEN ReadFailed
       ELSE /\ reader' = IF PieceVerified(ReaderPiece) THEN "copy_waiting" ELSE "request"
            /\ UNCHANGED <<position, requested, recheck, readLength>>
    /\ UNCHANGED <<diskVars, schedVars, cancelled, failed, torrentVars, readerWork, uiVars>>

CopyWaiting ==
    /\ reader = "copy_waiting"
    /\ IF ReaderPiece \in held
       THEN /\ ReadDone
            /\ requested' = requested \ {ReaderPiece}
            /\ recheck' = recheck \ {ReaderPiece}
       ELSE reader' = "request" /\ UNCHANGED <<position, readLength, requested, recheck>>
    /\ UNCHANGED <<diskVars, schedVars, cancelled, failed, torrentVars, readerWork, uiVars>>

(* Any thread *)

Cancel ==
    /\ StreamUnlocked
    /\ cancelled' = TRUE
    /\ UNCHANGED <<diskVars, schedVars, position, failed, requested, recheck, torrentVars,
                   readerVars, uiVars>>

(* The UI thread: alerts *)

ProcessAlert(p) ==
    /\ ui = "idle" /\ StreamUnlocked
    /\ p \in alerts
    /\ alerts' = alerts \ {p}
    /\ IF torrent = "gone" THEN UNCHANGED <<requested, recheck>>
       ELSE requested' = requested \ {p} /\ recheck' = recheck \ {p}
    /\ UNCHANGED <<diskVars, schedVars, position, cancelled, failed, torrent, wanted, have, arrived,
                   checking, bad, readerVars, uiVars>>

(* The UI thread: set_cache_limit_mib and, when a stream is active, set_policy *)

SetCacheLimit(limit) ==
    /\ ui = "idle"
    /\ changes < MaxChanges
    /\ changes' = changes + 1
    /\ uiPolicy' = FromLimitMib(limit)
    /\ DiskSetPolicy(FromLimitMib(limit))
    /\ ui' = IF torrent = "present" THEN "policy" ELSE "idle"
    /\ UNCHANGED <<schedVars, streamVars, torrentVars, readerVars, uiPosition, uiWork>>

SetPolicy ==
    /\ ui = "policy"
    /\ schedPolicy' = Normalize(uiPolicy)
    /\ ui' = "position"
    /\ UNCHANGED <<diskVars, activeWindow, lastPosition, streamVars, torrentVars, readerVars,
                   uiPolicy, uiPosition, uiWork, changes>>

\* Mutant: the window is left where the old policy put it.
TakePositionAndStop ==
    /\ ui = "position"
    /\ DiskSetPolicy(schedPolicy)
    /\ ui' = "idle"
    /\ UNCHANGED <<schedVars, streamVars, torrentVars, readerVars, uiPolicy, uiPosition, uiWork, changes>>

\* The disk is told again, then the position is read under the lock and the lock left.
TakePosition ==
    /\ ui = "position"
    /\ DiskSetPolicy(schedPolicy)
    /\ uiPosition' = lastPosition
    /\ ui' = "build"
    /\ UNCHANGED <<schedVars, streamVars, torrentVars, readerVars, uiPolicy, uiWork, changes>>

Reschedule ==
    /\ ui = "build"
    /\ MoveWindow(uiPosition)
    /\ uiWork' = Built(uiPosition)
    /\ ui' = "apply"
    /\ UNCHANGED <<streamVars, torrentVars, readerVars, uiPolicy, uiPosition, changes>>

UIApply ==
    /\ ui = "apply"
    /\ wanted' = Applied(uiWork)
    /\ uiWork' = NoWork
    /\ uiPosition' = 0
    /\ ui' = "idle"
    /\ UNCHANGED <<diskVars, schedVars, streamVars, torrent, have, arrived, checking, alerts, bad,
                   readerVars, uiPolicy, changes>>

(* The UI thread: clear_current cancels the streams, then has the torrent removed *)

ClearCurrent ==
    /\ ui = "idle" /\ StreamUnlocked
    /\ torrent = "present"
    /\ cancelled' = TRUE
    /\ torrent' = "removing"
    /\ UNCHANGED <<diskVars, schedVars, position, failed, requested, recheck, wanted, have, arrived,
                   checking, alerts, bad, readerVars, uiVars>>

(* libtorrent *)

\* A wanted piece comes from the peers and is written; the disk may evict it at once.
Arrive(p) ==
    /\ torrent # "gone" /\ ~checking
    /\ p \in wanted \ (have \cup arrived)
    /\ arrived' = arrived \cup {p}
    /\ held' = Fitting(held \cup {p}, window, diskPolicy.max)
    /\ UNCHANGED <<window, diskPolicy, schedVars, streamVars, torrent, wanted, have, checking, alerts,
                   bad, readerVars, uiVars>>

\* The hash is right when the piece is still in memory and was sent right.  A piece
\* that fails is cleared from the disk and downloaded again.
Hash(p) ==
    /\ torrent # "gone" /\ ~checking
    /\ p \in arrived
    /\ arrived' = arrived \ {p}
    /\ \/ /\ p \in held
          /\ have' = have \cup {p}
          /\ alerts' = alerts \cup {p}
          /\ UNCHANGED <<held, bad>>
       \/ /\ p \in held /\ bad < MaxBadPieces
          /\ held' = held \ {p}
          /\ bad' = bad + 1
          /\ UNCHANGED <<have, alerts>>
       \/ /\ p \notin held
          /\ UNCHANGED <<held, bad, have, alerts>>
    /\ UNCHANGED <<window, diskPolicy, schedVars, streamVars, torrent, wanted, checking,
                   readerVars, uiVars>>

\* The recheck ends.  The disk answers async_check_files with no error, on which nothing
\* is hashed: no piece is believed complete, those in memory are fetched again too.
Checked ==
    /\ torrent # "gone" /\ checking
    /\ checking' = FALSE
    /\ have' = {}
    /\ UNCHANGED <<diskVars, schedVars, streamVars, torrent, wanted, arrived, alerts, bad,
                   readerVars, uiVars>>

Removed ==
    /\ torrent = "removing"
    /\ torrent' = "gone"
    /\ UNCHANGED <<diskVars, schedVars, streamVars, wanted, have, arrived, checking, alerts, bad,
                   readerVars, uiVars>>

-----------------------------------------------------------------------------

ReaderStep ==
    \/ ReaderApply \/ OnSeek \/ Try \/ Copy \/ Enter \/ RequestPiece \/ Poll \/ CopyWaiting

UIStep == SetPolicy \/ TakePosition \/ Reschedule \/ UIApply

Next ==
    \/ \E offset \in 0 .. FileSize : Seek(offset)
    \/ \E bytes \in ReadSizes : Read(bytes)
    \/ ReaderStep
    \/ Cancel
    \/ \E p \in Piece : ProcessAlert(p)
    \/ \E limit \in Limits : SetCacheLimit(limit)
    \/ UIStep
    \/ ClearCurrent
    \/ \E p \in Piece : Arrive(p) \/ Hash(p)
    \/ Checked
    \/ Removed

\* The program's threads run: a wait is bounded by its 500 ms timeout, the UI loop
\* pops alerts on every frame.
AppFairness ==
    /\ WF_vars(ReaderStep)
    /\ WF_vars(UIStep)
    /\ WF_vars(\E p \in Piece : ProcessAlert(p))

\* The swarm has every piece, and libtorrent finishes what it is asked for.
SwarmFairness ==
    /\ \A p \in Piece : WF_vars(Arrive(p)) /\ WF_vars(Hash(p))
    /\ WF_vars(Checked)
    /\ WF_vars(Removed)

Spec == Init /\ [][Next]_vars /\ AppFairness
SwarmSpec == Spec /\ SwarmFairness

-----------------------------------------------------------------------------
(* Properties *)

\* A read hands out only bytes of a piece whose hash was right, though it asks
\* libtorrent whether it has the piece and then the disk for the bytes, and the piece
\* may be evicted, rechecked and written again in between.
ReadsAreVerified ==
    [][position' > position /\ reader # "idle" =>
            ReaderPiece \in held /\ ReaderPiece \notin arrived]_vars

\* While the limit does not change, the piece a reader waits for is in the window the
\* disk retains: its own arrival cannot evict it.
ReaderIsRetained == changes = 0 /\ Reading => Contains(window, ReaderPiece)

\* While the limit does not change and no scheduler work is still to be applied, the
\* pieces from the last position to the end of the window are wanted, and nothing
\* outside the window is.
WindowIsWanted ==
    (changes = 0 /\ readerWork = NoWork /\ reader \notin {"apply_seek", "apply_read"} /\ torrent # "gone") =>
        /\ {p \in PiecesOf(activeWindow) : p >= PieceAt(FileOffset + lastPosition)} \subseteq wanted
        /\ wanted \subseteq PiecesOf(activeWindow)

\* Once a change of the limit has gone through, whatever reads and seeks came in
\* between its steps, the disk and the scheduler agree on the policy and on the window
\* around the last position; the file's part of it is the active one.
WindowsAgree ==
    ui = "idle" /\ torrent = "present" =>
        /\ schedPolicy = diskPolicy
        /\ window = DiskWindow(FileOffset + lastPosition)
        /\ activeWindow = ClampToFileWindow(window, FirstFilePiece, EndFilePiece)

\* A cancelled stream, or one whose torrent is gone, does not keep a read waiting,
\* whatever the peers do.
StopEndsRead == (Reading /\ (cancelled \/ torrent = "gone")) ~> ~Reading

\* The piece has come, right and still in memory, between the reader's last look and its
\* request, which takes it for evicted and has the torrent forget it.
RaceLost ==
    /\ reader = "request"
    /\ PieceVerified(ReaderPiece) /\ ReaderPiece \in held
    /\ ReaderPiece \notin recheck

\* With a swarm that has every piece, each read returns: evictions, the looks that miss
\* them and the rechecks that make up for them (wait_for_piece, request_piece) do not keep
\* it for ever.  Only the race of one look and one request could, lost every time.
ReadReturns == (Reading ~> ~Reading) \/ []<>RaceLost
=============================================================================
