------------------------- MODULE PieceStreamProofs -------------------------
(***************************************************************************)
(* The stream and the scheduler, for every torrent, file, limit and size   *)
(* of read: what a read hands out is verified, the piece a reader waits    *)
(* for is retained, and the disk and the scheduler agree after a change of *)
(* the limit.                                                              *)
(***************************************************************************)
EXTENDS PieceStream, CachePolicyProofs

-----------------------------------------------------------------------------
(* Geometry *)

LEMMA FileInTorrent ==
    /\ TotalPieces * PieceLength \in Nat
    /\ \A pos \in 0 .. FileSize : FileOffset + pos \in 0 .. TotalPieces * PieceLength
    /\ FirstFilePiece \in Nat /\ EndFilePiece \in Nat
    /\ FirstFilePiece < TotalPieces /\ EndFilePiece <= TotalPieces
    /\ FilePieces \subseteq Piece
  <1>1. TotalPieces * PieceLength \in Nat
    BY StreamAssumption
  <1>2. \A pos \in 0 .. FileSize : FileOffset + pos \in 0 .. TotalPieces * PieceLength
    BY <1>1, StreamAssumption
  <1>3. FirstFilePiece \in Nat /\ FirstFilePiece * PieceLength <= FileOffset
    BY StreamAssumption, QuotientBounds DEF FirstFilePiece
  <1>4. FirstFilePiece < TotalPieces
    <2> SUFFICES ASSUME TotalPieces <= FirstFilePiece PROVE FALSE
      BY <1>3, StreamAssumption
    <2>1. TotalPieces * PieceLength <= FirstFilePiece * PieceLength
      BY <1>3, StreamAssumption
    <2> QED BY <1>1, <1>3, <2>1, StreamAssumption
  <1>5. CeilDiv(FileOffset + FileSize, PieceLength) \in Nat
    <2>1. FileOffset + FileSize \in Nat \ {0}
      BY StreamAssumption
    <2> QED BY <2>1, CeilBounds, StreamAssumption
  <1>6. EndFilePiece \in Nat /\ EndFilePiece <= TotalPieces
    BY <1>3, <1>4, <1>5, StreamAssumption DEF EndFilePiece, Clamp
  <1> QED BY <1>1, <1>2, <1>3, <1>4, <1>6, StreamAssumption DEF FilePieces, Piece

\* A position before the end of the file lies in a piece of the torrent.
LEMMA PieceOfPosition ==
    ASSUME NEW pos \in Nat, pos < FileSize
    PROVE  /\ (FileOffset + pos) \div PieceLength \in Piece
           /\ FileOffset + pos < TotalPieces * PieceLength
  <1> DEFINE q == (FileOffset + pos) \div PieceLength
  <1>1. q \in Nat /\ q * PieceLength <= FileOffset + pos
    BY StreamAssumption, QuotientBounds
  <1>2. TotalPieces * PieceLength \in Nat /\ FileOffset + pos < TotalPieces * PieceLength
    BY StreamAssumption
  <1>3. q < TotalPieces
    <2> SUFFICES ASSUME TotalPieces <= q PROVE FALSE
      BY <1>1, StreamAssumption
    <2>1. TotalPieces * PieceLength <= q * PieceLength
      BY <1>1, StreamAssumption
    <2> HIDE DEF q
    <2> QED BY <1>1, <1>2, <2>1, StreamAssumption
  <1> QED BY <1>1, <1>2, <1>3, StreamAssumption DEF Piece

-----------------------------------------------------------------------------
(* Policies and windows *)

LEMMA UsedPoliciesFit ==
    ASSUME NEW p \in UsedPolicies
    PROVE  p \in Policies /\ p \in RawPolicies /\ Normalize(p) = p
  <1>1. PICK n \in Limits \cup {InitialLimit} : p = FromLimitMib(n)
    BY DEF UsedPolicies
  <1>2. n \in Int
    BY StreamAssumption
  <1>3. p \in Policies /\ Normalize(p) = p
    BY <1>1, <1>2, LimitFits
  <1> QED BY <1>3 DEF Policies, RawPolicies

LEMMA LimitsAreUsed ==
    ASSUME NEW n \in Limits \cup {InitialLimit}
    PROVE  FromLimitMib(n) \in UsedPolicies
  BY DEF UsedPolicies

\* The windows of the two tables lie in the torrent and in the file.
LEMMA TableWindows ==
    ASSUME NEW offset \in 0 .. TotalPieces * PieceLength, NEW p \in UsedPolicies
    PROVE  /\ RetainedAt[p][offset] = RetainedWindow(offset, TotalPieces, PieceLength, p)
           /\ RetainedAt[p][offset] \in Windows
           /\ FileWindowAt[p][offset]
                = ClampToFileWindow(RetainedAt[p][offset], FirstFilePiece, EndFilePiece)
           /\ FileWindowAt[p][offset] \in Windows
           /\ FileWindowAt[p][offset].end <= TotalPieces
  <1> DEFINE w == RetainedAt[p][offset]
             cut == CutToFile(w, FirstFilePiece, EndFilePiece)
  <1>1. /\ w = RetainedWindow(offset, TotalPieces, PieceLength, p)
        /\ FileWindowAt[p][offset] = ClampToFileWindow(w, FirstFilePiece, EndFilePiece)
    BY DEF RetainedAt, FileWindowAt
  <1>2. w \in Windows
    BY <1>1, UsedPoliciesFit, WindowInTorrent, FileInTorrent, StreamAssumption
  <1> HIDE DEF w
  <1>3. FirstFilePiece \in Nat /\ EndFilePiece \in Nat /\ EndFilePiece <= TotalPieces
        /\ FirstFilePiece < TotalPieces
    BY FileInTorrent
  <1>4. cut \in Windows /\ cut.end <= TotalPieces
    BY <1>2, <1>3, StreamAssumption DEF CutToFile, Clamp, Windows
  <1>5. ClampToFileWindow(w, FirstFilePiece, EndFilePiece) =
          IF IsEmpty(cut) /\ FirstFilePiece < EndFilePiece
          THEN [first |-> FirstFilePiece, end |-> AtMost(EndFilePiece, FirstFilePiece + 1)]
          ELSE cut
    BY DEF ClampToFileWindow
  <1>6. /\ ClampToFileWindow(w, FirstFilePiece, EndFilePiece) \in Windows
        /\ ClampToFileWindow(w, FirstFilePiece, EndFilePiece).end <= TotalPieces
    <2> HIDE DEF cut
    <2> QED BY <1>3, <1>4, <1>5, StreamAssumption DEF Windows, AtMost
  <1> QED BY <1>1, <1>2, <1>6 DEF w

LEMMA FittingIsPart ==
    ASSUME NEW ps, NEW w, NEW max
    PROVE  Fitting(ps, w, max) \subseteq ps
  BY DEF Fitting

\* The step of the scheduler's critical section.
LEMMA WindowMoved ==
    ASSUME TypeOK, NEW pos \in 0 .. FileSize, MoveWindow(pos)
    PROVE  /\ lastPosition' = pos
           /\ UNCHANGED <<diskPolicy, schedPolicy>>
           /\ held' \subseteq held
           /\ window' = RetainedAt[diskPolicy][FileOffset + pos]
           /\ window' \in Windows
           /\ activeWindow' = FileWindowAt[schedPolicy][FileOffset + pos]
           /\ activeWindow' \in Windows
           /\ activeWindow'.end <= TotalPieces
  <1>1. /\ lastPosition' = pos
        /\ UNCHANGED <<diskPolicy, schedPolicy>>
        /\ window' = RetainedAt[diskPolicy][FileOffset + pos]
        /\ activeWindow' = FileWindowAt[schedPolicy][FileOffset + pos]
    BY DEF MoveWindow, DiskUpdateWindow, DiskWindow, NextWindow
  <1>2. held' \subseteq held
    BY FittingIsPart DEF MoveWindow, DiskUpdateWindow
  <1>3. FileOffset + pos \in 0 .. TotalPieces * PieceLength
    BY FileInTorrent
  <1>4. diskPolicy \in UsedPolicies /\ schedPolicy \in UsedPolicies
    BY DEF TypeOK
  <1> QED BY <1>1, <1>2, <1>3, <1>4, TableWindows

LEMMA BuiltIsWork ==
    ASSUME TypeOK, activeWindow.end <= TotalPieces, NEW pos \in 0 .. FileSize
    PROVE  Built(pos) \in Works
  <1> DEFINE w == NextWindow(pos)
  <1>1. w \in Windows /\ w.end <= TotalPieces
    <2>1. FileOffset + pos \in 0 .. TotalPieces * PieceLength
      BY FileInTorrent
    <2>2. schedPolicy \in UsedPolicies
      BY DEF TypeOK
    <2> QED BY <2>1, <2>2, TableWindows DEF NextWindow
  <1> HIDE DEF w
  <1>2. PiecesOf(w) \subseteq Piece
    BY <1>1, StreamAssumption DEF PiecesOf, Windows, Piece
  <1>3. PiecesOf(activeWindow) \subseteq Piece
    BY StreamAssumption DEF PiecesOf, Windows, Piece, TypeOK
  <1>4. FilePieces \subseteq Piece
    BY FileInTorrent
  <1>5. Built(pos) =
          [background |-> (IF IsEmpty(activeWindow) THEN FilePieces ELSE PiecesOf(activeWindow))
                              \ PiecesOf(w),
           scheduled |-> {p \in PiecesOf(w) : p >= PieceAt(FileOffset + pos)}]
    BY DEF Built, w
  <1> QED BY <1>2, <1>3, <1>4, <1>5 DEF Works

LEMMA AppliedIsPart ==
    ASSUME NEW work \in Works, wanted \subseteq Piece
    PROVE  Applied(work) \subseteq Piece
  BY DEF Applied, Works

\* What one read may copy stays in the piece and in the file.
LEMMA ToCopyFits ==
    ASSUME NEW bytes \in Nat \ {0}, position \in 0 .. FileSize, position < FileSize
    PROVE  /\ ToCopy(bytes) \in 1 .. PieceLength
           /\ position + ToCopy(bytes) <= FileSize
  <1>1. FileOffset + position \in Nat /\ PieceLength \in Nat \ {0} /\ FileSize \in Nat
    BY StreamAssumption
  <1>2. (FileOffset + position) % PieceLength \in 0 .. (PieceLength - 1)
    BY <1>1
  <1> QED BY <1>1, <1>2 DEF ToCopy, AtMost

-----------------------------------------------------------------------------
(* The inductive invariant *)

\* A recheck has forgotten every piece, and no piece arrives until it is done; so a
\* piece the reader found verified stays verified until the reader acts on it: only the
\* reader itself asks for a recheck.
FoundStaysVerified ==
    /\ checking => have = {} /\ arrived = {}
    /\ reader \in {"copy", "copy_waiting"} => ReaderPiece \in have

TypeInv == TypeOK /\ activeWindow.end <= TotalPieces /\ FoundStaysVerified

LEMMA InitTypeInv == Init => TypeInv
  <1> SUFFICES ASSUME Init PROVE TypeInv
    OBVIOUS
  <1>1. diskPolicy \in UsedPolicies /\ schedPolicy \in UsedPolicies /\ uiPolicy \in UsedPolicies
    BY LimitsAreUsed DEF Init
  <1>2. FileOffset \in 0 .. TotalPieces * PieceLength /\ FileOffset + 0 = FileOffset
    BY FileInTorrent, StreamAssumption
  <1>3. window \in Windows
    BY <1>1, <1>2, TableWindows DEF Init, DiskWindow
  <1>4. activeWindow \in Windows /\ activeWindow.end <= TotalPieces
    BY <1>1, <1>2, TableWindows DEF Init, NextWindow
  <1>5. wanted \subseteq Piece
    BY FileInTorrent DEF Init
  <1>6. NoWork \in Works
    BY DEF NoWork, Works
  <1>7. FoundStaysVerified
    BY DEF Init, FoundStaysVerified
  <1>8. held \subseteq Piece /\ have \subseteq Piece /\ arrived \subseteq Piece \ have
        /\ requested \subseteq Piece /\ recheck \subseteq Piece /\ alerts \subseteq Piece
    BY DEF Init
  <1>9. /\ lastPosition \in 0 .. FileSize /\ position \in 0 .. FileSize
        /\ uiPosition \in 0 .. FileSize /\ readLength \in 0 .. PieceLength
        /\ bad \in 0 .. MaxBadPieces /\ changes \in 0 .. MaxChanges
    BY StreamAssumption DEF Init
  <1>10. /\ cancelled \in BOOLEAN /\ failed \in BOOLEAN /\ checking \in BOOLEAN
         /\ readerWork \in Works /\ uiWork \in Works
    BY <1>6 DEF Init
  <1>11. /\ reader \in Readers /\ ~Reading
         /\ torrent \in {"present", "removing", "gone"}
         /\ ui \in {"idle", "policy", "position", "build", "apply"}
    BY DEF Init, Readers, Reading
  <1> QED BY <1>1, <1>3, <1>4, <1>5, <1>7, <1>8, <1>9, <1>10, <1>11 DEF TypeInv, TypeOK
\* The steps of the mpv thread keep the types.
LEMMA ReaderTypeInv ==
    ASSUME TypeInv,
           \/ \E offset \in 0 .. FileSize : Seek(offset)
           \/ \E bytes \in ReadSizes : Read(bytes)
           \/ ReaderStep
    PROVE  TypeInv'
  <1> USE DEF TypeInv, TypeOK, FoundStaysVerified, Readers, Reading, ReaderPiece,
          diskVars, schedVars, streamVars, torrentVars, readerVars, uiVars
  <1>1. ASSUME NEW offset \in 0 .. FileSize, Seek(offset) PROVE TypeInv'
    BY <1>1 DEF Seek
  <1>2. ASSUME NEW bytes \in ReadSizes, Read(bytes) PROVE TypeInv'
    <2>1. bytes \in Nat \ {0}
      BY StreamAssumption
    <2>2. readLength' \in 1 .. PieceLength /\ position' + readLength' <= FileSize
      BY <1>2, <2>1, ToCopyFits DEF Read
    <2>3. readerWork' \in Works
      BY <1>2, BuiltIsWork DEF Read
    <2>4. /\ lastPosition' = position
          /\ UNCHANGED <<diskPolicy, schedPolicy>>
          /\ held' \subseteq held /\ window' \in Windows
          /\ activeWindow' \in Windows /\ activeWindow'.end <= TotalPieces
      BY <1>2, WindowMoved DEF Read
    <2> QED BY <1>2, <2>2, <2>3, <2>4, StreamAssumption DEF Read
  <1>3. CASE ReaderApply
    <2>1. wanted' \subseteq Piece
      BY <1>3, AppliedIsPart DEF ReaderApply
    <2>2. NoWork \in Works
      BY DEF NoWork, Works
    <2> QED BY <1>3, <2>1, <2>2 DEF ReaderApply
  <1>4. CASE OnSeek
    <2>1. readerWork' \in Works
      BY <1>4, BuiltIsWork DEF OnSeek
    <2>2. /\ lastPosition' = position
          /\ UNCHANGED <<diskPolicy, schedPolicy>>
          /\ held' \subseteq held /\ window' \in Windows
          /\ activeWindow' \in Windows /\ activeWindow'.end <= TotalPieces
      BY <1>4, WindowMoved DEF OnSeek
    <2> QED BY <1>4, <2>1, <2>2 DEF OnSeek
  <1>5. CASE Try
    BY <1>5 DEF Try, PieceVerified
  <1>6. CASE Copy
    BY <1>6, StreamAssumption DEF Copy, ReadDone
  <1>7. Reading => ReaderPiece \in Piece
    BY PieceOfPosition, StreamAssumption
  <1>8. CASE Enter
    BY <1>7, <1>8, StreamAssumption DEF Enter, ReadFailed
  <1>9. CASE RequestPiece
    BY <1>7, <1>9 DEF RequestPiece
  <1>10. CASE Poll
    BY <1>10, StreamAssumption DEF Poll, ReadFailed, PieceVerified
  <1>11. CASE CopyWaiting
    BY <1>11, StreamAssumption DEF CopyWaiting, ReadDone
  <1> QED BY <1>1, <1>2, <1>3, <1>4, <1>5, <1>6, <1>8, <1>9, <1>10, <1>11 DEF ReaderStep

\* So do those of the UI thread, of whoever cancels, and of libtorrent.
LEMMA OtherTypeInv ==
    ASSUME TypeInv,
           \/ Cancel \/ UIStep \/ ClearCurrent \/ Checked \/ Removed
           \/ \E p \in Piece : ProcessAlert(p) \/ Arrive(p) \/ Hash(p)
           \/ \E limit \in Limits : SetCacheLimit(limit)
    PROVE  TypeInv'
  <1> USE DEF TypeInv, TypeOK, FoundStaysVerified, Readers, Reading, ReaderPiece,
          diskVars, schedVars, streamVars, torrentVars, readerVars, uiVars
  <1>1. CASE Cancel
    BY <1>1 DEF Cancel
  <1>2. ASSUME NEW p \in Piece, ProcessAlert(p) PROVE TypeInv'
    BY <1>2 DEF ProcessAlert
  <1>3. ASSUME NEW limit \in Limits, SetCacheLimit(limit) PROVE TypeInv'
    <2>1. FromLimitMib(limit) \in UsedPolicies /\ Normalize(FromLimitMib(limit)) = FromLimitMib(limit)
      BY LimitsAreUsed, UsedPoliciesFit
    <2>2. held' \subseteq held /\ diskPolicy' \in UsedPolicies
      BY <1>3, <2>1, FittingIsPart DEF SetCacheLimit, DiskSetPolicy
    <2>3. changes' \in 0 .. MaxChanges
      BY <1>3, StreamAssumption DEF SetCacheLimit
    <2> QED BY <1>3, <2>1, <2>2, <2>3 DEF SetCacheLimit, DiskSetPolicy
  <1>4. CASE SetPolicy
    BY <1>4, UsedPoliciesFit DEF SetPolicy
  <1>5. CASE TakePosition
    <2>1. held' \subseteq held /\ diskPolicy' \in UsedPolicies
      BY <1>5, UsedPoliciesFit, FittingIsPart DEF TakePosition, DiskSetPolicy
    <2> QED BY <1>5, <2>1 DEF TakePosition, DiskSetPolicy
  <1>6. CASE Reschedule
    <2>1. uiWork' \in Works
      BY <1>6, BuiltIsWork DEF Reschedule
    <2>2. /\ lastPosition' = uiPosition
          /\ UNCHANGED <<diskPolicy, schedPolicy>>
          /\ held' \subseteq held /\ window' \in Windows
          /\ activeWindow' \in Windows /\ activeWindow'.end <= TotalPieces
      BY <1>6, WindowMoved DEF Reschedule
    <2> QED BY <1>6, <2>1, <2>2 DEF Reschedule
  <1>7. CASE UIApply
    <2>1. wanted' \subseteq Piece
      BY <1>7, AppliedIsPart DEF UIApply
    <2>2. NoWork \in Works /\ 0 \in 0 .. FileSize
      BY StreamAssumption DEF NoWork, Works
    <2> QED BY <1>7, <2>1, <2>2 DEF UIApply
  <1>8. CASE ClearCurrent
    BY <1>8 DEF ClearCurrent
  <1>9. ASSUME NEW p \in Piece, Arrive(p) PROVE TypeInv'
    <2>1. held' \subseteq Piece
      BY <1>9, FittingIsPart DEF Arrive
    <2>2. arrived' \subseteq Piece \ have'
      BY <1>9 DEF Arrive
    <2>3. FoundStaysVerified'
      BY <1>9 DEF Arrive
    <2>4. UNCHANGED <<readLength, position, reader, changes, uiPosition, uiWork, readerWork>>
      BY <1>9 DEF Arrive
    <2> HIDE DEF FoundStaysVerified
    <2> QED BY <1>9, <2>1, <2>2, <2>3, <2>4 DEF Arrive
  <1>10. ASSUME NEW p \in Piece, Hash(p) PROVE TypeInv'
    BY <1>10, StreamAssumption DEF Hash
  <1>11. CASE Checked
    BY <1>11 DEF Checked
  <1>12. CASE Removed
    BY <1>12 DEF Removed
  <1> QED BY <1>1, <1>2, <1>3, <1>4, <1>5, <1>6, <1>7, <1>8, <1>9, <1>10, <1>11, <1>12 DEF UIStep
LEMMA StepTypeInv == TypeInv /\ [Next]_vars => TypeInv'
  <1> SUFFICES ASSUME TypeInv, [Next]_vars PROVE TypeInv'
    OBVIOUS
  <1>1. CASE Next
    BY <1>1, ReaderTypeInv, OtherTypeInv DEF Next
  <1>2. CASE UNCHANGED vars
    BY <1>2 DEF vars, diskVars, schedVars, streamVars, torrentVars, readerVars, uiVars,
                TypeInv, TypeOK, FoundStaysVerified, Readers, Reading, ReaderPiece
  <1> QED BY <1>1, <1>2

LEMMA AlwaysTypeInv == Spec => []TypeInv
  BY InitTypeInv, StepTypeInv, PTL DEF Spec

\* Every variable keeps its type; in particular a read never asks for bytes past the
\* end of the file, whatever the seeks before it.
THEOREM TypeCorrect == Spec => []TypeOK
  <1>1. TypeInv => TypeOK
    BY DEF TypeInv
  <1> QED BY <1>1, AlwaysTypeInv, PTL

-----------------------------------------------------------------------------
(* What a read hands out *)

\* read copies a piece it has found verified and then in memory, without holding
\* libtorrent's state or the disk's lock in between (torrent_service.cpp:1197-1260):
\* the bytes are verified all the same.
THEOREM ReadsVerified == Spec => ReadsAreVerified
  <1>1. TypeInv /\ [Next]_vars =>
            [position' > position /\ reader # "idle" =>
                ReaderPiece \in held /\ ReaderPiece \notin arrived]_vars
    <2> SUFFICES ASSUME TypeInv, Next, position' > position, reader # "idle"
                 PROVE  ReaderPiece \in held /\ ReaderPiece \notin arrived
      OBVIOUS
    <2>1. position' # position
      BY DEF TypeInv, TypeOK
    <2>2. CASE Copy \/ CopyWaiting
      BY <2>1, <2>2 DEF TypeInv, TypeOK, FoundStaysVerified, Copy, CopyWaiting
    <2>3. CASE ~(Copy \/ CopyWaiting)
      BY <2>1, <2>3 DEF Next, ReaderStep, UIStep, Seek, Read, ReaderApply, OnSeek, Try, Enter,
            RequestPiece, Poll, ReadFailed, Cancel, ProcessAlert, SetCacheLimit, SetPolicy,
            TakePosition, Reschedule, UIApply, ClearCurrent, Arrive, Hash, Checked, Removed,
            streamVars
    <2> QED BY <2>2, <2>3
  <1> QED BY <1>1, AlwaysTypeInv, PTL DEF Spec, ReadsAreVerified

-----------------------------------------------------------------------------
(* The disk and the scheduler *)

\* Between the steps of a change of the limit: which policy has arrived where, and
\* when the two windows have been recomputed.
Agreement ==
    /\ ui # "idle" => torrent = "present"
    /\ torrent = "present" =>
        /\ ui = "policy" => uiPolicy = diskPolicy
        /\ ui # "policy" => schedPolicy = diskPolicy
        /\ ui \in {"idle", "apply"} =>
            /\ window = DiskWindow(FileOffset + lastPosition)
            /\ activeWindow = ClampToFileWindow(window, FirstFilePiece, EndFilePiece)

\* The window moves in one critical section, for both.
LEMMA MovedTogether ==
    ASSUME TypeOK, NEW pos \in 0 .. FileSize, MoveWindow(pos)
    PROVE  /\ window' = RetainedAt[diskPolicy'][FileOffset + lastPosition']
           /\ schedPolicy = diskPolicy =>
                activeWindow' = ClampToFileWindow(window', FirstFilePiece, EndFilePiece)
           /\ UNCHANGED <<diskPolicy, schedPolicy>>
           /\ lastPosition' = pos
  <1>1. FileOffset + pos \in 0 .. TotalPieces * PieceLength
    BY FileInTorrent
  <1>2. diskPolicy \in UsedPolicies /\ schedPolicy \in UsedPolicies
    BY DEF TypeOK
  <1> QED BY <1>1, <1>2, WindowMoved, TableWindows

LEMMA StepAgreement == TypeOK /\ Agreement /\ [Next]_vars => Agreement'
  <1> SUFFICES ASSUME TypeOK, Agreement, [Next]_vars PROVE Agreement'
    OBVIOUS
  <1> USE DEF diskVars, schedVars, streamVars, torrentVars, readerVars, uiVars
  <1>1. CASE \/ UNCHANGED <<ui, torrent, uiPolicy, diskPolicy, schedPolicy, window, activeWindow,
                            lastPosition>>
    BY <1>1 DEF Agreement, DiskWindow
  <1>2. ASSUME NEW pos \in 0 .. FileSize, MoveWindow(pos),
               UNCHANGED torrent, UNCHANGED uiPolicy,
               \/ UNCHANGED ui
               \/ ui = "build" /\ ui' = "apply"
        PROVE  Agreement'
    BY <1>2, MovedTogether DEF Agreement, DiskWindow
  <1>3. ASSUME NEW limit \in Limits, SetCacheLimit(limit) PROVE Agreement'
    <2>1. diskPolicy' = FromLimitMib(limit) /\ uiPolicy' = FromLimitMib(limit)
      BY <1>3, LimitsAreUsed, UsedPoliciesFit DEF SetCacheLimit, DiskSetPolicy
    <2> QED BY <1>3, <2>1 DEF SetCacheLimit, Agreement
  <1>4. CASE SetPolicy
    <2>1. schedPolicy' = uiPolicy
      BY <1>4, UsedPoliciesFit DEF SetPolicy, TypeOK
    <2> QED BY <1>4, <2>1 DEF SetPolicy, Agreement
  <1>5. CASE TakePosition
    <2>1. diskPolicy' = schedPolicy
      BY <1>5, UsedPoliciesFit DEF TakePosition, DiskSetPolicy, TypeOK
    <2> QED BY <1>5, <2>1 DEF TakePosition, Agreement
  <1>6. CASE UIApply
    BY <1>6 DEF UIApply, Agreement, DiskWindow
  <1>7. CASE ClearCurrent \/ Removed
    BY <1>7 DEF ClearCurrent, Removed, Agreement
  <1>8. CASE OnSeek \/ Reschedule \/ \E bytes \in ReadSizes : Read(bytes)
    <2>1. position \in 0 .. FileSize /\ uiPosition \in 0 .. FileSize
      BY DEF TypeOK
    <2> QED BY <1>2, <1>8, <2>1 DEF OnSeek, Reschedule, Read
  <1>9. CASE \/ \E offset \in 0 .. FileSize : Seek(offset)
             \/ ReaderApply \/ Try \/ Copy \/ Enter \/ RequestPiece \/ Poll \/ CopyWaiting
             \/ Cancel \/ Checked
             \/ \E p \in Piece : ProcessAlert(p) \/ Arrive(p) \/ Hash(p)
    BY <1>1, <1>9 DEF Seek, ReaderApply, Try, Copy, Enter, RequestPiece, Poll, CopyWaiting,
        Cancel, Checked, ProcessAlert, Arrive, Hash
  <1>10. CASE UNCHANGED vars
    BY <1>1, <1>10 DEF vars
  <1> QED BY <1>3, <1>4, <1>5, <1>6, <1>7, <1>8, <1>9, <1>10 DEF Next, ReaderStep, UIStep

LEMMA InitAgreement == Init => Agreement
  <1> SUFFICES ASSUME Init PROVE Agreement
    OBVIOUS
  <1>1. FileOffset \in 0 .. TotalPieces * PieceLength /\ FileOffset + 0 = FileOffset
    BY FileInTorrent, StreamAssumption
  <1>2. schedPolicy = diskPolicy /\ diskPolicy \in UsedPolicies
    BY LimitsAreUsed DEF Init
  <1> QED BY <1>1, <1>2, TableWindows DEF Init, Agreement, DiskWindow, NextWindow

LEMMA AlwaysAgreement == Spec => []Agreement
  <1>1. TypeInv => TypeOK
    BY DEF TypeInv
  <1> QED BY <1>1, AlwaysTypeInv, InitAgreement, StepAgreement, PTL DEF Spec

\* set_policy reads the last position in one critical section and moves the window in
\* another, and reads and seeks move it in between (torrent_service.cpp:572-602): when
\* it is done the disk and the scheduler agree all the same, if not on the position the
\* reader is at.
THEOREM WindowsAlwaysAgree == Spec => []WindowsAgree
  <1>1. Agreement => WindowsAgree
    BY DEF Agreement, WindowsAgree
  <1> QED BY <1>1, AlwaysAgreement, PTL
-----------------------------------------------------------------------------
(* The reader's piece and the wanted pieces, while the limit does not change *)

LEMMA PositionInFile ==
    ASSUME NEW pos \in Nat, pos < FileSize
    PROVE  /\ FirstFilePiece <= (FileOffset + pos) \div PieceLength
           /\ (FileOffset + pos) \div PieceLength < EndFilePiece
  <1> DEFINE q == (FileOffset + pos) \div PieceLength
             c == CeilDiv(FileOffset + FileSize, PieceLength)
  <1>1. q \in Nat /\ q * PieceLength <= FileOffset + pos
    BY StreamAssumption, QuotientBounds
  <1>2. FirstFilePiece <= q
    <2>1. FileOffset <= FileOffset + pos /\ FileOffset \in Nat /\ FileOffset + pos \in Nat
      BY StreamAssumption
    <2> QED BY <2>1, QuotientMonotone, StreamAssumption DEF FirstFilePiece
  <1>3. c \in Nat /\ FileOffset + FileSize <= c * PieceLength
    <2>1. FileOffset + FileSize \in Nat \ {0}
      BY StreamAssumption
    <2> QED BY <2>1, CeilBounds, StreamAssumption
  <1>4. q < c
    <2> SUFFICES ASSUME c <= q PROVE FALSE
      BY <1>1, <1>3
    <2>1. c * PieceLength <= q * PieceLength
      BY <1>1, <1>3, StreamAssumption
    <2> HIDE DEF c, q
    <2>2. c * PieceLength \in Nat /\ q * PieceLength \in Nat
      BY <1>1, <1>3, StreamAssumption
    <2> QED BY <1>1, <1>3, <2>1, <2>2, StreamAssumption
  <1>5. q < TotalPieces
    BY PieceOfPosition, StreamAssumption DEF Piece
  <1>6. EndFilePiece = Clamp(c, FirstFilePiece, TotalPieces)
    BY DEF EndFilePiece
  <1>7. FirstFilePiece \in Nat
    BY FileInTorrent
  <1> HIDE DEF q, c
  <1>8. FirstFilePiece <= q /\ q < EndFilePiece
    BY <1>1, <1>2, <1>3, <1>4, <1>5, <1>6, <1>7, StreamAssumption DEF Clamp
  <1> QED BY <1>8 DEF q

\* Cutting a window to the file keeps the file's pieces in it.
LEMMA CutKeepsFile ==
    ASSUME NEW w \in Windows, NEW first \in Nat, NEW end \in Nat, NEW p \in Nat,
           first <= p, p < end, Contains(w, p)
    PROVE  p \in PiecesOf(ClampToFileWindow(w, first, end))
  BY DEF Windows, Contains, PiecesOf, ClampToFileWindow, CutToFile, Clamp, IsEmpty

\* The window follows the reader as long as no change of the limit moves it.
Following ==
    changes = 0 =>
        /\ ui = "idle"
        /\ schedPolicy = diskPolicy
        /\ window = DiskWindow(FileOffset + lastPosition)
        /\ activeWindow = ClampToFileWindow(window, FirstFilePiece, EndFilePiece)
        /\ Reading => lastPosition = position

LEMMA InitFollowing == Init => Following
  <1> SUFFICES ASSUME Init PROVE Following
    OBVIOUS
  <1>1. FileOffset \in 0 .. TotalPieces * PieceLength /\ FileOffset + 0 = FileOffset
    BY FileInTorrent, StreamAssumption
  <1>2. schedPolicy = diskPolicy /\ diskPolicy \in UsedPolicies
    BY LimitsAreUsed DEF Init
  <1> QED BY <1>1, <1>2, TableWindows DEF Init, Following, DiskWindow, NextWindow, Reading

LEMMA StepFollowing == TypeInv /\ Following /\ [Next]_vars => Following'
  <1> SUFFICES ASSUME TypeInv, Following, [Next]_vars, changes' = 0
               PROVE  Following'
    BY DEF Following
  <1> USE DEF diskVars, schedVars, streamVars, torrentVars, readerVars, uiVars
  <1>1. changes = 0 /\ ui = "idle"
    <2>1. changes \in Nat
      BY StreamAssumption DEF TypeInv, TypeOK
    <2>2. CASE UNCHANGED changes
      BY <2>2 DEF Following
    <2>3. CASE \E limit \in Limits : SetCacheLimit(limit)
      BY <2>1, <2>3 DEF SetCacheLimit
    <2>4. CASE \/ \E offset \in 0 .. FileSize : Seek(offset)
               \/ \E bytes \in ReadSizes : Read(bytes)
               \/ ReaderStep
      BY <2>2, <2>4 DEF Seek, Read, ReaderStep, ReaderApply, OnSeek, Try, Copy, Enter,
            RequestPiece, Poll, CopyWaiting
    <2>5. CASE UIStep \/ Cancel \/ ClearCurrent \/ Checked \/ Removed
      BY <2>2, <2>5 DEF UIStep, SetPolicy, TakePosition, Reschedule, UIApply, Cancel,
            ClearCurrent, Checked, Removed
    <2>6. CASE \/ \E p \in Piece : ProcessAlert(p) \/ Arrive(p) \/ Hash(p)
               \/ UNCHANGED vars
      BY <2>2, <2>6 DEF ProcessAlert, Arrive, Hash, vars
    <2> QED BY <2>3, <2>4, <2>5, <2>6 DEF Next
  <1>2. CASE UNCHANGED <<ui, diskPolicy, schedPolicy, window, activeWindow, lastPosition>>
             /\ (Reading' => Reading /\ position' = position)
    BY <1>1, <1>2 DEF Following, DiskWindow
  <1>3. CASE OnSeek \/ \E bytes \in ReadSizes : Read(bytes)
    <2>1. MoveWindow(position) /\ position' = position /\ UNCHANGED ui
      BY <1>3 DEF OnSeek, Read
    <2>2. position \in 0 .. FileSize /\ TypeOK
      BY DEF TypeInv, TypeOK
    <2> QED BY <1>1, <2>1, <2>2, MovedTogether DEF Following, DiskWindow
  <1>4. CASE \/ \E offset \in 0 .. FileSize : Seek(offset)
             \/ Copy \/ Enter \/ Poll \/ CopyWaiting
    <2>1. UNCHANGED <<ui, diskPolicy, schedPolicy, window, activeWindow, lastPosition>>
      BY <1>4 DEF Seek, Copy, Enter, Poll, CopyWaiting
    <2>2. Reading' => Reading /\ position' = position
      BY <1>4 DEF Seek, Copy, Enter, Poll, CopyWaiting, ReadDone, ReadFailed, Reading
    <2> QED BY <1>2, <2>1, <2>2
  <1>5. CASE \/ ReaderApply \/ Try \/ RequestPiece \/ Cancel \/ ClearCurrent \/ Checked \/ Removed
             \/ \E p \in Piece : ProcessAlert(p) \/ Arrive(p) \/ Hash(p)
             \/ UNCHANGED vars
    <2>1. UNCHANGED <<ui, diskPolicy, schedPolicy, window, activeWindow, lastPosition>>
      BY <1>5 DEF ReaderApply, Try, RequestPiece, Cancel, ClearCurrent, Checked, Removed,
                  ProcessAlert, Arrive, Hash, vars
    <2>2. Reading' => Reading /\ position' = position
      BY <1>5 DEF ReaderApply, Try, RequestPiece, Cancel, ClearCurrent, Checked, Removed,
                  ProcessAlert, Arrive, Hash, vars, Reading
    <2> QED BY <1>2, <2>1, <2>2
  <1>6. CASE UIStep \/ \E limit \in Limits : SetCacheLimit(limit)
    <2>1. changes' # 0
      BY <1>1, <1>6 DEF UIStep, SetPolicy, TakePosition, Reschedule, UIApply, SetCacheLimit
    <2> QED BY <2>1
  <1> QED BY <1>3, <1>4, <1>5, <1>6 DEF Next, ReaderStep

LEMMA AlwaysFollowing == Spec => [](TypeInv /\ Following)
  BY InitTypeInv, StepTypeInv, InitFollowing, StepFollowing, PTL DEF Spec

\* The piece a read waits for is retained.
LEMMA FollowingRetains == TypeInv /\ Following => ReaderIsRetained
  <1> SUFFICES ASSUME TypeInv, Following, changes = 0, Reading
               PROVE  Contains(window, ReaderPiece)
    BY DEF ReaderIsRetained
  <1>1. position \in Nat /\ position < FileSize
    BY StreamAssumption DEF TypeInv, TypeOK
  <1>2. FileOffset + position \in 0 .. TotalPieces * PieceLength
        /\ FileOffset + position < TotalPieces * PieceLength
    BY <1>1, FileInTorrent, PieceOfPosition, StreamAssumption
  <1>3. diskPolicy \in UsedPolicies /\ diskPolicy \in RawPolicies
    BY UsedPoliciesFit DEF TypeInv, TypeOK
  <1>4. window = RetainedWindow(FileOffset + position, TotalPieces, PieceLength, diskPolicy)
    BY <1>2, <1>3, TableWindows DEF Following, DiskWindow
  <1>5. FileOffset + position \in Nat
    BY <1>1, StreamAssumption
  <1> QED BY <1>2, <1>3, <1>4, <1>5, WindowHoldsReader, StreamAssumption DEF ReaderPiece

\* A read that waits is never in the way of its own piece: the window was moved to it
\* before the wait (torrent_service.cpp:1043-1047), and the disk keeps what is in it.
THEOREM ReaderAlwaysRetained == Spec => []ReaderIsRetained
  BY AlwaysFollowing, FollowingRetains, PTL
-----------------------------------------------------------------------------
(* Priorities *)

\* The pieces the scheduler wants: ahead of the last position, in the active window.
Ahead == {p \in PiecesOf(activeWindow) : p >= PieceAt(FileOffset + lastPosition)}

\* Between the scheduler's critical section and its calls, the work in the reader's
\* hands is what is missing.
WantedInv ==
    changes = 0 /\ torrent # "gone" =>
        /\ reader \in {"apply_seek", "apply_read"} =>
            /\ readerWork.scheduled = Ahead
            /\ wanted \ readerWork.background \subseteq PiecesOf(activeWindow)
        /\ reader \notin {"apply_seek", "apply_read"} =>
            /\ Ahead \subseteq wanted
            /\ wanted \subseteq PiecesOf(activeWindow)

LEMMA InitWantedInv == Init => WantedInv
  <1> SUFFICES ASSUME Init PROVE WantedInv
    OBVIOUS
  <1>1. wanted \subseteq PiecesOf(activeWindow) /\ reader = "idle"
    BY DEF Init
  <1>2. Ahead \subseteq wanted
    <2>1. FileOffset \in 0 .. TotalPieces * PieceLength /\ FileOffset + 0 = FileOffset
      BY FileInTorrent, StreamAssumption
    <2>2. schedPolicy \in UsedPolicies
      BY LimitsAreUsed DEF Init
    <2> DEFINE w == RetainedAt[schedPolicy][FileOffset]
    <2>3. w \in Windows /\ activeWindow = ClampToFileWindow(w, FirstFilePiece, EndFilePiece)
      BY <2>1, <2>2, TableWindows DEF Init, NextWindow
    <2> HIDE DEF w
    <2>4. FirstFilePiece \in Nat /\ EndFilePiece \in Nat /\ FirstFilePiece < EndFilePiece
      <3>1. 0 < FileSize
        BY StreamAssumption
      <3> QED BY <3>1, PositionInFile, FileInTorrent, QuotientBounds, StreamAssumption
    <2>5. PiecesOf(activeWindow) \subseteq FilePieces
      BY <2>3, <2>4 DEF PiecesOf, FilePieces, ClampToFileWindow, CutToFile, Clamp, IsEmpty,
                        Windows, AtMost
    <2> QED BY <2>5 DEF Ahead, Init
  <1> QED BY <1>1, <1>2 DEF WantedInv

\* Work built while nothing outside the active window is wanted leaves nothing outside
\* the next one wanted.
LEMMA WorkMovesWanted ==
    ASSUME TypeInv, wanted \subseteq PiecesOf(activeWindow), NEW pos \in 0 .. FileSize,
           MoveWindow(pos), readerWork' = Built(pos), UNCHANGED wanted
    PROVE  /\ readerWork'.scheduled = Ahead'
           /\ wanted' \ readerWork'.background \subseteq PiecesOf(activeWindow')
  <1>1. activeWindow' = NextWindow(pos) /\ lastPosition' = pos
    BY DEF MoveWindow
  <1>2. readerWork'.scheduled = {p \in PiecesOf(NextWindow(pos)) : p >= PieceAt(FileOffset + pos)}
    BY DEF Built
  <1>3. readerWork'.background =
            (IF IsEmpty(activeWindow) THEN FilePieces ELSE PiecesOf(activeWindow))
                \ PiecesOf(NextWindow(pos))
    BY DEF Built
  <1>4. IsEmpty(activeWindow) => PiecesOf(activeWindow) = {}
    BY DEF IsEmpty, PiecesOf, TypeInv, TypeOK, Windows
  <1>5. readerWork'.scheduled = Ahead'
    BY <1>1, <1>2 DEF Ahead, PieceAt
  <1> QED BY <1>1, <1>3, <1>4, <1>5

\* A reader asks for a piece of the active window.
LEMMA ReaderPieceIsActive ==
    ASSUME TypeInv, Following, changes = 0, Reading
    PROVE  ReaderPiece \in PiecesOf(activeWindow)
  <1>1. position \in Nat /\ position < FileSize
    BY StreamAssumption DEF TypeInv, TypeOK
  <1>2. ReaderPiece \in Nat /\ FirstFilePiece <= ReaderPiece /\ ReaderPiece < EndFilePiece
    <2>1. ReaderPiece = (FileOffset + position) \div PieceLength
      BY DEF ReaderPiece
    <2>2. ReaderPiece \in Piece
      BY <1>1, <2>1, PieceOfPosition
    <2>3. FirstFilePiece <= ReaderPiece /\ ReaderPiece < EndFilePiece
      BY <1>1, <2>1, PositionInFile
    <2> QED BY <2>2, <2>3, StreamAssumption DEF Piece
  <1>3. Contains(window, ReaderPiece)
    BY FollowingRetains DEF ReaderIsRetained
  <1>4. window \in Windows /\ activeWindow = ClampToFileWindow(window, FirstFilePiece, EndFilePiece)
    BY DEF TypeInv, TypeOK, Following
  <1> QED BY <1>2, <1>3, <1>4, CutKeepsFile, FileInTorrent

LEMMA StepWantedInv == TypeInv /\ Following /\ WantedInv /\ [Next]_vars => WantedInv'
  <1> SUFFICES ASSUME TypeInv, Following, WantedInv, [Next]_vars,
                      changes' = 0, torrent' # "gone"
               PROVE  WantedInv'
    BY DEF WantedInv
  <1> USE DEF diskVars, schedVars, streamVars, torrentVars, readerVars, uiVars
  <1>1. CASE /\ UNCHANGED <<changes, torrent, activeWindow, lastPosition, wanted, readerWork>>
             /\ reader' \in {"apply_seek", "apply_read"} => reader' = reader
             /\ reader \in {"apply_seek", "apply_read"} => reader' = reader
    BY <1>1 DEF WantedInv, Ahead
  <1>2. CASE OnSeek \/ \E bytes \in ReadSizes : Read(bytes)
    <2>1. /\ MoveWindow(position) /\ readerWork' = Built(position)
          /\ UNCHANGED <<changes, torrent, wanted>>
          /\ reader \in {"idle", "seek"} /\ reader' \in {"apply_seek", "apply_read"}
      BY <1>2 DEF OnSeek, Read
    <2>2. wanted \subseteq PiecesOf(activeWindow)
      BY <2>1 DEF WantedInv
    <2>3. position \in 0 .. FileSize
      BY DEF TypeInv, TypeOK
    <2> QED BY <2>1, <2>2, <2>3, WorkMovesWanted DEF WantedInv
  <1>3. CASE ReaderApply
    <2>1. /\ UNCHANGED <<changes, torrent, activeWindow, lastPosition>>
          /\ reader \in {"apply_seek", "apply_read"} /\ reader' \notin {"apply_seek", "apply_read"}
          /\ wanted' = (wanted \ readerWork.background) \cup readerWork.scheduled
      BY <1>3 DEF ReaderApply, Applied
    <2>2. readerWork.scheduled = Ahead /\ wanted \ readerWork.background \subseteq PiecesOf(activeWindow)
      BY <2>1 DEF WantedInv
    <2>3. Ahead \subseteq wanted' /\ wanted' \subseteq PiecesOf(activeWindow)
      BY <2>1, <2>2 DEF Ahead
    <2> QED BY <2>1, <2>3 DEF WantedInv, Ahead
  <1>4. CASE RequestPiece
    <2>1. /\ UNCHANGED <<changes, torrent, activeWindow, lastPosition, readerWork>>
          /\ reader = "request" /\ reader' = "wait"
          /\ wanted' = wanted \cup {ReaderPiece}
      BY <1>4 DEF RequestPiece
    <2>2. ReaderPiece \in PiecesOf(activeWindow)
      BY <2>1, ReaderPieceIsActive DEF Reading
    <2>3. Ahead \subseteq wanted /\ wanted \subseteq PiecesOf(activeWindow)
      BY <2>1 DEF WantedInv
    <2> QED BY <2>1, <2>2, <2>3 DEF WantedInv, Ahead
  <1>5. CASE ClearCurrent \/ Removed
    BY <1>5 DEF ClearCurrent, Removed, WantedInv, Ahead
  <1>6. CASE \/ \E offset \in 0 .. FileSize : Seek(offset)
             \/ Try \/ Copy \/ Enter \/ Poll \/ CopyWaiting
    BY <1>1, <1>6 DEF Seek, Try, Copy, Enter, Poll, CopyWaiting, ReadDone, ReadFailed
  <1>7. CASE \/ Cancel \/ Checked
             \/ \E p \in Piece : ProcessAlert(p) \/ Arrive(p) \/ Hash(p)
             \/ UNCHANGED vars
    BY <1>1, <1>7 DEF Cancel, Checked, ProcessAlert, Arrive, Hash, vars
  <1>8. ~UIStep /\ \A limit \in Limits : ~SetCacheLimit(limit)
    BY StreamAssumption DEF UIStep, SetPolicy, TakePosition, Reschedule, UIApply, SetCacheLimit,
        TypeInv, TypeOK, Following
  <1> QED BY <1>2, <1>3, <1>4, <1>5, <1>6, <1>7, <1>8 DEF Next, ReaderStep

\* build_work_locked lowers only what leaves the window, and request_piece raises only
\* pieces of the window, so that the pieces wanted from the peers are the window's
\* (torrent_service.cpp:883-960): a seek never leaves the old window downloading.
THEOREM WindowAlwaysWanted == Spec => []WindowIsWanted
  <1>1. WantedInv => WindowIsWanted
    BY DEF WantedInv, WindowIsWanted, Ahead
  <1> QED BY <1>1, AlwaysFollowing, InitWantedInv, StepWantedInv, PTL DEF Spec
=============================================================================
