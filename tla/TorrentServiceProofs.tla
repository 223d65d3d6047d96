------------------------ MODULE TorrentServiceProofs ------------------------
(***************************************************************************)
(* Invariants of the torrent service for any number of inputs and changes  *)
(* of the limit.                                                           *)
(***************************************************************************)
EXTENDS TorrentService, SequenceTheorems, TLAPS

-----------------------------------------------------------------------------
(* Alerts *)

Pending(q, a) == \E i \in DOMAIN q : q[i] = a

LEMMA PostedIsPending ==
    ASSUME NEW S, NEW q \in Seq(S), NEW a \in S
    PROVE  /\ Append(q, a) \in Seq(S)
           /\ \A b : Pending(Append(q, a), b) <=> Pending(q, b) \/ b = a
  <1>1. DOMAIN q = 1 .. Len(q) /\ Len(q) \in Nat
    BY LenProperties
  <1>2. /\ Append(q, a) \in Seq(S) /\ Len(Append(q, a)) = Len(q) + 1
        /\ \A i \in 1 .. Len(q) : Append(q, a)[i] = q[i]
        /\ Append(q, a)[Len(q) + 1] = a
    BY AppendProperties
  <1>3. DOMAIN Append(q, a) = 1 .. Len(q) + 1
    BY <1>2, LenProperties
  <1>4. ASSUME NEW b PROVE Pending(Append(q, a), b) <=> Pending(q, b) \/ b = a
    <2>1. ASSUME Pending(Append(q, a), b) PROVE Pending(q, b) \/ b = a
      <3>1. PICK i \in 1 .. Len(q) + 1 : Append(q, a)[i] = b
        BY <1>3, <2>1 DEF Pending
      <3>2. i \in 1 .. Len(q) \/ i = Len(q) + 1
        BY <1>1
      <3> QED BY <1>1, <1>2, <3>1, <3>2 DEF Pending
    <2>2. ASSUME Pending(q, b) PROVE Pending(Append(q, a), b)
      <3>1. PICK i \in 1 .. Len(q) : q[i] = b
        BY <1>1, <2>2 DEF Pending
      <3>2. i \in 1 .. Len(q) + 1
        BY <1>1
      <3> QED BY <1>2, <1>3, <3>1, <3>2 DEF Pending
    <2>3. Len(q) + 1 \in 1 .. Len(q) + 1
      BY <1>1
    <2>4. b = a => Pending(Append(q, a), b)
      BY <1>2, <1>3, <2>3 DEF Pending
    <2> QED BY <2>1, <2>2, <2>4
  <1> QED BY <1>2, <1>4

LEMMA PoppedIsNot ==
    ASSUME NEW S, NEW q \in Seq(S), q # <<>>
    PROVE  /\ Head(q) \in S /\ Tail(q) \in Seq(S)
           /\ Pending(q, Head(q))
           /\ \A b : Pending(q, b) <=> Pending(Tail(q), b) \/ b = Head(q)
  <1>1. DOMAIN q = 1 .. Len(q) /\ Len(q) \in Nat
    BY LenProperties
  <1>2. /\ Head(q) \in S /\ Tail(q) \in Seq(S) /\ Len(Tail(q)) = Len(q) - 1
        /\ \A i \in 1 .. Len(Tail(q)) : Tail(q)[i] = q[i + 1]
    BY HeadTailProperties
  <1>3. DOMAIN Tail(q) = 1 .. Len(q) - 1
    BY <1>2, LenProperties
  <1>4. Len(q) # 0 /\ Head(q) = q[1]
    <2>1. Len(q) # 0
      BY EmptySeq
    <2> QED BY <2>1
  <1>5. \A b : Pending(q, b) => Pending(Tail(q), b) \/ b = Head(q)
    <2> SUFFICES ASSUME NEW b, NEW i \in 1 .. Len(q), q[i] = b
                 PROVE  Pending(Tail(q), b) \/ b = Head(q)
      BY <1>1 DEF Pending
    <2>1. CASE i = 1
      BY <1>4, <2>1
    <2>2. CASE i # 1
      <3>1. i - 1 \in 1 .. Len(q) - 1 /\ (i - 1) + 1 = i
        BY <1>1, <2>2
      <3> QED BY <1>2, <1>3, <3>1 DEF Pending
    <2> QED BY <2>1, <2>2
  <1>6. \A b : Pending(Tail(q), b) => Pending(q, b)
    <2> SUFFICES ASSUME NEW b, NEW i \in 1 .. Len(q) - 1, Tail(q)[i] = b
                 PROVE  Pending(q, b)
      BY <1>3 DEF Pending
    <2>1. i + 1 \in 1 .. Len(q)
      BY <1>1
    <2> QED BY <1>1, <1>2, <2>1 DEF Pending
  <1>7. Pending(q, Head(q))
    <2>1. 1 \in 1 .. Len(q)
      BY <1>1, <1>4
    <2> QED BY <1>1, <1>4, <2>1 DEF Pending
  <1> QED BY <1>2, <1>5, <1>6, <1>7

-----------------------------------------------------------------------------
(* Types *)

\* A free slot is a slot, so that a new storage is put where there is one.
SlotsTyped ==
    /\ slots \in Seq(Handles)
    /\ freeSlots \in Seq(1 .. Len(slots))

TypeInv ==
    /\ TypeOK /\ SlotsTyped
    /\ ui # "idle" => generation <= MaxLoads

LEMMA InitTypeInv == Init => TypeInv
  <1> SUFFICES ASSUME Init PROVE TypeInv
    OBVIOUS
  <1>1. slots \in Seq(Handles) /\ freeSlots \in Seq(1 .. Len(slots)) /\ freeSlots \in Seq(Nat)
        /\ alerts \in Seq(Alerts)
    BY EmptySeq DEF Init
  <1>2. /\ handle \in Handles /\ generation \in Generations \ {0} /\ limit \in 0 .. MaxLimits
        /\ target \in Generations /\ uri \in Generations /\ info \in Handles
    BY ServiceAssumption DEF Init, Handles, Generations
  <1>3. /\ snapshot \in Snapshots /\ scheduler \in Schedulers /\ built \in Schedulers
        /\ stream \in Streams
    BY ServiceAssumption
    DEF Init, Snapshots, Schedulers, Streams, Cleared, NoScheduler, NoStream, Handles, Generations
  <1>4. torrent \in [Load -> {"none", "adding", "present", "removing", "gone"}]
    BY DEF Init
  <1> QED BY <1>1, <1>2, <1>3, <1>4 DEF Init, TypeInv, TypeOK, SlotsTyped, InputKinds

\* Snapshots, schedulers and streams are made of what their types allow.
LEMMA Values ==
    /\ \A snap \in Snapshots, l \in Load : Ready(snap, l) \in Snapshots
    /\ \A snap \in Snapshots : Fail(snap) \in Snapshots
    /\ \A s \in Streams : Cancelled(s) \in Streams
    /\ Cleared \in Snapshots /\ NoScheduler \in Schedulers /\ NoStream \in Streams
  <1>1. /\ 0 \in Handles /\ 0 \in Generations /\ 0 \in 0 .. MaxLimits
        /\ \A l \in Load : l \in Handles
    BY ServiceAssumption DEF Handles, Generations, Load
  <1>2. \A snap \in Snapshots, l \in Load : Ready(snap, l) \in Snapshots
    BY <1>1 DEF Ready, Snapshots
  <1>3. \A snap \in Snapshots : Fail(snap) \in Snapshots
    BY <1>1 DEF Fail, Snapshots
  <1>4. \A s \in Streams : Cancelled(s) \in Streams
    BY DEF Cancelled, Streams
  <1>5. Cleared \in Snapshots
    BY <1>1 DEF Cleared, Snapshots
  <1>6. NoScheduler \in Schedulers /\ NoStream \in Streams
    BY <1>1 DEF NoScheduler, NoStream, Schedulers, Streams
  <1> QED BY <1>2, <1>3, <1>4, <1>5, <1>6

LEMMA UserTypeInv == TypeInv /\ User => TypeInv'
  <1> SUFFICES ASSUME TypeInv, User PROVE TypeInv'
    OBVIOUS
  <1> USE DEF TypeInv, TypeOK, SlotsTyped, serviceVars, uiVars, mpvVars, sessionVars
  <1>1. ASSUME NEW kind \in Kinds, Accept(kind) PROVE TypeInv'
    <2>1. kind \in InputKinds
      BY ServiceAssumption
    <2>2. stream' \in Streams
      BY <1>1, Values DEF Accept
    <2>3. target' \in Generations /\ command' \in BOOLEAN
      <3>1. 0 \in Generations
        BY ServiceAssumption DEF Generations
      <3>2. CASE kind \in {"file", "magnet"} /\ target # 0
        BY <1>1, <3>1, <3>2 DEF Accept
      <3>3. CASE ~ (kind \in {"file", "magnet"} /\ target # 0)
        BY <1>1, <3>3 DEF Accept
      <3> QED BY <3>2, <3>3
    <2>4. generation' <= MaxLoads /\ crossed' \in BOOLEAN
      BY <1>1 DEF Accept
    <2> QED BY <1>1, <2>1, <2>2, <2>3, <2>4 DEF Accept
  <1>2. CASE SelectFile
    BY <1>2 DEF SelectFile
  <1>3. CASE StopPlayback
    BY <1>3, ServiceAssumption DEF StopPlayback, Generations
  <1>4. CASE SetCacheLimit
    <2>1. limit' \in 0 .. MaxLimits
      BY <1>4, ServiceAssumption DEF SetCacheLimit
    <2>2. scheduler' \in Schedulers
      BY <1>4, <2>1 DEF SetCacheLimit, Schedulers
    <2> QED BY <1>4, <2>1, <2>2 DEF SetCacheLimit
  <1> QED BY <1>1, <1>2, <1>3, <1>4 DEF User

LEMMA ResetTypes ==
    ASSUME TypeInv, NEW snap \in Snapshots, Reset(snap)
    PROVE  /\ generation \in Load /\ generation' \in Generations \ {0}
           /\ ui' = "idle" /\ snapshot' \in Snapshots /\ scheduler' \in Schedulers
  <1>1. generation \in Load /\ generation' \in Generations \ {0}
    BY ServiceAssumption DEF TypeInv, TypeOK, Reset, Generations, Load
  <1> QED BY <1>1, Values DEF Reset

LEMMA ClearTypeInv == TypeInv /\ ClearAndLoad => TypeInv'
  <1> SUFFICES ASSUME TypeInv, ClearAndLoad PROVE TypeInv'
    OBVIOUS
  <1> USE DEF TypeInv, TypeOK, SlotsTyped, serviceVars, uiVars, mpvVars, sessionVars
  <1>1. CASE RemoveTorrent
    <2>1. 0 \in Handles
      BY ServiceAssumption DEF Handles
    <2>2. handle' \in Handles
      BY <1>1, <2>1 DEF RemoveTorrent
    <2>3. torrent' \in [Load -> {"none", "adding", "present", "removing", "gone"}]
      BY <1>1 DEF RemoveTorrent
    <2>4. ui' \in {"idle", "remove", "reset"} /\ generation' <= MaxLoads
      BY <1>1 DEF RemoveTorrent
    <2> QED BY <1>1, <2>2, <2>3, <2>4 DEF RemoveTorrent
  <1>2. CASE ui = "reset"
    <2>1. generation \in Load
      BY <1>2, ServiceAssumption DEF Generations, Load
    <2>2. Loading \in Snapshots
      <3>1. generation \in Handles /\ 0 \in Handles
        BY <2>1, ServiceAssumption DEF Handles, Load
      <3> QED BY <3>1 DEF Loading, Cleared, Snapshots
    <2>3. Ready(Loading, generation) \in Snapshots /\ Fail(Loading) \in Snapshots
          /\ Cleared \in Snapshots
      BY <2>1, <2>2, Values
    <2>4. AddTorrent => torrent' \in [Load -> {"none", "adding", "present", "removing", "gone"}]
      BY <2>1 DEF AddTorrent
    <2>5. CASE LoadTorrentFile
      <3>1. Reset(Ready(Loading, generation))
        BY <2>5 DEF LoadTorrentFile
      <3>2. infos' \subseteq Load
        BY <2>1, <2>5 DEF LoadTorrentFile
      <3> HIDE DEF TypeInv
      <3>3. /\ generation \in Load /\ generation' \in Generations \ {0}
            /\ ui' = "idle" /\ snapshot' \in Snapshots /\ scheduler' \in Schedulers
        BY <2>3, <3>1, ResetTypes
      <3> QED BY <2>4, <2>5, <3>1, <3>2, <3>3 DEF LoadTorrentFile, Reset, AddTorrent, TypeInv
    <2>6. CASE LoadMagnet
      <3>1. Reset(Loading)
        BY <2>6 DEF LoadMagnet
      <3> HIDE DEF TypeInv
      <3>2. /\ generation \in Load /\ generation' \in Generations \ {0}
            /\ ui' = "idle" /\ snapshot' \in Snapshots /\ scheduler' \in Schedulers
        BY <2>2, <3>1, ResetTypes
      <3> QED BY <2>4, <2>6, <3>1, <3>2 DEF LoadMagnet, Reset, AddTorrent, TypeInv
    <2>7. CASE LoadFails
      <3>1. Reset(Fail(Loading))
        BY <2>7 DEF LoadFails
      <3> HIDE DEF TypeInv
      <3>2. /\ generation \in Load /\ generation' \in Generations \ {0}
            /\ ui' = "idle" /\ snapshot' \in Snapshots /\ scheduler' \in Schedulers
        BY <2>3, <3>1, ResetTypes
      <3> QED BY <2>7, <3>1, <3>2 DEF LoadFails, Reset, TypeInv
    <2>8. CASE LoadLocal
      <3>1. Reset(Cleared)
        BY <2>8 DEF LoadLocal
      <3>2. target' \in Generations
        BY <2>8, ServiceAssumption DEF LoadLocal, Generations
      <3> HIDE DEF TypeInv
      <3>3. /\ generation \in Load /\ generation' \in Generations \ {0}
            /\ ui' = "idle" /\ snapshot' \in Snapshots /\ scheduler' \in Schedulers
        BY <2>3, <3>1, ResetTypes
      <3> QED BY <2>8, <3>1, <3>2, <3>3 DEF LoadLocal, Reset, TypeInv
    <2>9. CASE LoadNothing
      <3>1. Reset(Cleared)
        BY <2>9 DEF LoadNothing
      <3> HIDE DEF TypeInv
      <3>2. /\ generation \in Load /\ generation' \in Generations \ {0}
            /\ ui' = "idle" /\ snapshot' \in Snapshots /\ scheduler' \in Schedulers
        BY <2>3, <3>1, ResetTypes
      <3> QED BY <2>9, <3>1, <3>2 DEF LoadNothing, Reset, TypeInv
    <2> QED BY <1>2, <2>5, <2>6, <2>7, <2>8, <2>9
        DEF ClearAndLoad, RemoveTorrent
  <1> QED BY <1>1, <1>2
      DEF ClearAndLoad, LoadTorrentFile, LoadMagnet, LoadFails, LoadLocal, LoadNothing, Reset

LEMMA AlertTypeInv == TypeInv /\ (ProcessAlert \/ PollStatus) => TypeInv'
  <1> SUFFICES ASSUME TypeInv, ProcessAlert \/ PollStatus PROVE TypeInv'
    OBVIOUS
  <1> USE DEF TypeInv, TypeOK, SlotsTyped, serviceVars, uiVars, mpvVars, sessionVars
  <1>1. CASE ProcessAlert
    <2>1. Head(alerts) \in Alerts /\ alerts' \in Seq(Alerts)
      BY <1>1, PoppedIsNot DEF ProcessAlert
    <2>2. Head(alerts).of \in Load /\ Head(alerts).of \in Handles
      BY <2>1 DEF Alerts, Load, Handles
    <2>3. handle' \in Handles
      BY <1>1, <2>2 DEF ProcessAlert
    <2>4. snapshot' \in Snapshots /\ terminated' \in BOOLEAN
      BY <1>1, <2>2, Values DEF ProcessAlert
    <2> QED BY <1>1, <2>1, <2>3, <2>4 DEF ProcessAlert
  <1>2. CASE PollStatus
    <2>1. snapshot' \in Snapshots
      BY <1>2, Values DEF PollStatus, Snapshots
    <2> QED BY <1>2, <2>1 DEF PollStatus
  <1> QED BY <1>1, <1>2

LEMMA OpeningTypeInv == TypeInv /\ Opening => TypeInv'
  <1> SUFFICES ASSUME TypeInv, Opening PROVE TypeInv'
    OBVIOUS
  <1> USE DEF TypeInv, TypeOK, SlotsTyped, openerFrame, serviceVars, uiVars, mpvVars, sessionVars
  <1>1. CASE StartOpen
    BY <1>1 DEF StartOpen
  <1>2. CASE CheckGeneration
    BY <1>2 DEF CheckGeneration
  <1>3. CASE CheckHandle
    BY <1>3 DEF CheckHandle
  <1>4. CASE TakeInfo
    BY <1>4 DEF TakeInfo
  <1>5. CASE BuildScheduler
    BY <1>5 DEF BuildScheduler, Schedulers
  <1>6. CASE PublishScheduler
    BY <1>6, Values DEF PublishScheduler
  <1>7. CASE CreateStream
    BY <1>7 DEF CreateStream, Streams
  <1>8. CASE CloseStream
    BY <1>8, Values, ServiceAssumption DEF CloseStream, Handles, Generations
  <1> QED BY <1>1, <1>2, <1>3, <1>4, <1>5, <1>6, <1>7, <1>8 DEF Opening

LEMMA NewStorageTypes ==
    ASSUME SlotsTyped, NEW l \in Load, NewStorage(l)
    PROVE  SlotsTyped' /\ freeSlots' \in Seq(Nat)
  <1>1. l \in Handles /\ Len(slots) \in Nat
    BY LenProperties DEF Load, Handles, SlotsTyped
  <1>2. CASE freeSlots = <<>>
    <2>1. slots' \in Seq(Handles)
      BY <1>1, <1>2, AppendProperties DEF NewStorage, SlotsTyped
    <2>2. freeSlots' = <<>>
      BY <1>2 DEF NewStorage
    <2> QED BY <2>1, <2>2, EmptySeq DEF SlotsTyped
  <1>3. CASE freeSlots # <<>>
    <2>1. Len(freeSlots) \in Nat \ {0} /\ DOMAIN freeSlots = 1 .. Len(freeSlots)
      BY <1>3, EmptySeq, LenProperties DEF SlotsTyped
    <2>2. \A i \in 1 .. Len(freeSlots) : freeSlots[i] \in 1 .. Len(slots)
      BY ElementOfSeq DEF SlotsTyped
    <2>3. freeSlots[Len(freeSlots)] \in 1 .. Len(slots)
      BY <2>1, <2>2
    <2>4. slots' \in Seq(Handles) /\ Len(slots') = Len(slots)
      <3> DEFINE slot == freeSlots[Len(freeSlots)]
      <3>1. slot \in 1 .. Len(slots) /\ slots' = [slots EXCEPT ![slot] = l]
        BY <1>3, <2>3 DEF NewStorage
      <3> HIDE DEF slot
      <3> QED BY <1>1, <3>1, ExceptSeq DEF SlotsTyped
    <2>5. freeSlots' \in Seq(1 .. Len(slots))
      <3> DEFINE last == Len(freeSlots) - 1
      <3>1. \A i \in 1 .. last : freeSlots[i] \in 1 .. Len(slots)
        BY <2>1, <2>2
      <3>2. 1 \in Int /\ last \in Int
        BY <2>1
      <3>3. freeSlots' = SubSeq(freeSlots, 1, last)
        BY <1>3 DEF NewStorage
      <3> HIDE DEF last
      <3> QED BY <3>1, <3>2, <3>3, SubSeqProperties
    <2>6. freeSlots' \in Seq(Nat)
      <3>1. 1 .. Len(slots) \subseteq Nat
        BY <1>1
      <3> QED BY <2>5, <3>1, SeqMonotonic
    <2> QED BY <2>4, <2>5, <2>6 DEF SlotsTyped
  <1> QED BY <1>2, <1>3

LEMMA PostTypes ==
    ASSUME alerts \in Seq(Alerts), NEW l \in Load, NEW kind \in {"add", "metadata", "failure"},
           Post(kind, l)
    PROVE  /\ alerts' \in Seq(Alerts)
           /\ \A b : Pending(alerts', b) <=> Pending(alerts, b) \/ b = [kind |-> kind, of |-> l]
  <1>1. [kind |-> kind, of |-> l] \in Alerts
    BY DEF Alerts
  <1> QED BY <1>1, PostedIsPending DEF Post

LEMMA SessionTypeInv == TypeInv /\ Session => TypeInv'
  <1> SUFFICES ASSUME TypeInv, NEW l \in Load,
                      \/ Added(l) \/ AddFails(l) \/ MetadataReceived(l) \/ TorrentError(l)
                      \/ Removed(l)
               PROVE  TypeInv'
    BY DEF Session
  <1> USE DEF TypeInv, TypeOK, sessionFrame, serviceVars, uiVars, mpvVars
  <1>1. CASE Added(l)
    <2>1. SlotsTyped' /\ freeSlots' \in Seq(Nat)
      BY <1>1, NewStorageTypes DEF Added, SlotsTyped
    <2>2. alerts' \in Seq(Alerts)
      BY <1>1, PostTypes DEF Added
    <2> QED BY <1>1, <2>1, <2>2 DEF Added, SlotsTyped
  <1>2. CASE AddFails(l)
    <2>1. alerts' \in Seq(Alerts)
      BY <1>2, PostTypes DEF AddFails
    <2> QED BY <1>2, <2>1 DEF AddFails, SlotsTyped
  <1>3. CASE MetadataReceived(l)
    <2>1. SlotsTyped' /\ freeSlots' \in Seq(Nat)
      BY <1>3, NewStorageTypes DEF MetadataReceived
    <2>2. alerts' \in Seq(Alerts)
      BY <1>3, PostTypes DEF MetadataReceived
    <2> QED BY <1>3, <2>1, <2>2 DEF MetadataReceived, SlotsTyped
  <1>4. CASE TorrentError(l)
    <2>1. alerts' \in Seq(Alerts)
      BY <1>4, PostTypes DEF TorrentError
    <2> QED BY <1>4, <2>1 DEF TorrentError, SlotsTyped
  <1>5. CASE Removed(l)
    <2>1. SlotsTyped' /\ freeSlots' \in Seq(Nat)
      <3>1. CASE \E i \in DOMAIN slots : slots[i] = l
        <4> DEFINE slot == CHOOSE i \in DOMAIN slots : slots[i] = l
        <4>1. slot \in 1 .. Len(slots) /\ Len(slots) \in Nat
          BY <3>1, LenProperties DEF SlotsTyped
        <4>2. slots' = [slots EXCEPT ![slot] = 0] /\ freeSlots' = Append(freeSlots, slot)
          BY <1>5, <3>1 DEF Removed
        <4>3. 0 \in Handles
          BY ServiceAssumption DEF Handles
        <4> HIDE DEF slot
        <4>4. slots' \in Seq(Handles) /\ Len(slots') = Len(slots)
          BY <4>1, <4>2, <4>3, ExceptSeq DEF SlotsTyped
        <4>5. freeSlots' \in Seq(1 .. Len(slots))
          BY <4>1, <4>2, AppendProperties DEF SlotsTyped
        <4>6. freeSlots' \in Seq(Nat)
          <5>1. 1 .. Len(slots) \subseteq Nat
            BY <4>1
          <5> QED BY <4>5, <5>1, SeqMonotonic
        <4> QED BY <4>4, <4>5, <4>6 DEF SlotsTyped
      <3>2. CASE ~ \E i \in DOMAIN slots : slots[i] = l
        BY <1>5, <3>2 DEF Removed, SlotsTyped
      <3> QED BY <3>1, <3>2
    <2> QED BY <1>5, <2>1 DEF Removed, SlotsTyped
  <1> QED BY <1>1, <1>2, <1>3, <1>4, <1>5

LEMMA StepTypeInv == TypeInv /\ [Next]_vars => TypeInv'
  <1> SUFFICES ASSUME TypeInv, [Next]_vars PROVE TypeInv'
    OBVIOUS
  <1>1. CASE UNCHANGED vars
    BY <1>1 DEF vars, serviceVars, uiVars, mpvVars, sessionVars, TypeInv, TypeOK, SlotsTyped
  <1>2. CASE Next
    BY <1>2, UserTypeInv, ClearTypeInv, AlertTypeInv, OpeningTypeInv, SessionTypeInv DEF Next
  <1> QED BY <1>1, <1>2

LEMMA AlwaysTypeInv == Spec => []TypeInv
  BY InitTypeInv, StepTypeInv, PTL DEF Spec

\* Every variable keeps its type; a storage is only ever put into a slot there is.
THEOREM TypeCorrect == Spec => []TypeOK
  <1>1. TypeInv => TypeOK
    BY DEF TypeInv
  <1> QED BY <1>1, AlwaysTypeInv, PTL

-----------------------------------------------------------------------------
(* The snapshot *)

LEMMA SnapshotStep == TypeInv /\ SnapshotConsistent /\ [Next]_vars => SnapshotConsistent'
  <1> SUFFICES ASSUME TypeInv, SnapshotConsistent, [Next]_vars PROVE SnapshotConsistent'
    OBVIOUS
  <1>1. \/ snapshot' = snapshot
        \/ snapshot' = Cleared \/ snapshot' = Loading \/ snapshot' = Fail(Loading)
        \/ snapshot' = Fail(snapshot)
        \/ \E l \in Load : snapshot' = Ready(Loading, l) \/ snapshot' = Ready(snapshot, l)
        \/ \E b \in BOOLEAN : snapshot' = [snapshot EXCEPT !.has_metadata = snapshot.has_metadata \/ b]
    <2>1. CASE UNCHANGED vars
      BY <2>1 DEF vars, serviceVars
    <2>2. CASE User
      BY <2>2 DEF User, Accept, SelectFile, StopPlayback, SetCacheLimit, serviceVars
    <2>3. CASE ClearAndLoad
      <3>1. ui = "reset" => generation \in Load
        BY ServiceAssumption DEF TypeInv, TypeOK, Generations, Load
      <3> QED BY <2>3, <3>1
          DEF ClearAndLoad, RemoveTorrent, LoadTorrentFile, LoadMagnet, LoadFails, LoadLocal,
              LoadNothing, Reset
    <2>4. CASE ProcessAlert
      <3>1. Head(alerts).of \in Load
        <4>1. alerts \in Seq(Alerts) /\ alerts # <<>>
          BY <2>4 DEF ProcessAlert, TypeInv, TypeOK
        <4>2. Head(alerts) \in Alerts
          BY <4>1, PoppedIsNot
        <4> QED BY <4>2 DEF Alerts
      <3>2. \/ snapshot' = snapshot \/ snapshot' = Fail(snapshot)
            \/ snapshot' = Ready(snapshot, Head(alerts).of)
        BY <2>4 DEF ProcessAlert
      <3> QED BY <3>1, <3>2
    <2>5. CASE PollStatus
      <3>1. (handle \in infos) \in BOOLEAN
        OBVIOUS
      <3>2. snapshot' = Fail(snapshot)
            \/ snapshot' = [snapshot EXCEPT !.has_metadata = snapshot.has_metadata \/ handle \in infos]
        BY <2>5 DEF PollStatus
      <3> QED BY <3>1, <3>2
    <2>6. CASE Opening
      BY <2>6 DEF Opening, StartOpen, CheckGeneration, CheckHandle, TakeInfo, BuildScheduler,
                  PublishScheduler, CreateStream, CloseStream, openerFrame, serviceVars
    <2>7. CASE Session
      BY <2>7 DEF Session, Added, AddFails, MetadataReceived, TorrentError, Removed,
                  sessionFrame, serviceVars
    <2> QED BY <2>1, <2>2, <2>3, <2>4, <2>5, <2>6, <2>7 DEF Next
  <1>2. snapshot \in Snapshots /\ 0 \notin Load
    BY DEF TypeInv, TypeOK, Load
  <1>3. CASE snapshot' = Cleared \/ snapshot' = Loading \/ snapshot' = Fail(Loading)
    <2>1. /\ Cleared.files = 0 /\ Cleared.state = "idle"
          /\ Loading.files = 0 /\ Loading.state = "loading_metadata"
          /\ Fail(Loading).files = 0 /\ Fail(Loading).state = "error"
      BY DEF Cleared, Loading, Fail
    <2> QED BY <1>3, <2>1 DEF SnapshotConsistent
  <1>4. CASE snapshot' = Fail(snapshot)
    BY <1>2, <1>4 DEF SnapshotConsistent, Fail, Snapshots
  <1>5. CASE \E l \in Load : snapshot' = Ready(Loading, l) \/ snapshot' = Ready(snapshot, l)
    <2>1. \A l \in Load : /\ Ready(Loading, l).files = l /\ Ready(Loading, l).state = "ready"
                           /\ Ready(Loading, l).has_metadata
      BY DEF Ready, Loading, Cleared
    <2>2. \A l \in Load : /\ Ready(snapshot, l).files = l /\ Ready(snapshot, l).state = "ready"
                           /\ Ready(snapshot, l).has_metadata
      BY <1>2 DEF Ready, Snapshots
    <2> QED BY <1>2, <1>5, <2>1, <2>2 DEF SnapshotConsistent
  <1>6. CASE \E b \in BOOLEAN :
                snapshot' = [snapshot EXCEPT !.has_metadata = snapshot.has_metadata \/ b]
    <2>1. /\ snapshot'.files = snapshot.files /\ snapshot'.state = snapshot.state
          /\ snapshot.has_metadata => snapshot'.has_metadata
      BY <1>2, <1>6 DEF Snapshots
    <2> QED BY <2>1 DEF SnapshotConsistent
  <1>7. CASE snapshot' = snapshot
    BY <1>7 DEF SnapshotConsistent
  <1> QED BY <1>1, <1>3, <1>4, <1>5, <1>6, <1>7

\* Whatever alerts arrive and in whatever order, for the torrent that is loaded or for
\* one that is gone, files are listed in the ready state and only there.
THEOREM SnapshotsConsistent == Spec => []SnapshotConsistent
  <1>1. Init => SnapshotConsistent
    BY DEF Init, Cleared, SnapshotConsistent
  <1> QED BY <1>1, AlwaysTypeInv, SnapshotStep, PTL DEF Spec

-----------------------------------------------------------------------------
(* What plays, and the stream it reads *)

\* What the player was given is of the current generation, unless the last input was
\* one that leaves it alone; and while mpv has no command before it, that is what mpv
\* opens or has open.
PlayInv ==
    /\ target \in 0 .. generation
    /\ target \notin {0, generation} => snapshot.source = 0
    /\ ui # "idle" /\ input \in {"file", "magnet"} => target = 0
    /\ opener # "idle" => uri \in 1 .. generation
    /\ opener # "idle" /\ ~command => target = uri
    /\ stream # NoStream => opener = "open" /\ stream.generation = uri

LEMMA PlayStep == TypeInv /\ PlayInv /\ [Next]_vars => PlayInv'
  <1> SUFFICES ASSUME TypeInv, PlayInv, [Next]_vars PROVE PlayInv'
    OBVIOUS
  <1> USE DEF PlayInv, serviceVars, uiVars, mpvVars, sessionVars
  <1>0. generation \in Nat \ {0} /\ stream \in Streams /\ snapshot \in Snapshots
    BY DEF TypeInv, TypeOK, Generations
  <1>1. CASE UNCHANGED vars
    BY <1>1 DEF vars
  <1>2. ASSUME NEW kind \in Kinds, Accept(kind) PROVE PlayInv'
    <2>1. stream' # NoStream => stream # NoStream /\ stream'.generation = stream.generation
      BY <1>0, <1>2 DEF Accept, Cancelled, Streams
    <2>2. /\ target' \in {0, target}
          /\ target' # target => command'
          /\ command => command'
          /\ input' \in {"file", "magnet"} => target' = 0
      BY <1>2 DEF Accept
    <2> QED BY <1>0, <1>2, <2>1, <2>2 DEF Accept
  <1>3. CASE SelectFile \/ StopPlayback
    BY <1>0, <1>3 DEF SelectFile, StopPlayback
  <1>4. CASE SetCacheLimit \/ RemoveTorrent
    BY <1>4 DEF SetCacheLimit, RemoveTorrent
  <1>5. CASE ProcessAlert \/ PollStatus
    <2>1. snapshot'.source = snapshot.source
      <3>1. CASE ProcessAlert
        <4>1. \/ snapshot' = snapshot \/ snapshot' = Fail(snapshot)
              \/ snapshot' = Ready(snapshot, Head(alerts).of)
          BY <3>1 DEF ProcessAlert
        <4>2. Fail(snapshot).source = snapshot.source
              /\ \A l : Ready(snapshot, l).source = snapshot.source
          BY <1>0 DEF Fail, Ready, Snapshots
        <4> QED BY <4>1, <4>2
      <3>2. CASE PollStatus
        BY <1>0, <3>2 DEF PollStatus, Fail, Snapshots
      <3> QED BY <1>5, <3>1, <3>2
    <2>2. UNCHANGED <<target, generation, ui, input, opener, uri, command, stream>>
      BY <1>5 DEF ProcessAlert, PollStatus
    <2> QED BY <2>1, <2>2
  <1>6. CASE LoadTorrentFile \/ LoadMagnet \/ LoadFails \/ LoadLocal \/ LoadNothing
    <2>1. /\ generation' = generation + 1 /\ ui = "reset" /\ ui' = "idle"
          /\ UNCHANGED <<opener, uri, stream>>
      BY <1>6 DEF LoadTorrentFile, LoadMagnet, LoadFails, LoadLocal, LoadNothing, Reset
    <2>2. /\ target' \in {0, target}
          /\ target' # target => command'
          /\ command => command'
          /\ target' # 0 => snapshot'.source = 0
      <3>1. CASE LoadNothing
        BY <3>1 DEF LoadNothing, Reset, Cleared
      <3>2. CASE LoadLocal
        BY <3>2 DEF LoadLocal
      <3>3. CASE LoadTorrentFile \/ LoadMagnet \/ LoadFails
        <4>1. target = 0 /\ UNCHANGED <<target, command>>
          BY <2>1, <3>3 DEF LoadTorrentFile, LoadMagnet, LoadFails, AddTorrent
        <4> QED BY <4>1
      <3> QED BY <1>6, <3>1, <3>2, <3>3
    <2>3. \A n : n \in 0 .. generation => n \in 0 .. generation'
      BY <1>0, <2>1
    <2>4. uri \in 1 .. generation => uri \in 1 .. generation'
      BY <1>0, <2>1
    <2>5. target' \in 0 .. generation'
      <3>1. target \in 0 .. generation /\ 0 \in 0 .. generation
        BY <1>0
      <3> QED BY <2>2, <2>3, <3>1
    <2>6. target' \notin {0, generation'} => snapshot'.source = 0
      BY <2>2
    <2>7. opener' # "idle" => uri' \in 1 .. generation'
      BY <2>1, <2>4
    <2>8. opener' # "idle" /\ ~command' => target' = uri'
      BY <2>1, <2>2
    <2>9. stream' # NoStream => opener' = "open" /\ stream'.generation = uri'
      BY <2>1
    <2> QED BY <2>1, <2>5, <2>6, <2>7, <2>8, <2>9
  <1>7. CASE Opening
    <2>1. CASE StartOpen
      BY <1>0, <2>1 DEF StartOpen, openerFrame
    <2>2. CASE CheckGeneration \/ CheckHandle \/ TakeInfo \/ BuildScheduler \/ PublishScheduler
      BY <2>2 DEF CheckGeneration, CheckHandle, TakeInfo, BuildScheduler, PublishScheduler, openerFrame
    <2>3. CASE CreateStream
      BY <2>3 DEF CreateStream, openerFrame
    <2>4. CASE CloseStream
      BY <2>4 DEF CloseStream, openerFrame
    <2> QED BY <1>7, <2>1, <2>2, <2>3, <2>4 DEF Opening
  <1>8. CASE Session
    BY <1>8 DEF Session, Added, AddFails, MetadataReceived, TorrentError, Removed, sessionFrame
  <1> QED BY <1>1, <1>2, <1>3, <1>4, <1>5, <1>6, <1>7, <1>8 DEF Next, User, ClearAndLoad

LEMMA AlwaysPlayInv == Spec => []PlayInv
  <1>1. Init => PlayInv
    BY DEF Init, PlayInv
  <1> QED BY <1>1, AlwaysTypeInv, PlayStep, PTL DEF Spec

-----------------------------------------------------------------------------
(* Whose the torrents of the session are *)

AddPending(l) == Pending(alerts, [kind |-> "add", of |-> l])

MetadataPending(l) == Pending(alerts, [kind |-> "metadata", of |-> l])

\* The torrent of the last input.
Current(l) == snapshot.source = l /\ generation = l + 1

\* A torrent that the session has not acknowledged is of the last input.
AddingInv == \A l \in Load : torrent[l] = "adding" => ui = "idle" /\ Current(l)

\* So is one with an alert to come, and the session has it.
PendingInv == \A l \in Load :
    AddPending(l) \/ MetadataPending(l) => ui = "idle" /\ Current(l) /\ torrent[l] = "present"

\* handle_ names a torrent of the session, the one of the last input, and none between
\* the removal and the reset.
HandleInv ==
    /\ handle # 0 => handle \in Load /\ torrent[handle] = "present" /\ Current(handle)
    /\ ui = "reset" => handle = 0

PresentInv == \A l \in Load : torrent[l] = "present" => handle = l \/ AddPending(l)

FilesInv == snapshot.files \in {0, snapshot.source}

OwnerInv == ~crossed => AddingInv /\ PendingInv /\ HandleInv /\ PresentInv /\ FilesInv

LEMMA AcceptOwner ==
    ASSUME TypeInv, OwnerInv, NEW kind \in Kinds, Accept(kind)
    PROVE  OwnerInv'
  <1> SUFFICES ASSUME ~crossed' PROVE OwnerInv'
    BY DEF OwnerInv
  <1>1. ~crossed /\ Settled /\ ui' = "remove"
    BY DEF Accept
  <1>2. UNCHANGED <<handle, snapshot, generation, torrent, alerts>>
    BY DEF Accept, serviceVars, sessionVars
  <1>3. AddingInv /\ PendingInv /\ HandleInv /\ PresentInv /\ FilesInv
    BY <1>1 DEF OwnerInv
  <1>4. \A b : ~ Pending(alerts, b)
    BY <1>1, EmptySeq DEF Settled, Pending
  <1>5. \A l \in Load : torrent[l] # "adding"
    BY <1>1 DEF Settled
  <1>6. AddingInv' /\ PendingInv'
    BY <1>2, <1>4, <1>5 DEF AddingInv, PendingInv, AddPending, MetadataPending
  <1>7. HandleInv' /\ PresentInv' /\ FilesInv'
    BY <1>1, <1>2, <1>3 DEF HandleInv, PresentInv, FilesInv, AddPending, Current
  <1> QED BY <1>6, <1>7 DEF OwnerInv

LEMMA RemoveOwner == TypeInv /\ OwnerInv /\ RemoveTorrent => OwnerInv'
  <1> SUFFICES ASSUME TypeInv, OwnerInv, RemoveTorrent, ~crossed PROVE OwnerInv'
    BY DEF OwnerInv, RemoveTorrent
  <1>1. AddingInv /\ PendingInv /\ HandleInv /\ PresentInv /\ FilesInv
    BY DEF OwnerInv
  <1>2. ui = "remove" /\ ui' = "reset" /\ UNCHANGED <<snapshot, generation, alerts, crossed>>
    BY DEF RemoveTorrent
  <1>3. \A l \in Load : torrent[l] # "adding" /\ ~ AddPending(l) /\ ~ MetadataPending(l)
    BY <1>1, <1>2 DEF AddingInv, PendingInv
  <1>4. torrent \in [Load -> {"none", "adding", "present", "removing", "gone"}]
    BY DEF TypeInv, TypeOK
  <1>5. handle' = 0 /\ \A l \in Load : torrent'[l] \notin {"adding", "present"}
    <2>1. CASE handle = 0
      BY <1>1, <1>3, <2>1 DEF RemoveTorrent, IsValid, PresentInv, Load
    <2>2. CASE handle # 0
      BY <1>1, <1>3, <1>4, <2>2 DEF RemoveTorrent, IsValid, PresentInv, HandleInv
    <2> QED BY <2>1, <2>2
  <1>6. AddingInv' /\ HandleInv' /\ PresentInv' /\ FilesInv'
    BY <1>1, <1>2, <1>5 DEF AddingInv, HandleInv, PresentInv, FilesInv
  <1>7. PendingInv'
    BY <1>2, <1>3 DEF PendingInv, AddPending, MetadataPending
  <1> QED BY <1>6, <1>7 DEF OwnerInv

LEMMA LoadOwner ==
    ASSUME TypeInv, OwnerInv,
           LoadTorrentFile \/ LoadMagnet \/ LoadFails \/ LoadLocal \/ LoadNothing
    PROVE  OwnerInv'
  <1> SUFFICES ASSUME ~crossed PROVE OwnerInv'
    BY DEF OwnerInv, LoadTorrentFile, LoadMagnet, LoadFails, LoadLocal, LoadNothing, Reset
  <1>1. AddingInv /\ PendingInv /\ HandleInv /\ PresentInv
    BY DEF OwnerInv
  <1>2. /\ ui = "reset" /\ ui' = "idle" /\ generation' = generation + 1
        /\ UNCHANGED <<handle, alerts, crossed>>
    BY DEF LoadTorrentFile, LoadMagnet, LoadFails, LoadLocal, LoadNothing, Reset
  <1>3. generation \in Load /\ generation \in Nat
    BY <1>2, ServiceAssumption DEF TypeInv, TypeOK, Generations, Load
  <1>4. handle = 0 /\ \A l \in Load : torrent[l] \notin {"adding", "present"}
                                     /\ ~ AddPending(l) /\ ~ MetadataPending(l)
    <2>1. handle = 0
      BY <1>1, <1>2 DEF HandleInv
    <2>2. \A l \in Load : torrent[l] # "adding" /\ ~ AddPending(l) /\ ~ MetadataPending(l)
      BY <1>1, <1>2 DEF AddingInv, PendingInv
    <2> QED BY <1>1, <2>1, <2>2 DEF PresentInv, Load
  <1>5. torrent \in [Load -> {"none", "adding", "present", "removing", "gone"}]
    BY DEF TypeInv, TypeOK
  <1>6. \A l \in Load : /\ torrent'[l] # "present"
                        /\ torrent'[l] = "adding" => l = generation /\ AddTorrent
    <2>1. torrent' = torrent \/ AddTorrent
      BY DEF LoadTorrentFile, LoadMagnet, LoadFails, LoadLocal, LoadNothing
    <2> QED BY <1>3, <1>4, <1>5, <2>1 DEF AddTorrent
  <1>7. /\ AddTorrent => snapshot'.source = generation
        /\ snapshot'.files \in {0, snapshot'.source}
    <2>1. /\ Loading.source = generation /\ Loading.files = 0
          /\ Ready(Loading, generation).source = generation
          /\ Ready(Loading, generation).files = generation
          /\ Fail(Loading).files = 0 /\ Cleared.files = 0
      BY DEF Loading, Ready, Fail, Cleared
    <2>2. CASE LoadTorrentFile \/ LoadMagnet
      BY <2>1, <2>2 DEF LoadTorrentFile, LoadMagnet, Reset
    <2>3. CASE LoadFails \/ LoadLocal \/ LoadNothing
      <3>1. torrent' = torrent
        BY <2>3 DEF LoadFails, LoadLocal, LoadNothing
      <3>2. ~ AddTorrent
        BY <1>3, <1>4, <1>5, <3>1 DEF AddTorrent
      <3> QED BY <2>1, <2>3, <3>2 DEF LoadFails, LoadLocal, LoadNothing, Reset
    <2> QED BY <2>2, <2>3
  <1>8. AddingInv'
    BY <1>2, <1>6, <1>7 DEF AddingInv, Current
  <1>9. PendingInv' /\ HandleInv' /\ PresentInv' /\ FilesInv'
    BY <1>2, <1>4, <1>6, <1>7
    DEF PendingInv, AddPending, MetadataPending, HandleInv, PresentInv, FilesInv
  <1> QED BY <1>8, <1>9 DEF OwnerInv

LEMMA AlertOwner == TypeInv /\ OwnerInv /\ ProcessAlert => OwnerInv'
  <1>0. ProcessAlert => UNCHANGED crossed
    BY DEF ProcessAlert
  <1> SUFFICES ASSUME TypeInv, OwnerInv, ProcessAlert, ~crossed PROVE OwnerInv'
    BY <1>0 DEF OwnerInv
  <1> DEFINE a == Head(alerts)
  <1>1. AddingInv /\ PendingInv /\ HandleInv /\ PresentInv /\ FilesInv
    BY DEF OwnerInv
  <1>2. /\ ui = "idle" /\ ui' = "idle" /\ alerts # <<>> /\ alerts' = Tail(alerts)
        /\ UNCHANGED <<generation, torrent, crossed>>
    BY DEF ProcessAlert, uiVars
  <1>3. alerts \in Seq(Alerts)
    BY DEF TypeInv, TypeOK
  <1>4. /\ a \in Alerts /\ Pending(alerts, a)
        /\ \A b : Pending(alerts, b) <=> Pending(alerts', b) \/ b = a
    BY <1>2, <1>3, PoppedIsNot
  <1>5. a.of \in Load /\ a.kind \in {"add", "metadata", "failure"}
        /\ a = [kind |-> a.kind, of |-> a.of]
    BY <1>4 DEF Alerts
  <1>6. /\ \/ handle' = a.of /\ a.kind \in {"add", "metadata"}
           \/ handle' = handle /\ a.kind = "failure"
        /\ snapshot' = snapshot \/ snapshot' = Fail(snapshot) \/ snapshot' = Ready(snapshot, a.of)
        /\ \/ snapshot' = snapshot \/ snapshot' = Fail(snapshot)
           \/ snapshot' = Ready(snapshot, a.of) /\ a.kind \in {"add", "metadata"}
    <2>1. CASE a.kind = "add"
      BY <1>2, <2>1 DEF ProcessAlert
    <2>2. CASE a.kind = "metadata"
      BY <1>2, <2>2 DEF ProcessAlert
    <2>3. CASE a.kind = "failure"
      BY <1>2, <2>3 DEF ProcessAlert
    <2> QED BY <1>5, <2>1, <2>2, <2>3
  <1>7. /\ snapshot'.source = snapshot.source
        /\ \/ snapshot'.files \in {0, snapshot.files}
           \/ snapshot'.files = a.of /\ a.kind \in {"add", "metadata"}
    <2>1. snapshot \in Snapshots
      BY DEF TypeInv, TypeOK
    <2> HIDE DEF a
    <2> QED BY <1>6, <2>1 DEF Fail, Ready, Snapshots
  <1>8. a.kind \in {"add", "metadata"} => Current(a.of) /\ torrent[a.of] = "present"
    BY <1>1, <1>4, <1>5 DEF PendingInv, AddPending, MetadataPending
  <1>9. AddingInv' /\ PendingInv'
    BY <1>1, <1>2, <1>4, <1>7 DEF AddingInv, PendingInv, AddPending, MetadataPending, Current
  <1>10. HandleInv'
    BY <1>1, <1>2, <1>5, <1>6, <1>7, <1>8 DEF HandleInv, Current
  <1>11. PresentInv'
    <2> SUFFICES ASSUME NEW l \in Load, torrent[l] = "present"
                 PROVE  handle' = l \/ AddPending(l)'
      BY <1>2 DEF PresentInv
    <2>1. CASE handle = l
      <3>1. Current(l)
        BY <1>1, <2>1 DEF HandleInv, Load
      <3> QED BY <1>6, <1>8, <2>1, <3>1 DEF Current
    <2>2. CASE AddPending(l)
      BY <1>4, <1>6, <2>2 DEF AddPending
    <2> QED BY <1>1, <2>1, <2>2 DEF PresentInv
  <1>12. FilesInv'
    BY <1>1, <1>7, <1>8 DEF FilesInv, Current
  <1> QED BY <1>9, <1>10, <1>11, <1>12 DEF OwnerInv

LEMMA SessionOwner == TypeInv /\ OwnerInv /\ Session => OwnerInv'
  <1> SUFFICES ASSUME TypeInv, OwnerInv, NEW l \in Load,
                      \/ Added(l) \/ AddFails(l) \/ MetadataReceived(l) \/ TorrentError(l)
                      \/ Removed(l)
               PROVE  OwnerInv'
    BY DEF Session
  <1> SUFFICES ASSUME ~crossed' PROVE OwnerInv'
    BY DEF OwnerInv
  <1> USE DEF sessionFrame, serviceVars, uiVars, mpvVars
  <1>1. ~crossed /\ UNCHANGED <<ui, snapshot, generation, handle>>
    <2>1. CASE MetadataReceived(l)
      BY <2>1 DEF MetadataReceived
    <2>2. CASE ~MetadataReceived(l)
      BY <2>2 DEF Added, AddFails, TorrentError, Removed
    <2> QED BY <2>1, <2>2
  <1>2. AddingInv /\ PendingInv /\ HandleInv /\ PresentInv /\ FilesInv
    BY <1>1 DEF OwnerInv
  <1>3. /\ alerts \in Seq(Alerts)
        /\ torrent \in [Load -> {"none", "adding", "present", "removing", "gone"}]
    BY DEF TypeInv, TypeOK
  <1>4. FilesInv'
    BY <1>1, <1>2 DEF FilesInv
  <1>5. CASE Added(l)
    <2>1. /\ torrent[l] = "adding" /\ torrent'[l] = "present"
          /\ \A k \in Load \ {l} : torrent'[k] = torrent[k]
      BY <1>3, <1>5 DEF Added
    <2>2. \A k \in Load : (AddPending(k)' <=> AddPending(k) \/ k = l)
                          /\ (MetadataPending(k)' <=> MetadataPending(k))
      <3>1. \A b : Pending(alerts', b) <=> Pending(alerts, b) \/ b = [kind |-> "add", of |-> l]
        BY <1>3, <1>5, PostTypes DEF Added
      <3>2. \A k \in Load : /\ [kind |-> "metadata", of |-> k] # [kind |-> "add", of |-> l]
                            /\ [kind |-> "add", of |-> k] = [kind |-> "add", of |-> l] <=> k = l
        OBVIOUS
      <3> QED BY <3>1, <3>2 DEF AddPending, MetadataPending
    <2>3. ui = "idle" /\ Current(l)
      BY <1>2, <2>1 DEF AddingInv
    <2>4. AddingInv' /\ PendingInv'
      <3>1. AddingInv'
        BY <1>1, <1>2, <2>1, <2>2, <2>3 DEF AddingInv, Current
      <3>2. PendingInv'
        BY <1>1, <1>2, <2>1, <2>2, <2>3 DEF PendingInv, Current
      <3> QED BY <3>1, <3>2
    <2>5. HandleInv'
      BY <1>1, <1>2, <2>1 DEF HandleInv, Current
    <2>6. PresentInv'
      BY <1>1, <1>2, <2>1, <2>2 DEF PresentInv
    <2> QED BY <1>4, <2>4, <2>5, <2>6 DEF OwnerInv
  <1>6. CASE MetadataReceived(l)
    <2>1. UNCHANGED torrent /\ torrent[l] = "present" /\ ui = "idle"
      BY <1>6 DEF MetadataReceived
    <2>2. \A k \in Load : (AddPending(k)' <=> AddPending(k))
                          /\ (MetadataPending(k)' <=> MetadataPending(k) \/ k = l)
      <3>1. \A b : Pending(alerts', b) <=> Pending(alerts, b) \/ b = [kind |-> "metadata", of |-> l]
        BY <1>3, <1>6, PostTypes DEF MetadataReceived
      <3>2. \A k \in Load :
              /\ [kind |-> "add", of |-> k] # [kind |-> "metadata", of |-> l]
              /\ [kind |-> "metadata", of |-> k] = [kind |-> "metadata", of |-> l] <=> k = l
        OBVIOUS
      <3> QED BY <3>1, <3>2 DEF AddPending, MetadataPending
    <2>3. Current(l)
      <3>1. handle = l \/ AddPending(l)
        BY <1>2, <2>1 DEF PresentInv
      <3> QED BY <1>2, <3>1 DEF HandleInv, PendingInv, Load
    <2>4. AddingInv' /\ PendingInv'
      <3>1. AddingInv'
        BY <1>1, <1>2, <2>1, <2>2, <2>3 DEF AddingInv, Current
      <3>2. PendingInv'
        BY <1>1, <1>2, <2>1, <2>2, <2>3 DEF PendingInv, Current
      <3> QED BY <3>1, <3>2
    <2>5. HandleInv' /\ PresentInv'
      BY <1>1, <1>2, <2>1, <2>2 DEF HandleInv, PresentInv, Current
    <2> QED BY <1>4, <2>4, <2>5 DEF OwnerInv
  <1>7. CASE AddFails(l) \/ TorrentError(l) \/ Removed(l)
    <2>1. \A k \in Load : /\ torrent'[k] = "adding" => torrent[k] = "adding"
                          /\ torrent'[k] = "present" <=> torrent[k] = "present"
      BY <1>3, <1>7 DEF AddFails, TorrentError, Removed
    <2>2. \A k \in Load : (AddPending(k)' <=> AddPending(k))
                          /\ (MetadataPending(k)' <=> MetadataPending(k))
      <3>1. CASE Removed(l)
        BY <3>1 DEF Removed, AddPending, MetadataPending
      <3>2. CASE AddFails(l) \/ TorrentError(l)
        <4>1. \A b : Pending(alerts', b) <=>
                        Pending(alerts, b) \/ b = [kind |-> "failure", of |-> l]
          BY <1>3, <3>2, PostTypes DEF AddFails, TorrentError
        <4>2. \A k \in Load : /\ [kind |-> "add", of |-> k] # [kind |-> "failure", of |-> l]
                              /\ [kind |-> "metadata", of |-> k] # [kind |-> "failure", of |-> l]
          OBVIOUS
        <4> QED BY <4>1, <4>2 DEF AddPending, MetadataPending
      <3> QED BY <1>7, <3>1, <3>2
    <2>3. AddingInv' /\ PendingInv'
      <3>1. AddingInv'
        BY <1>1, <1>2, <2>1, <2>2 DEF AddingInv, Current
      <3>2. PendingInv'
        BY <1>1, <1>2, <2>1, <2>2 DEF PendingInv, Current
      <3> QED BY <3>1, <3>2
    <2>4. HandleInv' /\ PresentInv'
      BY <1>1, <1>2, <2>1, <2>2 DEF HandleInv, PresentInv, Current
    <2> QED BY <1>4, <2>3, <2>4 DEF OwnerInv
  <1> QED BY <1>5, <1>6, <1>7

\* Every other action leaves the torrents, the alerts and the handle alone, and of the
\* snapshot at most empties the file list.
LEMMA OwnerFrame ==
    ASSUME OwnerInv, UNCHANGED <<ui, handle, generation, torrent, alerts, crossed>>,
           \/ snapshot' = snapshot
           \/ snapshot'.source = snapshot.source /\ snapshot'.files \in {0, snapshot.files}
    PROVE  OwnerInv'
  <1>1. snapshot'.source = snapshot.source /\ snapshot'.files \in {0, snapshot.files}
    OBVIOUS
  <1>2. FilesInv => FilesInv'
    BY <1>1 DEF FilesInv
  <1>3. AddingInv /\ PendingInv /\ HandleInv /\ PresentInv
           => (AddingInv /\ PendingInv /\ HandleInv /\ PresentInv)'
    BY <1>1 DEF AddingInv, PendingInv, HandleInv, PresentInv, AddPending, MetadataPending, Current
  <1> QED BY <1>2, <1>3 DEF OwnerInv

LEMMA OwnerStep == TypeInv /\ OwnerInv /\ [Next]_vars => OwnerInv'
  <1> SUFFICES ASSUME TypeInv, OwnerInv, [Next]_vars PROVE OwnerInv'
    OBVIOUS
  <1> USE DEF serviceVars, uiVars, sessionVars
  <1>1. CASE UNCHANGED vars
    BY <1>1, OwnerFrame DEF vars
  <1>2. CASE SelectFile \/ StopPlayback \/ SetCacheLimit
    BY <1>2, OwnerFrame DEF SelectFile, StopPlayback, SetCacheLimit
  <1>3. CASE PollStatus
    <2>1. snapshot'.source = snapshot.source /\ snapshot'.files \in {0, snapshot.files}
      BY <1>3 DEF PollStatus, Fail, TypeInv, TypeOK, Snapshots
    <2> QED BY <1>3, <2>1, OwnerFrame DEF PollStatus
  <1>4. CASE Opening
    BY <1>4, OwnerFrame DEF Opening, StartOpen, CheckGeneration, CheckHandle, TakeInfo,
                            BuildScheduler, PublishScheduler, CreateStream, CloseStream, openerFrame
  <1> QED BY <1>1, <1>2, <1>3, <1>4, AcceptOwner, RemoveOwner, LoadOwner, AlertOwner, SessionOwner
      DEF Next, User, ClearAndLoad

LEMMA AlwaysOwnerInv == Spec => []OwnerInv
  <1>1. Init => OwnerInv
    <2> SUFFICES ASSUME Init PROVE OwnerInv
      OBVIOUS
    <2>1. handle = 0 /\ snapshot.files = 0 /\ ui = "idle"
      BY DEF Init, Cleared
    <2>2. \A b : ~ Pending(alerts, b)
      BY EmptySeq DEF Init, Pending
    <2>3. \A l \in Load : torrent[l] = "none"
      BY DEF Init
    <2> QED BY <2>1, <2>2, <2>3 DEF OwnerInv, AddingInv, PendingInv, HandleInv, PresentInv,
                                    FilesInv, AddPending, MetadataPending
  <1> QED BY <1>1, AlwaysTypeInv, OwnerStep, PTL DEF Spec

\* As long as no input comes before the session has dealt with the one before, a torrent
\* of the session has its handle kept, is being removed, or has its add alert to come.
THEOREM NoOrphanTorrents == Spec => []NoOrphanTorrent
  <1>1. OwnerInv => NoOrphanTorrent
    BY DEF OwnerInv, PresentInv, AddPending, Pending, NoOrphanTorrent
  <1> QED BY <1>1, AlwaysOwnerInv, PTL

\* And the files listed are those of the last input.
THEOREM SnapshotsOfSource == Spec => []SnapshotOfSource
  <1>1. OwnerInv => SnapshotOfSource
    BY DEF OwnerInv, FilesInv, SnapshotOfSource
  <1> QED BY <1>1, AlwaysOwnerInv, PTL

-----------------------------------------------------------------------------
(* What open_torrent_stream reads without a lock *)

PastInfo == opener \in {"build", "publish", "create", "open"}

\* Between the UI thread's inputs, an open of the current generation has found the one
\* handle that there is, at each of its reads.
OpenInv ==
    ~crossed /\ ui = "idle" /\ uri = generation =>
        /\ PastInfo => handle = info /\ info # 0
        /\ stream # NoStream => stream.handle = info /\ stream.info = info /\ ~stream.cancelled

LEMMA OpenStep ==
    TypeInv /\ PlayInv /\ OwnerInv /\ OpenInv /\ [Next]_vars => OpenInv'
  <1> SUFFICES ASSUME TypeInv, PlayInv, OwnerInv, OpenInv, [Next]_vars PROVE OpenInv'
    OBVIOUS
  <1> USE DEF serviceVars, uiVars, mpvVars, sessionVars
  <1>1. ASSUME UNCHANGED <<ui, handle, generation, uri, opener, info, stream>>, crossed => crossed'
        PROVE  OpenInv'
    BY <1>1 DEF OpenInv, PastInfo
  <1>2. CASE UNCHANGED vars
    BY <1>1, <1>2 DEF vars
  <1>3. CASE User
    <2>1. CASE \E kind \in Kinds : Accept(kind)
      BY <2>1 DEF Accept, OpenInv
    <2>2. CASE SelectFile \/ StopPlayback \/ SetCacheLimit
      BY <1>1, <2>2 DEF SelectFile, StopPlayback, SetCacheLimit
    <2> QED BY <1>3, <2>1, <2>2 DEF User
  <1>4. CASE RemoveTorrent
    BY <1>4 DEF RemoveTorrent, OpenInv
  <1>5. CASE LoadTorrentFile \/ LoadMagnet \/ LoadFails \/ LoadLocal \/ LoadNothing
    <2>1. generation' = generation + 1 /\ UNCHANGED <<uri, opener, stream>>
      BY <1>5 DEF LoadTorrentFile, LoadMagnet, LoadFails, LoadLocal, LoadNothing, Reset
    <2>2. generation \in Nat
      BY DEF TypeInv, TypeOK, Generations
    <2>3. opener # "idle" => uri # generation'
      BY <2>1, <2>2 DEF PlayInv
    <2> QED BY <2>1, <2>3 DEF PlayInv, OpenInv, PastInfo
  <1>6. CASE ProcessAlert
    <2> SUFFICES ASSUME ~crossed, uri = generation PROVE OpenInv'
      BY <1>6 DEF ProcessAlert, OpenInv
    <2>1. ui = "idle" /\ UNCHANGED <<ui, generation, uri, opener, info, stream, crossed>>
      BY <1>6 DEF ProcessAlert
    <2>2. handle # 0 /\ handle' # 0 => handle' = handle
      <3>1. OwnerInv'
        BY <1>6, AlertOwner
      <3>2. HandleInv /\ HandleInv'
        BY <2>1, <3>1 DEF OwnerInv
      <3>3. handle # 0 => generation = handle + 1 /\ handle \in Nat
        BY <3>2 DEF HandleInv, Current, Load
      <3>4. handle' # 0 => generation = handle' + 1 /\ handle' \in Nat
        BY <2>1, <3>2 DEF HandleInv, Current, Load
      <3> QED BY <3>3, <3>4
    <2>3. handle # 0 => handle' # 0
      <3>1. Head(alerts).of # 0
        <4>1. alerts \in Seq(Alerts) /\ alerts # <<>>
          BY <1>6 DEF ProcessAlert, TypeInv, TypeOK
        <4>2. Head(alerts) \in Alerts
          BY <4>1, PoppedIsNot
        <4> QED BY <4>2 DEF Alerts, Load
      <3>2. handle' = handle \/ handle' = Head(alerts).of
        BY <1>6 DEF ProcessAlert
      <3> QED BY <3>1, <3>2
    <2> QED BY <2>1, <2>2, <2>3 DEF OpenInv, PastInfo
  <1>7. CASE PollStatus
    BY <1>1, <1>7 DEF PollStatus
  <1>8. CASE Opening
    <2> USE DEF openerFrame
    <2>1. CASE StartOpen
      BY <2>1 DEF StartOpen, PlayInv, OpenInv, PastInfo
    <2>2. CASE CheckGeneration \/ CheckHandle
      BY <2>2 DEF CheckGeneration, CheckHandle, PlayInv, OpenInv, PastInfo
    <2>3. CASE TakeInfo
      BY <2>3 DEF TakeInfo, IsValid, PlayInv, OpenInv, PastInfo
    <2>4. CASE BuildScheduler \/ PublishScheduler
      BY <2>4 DEF BuildScheduler, PublishScheduler, OpenInv, PastInfo
    <2>5. CASE CreateStream
      BY <2>5 DEF CreateStream, OpenInv, PastInfo
    <2>6. CASE CloseStream
      BY <2>6 DEF CloseStream, OpenInv, PastInfo
    <2> QED BY <1>8, <2>1, <2>2, <2>3, <2>4, <2>5, <2>6 DEF Opening
  <1>9. CASE Session
    <2>1. UNCHANGED <<ui, handle, generation, uri, opener, info, stream>> /\ (crossed => crossed')
      <3>1. ASSUME NEW l \in Load, MetadataReceived(l)
            PROVE  UNCHANGED <<ui, handle, generation, uri, opener, info, stream>> /\ (crossed => crossed')
        BY <3>1 DEF MetadataReceived, sessionFrame
      <3>2. ASSUME NEW l \in Load, Added(l) \/ AddFails(l) \/ TorrentError(l) \/ Removed(l)
            PROVE  UNCHANGED <<ui, handle, generation, uri, opener, info, stream, crossed>>
        BY <3>2 DEF Added, AddFails, TorrentError, Removed, sessionFrame
      <3> QED BY <1>9, <3>1, <3>2 DEF Session
    <2> QED BY <1>1, <2>1
  <1> QED BY <1>2, <1>3, <1>4, <1>5, <1>6, <1>7, <1>8, <1>9 DEF Next, ClearAndLoad

LEMMA AlwaysOpenInv == Spec => []OpenInv
  <1>1. Init => OpenInv
    BY DEF Init, OpenInv, PastInfo
  <1> QED BY <1>1, AlwaysTypeInv, AlwaysPlayInv, AlwaysOwnerInv, OpenStep, PTL DEF Spec

\* With the same proviso, the stream of the current generation reads the torrent of the
\* last input, wherever the reads of handle_ fell between the UI thread's steps.
THEOREM StreamsOfGeneration == Spec => []StreamOfGeneration
  <1>1. PlayInv /\ OwnerInv /\ OpenInv => StreamOfGeneration
    <2> SUFFICES ASSUME PlayInv, OwnerInv, OpenInv, ~crossed, ui = "idle", stream # NoStream,
                        stream.generation = generation
                 PROVE  /\ stream.handle = snapshot.source
                        /\ stream.info = snapshot.source
                        /\ ~stream.cancelled
      BY DEF StreamOfGeneration
    <2>1. uri = generation /\ PastInfo
      BY DEF PlayInv, PastInfo
    <2>2. handle # 0 /\ handle = info /\ stream.handle = info /\ stream.info = info /\ ~stream.cancelled
      BY <2>1 DEF OpenInv
    <2>3. handle = snapshot.source
      BY <2>2 DEF OwnerInv, HandleInv, Current
    <2> QED BY <2>2, <2>3
  <1> QED BY <1>1, AlwaysPlayInv, AlwaysOwnerInv, AlwaysOpenInv, PTL

-----------------------------------------------------------------------------
(* The end of a stream that has been replaced *)

\* A stream that mpv keeps reads the torrent that handle_ names, or one that is removed.
KeptInv ==
    ~crossed /\ stream # NoStream =>
        /\ stream.handle < generation
        /\ \/ command
           \/ stream.handle \in {0, handle}
           \/ stream.handle \in Load /\ torrent[stream.handle] \in {"removing", "gone"}

LEMMA KeptStep ==
    TypeInv /\ PlayInv /\ OwnerInv /\ KeptInv /\ [Next]_vars => KeptInv'
  <1> SUFFICES ASSUME TypeInv, PlayInv, OwnerInv, KeptInv, [Next]_vars PROVE KeptInv'
    OBVIOUS
  <1> USE DEF serviceVars, uiVars, mpvVars, sessionVars
  <1>0. /\ torrent \in [Load -> {"none", "adding", "present", "removing", "gone"}]
        /\ stream \in Streams /\ handle \in Handles /\ generation \in Nat \ {0}
        /\ stream.handle \in Nat
    BY DEF TypeInv, TypeOK, Generations, Streams, Handles
  <1>1. ASSUME UNCHANGED <<handle, generation, stream>>, crossed => crossed', command => command',
               \A l \in Load : torrent[l] \in {"removing", "gone"}
                                  => torrent'[l] \in {"removing", "gone"}
        PROVE  KeptInv'
    BY <1>1 DEF KeptInv
  <1>2. CASE UNCHANGED vars
    BY <1>1, <1>2 DEF vars
  <1>3. ASSUME NEW kind \in Kinds, Accept(kind) PROVE KeptInv'
    <2>1. /\ stream' # NoStream => stream # NoStream
          /\ stream'.handle = stream.handle
      BY <1>0, <1>3 DEF Accept, Cancelled, Streams
    <2>2. /\ UNCHANGED <<handle, generation, torrent>>
          /\ crossed => crossed'
          /\ command => command'
      BY <1>3 DEF Accept
    <2> SUFFICES ASSUME ~crossed', stream' # NoStream
                 PROVE  /\ stream'.handle < generation'
                        /\ \/ command'
                           \/ stream'.handle \in {0, handle'}
                           \/ stream'.handle \in Load
                              /\ torrent'[stream'.handle] \in {"removing", "gone"}
      BY DEF KeptInv
    <2>3. ~crossed /\ stream # NoStream
      BY <2>1, <2>2
    <2> QED BY <2>1, <2>2, <2>3 DEF KeptInv
  <1>4. CASE SelectFile \/ StopPlayback \/ SetCacheLimit
    BY <1>1, <1>4 DEF SelectFile, StopPlayback, SetCacheLimit
  <1>5. CASE RemoveTorrent
    <2> SUFFICES ASSUME ~crossed, stream # NoStream PROVE KeptInv'
      BY <1>5 DEF RemoveTorrent, KeptInv
    <2>1. HandleInv /\ UNCHANGED <<generation, stream, command, crossed>>
      BY <1>5 DEF RemoveTorrent, OwnerInv
    <2>2. CASE handle = 0
      BY <1>1, <1>5, <2>1, <2>2 DEF RemoveTorrent, IsValid
    <2>3. CASE handle # 0
      <3>1. handle \in Load /\ torrent' = [torrent EXCEPT ![handle] = "removing"]
        BY <1>5, <2>1, <2>3 DEF RemoveTorrent, IsValid, HandleInv
      <3> QED BY <1>0, <2>1, <3>1 DEF KeptInv
    <2> QED BY <2>2, <2>3
  <1>6. CASE LoadTorrentFile \/ LoadMagnet \/ LoadFails \/ LoadLocal \/ LoadNothing
    <2> SUFFICES ASSUME ~crossed, stream # NoStream PROVE KeptInv'
      BY <1>6 DEF LoadTorrentFile, LoadMagnet, LoadFails, LoadLocal, LoadNothing, Reset, KeptInv
    <2>1. /\ UNCHANGED <<handle, stream, crossed>> /\ generation' = generation + 1
          /\ ui = "reset"
          /\ command => command'
      BY <1>6 DEF LoadTorrentFile, LoadMagnet, LoadFails, LoadLocal, LoadNothing, Reset, AddTorrent
    <2>2. handle = 0
      BY <2>1 DEF OwnerInv, HandleInv
    <2>3. \A l \in Load : l # generation => torrent'[l] = torrent[l]
      BY <1>0, <1>6
      DEF LoadTorrentFile, LoadMagnet, LoadFails, LoadLocal, LoadNothing, AddTorrent
    <2>4. stream.handle < generation
      BY DEF KeptInv
    <2>5. stream.handle < generation' /\ stream.handle # generation
      BY <1>0, <2>1, <2>4
    <2> QED BY <2>1, <2>2, <2>3, <2>5 DEF KeptInv
  <1>7. CASE ProcessAlert
    <2> SUFFICES ASSUME ~crossed, stream # NoStream PROVE KeptInv'
      BY <1>7 DEF ProcessAlert, KeptInv
    <2>1. UNCHANGED <<generation, stream, command, torrent, crossed, ui>>
      BY <1>7 DEF ProcessAlert
    <2>2. HandleInv /\ HandleInv'
      BY <1>7, <2>1, AlertOwner DEF OwnerInv
    <2>3. handle # 0 => generation = handle + 1 /\ handle \in Nat
      BY <2>2 DEF HandleInv, Current, Load
    <2>4. handle' # 0 => generation = handle' + 1 /\ handle' \in Nat
      BY <2>1, <2>2 DEF HandleInv, Current, Load
    <2>5. handle # 0 /\ handle' # 0 => handle = handle'
      BY <2>3, <2>4
    <2>6. handle' = 0 => handle = 0
      <3>1. alerts \in Seq(Alerts) /\ alerts # <<>>
        BY <1>7 DEF ProcessAlert, TypeInv, TypeOK
      <3>2. Head(alerts) \in Alerts
        BY <3>1, PoppedIsNot
      <3>3. Head(alerts).of # 0
        BY <3>2 DEF Alerts, Load
      <3>4. handle' = handle \/ handle' = Head(alerts).of
        BY <1>7 DEF ProcessAlert
      <3> QED BY <3>3, <3>4
    <2> QED BY <2>1, <2>5, <2>6 DEF KeptInv
  <1>8. CASE PollStatus
    BY <1>1, <1>8 DEF PollStatus
  <1>9. CASE Opening
    <2> USE DEF openerFrame
    <2>1. CASE StartOpen
      BY <2>1 DEF StartOpen, PlayInv, KeptInv
    <2>2. CASE CheckGeneration \/ CheckHandle \/ TakeInfo \/ BuildScheduler \/ PublishScheduler
      BY <1>1, <2>2 DEF CheckGeneration, CheckHandle, TakeInfo, BuildScheduler, PublishScheduler
    <2>3. CASE CreateStream
      <3> SUFFICES ASSUME ~crossed PROVE KeptInv'
        BY <2>3 DEF CreateStream, KeptInv
      <3>1. stream'.handle = handle /\ UNCHANGED <<handle, generation, crossed>>
        BY <2>3 DEF CreateStream
      <3>2. handle < generation
        BY <1>0 DEF OwnerInv, HandleInv, Current, Load
      <3> QED BY <3>1, <3>2 DEF KeptInv
    <2>4. CASE CloseStream
      BY <2>4 DEF CloseStream, KeptInv
    <2> QED BY <1>9, <2>1, <2>2, <2>3, <2>4 DEF Opening
  <1>10. CASE Session
    <2>1. PICK l \in Load : \/ Added(l) \/ AddFails(l) \/ MetadataReceived(l) \/ TorrentError(l)
                            \/ Removed(l)
      BY <1>10 DEF Session
    <2>2. CASE MetadataReceived(l)
      BY <1>1, <2>2 DEF MetadataReceived, sessionFrame
    <2>3. CASE Added(l) \/ AddFails(l) \/ TorrentError(l) \/ Removed(l)
      <3>1. UNCHANGED <<handle, generation, stream, command, crossed>>
        BY <2>3 DEF Added, AddFails, TorrentError, Removed, sessionFrame
      <3>2. \A k \in Load : torrent[k] \in {"removing", "gone"}
                               => torrent'[k] \in {"removing", "gone"}
        BY <1>0, <2>3 DEF Added, AddFails, TorrentError, Removed
      <3> QED BY <1>1, <3>1, <3>2
    <2> QED BY <2>1, <2>2, <2>3
  <1> QED BY <1>2, <1>3, <1>4, <1>5, <1>6, <1>7, <1>8, <1>9, <1>10 DEF Next, User, ClearAndLoad

LEMMA AlwaysKeptInv == Spec => []KeptInv
  <1>1. Init => KeptInv
    BY DEF Init, KeptInv
  <1> QED BY <1>1, AlwaysTypeInv, AlwaysPlayInv, AlwaysOwnerInv, KeptStep, PTL DEF Spec

\* However late open_torrent_stream returns the stream of an input that has been
\* replaced, mpv has the command that ends it, or its torrent is removed.
THEOREM StaleStreamsEnd == Spec => []StaleStreamEnds
  <1>1. TypeInv /\ PlayInv /\ OwnerInv /\ KeptInv => StaleStreamEnds
    <2> SUFFICES ASSUME TypeInv, PlayInv, OwnerInv, KeptInv, ~crossed, ui = "idle",
                        stream # NoStream, stream.generation # generation, ~command
                 PROVE  stream.handle = 0 \/ torrent[stream.handle] \in {"removing", "gone"}
      BY DEF StaleStreamEnds, TypeInv, TypeOK
    <2>1. target = uri /\ uri \in 1 .. generation /\ uri # generation
      BY DEF PlayInv
    <2>2. snapshot.source = 0
      <3>1. generation \in Nat
        BY DEF TypeInv, TypeOK, Generations
      <3>2. uri # 0
        BY <2>1, <3>1
      <3> QED BY <2>1, <3>2 DEF PlayInv
    <2>3. handle = 0
      BY <2>2 DEF OwnerInv, HandleInv, Current, Load
    <2> QED BY <2>3 DEF KeptInv
  <1> QED BY <1>1, AlwaysTypeInv, AlwaysPlayInv, AlwaysOwnerInv, AlwaysKeptInv, PTL
=============================================================================
