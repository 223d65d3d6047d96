--------------------------- MODULE PlaybackProofs ---------------------------
(***************************************************************************)
(* Proofs about Playback.  One inductive invariant says, for the last load *)
(* or stop that found mpv up to date, how far mpv can have come with it     *)
(* and which events can be queued.                                          *)
(***************************************************************************)
EXTENDS Playback, SequenceTheorems, TLAPS

Unqueued(event) == \A i \in 1 .. Len(events) : events[i] # event

\* Without an open file there is no end and no seek.
CoreInv ==
    /\ opened => playing # NoFile
    /\ ~opened => ~eof /\ ~seeking

\* After a stop that crossed nothing: mpv has stopped or is about to, and has nothing
\* to tell but the end of the file.
StopInv ==
    snapshot.path = NoFile /\ ~late =>
        /\ ~snapshot.loaded
        /\ Unqueued("file-loaded")
        /\ pending = StopCommand \/ (pending = NoFile /\ playing = NoFile)

\* A file loaded while mpv was idle is still to be taken, is being opened or played, or
\* is done with; until then no END_FILE is queued and the pause is known or on its way.
LoadInv ==
    snapshot.path # NoFile /\ ~late =>
        \/ pending = NoFile /\ playing = NoFile /\ over
        \/ /\ (pending = snapshot.path /\ playing = NoFile) \/ (pending = NoFile /\ playing = snapshot.path)
           /\ Unqueued("end-file")
           /\ snapshot.paused = pause \/ "pause" \in changed

\* Until it has ended, nothing says it has.
EndInv ==
    snapshot.path # NoFile /\ ~late /\ ~over => ~snapshot.eof_reached /\ ~eof

PlayInv == CoreInv /\ StopInv /\ LoadInv /\ EndInv

-----------------------------------------------------------------------------

\* What is taken from a queue is not in question again, what is added is.
LEMMA Popped ==
    ASSUME NEW S, NEW q \in Seq(S), q # <<>>
    PROVE  /\ Head(q) \in S /\ Tail(q) \in Seq(S)
           /\ \A e : (\A i \in 1 .. Len(q) : q[i] # e) =>
                     Head(q) # e /\ \A i \in 1 .. Len(Tail(q)) : Tail(q)[i] # e
  <1>1. /\ Head(q) \in S /\ Tail(q) \in Seq(S) /\ Len(Tail(q)) = Len(q) - 1
        /\ \A i \in 1 .. Len(Tail(q)) : Tail(q)[i] = q[i + 1]
    BY HeadTailProperties
  <1>2. Len(q) \in Nat /\ Len(q) # 0 /\ Head(q) = q[1]
    BY LenProperties, EmptySeq
  <1> QED BY <1>1, <1>2

LEMMA Appended ==
    ASSUME NEW S, NEW q \in Seq(S), NEW a \in S
    PROVE  /\ Append(q, a) \in Seq(S)
           /\ \A e : e # a /\ (\A i \in 1 .. Len(q) : q[i] # e) =>
                     \A i \in 1 .. Len(Append(q, a)) : Append(q, a)[i] # e
  <1>1. /\ Append(q, a) \in Seq(S) /\ Len(Append(q, a)) = Len(q) + 1
        /\ \A i \in 1 .. Len(q) : Append(q, a)[i] = q[i]
        /\ Append(q, a)[Len(q) + 1] = a
    BY AppendProperties
  <1>2. Len(q) \in Nat
    BY LenProperties
  <1> QED BY <1>1, <1>2

\* Every variable of the player, the pages and mpv's client keeps its type.
THEOREM TypeCorrect == Spec => []TypeOK
<1>1. Init => TypeOK
  <2>1. <<>> \in Seq({"file-loaded", "end-file"})
    BY EmptySeq
  <2>2. Stopped \in Snapshots
    BY DEF Stopped, Snapshots
  <2> QED
    BY <2>1, <2>2 DEF Init, TypeOK, Pages, Properties
<1>2. TypeOK /\ [Next]_vars => TypeOK'
  <2> SUFFICES ASSUME TypeOK, [Next]_vars PROVE TypeOK'
    OBVIOUS
  <2> USE DEF TypeOK
  <2>1. ASSUME NEW f \in Files, LoadFile(f), listing' \in BOOLEAN, Input PROVE TypeOK'
    BY <2>1 DEF LoadFile, SetPause, Report, Loading, Snapshots, Behind, Properties, Input
  <2>2. ASSUME Stop, listing' \in BOOLEAN, frame' \in {"input", "events"},
               drawn' \in Pages, pointed' \in Pages
        PROVE  TypeOK'
    BY <2>2 DEF Stop, Stopped, Snapshots
  <2>3. CASE User
    <3>1. ASSUME NEW f \in Clips, AcceptLocal(f) PROVE TypeOK'
      BY <2>1, <3>1 DEF AcceptLocal, Files
    <3>2. ASSUME NEW f \in Films, SelectFile(f) PROVE TypeOK'
      BY <2>1, <3>2 DEF SelectFile, Files
    <3>3. CASE AcceptTorrent
      BY <2>2, <3>3 DEF AcceptTorrent, Input, playerVars
    <3>4. CASE AcceptOther
      BY <3>4 DEF AcceptOther, Input, playerVars
    <3>5. CASE PressStop
      BY <2>2, <3>5 DEF PressStop, Input
    <3>6. CASE PressPause
      <4>1. snapshot' \in Snapshots
        BY <3>6 DEF PressPause, TogglePause, Snapshots
      <4>2. seeking' \in BOOLEAN /\ pause' \in BOOLEAN /\ changed' \subseteq Properties
        BY <3>6 DEF PressPause, TogglePause, QueueSeek, SetPause, Report, Snapshots, Properties
      <4> QED
        BY <3>6, <4>1, <4>2 DEF PressPause, Input, TogglePause
    <3>7. CASE PressSeek
      BY <3>7 DEF PressSeek, Input, Seek, QueueSeek, Snapshots
    <3> QED
      BY <2>3, <3>1, <3>2, <3>3, <3>4, <3>5, <3>6, <3>7 DEF User
  <2>4. CASE Render
    <3>1. CASE StartFrame
      BY <3>1 DEF StartFrame, playerVars, pageVars
    <3>2. CASE HandleEvent
      <4>1. Head(events) \in {"file-loaded", "end-file"} /\ Tail(events) \in Seq({"file-loaded", "end-file"})
        BY <3>2, Popped DEF HandleEvent
      <4>2. Told(Head(events)) \in Snapshots
        BY DEF Told, Snapshots
      <4> QED
        BY <3>2, <4>1, <4>2 DEF HandleEvent, pageVars
    <3>3. ASSUME NEW p \in Properties, HandleProperty(p) PROVE TypeOK'
      BY <3>3 DEF HandleProperty, Handed, Snapshots, coreVars, pageVars, Properties
    <3>4. CASE EndFrame
      <4>1. drawn' \in Pages /\ pointed' \in Pages
        BY <3>4 DEF EndFrame, Page, Pages
      <4> QED
        BY <2>2, <3>4, <4>1 DEF EndFrame, playerVars
    <3> QED
      BY <2>4, <3>1, <3>2, <3>3, <3>4 DEF Render
  <2>5. CASE Mpv
    <3>1. CASE EndPlaying
      <4>1. events' \in Seq({"file-loaded", "end-file"})
        BY <3>1, Appended DEF EndPlaying
      <4>2. over' \in BOOLEAN
        BY <3>1, Zenon DEF EndPlaying
      <4> QED
        BY <3>1, <4>1, <4>2 DEF EndPlaying, uiFrame, pageVars, Report, Properties
    <3>2. CASE TakeCommand
      BY <3>2 DEF TakeCommand, uiFrame, pageVars
    <3>3. CASE OpenSucceeds
      BY <3>3 DEF OpenSucceeds, uiFrame, pageVars, Report, Properties
    <3>4. CASE ReachEnd
      BY <3>4 DEF ReachEnd, uiFrame, pageVars, Report, Properties
    <3>5. CASE DoSeek
      BY <3>5 DEF DoSeek, uiFrame, pageVars, Report, Properties
    <3> QED
      BY <2>5, <3>1, <3>2, <3>3, <3>4, <3>5 DEF Mpv
  <2>6. CASE UNCHANGED vars
    BY <2>6 DEF vars, playerVars, pageVars
  <2> QED
    BY <2>3, <2>4, <2>5, <2>6 DEF Next
<1> QED
  BY <1>1, <1>2, PTL DEF Spec

-----------------------------------------------------------------------------
(* The invariant *)

LEMMA LoadKeeps ==
    ASSUME TypeOK, PlayInv, NEW f \in Files, LoadFile(f)
    PROVE  PlayInv'
  <1>1. f # NoFile /\ f # StopCommand
    BY PlaybackAssumption
  <1>2. snapshot' = Loading(f) /\ pending' = f /\ pause' = FALSE /\ over' = FALSE /\ late' = Behind
        /\ playing' = playing /\ opened' = opened /\ eof' = eof /\ seeking' = seeking /\ events' = events
    BY DEF LoadFile, SetPause
  <1>3. snapshot'.path = f /\ snapshot'.paused = FALSE /\ snapshot'.eof_reached = FALSE
    BY <1>2 DEF Loading
  <1>4. CoreInv' /\ StopInv'
    BY <1>1, <1>2, <1>3 DEF PlayInv, CoreInv, StopInv
  <1>5. ASSUME ~late' PROVE playing = NoFile /\ events = <<>> /\ ~eof
    BY <1>2, <1>5 DEF Behind, PlayInv, CoreInv
  <1>6. LoadInv'
    <2> SUFFICES ASSUME ~late' PROVE LoadInv'
      BY DEF LoadInv
    <2>1. Unqueued("end-file")'
      BY <1>2, <1>5 DEF Unqueued
    <2> QED BY <1>2, <1>3, <1>5, <2>1 DEF LoadInv
  <1>7. EndInv'
    BY <1>2, <1>3, <1>5 DEF EndInv
  <1> QED BY <1>4, <1>6, <1>7 DEF PlayInv

LEMMA StopKeeps ==
    ASSUME TypeOK, PlayInv, Stop
    PROVE  PlayInv'
  <1>1. snapshot'.path = NoFile /\ ~snapshot'.loaded /\ pending' = StopCommand
    BY DEF Stop, Stopped
  <1>2. ~late' => Unqueued("file-loaded")'
    <2>1. ~late' => events' = <<>>
      BY Zenon DEF Stop
    <2> QED BY <2>1 DEF Unqueued
  <1> QED BY <1>1, <1>2 DEF Stop, PlayInv, CoreInv, StopInv, LoadInv, EndInv

LEMMA PressKeeps ==
    ASSUME TypeOK, PlayInv, TogglePause \/ Seek
    PROVE  PlayInv'
  <1>1. /\ snapshot.loaded /\ snapshot'.path = snapshot.path
        /\ snapshot'.eof_reached \in {snapshot.eof_reached, FALSE}
        /\ changed \subseteq changed'
        /\ UNCHANGED <<pending, playing, opened, eof, events, over, late>>
        /\ seeking' \in {seeking, seeking \/ opened}
    BY DEF TogglePause, Seek, QueueSeek, SetPause, Report, TypeOK, Snapshots
  <1>2. snapshot'.paused = pause' \/ (snapshot'.paused = snapshot.paused /\ pause' = pause)
    BY DEF TogglePause, Seek, QueueSeek, SetPause, Report, TypeOK, Snapshots
  <1>3. CoreInv'
    BY <1>1 DEF PlayInv, CoreInv
  <1>4. StopInv'
    BY <1>1 DEF PlayInv, StopInv, Unqueued
  <1>5. LoadInv'
    BY <1>1, <1>2 DEF PlayInv, LoadInv, Unqueued
  <1>6. EndInv'
    BY <1>1 DEF PlayInv, EndInv
  <1> QED BY <1>3, <1>4, <1>5, <1>6 DEF PlayInv

LEMMA EventsKeep ==
    ASSUME TypeOK, PlayInv, HandleEvent \/ \E p \in Properties : HandleProperty(p)
    PROVE  PlayInv'
  <1> USE DEF PlayInv
  <1>1. CASE HandleEvent
    <2>1. /\ events' = Tail(events) /\ snapshot' = Told(Head(events))
          /\ UNCHANGED <<pending, playing, opened, pause, eof, seeking, changed, over, late>>
          /\ snapshot'.path = snapshot.path
      BY <1>1 DEF HandleEvent, Told, TypeOK, Snapshots
    <2>2. /\ Head(events) \in {"file-loaded", "end-file"}
          /\ \A e : Unqueued(e) => Head(events) # e /\ Unqueued(e)'
      BY <1>1, <2>1, Popped DEF HandleEvent, TypeOK, Unqueued
    <2>3. CoreInv'
      BY <2>1 DEF CoreInv
    <2>4. StopInv'
      BY <2>1, <2>2 DEF StopInv, Told, TypeOK, Snapshots
    <2>5. LoadInv'
      BY <2>1, <2>2 DEF LoadInv, Told, TypeOK, Snapshots
    <2>6. EndInv'
      BY <2>1, <2>2 DEF EndInv, LoadInv, Told, TypeOK, Snapshots
    <2> QED BY <2>3, <2>4, <2>5, <2>6
  <1>2. ASSUME NEW p \in Properties, HandleProperty(p) PROVE PlayInv'
    <2>1. /\ UNCHANGED <<coreVars, pause, over, late>>
          /\ changed' = changed \ {p}
          /\ snapshot' = Handed(p)
      BY <1>2 DEF HandleProperty
    <2>2. snapshot'.path = snapshot.path /\ snapshot'.loaded = snapshot.loaded
      BY <2>1 DEF Handed, TypeOK, Snapshots, Properties
    <2>3. snapshot'.paused = pause' \/ (snapshot'.paused = snapshot.paused /\ p # "pause")
      BY <2>1 DEF Handed, TypeOK, Snapshots, Properties
    <2>4. snapshot'.eof_reached \in {snapshot.eof_reached, eof}
      BY <2>1 DEF Handed, TypeOK, Snapshots, Properties
    <2>5. CoreInv' /\ StopInv' /\ EndInv'
      BY <2>1, <2>2, <2>4 DEF CoreInv, StopInv, EndInv, Unqueued, coreVars
    <2>6. LoadInv'
      BY <2>1, <2>2, <2>3 DEF LoadInv, Unqueued, coreVars
    <2> QED BY <2>5, <2>6
  <1> QED BY <1>1, <1>2

LEMMA CoreKeeps ==
    ASSUME TypeOK, PlayInv, Mpv
    PROVE  PlayInv'
  <1> USE DEF PlayInv
  <1>0. snapshot' = snapshot /\ late' = late
    BY DEF Mpv, EndPlaying, TakeCommand, OpenSucceeds, ReachEnd, DoSeek, uiFrame
  <1>1. CASE EndPlaying
    <2>1. /\ playing # NoFile /\ playing' = NoFile /\ ~opened' /\ ~eof' /\ ~seeking'
          /\ pending # NoFile \/ ~opened
          /\ pending' = pending /\ pause' = pause /\ changed \subseteq changed'
          /\ playing = snapshot.path => over'
          /\ over => over'
      BY <1>1 DEF EndPlaying, Report
    <2>2. Unqueued("file-loaded") => Unqueued("file-loaded")'
      BY <1>1, Appended DEF EndPlaying, TypeOK, Unqueued
    <2>3. CoreInv' /\ StopInv' /\ EndInv'
      BY <1>0, <2>1, <2>2 DEF CoreInv, StopInv, EndInv
    <2>4. LoadInv'
      BY <1>0, <2>1, PlaybackAssumption DEF LoadInv, TypeOK, Snapshots
    <2> QED BY <2>3, <2>4
  <1>2. CASE TakeCommand
    <2>1. /\ playing = NoFile /\ pending # NoFile /\ pending' = NoFile
          /\ playing' = IF pending \in Files THEN pending ELSE NoFile
          /\ UNCHANGED <<opened, pause, eof, seeking, events, changed, over>>
      BY <1>2 DEF TakeCommand
    <2>2. CoreInv' /\ StopInv' /\ EndInv'
      BY <1>0, <2>1, PlaybackAssumption DEF CoreInv, StopInv, EndInv, Unqueued
    <2>3. LoadInv'
      BY <1>0, <2>1, PlaybackAssumption DEF LoadInv, TypeOK, Snapshots, Unqueued
    <2> QED BY <2>2, <2>3
  <1>3. CASE OpenSucceeds
    <2>1. /\ playing # NoFile /\ pending = NoFile /\ opened' /\ changed \subseteq changed'
          /\ UNCHANGED <<pending, playing, pause, eof, seeking, over>>
      BY <1>3 DEF OpenSucceeds, Report
    <2>2. Unqueued("end-file") => Unqueued("end-file")'
      BY <1>3, Appended DEF OpenSucceeds, TypeOK, Unqueued
    <2>3. CoreInv' /\ EndInv'
      BY <1>0, <2>1 DEF CoreInv, EndInv
    <2>4. StopInv'
      BY <1>0, <2>1, PlaybackAssumption DEF StopInv
    <2>5. LoadInv'
      BY <1>0, <2>1, <2>2 DEF LoadInv
    <2> QED BY <2>3, <2>4, <2>5
  <1>4. CASE ReachEnd
    <2>1. /\ opened /\ pending = NoFile
          /\ pause' = TRUE /\ (~pause => "pause" \in changed') /\ changed \subseteq changed'
          /\ playing = snapshot.path => over'
          /\ over => over'
          /\ UNCHANGED <<pending, playing, opened, seeking, events>>
      BY <1>4 DEF ReachEnd, Report, TypeOK
    <2>2. CoreInv'
      BY <2>1 DEF CoreInv
    <2>3. StopInv'
      BY <1>0, <2>1 DEF StopInv, Unqueued
    <2>4. LoadInv'
      BY <1>0, <2>1 DEF LoadInv, Unqueued, TypeOK
    <2>5. EndInv'
      BY <1>0, <2>1, PlaybackAssumption DEF EndInv, LoadInv, CoreInv, TypeOK, Snapshots
    <2> QED BY <2>2, <2>3, <2>4, <2>5
  <1>5. CASE DoSeek
    <2>1. /\ ~seeking' /\ ~eof' /\ changed \subseteq changed'
          /\ UNCHANGED <<pending, playing, opened, pause, events, over>>
      BY <1>5 DEF DoSeek, Report
    <2>2. CoreInv' /\ StopInv' /\ EndInv'
      BY <1>0, <2>1 DEF CoreInv, StopInv, EndInv, Unqueued
    <2>3. LoadInv'
      BY <1>0, <2>1 DEF LoadInv, Unqueued
    <2> QED BY <2>2, <2>3
  <1> QED BY <1>1, <1>2, <1>3, <1>4, <1>5 DEF Mpv

LEMMA StutterKeeps ==
    ASSUME PlayInv, UNCHANGED playerVars
    PROVE  PlayInv'
  BY DEF playerVars, PlayInv, CoreInv, StopInv, LoadInv, EndInv, Unqueued

LEMMA PlayInvariant == Spec => []PlayInv
<1>1. Init => PlayInv
  <2> SUFFICES ASSUME Init PROVE PlayInv
    OBVIOUS
  <2>1. snapshot.path = NoFile /\ ~snapshot.loaded
    BY DEF Init, Stopped
  <2>2. Unqueued("file-loaded")
    BY DEF Init, Unqueued
  <2> QED BY <2>1, <2>2 DEF Init, PlayInv, CoreInv, StopInv, LoadInv, EndInv
<1>2. TypeOK /\ PlayInv /\ [Next]_vars => PlayInv'
  <2> SUFFICES ASSUME TypeOK, PlayInv, [Next]_vars PROVE PlayInv'
    OBVIOUS
  <2>1. CASE User
    <3>1. ASSUME NEW f \in Files, LoadFile(f) PROVE PlayInv'
      BY <3>1, LoadKeeps
    <3>2. ASSUME Stop PROVE PlayInv'
      BY <3>2, StopKeeps
    <3>3. ASSUME UNCHANGED playerVars PROVE PlayInv'
      BY <3>3, StutterKeeps
    <3>4. ASSUME TogglePause \/ Seek PROVE PlayInv'
      BY <3>4, PressKeeps
    <3> QED
      BY <2>1, <3>1, <3>2, <3>3, <3>4
      DEF User, AcceptLocal, SelectFile, AcceptTorrent, AcceptOther, PressStop, PressPause, PressSeek, Files
  <2>2. CASE Render
    <3>1. CASE StartFrame
      BY <3>1, StutterKeeps DEF StartFrame
    <3>2. CASE EndFrame
      BY <3>2, StutterKeeps, StopKeeps DEF EndFrame
    <3> QED
      BY <2>2, <3>1, <3>2, EventsKeep DEF Render
  <2>3. CASE Mpv
    BY <2>3, CoreKeeps
  <2>4. CASE UNCHANGED vars
    BY <2>4, StutterKeeps DEF vars
  <2> QED
    BY <2>1, <2>2, <2>3, <2>4 DEF Next
<1> QED
  BY <1>1, <1>2, TypeCorrect, PTL DEF Spec

-----------------------------------------------------------------------------
(* What follows from it *)

\* A stop that crosses no event of its file leaves no player page behind.
THEOREM NothingIsShownAfterStop == Spec => []NothingShownAfterStop
<1>1. PlayInv => NothingShownAfterStop
  BY DEF PlayInv, StopInv, NothingShownAfterStop, HasFile
<1> QED
  BY <1>1, PlayInvariant, PTL

\* The pause the snapshot shows is mpv's, for a file that replaced no other.
THEOREM PauseIsShown == Spec => []PauseShown
<1>1. PlayInv => PauseShown
  <2> SUFFICES ASSUME PlayInv, Settled, playing # NoFile, ~late PROVE snapshot.paused = pause
    BY DEF PauseShown
  <2>1. snapshot.path # NoFile
    BY PlaybackAssumption DEF PlayInv, StopInv, Settled
  <2> QED
    BY <2>1 DEF PlayInv, LoadInv, Settled
<1> QED
  BY <1>1, PlayInvariant, PTL

\* The return to the browser stops no file that has not ended.
THEOREM OnlyTheEndedIsStopped == Spec => OnlyEndedIsStopped
<1>1. TypeOK /\ PlayInv /\ [Next]_vars =>
        [frame = "events" /\ snapshot.path \in Films /\ snapshot'.path = NoFile => over \/ late]_vars
  <2> SUFFICES ASSUME TypeOK, PlayInv, Next,
                      frame = "events", snapshot.path \in Films, snapshot'.path = NoFile
               PROVE  over \/ late
    OBVIOUS
  <2>1. snapshot.path # NoFile
    BY PlaybackAssumption DEF Files
  <2>2. ~User /\ ~StartFrame
    BY DEF User, AcceptLocal, SelectFile, AcceptTorrent, AcceptOther, PressStop, PressPause,
           PressSeek, Input, StartFrame
  <2>3. ~Mpv
    BY <2>1 DEF Mpv, EndPlaying, TakeCommand, OpenSucceeds, ReachEnd, DoSeek, uiFrame
  <2>4. ~HandleEvent
    BY <2>1 DEF HandleEvent, Told, TypeOK, Snapshots
  <2>5. ASSUME NEW p \in Properties PROVE ~HandleProperty(p)
    BY <2>1 DEF HandleProperty, Handed, TypeOK, Snapshots, Properties
  <2>6. EndFrame
    BY <2>2, <2>3, <2>4, <2>5 DEF Next, Render
  <2>7. snapshot.eof_reached
    BY <2>1, <2>6 DEF EndFrame, playerVars
  <2> QED
    BY <2>1, <2>7 DEF PlayInv, EndInv
<1> QED
  BY <1>1, TypeCorrect, PlayInvariant, PTL DEF Spec, OnlyEndedIsStopped
=============================================================================
