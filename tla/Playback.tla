------------------------------ MODULE Playback ------------------------------
(***************************************************************************)
(* MpvPlayer and the frame loop of Application: what the user commands, the *)
(* events mpv answers with a frame or more later, the playback snapshot the *)
(* pages are drawn from, and the return to the file browser when a torrent's *)
(* file has ended.                                                          *)
(*                                                                         *)
(* mpv is external.  Its core carries commands out in its own thread; its   *)
(* client queue holds the events of files, and changes of properties are    *)
(* handed out when the queue is empty.  A seek past the end, a pause at the *)
(* end (keep-open) and a failed open are mpv's choice.                      *)
(***************************************************************************)
EXTENDS Naturals, Sequences

CONSTANTS
    Films,          \* files of torrents: paths that start with torrview://
    Clips,          \* local files
    NoFile,         \* the empty path
    StopCommand,
    MaxEvents       \* bound: nothing is loaded while so many events are queued

Files == Films \cup Clips

ASSUME PlaybackAssumption ==
    /\ Films \cap Clips = {}
    /\ NoFile \notin Files /\ StopCommand \notin Files /\ NoFile # StopCommand
    /\ MaxEvents \in Nat

VARIABLES
    (* MpvPlayer and Application *)
    snapshot,       \* snapshot_
    frame,          \* input: SDL's events are handled; events: process_events runs
    listing,        \* the torrent service is not idle
    drawn,          \* page of the last layout
    pointed,        \* page whose layout the pointer was tested against
    (* mpv *)
    pending,        \* a file to load, or StopCommand; NoFile for no command
    playing,        \* the file that is being opened or played
    opened,         \* its playback has begun
    pause, eof,     \* the properties pause and eof-reached
    seeking,        \* a seek is queued
    events,         \* the client's queue
    changed,        \* properties with a change to hand out
    (* history *)
    over,           \* the file shown has failed, been ended or come to its end
    late            \* mpv was behind when the last load or stop was commanded

playerVars == <<snapshot, pending, playing, opened, pause, eof, seeking, events, changed, over, late>>
coreVars == <<pending, playing, opened, eof, seeking, events>>
pageVars == <<listing, drawn, pointed>>
vars == <<playerVars, frame, pageVars>>

Pages == {"title", "browser", "player"}
Properties == {"pause", "eof-reached"}
Snapshots == [loaded : BOOLEAN, paused : BOOLEAN, eof_reached : BOOLEAN, path : Files \cup {NoFile}]

TypeOK ==
    /\ snapshot \in Snapshots
    /\ frame \in {"input", "events"} /\ listing \in BOOLEAN
    /\ drawn \in Pages /\ pointed \in Pages
    /\ pending \in Files \cup {NoFile, StopCommand} /\ playing \in Files \cup {NoFile}
    /\ opened \in BOOLEAN /\ pause \in BOOLEAN /\ eof \in BOOLEAN /\ seeking \in BOOLEAN
    /\ events \in Seq({"file-loaded", "end-file"})
    /\ changed \subseteq Properties
    /\ over \in BOOLEAN /\ late \in BOOLEAN

\* What stop() leaves of the snapshot; the player starts with the same.
Stopped == [loaded |-> FALSE, paused |-> TRUE, eof_reached |-> FALSE, path |-> NoFile]

\* initialize() pauses mpv and observes the properties, which reports each once.
Init ==
    /\ snapshot = Stopped
    /\ frame = "input" /\ listing = FALSE /\ drawn = "title" /\ pointed = "title"
    /\ pending = NoFile /\ playing = NoFile /\ opened = FALSE
    /\ pause = TRUE /\ eof = FALSE /\ seeking = FALSE
    /\ events = <<>> /\ changed = Properties
    /\ over = FALSE /\ late = FALSE

HasFile == snapshot.loaded \/ snapshot.path # NoFile

\* Mutant: nothing is drawn while the service is idle.
PageOrNone(snap) ==
    IF snap.loaded \/ snap.path # NoFile THEN "player"
    ELSE IF listing THEN "browser" ELSE "none"

\* render()'s choice; the settings page comes before them and is left out.
Page(snap) ==
    IF snap.loaded \/ snap.path # NoFile THEN "player"
    ELSE IF listing THEN "browser" ELSE "title"

\* mpv reports a change of a property once, however often the property changed.
Report(properties) == changed' = changed \cup properties
SetPause(p) == pause' = p /\ Report(IF p # pause THEN {"pause"} ELSE {})

-----------------------------------------------------------------------------
(* MpvPlayer: commands, given on the UI thread *)

\* mpv has not carried out a command, or has told of it and was not heard.
Behind == pending # NoFile \/ playing # NoFile \/ events # <<>>

\* Mutant: the end of the file before is not forgotten.
LoadingEnded(f) == [snapshot EXCEPT !.loaded = TRUE, !.paused = FALSE, !.path = f]

Loading(f) == [loaded |-> TRUE, paused |-> FALSE, eof_reached |-> FALSE, path |-> f]

LoadFile(f) ==
    /\ pending' = f
    /\ SetPause(FALSE)
    /\ snapshot' = Loading(f)
    /\ over' = FALSE /\ late' = Behind
    /\ UNCHANGED <<playing, opened, eof, seeking, events>>

\* Mutant: mpv is not told.
StopSnapshotOnly ==
    /\ snapshot' = Stopped
    /\ late' = (events # <<>>)
    /\ UNCHANGED <<pending, playing, opened, pause, eof, seeking, events, changed, over>>

Stop ==
    /\ pending' = StopCommand
    /\ snapshot' = Stopped
    /\ late' = (events # <<>>)
    /\ UNCHANGED <<playing, opened, pause, eof, seeking, events, changed, over>>

\* mpv refuses a seek before the file is open; the snapshot is changed all the same.
QueueSeek == seeking' = (seeking \/ opened)

Seek ==
    /\ snapshot.loaded
    /\ QueueSeek
    /\ snapshot' = [snapshot EXCEPT !.eof_reached = FALSE]
    /\ UNCHANGED <<pending, playing, opened, pause, eof, events, changed, over, late>>

TogglePause ==
    /\ snapshot.loaded
    /\ IF snapshot.eof_reached
       THEN /\ QueueSeek
            /\ SetPause(FALSE)
            /\ snapshot' = [snapshot EXCEPT !.paused = FALSE, !.eof_reached = FALSE]
       ELSE /\ SetPause(~snapshot.paused)
            /\ snapshot' = [snapshot EXCEPT !.paused = ~@]
            /\ UNCHANGED seeking
    /\ UNCHANGED <<pending, playing, opened, eof, events, over, late>>

-----------------------------------------------------------------------------
(* Application: inputs, clicks and keys between two frames *)

Input == frame = "input" /\ UNCHANGED <<frame, drawn, pointed>>

AcceptLocal(f) == Input /\ Len(events) < MaxEvents /\ listing' = FALSE /\ LoadFile(f)

AcceptTorrent ==
    /\ Input /\ listing' = TRUE
    /\ IF HasFile THEN Stop ELSE UNCHANGED playerVars

AcceptOther == Input /\ listing' = FALSE /\ UNCHANGED playerVars

\* A row is hit if the browser was the page the pointer was tested against.
SelectFile(f) ==
    /\ Input /\ ~HasFile /\ listing /\ pointed = "browser"
    /\ Len(events) < MaxEvents
    /\ LoadFile(f)
    /\ UNCHANGED listing

\* The overlay's buttons and the keys.
PressStop == Input /\ HasFile /\ pointed = "player" /\ Stop /\ UNCHANGED listing
PressPause == Input /\ HasFile /\ TogglePause /\ UNCHANGED listing
PressSeek == Input /\ HasFile /\ Seek /\ UNCHANGED listing

User ==
    \/ \E f \in Clips : AcceptLocal(f)
    \/ \E f \in Films : SelectFile(f)
    \/ AcceptTorrent \/ AcceptOther \/ PressStop \/ PressPause \/ PressSeek

-----------------------------------------------------------------------------
(* render(): process_events, the return to the browser, the choice of the page *)

StartFrame == frame = "input" /\ frame' = "events" /\ UNCHANGED <<playerVars, pageVars>>

\* Mutant: the end of a file is left to the property eof-reached.
ToldLoadedOnly(event) ==
    IF event = "file-loaded" THEN [snapshot EXCEPT !.loaded = TRUE, !.eof_reached = FALSE]
    ELSE [snapshot EXCEPT !.paused = TRUE]

\* The snapshot after an event of a file, whichever file it was.
Told(event) ==
    IF event = "file-loaded" THEN [snapshot EXCEPT !.loaded = TRUE, !.eof_reached = FALSE]
    ELSE [snapshot EXCEPT !.paused = TRUE, !.eof_reached = TRUE]

HandleEvent ==
    /\ frame = "events" /\ events # <<>>
    /\ events' = Tail(events)
    /\ snapshot' = Told(Head(events))
    /\ UNCHANGED <<pending, playing, opened, pause, eof, seeking, changed, over, late, frame, pageVars>>

\* Mutant: pause is not handled.
HandedEofOnly(property) ==
    IF property = "eof-reached" /\ opened THEN [snapshot EXCEPT !.eof_reached = eof] ELSE snapshot

\* handle_property.  eof-reached has no value while no file is open, and is then ignored.
Handed(property) ==
    CASE property = "pause" -> [snapshot EXCEPT !.paused = pause]
      [] property = "eof-reached" /\ opened -> [snapshot EXCEPT !.eof_reached = eof]
      [] OTHER -> snapshot

\* Properties come when the queue is empty.
HandleProperty(property) ==
    /\ frame = "events" /\ events = <<>> /\ property \in changed
    /\ changed' = changed \ {property}
    /\ snapshot' = Handed(property)
    /\ UNCHANGED <<coreVars, pause, over, late, frame, pageVars>>

\* mpv_wait_event has nothing more; return_to_torrent_file_browser_after_eof, and the
\* page.  Clay tests the pointer before the new layout, against the one before.
EndFrame ==
    /\ frame = "events" /\ events = <<>> /\ changed = {}
    /\ frame' = "input"
    /\ IF snapshot.eof_reached /\ snapshot.path \in Films THEN Stop ELSE UNCHANGED playerVars
    /\ pointed' = drawn
    /\ drawn' = Page(snapshot')
    /\ UNCHANGED listing

Render == StartFrame \/ HandleEvent \/ (\E p \in Properties : HandleProperty(p)) \/ EndFrame

-----------------------------------------------------------------------------
(* mpv's core *)

uiFrame == <<frame, pageVars, snapshot, late>>

\* What was opened or played ends, for a command or because it cannot be opened.
EndPlaying ==
    /\ playing # NoFile
    /\ pending # NoFile \/ ~opened
    /\ over' = (over \/ playing = snapshot.path)
    /\ playing' = NoFile /\ opened' = FALSE /\ eof' = FALSE /\ seeking' = FALSE
    /\ events' = Append(events, "end-file")
    /\ Report(IF opened THEN {"eof-reached"} ELSE {})
    /\ UNCHANGED <<pending, pause, uiFrame>>

TakeCommand ==
    /\ playing = NoFile /\ pending # NoFile
    /\ playing' = IF pending \in Files THEN pending ELSE NoFile
    /\ pending' = NoFile
    /\ UNCHANGED <<opened, pause, eof, seeking, events, changed, over, uiFrame>>

OpenSucceeds ==
    /\ playing # NoFile /\ ~opened /\ pending = NoFile
    /\ opened' = TRUE
    /\ events' = Append(events, "file-loaded")
    /\ Report({"eof-reached"})
    /\ UNCHANGED <<pending, playing, pause, eof, seeking, over, uiFrame>>

\* keep-open: at its end the file stays, paused.
ReachEnd ==
    /\ opened /\ ~eof /\ ~seeking /\ pending = NoFile
    /\ eof' = TRUE /\ pause' = TRUE
    /\ Report({"eof-reached"} \cup IF pause THEN {} ELSE {"pause"})
    /\ over' = (over \/ playing = snapshot.path)
    /\ UNCHANGED <<pending, playing, opened, seeking, events, uiFrame>>

DoSeek ==
    /\ seeking /\ pending = NoFile
    /\ seeking' = FALSE /\ eof' = FALSE
    /\ Report(IF eof THEN {"eof-reached"} ELSE {})
    /\ UNCHANGED <<pending, playing, opened, pause, events, over, uiFrame>>

Mpv == EndPlaying \/ TakeCommand \/ OpenSucceeds \/ ReachEnd \/ DoSeek

Next == User \/ Render \/ Mpv

\* The loop of run() goes on; of mpv and of the user nothing is asked.
Spec == Init /\ [][Next]_vars /\ WF_vars(Render)

-----------------------------------------------------------------------------
(* Properties *)

\* mpv and the player have nothing more to tell each other.
Settled ==
    /\ frame = "input" /\ events = <<>> /\ changed = {}
    /\ pending = NoFile /\ ~seeking /\ (playing # NoFile => opened)

\* After a stop the player page goes and stays away, however the file's own events and
\* the stop cross, unless one was already queued: FILE_LOADED sets loaded again for a
\* path that stop() has cleared.
NothingShownAfterStop ==
    Settled /\ snapshot.path = NoFile /\ ~late => ~HasFile

\* The button shows what Space will change: the snapshot's pause is mpv's when all is
\* settled, through toggles, seeks, the end of the file and the pause that comes with it.
\* A file that replaced another is the exception that PauseAlwaysShown is about.
PauseShown ==
    Settled /\ playing # NoFile /\ ~late => snapshot.paused = pause

\* The same for a file that was loaded over another: END_FILE of the file it replaced
\* sets paused, FILE_LOADED leaves it, and mpv's property does not change.
PauseAlwaysShown == Settled /\ playing # NoFile => snapshot.paused = pause

\* A frame stops a torrent's file that has ended or failed, never one that is still
\* loading because of the end of the file before it, if mpv had dealt with that one.
OnlyEndedIsStopped ==
    [][frame = "events" /\ snapshot.path \in Films /\ snapshot'.path = NoFile =>
        over \/ late]_vars

\* A torrent's file that mpv is done with, by an error or at its end, gives way to the
\* file browser: no order of events leaves the player page on it.
EndedReturnsToBrowser ==
    \A f \in Films :
        (snapshot.path = f /\ pending = NoFile /\ (playing # f \/ (eof /\ ~seeking))) ~>
            (snapshot.path # f \/ seeking)
=============================================================================
