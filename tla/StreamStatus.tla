---------------------------- MODULE StreamStatus ----------------------------
(***************************************************************************)
(* What the player is told of a stream while it waits: PieceStream beside  *)
(* the scheduler's record of the pieces asked for, the stall timer that    *)
(* poll_status runs every half second, and the status it publishes.        *)
(*                                                                         *)
(* Time goes by in half seconds, the period both of the reader's wait and  *)
(* of the poll; in each of them the reader, if it waits, asks again, and   *)
(* the service polls.  Everything else takes no time.  Which deadlines the *)
(* timer renews in libtorrent is left out: they only order downloads.      *)
(***************************************************************************)
EXTENDS PieceStream

CONSTANTS
    Timeout,        \* stalled_timeout, in half seconds, one at least
    Advertised      \* the pieces, of those of the torrent, that a connected peer has

VARIABLES
    deadlines,      \* deadline_pieces_
    asked,          \* requested_at_: for how long, of the pieces there are in it
    stalled,        \* stalled_
    snapshot,       \* buffering and stalled, as published
    due,            \* what is to come in this half second
    waited, seen    \* history: half seconds since the read under way began, or its piece
                    \* was last had, and whether "Stalled" was shown in it

askVars == <<deadlines, asked, stalled>>
shownVars == <<snapshot, due>>
allVars == <<vars, askVars, shownVars, waited, seen>>

NoneAsked == [p \in {} |-> 0]

\* urgent_piece_ is written with last_file_position_, always.
Urgent == PieceAt(FileOffset + lastPosition)

StatusInit ==
    /\ Init
    /\ deadlines = Built(0).scheduled
    /\ asked = NoneAsked /\ stalled = FALSE
    /\ snapshot = [buffering |-> FALSE, stalled |-> FALSE]
    /\ due = {"status"}
    /\ waited = 0 /\ seen = FALSE

\* The history of a read ends with it; a piece that was had is waited for from then on.
History ==
    /\ waited' = IF reader' = "idle" \/ torrent' # "present" \/ ReaderPiece \in have'
                    \/ ReaderPiece \in alerts'
                 THEN 0 ELSE waited
    /\ seen' = (seen /\ reader' # "idle")

\* The window moves, and with it the pieces that have a deadline: on_seek forgets what
\* was asked for, a read and a change of the policy do not.
SeekAsks ==
    /\ OnSeek
    /\ deadlines' = Built(position).scheduled
    /\ asked' = NoneAsked /\ stalled' = FALSE
    /\ UNCHANGED shownVars

ReadAsks ==
    /\ \E bytes \in ReadSizes : Read(bytes)
    /\ deadlines' = Built(position).scheduled
    /\ UNCHANGED <<asked, stalled, shownVars>>

RescheduleAsks ==
    /\ Reschedule
    /\ deadlines' = Built(uiPosition).scheduled
    /\ UNCHANGED <<asked, stalled, shownVars>>

\* request_urgent_piece, called every time the wait ends without the piece.
RequestUrgentPiece ==
    /\ RequestPiece
    /\ IF torrent = "gone" THEN UNCHANGED <<deadlines, asked>>
       ELSE /\ deadlines' = deadlines \cup {ReaderPiece}
            /\ asked' = [p \in DOMAIN asked \cup {ReaderPiece} |->
                            IF p = ReaderPiece THEN 0 ELSE asked[p]]
    /\ UNCHANGED <<stalled, shownVars>>

\* on_piece_finished, from the alert of a torrent that is still owned.
PieceFinished(p) ==
    /\ ProcessAlert(p)
    /\ IF torrent = "gone" THEN UNCHANGED <<asked, stalled>>
       ELSE asked' = [q \in DOMAIN asked \ {p} |-> asked[q]] /\ stalled' = FALSE
    /\ UNCHANGED <<deadlines, shownVars>>

PollAgain ==
    /\ Poll
    /\ due' = due \ {"poll"}
    /\ UNCHANGED <<askVars, snapshot>>

\* check_stalled: the pieces asked for long ago, which are asked for anew.
Late == {p \in DOMAIN asked : asked[p] >= Timeout}

\* log_playback_status: no connected peer advertises the piece.  (That no seed is known
\* is asked too, and taken for granted here.)
BlockedReason == Urgent \notin Advertised

\* snapshot()'s buffering
Buffering == Urgent \in FilePieces /\ Urgent \notin have

\* What the overlay shows over the picture, of a torrent without an error.
Heading(view) ==
    IF view.stalled THEN "Stalled" ELSE IF view.buffering THEN "Buffering" ELSE "playback"

PollStatus ==
    /\ torrent = "present" /\ ui = "idle"
    /\ "status" \in due
    /\ stalled' = (Late # {})
    /\ asked' = [p \in DOMAIN asked |-> IF p \in Late THEN 0 ELSE asked[p]]
    /\ snapshot' = [buffering |-> Buffering \/ BlockedReason, stalled |-> stalled' \/ BlockedReason]
    /\ due' = due \ {"status"}
    /\ seen' = (seen \/ (reader # "idle" /\ Heading(snapshot') = "Stalled"))
    /\ UNCHANGED <<vars, deadlines, waited>>

\* Half a second goes by.
Tick ==
    /\ ui = "idle" /\ reader \in {"idle", "wait"}
    /\ torrent = "present" => "status" \notin due
    /\ reader = "wait" => "poll" \notin due
    /\ asked' = [p \in DOMAIN asked |-> AtMost(asked[p] + 1, Timeout)]
    /\ due' = {"status"} \cup (IF reader = "wait" THEN {"poll"} ELSE {})
    /\ waited' = IF reader = "wait" /\ torrent = "present" /\ ReaderPiece \notin have \cup alerts
                 THEN AtMost(waited + 1, Timeout + 2) ELSE 0
    /\ UNCHANGED <<vars, deadlines, stalled, snapshot, seen>>

\* The steps that neither ask nor answer.
Elsewhere ==
    /\ \/ \E offset \in 0 .. FileSize : Seek(offset)
       \/ ReaderApply \/ Try \/ Copy \/ Enter \/ CopyWaiting
       \/ Cancel
       \/ \E limit \in Limits : SetCacheLimit(limit)
       \/ SetPolicy \/ TakePosition \/ UIApply
       \/ ClearCurrent
       \/ \E p \in Piece : Arrive(p) \/ Hash(p)
       \/ Checked \/ Removed
    /\ UNCHANGED <<askVars, shownVars>>

StreamStep ==
    /\ \/ SeekAsks \/ ReadAsks \/ RescheduleAsks \/ RequestUrgentPiece
       \/ \E p \in Piece : PieceFinished(p)
       \/ PollAgain
       \/ Elsewhere
    /\ History

StatusNext == StreamStep \/ PollStatus \/ Tick

StatusSpec == StatusInit /\ [][StatusNext]_allVars

-----------------------------------------------------------------------------
(* Properties *)

\* A read that has waited for the timeout and another second has been shown as stalled,
\* whoever advertises the piece that does not come.
StalledIsShown == waited > Timeout + 1 => seen
=============================================================================
