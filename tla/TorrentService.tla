--------------------------- MODULE TorrentService ---------------------------
(***************************************************************************)
(* TorrentService::Impl (torrent_service.cpp:1322-1900): loads, alerts,     *)
(* generations, and the opening of streams on mpv's thread, which reads     *)
(* handle_, stream_generation_ and cache_policy_ without a lock while the   *)
(* UI thread changes them.                                                  *)
(*                                                                         *)
(* Inputs are numbered, and the torrent an input adds has its number; 0 is  *)
(* no torrent, and an invalid handle.  The session and mpv are external.    *)
(***************************************************************************)
EXTENDS Naturals, Sequences

CONSTANTS
    MaxLoads,       \* bound on the inputs accepted
    MaxLimits,      \* bound on the changes of the cache limit
    Kinds           \* kinds of input, among those of InputKinds

\* "other" stands for dropped_text and unsupported_file.
InputKinds == {"file", "magnet", "local", "other"}

ASSUME ServiceAssumption ==
    /\ MaxLoads \in Nat \ {0}
    /\ MaxLimits \in Nat
    /\ Kinds \subseteq InputKinds

VARIABLES
    (* TorrentService::Impl *)
    handle,         \* handle_
    generation,     \* stream_generation_
    snapshot,       \* snapshot_: whose files it lists, for which input
    scheduler,      \* active_scheduler_
    limit,          \* cache_policy_, as the number of changes made to it
    (* the UI thread *)
    ui,             \* idle, or in clear_current: before remove_torrent, before the reset
    input,          \* kind of the input being accepted
    target,         \* generation of the URI the player was given, 0 for none
    (* mpv *)
    command,        \* a loadfile or stop that mpv has not carried out
    opener,         \* where open_torrent_stream is; open or failed once it returned
    uri, info, built,   \* its locals: URI's generation, torrent_info, new scheduler
    stream,         \* the stream it returned
    (* libtorrent's session *)
    torrent,        \* what has become of each torrent
    infos,          \* torrents whose metadata is there
    broken,         \* torrents with an error (status.errc)
    slots,          \* the disk's storages: the torrent in each, 0 in a free one
    freeSlots,
    alerts,
    (* the process *)
    terminated,     \* an exception has left the UI loop or a callback of mpv
    (* history *)
    crossed         \* an input came before the session had dealt with the one before

serviceVars == <<handle, generation, snapshot, scheduler, limit>>
uiVars == <<ui, input, target>>
mpvVars == <<command, opener, uri, info, built, stream>>
sessionVars == <<torrent, infos, broken, slots, freeSlots, alerts>>
vars == <<serviceVars, uiVars, mpvVars, sessionVars, terminated, crossed>>

Load == 1 .. MaxLoads
Handles == 0 .. MaxLoads
Generations == 0 .. MaxLoads + 1
Snapshots == [source : Handles, state : {"idle", "loading_metadata", "ready", "error"},
              has_metadata : BOOLEAN, files : Handles]
Schedulers == [generation : Generations, handle : Handles, limit : 0 .. MaxLimits]
Streams == [generation : Generations, handle : Handles, info : Handles, cancelled : BOOLEAN]
Alerts == [kind : {"add", "metadata", "failure"}, of : Load]

NoScheduler == [generation |-> 0, handle |-> 0, limit |-> 0]
NoStream == [generation |-> 0, handle |-> 0, info |-> 0, cancelled |-> FALSE]
Cleared == [source |-> 0, state |-> "idle", has_metadata |-> FALSE, files |-> 0]

TypeOK ==
    /\ handle \in Handles /\ generation \in Generations \ {0} /\ snapshot \in Snapshots
    /\ scheduler \in Schedulers /\ limit \in 0 .. MaxLimits
    /\ ui \in {"idle", "remove", "reset"} /\ input \in InputKinds /\ target \in Generations
    /\ command \in BOOLEAN
    /\ opener \in {"idle", "start", "handle", "info", "build", "publish", "create", "open", "failed"}
    /\ uri \in Generations /\ info \in Handles /\ built \in Schedulers /\ stream \in Streams
    /\ torrent \in [Load -> {"none", "adding", "present", "removing", "gone"}]
    /\ infos \subseteq Load /\ broken \subseteq Load
    /\ slots \in Seq(Handles) /\ freeSlots \in Seq(Nat)
    /\ alerts \in Seq(Alerts)
    /\ terminated \in BOOLEAN /\ crossed \in BOOLEAN

Init ==
    /\ handle = 0 /\ generation = 1 /\ snapshot = Cleared
    /\ scheduler = NoScheduler /\ limit = 0
    /\ ui = "idle" /\ input = "local" /\ target = 0
    /\ command = FALSE /\ opener = "idle" /\ uri = 0 /\ info = 0
    /\ built = NoScheduler /\ stream = NoStream
    /\ torrent = [l \in Load |-> "none"] /\ infos = {} /\ broken = {}
    /\ slots = <<>> /\ freeSlots = <<>> /\ alerts = <<>>
    /\ terminated = FALSE /\ crossed = FALSE

\* torrent_handle::is_valid: the torrent object still exists.
IsValid(h) == h # 0 /\ torrent[h] # "gone"

Cancelled(s) == IF s = NoStream THEN s ELSE [s EXCEPT !.cancelled = TRUE]

\* Mutant: the state is left as it was.
ReadyUnannounced(snap, l) == [snap EXCEPT !.files = l, !.has_metadata = TRUE]

\* set_files and what every place that calls it sets with it.
Ready(snap, l) == [snap EXCEPT !.files = l, !.has_metadata = TRUE, !.state = "ready"]

\* Mutant: the state of a build without libtorrent.
FailUnavailable(snap) == [snap EXCEPT !.files = 0, !.has_metadata = FALSE, !.state = "unavailable"]

\* Mutant: the file lists are not cleared.
FailKeepingFiles(snap) == [snap EXCEPT !.has_metadata = FALSE, !.state = "error"]

Fail(snap) == [snap EXCEPT !.files = 0, !.has_metadata = FALSE, !.state = "error"]

-----------------------------------------------------------------------------
(* The UI thread: inputs *)

\* The session has acknowledged every torrent and the UI has seen every alert.
Settled == alerts = <<>> /\ \A l \in Load : torrent[l] # "adding"

\* Mutant: what plays is not stopped.
AcceptWhilePlaying(kind) ==
    /\ ui = "idle" /\ generation <= MaxLoads
    /\ crossed' = (crossed \/ ~Settled)
    /\ input' = kind
    /\ ui' = "remove"
    /\ stream' = Cancelled(stream)
    /\ UNCHANGED <<serviceVars, target, command, opener, uri, info, built, sessionVars, terminated>>

\* Application::accept_input stops the player for a torrent; clear_current begins.  The
\* text or file of another kind resets the service and leaves the player alone.
Accept(kind) ==
    /\ ui = "idle" /\ generation <= MaxLoads
    /\ crossed' = (crossed \/ ~Settled)
    /\ input' = kind
    /\ ui' = "remove"
    /\ stream' = Cancelled(stream)
    /\ IF kind \in {"file", "magnet"} /\ target # 0
       THEN target' = 0 /\ command' = TRUE
       ELSE UNCHANGED <<target, command>>
    /\ UNCHANGED <<serviceVars, opener, uri, info, built, sessionVars, terminated>>

\* Mutant: the handle goes, the torrent stays.
DropHandle ==
    /\ ui = "remove"
    /\ ui' = "reset"
    /\ handle' = 0
    /\ UNCHANGED <<generation, snapshot, scheduler, limit, input, target, mpvVars, sessionVars,
                   terminated, crossed>>

\* Mutant: the torrent goes, the handle stays.
RemoveKeepingHandle ==
    /\ ui = "remove"
    /\ ui' = "reset"
    /\ torrent' = IF IsValid(handle) THEN [torrent EXCEPT ![handle] = "removing"] ELSE torrent
    /\ UNCHANGED <<serviceVars, input, target, mpvVars, infos, broken, slots, freeSlots, alerts,
                   terminated, crossed>>

RemoveTorrent ==
    /\ ui = "remove"
    /\ ui' = "reset"
    /\ IF IsValid(handle)
       THEN torrent' = [torrent EXCEPT ![handle] = "removing"] /\ handle' = 0
       ELSE UNCHANGED <<torrent, handle>>
    /\ UNCHANGED <<generation, snapshot, scheduler, limit, input, target, mpvVars,
                   infos, broken, slots, freeSlots, alerts, terminated, crossed>>

\* The rest of clear_current and of the load.
Reset(snap) ==
    /\ ui = "reset"
    /\ ui' = "idle"
    /\ generation' = generation + 1
    /\ snapshot' = snap
    /\ scheduler' = NoScheduler
    /\ UNCHANGED <<handle, limit, input, opener, uri, info, built, stream,
                   broken, slots, freeSlots, alerts, terminated, crossed>>

\* The torrent that async_add_torrent is given has the number of this input.
AddTorrent == torrent' = [torrent EXCEPT ![generation] = "adding"] /\ UNCHANGED <<target, command>>

\* Mutant: the snapshot of the input before is not reset.
LoadingAnew == [snapshot EXCEPT !.source = generation, !.state = "loading_metadata"]

Loading == [Cleared EXCEPT !.source = generation, !.state = "loading_metadata"]

\* A .torrent shows its files before the session has it.
LoadTorrentFile ==
    /\ input = "file"
    /\ Reset(Ready(Loading, generation)) /\ AddTorrent
    /\ infos' = infos \cup {generation}

LoadMagnet == input = "magnet" /\ Reset(Loading) /\ AddTorrent /\ UNCHANGED infos

\* A file or a link that does not parse.
LoadFails ==
    input \in {"file", "magnet"} /\ Reset(Fail(Loading)) /\ UNCHANGED <<torrent, infos, target, command>>

\* A local file takes the player over.
LoadLocal ==
    /\ input = "local"
    /\ Reset(Cleared)
    /\ target' = 0 /\ command' = TRUE
    /\ UNCHANGED <<torrent, infos>>

LoadNothing == input = "other" /\ Reset(Cleared) /\ UNCHANGED <<torrent, infos, target, command>>

-----------------------------------------------------------------------------
(* The UI thread: alerts, status, the user's other actions *)

\* process_alerts, for the first alert.  torrent_file() throws on a handle that is no
\* longer valid, which only the add alert's case asks before.
ProcessAlert ==
    /\ ui = "idle" /\ alerts # <<>>
    /\ alerts' = Tail(alerts)
    /\ LET l == Head(alerts).of IN
       \/ /\ Head(alerts).kind = "add"
          /\ handle' = l
          /\ snapshot' = IF IsValid(l) /\ l \in infos THEN Ready(snapshot, l) ELSE snapshot
          /\ UNCHANGED terminated
       \/ /\ Head(alerts).kind = "metadata"
          /\ handle' = l
          /\ IF IsValid(l)
             THEN snapshot' = Ready(snapshot, l) /\ UNCHANGED terminated
             ELSE terminated' = TRUE /\ UNCHANGED snapshot
       \/ /\ Head(alerts).kind = "failure"
          /\ snapshot' = Fail(snapshot)
          /\ UNCHANGED <<handle, terminated>>
    /\ UNCHANGED <<generation, scheduler, limit, uiVars, mpvVars, torrent, infos, broken, slots, freeSlots,
                   crossed>>

PollStatus ==
    /\ ui = "idle" /\ IsValid(handle)
    /\ snapshot' = IF handle \in broken THEN Fail(snapshot)
                   ELSE [snapshot EXCEPT !.has_metadata = @ \/ handle \in infos]
    /\ UNCHANGED <<handle, generation, scheduler, limit, uiVars, mpvVars, sessionVars, terminated, crossed>>

\* A click on a file of the list, which is shown while nothing plays;
\* stream_uri_for_file gives no URI without a handle and metadata.
SelectFile ==
    /\ ui = "idle" /\ target = 0 /\ snapshot.files # 0
    /\ IsValid(handle) /\ snapshot.has_metadata
    /\ target' = generation
    /\ command' = TRUE
    /\ UNCHANGED <<serviceVars, ui, input, opener, uri, info, built, stream, sessionVars, terminated, crossed>>

\* The stop button, or the end of the file.
StopPlayback ==
    /\ ui = "idle" /\ target # 0
    /\ target' = 0
    /\ command' = TRUE
    /\ UNCHANGED <<serviceVars, ui, input, opener, uri, info, built, stream, sessionVars, terminated, crossed>>

SetCacheLimit ==
    /\ ui = "idle" /\ limit < MaxLimits
    /\ limit' = limit + 1
    /\ scheduler' = IF scheduler = NoScheduler THEN scheduler
                    ELSE [scheduler EXCEPT !.limit = limit']
    /\ UNCHANGED <<handle, generation, snapshot, uiVars, mpvVars, sessionVars, terminated, crossed>>

-----------------------------------------------------------------------------
(* mpv's thread: open_torrent_stream *)

openerFrame == <<serviceVars, uiVars, sessionVars, crossed>>

\* mpv takes up the loadfile and calls the open callback with its URI.
StartOpen ==
    /\ opener = "idle" /\ command /\ target # 0
    /\ opener' = "start" /\ command' = FALSE
    /\ uri' = target
    /\ UNCHANGED <<info, built, stream, openerFrame, terminated>>

CheckGeneration ==
    /\ opener = "start"
    /\ opener' = IF uri = generation THEN "handle" ELSE "failed"
    /\ UNCHANGED <<command, uri, info, built, stream, openerFrame, terminated>>

CheckHandle ==
    /\ opener = "handle"
    /\ opener' = IF IsValid(handle) THEN "info" ELSE "failed"
    /\ UNCHANGED <<command, uri, info, built, stream, openerFrame, terminated>>

\* Nothing is left for cancel_streams: mpv closes a stream before it opens the next.
TakeInfo ==
    /\ opener = "info"
    /\ IF IsValid(handle)
       THEN /\ info' = handle
            /\ opener' = IF handle \in infos THEN "build" ELSE "failed"
            /\ UNCHANGED terminated
       ELSE terminated' = TRUE /\ UNCHANGED <<info, opener>>
    /\ UNCHANGED <<command, uri, built, stream, openerFrame>>

BuildScheduler ==
    /\ opener = "build"
    /\ opener' = "publish"
    /\ built' = [generation |-> uri, handle |-> handle, limit |-> limit]
    /\ UNCHANGED <<command, uri, info, stream, openerFrame, terminated>>

PublishScheduler ==
    /\ opener = "publish"
    /\ opener' = "create"
    /\ scheduler' = built
    /\ built' = NoScheduler
    /\ UNCHANGED <<handle, generation, snapshot, limit, command, uri, info, stream,
                   uiVars, sessionVars, terminated, crossed>>

CreateStream ==
    /\ opener = "create"
    /\ opener' = "open"
    /\ stream' = [generation |-> uri, handle |-> handle, info |-> info, cancelled |-> FALSE]
    /\ UNCHANGED <<command, uri, info, built, openerFrame, terminated>>

\* mpv carries out the next command: it closes the stream, which cancels and forgets it.
CloseStream ==
    /\ opener \in {"open", "failed"} /\ command
    /\ opener' = "idle"
    /\ stream' = NoStream /\ info' = 0 /\ uri' = 0
    /\ UNCHANGED <<command, built, openerFrame, terminated>>

-----------------------------------------------------------------------------
(* libtorrent's session *)

sessionFrame == <<serviceVars, uiVars, mpvVars, terminated>>

Post(kind, l) == alerts' = Append(alerts, [kind |-> kind, of |-> l])

\* MemoryDiskIO::Impl::new_torrent, called once the files are known.
NewStorage(l) ==
    IF freeSlots = <<>>
    THEN slots' = Append(slots, l) /\ UNCHANGED freeSlots
    ELSE /\ slots' = [slots EXCEPT ![freeSlots[Len(freeSlots)]] = l]
         /\ freeSlots' = SubSeq(freeSlots, 1, Len(freeSlots) - 1)

\* Torrents are added in the order of the calls; a file's needs storage at once.
Added(l) ==
    /\ torrent[l] = "adding" /\ \A k \in Load : k < l => torrent[k] # "adding"
    /\ torrent' = [torrent EXCEPT ![l] = "present"]
    /\ Post("add", l)
    /\ IF l \in infos THEN NewStorage(l) ELSE UNCHANGED <<slots, freeSlots>>
    /\ UNCHANGED <<infos, broken, sessionFrame, crossed>>

AddFails(l) ==
    /\ torrent[l] = "adding" /\ \A k \in Load : k < l => torrent[k] # "adding"
    /\ torrent' = [torrent EXCEPT ![l] = "gone"]
    /\ Post("failure", l)
    /\ UNCHANGED <<infos, broken, slots, freeSlots, sessionFrame, crossed>>

\* Peers send the metadata of a magnet link; a removal that the session has not come
\* to yet does not prevent it.
MetadataReceived(l) ==
    /\ l \notin infos
    /\ torrent[l] \in {"present", "removing"}
    /\ crossed' = (crossed \/ ui # "idle" \/ torrent[l] = "removing")
    /\ infos' = infos \cup {l}
    /\ NewStorage(l)
    /\ Post("metadata", l)
    /\ UNCHANGED <<torrent, broken, sessionFrame>>

\* A torrent_error_alert; the error stays in the torrent's status.
TorrentError(l) ==
    /\ torrent[l] = "present" /\ l \in infos \ broken
    /\ broken' = broken \cup {l}
    /\ Post("failure", l)
    /\ UNCHANGED <<torrent, infos, slots, freeSlots, sessionFrame, crossed>>

\* The last reference to the torrent goes, and with it its storage.
Removed(l) ==
    /\ torrent[l] = "removing"
    /\ torrent' = [torrent EXCEPT ![l] = "gone"]
    /\ IF \E i \in DOMAIN slots : slots[i] = l
       THEN LET slot == CHOOSE i \in DOMAIN slots : slots[i] = l IN
            slots' = [slots EXCEPT ![slot] = 0] /\ freeSlots' = Append(freeSlots, slot)
       ELSE UNCHANGED <<slots, freeSlots>>
    /\ UNCHANGED <<infos, broken, alerts, sessionFrame, crossed>>

-----------------------------------------------------------------------------

ClearAndLoad ==
    RemoveTorrent \/ LoadTorrentFile \/ LoadMagnet \/ LoadFails \/ LoadLocal \/ LoadNothing

Opening ==
    \/ StartOpen \/ CheckGeneration \/ CheckHandle \/ TakeInfo
    \/ BuildScheduler \/ PublishScheduler \/ CreateStream \/ CloseStream

User ==
    \/ \E kind \in Kinds : Accept(kind)
    \/ SelectFile \/ StopPlayback \/ SetCacheLimit

Session ==
    \E l \in Load : Added(l) \/ AddFails(l) \/ MetadataReceived(l) \/ TorrentError(l) \/ Removed(l)

Next ==
    /\ ~terminated
    /\ User \/ ClearAndLoad \/ ProcessAlert \/ PollStatus \/ Opening \/ Session

\* The UI loop finishes a load, pops alerts and polls on every frame; mpv carries out
\* its commands and its call returns.
Spec ==
    /\ Init /\ [][Next]_vars
    /\ WF_vars(~terminated /\ ClearAndLoad)
    /\ WF_vars(~terminated /\ ProcessAlert)
    /\ WF_vars(~terminated /\ PollStatus)
    /\ WF_vars(~terminated /\ Opening)

-----------------------------------------------------------------------------
(* Properties *)

\* A file list is shown in the ready state and in no other, and with metadata: no
\* handler of a failure leaves files behind that a click could open.
SnapshotConsistent ==
    /\ snapshot.files # 0 <=> snapshot.state = "ready"
    /\ snapshot.state = "ready" => snapshot.has_metadata

\* The files shown are those of the last input, as long as no alert for an earlier one
\* crosses it: process_alerts does not ask whose alert it has.
SnapshotOfSource == ~crossed => snapshot.files \in {0, snapshot.source}

\* A torrent of the session is the handle's, is being removed, or has its add alert
\* still to come, as long as the inputs wait for it: clear_current removes what
\* handle_ names and nothing else.
NoOrphanTorrent ==
    ~crossed => \A l \in Load : torrent[l] = "present" =>
        \/ handle = l
        \/ \E i \in DOMAIN alerts : alerts[i] = [kind |-> "add", of |-> l]

\* A stream of the current generation reads the torrent whose files were shown, though
\* open_torrent_stream reads handle_ four times without a lock.
StreamOfGeneration ==
    ~crossed /\ ui = "idle" /\ stream # NoStream /\ stream.generation = generation =>
        /\ stream.handle = snapshot.source
        /\ stream.info = snapshot.source
        /\ ~stream.cancelled

\* A stream of an earlier generation, however late open_torrent_stream has returned it,
\* does not outlive the input that replaced it: mpv has been told to close it, or its
\* torrent is removed and its reads fail.  clear_current cancels only those it finds.
StaleStreamEnds ==
    ~crossed /\ ui = "idle" /\ stream # NoStream /\ stream.generation # generation =>
        command \/ stream.handle = 0 \/ torrent[stream.handle] \in {"removing", "gone"}

\* The global functions of the disk address its first storage: it must be the one of
\* the torrent that an open stream reads.
ReadsOwnStorage ==
    opener = "open" /\ ~command /\ stream.handle = stream.info =>
        (torrent[stream.handle] = "present" => slots[1] = stream.handle)

\* A change of the limit reaches the scheduler of the stream that is open.
PolicyReachesScheduler == opener = "open" /\ scheduler # NoScheduler => scheduler.limit = limit

\* Once the metadata of the current input is there, its files are shown or an error is.
LoadAnswered ==
    \A l \in Load :
        (snapshot.source = l /\ l \in infos /\ torrent[l] = "present") ~>
            (snapshot.state # "loading_metadata" \/ snapshot.source # l \/ terminated)
=============================================================================
