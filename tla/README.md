# Torrview in TLA+

Torrview plays video files out of a torrent without writing them to disk.
libtorrent downloads pieces into RAM, mpv reads them through a stream callback,
and a scheduler keeps a window of pieces around the read position while the rest
is evicted. These modules model that path, from the byte arithmetic up to the
blocking read, and the window around it: the player, the pages, the settings. TLC
checks them on small instances and TLAPS proves their safety properties for all
of them.

## The system

| Part | State | Operations | Called by |
| --- | --- | --- | --- |
| Cache policy (`cache_policy.cpp`) | none | limit to policy, normalisation, retained window, cut to a file | disk, scheduler, service |
| RAM storage (`memory_disk_io.cpp:100-360`) | pieces with written ranges, evicted pieces, window, copy of the policy, miss counters | write, read, hash, window updates, eviction | the disk, under its lock |
| RAM disk (`memory_disk_io.cpp:365-818`) | storages in slots, free list, policy, `bytes_used_` | libtorrent's jobs, policy, windows | libtorrent's network thread, the UI thread, mpv's thread |
| Scheduler (`torrent_service.cpp:518-995`) | policy, active window, last position, deadlines, pieces asked for and when | schedule for a read or a seek, new policy, stall check, snapshot | mpv's thread, the UI thread |
| Piece stream (`torrent_service.cpp:997-1317`) | position, cancelled, error, requested and rechecked pieces | read, seek, cancel, alert handlers | mpv's threads, the UI thread |
| Service (`torrent_service.cpp:1320-1900`) | handle, generation, snapshot, live streams | load, clear, alerts, limit, open a stream | the UI thread; mpv's thread opens streams |
| Player (`mpv_player.cpp`) | playback snapshot | load, stop, pause, seek, mpv's events | the main thread |
| Application (`app.cpp`) | the page shown, what is listed | inputs, clicks, keys, the frame loop | the main thread |
| Settings (`app_settings.cpp`) | `torrview.ini`, `settings_` | load, clamp, save; what a session is given | the application |
| Pages (`ui/*.cpp`) | focus, fields, menus, the cache size typed, rows, the layout clicks are tested against | clicks, keys, text, build | the main thread |
| Logging, drawing | none that outlives a frame but caches | | all threads; the main thread |

Three threads share this state: the UI (main) thread, mpv's demuxer thread and
libtorrent's network thread. Four locks protect it: the stream's, the
scheduler's, the disk's and the one around the registry of the global disk
helpers. The hard behaviours are where a thread leaves a lock between reading and acting
(`set_policy`, `request_piece`, `read_verified_piece_bytes`), where the disk evicts
a piece that libtorrent goes on believing complete, and where a running byte
count must stay right under every operation.

What makes the parts correct:

- policy: the window is the pieces of the promised bytes, no more and no fewer; normalising is idempotent;
- storage: no unwritten byte is served, no written one missed; a piece written is held or known as evicted;
- disk: the account is exact, the limit enforced outside windows and nowhere else, slots never shared;
- scheduler: its window, the disk's and the wanted pieces agree;
- stream: a read returns verified bytes, and returns; cancellation ends it;
- service: handle, generation, snapshot and streams belong to one load;
- player: its snapshot, made of commands and of late events, agrees with mpv once all is told;
- settings: one limit in four places, in force and in the file; what is saved is what is loaded;
- pages: keys go to what is seen, controls that nobody needs go, files and pieces are all shown and in order.

## Modules

| Module | Models |
| --- | --- |
| `CachePolicy` | `cache_policy.cpp` and `clamp_to_file_window`, as operators |
| `ByteMap` | abstract: a partial map of bytes that answers with what was last written or misses |
| `MemoryPiece` | one piece: zero-filled buffer and list of written ranges; implements `ByteMap` |
| `MemoryTorrentStorage` | class `MemoryTorrentStorage` as operators on a storage value; a piece is the set of its written bytes, as `MemoryPiece` justifies |
| `MemoryDiskIO` | class `MemoryDiskIO`: an action per operation, each a critical section of its mutex |
| `PieceStore` | abstract: what the RAM disk promises, a store of torrents' pieces that may forget a piece as a whole unless told to keep it; `MemoryDiskIO` implements it |
| `MCMemoryDiskIO` | an instance of it for TLC |
| `FileOrder` | `extract_files`, `compare_natural_path`, `filter_video_files` and the browser's rows |
| `PieceRail` | the states of pieces in a snapshot, and the segments the overlay draws of them |
| `Data` | the pure parts in use: a policy and a reader that change, a piece, the files of a torrent, a rail of pieces; the reference definitions |
| `MCData` | an instance of it for TLC |
| `PieceStream` | the stream and the scheduler, with mpv's thread, the UI thread, cancellers and libtorrent |
| `StreamStatus` | beside `PieceStream`: the pieces asked for, the stall timer, the status published |
| `TorrentService` | the service, the inputs and playback commands of the application, mpv's opening of streams, libtorrent's session and the disk's slots |
| `Playback` | the player and the application's frame loop, against mpv's core and its event queue |
| `AppSettings` | `app_settings.cpp`, the fields of the settings page, `parse_proxy_url` and `apply_runtime_settings`, as operators |
| `Pages` | the application's pages, the overlay's menus and cache size field, the settings page, the hiding controls, the settings in force and in the file |
| `MCPages` | its inputs for TLC |
| `CachePolicyProofs`, `DataProofs`, `FileOrderProofs`, `MemoryDiskIOProofs`, `PieceStreamProofs`, `TorrentServiceProofs`, `PlaybackProofs`, `PagesProofs` | theorems |

`MemoryDiskIO` describes eviction at once (`Evicted`: a piece outside its window
goes when the ones before it have not freed enough) rather than by loops;
`LoopEvicted` is the two loops as loops, and `EvictedIsTheLoops` says that they evict
just these, whatever the limit. `posted` is the handler an operation posts to the io_context; `stored` is a history variable.

In `PieceStream` an action is what a thread does between two points where another
can come in. mpv's thread goes through `reader`, the UI thread's change of the
limit through `ui`: `SetCacheLimit` (the disk), `SetPolicy` (the scheduler's
lock), `TakePosition` (the disk again, then `last_file_position()`), `Reschedule`
(the lock again) and `UIApply` (priorities, without the lock). The stream's mutex
is held across actions only in `copy_waiting`. libtorrent is external and
modelled as the code uses it: it downloads what is wanted, writes it, hashes it,
remembers it as complete however the disk evicts it, and clears a piece whose hash is
wrong. A forced recheck hashes nothing, because the disk answers `async_check_files` with
no error (`memory_disk_io.cpp:713-720`): libtorrent forgets every piece, those in memory
too, and fetches them again. apply_work is one action: its calls by one
thread concern disjoint sets of pieces, and the properties about priorities are
checked where only one thread makes them. One seek or read is in progress at a
time, as mpv calls them; `seek_generation_` is therefore not needed. When the
torrent is gone, its storage is left as it was: nothing can read it.

`TorrentService` numbers the inputs; a torrent has the number of the input that
added it. `clear_current` and the load after it are three steps of the UI thread
(`Accept` with `cancel_streams`, `RemoveTorrent`, and the reset with the load),
`open_torrent_stream` seven steps of mpv's thread, one per read of `handle_`,
`stream_generation_` or `cache_policy_`. These are data races; a read gives the
value before or after the write. A libtorrent call that throws on an invalid
handle ends the program (`terminated`): neither `process_alerts` nor the mpv
callback catches. Alerts are handled one at a time in the order posted; an input between
two stands for alerts popped in different frames. mpv closes a stream before it opens the
next. `target` is the URI the application last gave to the player and has not
stopped; dropped text and unsupported files reset the service without touching
the player. A stream is open or closed here, its reads are in `PieceStream`.

`Playback` gives the main thread two phases, as `run()` does: SDL's events, any
number of them (`frame = "input"`), then `render()`, which handles mpv's events
one by one until there are none, returns to the file browser and chooses the
page. Between any two steps mpv's core goes on: it ends what plays, opens a file or
fails to, comes to the end, carries out a seek. `events` is the client's queue;
observed properties are handed out when it is empty, once per change, with their
current value. A click finds what the pointer was over in the layout before the last
(`pointed`), for Clay tests the pointer before it builds a layout. `over` and `late` are history
variables: the file shown has ended, and mpv was behind at the last load or stop.

`StreamStatus` puts clocks beside `PieceStream`: an action of the stream that asks for
pieces or learns of one is joined with what it writes in `requested_at_`, `stalled_`
and `deadline_pieces_`. Time goes by in half seconds, the period of both the reader's
wait and the service's poll; `Tick` waits for both, so that neither is ever late. The
overlay's heading is read off the published snapshot. `waited` and `seen` are history:
how long the reader has waited for a piece that has not come, and whether it was shown
as stalled. Availability is the constant `Advertised`.

`Pages` gives each event of SDL an action (`key_down`, `text_input`, `mouse_button`,
drops and dialogs) and `render()` one, `Frame`, with its three outcomes: the film has
ended, another page is drawn, the player's is. Clay tests the pointer at the start of a
frame against the layout of the frame before, so a click is answered from a layout that
is one or two frames old: `drawn` is the last layout built, `pointed` the one the last
test was made against, and what a click can hit is what `hit_test_click` can find in it.
`near` is the pointer over the controls or in the band that reveals them, and is one
choice per frame. Texts are numbers, a proxy URL its parts; a field is edited to any text
of a small set, as several keys would. `playing` and `listing` abstract the player and the
service to what the pages ask of them. The controls' delay is a flag, `hideDue`, that may
become true while something plays and is cleared whenever the code takes the time anew;
it is left alone in between, as the time of the last hover is. A program that has ended is
the one that is started next, with the file it left.

`FocusIsVisible` has three exceptions, which the history variable `left` marks: the audio
button closes the buffer menu and not the focus of its field (`player_overlay.cpp:631`), a
torrent opened over what plays stops the player and leaves the menus as they are
(`app.cpp:616`), and a click answered from the layout before may focus a field that has
just been closed. In each the next click, Escape or hiding of the controls ends it; until
then keys go to a field nobody sees.

## Runs

| Run | Shows | Bounds |
| --- | --- | --- |
| `data` | policies and windows against byte sets; ranges are canonical, `covers_range` is a subset test, refinement of `ByteMap`; files in the order of their names read as letters and numbers; every piece in one segment of the rail, in the colour that matters most | budgets from -2 to 13 bytes, torrents of 1 to 5 pieces of 1 to 4 bytes, offsets up to and past both ends: every rounding case; a piece of 5 bytes, blocks of 2: three ranges that touch, nest or stay apart; up to three files with paths of up to two bytes of five kinds and four longer ones where zeros, letters and numbers meet; up to six pieces in at most four segments: divisible or not, fewer or more |
| `memory_disk` | account, limit, policies, windows, eviction and its loops; refinement of `PieceStore`: slots, answers, what may be forgotten | two slots, torrents of two pieces and one, the last of the two short, partial writes; limits of one, two and five bytes: slots reused in both orders, over-full caches in both slots; windows that hold the first piece or the last; the miss counters, which decide nothing, stay at 0 |
| `stream` | every read returns, but for a race lost for ever; its piece is retained, priorities follow the window | four pieces, a file of the last three, a cache of one: each move of the reader evicts, each way back needs a recheck |
| `policy_change` | windows agree after a change; reads are verified; stops end reads | a file that starts and ends inside pieces of two bytes; one change of the limit from one MiB to two, at each step of the other threads; one piece sent wrong |
| `service` | files are shown in the ready state only and are the last input's; no torrent is left in the session; a stream reads the torrent of its generation; a replaced one ends; loading ends | two inputs of each of four kinds, one change of the limit: every pair of inputs, at each step of an open |
| `playback` | the snapshot's pause is mpv's; no player page after a stop; only ended files are stopped; ended ones give way to the browser | two torrent files and two local ones, loaded any number of times, so that each kind replaces each; loads wait while three events are queued, one more than a load and its end leave |
| `pages` | keys go to a field that is seen; one limit, in force and in the file; values in their ranges; controls hide | a file with a number out of range, a proxy with blanks at both ends and no other key; one flag, one proxy typed with a blank after its host, a size of 0 or none; every page, menu and layout in every order, programs started and stopped at any point, with and without a writable file |
| `stale_window` | **finding**: a seek between the two critical sections of `set_policy` | two file pieces, limit from two to one |
| `stalled` | **finding**: a piece that does not come is not shown as stalled | two file pieces, a timeout of three half seconds |
| `own_storage` | **finding**: two `.torrent` files dropped at once | two inputs |
| `limit_lost` | **finding**: the limit changes while a stream is opened | one input, one change |
| `pause_shown` | **finding**: a local file opened over a playing one | two local files |

In the last five TLC must find the violation. `stale_window`: the retained window
stays around the old position, its pieces fill the cache, and the piece the
reader waits for is evicted by its own write again and again; the wait loop never
moves the window. `implementation-plan.md:61` promises that a read blocks until
the bytes are there. It takes a seek or a read in the few instructions between
`last_file_position()` and `schedule_for_read`, and lasts until mpv's next seek
or the next change of the limit. `stalled`: `check_stalled` looks for pieces asked
for 15 s ago, and the wait loop asks again every 500 ms, which takes the time of the
request anew (`torrent_service.cpp:631`). So the timer never runs out for the piece a
reader waits for; unless no peer advertises it, the overlay says "Buffering" for ever,
where `implementation-plan.md:509` and `:532` list a timeout and an overlay for stalled
pieces as done. With the renewal taken out of the model, the property holds in the
same run. `own_storage`: `clear_current` removes the
torrent of `handle_`, which the add alert sets; the first of two files accepted in
one frame is never removed, keeps the disk's storage 0, and the global helpers
read that storage for the stream of the second. `limit_lost`: the scheduler is
built from `cache_policy_` and published later; a change in between reaches the disk only,
against `implementation-plan.md:516`. `pause_shown`: END_FILE of the file that was
replaced sets `paused` after `load_file` has cleared it, FILE_LOADED leaves it, and
mpv's property has not changed and so is not reported; the file plays, the overlay
shows a pause, and the next Space does nothing but correct it. It happens whenever a
local file is opened while another plays.

`own_storage` is one consequence of alerts that cross an input, which
`process_alerts` does not match to the current load. `crossed` is a history
variable that becomes true when an input comes before the session has dealt with
the one before, or metadata arrives while its torrent is being removed.
`SnapshotOfSource`, `NoOrphanTorrent`, `StreamOfGeneration` and `StaleStreamEnds`
are stated for the behaviours without such a crossing, where the races with mpv's
thread remain; each is false with it. `SnapshotConsistent` and `LoadAnswered` hold with crossings too.

`late` is the same for the player. The handlers of END_FILE and FILE_LOADED do not ask
which file they are told of: a torrent's file chosen while mpv is still stopping the one
before is taken for ended and stopped, and a FILE_LOADED that is queued at a stop brings
the player page back without a file. `OnlyEndedIsStopped`, `NothingShownAfterStop` and
`PauseShown` are stated for loads that find mpv idle and stops that find no event
queued; `EndedReturnsToBrowser` holds without that.

One change of the limit is enough because changes are made by one thread, one
after the other, and each recomputes everything from the policy and the last
position. One wrong piece is enough where bytes are handed out; more only repeat the download. MiB is a constant
(`Mib`) and small in the runs; `MaxLimitMib` stands for the largest limit
accepted. The miss counters stop at `MissBound`.

Fairness. `Spec` assumes that the program's own threads run: the reader's wait
ends at the latest after its 500 ms timeout, the UI thread finishes what it began
and pops alerts on each frame. `StopEndsRead` needs no more. `SwarmSpec` adds that
libtorrent delivers each piece that stays wanted, hashes it and finishes a
recheck; `ReadReturns` cannot hold without peers, and says itself of which race it needs
more than that (`RaceLost`). Starting a read, a seek, a
cancellation or a change of the limit is never assumed. In `TorrentService` the
UI thread finishes its loads, pops alerts and polls on every frame, and mpv's
thread goes on with an open; `LoadAnswered` asks nothing of the session or the user. In `Playback` the frame loop
goes on (`run()`) and nothing is asked of mpv: what `EndedReturnsToBrowser` is about has
already happened in mpv. In `Pages` the loop of `run()` goes on too, and `FrameAway` says
a little more: while the pointer stays away from the controls, frames find it away. A user
who brings it back is outside what `ControlsGo` promises, as is a drag, a settings page or
a stop; an event may come between any two frames.

A piece completed between the reader's look and its `request_piece` is taken for an
evicted one and the torrent is rechecked. This is modelled and happens in the run
`stream`. The recheck forgets the piece, which has to come again, and may come in the
same gap of a few calls; its alert has by then cleared the mark (`recheck_pieces_`) that
would stop a second recheck. Nothing in the code ends this: weak fairness allows a read
that loses the race at every one of its half seconds. `ReadReturns` names this one case
(`RaceLost` infinitely often) and holds in every other.

`SettingsAgree` is about a file that can be written; the code only logs when it cannot,
and the settings in force then differ from the file until the next start. The proxy URL is
the one value that a save and a load may change: reading a line trims it at both ends,
where `parse_proxy_url` takes the text as it was typed. A blank before the URL makes it
invalid until the next start; one after its host is part of the host until then
(`socks5://proxy.lan ` is not the proxy `socks5://proxy.lan`), one in the place of the
port makes it invalid, one after a port's digits or a path does nothing. `BlankCounts`
says which is which, `SettingsAgree` promises the same service after a restart for the
URLs without one that counts, and `TrimmedProxy` shows that it excepts no others than it
must. In `Pages` one flag stands for three, which are treated
alike, and one key of the file for the four numbers.

## Proofs

All theorems hold for every value of the constants that meets the named
assumptions of the modules.

- `CachePolicyProofs`: normalised policies fit and are stable, `limit_mib` undoes
  `from_limit_mib`, the window of an offset holds its piece, lies in the torrent
  and is no larger than the budget rounded up to pieces. `LeastNatural` and `NaturalsIn`
  are induction said of sets of numbers (see below).
- `DataProofs`: the reference definitions of the run `data`, for every limit, torrent,
  offset, piece size and sequence of uses. `PolicyTyped` is inductive, and the retained
  window is the pieces of the promised bytes by the bounds of its two divisions. `PieceOK`
  says that the written ranges are canonical (inside the piece, sorted, none empty, none
  touching) and that a byte in one of them is one that a write stored; `LoopMerges` shows that sorting and
  merging keep ranges canonical and their bytes, step of the loop by step, which gives
  `RangesExact`. The refinement of `ByteMap` follows operation by operation: a write maps to
  a write, a read or hash to a read that answers or misses, an eviction to a loss. On the
  rail, the segments of `n * k \div segments` divide the pieces, since each bound is less
  than the next.
- `FileOrderProofs`: `RunsCompare` shows that what `compare_natural_path` does with two runs
  of digits (zeros skipped, then lengths, then digits, then whole lengths) is the order of
  the numbers they write, and `ComparesAsRead` that the loop decides as the dictionary of
  letters and numbers does; its invariant, `Aligned`, says that the loop is never inside a
  number and has seen the same in both paths. From the dictionary being a strict and total
  order follow what `std::sort` requires of its comparison (`BeforeIsStrictOrder`), that a
  sorted list exists (`CanBeSorted`: each file goes after as many as precede it), and
  `FilesInOrder`. The sort is modelled by its result: a list of the videos in which none
  stands before one the comparison puts ahead of it.
- `MemoryDiskIOProofs`: facts about footprints (the size of a set of buffers is
  additive over disjoint sets) and about `Evicted`; `TypeCorrect`. `StepKinds` sorts the steps into five kinds (quiet,
  enforcing, releasing, new torrent, removed torrent) and each invariant is
  shown for each kind instead of for each of fourteen actions. `BytesAccounted`
  is inductive together with the type invariant and `SlotsConsistent`: without the
  free list's consistency a new storage could overwrite buffers that are counted.
  `LimitEnforced` needs `PoliciesAgree` and the account. From them follow
  `StoredHeldOrEvicted`, `WriteKeptOrEvicted`, and the action properties
  `RetainedKept` and `NoOverEviction`. `EvictedIsTheLoops` is shown by induction over the
  order of the loops (`LoopsKeepUp`): when they come to a cell, the cache is over its limit
  just if all that may go before that cell does not free enough. `DiskImplementsPieceStore`
  maps the storages to a store that knows the bytes of each piece and what it must keep:
  policy, account, eviction order, miss counters and free list disappear. Each of the
  disk's actions is one of the store's, or refused by it; a new policy, a window and the
  player's own look are all `Keep`. It needs `SlotsConsistent`, so that a new torrent
  takes an untaken slot, and one invariant more, `OnlyHeldWritten`: a piece that is not
  in memory has no bytes, so that what the disk does not find the store does not have.
- `PieceStreamProofs`: four invariants, each inductive over the ones before it.
  `TypeInv` adds to the types that a piece found verified stays so until its bytes
  are copied, because only the reader itself asks for rechecks; `ReadsAreVerified`
  follows. `Agreement` says what disk and scheduler share at each
  of the five steps of a change of the limit: it needs the policy the UI thread
  carries between them, which no property mentions. `Following` (before the first
  change) adds that the window was made for the last position and that a waiting
  reader is there; `WindowHoldsReader` then gives `ReaderIsRetained`. `WantedInv`
  adds the priorities a built but not yet applied work still owes.
- `TorrentServiceProofs`: `TypeInv` adds that free slots are slots. `PlayInv` ties
  what the player was given to what mpv opens. `OwnerInv` says whose each torrent,
  alert and handle is: what is being added or has an alert to come is of the last
  input, and `handle_` names it or nothing. It gives `NoOrphanTorrent` and
  `SnapshotOfSource`. `OpenInv` shows that the reads of `handle_` by an open of
  the current generation agree, because within a generation the handle only goes
  from empty to one torrent; `KeptInv`, that a stream mpv keeps reads the current
  torrent or a removed one. `StreamOfGeneration` and `StaleStreamEnds` follow.
- `PlaybackProofs`: `PlayInv` says how far mpv can have come with the last load or
  stop that was not late, and which events cannot be queued then: no FILE_LOADED
  after such a stop, no END_FILE before the end of such a file. None of the three
  properties that follow is inductive without the queue.

- `PagesProofs`: `PagesInv` is three parts. `Typed` is the types, with what the clamps
  give: every setting that comes from a file, from the page or from the menu's text has
  passed one, and clamping what was clamped changes nothing (`ClampedTwice`). `Agreed`
  says that the three copies of the limit and the runtime settings are equal, and that a
  file that can be written holds them; it is inductive beside the types, and
  `SettingsAlwaysAgree` follows, since loading what was saved only trims the URL
  (`LoadedSaved`), and trimming changes the proxy in force just where a blank counts
  (`TrimmedProxy`). `FocusIsVisible` is inductive beside the types as it stands, each
  action's part of it a step of `FocusStep`.

The library's theorems of induction cannot be used: their parameter is an operator, and
no prover here finds one to put there. Where a proof needs induction it names the set of
the numbers for which the statement holds and shows that it has 0 and the successor of each
of its members (`NaturalsIn`), or takes the least number that is not in it (`LeastNatural`).
In the same way each recursive function of the models that a proof opens (`Merging`,
`NumberUpTo`, `Comparing`) is first shown to exist, as partial functions that reach one
argument further each time.

Every safety invariant and action property of the passing runs is proved. Only
model-checked are the liveness properties (`ReadReturns`, `StopEndsRead`, `LoadAnswered`,
`EndedReturnsToBrowser`, `ControlsGo`): they need fairness, that is ENABLED, of which the
prover can show nothing. The five disagreements the last runs find are counterexamples of
instances and need no proof. What is proved is the models: that they are the code is for
the reader of both.

## Not modelled

- The order of the deadlines given to libtorrent and their renewal: they order downloads
  and change neither what is wanted nor what is kept.
- `on_read_piece`: its alert is posted only for `alert_when_available` deadlines,
  which the code does not set.
- Jobs of the disk interface that answer with a constant, but for the effect of
  `async_check_files` on libtorrent (`PieceStream.Checked`); integer overflow.
- How a line of `torrview.ini`, a proxy URL or an input is cut into its parts
  (`input_source.cpp` and the parsers): text, for unit tests. A pasted URL with a line
  break in it is outside the model; it would be read back as two lines.
- Layout and drawing (`clay_renderer.cpp`, colours, fonts), fullscreen, window metrics,
  volume and audio tracks, logging, profiling, SDL and OpenGL.

## Plan

1. The lock order of all threads.
2. Audio tracks and volume in `Playback`.
3. Proofs: the safety part of `StopEndsRead` (what a stopped read may still answer).
