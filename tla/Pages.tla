------------------------------- MODULE Pages -------------------------------
(***************************************************************************)
(* Application's pages: which one takes the keys, the text and the clicks, *)
(* the menus and the cache size field of the player's overlay, the         *)
(* controls that hide, the settings page, torrview.ini, and the three      *)
(* copies of the cache limit (settings_, cache_limit_mib_, the service's). *)
(*                                                                         *)
(* Everything here runs on the UI thread: run() handles the events there   *)
(* are (an action each), then renders (Frame).  Clay is external: it tests *)
(* the pointer at the start of a frame against the layout of the frame     *)
(* before, and a click is answered from that test.  What mpv does with a   *)
(* file is module Playback; what the service does with an input is module  *)
(* TorrentService.                                                         *)
(***************************************************************************)
EXTENDS AppSettings

CONSTANTS
    Files,          \* what torrview.ini may hold when the program first starts
    FieldEdits,     \* edits of the settings page: a field and the text it is left with
    SizeTexts       \* texts left in the cache size field

ASSUME PagesAssumption ==
    /\ \A e \in FieldEdits :
            \/ e.field \in {"font_size", "upload_speed_kib", "max_connections"} /\ e.text \in FieldText
            \/ e.field = "proxy_url" /\ e.text \in Proxies
    /\ SizeTexts \subseteq FieldText
    /\ \A file \in Files :
            /\ DOMAIN file \subseteq DOMAIN Defaults
            /\ [key \in DOMAIN Defaults |-> Setting(file, key)] \in Settings

VARIABLES
    (* Application, TorrentService and the disk *)
    settings,           \* settings_
    cacheLimit,         \* cache_limit_mib_
    service,            \* the limit and the runtime settings the service has
    ini,                \* torrview.ini
    writable,           \* it can be written
    running, settingsOpen,
    playing,            \* film (of a torrent), clip (a local file) or none
    listing,            \* the torrent service is not idle
    controlsVisible, hideDue, dragging,
    (* SettingsPage *)
    fields, focus,
    (* PlayerOverlay *)
    audioMenu, bufferMenu, inputFocus, inputText, selectedSize, renderedSize,
    (* Clay *)
    drawn, pointed,     \* the last layout, and the one the pointer was tested against
    near,               \* it was over the controls, or where it reveals them
    (* history *)
    left                \* the cache size field was left with its focus

settingsVars == <<settings, cacheLimit, service, ini, writable>>
pageVars == <<settingsOpen, fields, focus>>
menuVars == <<audioMenu, bufferMenu, inputFocus>>
sizeVars == <<inputText, selectedSize, renderedSize>>
overlayVars == <<menuVars, sizeVars, left>>
controlVars == <<controlsVisible, hideDue, dragging>>
playVars == <<playing, listing>>
layoutVars == <<drawn, pointed, near>>
vars == <<settingsVars, running, pageVars, overlayVars, controlVars, playVars, layoutVars>>

FieldNames == {"font_size", "upload_speed_kib", "max_connections", "proxy_url"}
PlayerLayouts == {"controls", "audio_menu", "buffer_menu"}
Layouts == {"empty", "title", "browser", "settings"} \cup PlayerLayouts

\* The buttons of the overlay that close the menus and command the player.
PlayerButtons == {"timeline", "play", "seek_back", "seek_forward", "volume", "fullscreen"}
Controls == PlayerButtons \cup {"stop", "audio_button", "buffer_button"}

\* What a click can hit on the layout that each page builds.  The browser may have no
\* row yet: a click on one is then no step.
TitleElements == {"title_settings", "source_panel"}
BrowserElements == {"browser_settings", "open_source", "file_row"}
SettingsElements == {"close", "save"} \cup FieldNames \cup Flags
PlayerElements(layout) ==
    CASE layout = "audio_menu" -> Controls \cup {"track_row"}
      [] layout = "buffer_menu" -> Controls \cup {"cache_input", "apply"}
      [] layout = "controls" -> Controls

\* "background" is all the rest.
Elements(layout) ==
    {"background"} \cup
    CASE layout = "title" -> TitleElements
      [] layout = "browser" -> BrowserElements
      [] layout = "settings" -> SettingsElements
      [] layout \in PlayerLayouts -> PlayerElements(layout)
      [] OTHER -> {}

TypeOK ==
    /\ settings \in Settings /\ settings = Clamped(settings)
    /\ cacheLimit \in 1 .. MaxBuffer /\ service.limit \in 1 .. MaxBuffer
    /\ running \in BOOLEAN /\ settingsOpen \in BOOLEAN
    /\ playing \in {"none", "film", "clip"} /\ listing \in BOOLEAN
    /\ controlsVisible \in BOOLEAN /\ hideDue \in BOOLEAN /\ dragging \in BOOLEAN
    /\ fields \in Fields /\ focus \in FieldNames \cup {"none"}
    /\ audioMenu \in BOOLEAN /\ bufferMenu \in BOOLEAN /\ inputFocus \in BOOLEAN
    /\ inputText \in FieldText /\ selectedSize \in 1 .. MaxBuffer /\ renderedSize \in 1 .. MaxBuffer
    /\ drawn \in Layouts /\ pointed \in Layouts /\ near \in BOOLEAN
    /\ writable \in BOOLEAN /\ left \in BOOLEAN

-----------------------------------------------------------------------------
(* Settings in force *)

Served(s) == [limit |-> s.buffer_size_mib, runtime |-> Runtime(s)]

\* save_app_settings only logs that the file could not be written.
Save(s) ==
    /\ ini' = IF writable THEN Saved(s) ELSE ini
    /\ UNCHANGED writable

\* apply_settings
Apply(s) ==
    /\ settings' = Clamped(s)
    /\ cacheLimit' = settings'.buffer_size_mib
    /\ service' = Served(settings')

\* initialize: the settings are loaded, saved back and applied.
Initialize ==
    /\ Save(Loaded(ini))
    /\ Apply(Loaded(ini))

-----------------------------------------------------------------------------
(* PlayerOverlay *)

\* Mutant: the field keeps its focus.
HideMenus == audioMenu' = FALSE /\ bufferMenu' = FALSE /\ UNCHANGED <<inputFocus, left>>

\* close_menus
CloseMenus == audioMenu' = FALSE /\ bufferMenu' = FALSE /\ inputFocus' = FALSE /\ left' = FALSE

\* The audio button closes the other menu and leaves its field the focus.
ToggleAudioMenu ==
    /\ audioMenu' = ~audioMenu
    /\ bufferMenu' = FALSE
    /\ left' = inputFocus
    /\ UNCHANGED <<inputFocus, sizeVars>>

ToggleBufferMenu ==
    /\ bufferMenu' = ~bufferMenu
    /\ inputFocus' = bufferMenu'
    /\ left' = FALSE
    /\ audioMenu' = FALSE
    /\ IF bufferMenu'
       THEN inputText' = renderedSize /\ selectedSize' = renderedSize
       ELSE UNCHANGED <<inputText, selectedSize>>
    /\ UNCHANGED renderedSize

\* Mutant: any number is taken.
CommittedAsTyped == IF inputText = NoText THEN Within(renderedSize, 1, MaxBuffer) ELSE inputText

\* commit_cache_size_text
CommittedSize ==
    IF inputText = NoText THEN Within(renderedSize, 1, MaxBuffer)
    ELSE Within(inputText, 1, MaxBuffer)

CommitSize ==
    /\ selectedSize' = CommittedSize
    /\ inputText' = CommittedSize
    /\ UNCHANGED renderedSize

\* Mutant: settings_ keeps the limit it had.
SetCacheSizeOnly ==
    /\ cacheLimit' = CommittedSize
    /\ service' = [service EXCEPT !.limit = CommittedSize]
    /\ Save(settings)
    /\ UNCHANGED settings

\* handle_player_action(set_cache_size), after the text was committed.
SetCacheSize ==
    /\ cacheLimit' = CommittedSize
    /\ service' = [service EXCEPT !.limit = CommittedSize]
    /\ settings' = [settings EXCEPT !.buffer_size_mib = CommittedSize]
    /\ Save(settings')

-----------------------------------------------------------------------------
(* Starting, and stopping by the window's button, by Escape or by being killed *)

NoFields == FieldsOf(Defaults)

\* The objects of a new Application, which those of one that has ended are taken for;
\* the layouts are Clay's, none yet.
Fresh ==
    /\ settingsOpen' = FALSE /\ fields' = NoFields /\ focus' = "none"
    /\ playing' = "none" /\ listing' = FALSE
    /\ controlsVisible' = TRUE /\ hideDue' = FALSE /\ dragging' = FALSE
    /\ audioMenu' = FALSE /\ bufferMenu' = FALSE /\ inputFocus' = FALSE /\ left' = FALSE
    /\ inputText' = NoText /\ selectedSize' = 256 /\ renderedSize' = 256
    /\ drawn' = "empty" /\ pointed' = "empty" /\ near' = FALSE

Init ==
    /\ ini \in Files
    /\ settings = Defaults /\ cacheLimit = 256 /\ service = Served(Defaults)
    /\ running = FALSE /\ settingsOpen = FALSE /\ fields = NoFields /\ focus = "none"
    /\ playing = "none" /\ listing = FALSE
    /\ controlsVisible = TRUE /\ hideDue = FALSE /\ dragging = FALSE
    /\ audioMenu = FALSE /\ bufferMenu = FALSE /\ inputFocus = FALSE /\ left = FALSE
    /\ inputText = NoText /\ selectedSize = 256 /\ renderedSize = 256
    /\ drawn = "empty" /\ pointed = "empty" /\ near = FALSE
    /\ writable \in BOOLEAN

Start ==
    /\ ~running
    /\ running' = TRUE
    /\ Initialize
    /\ Fresh

Quit ==
    /\ running
    /\ running' = FALSE
    /\ Fresh
    /\ UNCHANGED settingsVars

-----------------------------------------------------------------------------
(* Events.  One leaves the layouts as they are. *)

Event == running /\ UNCHANGED <<running, layoutVars>>

\* A release of the left button that ends no drag, over an element.
Click(element) ==
    /\ Event /\ ~dragging
    /\ element \in Elements(pointed)
    /\ pointed \in PlayerLayouts /\ element # "background" => near

(* The settings page *)

\* open() sets the fields; while the page is closed they stand for nothing.
OpenSettings ==
    /\ settingsOpen' = TRUE /\ fields' = FieldsOf(settings) /\ focus' = "none"
    /\ CloseMenus
    /\ UNCHANGED <<settingsVars, sizeVars, controlVars, playVars>>

ClosePage == settingsOpen' = FALSE /\ fields' = NoFields /\ focus' = "none"

\* save_settings_page
SaveSettingsPage ==
    LET s == [Written(fields, settings) EXCEPT !.buffer_size_mib = cacheLimit]
    IN  /\ Save(s)
        /\ Apply(s)
        /\ ClosePage

SettingsEvent == Event /\ settingsOpen /\ UNCHANGED <<overlayVars, controlVars, playVars>>

SettingsClose ==
    /\ SettingsEvent
    /\ ClosePage
    /\ UNCHANGED settingsVars

\* Enter, or the button.
SettingsSave ==
    /\ SettingsEvent
    /\ SaveSettingsPage

\* hit_test_click, its two buttons apart: a field takes the focus, a flag is turned and
\* the focus goes, as it does for a click on nothing.
SettingsClick(element) ==
    /\ Click(element) /\ SettingsEvent
    /\ element \in Elements("settings") \ {"close", "save"}
    /\ focus' = IF element \in FieldNames THEN element ELSE "none"
    /\ fields' = IF element \in Flags
                 THEN [fields EXCEPT !.flags = (fields.flags \ {element}) \cup ({element} \ fields.flags)]
                 ELSE fields
    /\ UNCHANGED <<settingsVars, settingsOpen>>

SettingsTab ==
    /\ SettingsEvent
    /\ focus' = NextField(focus)
    /\ UNCHANGED <<settingsVars, settingsOpen, fields>>

\* Keys, text and paste: append_text and backspace, and what they leave in the field.
SettingsEdit(edit) ==
    /\ SettingsEvent
    /\ focus = edit.field
    /\ fields' = [fields EXCEPT ![edit.field] = edit.text]
    /\ UNCHANGED <<settingsVars, settingsOpen, focus>>

(* The cache size field, which has the keys while it has the focus *)

SizeEvent == Event /\ ~settingsOpen /\ inputFocus /\ UNCHANGED <<pageVars, controlVars, playVars>>

SizeEdit(text) ==
    /\ SizeEvent
    /\ inputText' = text
    /\ UNCHANGED <<settingsVars, menuVars, selectedSize, renderedSize, left>>

\* Enter commits the text and leaves the menu open.
SizeEnter ==
    /\ SizeEvent
    /\ CommitSize /\ SetCacheSize
    /\ inputFocus' = FALSE /\ left' = FALSE
    /\ UNCHANGED <<audioMenu, bufferMenu>>

SizeEscape ==
    /\ SizeEvent
    /\ CloseMenus
    /\ UNCHANGED <<settingsVars, sizeVars>>

(* Clicks on the player's page *)

PlayerClick(element) ==
    /\ Click(element)
    /\ ~settingsOpen /\ playing # "none" /\ controlsVisible
    /\ UNCHANGED <<pageVars, controlsVisible, dragging>>

\* The player is commanded, or no button was hit: the menus close.
ClickElsewhere(element) ==
    /\ PlayerClick(element)
    /\ element \in PlayerButtons \cup {"track_row", "background"}
    /\ CloseMenus
    /\ UNCHANGED <<settingsVars, hideDue, sizeVars, playVars>>

ClickStop ==
    /\ PlayerClick("stop")
    /\ CloseMenus
    /\ playing' = "none" /\ hideDue' = FALSE
    /\ UNCHANGED <<settingsVars, sizeVars, listing>>

ClickAudio == PlayerClick("audio_button") /\ ToggleAudioMenu /\ UNCHANGED <<settingsVars, hideDue, playVars>>
ClickBuffer == PlayerClick("buffer_button") /\ ToggleBufferMenu /\ UNCHANGED <<settingsVars, hideDue, playVars>>

\* Clay may have tested the pointer when the menu was still open.
ClickInput ==
    /\ PlayerClick("cache_input")
    /\ inputFocus' = TRUE
    /\ left' = ~bufferMenu
    /\ UNCHANGED <<settingsVars, hideDue, audioMenu, bufferMenu, sizeVars, playVars>>

ClickApply ==
    /\ PlayerClick("apply")
    /\ CommitSize /\ SetCacheSize
    /\ CloseMenus
    /\ UNCHANGED <<hideDue, playVars>>

\* The left button goes down over the volume bar, and up.
PressVolume ==
    /\ Event /\ ~dragging
    /\ playing # "none" /\ pointed \in PlayerLayouts /\ near
    /\ dragging' = TRUE
    /\ UNCHANGED <<settingsVars, pageVars, overlayVars, controlsVisible, hideDue, playVars>>

ReleaseVolume ==
    /\ Event /\ dragging
    /\ dragging' = FALSE
    /\ UNCHANGED <<settingsVars, pageVars, overlayVars, controlsVisible, hideDue, playVars>>

(* The title page and the file browser *)

\* A film or clip has been loaded.
Shown(kind) ==
    /\ playing' = kind
    /\ controlsVisible' = TRUE /\ hideDue' = FALSE
    /\ UNCHANGED dragging

ClickSettings(element) ==
    /\ Click(element)
    /\ ~settingsOpen /\ playing = "none"
    /\ element = IF listing THEN "browser_settings" ELSE "title_settings"
    /\ OpenSettings

\* stream_uri_for_file may have none to give, and mpv may refuse the file.
SelectFile ==
    /\ Click("file_row")
    /\ ~settingsOpen /\ playing = "none" /\ listing
    /\ Shown("film") \/ UNCHANGED <<playing, controlVars>>
    /\ UNCHANGED <<settingsVars, pageVars, overlayVars, listing>>

(* Inputs: dropped, pasted or chosen in the dialog, whatever the page *)

Accept == Event /\ UNCHANGED <<settingsVars, pageVars>>

AcceptLocal ==
    /\ Accept
    /\ listing' = FALSE
    /\ Shown("clip") \/ UNCHANGED <<playing, controlVars>>
    /\ UNCHANGED overlayVars

\* The player stops and the menus stay as they are.
AcceptTorrent ==
    /\ Accept
    /\ listing' = TRUE
    /\ playing' = "none" /\ hideDue' = FALSE
    /\ left' = inputFocus
    /\ UNCHANGED <<menuVars, sizeVars, controlsVisible, dragging>>

AcceptOther ==
    /\ Accept
    /\ listing' = FALSE
    /\ UNCHANGED <<playing, overlayVars, controlVars>>

-----------------------------------------------------------------------------
(* render() *)

\* The page under the settings page and the player's.
RestPage == IF listing THEN "browser" ELSE "title"

\* Clay_SetPointerState: over stands for the pointer over the controls or their menus.
TestPointer(over) ==
    /\ pointed' = drawn
    /\ over => drawn \in PlayerLayouts

\* return_to_torrent_file_browser_after_eof: the film has ended or failed.
FrameEnded(over) ==
    /\ playing = "film"
    /\ playing' = "none"
    /\ controlsVisible' = TRUE /\ hideDue' = FALSE
    /\ CloseMenus
    /\ drawn' = IF settingsOpen THEN "settings" ELSE RestPage
    /\ near' = over
    /\ UNCHANGED <<sizeVars, dragging, listing>>

FrameElsewhere(over) ==
    /\ settingsOpen \/ playing = "none"
    /\ drawn' = IF settingsOpen THEN "settings" ELSE RestPage
    /\ near' = over
    /\ UNCHANGED <<overlayVars, controlVars, playing, listing>>

\* PlayerOverlay::build, its first part: the field shows the limit in force again.
BuildSize ==
    /\ renderedSize' = service.limit
    /\ IF /\ ~(inputFocus /\ controlsVisible)
          /\ \/ inputText = NoText
             \/ ~(bufferMenu /\ controlsVisible)
             \/ selectedSize # service.limit
       THEN selectedSize' = service.limit /\ inputText' = service.limit
       ELSE UNCHANGED <<selectedSize, inputText>>

\* What build() draws.  The track list of what plays may be empty.
PlayerLayout(tracks) ==
    IF ~controlsVisible THEN "empty"
    ELSE IF audioMenu /\ tracks THEN "audio_menu"
    ELSE IF bufferMenu THEN "buffer_menu" ELSE "controls"

\* Mutant: an open menu keeps the controls.
ControlsHideMenuless(isNear) ==
    controlsVisible /\ ~dragging /\ ~isNear /\ hideDue /\ ~bufferMenu

\* update_player_controls_visibility: when it hides them.
ControlsHide(isNear) == controlsVisible /\ ~dragging /\ ~isNear /\ hideDue

\* ... and when the pointer or the drag keeps them, or brings them back.
ControlsKept(band, isNear) == dragging \/ band \/ (controlsVisible /\ isNear)

FramePlayer(tracks, band, over) ==
    /\ near' = (band \/ over)
    /\ ~settingsOpen /\ playing # "none"
    /\ drawn' = PlayerLayout(tracks)
    /\ BuildSize
    /\ controlsVisible' = (ControlsKept(band, near') \/ (controlsVisible /\ ~ControlsHide(near')))
    /\ hideDue' = (hideDue /\ ~ControlsKept(band, near'))
    /\ IF controlsVisible /\ ~ControlsHide(near')
       THEN audioMenu' = (audioMenu /\ tracks) /\ UNCHANGED <<bufferMenu, inputFocus, left>>
       ELSE CloseMenus
    /\ UNCHANGED <<dragging, playing, listing>>

Frame ==
    /\ running
    /\ \E band, over, tracks \in BOOLEAN :
        /\ TestPointer(over)
        /\ FrameEnded(over) \/ FrameElsewhere(over) \/ FramePlayer(tracks, band, over)
    /\ UNCHANGED <<settingsVars, running, pageVars>>

\* 2.4 s have gone by since the pointer was last near.  Whatever is loaded begins anew,
\* and so nothing is said of the time while nothing plays.
DelayPasses ==
    /\ running /\ playing # "none" /\ ~hideDue
    /\ hideDue' = TRUE
    /\ UNCHANGED <<settingsVars, running, pageVars, overlayVars, controlsVisible, dragging, playVars,
                   layoutVars>>

-----------------------------------------------------------------------------

SettingsKeys ==
    \/ SettingsClose
    \/ SettingsSave
    \/ SettingsTab
    \/ \E edit \in FieldEdits : SettingsEdit(edit)

SizeKeys ==
    \/ \E text \in SizeTexts : SizeEdit(text)
    \/ SizeEnter
    \/ SizeEscape

Clicks ==
    \/ \E element \in Elements("settings") : SettingsClick(element)
    \/ \E element \in Elements("audio_menu") : ClickElsewhere(element)
    \/ ClickStop \/ ClickAudio \/ ClickBuffer \/ ClickInput
    \/ ClickApply
    \/ PressVolume \/ ReleaseVolume
    \/ \E element \in {"title_settings", "browser_settings"} : ClickSettings(element)
    \/ SelectFile

Inputs == AcceptLocal \/ AcceptTorrent \/ AcceptOther

Next ==
    \/ Start
    \/ Quit
    \/ SettingsKeys \/ SizeKeys \/ Clicks \/ Inputs
    \/ Frame \/ DelayPasses

\* The loop of run() goes on: while the pointer stays away, frames find it away.
FrameAway == Frame /\ ~near'

Spec == Init /\ [][Next]_vars /\ WF_vars(FrameAway)

-----------------------------------------------------------------------------
(* Properties *)

\* Keys typed, pasted or Enter go to the cache size field only while the user sees it:
\* its menu is open, on the player's page, with the controls.  The exceptions are the
\* three ways in which the field is left with its focus: the audio button, a torrent
\* opened over what plays, and a click answered from the layout before.
FocusIsVisible ==
    inputFocus /\ ~left => bufferMenu /\ playing # "none" /\ controlsVisible /\ ~settingsOpen

\* The settings with what a line of the file loses: the whitespace at the URL's ends.
Restored == [settings EXCEPT !.proxy_url = Trimmed(settings.proxy_url)]

\* The cache limit is one: chosen in the player's menu or loaded, it is the same in
\* settings_, cache_limit_mib_ and the service, and the service has the settings in force.
\* If the file can be written, the next start finds them in it, without the whitespace at
\* the ends of the proxy URL, and gives the service what it has now, unless that whitespace
\* counted: load_app_settings trims the URL and parse_proxy_url does not.
SettingsAgree ==
    running =>
        /\ cacheLimit = settings.buffer_size_mib
        /\ service = Served(settings)
        /\ writable => /\ Loaded(ini) = Restored
                       /\ BlankCounts(settings.proxy_url) \/ Served(Loaded(ini)) = service

\* The pointer is away from the controls of what plays, and nothing is dragged.
Away == running /\ ~settingsOpen /\ playing # "none" /\ ~near /\ ~dragging

\* The controls do not stay over the picture: whatever menu is open and whatever is
\* typed, a pointer that has been away for 2.4 s and stays away lets them go.
ControlsGo == (Away /\ controlsVisible /\ hideDue) ~> (~Away \/ ~controlsVisible \/ ~hideDue)
=============================================================================
