---------------------------- MODULE PagesProofs ----------------------------
(***************************************************************************)
(* Proofs about Pages: its types, the cache size field that has the keys   *)
(* only while it is seen, and the agreement of the settings in memory, in  *)
(* the service and in torrview.ini, whatever the file held at first.       *)
(***************************************************************************)
EXTENDS Pages, TLAPS

-----------------------------------------------------------------------------
(* Settings *)

LEMMA Maxima ==
    /\ MaxBuffer \in Int /\ MaxUpload \in Int /\ MaxConnections \in Int
    /\ 256 <= MaxBuffer /\ 1024 <= MaxUpload /\ 200 <= MaxConnections
  BY SMT DEF MaxBuffer, MaxUpload, MaxConnections

\* The numbers of a settings record are in their ranges.
Ranged(s) ==
    /\ s.font_size \in 9 .. 24 /\ s.buffer_size_mib \in 1 .. MaxBuffer
    /\ s.upload_speed_kib \in 0 .. MaxUpload /\ s.max_connections \in 1 .. MaxConnections

\* Clamping keeps the type and brings every number into its range.
LEMMA ClampedRange ==
    ASSUME NEW s \in Settings
    PROVE  /\ Clamped(s) \in Settings /\ Ranged(Clamped(s))
           /\ Clamped(s).proxy_url = s.proxy_url /\ Clamped(s).flags = s.flags
  <1>1. /\ Within(s.font_size, 9, 24) \in 9 .. 24
        /\ Within(s.buffer_size_mib, 1, MaxBuffer) \in 1 .. MaxBuffer
        /\ Within(s.upload_speed_kib, 0, MaxUpload) \in 0 .. MaxUpload
        /\ Within(s.max_connections, 1, MaxConnections) \in 1 .. MaxConnections
    BY Maxima DEF Within, Settings
  <1> QED BY <1>1, Maxima DEF Clamped, Settings, Ranged

\* What is in range, clamping leaves alone.
LEMMA ClampedSame ==
    ASSUME NEW s \in Settings, Ranged(s)
    PROVE  Clamped(s) = s
  <1>1. /\ Within(s.font_size, 9, 24) = s.font_size
        /\ Within(s.buffer_size_mib, 1, MaxBuffer) = s.buffer_size_mib
        /\ Within(s.upload_speed_kib, 0, MaxUpload) = s.upload_speed_kib
        /\ Within(s.max_connections, 1, MaxConnections) = s.max_connections
    BY Maxima DEF Within, Settings, Ranged
  <1> QED BY <1>1 DEF Clamped, Settings

\* clamp_settings is idempotent: its results are the settings that it leaves alone.
LEMMA ClampedTwice ==
    ASSUME NEW s \in Settings
    PROVE  Clamped(Clamped(s)) = Clamped(s)
  BY ClampedRange, ClampedSame

\* The settings in force are in range.
LEMMA InRange ==
    ASSUME NEW s \in Settings, s = Clamped(s)
    PROVE  Ranged(s)
  BY ClampedRange

Keys == {"font_size", "buffer_size_mib", "upload_speed_kib", "max_connections", "proxy_url", "flags"}

\* Trimming changes what parse_proxy_url makes of a URL just where a blank counts: nowhere
\* else, and there always, if the trimmed URL is a proxy.
THEOREM TrimmedProxy ==
    ASSUME NEW proxy \in Proxies
    PROVE  /\ ~BlankCounts(proxy) => ProxyInForce(Trimmed(proxy)) = ProxyInForce(proxy)
           /\ BlankCounts(proxy) /\ ~Refused(Trimmed(proxy)) =>
                    ProxyInForce(Trimmed(proxy)) # ProxyInForce(proxy)
  <1> DEFINE t == Trimmed(proxy)
  <1>1. /\ t.scheme = proxy.scheme /\ t.credentials = proxy.credentials
        /\ t.host = proxy.host /\ t.port = proxy.port /\ t.path = proxy.path
        /\ ~t.before /\ ~t.after
    BY DEF Trimmed, Proxies
  <1>2. ~EndsInBlank(t) /\ ProxyType(t) = ProxyType(proxy)
    BY <1>1 DEF EndsInBlank, ProxyType
  <1>3. ASSUME ~BlankCounts(proxy)
        PROVE  Rest(t) = Rest(proxy) /\ Refused(t) = Refused(proxy)
    <2>1. ~proxy.before /\ (EndsInBlank(proxy) => proxy.port \in Int)
      BY <1>3 DEF BlankCounts
    <2>2. Rest(t) = Rest(proxy)
      BY <1>1, <1>2, <2>1, SettingsAssumption DEF Rest
    <2> QED BY <1>1, <1>2, <2>1, <2>2, SettingsAssumption DEF Refused
  <1>4. ASSUME BlankCounts(proxy), ~Refused(t)
        PROVE  ProxyInForce(t) # ProxyInForce(proxy)
    <2>1. t.scheme \in Schemes
      BY <1>4 DEF Refused
    <2>2. ProxyInForce(t).type # "none" /\ ProxyInForce(t).rest = Rest(t)
      <3>1. ProxyType(t) # "none"
        <4>1. ProxyType(t) \in {"socks5_pw", "http_pw", t.scheme}
          BY DEF ProxyType
        <4>2. t.scheme # "none"
          BY <2>1 DEF Schemes
        <4> QED BY <4>1, <4>2
      <3>2. ProxyInForce(t).type = ProxyType(t) /\ ProxyInForce(t).rest = Rest(t)
        BY <1>4 DEF ProxyInForce
      <3> QED BY <3>1, <3>2
    <2>3. CASE Refused(proxy)
      <3>1. ProxyInForce(proxy) = NoneInForce
        BY <2>3 DEF ProxyInForce
      <3>2. NoneInForce.type = "none"
        BY DEF NoneInForce
      <3> QED BY <2>2, <3>1, <3>2
    <2>4. CASE ~Refused(proxy)
      <3>1. ~proxy.before /\ EndsInBlank(proxy) /\ proxy.port \notin Int
        BY <1>4, <2>4 DEF BlankCounts, Refused
      <3>2. proxy.port = NoPort
        BY <2>4, <3>1 DEF Refused, Proxies
      <3>3. Rest(proxy) = " " /\ Rest(t) = ""
        BY <1>1, <1>2, <3>1, <3>2, SettingsAssumption DEF Rest
      <3>4. ProxyInForce(proxy).rest = Rest(proxy)
        BY <2>4 DEF ProxyInForce
      <3> QED BY <2>2, <3>3, <3>4
    <2> QED BY <2>3, <2>4
  <1>5. ASSUME ~BlankCounts(proxy) PROVE ProxyInForce(t) = ProxyInForce(proxy)
    BY <1>1, <1>2, <1>3, <1>5 DEF ProxyInForce
  <1> QED BY <1>4, <1>5

\* What is saved is loaded again, but for the whitespace at the ends of a URL.
LEMMA LoadedSaved ==
    ASSUME NEW s \in Settings, s = Clamped(s)
    PROVE  Saved(s) \in Settings /\ Loaded(Saved(s)) = [s EXCEPT !.proxy_url = Trimmed(s.proxy_url)]
  <1>1. Saved(s) = s
    BY DEF Saved
  <1>2. DOMAIN s = Keys
    BY DEF Settings, Keys
  <1> DEFINE t == [s EXCEPT !.proxy_url = Trimmed(s.proxy_url)]
  <1>3. Trimmed(s.proxy_url) \in Proxies
    BY DEF Trimmed, Settings, Proxies
  <1>4. t \in Settings
    BY <1>3 DEF Settings
  <1>5. LoadedAsWritten(s) = t
    BY <1>2 DEF LoadedAsWritten, Setting, Keys, Settings
  <1>6. Clamped(t) = t
    BY <1>4, InRange, ClampedSame DEF Settings, Ranged
  <1> QED BY <1>1, <1>5, <1>6 DEF Loaded

\* A file whose keys have values of their types.
Readable(file) ==
    /\ Setting(file, "font_size") \in Int /\ Setting(file, "buffer_size_mib") \in Int
    /\ Setting(file, "upload_speed_kib") \in Int /\ Setting(file, "max_connections") \in Int
    /\ Setting(file, "proxy_url") \in Proxies /\ Setting(file, "flags") \in SUBSET Flags

LEMMA DefaultsInRange == Defaults \in Settings /\ Clamped(Defaults) = Defaults
  <1>1. NoProxy \in Proxies
    BY SettingsAssumption DEF NoProxy, Proxies
  <1>2. Defaults \in Settings
    BY <1>1 DEF Defaults, Settings
  <1>3. Ranged(Defaults)
    BY Maxima DEF Ranged, Defaults
  <1> QED BY <1>2, <1>3, ClampedSame

LEMMA FilesReadable ==
    ASSUME NEW file \in Files PROVE Readable(file)
  <1>1. DOMAIN Defaults = Keys
    BY DEF Defaults, Keys
  <1> DEFINE s == [key \in Keys |-> Setting(file, key)]
  <1>2. s \in Settings
    BY <1>1, PagesAssumption
  <1>3. /\ s["font_size"] = Setting(file, "font_size")
        /\ s["buffer_size_mib"] = Setting(file, "buffer_size_mib")
        /\ s["upload_speed_kib"] = Setting(file, "upload_speed_kib")
        /\ s["max_connections"] = Setting(file, "max_connections")
        /\ s["proxy_url"] = Setting(file, "proxy_url")
        /\ s["flags"] = Setting(file, "flags")
    BY DEF Keys
  <1>4. /\ s.font_size \in Int /\ s.buffer_size_mib \in Int /\ s.upload_speed_kib \in Int
        /\ s.max_connections \in Int /\ s.proxy_url \in Proxies /\ s.flags \in SUBSET Flags
    <2> HIDE DEF s
    <2> QED BY <1>2 DEF Settings
  <1> QED BY <1>3, <1>4 DEF Readable

LEMMA SettingsReadable ==
    ASSUME NEW s \in Settings PROVE Readable(s)
  BY DEF Readable, Setting, Settings

\* Whatever a readable file says, the settings loaded are in range.
LEMMA LoadedRange ==
    ASSUME NEW file, Readable(file)
    PROVE  Loaded(file) \in Settings /\ Clamped(Loaded(file)) = Loaded(file)
  <1>1. Trimmed(Setting(file, "proxy_url")) \in Proxies
    BY DEF Readable, Trimmed, Proxies
  <1>2. LoadedAsWritten(file) \in Settings
    BY <1>1 DEF Readable, LoadedAsWritten, Settings
  <1> QED BY <1>2, ClampedRange, ClampedTwice DEF Loaded

\* So are the settings a page of fields gives.
LEMMA WrittenRange ==
    ASSUME NEW s \in Settings, NEW f \in Fields
    PROVE  Written(f, s) \in Settings /\ Clamped(Written(f, s)) = Written(f, s)
  <1>1. /\ IntField(f.font_size, s.font_size) \in Int
        /\ IntField(f.upload_speed_kib, s.upload_speed_kib) \in Int
        /\ IntField(f.max_connections, s.max_connections) \in Int
    BY DEF IntField, Fields, FieldText, Settings
  <1> DEFINE t == [font_size |-> IntField(f.font_size, s.font_size),
                   buffer_size_mib |-> s.buffer_size_mib,
                   upload_speed_kib |-> IntField(f.upload_speed_kib, s.upload_speed_kib),
                   max_connections |-> IntField(f.max_connections, s.max_connections),
                   proxy_url |-> f.proxy_url, flags |-> f.flags]
  <1>2. t \in Settings
    BY <1>1 DEF Settings, Fields
  <1>3. Written(f, s) = Clamped(t)
    BY DEF Written
  <1> QED BY <1>2, <1>3, ClampedRange, ClampedTwice

\* And those whose cache size is replaced by another in range.
LEMMA ResizedRange ==
    ASSUME NEW s \in Settings, s = Clamped(s), NEW n \in 1 .. MaxBuffer
    PROVE  LET t == [s EXCEPT !.buffer_size_mib = n]
           IN  t \in Settings /\ Clamped(t) = t /\ Runtime(t) = Runtime(s)
  <1> DEFINE t == [s EXCEPT !.buffer_size_mib = n]
  <1>2. t \in Settings /\ t.buffer_size_mib = n /\ t.font_size = s.font_size
        /\ t.upload_speed_kib = s.upload_speed_kib /\ t.max_connections = s.max_connections
        /\ t.proxy_url = s.proxy_url /\ t.flags = s.flags
    BY Maxima DEF Settings
  <1>3. Clamped(t) = t
    BY <1>2, InRange, ClampedSame DEF Ranged
  <1>4. Runtime(t) = Runtime(s)
    BY <1>2 DEF Runtime
  <1> QED BY <1>2, <1>3, <1>4

LEMMA FieldsTyped ==
    ASSUME NEW s \in Settings PROVE FieldsOf(s) \in Fields
  BY ClampedRange DEF FieldsOf, Fields, FieldText, Settings

LEMMA NoFieldsTyped == NoFields \in Fields
  BY DefaultsInRange, FieldsTyped DEF NoFields

-----------------------------------------------------------------------------
(* Types.  What the settings are, in memory and in the file, apart from the pages. *)

SettingsOK ==
    /\ settings \in Settings /\ settings = Clamped(settings)
    /\ cacheLimit \in 1 .. MaxBuffer
    /\ "limit" \in DOMAIN service /\ service.limit \in 1 .. MaxBuffer
    /\ writable \in BOOLEAN /\ Readable(ini)

PagesOK ==
    /\ running \in BOOLEAN /\ settingsOpen \in BOOLEAN
    /\ playing \in {"none", "film", "clip"} /\ listing \in BOOLEAN
    /\ controlsVisible \in BOOLEAN /\ hideDue \in BOOLEAN /\ dragging \in BOOLEAN
    /\ fields \in Fields /\ focus \in FieldNames \cup {"none"}
    /\ audioMenu \in BOOLEAN /\ bufferMenu \in BOOLEAN /\ inputFocus \in BOOLEAN
    /\ inputText \in FieldText /\ selectedSize \in 1 .. MaxBuffer /\ renderedSize \in 1 .. MaxBuffer
    /\ drawn \in Layouts /\ pointed \in Layouts /\ near \in BOOLEAN /\ left \in BOOLEAN

Typed == SettingsOK /\ PagesOK

LEMMA TypedIsTypeOK == Typed => TypeOK
  BY DEF Typed, SettingsOK, PagesOK, TypeOK

LEMMA CommittedRange ==
    ASSUME Typed PROVE CommittedSize \in 1 .. MaxBuffer
  BY Maxima DEF Typed, PagesOK, CommittedSize, Within, FieldText

\* Settings are saved, and applied, as they are.
LEMMA SaveAndApply ==
    ASSUME NEW s \in Settings, Clamped(s) = s, Save(s), Apply(s), writable \in BOOLEAN, Readable(ini)
    PROVE  /\ SettingsOK' /\ settings' = s /\ cacheLimit' = s.buffer_size_mib
           /\ service' = Served(s) /\ ini' = IF writable THEN s ELSE ini
           /\ UNCHANGED writable
  <1>1. /\ settings' = s /\ cacheLimit' = s.buffer_size_mib /\ service' = Served(s)
        /\ ini' = (IF writable THEN s ELSE ini) /\ UNCHANGED writable
    BY DEF Save, Apply, Saved
  <1>2. s.buffer_size_mib \in 1 .. MaxBuffer
    BY InRange DEF Ranged
  <1>3. "limit" \in DOMAIN service' /\ service'.limit \in 1 .. MaxBuffer
    BY <1>1, <1>2 DEF Served
  <1>4. Readable(ini')
    BY <1>1, SettingsReadable
  <1> QED
    <2>1. s \in Settings /\ s = Clamped(s)
      OBVIOUS
    <2> QED BY <1>1, <1>2, <1>3, <1>4, <2>1 DEF SettingsOK

LEMMA InitializeOK ==
    ASSUME Typed, Initialize
    PROVE  /\ SettingsOK' /\ settings' = Loaded(ini) /\ cacheLimit' = settings'.buffer_size_mib
           /\ service' = Served(settings') /\ ini' = (IF writable THEN settings' ELSE ini)
           /\ UNCHANGED writable
  <1>1. Loaded(ini) \in Settings /\ Clamped(Loaded(ini)) = Loaded(ini)
    BY LoadedRange DEF Typed, SettingsOK
  <1> QED BY <1>1, SaveAndApply DEF Initialize, Typed, SettingsOK

\* The page's settings keep the cache limit there is.
LEMMA PageSaved ==
    ASSUME Typed, SaveSettingsPage
    PROVE  /\ SettingsOK' /\ cacheLimit' = settings'.buffer_size_mib
           /\ service' = Served(settings') /\ ini' = (IF writable THEN settings' ELSE ini)
           /\ UNCHANGED writable
  <1> DEFINE w == Written(fields, settings)
  <1> DEFINE s == [w EXCEPT !.buffer_size_mib = cacheLimit]
  <1>1. w \in Settings /\ Clamped(w) = w
    BY WrittenRange DEF Typed, SettingsOK, PagesOK
  <1>2. cacheLimit \in 1 .. MaxBuffer
    BY DEF Typed, SettingsOK
  <1>3. Save(s) /\ Apply(s)
    BY DEF SaveSettingsPage
  <1>4. s \in Settings /\ Clamped(s) = s
    <2> HIDE DEF w
    <2> QED BY <1>1, <1>2, ResizedRange
  <1> HIDE DEF s
  <1> QED BY <1>3, <1>4, SaveAndApply DEF Typed, SettingsOK

\* The limit chosen in the player's menu reaches all three, and the file.
LEMMA SizeSet ==
    ASSUME Typed, SetCacheSize
    PROVE  /\ SettingsOK' /\ cacheLimit' = settings'.buffer_size_mib
           /\ service = Served(settings) => service' = Served(settings')
           /\ ini' = (IF writable THEN settings' ELSE ini)
           /\ UNCHANGED writable
  <1> DEFINE s == [settings EXCEPT !.buffer_size_mib = CommittedSize]
  <1>1. CommittedSize \in 1 .. MaxBuffer
    BY CommittedRange
  <1>2. settings \in Settings /\ settings = Clamped(settings)
    BY DEF Typed, SettingsOK
  <1>3. s \in Settings /\ Clamped(s) = s /\ Runtime(s) = Runtime(settings)
    BY <1>1, <1>2, ResizedRange
  <1>4. s.buffer_size_mib = CommittedSize
    BY <1>2 DEF Settings
  <1>5. /\ settings' = s /\ cacheLimit' = CommittedSize
        /\ service' = [service EXCEPT !.limit = CommittedSize]
        /\ ini' = (IF writable THEN Saved(settings') ELSE ini) /\ UNCHANGED writable
    BY DEF SetCacheSize, Save
  <1> HIDE DEF s
  <1>6. ini' = (IF writable THEN settings' ELSE ini)
    BY <1>3, <1>5 DEF Saved
  <1>7. "limit" \in DOMAIN service' /\ service'.limit = CommittedSize
    BY <1>5 DEF Typed, SettingsOK
  <1>8. Readable(ini')
    BY <1>3, <1>5, <1>6, SettingsReadable DEF Typed, SettingsOK
  <1>9. ASSUME service = Served(settings) PROVE service' = Served(s)
    BY <1>3, <1>4, <1>5, <1>9 DEF Served
  <1>10. SettingsOK'
    BY <1>1, <1>3, <1>5, <1>7, <1>8 DEF SettingsOK, Typed
  <1> QED BY <1>4, <1>5, <1>6, <1>9, <1>10

-----------------------------------------------------------------------------
(* The settings agree.  The file, when it can be written, holds them as they are. *)

Agreed ==
    running =>
        /\ cacheLimit = settings.buffer_size_mib
        /\ service = Served(settings)
        /\ writable => ini = settings

\* All the other actions leave the settings alone, and none but Start makes the program run.
Elsewhere == UNCHANGED settingsVars /\ (running' => running)

LEMMA ElsewhereOK ==
    ASSUME SettingsOK, Agreed, Elsewhere PROVE SettingsOK' /\ Agreed'
  BY DEF Elsewhere, SettingsOK, Agreed, settingsVars

LEMMA SettingsStep ==
    ASSUME Typed, Agreed, [Next]_vars PROVE SettingsOK' /\ Agreed'
  <1> USE DEF Typed
  <1>1. CASE Start
    <2>1. Initialize /\ running'
      BY <1>1 DEF Start
    <2> QED BY <2>1, InitializeOK DEF Agreed
  <1>2. CASE SettingsSave
    <2>1. SaveSettingsPage /\ UNCHANGED running
      BY <1>2 DEF SettingsSave, SettingsEvent, Event
    <2> QED BY <2>1, PageSaved DEF Agreed
  <1>3. CASE SizeEnter
    <2>1. SetCacheSize /\ UNCHANGED running
      BY <1>3 DEF SizeEnter, SizeEvent, Event
    <2> QED BY <2>1, SizeSet DEF Agreed
  <1>4. CASE ClickApply
    <2>1. SetCacheSize /\ UNCHANGED running
      BY <1>4 DEF ClickApply, PlayerClick, Click, Event
    <2> QED BY <2>1, SizeSet DEF Agreed
  <1>5. CASE Quit
    <2>1. Elsewhere
      BY <1>5 DEF Elsewhere, settingsVars, Quit
    <2> QED BY <2>1, ElsewhereOK
  <1>6. CASE SettingsClose
    <2>1. Elsewhere
      BY <1>6 DEF Elsewhere, settingsVars, SettingsClose, SettingsEvent, Event
    <2> QED BY <2>1, ElsewhereOK
  <1>7. CASE SettingsTab
    <2>1. Elsewhere
      BY <1>7 DEF Elsewhere, settingsVars, SettingsTab, SettingsEvent, Event
    <2> QED BY <2>1, ElsewhereOK
  <1>8. CASE \E edit \in FieldEdits : SettingsEdit(edit)
    <2>1. Elsewhere
      BY <1>8 DEF Elsewhere, settingsVars, SettingsEdit, SettingsEvent, Event
    <2> QED BY <2>1, ElsewhereOK
  <1>9. CASE \E text \in SizeTexts : SizeEdit(text)
    <2>1. Elsewhere
      BY <1>9 DEF Elsewhere, settingsVars, SizeEdit, SizeEvent, Event
    <2> QED BY <2>1, ElsewhereOK
  <1>10. CASE SizeEscape
    <2>1. Elsewhere
      BY <1>10 DEF Elsewhere, settingsVars, SizeEscape, SizeEvent, Event
    <2> QED BY <2>1, ElsewhereOK
  <1>11. CASE \E element \in Elements("settings") : SettingsClick(element)
    <2>1. Elsewhere
      BY <1>11 DEF Elsewhere, settingsVars, SettingsClick, SettingsEvent, Event
    <2> QED BY <2>1, ElsewhereOK
  <1>12. CASE \E element \in Elements("audio_menu") : ClickElsewhere(element)
    <2>1. Elsewhere
      BY <1>12 DEF Elsewhere, settingsVars, ClickElsewhere, PlayerClick, Click, Event
    <2> QED BY <2>1, ElsewhereOK
  <1>13. CASE ClickStop
    <2>1. Elsewhere
      BY <1>13 DEF Elsewhere, settingsVars, ClickStop, PlayerClick, Click, Event
    <2> QED BY <2>1, ElsewhereOK
  <1>14. CASE ClickAudio
    <2>1. Elsewhere
      BY <1>14 DEF Elsewhere, settingsVars, ClickAudio, PlayerClick, Click, Event
    <2> QED BY <2>1, ElsewhereOK
  <1>15. CASE ClickBuffer
    <2>1. Elsewhere
      BY <1>15 DEF Elsewhere, settingsVars, ClickBuffer, PlayerClick, Click, Event
    <2> QED BY <2>1, ElsewhereOK
  <1>16. CASE ClickInput
    <2>1. Elsewhere
      BY <1>16 DEF Elsewhere, settingsVars, ClickInput, PlayerClick, Click, Event
    <2> QED BY <2>1, ElsewhereOK
  <1>17. CASE PressVolume
    <2>1. Elsewhere
      BY <1>17 DEF Elsewhere, settingsVars, PressVolume, Event
    <2> QED BY <2>1, ElsewhereOK
  <1>18. CASE ReleaseVolume
    <2>1. Elsewhere
      BY <1>18 DEF Elsewhere, settingsVars, ReleaseVolume, Event
    <2> QED BY <2>1, ElsewhereOK
  <1>19. CASE \E element \in {"title_settings", "browser_settings"} : ClickSettings(element)
    <2>1. Elsewhere
      BY <1>19 DEF Elsewhere, settingsVars, ClickSettings, Click, Event, OpenSettings
    <2> QED BY <2>1, ElsewhereOK
  <1>20. CASE SelectFile
    <2>1. Elsewhere
      BY <1>20 DEF Elsewhere, settingsVars, SelectFile, Click, Event
    <2> QED BY <2>1, ElsewhereOK
  <1>21. CASE AcceptLocal
    <2>1. Elsewhere
      BY <1>21 DEF Elsewhere, settingsVars, AcceptLocal, Accept, Event
    <2> QED BY <2>1, ElsewhereOK
  <1>22. CASE AcceptTorrent
    <2>1. Elsewhere
      BY <1>22 DEF Elsewhere, settingsVars, AcceptTorrent, Accept, Event
    <2> QED BY <2>1, ElsewhereOK
  <1>23. CASE AcceptOther
    <2>1. Elsewhere
      BY <1>23 DEF Elsewhere, settingsVars, AcceptOther, Accept, Event
    <2> QED BY <2>1, ElsewhereOK
  <1>24. CASE Frame
    <2>1. Elsewhere
      BY <1>24 DEF Elsewhere, settingsVars, Frame
    <2> QED BY <2>1, ElsewhereOK
  <1>25. CASE DelayPasses
    <2>1. Elsewhere
      BY <1>25 DEF Elsewhere, settingsVars, DelayPasses
    <2> QED BY <2>1, ElsewhereOK
  <1>26. CASE UNCHANGED vars
    <2>1. Elsewhere
      BY <1>26 DEF Elsewhere, settingsVars, vars
    <2> QED BY <2>1, ElsewhereOK
  <1> QED
    BY <1>1, <1>2, <1>3, <1>4, <1>5, <1>6, <1>7, <1>8, <1>9, <1>10, <1>11, <1>12, <1>13, <1>14, <1>15, <1>16, <1>17, <1>18, <1>19, <1>20, <1>21, <1>22, <1>23, <1>24, <1>25, <1>26
    DEF Next, SettingsKeys, SizeKeys, Clicks, Inputs

-----------------------------------------------------------------------------
(* The pages keep their types. *)

LEMMA PagesStep ==
    ASSUME Typed, [Next]_vars PROVE PagesOK'
  <1> USE DEF Typed, PagesOK, settingsVars, pageVars, menuVars, sizeVars, overlayVars, controlVars, playVars, layoutVars
  <1>1. NoFields \in Fields /\ 256 \in 1 .. MaxBuffer /\ FieldText = Int \cup {NoText}
    BY NoFieldsTyped, Maxima DEF FieldText
  <1>2. CommittedSize \in 1 .. MaxBuffer
    BY CommittedRange
  <1>3. CASE Start
    BY <1>3, <1>1, Maxima DEF Start, Fresh, Layouts
  <1>4. CASE Quit
    BY <1>4, <1>1, Maxima DEF Quit, Fresh, Layouts
  <1>5. CASE SettingsClose
    BY <1>5, <1>1 DEF SettingsClose, ClosePage, SettingsEvent, Event
  <1>6. CASE SettingsSave
    <2>1. ClosePage
      BY <1>6 DEF SettingsSave, SaveSettingsPage
    <2>2. UNCHANGED <<running, layoutVars, overlayVars, controlVars, playVars>>
      BY <1>6 DEF SettingsSave, SettingsEvent, Event
    <2> QED BY <2>1, <2>2, <1>1 DEF ClosePage
  <1>7. CASE SettingsTab
    BY <1>7 DEF SettingsTab, NextField, FieldNames, SettingsEvent, Event
  <1>8. CASE SizeEnter
    <2>1. /\ inputFocus' = FALSE /\ left' = FALSE
          /\ UNCHANGED <<running, layoutVars, pageVars, controlVars, playVars, audioMenu, bufferMenu>>
      BY <1>8 DEF SizeEnter, SizeEvent, Event
    <2>2. CommittedSize \in FieldText
      BY <1>1, <1>2, Maxima
    <2>3. inputText' \in FieldText /\ selectedSize' \in 1 .. MaxBuffer /\ renderedSize' \in 1 .. MaxBuffer
      BY <1>8, <1>2, <2>2 DEF SizeEnter, CommitSize
    <2> QED BY <2>1, <2>3
  <1>9. CASE SizeEscape
    BY <1>9 DEF SizeEscape, CloseMenus, SizeEvent, Event
  <1>10. CASE ClickStop
    BY <1>10 DEF ClickStop, CloseMenus, PlayerClick, Click, Event
  <1>11. CASE ClickAudio
    BY <1>11 DEF ClickAudio, ToggleAudioMenu, PlayerClick, Click, Event
  <1>12. CASE ClickBuffer
    <2>1. /\ bufferMenu' = ~bufferMenu /\ inputFocus' = bufferMenu' /\ left' = FALSE /\ audioMenu' = FALSE
          /\ UNCHANGED <<running, layoutVars, pageVars, controlVars, playVars>>
      BY <1>12 DEF ClickBuffer, ToggleBufferMenu, PlayerClick, Click, Event
    <2>2. renderedSize \in FieldText
      BY <1>1, Maxima
    <2>3. inputText' \in FieldText /\ selectedSize' \in 1 .. MaxBuffer /\ renderedSize' \in 1 .. MaxBuffer
      BY <1>12, <2>2 DEF ClickBuffer, ToggleBufferMenu
    <2> QED BY <2>1, <2>3
  <1>13. CASE ClickInput
    BY <1>13 DEF ClickInput, PlayerClick, Click, Event
  <1>14. CASE ClickApply
    <2>1. /\ CloseMenus
          /\ UNCHANGED <<running, layoutVars, pageVars, controlVars, playVars>>
      BY <1>14 DEF ClickApply, PlayerClick, Click, Event
    <2>2. CommittedSize \in FieldText
      BY <1>1, <1>2, Maxima
    <2>3. inputText' \in FieldText /\ selectedSize' \in 1 .. MaxBuffer /\ renderedSize' \in 1 .. MaxBuffer
      BY <1>14, <1>2, <2>2 DEF ClickApply, CommitSize
    <2> QED BY <2>1, <2>3 DEF CloseMenus
  <1>15. CASE PressVolume
    BY <1>15 DEF PressVolume, Event
  <1>16. CASE ReleaseVolume
    BY <1>16 DEF ReleaseVolume, Event
  <1>17. CASE SelectFile
    BY <1>17 DEF SelectFile, Shown, Click, Event
  <1>18. CASE AcceptLocal
    BY <1>18 DEF AcceptLocal, Shown, Accept, Event
  <1>19. CASE AcceptTorrent
    BY <1>19 DEF AcceptTorrent, Accept, Event
  <1>20. CASE AcceptOther
    BY <1>20 DEF AcceptOther, Accept, Event
  <1>21. CASE DelayPasses
    BY <1>21 DEF DelayPasses
  <1>22. CASE UNCHANGED vars
    BY <1>22 DEF vars
  <1>23. CASE \E edit \in FieldEdits : SettingsEdit(edit)
    <2>1. PICK edit \in FieldEdits : SettingsEdit(edit)
      BY <1>23
    <2>2. \/ edit.field \in {"font_size", "upload_speed_kib", "max_connections"} /\ edit.text \in FieldText
          \/ edit.field = "proxy_url" /\ edit.text \in Proxies
      BY PagesAssumption
    <2>3. [fields EXCEPT ![edit.field] = edit.text] \in Fields
      BY <2>2 DEF Fields
    <2> QED BY <2>1, <2>3 DEF SettingsEdit, SettingsEvent, Event
  <1>24. CASE \E text \in SizeTexts : SizeEdit(text)
    <2>1. PICK text \in SizeTexts : SizeEdit(text)
      BY <1>24
    <2> QED BY <2>1, PagesAssumption DEF SizeEdit, SizeEvent, Event
  <1>25. CASE \E element \in Elements("settings") : SettingsClick(element)
    <2>1. PICK element \in Elements("settings") : SettingsClick(element)
      BY <1>25
    <2>2. fields' \in Fields
      <3>1. CASE element \in Flags
        <4>1. fields' = [fields EXCEPT !.flags = (fields.flags \ {element}) \cup ({element} \ fields.flags)]
          BY <2>1, <3>1 DEF SettingsClick
        <4>2. (fields.flags \ {element}) \cup ({element} \ fields.flags) \in SUBSET Flags
          BY <3>1 DEF Fields
        <4> QED BY <4>1, <4>2 DEF Fields
      <3>2. CASE element \notin Flags
        BY <2>1, <3>2 DEF SettingsClick
      <3> QED BY <3>1, <3>2
    <2> QED BY <2>1, <2>2 DEF SettingsClick, SettingsEvent, Click, Event
  <1>26. CASE \E element \in Elements("audio_menu") : ClickElsewhere(element)
    BY <1>26 DEF ClickElsewhere, CloseMenus, PlayerClick, Click, Event
  <1>27. CASE \E element \in {"title_settings", "browser_settings"} : ClickSettings(element)
    BY <1>27, FieldsTyped DEF ClickSettings, OpenSettings, CloseMenus, Click, Event, SettingsOK
  <1>28. CASE Frame
    <2>1. PICK band \in BOOLEAN, over \in BOOLEAN, tracks \in BOOLEAN :
              /\ TestPointer(over)
              /\ FrameEnded(over) \/ FrameElsewhere(over) \/ FramePlayer(tracks, band, over)
      BY <1>28 DEF Frame
    <2>2. UNCHANGED <<settingsVars, running, pageVars>>
      BY <1>28 DEF Frame
    <2>3. pointed' \in Layouts
      BY <2>1 DEF TestPointer
    <2>4. CASE FrameEnded(over)
      BY <2>2, <2>3, <2>4 DEF FrameEnded, CloseMenus, RestPage, Layouts
    <2>5. CASE FrameElsewhere(over)
      BY <2>2, <2>3, <2>5 DEF FrameElsewhere, RestPage, Layouts
    <2>6. CASE FramePlayer(tracks, band, over)
      <3>1. /\ renderedSize' \in 1 .. MaxBuffer /\ selectedSize' \in 1 .. MaxBuffer
            /\ inputText' \in FieldText
        BY <2>6, <1>1 DEF FramePlayer, BuildSize, SettingsOK
      <3>2. drawn' \in Layouts
        BY <2>6 DEF FramePlayer, PlayerLayout, Layouts, PlayerLayouts
      <3>3. near' \in BOOLEAN /\ controlsVisible' \in BOOLEAN /\ hideDue' \in BOOLEAN
        BY <2>6 DEF FramePlayer
      <3>4. /\ audioMenu' \in BOOLEAN /\ bufferMenu' \in BOOLEAN /\ inputFocus' \in BOOLEAN
            /\ left' \in BOOLEAN
        BY <2>6 DEF FramePlayer, CloseMenus
      <3>5. UNCHANGED <<dragging, playing, listing>>
        BY <2>6 DEF FramePlayer
      <3> QED BY <2>2, <2>3, <3>1, <3>2, <3>3, <3>4, <3>5
    <2> QED BY <2>1, <2>4, <2>5, <2>6
  <1> QED
    BY <1>3, <1>4, <1>5, <1>6, <1>7, <1>8, <1>9, <1>10, <1>11, <1>12, <1>13, <1>14, <1>15, <1>16, <1>17, <1>18, <1>19, <1>20, <1>21, <1>22, <1>23, <1>24, <1>25, <1>26, <1>27, <1>28
    DEF Next, SettingsKeys, SizeKeys, Clicks, Inputs

-----------------------------------------------------------------------------
(* The focus of the cache size field *)

LEMMA FocusStep ==
    ASSUME Typed, FocusIsVisible, [Next]_vars PROVE FocusIsVisible'
  <1> USE DEF FocusIsVisible, settingsVars, pageVars, menuVars, sizeVars, overlayVars, controlVars,
              playVars, layoutVars
  <1>1. CASE Start
    BY <1>1 DEF Start, Fresh
  <1>2. CASE Quit
    BY <1>2 DEF Quit, Fresh
  <1>3. CASE SettingsClose
    BY <1>3 DEF SettingsClose, ClosePage, SettingsEvent, Event
  <1>4. CASE SettingsSave
    BY <1>4 DEF SettingsSave, SaveSettingsPage, ClosePage, SettingsEvent, Event
  <1>5. CASE SettingsTab
    BY <1>5 DEF SettingsTab, SettingsEvent, Event
  <1>6. CASE \E edit \in FieldEdits : SettingsEdit(edit)
    BY <1>6 DEF SettingsEdit, SettingsEvent, Event
  <1>7. CASE \E text \in SizeTexts : SizeEdit(text)
    BY <1>7 DEF SizeEdit, SizeEvent, Event
  <1>8. CASE SizeEnter
    BY <1>8 DEF SizeEnter, SizeEvent, Event
  <1>9. CASE SizeEscape
    BY <1>9 DEF SizeEscape, CloseMenus
  <1>10. CASE \E element \in Elements("settings") : SettingsClick(element)
    BY <1>10 DEF SettingsClick, SettingsEvent, Event
  <1>11. CASE \E element \in Elements("audio_menu") : ClickElsewhere(element)
    BY <1>11 DEF ClickElsewhere, CloseMenus
  <1>12. CASE ClickStop
    BY <1>12 DEF ClickStop, CloseMenus
  <1>13. CASE ClickAudio
    BY <1>13 DEF ClickAudio, ToggleAudioMenu, PlayerClick, Click, Event
  <1>14. CASE ClickBuffer
    BY <1>14 DEF ClickBuffer, ToggleBufferMenu, PlayerClick, Click, Event
  <1>15. CASE ClickInput
    BY <1>15 DEF ClickInput, PlayerClick, Click, Event
  <1>16. CASE ClickApply
    BY <1>16 DEF ClickApply, CloseMenus
  <1>17. CASE PressVolume
    BY <1>17 DEF PressVolume, Event
  <1>18. CASE ReleaseVolume
    BY <1>18 DEF ReleaseVolume, Event
  <1>19. CASE \E element \in {"title_settings", "browser_settings"} : ClickSettings(element)
    BY <1>19 DEF ClickSettings, OpenSettings, CloseMenus
  <1>20. CASE SelectFile
    BY <1>20 DEF SelectFile, Shown, Click, Event
  <1>21. CASE AcceptLocal
    <2>1. UNCHANGED <<inputFocus, left, bufferMenu, settingsOpen>>
      BY <1>21 DEF AcceptLocal, Accept
    <2>2. (playing' = "clip" /\ controlsVisible') \/ UNCHANGED <<playing, controlsVisible>>
      BY <1>21 DEF AcceptLocal, Shown
    <2> QED BY <2>1, <2>2
  <1>22. CASE AcceptTorrent
    BY <1>22 DEF AcceptTorrent, Accept, Event
  <1>23. CASE AcceptOther
    BY <1>23 DEF AcceptOther, Accept, Event
  <1>24. CASE DelayPasses
    BY <1>24 DEF DelayPasses
  <1>25. CASE UNCHANGED vars
    BY <1>25 DEF vars
  <1>26. CASE Frame
    <2>1. PICK band \in BOOLEAN, over \in BOOLEAN, tracks \in BOOLEAN :
              FrameEnded(over) \/ FrameElsewhere(over) \/ FramePlayer(tracks, band, over)
      BY <1>26 DEF Frame
    <2>2. UNCHANGED pageVars
      BY <1>26 DEF Frame
    <2>3. CASE FrameEnded(over)
      BY <2>3 DEF FrameEnded, CloseMenus
    <2>4. CASE FrameElsewhere(over)
      BY <2>2, <2>4 DEF FrameElsewhere
    <2>5. CASE FramePlayer(tracks, band, over)
      <3>1. CASE controlsVisible /\ ~ControlsHide(near')
        <4>1. controlsVisible' /\ UNCHANGED <<bufferMenu, inputFocus, left, playing>>
          BY <2>5, <3>1 DEF FramePlayer
        <4> QED BY <2>2, <4>1
      <3>2. CASE ~(controlsVisible /\ ~ControlsHide(near'))
        BY <2>5, <3>2 DEF FramePlayer, CloseMenus
      <3> QED BY <3>1, <3>2
    <2> QED BY <2>1, <2>3, <2>4, <2>5
  <1> QED
    BY <1>1, <1>2, <1>3, <1>4, <1>5, <1>6, <1>7, <1>8, <1>9, <1>10, <1>11, <1>12, <1>13, <1>14, <1>15, <1>16, <1>17, <1>18, <1>19, <1>20, <1>21, <1>22, <1>23, <1>24, <1>25, <1>26
    DEF Next, SettingsKeys, SizeKeys, Clicks, Inputs

-----------------------------------------------------------------------------
(* The theorems *)

PagesInv == Typed /\ Agreed /\ FocusIsVisible

LEMMA PagesInit == Init => PagesInv
  <1> SUFFICES ASSUME Init PROVE PagesInv
    OBVIOUS
  <1>1. Defaults \in Settings /\ Clamped(Defaults) = Defaults
    BY DefaultsInRange
  <1>2. SettingsOK
    <2>1. "limit" \in DOMAIN service /\ service.limit = Defaults.buffer_size_mib
      BY DEF Init, Served
    <2>2. service.limit = 256 /\ cacheLimit = 256 /\ 256 \in 1 .. MaxBuffer
      BY <2>1, Maxima DEF Init, Defaults
    <2>3. Readable(ini) /\ writable \in BOOLEAN
      BY FilesReadable DEF Init
    <2>4. settings \in Settings /\ settings = Clamped(settings)
      BY <1>1 DEF Init
    <2> QED BY <2>1, <2>2, <2>3, <2>4 DEF SettingsOK
  <1>3. PagesOK
    <2>1. 256 \in 1 .. MaxBuffer /\ NoText \in FieldText /\ "empty" \in Layouts
      BY Maxima DEF Layouts, FieldText
    <2> QED BY <2>1, NoFieldsTyped DEF Init, PagesOK
  <1> QED BY <1>2, <1>3 DEF PagesInv, Typed, Agreed, FocusIsVisible, Init

\* The inductive invariant: types, the agreement, the focus.
LEMMA PagesInvariant == Spec => []PagesInv
  <1>1. PagesInv /\ [Next]_vars => PagesInv'
    <2> SUFFICES ASSUME PagesInv, [Next]_vars PROVE PagesInv'
      OBVIOUS
    <2>1. Typed /\ Agreed /\ FocusIsVisible
      BY DEF PagesInv
    <2> QED BY <2>1, SettingsStep, PagesStep, FocusStep DEF PagesInv, Typed
  <1> QED BY <1>1, PagesInit, PTL DEF Spec

\* Pages' variables keep their types: whatever is typed, the limits are in their ranges.
THEOREM PagesTypeCorrect == Spec => []TypeOK
  <1>1. PagesInv => TypeOK
    BY TypedIsTypeOK DEF PagesInv
  <1> QED BY <1>1, PagesInvariant, PTL

\* The cache size field has the keys only while the user sees it, but for the three ways
\* in which it is left with its focus: handle_player_click, accept_input and render.
THEOREM FocusVisible == Spec => []FocusIsVisible
  <1>1. PagesInv => FocusIsVisible
    BY DEF PagesInv
  <1> QED BY <1>1, PagesInvariant, PTL

\* The settings, the limit and torrview.ini agree, whatever file the program started from
\* and whatever is typed into the settings page and the player's menu; a URL with blanks at
\* its ends comes back without them, and as another proxy only where they count.
THEOREM SettingsAlwaysAgree == Spec => []SettingsAgree
  <1>1. PagesInv => SettingsAgree
    <2> SUFFICES ASSUME PagesInv, running PROVE SettingsAgree
      BY DEF SettingsAgree
    <2>1. settings \in Settings /\ settings = Clamped(settings)
      BY DEF PagesInv, Typed, SettingsOK
    <2>2. Saved(settings) = settings /\ Loaded(Saved(settings)) = Restored
      BY <2>1, LoadedSaved DEF Saved, Restored
    <2>3. Runtime(Restored) = Runtime(settings) \/ BlankCounts(settings.proxy_url)
      <3>1. /\ Restored.proxy_url = Trimmed(settings.proxy_url)
            /\ Restored.upload_speed_kib = settings.upload_speed_kib
            /\ Restored.max_connections = settings.max_connections
            /\ Restored.flags = settings.flags
        BY <2>1 DEF Restored, Settings
      <3>2. settings.proxy_url \in Proxies
        BY <2>1 DEF Settings
      <3> QED BY <3>1, <3>2, TrimmedProxy DEF Runtime
    <2>4. Restored.buffer_size_mib = settings.buffer_size_mib
      BY <2>1 DEF Restored, Settings
    <2>5. Served(Restored) = Served(settings) \/ BlankCounts(settings.proxy_url)
      BY <2>3, <2>4 DEF Served
    <2> QED BY <2>2, <2>5 DEF PagesInv, Agreed, SettingsAgree
  <1> QED BY <1>1, PagesInvariant, PTL
=============================================================================
