---------------------------- MODULE AppSettings ----------------------------
(***************************************************************************)
(* app_settings.cpp and the fields of ui/settings_page.cpp: the settings,  *)
(* what a save leaves in torrview.ini, what the next start makes of it.    *)
(*                                                                         *)
(* A file is a function from the keys it has to their values; a line that  *)
(* does not parse is a key it does not have.  A proxy URL is its parts and *)
(* the whitespace at its ends: a line loses that when it is read, and the  *)
(* torrent service takes it for a part of the URL.  A text typed into a    *)
(* field of digits is the number it spells, or NoText.                     *)
(***************************************************************************)
EXTENDS Integers

CONSTANTS
    Hosts,          \* host names of proxies
    NoHost,         \* the empty one
    Flags,          \* the keys that are true or false
    NoText,         \* a field without a digit in it, a ':' without a port after it
    NoPort          \* a URL without that ':'

ASSUME SettingsAssumption ==
    /\ NoHost \in Hosts /\ NoText \notin Int /\ NoPort \notin Int /\ NoPort # NoText
    /\ Flags \subseteq {"proxy_peer_connections", "proxy_tracker_connections", "proxy_dns"}

Schemes == {"socks4", "socks5", "http"}

\* "blank" is an empty URL, "other" one that no scheme begins or whose port is no number.
\* path: a '/' follows the host and port; before, after: whitespace comes before the
\* scheme, or after everything.
Proxies == [scheme : Schemes \cup {"blank", "other"}, credentials : BOOLEAN, host : Hosts,
            port : Int \cup {NoText, NoPort}, path : BOOLEAN, before : BOOLEAN, after : BOOLEAN]

NoProxy == [scheme |-> "blank", credentials |-> FALSE, host |-> NoHost, port |-> NoPort,
            path |-> FALSE, before |-> FALSE, after |-> FALSE]

Settings == [font_size : Int, buffer_size_mib : Int, upload_speed_kib : Int,
             max_connections : Int, proxy_url : Proxies, flags : SUBSET Flags]

Defaults == [font_size |-> 13, buffer_size_mib |-> 256, upload_speed_kib |-> 1024,
             max_connections |-> 200, proxy_url |-> NoProxy, flags |-> Flags]

Within(n, least, most) == IF n < least THEN least ELSE IF n > most THEN most ELSE n

MaxBuffer == 1024 * 1024
MaxUpload == 1024 * 1024
MaxConnections == 100 * 1000

\* clamp_settings
Clamped(s) ==
    [font_size |-> Within(s.font_size, 9, 24),
     buffer_size_mib |-> Within(s.buffer_size_mib, 1, MaxBuffer),
     upload_speed_kib |-> Within(s.upload_speed_kib, 0, MaxUpload),
     max_connections |-> Within(s.max_connections, 1, MaxConnections),
     proxy_url |-> s.proxy_url, flags |-> s.flags]

-----------------------------------------------------------------------------
(* torrview.ini *)

\* trim_copy takes the whitespace at both ends.
Trimmed(proxy) == [proxy EXCEPT !.before = FALSE, !.after = FALSE]

\* apply_setting, for each key of the file.
Setting(file, key) == IF key \in DOMAIN file THEN file[key] ELSE Defaults[key]

\* What the lines of a file say.
LoadedAsWritten(file) ==
    [font_size |-> Setting(file, "font_size"),
     buffer_size_mib |-> Setting(file, "buffer_size_mib"),
     upload_speed_kib |-> Setting(file, "upload_speed_kib"),
     max_connections |-> Setting(file, "max_connections"),
     proxy_url |-> Trimmed(Setting(file, "proxy_url")),
     flags |-> Setting(file, "flags")]

\* load_app_settings, without the save that ends it.
Loaded(file) == Clamped(LoadedAsWritten(file))

\* save_app_settings, when the file can be opened.
Saved(s) == Clamped(s)

-----------------------------------------------------------------------------
(* The fields of the settings page *)

FieldText == Int \cup {NoText}
Fields == [font_size : FieldText, upload_speed_kib : FieldText, max_connections : FieldText,
           proxy_url : Proxies, flags : SUBSET Flags]

\* SettingsPage::open
FieldsOf(s) ==
    LET c == Clamped(s)
    IN  [font_size |-> c.font_size, upload_speed_kib |-> c.upload_speed_kib,
         max_connections |-> c.max_connections, proxy_url |-> c.proxy_url, flags |-> c.flags]

\* int_field: a text without a digit keeps what there was.
IntField(text, fallback) == IF text = NoText THEN fallback ELSE text

\* write_settings: the cache size is not on the page.
Written(fields, s) ==
    Clamped([font_size |-> IntField(fields.font_size, s.font_size),
             buffer_size_mib |-> s.buffer_size_mib,
             upload_speed_kib |-> IntField(fields.upload_speed_kib, s.upload_speed_kib),
             max_connections |-> IntField(fields.max_connections, s.max_connections),
             proxy_url |-> fields.proxy_url, flags |-> fields.flags])

\* focus_next
NextField(focus) ==
    CASE focus = "font_size" -> "upload_speed_kib"
      [] focus = "upload_speed_kib" -> "max_connections"
      [] focus = "max_connections" -> "proxy_url"
      [] OTHER -> "font_size"

-----------------------------------------------------------------------------
(* What the torrent service is handed *)

DefaultPort == [socks4 |-> 1080, socks5 |-> 1080, http |-> 8080]

\* The variant that sends a name and a password, where there is one.
ProxyType(proxy) ==
    CASE proxy.credentials /\ proxy.scheme = "socks5" -> "socks5_pw"
      [] proxy.credentials /\ proxy.scheme = "http" -> "http_pw"
      [] OTHER -> proxy.scheme

NoneInForce == [type |-> "none", host |-> NoHost, rest |-> "", port |-> 0]

\* Whitespace after a URL belongs to its host or port, unless it is cut off with a path.
EndsInBlank(proxy) == proxy.after /\ ~proxy.path

\* What a host has after its name: the ':' that no port follows, or the whitespace.
Rest(proxy) ==
    CASE proxy.port = NoText -> ":"
      [] proxy.port = NoPort /\ EndsInBlank(proxy) -> " "
      [] OTHER -> ""

\* parse_proxy_url trims only to tell an empty URL: whitespace before a scheme makes it
\* one it does not know, and in the place of a port it is no number.
Refused(proxy) ==
    \/ proxy.before \/ proxy.scheme \notin Schemes
    \/ proxy.port = NoText /\ EndsInBlank(proxy)
    \/ proxy.host = NoHost /\ Rest(proxy) = ""

\* An empty URL and a refused one are no proxy.
ProxyInForce(proxy) ==
    IF Refused(proxy) THEN NoneInForce
    ELSE [type |-> ProxyType(proxy), host |-> proxy.host, rest |-> Rest(proxy),
          port |-> IF proxy.port \in Int THEN Within(proxy.port, 1, 65535)
                   ELSE DefaultPort[proxy.scheme]]

\* The whitespace at its ends makes the URL another proxy than it is without: all of it
\* does but what follows a port's digits, which stoi leaves, or a path.
BlankCounts(proxy) == proxy.before \/ (EndsInBlank(proxy) /\ proxy.port \notin Int)

\* runtime_settings_from_app_settings and apply_runtime_settings
Runtime(s) ==
    [upload_rate |-> Within(s.upload_speed_kib, 0, MaxUpload) * 1024,
     connections |-> Within(s.max_connections, 1, MaxConnections),
     proxy |-> ProxyInForce(s.proxy_url), flags |-> s.flags]
=============================================================================
