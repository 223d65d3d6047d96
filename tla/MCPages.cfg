SPECIFICATION Spec
CONSTANTS
    Hosts = {"", "proxy.lan"}
    NoHost = ""
    NoText = notext
    NoPort = noport
    Flags = {"proxy_dns"}
    Files <- MCFiles
    FieldEdits <- MCFieldEdits
    SizeTexts <- MCSizeTexts
INVARIANTS
    TypeOK
    FocusIsVisible
    SettingsAgree
PROPERTY
    ControlsGo
