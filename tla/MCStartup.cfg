SPECIFICATION Spec
CONSTANTS
    Plain = {"a", "d", "f", "g", "h", "s", "t", "?", "0", "-", ".", "zone", "type", "file",
             "master", "etc", "smartDNS", "master.conf", "stop", "quit", "reopen", "reload"}
    TokenMax = 4
    ConfLen = 7
    MaxLine = 4
    MaxLines = 2
    MaxCore = 3
    MaxArgs = 3
    Commands <- MCCommands
    Files <- MCFiles
INVARIANTS
    TypeOK
    RolesAsGiven
    TokensAsDocumented
    ConfAsWritten
    ZoneFilesBesideConf
CHECK_DEADLOCK FALSE
