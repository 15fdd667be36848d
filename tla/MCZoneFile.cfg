SPECIFICATION Spec
CONSTANTS
    Token <- MCToken
    ZoneName <- MCZoneName
    Absolute <- MCAbsolute
    Full <- MCFull
    Texts <- MCTexts
    Spelling <- MCSpelling
    Address <- MCAddress
    Line <- MCLine
    MaxLines = 9
    Other = {"y"}
    TextLen = 4
    TextChar = {"0", "2", "9", "m", "H", "d", "W", "y"}
INVARIANTS
    TypeOK
    ServedAsWritten
    LoadedIfAccepted
    ListedIsServed
    TimesAsDocumented
CHECK_DEADLOCK FALSE
