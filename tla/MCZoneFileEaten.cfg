SPECIFICATION Spec
CONSTANTS
    Token <- MCToken
    ZoneName <- MCZoneName
    Absolute <- MCAbsolute
    Full <- MCFull
    Texts <- MCTexts
    Spelling <- MCSpelling
    Address <- MCAddress
    Line <- MCLine
    MaxLines = 9
    Other = {"y"}
    TextLen = 1
    TextChar = {"0", "2", "9", "m", "H", "d", "W", "y"}
INVARIANT AcceptedInFull
CHECK_DEADLOCK FALSE
