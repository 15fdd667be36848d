SPECIFICATION Spec
CONSTANTS
    a = a
    A = A
    d1 = d1
    d2 = d2
    END = END
    MaxLabels = 2
    Label <- MCLabel
    Type <- MCType
    Data <- MCData
    Zone <- MCZone
    Config <- MCConfig
    Datagram <- MCDatagram
INVARIANT ZoneNameServed
CHECK_DEADLOCK FALSE
