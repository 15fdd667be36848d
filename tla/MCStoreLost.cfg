SPECIFICATION Spec
CONSTANTS
    loader = loader
    tester = tester
    worker = worker
    zoneList = zoneList
    zoneNames = zoneNames
    r1 = r1
    r2 = r2
    StrKey = {}
    HashKey = {zoneNames}
    Rec = {r1, r2}
    Client = {loader, tester}
    Writer = {loader, tester}
    Garbage = {"null"}
PROPERTY
    AtomicCalls
