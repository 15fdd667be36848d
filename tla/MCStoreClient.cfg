SPECIFICATION FairSpec
CONSTANTS
    loader = loader
    tester = tester
    worker = worker
    zoneList = zoneList
    zoneNames = zoneNames
    r1 = r1
    r2 = r2
    StrKey = {zoneList}
    HashKey = {zoneNames}
    Rec = {r1, r2}
    Client = {loader, worker}
    Writer = {loader}
    Garbage = {"null", "wild"}
INVARIANTS
    TypeOK
PROPERTIES
    AtomicCalls
    AppendOnly
    CallsEnd
