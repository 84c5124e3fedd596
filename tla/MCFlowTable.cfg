SPECIFICATION FairSpec
CONSTANTS
    p1 = p1 p2 = p2 ip = ip other = other tcp = tcp udp = udp
    Any = Any Empty = Empty NoPort = NoPort
    MaxEntries = 3
    Ports = {p1, p2}
    DlTypes = {ip, other}
    Protos = {tcp, udp}
    L3Types = {ip}
    FlowMods <- Mods
    MaxTimeout = 1
    MaxCount = 3
INVARIANTS TypeOK CountCovers LookupPicks NormalIsFallback
PROPERTIES  DeleteRemovesSubsumed RemovalsReported TimedOutLeaves
