SPECIFICATION FairSpec
CONSTANTS
    h1 = h1 h2 = h2 m1 = m1 m2 = m2 None = None
    Hosts = {h1, h2}
    Macs = {m1, m2}
    Claims <- Addresses
    CacheKey <- OneKey
    MaxArp = 1
    MaxBuffers = 1
    MaxPackets = 2
    MaxRequests = 4
    MaxEvents = 2
INVARIANTS TypeOK   AnswerComing
 
CHECK_DEADLOCK FALSE
