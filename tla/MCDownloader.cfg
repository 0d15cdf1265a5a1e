SPECIFICATION FairSpec
CONSTANTS
    r1 = r1
    r2 = r2
    c1 = c1
    c2 = c2
    Remote = {r1, r2}
    Chunk = {c1, c2}
    ChunkSize <- MCChunkSize
    Meta <- MCMeta
    BlockSizes = {1, 2}
    Slots = 2
    RequestTimeout = 1
    MaxMetaEvents = 2
INVARIANTS
    TypeOK
    RequestsDisjoint
    QueuedIncomplete
    NoDanglingRemote
    RequestsAnswerable
    InterestExact
    SlotsRespected
PROPERTY
    NoStarvation
