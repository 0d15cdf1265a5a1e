SPECIFICATION FairSpec
CONSTANTS
    p = p
    q = q
    a = a
    b = b
    c = c
    Path = {p, q}
    Chunk = {a, b, c}
    Content <- MCShared
    Thread = {t1, t2}
    MaxFailures = 1
INVARIANTS
    TypeOK
    ChunksAccounted
    AssembledStaysOnDisk
    HadIsObtainable

    
