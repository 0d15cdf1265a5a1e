SPECIFICATION FairSpec
CONSTANTS
    Path = {p}
    Worker = {w1, w2}
    Assembler = {a1, a2}
    None = None
    MaxThreads = 1
    MoveEvents = {1}
    SentMtimes = {1}
    MaxVersions = 2
    MaxEvents = 1
    MaxTime = 2
    MaxRetries = 0
INVARIANTS
    TypeOK
    TasksAlive
    

    
