SPECIFICATION FairSpec
CONSTANTS
    a = a
    b = b
    c = c
    Node = {a, b, c}
    Writer = {a, c}
    Path = {p}
    NoMeta = NoMeta
    LinkOf <- MCLinkOf
    Revision = {1, 2}
    MaxEdits = 2
    MaxDrops = 1
INVARIANTS
    TypeOK
    RequestNotInVain
    NothingMissed
PROPERTIES
    ImplementsHistory
    Converges
CHECK_DEADLOCK FALSE
