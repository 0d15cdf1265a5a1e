SPECIFICATION FairSpec
CONSTANTS
    a = a
    b = b
    Elsewhere <- AtServer
    Losable <- AtBoth
    Chunk = {a, b}
    MaxTimeouts = 1
INVARIANTS
    TypeOK
    FlagsAgree
    RequestServed
    NoRequestForgotten
    RefusedOnlyEarlyHave
    NeverStuck

    
