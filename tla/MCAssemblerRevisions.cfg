SPECIFICATION Spec
CONSTANTS
    p = p
    q = q
    a = a
    b = b
    c = c
    Path = {p}
    Chunk = {a, b, c}
    Content <- MCRevisions
    Thread = {t1}
    MaxFailures = 0
INVARIANT
    AssembledIsOnDisk
