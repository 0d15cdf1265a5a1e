SPECIFICATION QueueSpec
CONSTANTS
    c1 = c1
    c2 = c2
    c3 = c3
    Remote = {r1, r2, r3}
    Chunk = {c1, c2, c3}
    Meta <- MCMeta
SYMMETRY Symmetry
INVARIANT
    CountsConsistent
