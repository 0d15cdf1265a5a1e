SPECIFICATION Spec
CONSTANTS
    Chunk = {c1, c2}
    Byte = {0, 1, 2}
    File = {f1, f2, f3, f4, f5, f6}
    NoFile = NoFile
    MaxAdds = 2
SYMMETRY Symmetry
INVARIANT
    CompleteChunkStored
CHECK_DEADLOCK FALSE
