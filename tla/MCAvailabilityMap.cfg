SPECIFICATION Spec
CONSTANTS
    Size = 7
    Blocks <- MCBlocks
INVARIANTS
    MapExact
PROPERTY
    ImplementsFreeBytes
