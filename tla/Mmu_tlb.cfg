\* Two harts share two page tables; one store to a PTE at any moment.
SPECIFICATION Spec
CONSTANTS
    Harts = {h1, h2}
    Levels = 2
    FieldSize = 2
    Frames = {0, 1, 2, 3, 4, 5, 6}
    Tables = {0, 1}
    TlbEntries = 2
    Vpns = {0, 1, 3, 4}
    Contexts <- MCContexts
    Roots <- MCRoots
    InitTables <- MCTables
    Ptes <- MCPtes
    MaxEdits = 1
INVARIANTS TlbTransparent ProbeIdempotent NoForeignEntry
SYMMETRY HartSymmetry
