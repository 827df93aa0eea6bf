SPECIFICATION LiveSpec
CONSTANTS
    Boots <- MCBoots
    Vals = 3
    Patched = 2
    MaxBp = 1
    MaxCp = 3
    CpInterval = 2
    PollEvery = 2
    Tries = 3
    Wrap = 64
INVARIANTS
    ReplayExact
    StopsRight
    OnceEach
    
PROPERTIES
    
    Answered
CHECK_DEADLOCK FALSE
