\* Three harts, word accesses: LR/SC increments are atomic.
SPECIFICATION ResSpec
CONSTANTS
    NHarts = 3
    NWords = 2
    Modulus = 3
    Spans = {1}
INVARIANT ReservationExact
PROPERTY RefinesAtomicMemory
