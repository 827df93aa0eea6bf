\* Two harts, several addresses and caps, calls of both kinds.
SPECIFICATION FairSpec
CONSTANTS
    NHarts = 2
    AddrSpace = 2
    TimeWrap = 3
    ExitCodes = {0, 7}
    Causes <- MCFewCauses
    Caps = {1, 3}
INVARIANTS HaltConsistent  CrashSurfaced HsmCoherent
PROPERTIES SiblingsOnlyWoken RunReturns
