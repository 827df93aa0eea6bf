\* A tty console, two contexts sharing the UART, no nesting.
SPECIFICATION FairSpec
CONSTANTS
    Contexts = {0, 1}
    VirtioSources = {1}
    Priorities <- BothSources
    Enables <- SharedUart
    Raw = TRUE
    MaxInput = 3
    MaxWork = 1
    MaxNest = 1
INVARIANTS InputExact InServiceExact
PROPERTIES InputServed NoStorm
CHECK_DEADLOCK FALSE
