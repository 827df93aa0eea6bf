\* Every float instruction on small formats, the multi-word helpers and the integer instructions.
SPECIFICATION MCSpec
CONSTANTS
    F32 <- MCF32
    F64 <- MCF64
    Window = 8
    WordTop = 6
    RootDigits = 5
    Cases <- MCCases
    W = 4
    WideInputs <- MCWideInputs
    Container = 8
    WordBits = 4
    HalfBits = 3
    ByteBits = 2
    AluInputs <- MCAluInputs
INVARIANTS ResultsAgree  WordsAgree AluAgrees
\* One instruction or one call per behaviour.
CHECK_DEADLOCK FALSE
