\* Non-retentive hart_suspend.
SPECIFICATION Spec
CONSTANTS
    NHarts = 2
    AddrSpace = 4
    TimeWrap = 2
    ExitCodes = {0}
    Causes = {}
    Caps = {1}
PROPERTY SuspendResumesAtAddr
