\* An external and a timer interrupt, exceptions, returns and CSR writes.
SPECIFICATION Spec
CONSTANTS
    Faults = {2}
    Irqs <- MCIrqs
    MieValues = {{5, 9}}
    MidelegValues <- MCMideleg
    MedelegValues <- MCMedeleg
    MppValues = {1}
INVARIANT TrapInv
PROPERTIES ReturnsRestore RisesThroughVector TopiNamesDelivered
