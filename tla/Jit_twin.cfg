SPECIFICATION Spec
CONSTANTS
    Boots <- MCBoots
    PageEnd = 3
    MaxInsns = 3
    Ways = 2
    Arena = 5
    DcSlots = 2
    Caps = {2, 5}
INVARIANTS SameMachine CodeIntact
PROPERTY FenceContract
CHECK_DEADLOCK FALSE
