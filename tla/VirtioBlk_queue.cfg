\* A two-entry ring whose indices wrap at 4, every kind of request, one reset.
SPECIFICATION FairSpec
CONSTANTS
    QueueNum = 2
    IndexMod = 4
    ImageSize = 1
    Requests <- Mixed
    MaxResets = 1
INVARIANTS ExactlyOnceInOrder  NoLostCompletion
PROPERTY RequestsFinish
