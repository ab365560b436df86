SPECIFICATION FairSpec
INVARIANTS
    IInv
    AlwaysAValidSlot
PROPERTIES
    InterruptedWriteComesUp
