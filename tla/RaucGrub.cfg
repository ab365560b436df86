SPECIFICATION FairSpec
INVARIANTS
    IInv
    HalfWrittenNeverUp
    NoSlotMislabelled
    System0NeverOnTrial
PROPERTIES
    FallsBackToSystem0
    InterruptedWriteComesUp
