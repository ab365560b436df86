SPECIFICATION FairSpec
PROPERTY SomeBootloaderFallsBack
