CONSTANT MaxLifecycle = 2
SPECIFICATION FairSpec
INVARIANT TypeOK
INVARIANT PromiseKept
INVARIANT CleanStop
INVARIANT WaiterHasWaker
PROPERTY AnsweredWhenCalm
PROPERTY StopsWhenCalm
PROPERTY PclReleased
