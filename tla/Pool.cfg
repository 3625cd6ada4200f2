SPECIFICATION FairSpec
CONSTANT Tasks = 3
INVARIANT TypeOK
INVARIANT ChildrenStopped
INVARIANT NotStoppedEarly
PROPERTY PoolEnds
CHECK_DEADLOCK FALSE
