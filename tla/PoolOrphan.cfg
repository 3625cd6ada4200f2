SPECIFICATION Spec
CONSTANT Tasks = 2
INVARIANT AllStopped
CHECK_DEADLOCK FALSE
