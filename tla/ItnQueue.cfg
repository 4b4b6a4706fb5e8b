\* Five calls: one holds the queue, some give up in the middle, some are behind.
CONSTANT N = 5
SPECIFICATION FairSpec
INVARIANT OneAtATime
INVARIANT ServedInOrder
PROPERTY WaitsOnlyForTask
PROPERTY CancelledCallLeaves
PROPERTY ImplementsFifoMutex
\* All calls end and no more are made.
CHECK_DEADLOCK FALSE
