\* Three calls: start, repeat or list, and stop.
CONSTANTS N = 3
          Handles = {h1}
SPECIFICATION Spec
INVARIANT StoppedStays
INVARIANT ListIsComplete
\* All calls end and no more are made.
CHECK_DEADLOCK FALSE
