\* Every call settles, and the contract with the callers is kept.
CONSTANTS N = 2
          Retries = 2
          SeqMod = 2
          MaxUuid = 2
SPECIFICATION FairSpec
PROPERTY EveryCallSettles
PROPERTY KeepsContract
\* All calls end and no more are made.
CHECK_DEADLOCK FALSE
