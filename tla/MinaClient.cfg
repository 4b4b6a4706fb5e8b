\* Two concurrent calls of any kind, every pair of nonces and settings.
CONSTANTS N = 2
          Retries = 2
          MaxNonce = 2
          Settings = {v1, v2}
          Unset = unset
SPECIFICATION FairSpec
INVARIANT NamedNonceOnce
INVARIANT RunsBounded
INVARIANT OkMeansRan
INVARIANT FirstErrorHonest
INVARIANT SetterInForce
INVARIANT PreviousHonest
PROPERTY EveryCallSettles
\* All calls end and no more are made.
CHECK_DEADLOCK FALSE
