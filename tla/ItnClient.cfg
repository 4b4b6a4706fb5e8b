\* Three calls, one handshake attempt each, the numbers wrap, and the daemon may restart once.
CONSTANTS N = 3
          Retries = 1
          SeqMod = 3
          MaxUuid = 2
SPECIFICATION Spec
INVARIANT TypeOK
INVARIANT InOrder
INVARIANT OutcomeHonest
INVARIANT SessionStable
INVARIANT SessionTracksDaemon
INVARIANT StaleOnlyIfMoved
INVARIANT LastAuthOfSession
\* All calls end and no more are made.
CHECK_DEADLOCK FALSE
