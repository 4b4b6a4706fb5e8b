\* The comment on the second pass, against one incarnation of the daemon.
CONSTANTS N = 2
          Retries = 1
          SeqMod = 3
          MaxUuid = 1
SPECIFICATION Spec
INVARIANT StaleOnlyByOthers
\* All calls end and no more are made.
CHECK_DEADLOCK FALSE
