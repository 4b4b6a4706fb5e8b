SPECIFICATION Spec
CONSTANTS MostOdd = 2
          ManyOdd = 40
INVARIANT TypeOK
INVARIANT EveryVariableSent
INVARIANT ArgumentsKept
INVARIANT ResultAsTyped
INVARIANT NothingLost
INVARIANT NothingInvented
INVARIANT ClaimsJudged
PROPERTY BackendFound
