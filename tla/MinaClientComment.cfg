\* The comment at the rethrow of GraphQL errors, for one call.
CONSTANTS N = 1
          Retries = 2
          MaxNonce = 0
          Settings = {v1}
          Unset = unset
SPECIFICATION Spec
INVARIANT ErrorsDeterministic
\* All calls end and no more are made.
CHECK_DEADLOCK FALSE
