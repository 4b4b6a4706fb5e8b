\* One call with a handle and its repetition.
CONSTANTS N = 2
          Handles = {h1}
SPECIFICATION Spec
INVARIANT RepeatStartsNothing
CHECK_DEADLOCK FALSE
