\* Two decimals; texts with up to three characters on each side of the point.
CONSTANTS Decimals = 2
          Figures = {0, 1, 9}
          Longest = 3
          MaxNano = 1100
SPECIFICATION Spec
INVARIANT TypeOK
INVARIANT ReadsExactly
INVARIANT PrintsReadably
\* Amounts above MaxNano are not calculated with.
CHECK_DEADLOCK FALSE
