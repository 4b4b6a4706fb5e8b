SPECIFICATION Spec
CONSTANTS MostOdd = 2
          ManyOdd = 40
INVARIANT NonNullVariablesFilled
