SPECIFICATION Spec
CONSTANTS MaxSeq = 6
          Cap = 2
INVARIANT InOrder
CHECK_DEADLOCK FALSE
