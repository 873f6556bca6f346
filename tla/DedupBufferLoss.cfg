SPECIFICATION LossSpec
CONSTANTS MaxSeq = 4
          Cap = 3
          Lost = {2}
PROPERTY NoPermanentStall
CHECK_DEADLOCK FALSE
