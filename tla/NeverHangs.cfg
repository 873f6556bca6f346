SPECIFICATION Spec
CONSTANTS MaxFrame = 1
          InboxSize = 1
          MaxFaults = 1
PROPERTY NeverHangs
CHECK_DEADLOCK FALSE
