SPECIFICATION Spec
CONSTANTS MaxFrame = 1
          InboxSize = 1
          MaxFaults = 1
INVARIANTS TypeOK WordIsUnderWay
PROPERTIES DispatcherMovesOn ServerFollows EndIsTold DeadPoolIsNoticed
CHECK_DEADLOCK FALSE
