SPECIFICATION Spec
CONSTANTS Tunnels = {t1, t2}
          Initial = {t1}
          MaxFrame = 2
          InboxSize = 1
          Cap = 1
          MaxSeen = 1
          Window = 2
          Wrap = 8
          MaxDials = 2
          MaxDeaths = 1
INVARIANTS TypeOK FirstCopyOnly CloseKeepsItsPlace
CHECK_DEADLOCK FALSE
CONSTRAINT Going
ACTION_CONSTRAINT FindsOrphans
