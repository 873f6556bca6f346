SPECIFICATION Spec
CONSTANTS Tunnels = {t1, t2}
          Initial = {t1}
          MaxFrame = 2
          InboxSize = 1
          Cap = 2
          MaxSeen = 1
          Window = 2
          Wrap = 8
          MaxDials = 1
          MaxDeaths = 0
INVARIANT ZeroVisibleLoss
CHECK_DEADLOCK FALSE
