SPECIFICATION Spec
CONSTANTS Tunnels = {t1, t2, t3}
          Configs <- MCConfigs
          MinFrames = 2
          Keys = {k1, k2, k3}
          RingSize = 2
          Num = 1
          Den = 3
          MaxWins = 2
INVARIANTS TypeOK WinsAddUp KnowsTheLatest
PROPERTIES DemotionKeepsFloor DemotionHasReason Converges
CHECK_DEADLOCK FALSE
