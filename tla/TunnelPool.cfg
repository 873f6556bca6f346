SPECIFICATION Spec
CONSTANTS Slots = {s1, s2}
          Tunnels = {t1, t2}
          App = app
          None = none
          MaxFrame = 2
          Depth = 2
          MaxOrphans = 2
INVARIANTS TypeOK Accounted OnlyLateSendsStrand
PROPERTIES SentFramesSettle
CHECK_DEADLOCK FALSE
