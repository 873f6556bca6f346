SPECIFICATION Spec
CONSTANTS Slots = {s1, s2}
          Accepted = {a1, a2}
          Size = 1
INVARIANTS TypeOK SlotsNeverPanic NoTunnelOutlivesPool
PROPERTIES StopsUnlessStuck
CHECK_DEADLOCK FALSE
