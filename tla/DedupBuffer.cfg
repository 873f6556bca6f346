SPECIFICATION Spec
CONSTANTS MaxSeq = 7
          Cap = 3
INVARIANTS TypeOK BacklogBounded ExactlyOnce NothingDropped InOrderWhileOpen
PROPERTIES FlushKeepsOrder NoEarlySkip SkipsOnlyMissing ExpiredGapMoves StreamSpec
CHECK_DEADLOCK FALSE
