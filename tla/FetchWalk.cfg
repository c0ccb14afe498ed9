CONSTANTS
  MaxId = 6
  KindOf <- MCKindOf
  General = TRUE
  DateOf <- MCDateOf
  Cursors = {0, 1, 2}
  Ranges <- MCRanges
  BatchSize = 2
  Limit = 3
  OffsetInclusive = FALSE
  ZeroIsNewest = TRUE
  DateInclusive = FALSE
  ShortPages = TRUE
SPECIFICATION FairSpec
INVARIANTS TypeOK NoUnreadSkipped NewestPartFirst CompleteHasAll OneRequestAfterStop StoppedKeepsBatch CountsOnce LimitExact
PROPERTY WalkEnds
CHECK_DEADLOCK FALSE
