CONSTANTS
  p1 = p1
  p2 = p2
  c1 = c1
  t1 = t1
  f = f
  Procs = {p1, p2}
  Plain = {c1}
  Forum = f
  Topics = {t1}
  Ids = {1}
  None = None
  MaxAborts = 1
  Midnight <- ShortThenLong
  Hours = {22, 23, 47}
  Ranges <- SomeRanges
SYMMETRY Symmetry
SPECIFICATION Spec
INVARIANTS SavedIsListed ExportIsExact TopicsAddUp
