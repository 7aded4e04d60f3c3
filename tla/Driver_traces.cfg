SPECIFICATION Spec
CONSTANTS
  Suites <- MCSuites
  Options <- MCOptions
  Addresses = {0, 1, 2, 4}
  HeapSize = 4
  Align = 2
  NULL = NULL
  kbest = 2
  maxsamples = 3
  Word = 4
  Costs = {3, 6}
  Ticks = {0, 1}
  Ratios = {0, 2}
INVARIANTS RangesAreLive VerdictIsRight CleanScore KBest
PROPERTY TimeoutEnds
CHECK_DEADLOCK FALSE
