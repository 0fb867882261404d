SPECIFICATION FairSpec
CONSTANTS
  Events = {1, 2, 3, 4, 5, 6}
  EndOf <- MCEndOf
  Junk = {3, 4}
  PageLimit = 2
  CursorCap = 3
  MaxIterations = 2
  MaxClosings = 1
INVARIANTS TypeOK MissesArePaidFor StallsOnlyOnTies
PROPERTIES EveryPageProgresses CrawlEnds
CHECK_DEADLOCK FALSE
