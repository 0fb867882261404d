SPECIFICATION FairSpec
CONSTANTS
  Tickers = {1, 3, 6}
  Clients = {c1}
  Requests = {0, 1, 3}
  MaxLimit = 2
INVARIANTS TypeOK NoRepeat NoSkip
PROPERTIES PagingEnds
