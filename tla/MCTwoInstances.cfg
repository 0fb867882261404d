SPECIFICATION Spec
CONSTANTS
  Tickers = {1, 2}
  NoEnd = NoEnd
  Bad = Bad
  Peers = {}
  Readers = {}
  CrawlEnds = {0}
  InitFiles <- MCInitFiles
  PeerFiles = {}
  Proxies = {}
  NullDisabled = FALSE
  Interval = 1
  Grace = 1
  MaxNow = 2
  MaxEvents = 1
  MaxInodes = 2
INVARIANTS ServedEntriesAreTheirTickers
