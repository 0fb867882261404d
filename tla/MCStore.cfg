SPECIFICATION FairSpec
CONSTANTS
  Tickers = {1, 2}
  NoEnd = NoEnd
  Bad = Bad
  Peers = {p1}
  Readers = {r1}
  CrawlEnds = {0}
  InitFiles <- MCInitFiles
  PeerFiles <- MCPeerFiles
  Proxies = {s1}
  NullDisabled = TRUE
  Interval = 2
  Grace = 1
  MaxNow = 4
  MaxEvents = 2
  MaxInodes = 2
INVARIANTS TypeOK SnapshotsExact
PROPERTIES HeldFilesImmutable StampNeverRegresses RefinesAtomicDb DueWorkEnds
