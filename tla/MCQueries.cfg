SPECIFICATION Spec
CONSTANTS
  Tickers = {1, 2, 3}
  NoEnd = noend
  Bad = bad
  Files <- MCFiles
  Widths = {1, 2}
  CrawlEnds = {noend}
  MetaLen = 2
  Now = 9
  Grace = 1
  MaxEvents = 2
  MaxLines = 3
  Spelling <- MCSpelling
  Strings <- MCStrings
  Limits = {1, 2, 3}
  Null = null
  NonText = nontext
  Markets <- MCMarkets
CHECK_DEADLOCK FALSE
INVARIANTS TypeOK LoadedExactly PublishedIsReloaded NothingEvicted
INVARIANTS GetEventExact CursorExact PrefixExact EveryAssetOnce
