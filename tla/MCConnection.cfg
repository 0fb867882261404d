SPECIFICATION FairSpec
CONSTANTS
  Conns = {c1, c2}
  Silent = {c2}
  InboxCap = 2
  WireCap = 1
  MaxSwaps = 1
INVARIANTS TypeOK EveryLineAccounted NothingAfterTorn FreshReads
PROPERTIES NeverWaitsForEver NewClientsServed GoneClientsFreed
