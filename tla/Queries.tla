------------------------------ MODULE Queries ------------------------------
(***************************************************************************)
(* What the requests of api.rs read out of a snapshot: cursor_range and    *)
(* prefix_range of database.rs on the sorted index that IndexBuild's loops *)
(* leave, prefix_search, and the asset ids list_asset_ids takes from the   *)
(* markets of a record.                                                    *)
(*                                                                         *)
(* Here tickers are spelled out: a cursor and a prefix are any strings,    *)
(* which need not be tickers.  A string is a sequence of letters.          *)
(***************************************************************************)
EXTENDS IndexBuild, FiniteSets, SequencesExt

CONSTANTS Spelling,  \* ticker -> its string
          Strings,   \* the cursors and prefixes of requests
          Limits,    \* limits, after resolve_limit
          Null,      \* next_after: null, and a field that is not there
          NonText,   \* a member of a JSON array that is no string
          Markets    \* ticker -> the markets of its record

\* str's order: the one that ends first, or is smaller where they first differ.
Precedes(a, b) ==
  \E n \in 0 .. Len(a) :
    /\ n <= Len(b) /\ SubSeq(a, 1, n) = SubSeq(b, 1, n)
    /\ n < Len(b)
    /\ n = Len(a) \/ a[n + 1] < b[n + 1]

ASSUME TickersSpelledInOrder ==
  /\ Spelling \in [Tickers -> Seq(Nat)] /\ Strings \subseteq Seq(Nat)
  /\ \A t, u \in Tickers : t < u <=> Precedes(Spelling[t], Spelling[u])
\* A field of a market: Null, a string (its ids if it holds a JSON array of them,
\* else Null), or an array of strings and other values.
Field == [form : {"string"}, ids : Seq(Strings \cup {NonText}) \cup {Null}]
            \cup [form : {"array"}, ids : Seq(Strings \cup {NonText})]

ASSUME MarketsHaveFields ==
  \A t \in Tickers : \A m \in DOMAIN Markets[t] :
    {Markets[t][m].clobTokenIds, Markets[t][m].positionIds} \subseteq Field \cup {Null}
ASSUME QueryBounds ==
  Limits \subseteq Nat \ {0} /\ Null \notin Strings \cup {Spelling[t] : t \in Tickers}

Name(e) == Spelling[e.ticker]

-----------------------------------------------------------------------------
(* database.rs *)

\* slice::partition_point: how many at the front hold.
PartitionPoint(holds) ==
  CHOOSE n \in 0 .. Len(holds) :
    /\ \A m \in 1 .. n : holds[m]
    /\ n < Len(holds) => ~ holds[n + 1]

\* Mutant: the entry at the insertion point is taken for the one looked for.
FindNearest(s, name) ==
  LET n == PartitionPoint([m \in DOMAIN s |-> Precedes(Name(s[m]), name)])
  IN  IF n < Len(s) THEN {s[n + 1]} ELSE {}

\* binary_search_by: one of the entries of that name, whichever it comes upon.
Find(s, name) == {s[m] : m \in {n \in DOMAIN s : Name(s[n]) = name}}

Page(s, start, limit) ==
  LET end == IF start + limit < Len(s) THEN start + limit ELSE Len(s)
      page == SubSeq(s, start + 1, end)
  IN  [page |-> page,
       next |-> IF end < Len(s) /\ page # <<>> THEN Name(Last(page)) ELSE Null]

\* Mutant: the entry at the cursor is part of the next page.
CursorRangeInclusive(s, after, limit) ==
  LET done == [m \in DOMAIN s |-> Precedes(Name(s[m]), after)]
  IN  Page(s, IF after = Null THEN 0 ELSE PartitionPoint(done), limit)

CursorRange(s, after, limit) ==
  LET done == [m \in DOMAIN s |-> ~ Precedes(after, Name(s[m]))]
  IN  Page(s, IF after = Null THEN 0 ELSE PartitionPoint(done), limit)

\* Mutant: a ticker that is the prefix itself is taken to be before it.
PrefixRangeExclusive(s, prefix) ==
  LET before == [m \in DOMAIN s |-> ~ Precedes(prefix, Name(s[m]))]
      rest == SubSeq(s, PartitionPoint(before) + 1, Len(s))
      starts == [m \in DOMAIN rest |-> IsPrefix(prefix, Name(rest[m]))]
  IN  SubSeq(rest, 1, PartitionPoint(starts))

PrefixRange(s, prefix) ==
  LET before == [m \in DOMAIN s |-> Precedes(Name(s[m]), prefix)]
      rest == SubSeq(s, PartitionPoint(before) + 1, Len(s))
      starts == [m \in DOMAIN rest |-> IsPrefix(prefix, Name(rest[m]))]
  IN  SubSeq(rest, 1, PartitionPoint(starts))

-----------------------------------------------------------------------------
(* api.rs *)

PrefixSearch(s, prefix, limit) ==
  LET matches == PrefixRange(s, prefix)
  IN  [tickers |-> SubSeq(matches, 1, IF limit < Len(matches) THEN limit ELSE Len(matches)),
       truncated |-> Len(matches) > limit]

IsText(id) == id # NonText

\* A string is parsed as Vec<String>, all or nothing; an array is filtered.
ParseIdList(v) ==
  IF v = Null THEN <<>>
  ELSE IF v.form = "array" THEN SelectSeq(v.ids, IsText)
  ELSE IF v.ids = Null \/ NonText \in Range(v.ids) THEN <<>> ELSE v.ids

\* Mutant: the ids of both fields are listed.
MarketIdsMerged(market) ==
  ParseIdList(market.clobTokenIds) \o ParseIdList(market.positionIds)

\* extract_asset_ids, for one market.
MarketIds(market) ==
  LET ids == ParseIdList(market.clobTokenIds)
  IN  IF ids = <<>> THEN ParseIdList(market.positionIds) ELSE ids

\* What list_asset_ids lists for one entry of its page.
AssetEntries(e) ==
  LET Of(m) == [n \in DOMAIN MarketIds(Markets[e.ticker][m]) |->
                  [asset_id |-> MarketIds(Markets[e.ticker][m])[n],
                   ticker |-> e.ticker, market_index |-> m]]
  IN  FlattenSeq([m \in DOMAIN Markets[e.ticker] |-> Of(m)])

ListAssetIds(s, after, limit) ==
  LET r == CursorRange(s, after, limit)
  IN  [entries |-> FlattenSeq([n \in DOMAIN r.page |-> AssetEntries(r.page[n])]),
       next |-> r.next]

-----------------------------------------------------------------------------
(* Properties *)

Stored == {index[m].ticker : m \in DOMAIN index}
TickersIn(s) == {s[m].ticker : m \in DOMAIN s}
First(S, n) == {t \in S : Cardinality({u \in S : u < t}) < n}

\* get_event of any string reads the last record of that ticker in the file, and
\* null exactly if there is none: wherever the bisection looks, there is one.
GetEventExact ==
  pc = "loaded" /\ hasOld => \A name \in Strings :
    {ReadAt(file, e) : e \in Find(index, name)} =
      {LinesOf(file)[LastPosition(LinesOf(file), t)] :
         t \in {u \in TickersOf(LinesOf(file)) : Spelling[u] = name}}

\* A cursor that is any string, a ticker that was pruned since included, gives
\* the next tickers after it, as many as asked for, and a next_after that is null
\* exactly when there are no more.
CursorExact ==
  pc = "loaded" => \A after \in Strings \cup {Null}, n \in Limits :
    LET rest == {t \in Stored : after = Null \/ Precedes(after, Spelling[t])}
        r == CursorRange(index, after, n)
    IN  /\ TickersIn(r.page) = First(rest, n) /\ StrictlySorted(r.page)
        /\ r.next = Null <=> First(rest, n) = rest

\* A prefix search gives the first of all tickers with that prefix, the prefix
\* itself included, and says whether there are more.
PrefixExact ==
  pc = "loaded" => \A prefix \in Strings, n \in Limits :
    LET all == {t \in Stored : IsPrefix(prefix, Spelling[t])}
        r == PrefixSearch(index, prefix, n)
    IN  /\ TickersIn(r.tickers) = First(all, n) /\ StrictlySorted(r.tickers)
        /\ r.truncated <=> First(all, n) # all

\* The responses to a client that pages through everything n at a time, joined.
AllAssets(n) ==
  LET from[after \in {Null} \cup {Spelling[t] : t \in Tickers}] ==
        LET r == ListAssetIds(index, after, n)
        IN  r.entries \o IF r.next = Null THEN <<>> ELSE from[r.next]
  IN  from[Null]

\* The ids a field of the market names, in whatever form.
Named(market) ==
  UNION {Range(v.ids) \ {NonText} :
           v \in {u \in {market.clobTokenIds, market.positionIds} : u # Null /\ u.ids # Null}}

\* Paging list_asset_ids with any limit lists each asset of each market of each
\* stored record exactly once, though a market may name it in two fields or in
\* one of them only, and a page of records without markets has no entries.
EveryAssetOnce ==
  pc = "loaded" => \A n \in Limits :
    LET all == AllAssets(n)
        Wanted == UNION {UNION {{<<t, m, id>> : id \in Named(Markets[t][m])} :
                                  m \in DOMAIN Markets[t]} : t \in Stored}
    IN  /\ {<<a.ticker, a.market_index, a.asset_id>> : a \in Range(all)} = Wanted
        /\ Len(all) = Cardinality(Wanted)
=============================================================================
