----------------------------- MODULE CrawlIter -----------------------------
(***************************************************************************)
(* OpenEventsIter of poly_api.rs: one pass of the crawl over Gamma's open  *)
(* events, page by page, while events open and close on the server.        *)
(*                                                                         *)
(* The server lists events by endDate.  How it orders events of one        *)
(* endDate it decides anew for every page: "ties on endDate can            *)
(* repeat/skip rows across pages" (the test live_v2_pagination).  Events   *)
(* without an endDate are not listed at all (the caveat of                 *)
(* OpenEventsIter).                                                        *)
(***************************************************************************)
EXTENDS Naturals, FiniteSets

CONSTANTS Events,
          EndOf,          \* event -> its endDate
          Junk,           \* events that do not parse as a PolymarketEvent
          PageLimit,      \* page_limit
          CursorCap,      \* cursor_cap
          MaxIterations,  \* max_iterations
          MaxClosings     \* bound: events that close during the crawl

NoDate == 0

ASSUME CrawlAssumption ==
  /\ IsFiniteSet(Events) /\ Junk \subseteq Events
  /\ EndOf \in [Events -> Nat \ {NoDate}]
  /\ {PageLimit, CursorCap} \subseteq Nat \ {0} /\ {MaxIterations, MaxClosings} \subseteq Nat

VARIABLES
  boundary,    \* the endDate the pass starts from, or NoDate
  offset,
  pass_count,
  finished,    \* "no", or why the iterator is finished
  open,        \* the server's open events
  since,       \* those that have been open since the crawl began
  closings,    \* how many have closed since
  yielded,     \* what the caller got
  seen,        \* what it got in this pass
  repeats      \* how many rows it got that it had already got in the same pass

iter   == <<boundary, offset, pass_count, finished, yielded, seen, repeats>>
server == <<open, since, closings>>
vars   == <<iter, server>>

Ends == {"empty", "maxed", "stalled", "error"}

TypeOK ==
  /\ boundary \in {NoDate} \cup {EndOf[e] : e \in Events}
  /\ offset \in 0 .. CursorCap + PageLimit - 1
  /\ pass_count \in 0 .. MaxIterations
  /\ finished \in {"no"} \cup Ends
  /\ since \subseteq open /\ open \subseteq Events
  /\ closings \in 0 .. MaxClosings
  /\ yielded \subseteq Events \ Junk /\ seen \subseteq yielded
  /\ repeats \in Nat

-----------------------------------------------------------------------------
(* Gamma and fetch_events *)

\* order=endDate, ascending, end_date_min=boundary.
Listed == {e \in open : EndOf[e] >= boundary}

Earlier(S, date) == {e \in S : EndOf[e] < date}

\* Of the first n places of the list, as many are on the page at offset.
PlacesRead(n) == Cardinality({k \in offset + 1 .. offset + PageLimit : k <= n})

\* The pages the server may answer with: of every endDate as many events as the
\* page has places of it, but any of them.
Pages ==
  LET rows  == PlacesRead(Cardinality(Listed))
      dates == {EndOf[e] : e \in Listed}
      before == [date \in dates |-> PlacesRead(Cardinality(Earlier(Listed, date)))]
  IN  {raw \in SUBSET Listed :
         /\ Cardinality(raw) = rows
         /\ \A date \in dates : Cardinality(Earlier(raw, date)) = before[date]}

\* Mutant: items that do not parse are kept.
ParsedKeepsJunk(raw) == raw

\* Without the items that do not parse.
Parsed(raw) == raw \ Junk

LastEndDate(page) == EndOf[CHOOSE e \in page : \A d \in page : EndOf[d] <= EndOf[e]]

-----------------------------------------------------------------------------
(* OpenEventsIter::next *)

Finish(why) ==
  /\ finished' = why
  /\ UNCHANGED <<boundary, offset, pass_count, yielded, seen, repeats, server>>

MaxReached ==
  /\ finished = "no" /\ pass_count >= MaxIterations
  /\ Finish("maxed")

\* fetch_events fails: no connection, no JSON, or no list.
FetchFails ==
  /\ finished = "no" /\ pass_count < MaxIterations
  /\ Finish("error")

\* Mutant: the pass starts over.
EmptyPageStartsOver ==
  /\ finished = "no" /\ pass_count < MaxIterations
  /\ \E raw \in Pages : Parsed(raw) = {}
  /\ offset' = 0 /\ seen' = {}
  /\ UNCHANGED <<boundary, pass_count, finished, yielded, repeats, server>>

EmptyPage ==
  /\ finished = "no" /\ pass_count < MaxIterations
  /\ \E raw \in Pages : Parsed(raw) = {}
  /\ Finish("empty")

\* Mutant: the offset goes on counting in the next pass.
NextPassKeepsOffset(end, next) ==
  /\ boundary' = end /\ pass_count' = pass_count + 1
  /\ offset' = next /\ seen' = {}
  /\ UNCHANGED finished

\* The next pass starts at the last endDate seen.
NextPass(end, next) ==
  /\ boundary' = end /\ pass_count' = pass_count + 1
  /\ offset' = 0 /\ seen' = {}
  /\ UNCHANGED finished

\* Mutant: the cursor advances only if there was one.
AdvancesFromACursor(end) == boundary # NoDate /\ end # boundary

CanAdvance(end) == end # boundary

\* Mutant: the pass starts over instead of giving up.
StallSpins(next, page) == offset' = 0 /\ seen' = {} /\ UNCHANGED <<boundary, pass_count, finished>>

\* More events share one endDate than a pass can read.
Stall(next, page) ==
  /\ finished' = "stalled"
  /\ offset' = next /\ seen' = seen \cup page
  /\ UNCHANGED <<boundary, pass_count>>

\* A page is yielded, and the offset or the cursor moves on.
Take(page) ==
  /\ yielded' = yielded \cup page
  /\ repeats' = repeats + Cardinality(page \cap seen)
  /\ LET next == offset + Cardinality(page)
         end  == LastEndDate(page)
     IN  \/ /\ next < CursorCap
            /\ offset' = next /\ seen' = seen \cup page
            /\ UNCHANGED <<boundary, pass_count, finished>>
         \/ next >= CursorCap /\ CanAdvance(end) /\ NextPass(end, next)
         \/ next >= CursorCap /\ ~ CanAdvance(end) /\ Stall(next, page)
  /\ UNCHANGED server

Yield ==
  /\ finished = "no" /\ pass_count < MaxIterations
  /\ \E raw \in Pages : Parsed(raw) # {} /\ Take(Parsed(raw))

-----------------------------------------------------------------------------
(* The server, between two pages *)

Open(e) ==
  /\ finished = "no" /\ e \notin open
  /\ open' = open \cup {e}
  /\ UNCHANGED <<since, closings, iter>>

Close(e) ==
  /\ finished = "no" /\ e \in open /\ closings < MaxClosings
  /\ open' = open \ {e} /\ since' = since \ {e}
  /\ closings' = closings + 1
  /\ UNCHANGED iter

-----------------------------------------------------------------------------

Init ==
  /\ boundary = NoDate /\ offset = 0 /\ pass_count = 0 /\ finished = "no"
  /\ yielded = {} /\ seen = {} /\ repeats = 0
  /\ open \in SUBSET Events /\ since = open /\ closings = 0

Pull == MaxReached \/ FetchFails \/ EmptyPage \/ Yield

Next == Pull \/ \E e \in Events : Open(e) \/ Close(e)

Spec == Init /\ [][Next]_vars

\* The caller takes page after page; the server is free to change.
FairSpec == Spec /\ WF_vars(Pull)

-----------------------------------------------------------------------------
(* Properties *)

\* The places behind the page at offset.
Behind == offset + PageLimit + 1 .. Cardinality(Listed)

\* A crawl that takes an empty page for the end of the data has not missed an event
\* for nothing: there are no more such events than have closed under it (everything
\* listed behind a closed event moves one place up, across the offset), than a pass
\* got rows twice (of ties that change places between two pages, one is skipped as
\* another repeats), and than the list goes on behind that page, which then was full
\* of items that do not parse.
MissesArePaidFor ==
  finished = "empty" =>
    Cardinality((since \ Junk) \ yielded) <= closings + repeats + Cardinality(Behind)

\* The crawl gives up at a cursor only if the events of that one endDate fill a
\* whole pass, whatever opens, closes or does not parse meanwhile.
StallsOnlyOnTies ==
  finished = "stalled" =>
    Cardinality({e \in open : EndOf[e] = boundary}) >= CursorCap

\* The crawl never runs in circles, whatever the server does between two pages: a
\* page that does not end it moves the offset on within the cap, or the cursor on
\* to a later endDate.
EveryPageProgresses ==
  [][Pull => \/ finished' # "no"
             \/ UNCHANGED <<boundary, pass_count>> /\ offset' \in offset + 1 .. CursorCap - 1
             \/ boundary' > boundary /\ pass_count' \in pass_count + 1 .. MaxIterations]_vars

\* The crawl ends, though the server may change before every page.
CrawlEnds == <>(finished # "no")
=============================================================================
