------------------------------- MODULE Paging -------------------------------
(***************************************************************************)
(* Clients that page through list_tickers, list_events or list_asset_ids   *)
(* (api.rs) with the keyset cursor of Snapshot::cursor_range (database.rs) *)
(* while refreshes and restarts replace the snapshot between, and during,  *)
(* their requests.  The records themselves are Store's business: here a    *)
(* snapshot is the set of its tickers.                                     *)
(***************************************************************************)
EXTENDS Naturals, Sequences, FiniteSets

CONSTANTS Tickers,   \* numbered in their lexicographic order, from 1
          Clients,
          Requests,  \* limits a client may ask for; 0 stands for limit: 0
          MaxLimit   \* MAX_LIST_*_LIMIT

ASSUME PagingAssumption ==
  /\ Tickers \subseteq Nat \ {0} /\ IsFiniteSet(Tickers)
  /\ Requests \subseteq Nat /\ MaxLimit \in Nat \ {0}

VARIABLES
  served,   \* tickers of the snapshot in Database.inner
  past,     \* tickers whose endDate is past the grace period
  state,    \* client -> "idle", "sent", "handling", "replied", "done"
  limit,    \* client -> the limit of its request
  after,    \* client -> the cursor it sends, 0 for none
  snap,     \* client -> tickers of the snapshot its handler took
  reply,    \* client -> the page and next_after on their way back
  got,      \* client -> every ticker it was given, in order
  first,    \* client -> tickers of the snapshot of its first page
  always    \* client -> tickers of every snapshot served since

client == <<state, limit, after, snap, reply, got, first, always>>
vars == <<served, past, client>>

NoReply == [page |-> {}, next |-> 0]

TypeOK ==
  /\ served \subseteq Tickers /\ past \subseteq Tickers
  /\ state \in [Clients -> {"idle", "sent", "handling", "replied", "done"}]
  /\ limit \in [Clients -> Requests \cup {0}]
  /\ after \in [Clients -> Tickers \cup {0}]
  /\ reply \in [Clients -> [page : SUBSET Tickers, next : Tickers \cup {0}]]
  /\ got \in [Clients -> Seq(Tickers)]
  /\ snap \in [Clients -> SUBSET Tickers]
  /\ first \in [Clients -> SUBSET Tickers]
  /\ always \in [Clients -> SUBSET Tickers]

-----------------------------------------------------------------------------
(* Snapshot::cursor_range *)

\* index[partition_point(e <= a) ..]
Above(S, a) == {t \in S : t > a}

\* The first n of S in ticker order.
FirstOf(S, n) == {t \in S : Cardinality({u \in S : u < t}) < n}

Greatest(S) == CHOOSE t \in S : \A u \in S : u <= t

\* Mutant: the cursor's own ticker is served again.
CursorRangeInclusive(S, a, n) ==
  LET rest == {t \in S : t >= a}
      page == FirstOf(rest, n)
  IN  [page |-> page, next |-> IF page # rest THEN Greatest(page) ELSE 0]

\* Mutant: the cursor is an offset instead of a ticker.
CursorRangeByOffset(S, a, n) ==
  LET rest == Above(S, a)
      page == FirstOf(rest, n)
  IN  [page |-> page, next |-> IF page # rest THEN a + n ELSE 0]

\* Mutant: an empty page gives the cursor back, and the last page a cursor.
CursorRangeNeverNull(S, a, n) ==
  LET page == FirstOf(Above(S, a), n)
  IN  [page |-> page, next |-> IF page # {} THEN Greatest(page) ELSE a]

\* The page after cursor a and the cursor of the next one, 0 for the last.
CursorRange(S, a, n) ==
  LET rest == Above(S, a)
      page == FirstOf(rest, n)
  IN  [page |-> page, next |-> IF page # rest THEN Greatest(page) ELSE 0]

\* Some(n) => n.min(max); limit 0 is rejected before this.
ResolveLimit(n) == IF n < MaxLimit THEN n ELSE MaxLimit

\* A page as the response lists it.
Listed(S) ==
  [k \in 1 .. Cardinality(S) |-> CHOOSE t \in S : Cardinality({u \in S : u < t}) = k - 1]

-----------------------------------------------------------------------------
(* One request *)

Send(c, n) ==
  /\ state[c] = "idle"
  /\ state' = [state EXCEPT ![c] = "sent"]
  /\ limit' = [limit EXCEPT ![c] = n]
  /\ UNCHANGED <<served, past, after, snap, reply, got, first, always>>

\* resolve_limit(Some(0)) is an error response; the client asks again.
Reject(c) ==
  /\ state[c] = "sent" /\ limit[c] = 0
  /\ state' = [state EXCEPT ![c] = "idle"]
  /\ UNCHANGED <<served, past, limit, after, snap, reply, got, first, always>>

\* db.snapshot(), once per request.
TakeSnapshot(c) ==
  /\ state[c] = "sent" /\ limit[c] # 0
  /\ state' = [state EXCEPT ![c] = "handling"]
  /\ snap' = [snap EXCEPT ![c] = served]
  /\ IF after[c] = 0
       THEN first' = [first EXCEPT ![c] = served] /\ always' = [always EXCEPT ![c] = served]
       ELSE UNCHANGED <<first, always>>
  /\ UNCHANGED <<served, past, limit, after, reply, got>>

\* Mutant: the page is cut from one snapshot and next_after from a newer one.
AnswerFromTwoSnapshots(c) ==
  /\ state[c] = "handling"
  /\ state' = [state EXCEPT ![c] = "replied"]
  /\ reply' = [reply EXCEPT ![c] =
       [page |-> CursorRange(snap[c], after[c], ResolveLimit(limit[c])).page,
        next |-> CursorRange(served, after[c], ResolveLimit(limit[c])).next]]
  /\ UNCHANGED <<served, past, limit, after, snap, got, first, always>>

\* The response is written from the snapshot taken, whatever is served by now.
Answer(c) ==
  /\ state[c] = "handling"
  /\ state' = [state EXCEPT ![c] = "replied"]
  /\ reply' = [reply EXCEPT ![c] = CursorRange(snap[c], after[c], ResolveLimit(limit[c]))]
  /\ UNCHANGED <<served, past, limit, after, snap, got, first, always>>

\* The client has the page; next_after: null ends its paging.
Receive(c) ==
  /\ state[c] = "replied"
  /\ got' = [got EXCEPT ![c] = @ \o Listed(reply[c].page)]
  /\ after' = [after EXCEPT ![c] = IF reply[c].next = 0 THEN @ ELSE reply[c].next]
  /\ state' = [state EXCEPT ![c] = IF reply[c].next = 0 THEN "done" ELSE "idle"]
  /\ reply' = [reply EXCEPT ![c] = NoReply]
  /\ snap' = [snap EXCEPT ![c] = {}]
  /\ UNCHANGED <<served, past, limit, first, always>>

\* A timeout, a write error, an error response or a dead server: the client has
\* nothing of this page and asks again, with the same cursor.
Lose(c) ==
  /\ state[c] \in {"sent", "handling", "replied"}
  /\ state' = [state EXCEPT ![c] = "idle"]
  /\ reply' = [reply EXCEPT ![c] = NoReply]
  /\ snap' = [snap EXCEPT ![c] = {}]
  /\ UNCHANGED <<served, past, limit, after, got, first, always>>

-----------------------------------------------------------------------------
(* The snapshots *)

Replace(S) ==
  /\ served' = S
  /\ always' = [c \in Clients |-> always[c] \cap S]
  /\ UNCHANGED <<past, state, limit, after, snap, reply, got, first>>

\* swap: what the crawl returned, and what the merge carried forward.
Refresh(crawl) == Replace(crawl \cup (served \ past))

\* A restart that pulled a peer's database serves whatever the peer had.
RestartFromPeer(S) ==
  /\ served' = S
  /\ always' = [c \in Clients |-> always[c] \cap S]
  /\ state' = [c \in Clients |-> IF state[c] = "done" THEN "done" ELSE "idle"]
  /\ snap' = [c \in Clients |-> {}] /\ reply' = [c \in Clients |-> NoReply]
  /\ UNCHANGED <<past, limit, after, got, first>>

Ends(t) == t \notin past /\ past' = past \cup {t} /\ UNCHANGED <<served, client>>

-----------------------------------------------------------------------------

Init ==
  /\ served \in SUBSET Tickers /\ past = {}
  /\ state = [c \in Clients |-> "idle"] /\ limit = [c \in Clients |-> 0]
  /\ after = [c \in Clients |-> 0] /\ snap = [c \in Clients |-> {}]
  /\ reply = [c \in Clients |-> NoReply] /\ got = [c \in Clients |-> <<>>]
  /\ first = [c \in Clients |-> {}] /\ always = [c \in Clients |-> {}]

Request(c) ==
  \/ \E n \in Requests : Send(c, n)
  \/ Reject(c) \/ TakeSnapshot(c) \/ Answer(c) \/ Receive(c) \/ Lose(c)

Churn ==
  \/ \E crawl \in SUBSET Tickers : Refresh(crawl)
  \/ \E t \in Tickers : Ends(t)

Next ==
  \/ \E c \in Clients : Request(c)
  \/ Churn
  \/ \E S \in SUBSET Tickers : RestartFromPeer(S)

Spec == Init /\ [][Next]_vars

\* Without a restart: what a client of one server may rely on.
RefreshNext == (\E c \in Clients : Request(c)) \/ Churn
RefreshSpec == Init /\ [][RefreshNext]_vars

\* The client goes on asking for at least one ticker, the handler's calls
\* return, and a page asked for again and again gets through.
FairSpec ==
  /\ Spec
  /\ \A c \in Clients :
       /\ SF_vars(\E n \in Requests \ {0} : Send(c, n)) /\ WF_vars(Reject(c))
       /\ SF_vars(TakeSnapshot(c)) /\ SF_vars(Answer(c)) /\ SF_vars(Receive(c))

-----------------------------------------------------------------------------
(* Properties *)

\* However the snapshots change, and however often a page is lost and asked for
\* again, a client is given tickers in ascending order and none twice.
NoRepeat ==
  \A c \in Clients : \A j, k \in DOMAIN got[c] : j < k => got[c][j] < got[c][k]

\* A client that reached the last page was given every ticker that was in the
\* database all along: a snapshot swapped in between two pages hides none.
NoSkip ==
  \A c \in Clients :
    state[c] = "done" => \A t \in always[c] : \E k \in DOMAIN got[c] : got[c][k] = t

\* No snapshot, refresh, lost page or restart sends a client back or in circles: its
\* cursor only moves up, and does so with every page but the last.
CursorAdvances ==
  [][\A c \in Clients :
       /\ after'[c] >= after[c]
       /\ Receive(c) => state'[c] = "done" \/ after'[c] > after[c]]_vars

\* A client gets to its last page although the database keeps changing.
PagingEnds == \A c \in Clients : <>(state[c] = "done")

\* database.rs, cursor_range: "the index only grows/updates in place and never
\* removes a ticker out from under a cursor": whatever the first page's
\* snapshot held, a client that pages on through refreshes is given.
NothingVanishes ==
  \A c \in Clients :
    state[c] = "done" => \A t \in first[c] : \E k \in DOMAIN got[c] : got[c][k] = t
=============================================================================
