------------------------------ MODULE LogFile ------------------------------
(***************************************************************************)
(* The database file and what Snapshot::from_file reads out of it          *)
(* (src/src/database.rs, docs/db_specs/v0.md and v1.md).                   *)
(*                                                                         *)
(* A file is a sequence of lines.  A line's position in the sequence       *)
(* stands for its byte offset and length: an IndexEntry {ticker, offset,   *)
(* len} is a pair ticker -> position.  A record's payload is abstracted to *)
(* the one field the program ever interprets, its endDate.                 *)
(***************************************************************************)
EXTENDS Naturals, Sequences

CONSTANTS Tickers,  \* the tickers, numbered in their lexicographic order
          NoEnd,    \* endDate absent or not RFC3339: parse_rfc3339_unix is None
          Bad       \* a JSON object that does not deserialise as PolymarketEvent

ASSUME TickersAreNaturals == Tickers \subseteq Nat
ASSUME EndSentinels == NoEnd \notin Nat /\ Bad \notin Nat /\ NoEnd # Bad

Ends == Nat \cup {NoEnd, Bad}

Rec(t, e) == [kind |-> "rec", ticker |-> t, end |-> e]

\* The line-0 metadata record.
Meta(b) == [kind |-> "meta", built |-> b]

\* A line from_file skips: torn, unparseable, or without a ticker.
Junk == [kind |-> "junk"]

Line == [kind : {"rec"}, ticker : Tickers, end : Ends]
          \cup [kind : {"meta"}, built : Nat]
          \cup {Junk}

IsRecOf(l, t) == l.kind = "rec" /\ l.ticker = t

Positions(f, t) == {k \in DOMAIN f : IsRecOf(f[k], t)}

LastPosition(f, t) ==
  CHOOSE k \in Positions(f, t) : \A j \in Positions(f, t) : j <= k

TickersOf(f) == {t \in Tickers : Positions(f, t) # {}}

\* from_file's index: sorted by ticker, the last of equal tickers kept.
IndexOf(f) == [t \in TickersOf(f) |-> LastPosition(f, t)]

HasMeta(f) == Len(f) > 0 /\ f[1].kind = "meta"

\* built_at_unix: the meta line if the file begins with one, else the mtime.
BuiltOf(f, mtime) == IF HasMeta(f) THEN f[1].built ELSE mtime

\* The index after one more entry for t is pushed and duplicates are deduped.
Upsert(index, t, k) == [u \in DOMAIN index \cup {t} |-> IF u = t THEN k ELSE index[u]]

\* A positioned write of line l at cell k: writing past the end leaves a hole.
WriteAt(f, k, l) ==
  [j \in 1 .. (IF k > Len(f) THEN k ELSE Len(f)) |->
     IF j = k THEN l ELSE IF j <= Len(f) THEN f[j] ELSE Junk]

\* now - end_unix > PRUNE_GRACE_SECS, with `grace` the constant.
Expired(end, now, grace) == end \in Nat /\ now > end + grace
=============================================================================
