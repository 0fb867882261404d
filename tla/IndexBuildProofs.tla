-------------------------- MODULE IndexBuildProofs --------------------------
(***************************************************************************)
(* First, the loops of from_file, full_crawl_and_compact and               *)
(* merge_carry_forward compute the index that LogFile defines, for every   *)
(* file, however long, torn or full of bad lines, and every crawl.  Then,  *)
(* the requests that read such an index (Queries) find in it, by binary    *)
(* search, exactly what they are asked for.                                *)
(***************************************************************************)
EXTENDS Queries, LogFileProofs, SequenceTheorems, FiniteSetTheorems

-----------------------------------------------------------------------------
(* The invariant *)

\* A whole line that is a record, and the entry that tells where it is.
IsRec(l) == l.ended /\ l.line.kind = "rec"
Tells(e, l) == e.ticker = l.line.ticker /\ e.offset = l.at /\ e.len = l.len

\* s has an entry for each record among the first n lines of f, and no other.
Lists(s, f, n) ==
  /\ \A a \in DOMAIN s : \E j \in 1 .. n : IsRec(f[j]) /\ Tells(s[a], f[j])
  /\ \A j \in 1 .. n : IsRec(f[j]) => \E a \in DOMAIN s : Tells(s[a], f[j])

\* As read, and as sorted.
InFileOrder(s) == \A a, b \in DOMAIN s : a < b => s[a].offset < s[b].offset
InTickerOrder(s) ==
  \A a, b \in DOMAIN s : a < b =>
    \/ s[a].ticker < s[b].ticker
    \/ s[a].ticker = s[b].ticker /\ s[a].offset < s[b].offset

\* e tells the last record of its ticker in f.
Newest(e, f) ==
  \E j \in DOMAIN f :
    /\ IsRec(f[j]) /\ Tells(e, f[j])
    /\ \A n \in DOMAIN f : IsRec(f[n]) /\ f[n].line.ticker = e.ticker => n <= j

AllNewest(s, f) == \A a \in DOMAIN s : Newest(s[a], f)

\* The entry of ticker t is among s.
Has(s, t) == \E a \in DOMAIN s : s[a].ticker = t

\* What LogFile says of an index, said of the lines.
Indexes(s, f) ==
  /\ StrictlySorted(s) /\ AllNewest(s, f)
  /\ \A j \in DOMAIN f : IsRec(f[j]) => Has(s, f[j].line.ticker)

\* The file whose records the loop in hand lists.
Source == IF job = "load" THEN file ELSE out

PhaseOf ==
  IF job = "load" THEN pc \in {"read", "sort", "dedupe", "loaded"}
  ELSE pc \in {"crawl", "sort", "dedupe", "merge", "done", "refused"}

\* from_file has read i whole lines, and counted the bytes of each.
ReadInv ==
  pc = "read" =>
    /\ i <= Len(file) /\ \A j \in 1 .. i : file[j].ended
    /\ offset = IF i = 0 THEN 0 ELSE file[i].at + file[i].len + 1
    /\ Lists(entries, file, i) /\ InFileOrder(entries)
    /\ kept = <<>>

\* Every line of .tmp is whole, and its bytes are counted.
OutInv ==
  IF job = "compact"
    THEN IsLaidOut(out) /\ offset = EndOf(out) /\ \A j \in DOMAIN out : out[j].ended
    ELSE out = <<>>

ListedInv ==
  pc \in {"crawl", "sort"} =>
    Lists(entries, Source, Len(Source)) /\ InFileOrder(entries) /\ kept = <<>>

\* dedupe_keep_last has kept, of the entries before i, the last of each ticker.
LastIn(s, a) == a < Len(s) => s[a + 1].ticker # s[a].ticker
DedupeInv ==
  pc = "dedupe" =>
    /\ Lists(entries, Source, Len(Source)) /\ InTickerOrder(entries)
    /\ i \in 1 .. Len(entries) + 1 /\ Len(kept) < i
    /\ StrictlySorted(kept)
    /\ \A m \in DOMAIN kept : \E a \in 1 .. i - 1 : kept[m] = entries[a] /\ LastIn(entries, a)
    /\ \A a \in 1 .. i - 1 : LastIn(entries, a) => \E m \in DOMAIN kept : kept[m] = entries[a]

\* The index of the snapshot of file, once there is one.
OldInv ==
  IF hasOld THEN job = "compact" \/ pc = "loaded" => Indexes(index, file)
  ELSE file = <<>> /\ index = <<>> /\ (job = "load" => pc = "loaded")
CarriedInv == pc \notin {"merge", "done"} => carried = <<>>

\* A line of out holds l at the bytes e tells.
HeldAt(e, l) == \E j \in DOMAIN out : out[j].at = e.offset /\ out[j].len = e.len /\ out[j].line = l

\* The mth old entry, which the merge has passed, is not lost.
Passed(m) ==
  ~ Dropped(ReadAt(file, index[m])) =>
    \/ Has(entries, index[m].ticker)
    \/ \E c \in DOMAIN carried : /\ carried[c].ticker = index[m].ticker
                                 /\ HeldAt(carried[c], ReadAt(file, index[m]))

\* The crawl's entries and the carried ones together are the index of out.
TogetherInv ==
  /\ StrictlySorted(entries) /\ StrictlySorted(carried)
  /\ \A c \in DOMAIN carried : ~ Has(entries, carried[c].ticker)
  /\ AllNewest(entries, out) /\ AllNewest(carried, out)
  /\ \A j \in DOMAIN out : IsRec(out[j]) =>
       Has(entries, out[j].line.ticker) \/ Has(carried, out[j].line.ticker)

MergeInv ==
  pc = "merge" =>
    /\ hasOld /\ TogetherInv
    /\ k \in 1 .. Len(index) + 1 /\ Len(carried) < k
    /\ i \in 1 .. Len(entries) + 1
    /\ \A m \in DOMAIN index : m >= k =>
         /\ \A a \in 1 .. i - 1 : entries[a].ticker < index[m].ticker
         /\ \A c \in DOMAIN carried : carried[c].ticker < index[m].ticker
    /\ \A m \in 1 .. k - 1 : Passed(m)

\* Old entries are carried or have a newer one.
DoneInv ==
  pc = "done" =>
    /\ Indexes(entries, out)
    /\ \A m \in DOMAIN index :
         ~ Dropped(ReadAt(file, index[m])) =>
           \E n \in DOMAIN entries :
             /\ entries[n].ticker = index[m].ticker
             /\ (\E c \in DOMAIN carried : carried[c] = entries[n]) =>
                  HeldAt(entries[n], ReadAt(file, index[m]))

BuildInv ==
  /\ TypeOK /\ PhaseOf /\ ReadInv /\ OutInv /\ ListedInv /\ DedupeInv
  /\ OldInv /\ CarriedInv /\ MergeInv /\ DoneInv

-----------------------------------------------------------------------------
(* Lines and where they lie *)

LEMMA LaidLine ==
  ASSUME NEW f \in Seq(Laid), NEW j \in DOMAIN f
  PROVE  /\ f[j] \in Laid /\ f[j].at \in Nat /\ f[j].len \in Nat /\ f[j].line \in Line
         /\ f[j].ended \in BOOLEAN /\ j \in 1 .. Len(f) /\ Len(f) \in Nat
<1>1. f[j] \in Laid /\ j \in 1 .. Len(f) /\ Len(f) \in Nat
  OBVIOUS
<1>2. \A l \in Laid : l.at \in Nat /\ l.len \in Nat /\ l.line \in Line /\ l.ended \in BOOLEAN
  BY DEF Laid
<1>3. QED  BY <1>1, <1>2

LEMMA RecordLine ==
  ASSUME NEW l \in Line, l.kind = "rec"
  PROVE  l.ticker \in Tickers /\ l.ticker \in Nat
<1>1. l \in [kind : {"rec"}, ticker : Tickers, end : Ends]
  <2>1. CASE l \in [kind : {"meta"}, built : Nat]
    BY <2>1
  <2>2. CASE l = Junk
    BY <2>2 DEF Junk
  <2>3. QED  BY <2>1, <2>2 DEF Line
<1>2. l.ticker \in Tickers
  BY <1>1
<1>3. QED  BY <1>2, TickersAreNaturals

\* Each line of a file begins behind the end of those before it.
LEMMA LaidOutOrder ==
  ASSUME NEW f, IsLaidOut(f)
  PROVE  \A a, b \in DOMAIN f : a < b => f[a].at + f[a].len < f[b].at
<1>1. /\ f \in Seq(Laid) /\ Len(f) \in Nat /\ DOMAIN f = 1 .. Len(f)
      /\ \A j \in 1 .. Len(f) - 1 : f[j + 1].at = f[j].at + f[j].len + 1
      /\ \A j \in 1 .. Len(f) : f[j].at \in Nat /\ f[j].len \in Nat
  <2>1. f \in Seq(Laid) /\ \A j \in 1 .. Len(f) - 1 : f[j + 1].at = f[j].at + f[j].len + 1
    BY DEF IsLaidOut
  <2>2. \A j \in DOMAIN f : f[j].at \in Nat /\ f[j].len \in Nat
    BY <2>1, LaidLine
  <2>3. QED  BY <2>1, <2>2
<1>2. SUFFICES ASSUME NEW a \in DOMAIN f
               PROVE  \A b \in DOMAIN f : a < b => f[a].at + f[a].len < f[b].at
  OBVIOUS
<1> DEFINE T == {b \in DOMAIN f : a < b /\ ~ (f[a].at + f[a].len < f[b].at)}
<1>3. SUFFICES ASSUME T # {}  PROVE FALSE
  OBVIOUS
<1>4. PICK b \in T : \A y \in T : b <= y
  <2>1. T \in SUBSET Nat
    BY <1>1
  <2> HIDE DEF T
  <2>2. QED  BY <1>3, <2>1, LeastExists
<1>5. b - 1 \in 1 .. Len(f) - 1 /\ (b - 1) + 1 = b
  BY <1>1
<1>6. f[b].at = f[b - 1].at + f[b - 1].len + 1
  BY <1>1, <1>5
<1>7. CASE b - 1 = a
  BY <1>1, <1>6, <1>7
<1>8. CASE b - 1 # a
  <2>1. b - 1 \in DOMAIN f /\ a < b - 1 /\ b - 1 \notin T
    BY <1>1, <1>4, <1>5, <1>8
  <2>2. f[a].at + f[a].len < f[b - 1].at
    BY <2>1
  <2>3. /\ f[a].at \in Nat /\ f[a].len \in Nat
        /\ f[b - 1].at \in Nat /\ f[b - 1].len \in Nat
    BY <1>1, <2>1
  <2>4. ~ (f[a].at + f[a].len < f[b].at)
    OBVIOUS
  <2>5. QED  BY <1>6, <2>2, <2>3, <2>4
<1>9. QED  BY <1>7, <1>8

\* A line more at the end of a file whose lines are all whole.
LEMMA WrittenOut ==
  ASSUME NEW f, IsLaidOut(f), \A j \in DOMAIN f : f[j].ended, NEW l \in Line, NEW n \in Nat
  PROVE  LET g == Written(f, l, n)
         IN  /\ IsLaidOut(g) /\ \A j \in DOMAIN g : g[j].ended
             /\ Len(g) = Len(f) + 1 /\ Len(f) \in Nat /\ EndOf(f) \in Nat
             /\ \A j \in 1 .. Len(f) : g[j] = f[j]
             /\ g[Len(f) + 1] = [line |-> l, at |-> EndOf(f), len |-> n, ended |-> TRUE]
             /\ EndOf(g) = EndOf(f) + n + 1
<1> DEFINE x == [line |-> l, at |-> EndOf(f), len |-> n, ended |-> TRUE]
           g == Written(f, l, n)
<1>1. /\ f \in Seq(Laid) /\ Len(f) \in Nat /\ DOMAIN f = 1 .. Len(f)
      /\ \A j \in 1 .. Len(f) - 1 : f[j].ended /\ f[j + 1].at = f[j].at + f[j].len + 1
      /\ f # <<>> => f[1].at = 0
  BY DEF IsLaidOut
<1>2. EndOf(f) \in Nat
  <2>1. CASE f = <<>>
    BY <2>1 DEF EndOf
  <2>2. CASE f # <<>>
    <3>1. Len(f) \in DOMAIN f
      BY <1>1, <2>2
    <3>2. f[Len(f)].at \in Nat /\ f[Len(f)].len \in Nat
      BY <1>1, <3>1, LaidLine
    <3>3. QED  BY <2>2, <3>2 DEF EndOf
  <2>3. QED  BY <2>1, <2>2
<1>3. x \in Laid
  BY <1>2 DEF Laid
<1>4. x.at = EndOf(f) /\ x.len = n /\ x.ended /\ x.line = l
  OBVIOUS
<1>5. g = Append(f, x)
  BY DEF Written
<1> HIDE DEF x, g
<1>6. /\ g \in Seq(Laid) /\ Len(g) = Len(f) + 1 /\ g[Len(f) + 1] = x
      /\ \A j \in 1 .. Len(f) : g[j] = f[j]
  BY <1>1, <1>3, <1>5, AppendProperties
<1>7. DOMAIN g = 1 .. Len(f) + 1
  BY <1>1, <1>6
<1>8. \A j \in DOMAIN g : g[j].ended
  <2> TAKE j \in DOMAIN g
  <2>1. CASE j = Len(f) + 1
    BY <1>4, <1>6, <2>1
  <2>2. CASE j # Len(f) + 1
    <3>1. j \in 1 .. Len(f)
      BY <1>1, <1>7, <2>2
    <3>2. QED  BY <1>1, <1>6, <3>1
  <2>3. QED  BY <2>1, <2>2
<1>9. g[1].at = 0
  <2>1. CASE f = <<>>
    BY <1>4, <1>6, <2>1 DEF EndOf
  <2>2. CASE f # <<>>
    <3>1. 1 \in 1 .. Len(f)
      BY <1>1, <2>2
    <3>2. QED  BY <1>1, <1>6, <2>2, <3>1
  <2>3. QED  BY <2>1, <2>2
<1>10. ASSUME NEW j \in 1 .. Len(f)
       PROVE  g[j + 1].at = g[j].at + g[j].len + 1
  <2>1. CASE j = Len(f)
    <3>1. f # <<>>
      BY <1>1, <2>1
    <3>2. EndOf(f) = f[j].at + f[j].len + 1
      BY <2>1, <3>1 DEF EndOf
    <3>3. QED  BY <1>4, <1>6, <2>1, <3>2
  <2>2. CASE j # Len(f)
    <3>1. Len(f) \in Nat
      BY <1>1
    <3>2. j \in 1 .. Len(f) - 1 /\ j + 1 \in 1 .. Len(f)
      BY <2>2, <3>1
    <3>3. g[j + 1] = f[j + 1] /\ g[j] = f[j]
      BY <1>6, <3>2
    <3>4. QED  BY <1>1, <3>2, <3>3
  <2>3. QED  BY <2>1, <2>2
<1>11. IsLaidOut(g)
  <2>1. Len(g) - 1 = Len(f)
    BY <1>1, <1>6
  <2>2. \A j \in 1 .. Len(f) : j \in DOMAIN g
    BY <1>1, <1>7
  <2>3. QED  BY <1>6, <1>8, <1>9, <1>10, <2>1, <2>2 DEF IsLaidOut
<1>12. EndOf(g) = EndOf(f) + n + 1
  <2>1. g # <<>>
    BY <1>1, <1>6
  <2>2. QED  BY <1>4, <1>6, <2>1 DEF EndOf
<1>13. QED  BY <1>1, <1>2, <1>6, <1>8, <1>11, <1>12 DEF g, x

\* read_raw reads the line an entry tells.
LEMMA ReadAtLine ==
  ASSUME NEW f, IsLaidOut(f), NEW e, NEW j \in DOMAIN f,
         f[j].at = e.offset, f[j].len = e.len
  PROVE  ReadAt(f, e) = f[j].line
<1> DEFINE P(n) == f[n].at = e.offset /\ f[n].len = e.len
           c == CHOOSE n \in DOMAIN f : P(n)
<1>1. c \in DOMAIN f /\ P(c)
  OBVIOUS
<1>2. f \in Seq(Laid)
  BY DEF IsLaidOut
<1>3. ReadAt(f, e) = f[c].line
  BY DEF ReadAt
<1> HIDE DEF c
<1>4. /\ f[c].at \in Nat /\ f[c].len \in Nat /\ f[j].at \in Nat /\ f[j].len \in Nat
      /\ c \in Nat /\ j \in Nat
  <2>1. \A n \in DOMAIN f : f[n].at \in Nat /\ f[n].len \in Nat /\ n \in 1 .. Len(f)
    BY <1>2, LaidLine
  <2>2. QED  BY <1>1, <2>1
<1>5. ~ (c < j) /\ ~ (j < c)
  BY <1>1, <1>4, LaidOutOrder
<1>6. c = j
  BY <1>4, <1>5
<1>7. QED  BY <1>3, <1>6

-----------------------------------------------------------------------------
(* Entries in the order they are read *)

LEMMA EntryFields ==
  ASSUME NEW s \in Seq(Entry), NEW a \in DOMAIN s
  PROVE  /\ s[a] \in Entry /\ s[a].ticker \in Tickers /\ s[a].ticker \in Nat
         /\ s[a].offset \in Nat /\ s[a].len \in Nat /\ a \in 1 .. Len(s) /\ Len(s) \in Nat
<1>1. s[a] \in Entry /\ a \in 1 .. Len(s) /\ Len(s) \in Nat
  OBVIOUS
<1>2. \A e \in Entry : e.ticker \in Tickers /\ e.offset \in Nat /\ e.len \in Nat
  BY DEF Entry
<1>3. QED  BY <1>1, <1>2, TickersAreNaturals

\* A line that is no record, a record, and the same lines of another file.
LEMMA ListsSkip ==
  ASSUME NEW s, NEW f, NEW n \in Nat, Lists(s, f, n), ~ IsRec(f[n + 1])
  PROVE  Lists(s, f, n + 1)
<1>1. \A j \in 1 .. n + 1 : j \in 1 .. n \/ j = n + 1
  OBVIOUS
<1>2. \A j \in 1 .. n : j \in 1 .. n + 1
  OBVIOUS
<1>3. QED  BY <1>1, <1>2 DEF Lists

LEMMA ListsAgree ==
  ASSUME NEW s, NEW f, NEW g, NEW n \in Nat, Lists(s, f, n), \A j \in 1 .. n : g[j] = f[j]
  PROVE  Lists(s, g, n)
BY DEF Lists

LEMMA ListsMore ==
  ASSUME NEW s \in Seq(Entry), NEW e \in Entry, NEW f, IsLaidOut(f), NEW n \in Nat,
         n + 1 \in DOMAIN f, Lists(s, f, n), InFileOrder(s), IsRec(f[n + 1]), Tells(e, f[n + 1])
  PROVE  Append(s, e) \in Seq(Entry) /\ Lists(Append(s, e), f, n + 1) /\ InFileOrder(Append(s, e))
<1> DEFINE r == Append(s, e)
<1>1. /\ r \in Seq(Entry) /\ Len(r) = Len(s) + 1 /\ r[Len(s) + 1] = e /\ Len(s) \in Nat
      /\ \A a \in 1 .. Len(s) : r[a] = s[a]
      /\ DOMAIN s = 1 .. Len(s) /\ DOMAIN r = 1 .. Len(s) + 1
  BY AppendProperties
<1> HIDE DEF r
<1>2. \A a \in DOMAIN r : (a \in DOMAIN s /\ r[a] = s[a]) \/ (a = Len(s) + 1 /\ r[a] = e)
  <2> TAKE a \in DOMAIN r
  <2>1. CASE a = Len(s) + 1
    BY <1>1, <2>1
  <2>2. CASE a # Len(s) + 1
    <3>1. a \in 1 .. Len(s)
      BY <1>1, <2>2
    <3>2. QED  BY <1>1, <3>1
  <2>3. QED  BY <2>1, <2>2
<1>3. Lists(r, f, n + 1)
  <2>1. \A a \in DOMAIN r : \E j \in 1 .. n + 1 : IsRec(f[j]) /\ Tells(r[a], f[j])
    <3> TAKE a \in DOMAIN r
    <3>1. CASE a \in DOMAIN s /\ r[a] = s[a]
      <4>1. PICK j \in 1 .. n : IsRec(f[j]) /\ Tells(s[a], f[j])
        BY <3>1 DEF Lists
      <4>2. j \in 1 .. n + 1
        OBVIOUS
      <4>3. QED  BY <3>1, <4>1, <4>2
    <3>2. CASE r[a] = e
      <4>1. n + 1 \in 1 .. n + 1
        OBVIOUS
      <4>2. QED  BY <3>2, <4>1
    <3>3. QED  BY <1>2, <3>1, <3>2
  <2>2. ASSUME NEW j \in 1 .. n + 1, IsRec(f[j])
        PROVE  \E a \in DOMAIN r : Tells(r[a], f[j])
    <3>1. CASE j = n + 1
      <4>1. Len(s) + 1 \in DOMAIN r
        BY <1>1
      <4>2. QED  BY <1>1, <3>1, <4>1
    <3>2. CASE j # n + 1
      <4>1. j \in 1 .. n
        BY <3>2
      <4>2. PICK a \in DOMAIN s : Tells(s[a], f[j])
        BY <2>2, <4>1 DEF Lists
      <4>3. a \in DOMAIN r /\ r[a] = s[a]
        BY <1>1
      <4>4. QED  BY <4>2, <4>3
    <3>3. QED  BY <3>1, <3>2
  <2>3. QED  BY <2>1, <2>2 DEF Lists
<1>4. ASSUME NEW a \in DOMAIN s
      PROVE  s[a].offset < e.offset
  <2>1. PICK j \in 1 .. n : IsRec(f[j]) /\ Tells(s[a], f[j])
    BY DEF Lists
  <2>2. f \in Seq(Laid)
    BY DEF IsLaidOut
  <2>3. n + 1 \in 1 .. Len(f) /\ Len(f) \in Nat
    BY <2>2, LaidLine
  <2>4. j \in DOMAIN f /\ j < n + 1
    BY <2>2, <2>3
  <2>5. f[j].at + f[j].len < f[n + 1].at /\ f[j].at \in Nat /\ f[j].len \in Nat
    BY <2>2, <2>4, LaidOutOrder, LaidLine
  <2>6. f[n + 1].at \in Nat
    BY <2>2, LaidLine
  <2>7. QED  BY <2>1, <2>5, <2>6 DEF Tells
<1>5. ASSUME NEW a \in DOMAIN r, NEW b \in DOMAIN r, a < b
      PROVE  r[a].offset < r[b].offset
  <2>1. CASE b = Len(s) + 1 /\ r[b] = e
    <3>1. a # Len(s) + 1
      BY <1>1, <1>5, <2>1
    <3>2. a \in DOMAIN s /\ r[a] = s[a]
      BY <1>2, <3>1
    <3>3. QED  BY <1>4, <2>1, <3>2
  <2>2. CASE b \in DOMAIN s /\ r[b] = s[b]
    <3>1. a # Len(s) + 1
      BY <1>1, <1>5, <2>2
    <3>2. a \in DOMAIN s /\ r[a] = s[a]
      BY <1>2, <3>1
    <3>3. QED  BY <1>5, <2>2, <3>2 DEF InFileOrder
  <2>3. QED  BY <1>2, <2>1, <2>2
<1>6. QED  BY <1>1, <1>3, <1>5 DEF InFileOrder, r

-----------------------------------------------------------------------------
(* Sorting *)

Distinct(s) == \A a, b \in DOMAIN s : a # b => s[a].ticker # s[b].ticker

\* sort_by keeps all entries; what it makes of entries in file order, and of
\* entries with no two of a ticker.
LEMMA Sorted ==
  ASSUME NEW s \in Seq(Entry), NEW r, IsSortOf(r, s)
  PROVE  /\ r \in Seq(Entry) /\ DOMAIN r = DOMAIN s
         /\ \A a \in DOMAIN r : \E b \in DOMAIN s : r[a] = s[b]
         /\ \A b \in DOMAIN s : \E a \in DOMAIN r : r[a] = s[b]
         /\ InFileOrder(s) => InTickerOrder(r)
         /\ Distinct(s) => StrictlySorted(r)
<1>1. PICK p \in [DOMAIN s -> DOMAIN s] : StableOrder(s, p) /\ r = [j \in DOMAIN s |-> s[p[j]]]
  BY DEF IsSortOf
<1>2. /\ DOMAIN r = DOMAIN s /\ DOMAIN s = 1 .. Len(s) /\ Len(s) \in Nat
      /\ \A a \in DOMAIN s : r[a] = s[p[a]] /\ p[a] \in DOMAIN s
  BY <1>1
<1>3. r \in Seq(Entry)
  <2>1. \A a \in 1 .. Len(s) : s[p[a]] \in Entry
    BY <1>2
  <2>2. r = [j \in 1 .. Len(s) |-> s[p[j]]]
    BY <1>1, <1>2
  <2>3. QED  BY <1>2, <2>1, <2>2
<1>4. \A a \in DOMAIN r : \E b \in DOMAIN s : r[a] = s[b]
  BY <1>2
<1>5. \A b \in DOMAIN s : \E a \in DOMAIN s : p[a] = b
  BY <1>1 DEF StableOrder
<1>6. \A b \in DOMAIN s : \E a \in DOMAIN r : r[a] = s[b]
  BY <1>2, <1>5
<1>7. \A a, b \in DOMAIN s : a < b =>
        \/ r[a].ticker < r[b].ticker
        \/ r[a].ticker = r[b].ticker /\ p[a] < p[b]
  BY <1>1, <1>2 DEF StableOrder
<1>8. ASSUME InFileOrder(s)
      PROVE  InTickerOrder(r)
  BY <1>2, <1>7, <1>8 DEF InFileOrder, InTickerOrder
<1>9. ASSUME Distinct(s)
      PROVE  StrictlySorted(r)
  <2>1. \A a, b \in DOMAIN s : p[a] < p[b] => r[a].ticker # r[b].ticker
    <3> TAKE a, b \in DOMAIN s
    <3> HAVE p[a] < p[b]
    <3>1. p[a] # p[b]
      BY <1>2
    <3>2. QED  BY <1>2, <1>9, <3>1 DEF Distinct
  <2>2. QED  BY <1>2, <1>7, <2>1 DEF StrictlySorted
<1>10. QED  BY <1>2, <1>3, <1>4, <1>6, <1>8, <1>9

LEMMA ListsSame ==
  ASSUME NEW s, NEW r, NEW f, NEW n, Lists(s, f, n),
         \A a \in DOMAIN r : \E b \in DOMAIN s : r[a] = s[b],
         \A b \in DOMAIN s : \E a \in DOMAIN r : r[a] = s[b]
  PROVE  Lists(r, f, n)
BY DEF Lists

-----------------------------------------------------------------------------
(* What is an index *)

\* The last entries of their tickers are the index of the lines listed.
LEMMA LastOnesIndex ==
  ASSUME NEW s \in Seq(Entry), NEW r \in Seq(Entry), NEW f, IsLaidOut(f),
         Lists(s, f, Len(f)), InTickerOrder(s), StrictlySorted(r),
         \A m \in DOMAIN r : \E a \in DOMAIN s : r[m] = s[a] /\ LastIn(s, a),
         \A a \in DOMAIN s : LastIn(s, a) => \E m \in DOMAIN r : r[m] = s[a]
  PROVE  Indexes(r, f)
<1>1. /\ DOMAIN s = 1 .. Len(s) /\ Len(s) \in Nat
      /\ \A a \in DOMAIN s : s[a].ticker \in Nat /\ s[a].offset \in Nat /\ a \in Nat
  <2>1. /\ DOMAIN s = 1 .. Len(s) /\ Len(s) \in Nat
        /\ \A a \in DOMAIN s : s[a].ticker \in Nat /\ s[a].offset \in Nat
    BY EntryFields
  <2>2. \A a \in 1 .. Len(s) : a \in Nat
    BY <2>1
  <2>3. QED  BY <2>1, <2>2
<1>2. /\ f \in Seq(Laid) /\ DOMAIN f = 1 .. Len(f) /\ Len(f) \in Nat
      /\ \A j \in 1 .. Len(f) : j \in Nat
  BY DEF IsLaidOut
<1>3. ASSUME NEW a \in DOMAIN s, LastIn(s, a), NEW b \in DOMAIN s, s[b].ticker = s[a].ticker
      PROVE  b <= a /\ s[b].offset <= s[a].offset
  <2>1. b <= a
    <3> SUFFICES ASSUME ~ (b <= a)  PROVE FALSE
      OBVIOUS
    <3>0. a \in Nat /\ b \in Nat /\ 1 <= a /\ b <= Len(s)
      BY <1>1
    <3>1. a + 1 \in DOMAIN s /\ a < a + 1 /\ a < Len(s) /\ (a + 1 = b \/ a + 1 < b)
      BY <1>1, <3>0
    <3>2. s[a].ticker < s[a + 1].ticker
      BY <1>1, <1>3, <3>1 DEF InTickerOrder, LastIn
    <3>3. s[a + 1].ticker <= s[b].ticker
      BY <1>1, <3>1 DEF InTickerOrder
    <3>4. s[a + 1].ticker <= s[a].ticker /\ s[a].ticker \in Nat /\ s[a + 1].ticker \in Nat
      BY <1>1, <1>3, <3>1, <3>3
    <3>5. QED  BY <3>2, <3>4
  <2>2. CASE b = a
    BY <1>1, <2>2
  <2>3. CASE b < a
    <3>1. \/ s[b].ticker < s[a].ticker
          \/ s[b].ticker = s[a].ticker /\ s[b].offset < s[a].offset
      BY <2>3 DEF InTickerOrder
    <3>2. /\ s[a].ticker \in Nat /\ s[b].ticker \in Nat
          /\ s[a].offset \in Nat /\ s[b].offset \in Nat
      BY <1>1
    <3>3. ~ (s[b].ticker < s[a].ticker)
      BY <1>3, <3>2
    <3>4. QED  BY <2>1, <3>1, <3>2, <3>3
  <2>4. a \in Nat /\ b \in Nat
    BY <1>1
  <2>5. b = a \/ b < a
    BY <2>1, <2>4
  <2>6. QED  BY <2>1, <2>2, <2>3, <2>5
<1>4. ASSUME NEW m \in DOMAIN r
      PROVE  Newest(r[m], f)
  <2>1. PICK a \in DOMAIN s : r[m] = s[a] /\ LastIn(s, a)
    OBVIOUS
  <2>2. PICK j \in 1 .. Len(f) : IsRec(f[j]) /\ Tells(s[a], f[j])
    BY DEF Lists
  <2>3. ASSUME NEW n \in DOMAIN f, IsRec(f[n]), f[n].line.ticker = s[a].ticker
        PROVE  n <= j
    <3>1. PICK b \in DOMAIN s : Tells(s[b], f[n])
      BY <1>2, <2>3 DEF Lists
    <3>2. s[b].offset <= s[a].offset
      BY <1>3, <2>1, <2>3, <3>1 DEF Tells
    <3>3. f[n].at <= f[j].at
      BY <2>2, <3>1, <3>2 DEF Tells
    <3>4. f[n].at \in Nat /\ f[j].at \in Nat /\ f[j].len \in Nat
      BY <1>2, LaidLine
    <3>5. j \in Nat /\ n \in Nat
      BY <1>2
    <3>6. j < n => f[j].at + f[j].len < f[n].at
      BY <1>2, LaidOutOrder
    <3>7. ~ (f[j].at + f[j].len < f[n].at)
      <4> DEFINE x == f[n].at
                 y == f[j].at
                 z == f[j].len
      <4>1. x \in Nat /\ y \in Nat /\ z \in Nat /\ x <= y
        BY <3>3, <3>4
      <4> HIDE DEF x, y, z
      <4>2. ~ (y + z < x)
        BY <4>1
      <4>3. QED  BY <4>2 DEF x, y, z
    <3>8. QED  BY <3>5, <3>6, <3>7
  <2>4. QED  BY <1>2, <2>1, <2>2, <2>3 DEF Newest
<1>5. ASSUME NEW j \in DOMAIN f, IsRec(f[j])
      PROVE  Has(r, f[j].line.ticker)
  <2>1. PICK b \in DOMAIN s : Tells(s[b], f[j])
    BY <1>2, <1>5 DEF Lists
  <2> DEFINE T == {a \in DOMAIN s : s[a].ticker = s[b].ticker}
  <2>2. T \in SUBSET (1 .. Len(s)) /\ T # {}
    BY <1>1
  <2>3. PICK c \in T : \A a \in T : a <= c
    <3> HIDE DEF T
    <3>1. QED  BY <1>1, <2>2, LargestExists
  <2>4. LastIn(s, c)
    <3> SUFFICES ASSUME c < Len(s), s[c + 1].ticker = s[c].ticker  PROVE FALSE
      BY DEF LastIn
    <3>1. c + 1 \in T /\ ~ (c + 1 <= c)
      BY <1>1
    <3>2. QED  BY <2>3, <3>1
  <2>5. PICK m \in DOMAIN r : r[m] = s[c]
    BY <2>4
  <2>6. QED  BY <2>1, <2>5 DEF Has, Tells
<1>6. QED  BY <1>4, <1>5 DEF Indexes, AllNewest

\* ... in LogFile's words.
LEMMA IndexesIsIndex ==
  ASSUME NEW s \in Seq(Entry), NEW f, IsLaidOut(f), Indexes(s, f)
  PROVE  IsIndexOf(s, f)
<1> DEFINE g == LinesOf(f)
<1>1. f \in Seq(Laid) /\ DOMAIN f = 1 .. Len(f) /\ Len(f) \in Nat
  BY DEF IsLaidOut
<1>2. /\ g \in Seq(Line) /\ DOMAIN g = DOMAIN f
      /\ \A j \in DOMAIN f : g[j] = IF f[j].ended THEN f[j].line ELSE Junk
  <2>1. \A j \in DOMAIN f : (IF f[j].ended THEN f[j].line ELSE Junk) \in Line
    BY <1>1, LaidLine DEF Line
  <2>2. g = [j \in 1 .. Len(f) |-> IF f[j].ended THEN f[j].line ELSE Junk]
    BY <1>1 DEF LinesOf
  <2>3. QED  BY <1>1, <2>1, <2>2
<1> HIDE DEF g
<1>3. ASSUME NEW t
      PROVE  Positions(g, t) = {j \in DOMAIN f : IsRec(f[j]) /\ f[j].line.ticker = t}
  BY <1>2 DEF Positions, IsRecOf, IsRec, Junk
<1>4. ASSUME NEW m \in DOMAIN s
      PROVE  /\ s[m].ticker \in DOMAIN IndexOf(g)
             /\ s[m].offset = f[IndexOf(g)[s[m].ticker]].at
             /\ s[m].len = f[IndexOf(g)[s[m].ticker]].len
  <2> DEFINE t == s[m].ticker
  <2>1. PICK j \in DOMAIN f : /\ IsRec(f[j]) /\ Tells(s[m], f[j])
                              /\ \A n \in DOMAIN f : IsRec(f[n]) /\ f[n].line.ticker = t => n <= j
    BY DEF Indexes, AllNewest, Newest
  <2>2. t \in Tickers
    BY EntryFields
  <2> HIDE DEF t
  <2>3. j \in Positions(g, t) /\ \A n \in Positions(g, t) : n <= j
    BY <1>3, <2>1 DEF Tells, t
  <2>4. LastPosition(g, t) = j
    BY <1>2, <2>3, LastPositionUnique
  <2>5. t \in TickersOf(g)
    BY <2>2, <2>3 DEF TickersOf
  <2>6. t \in DOMAIN IndexOf(g) /\ IndexOf(g)[t] = j
    BY <2>4, <2>5 DEF IndexOf
  <2>7. QED  BY <2>1, <2>6 DEF Tells, t
<1>5. ASSUME NEW t \in DOMAIN IndexOf(g)
      PROVE  t \in {s[m].ticker : m \in DOMAIN s}
  <2>1. Positions(g, t) # {}
    BY DEF IndexOf, TickersOf
  <2>2. PICK j \in DOMAIN f : IsRec(f[j]) /\ f[j].line.ticker = t
    BY <1>3, <2>1
  <2>3. QED  BY <2>2 DEF Indexes, Has
<1>6. {s[m].ticker : m \in DOMAIN s} = DOMAIN IndexOf(g)
  BY <1>4, <1>5
<1>7. QED  BY <1>4, <1>6 DEF IsIndexOf, Indexes, g

-----------------------------------------------------------------------------
(* from_file's steps *)

LEMMA Types ==
  ASSUME TypeOK
  PROVE  /\ IsLaidOut(file) /\ file \in Seq(Laid) /\ DOMAIN file = 1 .. Len(file)
         /\ Len(file) \in Nat /\ hasOld \in BOOLEAN /\ job \in {"load", "compact"}
         /\ i \in Nat /\ offset \in Nat /\ k \in Nat
         /\ entries \in Seq(Entry) /\ kept \in Seq(Entry) /\ index \in Seq(Entry)
         /\ carried \in Seq(Entry) /\ out \in Seq(Laid)
BY DEF TypeOK, IsLaidOut

\* An entry for n bytes from the offset on.
LEMMA EntryHere ==
  ASSUME offset \in Nat, NEW t \in Tickers, NEW n \in Nat
  PROVE  /\ EntryAt(t, n) \in Entry /\ EntryAt(t, n).ticker = t
         /\ EntryAt(t, n).offset = offset /\ EntryAt(t, n).len = n
BY DEF EntryAt, Entry

\* Where from_file is when it reads a line.
LEMMA AtLine ==
  ASSUME BuildInv, ReadLine
  PROVE  /\ job = "load" /\ pc = "read" /\ hasOld = TRUE /\ i + 1 \in DOMAIN file
         /\ file[i + 1].ended /\ NextLine = file[i + 1] /\ NextLine.line \in Line
         /\ offset = NextLine.at /\ NextLine.len \in Nat
         /\ i' = i + 1 /\ i' \in Nat /\ i' # 0 /\ i' <= Len(file)
         /\ \A j \in 1 .. i' : file[j].ended
         /\ offset' = file[i'].at + file[i'].len + 1 /\ offset' \in Nat
         /\ UNCHANGED <<file, hasOld, job, pc, kept, index, out, k, carried>>
<1>1. TypeOK /\ PhaseOf /\ ReadInv /\ OldInv
  BY DEF BuildInv
<1>2. /\ pc = "read" /\ i < Len(file) /\ NextLine.ended /\ i' = i + 1
      /\ offset' = offset + NextLine.len + 1 /\ NextLine = file[i + 1]
      /\ UNCHANGED <<file, hasOld, job, pc, kept, index, out, k, carried>>
  BY DEF ReadLine, NextLine
<1>3. job = "load" /\ hasOld = TRUE
  BY <1>1, <1>2, Types DEF PhaseOf, OldInv
<1>4. i \in Nat /\ Len(file) \in Nat /\ DOMAIN file = 1 .. Len(file) /\ file \in Seq(Laid)
  BY <1>1, Types
<1>5. i + 1 \in 1 .. Len(file)
  BY <1>2, <1>4
<1>6. file[i + 1].at \in Nat /\ file[i + 1].len \in Nat /\ file[i + 1].line \in Line
  BY <1>4, <1>5, LaidLine
<1>7. offset = file[i + 1].at
  <2>1. CASE i = 0
    <3>1. file # <<>>
      BY <1>4, <1>5
    <3>2. QED  BY <1>1, <1>2, <2>1, <3>1, Types DEF ReadInv, IsLaidOut
  <2>2. CASE i # 0
    <3>1. i \in 1 .. Len(file) - 1
      BY <1>2, <1>4, <2>2
    <3>2. file[i + 1].at = file[i].at + file[i].len + 1
      BY <1>1, <3>1, Types DEF IsLaidOut
    <3>3. QED  BY <1>1, <1>2, <2>2, <3>2 DEF ReadInv
  <2>3. QED  BY <2>1, <2>2
<1>8. \A j \in 1 .. i + 1 : file[j].ended
  <2>1. \A j \in 1 .. i : file[j].ended
    BY <1>1, <1>2 DEF ReadInv
  <2>2. \A j \in 1 .. i + 1 : j \in 1 .. i \/ j = i + 1
    BY <1>4
  <2>3. QED  BY <1>2, <2>1, <2>2
<1>9. offset' \in Nat /\ i' \in Nat /\ i' # 0 /\ i' <= Len(file)
  <2>1. i' \in Nat /\ i' # 0 /\ i' <= Len(file)
    BY <1>2, <1>4
  <2>2. offset' \in Nat
    BY <1>2, <1>6, <1>7
  <2>3. QED  BY <2>1, <2>2
<1>10. QED  BY <1>2, <1>3, <1>4, <1>5, <1>6, <1>7, <1>8, <1>9

\* While lines are read nothing else is claimed of the rest.
LEMMA StillReading ==
  ASSUME BuildInv, ReadLine, entries' \in Seq(Entry),
         Lists(entries', file, i + 1), InFileOrder(entries')
  PROVE  BuildInv'
<1>1. /\ job = "load" /\ pc = "read" /\ hasOld = TRUE
      /\ i' = i + 1 /\ i' \in Nat /\ i' # 0 /\ i' <= Len(file)
      /\ \A j \in 1 .. i' : file[j].ended
      /\ offset' = file[i'].at + file[i'].len + 1 /\ offset' \in Nat
      /\ UNCHANGED <<file, hasOld, job, pc, kept, index, out, k, carried>>
  BY AtLine
<1>2. TypeOK /\ ReadInv /\ OutInv /\ CarriedInv /\ kept = <<>>
  BY <1>1 DEF BuildInv, ReadInv
<1>3. TypeOK'
  <2>1. Len(kept) = 0 /\ Len(entries') \in Nat
    BY <1>2
  <2>2. QED  BY <1>1, <1>2, <2>1 DEF TypeOK
<1>4. PhaseOf' /\ OldInv' /\ OutInv' /\ CarriedInv'
  BY <1>1, <1>2 DEF PhaseOf, OldInv, OutInv, CarriedInv
<1>5. ReadInv'
  BY <1>1, <1>2 DEF ReadInv
<1>6. ListedInv' /\ DedupeInv' /\ MergeInv' /\ DoneInv'
  BY <1>1 DEF ListedInv, DedupeInv, MergeInv, DoneInv
<1>7. QED  BY <1>3, <1>4, <1>5, <1>6 DEF BuildInv

LEMMA ReadRecordKeeps ==
  ASSUME BuildInv, ReadRecord
  PROVE  BuildInv'
<1>1. /\ ReadLine /\ NextLine.line.kind = "rec"
      /\ entries' = Append(entries, EntryAt(NextLine.line.ticker, NextLine.len))
  BY DEF ReadRecord
<1>2. /\ pc = "read" /\ i + 1 \in DOMAIN file /\ file[i + 1].ended /\ NextLine = file[i + 1]
      /\ NextLine.line \in Line /\ offset = NextLine.at /\ NextLine.len \in Nat
  BY <1>1, AtLine
<1>3. /\ entries \in Seq(Entry) /\ IsLaidOut(file) /\ i \in Nat /\ offset \in Nat
      /\ Lists(entries, file, i) /\ InFileOrder(entries)
  BY <1>2, Types DEF BuildInv, ReadInv
<1> DEFINE e == EntryAt(NextLine.line.ticker, NextLine.len)
<1>4. /\ e \in Entry /\ e.ticker = NextLine.line.ticker
      /\ e.offset = offset /\ e.len = NextLine.len
  <2>1. NextLine.line.ticker \in Tickers
    BY <1>1, <1>2, RecordLine
  <2>2. QED  BY <1>2, <1>3, <2>1, EntryHere
<1> HIDE DEF e
<1>5. IsRec(file[i + 1]) /\ Tells(e, file[i + 1])
  BY <1>1, <1>2, <1>4 DEF IsRec, Tells
<1>6. /\ Append(entries, e) \in Seq(Entry) /\ Lists(Append(entries, e), file, i + 1)
      /\ InFileOrder(Append(entries, e))
  BY <1>2, <1>3, <1>4, <1>5, ListsMore
<1>7. entries' = Append(entries, e)
  BY <1>1 DEF e
<1>8. QED  BY <1>1, <1>6, <1>7, StillReading

LEMMA SkipLineKeeps ==
  ASSUME BuildInv, SkipLine
  PROVE  BuildInv'
<1>1. ReadLine /\ NextLine.line.kind # "rec" /\ entries' = entries
  BY DEF SkipLine
<1>2. pc = "read" /\ NextLine = file[i + 1]
  BY <1>1, AtLine
<1>3. /\ entries \in Seq(Entry) /\ i \in Nat
      /\ Lists(entries, file, i) /\ InFileOrder(entries)
  BY <1>2, Types DEF BuildInv, ReadInv
<1>4. ~ IsRec(file[i + 1])
  BY <1>1, <1>2 DEF IsRec
<1>5. Lists(entries, file, i + 1)
  BY <1>3, <1>4, ListsSkip
<1>6. QED  BY <1>1, <1>3, <1>5, StillReading

\* What is left of the file has no record: it is a torn line at most.
LEMMA EndOfFileKeeps ==
  ASSUME BuildInv, EndOfFile
  PROVE  BuildInv'
<1>1. /\ pc = "read" /\ (i < Len(file) => ~ NextLine.ended) /\ pc' = "sort"
      /\ UNCHANGED <<file, hasOld, job, i, offset, entries, kept, index, out, k, carried>>
  BY DEF EndOfFile
<1>2. TypeOK /\ PhaseOf /\ ReadInv /\ OldInv /\ OutInv /\ CarriedInv
  BY DEF BuildInv
<1>3. job = "load" /\ hasOld = TRUE
  BY <1>1, <1>2, Types DEF PhaseOf, OldInv
<1>4. /\ i \in Nat /\ Len(file) \in Nat /\ i <= Len(file) /\ kept = <<>>
      /\ Lists(entries, file, i) /\ InFileOrder(entries)
  BY <1>1, <1>2, Types DEF ReadInv
<1>5. Lists(entries, file, Len(file))
  <2>1. CASE i = Len(file)
    BY <1>4, <2>1
  <2>2. CASE i # Len(file)
    <3>1. i < Len(file)
      BY <1>4, <2>2
    <3>2. ~ file[i + 1].ended
      BY <1>1, <3>1 DEF NextLine
    <3>3. i + 1 \notin 1 .. Len(file) - 1
      BY <1>2, <3>2, Types DEF IsLaidOut
    <3>4. i + 1 = Len(file)
      BY <1>4, <3>1, <3>3
    <3>5. Lists(entries, file, i + 1)
      BY <1>4, <3>2, ListsSkip DEF IsRec
    <3>6. QED  BY <3>4, <3>5
  <2>3. QED  BY <2>1, <2>2
<1>6. TypeOK'
  BY <1>1, <1>2 DEF TypeOK
<1>7. PhaseOf' /\ OldInv' /\ OutInv' /\ CarriedInv'
  BY <1>1, <1>2, <1>3 DEF PhaseOf, OldInv, OutInv, CarriedInv
<1>8. ListedInv'
  BY <1>1, <1>3, <1>4, <1>5 DEF ListedInv, Source
<1>9. ReadInv' /\ DedupeInv' /\ MergeInv' /\ DoneInv'
  BY <1>1 DEF ReadInv, DedupeInv, MergeInv, DoneInv
<1>10. QED  BY <1>6, <1>7, <1>8, <1>9 DEF BuildInv

-----------------------------------------------------------------------------
(* sort_by and dedupe_keep_last *)

LEMMA SortEntriesKeeps ==
  ASSUME BuildInv, SortEntries
  PROVE  BuildInv'
<1>1. /\ pc = "sort" /\ pc' = "dedupe" /\ i' = 1 /\ kept' = <<>> /\ IsSortOf(entries', entries)
      /\ UNCHANGED <<file, hasOld, job, offset, index, out, k, carried>>
  BY DEF SortEntries
<1>2. TypeOK /\ PhaseOf /\ OldInv /\ OutInv /\ CarriedInv
  BY DEF BuildInv
<1>3. entries \in Seq(Entry) /\ Lists(entries, Source, Len(Source)) /\ InFileOrder(entries)
  BY <1>1, <1>2, Types DEF BuildInv, ListedInv
<1>4. /\ entries' \in Seq(Entry) /\ InTickerOrder(entries')
      /\ Lists(entries', Source, Len(Source))
  <2> DEFINE r == entries'
  <2>1. IsSortOf(r, entries)
    BY <1>1
  <2> HIDE DEF r
  <2>2. /\ r \in Seq(Entry) /\ InTickerOrder(r)
        /\ \A a \in DOMAIN r : \E b \in DOMAIN entries : r[a] = entries[b]
        /\ \A b \in DOMAIN entries : \E a \in DOMAIN r : r[a] = entries[b]
    BY <1>3, <2>1, Sorted
  <2>3. Lists(r, Source, Len(Source))
    BY <1>3, <2>2, ListsSame
  <2>4. QED  BY <2>2, <2>3 DEF r
<1>5. TypeOK'
  <2>1. <<>> \in Seq(Entry) /\ Len(<<>>) = 0 /\ Len(entries') \in Nat
    BY <1>4
  <2>2. QED  BY <1>1, <1>2, <1>4, <2>1 DEF TypeOK
<1>6. PhaseOf' /\ OldInv' /\ OutInv' /\ CarriedInv'
  BY <1>1, <1>2 DEF PhaseOf, OldInv, OutInv, CarriedInv
<1>7. DedupeInv'
  <2>1. Source' = Source
    BY <1>1 DEF Source
  <2>2. i' \in 1 .. Len(entries') + 1 /\ Len(kept') < i'
    <3>1. Len(entries') \in Nat
      BY <1>4
    <3>2. QED  BY <1>1, <3>1
  <2>3. StrictlySorted(kept') /\ DOMAIN kept' = {} /\ 1 .. i' - 1 = {}
    BY <1>1 DEF StrictlySorted
  <2>4. QED  BY <1>4, <2>1, <2>2, <2>3 DEF DedupeInv
<1>8. ReadInv' /\ ListedInv' /\ MergeInv' /\ DoneInv'
  BY <1>1 DEF ReadInv, ListedInv, MergeInv, DoneInv
<1>9. QED  BY <1>5, <1>6, <1>7, <1>8 DEF BuildInv

\* What stays while dedupe_keep_last goes on.
LEMMA StillDeduping ==
  ASSUME BuildInv, pc = "dedupe", UNCHANGED <<file, hasOld, job, pc, offset, entries, index, out, k, carried>>
  PROVE  PhaseOf' /\ OldInv' /\ OutInv' /\ CarriedInv' /\ ReadInv' /\ ListedInv' /\ MergeInv' /\ DoneInv'
<1>1. PhaseOf /\ OldInv /\ OutInv /\ CarriedInv
  BY DEF BuildInv
<1>2. PhaseOf' /\ OldInv' /\ OutInv' /\ CarriedInv'
  BY <1>1 DEF PhaseOf, OldInv, OutInv, CarriedInv
<1>3. ReadInv' /\ ListedInv' /\ MergeInv' /\ DoneInv'
  BY DEF ReadInv, ListedInv, MergeInv, DoneInv
<1>4. QED  BY <1>2, <1>3

LEMMA SupersedeKeeps ==
  ASSUME BuildInv, Supersede
  PROVE  BuildInv'
<1>1. /\ pc = "dedupe" /\ i < Len(entries) /\ entries[i + 1].ticker = entries[i].ticker
      /\ i' = i + 1
      /\ UNCHANGED <<file, hasOld, job, pc, offset, entries, kept, index, out, k, carried>>
  BY DEF Supersede, NextIsEqual
<1>2. /\ TypeOK /\ Lists(entries, Source, Len(Source)) /\ InTickerOrder(entries)
      /\ i \in 1 .. Len(entries) + 1 /\ Len(kept) < i /\ StrictlySorted(kept)
      /\ \A m \in DOMAIN kept : \E a \in 1 .. i - 1 : kept[m] = entries[a] /\ LastIn(entries, a)
      /\ \A a \in 1 .. i - 1 : LastIn(entries, a) => \E m \in DOMAIN kept : kept[m] = entries[a]
  BY <1>1 DEF BuildInv, DedupeInv
<1>3. Len(entries) \in Nat /\ Len(kept) \in Nat /\ i \in Nat /\ i # 0
  BY <1>2, Types
<1>4. TypeOK'
  BY <1>1, <1>2, <1>3 DEF TypeOK
<1>5. DedupeInv'
  <2>1. i' \in 1 .. Len(entries) + 1 /\ Len(kept) < i'
    BY <1>1, <1>2, <1>3
  <2>2. ~ LastIn(entries, i)
    BY <1>1 DEF LastIn
  <2>3. \A a \in 1 .. i' - 1 : a \in 1 .. i - 1 \/ a = i
    BY <1>1, <1>3
  <2>4. \A a \in 1 .. i - 1 : a \in 1 .. i' - 1
    BY <1>1, <1>3
  <2>5. \A m \in DOMAIN kept : \E a \in 1 .. i' - 1 : kept[m] = entries[a] /\ LastIn(entries, a)
    BY <1>2, <2>4
  <2>6. \A a \in 1 .. i' - 1 : LastIn(entries, a) => \E m \in DOMAIN kept : kept[m] = entries[a]
    BY <1>2, <2>2, <2>3
  <2>7. Source' = Source
    BY <1>1 DEF Source
  <2>8. QED  BY <1>1, <1>2, <2>1, <2>5, <2>6, <2>7 DEF DedupeInv
<1>6. QED  BY <1>1, <1>4, <1>5, StillDeduping DEF BuildInv

LEMMA KeepKeeps ==
  ASSUME BuildInv, Keep
  PROVE  BuildInv'
<1>1. /\ pc = "dedupe" /\ i <= Len(entries)
      /\ i < Len(entries) => entries[i + 1].ticker # entries[i].ticker
      /\ kept' = Append(kept, entries[i]) /\ i' = i + 1
      /\ UNCHANGED <<file, hasOld, job, pc, offset, entries, index, out, k, carried>>
  BY DEF Keep, NextIsEqual
<1>2. /\ TypeOK /\ Lists(entries, Source, Len(Source)) /\ InTickerOrder(entries)
      /\ i \in 1 .. Len(entries) + 1 /\ Len(kept) < i /\ StrictlySorted(kept)
      /\ \A m \in DOMAIN kept : \E a \in 1 .. i - 1 : kept[m] = entries[a] /\ LastIn(entries, a)
      /\ \A a \in 1 .. i - 1 : LastIn(entries, a) => \E m \in DOMAIN kept : kept[m] = entries[a]
  BY <1>1 DEF BuildInv, DedupeInv
<1>3. /\ Len(entries) \in Nat /\ Len(kept) \in Nat /\ i \in Nat /\ i # 0
      /\ DOMAIN entries = 1 .. Len(entries) /\ i \in DOMAIN entries
      /\ entries \in Seq(Entry) /\ kept \in Seq(Entry)
  <2>1. /\ Len(entries) \in Nat /\ Len(kept) \in Nat /\ i \in Nat /\ i # 0
        /\ DOMAIN entries = 1 .. Len(entries) /\ entries \in Seq(Entry) /\ kept \in Seq(Entry)
    BY <1>2, Types
  <2>2. i \in 1 .. Len(entries)
    BY <1>1, <2>1
  <2>3. QED  BY <2>1, <2>2
<1>4. entries[i] \in Entry
  BY <1>3, EntryFields
<1>5. /\ kept' \in Seq(Entry) /\ Len(kept') = Len(kept) + 1 /\ kept'[Len(kept) + 1] = entries[i]
      /\ \A m \in 1 .. Len(kept) : kept'[m] = kept[m]
      /\ DOMAIN kept = 1 .. Len(kept) /\ DOMAIN kept' = 1 .. Len(kept) + 1
  BY <1>1, <1>3, <1>4, AppendProperties
<1>6. \A m \in DOMAIN kept' : (m \in DOMAIN kept /\ kept'[m] = kept[m])
                                \/ (m = Len(kept) + 1 /\ kept'[m] = entries[i])
  <2> TAKE m \in DOMAIN kept'
  <2>1. m \in 1 .. Len(kept) \/ m = Len(kept) + 1
    <3>1. m \in 1 .. Len(kept) + 1 /\ Len(kept) \in Nat
      BY <1>3, <1>5
    <3>2. QED  BY <3>1
  <2>2. QED  BY <1>5, <2>1
<1>7. TypeOK'
  <2>1. Len(kept') <= Len(entries')
    <3>1. Len(kept) + 1 <= Len(entries)
      <4>1. Len(kept) \in Nat /\ Len(entries) \in Nat /\ i \in Nat /\ Len(kept) < i /\ i <= Len(entries)
        BY <1>1, <1>2, <1>3
      <4>2. QED  BY <4>1
    <3>2. QED  BY <1>1, <1>5, <3>1
  <2>2. QED  BY <1>1, <1>2, <1>3, <1>5, <2>1 DEF TypeOK
<1>8. DedupeInv'
  <2>1. i' \in 1 .. Len(entries) + 1 /\ Len(kept') < i'
    <3>1. Len(kept) \in Nat /\ Len(entries) \in Nat /\ i \in Nat /\ Len(kept) < i /\ i <= Len(entries)
      BY <1>1, <1>2, <1>3
    <3>2. QED  BY <1>1, <1>5, <3>1
  <2>2. LastIn(entries, i)
    BY <1>1 DEF LastIn
  <2>3. \A a \in 1 .. i' - 1 : a \in 1 .. i - 1 \/ a = i
    BY <1>1, <1>3
  <2>4. i \in 1 .. i' - 1 /\ \A a \in 1 .. i - 1 : a \in 1 .. i' - 1
    BY <1>1, <1>3
  <2>5. \A m \in DOMAIN kept' : \E a \in 1 .. i' - 1 : kept'[m] = entries[a] /\ LastIn(entries, a)
    BY <1>2, <1>6, <2>2, <2>4
  <2>6. ASSUME NEW a \in 1 .. i' - 1, LastIn(entries, a)
        PROVE  \E m \in DOMAIN kept' : kept'[m] = entries[a]
    <3>1. CASE a = i
      <4>1. Len(kept) + 1 \in DOMAIN kept'
        BY <1>3, <1>5
      <4>2. QED  BY <1>5, <3>1, <4>1
    <3>2. CASE a \in 1 .. i - 1
      <4>1. PICK m \in DOMAIN kept : kept[m] = entries[a]
        BY <1>2, <2>6, <3>2
      <4>2. m \in DOMAIN kept' /\ kept'[m] = kept[m]
        BY <1>3, <1>5
      <4>3. QED  BY <4>1, <4>2
    <3>3. QED  BY <2>3, <3>1, <3>2
  <2>7. ASSUME NEW m \in DOMAIN kept
        PROVE  kept[m].ticker < entries[i].ticker
    <3>1. PICK a \in 1 .. i - 1 : kept[m] = entries[a] /\ LastIn(entries, a)
      BY <1>2
    <3>2. a \in DOMAIN entries /\ a + 1 \in DOMAIN entries /\ a < a + 1 /\ a < Len(entries)
          /\ (a + 1 = i \/ a + 1 < i)
      BY <1>3
    <3>3. /\ entries[a].ticker \in Nat /\ entries[a + 1].ticker \in Nat
          /\ entries[i].ticker \in Nat
      BY <1>3, <3>2, EntryFields
    <3>4. entries[a].ticker < entries[a + 1].ticker
      BY <1>2, <3>1, <3>2 DEF InTickerOrder, LastIn
    <3>5. entries[a + 1].ticker <= entries[i].ticker
      <4>1. CASE a + 1 = i
        BY <3>3, <4>1
      <4>2. CASE a + 1 < i
        <5>1. \/ entries[a + 1].ticker < entries[i].ticker
              \/ entries[a + 1].ticker = entries[i].ticker
          BY <1>2, <1>3, <3>2, <4>2 DEF InTickerOrder
        <5>2. QED  BY <3>3, <5>1
      <4>3. QED  BY <3>2, <4>1, <4>2
    <3>6. QED  BY <3>1, <3>3, <3>4, <3>5
  <2>8. StrictlySorted(kept')
    <3> SUFFICES ASSUME NEW m \in DOMAIN kept', NEW n \in DOMAIN kept', m < n
                 PROVE  kept'[m].ticker < kept'[n].ticker
      BY DEF StrictlySorted
    <3>1. m # Len(kept) + 1
      BY <1>3, <1>5
    <3>2. m \in DOMAIN kept /\ kept'[m] = kept[m]
      BY <1>6, <3>1
    <3>3. CASE n \in DOMAIN kept /\ kept'[n] = kept[n]
      BY <1>2, <3>2, <3>3 DEF StrictlySorted
    <3>4. CASE kept'[n] = entries[i]
      BY <2>7, <3>2, <3>4
    <3>5. QED  BY <1>6, <3>3, <3>4
  <2>9. Source' = Source
    BY <1>1 DEF Source
  <2>10. QED  BY <1>1, <1>2, <2>1, <2>5, <2>6, <2>8, <2>9 DEF DedupeInv
<1>9. QED  BY <1>1, <1>7, <1>8, StillDeduping DEF BuildInv

\* At the end of the loop what is kept is the index of the lines listed.
LEMMA DedupeEnds ==
  ASSUME BuildInv, pc = "dedupe", i > Len(entries)
  PROVE  kept \in Seq(Entry) /\ IsLaidOut(Source) /\ Indexes(kept, Source)
<1>1. /\ TypeOK /\ OutInv /\ Lists(entries, Source, Len(Source)) /\ InTickerOrder(entries)
      /\ i \in 1 .. Len(entries) + 1 /\ StrictlySorted(kept)
      /\ \A m \in DOMAIN kept : \E a \in 1 .. i - 1 : kept[m] = entries[a] /\ LastIn(entries, a)
      /\ \A a \in 1 .. i - 1 : LastIn(entries, a) => \E m \in DOMAIN kept : kept[m] = entries[a]
  BY DEF BuildInv, DedupeInv
<1>2. entries \in Seq(Entry) /\ kept \in Seq(Entry) /\ job \in {"load", "compact"}
  BY <1>1, Types
<1>3. 1 .. i - 1 = DOMAIN entries
  <2>1. Len(entries) \in Nat /\ DOMAIN entries = 1 .. Len(entries)
    BY <1>2
  <2>2. i - 1 = Len(entries)
    BY <1>1, <2>1
  <2>3. QED  BY <2>1, <2>2
<1>4. IsLaidOut(Source)
  BY <1>1, <1>2, Types DEF OutInv, Source
<1>5. QED  BY <1>1, <1>2, <1>3, <1>4, LastOnesIndex

LEMMA LoadedKeeps ==
  ASSUME BuildInv, Loaded
  PROVE  BuildInv'
<1>1. /\ pc = "dedupe" /\ job = "load" /\ i > Len(entries) /\ pc' = "loaded" /\ index' = kept
      /\ UNCHANGED <<file, hasOld, job, i, offset, entries, kept, out, k, carried>>
  BY DEF Loaded
<1>2. TypeOK /\ PhaseOf /\ OldInv /\ OutInv /\ CarriedInv
  BY DEF BuildInv
<1>3. kept \in Seq(Entry) /\ Indexes(kept, file)
  BY <1>1, DedupeEnds DEF Source
<1>4. hasOld = TRUE /\ carried = <<>>
  BY <1>1, <1>2, Types DEF OldInv, CarriedInv
<1>5. TypeOK'
  <2>1. Len(carried) <= Len(kept)
    <3>1. Len(carried) = 0 /\ Len(kept) \in Nat
      BY <1>3, <1>4
    <3>2. QED  BY <3>1
  <2>2. QED  BY <1>1, <1>2, <1>3, <2>1 DEF TypeOK
<1>6. PhaseOf' /\ OldInv' /\ OutInv' /\ CarriedInv'
  BY <1>1, <1>2, <1>3, <1>4 DEF PhaseOf, OldInv, OutInv, CarriedInv
<1>7. ReadInv' /\ ListedInv' /\ DedupeInv' /\ MergeInv' /\ DoneInv'
  BY <1>1 DEF ReadInv, ListedInv, DedupeInv, MergeInv, DoneInv
<1>8. QED  BY <1>5, <1>6, <1>7 DEF BuildInv

-----------------------------------------------------------------------------
(* The crawl *)

\* A first crawl that is done has nothing to carry; a refresh begins to merge.
LEMMA CrawledKeeps ==
  ASSUME BuildInv, Crawled
  PROVE  BuildInv'
<1>1. /\ pc = "dedupe" /\ job = "compact" /\ i > Len(entries)
      /\ entries' = kept /\ i' = 1 /\ k' = 1
      /\ pc' = IF hasOld THEN "merge" ELSE IF kept = <<>> THEN "refused" ELSE "done"
      /\ UNCHANGED <<file, hasOld, job, offset, kept, index, out, carried>>
  BY DEF Crawled
<1>2. TypeOK /\ PhaseOf /\ OldInv /\ OutInv /\ CarriedInv
  BY DEF BuildInv
<1>3. kept \in Seq(Entry) /\ Indexes(kept, out)
  BY <1>1, DedupeEnds DEF Source
<1>4. carried = <<>> /\ Len(carried) = 0 /\ Len(index) \in Nat /\ Len(kept) \in Nat
  <2>1. carried = <<>>
    BY <1>1, <1>2 DEF CarriedInv
  <2>2. index \in Seq(Entry)
    BY <1>2, Types
  <2>3. QED  BY <1>3, <2>1, <2>2
<1>5. TypeOK'
  BY <1>1, <1>2, <1>3, <1>4 DEF TypeOK
<1>6. PhaseOf' /\ OldInv' /\ OutInv' /\ CarriedInv'
  BY <1>1, <1>2, <1>4 DEF PhaseOf, OldInv, OutInv, CarriedInv
<1>7. ASSUME pc' = "merge"
      PROVE  MergeInv'
  <2>1. hasOld'
    BY <1>1, <1>7
  <2>2. StrictlySorted(carried) /\ AllNewest(carried, out) /\ DOMAIN carried = {}
    BY <1>4 DEF StrictlySorted, AllNewest
  <2>3. TogetherInv'
    BY <1>1, <1>3, <2>2 DEF TogetherInv, Indexes
  <2>4. 1 .. i' - 1 = {} /\ 1 .. k' - 1 = {} /\ k' \in 1 .. Len(index) + 1
        /\ i' \in 1 .. Len(kept) + 1 /\ Len(carried) < k'
    BY <1>1, <1>4
  <2>5. QED  BY <1>1, <2>1, <2>2, <2>3, <2>4 DEF MergeInv
<1>8. ASSUME pc' = "done"
      PROVE  DoneInv'
  <2>1. DOMAIN index = {}
    BY <1>1, <1>2, <1>8 DEF OldInv
  <2>2. QED  BY <1>1, <1>3, <2>1 DEF DoneInv
<1>9. pc' # "merge" => MergeInv'
  BY DEF MergeInv
<1>10. pc' # "done" => DoneInv'
  BY DEF DoneInv
<1>11. ReadInv' /\ ListedInv' /\ DedupeInv'
  BY <1>1 DEF ReadInv, ListedInv, DedupeInv
<1>12. QED  BY <1>5, <1>6, <1>7, <1>8, <1>9, <1>10, <1>11 DEF BuildInv

\* The metadata line of a new file.
LEMMA FirstWritten ==
  ASSUME NEW l \in Line, NEW n \in Nat
  PROVE  \A f, g : f = <<>> /\ g = Written(f, l, n) =>
           /\ IsLaidOut(g) /\ \A j \in DOMAIN g : g[j].ended
           /\ Len(g) = 1 /\ g[1].line = l /\ EndOf(g) = n + 1
<1>1. \A f : f = <<>> =>
        IsLaidOut(f) /\ (\A j \in DOMAIN f : f[j].ended) /\ Len(f) = 0 /\ EndOf(f) = 0
  BY DEF IsLaidOut, EndOf
<1>2. ASSUME NEW f, IsLaidOut(f), \A j \in DOMAIN f : f[j].ended
      PROVE  LET g == Written(f, l, n)
             IN  /\ IsLaidOut(g) /\ \A j \in DOMAIN g : g[j].ended
                 /\ Len(g) = Len(f) + 1 /\ g[Len(f) + 1].line = l /\ EndOf(g) = EndOf(f) + n + 1
  <2> DEFINE x == [line |-> l, at |-> EndOf(f), len |-> n, ended |-> TRUE]
             g == Written(f, l, n)
  <2>1. /\ IsLaidOut(g) /\ \A j \in DOMAIN g : g[j].ended
        /\ Len(g) = Len(f) + 1 /\ Len(f) \in Nat /\ EndOf(f) \in Nat
        /\ \A j \in 1 .. Len(f) : g[j] = f[j]
        /\ g[Len(f) + 1] = [line |-> l, at |-> EndOf(f), len |-> n, ended |-> TRUE]
        /\ EndOf(g) = EndOf(f) + n + 1
    BY <1>2, WrittenOut
  <2>2. x.line = l
    OBVIOUS
  <2> HIDE DEF g
  <2>3. g[Len(f) + 1] = x
    BY <2>1
  <2> HIDE DEF x
  <2>4. QED  BY <2>1, <2>2, <2>3 DEF g
<1>3. ASSUME NEW f, f = <<>>, NEW g, g = Written(f, l, n)
      PROVE  /\ IsLaidOut(g) /\ \A j \in DOMAIN g : g[j].ended
             /\ Len(g) = 1 /\ g[1].line = l /\ EndOf(g) = n + 1
  <2>1. IsLaidOut(f) /\ (\A j \in DOMAIN f : f[j].ended) /\ Len(f) = 0 /\ EndOf(f) = 0
    BY <1>1, <1>3
  <2>2. /\ IsLaidOut(g) /\ \A j \in DOMAIN g : g[j].ended
        /\ Len(g) = Len(f) + 1 /\ g[Len(f) + 1].line = l /\ EndOf(g) = EndOf(f) + n + 1
    BY <1>2, <1>3, <2>1
  <2>3. Len(f) + 1 = 1 /\ EndOf(f) + n + 1 = n + 1
    BY <2>1
  <2>4. QED  BY <2>2, <2>3
<1>4. QED  BY <1>3

LEMMA BeginCompactionKeeps ==
  ASSUME BuildInv, BeginCompaction
  PROVE  BuildInv'
<1>1. /\ pc = "loaded" /\ pc' = "crawl" /\ job' = "compact"
      /\ entries' = <<>> /\ kept' = <<>>
      /\ out' = Written(<<>>, Meta(Now), MetaLen) /\ offset' = MetaLen + 1
      /\ UNCHANGED <<file, hasOld, i, index, k, carried>>
  BY DEF BeginCompaction
<1>2. TypeOK /\ PhaseOf /\ OldInv /\ CarriedInv
  BY DEF BuildInv
<1>3. Meta(Now) \in Line /\ Meta(Now).kind = "meta" /\ MetaLen \in Nat
  BY TimesAreNaturals, WidthsAreNaturals DEF Meta, Line
<1>4. /\ IsLaidOut(out') /\ \A j \in DOMAIN out' : out'[j].ended
      /\ Len(out') = 1 /\ out'[1].line = Meta(Now) /\ EndOf(out') = MetaLen + 1
  BY <1>1, <1>3, FirstWritten
<1>5. offset' = EndOf(out') /\ offset' \in Nat
  BY <1>1, <1>3, <1>4
<1>6. TypeOK'
  <2>1. <<>> \in Seq(Entry) /\ Len(<<>>) <= Len(<<>>) /\ out' \in Seq(Laid)
    BY <1>4 DEF IsLaidOut
  <2>2. QED  BY <1>1, <1>2, <1>5, <2>1 DEF TypeOK
<1>7. PhaseOf' /\ OldInv' /\ OutInv' /\ CarriedInv'
  BY <1>1, <1>2, <1>4, <1>5 DEF PhaseOf, OldInv, OutInv, CarriedInv
<1>8. ListedInv'
  <2>1. ~ IsRec(out'[1]) /\ \A j \in 1 .. 1 : j = 1
    BY <1>3, <1>4 DEF IsRec
  <2>2. Lists(<<>>, out', 1) /\ InFileOrder(<<>>)
    BY <2>1 DEF Lists, InFileOrder
  <2>3. Source' = out'
    BY <1>1 DEF Source
  <2>4. QED  BY <1>1, <1>4, <2>2, <2>3 DEF ListedInv
<1>9. ReadInv' /\ DedupeInv' /\ MergeInv' /\ DoneInv'
  BY <1>1 DEF ReadInv, DedupeInv, MergeInv, DoneInv
<1>10. QED  BY <1>6, <1>7, <1>8, <1>9 DEF BuildInv

LEMMA EndCrawlKeeps ==
  ASSUME BuildInv, EndCrawl
  PROVE  BuildInv'
<1>1. /\ pc = "crawl" /\ pc' = "sort"
      /\ UNCHANGED <<file, hasOld, job, i, offset, entries, kept, index, out, k, carried>>
  BY DEF EndCrawl
<1>2. TypeOK /\ PhaseOf /\ OldInv /\ OutInv /\ CarriedInv /\ ListedInv
  BY DEF BuildInv
<1>3. job = "compact"
  BY <1>1, <1>2, Types DEF PhaseOf
<1>4. TypeOK'
  BY <1>1, <1>2 DEF TypeOK
<1>5. PhaseOf' /\ OldInv' /\ OutInv' /\ CarriedInv' /\ ListedInv'
  BY <1>1, <1>2, <1>3 DEF PhaseOf, OldInv, OutInv, CarriedInv, ListedInv, Source
<1>6. ReadInv' /\ DedupeInv' /\ MergeInv' /\ DoneInv'
  BY <1>1 DEF ReadInv, DedupeInv, MergeInv, DoneInv
<1>7. QED  BY <1>4, <1>5, <1>6 DEF BuildInv

\* A record is written where the offset says it is.
LEMMA CrawlEventKeeps ==
  ASSUME BuildInv, NEW t \in Tickers, NEW e \in CrawlEnds, NEW n \in Widths, CrawlEvent(t, e, n)
  PROVE  BuildInv'
<1>1. /\ pc = "crawl" /\ out' = Written(out, Rec(t, e), n)
      /\ entries' = Append(entries, EntryAt(t, n)) /\ offset' = offset + n + 1
      /\ UNCHANGED <<file, hasOld, job, pc, i, kept, index, k, carried>>
  BY DEF CrawlEvent
<1>2. TypeOK /\ PhaseOf /\ OldInv /\ OutInv /\ CarriedInv /\ ListedInv
  BY DEF BuildInv
<1>3. job = "compact"
  BY <1>1, <1>2, Types DEF PhaseOf
<1>4. /\ IsLaidOut(out) /\ offset = EndOf(out) /\ \A j \in DOMAIN out : out[j].ended
      /\ Lists(entries, out, Len(out)) /\ InFileOrder(entries) /\ kept = <<>>
      /\ entries \in Seq(Entry) /\ offset \in Nat
  BY <1>1, <1>2, <1>3, Types DEF OutInv, ListedInv, Source
<1>5. n \in Nat /\ Rec(t, e) \in Line /\ Rec(t, e).kind = "rec" /\ Rec(t, e).ticker = t
  BY WidthsAreNaturals, CrawlEndsAreEnds DEF Rec, Line
<1> DEFINE g == Written(out, Rec(t, e), n)
           x == EntryAt(t, n)
<1>6. /\ IsLaidOut(g) /\ \A j \in DOMAIN g : g[j].ended
      /\ Len(g) = Len(out) + 1 /\ Len(out) \in Nat
      /\ \A j \in 1 .. Len(out) : g[j] = out[j]
      /\ g[Len(out) + 1] = [line |-> Rec(t, e), at |-> EndOf(out), len |-> n, ended |-> TRUE]
      /\ EndOf(g) = EndOf(out) + n + 1
  BY <1>4, <1>5, WrittenOut
<1>7. x \in Entry /\ x.ticker = t /\ x.offset = offset /\ x.len = n
  BY <1>4, <1>5, EntryHere
<1>8. out' = g /\ entries' = Append(entries, x)
  BY <1>1
<1> HIDE DEF g, x
<1>9. IsRec(g[Len(out) + 1]) /\ Tells(x, g[Len(out) + 1])
  BY <1>4, <1>5, <1>6, <1>7 DEF IsRec, Tells
<1>10. Lists(entries, g, Len(out))
  BY <1>4, <1>6, ListsAgree
<1>11. Len(out) + 1 \in DOMAIN g /\ g \in Seq(Laid)
  <2>1. g \in Seq(Laid)
    BY <1>6 DEF IsLaidOut
  <2>2. DOMAIN g = 1 .. Len(g)
    BY <2>1
  <2>3. QED  BY <1>6, <2>1, <2>2
<1>12. /\ entries' \in Seq(Entry) /\ Lists(entries', g, Len(out) + 1) /\ InFileOrder(entries')
  BY <1>4, <1>6, <1>7, <1>8, <1>9, <1>10, <1>11, ListsMore
<1>13. TypeOK'
  <2>1. Len(kept) = 0 /\ Len(entries') \in Nat /\ offset' \in Nat
    BY <1>1, <1>4, <1>5, <1>12
  <2>2. QED  BY <1>1, <1>2, <1>8, <1>11, <1>12, <2>1 DEF TypeOK
<1>14. OutInv'
  <2>1. offset' = EndOf(out')
    BY <1>1, <1>4, <1>6, <1>8
  <2>2. QED  BY <1>1, <1>3, <1>6, <1>8, <2>1 DEF OutInv
<1>15. PhaseOf' /\ OldInv' /\ CarriedInv'
  BY <1>1, <1>2, <1>3 DEF PhaseOf, OldInv, CarriedInv
<1>16. ListedInv'
  <2>1. Source' = g
    BY <1>1, <1>3, <1>8 DEF Source
  <2>2. QED  BY <1>1, <1>4, <1>6, <1>12, <2>1 DEF ListedInv
<1>17. ReadInv' /\ DedupeInv' /\ MergeInv' /\ DoneInv'
  BY <1>1 DEF ReadInv, DedupeInv, MergeInv, DoneInv
<1>18. QED  BY <1>13, <1>14, <1>15, <1>16, <1>17 DEF BuildInv

-----------------------------------------------------------------------------
(* merge_carry_forward *)

\* What a step of the merge leaves as it is.
LEMMA StillMerging ==
  ASSUME BuildInv, pc = "merge", UNCHANGED <<file, hasOld, job, pc, kept, index>>,
         TypeOK', OutInv', MergeInv'
  PROVE  BuildInv'
<1>1. PhaseOf /\ OldInv
  BY DEF BuildInv
<1>2. PhaseOf' /\ OldInv'
  BY <1>1 DEF PhaseOf, OldInv
<1>3. ReadInv' /\ ListedInv' /\ DedupeInv' /\ CarriedInv' /\ DoneInv'
  BY DEF ReadInv, ListedInv, DedupeInv, CarriedInv, DoneInv
<1>4. QED  BY <1>2, <1>3 DEF BuildInv

\* Where the merge is, with an old entry in hand.
LEMMA AtMerge ==
  ASSUME BuildInv, pc = "merge"
  PROVE  /\ TypeOK /\ hasOld /\ job = "compact" /\ TogetherInv /\ Indexes(index, file) /\ OutInv
         /\ k \in 1 .. Len(index) + 1 /\ Len(carried) < k /\ i \in 1 .. Len(entries) + 1
         /\ \A m \in DOMAIN index : m >= k =>
              /\ \A a \in 1 .. i - 1 : entries[a].ticker < index[m].ticker
              /\ \A c \in DOMAIN carried : carried[c].ticker < index[m].ticker
         /\ \A m \in 1 .. k - 1 : Passed(m)
         /\ Len(index) \in Nat /\ Len(carried) \in Nat /\ Len(entries) \in Nat
         /\ DOMAIN index = 1 .. Len(index) /\ DOMAIN entries = 1 .. Len(entries)
         /\ i \in Nat /\ k \in Nat
<1>1. TypeOK /\ PhaseOf /\ OldInv /\ OutInv /\ MergeInv
  BY DEF BuildInv
<1>2. job = "compact" /\ hasOld
  BY <1>1, Types DEF PhaseOf, MergeInv
<1>3. Indexes(index, file)
  BY <1>1, <1>2 DEF OldInv
<1>4. /\ Len(index) \in Nat /\ Len(carried) \in Nat /\ Len(entries) \in Nat
      /\ DOMAIN index = 1 .. Len(index) /\ DOMAIN entries = 1 .. Len(entries)
      /\ i \in Nat /\ k \in Nat
  BY <1>1, Types
<1>5. QED  BY <1>1, <1>2, <1>3, <1>4 DEF MergeInv

\* The old tickers ahead are greater.
LEMMA OldAhead ==
  ASSUME BuildInv, AtOld
  PROVE  /\ k \in DOMAIN index /\ index[k].ticker \in Nat
         /\ \A m \in DOMAIN index : m \in Nat /\ index[m].ticker \in Nat
         /\ \A m \in DOMAIN index : m > k => index[k].ticker < index[m].ticker
<1>1. pc = "merge" /\ k <= Len(index)
  BY DEF AtOld
<1>2. k \in DOMAIN index
  BY <1>1, AtMerge
<1>3. StrictlySorted(index) /\ index \in Seq(Entry)
  BY <1>1, AtMerge, Types DEF Indexes
<1>4. \A m \in DOMAIN index : m \in Nat /\ index[m].ticker \in Nat
  <2> TAKE m \in DOMAIN index
  <2>1. m \in 1 .. Len(index) /\ index[m].ticker \in Nat
    BY <1>3, EntryFields
  <2>2. QED  BY <2>1
<1>5. \A m \in DOMAIN index : m > k => index[k].ticker < index[m].ticker
  <2> TAKE m \in DOMAIN index
  <2> HAVE m > k
  <2>1. k < m
    BY <1>2, <1>4
  <2>2. QED  BY <1>2, <1>3, <2>1 DEF StrictlySorted
<1>6. QED  BY <1>2, <1>4, <1>5

LEMMA AdvanceNewKeeps ==
  ASSUME BuildInv, AdvanceNew
  PROVE  BuildInv'
<1>1. /\ pc = "merge" /\ AtOld /\ i <= Len(entries) /\ entries[i].ticker < index[k].ticker
      /\ i' = i + 1
      /\ UNCHANGED <<file, hasOld, job, pc, offset, entries, kept, index, out, k, carried>>
  BY DEF AdvanceNew, AtOld, Behind
<1>2. /\ TypeOK /\ hasOld /\ TogetherInv /\ OutInv
      /\ k \in 1 .. Len(index) + 1 /\ Len(carried) < k /\ i \in 1 .. Len(entries) + 1
      /\ \A m \in DOMAIN index : m >= k =>
           /\ \A a \in 1 .. i - 1 : entries[a].ticker < index[m].ticker
           /\ \A c \in DOMAIN carried : carried[c].ticker < index[m].ticker
      /\ \A m \in 1 .. k - 1 : Passed(m)
      /\ i \in Nat /\ k \in Nat /\ Len(entries) \in Nat
  BY <1>1, AtMerge
<1>3. TypeOK' /\ OutInv'
  BY <1>1, <1>2 DEF TypeOK, OutInv
<1>4. i \in DOMAIN entries /\ entries[i].ticker \in Nat
  <2>1. entries \in Seq(Entry)
    BY <1>2, Types
  <2>2. i \in DOMAIN entries
    BY <1>1, <1>2, <2>1
  <2>3. QED  BY <2>1, <2>2, EntryFields
<1>5. ASSUME NEW m \in DOMAIN index, m >= k
      PROVE  \A a \in 1 .. i' - 1 : entries[a].ticker < index[m].ticker
  <2>1. entries[i].ticker < index[m].ticker
    <3>1. CASE m = k
      BY <1>1, <3>1
    <3>2. CASE m # k
      <4>1. /\ index[k].ticker < index[m].ticker
            /\ index[k].ticker \in Nat /\ index[m].ticker \in Nat
        <5>1. m \in Nat
          BY <1>1, OldAhead
        <5>2. m > k
          BY <1>2, <1>5, <3>2, <5>1
        <5>3. QED  BY <1>1, <5>2, OldAhead
      <4>2. QED  BY <1>1, <1>4, <4>1
    <3>3. QED  BY <3>1, <3>2
  <2>2. \A a \in 1 .. i' - 1 : a \in 1 .. i - 1 \/ a = i
    BY <1>1, <1>2
  <2>3. QED  BY <1>2, <1>5, <2>1, <2>2
<1>6. i' \in 1 .. Len(entries) + 1
  BY <1>1, <1>2
<1>7. TogetherInv' /\ \A m : Passed(m)' <=> Passed(m)
  BY <1>1, <1>2 DEF TogetherInv, Passed, HeldAt
<1>8. MergeInv'
  BY <1>1, <1>2, <1>5, <1>6, <1>7 DEF MergeInv
<1>9. QED  BY <1>1, <1>3, <1>8, StillMerging

\* The old entry in hand is passed and only k moves.
LEMMA OldPassedKeeps ==
  ASSUME BuildInv, AtOld, Passed(k), k' = k + 1,
         UNCHANGED <<file, hasOld, job, pc, i, offset, entries, kept, index, out, carried>>
  PROVE  BuildInv'
<1>1. pc = "merge" /\ k <= Len(index)
  BY DEF AtOld
<1>2. /\ TypeOK /\ hasOld /\ TogetherInv /\ OutInv
      /\ k \in 1 .. Len(index) + 1 /\ Len(carried) < k /\ i \in 1 .. Len(entries) + 1
      /\ \A m \in DOMAIN index : m >= k =>
           /\ \A a \in 1 .. i - 1 : entries[a].ticker < index[m].ticker
           /\ \A c \in DOMAIN carried : carried[c].ticker < index[m].ticker
      /\ \A m \in 1 .. k - 1 : Passed(m)
      /\ k \in Nat /\ Len(index) \in Nat /\ Len(carried) \in Nat
  BY <1>1, AtMerge
<1>3. TypeOK' /\ OutInv'
  BY <1>2 DEF TypeOK, OutInv
<1>4. k' \in 1 .. Len(index) + 1 /\ Len(carried) < k'
  BY <1>1, <1>2
<1>5. TogetherInv' /\ \A m : Passed(m)' <=> Passed(m)
  BY <1>2 DEF TogetherInv, Passed, HeldAt
<1>6. \A m \in 1 .. k' - 1 : m \in 1 .. k - 1 \/ m = k
  BY <1>2
<1>7. \A m \in DOMAIN index : m >= k' => m >= k
  <2>1. \A m \in DOMAIN index : m \in Nat
    BY OldAhead
  <2>2. QED  BY <1>2, <2>1
<1>8. MergeInv'
  BY <1>1, <1>2, <1>4, <1>5, <1>6, <1>7 DEF MergeInv
<1>9. QED  BY <1>1, <1>3, <1>8, StillMerging

LEMMA VisitPresentKeeps ==
  ASSUME BuildInv, VisitPresent
  PROVE  BuildInv'
<1>1. /\ AtOld /\ i <= Len(entries) /\ entries[i].ticker = index[k].ticker /\ k' = k + 1
      /\ UNCHANGED <<file, hasOld, job, pc, i, offset, entries, kept, index, out, carried>>
  BY DEF VisitPresent, AlreadyPresent
<1>2. i \in DOMAIN entries
  BY <1>1, AtMerge DEF AtOld
<1>3. Passed(k)
  BY <1>1, <1>2 DEF Passed, Has
<1>4. QED  BY <1>1, <1>3, OldPassedKeeps

LEMMA DropOldKeeps ==
  ASSUME BuildInv, DropOld
  PROVE  BuildInv'
<1>1. /\ AtOld /\ Dropped(ReadAt(file, index[k])) /\ k' = k + 1
      /\ UNCHANGED <<file, hasOld, job, pc, i, offset, entries, kept, index, out, carried>>
  BY DEF DropOld
<1>2. Passed(k)
  BY <1>1 DEF Passed
<1>3. QED  BY <1>1, <1>2, OldPassedKeeps

\* A record of another ticker behind the lines of f.
LEMMA NewestStays ==
  ASSUME NEW f \in Seq(Laid), NEW g \in Seq(Laid), Len(g) = Len(f) + 1,
         \A j \in 1 .. Len(f) : g[j] = f[j],
         NEW s, AllNewest(s, f), ~ Has(s, g[Len(g)].line.ticker)
  PROVE  AllNewest(s, g)
<1>1. /\ DOMAIN f = 1 .. Len(f) /\ DOMAIN g = 1 .. Len(f) + 1 /\ Len(f) \in Nat
      /\ \A j \in DOMAIN g : j \in DOMAIN f \/ j = Len(g)
      /\ \A j \in DOMAIN f : j \in DOMAIN g
  OBVIOUS
<1>2. SUFFICES ASSUME NEW a \in DOMAIN s  PROVE Newest(s[a], g)
  BY DEF AllNewest
<1>3. PICK j \in DOMAIN f :
        /\ IsRec(f[j]) /\ Tells(s[a], f[j])
        /\ \A n \in DOMAIN f : IsRec(f[n]) /\ f[n].line.ticker = s[a].ticker => n <= j
  BY DEF AllNewest, Newest
<1>4. g[Len(g)].line.ticker # s[a].ticker
  BY DEF Has
<1>5. j \in DOMAIN g /\ g[j] = f[j]
  BY <1>1
<1>6. \A n \in DOMAIN g : IsRec(g[n]) /\ g[n].line.ticker = s[a].ticker => n <= j
  BY <1>1, <1>3, <1>4
<1>7. QED  BY <1>3, <1>5, <1>6 DEF Newest

\* The old entry in hand tells a record of its ticker, which the crawl has not.
LEMMA OldInHand ==
  ASSUME BuildInv, AtOld, ~ Behind, ~ AlreadyPresent
  PROVE  /\ ReadAt(file, index[k]) \in Line /\ ReadAt(file, index[k]).kind = "rec"
         /\ ReadAt(file, index[k]).ticker = index[k].ticker
         /\ ~ Has(entries, index[k].ticker)
<1>1. pc = "merge" /\ k <= Len(index)
  BY DEF AtOld
<1>2. /\ TypeOK /\ TogetherInv /\ Indexes(index, file) /\ Len(entries) \in Nat
      /\ i \in Nat /\ i \in 1 .. Len(entries) + 1
      /\ \A m \in DOMAIN index : m >= k =>
           \A a \in 1 .. i - 1 : entries[a].ticker < index[m].ticker
      /\ DOMAIN entries = 1 .. Len(entries) /\ k \in Nat
  BY <1>1, AtMerge
<1>3. k \in DOMAIN index /\ index[k].ticker \in Nat
  BY OldAhead
<1>4. PICK j \in DOMAIN file : IsRec(file[j]) /\ Tells(index[k], file[j])
  BY <1>2, <1>3 DEF Indexes, AllNewest, Newest
<1>5. ReadAt(file, index[k]) = file[j].line
  BY <1>2, <1>4, Types, ReadAtLine DEF Tells
<1>6. file[j].line \in Line
  BY <1>2, Types, LaidLine
<1>7. ASSUME NEW a \in DOMAIN entries, entries[a].ticker = index[k].ticker
      PROVE  FALSE
  <2>1. entries[a].ticker \in Nat /\ a \in 1 .. Len(entries)
    BY <1>2, Types, EntryFields
  <2>2. CASE a < i
    <3>1. a \in 1 .. i - 1
      BY <1>2, <2>1, <2>2
    <3>2. entries[a].ticker < index[k].ticker
      BY <1>2, <1>3, <3>1
    <3>3. QED  BY <1>3, <1>7, <3>2
  <2>3. CASE ~ (a < i)
    <3>1. i \in DOMAIN entries /\ i <= Len(entries) /\ (i = a \/ i < a)
      BY <1>2, <2>1, <2>3
    <3>2. entries[i].ticker \in Nat
      BY <1>2, <3>1, Types, EntryFields
    <3>3. ~ (entries[i].ticker < index[k].ticker) /\ entries[i].ticker # index[k].ticker
      BY <3>1 DEF Behind, AlreadyPresent
    <3>4. i < a => entries[i].ticker < entries[a].ticker
      BY <1>2, <3>1 DEF TogetherInv, StrictlySorted
    <3>5. QED  BY <1>3, <1>7, <2>1, <3>1, <3>2, <3>3, <3>4
  <2>4. QED  BY <2>2, <2>3
<1>8. QED  BY <1>4, <1>5, <1>6, <1>7 DEF Has, IsRec, Tells

\* s with an entry more, of a greater ticker.
LEMMA SortedMore ==
  ASSUME NEW s \in Seq(Entry), NEW e \in Entry, StrictlySorted(s),
         \A a \in DOMAIN s : s[a].ticker < e.ticker
  PROVE  /\ Append(s, e) \in Seq(Entry) /\ StrictlySorted(Append(s, e))
         /\ Len(Append(s, e)) = Len(s) + 1 /\ Append(s, e)[Len(s) + 1] = e
         /\ Len(s) \in Nat /\ Len(s) + 1 \in DOMAIN Append(s, e)
         /\ \A a \in DOMAIN s : a \in DOMAIN Append(s, e) /\ Append(s, e)[a] = s[a]
         /\ \A a \in DOMAIN Append(s, e) : a \in DOMAIN s \/ a = Len(s) + 1
<1> DEFINE r == Append(s, e)
<1>1. /\ r \in Seq(Entry) /\ Len(r) = Len(s) + 1 /\ r[Len(s) + 1] = e /\ Len(s) \in Nat
      /\ \A a \in 1 .. Len(s) : r[a] = s[a]
      /\ DOMAIN s = 1 .. Len(s) /\ DOMAIN r = 1 .. Len(s) + 1
  BY AppendProperties
<1> HIDE DEF r
<1>2. /\ Len(s) + 1 \in DOMAIN r /\ \A a \in DOMAIN s : a \in DOMAIN r /\ r[a] = s[a]
      /\ \A a \in DOMAIN r : a \in DOMAIN s \/ a = Len(s) + 1
      /\ \A a \in DOMAIN r : a \in 1 .. Len(s) + 1
  BY <1>1
<1>3. ASSUME NEW a \in DOMAIN r, NEW b \in DOMAIN r, a < b
      PROVE  r[a].ticker < r[b].ticker
  <2>1. a # Len(s) + 1
    BY <1>1, <1>2, <1>3
  <2>2. a \in DOMAIN s /\ r[a] = s[a]
    BY <1>2, <2>1
  <2>3. CASE b = Len(s) + 1
    BY <1>1, <2>2, <2>3
  <2>4. CASE b \in DOMAIN s
    BY <1>2, <1>3, <2>2, <2>4 DEF StrictlySorted
  <2>5. QED  BY <1>2, <2>3, <2>4
<1>4. QED  BY <1>1, <1>2, <1>3 DEF StrictlySorted, r

\* The record that is carried lies behind all others, and hides none of them.
LEMMA CarryKeeps ==
  ASSUME BuildInv, Carry
  PROVE  BuildInv'
<1> DEFINE l == ReadAt(file, index[k])
           n == index[k].len
           e == EntryAt(index[k].ticker, n)
           g == Written(out, l, n)
           x == [line |-> l, at |-> EndOf(out), len |-> n, ended |-> TRUE]
<1>1. /\ AtOld /\ ~ Behind /\ ~ AlreadyPresent
      /\ out' = g /\ carried' = Append(carried, e) /\ offset' = offset + n + 1 /\ k' = k + 1
      /\ UNCHANGED <<file, hasOld, job, pc, i, entries, kept, index>>
  BY DEF Carry
<1>2. pc = "merge" /\ k <= Len(index)
  BY <1>1 DEF AtOld
<1>3. /\ TypeOK /\ hasOld /\ job = "compact" /\ TogetherInv /\ OutInv
      /\ k \in 1 .. Len(index) + 1 /\ Len(carried) < k /\ i \in 1 .. Len(entries) + 1
      /\ \A m \in DOMAIN index : m >= k =>
           /\ \A a \in 1 .. i - 1 : entries[a].ticker < index[m].ticker
           /\ \A c \in DOMAIN carried : carried[c].ticker < index[m].ticker
      /\ \A m \in 1 .. k - 1 : Passed(m)
      /\ k \in Nat /\ Len(index) \in Nat /\ Len(carried) \in Nat
  BY <1>2, AtMerge
<1>4. /\ IsLaidOut(out) /\ offset = EndOf(out) /\ \A j \in DOMAIN out : out[j].ended
      /\ carried \in Seq(Entry) /\ index \in Seq(Entry) /\ offset \in Nat
      /\ out \in Seq(Laid) /\ DOMAIN out = 1 .. Len(out)
  BY <1>3, Types DEF OutInv
<1>5. /\ k \in DOMAIN index /\ index[k].ticker \in Tickers /\ n \in Nat
      /\ \A m \in DOMAIN index : m > k => index[k].ticker < index[m].ticker
      /\ \A m \in DOMAIN index : m \in Nat
  BY <1>1, <1>4, OldAhead, EntryFields
<1>6. l \in Line /\ l.kind = "rec" /\ l.ticker = index[k].ticker /\ ~ Has(entries, index[k].ticker)
  BY <1>1, OldInHand
<1>7. e \in Entry /\ e.ticker = index[k].ticker /\ e.offset = offset /\ e.len = n
  BY <1>4, <1>5, EntryHere
<1>8. x.line = l /\ x.at = offset /\ x.len = n /\ x.ended
  BY <1>4
<1> HIDE DEF l, n, e
<1>9. /\ IsLaidOut(g) /\ \A j \in DOMAIN g : g[j].ended
      /\ Len(g) = Len(out) + 1 /\ Len(out) \in Nat /\ EndOf(out) \in Nat
      /\ \A j \in 1 .. Len(out) : g[j] = out[j]
      /\ g[Len(out) + 1] = [line |-> l, at |-> EndOf(out), len |-> n, ended |-> TRUE]
      /\ EndOf(g) = EndOf(out) + n + 1
  <2>1. IsLaidOut(out) /\ (\A j \in DOMAIN out : out[j].ended) /\ l \in Line /\ n \in Nat
    BY <1>4, <1>5, <1>6
  <2>2. QED  BY <2>1, WrittenOut
<1>10. g[Len(out) + 1] = x
  BY <1>9
<1> HIDE DEF g, x
<1>11. /\ g \in Seq(Laid) /\ Len(g) \in DOMAIN g /\ g[Len(g)] = x
       /\ \A j \in DOMAIN out : j \in DOMAIN g /\ g[j] = out[j] /\ j <= Len(g)
       /\ \A j \in DOMAIN g : j \in DOMAIN out \/ j = Len(g)
       /\ \A j \in DOMAIN g : j <= Len(g)
  <2>1. g \in Seq(Laid)
    BY <1>9 DEF IsLaidOut
  <2>2. DOMAIN g = 1 .. Len(out) + 1
    BY <1>9, <2>1
  <2>3. QED  BY <1>4, <1>9, <1>10, <2>1, <2>2
<1> DEFINE r == carried'
<1>12. /\ r \in Seq(Entry) /\ StrictlySorted(r) /\ Len(r) = Len(carried) + 1
       /\ r[Len(carried) + 1] = e /\ Len(carried) + 1 \in DOMAIN r
       /\ \A c \in DOMAIN carried : c \in DOMAIN r /\ r[c] = carried[c]
       /\ \A c \in DOMAIN r : c \in DOMAIN carried \/ c = Len(carried) + 1
  <2>1. StrictlySorted(carried)
    BY <1>3 DEF TogetherInv
  <2>2. \A c \in DOMAIN carried : carried[c].ticker < e.ticker
    <3>1. k >= k
      BY <1>3
    <3>2. QED  BY <1>3, <1>5, <1>7, <3>1
  <2>3. r = Append(carried, e)
    BY <1>1
  <2> HIDE DEF r
  <2>4. QED  BY <1>4, <1>7, <2>1, <2>2, <2>3, SortedMore
<1>13. r = carried'
  OBVIOUS
<1> HIDE DEF r
<1>14. IsRec(x) /\ Tells(e, x) /\ x.line.ticker = e.ticker
  BY <1>6, <1>7, <1>8 DEF IsRec, Tells
<1>15. AllNewest(entries, g)
  <2>1. AllNewest(entries, out) /\ ~ Has(entries, g[Len(g)].line.ticker)
    BY <1>3, <1>6, <1>7, <1>11, <1>14 DEF TogetherInv
  <2>2. QED  BY <1>4, <1>9, <1>11, <2>1, NewestStays
<1>16. AllNewest(r, g)
  <2>1. AllNewest(carried, out)
    BY <1>3 DEF TogetherInv
  <2>2. ~ Has(carried, g[Len(g)].line.ticker)
    <3>1. \A c \in DOMAIN carried : carried[c].ticker < index[k].ticker
      <4>1. k >= k
        BY <1>3
      <4>2. QED  BY <1>3, <1>5, <4>1
    <3>2. index[k].ticker \in Nat /\ \A c \in DOMAIN carried : carried[c].ticker \in Nat
      BY <1>4, <1>5, EntryFields
    <3>3. \A c \in DOMAIN carried : carried[c].ticker # index[k].ticker
      BY <3>1, <3>2
    <3>4. QED  BY <1>7, <1>11, <1>14, <3>3 DEF Has
  <2>3. AllNewest(carried, g)
    BY <1>4, <1>9, <1>11, <2>1, <2>2, NewestStays
  <2>4. Newest(e, g)
    BY <1>11, <1>14 DEF Newest
  <2>5. QED  BY <1>12, <2>3, <2>4 DEF AllNewest
<1>17. TogetherInv'
  <2>1. \A c \in DOMAIN r : ~ Has(entries, r[c].ticker)
    BY <1>3, <1>6, <1>7, <1>12 DEF TogetherInv
  <2>2. ASSUME NEW j \in DOMAIN g, IsRec(g[j])
        PROVE  Has(entries, g[j].line.ticker) \/ Has(r, g[j].line.ticker)
    <3>1. CASE j = Len(g)
      <4>1. Has(r, e.ticker)
        BY <1>12 DEF Has
      <4>2. QED  BY <1>11, <1>14, <3>1, <4>1
    <3>2. CASE j \in DOMAIN out
      <4>1. Has(entries, g[j].line.ticker) \/ Has(carried, g[j].line.ticker)
        BY <1>3, <1>11, <2>2, <3>2 DEF TogetherInv
      <4>2. QED  BY <1>12, <4>1 DEF Has
    <3>3. QED  BY <1>11, <3>1, <3>2
  <2>3. StrictlySorted(entries)
    BY <1>3 DEF TogetherInv
  <2>4. QED  BY <1>1, <1>12, <1>13, <1>15, <1>16, <2>1, <2>2, <2>3 DEF TogetherInv
<1>18. ASSUME NEW m \in 1 .. k' - 1
       PROVE  Passed(m)'
  <2>1. \A y, z : HeldAt(y, z) => HeldAt(y, z)'
    BY <1>1, <1>11 DEF HeldAt
  <2>2. CASE m \in 1 .. k - 1
    <3>1. Passed(m)
      BY <1>3, <2>2
    <3>2. QED  BY <1>1, <1>12, <1>13, <2>1, <3>1 DEF Passed, Has
  <2>3. CASE m = k
    <3>1. \E j \in DOMAIN out' : out'[j].at = e.offset /\ out'[j].len = e.len /\ out'[j].line = l
      BY <1>1, <1>7, <1>8, <1>11
    <3>2. l = ReadAt(file, index[k])
      BY DEF l
    <3>3. \E c \in DOMAIN r : r[c] = e
      BY <1>12
    <3>4. \E c \in DOMAIN carried' :
            /\ carried'[c].ticker = index[k].ticker
            /\ \E j \in DOMAIN out' :
                 /\ out'[j].at = carried'[c].offset
                 /\ out'[j].len = carried'[c].len
                 /\ out'[j].line = l
      BY <1>7, <1>13, <3>1, <3>3
    <3>5. ReadAt(file', index'[m]) = l /\ index'[m].ticker = index[k].ticker
      BY <1>1, <2>3, <3>2
    <3>6. QED  BY <3>4, <3>5 DEF Passed, HeldAt
  <2>4. m \in 1 .. k - 1 \/ m = k
    BY <1>1, <1>3
  <2>5. QED  BY <2>2, <2>3, <2>4
<1>19. MergeInv'
  <2>1. k' \in 1 .. Len(index) + 1 /\ Len(r) < k'
    BY <1>1, <1>2, <1>3, <1>12
  <2>2. ASSUME NEW m \in DOMAIN index, m >= k'
        PROVE  /\ \A a \in 1 .. i - 1 : entries[a].ticker < index[m].ticker
               /\ \A c \in DOMAIN r : r[c].ticker < index[m].ticker
    <3>1. m > k /\ m >= k
      BY <1>1, <1>3, <1>5, <2>2
    <3>2. QED  BY <1>3, <1>5, <1>7, <1>12, <3>1
  <2>3. QED  BY <1>1, <1>3, <1>13, <1>17, <1>18, <2>1, <2>2 DEF MergeInv
<1>20. OutInv'
  <2>1. offset' = EndOf(out')
    BY <1>1, <1>4, <1>9
  <2>2. QED  BY <1>1, <1>3, <1>9, <2>1 DEF OutInv
<1>21. TypeOK'
  <2>1. Len(r) <= Len(index) /\ offset' \in Nat /\ k' \in Nat
    <3>1. Len(r) <= Len(index)
      BY <1>2, <1>3, <1>12
    <3>2. offset' \in Nat
      BY <1>1, <1>4, <1>5
    <3>3. k' \in Nat
      BY <1>1, <1>3
    <3>4. QED  BY <3>1, <3>2, <3>3
  <2>2. QED  BY <1>1, <1>3, <1>11, <1>12, <1>13, <2>1 DEF TypeOK
<1>22. QED  BY <1>1, <1>2, <1>19, <1>20, <1>21, StillMerging

LEMMA DistinctOnes ==
  ASSUME NEW s, NEW n \in Nat, DOMAIN s = 1 .. n, StrictlySorted(s),
         \A a \in DOMAIN s : s[a].ticker \in Nat
  PROVE  Distinct(s)
<1>1. SUFFICES ASSUME NEW a \in DOMAIN s, NEW b \in DOMAIN s, a # b
               PROVE  s[a].ticker # s[b].ticker
  BY DEF Distinct
<1>2. a < b \/ b < a
  BY <1>1
<1>3. a < b => s[a].ticker < s[b].ticker
  BY DEF StrictlySorted
<1>4. b < a => s[b].ticker < s[a].ticker
  BY DEF StrictlySorted
<1>5. s[a].ticker \in Nat /\ s[b].ticker \in Nat
  OBVIOUS
<1>6. QED  BY <1>2, <1>3, <1>4, <1>5

\* The crawl's entries and the carried ones, which have no ticker in common.
LEMMA EndMergeKeeps ==
  ASSUME BuildInv, EndMerge
  PROVE  BuildInv'
<1> DEFINE s == entries \o carried
           r == entries'
<1>1. /\ pc = "merge" /\ k > Len(index) /\ pc' = "done" /\ IsSortOf(r, s)
      /\ UNCHANGED <<file, hasOld, job, i, offset, kept, index, out, k, carried>>
  BY DEF EndMerge
<1>2. /\ TypeOK /\ hasOld /\ job = "compact" /\ TogetherInv /\ OutInv
      /\ k \in 1 .. Len(index) + 1 /\ \A m \in 1 .. k - 1 : Passed(m)
      /\ k \in Nat /\ Len(index) \in Nat /\ Len(carried) \in Nat /\ Len(entries) \in Nat
      /\ DOMAIN index = 1 .. Len(index) /\ DOMAIN entries = 1 .. Len(entries)
  BY <1>1, AtMerge
<1>3. /\ entries \in Seq(Entry) /\ carried \in Seq(Entry) /\ DOMAIN carried = 1 .. Len(carried)
  BY <1>2, Types
<1>4. /\ s \in Seq(Entry) /\ Len(s) = Len(entries) + Len(carried)
      /\ \A a \in 1 .. Len(s) : s[a] = IF a <= Len(entries) THEN entries[a]
                                                           ELSE carried[a - Len(entries)]
  BY <1>3, ConcatProperties
<1> HIDE DEF s, r
<1>5. DOMAIN s = 1 .. Len(entries) + Len(carried)
  BY <1>4
<1>6. ASSUME NEW a \in DOMAIN s
      PROVE  \/ a \in DOMAIN entries /\ s[a] = entries[a]
             \/ /\ a - Len(entries) \in DOMAIN carried /\ s[a] = carried[a - Len(entries)]
                /\ a > Len(entries)
  <2>1. a \in 1 .. Len(s) /\ Len(entries) \in Nat /\ Len(carried) \in Nat
    BY <1>2, <1>4, <1>5
  <2>2. CASE a <= Len(entries)
    <3>1. a \in DOMAIN entries
      BY <1>2, <2>1, <2>2
    <3>2. QED  BY <1>4, <2>1, <2>2, <3>1
  <2>3. CASE ~ (a <= Len(entries))
    <3>1. a - Len(entries) \in DOMAIN carried /\ a > Len(entries)
      BY <1>3, <1>4, <2>1, <2>3
    <3>2. QED  BY <1>4, <2>1, <2>3, <3>1
  <2>4. QED  BY <2>2, <2>3
<1>7. \A a \in DOMAIN entries : \E b \in DOMAIN s : s[b] = entries[a]
  <2> TAKE a \in DOMAIN entries
  <2>1. a \in 1 .. Len(s) /\ a \in DOMAIN s /\ a <= Len(entries)
    BY <1>2, <1>4, <1>5
  <2>2. QED  BY <1>4, <2>1
<1>8. \A c \in DOMAIN carried : \E b \in DOMAIN s : s[b] = carried[c]
  <2> TAKE c \in DOMAIN carried
  <2> DEFINE b == Len(entries) + c
  <2>1. /\ b \in 1 .. Len(s) /\ b \in DOMAIN s /\ ~ (b <= Len(entries))
        /\ b - Len(entries) = c
    BY <1>2, <1>3, <1>4, <1>5
  <2> HIDE DEF b
  <2>2. QED  BY <1>4, <2>1
<1>9. /\ \A a \in DOMAIN entries : entries[a].ticker \in Nat
      /\ \A c \in DOMAIN carried : carried[c].ticker \in Nat
  BY <1>3, EntryFields
<1>10. Distinct(s)
  <2>1. \A a, b \in DOMAIN entries : a # b => entries[a].ticker # entries[b].ticker
    <3>1. StrictlySorted(entries)
      BY <1>2 DEF TogetherInv
    <3>2. QED  BY <1>2, <1>9, <3>1, DistinctOnes DEF Distinct
  <2>2. \A a, b \in DOMAIN carried : a # b => carried[a].ticker # carried[b].ticker
    <3>1. StrictlySorted(carried)
      BY <1>2 DEF TogetherInv
    <3>2. QED  BY <1>2, <1>3, <1>9, <3>1, DistinctOnes DEF Distinct
  <2>3. \A a \in DOMAIN entries, c \in DOMAIN carried : entries[a].ticker # carried[c].ticker
    BY <1>2 DEF TogetherInv, Has
  <2>4. ASSUME NEW a \in DOMAIN s, NEW b \in DOMAIN s, a # b,
               a - Len(entries) \in DOMAIN carried, b - Len(entries) \in DOMAIN carried
        PROVE  carried[a - Len(entries)].ticker # carried[b - Len(entries)].ticker
    <3>1. a - Len(entries) # b - Len(entries)
      BY <1>2, <1>5, <2>4
    <3>2. QED  BY <2>2, <2>4, <3>1
  <2>5. QED  BY <1>6, <2>1, <2>3, <2>4 DEF Distinct
<1>11. /\ r \in Seq(Entry) /\ DOMAIN r = DOMAIN s /\ StrictlySorted(r)
       /\ \A a \in DOMAIN r : \E b \in DOMAIN s : r[a] = s[b]
       /\ \A b \in DOMAIN s : \E a \in DOMAIN r : r[a] = s[b]
  <2>1. s \in Seq(Entry) /\ IsSortOf(r, s) /\ Distinct(s)
    BY <1>1, <1>4, <1>10
  <2>2. r \in Seq(Entry) /\ DOMAIN r = DOMAIN s
    BY <2>1, Sorted
  <2>3. StrictlySorted(r)
    BY <2>1, Sorted
  <2>4. \A a \in DOMAIN r : \E b \in DOMAIN s : r[a] = s[b]
    BY <2>1, Sorted
  <2>5. \A b \in DOMAIN s : \E a \in DOMAIN r : r[a] = s[b]
    BY <2>1, Sorted
  <2>6. QED  BY <2>2, <2>3, <2>4, <2>5
<1>12. r = entries'
  BY DEF r
<1>13. /\ \A a \in DOMAIN r : \/ \E b \in DOMAIN entries : r[a] = entries[b]
                              \/ \E c \in DOMAIN carried : r[a] = carried[c]
       /\ \A b \in DOMAIN entries : \E a \in DOMAIN r : r[a] = entries[b]
       /\ \A c \in DOMAIN carried : \E a \in DOMAIN r : r[a] = carried[c]
  <2>1. ASSUME NEW a \in DOMAIN r
        PROVE  \/ \E b \in DOMAIN entries : r[a] = entries[b]
               \/ \E c \in DOMAIN carried : r[a] = carried[c]
    <3>1. PICK b \in DOMAIN s : r[a] = s[b]
      BY <1>11
    <3>2. QED  BY <1>6, <3>1
  <2>2. ASSUME NEW b \in DOMAIN entries
        PROVE  \E a \in DOMAIN r : r[a] = entries[b]
    <3>1. PICK c \in DOMAIN s : s[c] = entries[b]
      BY <1>7
    <3>2. QED  BY <1>11, <3>1
  <2>3. ASSUME NEW c \in DOMAIN carried
        PROVE  \E a \in DOMAIN r : r[a] = carried[c]
    <3>1. PICK b \in DOMAIN s : s[b] = carried[c]
      BY <1>8
    <3>2. QED  BY <1>11, <3>1
  <2>4. QED  BY <2>1, <2>2, <2>3
<1>14. Indexes(r, out)
  <2>1. AllNewest(r, out)
    BY <1>2, <1>13 DEF TogetherInv, AllNewest
  <2>2. \A j \in DOMAIN out : IsRec(out[j]) => Has(r, out[j].line.ticker)
    BY <1>2, <1>13 DEF TogetherInv, Has
  <2>3. QED  BY <1>11, <2>1, <2>2 DEF Indexes
<1>15. ASSUME NEW m \in DOMAIN index, ~ Dropped(ReadAt(file, index[m]))
       PROVE  \E n \in DOMAIN r :
                /\ r[n].ticker = index[m].ticker
                /\ (\E c \in DOMAIN carried : carried[c] = r[n]) =>
                     HeldAt(r[n], ReadAt(file, index[m]))
  <2>1. Passed(m)
    <3>1. m \in 1 .. k - 1
      BY <1>1, <1>2
    <3>2. QED  BY <1>2, <3>1
  <2>2. CASE Has(entries, index[m].ticker)
    <3>1. PICK a \in DOMAIN entries : entries[a].ticker = index[m].ticker
      BY <2>2 DEF Has
    <3>2. PICK n \in DOMAIN r : r[n] = entries[a]
      BY <1>13
    <3>3. ~ \E c \in DOMAIN carried : carried[c] = r[n]
      BY <1>2, <3>2 DEF TogetherInv, Has
    <3>4. QED  BY <3>1, <3>2, <3>3
  <2>3. CASE \E c \in DOMAIN carried : /\ carried[c].ticker = index[m].ticker
                                       /\ HeldAt(carried[c], ReadAt(file, index[m]))
    <3>1. PICK c \in DOMAIN carried : /\ carried[c].ticker = index[m].ticker
                                      /\ HeldAt(carried[c], ReadAt(file, index[m]))
      BY <2>3
    <3>2. PICK n \in DOMAIN r : r[n] = carried[c]
      BY <1>13
    <3>3. QED  BY <3>1, <3>2
  <2>4. QED  BY <1>15, <2>1, <2>2, <2>3 DEF Passed
<1>16. DoneInv'
  BY <1>1, <1>12, <1>14, <1>15 DEF DoneInv, HeldAt
<1>17. TypeOK'
  <2>1. Len(kept) <= Len(r)
    <3>1. Len(r) = Len(entries) + Len(carried)
      <4>1. DOMAIN r = 1 .. Len(entries) + Len(carried) /\ Len(entries) + Len(carried) \in Nat
        BY <1>2, <1>5, <1>11
      <4>2. Len(r) \in Nat /\ DOMAIN r = 1 .. Len(r)
        BY <1>11
      <4>3. QED  BY <4>1, <4>2
    <3>2. Len(kept) <= Len(entries) /\ Len(kept) \in Nat
      <4>1. kept \in Seq(Entry)
        BY <1>2, Types
      <4>2. QED  BY <1>2, <4>1 DEF TypeOK
    <3>3. QED  BY <1>2, <3>1, <3>2
  <2>2. QED  BY <1>1, <1>2, <1>11, <1>12, <2>1 DEF TypeOK
<1>18. PhaseOf' /\ OldInv' /\ OutInv' /\ CarriedInv'
  <2>1. OldInv
    BY DEF BuildInv
  <2>2. QED  BY <1>1, <1>2, <2>1 DEF PhaseOf, OldInv, OutInv, CarriedInv
<1>19. ReadInv' /\ ListedInv' /\ DedupeInv' /\ MergeInv'
  BY <1>1 DEF ReadInv, ListedInv, DedupeInv, MergeInv
<1>20. QED  BY <1>16, <1>17, <1>18, <1>19 DEF BuildInv

-----------------------------------------------------------------------------
(* The theorems *)

LEMMA BuildInvInit ==
  ASSUME Init
  PROVE  BuildInv
<1>1. /\ i = 0 /\ k = 1 /\ offset = 0 /\ job = "load"
      /\ entries = <<>> /\ kept = <<>> /\ index = <<>> /\ out = <<>> /\ carried = <<>>
      /\ \/ file \in Files /\ hasOld = TRUE /\ pc = "read"
         \/ file = <<>> /\ hasOld = FALSE /\ pc = "loaded"
  BY DEF Init
<1>2. IsLaidOut(file)
  <2>1. CASE file \in Files
    BY <2>1, FilesAreLaidOut
  <2>2. CASE file = <<>>
    BY <2>2 DEF IsLaidOut
  <2>3. QED  BY <1>1, <2>1, <2>2
<1>3. TypeOK
  <2>1. \A s : s = <<>> => s \in Seq(Entry) /\ s \in Seq(Laid) /\ Len(s) = 0
    OBVIOUS
  <2>2. /\ Len(kept) <= Len(entries) /\ Len(carried) <= Len(index)
        /\ {entries, kept, index, carried} \subseteq Seq(Entry) /\ out \in Seq(Laid)
    BY <1>1, <2>1
  <2>3. QED  BY <1>1, <1>2, <2>2 DEF TypeOK
<1>4. ReadInv
  <2>1. 0 <= Len(file) /\ 1 .. 0 = {} /\ DOMAIN <<>> = {}
    BY <1>2 DEF IsLaidOut
  <2>2. Lists(<<>>, file, 0) /\ InFileOrder(<<>>)
    BY <2>1 DEF Lists, InFileOrder
  <2>3. QED  BY <1>1, <2>1, <2>2 DEF ReadInv
<1>5. PhaseOf /\ OutInv /\ ListedInv /\ DedupeInv
  BY <1>1 DEF PhaseOf, OutInv, ListedInv, DedupeInv
<1>6. OldInv /\ CarriedInv /\ MergeInv /\ DoneInv
  BY <1>1 DEF OldInv, CarriedInv, MergeInv, DoneInv
<1>7. QED  BY <1>3, <1>4, <1>5, <1>6 DEF BuildInv

LEMMA BuildInvStep ==
  ASSUME BuildInv, [Next]_vars
  PROVE  BuildInv'
<1>1. CASE UNCHANGED vars
  <2>1. UNCHANGED <<file, hasOld, job, pc, i, offset, entries, kept, index, out, k, carried>>
    BY <1>1 DEF vars
  <2>2. TypeOK' /\ PhaseOf' /\ ReadInv' /\ OutInv' /\ ListedInv' /\ DedupeInv'
    BY <2>1 DEF BuildInv, TypeOK, PhaseOf, ReadInv, OutInv, ListedInv, DedupeInv, Source
  <2>3. OldInv' /\ CarriedInv' /\ MergeInv' /\ DoneInv'
    BY <2>1 DEF BuildInv, OldInv, CarriedInv, MergeInv, TogetherInv, Passed, HeldAt, DoneInv
  <2>4. QED  BY <2>2, <2>3 DEF BuildInv
<1>2. CASE \E t \in Tickers, e \in CrawlEnds, n \in Widths : CrawlEvent(t, e, n)
  BY <1>2, CrawlEventKeeps
<1>3. CASE ReadRecord
  BY <1>3, ReadRecordKeeps
<1>4. CASE SkipLine
  BY <1>4, SkipLineKeeps
<1>5. CASE EndOfFile
  BY <1>5, EndOfFileKeeps
<1>6. CASE SortEntries
  BY <1>6, SortEntriesKeeps
<1>7. CASE Supersede
  BY <1>7, SupersedeKeeps
<1>8. CASE Keep
  BY <1>8, KeepKeeps
<1>9. CASE Loaded
  BY <1>9, LoadedKeeps
<1>10. CASE Crawled
  BY <1>10, CrawledKeeps
<1>11. CASE BeginCompaction
  BY <1>11, BeginCompactionKeeps
<1>12. CASE EndCrawl
  BY <1>12, EndCrawlKeeps
<1>13. CASE AdvanceNew
  BY <1>13, AdvanceNewKeeps
<1>14. CASE VisitPresent
  BY <1>14, VisitPresentKeeps
<1>15. CASE DropOld
  BY <1>15, DropOldKeeps
<1>16. CASE Carry
  BY <1>16, CarryKeeps
<1>17. CASE EndMerge
  BY <1>17, EndMergeKeeps
<1>18. QED
  BY <1>1, <1>2, <1>3, <1>4, <1>5, <1>6, <1>7, <1>8, <1>9, <1>10, <1>11, <1>12, <1>13,
     <1>14, <1>15, <1>16, <1>17 DEF Next

\* At each step of the loops the entries in hand list the records read or
\* written so far at their bytes, what is kept is the last of each ticker, and
\* what the merge has passed is carried or has a newer record.
THEOREM BuildInvHolds == Spec => []BuildInv
<1>1. Init => BuildInv
  BY BuildInvInit
<1>2. BuildInv /\ [Next]_vars => BuildInv'
  BY BuildInvStep
<1>3. QED  BY <1>1, <1>2, PTL DEF Spec

\* The loops' counters, offsets and entries stay what their types say.
THEOREM BuildTypeOK == Spec => []TypeOK
<1>1. BuildInv => TypeOK
  BY DEF BuildInv
<1>2. QED  BY <1>1, BuildInvHolds, PTL

\* Snapshot::from_file ends with an index of exactly the file's tickers, each at
\* the bytes of its last whole record, for files of any length.
THEOREM BuildLoadedExactly == Spec => []LoadedExactly
<1>1. BuildInv => LoadedExactly
  <2> SUFFICES ASSUME BuildInv, pc = "loaded", hasOld  PROVE IsIndexOf(index, file)
    BY DEF LoadedExactly
  <2>1. Indexes(index, file) /\ IsLaidOut(file)
    BY Types DEF BuildInv, OldInv
  <2>2. index \in Seq(Entry)
    BY Types DEF BuildInv
  <2>3. QED  BY <2>1, <2>2, IndexesIsIndex
<1>2. QED  BY <1>1, BuildInvHolds, PTL

\* The index full_crawl_and_compact publishes is the one from_file would make of
\* the file it published it with.
THEOREM BuildPublishedIsReloaded == Spec => []PublishedIsReloaded
<1>1. BuildInv => PublishedIsReloaded
  <2> SUFFICES ASSUME BuildInv, pc = "done"  PROVE IsIndexOf(entries, out)
    BY DEF PublishedIsReloaded
  <2>1. Indexes(entries, out) /\ entries \in Seq(Entry)
    BY Types DEF BuildInv, DoneInv
  <2>2. IsLaidOut(out)
    BY Types DEF BuildInv, PhaseOf, OutInv
  <2>3. QED  BY <2>1, <2>2, IndexesIsIndex
<1>2. QED  BY <1>1, BuildInvHolds, PTL

\* merge_carry_forward loses no old record that is still an event within its
\* grace, and copies its bytes as they are.
THEOREM BuildNothingEvicted == Spec => []NothingEvicted
<1>1. BuildInv => NothingEvicted
  <2> SUFFICES ASSUME BuildInv, pc = "done", NEW m \in DOMAIN index,
                      ~ Dropped(ReadAt(file, index[m]))
               PROVE  \E n \in DOMAIN entries :
                        /\ entries[n].ticker = index[m].ticker
                        /\ (\E c \in DOMAIN carried : carried[c] = entries[n]) =>
                             ReadAt(out, entries[n]) = ReadAt(file, index[m])
    BY DEF NothingEvicted
  <2>1. PICK n \in DOMAIN entries :
          /\ entries[n].ticker = index[m].ticker
          /\ (\E c \in DOMAIN carried : carried[c] = entries[n]) =>
               HeldAt(entries[n], ReadAt(file, index[m]))
    BY DEF BuildInv, DoneInv
  <2>2. IsLaidOut(out)
    BY Types DEF BuildInv, PhaseOf, OutInv
  <2>3. \A l : HeldAt(entries[n], l) => ReadAt(out, entries[n]) = l
    BY <2>2, ReadAtLine DEF HeldAt
  <2>4. QED  BY <2>1, <2>3
<1>2. QED  BY <1>1, BuildInvHolds, PTL

-----------------------------------------------------------------------------
(* str's order *)

\* a and b have their first n letters in common.
Agree(a, b, n) ==
  n \in Nat /\ n <= Len(a) /\ n <= Len(b) /\ \A j \in 1 .. n : a[j] = b[j]

LEMMA LessThrough ==
  ASSUME NEW x \in Nat, NEW y \in Nat, NEW z \in Nat, x < y, y < z
  PROVE  x < z
  OBVIOUS

LEMMA AnotherWithin ==
  ASSUME NEW m \in Nat, NEW len \in Nat, m < len
  PROVE  m + 1 \in 1 .. len
  OBVIOUS

\* The first n letters.
LEMMA Start ==
  ASSUME NEW a \in Seq(Nat), NEW n \in Nat, n <= Len(a)
  PROVE  /\ SubSeq(a, 1, n) \in Seq(Nat) /\ Len(SubSeq(a, 1, n)) = n
         /\ \A j \in 1 .. n : SubSeq(a, 1, n)[j] = a[j]
<1> DEFINE x == SubSeq(a, 1, n)
<1>1. \A j \in 1 .. n : a[j] \in Nat
  OBVIOUS
<1>2. /\ x \in Seq(Nat)
      /\ Len(x) = IF 1 <= n THEN n - 1 + 1 ELSE 0
      /\ \A j \in 1 .. n - 1 + 1 : x[j] = a[1 + j - 1]
  BY <1>1, SubSeqProperties
<1> HIDE DEF x
<1>3. n - 1 + 1 = n /\ \A j \in 1 .. n : 1 + j - 1 = j
  OBVIOUS
<1>4. x \in Seq(Nat) /\ Len(x) = n /\ \A j \in 1 .. n : x[j] = a[j]
  BY <1>2, <1>3
<1> QED BY <1>4 DEF x

LEMMA SameStart ==
  ASSUME NEW a \in Seq(Nat), NEW b \in Seq(Nat), NEW n \in Nat, n <= Len(a), n <= Len(b)
  PROVE  SubSeq(a, 1, n) = SubSeq(b, 1, n) <=> Agree(a, b, n)
<1> DEFINE x == SubSeq(a, 1, n)
           y == SubSeq(b, 1, n)
<1>1. /\ x \in Seq(Nat) /\ Len(x) = n /\ \A j \in 1 .. n : x[j] = a[j]
      /\ y \in Seq(Nat) /\ Len(y) = n /\ \A j \in 1 .. n : y[j] = b[j]
  BY Start
<1> HIDE DEF x, y
<1>2. CASE x = y
  BY <1>1, <1>2 DEF Agree, x, y
<1>3. CASE Agree(a, b, n)
  <2>1. \A j \in 1 .. n : x[j] = y[j]
    BY <1>1, <1>3 DEF Agree
  <2>2. x = [j \in 1 .. n |-> x[j]] /\ y = [j \in 1 .. n |-> y[j]]
    BY <1>1
  <2>3. x = y
    BY <2>1, <2>2
  <2> QED BY <2>3, <1>3 DEF x, y
<1> QED BY <1>2, <1>3 DEF x, y

LEMMA PrecedesAt ==
  ASSUME NEW a \in Seq(Nat), NEW b \in Seq(Nat)
  PROVE  Precedes(a, b) <=>
           \E n \in 0 .. Len(a) :
             Agree(a, b, n) /\ n < Len(b) /\ (n = Len(a) \/ a[n + 1] < b[n + 1])
<1>1. ASSUME NEW n \in 0 .. Len(a)
      PROVE  n <= Len(b) /\ SubSeq(a, 1, n) = SubSeq(b, 1, n) <=> Agree(a, b, n)
  <2>1. n \in Nat /\ n <= Len(a)
    OBVIOUS
  <2>2. CASE n <= Len(b)
    BY <2>1, <2>2, SameStart
  <2>3. CASE ~ (n <= Len(b))
    BY <2>3 DEF Agree
  <2> QED BY <2>2, <2>3
<1> QED BY <1>1 DEF Precedes

LEMMA PrefixIsStart ==
  ASSUME NEW p \in Seq(Nat), NEW a \in Seq(Nat)
  PROVE  IsPrefix(p, a) <=> Agree(p, a, Len(p))
<1>1. Len(p) \in Nat /\ Len(p) <= Len(p)
  OBVIOUS
<1>2. Len(p) <= Len(a) => (SubSeq(p, 1, Len(p)) = SubSeq(a, 1, Len(p)) <=> Agree(p, a, Len(p)))
  BY <1>1, SameStart
<1>3. ~ (Len(p) <= Len(a)) => ~ Agree(p, a, Len(p))
  BY DEF Agree
<1> QED BY <1>2, <1>3 DEF IsPrefix

LEMMA AgreeTogether ==
  ASSUME NEW a \in Seq(Nat), NEW b \in Seq(Nat), NEW c \in Seq(Nat),
         NEW m \in Nat, NEW n \in Nat, NEW h \in Nat, h <= m, h <= n,
         Agree(a, b, m), Agree(b, c, n)
  PROVE  Agree(a, c, h) /\ h \in 0 .. Len(a)
<1>1. /\ m <= Len(a) /\ n <= Len(c)
      /\ \A j \in 1 .. m : a[j] = b[j]
      /\ \A j \in 1 .. n : b[j] = c[j]
  BY DEF Agree
<1>2. Len(a) \in Nat /\ Len(c) \in Nat
  OBVIOUS
<1>3. h <= Len(a) /\ h <= Len(c) /\ h \in 0 .. Len(a)
  BY <1>1, <1>2
<1>4. ASSUME NEW j \in 1 .. h
      PROVE  a[j] = c[j]
  <2>1. j \in 1 .. m /\ j \in 1 .. n
    OBVIOUS
  <2> QED BY <1>1, <2>1
<1> QED BY <1>3, <1>4 DEF Agree

\* The order is transitive.
LEMMA PrecedesTransitive ==
  ASSUME NEW a \in Seq(Nat), NEW b \in Seq(Nat), NEW c \in Seq(Nat),
         Precedes(a, b), Precedes(b, c)
  PROVE  Precedes(a, c)
<1>1. PICK m \in 0 .. Len(a) :
        Agree(a, b, m) /\ m < Len(b) /\ (m = Len(a) \/ a[m + 1] < b[m + 1])
  BY PrecedesAt
<1>2. PICK n \in 0 .. Len(b) :
        Agree(b, c, n) /\ n < Len(c) /\ (n = Len(b) \/ b[n + 1] < c[n + 1])
  BY PrecedesAt
<1>3. /\ Len(a) \in Nat /\ Len(b) \in Nat /\ Len(c) \in Nat /\ m \in Nat /\ n \in Nat
      /\ \A j \in 1 .. Len(a) : a[j] \in Nat
      /\ \A j \in 1 .. Len(b) : b[j] \in Nat
      /\ \A j \in 1 .. Len(c) : c[j] \in Nat
  OBVIOUS
<1>4. CASE m < n
  <2>1. Agree(a, c, m)
    BY <1>1, <1>2, <1>3, <1>4, AgreeTogether
  <2>2. m + 1 \in 1 .. n /\ b[m + 1] = c[m + 1]
    BY <1>2, <1>3, <1>4 DEF Agree
  <2>3. m < Len(c) /\ (m = Len(a) \/ a[m + 1] < c[m + 1])
    BY <1>1, <1>2, <1>3, <1>4, <2>2
  <2> QED BY <2>1, <2>3, PrecedesAt
<1>5. CASE n < m
  <2>1. Agree(a, c, n) /\ n \in 0 .. Len(a)
    BY <1>1, <1>2, <1>3, <1>5, AgreeTogether
  <2>2. n + 1 \in 1 .. m /\ a[n + 1] = b[n + 1] /\ n # Len(b)
    BY <1>1, <1>3, <1>5 DEF Agree
  <2>3. n < Len(c) /\ a[n + 1] < c[n + 1]
    BY <1>2, <2>2
  <2> QED BY <2>1, <2>3, PrecedesAt
<1>6. CASE m = n
  <2>1. Agree(a, c, m)
    BY <1>1, <1>2, <1>3, <1>6, AgreeTogether
  <2>2. m < Len(c) /\ b[m + 1] < c[m + 1]
    BY <1>1, <1>2, <1>3, <1>6
  <2>3. m = Len(a) \/ a[m + 1] < c[m + 1]
    <3>1. CASE m # Len(a)
      <4>0. m < Len(a)
        BY <1>3, <3>1
      <4>1. a[m + 1] < b[m + 1] /\ m < Len(b)
        BY <1>1, <3>1
      <4>2. m + 1 \in 1 .. Len(a) /\ m + 1 \in 1 .. Len(b) /\ m + 1 \in 1 .. Len(c)
        BY <1>3, <2>2, <4>0, <4>1, AnotherWithin
      <4>3. a[m + 1] \in Nat /\ b[m + 1] \in Nat /\ c[m + 1] \in Nat
        BY <1>3, <4>2
      <4> QED BY <2>2, <4>1, <4>3, LessThrough
    <3> QED BY <3>1
  <2> QED BY <2>1, <2>2, <2>3, PrecedesAt
<1> QED BY <1>3, <1>4, <1>5, <1>6

\* A string does not come before its prefix, and between the prefix and a string
\* that has it there are only such.
LEMMA PrefixesTogether ==
  ASSUME NEW p \in Seq(Nat), NEW a \in Seq(Nat)
  PROVE  /\ IsPrefix(p, a) => ~ Precedes(a, p)
         /\ \A b \in Seq(Nat) :
              Precedes(a, b) /\ IsPrefix(p, b) /\ ~ Precedes(a, p) => IsPrefix(p, a)
<1>1. ASSUME IsPrefix(p, a), Precedes(a, p) PROVE FALSE
  <2>1. Agree(p, a, Len(p))
    BY <1>1, PrefixIsStart
  <2>2. PICK n \in 0 .. Len(a) :
          Agree(a, p, n) /\ n < Len(p) /\ (n = Len(a) \/ a[n + 1] < p[n + 1])
    BY <1>1, PrecedesAt
  <2>3. Len(p) \in Nat /\ Len(a) \in Nat /\ n \in Nat /\ Len(p) <= Len(a)
    BY <2>1 DEF Agree
  <2>4. n + 1 \in 1 .. Len(p) /\ n # Len(a)
    BY <2>2, <2>3
  <2>5. p[n + 1] = a[n + 1] /\ p[n + 1] \in Nat
    BY <2>1, <2>4 DEF Agree
  <2> QED BY <2>2, <2>4, <2>5
<1>2. ASSUME NEW b \in Seq(Nat), Precedes(a, b), IsPrefix(p, b), ~ Precedes(a, p)
      PROVE  IsPrefix(p, a)
  <2>1. Agree(p, b, Len(p))
    BY <1>2, PrefixIsStart
  <2>2. PICK n \in 0 .. Len(a) :
          Agree(a, b, n) /\ n < Len(b) /\ (n = Len(a) \/ a[n + 1] < b[n + 1])
    BY <1>2, PrecedesAt
  <2>3. Len(p) \in Nat /\ Len(a) \in Nat /\ Len(b) \in Nat /\ n \in Nat
    OBVIOUS
  <2>4. CASE Len(p) <= n
    <3>1. Agree(p, a, Len(p))
      BY <2>1, <2>2, <2>3, <2>4 DEF Agree
    <3> QED BY <3>1, PrefixIsStart
  <2>5. CASE n < Len(p)
    <3>1. Agree(a, p, n)
      BY <2>1, <2>2, <2>3, <2>5 DEF Agree
    <3>2. n + 1 \in 1 .. Len(p) /\ p[n + 1] = b[n + 1]
      BY <2>1, <2>3, <2>5 DEF Agree
    <3>3. Precedes(a, p)
      BY <2>2, <2>5, <3>1, <3>2, PrecedesAt
    <3> QED BY <1>2, <3>3
  <2> QED BY <2>3, <2>4, <2>5
<1> QED BY <1>1, <1>2

-----------------------------------------------------------------------------
(* partition_point, and runs of the index *)

\* h holds of the first so many, and of no others.
Parted(h) == \A m, n \in DOMAIN h : m < n /\ h[n] => h[m]

LEMMA PartitionPointParts ==
  ASSUME NEW h, NEW len \in Nat, DOMAIN h = 1 .. len, Len(h) = len, Parted(h)
  PROVE  /\ PartitionPoint(h) \in 0 .. len
         /\ \A m \in 1 .. len : m <= PartitionPoint(h) => h[m]
         /\ \A m \in 1 .. len : h[m] => m <= PartitionPoint(h)
<1> DEFINE Parts(n) == (\A m \in 1 .. n : h[m]) /\ (n < len => ~ h[n + 1])
           T == {m \in 1 .. len : ~ h[m]}
           c == PartitionPoint(h)
<1>1. \E n \in 0 .. len : Parts(n)
  <2>1. CASE T = {}
    <3>1. Parts(len) /\ len \in 0 .. len
      BY <2>1
    <3> QED BY <3>1
  <2>2. CASE T # {}
    <3>1. T \in SUBSET Nat
      OBVIOUS
    <3>2. PICK x \in T : \A y \in T : x <= y
      <4> HIDE DEF T
      <4> QED BY <2>2, <3>1, LeastExists
    <3>3. x \in 1 .. len /\ ~ h[x] /\ x - 1 \in 0 .. len /\ (x - 1) + 1 = x
      BY <3>2
    <3>4. ASSUME NEW m \in 1 .. x - 1 PROVE h[m]
      <4>1. m \in 1 .. len /\ ~ (x <= m)
        BY <3>3
      <4>2. m \notin T
        BY <3>2, <4>1
      <4> QED BY <4>1, <4>2
    <3>5. Parts(x - 1)
      BY <3>3, <3>4
    <3> QED BY <3>3, <3>5
  <2> QED BY <2>1, <2>2
<1>2. c = CHOOSE n \in 0 .. len : Parts(n)
  BY DEF PartitionPoint
<1>3. c \in 0 .. len /\ Parts(c)
  <2> HIDE DEF Parts, c
  <2> QED BY <1>1, <1>2
<1> HIDE DEF c
<1>4. ASSUME NEW m \in 1 .. len, h[m] PROVE m <= c
  <2> SUFFICES ASSUME c < m PROVE FALSE
    BY <1>3
  <2>1. c + 1 \in 1 .. len /\ c < len /\ (c + 1 = m \/ c + 1 < m)
    BY <1>3
  <2>2. ~ h[c + 1]
    BY <1>3, <2>1
  <2>3. c + 1 < m => h[c + 1]
    BY <1>4, <2>1 DEF Parted
  <2> QED BY <1>4, <2>1, <2>2, <2>3
<1>5. ASSUME NEW m \in 1 .. len, m <= c PROVE h[m]
  <2>1. m \in 1 .. c
    BY <1>3, <1>5
  <2> QED BY <1>3, <2>1
<1> QED BY <1>3, <1>4, <1>5 DEF c

\* The tickers of the entries a + 1 .. b.
Run(s, a, b) == {s[m].ticker : m \in a + 1 .. b}

\* The first of the tickers of a run are the tickers of its first entries.
LEMMA FirstOfRun ==
  ASSUME NEW s \in Seq(Entry), StrictlySorted(s),
         NEW b \in 0 .. Len(s), NEW a \in 0 .. b, NEW n \in Nat \ {0},
         NEW c, c = IF a + n < b THEN a + n ELSE b
  PROVE  /\ First(Run(s, a, b), n) = Run(s, a, c)
         /\ First(Run(s, a, b), n) = Run(s, a, b) <=> c = b
<1> DEFINE S == Run(s, a, b)
<1>1. /\ Len(s) \in Nat /\ DOMAIN s = 1 .. Len(s) /\ a \in Nat /\ b \in Nat /\ b <= Len(s) /\ a <= b
      /\ n \in Nat /\ n >= 1
      /\ c \in Nat /\ a <= c /\ c <= b
  OBVIOUS
<1>2. \A m \in a + 1 .. b : m \in DOMAIN s /\ s[m].ticker \in Nat
  <2>1. \A m \in a + 1 .. b : m \in DOMAIN s
    BY <1>1
  <2> QED BY <2>1, EntryFields
<1>3. \A l, m \in a + 1 .. b : (l < m <=> s[l].ticker < s[m].ticker)
                              /\ (s[l].ticker = s[m].ticker => l = m)
  <2>1. ASSUME NEW l \in a + 1 .. b, NEW m \in a + 1 .. b
        PROVE  (l < m <=> s[l].ticker < s[m].ticker) /\ (s[l].ticker = s[m].ticker => l = m)
    <3>1. l < m => s[l].ticker < s[m].ticker
      BY <1>2 DEF StrictlySorted
    <3>2. m < l => s[m].ticker < s[l].ticker
      BY <1>2 DEF StrictlySorted
    <3>3. l \in Nat /\ m \in Nat /\ s[l].ticker \in Nat /\ s[m].ticker \in Nat
      BY <1>1, <1>2
    <3> QED BY <3>1, <3>2, <3>3
  <2> QED BY <2>1
<1>4. ASSUME NEW m \in a + 1 .. b
      PROVE  Cardinality({u \in S : u < s[m].ticker}) = m - 1 - a
  <2> DEFINE B == {u \in S : u < s[m].ticker}
             I == a + 1 .. m - 1
             f == [j \in I |-> s[j].ticker]
  <2>1. \A j \in I : j \in a + 1 .. b /\ j < m
    BY <1>1
  <2>2. f \in [I -> B]
    BY <1>3, <2>1 DEF Run
  <2>3. \A i1, i2 \in I : f[i1] = f[i2] => i1 = i2
    BY <1>3, <2>1
  <2>4. ASSUME NEW u \in B PROVE \E j \in I : f[j] = u
    <3>1. PICK j \in a + 1 .. b : u = s[j].ticker
      BY DEF Run
    <3>2. j < m
      BY <1>3, <3>1
    <3>3. j \in I
      BY <1>1, <3>2
    <3> QED BY <3>1, <3>3
  <2>5. f \in Bijection(I, B)
    BY <2>2, <2>3, <2>4 DEF Bijection, Injection, Surjection, IsInjective
  <2>6. IsFiniteSet(I) /\ Cardinality(I) = m - 1 - a
    <3>1. m - 1 \in Int /\ a + 1 \in Int /\ a + 1 <= m
      BY <1>1
    <3>2. IsFiniteSet(I) /\ Cardinality(I) = IF a + 1 > m - 1 THEN 0 ELSE (m - 1) - (a + 1) + 1
      BY <3>1, FS_Interval
    <3> HIDE DEF I
    <3> QED BY <1>1, <3>1, <3>2
  <2> HIDE DEF f, B, I
  <2>7. ExistsBijection(I, B)
    BY <2>5 DEF ExistsBijection
  <2>8. Cardinality(B) = m - 1 - a
    BY <2>6, <2>7, FS_Bijection
  <2> QED BY <2>8 DEF B
<1>5. ASSUME NEW m \in a + 1 .. b
      PROVE  s[m].ticker \in First(S, n) <=> m \in a + 1 .. c
  <2>1. s[m].ticker \in S
    BY DEF Run
  <2>2. s[m].ticker \in First(S, n) <=> m - 1 - a < n
    <3> HIDE DEF S
    <3> QED BY <1>4, <2>1 DEF First
  <2>3. m - 1 - a < n <=> m \in a + 1 .. c
    BY <1>1
  <2> QED BY <2>2, <2>3
<1>6. \A t \in First(S, n) : \E m \in a + 1 .. b : t = s[m].ticker
  BY DEF First, Run
<1> HIDE DEF S
<1>7. First(S, n) = Run(s, a, c)
  <2>1. \A m \in a + 1 .. c : m \in a + 1 .. b
    BY <1>1
  <2>2. ASSUME NEW t \in First(S, n) PROVE t \in Run(s, a, c)
    BY <1>5, <1>6 DEF Run
  <2>3. ASSUME NEW t \in Run(s, a, c) PROVE t \in First(S, n)
    BY <1>5, <2>1 DEF Run
  <2> QED BY <2>2, <2>3
<1>8. c = b => First(S, n) = S
  BY <1>7 DEF S
<1>9. ASSUME c # b PROVE First(S, n) # S
  <2>1. b \in a + 1 .. b /\ ~ (b \in a + 1 .. c)
    BY <1>1, <1>9
  <2>2. s[b].ticker \in S /\ s[b].ticker \notin First(S, n)
    BY <1>5, <2>1 DEF S, Run
  <2> QED BY <2>2
<1> QED BY <1>7, <1>8, <1>9 DEF S

\* The entries a + 1 .. c, as a slice.
LEMMA SliceOfIndex ==
  ASSUME NEW s \in Seq(Entry), StrictlySorted(s), NEW c \in 0 .. Len(s), NEW a \in 0 .. c
  PROVE  /\ SubSeq(s, a + 1, c) \in Seq(Entry) /\ Len(SubSeq(s, a + 1, c)) = c - a
         /\ DOMAIN SubSeq(s, a + 1, c) = 1 .. c - a
         /\ \A j \in 1 .. c - a : SubSeq(s, a + 1, c)[j] = s[a + j]
         /\ TickersIn(SubSeq(s, a + 1, c)) = Run(s, a, c)
         /\ StrictlySorted(SubSeq(s, a + 1, c))
<1> DEFINE x == SubSeq(s, a + 1, c)
<1>1. /\ Len(s) \in Nat /\ DOMAIN s = 1 .. Len(s) /\ a \in Nat /\ c \in Nat
      /\ c <= Len(s) /\ a <= c /\ c - a \in Nat
  OBVIOUS
<1>2. x \in Seq(Entry) /\ Len(x) = c - a /\ \A j \in 1 .. c - a : x[j] = s[a + j]
  <2>1. \A j \in a + 1 .. c : s[j] \in Entry
    BY <1>1, EntryFields
  <2>2. a + 1 \in Int /\ c \in Int /\ c - (a + 1) + 1 = c - a
        /\ (IF a + 1 <= c THEN c - (a + 1) + 1 ELSE 0) = c - a
        /\ \A j \in 1 .. c - a : (a + 1) + j - 1 = a + j
    BY <1>1
  <2>3. /\ x \in Seq(Entry)
        /\ Len(x) = IF a + 1 <= c THEN c - (a + 1) + 1 ELSE 0
        /\ \A j \in 1 .. c - (a + 1) + 1 : x[j] = s[(a + 1) + j - 1]
    <3>1. a + 1 \in Int /\ c \in Int
      BY <2>2
    <3> HIDE DEF x
    <3> QED BY <2>1, <3>1, SubSeqProperties DEF x
  <2> HIDE DEF x
  <2> QED BY <2>2, <2>3
<1> HIDE DEF x
<1>3. DOMAIN x = 1 .. c - a
  BY <1>2
<1>4. \A j \in 1 .. c - a : a + j \in a + 1 .. c /\ a + j \in DOMAIN s
  BY <1>1
<1>5. \A m \in a + 1 .. c : m - a \in 1 .. c - a /\ a + (m - a) = m
  BY <1>1
<1>6. TickersIn(x) = Run(s, a, c)
  <2>1. ASSUME NEW t \in TickersIn(x) PROVE t \in Run(s, a, c)
    <3>1. PICK j \in 1 .. c - a : t = x[j].ticker
      BY <1>3 DEF TickersIn
    <3> QED BY <1>2, <1>4, <3>1 DEF Run
  <2>2. ASSUME NEW t \in Run(s, a, c) PROVE t \in TickersIn(x)
    <3>1. PICK m \in a + 1 .. c : t = s[m].ticker
      BY DEF Run
    <3>2. x[m - a] = s[m] /\ m - a \in DOMAIN x
      BY <1>2, <1>3, <1>5
    <3> QED BY <3>1, <3>2 DEF TickersIn
  <2> QED BY <2>1, <2>2
<1>7. StrictlySorted(x)
  <2>1. ASSUME NEW l \in 1 .. c - a, NEW m \in 1 .. c - a, l < m
        PROVE  x[l].ticker < x[m].ticker
    <3>1. a + l \in DOMAIN s /\ a + m \in DOMAIN s /\ a + l < a + m
      BY <1>1, <1>4, <2>1
    <3>2. s[a + l].ticker < s[a + m].ticker
      BY <3>1 DEF StrictlySorted
    <3> QED BY <1>2, <3>2
  <2> QED BY <1>3, <2>1 DEF StrictlySorted
<1> QED BY <1>2, <1>3, <1>6, <1>7 DEF x

\* The names of an index are strings, in their order.
LEMMA NamesInOrder ==
  ASSUME NEW s \in Seq(Entry), StrictlySorted(s)
  PROVE  /\ Len(s) \in Nat /\ DOMAIN s = 1 .. Len(s)
         /\ \A m \in DOMAIN s : /\ Name(s[m]) \in Seq(Nat) /\ Name(s[m]) # Null
                                /\ Name(s[m]) = Spelling[s[m].ticker]
         /\ \A l, m \in DOMAIN s : l < m => Precedes(Name(s[l]), Name(s[m]))
<1>1. \A m \in DOMAIN s : s[m].ticker \in Tickers
  BY EntryFields
<1>2. \A t \in Tickers : Spelling[t] \in Seq(Nat) /\ Spelling[t] # Null
  BY TickersSpelledInOrder, QueryBounds
<1>3. \A m \in DOMAIN s : Name(s[m]) = Spelling[s[m].ticker]
  BY DEF Name
<1>4. ASSUME NEW l \in DOMAIN s, NEW m \in DOMAIN s, l < m
      PROVE  Precedes(Spelling[s[l].ticker], Spelling[s[m].ticker])
  <2>1. s[l].ticker < s[m].ticker
    BY <1>4 DEF StrictlySorted
  <2> QED BY <1>1, <2>1, TickersSpelledInOrder
<1>5. Len(s) \in Nat /\ DOMAIN s = 1 .. Len(s)
  OBVIOUS
<1> QED BY <1>1, <1>2, <1>3, <1>4, <1>5

\* Where cursor_range starts: all that comes after the cursor is behind it.
LEMMA CursorStart ==
  ASSUME NEW s \in Seq(Entry), StrictlySorted(s), NEW after \in Strings,
         NEW done, done = [m \in DOMAIN s |-> ~ Precedes(after, Name(s[m]))]
  PROVE  /\ PartitionPoint(done) \in 0 .. Len(s)
         /\ \A m \in DOMAIN s : Precedes(after, Name(s[m])) <=> m > PartitionPoint(done)
<1>1. /\ Len(s) \in Nat /\ DOMAIN s = 1 .. Len(s)
      /\ \A m \in DOMAIN s : Name(s[m]) \in Seq(Nat)
      /\ \A l, m \in DOMAIN s : l < m => Precedes(Name(s[l]), Name(s[m]))
  BY NamesInOrder
<1>2. after \in Seq(Nat)
  BY TickersSpelledInOrder
<1>3. DOMAIN done = 1 .. Len(s) /\ Len(done) = Len(s)
      /\ \A m \in DOMAIN s : done[m] <=> ~ Precedes(after, Name(s[m]))
  <2>1. DOMAIN done = 1 .. Len(s)
    BY <1>1
  <2>2. Len(done) = Len(s)
    BY <1>1, <2>1
  <2> QED BY <2>1, <2>2
<1>4. Parted(done)
  <2>1. ASSUME NEW l \in DOMAIN s, NEW m \in DOMAIN s, l < m, Precedes(after, Name(s[l]))
        PROVE  Precedes(after, Name(s[m]))
    BY <1>1, <1>2, <2>1, PrecedesTransitive
  <2> QED BY <1>1, <1>3, <2>1 DEF Parted
<1> DEFINE c == PartitionPoint(done)
<1>5. /\ c \in 0 .. Len(s)
      /\ \A m \in 1 .. Len(s) : m <= c => done[m]
      /\ \A m \in 1 .. Len(s) : done[m] => m <= c
  BY <1>1, <1>3, <1>4, PartitionPointParts
<1> HIDE DEF c
<1>6. \A m \in DOMAIN s : Precedes(after, Name(s[m])) <=> m > c
  <2>1. \A m \in DOMAIN s : m > c <=> ~ (m <= c)
    BY <1>1, <1>5
  <2> QED BY <1>1, <1>3, <1>5, <2>1
<1> QED BY <1>5, <1>6 DEF c

LEMMA PageIsFirst ==
  ASSUME NEW s \in Seq(Entry), StrictlySorted(s), NEW a \in 0 .. Len(s), NEW n \in Nat \ {0}
  PROVE  /\ TickersIn(Page(s, a, n).page) = First(Run(s, a, Len(s)), n)
         /\ StrictlySorted(Page(s, a, n).page)
         /\ Page(s, a, n).next = Null <=> First(Run(s, a, Len(s)), n) = Run(s, a, Len(s))
<1> DEFINE len == Len(s)
           c == IF a + n < len THEN a + n ELSE len
           page == SubSeq(s, a + 1, c)
           next == IF c < len /\ page # <<>> THEN Name(Last(page)) ELSE Null
<1>1. len \in Nat /\ a \in 0 .. c /\ c \in 0 .. len /\ len \in 0 .. len /\ a \in 0 .. len
  OBVIOUS
<1>2. Page(s, a, n) = [page |-> page, next |-> next]
  BY DEF Page
<1>3. /\ First(Run(s, a, len), n) = Run(s, a, c)
      /\ First(Run(s, a, len), n) = Run(s, a, len) <=> c = len
  BY <1>1, FirstOfRun
<1>4. /\ page \in Seq(Entry) /\ Len(page) = c - a /\ DOMAIN page = 1 .. c - a
      /\ \A j \in 1 .. c - a : page[j] = s[a + j]
      /\ TickersIn(page) = Run(s, a, c) /\ StrictlySorted(page)
  <2> HIDE DEF c
  <2> QED BY <1>1, SliceOfIndex
<1>5. c < len => page # <<>> /\ Name(Last(page)) # Null
  <2> SUFFICES ASSUME c < len PROVE page # <<>> /\ Name(Last(page)) # Null
    OBVIOUS
  <2>1. c = a + n /\ c - a = n /\ n \in 1 .. n /\ a + n \in DOMAIN s
    BY <1>1
  <2> HIDE DEF c, page
  <2>2. Len(page) = n /\ page[n] = s[a + n]
    BY <1>4, <2>1
  <2>3. Last(page) = s[a + n] /\ page # <<>>
    BY <2>1, <2>2 DEF Last
  <2> QED BY <2>1, <2>3, NamesInOrder
<1> HIDE DEF c, page
<1>6. next = Null <=> c = len
  BY <1>1, <1>5
<1> HIDE DEF next
<1> QED BY <1>2, <1>3, <1>4, <1>6 DEF len

\* The tickers of s that come after the cursor.
Beyond(s, after) == {t \in TickersIn(s) : after = Null \/ Precedes(after, Spelling[t])}

LEMMA CursorRangeExact ==
  ASSUME NEW s \in Seq(Entry), StrictlySorted(s), NEW after \in Strings \cup {Null},
         NEW n \in Nat \ {0}
  PROVE  /\ TickersIn(CursorRange(s, after, n).page) = First(Beyond(s, after), n)
         /\ StrictlySorted(CursorRange(s, after, n).page)
         /\ CursorRange(s, after, n).next = Null <=> First(Beyond(s, after), n) = Beyond(s, after)
<1> DEFINE done == [m \in DOMAIN s |-> ~ Precedes(after, Name(s[m]))]
           a == IF after = Null THEN 0 ELSE PartitionPoint(done)
<1>1. /\ Len(s) \in Nat /\ DOMAIN s = 1 .. Len(s)
      /\ \A m \in DOMAIN s : Name(s[m]) = Spelling[s[m].ticker]
  BY NamesInOrder
<1>2. CursorRange(s, after, n) = Page(s, a, n)
  BY DEF CursorRange
<1>3. /\ a \in 0 .. Len(s)
      /\ \A m \in DOMAIN s : (after = Null \/ Precedes(after, Name(s[m]))) <=> m > a
  <2>1. CASE after = Null
    BY <1>1, <2>1
  <2>2. CASE after # Null
    <3>1. after \in Strings
      BY <2>2
    <3>2. /\ PartitionPoint(done) \in 0 .. Len(s)
          /\ \A m \in DOMAIN s : Precedes(after, Name(s[m])) <=> m > PartitionPoint(done)
      BY <3>1, CursorStart
    <3> HIDE DEF done
    <3> QED BY <2>2, <3>2
  <2> QED BY <2>1, <2>2
<1> HIDE DEF a
<1>4. Beyond(s, after) = Run(s, a, Len(s))
  <2>1. \A m \in DOMAIN s : m > a <=> m \in a + 1 .. Len(s)
    BY <1>1, <1>3
  <2>2. \A m \in a + 1 .. Len(s) : m \in DOMAIN s
    BY <1>1, <1>3
  <2>3. ASSUME NEW t \in Beyond(s, after) PROVE t \in Run(s, a, Len(s))
    <3>1. PICK m \in DOMAIN s : t = s[m].ticker
      BY DEF Beyond, TickersIn
    <3>2. m \in a + 1 .. Len(s)
      BY <1>1, <1>3, <2>1, <3>1 DEF Beyond
    <3> QED BY <3>1, <3>2 DEF Run
  <2>4. ASSUME NEW t \in Run(s, a, Len(s)) PROVE t \in Beyond(s, after)
    <3>1. PICK m \in a + 1 .. Len(s) : t = s[m].ticker
      BY DEF Run
    <3>2. m \in DOMAIN s /\ (after = Null \/ Precedes(after, Spelling[t]))
      BY <1>1, <1>3, <2>1, <2>2, <3>1
    <3> QED BY <3>1, <3>2 DEF Beyond, TickersIn
  <2> QED BY <2>3, <2>4
<1> QED BY <1>2, <1>3, <1>4, PageIsFirst

LEMMA WholeRun ==
  ASSUME NEW s \in Seq(Entry)
  PROVE  TickersIn(s) = Run(s, 0, Len(s))
<1>1. DOMAIN s = 0 + 1 .. Len(s)
  OBVIOUS
<1> QED BY <1>1 DEF TickersIn, Run

\* The first n entries of an index.
LEMMA SliceIsFirst ==
  ASSUME NEW s \in Seq(Entry), StrictlySorted(s), NEW n \in Nat \ {0},
         NEW page, page = SubSeq(s, 1, IF n < Len(s) THEN n ELSE Len(s))
  PROVE  /\ TickersIn(page) = First(TickersIn(s), n) /\ StrictlySorted(page)
         /\ Len(s) > n <=> First(TickersIn(s), n) # TickersIn(s)
<1> DEFINE len == Len(s)
           c == IF 0 + n < len THEN 0 + n ELSE len
<1>1. len \in Nat /\ c \in 0 .. len /\ 0 \in 0 .. c /\ 0 \in 0 .. len /\ len \in 0 .. len
      /\ (c = len <=> ~ (len > n))
  OBVIOUS
<1>2. page = SubSeq(s, 0 + 1, c)
  OBVIOUS
<1>3. /\ First(Run(s, 0, len), n) = Run(s, 0, c)
      /\ First(Run(s, 0, len), n) = Run(s, 0, len) <=> c = len
  BY <1>1, FirstOfRun
<1> HIDE DEF c
<1>4. TickersIn(page) = Run(s, 0, c) /\ StrictlySorted(page)
  <2>1. /\ TickersIn(SubSeq(s, 0 + 1, c)) = Run(s, 0, c)
        /\ StrictlySorted(SubSeq(s, 0 + 1, c))
    BY <1>1, SliceOfIndex
  <2> QED BY <1>2, <2>1
<1>5. TickersIn(s) = Run(s, 0, len)
  BY WholeRun
<1> QED BY <1>1, <1>3, <1>4, <1>5 DEF len

\* Where prefix_range starts: what has the prefix is behind it.
LEMMA PrefixStart ==
  ASSUME NEW s \in Seq(Entry), StrictlySorted(s), NEW p \in Strings,
         NEW before, before = [m \in DOMAIN s |-> Precedes(Name(s[m]), p)]
  PROVE  /\ PartitionPoint(before) \in 0 .. Len(s)
         /\ \A m \in DOMAIN s : Precedes(Name(s[m]), p) <=> m <= PartitionPoint(before)
<1>1. /\ Len(s) \in Nat /\ DOMAIN s = 1 .. Len(s)
      /\ \A m \in DOMAIN s : Name(s[m]) \in Seq(Nat)
      /\ \A l, m \in DOMAIN s : l < m => Precedes(Name(s[l]), Name(s[m]))
  BY NamesInOrder
<1>2. p \in Seq(Nat)
  BY TickersSpelledInOrder
<1>3. DOMAIN before = 1 .. Len(s) /\ Len(before) = Len(s)
      /\ \A m \in DOMAIN s : before[m] <=> Precedes(Name(s[m]), p)
  <2>1. DOMAIN before = 1 .. Len(s)
    BY <1>1
  <2>2. Len(before) = Len(s)
    BY <1>1, <2>1
  <2> QED BY <2>1, <2>2
<1>4. Parted(before)
  <2>1. ASSUME NEW l \in DOMAIN s, NEW m \in DOMAIN s, l < m, Precedes(Name(s[m]), p)
        PROVE  Precedes(Name(s[l]), p)
    BY <1>1, <1>2, <2>1, PrecedesTransitive
  <2> QED BY <1>1, <1>3, <2>1 DEF Parted
<1> DEFINE c == PartitionPoint(before)
<1>5. /\ c \in 0 .. Len(s)
      /\ \A m \in 1 .. Len(s) : m <= c => before[m]
      /\ \A m \in 1 .. Len(s) : before[m] => m <= c
  BY <1>1, <1>3, <1>4, PartitionPointParts
<1> HIDE DEF c
<1> QED BY <1>1, <1>3, <1>5 DEF c

\* Where it ends, in what is behind its start.
LEMMA PrefixEnd ==
  ASSUME NEW s \in Seq(Entry), StrictlySorted(s), NEW p \in Strings,
         \A m \in DOMAIN s : ~ Precedes(Name(s[m]), p),
         NEW starts, starts = [m \in DOMAIN s |-> IsPrefix(p, Name(s[m]))]
  PROVE  /\ PartitionPoint(starts) \in 0 .. Len(s)
         /\ \A m \in DOMAIN s : IsPrefix(p, Name(s[m])) <=> m <= PartitionPoint(starts)
<1>1. /\ Len(s) \in Nat /\ DOMAIN s = 1 .. Len(s)
      /\ \A m \in DOMAIN s : Name(s[m]) \in Seq(Nat)
      /\ \A l, m \in DOMAIN s : l < m => Precedes(Name(s[l]), Name(s[m]))
  BY NamesInOrder
<1>2. p \in Seq(Nat)
  BY TickersSpelledInOrder
<1>3. DOMAIN starts = 1 .. Len(s) /\ Len(starts) = Len(s)
      /\ \A m \in DOMAIN s : starts[m] <=> IsPrefix(p, Name(s[m]))
  <2>1. DOMAIN starts = 1 .. Len(s)
    BY <1>1
  <2>2. Len(starts) = Len(s)
    BY <1>1, <2>1
  <2> QED BY <2>1, <2>2
<1>4. Parted(starts)
  <2>1. ASSUME NEW l \in DOMAIN s, NEW m \in DOMAIN s, l < m, IsPrefix(p, Name(s[m]))
        PROVE  IsPrefix(p, Name(s[l]))
    BY <1>1, <1>2, <2>1, PrefixesTogether
  <2> QED BY <1>1, <1>3, <2>1 DEF Parted
<1> DEFINE c == PartitionPoint(starts)
<1>5. /\ c \in 0 .. Len(s)
      /\ \A m \in 1 .. Len(s) : m <= c => starts[m]
      /\ \A m \in 1 .. Len(s) : starts[m] => m <= c
  BY <1>1, <1>3, <1>4, PartitionPointParts
<1> HIDE DEF c
<1> QED BY <1>1, <1>3, <1>5 DEF c

\* prefix_range is all that has the prefix, in order.
LEMMA PrefixRangeExact ==
  ASSUME NEW s \in Seq(Entry), StrictlySorted(s), NEW p \in Strings
  PROVE  /\ PrefixRange(s, p) \in Seq(Entry) /\ StrictlySorted(PrefixRange(s, p))
         /\ TickersIn(PrefixRange(s, p)) = {t \in TickersIn(s) : IsPrefix(p, Spelling[t])}
<1> DEFINE before == [m \in DOMAIN s |-> Precedes(Name(s[m]), p)]
           a == PartitionPoint(before)
           rest == SubSeq(s, a + 1, Len(s))
           starts == [m \in DOMAIN rest |-> IsPrefix(p, Name(rest[m]))]
           c == PartitionPoint(starts)
           matches == SubSeq(rest, 1, c)
<1>1. PrefixRange(s, p) = matches
  BY DEF PrefixRange
<1>2. /\ Len(s) \in Nat /\ DOMAIN s = 1 .. Len(s) /\ Len(s) \in 0 .. Len(s)
      /\ \A m \in DOMAIN s : Name(s[m]) \in Seq(Nat) /\ Name(s[m]) = Spelling[s[m].ticker]
  BY NamesInOrder
<1>3. /\ a \in 0 .. Len(s)
      /\ \A m \in DOMAIN s : Precedes(Name(s[m]), p) <=> m <= a
  <2> HIDE DEF before
  <2> QED BY PrefixStart DEF before
<1> HIDE DEF before, a
<1>4. /\ rest \in Seq(Entry) /\ DOMAIN rest = 1 .. Len(s) - a /\ Len(rest) = Len(s) - a
      /\ \A j \in 1 .. Len(s) - a : rest[j] = s[a + j]
      /\ StrictlySorted(rest)
  BY <1>2, <1>3, SliceOfIndex
<1> HIDE DEF rest
<1>5. \A j \in DOMAIN rest : a + j \in DOMAIN s /\ rest[j] = s[a + j] /\ ~ (a + j <= a)
  BY <1>2, <1>3, <1>4
<1>6. \A j \in DOMAIN rest : ~ Precedes(Name(rest[j]), p)
  BY <1>3, <1>5
<1>7. /\ c \in 0 .. Len(rest)
      /\ \A j \in DOMAIN rest : IsPrefix(p, Name(rest[j])) <=> j <= c
  <2> HIDE DEF starts
  <2> QED BY <1>4, <1>6, PrefixEnd DEF starts
<1> HIDE DEF starts, c
<1>8. /\ matches \in Seq(Entry) /\ StrictlySorted(matches)
      /\ TickersIn(matches) = Run(rest, 0, c)
  <2>1. 0 \in 0 .. c /\ matches = SubSeq(rest, 0 + 1, c)
    BY <1>7
  <2> HIDE DEF matches
  <2> QED BY <1>4, <1>7, <2>1, SliceOfIndex
<1> HIDE DEF matches
<1>9. ASSUME NEW t \in Run(rest, 0, c)
      PROVE  t \in TickersIn(s) /\ IsPrefix(p, Spelling[t])
  <2>1. PICK j \in 0 + 1 .. c : t = rest[j].ticker
    BY DEF Run
  <2>2. j \in DOMAIN rest /\ j <= c
    BY <1>2, <1>3, <1>4, <1>7
  <2>3. a + j \in DOMAIN s /\ t = s[a + j].ticker /\ IsPrefix(p, Name(s[a + j]))
    BY <1>5, <1>7, <2>1, <2>2
  <2> QED BY <1>2, <2>3 DEF TickersIn
<1>10. ASSUME NEW t \in TickersIn(s), IsPrefix(p, Spelling[t])
       PROVE  t \in Run(rest, 0, c)
  <2>1. PICK m \in DOMAIN s : t = s[m].ticker
    BY DEF TickersIn
  <2>2. IsPrefix(p, Name(s[m])) /\ Name(s[m]) \in Seq(Nat) /\ p \in Seq(Nat)
    BY <1>2, <1>10, <2>1, TickersSpelledInOrder
  <2>3. ~ Precedes(Name(s[m]), p)
    BY <2>2, PrefixesTogether
  <2>4. m - a \in DOMAIN rest /\ a + (m - a) = m
    BY <1>2, <1>3, <1>4, <2>3
  <2>5. rest[m - a] = s[m]
    BY <1>5, <2>4
  <2>6. m - a <= c
    BY <1>7, <2>2, <2>4, <2>5
  <2>7. m - a \in 0 + 1 .. c
    BY <1>2, <1>3, <1>4, <1>7, <2>4, <2>6
  <2> QED BY <2>1, <2>5, <2>7 DEF Run
<1> QED BY <1>1, <1>8, <1>9, <1>10

-----------------------------------------------------------------------------
(* The theorems *)

LEMMA LoadedIndex ==
  ASSUME BuildInv, pc = "loaded"
  PROVE  index \in Seq(Entry) /\ StrictlySorted(index) /\ Stored = TickersIn(index)
<1>1. index \in Seq(Entry)
  BY Types DEF BuildInv
<1>2. StrictlySorted(index)
  <2>1. CASE hasOld
    BY <2>1 DEF BuildInv, OldInv, Indexes
  <2>2. CASE ~ hasOld
    <3>1. index = <<>>
      BY <2>2 DEF BuildInv, OldInv
    <3> QED BY <3>1 DEF StrictlySorted
  <2> QED BY <2>1, <2>2
<1> QED BY <1>1, <1>2 DEF Stored, TickersIn

\* A line that a position of the lines read leads to is whole.
LEMMA PositionIsWhole ==
  ASSUME NEW f \in Seq(Laid), NEW t, NEW j \in Positions(LinesOf(f), t)
  PROVE  j \in DOMAIN f /\ LinesOf(f)[j] = f[j].line
<1>1. j \in DOMAIN f /\ IsRecOf(LinesOf(f)[j], t)
      /\ LinesOf(f)[j] = IF f[j].ended THEN f[j].line ELSE Junk
  BY DEF Positions, LinesOf
<1>2. f[j].ended
  BY <1>1 DEF IsRecOf, Junk
<1> QED BY <1>1, <1>2

\* find and read_raw: an entry of the index of f reads the last line of its ticker.
LEMMA EntryReadsLast ==
  ASSUME NEW f, IsLaidOut(f), NEW s \in Seq(Entry), IsIndexOf(s, f), NEW m \in DOMAIN s
  PROVE  /\ s[m].ticker \in TickersOf(LinesOf(f))
         /\ ReadAt(f, s[m]) = LinesOf(f)[LastPosition(LinesOf(f), s[m].ticker)]
<1> DEFINE g == LinesOf(f)
           t == s[m].ticker
           j == LastPosition(g, t)
<1>1. f \in Seq(Laid) /\ DOMAIN f = 1 .. Len(f) /\ Len(f) \in Nat
  BY DEF IsLaidOut
<1>2. g \in Seq(Line)
  <2>1. \A n \in DOMAIN f : (IF f[n].ended THEN f[n].line ELSE Junk) \in Line
    BY <1>1, LaidLine DEF Line
  <2>2. g = [n \in 1 .. Len(f) |-> IF f[n].ended THEN f[n].line ELSE Junk]
    BY <1>1 DEF LinesOf
  <2> HIDE DEF g
  <2> QED BY <1>1, <2>1, <2>2
<1>3. /\ t \in DOMAIN IndexOf(g)
      /\ s[m].offset = f[IndexOf(g)[t]].at /\ s[m].len = f[IndexOf(g)[t]].len
  BY DEF IsIndexOf
<1>4. t \in TickersOf(g) /\ IndexOf(g)[t] = j
  BY <1>3 DEF IndexOf
<1> HIDE DEF t, g
<1>5. j \in Positions(g, t)
  BY <1>2, <1>4, LastPositionExists DEF TickersOf
<1>6. j \in DOMAIN f /\ g[j] = f[j].line
  BY <1>1, <1>5, PositionIsWhole DEF g
<1> HIDE DEF j
<1>7. ReadAt(f, s[m]) = f[j].line
  BY <1>3, <1>4, <1>6, ReadAtLine
<1> QED BY <1>4, <1>6, <1>7 DEF t, g, j

\* get_event of any string reads the last record of that ticker in the file, of
\* whatever length the file and the string are, and finds none if there is none.
THEOREM QueryGetEventExact == Spec => []GetEventExact
<1>1. ASSUME BuildInv, pc = "loaded", hasOld, NEW name
      PROVE  {ReadAt(file, e) : e \in Find(index, name)} =
               {LinesOf(file)[LastPosition(LinesOf(file), t)] :
                  t \in {u \in TickersOf(LinesOf(file)) : Spelling[u] = name}}
  <2> DEFINE g == LinesOf(file)
             read == {ReadAt(file, e) : e \in Find(index, name)}
             last == {g[LastPosition(g, t)] : t \in {u \in TickersOf(g) : Spelling[u] = name}}
  <2>1. IsLaidOut(file) /\ index \in Seq(Entry)
    BY <1>1, Types DEF BuildInv
  <2>2. IsIndexOf(index, file)
    BY <1>1, <2>1, IndexesIsIndex DEF BuildInv, OldInv
  <2>3. \A m \in DOMAIN index :
          /\ index[m].ticker \in TickersOf(g)
          /\ ReadAt(file, index[m]) = g[LastPosition(g, index[m].ticker)]
    BY <2>1, <2>2, EntryReadsLast
  <2>4. \A t \in TickersOf(g) : \E m \in DOMAIN index : index[m].ticker = t
    <3>1. {index[m].ticker : m \in DOMAIN index} = DOMAIN IndexOf(g)
      BY <2>2 DEF IsIndexOf
    <3>2. DOMAIN IndexOf(g) = TickersOf(g)
      BY DEF IndexOf
    <3> QED BY <3>1, <3>2
  <2> HIDE DEF g
  <2>5. ASSUME NEW l \in read PROVE l \in last
    <3>1. PICK e \in Find(index, name) : l = ReadAt(file, e)
      OBVIOUS
    <3>2. PICK m \in DOMAIN index : e = index[m] /\ Spelling[index[m].ticker] = name
      BY <3>1 DEF Find, Name
    <3> QED BY <2>3, <3>1, <3>2
  <2>6. ASSUME NEW l \in last PROVE l \in read
    <3>1. PICK t \in TickersOf(g) : Spelling[t] = name /\ l = g[LastPosition(g, t)]
      OBVIOUS
    <3>2. PICK m \in DOMAIN index : index[m].ticker = t
      BY <2>4
    <3>3. index[m] \in Find(index, name)
      BY <3>1, <3>2 DEF Find, Name
    <3> QED BY <2>3, <3>1, <3>2, <3>3
  <2>7. read = last
    BY <2>5, <2>6
  <2> QED BY <2>7 DEF g
<1>2. BuildInv => GetEventExact
  BY <1>1 DEF GetEventExact
<1> QED BY <1>2, BuildInvHolds, PTL

\* cursor_range, from any cursor and with any limit, gives the tickers next after
\* it, in order, and a next_after exactly if there are more.
THEOREM QueryCursorExact == Spec => []CursorExact
<1>1. ASSUME BuildInv, pc = "loaded", NEW after \in Strings \cup {Null}, NEW n \in Limits,
             NEW rest, rest = {t \in Stored : after = Null \/ Precedes(after, Spelling[t])}
      PROVE  /\ TickersIn(CursorRange(index, after, n).page) = First(rest, n)
             /\ StrictlySorted(CursorRange(index, after, n).page)
             /\ CursorRange(index, after, n).next = Null <=> First(rest, n) = rest
  <2>1. index \in Seq(Entry) /\ StrictlySorted(index) /\ Stored = TickersIn(index)
    BY <1>1, LoadedIndex
  <2>2. n \in Nat \ {0}
    BY QueryBounds
  <2>3. rest = Beyond(index, after)
    BY <1>1, <2>1 DEF Beyond
  <2> QED BY <2>1, <2>2, <2>3, CursorRangeExact
<1>2. BuildInv => CursorExact
  BY <1>1 DEF CursorExact
<1> QED BY <1>2, BuildInvHolds, PTL

\* prefix_range finds every ticker with the prefix between its two partition
\* points, and handle_prefix_search cuts them at the limit and says so.
THEOREM QueryPrefixExact == Spec => []PrefixExact
<1>1. ASSUME BuildInv, pc = "loaded", NEW prefix \in Strings, NEW n \in Limits,
             NEW all, all = {t \in Stored : IsPrefix(prefix, Spelling[t])}
      PROVE  /\ TickersIn(PrefixSearch(index, prefix, n).tickers) = First(all, n)
             /\ StrictlySorted(PrefixSearch(index, prefix, n).tickers)
             /\ PrefixSearch(index, prefix, n).truncated <=> First(all, n) # all
  <2> DEFINE matches == PrefixRange(index, prefix)
             page == SubSeq(matches, 1, IF n < Len(matches) THEN n ELSE Len(matches))
  <2>1. index \in Seq(Entry) /\ StrictlySorted(index) /\ Stored = TickersIn(index)
    BY <1>1, LoadedIndex
  <2>2. n \in Nat \ {0}
    BY QueryBounds
  <2>3. /\ matches \in Seq(Entry) /\ StrictlySorted(matches)
        /\ TickersIn(matches) = all
    BY <1>1, <2>1, PrefixRangeExact
  <2>4. PrefixSearch(index, prefix, n) = [tickers |-> page, truncated |-> Len(matches) > n]
    BY DEF PrefixSearch
  <2> HIDE DEF matches
  <2>5. /\ TickersIn(page) = First(TickersIn(matches), n) /\ StrictlySorted(page)
        /\ Len(matches) > n <=> First(TickersIn(matches), n) # TickersIn(matches)
    BY <2>2, <2>3, SliceIsFirst
  <2> HIDE DEF page
  <2>6. /\ PrefixSearch(index, prefix, n).tickers = page
        /\ PrefixSearch(index, prefix, n).truncated = (Len(matches) > n)
    BY <2>4
  <2> QED BY <2>3, <2>5, <2>6
<1>2. BuildInv => PrefixExact
  BY <1>1 DEF PrefixExact
<1> QED BY <1>2, BuildInvHolds, PTL
=============================================================================
