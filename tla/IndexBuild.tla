----------------------------- MODULE IndexBuild -----------------------------
(***************************************************************************)
(* The loops that build an index, step by step and byte offset by byte     *)
(* offset: the line loop of Snapshot::from_file and dedupe_keep_last       *)
(* (database.rs), the crawl loop of full_crawl_and_compact and the two     *)
(* iterators of merge_carry_forward (refresh.rs).                          *)
(*                                                                         *)
(* LogFile says in one definition what such an index is (IndexOf), and     *)
(* Store builds on that; here the loops are shown to compute it.  One      *)
(* behaviour loads a file and then compacts it into the next one, or makes *)
(* the first one.  A write that fails leaves no index (Store's business).  *)
(***************************************************************************)
EXTENDS LogFile

CONSTANTS Files,     \* the files a load may meet
          Widths,    \* lengths of a serialised event
          CrawlEnds, \* endDates the crawl may return
          MetaLen,   \* length of the metadata line
          Now,       \* merge_carry_forward's `now`
          Grace,     \* PRUNE_GRACE_SECS
          MaxEvents  \* bound: records of one crawl

\* A line where it lies in a file: len bytes from byte at, and its newline.
Laid == [line : Line, at : Nat, len : Nat, ended : BOOLEAN]

\* The first byte after the last line, whose newline is there.
EndOf(f) == IF f = <<>> THEN 0 ELSE f[Len(f)].at + f[Len(f)].len + 1

\* Lines follow each other, and only the last can be torn.
IsLaidOut(f) ==
  /\ f \in Seq(Laid)
  /\ f # <<>> => f[1].at = 0
  /\ \A j \in 1 .. Len(f) - 1 : f[j].ended /\ f[j + 1].at = f[j].at + f[j].len + 1

ASSUME FilesAreLaidOut == \A f \in Files : IsLaidOut(f)
ASSUME WidthsAreNaturals == Widths \subseteq Nat /\ MetaLen \in Nat
ASSUME TimesAreNaturals == Now \in Nat /\ Grace \in Nat /\ MaxEvents \in Nat
ASSUME CrawlEndsAreEnds == CrawlEnds \subseteq Ends \ {Bad}

VARIABLES
  file,     \* the file that is loaded, and then compacted
  hasOld,   \* FALSE for the first crawl, which has no file
  job,      \* whose loop it is: from_file's or full_crawl_and_compact's
  pc,       \* which loop it is
  i,        \* from_file: lines read; dedupe_keep_last, merge: next of entries
  offset,   \* the offset the loop has counted
  entries,  \* the Vec<IndexEntry> in hand
  kept,     \* dedupe_keep_last: its output so far
  index,    \* the index of the snapshot of file
  out,      \* the .tmp file
  k,        \* merge_carry_forward: next of old.index
  carried   \* merge_carry_forward: carried_forward

vars == <<file, hasOld, job, pc, i, offset, entries, kept, index, out, k, carried>>

Entry == [ticker : Tickers, offset : Nat, len : Nat]

TypeOK ==
  /\ IsLaidOut(file) /\ hasOld \in BOOLEAN
  /\ job \in {"load", "compact"}
  /\ pc \in {"read", "crawl", "sort", "dedupe", "loaded", "merge", "done", "refused"}
  /\ i \in Nat /\ offset \in Nat /\ k \in Nat
  /\ {entries, kept, index, carried} \subseteq Seq(Entry)
  /\ out \in Seq(Laid)
  /\ Len(kept) <= Len(entries) /\ Len(carried) <= Len(index)

-----------------------------------------------------------------------------
(* Snapshot::from_file: the lines *)

EntryAt(t, n) == [ticker |-> t, offset |-> offset, len |-> n]

NextLine == file[i + 1]

\* read_line gives a line that ends in a newline.
ReadLine ==
  /\ pc = "read" /\ i < Len(file) /\ NextLine.ended
  /\ i' = i + 1
  /\ offset' = offset + NextLine.len + 1
  /\ UNCHANGED <<file, hasOld, job, pc, kept, index, out, k, carried>>

ReadRecord ==
  /\ ReadLine /\ NextLine.line.kind = "rec"
  /\ entries' = Append(entries, EntryAt(NextLine.line.ticker, NextLine.len))

\* The metadata line, a record without a ticker, or no JSON at all.
SkipLine ==
  /\ ReadLine /\ NextLine.line.kind # "rec"
  /\ UNCHANGED entries

\* read_line returns 0, or a torn line.
EndOfFile ==
  /\ pc = "read"
  /\ i < Len(file) => ~ NextLine.ended
  /\ pc' = "sort"
  /\ UNCHANGED <<file, hasOld, job, i, offset, entries, kept, index, out, k, carried>>

-----------------------------------------------------------------------------
(* sort_by and dedupe_keep_last *)

\* p puts s in ticker order and leaves equal tickers in the order they have.
StableOrder(s, p) ==
  /\ \A j \in DOMAIN s : \E m \in DOMAIN s : p[m] = j
  /\ \A m, n \in DOMAIN s : m < n =>
       \/ s[p[m]].ticker < s[p[n]].ticker
       \/ s[p[m]].ticker = s[p[n]].ticker /\ p[m] < p[n]

\* r is s, sorted by ticker.
IsSortOf(r, s) ==
  \E p \in [DOMAIN s -> DOMAIN s] : StableOrder(s, p) /\ r = [j \in DOMAIN s |-> s[p[j]]]

SortEntries ==
  /\ pc = "sort"
  /\ pc' = "dedupe" /\ i' = 1 /\ kept' = <<>>
  /\ IsSortOf(entries', entries)
  /\ UNCHANGED <<file, hasOld, job, offset, index, out, k, carried>>

NextIsEqual == i < Len(entries) /\ entries[i + 1].ticker = entries[i].ticker

\* Mutant: of equal tickers the first is kept.
SupersedeKeepsFirst ==
  /\ pc = "dedupe" /\ NextIsEqual
  /\ i' = i + 1
  /\ entries' = [entries EXCEPT ![i + 1] = entries[i]]
  /\ UNCHANGED <<file, hasOld, job, pc, offset, kept, index, out, k, carried>>

\* The next entry is of the same ticker and takes the place of the current one.
Supersede ==
  /\ pc = "dedupe" /\ NextIsEqual
  /\ i' = i + 1
  /\ UNCHANGED <<file, hasOld, job, pc, offset, entries, kept, index, out, k, carried>>

\* Mutant: the outer loop peeks where it should take.
KeepPeeks ==
  /\ pc = "dedupe" /\ i <= Len(entries) /\ ~ NextIsEqual
  /\ kept' = Append(kept, entries[i])
  /\ UNCHANGED <<file, hasOld, job, pc, i, offset, entries, index, out, k, carried>>

Keep ==
  /\ pc = "dedupe" /\ i <= Len(entries) /\ ~ NextIsEqual
  /\ kept' = Append(kept, entries[i])
  /\ i' = i + 1
  /\ UNCHANGED <<file, hasOld, job, pc, offset, entries, index, out, k, carried>>

\* from_file has its index.
Loaded ==
  /\ pc = "dedupe" /\ job = "load" /\ i > Len(entries)
  /\ pc' = "loaded" /\ index' = kept
  /\ UNCHANGED <<file, hasOld, job, i, offset, entries, kept, out, k, carried>>

\* The crawl is sorted and deduped: a refresh merges, a first crawl is done,
\* unless it returned nothing.
Crawled ==
  /\ pc = "dedupe" /\ job = "compact" /\ i > Len(entries)
  /\ entries' = kept /\ i' = 1 /\ k' = 1
  /\ pc' = IF hasOld THEN "merge" ELSE IF kept = <<>> THEN "refused" ELSE "done"
  /\ UNCHANGED <<file, hasOld, job, offset, kept, index, out, carried>>

-----------------------------------------------------------------------------
(* full_crawl_and_compact: the crawl *)

\* line, n bytes long, is written behind what .tmp holds.
Written(f, line, n) == Append(f, [line |-> line, at |-> EndOf(f), len |-> n, ended |-> TRUE])

\* The .tmp file is created and given its metadata line.
BeginCompaction ==
  /\ pc = "loaded"
  /\ pc' = "crawl" /\ job' = "compact"
  /\ entries' = <<>> /\ kept' = <<>>
  /\ out' = Written(<<>>, Meta(Now), MetaLen) /\ offset' = MetaLen + 1
  /\ UNCHANGED <<file, hasOld, i, index, k, carried>>

\* An event of the crawl; one with a blank ticker leaves no trace.
CrawlEvent(t, e, n) ==
  /\ pc = "crawl" /\ Len(entries) < MaxEvents
  /\ out' = Written(out, Rec(t, e), n)
  /\ entries' = Append(entries, EntryAt(t, n))
  /\ offset' = offset + n + 1
  /\ UNCHANGED <<file, hasOld, job, pc, i, kept, index, k, carried>>

\* Both passes are over, or the second has failed.
EndCrawl ==
  /\ pc = "crawl"
  /\ pc' = "sort"
  /\ UNCHANGED <<file, hasOld, job, i, offset, entries, kept, index, out, k, carried>>

-----------------------------------------------------------------------------
(* merge_carry_forward *)

\* read_raw: the bytes of f that entry e tells, which are a line of f or rubbish.
ReadAt(f, e) ==
  IF \E j \in DOMAIN f : f[j].at = e.offset /\ f[j].len = e.len
    THEN f[CHOOSE j \in DOMAIN f : f[j].at = e.offset /\ f[j].len = e.len].line
    ELSE Junk

\* No event, or an event past its grace; what is not JSON is carried as it is.
Dropped(l) ==
  \/ l.kind = "meta"
  \/ l.kind = "rec" /\ (l.end = Bad \/ Expired(l.end, Now, Grace))

\* The inner while: new_iter is behind the old ticker.
Behind == i <= Len(entries) /\ entries[i].ticker < index[k].ticker

AtOld == pc = "merge" /\ k <= Len(index)

AdvanceNew ==
  /\ AtOld /\ Behind
  /\ i' = i + 1
  /\ UNCHANGED <<file, hasOld, job, pc, offset, entries, kept, index, out, k, carried>>

AlreadyPresent == i <= Len(entries) /\ entries[i].ticker = index[k].ticker


\* The crawl has a newer record of this ticker.
VisitPresent ==
  /\ AtOld /\ ~ Behind /\ AlreadyPresent
  /\ k' = k + 1
  /\ UNCHANGED <<file, hasOld, job, pc, i, offset, entries, kept, index, out, carried>>

\* `continue`: pruned, or not an event.
DropOld ==
  /\ AtOld /\ ~ Behind /\ ~ AlreadyPresent
  /\ Dropped(ReadAt(file, index[k]))
  /\ k' = k + 1
  /\ UNCHANGED <<file, hasOld, job, pc, i, offset, entries, kept, index, out, carried>>

\* Mutant: the newline is not counted.
CarryMiscounts ==
  /\ AtOld /\ ~ Behind /\ ~ AlreadyPresent
  /\ ~ Dropped(ReadAt(file, index[k]))
  /\ out' = Written(out, ReadAt(file, index[k]), index[k].len)
  /\ carried' = Append(carried, EntryAt(index[k].ticker, index[k].len))
  /\ offset' = offset + index[k].len
  /\ k' = k + 1
  /\ UNCHANGED <<file, hasOld, job, pc, i, entries, kept, index>>

\* The record's bytes are copied.
Carry ==
  /\ AtOld /\ ~ Behind /\ ~ AlreadyPresent
  /\ ~ Dropped(ReadAt(file, index[k]))
  /\ out' = Written(out, ReadAt(file, index[k]), index[k].len)
  /\ carried' = Append(carried, EntryAt(index[k].ticker, index[k].len))
  /\ offset' = offset + index[k].len + 1
  /\ k' = k + 1
  /\ UNCHANGED <<file, hasOld, job, pc, i, entries, kept, index>>

\* Mutant: the merge ends with whichever iterator ends first.
EndMergeWithNew ==
  /\ pc = "merge" /\ (k > Len(index) \/ i > Len(entries))
  /\ pc' = "done"
  /\ IsSortOf(entries', entries \o carried)
  /\ UNCHANGED <<file, hasOld, job, i, offset, kept, index, out, k, carried>>

\* The carried entries are added and the whole sorted again.
EndMerge ==
  /\ pc = "merge" /\ k > Len(index)
  /\ pc' = "done"
  /\ IsSortOf(entries', entries \o carried)
  /\ UNCHANGED <<file, hasOld, job, i, offset, kept, index, out, k, carried>>

-----------------------------------------------------------------------------

Init ==
  /\ i = 0 /\ k = 1 /\ offset = 0
  /\ entries = <<>> /\ kept = <<>> /\ index = <<>> /\ out = <<>> /\ carried = <<>>
  /\ job = "load"
  /\ \/ file \in Files /\ hasOld = TRUE /\ pc = "read"
     \/ file = <<>> /\ hasOld = FALSE /\ pc = "loaded"

Next ==
  \/ ReadRecord \/ SkipLine \/ EndOfFile \/ SortEntries \/ Supersede \/ Keep \/ Loaded \/ Crawled
  \/ BeginCompaction \/ EndCrawl
  \/ \E t \in Tickers, e \in CrawlEnds, n \in Widths : CrawlEvent(t, e, n)
  \/ AdvanceNew \/ VisitPresent \/ DropOld \/ Carry \/ EndMerge

Spec == Init /\ [][Next]_vars

-----------------------------------------------------------------------------
(* Properties *)

\* The lines of f as from_file takes them: a torn one is no record.
LinesOf(f) == [j \in DOMAIN f |-> IF f[j].ended THEN f[j].line ELSE Junk]

StrictlySorted(s) == \A m, n \in DOMAIN s : m < n => s[m].ticker < s[n].ticker

\* s is the index of f as LogFile defines it: in ticker order, each ticker once,
\* with the bytes of its last line.
IsIndexOf(s, f) ==
  /\ StrictlySorted(s)
  /\ {s[m].ticker : m \in DOMAIN s} = DOMAIN IndexOf(LinesOf(f))
  /\ \A m \in DOMAIN s :
       LET l == f[IndexOf(LinesOf(f))[s[m].ticker]]
       IN  s[m].offset = l.at /\ s[m].len = l.len

\* A load finds every ticker of the file, once, at the bytes of its last record,
\* whatever bad lines, duplicates and torn ends are between.
LoadedExactly == pc = "loaded" /\ hasOld => IsIndexOf(index, file)

\* The index a compaction publishes without reading its file again is the one a
\* restart will read from that file: no entry points beside its line, and a
\* record that was carried never hides one that was crawled.
PublishedIsReloaded == pc = "done" => IsIndexOf(entries, out)

\* A compaction evicts no ticker but those whose record is past its grace or no
\* event, and carries the others' records unchanged unless the crawl has newer.
NothingEvicted ==
  pc = "done" => \A m \in DOMAIN index :
    LET l == ReadAt(file, index[m])
    IN  ~ Dropped(l) => \E n \in DOMAIN entries :
          /\ entries[n].ticker = index[m].ticker
          /\ (\E c \in DOMAIN carried : carried[c] = entries[n]) => ReadAt(out, entries[n]) = l
=============================================================================
