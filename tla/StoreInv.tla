------------------------------ MODULE StoreInv ------------------------------
(***************************************************************************)
(* The inductive invariant of Store.  Its heart: the inode at .tmp, the    *)
(* only one ever written, is neither at db_path, nor what a power loss may *)
(* put there, nor the file of a snapshot in use; all of these are synced.  *)
(***************************************************************************)
EXTENDS Store

\* Snapshot s says of the lines f what from_file would say of them.
ExactIn(s, f) ==
  /\ s.index = IndexOf(f)
  /\ HasMeta(f) => s.built = f[1].built

\* Inode i is allocated (below n), synced (in y) and not the one at .tmp (t).
Settled(i, y, t, n) == i \in y /\ i # t /\ i < n

Entry(i, y, t, n) == i = 0 \/ Settled(i, y, t, n)

\* Nobody serving, or a snapshot of a settled file (c: the files' lines).
Good(s, c, y, t, n) ==
  s = NoSnap \/ /\ s.ino \in Inodes /\ Settled(s.ino, y, t, n)
                /\ ExactIn(s, c[s.ino])

EntriesSettled ==
  /\ Entry(dbIno, synced, tmpIno, nextIno)
  /\ Entry(durDb, synced, tmpIno, nextIno)
  /\ tmpIno < nextIno

HeldGood ==
  /\ Good(cur, content, synced, tmpIno, nextIno)
  /\ Good(old, content, synced, tmpIno, nextIno)
  /\ \A r \in Readers : Good(pin[r], content, synced, tmpIno, nextIno)

\* What the thread knows of the file it is writing or has just renamed.
WriterKnows ==
  /\ pc \in {"pull", "pulled", "crawl", "merge", "staged"}
       => tmpIno \in Inodes /\ fresh.ino = tmpIno
  /\ pc = "renamed" => dbIno \in Inodes /\ fresh.ino = dbIno
  /\ pc \in {"pull", "crawl", "merge"} => offset = Len(content[fresh.ino])
  /\ pc \in {"pulled", "crawl", "merge", "staged", "renamed"}
       => ExactIn(fresh, content[fresh.ino])
  /\ pc \in {"crawl", "merge"} => HasMeta(content[fresh.ino])
  /\ pc \in {"pulled", "staged"} => fresh.ino \in synced
  /\ pc = "merge" => todo \subseteq DOMAIN old.index

IInv == TypeOK /\ EntriesSettled /\ HeldGood /\ WriterKnows

-----------------------------------------------------------------------------
(* What the refinement of AtomicDb needs besides *)

Booting == pc \in {"mesh", "pull", "pulled"}
Merging == pc \in {"merge", "staged"}

\* What a compaction carries forward from is what is served, and at boot, when
\* nothing is, the file at db_path.
BaseKnown ==
  /\ pc = "off" => cur = NoSnap /\ old = NoSnap
  /\ pc = "idle" => cur # NoSnap
  /\ Booting => cur = NoSnap
  /\ Booting \/ Merging \/ pc = "crawl"
       => IF cur = NoSnap THEN old.ino = dbIno ELSE old = cur

\* A ticker of old is in the new index, still to be visited, or was dropped for
\* a reason that holds for good.
MergeComplete ==
  Merging =>
    /\ asOf <= now
    /\ old = NoSnap => DOMAIN fresh.index # {}
    /\ \A t \in DOMAIN old.index :
         t \in DOMAIN fresh.index \/ t \in todo \/ Dropped(OldLine(t))
    /\ pc = "staged" => todo = {}

RInv == IInv /\ BaseKnown /\ MergeComplete

-----------------------------------------------------------------------------
(* What StampNeverRegresses needs besides *)

\* No file that is there at the start was stamped by a clock ahead of ours.
StampsInPast == \A f \in InitFiles : HasMeta(f) => f[1].built = 0

\* The stamp of file f, if it has one, is in S.
StampIn(f, S) == HasMeta(f) => f[1].built \in S

\* The stamps a file may have that replaces the one at db_path.
NotOlder ==
  {b \in 0 .. now : dbIno # 0 /\ HasMeta(content[dbIno]) => content[dbIno][1].built <= b}

Writing == pc \in {"pull", "pulled", "crawl", "merge", "staged"}

FilesStamped == \A i \in Inodes : StampIn(content[i], 0 .. now)

CandsNotOlder == Booting => \A c \in cands : c.built \in NotOlder

\* The first line of a stream decides, and until it is written the file is empty.
StreamNotOlder == pc = "pull" /\ content[fresh.ino] = <<>> => StampIn(src, NotOlder)

FileNotOlder == Writing => StampIn(content[fresh.ino], NotOlder)

StampsKnown == FilesStamped /\ CandsNotOlder /\ StreamNotOlder /\ FileNotOlder
=============================================================================
