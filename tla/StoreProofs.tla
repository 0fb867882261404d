---------------------------- MODULE StoreProofs ----------------------------
(***************************************************************************)
(* The proof that IInv is an invariant of Store, and what follows from it; *)
(* then that Store implements AtomicDb, and that the stamp of the file at  *)
(* db_path never goes back.                                                *)
(***************************************************************************)
EXTENDS StoreInv, LogFileProofs

-----------------------------------------------------------------------------
(* Types of what the snapshots are made of *)

LEMMA IndexTyped ==
  ASSUME NEW f \in Seq(Line)
  PROVE  DOMAIN IndexOf(f) \subseteq Tickers /\ IndexOf(f) \in [DOMAIN IndexOf(f) -> Nat]
<1>1. \A t \in DOMAIN IndexOf(f) : t \in Tickers /\ IndexOf(f)[t] \in Nat
  BY IndexLeadsToRecord
<1>2. IndexOf(f) = [t \in DOMAIN IndexOf(f) |-> IndexOf(f)[t]]
  BY DEF IndexOf
<1> QED BY <1>1, <1>2

LEMMA BuiltTyped ==
  ASSUME NEW f \in Seq(Line), NEW mtime \in Nat
  PROVE  BuiltOf(f, mtime) \in Nat /\ (HasMeta(f) => BuiltOf(f, mtime) = f[1].built)
<1>1. HasMeta(f) => f[1] \in Line /\ f[1].kind = "meta"
  BY DEF HasMeta
<1>2. HasMeta(f) => f[1].built \in Nat
  BY <1>1 DEF Line, Junk
<1> QED BY <1>2 DEF BuiltOf

LEMMA LoadedIsSnapshot ==
  ASSUME TypeOK, NEW i \in Inodes, NEW mtime \in Nat
  PROVE  /\ IsSnapshot(FromFile(i, mtime))
         /\ FromFile(i, mtime).ino = i
         /\ ExactIn(FromFile(i, mtime), content[i])
<1>1. content[i] \in Seq(Line)
  BY DEF TypeOK
<1>2. /\ DOMAIN IndexOf(content[i]) \subseteq Tickers
      /\ IndexOf(content[i]) \in [DOMAIN IndexOf(content[i]) -> Nat]
  BY <1>1, IndexTyped
<1>3. /\ BuiltOf(content[i], mtime) \in Nat
      /\ HasMeta(content[i]) => BuiltOf(content[i], mtime) = content[i][1].built
  BY <1>1, BuiltTyped
<1> QED BY <1>2, <1>3 DEF FromFile, IsSnapshot, ExactIn

LEMMA UpsertTyped ==
  ASSUME NEW s, IsSnapshot(s), NEW t \in Tickers, NEW k \in Nat,
         NEW z, z = [ino |-> s.ino, built |-> s.built, index |-> Upsert(s.index, t, k)]
  PROVE  IsSnapshot(z)
<1>1. DOMAIN Upsert(s.index, t, k) = DOMAIN s.index \cup {t}
  BY DEF Upsert
<1>2. Upsert(s.index, t, k) \in [DOMAIN Upsert(s.index, t, k) -> Nat]
  BY <1>1 DEF Upsert, IsSnapshot
<1> QED BY <1>1, <1>2 DEF IsSnapshot

LEMMA NoSnapIsSnapshot == IsSnapshot(NoSnap)
BY DEF IsSnapshot, NoSnap

LEMMA EmptySnapshot ==
  ASSUME NEW i \in Inodes, NEW b \in Nat
  PROVE  IsSnapshot([ino |-> i, index |-> [t \in {} |-> 0], built |-> b])
BY DEF IsSnapshot

-----------------------------------------------------------------------------
(* Settled files stay settled, and keep their lines *)

FilesKept(c, y, t, n, c2, y2, t2, n2) ==
  \A i \in Inodes : Settled(i, y, t, n) => Settled(i, y2, t2, n2) /\ c2[i] = c[i]

\* A snapshot of a settled file stays exact when settled files are kept.
LEMMA GoodKept ==
  ASSUME NEW s, NEW c, NEW y, NEW t, NEW n, NEW c2, NEW y2, NEW t2, NEW n2,
         Good(s, c, y, t, n), FilesKept(c, y, t, n, c2, y2, t2, n2)
  PROVE  Good(s, c2, y2, t2, n2)
BY DEF Good, FilesKept

LEMMA EntryKept ==
  ASSUME NEW i \in Inodes \cup {0}, NEW c, NEW y, NEW t, NEW n, NEW c2, NEW y2, NEW t2, NEW n2,
         Entry(i, y, t, n), FilesKept(c, y, t, n, c2, y2, t2, n2)
  PROVE  Entry(i, y2, t2, n2)
BY DEF Entry, FilesKept

\* The settled files of this state are settled, with the same lines, in the next.
Kept == FilesKept(content, synced, tmpIno, nextIno, content', synced', tmpIno', nextIno')

LEMMA KeptByReading ==
  ASSUME UNCHANGED disk
  PROVE  Kept
BY DEF Kept, FilesKept, Settled, disk

LEMMA KeptByCreate ==
  ASSUME TypeOK, EntriesSettled, NEW i \in Inodes, NEW f, CreateTmp(i, f)
  PROVE  Kept /\ i = tmpIno' /\ tmpIno' < nextIno' /\ content'[i] = f
BY DEF Kept, FilesKept, Settled, CreateTmp, TypeOK, EntriesSettled, Inodes

LEMMA KeptByWrite ==
  ASSUME TypeOK, fresh.ino = tmpIno, NEW l, WriteLine(l)
  PROVE  Kept
BY DEF Kept, FilesKept, Settled, WriteLine, TypeOK, Inodes

LEMMA KeptBySync ==
  ASSUME TypeOK, SyncFresh
  PROVE  Kept
BY DEF Kept, FilesKept, Settled, SyncFresh

LEMMA KeptByRename ==
  ASSUME TypeOK, RenameTmp
  PROVE  Kept
BY DEF Kept, FilesKept, Settled, RenameTmp, Inodes

LEMMA KeptByRemove ==
  ASSUME TypeOK, RemoveTmp
  PROVE  Kept
BY DEF Kept, FilesKept, Settled, RemoveTmp, Inodes

\* What a step has to say of the directory and of the snapshots it keeps.
LEMMA HeldKept ==
  ASSUME IInv, Kept, UNCHANGED <<cur, pin>>, old' \in {old, cur, NoSnap}
  PROVE  HeldGood'
<1>1. Good(cur, content', synced', tmpIno', nextIno')
  BY GoodKept DEF IInv, HeldGood, Kept
<1>2. Good(old', content', synced', tmpIno', nextIno')
  <2>1. CASE old' = NoSnap
    BY <2>1 DEF Good
  <2>2. CASE old' = cur
    BY <2>2, <1>1
  <2>3. CASE old' = old
    <3>1. Good(old, content', synced', tmpIno', nextIno')
      BY GoodKept DEF IInv, HeldGood, Kept
    <3> QED BY <3>1, <2>3
  <2> QED BY <2>1, <2>2, <2>3
<1>3. \A r \in Readers : Good(pin[r], content', synced', tmpIno', nextIno')
  BY GoodKept DEF IInv, HeldGood, Kept
<1> QED BY <1>1, <1>2, <1>3 DEF HeldGood

LEMMA EntriesKept ==
  ASSUME IInv, Kept, UNCHANGED <<dbIno, durDb>>, tmpIno' < nextIno'
  PROVE  EntriesSettled'
<1>1. Entry(dbIno, synced', tmpIno', nextIno') /\ Entry(durDb, synced', tmpIno', nextIno')
  BY EntryKept DEF IInv, EntriesSettled, TypeOK, Kept
<1> QED BY <1>1 DEF EntriesSettled

-----------------------------------------------------------------------------
(* Types after the file system calls *)

DiskTyped ==
  /\ content \in [Inodes -> Seq(Line)]
  /\ synced \subseteq Inodes
  /\ {dbIno, durDb, tmpIno} \subseteq {0} \cup Inodes
  /\ nextIno \in 1 .. MaxInodes + 1

LEMMA CreateTyped ==
  ASSUME TypeOK, NEW i \in Inodes, NEW f \in Seq(Line), CreateTmp(i, f)
  PROVE  DiskTyped'
BY BoundsAreNaturals DEF DiskTyped, TypeOK, CreateTmp, Inodes

LEMMA WriteTyped ==
  ASSUME TypeOK, NEW l \in Line, fresh.ino \in Inodes,
         offset = Len(content[fresh.ino]), WriteLine(l)
  PROVE  /\ DiskTyped'
         /\ offset' \in Nat
         /\ content'[fresh.ino] = WriteAt(content[fresh.ino], Len(content[fresh.ino]) + 1, l)
         /\ offset' = Len(content'[fresh.ino])
<1> DEFINE g == WriteAt(content[fresh.ino], Len(content[fresh.ino]) + 1, l)
<1>1. content \in [Inodes -> Seq(Line)] /\ content[fresh.ino] \in Seq(Line)
  BY DEF TypeOK
<1>2. g \in Seq(Line) /\ Len(g) = offset + 1
  BY <1>1, WriteAtEnd
<1>3. content' = [content EXCEPT ![fresh.ino] = g]
  BY DEF WriteLine
<1>4. content' \in [Inodes -> Seq(Line)] /\ content'[fresh.ino] = g
  BY <1>1, <1>2, <1>3
<1> QED BY <1>2, <1>4 DEF WriteLine, DiskTyped, TypeOK

\* A line more in a file that has a line leaves its first line alone.
LEMMA FirstLineStays ==
  ASSUME NEW f \in Seq(Line), NEW l \in Line, HasMeta(f)
  PROVE  /\ HasMeta(WriteAt(f, Len(f) + 1, l))
         /\ WriteAt(f, Len(f) + 1, l)[1] = f[1]
<1> DEFINE g == WriteAt(f, Len(f) + 1, l)
<1>1. Len(f) \in Nat /\ 1 \in 1 .. Len(f)
  BY DEF HasMeta
<1>2. Len(g) = Len(f) + 1 /\ \A j \in 1 .. Len(f) : g[j] = f[j]
  BY WriteAtEnd
<1>3. Len(g) > 0 /\ g[1] = f[1]
  BY <1>1, <1>2
<1> QED BY <1>3 DEF HasMeta

LEMMA SyncTyped ==
  ASSUME TypeOK, fresh.ino \in Inodes, SyncFresh
  PROVE  DiskTyped'
BY DEF DiskTyped, TypeOK, SyncFresh

LEMMA RenameTyped ==
  ASSUME TypeOK, RenameTmp
  PROVE  DiskTyped' /\ dbIno' \in Inodes
BY DEF DiskTyped, TypeOK, RenameTmp, Inodes

LEMMA DelayTyped ==
  ASSUME now \in Nat, NEW b \in Nat
  PROVE  Delay(b) \in Nat
BY TimesAreNaturals DEF Delay, Age

LEMMA NowTyped ==
  ASSUME TypeOK
  PROVE  now \in Nat
BY TimesAreNaturals DEF TypeOK

-----------------------------------------------------------------------------
(* The induction: the initial states *)

LEMMA InitIInv == Init => IInv
<1> SUFFICES ASSUME Init PROVE IInv
  OBVIOUS
<1>1. content \in [Inodes -> Seq(Line)]
  <2>1. << >> \in Seq(Line)
    OBVIOUS
  <2> QED BY <2>1, FilesAreLines DEF Init
<1>2. /\ synced \subseteq Inodes /\ nextIno \in 1 .. MaxInodes + 1
      /\ {dbIno, durDb, tmpIno} \subseteq {0} \cup Inodes
      /\ EntriesSettled
  BY BoundsAreNaturals DEF Init, Inodes, EntriesSettled, Entry, Settled
<1>3. IsSnapshot(NoSnap)
  BY NoSnapIsSnapshot
<1>4. /\ now \in 0 .. MaxNow /\ pc = "off" /\ offset = 0 /\ todo = {} /\ asOf = 0
      /\ cands = {} /\ src = << >> /\ wake = 0 /\ pin = [r \in Readers |-> NoSnap]
      /\ cur = NoSnap /\ old = NoSnap /\ fresh = NoSnap /\ agent = NoAgent
  BY TimesAreNaturals DEF Init
<1>5. TypeOK
  BY <1>1, <1>2, <1>3, <1>4 DEF TypeOK, Phases
<1>6. HeldGood
  BY <1>4 DEF HeldGood, Good
<1>7. WriterKnows
  BY <1>4 DEF WriterKnows
<1> QED BY <1>2, <1>5, <1>6, <1>7 DEF IInv

-----------------------------------------------------------------------------
(* The induction: what ends the process *)

\* Whatever becomes of the directory, a process that is gone knows nothing.
LEMMA GoneKeepsIInv ==
  ASSUME TypeOK, ProcessGone, DiskTyped', EntriesSettled', UNCHANGED now
  PROVE  IInv'
<1>1. IsSnapshot(NoSnap)
  BY NoSnapIsSnapshot
<1>2. TypeOK'
  BY <1>1 DEF TypeOK, DiskTyped, ProcessGone, JobDone, Phases
<1>3. HeldGood'
  BY DEF HeldGood, Good, ProcessGone, JobDone
<1>4. WriterKnows'
  BY DEF WriterKnows, ProcessGone
<1> QED BY <1>2, <1>3, <1>4 DEF IInv

LEMMA KillKeepsIInv ==
  ASSUME IInv, Kill
  PROVE  IInv'
<1>1. DiskTyped' /\ EntriesSettled'
  BY DEF Kill, disk, IInv, TypeOK, DiskTyped, EntriesSettled, Entry, Settled
<1> QED BY <1>1, GoneKeepsIInv DEF Kill, IInv

LEMMA PowerLossKeepsIInv ==
  ASSUME IInv, PowerLoss
  PROVE  IInv'
<1>1. content' \in [Inodes -> Seq(Line)]
  <2>1. PICK k \in 0 .. MaxEvents + 1 :
          content' = [i \in Inodes |->
                        IF i \in synced \/ k > Len(content[i]) THEN content[i]
                                                               ELSE SubSeq(content[i], 1, k)]
    BY DEF PowerLoss
  <2>2. ASSUME NEW f \in Seq(Line), ~ k > Len(f)
        PROVE  SubSeq(f, 1, k) \in Seq(Line)
    BY <2>2, BoundsAreNaturals
  <2> QED BY <2>1, <2>2 DEF IInv, TypeOK
<1>2. DiskTyped'
  BY <1>1 DEF PowerLoss, IInv, TypeOK, DiskTyped
<1>3. EntriesSettled'
  BY BoundsAreNaturals DEF PowerLoss, IInv, TypeOK, EntriesSettled, Entry, Settled, Inodes
<1> QED BY <1>2, <1>3, GoneKeepsIInv DEF PowerLoss, IInv

-----------------------------------------------------------------------------
(* The induction: steps that leave the files alone *)

\* The files, the directory and the snapshots kept: only the writer's knowledge
\* and the types are left to show.
LEMMA DiskUnchanged ==
  ASSUME IInv, UNCHANGED disk
  PROVE  DiskTyped' /\ EntriesSettled' /\ Kept
<1>1. Kept
  BY KeptByReading
<1> QED BY <1>1 DEF disk, IInv, TypeOK, DiskTyped, EntriesSettled, Entry, Settled

LEMMA TickKeepsIInv ==
  ASSUME IInv, Tick
  PROVE  IInv'
<1>1. TypeOK'
  BY TimesAreNaturals DEF Tick, disk, job, mesh, IInv, TypeOK
<1>2. DiskTyped' /\ EntriesSettled' /\ Kept
  BY DiskUnchanged DEF Tick
<1>3. HeldGood'
  BY <1>2, HeldKept DEF Tick, job
<1>4. WriterKnows'
  BY DEF Tick, disk, job, mesh, IInv, WriterKnows
<1> QED BY <1>1, <1>2, <1>3, <1>4 DEF IInv

LEMMA StutterKeepsIInv ==
  ASSUME IInv, UNCHANGED vars
  PROVE  IInv'
<1>1. TypeOK'
  BY DEF vars, disk, job, mesh, IInv, TypeOK
<1>2. DiskTyped' /\ EntriesSettled' /\ Kept
  BY DiskUnchanged DEF vars
<1>3. HeldGood'
  BY <1>2, HeldKept DEF vars, job
<1>4. WriterKnows'
  BY DEF vars, disk, job, mesh, IInv, WriterKnows
<1> QED BY <1>1, <1>2, <1>3, <1>4 DEF IInv

LEMMA PinKeepsIInv ==
  ASSUME IInv, NEW r \in Readers, Pin(r) \/ Unpin(r)
  PROVE  IInv'
<1>1. pin' = [pin EXCEPT ![r] = cur] \/ pin' = [pin EXCEPT ![r] = NoSnap]
  BY DEF Pin, Unpin
<1>2. DOMAIN pin' = Readers /\ \A q \in Readers : pin'[q] \in {pin[q], cur, NoSnap}
  BY <1>1 DEF IInv, TypeOK
<1>3. /\ UNCHANGED <<now, disk, pc, cur, job, mesh, agent, wake>>
  BY DEF Pin, Unpin
<1>4. TypeOK'
  BY <1>2, <1>3, NoSnapIsSnapshot DEF disk, job, mesh, IInv, TypeOK
<1>5. DiskTyped' /\ EntriesSettled' /\ Kept
  BY <1>3, DiskUnchanged
<1>6. HeldGood'
  <2>1. ASSUME NEW q \in Readers
        PROVE  Good(pin'[q], content, synced, tmpIno, nextIno)
    BY <1>2 DEF IInv, HeldGood, Good
  <2> QED BY <2>1, <1>3 DEF disk, job, IInv, HeldGood
<1>7. WriterKnows'
  BY <1>3 DEF disk, job, mesh, IInv, WriterKnows
<1> QED BY <1>4, <1>5, <1>6, <1>7 DEF IInv

LEMMA DirCommitKeepsIInv ==
  ASSUME IInv, DirCommit
  PROVE  IInv'
<1>1. TypeOK'
  BY DEF DirCommit, job, mesh, IInv, TypeOK
<1>2. EntriesSettled'
  BY DEF DirCommit, IInv, EntriesSettled, Entry, Settled
<1>3. Kept
  BY DEF DirCommit, Kept, FilesKept, Settled
<1>4. HeldGood'
  BY <1>3, HeldKept DEF DirCommit, job
<1>5. WriterKnows'
  BY DEF DirCommit, job, mesh, IInv, WriterKnows
<1> QED BY <1>1, <1>2, <1>4, <1>5 DEF IInv

-----------------------------------------------------------------------------
(* The induction: boot and mesh pull *)

\* A file loaded from db_path is a good snapshot: db_path is a settled entry.
LEMMA LoadedIsGood ==
  ASSUME IInv, dbIno # 0, NEW mtime \in 0 .. now
  PROVE  /\ IsSnapshot(FromFile(dbIno, mtime))
         /\ Good(FromFile(dbIno, mtime), content, synced, tmpIno, nextIno)
         /\ FromFile(dbIno, mtime).built \in Nat
<1>1. dbIno \in Inodes /\ Settled(dbIno, synced, tmpIno, nextIno) /\ mtime \in Nat
  BY NowTyped DEF IInv, TypeOK, EntriesSettled, Entry
<1>2. /\ IsSnapshot(FromFile(dbIno, mtime))
      /\ FromFile(dbIno, mtime).ino = dbIno
      /\ ExactIn(FromFile(dbIno, mtime), content[dbIno])
  BY <1>1, LoadedIsSnapshot DEF IInv
<1> QED BY <1>1, <1>2 DEF Good, IsSnapshot

LEMMA BootFreshKeepsIInv ==
  ASSUME IInv, BootFresh
  PROVE  IInv'
<1>1. PICK mtime \in 0 .. now : Serve(FromFile(dbIno, mtime), Delay(FromFile(dbIno, mtime).built))
  BY DEF BootFresh
<1> DEFINE s == FromFile(dbIno, mtime)
<1>2. /\ IsSnapshot(s) /\ Good(s, content, synced, tmpIno, nextIno) /\ s.built \in Nat
  BY LoadedIsGood DEF BootFresh
<1>3. Delay(s.built) \in Nat /\ now \in Nat
  BY <1>2, DelayTyped, NowTyped DEF IInv
<1>4. cur' = s /\ wake' \in Nat /\ pc' = "idle"
  BY <1>1, <1>3 DEF Serve
<1>5. UNCHANGED <<now, disk, job, mesh, agent, pin>>
  BY DEF BootFresh
<1> HIDE DEF s
<1>6. TypeOK'
  BY <1>2, <1>4, <1>5 DEF disk, job, mesh, IInv, TypeOK, Phases
<1>7. EntriesSettled'
  BY <1>5, DiskUnchanged
<1>8. HeldGood'
  BY <1>2, <1>4, <1>5 DEF disk, job, IInv, HeldGood
<1>9. WriterKnows'
  BY <1>4 DEF WriterKnows
<1> QED BY <1>6, <1>7, <1>8, <1>9 DEF IInv

LEMMA QueryTyped ==
  ASSUME TypeOK, QueryPeers
  PROVE  cands' \subseteq Candidate
<1>1. ASSUME NEW f \in PeerFiles, HasMeta(f)
      PROVE  f[1].built \in Nat
  <2>1. f \in Seq(Line)
    BY FilesAreLines
  <2>2. BuiltOf(f, 0) \in Nat /\ BuiltOf(f, 0) = f[1].built
    BY <1>1, <2>1, BuiltTyped
  <2> QED BY <2>2
<1>2. PICK who \in SUBSET Peers : \E b \in [who -> ReportedStamps] :
        cands' = {[peer |-> p, built |-> b[p]] : p \in who}
  BY DEF QueryPeers
<1>3. PICK b \in [who -> ReportedStamps] : cands' = {[peer |-> p, built |-> b[p]] : p \in who}
  BY <1>2
<1>4. ReportedStamps \subseteq Nat
  BY <1>1 DEF ReportedStamps
<1>5. ASSUME NEW p \in who
      PROVE  [peer |-> p, built |-> b[p]] \in Candidate
  <2>1. b[p] \in Nat /\ p \in Peers
    BY <1>3, <1>4
  <2> QED BY <2>1 DEF Candidate
<1> QED BY <1>3, <1>5

LEMMA BootStaleKeepsIInv ==
  ASSUME IInv, BootStale
  PROVE  IInv'
<1>1. PICK mtime \in 0 .. now : old' = FromFile(dbIno, mtime)
  BY DEF BootStale
<1>2. IsSnapshot(old') /\ Good(old', content, synced, tmpIno, nextIno)
  BY <1>1, LoadedIsGood DEF BootStale
<1>3. cands' \subseteq Candidate
  BY QueryTyped DEF BootStale, IInv
<1>4. /\ pc' = "mesh"
      /\ UNCHANGED <<now, disk, cur, fresh, offset, todo, asOf, src, agent, wake, pin>>
  BY DEF BootStale
<1>5. TypeOK'
  BY <1>2, <1>3, <1>4 DEF disk, IInv, TypeOK, Phases
<1>6. EntriesSettled'
  BY <1>4, DiskUnchanged
<1>7. HeldGood'
  BY <1>2, <1>4 DEF disk, IInv, HeldGood
<1>8. WriterKnows'
  BY <1>4 DEF WriterKnows
<1> QED BY <1>5, <1>6, <1>7, <1>8 DEF IInv

LEMMA ToMeshKeepsIInv ==
  ASSUME IInv, BootMissing \/ PullDeclined
  PROVE  IInv'
<1>1. cands' \subseteq Candidate
  BY QueryTyped DEF BootMissing, PullDeclined, IInv, TypeOK
<1>2. pc' = "mesh" /\ UNCHANGED <<now, disk, cur, job, src, agent, wake, pin>>
  BY DEF BootMissing, PullDeclined
<1>3. TypeOK'
  BY <1>1, <1>2 DEF disk, job, IInv, TypeOK, Phases
<1>4. EntriesSettled' /\ Kept
  BY <1>2, DiskUnchanged
<1>5. HeldGood'
  BY <1>2, <1>4, HeldKept DEF job
<1>6. WriterKnows'
  BY <1>2 DEF WriterKnows
<1> QED BY <1>3, <1>4, <1>5, <1>6 DEF IInv

LEMMA PullStartKeepsIInv ==
  ASSUME IInv, PullStart
  PROVE  IInv'
<1>1. PICK f \in PeerFiles, i \in Inodes :
        /\ CreateTmp(i, << >>)
        /\ cands' \subseteq cands
        /\ src' = f
        /\ fresh' = [ino |-> i, index |-> [t \in {} |-> 0], built |-> 0]
  BY DEF PullStart
<1>2. << >> \in Seq(Line) /\ f \in Seq(Line)
  BY FilesAreLines
<1>3. DiskTyped' /\ UNCHANGED <<dbIno, durDb>>
  BY <1>1, <1>2, CreateTyped DEF IInv, CreateTmp
<1>4. Kept /\ i = tmpIno' /\ tmpIno' < nextIno' /\ content'[i] = << >>
  BY <1>1, KeptByCreate DEF IInv
<1>5. IsSnapshot(fresh') /\ fresh'.ino = i
  BY <1>1, EmptySnapshot
<1>6. offset' = 0 /\ pc' = "pull" /\ UNCHANGED <<now, cur, old, todo, asOf, agent, wake, pin>>
  BY DEF PullStart
<1>7. TypeOK'
  BY <1>1, <1>2, <1>3, <1>5, <1>6 DEF IInv, TypeOK, DiskTyped, Phases
<1>8. EntriesSettled'
  BY <1>3, <1>4, EntriesKept
<1>9. HeldGood'
  BY <1>4, <1>6, HeldKept
<1>10. WriterKnows'
  BY <1>4, <1>5, <1>6 DEF WriterKnows
<1> QED BY <1>7, <1>8, <1>9, <1>10 DEF IInv

\* A step that only writes a line to the file at .tmp.
LEMMA WriteKeeps ==
  ASSUME IInv, pc \in {"pull", "crawl", "merge"}, NEW l \in Line, WriteLine(l),
         UNCHANGED <<cur, old, pin>>
  PROVE  /\ DiskTyped' /\ EntriesSettled' /\ HeldGood'
         /\ fresh.ino \in Inodes /\ tmpIno' = fresh.ino
         /\ offset' \in Nat /\ offset' = Len(content'[fresh.ino])
         /\ content'[fresh.ino] = WriteAt(content[fresh.ino], Len(content[fresh.ino]) + 1, l)
<1>1. fresh.ino \in Inodes /\ fresh.ino = tmpIno /\ offset = Len(content[fresh.ino])
  BY DEF IInv, WriterKnows
<1>2. Kept
  BY <1>1, KeptByWrite DEF IInv
<1>3. HeldGood'
  BY <1>2, HeldKept
<1>4. EntriesSettled'
  BY <1>2, EntriesKept DEF WriteLine, IInv, EntriesSettled
<1>5. tmpIno' = fresh.ino
  BY <1>1 DEF WriteLine
<1> QED BY <1>1, <1>3, <1>4, <1>5, WriteTyped DEF IInv

LEMMA PullChunkKeepsIInv ==
  ASSUME IInv, PullChunk
  PROVE  IInv'
<1>1. src \in Seq(Line) /\ src # << >>
  BY DEF PullChunk, IInv, TypeOK
<1>2. Head(src) \in Line /\ src' \in Seq(Line)
  BY <1>1 DEF PullChunk
<1>3. /\ DiskTyped' /\ EntriesSettled' /\ HeldGood'
      /\ fresh.ino \in Inodes /\ tmpIno' = fresh.ino
      /\ offset' \in Nat /\ offset' = Len(content'[fresh.ino])
  BY <1>2, WriteKeeps DEF PullChunk
<1>4. UNCHANGED <<now, pc, cur, old, fresh, todo, asOf, cands, agent, wake, pin>>
  BY DEF PullChunk
<1>5. TypeOK'
  BY <1>2, <1>3, <1>4 DEF IInv, TypeOK, DiskTyped
<1>6. WriterKnows'
  BY <1>3, <1>4 DEF PullChunk, WriterKnows
<1> QED BY <1>3, <1>5, <1>6 DEF IInv

\* sync_all on the file at .tmp: it is allocated, and now it is synced.
LEMMA SyncKeeps ==
  ASSUME IInv, pc \in {"pull", "merge"}, SyncFresh, UNCHANGED <<cur, old, pin>>
  PROVE  /\ DiskTyped' /\ EntriesSettled' /\ HeldGood'
         /\ tmpIno \in Inodes /\ fresh.ino = tmpIno
         /\ tmpIno' = tmpIno /\ tmpIno \in synced' /\ content' = content
<1>1. fresh.ino = tmpIno /\ tmpIno \in Inodes
  BY DEF IInv, WriterKnows
<1>2. DiskTyped' /\ Kept
  BY <1>1, SyncTyped, KeptBySync DEF IInv
<1>3. EntriesSettled' /\ HeldGood'
  BY <1>2, EntriesKept, HeldKept DEF SyncFresh, IInv, EntriesSettled
<1> QED BY <1>1, <1>2, <1>3 DEF SyncFresh

LEMMA PullSyncKeepsIInv ==
  ASSUME IInv, PullSync
  PROVE  IInv'
<1>1. /\ SyncFresh /\ fresh' = FromFile(tmpIno, now) /\ pc' = "pulled"
      /\ UNCHANGED <<now, cur, old, offset, todo, asOf, cands, src, agent, wake, pin>>
  BY DEF PullSync, mesh
<1>2. /\ DiskTyped' /\ EntriesSettled' /\ HeldGood'
      /\ tmpIno \in Inodes /\ tmpIno' = tmpIno /\ tmpIno \in synced' /\ content' = content
  BY <1>1, SyncKeeps DEF PullSync
<1>3. now \in Nat
  BY NowTyped DEF IInv
<1>4. IsSnapshot(fresh') /\ fresh'.ino = tmpIno /\ ExactIn(fresh', content[tmpIno])
  BY <1>1, <1>2, <1>3, LoadedIsSnapshot DEF IInv
<1>5. TypeOK'
  BY <1>1, <1>2, <1>4 DEF IInv, TypeOK, DiskTyped, Phases
<1>6. WriterKnows'
  BY <1>1, <1>2, <1>4 DEF WriterKnows
<1> QED BY <1>2, <1>5, <1>6 DEF IInv

\* The rename puts the file at .tmp, synced, at db_path.
LEMMA RenameKeeps ==
  ASSUME IInv, pc \in {"pulled", "staged"}, RenameTmp
  PROVE  /\ DiskTyped' /\ EntriesSettled' /\ Kept
         /\ dbIno' = fresh.ino /\ dbIno' \in Inodes
         /\ Settled(dbIno', synced', tmpIno', nextIno')
         /\ content' = content
<1>1. /\ tmpIno \in Inodes /\ fresh.ino = tmpIno /\ fresh.ino \in synced
      /\ tmpIno < nextIno
  BY DEF IInv, WriterKnows, EntriesSettled
<1>2. /\ dbIno' = tmpIno /\ tmpIno' = 0
      /\ UNCHANGED <<content, synced, durDb, nextIno>>
  BY DEF RenameTmp
<1>3. Settled(dbIno', synced', tmpIno', nextIno')
  BY <1>1, <1>2 DEF Settled, Inodes
<1>4. Kept
  BY KeptByRename DEF IInv
<1>5. Entry(durDb', synced', tmpIno', nextIno')
  BY <1>2, <1>4, EntryKept DEF Kept, IInv, TypeOK, EntriesSettled
<1>6. tmpIno' < nextIno'
  BY <1>1, <1>2 DEF Inodes, IInv, TypeOK
<1>7. EntriesSettled'
  BY <1>3, <1>5, <1>6 DEF EntriesSettled, Entry
<1> QED BY <1>1, <1>2, <1>3, <1>4, <1>7, RenameTyped DEF IInv

LEMMA PullInstallKeepsIInv ==
  ASSUME IInv, PullInstall
  PROVE  IInv'
<1>1. /\ RenameTmp /\ JobDone /\ cands' = {} /\ src' = << >>
      /\ cur' = fresh /\ wake' = now + Delay(fresh.built) /\ pc' = "idle"
      /\ UNCHANGED <<now, agent, pin>>
  BY DEF PullInstall, Serve
<1>2. /\ DiskTyped' /\ EntriesSettled' /\ Kept
      /\ dbIno' = fresh.ino /\ dbIno' \in Inodes
      /\ Settled(dbIno', synced', tmpIno', nextIno')
      /\ content' = content
  BY <1>1, RenameKeeps DEF PullInstall
<1>3. IsSnapshot(fresh) /\ fresh.built \in Nat /\ now \in Nat
  BY NowTyped DEF IInv, TypeOK, IsSnapshot
<1>4. wake' \in Nat
  <2>1. Delay(fresh.built) \in Nat
    BY <1>3, DelayTyped
  <2> QED BY <1>1, <1>3, <2>1
<1>5. TypeOK'
  BY <1>1, <1>2, <1>3, <1>4, NoSnapIsSnapshot DEF IInv, TypeOK, DiskTyped, JobDone, Phases
<1>6. Good(cur', content', synced', tmpIno', nextIno')
  BY <1>1, <1>2 DEF Good, PullInstall, IInv, WriterKnows
<1>7. \A r \in Readers : Good(pin[r], content', synced', tmpIno', nextIno')
  BY <1>2, GoodKept DEF IInv, HeldGood, Kept
<1>8. HeldGood'
  BY <1>1, <1>6, <1>7 DEF HeldGood, Good, JobDone
<1>9. WriterKnows'
  BY <1>1 DEF WriterKnows
<1> QED BY <1>2, <1>5, <1>8, <1>9 DEF IInv

LEMMA PullFailsKeepsIInv ==
  ASSUME IInv, PullFails
  PROVE  IInv'
<1>1. /\ tmpIno' = 0 /\ UNCHANGED <<content, synced, dbIno, durDb, nextIno>>
      /\ fresh' = NoSnap /\ offset' = 0 /\ src' = << >> /\ pc' = "mesh"
      /\ UNCHANGED <<now, cur, old, todo, asOf, cands, agent, wake, pin>>
  BY DEF PullFails, RemoveTmp
<1>2. Kept
  BY KeptByRemove DEF PullFails, IInv
<1>3. TypeOK'
  BY <1>1, NoSnapIsSnapshot DEF IInv, TypeOK, Phases
<1>4. 0 < nextIno
  BY DEF IInv, TypeOK
<1>5. EntriesSettled'
  BY <1>1, <1>2, <1>4, EntriesKept
<1>6. HeldGood'
  BY <1>1, <1>2, HeldKept
<1>7. WriterKnows'
  BY <1>1 DEF WriterKnows
<1> QED BY <1>3, <1>5, <1>6, <1>7 DEF IInv

-----------------------------------------------------------------------------
(* The induction: compaction *)

LEMMA BeginKeepsIInv ==
  ASSUME IInv, BootCrawl \/ RefreshStart
  PROVE  IInv'
<1>1. \E base \in {old, cur} : Begin(base)
  BY DEF BootCrawl, RefreshStart
<1>2. PICK i \in Inodes :
        /\ CreateTmp(i, <<Meta(now)>>)
        /\ fresh' = [ino |-> i, index |-> [t \in {} |-> 0], built |-> now]
  BY <1>1 DEF Begin
<1>3. /\ old' \in {old, cur} /\ offset' = 1 /\ pc' = "crawl"
      /\ UNCHANGED <<now, cur, todo, asOf, cands, src, agent, wake, pin>>
  BY <1>1 DEF Begin, mesh
<1>4. now \in Nat
  BY NowTyped DEF IInv
<1>5. Meta(now) \in Line /\ <<Meta(now)>> \in Seq(Line)
  BY <1>4 DEF Meta, Line
<1>6. DiskTyped' /\ UNCHANGED <<dbIno, durDb>>
  BY <1>2, <1>5, CreateTyped DEF IInv, CreateTmp
<1>7. Kept /\ i = tmpIno' /\ tmpIno' < nextIno' /\ content'[i] = <<Meta(now)>>
  BY <1>2, KeptByCreate DEF IInv
<1>8. IsSnapshot(fresh') /\ fresh'.ino = i
  BY <1>2, <1>4, EmptySnapshot
<1>9. TypeOK'
  BY <1>3, <1>6, <1>8 DEF IInv, TypeOK, DiskTyped, Phases
<1>10. EntriesSettled'
  BY <1>6, <1>7, EntriesKept
<1>11. HeldGood'
  BY <1>3, <1>7, HeldKept
<1>12. HasMeta(<<Meta(now)>>) /\ <<Meta(now)>>[1].built = now /\ Len(<<Meta(now)>>) = 1
  BY DEF HasMeta, Meta
<1>13. ExactIn(fresh', <<Meta(now)>>)
  <2>1. \A t : Positions(<<Meta(now)>>, t) = {}
    BY DEF Positions, IsRecOf, Meta
  <2>2. TickersOf(<<Meta(now)>>) = {}
    BY <2>1 DEF TickersOf
  <2>3. IndexOf(<<Meta(now)>>) = [t \in {} |-> 0]
    BY <2>2 DEF IndexOf
  <2> QED BY <1>2, <1>12, <2>3 DEF ExactIn
<1>14. WriterKnows'
  BY <1>3, <1>7, <1>8, <1>12, <1>13 DEF WriterKnows
<1> QED BY <1>9, <1>10, <1>11, <1>14 DEF IInv

\* A record written at the end of the file and indexed there: the hand-built
\* index is again the one from_file would read.
LEMMA RecordKeepsIInv ==
  ASSUME IInv, pc \in {"crawl", "merge"}, NEW t \in Tickers, NEW l \in Line, IsRecOf(l, t),
         WriteLine(l),
         fresh' = [ino |-> fresh.ino, built |-> fresh.built,
                   index |-> Upsert(fresh.index, t, offset + 1)],
         todo' \subseteq todo,
         UNCHANGED <<now, pc, cur, old, asOf, cands, src, agent, wake, pin>>
  PROVE  IInv'
<1> DEFINE f == content[fresh.ino]
           g == WriteAt(f, Len(f) + 1, l)
<1>1. /\ DiskTyped' /\ EntriesSettled' /\ HeldGood'
      /\ fresh.ino \in Inodes /\ tmpIno' = fresh.ino
      /\ offset' \in Nat /\ offset' = Len(content'[fresh.ino])
      /\ content'[fresh.ino] = g
  BY WriteKeeps
<1>2. f \in Seq(Line) /\ offset = Len(f) /\ HasMeta(f) /\ ExactIn(fresh, f)
  BY <1>1 DEF IInv, TypeOK, WriterKnows
<1>3. IsSnapshot(fresh) /\ offset + 1 \in Nat
  BY DEF IInv, TypeOK
<1>4. IsSnapshot(fresh') /\ fresh'.ino = fresh.ino
  BY <1>3, UpsertTyped
<1>5. IndexOf(g) = Upsert(fresh.index, t, offset + 1)
  BY <1>2, IndexOfAppended DEF ExactIn
<1>6. HasMeta(g) /\ g[1] = f[1]
  BY <1>2, FirstLineStays
<1> HIDE DEF f, g
<1>7. ExactIn(fresh', g)
  BY <1>2, <1>5, <1>6 DEF ExactIn
<1>8. TypeOK'
  BY <1>1, <1>4 DEF IInv, TypeOK, DiskTyped
<1>9. WriterKnows'
  BY <1>1, <1>4, <1>6, <1>7 DEF IInv, WriterKnows
<1> QED BY <1>1, <1>8, <1>9 DEF IInv

LEMMA CrawlEventKeepsIInv ==
  ASSUME IInv, NEW t \in Tickers, NEW e \in CrawlEnds, CrawlEvent(t, e)
  PROVE  IInv'
<1>1. Rec(t, e) \in Line /\ IsRecOf(Rec(t, e), t)
  BY CrawlEndsAreEnds DEF Rec, Line, IsRecOf
<1> QED BY <1>1, RecordKeepsIInv DEF CrawlEvent, mesh

\* The line carried forward is a record of the ticker it is indexed under.
LEMMA CarryForwardKeepsIInv ==
  ASSUME IInv, NEW t \in Tickers, CarryForward(t)
  PROVE  IInv'
<1> DEFINE f == content[old.ino]
<1>1. t \in DOMAIN old.index /\ pc = "merge"
  BY DEF CarryForward, NextTodo, IInv, WriterKnows
<1>2. old # NoSnap
  BY <1>1 DEF NoSnap
<1>3. old.ino \in Inodes /\ old.index = IndexOf(f)
  BY <1>2 DEF IInv, HeldGood, Good, ExactIn
<1>4. f \in Seq(Line)
  BY <1>3 DEF IInv, TypeOK
<1>5. old.index[t] \in 1 .. Len(f) /\ IsRecOf(f[old.index[t]], t)
  BY <1>1, <1>3, <1>4, IndexLeadsToRecord
<1>6. OldLine(t) \in Line /\ IsRecOf(OldLine(t), t)
  BY <1>4, <1>5 DEF OldLine
<1>7. /\ WriteLine(OldLine(t))
      /\ fresh' = [ino |-> fresh.ino, built |-> fresh.built,
                   index |-> Upsert(fresh.index, t, offset + 1)]
      /\ todo' \subseteq todo
      /\ UNCHANGED <<now, pc, cur, old, asOf, cands, src, agent, wake, pin>>
  BY DEF CarryForward, mesh
<1> QED BY <1>1, <1>6, <1>7, RecordKeepsIInv

LEMMA EndCrawlKeepsIInv ==
  ASSUME IInv, EndCrawl
  PROVE  IInv'
<1>1. /\ pc = "crawl" /\ pc' = "merge"
      /\ todo' = DOMAIN old.index \ DOMAIN fresh.index /\ asOf' = now
      /\ UNCHANGED <<now, disk, cur, old, fresh, offset, cands, src, agent, wake, pin>>
  BY DEF EndCrawl, mesh
<1>2. todo' \subseteq Tickers /\ now \in Nat
  BY <1>1, NowTyped DEF IInv, TypeOK, IsSnapshot
<1>3. TypeOK'
  BY <1>1, <1>2 DEF disk, IInv, TypeOK, Phases
<1>4. EntriesSettled' /\ Kept
  BY <1>1, DiskUnchanged
<1>5. HeldGood'
  BY <1>1, <1>4, HeldKept
<1>6. WriterKnows'
  BY <1>1 DEF disk, IInv, WriterKnows
<1> QED BY <1>3, <1>4, <1>5, <1>6 DEF IInv

LEMMA DropFromMergeKeepsIInv ==
  ASSUME IInv, NEW t \in Tickers, DropFromMerge(t)
  PROVE  IInv'
<1>1. /\ todo' \subseteq todo
      /\ UNCHANGED <<now, disk, pc, cur, old, fresh, offset, asOf, cands, src, agent, wake, pin>>
  BY DEF DropFromMerge, mesh
<1>2. TypeOK'
  BY <1>1 DEF disk, IInv, TypeOK
<1>3. EntriesSettled' /\ Kept
  BY <1>1, DiskUnchanged
<1>4. HeldGood'
  BY <1>1, <1>3, HeldKept
<1>5. WriterKnows'
  BY <1>1 DEF disk, IInv, WriterKnows
<1> QED BY <1>2, <1>3, <1>4, <1>5 DEF IInv

LEMMA StageKeepsIInv ==
  ASSUME IInv, Stage
  PROVE  IInv'
<1>1. /\ SyncFresh /\ pc = "merge" /\ pc' = "staged"
      /\ UNCHANGED <<now, cur, old, fresh, offset, todo, asOf, cands, src, agent, wake, pin>>
  BY DEF Stage, job, mesh
<1>2. /\ DiskTyped' /\ EntriesSettled' /\ HeldGood'
      /\ tmpIno \in Inodes /\ fresh.ino = tmpIno
      /\ tmpIno' = tmpIno /\ tmpIno \in synced' /\ content' = content
  BY <1>1, SyncKeeps
<1>3. TypeOK'
  BY <1>1, <1>2 DEF IInv, TypeOK, DiskTyped, Phases
<1>4. WriterKnows'
  BY <1>1, <1>2 DEF IInv, WriterKnows
<1> QED BY <1>2, <1>3, <1>4 DEF IInv

LEMMA InstallKeepsIInv ==
  ASSUME IInv, Install
  PROVE  IInv'
<1>1. /\ RenameTmp /\ pc = "staged" /\ pc' = "renamed"
      /\ UNCHANGED <<now, cur, old, fresh, offset, todo, asOf, cands, src, agent, wake, pin>>
  BY DEF Install, job, mesh
<1>2. /\ DiskTyped' /\ EntriesSettled' /\ Kept
      /\ dbIno' = fresh.ino /\ dbIno' \in Inodes
      /\ Settled(dbIno', synced', tmpIno', nextIno')
      /\ content' = content
  BY <1>1, RenameKeeps
<1>3. TypeOK'
  BY <1>1, <1>2 DEF IInv, TypeOK, DiskTyped, Phases
<1>4. HeldGood'
  BY <1>1, <1>2, HeldKept
<1>5. WriterKnows'
  BY <1>1, <1>2 DEF IInv, WriterKnows
<1> QED BY <1>2, <1>3, <1>4, <1>5 DEF IInv

\* What is published is the file just renamed, with the index built for it.
LEMMA PublishKeepsIInv ==
  ASSUME IInv, Publish
  PROVE  IInv'
<1> DEFINE s == [ino |-> dbIno, index |-> fresh.index, built |-> fresh.built]
<1>1. /\ pc = "renamed" /\ cur' = s /\ wake' = now + Interval /\ pc' = "idle" /\ JobDone
      /\ UNCHANGED <<now, disk, cands, src, agent, pin>>
  BY DEF Publish, Serve, mesh
<1>2. dbIno \in Inodes /\ fresh.ino = dbIno /\ ExactIn(fresh, content[dbIno])
  BY <1>1 DEF IInv, WriterKnows
<1>3. IsSnapshot(s)
  BY <1>2 DEF IInv, TypeOK, IsSnapshot
<1>4. wake' \in Nat
  BY <1>1, NowTyped, TimesAreNaturals DEF IInv
<1>5. Good(s, content, synced, tmpIno, nextIno)
  <2>1. Settled(dbIno, synced, tmpIno, nextIno)
    BY <1>2 DEF IInv, EntriesSettled, Entry, Inodes
  <2>2. ExactIn(s, content[dbIno])
    BY <1>2 DEF ExactIn
  <2> QED BY <1>2, <2>1, <2>2 DEF Good
<1> HIDE DEF s
<1>6. TypeOK'
  BY <1>1, <1>3, <1>4, NoSnapIsSnapshot DEF disk, IInv, TypeOK, JobDone, Phases
<1>7. EntriesSettled'
  BY <1>1, DiskUnchanged
<1>8. HeldGood'
  BY <1>1, <1>5 DEF disk, JobDone, IInv, HeldGood, Good
<1>9. WriterKnows'
  BY <1>1 DEF WriterKnows
<1> QED BY <1>6, <1>7, <1>8, <1>9 DEF IInv

LEMMA CompactionFailsKeepsIInv ==
  ASSUME IInv, CompactionFails
  PROVE  IInv'
<1>1. UNCHANGED <<now, disk>>
  BY DEF CompactionFails
<1>2. DiskTyped' /\ EntriesSettled' /\ Kept
  BY <1>1, DiskUnchanged
<1>3. CASE cur = NoSnap
  BY <1>1, <1>2, <1>3, GoneKeepsIInv DEF CompactionFails, IInv
<1>4. CASE cur # NoSnap
  <2>1. /\ cur' = cur /\ wake' = now + Interval /\ pc' = "idle" /\ JobDone
        /\ UNCHANGED <<cands, src, agent, pin>>
    BY <1>4 DEF CompactionFails, Serve, mesh
  <2>2. wake' \in Nat
    BY <2>1, NowTyped, TimesAreNaturals DEF IInv
  <2>3. TypeOK'
    BY <1>1, <2>1, <2>2, NoSnapIsSnapshot DEF disk, IInv, TypeOK, JobDone, Phases
  <2>4. HeldGood'
    BY <1>2, <2>1, HeldKept DEF JobDone
  <2>5. WriterKnows'
    BY <2>1 DEF WriterKnows
  <2> QED BY <1>2, <2>3, <2>4, <2>5 DEF IInv
<1> QED BY <1>3, <1>4

LEMMA FindProxyKeepsIInv ==
  ASSUME IInv, FindProxy
  PROVE  IInv'
<1>1. /\ UNCHANGED <<now, disk, pc, cur, job, cands, src, wake, pin>>
      /\ agent' \in {NoAgent, Direct} \cup Proxies
  BY DEF FindProxy, Routes, mesh
<1>2. TypeOK'
  BY <1>1 DEF disk, job, IInv, TypeOK
<1>3. EntriesSettled' /\ Kept
  BY <1>1, DiskUnchanged
<1>4. HeldGood'
  BY <1>1, <1>3, HeldKept DEF job
<1>5. WriterKnows'
  BY <1>1 DEF disk, job, IInv, WriterKnows
<1> QED BY <1>2, <1>3, <1>4, <1>5 DEF IInv

\* A thread that dies leaves what is served, and its .tmp, as they are.
LEMMA NoProxyFoundKeepsIInv ==
  ASSUME IInv, NoProxyFound
  PROVE  IInv'
<1>1. UNCHANGED <<now, disk>>
  BY DEF NoProxyFound
<1>2. DiskTyped' /\ EntriesSettled' /\ Kept
  BY <1>1, DiskUnchanged
<1>3. CASE cur = NoSnap
  BY <1>1, <1>2, <1>3, GoneKeepsIInv DEF NoProxyFound, IInv
<1>4. CASE cur # NoSnap
  <2>1. pc' = "dead" /\ JobDone /\ UNCHANGED <<cur, cands, src, agent, wake, pin>>
    BY <1>4 DEF NoProxyFound, mesh
  <2>2. TypeOK'
    BY <1>1, <2>1, NoSnapIsSnapshot DEF disk, IInv, TypeOK, JobDone, Phases
  <2>3. HeldGood'
    BY <1>2, <2>1, HeldKept DEF JobDone
  <2>4. WriterKnows'
    BY <2>1 DEF WriterKnows
  <2> QED BY <1>2, <2>2, <2>3, <2>4 DEF IInv
<1> QED BY <1>3, <1>4

-----------------------------------------------------------------------------
(* The induction, put together *)

LEMMA NextKeepsIInv ==
  ASSUME IInv, [Next]_vars
  PROVE  IInv'
<1>1. CASE Boot
  BY <1>1, BootFreshKeepsIInv, BootStaleKeepsIInv, ToMeshKeepsIInv DEF Boot
<1>2. CASE Progress
  <2>1. CASE PullDeclined \/ PullStart \/ PullChunk \/ PullSync \/ PullInstall
    BY <2>1, ToMeshKeepsIInv, PullStartKeepsIInv, PullChunkKeepsIInv, PullSyncKeepsIInv,
       PullInstallKeepsIInv
  <2>2. CASE BootCrawl \/ RefreshStart \/ FindProxy
    BY <2>2, BeginKeepsIInv, FindProxyKeepsIInv
  <2>3. CASE \E t \in Tickers, e \in CrawlEnds : CrawlEvent(t, e)
    BY <2>3, CrawlEventKeepsIInv
  <2>4. CASE \E t \in Tickers : CarryForward(t) \/ DropFromMerge(t)
    BY <2>4, CarryForwardKeepsIInv, DropFromMergeKeepsIInv
  <2>5. CASE EndCrawl \/ Stage \/ Install \/ Publish
    BY <2>5, EndCrawlKeepsIInv, StageKeepsIInv, InstallKeepsIInv, PublishKeepsIInv
  <2> QED BY <1>2, <2>1, <2>2, <2>3, <2>4, <2>5 DEF Progress
<1>3. CASE Failure
  BY <1>3, PullFailsKeepsIInv, CompactionFailsKeepsIInv, NoProxyFoundKeepsIInv DEF Failure
<1>4. CASE Environment
  <2>1. CASE \E r \in Readers : Pin(r) \/ Unpin(r)
    BY <2>1, PinKeepsIInv
  <2>2. CASE Tick \/ Kill \/ DirCommit \/ PowerLoss
    BY <2>2, TickKeepsIInv, KillKeepsIInv, DirCommitKeepsIInv, PowerLossKeepsIInv
  <2> QED BY <1>4, <2>1, <2>2 DEF Environment
<1>5. CASE UNCHANGED vars
  BY <1>5, StutterKeepsIInv
<1> QED BY <1>1, <1>2, <1>3, <1>4, <1>5 DEF Next

\* The file being written is never one that anybody reads or could load.
THEOREM IInvHolds == Spec => []IInv
<1>1. Init => IInv
  BY InitIInv
<1>2. IInv /\ [Next]_vars => IInv'
  BY NextKeepsIInv
<1> QED BY <1>1, <1>2, PTL DEF Spec

-----------------------------------------------------------------------------
(* What follows *)

\* Every variable keeps its type, whatever fails and however often main starts.
THEOREM StoreTypeOK == Spec => []TypeOK
<1>1. IInv => TypeOK
  BY DEF IInv
<1> QED BY <1>1, IInvHolds, PTL

\* Every snapshot in use has the index and the timestamp that reading its file
\* again would give, for any files, events, peers and sequence of failures.
THEOREM StoreSnapshotsExact == Spec => []SnapshotsExact
<1>1. IInv => SnapshotsExact
  BY DEF IInv, HeldGood, Good, ExactIn, SnapshotsExact, Held
<1> QED BY <1>1, IInvHolds, PTL

\* No step changes the lines of a settled file.
LEMMA StepKeepsFiles ==
  ASSUME IInv, [Next]_vars, NEW i \in Inodes, Settled(i, synced, tmpIno, nextIno)
  PROVE  content'[i] = content[i]
<1>1. CASE UNCHANGED content
  BY <1>1
<1>2. CASE PullStart
  BY <1>2, KeptByCreate DEF PullStart, IInv, Kept, FilesKept
<1>3. CASE BootCrawl \/ RefreshStart
  <2>1. PICK k \in Inodes : CreateTmp(k, <<Meta(now)>>)
    BY <1>3 DEF BootCrawl, RefreshStart, Begin
  <2> QED BY <2>1, KeptByCreate DEF IInv, Kept, FilesKept
<1>4. CASE /\ pc \in {"pull", "crawl", "merge"}
           /\ \E l : WriteLine(l)
  BY <1>4, KeptByWrite DEF IInv, WriterKnows, Kept, FilesKept
<1>5. CASE PowerLoss
  BY <1>5 DEF PowerLoss, Settled
<1>6. CASE Boot
  BY <1>1, <1>6 DEF Boot, BootFresh, BootStale, BootMissing, disk
<1>7. CASE Progress
  <2>1. CASE \/ PullDeclined \/ PullSync \/ PullInstall \/ FindProxy
             \/ EndCrawl \/ Stage \/ Install \/ Publish
    BY <1>1, <2>1 DEF PullDeclined, PullSync, PullInstall, FindProxy, EndCrawl, Stage,
       Install, Publish, disk, SyncFresh, RenameTmp
  <2>2. PullChunk => pc = "pull" /\ \E l : WriteLine(l)
    BY DEF PullChunk
  <2>3. ASSUME NEW t \in Tickers, NEW e \in CrawlEnds, CrawlEvent(t, e)
        PROVE  pc = "crawl" /\ \E l : WriteLine(l)
    BY <2>3 DEF CrawlEvent
  <2>4. ASSUME NEW t \in Tickers, CarryForward(t)
        PROVE  pc = "merge" /\ \E l : WriteLine(l)
    BY <2>4 DEF CarryForward
  <2>5. ASSUME NEW t \in Tickers, DropFromMerge(t)
        PROVE  UNCHANGED content
    BY <2>5 DEF DropFromMerge, disk
  <2>6. CASE PullChunk \/ \E t \in Tickers, e \in CrawlEnds : CrawlEvent(t, e)
    BY <1>4, <2>2, <2>3, <2>6
  <2>7. CASE \E t \in Tickers : CarryForward(t) \/ DropFromMerge(t)
    BY <1>1, <1>4, <2>4, <2>5, <2>7
  <2>8. CASE PullStart \/ BootCrawl \/ RefreshStart
    BY <1>2, <1>3, <2>8
  <2> QED BY <1>7, <2>1, <2>6, <2>7, <2>8 DEF Progress
<1>8. CASE Failure
  BY <1>1, <1>8 DEF Failure, PullFails, CompactionFails, NoProxyFound, RemoveTmp, disk
<1>9. CASE Environment
  BY <1>1, <1>5, <1>9 DEF Environment, Pin, Unpin, Tick, Kill, DirCommit, disk
<1>10. CASE UNCHANGED vars
  BY <1>1, <1>10 DEF vars, disk
<1> QED BY <1>6, <1>7, <1>8, <1>9, <1>10 DEF Next

\* A file that a request, a transfer, the merge or a restart may read is never
\* written again: Snapshot's "immutable once constructed", for every schedule.
THEOREM StoreHeldFilesImmutable == Spec => HeldFilesImmutable
<1>1. ASSUME IInv, [Next]_vars
      PROVE  [\A i \in {dbIno, durDb} \cup {s.ino : s \in Held} :
                 i # 0 => content'[i] = content[i]]_vars
  <2>1. ASSUME NEW i \in {dbIno, durDb}, i # 0
        PROVE  content'[i] = content[i]
    BY <1>1, <2>1, StepKeepsFiles DEF IInv, EntriesSettled, Entry, TypeOK
  <2>2. ASSUME NEW s \in Held, s.ino # 0
        PROVE  content'[s.ino] = content[s.ino]
    <3>1. s # NoSnap
      BY <2>2 DEF NoSnap
    <3>2. s.ino \in Inodes /\ Settled(s.ino, synced, tmpIno, nextIno)
      BY <1>1, <3>1 DEF Held, IInv, HeldGood, Good
    <3> QED BY <1>1, <3>2, StepKeepsFiles
  <2> QED BY <2>1, <2>2
<1> QED BY <1>1, IInvHolds, PTL DEF Spec, HeldFilesImmutable

-----------------------------------------------------------------------------
(* BaseKnown: what a compaction carries forward from *)

LEMMA ServedIsASnapshot ==
  ASSUME NEW s, s.ino \in Inodes
  PROVE  s # NoSnap
BY DEF NoSnap, Inodes

LEMMA BootKeepsBase ==
  ASSUME IInv, BaseKnown, Boot
  PROVE  BaseKnown'
<1>1. CASE BootFresh
  <2>1. PICK mtime \in 0 .. now : Serve(FromFile(dbIno, mtime), Delay(FromFile(dbIno, mtime).built))
    BY <1>1 DEF BootFresh
  <2>2. cur'.ino = dbIno /\ dbIno \in Inodes /\ pc' = "idle"
    BY <1>1, <2>1 DEF BootFresh, Serve, FromFile, IInv, TypeOK
  <2> QED BY <2>2, ServedIsASnapshot DEF BaseKnown, Booting, Merging
<1>2. CASE BootStale
  <2>1. /\ old'.ino = dbIno /\ cur = NoSnap /\ pc' = "mesh"
        /\ UNCHANGED <<cur, dbIno>>
    BY <1>2 DEF BootStale, FromFile, disk, BaseKnown
  <2> QED BY <2>1 DEF BaseKnown, Booting, Merging
<1>3. CASE BootMissing
  <2>1. /\ old' = NoSnap /\ dbIno = 0 /\ cur = NoSnap /\ pc' = "mesh"
        /\ UNCHANGED <<cur, dbIno>>
    BY <1>3 DEF BootMissing, disk, job, BaseKnown
  <2> QED BY <2>1 DEF BaseKnown, Booting, Merging, NoSnap
<1> QED BY <1>1, <1>2, <1>3 DEF Boot

LEMMA PullKeepsBase ==
  ASSUME IInv, BaseKnown,
         PullDeclined \/ PullStart \/ PullChunk \/ PullSync \/ PullInstall \/ PullFails
  PROVE  BaseKnown'
<1>1. CASE PullDeclined \/ PullStart \/ PullChunk \/ PullSync \/ PullFails
  <2>1. /\ Booting /\ pc' \in {"mesh", "pull", "pulled"}
        /\ UNCHANGED <<cur, old, dbIno>>
    BY <1>1 DEF PullDeclined, PullStart, PullChunk, PullSync, PullFails, Booting, disk, job,
       CreateTmp, WriteLine, SyncFresh, RemoveTmp
  <2> QED BY <2>1 DEF BaseKnown, Booting, Merging
<1>2. CASE PullInstall
  <2>1. cur'.ino \in Inodes /\ pc' = "idle"
    BY <1>2 DEF PullInstall, Serve, IInv, WriterKnows
  <2> QED BY <2>1, ServedIsASnapshot DEF BaseKnown, Booting, Merging
<1> QED BY <1>1, <1>2

LEMMA CompactionKeepsBase ==
  ASSUME IInv, BaseKnown,
         \/ BootCrawl \/ RefreshStart \/ FindProxy \/ EndCrawl \/ Stage \/ Install \/ Publish
         \/ \E t \in Tickers, e \in CrawlEnds : CrawlEvent(t, e)
         \/ \E t \in Tickers : CarryForward(t) \/ DropFromMerge(t)
  PROVE  BaseKnown'
<1>1. CASE BootCrawl
  BY <1>1 DEF BootCrawl, Begin, CreateTmp, BaseKnown, Booting, Merging
<1>2. CASE RefreshStart
  BY <1>2 DEF RefreshStart, Begin, CreateTmp, BaseKnown, Booting, Merging
<1>3. CASE \/ FindProxy \/ EndCrawl \/ Stage
           \/ \E t \in Tickers, e \in CrawlEnds : CrawlEvent(t, e)
           \/ \E t \in Tickers : CarryForward(t) \/ DropFromMerge(t)
  <2>1. /\ pc \in {"crawl", "merge"} /\ pc' \in {"crawl", "merge", "staged"}
        /\ UNCHANGED <<cur, old, dbIno>>
    BY <1>3 DEF FindProxy, EndCrawl, Stage, CrawlEvent, CarryForward, DropFromMerge, disk, job,
       WriteLine, SyncFresh
  <2> QED BY <2>1 DEF BaseKnown, Booting, Merging
<1>4. CASE Install
  BY <1>4 DEF Install, BaseKnown, Booting, Merging
<1>5. CASE Publish
  <2>1. cur'.ino \in Inodes /\ pc' = "idle"
    BY <1>5 DEF Publish, Serve, IInv, WriterKnows
  <2> QED BY <2>1, ServedIsASnapshot DEF BaseKnown, Booting, Merging
<1> QED BY <1>1, <1>2, <1>3, <1>4, <1>5

LEMMA FailureKeepsBase ==
  ASSUME IInv, BaseKnown, CompactionFails \/ NoProxyFound \/ Kill \/ PowerLoss
  PROVE  BaseKnown'
<1>1. CASE ProcessGone
  BY <1>1 DEF ProcessGone, JobDone, BaseKnown, Booting, Merging
<1>2. CASE ~ ProcessGone
  <2>1. cur # NoSnap /\ cur' = cur /\ pc' \in {"idle", "dead"}
    BY <1>2 DEF CompactionFails, NoProxyFound, Kill, PowerLoss, Serve
  <2> QED BY <2>1 DEF BaseKnown, Booting, Merging
<1> QED BY <1>1, <1>2

LEMMA NextKeepsBase ==
  ASSUME IInv, BaseKnown, [Next]_vars
  PROVE  BaseKnown'
<1>1. CASE UNCHANGED <<pc, cur, old, dbIno>>
  BY <1>1 DEF BaseKnown, Booting, Merging
<1>2. CASE UNCHANGED vars
  BY <1>1, <1>2 DEF vars, disk, job
<1>3. CASE Environment
  BY <1>1, <1>3, FailureKeepsBase DEF Environment, Pin, Unpin, Tick, DirCommit, disk, job
<1>4. CASE Progress
  BY <1>4, PullKeepsBase, CompactionKeepsBase DEF Progress
<1>5. CASE Failure
  BY <1>5, PullKeepsBase, FailureKeepsBase DEF Failure
<1>6. CASE Boot
  BY <1>6, BootKeepsBase
<1> QED BY <1>2, <1>3, <1>4, <1>5, <1>6 DEF Next

-----------------------------------------------------------------------------
(* MergeComplete: no ticker of the base is forgotten *)

\* The line of a ticker that is carried forward from is not touched.
LEMMA OldLineKept ==
  ASSUME IInv, Kept, UNCHANGED <<old, asOf>>, NEW t \in DOMAIN old.index
  PROVE  Dropped(OldLine(t))' = Dropped(OldLine(t))
<1>1. old # NoSnap
  BY DEF NoSnap
<1>2. old.ino \in Inodes /\ Settled(old.ino, synced, tmpIno, nextIno)
  BY <1>1 DEF IInv, HeldGood, Good
<1>3. OldLine(t)' = OldLine(t)
  BY <1>2 DEF OldLine, Kept, FilesKept
<1> QED BY <1>3 DEF Dropped

LEMMA NothingFoundIsEmpty ==
  ASSUME NEW s, IsSnapshot(s), s.index # NoSnap.index
  PROVE  DOMAIN s.index # {}
BY DEF IsSnapshot, NoSnap

\* A step of the merge keeps MergeComplete if the tickers it takes off todo are
\* indexed or dropped.
LEMMA MergeStep ==
  ASSUME IInv, MergeComplete, Merging, Kept, UNCHANGED <<old, asOf>>, now <= now', now' \in Nat,
         DOMAIN fresh.index \subseteq DOMAIN fresh'.index,
         \A t \in todo \ todo' : t \in DOMAIN fresh'.index \/ Dropped(OldLine(t)),
         pc' = "staged" => todo' = {}
  PROVE  MergeComplete'
<1>1. asOf' <= now'
  BY NowTyped DEF MergeComplete, IInv, TypeOK
<1>2. ASSUME NEW t \in DOMAIN old.index
      PROVE  t \in DOMAIN fresh'.index \/ t \in todo' \/ Dropped(OldLine(t))'
  BY OldLineKept DEF MergeComplete
<1> QED BY <1>1, <1>2 DEF MergeComplete

LEMMA EndCrawlKeepsMerge ==
  ASSUME IInv, EndCrawl
  PROVE  MergeComplete'
<1>1. /\ asOf' = now /\ todo' = DOMAIN old.index \ DOMAIN fresh.index
      /\ old = NoSnap => DOMAIN fresh.index # {}
      /\ pc' = "merge" /\ UNCHANGED <<now, old, fresh>>
  BY NothingFoundIsEmpty DEF EndCrawl, IInv, TypeOK
<1>2. now \in Nat
  BY NowTyped DEF IInv
<1> QED BY <1>1, <1>2 DEF MergeComplete

LEMMA CarryForwardKeepsMerge ==
  ASSUME IInv, MergeComplete, NEW t \in Tickers, CarryForward(t) \/ DropFromMerge(t)
  PROVE  MergeComplete'
<1>1. /\ Merging /\ UNCHANGED <<old, asOf, now, pc>> /\ todo' = todo \ {t} /\ pc = "merge"
  BY DEF CarryForward, DropFromMerge, Merging
<1>2. Kept
  BY KeptByWrite, KeptByReading DEF CarryForward, DropFromMerge, IInv, WriterKnows
<1>3. CASE CarryForward(t)
  <2>1. DOMAIN fresh'.index = DOMAIN fresh.index \cup {t}
    BY <1>3 DEF CarryForward, Upsert
  <2> QED BY <1>1, <1>2, <2>1, MergeStep, NowTyped DEF IInv
<1>4. CASE DropFromMerge(t)
  <2>1. Dropped(OldLine(t)) /\ fresh' = fresh
    BY <1>4 DEF DropFromMerge
  <2> QED BY <1>1, <1>2, <2>1, MergeStep, NowTyped DEF IInv
<1> QED BY <1>3, <1>4

\* The file system and the readers go on during a merge.
LEMMA AsideKeepsMerge ==
  ASSUME IInv, MergeComplete, Kept, UNCHANGED <<pc, old, asOf, fresh, todo>>,
         now' \in {now, now + 1}
  PROVE  MergeComplete'
<1>1. now \in Nat /\ now' \in Nat /\ now <= now'
  BY NowTyped DEF IInv
<1>2. CASE Merging
  BY <1>1, <1>2, MergeStep DEF MergeComplete
<1>3. CASE ~ Merging
  BY <1>3 DEF MergeComplete, Merging
<1> QED BY <1>2, <1>3

LEMMA NextKeepsMerge ==
  ASSUME IInv, MergeComplete, [Next]_vars
  PROVE  MergeComplete'
<1>1. CASE ~ Merging'
  BY <1>1 DEF MergeComplete, Merging
<1>2. CASE UNCHANGED vars
  BY <1>2, AsideKeepsMerge, KeptByReading DEF vars, job
<1>3. CASE Environment
  <2>1. CASE \E r \in Readers : Pin(r) \/ Unpin(r)
    BY <2>1, AsideKeepsMerge, KeptByReading DEF Pin, Unpin, job
  <2>2. CASE Tick
    BY <2>2, AsideKeepsMerge, KeptByReading DEF Tick, job
  <2>3. CASE DirCommit
    <3>1. Kept
      BY <2>3 DEF DirCommit, Kept, FilesKept, Settled
    <3> QED BY <2>3, <3>1, AsideKeepsMerge DEF DirCommit, job
  <2>4. CASE Kill \/ PowerLoss
    BY <1>1, <2>4 DEF Kill, PowerLoss, ProcessGone, Merging
  <2> QED BY <1>3, <2>1, <2>2, <2>3, <2>4 DEF Environment
<1>4. CASE Boot \/ Failure
  BY <1>1, <1>4 DEF Boot, BootFresh, BootStale, BootMissing, Failure, PullFails,
     CompactionFails, NoProxyFound, Serve, ProcessGone, Merging
<1>5. CASE Progress
  <2>1. CASE PullDeclined \/ PullStart \/ PullChunk \/ PullSync \/ PullInstall
    BY <1>1, <2>1 DEF PullDeclined, PullStart, PullChunk, PullSync, PullInstall, Serve, Merging
  <2>2. CASE BootCrawl \/ RefreshStart \/ FindProxy \/ Install \/ Publish
    BY <1>1, <2>2 DEF BootCrawl, RefreshStart, Begin, FindProxy, Install, Publish, Serve, Merging
  <2>3. CASE \E t \in Tickers, e \in CrawlEnds : CrawlEvent(t, e)
    BY <1>1, <2>3 DEF CrawlEvent, Merging
  <2>4. CASE EndCrawl
    BY <2>4, EndCrawlKeepsMerge
  <2>5. CASE \E t \in Tickers : CarryForward(t) \/ DropFromMerge(t)
    BY <2>5, CarryForwardKeepsMerge
  <2>6. CASE Stage
    <3>1. Kept
      BY <2>6, KeptBySync DEF Stage, IInv
    <3> QED BY <2>6, <3>1, MergeStep, NowTyped DEF Stage, job, Merging, IInv
  <2> QED BY <1>5, <2>1, <2>2, <2>3, <2>4, <2>5, <2>6 DEF Progress
<1> QED BY <1>2, <1>3, <1>4, <1>5 DEF Next

LEMMA RInvHolds == Spec => []RInv
<1>1. Init => BaseKnown /\ MergeComplete
  BY DEF Init, BaseKnown, MergeComplete, Booting, Merging
<1>2. IInv /\ (BaseKnown /\ MergeComplete) /\ [Next]_vars => (BaseKnown /\ MergeComplete)'
  BY NextKeepsBase, NextKeepsMerge
<1> QED BY <1>1, <1>2, IInvHolds, PTL DEF Spec, RInv

-----------------------------------------------------------------------------
(* The refinement mapping *)

diskBar    == FileValue(dbIno)
durableBar == FileValue(durDb)
servedBar  == SnapValue(cur)
viewBar    == [r \in Readers |-> SnapValue(pin[r])]

\* A snapshot that is exact has the value of its file.
LEMMA ExactValue ==
  ASSUME NEW s, s.ino \in Inodes, ExactIn(s, content[s.ino])
  PROVE  SnapValue(s) = FileValue(s.ino)
BY ServedIsASnapshot DEF SnapValue, FileValue, ExactIn, Inodes

\* No step touches the lines of a settled file.
LinesKept == \A i \in Inodes : Settled(i, synced, tmpIno, nextIno) => content'[i] = content[i]

LEMMA StepKeepsLines ==
  ASSUME IInv, [Next]_vars
  PROVE  LinesKept
BY StepKeepsFiles DEF LinesKept

LEMMA EntryLinesKept ==
  ASSUME IInv, LinesKept, NEW i \in {dbIno, durDb}, i # 0
  PROVE  content'[i] = content[i]
BY DEF IInv, EntriesSettled, Entry, TypeOK, LinesKept

\* The maps on disk change only if the directory does.
LEMMA DiskValuesKept ==
  ASSUME IInv, LinesKept
  PROVE  /\ dbIno' = dbIno => diskBar' = diskBar
         /\ durDb' = durDb => durableBar' = durableBar
         /\ dbIno' = durDb => diskBar' = durableBar
         /\ durDb' = dbIno => durableBar' = diskBar
BY EntryLinesKept DEF diskBar, durableBar, FileValue

\* The maps in use change only if the snapshots do.
LEMMA HeldValuesKept ==
  ASSUME IInv, LinesKept
  PROVE  /\ UNCHANGED cur => UNCHANGED servedBar
         /\ UNCHANGED pin => UNCHANGED viewBar
<1>1. ASSUME NEW s \in {cur} \cup {pin[r] : r \in Readers}, s # NoSnap
      PROVE  content'[s.ino] = content[s.ino]
  BY <1>1 DEF IInv, HeldGood, Good, LinesKept
<1>2. ASSUME UNCHANGED cur
      PROVE  UNCHANGED servedBar
  BY <1>1, <1>2 DEF servedBar, SnapValue
<1>3. ASSUME UNCHANGED pin
      PROVE  UNCHANGED viewBar
  <2>1. \A r \in Readers : SnapValue(pin[r])' = SnapValue(pin[r])
    BY <1>1, <1>3 DEF SnapValue
  <2> QED BY <2>1 DEF viewBar
<1> QED BY <1>2, <1>3

Unseen == UNCHANGED <<diskBar, durableBar, servedBar, viewBar, now>>

LEMMA UnseenStep ==
  ASSUME IInv, LinesKept, UNCHANGED <<dbIno, durDb, cur, pin, now>>
  PROVE  Unseen
BY DiskValuesKept, HeldValuesKept DEF Unseen

-----------------------------------------------------------------------------
(* Every step is a step of AtomicDb, or is not seen there *)

\* AtomicDb's variables, as the mapping gives them.
LEMMA MapIsAbs ==
  /\ Abs!avars = <<diskBar, durableBar, servedBar, viewBar, now>>
  /\ Abs!None = NoMap
BY DEF Abs!avars, Abs!None, diskBar, durableBar, servedBar, viewBar, NoMap

\* Most of the writer's work: another inode, another place in the merge.
LEMMA WorkIsUnseen ==
  ASSUME IInv, LinesKept,
         \/ BootStale \/ BootMissing
         \/ PullDeclined \/ PullStart \/ PullChunk \/ PullSync \/ PullFails
         \/ BootCrawl \/ RefreshStart \/ FindProxy \/ EndCrawl \/ Stage
         \/ \E t \in Tickers, e \in CrawlEnds : CrawlEvent(t, e)
         \/ \E t \in Tickers : CarryForward(t) \/ DropFromMerge(t)
  PROVE  Unseen
<1>1. CASE \/ BootStale \/ BootMissing
           \/ PullDeclined \/ PullStart \/ PullChunk \/ PullSync \/ PullFails
  BY <1>1, UnseenStep DEF BootStale, BootMissing, PullDeclined, PullStart, PullChunk, PullSync,
     PullFails, CreateTmp, WriteLine, SyncFresh, RemoveTmp, disk
<1>2. CASE BootCrawl \/ RefreshStart \/ FindProxy \/ EndCrawl \/ Stage
  BY <1>2, UnseenStep DEF BootCrawl, RefreshStart, Begin, FindProxy, EndCrawl, Stage,
     CreateTmp, SyncFresh, disk
<1>3. CASE \/ \E t \in Tickers, e \in CrawlEnds : CrawlEvent(t, e)
           \/ \E t \in Tickers : CarryForward(t) \/ DropFromMerge(t)
  BY <1>3, UnseenStep DEF CrawlEvent, CarryForward, DropFromMerge, WriteLine, disk
<1> QED BY <1>1, <1>2, <1>3

\* main serves the file it finds; a cycle serves the file it has renamed.
LEMMA ServingAdopts ==
  ASSUME IInv, LinesKept, BootFresh \/ Publish
  PROVE  Abs!Adopt
<1>1. /\ dbIno \in Inodes /\ cur'.ino = dbIno /\ cur'.index = IndexOf(content[dbIno])
      /\ UNCHANGED <<now, content, dbIno, durDb, pin>>
  <2>1. CASE BootFresh
    <3>1. PICK mtime \in 0 .. now : Serve(FromFile(dbIno, mtime), Delay(FromFile(dbIno, mtime).built))
      BY <2>1 DEF BootFresh
    <3> QED BY <2>1, <3>1 DEF BootFresh, Serve, FromFile, disk, IInv, TypeOK
  <2>2. CASE Publish
    BY <2>2 DEF Publish, Serve, disk, IInv, WriterKnows, ExactIn
  <2> QED BY <2>1, <2>2
<1>2. servedBar' = diskBar /\ diskBar.has
  BY <1>1, ServedIsASnapshot DEF servedBar, diskBar, SnapValue, FileValue, Inodes
<1>3. UNCHANGED <<diskBar, durableBar, viewBar>>
  BY <1>1, DiskValuesKept, HeldValuesKept
<1> QED BY <1>1, <1>2, <1>3 DEF Abs!Adopt, diskBar, durableBar, servedBar, viewBar

\* A boot serves what it has pulled and renamed.
LEMMA PullInstallPulls ==
  ASSUME RInv, LinesKept, PullInstall
  PROVE  Abs!Pull
<1> USE DEF RInv
<1>1. /\ dbIno' = fresh.ino /\ dbIno' \in Inodes /\ content' = content
      /\ cur' = fresh /\ ExactIn(fresh, content[fresh.ino])
      /\ UNCHANGED <<now, durDb, pin>>
  BY RenameKeeps DEF PullInstall, RenameTmp, Serve, IInv, WriterKnows
<1>2. ~ servedBar.has
  BY DEF BaseKnown, Booting, PullInstall, servedBar, SnapValue, NoMap
<1>3. diskBar' = servedBar' /\ diskBar'.has
  BY <1>1, ServedIsASnapshot DEF servedBar, diskBar, SnapValue, FileValue, ExactIn, Inodes
<1>4. UNCHANGED <<durableBar, viewBar>>
  BY <1>1, DiskValuesKept, HeldValuesKept
<1> QED BY <1>1, <1>2, <1>3, <1>4 DEF Abs!Pull, diskBar, durableBar, servedBar, viewBar

\* What a compaction merges with is what the old snapshot says.
LEMMA BaseIsOld ==
  ASSUME RInv, Merging
  PROVE  Abs!Base = SnapValue(old)
<1> USE DEF RInv
<1>1. Abs!Base = IF servedBar.has THEN servedBar ELSE diskBar
  BY DEF Abs!Base, servedBar, diskBar
<1>2. CASE cur # NoSnap
  <2>1. old = cur
    BY <1>2 DEF BaseKnown
  <2> QED BY <1>1, <1>2, <2>1 DEF servedBar, SnapValue
<1>3. CASE cur = NoSnap
  <2>1. old.ino = dbIno /\ ~ servedBar.has
    BY <1>3 DEF BaseKnown, servedBar, SnapValue, NoMap
  <2>2. CASE old = NoSnap
    BY <1>1, <2>1, <2>2 DEF diskBar, FileValue, SnapValue, NoSnap
  <2>3. CASE old # NoSnap
    <3>1. old.ino \in Inodes /\ ExactIn(old, content[old.ino])
      BY <2>3 DEF IInv, HeldGood, Good
    <3> QED BY <1>1, <2>1, <3>1, ExactValue DEF diskBar
  <2> QED BY <2>2, <2>3
<1> QED BY <1>2, <1>3

\* A record that was dropped had no event in it, or an event past its grace.
LEMMA DroppedForGood ==
  ASSUME RInv, Merging, old # NoSnap, NEW t \in DOMAIN old.index, Dropped(OldLine(t))
  PROVE  LET e == content[old.ino][old.index[t]].end
         IN  e = Bad \/ (e \in Nat /\ now > e + Grace)
<1> DEFINE l == content[old.ino][old.index[t]]
<1>1. content[old.ino] \in Seq(Line) /\ old.index = IndexOf(content[old.ino])
  BY DEF RInv, IInv, TypeOK, HeldGood, Good, ExactIn
<1>2. l.kind = "rec"
  BY <1>1, IndexLeadsToRecord DEF IsRecOf
<1>3. l.end = Bad \/ Expired(l.end, asOf, Grace)
  BY <1>2 DEF Dropped, OldLine
<1>4. asOf \in Nat /\ now \in Nat /\ asOf <= now /\ Grace \in Nat
  BY NowTyped, TimesAreNaturals DEF RInv, IInv, TypeOK, MergeComplete
<1> HIDE DEF l
<1>5. l.end = Bad \/ (l.end \in Nat /\ now > l.end + Grace)
  BY <1>3, <1>4 DEF Expired
<1> QED BY <1>5 DEF l

\* The rename of a compaction commits a map that keeps the map merged with.
LEMMA InstallCommits ==
  ASSUME RInv, LinesKept, Install
  PROVE  Abs!Commit
<1> DEFINE new == diskBar'
<1>1. /\ dbIno' = fresh.ino /\ dbIno' \in Inodes /\ content' = content
      /\ ExactIn(fresh, content[fresh.ino])
      /\ UNCHANGED <<now, durDb, pin, cur>>
  BY RenameKeeps DEF Install, RenameTmp, job, RInv, IInv, WriterKnows
<1>2. new.has /\ DOMAIN new.map = DOMAIN fresh.index
  BY <1>1 DEF diskBar, FileValue, MapOf, ExactIn, Inodes
<1>3. UNCHANGED <<durableBar, servedBar, viewBar>>
  BY <1>1, DiskValuesKept, HeldValuesKept DEF RInv
<1>4. Merging /\ todo = {}
  BY DEF Install, Merging, RInv, MergeComplete
<1>5. IF Abs!Base.has THEN Abs!Keeps(Abs!Base.map, new.map) ELSE DOMAIN new.map # {}
  <2>1. CASE old = NoSnap
    <3>1. ~ Abs!Base.has
      BY <2>1, <1>4, BaseIsOld DEF SnapValue, NoMap
    <3> QED BY <1>2, <1>4, <2>1, <3>1 DEF RInv, MergeComplete
  <2>2. CASE old # NoSnap
    <3>1. Abs!Base.has /\ Abs!Base.map = MapOf(content[old.ino], old.index)
      BY <2>2, <1>4, BaseIsOld DEF SnapValue
    <3>2. ASSUME NEW t \in DOMAIN old.index
          PROVE  \/ t \in DOMAIN new.map
                 \/ Abs!Base.map[t] = Bad
                 \/ Abs!Base.map[t] \in Nat /\ now > Abs!Base.map[t] + Grace
      <4>1. t \in DOMAIN fresh.index \/ Dropped(OldLine(t))
        BY <1>4 DEF RInv, MergeComplete
      <4>2. Abs!Base.map[t] = content[old.ino][old.index[t]].end
        BY <3>1 DEF MapOf
      <4> QED BY <1>2, <1>4, <2>2, <4>1, <4>2, DroppedForGood
    <3> QED BY <3>1, <3>2 DEF Abs!Keeps, MapOf
  <2> QED BY <2>1, <2>2
<1> QED BY <1>1, <1>2, <1>3, <1>5 DEF Abs!Commit, diskBar, durableBar, servedBar, viewBar

\* The end of the process is a stop, with the file system where the crash left it.
LEMMA GoneStops ==
  ASSUME IInv, LinesKept, ProcessGone, UNCHANGED now,
         \/ UNCHANGED <<dbIno, durDb>>
         \/ dbIno' = durDb /\ UNCHANGED durDb
         \/ durDb' = dbIno /\ UNCHANGED dbIno
  PROVE  Abs!Stop
<1>1. servedBar' = NoMap /\ viewBar' = [r \in Readers |-> NoMap]
  <2>1. cur' = NoSnap /\ pin' = [r \in Readers |-> NoSnap]
    BY DEF ProcessGone
  <2> QED BY <2>1 DEF servedBar, viewBar, SnapValue
<1>2. \/ UNCHANGED <<diskBar, durableBar>>
      \/ diskBar' = durableBar /\ UNCHANGED durableBar
      \/ durableBar' = diskBar /\ UNCHANGED diskBar
  BY DiskValuesKept
<1> QED BY <1>1, <1>2, MapIsAbs DEF Abs!Stop, diskBar, durableBar, servedBar, viewBar

\* A failed cycle ends the process while nobody serves, and is not seen otherwise.
LEMMA FailureStopsOrIsUnseen ==
  ASSUME IInv, LinesKept, CompactionFails \/ NoProxyFound
  PROVE  Abs!Stop \/ Unseen
<1>1. UNCHANGED <<now, dbIno, durDb>>
  BY DEF CompactionFails, NoProxyFound, disk
<1>2. CASE cur = NoSnap
  BY <1>1, <1>2, GoneStops DEF CompactionFails, NoProxyFound
<1>3. CASE cur # NoSnap
  BY <1>1, <1>3, UnseenStep DEF CompactionFails, NoProxyFound, Serve
<1> QED BY <1>2, <1>3

\* A reader takes what is served, and gives it back.
LEMMA ReaderLooksOrLeaves ==
  ASSUME IInv, LinesKept, NEW r \in Readers, Pin(r) \/ Unpin(r)
  PROVE  Abs!Look(r) \/ Abs!Leave(r)
<1>1. UNCHANGED <<diskBar, durableBar, servedBar, now>> /\ UNCHANGED content
  BY DiskValuesKept, HeldValuesKept DEF Pin, Unpin, disk
<1>2. DOMAIN pin = Readers
  BY DEF IInv, TypeOK
<1>3. CASE Pin(r)
  <2>1. servedBar.has
    BY <1>3 DEF Pin, servedBar, SnapValue
  <2>2. pin' = [pin EXCEPT ![r] = cur]
    BY <1>3 DEF Pin
  <2>3. viewBar' = [viewBar EXCEPT ![r] = servedBar]
    BY <1>1, <1>2, <2>2 DEF viewBar, servedBar, SnapValue
  <2> QED BY <1>1, <2>1, <2>3 DEF Abs!Look, diskBar, durableBar, servedBar, viewBar
<1>4. CASE Unpin(r)
  <2>1. pin' = [pin EXCEPT ![r] = NoSnap]
    BY <1>4 DEF Unpin
  <2>2. viewBar' = [viewBar EXCEPT ![r] = NoMap]
    BY <1>1, <1>2, <2>1 DEF viewBar, SnapValue
  <2> QED BY <1>1, <2>2, MapIsAbs DEF Abs!Leave, diskBar, durableBar, servedBar, viewBar
<1> QED BY <1>3, <1>4

LEMMA EnvironmentImplements ==
  ASSUME IInv, LinesKept, Environment
  PROVE  Abs!ANext
<1>1. CASE \E r \in Readers : Pin(r) \/ Unpin(r)
  BY <1>1, ReaderLooksOrLeaves DEF Abs!ANext
<1>2. CASE Tick
  <2>1. now' = now + 1 /\ UNCHANGED <<diskBar, durableBar, servedBar, viewBar>>
    BY <1>2, DiskValuesKept, HeldValuesKept DEF Tick, disk
  <2> QED BY <2>1 DEF Abs!ANext, Abs!Pass, diskBar, durableBar, servedBar, viewBar
<1>3. CASE DirCommit
  <2>1. /\ durableBar' = diskBar
        /\ UNCHANGED <<diskBar, servedBar, viewBar, now>>
    BY <1>3, DiskValuesKept, HeldValuesKept DEF DirCommit
  <2> QED BY <2>1 DEF Abs!ANext, Abs!Harden, diskBar, durableBar, servedBar, viewBar
<1>4. CASE Kill \/ PowerLoss
  BY <1>4, GoneStops DEF Kill, PowerLoss, disk, Abs!ANext
<1> QED BY <1>1, <1>2, <1>3, <1>4 DEF Environment

\* Every step of the daemon is a step of AtomicDb or leaves its variables alone.
LEMMA StepImplements ==
  ASSUME RInv, [Next]_vars
  PROVE  [Abs!ANext]_(Abs!avars)
<1>1. IInv /\ LinesKept
  BY StepKeepsLines DEF RInv
<1>2. ASSUME Unseen PROVE UNCHANGED Abs!avars
  BY <1>2 DEF Unseen, Abs!avars, diskBar, durableBar, servedBar, viewBar
<1>3. CASE UNCHANGED vars
  BY <1>1, <1>2, <1>3, UnseenStep DEF vars, disk
<1>4. CASE Boot
  BY <1>1, <1>2, <1>4, WorkIsUnseen, ServingAdopts DEF Boot, Abs!ANext
<1>5. CASE Failure
  BY <1>1, <1>2, <1>5, WorkIsUnseen, FailureStopsOrIsUnseen DEF Failure, Abs!ANext
<1>6. CASE Environment
  BY <1>1, <1>6, EnvironmentImplements
<1>7. CASE Progress
  <2>1. CASE PullInstall
    BY <1>1, <2>1, PullInstallPulls DEF Abs!ANext
  <2>2. CASE Install
    BY <1>1, <2>2, InstallCommits DEF Abs!ANext
  <2>3. CASE Publish
    BY <1>1, <2>3, ServingAdopts DEF Abs!ANext
  <2>4. CASE ~ (PullInstall \/ Install \/ Publish)
    BY <1>1, <1>2, <1>7, <2>4, WorkIsUnseen DEF Progress
  <2> QED BY <2>1, <2>2, <2>3, <2>4
<1> QED BY <1>3, <1>4, <1>5, <1>6, <1>7 DEF Next

LEMMA InitImplements == Init => Abs!AInit
<1> SUFFICES ASSUME Init PROVE Abs!AInit
  OBVIOUS
<1>1. /\ durDb = dbIno /\ cur = NoSnap /\ now = 0
      /\ pin = [r \in Readers |-> NoSnap]
  BY DEF Init
<1>2. /\ durableBar = diskBar /\ servedBar = NoMap
      /\ viewBar = [r \in Readers |-> NoMap]
  BY <1>1 DEF durableBar, diskBar, servedBar, viewBar, SnapValue
<1> QED BY <1>1, <1>2, MapIsAbs DEF Abs!AInit, diskBar, durableBar, servedBar, viewBar

\* The boot, the crawls, the pulls, the failures, the crashes and the readers of
\* Store implement one map that is replaced as a whole: nobody ever serves or loads
\* a torn or mixed file, no reader's map changes under it, and a compaction keeps
\* every ticker of the map it merges with that is no junk and not past its grace.
THEOREM StoreRefinesAtomicDb == Spec => RefinesAtomicDb
<1>1. RInv /\ [Next]_vars => [Abs!ANext]_(Abs!avars)
  BY StepImplements
<1> QED BY <1>1, InitImplements, RInvHolds, PTL DEF Spec, RefinesAtomicDb, Abs!ASpec

-----------------------------------------------------------------------------
(* StampNeverRegresses *)

\* The file at db_path is not rewritten, so what may replace it still may later.
LEMMA NotOlderGrows ==
  ASSUME IInv, LinesKept, UNCHANGED dbIno, now' \in {now, now + 1}
  PROVE  NotOlder \subseteq NotOlder' /\ 0 .. now \subseteq 0 .. now'
<1>1. now \in Nat /\ dbIno \in {0} \cup Inodes
  BY NowTyped DEF IInv, TypeOK
<1>2. dbIno # 0 => content'[dbIno] = content[dbIno]
  BY EntryLinesKept
<1> QED BY <1>1, <1>2 DEF NotOlder

\* A step that writes no line and creates no file.
LEMMA NoLineKeepsStamps ==
  ASSUME IInv, LinesKept, StampsKnown, UNCHANGED content, now' \in {now, now + 1},
         Writing' => Writing /\ fresh'.ino = fresh.ino,
         pc' = "pull" => pc = "pull" /\ src' = src,
         Booting' => Booting /\ cands' \subseteq cands,
         Writing' \/ Booting' => UNCHANGED dbIno
  PROVE  StampsKnown'
<1>1. 0 .. now \subseteq 0 .. now'
  BY NowTyped DEF IInv
<1>2. FilesStamped'
  BY <1>1 DEF StampsKnown, FilesStamped, StampIn
<1>3. CandsNotOlder'
  BY NotOlderGrows DEF StampsKnown, CandsNotOlder
<1>4. StreamNotOlder' /\ FileNotOlder'
  BY NotOlderGrows DEF StampsKnown, StreamNotOlder, FileNotOlder, StampIn, Writing
<1> QED BY <1>2, <1>3, <1>4 DEF StampsKnown

\* The first line decides the stamp of a file.
LEMMA StampAfterWrite ==
  ASSUME NEW f \in Seq(Line), NEW l \in Line, NEW S,
         IF f = <<>> THEN l.kind = "meta" => l.built \in S ELSE StampIn(f, S)
  PROVE  StampIn(WriteAt(f, Len(f) + 1, l), S) /\ WriteAt(f, Len(f) + 1, l) # <<>>
<1> DEFINE g == WriteAt(f, Len(f) + 1, l)
<1>1. /\ g \in Seq(Line) /\ Len(g) = Len(f) + 1 /\ g[Len(f) + 1] = l
      /\ \A j \in 1 .. Len(f) : g[j] = f[j]
  BY WriteAtEnd
<1> HIDE DEF g
<1>2. g # <<>> /\ g[1] = IF f = <<>> THEN l ELSE f[1]
  BY <1>1
<1>3. f # <<>> => Len(f) > 0
  OBVIOUS
<1> QED BY <1>2, <1>3 DEF StampIn, HasMeta, g

\* A line written at the end of the file in progress.
LEMMA LineKeepsStamps ==
  ASSUME IInv, LinesKept, StampsKnown, pc \in {"pull", "crawl", "merge"},
         NEW l \in Line, WriteLine(l), UNCHANGED <<now, pc, cands>>, fresh'.ino = fresh.ino,
         content[fresh.ino] = <<>> /\ l.kind = "meta" => l.built \in NotOlder
  PROVE  StampsKnown'
<1> DEFINE f == content[fresh.ino]
<1>1. /\ fresh.ino \in Inodes /\ f \in Seq(Line) /\ offset = Len(f)
      /\ StampIn(f, NotOlder)
  BY DEF IInv, WriterKnows, TypeOK, StampsKnown, FileNotOlder, Writing
<1>2. /\ content' = [content EXCEPT ![fresh.ino] = WriteAt(f, Len(f) + 1, l)]
      /\ UNCHANGED dbIno
  BY <1>1 DEF WriteLine
<1>3. StampIn(content'[fresh.ino], NotOlder) /\ content'[fresh.ino] # <<>>
  BY <1>1, <1>2, StampAfterWrite DEF IInv, TypeOK
<1>4. NotOlder \subseteq NotOlder' /\ NotOlder \subseteq 0 .. now
  BY <1>2, NotOlderGrows DEF NotOlder
<1>5. FilesStamped'
  <2>1. StampIn(content'[fresh.ino], 0 .. now)
    BY <1>3, <1>4 DEF StampIn
  <2>2. \A i \in Inodes \ {fresh.ino} : content'[i] = content[i]
    BY <1>2 DEF IInv, TypeOK
  <2> QED BY <2>1, <2>2 DEF StampsKnown, FilesStamped
<1>6. CandsNotOlder'
  BY <1>4 DEF StampsKnown, CandsNotOlder, Booting
<1>7. StreamNotOlder' /\ FileNotOlder'
  BY <1>3, <1>4 DEF StreamNotOlder, FileNotOlder, StampIn
<1> QED BY <1>5, <1>6, <1>7 DEF StampsKnown

\* A crawl stamps its file with the present, and no file is stamped later.
LEMMA BeginKeepsStamps ==
  ASSUME IInv, LinesKept, StampsKnown, BootCrawl \/ RefreshStart
  PROVE  StampsKnown'
<1>1. PICK i \in Inodes : CreateTmp(i, <<Meta(now)>>) /\ fresh'.ino = i
  BY DEF BootCrawl, RefreshStart, Begin
<1>2. pc' = "crawl" /\ UNCHANGED <<now, dbIno>> /\ now \in Nat
  BY <1>1, NowTyped DEF BootCrawl, RefreshStart, Begin, CreateTmp, IInv
<1>3. content' = [content EXCEPT ![i] = <<Meta(now)>>]
  BY <1>1 DEF CreateTmp
<1>4. StampIn(content'[i], {now}) /\ content'[i] # <<>>
  BY <1>3 DEF StampIn, HasMeta, Meta, IInv, TypeOK
<1>5. FilesStamped'
  BY <1>2, <1>3, <1>4 DEF StampsKnown, FilesStamped, StampIn
<1>6. now \in NotOlder'
  BY <1>2, <1>5 DEF NotOlder, FilesStamped, StampIn, IInv, TypeOK
<1> QED BY <1>1, <1>2, <1>4, <1>5, <1>6
        DEF StampsKnown, CandsNotOlder, StreamNotOlder, FileNotOlder, StampIn, Booting

\* A candidate is within the TTL, and the file at db_path is not.
LEMMA QueryKeepsStamps ==
  ASSUME IInv, StampsKnown, BootStale \/ BootMissing
  PROVE  StampsKnown'
<1>1. /\ pc' = "mesh" /\ UNCHANGED <<now, content, dbIno>> /\ QueryPeers
  BY DEF BootStale, BootMissing, disk
<1>2. /\ now \in Nat /\ Interval \in Nat /\ cands' \subseteq Candidate
      /\ \A c \in cands' : c.built <= now /\ WithinTTL(c.built)
  <2>1. now \in Nat /\ Interval \in Nat /\ cands' \subseteq Candidate
    BY NowTyped, QueryTyped, TimesAreNaturals, <1>1 DEF IInv
  <2>2. \E who \in SUBSET Peers : \E b \in [who -> ReportedStamps] :
          /\ \A p \in who : b[p] <= now /\ WithinTTL(b[p])
          /\ cands' = {[peer |-> p, built |-> b[p]] : p \in who}
    BY <1>1 DEF QueryPeers
  <2> QED BY <2>1, <2>2
<1>3. ASSUME NEW c \in cands', dbIno # 0, HasMeta(content[dbIno])
      PROVE  content[dbIno][1].built <= c.built
  <2> DEFINE s == content[dbIno][1].built
  <2>1. s \in 0 .. now
    BY <1>3 DEF StampsKnown, FilesStamped, StampIn, IInv, TypeOK
  <2>2. ~ WithinTTL(s)
    BY <1>3 DEF BootStale, BootMissing, FromFile, BuiltOf
  <2>3. c.built \in Nat
    BY <1>2 DEF Candidate
  <2> HIDE DEF s
  <2>4. s <= c.built
    BY <1>2, <2>1, <2>2, <2>3 DEF WithinTTL, Age
  <2> QED BY <2>4 DEF s
<1>4. \A c \in cands' : c.built \in NotOlder'
  BY <1>1, <1>2, <1>3 DEF NotOlder, Candidate
<1> QED BY <1>1, <1>4
        DEF StampsKnown, FilesStamped, CandsNotOlder, StreamNotOlder, FileNotOlder, Writing

\* A stream is stamped no earlier than its peer had reported.
LEMMA PullStartKeepsStamps ==
  ASSUME IInv, LinesKept, StampsKnown, PullStart
  PROVE  StampsKnown'
<1>1. PICK c \in cands, f \in PeerFiles, i \in Inodes :
        /\ HasMeta(f) => f[1].built \in c.built .. now
        /\ CreateTmp(i, <<>>)
        /\ cands' = cands \ {c}
        /\ src' = f
        /\ fresh' = [ino |-> i, index |-> [t \in {} |-> 0], built |-> 0]
  BY DEF PullStart
<1>2. /\ content' = [content EXCEPT ![i] = <<>>] /\ fresh'.ino = i
      /\ UNCHANGED <<now, dbIno>> /\ pc = "mesh" /\ pc' = "pull"
  BY <1>1 DEF PullStart, CreateTmp
<1>3. now \in Nat /\ content'[i] = <<>> /\ ~ HasMeta(content'[i])
  BY <1>2, NowTyped DEF IInv, TypeOK, HasMeta
<1>4. NotOlder \subseteq NotOlder'
  BY <1>2, NotOlderGrows
<1>5. FilesStamped'
  BY <1>2, <1>3 DEF StampsKnown, FilesStamped, StampIn
<1>6. \A d \in cands : d.built \in NotOlder /\ d.built \in Nat
  BY <1>2 DEF StampsKnown, CandsNotOlder, Booting, IInv, TypeOK, Candidate
<1>7. StampIn(src', NotOlder)
  <2> SUFFICES ASSUME HasMeta(f) PROVE f[1].built \in NotOlder
    BY <1>1 DEF StampIn
  <2>1. f[1].built \in c.built .. now /\ c.built \in NotOlder /\ c.built \in Nat
    BY <1>1, <1>6
  <2>2. ASSUME dbIno # 0, HasMeta(content[dbIno])
        PROVE  content[dbIno][1].built <= f[1].built
    <3>1. content[dbIno][1].built \in 0 .. now
      BY <2>2 DEF StampsKnown, FilesStamped, StampIn, IInv, TypeOK
    <3>2. content[dbIno][1].built <= c.built
      BY <2>1, <2>2 DEF NotOlder
    <3> QED BY <1>3, <2>1, <3>1, <3>2
  <2> QED BY <1>3, <2>1, <2>2 DEF NotOlder
<1>8. CandsNotOlder'
  BY <1>1, <1>4, <1>6 DEF CandsNotOlder
<1>9. StreamNotOlder' /\ FileNotOlder'
  BY <1>2, <1>3, <1>4, <1>7 DEF StreamNotOlder, FileNotOlder, StampIn
<1> QED BY <1>5, <1>8, <1>9 DEF StampsKnown

\* The first chunk is the first line of the stream.
LEMMA PullChunkKeepsStamps ==
  ASSUME IInv, LinesKept, StampsKnown, PullChunk
  PROVE  StampsKnown'
<1>1. /\ pc = "pull" /\ src # <<>> /\ src \in Seq(Line) /\ WriteLine(Head(src))
      /\ UNCHANGED <<now, pc, cands, fresh>>
  BY DEF PullChunk, IInv, TypeOK
<1>2. Head(src) \in Line /\ Head(src) = src[1] /\ Len(src) > 0
  BY <1>1
<1>3. content[fresh.ino] = <<>> /\ Head(src).kind = "meta" => Head(src).built \in NotOlder
  BY <1>1, <1>2 DEF StampsKnown, StreamNotOlder, StampIn, HasMeta
<1> QED BY <1>1, <1>2, <1>3, LineKeepsStamps

\* A record is written to a file that has its meta line.
LEMMA RecordKeepsStamps ==
  ASSUME IInv, LinesKept, StampsKnown, NEW t \in Tickers,
         (\E e \in CrawlEnds : CrawlEvent(t, e)) \/ CarryForward(t)
  PROVE  StampsKnown'
<1>1. /\ pc \in {"crawl", "merge"} /\ UNCHANGED <<now, pc, cands>> /\ fresh'.ino = fresh.ino
  BY DEF CrawlEvent, CarryForward, mesh
<1>2. content[fresh.ino] # <<>>
  BY <1>1 DEF IInv, WriterKnows, HasMeta
<1>3. PICK l \in Line : WriteLine(l)
  <2>1. CASE CarryForward(t)
    <3>1. old.index[t] \in DOMAIN content[old.ino] /\ WriteLine(OldLine(t))
      BY <2>1 DEF CarryForward, Readable
    <3>2. t \in DOMAIN old.index /\ pc = "merge"
      BY <2>1 DEF CarryForward, NextTodo, IInv, WriterKnows
    <3>3. content[old.ino] \in Seq(Line)
      BY <3>2 DEF IInv, TypeOK, HeldGood, Good, NoSnap
    <3> QED BY <3>1, <3>3 DEF OldLine
  <2>2. ASSUME NEW e \in CrawlEnds, CrawlEvent(t, e)
        PROVE  \E l \in Line : WriteLine(l)
    BY <2>2, CrawlEndsAreEnds DEF CrawlEvent, Line, Rec
  <2> QED BY <2>1, <2>2
<1> QED BY <1>1, <1>2, <1>3, LineKeepsStamps

\* A process that is gone leaves only files, and they keep or lose their first line.
LEMMA GoneKeepsStamps ==
  ASSUME IInv, StampsKnown, Kill \/ PowerLoss
  PROVE  StampsKnown'
<1>1. pc' = "off" /\ UNCHANGED now
  BY DEF Kill, PowerLoss, ProcessGone
<1>2. ASSUME NEW i \in Inodes
      PROVE  StampIn(content'[i], 0 .. now)
  <2>1. StampIn(content[i], 0 .. now) /\ content[i] \in Seq(Line)
    BY DEF StampsKnown, FilesStamped, IInv, TypeOK
  <2>2. CASE content'[i] = content[i]
    BY <2>1, <2>2
  <2>3. CASE content'[i] # content[i]
    <3>1. PICK k \in 0 .. MaxEvents + 1 :
            k <= Len(content[i]) /\ content'[i] = SubSeq(content[i], 1, k)
      BY <2>1, <2>3, BoundsAreNaturals DEF Kill, PowerLoss, disk
    <3>2. k \in Nat /\ Len(content'[i]) = k /\ (k > 0 => content'[i][1] = content[i][1])
      BY <2>1, <3>1, BoundsAreNaturals
    <3> QED BY <2>1, <3>1, <3>2 DEF StampIn, HasMeta
  <2> QED BY <2>2, <2>3
<1> QED BY <1>1, <1>2
        DEF StampsKnown, FilesStamped, CandsNotOlder, StreamNotOlder, FileNotOlder,
            Writing, Booting

LEMMA OtherStepsKeepStamps ==
  ASSUME IInv, LinesKept, StampsKnown,
         \/ BootFresh \/ Failure
         \/ PullDeclined \/ PullSync \/ PullInstall \/ FindProxy \/ EndCrawl
         \/ \E t \in Tickers : DropFromMerge(t)
         \/ Stage \/ Install \/ Publish
         \/ \E r \in Readers : Pin(r) \/ Unpin(r)
         \/ Tick \/ DirCommit \/ UNCHANGED vars
  PROVE  StampsKnown'
<1>1. CASE \/ BootFresh \/ PullInstall \/ Install \/ Publish \/ CompactionFails \/ NoProxyFound
  <2>1. /\ UNCHANGED <<now, content>> /\ ~ Writing' /\ ~ Booting' /\ pc' # "pull"
    BY <1>1 DEF BootFresh, PullInstall, Install, Publish, CompactionFails, NoProxyFound, Serve,
       ProcessGone, RenameTmp, disk, Writing, Booting
  <2> QED BY <2>1, NoLineKeepsStamps
<1>2. CASE PullDeclined \/ PullSync \/ PullFails
  <2>1. fresh.ino = tmpIno \/ pc = "mesh"
    BY <1>2 DEF PullDeclined, PullSync, PullFails, IInv, WriterKnows
  <2>2. PullSync => fresh'.ino = tmpIno
    BY DEF PullSync, FromFile
  <2> QED BY <1>2, <2>1, <2>2, NoLineKeepsStamps
          DEF PullDeclined, PullSync, PullFails, SyncFresh, RemoveTmp, disk, job, mesh, Writing, Booting
<1>3. CASE FindProxy \/ EndCrawl \/ Stage \/ \E t \in Tickers : DropFromMerge(t)
  BY <1>3, NoLineKeepsStamps
     DEF FindProxy, EndCrawl, Stage, DropFromMerge, SyncFresh, disk, job, mesh, Writing, Booting
<1>4. CASE (\E r \in Readers : Pin(r) \/ Unpin(r)) \/ Tick \/ DirCommit \/ UNCHANGED vars
  <2>1. /\ UNCHANGED <<content, dbIno, pc, fresh, src, cands>> /\ now' \in {now, now + 1}
    BY <1>4 DEF Pin, Unpin, Tick, DirCommit, vars, disk, job, mesh
  <2> QED BY <2>1, NoLineKeepsStamps DEF Writing, Booting
<1> QED BY <1>1, <1>2, <1>3, <1>4 DEF Failure

LEMMA NextKeepsStamps ==
  ASSUME IInv, StampsKnown, [Next]_vars
  PROVE  StampsKnown'
<1>1. LinesKept
  BY StepKeepsLines
<1>2. CASE Progress
  <2>1. CASE BootCrawl \/ RefreshStart
    BY <1>1, <2>1, BeginKeepsStamps
  <2>2. CASE PullStart
    BY <1>1, <2>2, PullStartKeepsStamps
  <2>3. CASE PullChunk
    BY <1>1, <2>3, PullChunkKeepsStamps
  <2>4. CASE \/ \E t \in Tickers, e \in CrawlEnds : CrawlEvent(t, e)
             \/ \E t \in Tickers : CarryForward(t)
    BY <1>1, <2>4, RecordKeepsStamps
  <2> QED BY <1>1, <1>2, <2>1, <2>2, <2>3, <2>4, OtherStepsKeepStamps DEF Progress
<1>3. CASE BootStale \/ BootMissing
  BY <1>3, QueryKeepsStamps
<1>4. CASE Kill \/ PowerLoss
  BY <1>4, GoneKeepsStamps
<1>5. CASE BootFresh \/ Failure \/ (Environment /\ ~ (Kill \/ PowerLoss)) \/ UNCHANGED vars
  BY <1>1, <1>5, OtherStepsKeepStamps DEF Environment
<1> QED BY <1>2, <1>3, <1>4, <1>5 DEF Next, Boot, Environment

LEMMA InitStamps ==
  ASSUME StampsInPast, Init
  PROVE  StampsKnown
<1>1. now = 0 /\ pc = "off"
  BY DEF Init
<1>2. ASSUME NEW i \in Inodes
      PROVE  StampIn(content[i], 0 .. now)
  <2>1. content[i] = <<>> \/ content[i] \in InitFiles
    BY DEF Init
  <2> QED BY <1>1, <2>1 DEF StampIn, StampsInPast, HasMeta
<1> QED BY <1>1, <1>2
        DEF StampsKnown, FilesStamped, CandsNotOlder, StreamNotOlder, FileNotOlder,
            Writing, Booting

\* Only a rename by the daemon, or a power loss, changes the file at db_path.
LEMMA StepKeepsStamp ==
  ASSUME IInv, StampsKnown, [Next]_vars, pc' # "off", dbIno # 0,
         HasMeta(content[dbIno]), HasMeta(content'[dbIno'])
  PROVE  content'[dbIno'][1].built >= content[dbIno][1].built
<1>1. content[dbIno][1].built \in Nat
  BY DEF StampsKnown, FilesStamped, StampIn, IInv, TypeOK
<1>2. CASE dbIno' = dbIno
  BY <1>1, <1>2, StepKeepsLines, EntryLinesKept
<1>3. CASE PullInstall \/ Install
  <2>1. dbIno' = fresh.ino /\ content' = content /\ Writing
    BY <1>3, RenameKeeps DEF PullInstall, Install, Writing
  <2>2. content[fresh.ino][1].built \in NotOlder
    BY <2>1 DEF StampsKnown, FileNotOlder, StampIn
  <2> QED BY <1>1, <2>1, <2>2 DEF NotOlder
<1>4. CASE dbIno' # dbIno /\ ~ (PullInstall \/ Install)
  <2>1. CASE Boot \/ Failure \/ Environment \/ UNCHANGED vars
    BY <1>4, <2>1 DEF Boot, BootFresh, BootStale, BootMissing, Failure, PullFails, RemoveTmp,
       CompactionFails, NoProxyFound, Environment, Pin, Unpin, Tick, Kill, DirCommit, PowerLoss,
       ProcessGone, vars, disk
  <2>2. CASE Progress
    BY <1>4, <2>2 DEF Progress, PullDeclined, PullStart, PullChunk, PullSync, BootCrawl,
       RefreshStart, Begin, FindProxy, CrawlEvent, EndCrawl, CarryForward, DropFromMerge, Stage,
       Publish, CreateTmp, WriteLine, SyncFresh, disk
  <2> QED BY <2>1, <2>2 DEF Next
<1> QED BY <1>2, <1>3, <1>4

\* If no file found at the start was stamped by a clock ahead of this one, the
\* database at db_path is only ever replaced by one that was built no earlier, by
\* crawls, pulls, failed cycles and restarts in any order.
THEOREM StoreStampNeverRegresses ==
  ASSUME StampsInPast
  PROVE  Spec => StampNeverRegresses
<1>1. Init => StampsKnown
  BY InitStamps
<1>2. IInv /\ StampsKnown /\ [Next]_vars => StampsKnown'
  BY NextKeepsStamps
<1>3. IInv /\ StampsKnown /\ [Next]_vars
        => [pc' # "off" /\ dbIno # 0 /\ HasMeta(content[dbIno]) /\ HasMeta(content'[dbIno'])
              => content'[dbIno'][1].built >= content[dbIno][1].built]_vars
  BY StepKeepsStamp
<1> QED BY <1>1, <1>2, <1>3, IInvHolds, PTL DEF Spec, StampNeverRegresses
====
