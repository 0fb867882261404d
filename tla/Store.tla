------------------------------- MODULE Store -------------------------------
(***************************************************************************)
(* One daemon and its database file: the boot of main.rs, the refresh loop *)
(* and full_crawl_and_compact of refresh.rs, pull_from_peer of             *)
(* mesh_sync.rs, and the Snapshot/Database pair of database.rs, over a     *)
(* file system with inodes, renames, fsync and power loss.                 *)
(*                                                                         *)
(* A snapshot pairs an index with an inode.  The path db_path and the      *)
(* staging path db_path.tmp are the directory entries dbIno and tmpIno.    *)
(***************************************************************************)
EXTENDS LogFile

CONSTANTS Peers,      \* tailnet peers that may answer db_info
          Readers,    \* requests and raw transfers that hold an Arc<Snapshot>
          CrawlEnds,  \* endDates the crawl may return
          InitFiles,  \* files a previous life may have left at db_path
          PeerFiles,  \* what the stream of a peer may decode to
          Proxies,    \* SOCKS5_ADDRS
          NullDisabled, \* NULL_DISABLED: whether connecting directly is off
          Interval,   \* refresh_interval_secs
          Grace,      \* PRUNE_GRACE_SECS
          MaxNow,     \* bound: the clock
          MaxEvents,  \* bound: records of one crawl
          MaxInodes   \* bound: files ever created at .tmp

ASSUME TimesAreNaturals == Interval \in Nat /\ Grace \in Nat /\ MaxNow \in Nat
ASSUME BoundsAreNaturals == MaxEvents \in Nat /\ MaxInodes \in Nat \ {0}
ASSUME FilesAreLines == InitFiles \subseteq Seq(Line) /\ PeerFiles \subseteq Seq(Line)
ASSUME NullDisabledIsBoolean == NullDisabled \in BOOLEAN
ASSUME CrawlEndsAreEnds == CrawlEnds \subseteq Ends \ {Bad}

VARIABLES
  now,      \* the wall clock, in units that make Interval small
  content,  \* inode -> its lines
  synced,   \* inodes whose lines sync_all has put on the disk
  dbIno,    \* the inode at db_path, 0 if the path does not exist
  durDb,    \* the inode at db_path that a power loss may fall back to
  tmpIno,   \* the inode at db_path.tmp, 0 if the path does not exist
  nextIno,  \* the next inode to allocate
  pc,       \* where the booting thread, then the refresh thread, stands
  cur,      \* Database.inner: the snapshot served, NoSnap before main serves
  old,      \* the snapshot a compaction carries forward from
  fresh,    \* the snapshot being built
  offset,   \* the writer's position in fresh.ino
  todo,     \* merge_carry_forward: tickers of old.index still to visit
  asOf,     \* merge_carry_forward: its `now`
  cands,    \* try_bootstrap_from_peers: candidates not tried yet
  src,      \* pull_from_peer: lines of the stream not yet written
  agent,    \* proxy.rs, AGENT: the route of every crawl of this process
  wake,     \* when the refresh thread's sleep ends
  pin       \* reader -> the Arc<Snapshot> it holds

disk == <<content, synced, dbIno, durDb, tmpIno, nextIno>>
job  == <<old, fresh, offset, todo, asOf>>
mesh == <<cands, src>>
vars == <<now, disk, pc, cur, job, mesh, agent, wake, pin>>

Inodes == 1 .. MaxInodes
Candidate == [peer : Peers, built : Nat]

\* A Snapshot; an index is a partial function from tickers to positions.
IsSnapshot(s) ==
  /\ s = [ino |-> s.ino, index |-> s.index, built |-> s.built]
  /\ s.ino \in {0} \cup Inodes /\ s.built \in Nat
  /\ DOMAIN s.index \subseteq Tickers /\ s.index \in [DOMAIN s.index -> Nat]

NoSnap == [ino |-> 0, index |-> [t \in {} |-> 0], built |-> 0]

\* Where the thread stands between two calls that touch the file system; "dead"
\* is a refresh thread that has panicked while the process goes on.
Phases == {"off", "mesh", "pull", "pulled", "crawl", "merge", "staged", "renamed",
           "idle", "dead"}

NoAgent == "none"
Direct  == "null"

TypeOK ==
  /\ now \in 0 .. MaxNow
  /\ content \in [Inodes -> Seq(Line)]
  /\ synced \subseteq Inodes
  /\ {dbIno, durDb, tmpIno} \subseteq {0} \cup Inodes
  /\ nextIno \in 1 .. MaxInodes + 1
  /\ pc \in Phases
  /\ IsSnapshot(cur) /\ IsSnapshot(old) /\ IsSnapshot(fresh)
  /\ offset \in Nat
  /\ todo \subseteq Tickers
  /\ asOf \in Nat
  /\ cands \subseteq Candidate
  /\ src \in Seq(Line)
  /\ agent \in {NoAgent, Direct} \cup Proxies
  /\ wake \in Nat
  /\ DOMAIN pin = Readers /\ \A r \in Readers : IsSnapshot(pin[r])

-----------------------------------------------------------------------------
(* Snapshots of files *)

\* Snapshot::from_file on inode i; mtime is what the file system reports.
FromFile(i, mtime) ==
  [ino |-> i, index |-> IndexOf(content[i]), built |-> BuiltOf(content[i], mtime)]

\* now.saturating_sub(built_at_unix)
Age(built) == IF built <= now THEN now - built ELSE 0

WithinTTL(built) == Age(built) < Interval

\* Mutant: the operands of the subtraction are swapped.
DelaySwapped(built) == Age(built) - Interval

\* interval.saturating_sub(age): the sleep before the first refresh.
Delay(built) == IF Age(built) < Interval THEN Interval - Age(built) ELSE 0

-----------------------------------------------------------------------------
(* File system calls *)

\* File::create(tmp): truncates the file at the path, or allocates an inode.
CreateTmp(i, f) ==
  /\ \/ tmpIno # 0 /\ i = tmpIno /\ UNCHANGED nextIno
     \/ tmpIno = 0 /\ i = nextIno /\ i <= MaxInodes /\ nextIno' = nextIno + 1
  /\ tmpIno' = i
  /\ content' = [content EXCEPT ![i] = f]
  /\ synced' = synced \ {i}
  /\ UNCHANGED <<dbIno, durDb>>

\* write_all of one line by the holder of the descriptor of fresh.ino.
WriteLine(l) ==
  /\ content' = [content EXCEPT ![fresh.ino] = WriteAt(@, offset + 1, l)]
  /\ offset' = offset + 1
  /\ UNCHANGED <<synced, dbIno, durDb, tmpIno, nextIno>>

\* flush, then sync_all.
SyncFresh ==
  /\ synced' = synced \cup {fresh.ino}
  /\ UNCHANGED <<content, dbIno, durDb, tmpIno, nextIno>>

\* rename(tmp, path)
RenameTmp ==
  /\ tmpIno # 0
  /\ dbIno' = tmpIno
  /\ tmpIno' = 0
  /\ UNCHANGED <<content, synced, durDb, nextIno>>

\* remove_file(tmp), its error ignored
RemoveTmp == tmpIno' = 0 /\ UNCHANGED <<content, synced, dbIno, durDb, nextIno>>

-----------------------------------------------------------------------------
(* How a job ends *)

JobDone ==
  /\ old' = NoSnap /\ fresh' = NoSnap
  /\ offset' = 0 /\ todo' = {} /\ asOf' = 0

\* Database::new or Database::swap, and the thread sleeps for d.
Serve(s, d) ==
  /\ cur' = s
  /\ wake' = now + d
  /\ pc' = "idle"

\* The process is gone, and every descriptor and Arc with it.
ProcessGone ==
  /\ pc' = "off" /\ cur' = NoSnap /\ wake' = 0
  /\ JobDone
  /\ cands' = {} /\ src' = <<>> /\ agent' = NoAgent
  /\ pin' = [r \in Readers |-> NoSnap]

-----------------------------------------------------------------------------
(* Boot: main.rs *)

\* main: the file is within the TTL and is served as it is.
BootFresh ==
  /\ pc = "off" /\ dbIno # 0
  /\ \E mtime \in 0 .. now :
       LET s == FromFile(dbIno, mtime)
       IN  WithinTTL(s.built) /\ Serve(s, Delay(s.built))
  /\ UNCHANGED <<now, disk, job, mesh, agent, pin>>

\* A peer that serves a file of the current format reports its meta line.
ReportedStamps == {f[1].built : f \in {g \in PeerFiles : HasMeta(g)}}

\* Mutant: the TTL is not asked of a peer.
QueryPeersOfAnyAge ==
  \E who \in SUBSET Peers : \E b \in [who -> ReportedStamps] :
    /\ \A p \in who : b[p] <= now
    /\ cands' = {[peer |-> p, built |-> b[p]] : p \in who}

\* try_bootstrap_from_peers: the peers that answer in format and within the TTL.
QueryPeers ==
  \E who \in SUBSET Peers : \E b \in [who -> ReportedStamps] :
    /\ \A p \in who : b[p] <= now /\ WithinTTL(b[p])
    /\ cands' = {[peer |-> p, built |-> b[p]] : p \in who}

\* main: the file is older than the TTL; it becomes the compaction's `old`.
BootStale ==
  /\ pc = "off" /\ dbIno # 0
  /\ \E mtime \in 0 .. now :
       LET s == FromFile(dbIno, mtime) IN ~ WithinTTL(s.built) /\ old' = s
  /\ QueryPeers
  /\ pc' = "mesh"
  /\ UNCHANGED <<now, disk, cur, fresh, offset, todo, asOf, src, agent, wake, pin>>

\* main: there is no file.
BootMissing ==
  /\ pc = "off" /\ dbIno = 0
  /\ QueryPeers
  /\ pc' = "mesh"
  /\ UNCHANGED <<now, disk, cur, job, src, agent, wake, pin>>

-----------------------------------------------------------------------------
(* Mesh pull: mesh_sync.rs *)

Freshest(c) == c \in cands /\ \A d \in cands : d.built <= c.built

\* No connection, "busy" or any other refusal: the candidate is spent.
PullDeclined ==
  /\ pc = "mesh"
  /\ \E c \in cands : Freshest(c) /\ cands' = cands \ {c}
  /\ UNCHANGED <<now, disk, pc, cur, job, src, agent, wake, pin>>

\* The raw connection is up and the .tmp file created.  The peer pins its
\* snapshot when asked to send, so it sends what it reported or a later file.
PullStart ==
  /\ pc = "mesh"
  /\ \E c \in cands, f \in PeerFiles, i \in Inodes :
       /\ Freshest(c)
       /\ HasMeta(f) => f[1].built \in c.built .. now
       /\ CreateTmp(i, <<>>)
       /\ cands' = cands \ {c}
       /\ src' = f
       /\ fresh' = [ino |-> i, index |-> [t \in {} |-> 0], built |-> 0]
  /\ offset' = 0
  /\ pc' = "pull"
  /\ UNCHANGED <<now, cur, old, todo, asOf, agent, wake, pin>>

\* One chunk of the stream reaches the file.
PullChunk ==
  /\ pc = "pull" /\ src # <<>>
  /\ WriteLine(Head(src))
  /\ src' = Tail(src)
  /\ UNCHANGED <<now, pc, cur, old, fresh, todo, asOf, cands, agent, wake, pin>>

\* End of the stream: sync_all, then Snapshot::from_file on the .tmp file.
PullSync ==
  /\ pc = "pull" /\ src = <<>> /\ tmpIno # 0
  /\ SyncFresh
  /\ fresh' = FromFile(tmpIno, now)
  /\ pc' = "pulled"
  /\ UNCHANGED <<now, cur, old, offset, todo, asOf, mesh, agent, wake, pin>>

\* rename, and main serves what was pulled.
PullInstall ==
  /\ pc = "pulled"
  /\ RenameTmp
  /\ Serve(fresh, Delay(fresh.built))
  /\ JobDone
  /\ cands' = {} /\ src' = <<>>
  /\ UNCHANGED <<now, agent, pin>>

\* An I/O error, a corrupt stream, a file that does not load: .tmp is removed.
PullFails ==
  /\ pc \in {"pull", "pulled"}
  /\ RemoveTmp
  /\ fresh' = NoSnap /\ offset' = 0 /\ src' = <<>>
  /\ pc' = "mesh"
  /\ UNCHANGED <<now, cur, old, todo, asOf, cands, agent, wake, pin>>

-----------------------------------------------------------------------------
(* Compaction: full_crawl_and_compact *)

\* Mutant: the in-progress file takes over the inode at db_path.
BeginWritesInPlace(base) ==
  /\ dbIno # 0
  /\ content' = [content EXCEPT ![dbIno] = <<Meta(now)>>]
  /\ fresh' = [ino |-> dbIno, index |-> [t \in {} |-> 0], built |-> now]
  /\ UNCHANGED <<synced, dbIno, durDb, tmpIno, nextIno>>
  /\ old' = base /\ offset' = 1 /\ pc' = "crawl"
  /\ UNCHANGED <<now, cur, todo, asOf, mesh, agent, wake, pin>>

\* File::create and the meta line, stamped with the time the crawl starts.
Begin(base) ==
  /\ \E i \in Inodes :
       /\ CreateTmp(i, <<Meta(now)>>)
       /\ fresh' = [ino |-> i, index |-> [t \in {} |-> 0], built |-> now]
  /\ old' = base
  /\ offset' = 1
  /\ pc' = "crawl"
  /\ UNCHANGED <<now, cur, todo, asOf, mesh, agent, wake, pin>>

\* main: every candidate is spent, crawl before serving.
BootCrawl == pc = "mesh" /\ cands = {} /\ Begin(old)

\* spawn_refresh_loop: the sleep is over; `old` is the snapshot served now.
RefreshStart == pc = "idle" /\ now >= wake /\ Begin(cur)

\* proxy.rs, proxy_addrs: a direct connection is a candidate unless disabled.
Routes == Proxies \cup (IF NullDisabled THEN {} ELSE {Direct})

\* get_proxy_agent, at the first page this process fetches: whichever route
\* answers first (or, unless disabled, the direct one if none does) is kept.
FindProxy ==
  /\ pc = "crawl" /\ agent = NoAgent
  /\ agent' \in Routes
  /\ UNCHANGED <<now, disk, pc, cur, job, mesh, wake, pin>>

\* find_proxy_addr: none answers in time and direct is disabled: it panics.  At
\* boot that ends the process; later it ends only the refresh thread.
NoProxyFound ==
  /\ pc = "crawl" /\ agent = NoAgent /\ NullDisabled
  /\ IF cur = NoSnap
       THEN ProcessGone
       ELSE pc' = "dead" /\ JobDone /\ UNCHANGED <<cur, mesh, agent, wake, pin>>
  /\ UNCHANGED <<now, disk>>

\* One event of either pass.  A ticker may come back, in a later page or in v2.
CrawlEvent(t, e) ==
  /\ pc = "crawl" /\ agent # NoAgent /\ offset <= MaxEvents
  /\ WriteLine(Rec(t, e))
  /\ fresh' = [ino |-> fresh.ino, built |-> fresh.built,
               index |-> Upsert(fresh.index, t, offset + 1)]
  /\ UNCHANGED <<now, pc, cur, old, todo, asOf, mesh, agent, wake, pin>>

\* Mutant: nothing is carried forward from `old`.
EndCrawlForgetsOld ==
  /\ pc = "crawl" /\ agent # NoAgent
  /\ old = NoSnap => fresh.index # NoSnap.index
  /\ todo' = {}
  /\ asOf' = now
  /\ pc' = "merge"
  /\ UNCHANGED <<now, disk, cur, old, fresh, offset, mesh, agent, wake, pin>>

\* Both passes are over (the v2 pass may have failed): sort, dedupe, and refuse
\* an initial crawl that returned nothing.
EndCrawl ==
  /\ pc = "crawl" /\ agent # NoAgent
  /\ old = NoSnap => fresh.index # NoSnap.index
  /\ todo' = DOMAIN old.index \ DOMAIN fresh.index
  /\ asOf' = now
  /\ pc' = "merge"
  /\ UNCHANGED <<now, disk, cur, old, fresh, offset, mesh, agent, wake, pin>>

\* The line of `old` for its ticker t, if the read does not run past the end.
Readable(t) == old.index[t] \in DOMAIN content[old.ino]
OldLine(t) == content[old.ino][old.index[t]]

\* read_value gives an object that is no event, or an event past its grace.
\* (A line that is not JSON makes read_value fail and is carried as it is.)
Dropped(l) ==
  \/ l.kind = "meta"
  \/ l.kind = "rec" /\ (l.end = Bad \/ Expired(l.end, asOf, Grace))

\* The merge visits old.index in ticker order.
NextTodo(t) == t \in todo /\ \A u \in todo : t <= u

\* Mutant: a carried line is indexed at the writer's offset after the write.
CarryForwardMisplaces(t) ==
  /\ pc = "merge" /\ NextTodo(t)
  /\ Readable(t) /\ ~ Dropped(OldLine(t))
  /\ WriteLine(OldLine(t))
  /\ fresh' = [ino |-> fresh.ino, built |-> fresh.built,
               index |-> Upsert(fresh.index, t, old.index[t])]
  /\ todo' = todo \ {t}
  /\ UNCHANGED <<now, pc, cur, old, asOf, mesh, agent, wake, pin>>

\* merge_carry_forward: the raw bytes are copied and indexed.
CarryForward(t) ==
  /\ pc = "merge" /\ NextTodo(t)
  /\ Readable(t) /\ ~ Dropped(OldLine(t))
  /\ WriteLine(OldLine(t))
  /\ fresh' = [ino |-> fresh.ino, built |-> fresh.built,
               index |-> Upsert(fresh.index, t, offset + 1)]
  /\ todo' = todo \ {t}
  /\ UNCHANGED <<now, pc, cur, old, asOf, mesh, agent, wake, pin>>

\* merge_carry_forward: `continue`, pruned or unreadable as an event.
DropFromMerge(t) ==
  /\ pc = "merge" /\ NextTodo(t)
  /\ Readable(t) /\ Dropped(OldLine(t))
  /\ todo' = todo \ {t}
  /\ UNCHANGED <<now, disk, pc, cur, old, fresh, offset, asOf, mesh, agent, wake, pin>>

\* flush and sync_all after the merge.
Stage ==
  /\ pc = "merge" /\ todo = {}
  /\ SyncFresh
  /\ pc' = "staged"
  /\ UNCHANGED <<now, cur, job, mesh, agent, wake, pin>>

Install ==
  /\ pc = "staged"
  /\ RenameTmp
  /\ pc' = "renamed"
  /\ UNCHANGED <<now, cur, job, mesh, agent, wake, pin>>

\* Mutant: the swap waits until no reader holds a snapshot.
PublishWaitsForReaders ==
  /\ pc = "renamed" /\ dbIno # 0
  /\ \A r \in Readers : pin[r] = NoSnap
  /\ Serve([ino |-> dbIno, index |-> fresh.index, built |-> fresh.built], Interval)
  /\ JobDone
  /\ UNCHANGED <<now, disk, mesh, agent, pin>>

\* File::open(path) after the rename, then Database::new or Database::swap.
Publish ==
  /\ pc = "renamed" /\ dbIno # 0
  /\ Serve([ino |-> dbIno, index |-> fresh.index, built |-> fresh.built], Interval)
  /\ JobDone
  /\ UNCHANGED <<now, disk, mesh, agent, pin>>

\* Any `?` of full_crawl_and_compact, the create at its start and the open at
\* its end included.  At boot `expect` ends the process; the refresh loop logs
\* and sleeps.  The .tmp file stays behind.
CompactionFails ==
  /\ \/ pc \in {"crawl", "merge", "staged", "renamed"}
     \/ pc = "mesh" /\ cands = {}
     \/ pc = "idle" /\ now >= wake
  /\ IF cur = NoSnap
       THEN ProcessGone
       ELSE Serve(cur, Interval) /\ JobDone /\ UNCHANGED <<mesh, agent, pin>>
  /\ UNCHANGED <<now, disk>>

-----------------------------------------------------------------------------
(* Readers, the clock, and failures of the process and of the machine *)

\* api.rs, handle_request_pull: Database::snapshot().
Pin(r) ==
  /\ cur # NoSnap /\ pin[r] = NoSnap
  /\ pin' = [pin EXCEPT ![r] = cur]
  /\ UNCHANGED <<now, disk, pc, cur, job, mesh, agent, wake>>

Unpin(r) ==
  /\ pin[r] # NoSnap
  /\ pin' = [pin EXCEPT ![r] = NoSnap]
  /\ UNCHANGED <<now, disk, pc, cur, job, mesh, agent, wake>>

Tick ==
  /\ now < MaxNow
  /\ now' = now + 1
  /\ UNCHANGED <<disk, pc, cur, job, mesh, agent, wake, pin>>

Kill == pc # "off" /\ ProcessGone /\ UNCHANGED <<now, disk>>

\* The file system commits the directory when it likes.
DirCommit ==
  /\ durDb # dbIno
  /\ durDb' = dbIno
  /\ UNCHANGED <<now, content, synced, dbIno, tmpIno, nextIno, pc, cur, job, mesh, agent, wake, pin>>

\* Lines that were never synced may be lost, and so may a rename that was not
\* committed: .tmp is then gone or again the inode that had been renamed.
PowerLoss ==
  /\ ProcessGone
  /\ \E k \in 0 .. MaxEvents + 1 :
       content' = [i \in Inodes |->
                     IF i \in synced \/ k > Len(content[i]) THEN content[i]
                                                            ELSE SubSeq(content[i], 1, k)]
  /\ \/ dbIno' = dbIno /\ durDb' = dbIno /\ tmpIno' \in {0, tmpIno}
     \/ /\ durDb # dbIno
        /\ dbIno' = durDb /\ UNCHANGED durDb
        /\ tmpIno' \in {0, dbIno}
  /\ UNCHANGED <<now, synced, nextIno>>

-----------------------------------------------------------------------------

Init ==
  /\ now = 0
  /\ \/ /\ \E f \in InitFiles :
             content = [i \in Inodes |-> IF i = 1 THEN f ELSE <<>>]
        /\ dbIno = 1 /\ synced = {1} /\ nextIno = 2
     \/ /\ content = [i \in Inodes |-> <<>>]
        /\ dbIno = 0 /\ synced = {} /\ nextIno = 1
  /\ durDb = dbIno /\ tmpIno = 0
  /\ pc = "off" /\ cur = NoSnap /\ wake = 0 /\ agent = NoAgent
  /\ old = NoSnap /\ fresh = NoSnap /\ offset = 0 /\ todo = {} /\ asOf = 0
  /\ cands = {} /\ src = <<>>
  /\ pin = [r \in Readers |-> NoSnap]

Boot == BootFresh \/ BootStale \/ BootMissing

\* What the thread does once the process runs, if its calls succeed.
Progress ==
  \/ PullDeclined \/ PullStart \/ PullChunk \/ PullSync \/ PullInstall
  \/ BootCrawl \/ RefreshStart \/ FindProxy
  \/ \E t \in Tickers, e \in CrawlEnds : CrawlEvent(t, e)
  \/ EndCrawl
  \/ \E t \in Tickers : CarryForward(t) \/ DropFromMerge(t)
  \/ Stage \/ Install \/ Publish

Failure == PullFails \/ CompactionFails \/ NoProxyFound

Environment ==
  \/ \E r \in Readers : Pin(r) \/ Unpin(r)
  \/ Tick \/ Kill \/ DirCommit \/ PowerLoss

Next == Boot \/ Progress \/ Failure \/ Environment

Spec == Init /\ [][Next]_vars

\* A compaction is due and no inode is left for its .tmp: only the bound
\* MaxInodes brings this about.
Exhausted == pc \in {"mesh", "idle"} /\ tmpIno = 0 /\ nextIno > MaxInodes

\* The thread is scheduled and its calls return; a failure is never promised,
\* except the create that fails at the bound and the search for a proxy, which
\* has a timeout.
FairSpec == Spec /\ WF_vars(Progress \/ NoProxyFound \/ (Exhausted /\ CompactionFails))

-----------------------------------------------------------------------------
(* Properties *)

\* The snapshots somebody reads from: requests, transfers, the merge.
Held == {cur, old} \cup {pin[r] : r \in Readers}

\* Every snapshot in use indexes exactly the lines of its own file: reading
\* that file again, as a restart does, gives the same index and the same
\* built_at_unix.  The compaction keeps both by hand, line by line.
SnapshotsExact ==
  \A s \in Held \ {NoSnap} :
    /\ s.index = IndexOf(content[s.ino])
    /\ HasMeta(content[s.ino]) => s.built = content[s.ino][1].built

\* Nothing changes the lines of a file that a snapshot reads or that a restart
\* could load: not a crawl, a pull, a failed cycle, a restart or a power loss.
HeldFilesImmutable ==
  [][\A i \in {dbIno, durDb} \cup {s.ino : s \in Held} :
       i # 0 => content'[i] = content[i]]_vars

\* The database at db_path is only ever replaced by one built no earlier,
\* pulled or crawled, across restarts (a power loss may undo a rename).
StampNeverRegresses ==
  [][pc' # "off" /\ dbIno # 0 /\ HasMeta(content[dbIno]) /\ HasMeta(content'[dbIno'])
       => content'[dbIno'][1].built >= content[dbIno][1].built]_vars

\* What a reader can get out of file i, and out of a snapshot, as a value.
MapOf(f, index) == [t \in DOMAIN index |-> f[index[t]].end]

NoMap == [has |-> FALSE, map |-> [t \in {} |-> 0]]

FileValue(i) ==
  IF i = 0 THEN NoMap
           ELSE [has |-> TRUE, map |-> MapOf(content[i], IndexOf(content[i]))]

SnapValue(s) ==
  IF s = NoSnap THEN NoMap ELSE [has |-> TRUE, map |-> MapOf(content[s.ino], s.index)]

Abs == INSTANCE AtomicDb WITH
         disk    <- FileValue(dbIno),
         durable <- FileValue(durDb),
         served  <- SnapValue(cur),
         view    <- [r \in Readers |-> SnapValue(pin[r])],
         clock   <- now

\* The files, crawls, pulls, failures and crashes implement the atomic map:
\* no torn or mixed database is ever served or loaded, a reader's view never
\* changes under it, and no ticker of the map merged with is lost before its
\* endDate is past the grace period.
RefinesAtomicDb == Abs!ASpec

\* Whatever the thread has to do gets done, and it is back asleep, or it or the
\* process is gone: no request or transfer that holds on to a snapshot, no
\* candidate that declines and no record that is dropped can hold it up.
DueWorkEnds ==
  pc \notin {"off", "dead"} /\ (pc = "idle" => now >= wake)
    ~> pc \in {"off", "dead"} \/ (pc = "idle" /\ now < wake)

\* refresh.rs, spawn_refresh_loop: "Runs full_crawl_and_compact forever";
\* docs/API.md of NULL_DISABLED: "startup fails rather than falling back to
\* direct": a daemon that serves has a thread that refreshes what it serves.
ServesRefreshed == cur # NoSnap => pc # "dead"
=============================================================================
