# A TLA+ model of argus-polymarket-db

APDB is a daemon that keeps a local copy of Polymarket's open events: one
NDJSON file on disk, an index of it in memory, a Unix socket that answers
queries, a thread that crawls the Gamma API every few minutes and replaces the
file, and a peer-to-peer transfer that lets a booting instance take the file of
another one. This directory models what makes it hard - files that are renamed
while they are read, crashes and power losses, two processes on one path,
clients that page through a database that changes under them - checks it with
TLC on small instances, and proves its safety with TLAPS, but for one property.

## Inventory

| part | code | state | operations | what makes it correct |
|---|---|---|---|---|
| Snapshot | `database.rs` | index (ticker, offset, len), open file, `built_at_unix` | `from_file`, `find`, `read_raw`, `cursor_range`, `prefix_range` | the index describes exactly the file it is paired with, for as long as anybody holds it |
| Database | `database.rs` | `RwLock<Arc<Snapshot>>` | `new`, `snapshot`, `swap` | a request sees one snapshot from beginning to end |
| Compaction | `refresh.rs` | `db_path.tmp`, entries, offset | `full_crawl_and_compact`, `merge_carry_forward` | crash-safe replacement; no ticker lost before its grace period; index kept by hand equals the index read back |
| Refresh loop | `refresh.rs` | sleep deadline | `spawn_refresh_loop` | a failed cycle changes nothing; the cycle always ends |
| Boot | `main.rs` | none of its own | fresh file / stale file / no file, mesh pull or crawl | never serves a file past its TTL; never an empty database from a failed crawl |
| Mesh pull, requester | `mesh_sync.rs` | candidates, `.tmp` | `try_bootstrap_from_peers`, `pull_from_peer` | a corrupt or failed pull leaves `db_path` alone; what is installed is newer |
| Mesh pull, sender | `p2p_db_server.rs` | `sending` lock, raw listener | `db_info`, `request_pull`, `stream_snapshot` | one transfer at a time, the lock always released, a short stream always noticed |
| Query API | `api.rs` | none | `get_event`, `list_*`, `prefix_search`, `db_info` | paging neither repeats nor skips; each request reads exactly the tickers or assets it asks for |
| Socket server | `server.rs` | the socket file; per connection a thread with the line read and the answer being written | `bind`, `run`, `handle_connection` | a live listener is not stolen, a stale file does not block; answers in the order of the lines, and no thread waits for ever |
| Gamma client | `poly_api.rs` | boundary, offset, pass count | `fetch_events`, `OpenEventsIter` | the crawl ends, and covers the open events |
| Proxy choice | `proxy.rs` | a `OnceLock` agent | `get_proxy_agent`, `find_proxy_addr` | a daemon that serves also refreshes |
| Tailnet | `tailnet_fns.rs` | none | run `tailscale`, parse | - |
| Version, clock, log, env | `version.rs`, `utils.rs`, `main.rs` | none | - | - |

How they interact. `main` gets a snapshot (file, peer or crawl), wraps it in a
`Database`, starts the refresh thread, binds the Unix socket, starts the
tailnet server and accepts. Connection threads, transfer threads and the merge
share nothing with the refresh thread but the `Arc<Snapshot>` they clone under
the lock, and the file system. The refresh thread and the mesh pull both write
`db_path.tmp` and rename it to `db_path`. The two sides of a transfer are two
processes on two machines, with two TCP connections between them.

What is hard: the rename while readers hold the old inode; the fsync, rename
and directory commit against a power loss; leftovers of a killed cycle; a
hand-kept index; the TTL and the grace period at their boundaries; the
transfer that ends early; two daemons on one path; a socket probe that no
longer holds; a cursor in a database that is replaced; a client that writes
ahead, stops reading or leaves; a panic that ends one thread of several.
`PROJECT.json` lists
each hazard at its line, with the property that would catch it.

## Modules

| module | models |
|---|---|
| `LogFile` | the database file as a sequence of lines, and the operators of `Snapshot::from_file`: index, duplicates (last wins), meta line, torn and unparseable lines, expiry |
| `Store` | one daemon: boot, mesh pull, compaction, refresh loop, readers, over inodes, two paths, fsync, kills and power losses |
| `AtomicDb` | the abstract specification `Store` implements: one map, replaced as a whole |
| `IndexBuild` | the loops that make an index, step by step over byte offsets: the line loop of `from_file`, `dedupe_keep_last`, the crawl, the two iterators of the merge |
| `Queries` | what requests read out of that index: `find`, `cursor_range`, `prefix_range`, `prefix_search`, `list_asset_ids` |
| `StoreInv` | the inductive invariant of `Store`, and what its refinement and its stamps need besides |
| `LogFileProofs`, `StoreProofs`, `IndexBuildProofs`, `ConnectionProofs`, `PagingProofs`, `SocketBindProofs`, `MeshPullProofs`, `CrawlIterProofs` | the proofs, a module for each part; those about `Queries` are in `IndexBuildProofs`, on whose index they rest |
| `TwoInstances` | two copies of `Store` over one directory |
| `Paging` | clients that page with a cursor while snapshots change |
| `Connection` | `server::run` and `handle_connection`: clients, the accept loop and a thread per connection |
| `SocketBind` | instances that run `server::bind` on one path, one system call at a time |
| `MeshPull` | requesters and handlers of a transfer between machines: control replies, the `sending` lock, the raw port, the stream and its ends |
| `CrawlIter` | `OpenEventsIter` against a server whose events open and close |
| `MCStore`, `MCTwoInstances`, `MCSocketBind`, `MCCrawlIter`, `MCQueries` | instances for TLC |

### Store

| variable | in the code |
|---|---|
| `content`, `synced`, `nextIno` | the files ever created: lines, and whether `sync_all` has run |
| `dbIno`, `tmpIno`, `durDb` | the inodes at `db_path`, at `db_path.tmp`, and at `db_path` should the power fail now |
| `cur`, `pin` | `Database.inner`; the `Arc<Snapshot>` of each request or transfer |
| `pc`, `old`, `fresh`, `offset`, `todo`, `asOf` | where the booting, then refreshing thread stands, with the locals of `full_crawl_and_compact` and `merge_carry_forward` |
| `cands`, `src` | the locals of `try_bootstrap_from_peers` and `pull_from_peer` |
| `agent` | `proxy.rs`, `AGENT`: the route of every crawl of this process |
| `wake`, `now` | the end of the refresh thread's sleep; the wall clock |

`BootFresh`, `BootStale` and `BootMissing` are the branches of `main`;
`PullDeclined` to `PullFails` are the loop over candidates; `Begin` (under
`BootCrawl` or `RefreshStart`) creates `.tmp` and writes the meta line,
`CrawlEvent` writes and indexes one event, `EndCrawl` sorts and dedupes and
refuses an empty initial crawl, `CarryForward` and `DropFromMerge` are one turn
of the merge, `Stage` is the sync, `Install` the rename, `Publish` the reopen
and the swap, `CompactionFails` any `?` on the way. `FindProxy` is the first
page of the first crawl of a process: the first of `Proxies` that answers, or
the direct route unless `NullDisabled` turns it off, is kept in `agent`.
`NoProxyFound` is the panic of `find_proxy_addr`: at boot it ends the process,
in the refresh thread only the thread, which is then `"dead"`. A step ends where
the file system changes or another thread may act.

Abstractions. A line stands at a position instead of a byte offset, and a record
is its ticker and its `endDate`; that the loops of the code compute such an
index, byte offsets included, is what `IndexBuild` shows. The buffering of
`BufWriter` is left out: nobody reads the file before `flush`. The two crawl
passes are one sequence of events in which a ticker may come back, and which may
stop after any of them (the v2 pass may fail; a v1 error is `CompactionFails`).
The sort and `dedupe_keep_last` are `IndexOf` and `Upsert`: the last position of
each ticker. A file without a meta line has any mtime up to now. Files a peer
sends are any of `PeerFiles`, the empty and the shortened ones included. Clocks
of peers agree with ours and do not go back. A power loss may cut every file
that was not synced and undo a rename the directory has not committed.

### IndexBuild and Queries

One behaviour of `IndexBuild` loads a file and then compacts it, or makes the
first file. `file` and `out` are lines laid out in bytes (`at`, `len`, and
whether the newline is there); `pc` says which loop runs, `i` and `k` are the
iterators, `offset`, `entries`, `kept`, `index` and `carried` the locals of the
same name. `ReadRecord`, `SkipLine` and `EndOfFile` are the turns of
`from_file`'s loop, `Supersede` and `Keep` those of `dedupe_keep_last`,
`AdvanceNew`, `VisitPresent`, `DropOld` and `Carry` those of
`merge_carry_forward`; `sort_by` is any result that is sorted and stable.
`LogFile`'s `IndexOf`, which `Store` is built on, is the reference definition.

`Queries` extends it: on the index a load has left, the operators of
`database.rs` and `api.rs` are compared with what the request means, for every
string of a small set, whether it is a ticker or not. Tickers are spelled in
letters so that one can be the prefix of another; `binary_search_by` may come
upon any entry of the name, `partition_point` is the library's. The markets of
a record are those of its ticker, with fields that are missing, strings that
hold a JSON array or do not, or arrays that hold not only strings.

### AtomicDb and the refinement

`disk`, `durable`, `served` and `view` are maps from tickers to payloads, each
replaced by a whole other map. `Commit` says what a cycle may do: every ticker
of the map served (at boot: of the file) stays unless its payload is no event
or its `endDate` is past the grace period; with no map before it, the crawl
must have found something. `Store` maps `disk` to what `from_file` would read
at `dbIno`, and `served` and `view` to what the hand-built index reads: that
they agree is the point.

### Paging

A client sends a limit and its cursor, the handler takes one snapshot, cuts a
page and answers; the client keeps `next_after`. Requests are lost, refused or
repeated at any point; a refresh replaces the database by any crawl together
with whatever had not expired; a restart may replace it by a peer's database,
that is, by any other. `list_events`, `list_tickers` and `list_asset_ids` are
the same machine with other limits; the default limit is one of `Requests`.

### Connection

`client` is what the client has closed, `h` where the thread of a connection
stands, `inbox` and `wire` the two directions of the socket, `hand` the line
read and then its answer. `Accept` is the accept loop, `SpawnPanics` the panic
of `thread::spawn`, which ends `main`. `SkipBlank`, `ReadLine`, `ReadBinary`,
`ReadEof`, `ReadTimesOut` and `ReadFails` are the outcomes of `read_line` and
the two checks after it; `Answer` is `handle_line`, which takes the snapshot
served at that moment and always answers; `WriteBody` and `WriteNewline` are
the two `write_all` and `WriteFails` either of them timed out or refused, with
a part of the answer on the wire or none. `owed`, and the snapshot number `at`
of a line, are kept for the properties. Where a client may write, it writes
lines whole or in two parts, blank or not UTF-8; what a request asks does not
matter here. `listener.incoming()` failing is logged and changes nothing.

### SocketBind

`connect`, `exists`, `remove_file`, `bind(2)` and `listen(2)` are a step each,
and so is a kill, which leaves the file. `met` and `rivals` record, for the
properties only, who was listening at a starter's probe and who ran beside it.

### MeshPull

An attempt is one requester's try at one sender, with the thread that serves
it. `rpc` is where `pull_from_peer` stands, `hpc` where `handle_request_pull`
does; `sending` and `listener` are the mutex and the bound raw port, `backlog`
the connections the kernel has queued there, `wire` and `end` the raw stream
and how it ended, `snap` and `sent` the pinned snapshot and the position in its
file. A piece is one `TRANSFER_CHUNK_BYTES` buffer; `BindRaw` may fail, `Accept`
takes a connection of the requester's address and drops any other, `Deadline`
is the 120 s without one. `Leave` is what the end of `handle_request_pull`
drops. `StreamFails` is a `?` in `stream_snapshot`: the encoder is dropped, and
its `Drop` writes the trailer if the connection still takes it. `Restart` is a
killed process, whose connections are closed, or a lost machine, whose are not.
The version it serves stays over a restart: that a lost machine may come back
with an older file, as `Store`'s power loss says, is left out here, and "no older
than reported" does not cover it.
The addresses `ip` are arbitrary, so that two attempts may be two machines or
one. What the requester then does with its file is `Store`'s pull; that the
stream may be any of `PeerFiles` there covers what is found here.

### CrawlIter

`boundary`, `offset`, `pass_count` and `finished` are the iterator's fields
(`finished` with its reason); `open` is what the server lists, and changes
between any two pages. Gamma lists events in the order of `endDate`, but how it
lists those of one `endDate` it decides anew for every page: "ties on endDate
can repeat/skip rows across pages", says the test at `poly_api.rs:347`. So the
answer to a request is any of `Pages`: of each date it holds as many events as
the page has places of that date, whichever they are. What of it parses
(`Parsed`) is what the offset counts and the caller gets. A page is fetched from
the server's list of one moment. `since` and `closings`, the rows of the pass
(`seen`) and the rows that a pass got again (`repeats`) are kept for the
properties.

A crawl by offset can therefore miss events, and `MissesArePaidFor` says what
that can cost: an event that was open all along is missed only against one that
closed, against a row that a pass got twice, or because it stands behind a full
page of which nothing parses, which ends the crawl as an empty page does. A row
counts as a repeat whatever made the pass get it again: ties, a new event listed
before the offset, or a single item that does not parse, by which the offset
falls behind; the rows that a pass reads again at its cursor do not count. In
the run no part of the bound can be left out. `Store` takes what the iterator
yields as an arbitrary sequence of events.

## Runs

| run | expects | bounds | shows |
|---|---|---|---|
| `store` | pass | 2 tickers, 1 peer, 1 reader, 1 proxy, no direct route, 4 ticks, 2 events per crawl, 2 inodes, interval 2, grace 1 | `SnapshotsExact`, `HeldFilesImmutable`, `StampNeverRegresses`, `RefinesAtomicDb`, `DueWorkEnds` |
| `store_stops` | violation | as `store` | `ServesRefreshed` |
| `index` | pass | files of up to 3 lines of 8 samples, the last torn or not; crawls of up to 2 events of lengths 1 and 2; 3 tickers; strings of 1 or 2 of 3 letters; limits 1 to 3 | `LoadedExactly`, `PublishedIsReloaded`, `NothingEvicted`, `GetEventExact`, `CursorExact`, `PrefixExact`, `EveryAssetOnce` |
| `connection` | pass | 2 connections, one of which writes nothing; 2 lines and 1 answer in the buffers, 1 swap | `EveryLineAccounted`, `NothingAfterTorn`, `FreshReads`, `NeverWaitsForEver`, `NewClientsServed`, `GoneClientsFreed` |
| `two_instances` | violation | 2 processes, no peers, 2 ticks | `ServedEntriesAreTheirTickers` |
| `paging` | pass | tickers 1, 3, 6, one client, limits 0, 1, 3 against a maximum of 2 | `NoRepeat`, `NoSkip`, `PagingEnds` |
| `paging_vanish` | violation | as `paging`, no restarts | `NothingVanishes` |
| `socket` | pass | 3 interchangeable starters | `OnlyRacesSteal`, `StaleFileNeverBlocks`, `SomebodyServes` |
| `socket_race` | violation | as `socket` | `LiveListenerNeverStolen` |
| `mesh` | pass | 2 attempts on 2 addresses, files of 2 pieces, 1 refresh, 1 piece in flight | `OneTransfer`, `InstalledFromOneSnapshot`, `RefusedOnlyAfterDeadline`, `SendingFreed`, `PullEnds` |
| `mesh_short` | violation | as `mesh` | `InstalledIsWhole` |
| `crawl` | pass | 6 events on 2 dates (3 of each), one of each date that does not parse, pages of 2, cap 3, 2 passes, 1 closing | `MissesArePaidFor`, `StallsOnlyOnTies`, `EveryPageProgresses`, `CrawlEnds` |

Why the bounds are enough. Two tickers are the least with one carried forward
and one crawled; a crawl of two events has a duplicate. The initial files hold a
duplicate, a line that is no JSON, an object that is no event, an event that
ends at once and one that never ends. Two inodes are the file served and the one
being written, and a `.tmp` that was left behind is truncated and used again, as
in the code, so that cycles can follow each other; the clock runs past the TTL
and past the grace period of the early event. When no inode is left the create
fails, as it does on a full disk. One paging client is enough, since clients
share nothing; the gaps between tickers tell a ticker from an offset. Three
lines hold a duplicate with something between, or a record before and after a
bad line; records of one ticker have two lengths, so that an index into the
wrong one shows; two crawled events are before, between, after or on the tickers
of the file. A page of one answer and an inbox of two lines fill both directions
of a connection, and the second connection only has to exist for the first to
take its turn, or not. Three starters are a listener, a thief and a third that
fails on both. Two attempts suffice for one lock and one port (a third finds
them as the second does); a file of two pieces can be cut, and mixed from two
snapshots. Both dates of the crawl are read
over two pages, in which ties may change places, three rows of one fill a pass,
and the two events that do not parse can fill a page with others behind it.
The systems of the `index`, `mesh` and `crawl` runs really stop, when the file
is compacted or every attempt or the crawl has ended: deadlock is not checked
there.

Fairness. `Store` promises progress of its thread only: its calls return and
it is scheduled. No failure is promised, except the create that must fail once
the bound leaves no inode and the search for a proxy, whose probes have
timeouts. A request to Gamma that never returns is therefore
outside `DueWorkEnds`: the client has no timeout, and this is the one place
where the code's liveness rests on its surroundings. `Paging` assumes a client
that keeps asking and whose requests are not lost for ever (strong fairness);
no fairness is asked of refreshes, restarts or losses. `MeshPull` promises that
the threads of both sides are scheduled: every call in them has a timeout, so
that one of its outcomes comes. It promises no reply, no connection and no
restart. `Connection` promises that the accepting thread and each handler are
scheduled and that their timeouts pass, no other failure is promised, and
clients may stop at any point for ever. `CrawlIter` promises that the caller
asks for the next page, and nothing of the server.

An interval of 0, which `main` accepts, is allowed by the assumptions and by
the proofs: every file is then stale and the refresh thread crawls without a
pause, so that `DueWorkEnds`, which waits for it to sleep, is checked for an
interval above 0 only.

What the violations say. Each shows a sentence of the repository that the
code does not keep; `PROJECT.json` quotes it.

- `two_instances`: `main` binds the socket after it has crawled, so a second
  daemon on the same path truncates and rewrites the first one's `.tmp`, and a
  file that is being served changes under its index.
- `store_stops`: a daemon that boots from a file or a peer looks for its proxy
  in the refresh thread; with `NULL_DISABLED` and no proxy that thread panics,
  and the daemon goes on serving what it has.
- `paging_vanish`: expired tickers are pruned since the grace period was
  introduced; the comment that nothing is ever removed is older than that.
- `socket_race`: the probe and the removal are two steps.
- `mesh_short`: a sender that fails in mid-stream can still complete the gzip
  stream, and a file cut short loads like any other. `InstalledFromOneSnapshot`
  is what does hold: it is the beginning of one file, and whole unless the
  sender itself failed.

Smaller disagreements are left to the text.

- `refresh.rs:287-289` says that a failed cycle is never partially applied: if
  the open behind the rename fails (`refresh.rs:192`), the new file is at
  `db_path` and the old snapshot is served. `AtomicDb` allows it, and
  `RefinesAtomicDb` bounds what it can cost.
- An offset crawl skips events when others close before them, and when tied
  events change places between two pages: `poly_api.rs:147` promises every open
  event, `poly_api.rs:347` knows better. `MissesArePaidFor` is what does hold.
- A full page of which nothing parses ends the crawl: to `poly_api.rs:66-72` a
  truncated crawl "can never be mistaken for no more data".
- A line that is not UTF-8 makes `read_line` fail and closes the connection
  (`ReadBinary`); `server.rs:47-51`, `api.rs:60-64` and `docs/API.md:15-16` say
  that no malformed line does.
- `READ_TIMEOUT` is per read, not per request: a client that sends a byte or a
  blank line now and then is never closed as idle, against `docs/API.md:20-22`.
- `from_file` is said to be tolerant of a torn final line: one that is torn
  inside a character of several bytes makes it fail (`database.rs:98`).
- An event whose ticker is the string `null` is not told from one without, and
  is dropped by every merge (`refresh.rs:248`).
- `p2p_db_server.rs:200-203` and `docs/MESH_SYNC.md:192-195` say that the bytes
  sent are those `db_info` told of; they are two requests, mostly on two
  connections, and a refresh between them gives the newer file.
- `docs/MESH_SYNC.md:225-228` counts the accept timeout among the failures the
  requester is told of; it has its `ok` by then and finds the port closed.

## Proofs

Every theorem holds for all values of the constants - any number of tickers,
readers, peers, clients, connections, lines and files, any clock - under the
assumptions that the modules name and TLC evaluates in each run. Most are about
types. Those that say more: `PagingAssumption` and `CrawlAssumption` ask for
finitely many tickers and events, since a page is cut by counting;
`TickersSpelledInOrder` says that tickers are numbered in
the order of their strings, and `QueryBounds` that `Null` is not a string;
`NoFileIsNoStarter` says that no starter is taken for the missing file.

| module | theorems (`Spec =>` ...) |
|---|---|
| `StoreProofs` | `[]IInv`, `[]TypeOK`, `[]SnapshotsExact`, `HeldFilesImmutable`, `RefinesAtomicDb`; `StampNeverRegresses`, given `StampsInPast` |
| `IndexBuildProofs` | `[]BuildInv`, `[]TypeOK`, `[]LoadedExactly`, `[]PublishedIsReloaded`, `[]NothingEvicted`; of `Queries` `[]GetEventExact`, `[]CursorExact`, `[]PrefixExact` |
| `ConnectionProofs` | `[]ConnInv`, `[]TypeOK`, `[]EveryLineAccounted`, `[]NothingAfterTorn`, `[]FreshReads` |
| `PagingProofs` | `[]PageInv`, `[]TypeOK`, `[]NoRepeat`, `[]NoSkip`, `CursorAdvances` |
| `SocketBindProofs` | `[]BindInv`, `[]TypeOK`, `[]StaleFileNeverBlocks`, `[]SomebodyServes`, `OnlyRacesSteal` |
| `MeshPullProofs` | `[]LockInv`, `[]TypeOK`, `[]OneTransfer`, `[]RefusedOnlyAfterDeadline`, `[]InstalledFromOneSnapshot` |
| `CrawlIterProofs` | `[]CrawlInv`, `[]TypeOK`, `[]MissesArePaidFor`, `[]StallsOnlyOnTies`, `EveryPageProgresses` |

Each inductive invariant was checked with TLC before it was proved. One lemma
per action shows that it is preserved, and what several actions leave alone is a
lemma of its own.

### Store

`SnapshotsExact` is not inductive: it says nothing of the file being written.
`IInv` adds that (1) the inode at `.tmp`, the only one ever
written, is neither at `db_path`, nor at the entry a power loss may restore,
nor the file of a snapshot that anybody holds, and all of those are synced and
allocated; (2) the writer's offset is the length of its file, and its index is
already the index of that file, so that the rename publishes an exact pair;
(3) what the merge still has to visit is in the old index, so that a carried
line is a record of the ticker it is filed under. Steps that write, create, sync or rename share the
lemmas `WriteKeeps`, `SyncKeeps`, `RenameKeeps` and `KeptBy...`, which say that
settled files stay settled with their lines. `LogFileProofs` has the fact
behind (2): one more record at the end of a file changes its index by an
upsert.

`HeldFilesImmutable` then follows because a held file is settled and no step
touches a settled file (`StepKeepsFiles`), a power loss included, since it is
synced.

The refinement needs two facts more (`RInv`). `BaseKnown`: the snapshot a
compaction merges from is the one served or, at boot, that of the file at
`db_path`, so that what `Commit` may lose is judged against the right map.
`MergeComplete`: each old ticker is in the new index, still to be visited, or
was dropped for a reason that time does not undo. With them every action maps
to a step of `AtomicDb` or to a stutter (`StepImplements`): what only touches
the file at `.tmp`, which no map of the abstract state is read from, stutters.

`StoreStampNeverRegresses` has a hypothesis, `StampsInPast`: no file that is
there at the start was stamped by a clock ahead of ours. Without it the property
is false of the code: `main` computes an age with a saturating subtraction, so
that such a file is as fresh as can be and is then replaced by one with the true
time. `StampsKnown` says that whatever is being written - a pull whose first
line is still to come, too - has a stamp that is not older than that at
`db_path`.

### IndexBuild

`BuildInv` follows the data through the loops. `Lists`: the entries in hand are
those of the records among the lines passed, each at its bytes, and of nothing
else. After the sort, dedupe has kept the last entry of each ticker before `i`.
So an index has an entry for every ticker of the file, which is its `Newest`
(`Indexes`), and that is `IndexOf` in `LogFile`'s words (`IndexesIsIndex`). In
the merge both halves - crawled and carried entries - are `Newest` and have no
ticker in common: the iterator of the crawl stands behind all that is smaller
than the old ticker in hand (`OldInHand`), and a line written behind the others
is newest of its ticker and hides no other (`NewestStays`). `OutInv` says that
the counted offset is the end of `.tmp`; files have lines of any length, so
this is where a byte forgotten would show. Facts about the last or first of
something are proved from the least element of a set of counterexamples
(`LeastExists`, `LargestExists`), which takes no induction over the file.

### Queries

A loaded index has one entry per ticker, in ticker order (`BuildInv`), and so in
the order of the names (`NamesInOrder`). `str`'s order is transitive
(`PrecedesTransitive`), and the strings that start with a prefix are those from
the prefix on up to the first that does not (`PrefixesTogether`): so what
`partition_point` asks holds of a front part of its slice and of nothing behind
it, which is what it needs to be well defined (`PartitionPointParts`). What
follows the point is then exactly the tickers behind the cursor or from the
prefix on; the first entries of such a run are the first of its tickers
(`FirstOfRun`), by counting them along the index. For `GetEventExact`, the entry of a name reads the bytes
of the last record of its ticker (`EntryReadsLast`). The strings asked for are
any at all.

### Connection

`ConnInv` says of each connection where its lines are: the answers on the wire
are those of its oldest lines, then comes the one in hand, then those unread in
the inbox, and together they are the lines owed. To say this without a
recursive filter the lines of the inbox that want an answer are counted
(`Wanted`, `Rank`), and the lemmas of that part say how a count changes when a
line is read or written. A thread that left an answer without its newline
writes that newline or nothing more.

### Paging, SocketBind

`PageInv`: what a client was given is in order and not past its cursor; all that
was always there and that the cursor has passed was given; and a handler's
snapshot, taken before a refresh or after it, holds all that was always there.
What a page is (`IsPage`) is proved once of `CursorRange` from how many tickers
come before one; `CursorAdvances` follows, since a page's `next_after` is
greater than the cursor it was asked with until it is received (no run checks
it: it is proved, and `PagingEnds` is what it is for).

`BindInv`: whoever runs beside a starter that is binding is its rival, so that
what upsets a start between two system calls is a rival's doing; and where
nobody was killed, a path that was removed is about to be bound again.

### MeshPull

`LockInv`: a handler past the lock holds it, one that accepts has the port, and
a pull that was not asked for yet has no handler (else `Ask` could put a busy
one back to the start). `LeaveKeepsLock` is the heart of `OneTransfer`: whoever
leaves was alone, so the lock it frees was its own. `OkIsHonest`: `ok` is said
by a handler that accepts, and none goes back. For `InstalledFromOneSnapshot`,
`OneOwner` says that a raw connection is with its requester, in the backlog or
with the one handler that took it, `PinnedNotOlder` that this handler's snapshot
is no older than what any attempt let through was told, and `StreamInv` that
what was read and what is in flight are together the beginning of that
snapshot's file, whole if the trailer was written and the sender did not fail.

### CrawlIter

`MissesArePaidFor` speaks of the end of a crawl; `CrawlInv` keeps the account on
the way there. `LostBefore(date)` are the events that were open all along, are
dated earlier and were never yielded. No more are lost before the cursor than
events have closed and rows have repeated; and of these payments enough is left
to cover what the pass may still lose, since its offset is the number of rows it
has seen and of those it got again. A page that reaches a date leaves off, of
all that is listed before that date, no more than the offset counts
(`PageHolds`), whichever of the ties it holds. The pass has seen as many rows as
the offset counts, less its repeats; those that are not among the events left
off have closed, or are on the page and repeat (`Account`, the heart of the
proof). So what is lost before any event of a page is paid for when the page is
read (`PagePays`), and stays so: later events are not open all along, and
nothing comes back once it was yielded. The next pass starts at such an event.
At the empty page the same account is drawn of the whole list, and what is off
it is no more than the offset counts and what stands behind it
(`EmptyPagePays`). A stall is a page that holds but the cursor's own date:
`TiesFillThePass` counts the places of that date. `EveryPageProgresses` needs
that a page is not empty and no event listed is dated before the cursor.

### Only model-checked

All liveness, which TLAPS does not prove under fairness: for `PagingEnds` and
`CrawlEnds`, `CursorAdvances` and `EveryPageProgresses` are the steps towards it
that are proved. `EveryAssetOnce`: the client that pages to the end
(`AllAssets`), the concatenation of a page's markets and the filter of their
ids are computed by recursion, and what a recursion computes for every input
takes induction over data; the pages it joins are those of `CursorExact`, which
is proved. It holds only where no field names an asset twice and the two fields
of a market, if both parse, name the same, as in the markets of its run. And the
five violations, which are behaviours.

## Not modelled

Not modelled: `tailnet_fns.rs`, which runs `tailscale` and filters its output
and keeps nothing (`Store` takes any set of peers, `MeshPull` any addresses);
logging, environment and version strings; JSON as text; and
`fetch_all_markets_cached`, which nothing calls. `db_info` of the socket reads
the fields of one snapshot, which `SnapshotsExact` is about.
