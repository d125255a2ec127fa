# remy-cc, specified and checked

remy-cc keeps a queryable index of the source files of a project.  A daemon
(`remy-cc/src`) owns a table of scan jobs and runs one scanner process at a
time; editor hooks, a command line and a browser UI talk to it; the scanner
(`remy-cc/scanner-core`) parses files and writes facts to a SQLite database;
an MCP server answers queries from that database; an installer puts all of it
under the user's home directory.

The modules here are translated from the Rust code.  Paths below are relative
to `remy-cc/src` or, where they start with `scanner-core`, to `remy-cc`.

## 1. The parts of the system

| part | state it keeps | operations | what is hard |
|---|---|---|---|
| job table, `state.rs` | tables `jobs`, `projects`, `published_provider` | submit, submit_full_scan, promote, claim, progress, complete, cancel, recover | unique indexes and CHECKs turn a wrong transition into a fatal error; recovery after a crash meets whatever was queued |
| scheduler, `scheduler.rs` | `active_job`, the command channel | one command per turn, then dispatch | worker events that arrive late, a cancel that races a completion, errors that end the loop |
| worker supervision, `worker.rs` | supervisor and reader threads, a cancel flag | spawn, wait for the scanner's lock, wait for its exit, report | deadlines, abandoned pipes, exactly one Complete per job |
| daemon process, `main.rs`, `provider.rs`, `server.rs` | instance lock, publication row, port and token files | start, publish, serve, stop | crashes between two durable steps, a dead scheduler behind a live server |
| state migration, `state.rs` | schema version of `state.db` | v1 to v2 copy | interrupted migration |
| command line, `main.rs`, `single_instance.rs` | pid, port, token files, instance lock | start, stop, restart, status | probing the lock takes it; the pid file may be another daemon's |
| hook client, `hook_client.rs` | none of its own | submit an edit; ask for the latest job of a file, promote or submit it | three requests on one connection, a 100 ms limit, a server that is busy or replaced |
| config UI host, `ui_host.rs` | one child process slot | open, reuse, kill | a child that does not report, or reports nonsense |
| installer, `install/` | deployed files, manifest, settings file, pending deletions | install, update, uninstall, sweep, delegate | interruption at every file operation, files in use |
| scanner, `scanner-core/src/scan.rs`, `writer.rs`, `lock.rs` | `logic_index.db`, its backup, the scan lock | full and incremental scan, rebuild of outdated databases | several scanners, kills, schema changes, configuration read before the lock |
| parse pool, `scanner-core/src/scan.rs` | job queue, bounded channel | parse, send, write, commit | a worker that panics, a writer that leaves early, a full channel |
| derived tables, `scanner-core/src/postprocess.rs`, `clusters.rs` | call edges, candidates, kind hints, clusters | full pass, incremental pass | the incremental pass must give what the full one would |
| search documents and summaries, `scanner-core/src/projection.rs` | `retrieval_documents`, `summary_versions` | refresh, mark stale, delete | every writer must refresh what it touches; a symbol that comes back |
| parsers, `scanner-core/src/parse_*.rs` | none | source text to facts | sheer size; no state |
| configuration, `scanner-core/src/config.rs`, `rconfig.rs`, `fnmatch.rs` | layered settings files | load, set | precedence of layers |
| MCP server, `mcp/` | configuration, a freshness verdict, the ranking cache | graph walks, paths, fact tools, navigate | a commit between two statements, cycles, limits, a model call between a read and a write |

How they interact.  Hooks, command line and UI send requests over a local
socket to the server thread, which forwards them one at a time on the command
channel of the scheduler and waits for the reply.  The scheduler owns the job
table; it claims a job, spawns a worker, and gets `Started`, `Progress` and
`Complete` back on the same channel.  The worker runs a scanner process, whose
scan lock it shares with scanners started by hand and with those a killed
daemon left behind.  Inside the scanner a pool of threads feeds one writer
that holds the transaction; the derived tables are computed in the same
transaction.  The MCP server reads what was committed, one statement at a
time, and writes only its ranking cache; the Python summarizer writes summary
versions into the same database.

`PROJECT.json` lists every part with its status and, under `hazards`, what in
this code is hard to test, at the line where it bites, with the property that
would catch it going wrong.

## 2. The modules

| module | what it models | extends or uses |
|---|---|---|
| `JobStore` | every operation of `StateStore` as an operator from a table to its result, with the schema's constraints | |
| `Worker` | supervisor thread, reader thread and scanner of the active job; the events they queue | |
| `Scheduler` | commands, worker events, dispatch, the end of the loop | `JobStore`, `Worker` |
| `Daemon` | start, recovery, publication, requests, stop, crash, restart; the complete specification and its properties | `Scheduler` |
| `JobContract` | abstract specification: the life of a job as a client of the daemon may rely on it | |
| `EditTracking` | `Daemon` with a history variable: which edits were acknowledged and which a scan has begun to read; the specification the runs check | `Daemon` |
| `Lifecycle` | start, stop, restart, status and config as client processes, the daemons they spawn, the instance lock and its probe, the pid, port and token files | |
| `ScanIndex` | scanners of one project: lock, open, backup, rebuild, discovery, transaction, commit, failures and kills at every step | |
| `ParsePool` | worker threads, queue, bounded channel and writer of one scan | |
| `CallResolution` | how one call is resolved: candidates, scores, imports, the fan-out cap | |
| `Postprocess` | the tables of the index, the incremental pass and the full pass | `CallResolution` |
| `UiHost` | the slot of the config UI, its child processes and their reports | |
| `Clients` | hooks and `remy-cc config` against the server that serves one connection at a time; the daemon stops and starts, jobs go on | `JobStore`, `UiHost` |
| `Settings` | `settings.json` and the claim the manifest keeps of it: merge, verification, removal | |
| `Installer` | install, update, uninstall, purge and legacy cleanup as processes beside a user, killed at any step | `Settings` |
| `McpConfig` | layers of the MCP server's configuration | |
| `McpGraph` | callers, callees, impact, dependencies and flow, one statement at a time, while scans commit | `McpConfig` |
| `Retrieval` | search documents, summaries, fact tools, navigate and its cache | `McpConfig` |
| `McpServer` | a session of the MCP server | `McpGraph`, `Retrieval` |
| `Freshness` | the staleness verdict of a session against git, scans and edits | |
| `ScanProofs` | the theorems of `ScanIndex` and `ParsePool` | |
| `McpProofs` | the theorems of `McpConfig`, `McpGraph` and `Retrieval`, for the sessions of `McpServer` | |
| `DaemonProofs` | the theorems of `Daemon`, of its refinement of `JobContract` and of `EditTracking` | |
| other `*Proofs` | the theorems of the module they are named after | |
| `MC*` | instances for TLC: constants and bounds only | |

### Daemon

The job rows (`status`, `key`, `created`, `priority`, `progress`, `started`,
`finished`, `by`), `projects`, `published` and `clock` are what survives a
crash; a row keeps the columns that decide something, and `by` is
`superseded_by_job_id`.  `active` is `active_job`, `sched` where the loop of the
scheduler is, `events` the worker events on the command channel, and
`supervisor`, `reader` and `cancelFlag` belong to the worker's threads.  `due`
is a history variable.  A turn of the scheduler is two actions: the command it
receives, answered before anything else happens, and the dispatch that follows;
the threads of the worker, a crash and the clock may step between them.  The
durable steps of start-up (recover, publish, submit the full scans) are actions
of their own since a crash can fall between them.

`recover` requeues an interrupted job without looking for a pending full scan
of its project, so after a restart a file may be scanned twice; that nothing is
lost by it is part of `NoEditLost`.

The system clock is a variable that may step in either direction: `state.rs`
compares stored times with it in CHECKs.

Requests reach the scheduler in any order and at any time, as the server
imposes none across connections.  A text of a request, tokens and the framing
of the socket are left out.

### Command line

`Lifecycle` has a client process per user and a daemon process per pid.  `at` is
where a client is in its command, and its result when the command has ended;
the calls of `is_held`, which all commands share, are three actions (held,
taken, given back) and two tables of where each command goes next.  A daemon
passes through the steps of `run_foreground` that others can see: the lock, the
removal of the old endpoint files, pid, token, port, and at the end the drop of
the lock's guard (`released`), which comes before the end of its process
(`gone`).  It may end at any step, which leaves its files behind.  A request can
be read after its sender gave up.  A scanner is a process of its own that may
outlive its daemon; what it may do then is modelled in `ScanIndex`, where the
scan lock keeps it from the others.  That `Daemon` has one daemon at a time is
what `Lifecycle` justifies, up to the last steps of one that has dropped the
lock (see the deviations).

`fs::write` is atomic here; a terminated process may live on for a while, with
or without the lock.  The
files name the daemon that wrote them; a stale pid may by now be the number of
another process, in which case `kill` succeeds and the stop goes on to wait.

### Scanner

A row of the index is abstracted to the version of the file it was parsed
from; `db` carries the schema version found, whether tables exist and whether
authored summaries are in it, `bak` what the backup holds.  Each step of a
scanner that touches the disk outside a transaction is an action, and between
any two of them the scanner may fail or be killed.  A kill releases the lock,
as the operating system does.  `dirty` marks the files that were edited since
a scan looked at them; nothing is claimed of those.

`ParsePool` opens up the one step of `ScanIndex` in which files are parsed and
written: there the threads, the channel and their failures are explicit.

`Postprocess` opens up the one step in which the derived tables are computed.
The source of the files is the input: a set of symbols, imports and calls per
file, chosen from a small set of variants.  A file edited is a file whose
variant changes or that appears or disappears; an incremental scan is given
the files that changed, as `scan.rs` gives them to `run_incremental`.  What the
full pass would compute is the reference.

### Clients of the daemon

`Clients` takes the job table from `JobStore` and replaces the scheduler by its
steps on that table (claim, finish, cancel), so that the connection can be
modelled in full.  `backlog` is the queue of the listener, `serving` the client
whose connection `handle_connection` reads, `sock[c]` the line and the answer
in flight with what each side has closed, `hook[c]` the process: the files it
still has to ask about and what it will print.  A request names a file with its
project (`Sources`), by which the server filters its list.  `Send` and `GiveUp` are steps
of the client, `HandleLine` and `Release` of the server; a line whose sender
has given up is still read.  `starts` numbers the daemons, so that a hook may
talk to a successor.  The histories `edited`, `recorded`, `asked`, `upTo` and
`scanned` count edits of a file: made, submitted, known when the server
answered, covered by a claimed job, covered by a scan that succeeded.

`UiHost.spawning` is a child that has not reported.  `open` does not return
before the child has reported or was killed, so the server serves nobody else
meanwhile; when a daemon dies its children lose their stdin and exit in their
own time.

### Installer

A managed path has a content; what a release ships there is given by `Ships`.
The steps of a process are those at which it can be killed with a different
result on disk: the check and the merge of `settings.json` (both from what is
read at that moment), each file written or removed, the settings, the manifest,
and what follows it.  `held` says how some other program holds a path: a file
in use is displaced (`asides`) or registered for deletion later (`pending`).
The user edits files, grants permissions and changes hooks at any time; `own`,
`touched` and `half` are histories of that.  An update is the swap of the
binary (`SwapAside`, `SwapIn`) and an install by the new binary as its child.

A document in `Settings` is a set of hooks and a set of permissions.  Commands
are told apart as the code tells them apart: its own, the defaults of earlier
installers, edited ones, scripts of the template, others.

### MCP server

`McpServer` is a session: it loads its configuration (`McpConfig`, three
layers), stops if that disables it, and answers one kind of question, since
the tools share nothing but the index.

`McpGraph` keeps the rows of the call and import tables and the walk under way.
Each statement of a tool is an action (`QueryChunk` is one chunk of a level),
and a scan may commit between any two.  A failed statement drops its rows
silently, as the code does (`dropped`).  `ever` and `always` collect the links
the index held at some time and all the time during a walk: a walk that is
concurrent with scans can be held to no more and no less than these.  A link of
the import graph says which of the two reads of `build_import_graph` knows it,
the column or the derivation.  A question lists its walks, each with a direction
and a depth, as `impact` has one depth for each direction.  `flow` loads the
graph in one statement and then searches from both ends, within the smaller of
the limits of the call and of the configuration.

`Retrieval` keeps the rows of symbols, files and clusters as far as they reach
search documents (`docs`) and summaries (`versions`).  A scan writes a file and
all the documents it is responsible for in one transaction; the summarizer,
a Python program outside this part of the repository, appends a version and
refreshes the document.  `nav` are calls of `query_navigate`: the channels of
the search, the look into the cache, the model call with its retries, and the
insertion are separate steps.  A hash is the document it is the hash of.

`Freshness` is separate from these as it only compares the index with the
working tree.  A file is a text with its line ends.

## 3. What is checked

### Runs that pass

| run | instance | what it shows |
|---|---|---|
| `daemon_safety` | 1 project, 2 files, 3 jobs, 2 starts | no statement is refused by the unique indexes and CHECKs of `jobs` (that of `projects` refuses a submission after the clock was set back, which is a step of the model); a superseded job is covered by its successor, which had not started; slot and table agree; the slot is released exactly once; terminal rows stay; an accepted cancel is never undone; an acknowledged edit that no scan has begun to read has a pending job that covers it, even beside a running scan of the same file; `Daemon` implements `JobContract` |
| `daemon_liveness` | 1 project, 1 file, 2 priorities, 2 jobs, clock 0..1, 3 starts | while the scheduler runs, an executing job ends and a pending one is served, unless a job submitted later goes first; no acknowledged edit is lost when the clock is set back |
| `lifecycle` | 2 users, 3 commands, 2 daemons that may end at any time | pid, port and token files lead to the daemon that owns the lock, or to one that has let it go for good; when a stop says stopped, or a restart started, the daemon it met has let go of the lock for good |
| `scan_index` | 2 scanners, 3 files (2 parsable), 2 scans, 1 edit, every kind of initial database | a committed scan leaves the files it answers for as they are on disk; no commit undoes another's; authored rows are only removed once backed up |
| `parse_pool` | 5 files, 2 workers, channel of 4 | a commit has seen every file once; every thread ends, whatever panics or fails |
| `postprocess_global` | 2 Python files and a C file with variants, 2 edited at a time | any sequence of incremental and full scans leaves the edges, kind hints and cluster members of a full scan |
| `clients` | 1 file; a dirty and an enriching hook, two UI clients, or a hook beside a UI client; 4 jobs, 2 daemons, 2 UI children | a hook that prints no freshness signal for a file is right: every edit recorded when it was answered has been scanned; at most one config UI of a daemon runs; every line in a socket is read, although its sender may have given up |
| `installer` | 2 processes, 2 operations, 3 paths, 2 releases, 1 kill, 1 act of the user, six kinds of machines to start from | what an install leaves is what its own `verify` accepts; what it stops managing is gone or registered; bytes of the user do not disappear without a `.bak`; permissions the user granted himself survive; the rerun of a killed upgrade is accepted |
| `mcp` | 4 symbols in 2 of 3 files with a cycle, a shortcut and an ambiguous call, 1 commit during a walk; 1 symbol, file and cluster with 2 texts, 4 commits, 2 callers of navigate; 3 configurations | walks report levels of the index; a path is a shortest one and is only missing for the reasons the code has; search documents agree with facts and summaries; a summary shown was written for the code as it is; a cached ranking was made for the candidates and the texts the caller has read |

### Runs that show a disagreement

| run | what it shows |
|---|---|
| `daemon_publication` | a daemon that stops after the publication row was committed and before the full scans were submitted loses them: later starts find the row and return early |
| `lifecycle_start` | `start_detached` polls the instance lock by taking it for a moment, while the daemon it spawned tries to acquire it once; when they meet the daemon exits as "already running" and the start times out with nothing running |
| `mcp_freshness` | the scanner hashes a text after it translated the line ends, the probe of the MCP server hashes the bytes: without git a project with CRLF line ends is reported as changed right after every scan |

`FilesLeadToOwner`, in the passing run of `Lifecycle`, states what does hold
beside `AwaitedDaemonIsLetIn`; `NoEditLost` beside `PublicationSchedulesFullScans`.

### Other deviations met while modelling

These are read off the model and the code; the passing runs state what holds in
spite of them.

- `state.rs:646`: jobs are claimed by priority first.  The jobs of an enriching
  hook are interactive (`hook_client.rs:490`, `578`, `590`), those of an edit are
  background (`hook_client.rs:159`), so interactive jobs that keep coming starve
  a background one.  `PendingIsServedInTurn` promises service only to a job that
  no later one overtakes, by its priority or by a clock that was set back.
- `main.rs:385`: `run_foreground` drops the lock when it returns, and the process
  ends after that; the thread of its scheduler is never joined, and a scanner it started may outlive it.  `stop` and `restart` wait for the lock
  only (`main.rs:727`), so "stopped" says no more than that
  (`StoppedDaemonLetGo`).  A scanner left behind is harmless to the index
  (`NoLostUpdate`, `ScanConverges`).  `Daemon` ends the threads of a daemon with
  it, so that an old scheduler which still writes the job table while a new
  daemon recovers it is not modelled.
- `scanner-core/src/writer.rs:79`: a query of the schema version that fails, for
  whatever reason, counts as one that finds no version, so that a current or
  even a newer database is backed up and rebuilt; `writer.rs:30` says that a
  newer one is refused unchanged.  It is not written into
  (`NewerIsNotWritten`), and its authored summaries are in the backup.
- `scanner-core/src/postprocess.rs:450`: `run_incremental` asks for the old
  callee files of the edges to resolve after the writer deleted the edges of
  the rewritten files, so the group such an edge pointed into is not rebuilt
  and its cluster keeps stale `entry_symbols`; `clusters.rs:122` says that a
  full rebuild would recompute the rows left alone identically.  The members
  are right (`ClusterMembersAreGlobal`).
- `scanner-core/src/writer.rs:147`: backup, removal and creation of the
  database are outside the transaction of the scan.  A failure afterwards
  leaves an empty index of the current version, which the next incremental scan
  takes for a complete one; `scan.rs:5` says that any failure rolls back to the
  state before the scan.  `ScanConverges` holds for what is committed.
- `scanner-core/src/writer.rs:107`: tables and version stamp are separate
  statements.  A kill between them makes the next scan back up the empty
  database over the only copy of the summaries, which according to
  `docs/RETIREMENT.md:153` survives in `.bak`.  At the moment of removal they
  are backed up (`BackedUpBeforeRemoval`).
- `install/ops.rs:285`: a first install (or the migration of a v3 one) killed
  between `settings.json` and the manifest is refused when it is run again, as
  no claim covers the hooks it wrote (`settings.rs:529`); `README.md:260` says
  that a rerun converges.  With a v4 manifest it does
  (`RerunOfUpgradeAccepted`).
- `install/ops.rs:192`: an install whose probe finds no interpreter removes the
  recorded descriptor; `pyprobe.rs:4` says that it is not refreshed.
- `install/ops.rs:211`: `settings.json` is merged from what was read before the
  first file is written and replaces whatever stands there at the end.  The
  sweep of pending deletions runs before the checks, so a refused install may
  have deleted a path (`README.md:264`).  A purge deletes the directory of the
  lock after the lock was released (`ops.rs:471`).  An uninstall removes
  recorded files that the user modified; a merge clears only the two target
  slots, so a hook that the template no longer has stays.
- `hook_client.rs:518`: an error of one request ends the whole enrichment,
  although the comment says that the rest stays available.  Each read of a
  file while a full scan is pending inserts another superseded job.
  `StateStore::list` orders by `created_at`, so a clock that is set back may
  make it answer with an older job; `Clients` keeps the clock still.
- `ui_host.rs:339`: after a refused child was killed its stderr is read to the
  end, which blocks while a grandchild holds it.
- `mcp/graph.rs:518`: a flow is reported as not connected within `depth=N`
  when `max_visited` was exceeded, and paths of up to `2 * N` calls are found.
  A statement that fails in a walk drops its rows without a word.
- `mcp/deps.rs:51`: `build_import_graph` reads the listed imports in one
  statement and derives the others in later ones.  When a scan that commits in
  between turns a derived import into a listed one, neither read sees it and
  `query_dependencies` leaves it out, although the index held the import before
  and after.  `WalkMatchesIndex` is about links of one kind that stayed.
- `mcp/navigate.rs:290`: the model is shown the cluster of every candidate, but
  the key of its ranking has kind, node and document hash only
  (`navigate.rs:262`, as `MCP_README.md:397` of `remy-src` documents it).  A
  rebuild that moves a file to another cluster changes no document of the file
  or of its symbols, so a cached ranking may have been made with other clusters
  than the call has read and prints.  `CachedRankingSawSameTexts` is about
  candidates and texts.
- `mcp/navigate.rs:225`: the cluster fallback reads texts and hashes in two
  statements, so its ranking may be stored under the hash of a newer text;
  `CachedRankingSawSameTexts` is about rankings of the other kind.
- `scanner-core/src/writer.rs`: a file that is deleted and made again keeps the
  summary of the old one; `SummaryIsOfThisCode` is about symbols and clusters.
- `mcp/freshness.rs`: the verdict is taken at the start of a session, not at
  the first call (`README.md:112`); "modified since last scan" counts files
  that were modified before it too; incremental scans leave `meta` as it is.

### Why the bounds are enough

Three jobs are the least number for which a running job has a pending successor
of its own key and a full scan that absorbs it; two starts are a crash and the
recovery from it.  The third start of `daemon_liveness` adds a crash of the
daemon that recovers, with which two jobs can be pending at once and one overtake
the other.  Two daemons are a stale one and its
successor, two users and three commands a stop, a restart and a start that
overlap; `LifecycleProofs` removes these bounds.
Two scanners are all that can interact, as the lock serialises them; two scans
of each let one find what the other, killed or failed, left behind.  Five
files exceed the channel (twice the number of workers) by one, so it does fill.
In `Clients` the three casts are the pairs that interact: an edit beside an
enrichment, two opens of the UI, a hook behind an open; four jobs are an
earlier scan, the edit, the full scan that absorbs it and a resubmission.
`ClientsProofs` removes these bounds, those on projects and files included.
In `Installer` two operations are an interrupted one and its rerun, or two that
overlap; the six machines are none, foreign files, a legacy, a v3 and a v4
installation with files in use, and an unreadable manifest.  For foreign files,
legacy and v3 the act of the user comes beside one operation, or two operations
are run without it.  Two are not enough for everything: a purge takes the lock
file away with its directory, so that of three operations two may run at the
same time and disturb each other, which no pair can do.  The histories `touched`
and `half` therefore leave out an install that another process disturbed, and
`InstallerProofs` removes the bound on operations.  In `McpServer` the
ranges of the configuration are scaled down so that the limits are met (that of
the symbols a search may visit by a question of its own, which asks for three),
a chunk
holds one node so that every level of two takes two statements, and sessions
that call tools see two commits while the one that is asked for nothing sees
four (write, delete, write again, summarise).  `McpProofs` removes these bounds,
for any graph, depth, size of a chunk and number of commits.
In `Postprocess`, three files give a caller, a callee and a third file whose
symbol competes for the fan-out cap; the theorems of `PostprocessProofs` remove
the bound.  Jobs, starts, edits and clock are capped in the guards that spend
them.  The liveness properties do not owe their truth to that.  `ExecutingEnds`,
`PoolEnds` and `LinesAreRead` wait for steps that no cap disables.
`PendingIsServedInTurn` would not hold of a pending job if later ones could go
first for ever, which the cap on jobs hides, so these are excepted: of the jobs
before it there are only finitely many, whatever is still submitted.  The clock
steps only while there are rows left to insert: by then the order of the jobs is
fixed, and it stands still at either value.

Deadlock is not checked where the system may stop: the bounds above exhaust
the requests and the scans, a stopped daemon stays stopped, a disabled MCP
server ends and an enabled one is asked once (navigate and the fact tools once
per caller).

### Fairness

- `Daemon`: weak fairness of the scheduler's loop (a thread that blocks only
  on its channel); strong fairness of the handling of each queued worker event,
  as the channel is first in first out and every event is preceded by finitely
  many commands; weak fairness of the supervisor, since each of its waits has a
  deadline.  None for requests, crashes, restarts or for the scanner itself.
- `ParsePool`: weak fairness of the writer and of each worker.
- `Clients`: weak fairness of what the server thread does (accept, handle a
  line, end a spawn, release a connection): a read returns after `IO_TIMEOUT` at
  the latest and the wait for a report after its own limit.  None for clients,
  jobs or the daemon's end; the stderr of a killed child is assumed to close.

Without the strong fairness a stream of requests could keep a queued event
from being handled for ever, which the channel's order excludes.

## 4. What is proved

TLAPS checks the theorems for every value of the constants that satisfies the
named assumptions of the modules.  The argument is always the same: an
inductive invariant holds initially, every action preserves it, the property
follows.  None of the properties is inductive by itself.

| module | inductive invariant | properties it gives |
|---|---|---|
| `JobStoreProofs` | `StoreInv`: ids are allocated, the unique indexes and CHECKs hold, one live full scan per project, a successor is a later job, and covers its predecessor | `StoreOpInv`: every operation preserves it, whoever calls it; used for each action of `Daemon` and `Clients` |
| `DaemonProofs` | `DaemonInv`: types, `StoreInv`, what start-up has reached, silence of a stopped daemon, slot against table, release of the slot, at most one `Complete` queued | `TypeCorrect`, `SchemaCorrect`, `SupersessionCorrect`, `SlotCorrect`, `SlotNeverLeaks`, and the action properties `TerminalCorrect`, `CancelCorrect`, `AbsorptionCorrect`; the refinement `ContractCorrect` |
| | `TrackInv`: `DaemonInv`, the types of the history and `NoEditLost` | `EditsCorrect` |
| `LifecycleProofs` | `LifecycleInv`: types, who holds the lock at each place of a daemon and of a client, what an owner has written so far, that a daemon without the lock has yet to try it or has let it go for good, and that a restart on its way to start has seen the lock free since it met its daemon | `FilesCorrect`, `StopCorrect`, `LifecycleTypeCorrect` |
| `ScanProofs` | `IndexInv`: types, the lock has one holder, shape of the database, and for each scanner what it knows: of the database while it holds the lock, of the files that did not change since it looked, of the rows in its transaction | `ConvergenceCorrect`, `UpdatesCorrect`, `NewerCorrect`, `BackupCorrect`, `IndexTypeCorrect` |
| | `PoolInv`: a file is in one place, none is lost unless the scan failed, what the writer observed | `CommitCorrect`, `PoolTypeCorrect` |
| `PostprocessProofs` | `TablesInv`: rows are those of the files, every edge is resolved as the full pass would, kinds and clusters are computed from such edges | `ResolutionCorrect`, `KindsCorrect`, `ClusterMembersCorrect`, `TablesTyped` |
| `ClientsProofs` | `ClientsInv`: types; `TableInv`, the job table under clients that come and go (the latest job of a file covers every recorded edit of it, and a job that may still run has only dead ones after it); the lines in a socket fit what its client waits for; `Knows`, what a hook may conclude at each place of its exchange; `NetInv`, who is queued and who is served; `UiInv`, the slot against the children | `SilenceCorrect`, `OneUiCorrect`, `ClientsTyped` |
| `InstallerProofs` | `InstallerInv`: types; `SharedInv`, no claim covers a permission that is the user's own; and for each process a `View`: what it knows, at its place in the operation, of the paths nobody touched since it looked | `PermissionsCorrect`, `RerunCorrect`, `SuccessCorrect`, `UserFilesCorrect`, `InstallerTyped` |
| `McpProofs` | `FlowInv`: the configuration is valid; where the search is, of both of its sides what they have reached after how many rounds, that their parents make paths of at most so many calls, and that no shorter way exists; every segment answered so far is right | `FlowCorrect`, `ConfigCorrect` |
| | `WalkInv`: types and places; the graph holds the links that stayed and no link that never was; what was visited is the levels found, which are sound; the links that stayed lead from one level into the next, and of the current level those of the chunks that were read are among the rows; what the two reads of the imports have given | `WalkCorrect` |
| | `RetrievalInv`: `TablesInv`, for each node its versions are decidable, the one shown describes the code as it is, and the document is projected from it; `NavInv`, what a call has seen it has read from documents; `CacheInv`, an entry of the model was made for the candidates and from the texts its key names | `ProjectionCorrect`, `SummaryCorrect`, `RankingCorrect` |

Why the strengthenings are needed.  `SlotIsReleased` alone allows a slot whose
job is not the executing one, and then a `Complete` event would fail in the
table and end the scheduler; `SlotMatchesTable` needs the start-up part, as a
slot is only empty after recovery because no worker can exist yet.
`ScanConverges` speaks of the moment of a commit; the invariant has to carry
through the whole scan that the files the scanner does not parse have correct
rows already, which rests on the digests it read under the lock.  The edges of
`Postprocess` are resolved one by one, so the heart of the argument is a lemma
that an edge not chosen by the incremental pass resolves to the same thing
before and after: none of the names, files or imports it depends on changed.
For `ContractCorrect` and `EditsCorrect` every step of the daemon is shown to be
one operation of the job table or none (`NextIsSerialOp`), and what an operation
does to a job, or to the jobs that cover an edit, is proved once per operation.
The contract moves one job at a time while `recover` treats every interrupted
one in a statement; that there is at most one comes from the slot.

`SilenceMeansScanned` compares two moments: what was recorded when the server
answered, and what is scanned when the hook prints.  In between the answer names
one job, the latest of the file; that it succeeded says something of an edit
only because the latest job covers all edits recorded before it, which has to
survive supersession, deduplication into a pending job, recovery and the
daemon's restart.  `OneConfigUi` needs that the slot is empty and the connection
is kept while a child is being spawned: a second `open` is not read before.

`Installer` has no mutual exclusion to rest on, since a purge removes the file
of the lock.  A process therefore knows nothing of a path in general; it knows
of a path that no other process and no user touched since it looked.  That a
permission of the user survives is of another kind: no claim, in the manifest or
in the memory of a process, ever contains it, and a removal takes only what a
claim contains.

`FlowIsShortest` and `WalkMatchesIndex` compare an answer with `Reach`, the
nodes a number of hops away, which is a recursive function.  The induction
theorems of the library take a predicate as a parameter, which the provers
cannot instantiate, but the existence of a least element of a set of numbers
does not (`LeastNumber`): from it follow induction over a set (`Induction`), the
two equations of `Reach` (`ReachSteps`), and that a way of `i + j` hops has a
node `i` hops behind its start and `j` before its end (`WaySplits`).  The search
of `query_flow` alternates between its ends.  What each side has reached in its
rounds is exactly what is that near, so when no call leads from the front of one
side to what the other has seen, no way has a length up to the sum of the rounds
and one more, and the first contact is as long as the shortest way
(`ContactIsShortest`).  Without a front on the source's side everything is
reached.  Beyond the limit the two sets that were counted are subsets of what
`FlowIsShortest` counts.

A walk changes under commits only in that `ever` grows and `always` shrinks,
both of which every part of the invariant survives (`CommitKeepsWalk`).  That no
node is listed too deep is not a statement about one level: the invariant says
of every level that the links that stayed lead from all the nodes up to it into
those up to the next (`Closed`), and only at the end an induction turns this
into what is reachable (`ClosedIsComplete`).  The first attempt at this proof
failed for the imports, and rightly: with an import as a pair of files the
property is false, which led to the deviation at `mcp/deps.rs:51` above.

`ProjectKeysAreIgnored` is a fact about `load_from` and needs no invariant: the
value of a key that a project may not set does not depend on its file.

A summary of `Retrieval` is shown when its version is available and only
skippable ones follow.  The invariant carries that at most one version can be
shown and that it was written for the code of its node as it is; a scan that
changes the code puts the barrier on that very version, and the document is
always the one the refresh would compute from these rows.

The assumptions: constants are finite or natural numbers where the code counts
them (`JobStoreAssumption`, `DaemonAssumption`, `PoolAssumption`,
`McpConfigAssumption`), clients and daemons are different processes
(`LifecycleAssumption`), hooks and UI clients too (`ClientsAssumption`, which
also asks that the priority hooks use is one of the priorities), the initial
database is one of those a scanner can meet (`IndexAssumption`,
`InitialDbAssumption`), the initial machine has a disk, a manifest and settings
of the form the installer reads, with any contents (`InitialAssumption`), a
release ships a binary and no descriptor, and neither a release nor a legacy
record has the bytes that stand for the user's own (`InstallerAssumption`), a
node is a symbol, a file or a cluster, and a summary has one of the statuses of
the code (`RetrievalAssumption`), there are finitely many symbols, a row of the
index or a question of a client has its columns or arguments, a question other
than `flow` has a walk to do, and the index starts with some of the rows
(`McpGraphAssumption`, `StartAssumption`), and the sources and the scores have the form
the parsers give them (`ResolutionAssumption`, `SourceAssumption`).  TLC
evaluates all of them in the runs.

Only model-checked: the liveness properties (`PendingIsServedInTurn`,
`ExecutingEnds`, `PoolEnds`, `LinesAreRead`), which need ENABLED and fairness,
and the disagreements.  Every other property of a run is a theorem.  Only
proved, and not checked by a run: `NewerIsNotWritten`, the types of `ParsePool`,
and the two theorems about the configuration of the MCP server.

## 5. What is not modelled, and what could be proved next

- The migration of `state.db` from schema 1 to 2: one transaction of table
  copies, run once; the model starts from the current schema.
- The parsers: functions from syntax trees to facts, without state, whose
  results and failures are inputs of `Postprocess`, `ScanIndex` and `ParsePool`.
- The layers of the scanner's configuration and `fnmatch`: functions without
  state; `ScanIndex` has their result, the excluded files.
- In the daemon's protocol: framing, tokens, versions, and the bound on the
  bytes of a connection.
- In the hook client: its configuration, the normalisation of paths, and the
  rows it prints beside the freshness signals.
- In the installer: downloads and archives, prompts, PATH registration, the
  sweep of old staging directories, the process that probes the interpreter,
  and the delegation of a command to the installed binary.
- In the MCP server: `query_search`, `query_patterns` and `query_cluster_files`;
  the order of candidates and the branch for intents of several words; labels
  and layout.  `query_cluster_files` reads the id of a cluster and its members
  in two statements, between which a rebuild may reassign the id.  The
  summarizer is taken not to be overtaken between what it reads and what it
  writes.
- Logging, path helpers, and the Python scripts around the program.

Worth proving next: of `Freshness`, that a verdict of "fresh" is right where it
is given; and, with the induction that `McpProofs` now has, what the candidate
ranking of `query_navigate` keeps of its channels once it is modelled.
