# Verification of python-docs-mcp-server

TLA+ models of the parts of this repository in which several processes, jobs or
transactions meet, TLC runs that check them on small instances, and TLAPS proofs
that hold for every instance. Paths below are relative to the repository root;
`pkg/` stands for `src/mcp_server_python_docs/`.

Run `tlc -config X.cfg MCx.tla` for a run of the table below, `tlapm
XProofs.tla` for the proofs. `PROJECT.json` has, for every definition, the lines
it translates.

## 1. The system and its inventory

The repository holds a program, a benchmark of it, and the broker that maintains
the repository.

The **program** is an MCP server that answers questions about the Python
documentation from an SQLite index. `build-index` makes an index next to the
live one and swaps it in. Every MCP client starts its own server process. All
of them share one cache directory: `index.db`, its backup
`index.db.previous`, builds `build-*.db`, and `retrieved-docs-cache.sqlite3`.

The **benchmark** (`benchmarks/`) compares documentation sources. Its agentic
part spends real money at model providers, and keeps a ledger that must not be
overspent whatever crashes; its workers run in containers.

The **broker** (`ops/vision/`) stands between a maintenance agent and GitHub: it
publishes commits, merges and triages only what a reviewer in a sandbox has
approved.

| component | state | operations | interacts with | hard behaviour | what makes it correct |
|---|---|---|---|---|---|
| **Publishing** (`pkg/ingestion/publish.py`) | names in the cache directory, run row, journal mode | record, smoke-test, mark, leave WAL, back up, install, roll back, sweep | other publishers, every server | call-by-call interleaving, kills, refused renames, leftovers, hard links to one inode | the index never vanishes, is never partial, is backed up; nobody writes to a live file |
| **build-index** (`pkg/__main__.py`, `inventory.py`, `sphinx_json.py`, `storage/db.py`) | the build's tables and FTS tables, an open transaction | bootstrap, upsert, download, insert, rebuild, pages, publish | hands its file to publishing | a version fails with its transaction open and the loop goes on | all requested versions or nothing; FTS agrees with its tables |
| **Server and docs cache** (`pkg/server.py`, `services/persistent_cache.py`, `services/content.py`) | open file, fingerprint, cache rows | start, auto-build, open, purge, get, put, exit | the cache file shared by servers, the index slot | the index changes between two steps of a start; old servers write after a purge | an answer comes from the open index |
| **Spend ledger** (`benchmarks/agentic/ledger.py`, `host.py`, `run.py`) | a journal per provider, memory of it, a lock per provider | open, recover, reserve, settle, stop, acknowledge, tear down | jobs in one event loop, provider bills, the file system | kill between reserve and settle, appends that fail and cannot be taken back, lost workers | charges stay under the cap plus the margin; nobody waits for ever |
| **Batch grading** (`benchmarks/grading/batch.py`, `worker_task.py`, `run.py`, `aggregate.py`, `_GradingJob` and `ItemSource` of `agentic/host.py`) | queue of items, rows of a unit put aside, votes, receipts, run records | reserve, submit, poll, read, settle, publish, give up, finish | the ledger, providers, the next invocation | a worker lost between results and settle, writes that fail, retries by outcome and cost | every item graded or reported once; votes only of settled units; final is final |
| **Broker** (`ops/vision/control.py`, `configure_apps.py`, `install.py`) | keys and identities of two GitHub Apps, a temporary token, verdicts, receipts, circuits, rerun counts, a lock | register, activate, enable a token; publish, verify, merge, resolve-thread, rerun, with the review inside | GitHub, the reviewer's account, other people, the installer | GitHub and `control.py` change between two calls, kills and torn files anywhere, cached verdicts, cleanups that fail | every act was approved for this head and this main; retries are bounded |
| **Containers** (`benchmarks/agentic/sandbox.py`, `probe.py`, `egress.py`, `run_jobs` of `host.py`) | networks and containers at the Docker daemon, log spools, owned ids, markers and records | prepare, probe, start, stop, close, summarise | the Docker daemon, supervisors | commands that time out with effect, cancellation between a create and its owner, failing rollbacks, a marker that cannot be removed | nothing outlives the run unnamed; workers run only when isolated; "pass" means clean |
| **Text budget** (`pkg/retrieval/budget.py`), paging of get_docs | none (a function of a text and a range) | page | content, compare_versions | boundaries inside combining characters | pages join to the text and move on |
| **whats_new** (`pkg/services/whatsnew.py`) | none (a function of a page, a kind and an index) | classify, admit, share | content | two limits at once, minima of sections still to come | the response is capped and nothing is skipped |
| **Search, compare_versions** (`pkg/services/search.py`, `compare.py`, `retrieval/ranker.py`, `query.py`) | none but the open index | route, look up, rank, merge, compare | get_docs | inventory and pages disagree; fall back and de-duplication; spare slots | a hit opens; a symbol that is named is shown; a comparison says what was read |
| Version resolution and detection | none | resolve, detect, match | server start, every tool | defaults that are not in the index | the version asked for or an error |
| LRU caches, package_docs, diagnostics, doctor, validate-corpus, observability | per process | look up, report | | none beyond their data | |
| Sphinx JSON conversion, cache codec | none | convert | build-index | malformed pages | |
| Agentic worker, loop, clients | one worker process per job | request, retry, report over frames | the host | retries after ambiguous failures | one settle per grant |
| Air-gap watch, token counting, scoring, aggregation, reports | files of finished runs | compute | | sequential | |

The rows in bold are modelled, whole or in part. They are where actions of several
actors meet, where state survives a crash, or where a client puts together what
several calls returned.

## 2. Modules

| module | models | extends |
|---|---|---|
| `IndexSlot` | what publishing promises to everyone who opens `index.db`: a live generation, a backup, generations on their way from the one to the other. Abstract. | |
| `Publish` | the cache directory and any number of processes that build, publish and roll back, one system call per action | |
| `Ingest` | one build: versions, transactions, failures, smoke tests | |
| `Serving` | servers over one index slot and one shared cache file | `IndexSlot` |
| `SpendLedger` | journals, ledger, arbiter and the jobs that use it, over many runs | |
| `BatchGrading` | the grading of one judge's items in batches: item queue, grading job, worker, collector and files, over invocations | |
| `BrokerSetup` | registering and activating the broker's Apps, callback threads and commands | |
| `Broker` | the broker's operations with their reviews, GitHub and the installer around them | `BrokerSetup` |
| `Paging` | `apply_budget` and the clients that join its pages | |
| `WhatsNew` | `whatsnew_for_version` and a client that walks through the sections | `Paging` |
| `Search` | search and comparison over one index, and whether a hit opens | |
| `Containers` | what a run makes at the Docker daemon and takes back | |
| `MC*` | instances for TLC: constants, symmetry, view. `MCTools` puts `WhatsNew` and `Search` side by side. | the modules they instantiate |
| `*Proofs` | theorems and proofs; `BrokerProofs` covers `BrokerSetup` too, `ToolsProofs` the three modules of the tools | the modules they are about |

`Publish` implements `IndexSlot`, and `Serving` composes servers with
`IndexSlot`, so what is shown of servers rests on what publishing is shown to
do, and not on its calls.

### Publish

A *name* (variables `index`, `previous`, `tmp`, `build`, `strays`) denotes an
inode, or `None`; `disk` gives an inode's content. A hard link gives an inode a
second name, a rename moves a name in one step and does nothing when both names
already denote one inode. A content is what the smoke tests see (`data`), the
status of the run row, the journal mode and `gen`, the identity of the build
whose rows it holds, which a copy inherits.

A process is a program counter over the steps of `build-index` and of
`rollback`. Each system call that another process can see in between is an
action: `UnlinkLeftover`, `Link` or `StartCopy`/`FinishCopy`,
`ReplacePrevious`, `UnlinkLink`, `Install`. `BackupFails`, `CleanUp` and
`SwapFails` are the error paths; `Killed` ends a process anywhere and leaves its
files. A sweep takes its cutoff (`Begin`), and then stats and unlinks file after
file (`JudgeStale`, `UnlinkStale`) until it stops (`EndSweep`): `aged[p]` is what
was older than the cutoff of p's sweep, `judged[p]` the file it has looked at and
not yet unlinked. In between, the owner may write to it, install it or lose it to
another sweep; the unlink may be refused. The stat and the unlink go by the path,
which stands for one inode, since distinct builds have distinct names. A build
whose file was swept is re-created empty when it is opened (`OpenMissing`), as
sqlite3.connect does. A process slot keeps its pid, so that a later run meets the
`.tmp` of a killed one.

### Ingest

`view` is the database through the build's connection, `durable` what is
committed; they differ while a transaction is open. `tables` says whether all FTS
tables are there, which they are not after a bootstrap that raised among its drops
(`Dropped`). Amounts of rows are `none`,
`few` (the smoke tests reject) and `enough`. `DocSetReplaced` is INSERT OR
REPLACE with its cascade. A failure in the loop is an action that goes on with
the next version without a rollback, which is what `except Exception ...
continue` does, and every step of a version has one: `BootstrapFails` before,
among or after the drops, `UpsertFails` before or after the cascade,
`DownloadFails`, `InsertFails` (also when SQLite itself rolled back),
`RebuildSymbolsFtsFails` and those of the content. `SetupFails` is the FTS5 check
or the first bootstrap, outside the loop. What is pending then is committed by the next version's `bootstrap_schema`,
which db.py:121-123 warns of. `WrongSource` ends the run, since SystemExit is no Exception. The
transactions around single pages are one action (`IngestPages`): each page
commits or rolls back alone, and no other connection reads the build.

### Serving

A generation stands for the rows of one build and for the fingerprint of its
file (path, size, mtime in nanoseconds); that distinct builds have distinct
fingerprints is assumed. `Open` and `Fingerprint` are two actions because the
code opens the path first and stats it later. `Hit`, `Miss`, `Store` are
statements on the shared cache file. The requests of one server do not overlap:
the tool handlers that use the cache are synchronous bodies in one event loop.
`SlotMoves` is any step of the slot, made by any process.

### SpendLedger

`journal[p]` is what `_load` makes of the lines of a provider's file: the sum of
its settles, the reserves without a settle, whether an overrun stop stands, and
whether a line is torn. `spent`, `stops`, `inFlight`, `ceiling` are the ledger's
memory, `lock`, `queue`, `grantsStopped` the arbiter's. Each call of the ledger
runs between two awaits, so it is one action. The append inside is where it can
fail: `AppendRaises` leaves the journal as it was, or with the line, or torn,
since the rollback of a failed append can fail too. `Killed` can come at any
time; the next `Open` recovers unit by unit (`Recover`), and a failure there
closes the ledger again.

Of the host: a job asks, waits its turn, holds a unit, settles it, or is lost and
torn down; `failing` is a run whose `gather` has raised and which cancels every
supervisor. `Charge` is outside the program: the provider bills a unit that was
granted, before its worker settles or is lost. A bill that comes in later, even
after a kill, is the same history with the charge moved forward. The history
variables (`billed`, `last`, `charge`, `unacked`) appear in no guard but that of
`Fresh`, which says that uuid4 does not give out the same id twice.

### BatchGrading

`pending`, `held`, `attempts`, `paid`, `notRun` are the fields of `ItemSource`;
`unit`, `failures`, `stage`, `terminals` those of `_GradingJob`. `pc` is where the
worker stands in `run_batch_task`. A frame is handled and answered before the
next one is read, so the worker's request and the host's handling of it are one
action. `Publications` is the generator of that name: host-written terminals,
then the rows of a unit that is settled. While it has something to give, the
collector works and the worker waits. The collector's two files are two actions,
`WriteVote` and `WriteReceipt`, since a write can fail or the host be killed in
between.

A row has one of five outcomes (`Status`): what tells providers and formats apart
beyond that decides prices, which are the ledger's. The ledger itself is one
variable, `booked`: what it has of the last unit. That its calls
run without an await in them is why a settle and what the job does after it are
one action. `Leave` covers every way the worker goes away; `Finish` is the teardown
with `finish()`, and `TornDown` ends it. `Killed` leaves the files; the next
`StartRun` reads them. Item order decides only which items share a unit, which
`Grant` leaves open.

The history variables `graded`, `charged` and `clean` appear in no guard.

### BrokerSetup and Broker

`pem[r]` and `json[r]` are the files of a role, as the App they belong to;
`callbacks` the threads of the setup server that are in `do_GET`, each between
its exchange of the code and its two files. `command` is the operator's
`activate` or `enable_temporary` and its next step; GitHub's side of a
binding is `checkApp` and `tagApp`. Any command may stop at any step
(`CommandStops`), and the server too (`ServerStops`).

`Broker` adds one operation at a time (`op`, under the `flock`), whose steps are the
calls between which something else can happen. A review is the same for
`publish`, `verify` and `resolve-thread`: `UseVerdict` or `Refuse` from what is on
disk, else `StartReview`, one of `Approve`, `Reject`, `ReviewFails`, then `Cleaned`
or `CleanupFails`, and what the answer is used for. `PushMain`, `PushHead`, `CIFails`,
`Install`, `EndInstall` and `CoolDown` happen at any time; `Stop` is an exception
nobody catches or a kill, `KilledWriting` a kill that leaves a file which cannot
be read; when it is the record of a review's outcome, `tried` still counts the
outcome. A policy is the hash of `control.py`, which reviews, receipts and circuits are
keyed by; a base is the number of pushes main has had; a commit stands for itself
and the decision given with it. `approvals`, `tried` and `posts` are history and
in no guard.

### Paging and WhatsNew

A text is a sequence of characters of three kinds: combining marks, those JSON
escapes, others. `PageEnd` is `apply_budget`; `at` is the start index the client
goes on with, `got` what it has joined. In `WhatsNew`, a length is one of JSON,
`news` says which loop of `get()` runs, and `page` and `length` are the response as
it grows. The classification keeps the code's stack of ancestors (`Ancestors`);
the property `NothingSkipped` says which headings enclose a section without a
stack, and which sections are still to come without counting them.

### Search

A call is one step, since the index is read only. `SearchDocs` is the set of
answers the code may give: what FTS5 matches and in which order is left to
choice, with the rows, routes, fallbacks, merging and canonical symbols as the code has
them. `CompareVersions` is a function of the index. `Opens` is as much of get_docs as
decides whether a hit can be opened.

### Containers

A thing is a kind and a job (or the host). `world` is what there is, `late` what the
daemon will still make after its client gave up, `reported` what an error or a problem
of the run names. `Made` and `Undone` are the two ends of `create_resource`: the
id is handed over, or the call raises, having removed the thing or named it.
The steps follow `prepare`, `open_egress`, the supervisors' teardown and
`close`; jobs come in any order. `job` and `owned` are what `open_egress` would have
to take back. Cleanup cannot be cancelled: `finish` and `settle` wait for it, so
`Cancel` changes what comes next and never cuts a removal short. `issues` are the
jobs `close` had a problem with, be it a worker that would not go (`CloseWorkers`) or
an egress; `untold` in `StopEgress` is a spool whose failed removal is withheld with
the other diagnostics of its job. Docker keeps a
network that a running container is on, which is the guard on `StopEgress` that is
not in the code: that workers are closed before their networks (sandbox.py:863,
868) is therefore not what keeps a worker on its network here.

## 3. Runs

All passing runs check every reachable state of their instance.

| run | instance | what it shows |
|---|---|---|
| `publish` | 2 processes, 4 inodes, at most one abandoned build | `LiveComplete`, `IndexNeverVanishes`, `ReplacedIsBackedUp`, `LiveFilesFrozen`; after any history of kills, refusals, copies and rollbacks, a run that publishes leaves no `.tmp` of its pid (`PublishedLeavesNoTmp`); publishing implements `IndexSlot` (`ImplementsSlot`) |
| `ingest` | versions 12 and 13 in five lists, with repetitions | `AllOrNothing`, `PublishedFtsAgrees`, `VersionsAreIsolated` under every combination of failures, those of a second pass over a version included |
| `serving` | 2 servers, 3 generations, 1 request | `AnswerFromOpenIndex`, if `index.db` does not change between a server's open and its stat |
| `spend_ledger_one` | 2 jobs, 1 provider, 3 units, cap 2, margin 1 | `BudgetHolds`, `SpendCoversCharges`, `NoGrantAfterStop`, `OverrunStops`, `WaitersAnswered` over as many runs as the ids allow |
| `spend_ledger_two` | 2 jobs at 2 providers, 4 units, cap 2, margin 1, budget 1 | `InvocationWithinBudget`: providers in parallel share one ceiling |
| `batch_grading` | 2 items, 3 attempts; one invocation of an empty directory, or two of one where an earlier invocation left votes | `EachItemOnce`, `VotesAreSettled`, `ExhaustionIsFinalIfPaid`, `InventoryAgrees`, `FinalIsNotResubmitted`, `RunEnds` |
| `broker` | 3 Apps, 2 commits of one content, one push to main or one install, the limits of the code (2 rejections, 3 breakdowns, 3 reruns) | `KeyMatchesIdentity`, `ActivatedIsComplete`, `RetriesBounded`, `ActedOnReviewed` over operations that stop anywhere |
| `tools` | every text of up to 6 characters in pieces of 1 to 3; What's New pages of up to 4 sections; 24 small indexes | `PagesJoin`, `WithinCap`, `NothingSkipped`, `HitsOpen`, `NamedSymbolShown`, `CompareSound` |
| `containers` | 2 jobs | `NothingLeftUnnamed`, `RunsIsolated`, `PassIsClean` when any command fails or times out, workers and proxies end, and the run is cancelled |
| `serving_race`, `ingest_fts`, `batch_grading_torn` | as above | disagreements of code and documents, section 6 |

The type invariants of `Publish`, `Serving`, `BatchGrading` and `Broker` are theorems
(section 5) and in no run; those of `Ingest`, `SpendLedger` and `Containers` are
theorems too, and checked with the other invariants of their runs.

**Why the bounds suffice.** Two processes are enough for every pairwise
interleaving of publishers, which are symmetric and share only the names; the
theorems of section 5 cover any number. Four inodes are a live index, its
backup and two builds, or a live index, a build, a copy in progress and a stray.
Three
generations are the old, the new and a newer index, needed for a rollback that
revives one. Two versions are one that fails and one that commits after it;
three-element lists repeat one around another. Three units are two grants and one
that stays behind in a journal nobody was given (four where two providers share
them); a cap of 2 with a margin of 1 leaves units that fit and units that do
not, and charges above a bound.

For `BatchGrading`, two items are what one unit can treat differently and what two
units can share out; three attempts and two whole-batch failures are the code's
values (`max_attempts`, `WHOLE_BATCH_FAILURE_LIMIT`). What one invocation leaves
to the next is per item, so the later invocations start from a directory in
which the other item is final (`Starts`), and there are two of them: one that adds to
what it finds, and one that reads both.

For `Broker`, two commits of one content are what a rejected content can come back
as; one push to main and one install are what can happen between a decision and an
act. The limits are the code's, and the view keeps what the circuits say and what
was tried, so that one retry too many is a state of its own. `OneStory` keeps apart
what does not meet: a behaviour is a registration, the work of the broker, or the
reruns of one CI run. It also leaves out a change of the credential while the broker
works, a push to main together with an install, and, for contents that have broken
down more than once, the Apps and installs. That bound and the view of `MCBroker` are
approximations which TLC needs; the theorems of section 5 need neither, cover every
property of the run and are about every history, those that `OneStory` leaves out
included.

For the tools, a text of six characters holds a cluster longer than a piece and one
on each side of it; four sections are one more than a response holds with the
cap of the run, and three levels of headings skip one. Two versions and three symbols
are one symbol both versions have, one that one of them lacks, and one whose
page or anchor is not indexed. For `Containers`, two jobs are one that is
prepared and one that fails after it; every other interleaving is between one
job and the daemon.

**Views and symmetry.** `MCPublish!View` leaves out the content of inodes no
name reaches, `MCSpendLedger!View` the description and charge of units that are
over; no step and no checked property reads them. `MCBroker!View` leaves out
what is on record of a main or an install that is past. Symmetry is over process, inode, unit, server,
generation, key and job values, which no definition orders; the liveness runs use
neither symmetry nor a view.

**Deadlock** is checked for `Publish`, `Serving` and `Broker`. A build ends (`Ingest`), and
a torn journal is refused at every open until somebody repairs it by hand
(`SpendLedger`), the invocations of `BatchGrading` are bounded (`MaxRuns`), the
clients of the tools have read all (`MCTools`), and a run of `Containers` ends:
those runs switch the check off.

## 4. Fairness

There are two liveness properties. For `WaitersAnswered`, `Fairness` of
`SpendLedger` has, for every job, weak fairness of

- `Turn`: the event loop runs a task whose lock is free;
- `Lose`: a job that holds a unit settles, or `asyncio.timeout(silence_s)` in
  `_supervise` declares its worker lost;
- `Teardown`: the `finally` of `_supervise` runs;
- `Cancel`: `run_jobs` cancels all tasks after one of them raised.

No fairness of the worker, the provider, of starting or ending a run is assumed.
The interesting case is a teardown that cannot book its unit: its provider stays
locked, and the waiting jobs are answered only because the same failure makes
`gather` raise and cancel them.

For `RunEnds`, `FairSpec` of `BatchGrading` has weak fairness of `WorkerStep` (the
worker's calls end: polling has a ceiling, a read ten attempts, and a worker that is
silent is lost, which is `Leave`), of `CollectorStep` (it never waits), of `Leave`
after "done" (the supervisor reads the end of the worker's output), and of
`TornDown` and `CloseRun` (`finally` blocks). A budget, a denial or a failed write
is never assumed to come or to stay away.

The other modules have no fairness. That paging gets on is a safety property
(`MovedOn`: no more calls than characters), and the broker and the containers only
promise what never happens: GitHub and the Docker daemon may stop answering.

## 5. Proofs

Every safety property that a passing run checks, invariant or action property,
and the refinement of `IndexSlot` are theorems for all values of the constants.
Assumptions are those of the modules: kinds of constants; that `None` (`Host`)
is none of the values; that providers, the symbols of an index and the names a
query mentions are finitely many, which they are. Nothing is assumed about how
many processes, versions, jobs, units, commits or sections there are.

**`PublishProofs`**. `LiveIndexIsComplete`, `IndexStaysPresent`,
`LiveFilesStayFrozen` and `TypeCorrect` rest on `IndInv`.
That the live files are complete is not inductive: `Install` needs to know that the
build it renames is, and `ReplacePrevious` the same of the `.tmp`. The invariant
follows the file through the steps (a build past the smoke test has good data, past
the mark a published row, past `LeaveWal` the final mode) and says which files are
private: the build of one run is no other name's inode, so nobody else writes to it.
`LiveFilesFrozen` then follows, since every write goes to a private file or a new
inode. A sweep that unlinks a file its owner goes on with takes nothing from this:
the owner then has no file, and what it opens instead is empty.

`PublishedRunsAreTidy`, `BackupIsOfTheReplaced` and `PublishImplementsSlot` need
`SwapInv` beside it: which steps of a swap can have a `.tmp` (`TmpTidy`); that
no file of the slot and no other build carries a build's generation, which so is
new to the slot when it is installed (`GensApart`); and that an undisturbed run which is past its backup
has in `.tmp` or in the backup the generation of `index.db` (`BackupCurrent`). The refinement
maps a name to the generation of its inode, and what is whole in a `.tmp` or being
copied to the captured generations; every action of `Publish` is then a step of `IndexSlot` or
a stutter.

**`IngestProofs`** proves `PublishingIsAllOrNothing`, `PublishedTablesAgree`,
`BuildsAreIsolated` and `TypeCorrect` for any versions and lists of them. What a
failure leaves behind is found only at the end, by the smoke tests, so the invariant
carries it through the versions that follow. `Committed` says where the two databases
may differ while a transaction is open. `FailuresShow`: a version that failed lacks
what it failed before, in both databases; `Fresh`: in a list without repetitions
nobody makes up for it later, since a version to come has no rows yet and
each comes once. `FtsFollows` says that a symbols_fts which does not follow its rows
belongs to a version without symbols, which the smoke tests reject, as long as
no version failed between its bootstrap and its rebuild otherwise than in its
download, after which it is without symbols; `FtsWhole` says that symbols_fts is
whole or empty in every case. A list with a repetition can
make up for a failure, which is why `AllOrNothing` is about lists without; and it can
leave rows of one pass under the empty tables of the next, which is why
`PublishedFtsAgrees` names the failures after which symbols_fts may be empty.

**`ServingProofs`** proves `TypeCorrect`, and `CacheIsSound` under
`~SwapsDuringStartup`. The invariant says that rows under a generation hold answers
of that generation, and that a server's fingerprint, once it has one, is that of
its open file.

**`SpendLedgerProofs`** proves `BudgetIsKept`, `SpendIsCovered`,
`OverrunsStopTheProvider`, `InvocationsKeepTheirBudget`, `StoppedMeansStopped` and
`TypeCorrect`. The invariant
follows the money in the journals (`InJournal`: the settles cover the bill but
for the last unit granted, whose reserve then is still pending) and in memory
(`InMemory`), says that a unit in flight fits under the cap (`Fitted`), and that
only the holder of a provider's lock can make its unit cost anything
(`Holders`). A kill forgets the memory, and recovery rebuilds it from the journal,
booking at twice the bound whatever was pending; a line that a failed append
left behind names a unit that was not granted, or books one twice, and both
only make the ledger count more. The
one assumption about the world, which is that of the design
(`docs/benchmarks/AGENTIC-BENCHMARK-DESIGN.md`, section 12), is in `Charge`: no
unit is billed at more than twice its bound, and a bill that reports its cost
reports it truly. For `OverrunStops`, `OverrunKept` says that an overrun
nobody has acknowledged shows in what is read from the journal, whether its stop
line was written or only its settle, and stops the provider in memory while the
ledger is open.

For the budget of an invocation, `WithinCeiling` says that what is spent and what
the units in flight hold stay within the ceiling and the margins of those providers
that have nothing in flight: a unit goes out if it fits with all that is held, and when it
is over it has used its own provider's margin and no other's. The sums are a fold over the
providers. `SumChanged` (a sum changes by what one of its terms changes by) and the
other facts about it come from the recursive function behind the fold, by a smallest
set of providers for which they would fail.

**`BatchGradingProofs`** proves `NoItemIsLost`, `VotesFollowSettlement`,
`FinalStaysFinal`, `InventoriesAgree`, `ExhaustionIsFinal` and `TypeCorrect` for any
items, attempts, limit and invocations. `EachItemOnce` alone is not inductive:
`SettleBatch` splits the held items by the status of their rows, which loses none
only if the rows put aside are one for each held item (`StageIsOfUnit`), and a
denial reports the queue only, which is enough because nothing is held between
units (`UnitIsWorked`). `PublishedIsSettled` says the same of the collector: when
there is something to publish, the last unit is settled, and a job that goes down
with its unit open has no terminals, so that nothing of it is published.
`FinalsAreElsewhere` keeps an item with a final record, on disk or on its way, out
of the queue and out of the unit.

`Inventory` relates the three kinds of files: a receipt has its vote, the manifest of an
earlier invocation names receipts and that of this one all of its receipts, and as
long as all writes succeed the one vote without a receipt is the one being written.
For `ExhaustionIsFinalIfPaid`, `Explained` says that whoever has a final record, or a final
row on its way to one, was graded or given up, and that of those given up none is
without, unless a write failed; `Unpaid` keeps what was charged apart from what was
rejected for free.

**`BrokerProofs`** proves `TypeCorrect`, `KeysMatch`,
`ActivationIsComplete`, `RetriesAreBounded` and
`ActsAreReviewed`. `SetupInv` follows the files of a registration
(`StoredKeyIsThere`) and how far a command has come (`Progress`, `Marked`).
`ApprovalInv` is what makes an act reviewed: every cached approval that can be
read, every receipt and check that lets something be done, and every operation
that is about to act stands for an entry of `approvals`, except a verdict whose
account is being cleaned, which the failing cleanup deletes. `CountInv` says that
a circuit counts at least what came of the reviews of its content, or is torn, which
blocks it for good (`TriesCounted`), that the review under way was let through by a
circuit that is whole (`LetThrough`), and the same of reruns. A circuit is keyed by
`control.py` and main, so the bound is for one of each.

**`ContainersProofs`** proves `NothingIsLeftUnnamed`, `WorkersAreIsolated`,
`PassesAreClean` and `TypeCorrect` for any jobs. The invariant is who holds what:
each thing that is there is named, or one of `owned`, the egresses, the workers and
the outside network holds it, or it is a spool of a job with a problem (`Accounted`),
and so the step that gives one of these up must have removed or named it. What the daemon makes late was named by the call that gave
up, and nobody holds it (`LateIsNamed`). `Ordered` and `Isolated` follow preparation up to the
first worker; `MarkersStay` says that a marker is gone only after its job's egress was
collected without a problem, and `AtWork` the same of the job that is being closed.
The one problem that leaves the evidence good is a stopped worker that could not be
removed: `PassIsClean` allows it, as the code does, and `NothingLeftUnnamed` names it.

**`ToolsProofs`** proves `PagesJoinToTheText`: a page ends after its start, within the
text and never before a mark (lemmas on greatest and least elements of bounded sets),
so what is read is always the beginning of the text.

It proves `ResponsesAreCapped` of `WhatsNew`: `NewsInv` says that sections which have
no share yet stand at their minima, that these minima are set aside, and that what else
remains is what the response is short of `Cap`; no share can then exceed the cap. And
`NoSectionIsSkipped`: the stack of the classification holds, in order, exactly the headings
that enclose a section (`AncestorsEnclose`, of the recursive function by a smallest
row for which it would fail), so the matches are what is wanted (`KindIsSaid`); each
place among them has one row (`MatchBounds`); and `Listed` says that the n-th row
a client got is the n-th match and that the admitted ones follow.

Of `Search` it proves `EveryHitOpens`, `NamedSymbolsAreShown` and
`ComparisonsAreSound`. A call is one step, so the invariant is their conjunction;
the work is in what each route returns: that it has at most `max` hits, all of them
of the index (`LookupBounds`, `FullTextBounds`, and `SectionsOfBounds` of the
recursive de-duplication), and that a symbol put into the spare slot
changes nothing else (`CanonicalBounds`).

**Model-checked only:** `WaitersAnswered` and `RunEnds`, since liveness under fairness
is out of the prover's reach; and the three disagreements of section 6, which are
counterexamples. Induction schemes over data cannot be instantiated here either: what
is proved of a recursive function is proved by a least counterexample (`LeastNatural`,
`MinimalSet`).

## 6. Where code and documents disagree

Each is a run whose property TLC finds violated.

1. `serving_race`: a publish between a server's open of `index.db` and the stat
   for its fingerprint lets it answer from, and fill, the cache of another index.
   README.md:304-305 and ADR-007 say that old entries are ignored.
2. `ingest_fts`: every version's bootstrap empties symbols_fts, and its symbols are
   committed before it is rebuilt. A failure in between can publish a symbol-only
   index in which nothing can be found, as the smoke test only warns; and so can a
   second pass over a version that fails anywhere after its bootstrap began, except
   in its download, since the rows of the first pass are still there.
   publish.py:128 and inventory.py:86 say otherwise.
3. `batch_grading_torn`: a vote file is created under its final name and then
   written. Cut off in between it stays, cannot be read, and stops every later
   invocation that looks for final records; the report plan:101 says that all
   vote files stay readable. Receipts and run records are staged and linked.

Met while modelling, and modelled as the code has it, without a run:

- ADR-007-cache.md:83-86 says that a failed read or write disables the docs cache;
  `persistent_cache.py:127` logs it and tries again at the next call.
- publish.py:69-70 says of the sweep that "the age floor spares a build that another
  process is still writing". The stat (76) and the unlink (78) are two calls: a build
  whose owner was silent for a day, and writes to it in between, goes.
  What is published is whole all the same (`LiveComplete`).
- `close_egress` says that failures are returned as problems (sandbox.py:639-640).
  When the diagnostics of a job do not pass the scan for keys they are replaced
  (695), and the problem that names a private log directory which could not be
  removed (670) is lost. `NothingLeftUnnamed` therefore asks of a spool only that
  its job had some problem.
- ops/vision/README.md:74-75 says that "the verifier's processes and writable state are
  discarded between reviews". The agent of a review is a process that `runuser` starts
  under another account (control.py:507-523). When the broker is killed, or `runuser`
  after the timeout, the agent goes on, `reset_verifier` does not reach it (302), and
  what it runs next is beside the next review. The model has nothing of the account.
- The log promises that search works for a version whose sphinx-build failed
  (`__main__.py:357-360`); without its documents the whole build is rejected and
  deleted.
- compare_versions reports "changed" for an identical text when the later version
  says deprecated, and looks a symbol with an empty anchor up as section "".
- `release` hands the verifier's app id to a check that compares it with a login
  (control.py:724-726), so that a release is never eligible. `release` is not in
  the model.

## 7. What is not modelled

- `-wal` and `-shm` files; file permissions; Windows beyond renames that are
  refused; a full disk beyond calls that fail.
- Two builds with the same timestamped name, or the same fingerprint.
- Processes in different pid namespaces with one cache directory.
- Conversion of pages; what FTS5 matches, ranking, snippets, synonyms; the
  default version, which one query picks (version_resolution.py:45-47), and the
  detection of the interpreter; the wording of a comparison and its diff.
- Unmetered providers of the arbiter (they have a lock and no money); a second
  ledger process, which the flock refuses; a `.lock` replaced while open; a
  line that is whole but for its line feed and is torn only by the next append;
  an exception other than OSError from the stop line (ledger.py:598).
- What the ledger counts when several providers hold credit of one ceiling: a
  unit that does not fit because of what another provider merely holds stops its
  provider for the rest of the run, although the credit may come back
  (ledger.py:622). No document says what is intended.
- Of batch grading: several judges at once (they share only the ledger), the
  validation of frames, calibration and panels, dry runs, a ledger that refuses
  to open, and what the report makes of a directory after an invocation that was
  cut off (vote_capture.py:164). A reply that is settled and not written when
  the host is killed (host.py:815) is paid for and lost; the item is graded again.
- Of the broker: the raw `api` operation, listing of threads, `release`, the verifier
  service, and of the installer everything but replacing `control.py` and dropping
  the verdicts. An operation that is under way when `activated` is removed goes on;
  a registration killed between its two files stays stuck; a receipt, verdict or
  circuit that was torn refuses until main moves; a review that is killed is not
  counted, nor does a rejection withdraw an approval another rationale got before.
  A review killed between its approval and the cleanup leaves the approval, which
  later operations use; `approvals` counts it. These are in the model as the code
  has them; a write that fails without a kill after an approval is not. The
  reviewer's account, and an agent that outlives its review in it, are not in the
  model.
- Of the containers: SIGKILL of the host and a second Ctrl-C; which check of a probe or
  of the image fails; what the logs, the ledger and the trajectories add to the
  summary; key leaks; the names under which a daemon could hold someone else's
  things.
- Frames and trajectories of the benchmark, its worker, loop and clients, and the
  precedence of failures in `run_jobs`, beyond the calls they make to the ledger
  and the containers; the air-gap watch; token counting, scoring and reports.

## 8. Plan

Done: `IndexSlot`, `Publish`, `Ingest`, `Serving`, `SpendLedger`, `BatchGrading`,
`BrokerSetup`, `Broker`, `Paging`, `WhatsNew`, `Search`, `Containers`, their runs,
and the theorems of section 5. Left, in this order:

1. `Supervisor`: frames and trajectories of `host.py` with `worker.py` at the other
   end: every trajectory reported once, the first failure kept, grants stopped
   before anything else runs.
2. The air-gap watch, over the containers of `Containers`.
3. Proofs: the abstract specifications that would join modules as `IndexSlot` does
   `Publish` and `Serving`, first of all what the ledger promises `BatchGrading`
   (`booked` stands for it).
