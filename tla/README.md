# A verification development for harness-mem

harness-mem gives coding agents a long-term memory. It captures the transcripts
of native agent sessions, splits every captured revision into chunks, has agents
and model providers read and review them ("distillation"), writes what was
learnt into a knowledge store, and afterwards cleans up the evidence. All of it
runs on one user's machine, as many short-lived processes — IDE hooks, detached
workers, MCP servers, CLI commands — that share a data directory: SQLite
databases, lock files, request files, JSON receipts. There is no coordinator.
What makes the code hard is that any of these processes can be interleaved with,
or killed between, any steps of the others, and that no transaction spans two of
the stores.

This directory holds TLA+ models of that shared state, the TLC configurations
that check them on small instances, and TLAPS proofs for all instances.
`PROJECT.json` maps every definition to the source lines it translates, and
lists runs, mutants, findings, hazards and theorems.

    tlc -config Review.cfg MCReview      # check one run
    tlapm DistillLedgerProofs.tla        # check the proofs of a module

## Inventory

| Component | State it keeps | Operations | Talks to | Hard behaviour | What makes it correct | Module |
|---|---|---|---|---|---|---|
| **Distill ledger** `storage/session_distill_store.py` | jobs and their chunks: status, leases, budget, backoff, manual flag | enqueue, claim, checkpoint, review, finalize, defer, reconcile, rebalance, reserve, freeze | every worker and MCP server, by `BEGIN IMMEDIATE` transactions | crashed and slow workers, late answers, superseded revisions | nothing is reviewed unread; leases are exclusive; final is final; no job stays processing | `DistillLedger`, `JobLifecycle` |
| **Transcript ledger** `storage/transcript_store.py` | sources, revisions, chunks, projections | save, mark missing, prune, delete | capture, ledger, cleanup | rows read outside the transaction and written back whole | the current pointer names kept evidence; pruning is last | `DistillLedger`, `SourceCleanup`, `Erasure` |
| **Evidence projection and chunking** `mcp/distill_projection.py`, `transcript_chunking.py` | cached renderings | parse, reuse, manifest, challenge, cut, rebuild | ledger, reviewers | a rendering pieced together from an older one | what was read is the whole revision | `Projection`, `Chunking` |
| **Session preparation** `mcp/distill_handlers.py` | reservation, retention, leases | prepare, submit, defer, recheck | ledger, capture | a session that grows while it is prepared | final evidence is complete and current | `PrepareDistill` |
| **Semantic review** `autonomous/worker.py`, `mcp/distill_handlers.py` | lease, candidates, plan, outcome | claim, prepare, commit, finalize, defer | ledger, candidates, knowledge | three stores without a common transaction; lost leases | only the owner of the review writes, and a completed job is backed | `SessionReview` |
| **Verdicts and admission** `autonomous/models.py`, `commands/evidence_admission.py` | candidates and their evidence | extract, verify, admit, revalidate, apply | model, repository, source | sources that change between check and use | what is written was supported as it is written | `Verdicts`, `Admission` |
| **Plans** `worker.py`, `commands/separated_assimilation.py` | the plan of a review | ask, correct, fall back, decide collisions, apply | model, knowledge | unusable answers; two validators of one plan | the plan that is accepted can be applied | `AssimilationPlan` |
| **Providers** `autonomous/executors/` | server, owner, process leases | start, call, stop, heartbeat | host programs | early, late and foreign notices; hung processes | an answer belongs to the turn that asked; no process is lost | `AppServer`, `HostCli` |
| **Knowledge** `storage/knowledge_store.py`, `storage/canonical_store.py` | entries, sources, transaction records | add, refine, replace, delete | review, Dream, search | optimistic digests, retries after a crash | no fact is lost | `KnowledgeStore` |
| **Dream** `commands/dream.py`, `dream_assimilation.py`, `storage/reflection_job_store.py` | jobs, slices, cursor, runs | schedule, claim, run a slice, verify, decide | knowledge, sources | overlapping ticks, changed sources | no change without a verified source | `Dream` |
| **Post-turn queue** `hook_background.py`, `host_entry/` | request files, activity markers, lock file | dispatch, lock, steal, load, retire, hand over | hooks, detached worker | unordered file operations, kills, stale locks | no request and no wake-up is lost | `HookBackground` |
| **Post-turn receipts** `autonomous/worker.py`, `host_entry/` | receipts of project and session | stage, run, report, wait | queue, worker, waiter | one receipt, several writers | a success that is reported is the request's own | `PostTurn` |
| **Manual batches** `storage/manual_batch_store.py` | manifests and their locks | freeze, bind, stop, retry, complete | ledger | ownership read without locks | a frozen session stays with the person | `ManualBatch` |
| **Archive distillation** `commands/archive_distill.py` | index, receipts, daily ledger | plan, run, verify, repair | capture, ledger, lock | index read before the lock | a verified session is done, and stays so | `ArchiveDistill` |
| **Source cleanup** `processed_source_cleanup.py`, `native_source_cleanup.py` | claimed files, receipts | claim, verify, delete, restore, prune | native files, ledger | crash between any two steps, a host that writes | nothing unread is deleted; claims are settled | `SourceCleanup` |
| **Hard deletion** `data_lifecycle.py` | tombstones, receipts | plan, delete, verify | all stores | a capture at the same time | what was erased stays erased | `Erasure` |
| **Maintenance lock** `maintenance_lock.py` | one file | acquire, inspect, take over, release | every maintenance run | takeover by name | one owner; no lock of the dead | `MaintenanceLock` |
| **Storage migration** `storage/canonical_store.py`, `storage/migration_runner.py` | files, database, runtime state | start, write, stage, validate, activate, roll back | servers | a server between the two authorities | nothing committed is left behind | `StoreMigration` |
| **Session capture** `adapters/`, `commands/session_inventory.py` | native sessions, source rows, renderings | list, read, check, render, save, queue | hosts, transcript ledger, inspection | the host writes while it is read; saving takes three transactions | a finished capture is one version, with its rendering and its job | `NativeCapture` |
| **Scan scheduler** `adapters/scan_scheduler.py`, `commands/ingest.py` | frontier: cursor, turn, retries | plan, read, sweep, commit | capture, transcript ledger | lost updates of the frontier; broken and busy sessions | every session is read again | `SessionScan` |
| **Observation store** `storage/local_verbatim_store.py`, `storage/sqlite_index.py`, `storage/sqlite_vec_index.py`, `search/hybrid_search.py` | payloads; rows, trigram postings, vectors and their sidecar; generations | save, delete, purge, search, rebuild, open, report | capture, erasure, every server that starts | two databases, no common transaction; snapshots that age; locks of failed statements | settled observations are indexed as they are; nothing deleted is shown or left over | `VectorIndex`, `VerbatimStore` |
| **Settings** `config/merge.py`, `config/writer.py`, `commands/config_cmds.py` | a legacy JSON file, a user's and a project's TOML file | load, set, confirm, edit by hand | every process that loads settings | read-change-write of whole files; layers with old keys | the most specific file decides; a set changes one leaf; no background model without consent | `Configuration` |
| **Host hooks** `integration/installer.py` | hook files and scripts of each host | install, force, reconcile, edit | hosts, users, other environments | users' handlers in the same groups; runners that disappear | users keep their handlers; hooked events stay hooked | `HostHooks` |
| **Native events** `host_entry/`, `hook_receipts.py`, `hook_runtime.py` | event locks and receipts | queue a stop, give context, skip | hosts, post-turn queue | repeated and concurrent deliveries, deaths | a stop is queued once; a skipped start has its context | `NativeEvents` |
| MCP transport, CLI, diagnostics, Rust accelerator | | | | | | not modelled |

## How the modules correspond to the code

Every module has one action for each operation, or for each step of an
operation between which another process can run: one SQLite transaction, one
access to a file, one call of a model. Its header says what it abstracts; the
notes below add what a reader of the code will look for.

### The ledger: `DistillLedger`, `JobLifecycle`

`row` is `transcript_sources` (`rev` is the current-revision pointer), `evidence`
the revisions and their chunks, `job` a row of `distill_jobs` with its
`distill_job_chunks`, `frozen` the jobs named in published manual manifests.
Every store method is one `BEGIN IMMEDIATE` transaction, and so one action that
includes all it does: a claim that meets an expired lease repairs the job and
returns nothing (`ClaimRecovers`), an enqueue retires every other revision of
the source, a review claim over a lease that ran out is charged to the budget.
Two writers — the inventory pass and the "unchanged" branch of a capture — read
the source row, leave the transaction and write the whole row back later
(`ReadRow`, `WriteBack`), so the pointer can move back to an older revision.

* The code compares leases and backoffs with the clock. The model keeps the
  results: `live`, `reviewLive` and `waiting` turn false at any moment.
* A claim takes any non-empty set of claimable chunks; the code takes the first
  `limit` of them. Which waiting jobs get the free slots of `rebalance` is any
  choice that keeps the code's counts.
* One pipeline version, one `RecoveryBudget`, and at least one chunk in each
  revision (`LedgerAssumption`).
* Offers, summaries and outcomes are left out; they steer nothing here.

`JobLifecycle` is what the ledger promises: a revision is not queued, open, done
or failed; it is read chunk by chunk, may be charged a bounded number of
recoveries, completes only when all was read and its evidence is there, and its
session is forgotten only after a completion. `DistillLedger` implements it
(`LifecycleSpec`, with the refinement mapping `LifeOf`).

### Preparing and reading: `PrepareDistill`, `Projection`, `Chunking`

`PrepareDistill` follows agents, workers and hooks through
`prepare_session_distill` and `submit`: reserve, retain, claim, check off, defer,
recheck, while the session grows, is reviewed and is cleaned up. Reserving and
retaining are two transactions, as in the code, and the status "reviewing" comes
from an earlier read. `Projection` has the exchanges of a transcript as sequences
of words, the rendering that is built by appending to an older one, the manifest
of what must be read, and the challenge that a verdict of "nothing to remember"
must pass. `Chunking` cuts a text (a sequence of line ends and other characters)
as `transcript_chunking.py` does, at lines or around units.

### The review: `SessionReview`, `Verdicts`, `Admission`, `AssimilationPlan`

`SessionReview` is one completely read job under two workers and an agent, with
leases that run out at any moment, crashes between any two steps and defers by
processes whose lease is gone. The job, the candidates and current knowledge are
three stores; `at` is the step of each process. `Verdicts` says what the two
answers of the model may leave of a session, `Admission` follows one such point
to current knowledge while the repository, the source and the knowledge change:
the other points of the session appear only as far as the checks count them.
`AssimilationPlan` plans all the points of a review, batch by batch, and then
gives the plan to the transaction, which has its own rules.

### Providers: `AppServer`, `HostCli`

`AppServer` is the native server of one executor: what its owner has still to
clean up, the thread and the turn of each call, notices in any order (early, of
other turns, repeated, malformed), usage, retries, and failures at every step.
After a failed close nothing retries the cleanup. `HostCli` is one call of a
host's command line; killing and its containment differ between Windows and
POSIX. A heartbeat that finds the lease lost ends the call and not the process
(`worker.py`: the error is not one of those that `_run` catches on POSIX), and
the property says that this is the only way to an orphan.

### Knowledge and Dream: `KnowledgeStore`, `Dream`

An entry's identifier is its text, so its version is its verification date.
A call reads entries, their sources and digests and commits in one transaction
that compares the digests. `carries` remembers for which facts of the beginning
an entry stands. `Dream` has two ticks that claim a job, work through slices of
the current entries, verify them with a model and apply the decisions, one by one:
the sources are opened (`ValidateSources`), and a transaction follows (`ApplyOne`).
`edited` is a history of the entries that users have changed since a run started.

### The queue and its receipts: `HookBackground`, `PostTurn`

A synchronous hook writes one immutable request file, tries to create the lock
file with `O_EXCL`, and spawns a detached worker when it wins. The worker waits
for a ready session, runs, retires the files it saw, unlinks the lock, looks
again and hands over. Nothing orders these file operations across processes, so
each is an action. A lock turns stale only when no live process that would renew
it is left. Creating the lock and writing its payload are one step. `PostTurn`
follows a request from its staging to its receipt, with the run of the worker,
the guard against re-entry, a waiter, and beside it a second client's request of the
same or another session, or archive batches; `crossed` is a history of the requests
whose receipt was read by another runner and written back with that runner's outcome.

### Stores beside the ledger

`ManualBatch` publishes a manifest inside the transaction that looks for leases;
a claim reads the manifests inside its own. `ArchiveDistill` is a batch from its
reading of the index to its receipt, beside another batch, agents, and a host
that rewrites archives. `SourceCleanup` and `Erasure` go file by file and store by
store with a crash between any two steps; `SourceCleanup` lets the host write at
any time, between a check and the unlink too, and several processes clean at once;
`Erasure` plans the closure of the derived records and runs beside captures and
beside reviews that wait for an answer. `MaintenanceLock` has each access to the
lock file as a step; a file's inode is the run that created it.
`StoreMigration` has servers that choose their authority when they start, and
migrations that stage, validate, activate and roll back.

### Capture: `NativeCapture`, `SessionScan`

`NativeCapture` has one session of any of the eleven kinds of native history,
and two readers of it: the scan (list, read, render, save) and the inspection
(list, stamp, read, render, compare, save). A session is a number of half-lines
of one script, so "torn", "grown" and "the same bytes" can be told apart;
revisions and renderings are such numbers too. The host writes, moves or rebinds
it between any two steps; `persist_session_snapshot` saves revision, rendering
and job in three transactions. Files only grow, no page is cached, and redaction
and tombstones are left to `Erasure`. What the code does beside the property:

* Two readers at once may file a second source for the same session (`OneSource`
  excludes them). A Hermes file is one
  document, so a moved one that grew is a second source for an inspection, while
  the scan finds it by its session.
* Hosts whose rendering parses the file again may save a rendering of a later
  text under the revision that was read; the next capture repairs it.
* The scan saves a file whose last line is torn, an inspection refuses it. The
  scan of some hosts takes sessions by a directory's name or a mention in the
  text, an inspection only by a structured workspace.

`SessionScan` is the bounded scan over all the sessions of a host. A scan reads
its sessions in one step: each is read once, so what the host does to it
meanwhile could as well come before or after. `EverySessionIsInspected` bounds
the wait of one watched session. With a limit of two or more it holds with a
broken session and any incident. With a limit of one — which is what the
automatic callers use — it needs more than the comment in `mark_failed` says,
and the run assumes it (`calm`): nothing fails, and the watched session is not the
latest when a scan begins. Without that, three things keep a session waiting for ever while
others keep changing: after one failure of the only session of the backlog the
retry is filed in the backlog lane, but the turn goes to the recent lane, whose
changes use up the limit each time; a broken session that falls due again and again moves the
cursor back over its successors; and a session that is the latest exactly when
it is the backlog's turn is in neither lane.

### Search observations: `VectorIndex`, `VerbatimStore`

`canon` is the payload of an observation in the canonical database; `row`,
`grams`, `vec` and `vec0` are the full-text row, the trigram postings, the
persisted vector and its row of the sqlite-vec sidecar, all in the index
database. A rendering is a number, and a posting or a vector is known by the
rendering it was made of. Each transaction is an action: a save takes five, a
hard deletion three, a purge three. `held` is the write lock of the index
database where one operation keeps it between two steps: the publication of the
postings looks at the canonical database while it holds it, and a statement that
failed keeps it by mistake. A search takes candidates from one of the indexes and
then reads payloads one at a time. A process that "dies" also stands for one
whose write failed, for instance because the lock was not free for ten seconds.

Nothing in the code orders two operations on one observation, or a deletion
beside something that has read the observation before and will write it (a
listing of a rebuild or of a start, a neighbour query that fills the sidecar).
`raced` turns true when such operations overlap, and most properties speak of
what holds until then: an operation on one observation beside any operations on
others, rebuilds beside saves, and starts after deaths. The first part of
`RepairsHeal` does not ask for it: whatever was spoiled, a rebuild repairs the postings. A purge that
dies after the payload leaves a row that no later purge finds (listings hide it):
`torn` excludes it until the observation is saved again. The encoder, the models'
dimensions, scores and limits are left out.

### Settings, hooks and events: `Configuration`, `HostHooks`, `NativeEvents`

`Configuration` has the legacy file, the user's and the project's as functions
from paths to values: `load_merged_config` with its compatibility rules reads
them one after another, `config set` and quickstart read one, check, and write
it back whole, and people edit them. `word` is the last thing a file's writers
have said of the background use of a model; a write that carries an earlier
"true" along says nothing new. Of a load, `yes` and `no` are what it could rely
on from its beginning to its end. Four settings stand for all: two switches, a
choice and a number that is only read.

`HostHooks` has the user's and the project's hook file of one host, and five
ways to merge it: by single handlers, by scripts, by marked groups, by blocks,
or whole. `present` are the runners that are installed, `wish` what the users
have written beside ours. An installation compares everything, then writes
scripts and file; for Codex it reconciles the project's file afterwards.
`NativeEvents` follows what the hosts call: a stop of Codex goes through the
lock of its event and its receipt, a start of Hermes or Antigravity is skipped
when the receipt names its trigger and the hook files of now. What the code does
beside the properties:

* Settings and hook files are written with `write_text`, which truncates first. A load
  in between sees an empty file, a death leaves one; two writers of one file lose one
  of the changes. After a death in between, or beside a second writer, `raced` is true.
* An empty hook file counts as none in the model; the code refuses an empty
  project file without `--force`.
* After an installation by another runner the handlers of the older one stay beside the
  new ones, and an event is served twice. For stops of Codex the event's lock and
  receipt make up for it.
* Receipts of a start attest to the hook files at the end of the run that writes
  them. A process that dies after its receipt and before its output loses the context of
  that trigger (`SkippedIsGiven` names the case); one that dies after its request
  and before its receipt queues a turn again, which the queue coalesces.

`MCHosts` puts these beside the observation store. The four share no state.

## Runs

Modules that share no state are checked side by side in one run: its `part`
says which of them a behaviour is about, so a run is the sum of its parts and
not their product.

| Run | Checks | Result | What it shows |
|---|---|---|---|
| `ledger_revisions` | `LedgerRevisions.cfg` of `MCDistillLedger` | hold: `ExhaustedIsFailed`, `NoLiveSteal`, `BackoffHolds`, `LifecycleSpec`, `AuthorityIsWhole`, `CaptureIsWhole` | One source that changes revision under an interactive and a background worker: what leases, budget, backoff and final statuses survive when jobs are superseded, resurrected and pruned, that the ledger implements JobLifecycle; and, beside it, the migration of the store from files to a database while servers start, stop and write; beside it, a session of each kind of host that becomes a source while the host writes on, moves or rebinds it. |
| `live` | `Live.cfg` of `MCLive` | hold: `NothingProcessesForever`, `EveryRequestRetired`, `DeadOwnerIsCleared`, `ClaimsAreSettled` | What must happen in the end, whatever dies: every processing job is freed, queued requests of two competing sessions are served and retired, the lock of a dead maintenance run is cleared, and a file claimed for deletion is deleted or gets its name back. |
| `review` | `Review.cfg` of `MCReview` | hold: `CompletionIsBacked`, `PlansApply`, `CompletedIsDone`, `WritesAreOwned`, `ChangesAreVerified` | Two workers and an agent review one job, with crashes, expiring leases, and defers that any of them may ask for at any moment: who may write knowledge, and what a completed job guarantees; the plan they apply is one that the transaction takes; and two Dream ticks recheck what is known, in slices, while entries and sources change. |
| `stores` | `Stores.cfg` of `MCStores` | hold: `ExclusiveUnlessMisfired`, `NoFactLost`, `PruneIsLast`, `ErasureHolds`, `FrozenIsManual`, `NoStartDuringMaintenance`, `NothingStaleApplies`, `NewBytesSurviveAlone`, `NoLostWakeup`, `NothingDropped` | The stores around the ledger, each with its concurrent callers: the maintenance lock, knowledge transactions, the cleanup of a processed source, hard deletion beside capture, manual batches beside workers, and the queue of post-turn requests with three hooks of two sessions, two workers and one kill. |
| `plan_split` | `PlanSplit.cfg` of `MCReview` | violated: `SplitPointsApply` | A candidate that is split into two points is planned and verified, and then refused by the transaction. |
| `dream_slices` | `DreamSlices.cfg` of `MCReview` | violated: `OneSlice` | The claim of a Dream job ages while its slice still works, and a second tick starts another one. |
| `queue` | `Queue.cfg` of `MCQueue` | hold: `NoUnreadReview`, `SelectionIsExclusive`, `SuccessIsOwn`, `VerifiedIsDone`, `RecordsRemain`, `EverySessionIsInspected` | One revision of two chunks and three workers that may die at any point: whether any order of claims, expiries, recoveries and defers loses or repeats a chunk; two sources side by side: manual selections over several jobs, project-wide reconciliation and rebalancing of a queue that needs parking; post-turn requests with their waiters, beside an archive batch of another session or of the same one, or beside a second client, that write the same receipt; and the archive batch itself beside agents, a host that rewrites archives, and deaths; and bounded scans that leave no readable session waiting. |
| `archive_index` | `ArchiveIndex.cfg` of `MCQueue` | violated: `RecordsRemain` | Two archive batches: the second one has read the index before the first one writes it, waits for nothing, takes the lock afterwards and writes the old records back. |
| `services` | `Services.cfg` of `MCServices` | hold: `EvidenceIsWhole`, `ReadingIsWhole`, `ProvidersAreOwned`, `KnowledgeIsEarned` | Agents, workers and hooks that prepare the same session while it grows, is reviewed and cleaned up: what a prepare call may call final evidence; whether a verdict of nothing to remember has seen the revision as it is, however its rendering was pieced together; and how texts are cut; who owns the processes of the model providers, and whose answers are taken; and what a review may admit and write, given what the provider said and what the sources say. |
| `projection_reuse` | `ProjectionReuse.cfg` of `MCServices` | violated: `AppendIsFull` | A message repeated across the end of a captured revision is one exchange for a full parse and two for an appended one. |
| `hosts` | `Hosts.cfg` of `MCHosts` | hold: `SettledIsIndexed`, `ReadsAreCurrent`, `RepairsHeal`, `SettingsHold`, `HostsHold` | What is kept around the ledgers: two observations with two renderings each, saved, deleted, purged, rebuilt, searched and repaired by processes that open the store, one of which may die: what rows, postings and vectors hold when all has settled, what a search may show, and what is repaired; settings that two processes, people and a load read and write in three layered files; hook files that two installations and people change; and stops and starts that hosts deliver twice. |
| `newer_vector` | `NewerVector.cfg` of `MCIndex` | violated: `NewerVectorStays` | A capture persists the vector of a new rendering, and rebuild-vector-index, which had listed the old one, overwrites it. |

*Bounds.* Two revisions are the least that can supersede one another and come
back; two chunks the least that can be read in parts; a budget of 2 lets a job
recover once and then fail, 3 lets it recover twice. Two of every kind of
process race for one thing; where a third is needed (two background readers
beside an agent, two hooks that find a lock of a third) there is a third. Three
writes of a setting (two that race, and one that makes them differ) and three
changes of a host's hooks (an installation, another one, an edit or a removal) are
what `hosts` needs for its cases. One or
two crashes or failing operations are what the protocols must survive, one at a
time. Each property has a mutant of the code, listed in `PROJECT.json`, that TLC
finds to break it under the run's own bounds: the bounds are large enough for
the case to happen. Properties that a proof covers hold for all bounds.

*Fairness* (`Live.cfg`). The ledger: time passes (chunk leases, which the code
never renews, run out; backoffs end) and agents keep waking the project. Nothing
is assumed of workers: they may stop anywhere. The queue: a process that is not
killed goes on, a run ends (a provider that never answers is outside of the
model), and idle windows end. The lock: a guarded process that asks goes on. The
cleanup: a cleaner that has not crashed goes on; a crashed one is started again
by the replay that the fairness of its step stands for. User turns, requests and
crashes are never assumed.

Deadlock is checked nowhere: the models have calls that are over, bounds that
are used up, and requests that are served.

## Findings

The runs that expect a violation check one statement of the repository each.

1. `plan_split` (`SplitPointsApply`, `src/harness_mem/commands/separated_assimilation.py:754`) — apply_separated_assimilation compares a candidate's one recorded scope proof with its last point, and expects the truths of that point for every point of the candidate (src/harness_mem/commands/separated_assimilation.py:837-858, 899), so a candidate that was split into a committing point and another one is refused. src/harness_mem/mcp/distill_handlers.py:2085 says: 'One extracted candidate may legitimately split into several current knowledge items or several point decisions', and src/harness_mem/autonomous/worker.py:1967: 'A broad candidate can return multiple points with distinct dispositions and targets.' The run shows such a plan, accepted by the planner's own validation and by the final scope check, that the transaction refuses.
2. `dream_slices` (`OneSlice`, `src/harness_mem/storage/reflection_job_store.py:77`) — A processing Dream job counts as abandoned once its updated_at is max_runtime (120 s) old, and nothing renews it while the slice works; the watchdog ends a slice only 300 s after its deadline (src/harness_mem/commands/dream.py:2060). src/harness_mem/storage/reflection_job_store.py:87 says the claim is there 'so dream auto ticks cannot both start a dream run'. The run shows a slice that has passed its deadline and is still at work when a second tick claims the job and works on the same runs.
3. `archive_index` (`RecordsRemain`, `src/harness_mem/commands/archive_distill.py:671`) — run_archive_distill_batch reads the terminal index before it takes the maintenance lock and writes it as a whole at the end. src/harness_mem/commands/archive_distill.py:673-674 says: 'Scope the read view, not the shared index: deleted sources still have stored attribution, and records for other projects must remain intact.' The run shows two batches: the second one reads the index, the first one takes the lock, finishes and writes its records, and the second one then gets the lock and writes the index without them.
4. `projection_reuse` (`AppendIsFull`, `src/harness_mem/mcp/distill_projection.py:372`) — _reuse_append_projection parses the appended tail on its own, so a message that repeats the last one of the older revision is not recognised as a duplicate, while _parse_exchanges on the whole drops it. src/code/tests/test_distill_projection.py:190 asserts of an append-aware build: 'assert content == expected', where expected is the full build. The run shows a user who says the same thing again after a capture: the appended projection has two exchanges, a full parse one. The manifest then demands an exchange that render_distill_exchange_windows, which parses in full, does not have, and a zero-candidate challenge of that revision is always refused.
5. `newer_vector` (`NewerVectorStays`, `src/harness_mem/commands/maintenance.py:84`) — rebuild-vector-index lists the observations, encodes all entries of the other store, and only then replace_embeddings_batch takes the fingerprint of the vectors that its publication compares. src/docs/roadmap/0.9.8-index-context.md:59 says that publish transactions revalidate fingerprints, so 'concurrent rebuilds cannot publish another worker's rows or overwrite a newer target embedding'. The run shows a capture that persists the vector of a newer rendering in that interval, and a publication that replaces it by the vector of the older one.

Other departures that the models contain, with the repository's statement, and that the
properties exclude by a hypothesis or by their bounds:

* Two clients of one project: `record_post_turn_maintenance_outcome` reads the receipt,
  finds it its own, and `_write_receipt` reads it again and merges into the receipt of
  another client's request, whose waiter then reports a success that is not its own. A
  batch that finishes the same session does the same to a request whose Dream failed
  (`PostTurn`, `crossed`; "Close the same natural request").
* The host keeps the session's file open and appends between the last hash check of all
  claims and the unlink, or creates the file between the look at the free name and the
  rename back: those bytes are lost (`SourceCleanup`, `late`).
* A companion file that a cleaner claimed and left when it died is not planned again: the
  next plan lists companions under their own names only, and the claimed one stays
  (`SourceCleanup`, `ClaimSide`; `ClaimsAreSettled` speaks of the session's own file).
* A review that has read a session and waits for the model's answer writes candidates and
  knowledge after an erasure of the session has been read back as successful
  (`Erasure`, `EndReview`, `raced`).
* `prepare_session_distill(defer_job_id=…)` puts off any job, whoever reviews it, and so
  does a failing worker whose lease has gone to somebody else: the review that is between
  its preflight and its write then changes knowledge without an owner (`SessionReview`,
  `DeferOnRequest`, `strayed`).
* Dream opens the sources of an entry before the transaction that changes it, and the
  transaction compares entries only: a source that changes in between does not stop the
  change (`Dream`, `ValidateSources`, `slipped`).
* An archive batch writes the day's ledger back as it was before it took the lock, like the
  index: what another batch has added is lost (`ArchiveDistill`, `WriteLedger`; no property
  reads the ledger).
* An erased record whose legacy file is still there is imported by the next migration
  (`StoreMigration`, an erasure after the activation).
* A start that overlaps a hard deletion has listed the observation before, finds no row
  and saves it again (`VerbatimStore`, `raced`; `0.9.8-index-context.md`: "deleted entries
  cannot reappear after rebuild or restart").
* A start looks for missing rows only when the index has fewer rows than there are live
  payloads, but it counts the rows of purged observations too. After a save that died
  before its row, beside a purged observation, the row is never repaired; the postings
  are (`RepairsHeal` speaks of the postings only).
* `upsert_row` of the sidecar catches a refused statement and neither commits nor rolls
  back: the connection keeps the write lock until its next write (`held`).
* A project file that says `semantic.execution.restricted = false` beside
  `distill.autonomous.enabled = true` keeps the background off: `config set` of the
  latter, confirmed, reports success, and the next load still says no (`LoadIsLayered`
  and `SetIsLocal` name the case).
* With `--force`, the merge of Antigravity's project file drops a user's handler that
  stands in a group with one of ours (`Rest`, style "marked"), although
  `ide-hook-adapter-matrix.md` says that unrelated entries remain (`Finish` takes the
  handlers that a forced installation drops for given up).

## Proofs

**Ledger** (`DistillLedgerProofs`). `LedgerInv` is inductive and is proved for any
finite or infinite set of sources, revisions, chunks and workers and any positive
budget, from `LedgerAssumption` alone. Its parts:

* `TypeOK`;
* `JobSound` of every job: what the rows of one job always satisfy together. The
  properties alone are not inductive: that a job under review has been read
  needs to be known also for jobs that *hold a review lease* (a stale job may
  keep one), and for budgets to mean "failed" every step that spends one has to
  be seen. Backoff needs that a waiting job holds no review lease and is
  `retryable` or `stale`, and that it either has a retryable chunk or no chunk
  at work, so that no checkpoint can complete it;
* `Linked`: a job has evidence, and its chunks are gone exactly when that was pruned;
* `FrozenStays`, `FrozenIsExclusive`: a frozen job keeps its manual flag,
  which is what turns background workers away.

Each transformation of a job (`Recover`, `Reconciled`, `Deferred`, …) has a lemma
that it preserves `JobSound`; each action then has one step in
`LedgerInvariance`. The state properties `NoUnreadReview`, `ReviewLeaseScope`,
`ExhaustedIsFailed`, `FrozenIsExclusive`, and the action properties
`FinalSticks`, `ReadSticks`, `BackoffHolds`, `NoLiveSteal` follow.

`LifecycleImplemented` proves that the ledger implements `JobLifecycle`. Each
rewriting lemma also says which move of the lifecycle the rewriting is, if any
(`Advances`); `LifeMoves` turns that into a move of the abstract record, with
`Linked` supplying that what is read or completed is still kept; and `WorkStep`
collects the jobs of one transaction into one abstract step. Pruning is the one
step that is a `Forget`.

**Capture** (`DistillLedgerProofs`). The predicates of `CaptureInv` take the host, the
session and what is saved as parameters, so that a step is a change of arguments.
A rendering is that of the text that was read or of a later one, and then that text
is no longer the last (`Fits`); files only grow, so a rendering that names the
revision the host still holds is the right one (`CurrentRenders`). An inspection
whose stamps still hold has read the session as it is (`Carries`). A reader that was
alone so far carries what the host has and has saved that (`IsAlone`), and until two
readers cross there is one source, no newer than what a reader carries
(`OneAtATime`), which is where a reading goes (`KeyIs`), for what Codex
shows of a longer text is no less (`CodexRenderedOn`). All steps are of three kinds: a reader's own
(`OwnSteps`), one that saves (`SavingSteps`), one from outside (`OutsideSteps`).
`CaptureAssumption`: a script of known speakers, and starts within it. The proof does
not need two exceptions that the property had made: `NothingStaleIsFinal` holds while
somebody reads too, and `OneSource` also when a file moves while it is read. The
properties now say so, and the run checks them.

**Queue** (`LockProofs`). `HookInv` is inductive for any number of
requests, sessions, workers and faults. `LockSound` says that until the first
fault the lock exists exactly when it has a holder, carries the holder's
generation and is stale for nobody; `SnapSound` says what a worker may retire:
what it saw was written before, and by the time it finishes has been attempted or
cancelled. `NoLostWakeup` is inductive only with `LockSound`: a dispatcher that
finds the lock taken leaves because the holder has yet to look at the queue
again. `NothingDropped` uses only `TypeOK` and `SnapSound`, which is why it
survives kills, stolen locks and two workers; `OneWorkerWithoutFaults` needs
`LockSound`, and with it the absence of faults: after a kill two hooks can each
unlink the dead lock, the slower one a fresh one.

**Maintenance lock** (`LockProofs`). That two runs never work at once is
not inductive: the lock is a file that anyone may unlink, so what matters is whose
file is there. `LockInv` says that until a removal misfires the file belongs to
the run at work (`OwnerIsNamed`), that its text tells how far that run has come
(`Told`), and that who is about to remove a file has read one that its run has
left (`Left`). `LockExclusion` is then that two owners would have to be named by
one file, and `LockKeepsWorkOut` that a guarded process starts nothing of what it
asked for. Assumed is only that runs are not guarded processes
(`MaintenanceAssumption`). A misfired removal (a dead run's lock unlinked when it
has been replaced in between) does break both; the property says so.

**Archive batches** (`LockProofs`). The index that batches share is rewritten whole
from a batch's own copy, so what it says is sound only if every copy is: `ArchiveInv`
says of the index and of each copy that what is called verified is settled
(`EntrySound`), and of each batch that it has one outcome per session and that
whatever passed its checks is settled (`OutcomesSound`). It holds because what is
settled stays so (`SettledStays`): a done job is never reopened (`WorldMoves`).
`VerifiedStaysDone` follows for any number of batches. `RecordsRemainAlone` has one
more hypothesis, `Alone`: one command line. Two lose each other's records, which the
run `archive_index` shows; with one, its batch has every verified record at every
write (`AllRemember`), which is inductive only with `ArchiveInv`: what a write puts
in the index is a choice among the outcomes of a session, and there is only one.

**Receipts** (`LockProofs`). A receipt is read, merged with and replaced by whoever
has something to report, so what a waiter finds may be put together from several
runners. `TurnInv` therefore says of every receipt, the one on disk and each that a
runner has read and not yet written back, what it may claim of a request
(`Sound`): success for the request's session means that the job is complete, and a
terminal Dream under the request's generation that Dream has ended (`DreamOver`), and
not badly where the receipt reports success. A write (`Replacing`) is then the merge
of two sound receipts, kind by kind (`MergedIs`). There is no
hypothesis on the clients: any number of them and of archives write side by side. What
would make a receipt unsound is on record in `crossed`, by the step that does it
(`Crosses`): a write of Dream's outcome over a receipt of another request, or of the
end of a job of the same session. `ReceiptsFit` and `SuccessIsTheWaitersOwn` speak of
the requests that are not in it; of those that are the property fails, in the code as
in the model (see the end of the findings).

**Cleanup** (`SourceCleanupProofs`). `PruneInv` relates the place of every cleaner
to the files: past the deletion the processed content is gone under both names
(`GoneAsClaimed`, with `OneCopy`: it exists once), and before the pruning the
derived records are gone. With it, any number of cleaners that crash, fail and
replay one another's work leave the ledger's evidence for last. `AloneInv` is for
`NewBytesSurviveAlone`: the cleaner that deletes the claim has found the processed
content in it, which stays so only while nobody else is at work, but for what the host
writes after that look: such bytes are marked (`late`), and the theorem says that no
others are taken.

**Erasure** (`SourceCleanupProofs`). That the source row and the jobs stay within
what the ledger holds (`PointersHold`) is inductive with the types: the source row
falls back to the last revision that is left, which exists (`NewestIsHeld`). That an
erased session stays erased is not. While no capture has overlapped and none has
failed (`Orderly`), `EraseInv` says whose the running receipt is and that nobody
captures beside it (`ReceiptsTell`; a review that has looked and not written counts at
the read-back only), that the observation renders what is kept or goes
with the plan (`ObservationIsBacked`), and that what a record names exists or is what
the plan deletes (`RecordsAreBacked`). So a second plan that finds nothing leaves no
record that names anything gone (`CleanResidue`), and when a whole session is gone
there is none at all (`NothingIsLeft`): a record of the least rank would name nothing.
This last step has a hypothesis, `Rooted`: every record names a job, the observation
or another record, or no plan could find it, and references have no cycle, because a
record is made after what it names.

**Review** (`SessionReviewProofs`). `ReviewInv` is inductive for any workers, agents
and candidates. `CommitterOwns` is the heart: who commits has the live lease, or the
job was put off while somebody was between the preflight and the write (`strayed`) and
has no owner at all: `defer` asks for neither owner nor lease, whether a failing worker
calls it or an agent's `defer_job_id`; `OneCommitter` alone does not survive an expiry.
`CompletionIsBacked` needs three more: what is done after the completion finds the job completed with the
plan that was stored, the candidates of a plan exist for as long as somebody may
need them, and what the plan adds is committed or still to do. `KnowledgeIsOwned`
is an action property: knowledge and candidates change by who owns the review, by
the recovery of a completed job, or while a job waits that was deferred under a commit (`strayed`).

**Plans** (`SessionReviewProofs`). A plan is decided in batches, the collisions between
them in a second level of batches, and each level is checked as a whole. `PlanInv`
says of a level that it has decided whom it has asked and used nothing but what it
was offered (`Asks`); the inner level is offered what is left to the batch of the
outer one, so a decision that is consistent inside passes the same check outside
(`TakenUp`). What makes the planner never refuse its own work are two lemmas on
answers: when the colliding candidates have been decided again, each with at most
one use of a contested truth, no collision is left (`ResolvedIsClear`), and none is
when an agent's colliding proposals are deferred (`DeferredIsClear`). That such a
plan applies is `SingleIsApproved`: a candidate that is not split has its one
committing move on record. It holds for any truths, batch size and answers;
`PlanAssumption` says that candidates are finitely many.

**Manual batches** (`InteractiveProofs`). The types and `FrozenIsManual` together are
inductive. The argument is about pairs of a manifest and a job: a step that
rewrites a job gives a worker no lease on what a manifest owns (`JobsMove`), and a
step that rewrites a manifest names no revision that a worker holds
(`ManifestsMove`); every action is one of the two. `BatchAssumption` says that
workers are neither the agent nor nobody, and that bounds are counts.

**Preparation** (`InteractiveProofs`). `PrepareInv` says where a call stands, step by
step, by the job it has (`Stands`): who has seen a job under review has one whose
chunks are all read, who checks chunks off has given the job the challenge version
or found it completed, an agent that reads has marked the job and kept its source.
What makes it inductive is that jobs only move one way (`Moves`: what is read,
marked, kept, versioned or completed stays so, whoever moves it), so that a caller
stands where it stood while others, reviews and captures move jobs (`StandsStill`);
and `WellRead`, by which nobody leases a chunk that has been read. Every action is
then a move of jobs and a step of one call. `PrepareAssumption`: agents and hooks are
callers, and different ones.

**Admission** (`InteractiveProofs`). What is written has to be earned by a verdict that
was given many steps earlier, so `AdmitInv` carries what the verdict said: a row, and
the candidate that it becomes, is called verified only if the verdict supports it in
all its parts and each is durable (`RowSound`, `CandidateSound`; `JudgedSound` is the
step that decides this, and `OneScope` the reading of the parts). Every
revalidation may only make an outcome worse (`RevalidatedSound`), with one exception:
a candidate that a verdict found not applicable can come out verified once its
references are intact. That it is nevertheless not written needs that such a row is
marked `session_only`, which `Eligible` excludes. The sources may change at any time;
what is written rests on them because the last validation and the writing are one
step (`EligibleIsEarned`), and that the plan is the one that was proved is the comparison
in that step. (In the code they are one call, which reads the references once more
before each write and has the target compared inside it; an edit of a file between
that reading and the write is not modelled.) `AdmissionAssumption`: versions are counted, from one. The model keeps
the rows of an answer by their places in it, since a filtered sequence is
a fold that the provers cannot unfold.

**Knowledge** (`KnowledgeStoreProofs`). A caller reads a version, then the digest of
the entry, checks what it has read and writes. That it writes over the version it
verified is not inductive: between the two reads the entry may move on.
`Verified` says what holds instead: the digest is that of the version, or the entry
has moved on, and then it has moved to a version that never comes back
(`NeverAgain`, from `VersionsWritten`), so the comparison at the end fails. This
is also why a decision is applied once (`StaleChangesNothing`), and with
`GoneIsEmpty` why no fact is lost by two retirements, a change and crashes that race
(`FactsSurvive`).

**Migration** (`StoreMigrationProofs`). `StoreInv` follows a migration through its
copies: what is staged has every row that the database has had all along
(`StagedKeeps`) and, once validated, what the files had then (`StagedCovers`); so
the activation takes nothing away. For the rollback `CanBePutBack` says of each
row that the snapshot is good for it, or that a server has written it since, in
which case the database no longer equals what was staged and nothing is put back.
With `NothingLeftBehind` and `CommittedStays` this gives `AuthorityIsWhole`. The
steps are first sorted into eleven kinds (`StoreMoves`), each with a lemma on the
fields that it changes. `StoreAssumption`: migrations are numbered, and at least
one write is allowed.

**Dream** (`DreamProofs`). A run exists in copies: the ledger's, and one in every
slice that works on it, and with overlapping slices they differ. `DreamInv` says of
each copy on its own that it is `Sound`: an entry whose group is done is open in
this copy, or dealt with; and an answer it keeps is one that the model gave
(`vouched`). `Follows` adds the group at hand, and `Informed` what a slice knows of
an entry: its source is that of what was there, and its answer is about this text
and source. All of it survives what others do to the entries (`WorldMoves`: what is
gone stays gone, and a user's change of an entry is on record in `edited`), so any
step of a slice is a sound copy stored, or none, and a tick that becomes a `Good` one
(`TickSteps`). `CompletedRunsAreDone` follows from the stored copies;
`ChangesRestOnAnswers` from `Informed`, the validation of the sources before the change
(`Looked`: what it found still holds at the transaction, or the source is in `slipped`),
the comparison of the entries in the transaction, and
the first of the supported entries that say the same (`KeeperIsThere`, with
`FirstThere`: the one place where an induction is needed, and well-foundedness of
`<` supplies it).

The attempt first showed that `CompletedIsDone`, as it stood, was true only for the
bounds of the run: a source goes missing, the entry is held for review; the user
changes the entry, which ends the review; the run is continued and completed with
nothing done about it. The property now allows for that (`edited`), which the code
answers with a new run: the change makes the project active.

## Only model-checked

* Liveness (`Live.cfg`, `EverySessionIsInspected`): fairness and ENABLED are out
  of the prover's reach.
* The violations: each is a behaviour that TLC finds.
* `SelectionIsExclusive` (`MCQueue`) is `FrozenIsExclusive` of the ledger
  with two sources under other names (`ManualSelectionIsExclusive`).
* The observation store and its indexes (`SettledIsIndexed`, `ReadsAreCurrent`,
  `RepairsHeal`): `raced` and `torn` relate operations to what they have overlapped, and
  an inductive invariant would have to say it for every pair of seven kinds of operation.
* Settings, hooks and events (`SettingsHold`, `HostsHold`): they compare merged trees
  and filtered sequences of groups, and what `FlattenSeq` and `SelectSeq` compute for
  every sequence needs an induction over data.
* Two properties of the compositions in `MCServices`: `ProvidersAreOwned` runs through
  calls and notices in sequences, and `ReadingIsWhole` compares folds over chunk lists:
  what a fold computes for every list needs an induction over data, which is out of the
  prover's reach.

No module uses a RECURSIVE operator: sequences are folded with the community
modules.

## Not modelled, and why

* MCP transport, argument handling of the CLI, diagnostics, support bundles and
  qualification probes: no state of their own, or reports on it.
* The Rust crate is an accelerator for pure functions.
* Wording, prompts, layout and scores, wherever a property does not depend on them.

What single modules leave out is said in their headers and in the notes of
`components` in `PROJECT.json`. What a reader may miss most:

* Ledger: completion receipts; a project-wide wake charges a recovery to a healthy
  interactive job between two reads, and the last checkpoint of a superseded job
  moves it from `stale` to `reviewing` (`OnlyExpiryIsCharged` and `StaleSticks`
  state the contrary and are not checked); a revision without chunks never
  advances; the clock is read before the transaction.
* `SourceCleanup`: the privacy mode of the native cleanup; the retry sweep
  (`retry_retained_source_cleanups`), which nothing calls.
* `SessionReview`: the replay of a completed job whose knowledge is missing.
* `Admission`: a person's own review of a candidate, the validation of single items.
* `Dream`: runs by hand, reviews that fall due after thirty days, receipts.
* `PostTurn`: retention in the same run (duplicate stops of Codex are in `NativeEvents`).
* `StoreMigration`: two migrations at once, exports of a rollback, backups.
* `VerbatimStore`: other records in the same index; the window in which a start
  finds the store in files; a hard deletion's flush of the write-ahead log.
* `HostHooks`: Cursor and Grok, which merge like others here; MCP servers, rules and
  skills, which quickstart also writes; the runner's probe.
* `NativeEvents`: how the context is made, and what a host does with it.
