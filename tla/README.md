# SINSUNG G2B vNext: specifications, model checking and proofs

This directory specifies the stateful parts of *SINSUNG G2B vNext* (release 4.1.307): a
FastAPI web process that, inside one 256 MiB container, schedules disposable
child processes which collect Korean procurement data ("shopping") and LOFIN
budget data page by page into PostgreSQL.

- `tlc -config X.cfg M.tla` checks one instance; the runs are listed below.
- `tlapm M.tla` checks the proofs of a module ending in `Proofs`.
- A definition `X_Bug` is a plausible mistake in `X`. No action uses it. Put in
  the place of `X` it breaks the property that is meant to catch the mistake.
- Sections 2 to 9 are the specifications and their runs, 10 the disagreements met, 11
  what is proved, 12 what comes next, 13 what is left out.

## 1. The system

| Component | State | Operations | Hard part | Section |
|---|---|---|---|---|
| Paged collection of a shopping scope (`vnext_collection.py`, `shopping_store_v41.py`) | checkpoint row, page and item receipts, shopping records | `collect_pages`: look up, verify, claim, fetch, commit page, finish, fail | crashes between page transactions, a source that changes while it is read, collectors that overlap | 2 |
| Isolated heavy worker (`vnext_clean_app.py` 892-2072) | the child slot, the queue, the supervisor thread, the run state of each kind | request, queue, admit, launch, publish, wait, signal, reap, promote | one slot, many threads, two locks, probes between them, unreliable waits | 3 |
| Automatic scheduler (`vnext_clean_app.py` 4282-4772) | wake event, two revisions, stagger slot, pending key wakes | run a cycle, wait, explicit wake, terminal wake | an explicit wake must give exactly one more cycle | 4 |
| Paged collection of budgets (`budget_pg_collection.py`, `budget_pg_store.py`) | the same three as shopping, plus observations and current states | `collect_pages`, `reconcile_complete_fiscal_year` | a failure handler outside the page transaction, receipts cleared before the claim | 5 |
| Start-up (`main.py`, `v41_fresh_start.py`, `initialize_backend`) | marker, schemas and tables, ready and initialising flags | import, provision, initialise, verify, publish | half-made storage, storage of another origin, several initialisers | 6 |
| Forward collection of days (`shopping_recent_vnext.py`) | day flags and cursors in settings | yesterday first, one recent refresh, ascending backlog, rechecks | flags against completed scopes, the day budget, stuck days | 6 |
| Cycle of a source (`_run_recent_collection_once_impl`, `budget_vnext.py`) | scopes of four budget layers, quota of the day, run states | precheck, five request contexts, snapshot choice, region partitions, history, maintenance | shares of one quota, states combined from layers, abandoned snapshots | 6 |
| HTTP client and daily quota (`vnext_http.py`, `lofin_vnext_http.py`, `vnext_source_guard.py`) | counter of the day, request contexts and their records | reserve, send, retry, parse, attest | several processes, midnight, rows lost in an odd envelope | 7 |
| No-progress gate, idle recovery (`g2b_dynamic_source_budget.py`, `g2b_idle_memory_recovery.py`) | a durable record per source, launch tokens | install, admit, reserve, judge an exit, operator retry, trim | survives restarts; must neither loop nor lock for ever | 7 |
| Result snapshots (`result_snapshot_vnext.py`, `scripts/local_collector.py`) | local lock and database, upload, serving tables | collect, purge, build, push, import, answer | kills and timeouts on both sides | 7 |
| Stored budget rows (`budget_pg_store.py`, `classification_vnext.py`, `budget_projection_vnext.py`) | observations, current rows, project rows, categories, receipts | preserve, repair names, classify, purge, prune, list, sum up | work on rows read earlier, purge in batches | 8 |
| Stored shopping rows (`shopping_store_v41.py`, `shopping_vnext.py`) | records with date, category and active flag | scan, replay, backfill, reconcile, purge | scopes that overlap on a day, a retention of many transactions | 8 |
| Match engine (`budget_shopping_match_*.py`, `budget_match_backfill_vnext.py`) | a run per year: projects, evidence, verified or not | read, assign, save, backfill, publish patterns | an assignment made page by page, samples against populations | 8 |
| Status page (`collection_monitor_vnext.py`, `budget_collection_status_vnext.py`) | a cache of budget rows | four readings, one page | readings of different moments, a bounded read | 9 |
| Leases, memory guard | advisory locks; cgroup figures | acquire, admit | seen through those who rely on them | 2, 3, 7 |
| Legacy pipelines, linking of texts, schema, deployment scripts, other pages | none of their own | queries, rendering, one-shot jobs | none that a state machine shows | 13 |

How they interact. The web process never collects. A request (an HTTP handler or
the automatic scheduler) asks the *heavy worker* for a source; at most one child
runs, others wait in a queue, and a supervisor thread reaps the child, publishes
its outcome and promotes the next one. Before a source child is launched the
*no-progress gate* admits it and reserves a token, and it judges its exit. The child takes the *advisory lease* of its
source and runs one *cycle*: the shopping cycle asks the *forward schedule* which days to
collect, the budget cycle chooses its scopes itself, and both run *paged
collection* for each; every request is charged to the *quota*, and every page is one
transaction. After the collection the cycle repairs, classifies and purges the *stored
rows*. The *match engine*, a child of the same slot, derives evidence from both stores. The
*scheduler* waits until slot, queue and supervisor are all empty, then sleeps until a
deadline or a wake. A local collector may run the same code and push a *snapshot* to a
server that only serves. The *status page* reads what all of them write.

`PROJECT.json` lists every component with its status and what is left out of it, and every
hazard with the properties that cover it.

## 2. Paged collection of one shopping scope

Modules `PageCollection`, `ScopeIngestion` (what the collection promises),
`MCPageCollection` (instances), `PageCollectionProofs`.

State and code: `cp` is the `collection_checkpoints` row (`cursor_value` is the
generation, completion reason and compact marker), `receipts` are
`vnext_collection_pages` together with their `vnext_collection_items`, `records` are
`shopping_records` with their active flag. Each process has a program counter and the
local variables of `collect_pages` (`observed`, `committed`, `replay_scope`,
`full_page_seen`, the page in hand). Every database transaction is two steps, one that
reads and compares and one that writes and commits, because in production
`BEGIN IMMEDIATE` is translated to nothing (`db.py:238`) and the `SELECT` takes no row
lock; `Serial` and `Exclusive` say what closes the gap (SQLite's writer lock, or the
source's advisory lease).

Abstractions. Writes of a transaction become visible at its commit, all at once. A
page with its items is one receipt; a payload is a digest; the digest of the compact
marker is represented by the set of receipts it digests. `reconcile_complete_scope`
runs inside the transaction of the last page, as in the code. Row validation errors, a
changed page size and a changed contract raise before anything is written and are
stutters. The source is settled (it pages a fixed sequence) or disturbed (it answers
any rows and total within the bounds); disturbances, failures, crashes and explicit
refreshes share the budget `MaxUpsets`.

Properties: `ReceiptChain` (receipts are exactly the pages before the checkpoint and
hold exactly the rows it counts), `WriterMeetsVerifier` (the verifier of the next
process accepts what the page loop wrote), `CompleteIsCovered`,
`DeactivationIsProven` (a record is deactivated only by a scan that covered the scope
and did not see it), `EventuallyComplete`, and refinement of
`ScopeIngestion`: a scope is opened, filled and sealed; sealed means that as many rows
are held as were announced.

| Run | Instance | Result |
|---|---|---|
| `page_lease` | 1 process, which is what the lease admits, restarted at will; 3 keys, 2 payloads, page sizes 1 and 2, 2 disturbances | all hold, refinement and completion included |
| `page_race` | 2 processes without lease, PostgreSQL interleaving | completion and deactivation are still safe |

Bounds. Three rows in pages of two give a full page and a short one, the smallest scope
in which every rule for the end of a scope differs; two processes are what overlap
needs; each disturbance can be any of bad total, overlap, short page, failure, crash,
explicit refresh, so two of them make every pair; generations
are bounded so that each disturbance can start one.

Fairness: weak fairness of one attempt after another (the scheduler calls the collector
again with `resume=True`, see `_run_low_memory_automatic_cycle`); nothing is assumed of
disturbances except that there are finitely many.

What `page_race` shows: the comparison at `vnext_collection.py:569` and the unconditional
upsert that follows are two statements under READ COMMITTED, and a second collector of the
scope, which the lease normally excludes, can move its checkpoint back. The cost is a
rescan: no completed scope is wrong and nothing is deactivated wrongly. The budget collector
allows the same move where a comment of the code rules it out (section 10).

### Proofs

`PageCollectionProofs` proves, for every set of processes, rows, totals and bounds:

- `TypeCorrect`: `Spec => []TypeOK`.
- `ReceiptChainHolds`: if `Serial` or `Exclusive`, `Spec => []ReceiptChain`.

`ReceiptChain` is not inductive. `ChainInv` adds what makes it so: `Alone` (at most one
process is inside a transaction, or at work at all, depending on the constant), `Drawn`
(every generation in use has been drawn, so a new one has no receipts), `Claims` (what a
process believes it has committed agrees with the table whenever its comparison would
succeed), `Compared` (between its comparison and its write the checkpoint is what it
compared), `Absent` and `Markers` (the states without checkpoint, and with a compacted
one). `TypeOK` strengthened to typed locals is the first conjunct. The proof has one lemma per action. The
assumptions are the named `ASSUME`s of `PageCollection`; all instances satisfy them and
TLC evaluates them. Without `Serial` or `Exclusive` the theorem is false.

The second half of the module goes on from there, again for every value of the constants and
with `Serial` or `Exclusive`: `WriterMeetsVerifierHolds`, `CompleteIsCoveredHolds`,
`DeactivationIsProvenHolds` and `RefinesIngestionHolds`. The inductive invariant
`EvidenceInv` is `ChainInv` and

- `Forward`: the checkpoint of a generation only moves to later pages, and one page number of
  it means one set of counters, whoever remembers it. The comparison before a write looks at
  the page and not at all counters; this is why it is enough.
- `Opening`: a generation is opened at zero or resumed with the counters that were looked up,
  without an end; a compacted scope is not verified again.
- `Totals`, `Checked`, `FullSeen`: a total is positive or unknown; a page without problem passed
  the tests; `full_page_seen` says what the stored receipts say.
- `WriterMeetsVerifier` itself, and that the receipts are finitely many.

`Kinds` reduces the steps to what they do to the tables: nothing, open a generation
(`Begins`), rewrite the status of the same scan (`Rewrites`), drop the receipts of a complete
scope (`Compacts`) or store a page (`Stores`). `ProofExtends` is the heart: one more receipt that
passed the tests turns the verifier's proof of the old checkpoint into one of the new, tests of
order, announced totals and end of scope included. The other three theorems follow:
`ProvenIsComplete` reads coverage off the verifier's proof, only `Stores` deactivates, and
`Begins` maps to `Open`, `Stores` to `Gather`, everything else to a stutter. Without
lease, `CompleteIsCovered` and `DeactivationIsProven` are model-checked only (`page_race`):
`Compared` is then false and the argument breaks at its root.

## 3. The isolated heavy worker

Modules `HeavyWorker`, `MCHeavyWorker`, `HeavyWorkerProofs`.

State and code: `slot` is `_ISOLATED_HEAVY_PROCESS` with its kind, `pending` the queue,
`launchLock` the holder of `_ISOLATED_HEAVY_LAUNCH_LOCK`, `status` the published run
state of each kind, `sup`, `job` and `unsure` the supervisor thread with its local
variables, `at` and `call` the callers. `child` is the operating system's view. One action
is one critical section of `_ISOLATED_HEAVY_LOCK` or the code between two of them, so
every window in which another thread can step in is there. Callers request a source
(`schedule_manual_collection`, with operator retry only if they are `Operators`) or match
(`schedule_match_rollover`); anybody polls the status, which also repairs.

Abstractions. Admission and the durable launch reservation answer yes or no. A child runs
and exits with code 0 or not; the table of exit codes is reduced to complete, memory hold
and other. Time is a cooldown that is running or not; the five seconds between two
attempts to attach a supervisor appear as an attempt that fails. Faults (a wait that
fails, a thread that does not start, an exception nobody catches) are bounded by
`MaxFaults`, children by `MaxGens`.

Properties: `OneChild`, `NoDoubleWork`, `WaitingIsShown` (a source shown QUEUED is one that
somebody will start, and no late hold covers a running or queued source), `CompleteIsTrue`,
`SlotHandedOver`, `SignalsSpaced`, and under fairness
`SchedulerProceeds`: slot, queue and supervisor, which the scheduler polls, are all
empty again some time later.

| Run | Instance | Result |
|---|---|---|
| `heavy_slot` | 2 callers, 2 sources and match, 2 children, no faults | one child, one place per source, no stale hold |
| `heavy_reap` | 1 caller, 2 sources and match, 2 children, 1 fault | exits are confirmed before the slot is reused or COMPLETE is shown; slot, queue and supervisor become empty again |

Bounds. Two callers and the supervisor are three threads on two locks; two children let
one end and another be launched between the pop of a waiting source and its promotion.
`heavy_reap` uses one caller, without operator retry, because others only add requests and
refusals, which `heavy_slot` has; the supervisor that
dies while it promotes needs two sources in the queue behind match, one child to hold the
slot and one to be promoted.

Fairness: threads that can run do run (`WF` of the supervisor, of each caller inside a
request, of a status poll: the scheduler polls every second), children end (the memory
guard and the source limits see to it), and a supervisor waiting for the launch lock is
not passed over for ever (`SF` of `SupAdmit`: callers hold it for seconds and come from
people and one scheduler thread). Nobody is obliged to request anything.

Two states that remain wrong until the next run of their kind were met on the way; neither
starts or loses a child. Between the supervisor's publication and its release of the slot, a
caller that was slow to publish finds its kind in the slot and shows RUNNING over the outcome
(the match caller does not look at the slot at all). And the reconciliation of a dead
supervisor walks the queue, so a source it had popped is in neither place and stays QUEUED:
this is why `WaitingIsShown` is checked without faults, in `heavy_slot`.

### Proofs

`HeavyWorkerProofs` proves, for any number of callers, sources, children and faults:
`TypeCorrect`, `OneChildHolds`, `SlotHandedOverHolds`, `NoDoubleWorkHolds`,
`CompleteIsTrueHolds`, `SignalsSpacedHolds` and `HoldNeverStaleHolds`. None of these is inductive as it stands:

- `Typed` adds to `TypeOK` that whoever is on its way to a launch carries a kind.
- `SlotInv` is `OneChild` with the argument for it. Whoever goes on to a launch holds the
  launch lock (`LockHeld`); the holder that saw the slot empty finds it empty when it
  launches, because only holders fill it (`LaunchFree`); a supervisor that watches, reports or
  releases does so for the child in the slot, and reports only an exit (`Watched`).
  `SlotHandedOver` follows from the same invariant.
- `QueueInv` is `NoDoubleWork` and: what a caller is about to launch, and what the
  supervisor promotes while the slot is empty, is not in the queue.
- `ReportInv`: the supervisor knows the kind of its child, and takes for a success
  only an exit code it has read. It gives `CompleteIsTrue`.
- `SignalInv`: the one early signal that a cooldown allows has its emergency used up.
- `WaitInv`: the supervisor has a source of its own only while it promotes it, a source whose
  exit it has published is not shown as waiting before the slot is released (it is in no queue,
  so no caller says so), and, until the first fault, a source shown as queued waits, is being
  promoted or holds the slot. A step of a caller shows as queued only what it leaves in the
  queue, and takes from the queue only what it puts on hold (`Waits`).

`WaitInv` gives `QueuedIsRealHolds`, "as long as no fault has happened", and with
`HoldNeverStaleHolds` the property of the run, `WaitingIsShownHolds`, for `MaxFaults = 0`. The
hypothesis is needed: a launch that ends the supervisor loses the source it had popped.

There is one lemma per action (or group of actions that leave the same variables alone). The
assumptions are the named `ASSUME`s of `HeavyWorker`, among them that a caller is none of the
two marks of the lock, "free" and "supervisor". `SchedulerProceeds` is model-checked only.

## 4. The automatic collection scheduler

Module `AutoScheduler`; its instances are configurations of it.

State and code: `explicitRev`, `terminal`, `wake`, `keyPending`, `last` are the module
globals and the `source_stagger_*` entries of `_RECENT_COLLECTION_STATE`; `state`, `age`,
`startedRev`, `completedRev` the run states and the `shopping_*` entries; `pc` with
`cycleRev`, `obsRev`, `plan`, `cycleSlot`, `left` the scheduler thread and its locals. One
action is one section under `_RECENT_COLLECTION_LOCK` or one call between two of them:
`Capture` and `Plan` choose a source, `Due` asks for its age, `Request`, `Publish` and
`Record` are `schedule_manual_collection` and what follows it, `Drain` the polling loop,
`Enter`, `Decide`, `Loop` and `Sleep` the wait. The worker is what `HeavyWorker` shows of
itself: a child, a queue, published states (`ChildEnds`, `Promote`); `owed` and `auto` are
history for the properties.

Abstractions. Time passes in slots of two hours; an event within a slot is placed at its
start, so every comparison of an age of `n` slots with the limit of four hours goes both
ways for `n = 2` (`ShoppingDue`). Delays below two hours end in the slot or with it. The
terminal revision is only ever compared with its last observed value: one flag. The
rotation of small containers is modelled, the production case; containers above 256 MiB, which
queue both sources at once, are not.

Properties: `WakesAreKept` (the wake of a new key survives everything that happens around it
until its source is started, queued or visibly held; the scheduler does not sleep through one;
one automatic source is in the worker at most), `TerminalStartsNothing` (the end of a manual
run never pulls a cycle forward), `ExplicitServed`.

| Run | Instance | Result |
|---|---|---|
| `sched_wake` | 2 key updates or buttons at any time, children that complete or stop halfway, launches that are denied | all hold |

Bounds. Two outside events are what the races need: an update during the cycle that serves
the previous one, an update of both keys, a manual run next to an update. A child runs across at most one slot
boundary, which is all the scheduler can tell (`SlotPassed`).

Fairness: the scheduler thread runs, and the worker goes on, which is what
`SchedulerProceeds` of `HeavyWorker` establishes. No deadline has to come for an explicit
wake to be served, so time is not fair.

### Proofs

`AutoSchedulerProofs` proves `WakesAreKept` and `TerminalStartsNothing` of `Spec`, for any
outcomes of a child, any number of key updates and buttons and any length of a run. The
inductive invariant `Inv` is `TypeOK` and

- `Revisions`, `Waiting`: the revisions a cycle and a wait have captured are not newer than the
  current one, and an event that is set during the wait has an explicit or a terminal revision
  behind it that the thread has not seen. This is why `Sleep` never returns early for nothing.
- `KeysKept`: a key that came while its source runs is pending; when `Record` is about to
  consume a key of the captured generation, its source does not run any more for an older key:
  it has started since, is queued, or was turned away by the launch hold of the supervisor.
- `Alone`: what the scheduler has in the worker runs or is queued, and between `Drain` and the
  next `Request` it has nothing there, also when a request raised.
- `Slept`: a key that is pending during a sleep has an event, a held source, or a source in the
  worker whose end sets the event. That the worker is busy is not enough: a match child ends
  without setting it.

The lemmas before it say what appending, removing and taking the first do to lists of two sources.

## 5. Paged collection of one budget snapshot

Modules `BudgetCollection`, `MCBudgetCollection`, `BudgetCollectionProofs`.

State and code: `cp` is the `budget_collection_checkpoints` row of the scope (`gen`, `reason`
and `replays` are in its `cursor_value`), `receipts` the page and item receipts, `states` the
current payload of each key. `obs`, `com`, `replay`, `resp`, `problem` and `full` are
`observed`, `committed`, `replay_scope`, the page in hand, `problem` and `full_page_seen` of
`collect_pages`; `reconcile` and `compact` are what `collect_full_budget` does after it. A scope
is *current* (it advances the current state and is reconciled) or *history*. The protocol
differs from section 2 where the code does: the claim holds the row lock from comparison to
write, receipts are deleted before the claim in a transaction of their own, the rows of a
refused page are stored and only the receipt is not, the failure handler reads and writes in
two transactions, and an overlap is replayed once, after which the scope is given up.

A scope that was given up has two more writers. A wake that finds it exhausted reads the next
region instead (`ReadRegions`; the region is a scope of its own, here only its effect on the
current state) and marks the row PARTITION_COMPLETE when no region is left (`MarkPartition`, a
transaction that looks at the status only). A newer complete snapshot supersedes an unfinished
older one (`Supersede`). Both keep the cursor of the row; `collect_pages` falls to its last
`else` for either status (`Resumable`), clears the receipts and reads page one again. That the
next wake of the same day does so with a PARTITION_COMPLETE scope is in section 10.

Abstractions. As in section 2. A page that repeats a whole row is not distinguished from one that
lists a key with two payloads; a row of another scope (`validate_row`) stops a page like any other
problem and is left out, so are a changed contract or page size, which raise before anything is
written. Observations are inserted with the receipts and never removed here, so the verifier's test
for a missing revision is always passed. Receipts are deleted in one transaction, as `_write` makes
it. The newer snapshot is one step: the schedule takes the oldest unfinished snapshot first, so one
overtakes it only when asked for by its date, with nobody inside the collector. Regions
add and replace current rows and remove none. How they are planned is left out here; which scope
a wake selects is `SourceCycle`'s.

Properties: `PagesAreProven` (no page is added to a broken chain, the verifier accepts what the
loop wrote, a complete scope holds what was announced), `RemovalIsProven` (a current row
disappears only because a complete snapshot with all its receipts did not list it, or by the newer
snapshot that supersedes the scope), `OverlapIsReadOnceMore` (an overlap is read again from page
one, and a scope that was given up, marked or superseded is never read on behind its cursor: it
keeps its generation and counters until page one is read in a new generation).

| Run | Instance | Result |
|---|---|---|
| `budget_lease` | 1 process, restarted at will; 3 keys in pages of two, 2 payloads, both kinds of scope, 2 disturbances | all hold |

Bounds. As for `page_lease`: a full page and a short one, any two disturbances. Five generations
are what two of them and the replays can draw. An exhausted scope that is superseded afterwards
needs a third disturbance: the theorem covers it, the run does not.

Fairness: the scheduler calls the collector again, with `resume=True`.

### Proofs

`BudgetCollectionProofs` proves, if `Exclusive` (the budget lease) and for every set of
processes, rows, page sizes, totals, generations and disturbances: `PagesAreProvenHolds`,
`RemovalIsProvenHolds` and, of the third property, `ClosedIsReadAfreshHolds`. Its liveness half
is TLC's. The inductive invariant `BudgetInv` is

- `Stored`: the types; `Drawn` (a new generation has no receipts); `Sound` (a complete scope
  carries no error, and `WriterMeetsVerifier`); the receipts are finitely many.
- `Alone`: one process is inside the collector. Every step therefore disturbs only `Local` of
  the process that takes it, and the proof has one lemma per action; `Supersede` meets nobody
  inside.
- `Claiming`: until the claim the checkpoint is the one that was looked up, and the one to be
  claimed is accepted by the verifier or blank; a closed scope is claimed from page one of a
  generation drawn after its own.
- `Holding`: in the page loop the stored checkpoint is the committed one and the verifier would
  accept it, so would the next process; `full_page_seen` says what the receipts say.
- `Checking`: what is known of the page in hand: it passed the tests of the source, and it
  overlaps the receipts exactly if its problem says so. That is why advancing the
  current state by the rows of a refused page never unbinds a receipt, except where the scope is
  read again from page one anyway.
- `Removing`: reconciliation is reached with a proven complete snapshot.

`ProofExtends` is the heart again, for the tests of this verifier; `KeysDistinct` (a page with as
many keys as rows has one row per key) makes the stored payloads those of the receipts, and
`FirstHasNone` lets receipts be deleted under a checkpoint at page one. The proof needs that no
payload is the mark for "no current row" (`DataAssumption`).

## 6. How collection runs: `Boot`, `ForwardSchedule`, `SourceCycle`

One run, `operation`, module `MCOperation`. Proofs: `MCOperationProofs`. The three
components share no variable: what crosses between them (who asks, how a day ends, what
a scope answers) is an input of each. `MCOperation` therefore holds the variables of all
three under a prefix, instantiates each module, and a behaviour runs one of them, named
by `part`, while the others keep an initial state. Their product would multiply states
that tell nothing. The properties of the run name the part they are about and put
together the properties of its module.

**Boot.** `db` is what PostgreSQL and the disk hold (the marker, schemas, tables, the budget
tables, its index, a legacy SQLite file), `born` how it was found, `web` the flags of a process
(`_BOOT_STATE`), `at` its initialiser threads, one step per transaction of
`initialize_backend`. `born` ranges over every storage a boot can find: empty, of another
origin, and what an interrupted boot of this release leaves. Any step can fail or be the last of
its process. Properties: `BootLeavesStorageUsable` (an empty database is never left without
the marker, which would lock out every later boot as protected; whoever claims to be ready finds
every table and a valid index; one initialiser at a time), `OldStorageUntouched`, and
`WebComesUp` under fairness: threads run, seconds pass, and probes of the platform keep asking.

**ForwardSchedule.** `done` are the days whose scope is complete, `recheck` and `longtail` the
two settings rows, `run` the locals of `collect_forward`; each of its database writes is a step,
and a run can die after any. `seen` and `spent` are history. Properties: `RereadsAreEarned` (a
day remembered as re-read was completed under that date, and is complete; nothing is read twice
under one date unless a re-read was cut short), `CompleteIsCurrent`, and `Progress`: yesterday
is eventually complete whatever old day is stuck, and without a stuck day the whole window is.

**SourceCycle.** A scope is `BudgetCollection` seen from outside: a state, what a call answers,
and how many requests it spends. `used` is the quota row; the request contexts are opened one
after the other with permits computed from it, as in the code. Properties: `RequestsAreCovered`
(five contexts never add up to more than a day allows; a cycle that drains classifications
starts no layer), `CycleIsTrue` (current rows are never reconciled with an older snapshot;
COMPLETE means the snapshot is finished, both appropriations were read on that date and no day
of the source window is missing).

Bounds. Boot: one web process and one match child, two failures, two deaths, so a second boot
can be cut short as well. Forward: eight days with a window of six, three days a run, one
stuck day or none, deployment on the first or the sixth day: the window slides over the
bootstrap date and the stuck day leaves it. Cycle: four days, a window of two, two regions, a
day whose pages overlap for ever, and a quota of seven against permits of five, so the
second cycle of a day runs out in every layer.

Fairness, part by part, is that of the modules: a thread or a run goes on, and the source
answers another page of a stuck day (so that the run that waits for it ends).

### Proofs

For every value of the constants of `MCOperation` (processes, faults, crashes; calendar, window,
budget of days, stuck days; regions, quota, limits of requests, pools), all six safety properties
of the run. `OperationInv` is the conjunction of three inductive invariants, one a part, and a
step of the whole is a step of one of them:

- `BootInv`, for `BootLeavesStorageUsable` and `OldStorageUntouched`. `Owned`: storage stays
  whose it was found to be. `Threads`: two initialisers of a process are never both alive, and
  one that is alive keeps the flag that makes requests wait. `Placed`: what a thread may rely on
  at its step (`Installed`), because the tables only grow while other processes work on the same
  storage and die.
- `ForwardInv`, for `RereadsAreEarned` and `CompleteIsCurrent`. `Earned` alone is not inductive:
  it needs where the run is (`Visiting`, `Rotating`) and that the long tail never holds one of the
  newest days. `Caught` says what each loop leaves complete for the next, `Spent` that a
  re-read that was begun is under way, remembered, or was cut short. Windows and dates
  of a run are those of its start, not of the present date (`Dated`).
- `CycleInv`, for `RequestsAreCovered` and `CycleIsTrue`. `Spends`: the permits of a context are
  still left of the day, though each is computed once and a midnight resets the counter.
  `Calendar`: the current rows are older than the date of the cycle. `Read`: what each layer that
  says COMPLETE rests on, until the states are combined and published.

Least and greatest days exist because the days are bounded naturals (`Least`, `Greatest`, from the
well-founded order of the library). `WebComesUp` and `Progress` are liveness and stay with TLC.

## 7. What bounds the collectors: `SourceRequest`, `NoProgressGate`, `ResultSync`

One run, `service`, module `MCService`, built as in section 6. Proofs: `MCServiceProofs`.

**SourceRequest.** `counter` is the pair of settings rows of a source, `ctx` the context of a
process (permits, recorded successes), `req` the request under way. An envelope is described by
what its parts are (form, result code, row container, a second container, total, size) and
`Parse` says what each parser makes of each combination. Reading the date and reserving are
separate steps, as in the code, where the date is read before the lock. Properties, in
`RequestsAreWhole`: no source is asked more often on a date than its limit, whoever asks; an
accepted page holds every row its response carried or says in its total that it does not;
the attestation refuses no page that was really delivered. The exceptions are named in the
properties: a request reserved under a date that was already over (midnight between two
lines), a second container dropped by the legacy parsers, another member of a JSON object that
holds the rows (`vnext_http.py:406`, `lofin_vnext_http.py:130`), and LOFIN's XML, which takes its
`row` children and passes over every other child, whether there are rows or not
(`lofin_vnext_http.py:177`). In the last two the loss shows if the source counts: the page's
total is then never reached.

**NoProgressGate.** `rec`, `slot` and `rows` are the durable gate, `tokens`, `job`, `proc` the
web process, `child` every child ever launched: a restart forgets the former, not the
latter. Properties, in `LaunchesAreGated`: two children never run at once and the running one
owns the slot; a source without progress is launched twice at most between two changes
that could matter, counting the launches whose progress could be read at their end (every exit
that cannot be read costs one launch more); after an oversized response only an operator launches it; memory is never
trimmed next to a request, a launch or a child.

**ResultSync.** `db` and `content` are reduced to source dates; `upload` is an upload on the
server with its fate, `tx` what an import has written, `serving` what is committed.
Properties: `ServedIsWhole` (one whole snapshot is served, without an expired or undated row,
and whoever was told "imported" is right), `NewerStays` (an older snapshot replaces a newer one
only when its collector had ended before its upload did).

Bounds. Two processes, a limit of three requests, two attempts, two dates: the limit
is met inside a request and inside a retry, and the midnight falls between any two steps. Two
sources, three launches and one fault: two fruitless launches and the third that must not be.
Two collectors, two snapshots of two sections: an old upload meets a new one half written.
Interchangeable sources and collectors are symmetric; no liveness is checked in this run.

### Proofs

For any sources, processes, limits, launches, faults and snapshots:

- For the gate `OneChildHolds`, `AtMostTwiceHolds`, `LimitWaitsForOperatorHolds`,
  `TrimIsAloneHolds`, together `LaunchesAreGatedHolds`. The invariant `GateInv` has these parts.
  `LockHeld`: whoever passed the slot check holds the lock of the gate. `Owned`: the durable
  slot, the token, the launch under way and the child name the same generation, and no other
  generation of any source is alive; it survives a restart, where only the durable half and the
  child are left. `Counted`: the durable count of a source bounds its launches without
  progress, at rest and in flight, and a baseline is kept exactly when it has reached two. The
  history variable `fruitless` is never read by an action.
- For `SourceRequest`, `RequestsAreWholeHolds`: `RequestInv` relates the counter of a date to the
  requests sent under it (`CountedByDay`) and the records of a context to the page in hand
  (`Genuine`); that a parser loses no row silently is a lemma about `Parse` (`ParsedIsWhole`).
- For `ResultSync`, `ServedIsWholeHolds` and `NewerStaysHolds`: `SyncInv` adds to the properties
  that every snapshot was built from a purged database (`Purged`), that what is served is a
  committed import (`Committed`), and that a collector still waiting has the newest snapshot the
  server has seen (`Awaited`).

## 8. What is stored and derived: `ShoppingStore`, `StoredBudget`, `MatchRollover`

One run, `evidence`, module `MCEvidence`, built as in section 6.

**ShoppingStore.** `rows` are the delivery records, `cps` checkpoint and receipt of the scopes
of a day: the day itself, its smart-LED replay, and for days before the bootstrap the backfill.
One scan lists any rows of its day; its last page reconciles. The retention is the sequence of
transactions of `purge_history` and may die between any two. Assumed: the source answers a day
with rows of that day. Property: `DeliveriesAreListed` (on days whose scans are complete what is
active is what the scans list, in both directions; what the retention took away does not come
back).

**StoredBudget.** `obs`, `cur`, `rows` are observations, current states and project rows,
`classes` and `compat` the categories in both stores, `pc` the maintenance of a cycle:
repairs, classification (read, rest, save), purge of scopes, orphans and history, prune. A
collector may store rows at any step, as it can when a lease was lost. Properties:
`StoredRowsAreTrue` (a current row has its project row and observation; no row is shown under a
category of another payload; no department name crosses an organisation), `CountedOnce`
(a page counts every row it lists once, under one status), `MoneyIsOfRows` (its sums of money are
those of its rows), `NothingIsLost` (a late category replaces no current one; a purge keeps what
the collection of a day resumes from).

**MatchRollover.** `budget` and `shopping` are stored rows, `runs` the stored run of each year,
the rest the cycle. Scores and ranks are computed as in the code from what two sides share
(places, stems of places, signals, dates, amounts; a pair without two amounts ranks behind those
with them); texts are reduced to marks they may share. A request whose details disagree on the
office, the vendor or the contract is no evidence. Properties: `CountedOnce` (a request is evidence for one
project, published rates are shares), `PopulationIsTrue` (a run stored as population is exact
however the pages fell, is replaced by a population only, and COMPLETE means that both years are
what all stored rows give).

Bounds. Shopping: two records, four days, one before the bootstrap, two scans, one row per
transaction. Budget: two offices with one department code, three payloads, three days, three
events, two versions of the rules. Match: six budget rows, eight details, pages of two, samples
of two, one candidate a project, two cycles: a request that fits two projects of different
pages, requests with two offices or two contracts, a page from which rows are dropped, a year
that is sampled and then read whole.

`shop_backfill` is the same `ShoppingStore` with one key and an operator who keeps asking: see
section 10. Its fairness: the operator asks again whenever he may, scans that keep being able
to reach their last page reach it, and a retention under way goes on.

### Proofs

`MCEvidenceProofs` proves `DeliveriesAreListed` of `EvidenceSpec`, for any keys, calendar,
bootstrap and replay days, retention window and batch size. None of its three parts is
inductive. `ShopInv` adds what each kind of row is there for, in terms of the scopes that are
stored now:

- `Listed`: on a kept day whose scans are complete and not empty, an active row is listed by
  one of them. A row stored by a scan that is not complete says nothing yet, so this has to
  survive a scope that starts over, fails or is purged.
- `SmartIsListed`: an active smart control row has the replay of its day stored, and if that
  is complete, listed there. The reconciliation of the day itself leaves such rows alone.
- `InactiveIsMissing`: an inactive row is missing from the receipt of a scope of its day that
  may speak for its category, and that is still stored. A page can only add to that receipt by
  storing the row, which makes it active.
- `Purging`: the retention's cutoff is never past what today keeps, whatever midnight came
  since; dates that are no dates are gone when scopes are listed, and every scope older than
  the cutoff is gone or listed when rows go.
- `Kept`: `NothingComesBack`, and what was kept last is not past today's cutoff. A scan of a day
  before the cutoff is refused, and a backfill's last page fails before it reconciles.

The cutoff moves with midnight while a scan of the day that falls out runs on; the parts are
therefore stated of the days kept today, and only weaken when midnight comes.

It also proves `StoredRowsAreTrue` and `NothingIsLost`, for any keys, payloads, organizations,
windows and numbers of events. `StoreInv` says where each stored thing comes from: an observation
has a payload of its own organization and is the only one of its key and payload; a current row
has its project row and its observation; a name was given to the organization; a category is
that of the payload it carries; a checkpoint of a day was last touched that day or later, and
one that may be resumed has the receipts of its generation. A purge may delete an observation
only while no current row points at it (`DeleteHistory` looks again), and a day inside the window
was touched inside it, which is why a purge neither forgets nor strips it.

`CountedOnce` has two halves. A page joins current rows, project rows and categories by key, so
that it counts a row once depends on the store having one row to join with on each side:
`StoreOnce` says that a key has one category under each version of the rules (the classification
inserts or replaces by key and version, and a repair forgets), `StoreInv` the rest, and the
lemmas from `PairsCount` to `SummaryCounts` turn that into bijections between pairs and
rows. `MoneyIsOfRows` compares sums of the same rows; a sum is a fold, which is induction over
data, and stays with TLC.

The match half and `PopulationIsTrue` follow from `MatchInv`, for any stored rows, page sizes,
limits, samples and cycles. The rows of one year have different ranks, which makes the order of a
read and the winner of a request unique. Its parts:

- `MatchScan`, `MatchYear`: the year read is one of the two and read in full exactly when its
  collection covers it; a sample is one page; a project is kept through one row.
- `MatchBudget`, `MatchShopping`: after n rows or keys a full read has kept exactly the first
  target row of each project among those n, and found exactly the requests of those n keys;
  `scan.done` means that the end was seen, below the limit. Without this a page that drops all of
  its rows looks like the last one.
- `MatchComplete`: a year this cycle has read completely stays covered and below the limits, and
  its stored run is verified with the evidence that all stored rows give, until the cycle ends.
  The backfill runs inside the cycle and adds rows: it has nothing to add once the legacy year is
  complete (`NoDayIsLeft`), and a year saved twice is saved as a population again.
- `MatchRuns`, `MatchRates`: a stored run has one evidence for a request, few for a project, and in
  a population none without its project; a published rate is a share.

The assumption on the constants asks that amounts add up to integers: induction over data
again, and true of any finite set of integers.

## 9. The status page: `CollectionMonitor`

`cp` are checkpoint rows, written in the order in which `SourceCycle` and `ForwardSchedule`
write them, `slot`, `pending` and `run` the worker as `HeavyWorker` moves it, `cache` the budget
rows kept for the next page, `view` the page while it is put together from four readings:
shopping rows, budget rows, run states, slot. `whole` is history: what was ever completed.

`ShownIsTrue`: what the page shows as complete was completed, and the source whose child
holds the slot is not shown as finished or waiting. `BoundedIsExact`: the bounded read gives the
same budget state, history days and finished regions as reading every row.

| Run | Instance | Result |
|---|---|---|
| `monitor` | three days, two regions, one recent row, three writes or moves of the slot around one page after another, rows of earlier cycles or none | both hold |
| `monitor_stale` | the same | **violated**: see section 10 |

With one recent row every later write pushes something out of the bounded read; three events
let a row be written between any two readings.

`WriteNation` writes the oldest unfinished snapshot, and again the finished one of the same day:
the next wake meets PARTITION_COMPLETE, or a COMPLETE without rows or without its receipts, and
reads from page one (`vnext_clean_app.py:2803-2806`, `budget_pg_collection.py:312-330`).

### Proofs

`CollectionMonitorProofs` proves both for any calendar, regions, limits and number of events.
Both are statements about one step of the page, read over rows that were written before; they
need what the rows look like at that step, which `MonitorInv` says:

- `Dated`: no two rows were written at the same moment, and none after now. The page takes the
  newest row of a kind; with two newest ones a bounded and a full read could choose differently.
- `Honest`, of the rows and of the cached rows: a row called complete is of something that was
  completed, a nation that points to its regions has all regions of its day completed, and a kind
  of row only has the states its writers give it. It holds of the cache because what was ever
  completed stays so, however old the cache is.
- `Ordered`: a region has a row only if the nation of its day has one (`RegionsFollow`); the nation
  of a day before the latest is finished (`DaysFollow`); the rows of an earlier day are older
  (`InOrder`). A day collected by region may be read again by the next wake of the same day, so
  its nation row may be RUNNING or FAILED, newer than its region rows and no longer one that tells
  so. The bounded read takes the day of the newest row that tells so, the page the day of the
  newest row of all days that have one: they are the same day because all rows of a later day are
  newer than all of an earlier one (`TargetOf`).
- `StagesRead`: between two readings the page holds states of stages, until the slot overrides them.

`BoundedIsExact` is then a lemma about the two reads: every row the full read uses, the newest
of each kind and the day selected for the partition, is among the rows of the bounded one.

### Runs of sections 6 to 9 at a glance

| Run | Module | Properties | Kind |
|---|---|---|---|
| `operation` | `MCOperation` | `BootLeavesStorageUsable`, `OldStorageUntouched`, `WebComesUp`, `RereadsAreEarned`, `CompleteIsCurrent`, `Progress`, `RequestsAreCovered`, `CycleIsTrue` | invariants, action properties, two of liveness |
| `service` | `MCService` | `RequestsAreWhole`, `LaunchesAreGated`, `ServedIsWhole`, `NewerStays` | invariants, one action property |
| `evidence` | `MCEvidence` | `DeliveriesAreListed`, `StoredRowsAreTrue`, `NothingIsLost`, `CountedOnce`, `MoneyIsOfRows`, `PopulationIsTrue` | invariants, action properties |
| `monitor` | `CollectionMonitor` | `ShownIsTrue`, `BoundedIsExact` | invariants |
| `shop_backfill` | `ShoppingStore` | `BackfillCompletes` | violated |
| `monitor_stale` | `CollectionMonitor` | `StaleIsShown` | violated |

`CHECK_DEADLOCK FALSE` is said in every configuration: with bounded calendars, launches and
events a behaviour reaches a state where nothing is left to do.

## 10. Disagreements met

Shown by a run (`PROJECT.json` quotes the sentence and the line):

- `shop_backfill`: no day of the 2025 backfill is ever completed. Its last page reconciles
  the day, and the reconciliation refuses every date before 2026 (`shopping_store_v41.py:402`).
- `monitor_stale`: while a snapshot is replaced by regions, a region that stays RUNNING is
  shown as running whatever its age (`collection_monitor_vnext.py:541`).

Met while modelling, and told here without a run:

- "Receipt/counter evidence from the failed nationwide generation is intentionally retained"
  (`budget_pg_store.py:3004`), and its scheduling is to end (`VERSIONING.md:121`). That lasts until
  the next wake of the same day, which takes the scope again (`vnext_clean_app.py:2803-2806`):
  `else: cp = None` (`budget_pg_collection.py:319`) clears the receipts and reads the nation from
  page one. `BudgetCollection` does so, and its properties hold with it.
- A source's RUNNING can be published over its outcome, and a popped source can stay QUEUED
  (section 3; `vnext_clean_app.py:1738`, `3636`, `1980`).
- "Each source checks every four hours" (`vnext_clean_app.py`, `_small_cgroup_source_stagger_slot`).
  The stagger slot and the age of the last completion have the same period, so the age is always
  a little short at the slot of the source (4307, 4589): a completed source waits eight.
- The wake of a new key is consumed when its source is queued (4440-4455); if its promotion is
  then denied (1702-1728) the source waits for memory, and only the next slot retries it, where
  `test_g2b_4289_256mib_source_rotation.py:275` expects the wake kept.
- "A stale process from a rolling deployment must never move a PostgreSQL checkpoint backwards"
  (`budget_pg_collection.py:356`): the failure handler reads in one transaction and writes in
  another (557-572, 438-451), so with two processes one can.
- Abandoned daily scopes are meant not to spend quota for ever (`budget_vnext.py:233`); a scope
  whose total changed (`SOURCE_TOTAL_CHANGED`, `budget_pg_collection.py:414`) is not among the
  replayed errors (18) and asks for the same page at every wake, until its day leaves the window.
- "At least 8MiB of real PARENT-BASELINE improvement is needed to re-open a source that
  repeatedly aborts the same durable page without progress" (`g2b_dynamic_source_budget.py:209`).
  An exit whose progress cannot be read leaves `after_progress` as it was (552), so a page
  committed before that exit opens the source again (453), once after every such exit. Two
  launches at most, as this project first stated it, is false with three faults, which the proof
  showed and the run, with one fault, did not; `AtMostTwice` now says what the code keeps.
- "Malformed row; refusing silent row loss" (`lofin_vnext_http.py:138`, and `vnext_http.py:412`):
  a list with something that is no row is refused, but LOFIN's XML keeps its `row` children and
  drops every other child (177), as an items object keeps `item` (`vnext_http.py:406`).
- The retention treats every date before 2026 as invalid (`README.md:938`) and deletes the rows
  the 2025 backfill stored, although they lie inside the 27 months of `README.md:937`.
- "Production initialization owns schema creation and index repair" (`postgres_ready_read_only`),
  but a web process tries it once: if the budget schema fails while the rest succeeds, nothing
  tries again before a restart.

Edges the models show and no sentence rules out: the window of 365 days loses its oldest day at
midnight between two steps; a blocked region, plan or history day keeps newer days waiting; a
re-read cut short costs a second one; a failed `record_exit` is never retried, and a restart
during a source child holds both sources until an operator acts; an unreadable proof at a reap
latches its source until a page advances; a complete but empty population is not kept against a
sample; a project whose newest revision left the category is taken through an older one; the
repair of a name takes it from older rows of the same code and may spread it; receipts of scopes
other than the daily ones are forgotten after the receipt window; one batch of history that cannot
be deleted starves those behind it; identical rows in a snapshot fail every import of it; an answer
503 can follow a commit; a newer failure stays hidden behind an older day with regions.

## 11. What is proved and what is only model-checked

Proved for all constants, 43 theorems in 8 modules:

| Module | Theorems |
|---|---|
| `PageCollectionProofs` | `TypeCorrect`, `ReceiptChainHolds`, `WriterMeetsVerifierHolds`, `CompleteIsCoveredHolds`, `DeactivationIsProvenHolds`, `RefinesIngestionHolds` |
| `HeavyWorkerProofs` | `TypeCorrect`, `OneChildHolds`, `SlotHandedOverHolds`, `NoDoubleWorkHolds`, `CompleteIsTrueHolds`, `SignalsSpacedHolds`, `QueuedIsRealHolds`, `HoldNeverStaleHolds`, `WaitingIsShownHolds` |
| `AutoSchedulerProofs` | `WakesAreKeptHolds`, `TerminalStartsNothingHolds` |
| `BudgetCollectionProofs` | `PagesAreProvenHolds`, `RemovalIsProvenHolds`, `ClosedIsReadAfreshHolds` |
| `MCOperationProofs` | `BootLeavesStorageUsableHolds`, `OldStorageUntouchedHolds`, `RereadsAreEarnedHolds`, `CompleteIsCurrentHolds`, `RequestsAreCoveredHolds`, `CycleIsTrueHolds` |
| `MCEvidenceProofs` | `DeliveriesAreListedHolds`, `StoredRowsAreTrueHolds`, `NothingIsLostHolds`, `CountedOnceHolds`, `PopulationIsTrueHolds` |
| `MCServiceProofs` | `RequestsAreWholeHolds`, `GateInvariantHolds`, `OneChildHolds`, `AtMostTwiceHolds`, `LimitWaitsForOperatorHolds`, `TrimIsAloneHolds`, `LaunchesAreGatedHolds`, `ServedIsWholeHolds`, `NewerStaysHolds` |
| `CollectionMonitorProofs` | `InvariantHolds`, `ShownIsTrueHolds`, `BoundedIsExactHolds` |

Model-checked only: `CompleteIsCovered` and `DeactivationIsProven` without a lease,
`MoneyIsOfRows` of section 8 (it compares folds), and every liveness property:
liveness, `ENABLED` and induction over data are out of reach of the proof system.

## 12. Plan

All modules of the first plan are written, without RECURSIVE, and the theorems it names are
proved: every safety property a run checks, except the sums of `MoneyIsOfRows` and the parts of
`PageCollection` without a lease.

Further modelling worth its states: two web processes that overlap during a deployment (`Boot`
allows them, the run has one), and `HeavyWorker` with `NoProgressGate` in the place of its
admission input.

## 13. Not modelled

- Legacy collectors and one-shot pipelines, schema migrations, deployment scripts: run by hand
  or retired. Linking of notices, contracts and awards to budgets: transformations of texts.
- Web pages, spreadsheets, filters, sorting and paging other than the budget list.
- Parsing below the level of envelopes, URL building, text similarity, cgroup arithmetic.
- In the modelled components: dataset contracts and row validation that raise before anything
  is written, the batch mode of larger containers, in-process manual threads, the comparison of
  database identities, failed imports of the application (never retried), `clear_snapshot`,
  paged lists whose rows and counts are read in two statements, details and keys of requests
  that are read in two transactions, two races inside one statement pair of the budget
  store that only a lost lease allows, interleavings inside one budget read of the status page.

`PROJECT.json` gives the reason for each component.
