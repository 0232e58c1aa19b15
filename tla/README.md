# A TLA+ model of the TM Vault backend

TM Vault backs up Microsoft 365 and Azure workloads. This directory holds TLA+
modules for the part of the backend whose correctness rests on the order in
which independent processes act on shared rows: the workers that drain the
shards of a snapshot, the sweepers that recover what those workers leave behind,
the finalizers that roll shards up to snapshots and jobs, the durable provider
and copy work that outlives a handler, and the switch from one storage backend
to another. TLC checks the modules on small instances; TLAPS proves every
invariant, action property and refinement that holds of them for every instance.

| Module | Models | Section |
|---|---|---|
| `PartitionLease`, `LeasePromise`, `PartitionLeaseProofs`, `MCPartitionLease` | one shard row between workers and sweepers, and what its leases promise | 2 |
| `SnapshotRollup`, `SnapshotRollupSteps`, `SnapshotRollupProofs`, `MCSnapshotRollup` | shards to snapshot, snapshots to job, delta cursors, cancel and teardown | 3 |
| `CopyTasks`, `CopyPromise`, `CopyTasksSteps`, `CopyTasksProofs`, `MCCopyTasks` | execution of durable copies, and what it promises | 4 |
| `LeafWork`, `LeafCustody`, `LeafWorkSteps`, `LeafWorkProofs`, `MCLeafWork` | a shard's way from provider work through its copies to the settled parent, and who keeps it meanwhile | 5 |
| `StorageToggle`, `StorageToggleProofs`, `MCStorageToggle` | moving the deployment to another backend | 6 |

The modules share no variables. `PartitionLease` is a shard without durable work
in full detail, and one step (`Drain`, `GiveUp`) of `SnapshotRollup`; `CopyTasks`
is the one step `CopyVerdict` of `LeafWork`; `LeafWork` has its own coarser
finalizer, because what it asks is when the finalizer may run. Definitions whose
name begins with `Mut` are deliberate mistakes, each of which makes TLC refute
the property it belongs to.

## 1. The system

PostgreSQL holds all authoritative state. RabbitMQ only carries hints ("this
row wants work"): every consumer re-reads its row and takes it with a
conditional UPDATE. Many processes write to the same tables:

| Part | Source | Role |
|---|---|---|
| API gateway, query services | `api-gateway/`, `services/*-service` | CRUD and reporting |
| Scheduler | `services/backup-scheduler` | dispatches jobs; runs every sweeper |
| Reconciler | `shared/reconciler.py` | the 60 s sweep: partitions, snapshots, jobs |
| Backup worker | `workers/backup-worker` | fan-out, shard handlers, finalizers |
| Leases, heartbeats | `shared/lease.py`, `heartbeat.py`, `reclaim.py` | who owns a row; who is alive |
| Durable copy work | `shared/copy_*.py` | server-side file copies that outlive a handler |
| Durable provider work | `shared/provider_*.py` | Graph reads that wait for quota outside a handler |
| Batch roll-up | `shared/batch_rollup.py` | the user-visible result of a set of jobs |
| Storage | `shared/storage`, `routing_fence.py`, `services/storage_toggle_worker` | blob back-ends and switching between them |
| Deduplication, retention | `shared/blob_*.py`, `retention*.py`, `backup_cleanup.py` | sharing and deleting blobs |
| Chat and archive capture | `shared/chat_*.py`, `archive_*.py` | content pipelines |
| Restore, export, discovery, Azure workers | `workers/*` | the other consumers |
| Graph access | `shared/graph_*.py` | HTTP, throttling, retries |

`PROJECT.json` lists every part with its status and, for the parts left out, the
reason.

### Where it is hard

* A worker may be slow, cut off or dead, and nothing distinguishes the three.
  Leases and heartbeats guess; the fence token has to make a wrong guess
  harmless.
* A handler settles its row in several attempts, each of which may have
  committed although it raised.
* Three parties (the worker, the reconciler, the stale-sweep) move the same row
  with statements that were written at different times and ask different
  questions (status, lease, heartbeat, age, budgets).
* Messages are lost, duplicated and redelivered; a row without a message has to
  be found by a sweep, and a row with a message must not be given up.
* A shard's work passes through three tables (provider work, copy workflow,
  partition), each with its own lease and generation; four parties ask whether
  the parent may be settled, each with its own query.
* The toggle runs through eight phases without a transaction around them, while
  an operator may abort and the broker may deliver its message again.

## 2. The partition lease (`PartitionLease.tla`)

A partitioned snapshot is a set of rows of `snapshot_partitions`, one per shard.

| Variable | Code |
|---|---|
| `row[p]` | status, lease_owner_id, lease_expires_at, lease_token, started_at, enqueued_at, retry_count, requeue_count and the two counters in failure_state |
| `msgs[<<p, redelivered>>]` | copies of the shard's message in its queue |
| `proc[q]` | a worker process: alive, heartbeat started, its worker_heartbeats row fresh, the lease registry of `lease.py`, the ids a running renewal is about to drop |
| `task[h]` | one delivery: where it is in the handler, the (owner, token) it bound at its claim, the outcome it carries |
| `payloads` | the sweep's requeue_payloads after its commit |
| `stale`, `resend` | the stale-sweep between its transactions |
| `dead` | work_dead_letter |
| `claimed` | history: shards some worker ever claimed |
| `lost` | counters behind the three bounds on lost operations |

A step is one database transaction or the code between two awaits. Time appears
as the comparisons the code makes: a lease is null, live or expired; started_at
and enqueued_at are recent or older than the horizon that applies. They may age
at any moment, so every relation between the various timeouts is covered, also
those a deployment would not choose.

| Actions | Code |
|---|---|
| `Start`, `Exit` | `initialize` (heartbeat, startup reclaim); SIGTERM with its tombstone, a kill, or the heartbeat's own exit |
| `Beat`, `BeatMissed` | `HeartbeatThread._beat_once`, `_beat_bounded` |
| `Bump`, `BumpForget` | `LeaseExtender._bump_once`: the UPDATE, and the registry clean-up after its result |
| `Deliver`, `Ack`, `Reject`, `ConnectionLost` | `consume_queue`, `should_requeue_failed_delivery`, the broker |
| `Claim`, `ClaimLost` | `_claim_partition` |
| `DrainReturns`, `DrainRaises` | the six `_process_*_partition_message` handlers up to `_settle_partition_outcome` or `_partition_retry_or_fail` |
| `MarkTerminal`, `MarkTerminalLost`, `ReleaseAfterTerminal` | `_mark_partition_terminal` |
| `RequeueForRetry`, `RequeueLost`, `ReleaseAfterRequeue` | `_requeue_partition_for_retry` |
| `Sweep`, `Republish` | STEP A of `sweep_orphans` (five statements, one transaction), `republish_partition_messages` |
| `StaleFail`, `StaleReset`, `StaleCancelGuard`, `StaleRepublish` | the partition part of `_sweep_stale_snapshots` |
| `CancelJob`, `Lapse`, `AgeStarted`, `AgeEnqueued` | the user, the clock |

`Sweep(S)` applies the statements one after the other to every row, because
within the transaction each sees what the one before wrote; `S` are the rows the
first two statements get (they skip locked rows and stop at a batch size).

Abstractions: what a shard contains and what the drain does to it; audit
events; the durable copy and provider guards (`pending_copy_sql`), which are
true for rows without such work (section 5 has them); the provider path of `_claim_partition`; one
scheduler replica. `worker_id` is written and cleared together with started_at
and shares its field.

### Properties

| Property | Says |
|---|---|
| `FenceExclusive` | of all handlers that claimed a shard and still run, at most one can write to it |
| `StolenStaysStolen` | a handler that lost its row never passes the fence again |
| `LiveLeaseKept` | a row with a live lease is moved only by its holder, a restart of its container, or the cancel-guard |
| `TerminalFinal` | a terminal row keeps its status, the cancel-guard excepted |
| `EvidenceSurvives` | a shard that was ever claimed is never taken for one still waiting in its queue |
| `DeadLetterVerdict` | a dead-lettered shard is FAILED and the reason is true |
| `RegistryTight` | the extender renews only rows a handler of its process works on |
| `KeepsPromise` | `PartitionLease` implements `LeasePromise` |
| `Settles` | every shard reaches a terminal status and keeps it |

The two exceptions are the code's: the stale-sweep's cancel-guard
(`backup-scheduler/main.py:1066`) updates the rows it reset earlier by id alone,
so it may fail a row that was claimed or even completed since; and a process in
which no handler ever registered a row renews by owner (`lease.py:395`), so a
first claim whose acknowledgement was lost stays leased while that process
lives (`OwnerWide`).

`LeasePromise` is the abstract specification: shards with a fate, tasks with at
most one grant, the set of shards under a live lease, and whether the job is
cancelled. A task claims an open shard that is not leased and shuts out whoever
held it; grants are lost at any moment and come back only by a new claim; a
verdict is written by the holder; a sweeper fails only shards that are not leased;
what has a verdict stays as it is, unless the job is cancelled (`Overrule`, the
cancel-guard). It has no tokens, owners, heartbeats, messages or sweeps. A task's
grant is its shard if it works and passes the fence (`Granted`), a shard's fate its
terminal status (`Fate`).

### Runs

All runs have one shard (two handlers or two processes contend for it; shards
interact only through the registry and the sweep batches, and both treat rows
independently). `RECONCILER_MAX_REQUEUE` is 2, or 1 with a replay, where a
requeued shard has to run again: the last budgeted requeue is poisoned, or
replayed, in the tick that makes it, so a budget of 1 alone shows the giving-up
only. Deadlock checking is off because a
settled system stops.

| Run | Instance | Result |
|---|---|---|
| `partition_siblings` | one process, two handlers, requeue budget 2, two lost writes | `TypeOK`, `FenceExclusive`, `StolenStaysStolen`, `TerminalFinal`, `LiveLeaseKept`, `KeepsPromise` hold |
| `partition_restart` | a container and its restart, a lost connection, retry, requeue and unclaimed budgets 1, sweepers that die after their commit | `EvidenceSurvives`, `DeadLetterVerdict`, `KeepsPromise` hold |
| `partition_crash` | a container that may die and restart at any point, requeue and replay budgets 1 | `Settles` holds |
| `partition_strand` | one process with or without heartbeat, one retry, a lost claim and two lost writes | `RegistryTight`, `Settles` hold |

Two handlers of one process are the hard case for the fence, which there rests on
the token alone; handlers of different processes also differ in their owner, and
the theorems of section 7 cover any mix.

Disagreements with comments that show in the model and have no run of their own:

* GROUPS_CHANNELS and ENTRA_CATEGORIES rows have no republish branch in the
  stale-sweep. It resets them to QUEUED and keeps their owner; while the owner's
  heartbeat is fresh no sweep looks at them, so they are not dead-lettered as the
  comment there expects
  (`backup-scheduler/main.py:1188`). With the shard outside `Routable`, `Settles`
  fails; the liveness runs have it inside.
* The last budgeted requeue and the replay happen in the same tick, so the first
  replay is not delayed (`reconciler.py:92`).
* The lease registry is keyed by row id, so an older handler's clean-up
  unregisters a newer one's row (`lease.py:342`); its lease then lapses under a
  live handler, and the fence keeps that safe.
* A row stranded by a live worker is not an orphan to the reconciler
  (`backup-worker/main.py:17361`); the stale-sweep picks it up instead.
* A handler without heartbeat may overwrite its own release with FAILED
  (`backup-worker/main.py:17317`).

The bounds: the budgets are the smallest that can be spent and then exceeded; two lost writes
are what it takes to lose a settlement and its release; a second handler is what it
takes to contend, a second process to restart. `Exit` leaves one process alive, otherwise
nothing would have to happen.

### Fairness

`FairSpec` assumes that a live process takes deliveries and finishes its
handlers (a drain that hangs for ever is excluded), that containers are
restarted, that clocks advance, and that both sweepers keep ticking and sometimes find a
row unlocked. A lease is obliged to lapse only when no live process renews it,
and a heartbeat to go stale only when its process is dead. Nothing forces a
process to die, a message to be lost or a heartbeat to be missed. The liveness
runs take `SweeperFails = FALSE`: a stale-sweep whose publish fails leaves a row
of a live owner QUEUED without a message, and no sweep looks for it.

## 3. The snapshot roll-up (`SnapshotRollup.tla`)

When the shards of a snapshot are done, their outcome is rolled up: shards to
snapshot, snapshots to the bulk parent job, a complete snapshot to the delta
cursor of its resource. Nine writers do this without a common lock.

| Variable | Code |
|---|---|
| `job[j]` | jobs.status |
| `snap[s]` | status and lease of the snapshots row; from extra_data the degraded marker, cancelled_at and the finalizer's reconciled marker; as history whether it was rescued or reaped |
| `shard[p]` | snapshot_partitions.status with failure_state folded in: CLEAN and LOSSY are COMPLETED without and with files_failed, LOST is FAILED for file content alone |
| `coord[s]` | where the handler of the snapshot's own message is |
| `retry[s]` | onedrive_file_retries |
| `cursor[r]` | whether the resource is a OneDrive (chosen at the start from `Drives`), the pending and the active delta link in resources.metadata |
| `fin[h]` | a shard handler in `_finalize_partitioned_snapshot`, with its local new_status |
| `doomed[s]` | how far the teardown sweep is with the snapshot |
| `purge[j]` | clean-ups of a cancelled job that are due, and the rows the running ones listed |

| Actions | Code |
|---|---|
| `Intake`, `CreateSnapshot`, `MarkSkipped`, `Stash`, `FanOut` | `_process_single_backup`, `create_snapshot`, the delta enumeration, the fan-outs |
| `WalkFails`, `RollFailed` | `fail_snapshot`, and the roll-up of the parent after it |
| `Drain`, `GiveUp` | a shard reaches its outcome (`PartitionLease` in one step) |
| `Flip`, `Preempted`, `Reconcile`, `Roll`, `Promote` | the transactions of `_finalize_partitioned_snapshot` |
| `RescueFiles`, `SettleRescued` | `_retry_one_onedrive_file`, `settle_rescued_onedrive_snapshot` |
| `Sweep` | STEPs B, C and D of `sweep_orphans`, one transaction |
| `Reap`, `Backstop` | the snapshot part and the bulk-parent part of `_sweep_stale_snapshots` |
| `CancelJob`, `CleanupReads`, `CleanupWrites` | `cancel_job`, `cleanup_cancelled_snapshots` |
| `SelectDoomed`, `ClaimDoomed`, `DeleteDoomed` | `_sweep_cancelled_snapshots` |
| `CoordinatorDies`, `FinalizerDies`, `SchedulerDies`, `Lapse`, `Renew` | crashes, the clock, the lease extender |

### Properties

| Property | Says |
|---|---|
| `CursorHonest` | the delta cursor moves only past changes that are stored (unless the job was cancelled or the snapshot reaped, see below) |
| `TeardownFinal` | a row claimed for teardown, or deleted, is not revived with the status of a backup |
| `JobFinal` | a job's verdict is given once; only a rescue changes a PARTIAL or FAILED one |
| `RescueHolds` | a rescued snapshot stays COMPLETED |
| `JobSettles` | every job ends |
| `Converges` | a fanned-out snapshot's status ends up, and stays, what its shards say |
| `TornDown` | a snapshot marked by a cancel is deleted in the end |

### Runs

| Run | Instance | Result |
|---|---|---|
| `rollup_site` | one snapshot, of a OneDrive or of another type, two shards, one finalizer, fairness | `TypeOK`, `CursorHonest`, `TeardownFinal`, `JobSettles`, `Converges`, `TornDown` hold |
| `rollup_bulk` | one job, a OneDrive with one shard and a resource that never fans out, two finalizers | `RescueHolds`, `JobFinal`, `CursorHonest` hold |
| `rollup_rerun` | two jobs over one OneDrive, the first cancellable | `CursorHonest` holds |

Disagreements with comments that show in the model and have no run of their own:

* The finalizer promotes on a local copy of the status. A cancel's coercion does
  not change that copy, so a snapshot of a cancelled job can promote; a
  correction by STEP D behind the reaper leaves it stale
  (`backup-worker/main.py:19321`, `19472`), although promotion is for snapshots
  that "reached COMPLETED" (`2584`) and "PARTIAL/FAILED never promote" (`19470`).
* A FAILED snapshot of a cancelled job without the cancel marker is in no
  population of the teardown sweep (`backup-scheduler/main.py:1263`), although
  a cancelled backup must leave no durable artifacts
  (`job-service/main.py:1414`).
* STEP D does not look at the job and undoes the coercion of a cancelled
  snapshot, which is said to have the "last say" (`backup-worker/main.py:19378`).
* STEP C judges a job by the snapshots that have a row, so it can end a bulk job
  whose siblings have not started (`reconciler.py:842`), and it runs before STEP
  D, so a snapshot reaped COMPLETED over failed shards leaves its job COMPLETED
  (`reconciler.py:827`).
* The clean-up of a cancelled job writes FAILED over a row the teardown sweep has
  claimed meanwhile (`backup_cleanup.py:1888`).

The bounds: two shards are needed for a mixed outcome, two finalizers for one to
preempt the other, two jobs on a resource for one to take the other's cursor, two
snapshots for a job's verdict to depend on siblings. Combining these at once
is out of TLC's reach within minutes, so each run combines the ones its
properties depend on. `rollup_rerun` lets only the first job be cancelled; in
`rollup_bulk` the second resource ends before its fan-out.

### Fairness

A message is handled, a pending shard is drained or given up, a finalizer that is
not killed takes its next step, the lease of a coordinator that ended or died runs
out, and the reconciler's sweep comes round (weak fairness). The three teardown steps
have strong fairness: the sweep is an interval job that survives a restart of the
scheduler, which may interrupt it but does not do so every time. Nothing is
assumed of cancels, rescues, the reaper, the clean-up or the backstop.

### Left out

Settlement of snapshots that never fan out and succeed
(`_settle_inline_snapshot_finalize`, `complete_snapshot`); redelivery and resume
of a coordinator; item and byte counters and the late-bytes correction; stamps on
the resource; the batch rows, and the cascade of a cancel to sibling jobs; roots
protected for reuse; the reaper's retry message; the fan-out's rewrite of
extra_data, which can lose a concurrent cancelled_at; `_is_job_cancelled`
answering no on a database error; the guards on durable copy and provider work,
which are TRUE for snapshots without such work. A resource has one snapshot row
per job.

## 4. Durable copies (`CopyTasks.tla`, `CopyPromise.tla`)

A capture that finds unchanged items does not copy their rows itself. It records
copy tasks in a workflow, seals the workflow when it ends, and executor slots
copy the rows in batches of one bounded transaction each.

`CopyPromise` is the abstract specification: a workflow is sealed once; in a
sealed workflow each task lands batch after batch, never one twice; a publication
task (`Last`) lands after all its siblings have a verdict; verdicts are final; a
cancellation gives up workflows with their open tasks. It has no leases, claims,
slots or faults.

`CopyTasks` is the implementation:

| Variable | Code |
|---|---|
| `wf[w]`, `parent[w]` | workflow.state; whether its job and snapshot are still active under the token the workflow carries |
| `task[t]` | copy_work_tasks: state, claim (holder stands for the generation, owner for owner_id), whether the lease is live, attempts and failures, checkpoint, deferrals, whether it is due |
| `slot[s]` | one `run_once` of a process: claimed, executing, settling, or an orphaned transaction of a dead process |
| `vf[q]` | virtual_finish of the fair queues, relative to the least backlogged sibling |
| `book[t]` | history: claims that executed since the last checkpoint, and those of them that were released as not executed |

| Actions | Code |
|---|---|
| `Seal` | the sealing transaction of `seal_current_copy`, with `align_ready_workflow` |
| `Claim` | `claim`: the candidates, the three-level fair choice, SKIP LOCKED, the charge to the queues |
| `BeginExecution`, `BeginBlocked`, `BeginFenced`, `BeginRefused` | `run_batch` up to the batch: locks, permits, the token comparison, the budget |
| `Commit`, `StatementTimeout`, `ExecutionError` | the end of the batch transaction |
| `SettleOnce`, `SettleGivesUp` | `_settle`, with its own lost transaction |
| `ReleaseCancelledClaim` | the shutdown of an executor |
| `Abandon` | the recovery of workflows whose parent ended |
| `CancelCopyWork` | the cancellation, one transaction |
| `Crash`, `OrphanRollback`, `LeaseLapses`, `BecomesDue`, `EndParent` | the process, the server, the clock, the other parts of the system |

Begin and end of a batch are separate steps because its locks are held between
them. Abstracted: what a batch copies; a manifest is a number of batches; queue
keys, weights and times are small numbers, and a queue's lead over its siblings is
told apart up to `MaxLead`. The claim query has two kinds that wait for all
other tasks, CHAT_RENAME and CHAT_PRESENTATION (`copy_work.py:279`). `Last` stands
for one of them: the worker defers renames only when it deferred no labels
(`backup-worker/main.py:13116`), and presentation is added at the seal only where
labels were deferred. Both kinds in one workflow would wait for each other; that
takes a change of the presentation switch between two captures of a snapshot.

| Property | Says |
|---|---|
| `ExecutorOwns` | a batch in flight owns its task whatever lapses or is cancelled meanwhile |
| `ClaimKept` | no other slot, of the same process or not, takes a live claim away |
| `BudgetHolds` | between two checkpoints a task executes under at most three claims, plus those released as not executed |
| `KeepsPromise` | `CopyTasks` implements `CopyPromise` |
| `Drains` | every task of a sealed workflow reaches a verdict |

| Run | Instance | Result |
|---|---|---|
| `copy_race` | three tasks (one of them last) in two workflows and two lanes, two slots of one process, one fault, one lease that runs out under a live slot, one workflow cancellable, the parent of the other may end | `TypeOK`, `ExecutorOwns`, `ClaimKept`, `KeepsPromise` hold |
| `copy_drain` | two tasks in two workflows, one slot, three faults, one parent may end, fairness | `BudgetHolds`, `Drains` hold |

The bounds: slots of one process are the hard case, because they share the owner
and only the generation tells them apart; three faults are what it takes to spend
the budget; two workflows on one queue are what it takes for a task that cannot be
admitted to stand in front of one that can. A finished system stops, so deadlock
checking is off.

`FairSpec`: a slot that is not killed takes its next step, a capture seals, the
recovery of abandoned workflows comes round, and clocks advance; a lease is
obliged to lapse only when no slot runs under it. Copy leases are never renewed,
so one may lapse under a live slot, but nothing forces it to.

Two disagreements show in the model. A batch that timed out is tried again under
its claim, and when that try is refused a lock or a permit the reservation is
refunded although the claim executed (`copy_admission.py:183`), so a task can
execute a fourth time, which the comment at `copy_admission.py:238` says is
stopped; `BudgetHolds` counts the refunds. And a task whose parent carries another
token is dropped without a settlement (`copy_admission.py:109`), to be claimed
again when its lease runs out; `Abandon` ends that when the parent has ended, but
not when a coordinator was admitted again and lives on under a new token. The
coordinator is not in the model.

## 5. Provider work and the hand-off (`LeafWork.tla`, `LeafCustody.tla`)

With durable provider work on, a shard's message becomes a row of provider_work.
Runner slots reserve and admit the row, run a turn, and suspend it when quota is
short. A turn that deferred copies seals them and gives the leaf away; when the
copies are done, a resumption takes it back, marks the partition and leaves a
receipt for the parent. Two settlers (provider, copy), the turn itself and the
reconciler's sweep all try to finalize the snapshot.

| Variable | Code |
|---|---|
| `job`, `snap`, `flag` | jobs.status, snapshots.status, extra_data['copy_required_failed'] |
| `leaf[l]` | status of the partition and whether its failure_state counts losses |
| `fence[l]` | the rows and slots that carry the partition's current lease_token |
| `pw[l]`, `wf[l]` | the provider work and the copy workflow: state, the slot whose claim has the current generation, lease, parent_settlement receipt |
| `verdict[l]` | how the copy tasks ended (`CopyTasks`) |
| `slot[s]` | a turn or a resumption |

Tokens and generations are only compared for equality with the row's current
value, so the model keeps who has the current one instead of numbers.

| Actions | Code |
|---|---|
| `EnsureWork`, `ReserveDueWork`, `AdmitReserved` | intake and admission of `provider_work.py` |
| `DeferCurrentCopy`, `SealCurrentCopy` | the capture's side of `copy_workflow.py` |
| `MarkPartitionTerminal`, `TurnFails`, `RequeuePartitionForRetry`, `SuspendCurrentWork`, `FailExhaustedWork`, `TurnFinalizes`, `FinishWork` | how a turn ends |
| `BeginResume`, `ReadCopyOutcome`, `ResumeMarksPartition`, `FinishResume` | `resume_copy_workflow` between its transactions |
| `FinalizePartitionedSnapshot`, `UpdateJobStatus`, `FinishParentSettlement` | the settlement of the parent, by either settler or the sweep |
| `Abandon`, `CancelJob`, `DeadLetter` | recovery, cancellation, the poison sweep |
| `CopyVerdict`, `Crash`, `LeaseLapses` | the copies, the process, the clock |

| Property | Says |
|---|---|
| `HandedOver` | once the copies of a leaf are sealed, no provider turn owns it |
| `LeafCarried` | a shard in progress is always carried by a work row that still has its token |
| `BarrierHolds` | the snapshot is not settled over a live leaf or live copies, nor the job over either |
| `LeafFinal` | a terminal shard keeps its verdict |
| `KeepsCustody` | `LeafWork` implements `LeafCustody` |
| `Settles` | the job closes and every receipt is released |
| `HonestVerdict` | a snapshot is COMPLETED only if the copies of every leaf were |

`LeafCustody` is the abstract specification. Every leaf has a keeper: none yet, its
provider work, its sealed copies, or none any more, in this order. Only a keeper
completes a leaf, and only while job and snapshot are open; a leaf changes hands
while it runs; a capture that leaves does not leave a running leaf behind, and
copies do not leave one that has not ended, unless the job is over; the reconciler
fails only a leaf in the queue that has lost its keeper. The snapshot is settled when
all leaves have ended, at most one capture is on its way out and no copies are left,
and is COMPLETED only if every leaf is; a cancellation takes every leaf from its
keeper, and nothing is completed or failed after it. It has no rows, leases, tokens,
slots or receipts. `Keeper(l)` reads the keeper off the two work rows.

| Run | Instance | Result |
|---|---|---|
| `leaf_handover` | two leaves, two slots, three faults among parents locked at admission, failing turns, transient requeues, suspensions, crashes and lapsed leases; cancellation; fairness | `TypeOK`, `HandedOver`, `LeafCarried`, `BarrierHolds`, `LeafFinal`, `KeepsCustody`, `Settles` hold |
| `leaf_lostfailure` | two leaves, two slots, no fault, no cancellation | `HonestVerdict` violated |

`leaf_lostfailure`: the failure of a leaf's required copies is kept in a flag of
the snapshot, which all leaves share. `begin_resume` of a sibling whose copies
succeeded removes it (`copy_workflow.py:490`) between the first leaf's
`begin_resume` and its read of the flag (`backup-worker/main.py:5568`). The leaf is
marked COMPLETED without a loss and the snapshot COMPLETED.

Another disagreement has no run: a transient database error in a provider turn
requeues the shard with a new token, the provider row keeps the old one and is
failed at its next admission (`provider_work.py:345`), later messages find the
ended row and are dropped (`provider_work.py:150`), and the shard waits to be
dead-lettered, although such an error "must not be allowed to spend the shard"
(`backup-worker/main.py:18043`). `Settles` shows that it does get dead-lettered.

Two leaves are what it takes to settle one over the other, two slots for a lapsed
turn to meet its successor. `FairSpec`: turns, resumptions and settlers that are not
killed take their next step, intake, recovery and the poison sweep come round,
copies reach a verdict (`Drains`), and a lease nobody renews lapses. Left out: the
provider work of unpartitioned snapshots and of coordinators, attempt counters,
and the fair choice among due rows.

## 6. The storage toggle (`StorageToggle.tla`)

An operator submits a toggle; the API inserts an event and publishes a message;
one worker drives the event through preflight, drain, promotion, DNS, worker
restart, cutover, smoke test and opening. While system_config.transition_state is
not 'stable' the router refuses writes. Every statement commits by itself, so
every statement is a step of the model.

| Variable | Code |
|---|---|
| `sc` | system_config: active backend, transition_state, whether the cooldown runs |
| `ev[e]` | storage_toggle_events: status, from_id, to_id |
| `sending`, `queue[e]`, `api` | events inserted and not yet published; messages; aborts that still have their release to make |
| `job[j]` | jobs the drain waits for, cancels and replaces |
| `wk` | the worker: its statement, its event, its unacknowledged delivery, the rows of the drain still to be cut |
| `claimed`, `reopened`, `slip` | history: aborts that claimed their event, toggles run again after their end, a swallowed failure |

| Actions | Code |
|---|---|
| `Submit`, `SubmitInsert`, `SubmitPublish`, `Abort`, `AbortRelease` | `submit_toggle`, `abort_toggle` |
| `Consume`, `Ack` | the consumer |
| `Check`, `Preflight`, `PreflightFailed`, `StandDown` | the entry of `run_toggle`: a repeated delivery stands down |
| `BeginDrain`, `Drain`, `CutStraggler`, `ReplaceStraggler`, `Drained`, `Undrain` | `drain_inflight`, and the guarded end of the drain |
| `Phases`, `Cutover`, `SetActive`, `Smoke`, `Revert`, `ClearCooldown`, `Rollback`, `Fail`, `Open` | the remaining phases and `rollback` |
| `Error`, `Crash`, `ConnectionLost`, `CooldownElapses`, `JobRuns` | exceptions, the process, the broker, the clock, the jobs |

| Property | Says |
|---|---|
| `AbortWins` | a toggle the operator's abort claimed is never driven past the drain, on any delivery |
| `Fenced` | nobody takes the transition from the toggle that drives the cutover |
| `CutoverFenced` | the active backend moves only while writes are refused |
| `Unblocks` | writes are admitted again in the end, unless a failure was swallowed |

`Fenced` and `CutoverFenced` except toggles that had ended and were delivered
again: an abort that answered before such a delivery may still have its release
to make.

| Run | Instance | Result |
|---|---|---|
| `toggle_recover` | two events, two backends, one job, two faults, fairness | `TypeOK`, `AbortWins`, `Fenced`, `CutoverFenced`, `Unblocks` hold |

Two events are what it takes for one to release the other's transition; the second
fault is a crash during the recovery from the first. `FairSpec`: a request that
inserted its event publishes it (or swallows the failure), a message is consumed,
and `run_toggle` goes on; a crashed worker is replaced. Nobody has to abort, and no
job has to end. Deadlock checking is off: a swallowed exception after the drain
really stops the system, with the event live, abort and submit both answering 409.

What the code does that a reader might not expect, seen in the model:

* A crash between cutover and smoke test: the redelivery stands down and releases
  the transition, with the event aborted and an untested backend active.
* A repeated delivery recognises only aborted events: a failed toggle runs again, a
  completed one within the cooldown becomes 'aborted'.
* The drain cancels a straggler and inserts its retry in two statements
  (`drain.py:56`, `61`); a crash between them loses the job.
* from_id is read at submission; a second queued toggle delivered after the
  cooldown reverts to a backend that is no longer the previous one.

Left out: the advisory lock (taken for reliable; its connection may be lost
unnoticed) and the standby, the caches of the routers, and what the probes and
scripts do outside the database, of which success or failure is kept.

## 7. Proofs

All proofs are for arbitrary constants, subject to the named assumptions of the
modules (`ConstantsAssumption`, `RollupAssumption`, `QueueTree`, `Placement`,
`Turns`, `LeafAssumption`, `ToggleAssumption`), which say that maps are functions
between the given sets, that markers such as `NoOwner` and `None` are not elements,
that there are finitely many snapshots, and that bounds and the queues' quanta
(1 / weight, weights being 1 to 8) are naturals. TLC evaluates them on every run,
and every inductive invariant was checked by TLC on the instances of its module's
runs before it was proved. Where a proof is split over two modules, `...Steps` holds
what the actions do and `...Proofs` the theorems.

### `PartitionLeaseProofs.tla`

The inductive invariant `Inv` is

* `TypeOK`;
* `TaskInv`: a task that holds a delivery or runs is on a partition;
* `TokenInv`: the token a working task bound is not ahead of its row's, the shard
  is in `claimed`, and two tasks working on one shard have different tokens;
* `ClaimInv`: a shard in `claimed` shows evidence of it (or is terminal), and one
  outside `claimed` is as the fan-out left it but for its age and token;
* `DeadLetterVerdict`.

`FenceExclusive` alone is not inductive: it says nothing about the tokens of
tasks that fail the fence today. What makes it so is that tokens only grow and
that every claim binds a new one. The proof therefore goes through two
relations on steps: every step moves each row `Later` (the token does not fall,
and so on), and leaves each task with the same binding or with the binding of a
fresh claim. One lemma per action establishes both; `Invariance` combines them.

`RegistryTight` speaks of rows that the registering process still owns, and a row may
be taken away and claimed again under the same entry. `RegInv` drops that condition
and is inductive beside `Inv`: a registered row always has a working handler of the
process, because each path that ends a handler's work unregisters the row with it,
and a process that dies loses its registry.
`LiveLeaseKept` is shown action by action: each writer either tests the fence, or a
lapsed lease or dead owner, or is the cancel-guard.

`ImplementsPromise` maps rows and tasks to fates, grants and leases and shows that
every action is a `Claim`, `Revoke`, `Finish`, `GiveUp`, `Overrule`, `Cancel` or a
stutter. A grant is the fence, so the argument rests on what a step can do to it:
only `_claim_partition` gives a task the fence, of an open shard whose lease is not
live, and its new token takes it from everyone else (`TokenInv`); any other step
can only take it away (`FenceBack`), and which tasks lose it is the `Revoke`. What a
step does to the fates is shown writer by writer: a settlement passes the fence, the
sweeps test lease or owner, and only the cancel-guard does neither.

| Theorem | States |
|---|---|
| `Invariance` | `Spec => []Inv` |
| `TypeCorrect`, `FenceExclusion`, `EvidenceKept`, `DeadLetters` | `Spec => []` of the property |
| `Finality` | `Spec => TerminalFinal` |
| `StolenForGood` | `Spec => StolenStaysStolen` |
| `RegistryKept` | `Spec => []RegistryTight` |
| `LeaseRespected` | `Spec => LiveLeaseKept` |
| `ImplementsPromise` | `Spec => KeepsPromise` |

### `SnapshotRollupSteps.tla`, `SnapshotRollupProofs.tla`

The inductive invariant `IInv` is

* `Typed`: the rows, the finalizers' locals and the sweeps' notes;
* `Unborn`: before `create_snapshot` there is no row;
* `FannedLast`: a snapshot's shards come and go together, and the fan-out is the
  coordinator's last act;
* `CancelTraces`: cancel markers and clean-ups belong to cancelled jobs;
* `DriveLosses`: a OneDrive shard has no loss count, and only failed shards degrade
  its snapshot;
* `RescueSolid`: a rescued snapshot of a job that is not cancelled is COMPLETED and
  everything of it is stored;
* `CompletedSure`: neither the row nor a finalizer in flight says COMPLETED of a
  OneDrive, unless everything is stored, the job was cancelled or the reaper was
  there (`Sure`);
* `FinPlaces`: a finalizer on its way to a verdict works on a snapshot with shards,
  and only those of OneDrives promote.

`RescueHolds` alone is not inductive: STEP D and a late finalizer derive the status
anew from the shards, so the invariant has to say what the shards of a rescued
snapshot are (`RescueSolid`), and that they stay so needs `FannedLast` and
`DriveLosses`. `CursorHonest` is about the promotion, several transactions after the
status was read; `CompletedSure` carries the reason along with the finalizer. The
argument goes through one relation per row, `Later`, which says what any step may do
to a snapshot: it keeps `Sure`, keeps a rescue, does not revive what a teardown has
claimed. Every action is shown to move every row `Later`; the invariant and
`TeardownFinal` follow from that once, not action by action. `JobFinal` needs that
only the rescue writes to a settled job.

| Theorem | States |
|---|---|
| `RollupInvariance` | `Spec => []IInv` |
| `RollupTypes`, `RescueStands` | `Spec => []` of `TypeOK`, `RescueHolds` |
| `ClaimStands`, `VerdictStands`, `CursorFollows` | `Spec =>` `TeardownFinal`, `JobFinal`, `CursorHonest` |

### `CopyTasksSteps.tla`, `CopyTasksProofs.tla`

The inductive invariant `IInv` is

* `Typed`: the shapes of the rows, without the ranges of their counters;
* `RowInv`: a row is COMPLETED exactly at its last batch, live only while RUNNING,
  and its executions are paid for by its reservations, of which there are three;
* `ClaimInv`: a claim that has not executed still has its own reservation;
* `LastInv`: the barrier a publication's claim passed stays passed;
* `OpenInv`: a workflow with an active parent is draining or waiting;
* `ExecutorOwns`.

`BudgetHolds` alone is not inductive: what bounds the executions is the attempts
counter, so the invariant relates history and counter, and a claim in hand to the
counter. `ImplementsPromise` maps a row to (workflow state, checkpoint, verdict)
and shows that every action is a `Seal`, `Copy`, `GiveUp`, `Cancel` or a stutter:
`Copy` needs `ExecutorOwns` (the batch lands in a waiting workflow and an open
task) and `LastInv`.

The ranges of `TypeOK` are a second invariant, `Ranges`, inductive beside `IInv`. A
spent execution writes one more than the larger of the failures and the earlier
attempts, so the bound of three on failures needs both: that an open row has failed
at most twice, and that a claim which executes, or settles an execution as spent,
has at most three attempts (`InBudget`) as long as it owns its row. The turns of the
queues stay within `MaxLead` because every change is made relative to the least
backlogged sibling.

| Theorem | States |
|---|---|
| `Invariance` | `Spec => []IInv` |
| `OwnershipSafe`, `BudgetSafe` | `Spec => []` of `ExecutorOwns`, `BudgetHolds` |
| `CopyTypes` | `Spec => []TypeOK` |
| `LiveClaimKept` | `Spec => ClaimKept` |
| `ImplementsPromise` | `Spec => KeepsPromise` |

### `LeafWorkSteps.tla`, `LeafWorkProofs.tla`

The inductive invariant `IInv` is

* `Shape`: the full types; only a finished row has a receipt, a busy slot has a leaf;
* `Rows`: copies and turns come after the provider row, which is never deleted;
* `HandedOver`, `LeafCarried`, `BarrierHolds`;
* `FailsOnce`: a turn that holds its row's claim and is not past its mark finds the
  leaf terminal only if it failed it;
* `MarkedFirst`: past the mark, a turn that still owns row and leaf has made the leaf
  terminal.

The last two are what the properties miss. `finish_work` ends the provider row
without looking at the leaf: that `LeafCarried` survives it rests on `MarkedFirst`.
`fail_exhausted_work` fails a leaf that may be terminal already: that `LeafFinal`
survives it rests on `FailsOnce`. The steps are described field by field first (which
steps write a row, take a claim, move a token), so that each conjunct has one lemma
over all actions.

`ImplementsCustody` shows that every action is a step of `LeafCustody` on the leaf it
works on (`Moves`, one lemma per action or group of actions), a step of the parents, or
a stutter. It needs every conjunct of `IInv` and one more invariant, `Cleared`: a
cancelled job has no active provider work. With it the mark of a turn, which looks at
its claim and not at the job, comes only while the job runs. An admission
that refuses a row with another token leaves no running leaf by `LeafCarried`,
`finish_work` leaves an ended one by `MarkedFirst`, `fail_exhausted_work` changes no
verdict by `FailsOnce`, and the two keepers exclude each other by `HandedOver`.

| Theorem | States |
|---|---|
| `LeafInvariance` | `Spec => []IInv` |
| `LeafTypes`, `OneOwner`, `NeverStranded`, `Barrier` | `Spec => []` of `TypeOK`, `HandedOver`, `LeafCarried`, `BarrierHolds` |
| `VerdictOnce` | `Spec => LeafFinal` |
| `ImplementsCustody` | `Spec => KeepsCustody` |

### `StorageToggleProofs.tla`

`IInv` is `TypeOK` with

* `ClaimsKept`: a claimed event stays aborted;
* `Inserted`: only inserted events have messages;
* `Waiting`: before the end of the drain a toggle of a first delivery has not ended;
* `Past`: after it, it is live;
* `Pending`: an abort on its way to its release is of an event that has ended;
* `Kept`: the transition the toggle set is still there.

`Past` is the centre: the release of any other event looks for a live toggle, and a
toggle past its drain is one, so nobody but the toggle itself resets the
transition. `AbortWins` follows from `ClaimsKept` and `Past`: a claimed event is
aborted, and a driven one is not.

| Theorem | States |
|---|---|
| `ToggleInvariance` | `Spec => []IInv` |
| `ToggleTypes`, `AbortSafe`, `FenceSafe` | `Spec => []` of `TypeOK`, `AbortWins`, `Fenced` |
| `CutoverSafe` | `Spec => CutoverFenced` |

### Only model-checked

Liveness (`Settles` of `PartitionLease` and of `LeafWork`, `JobSettles`, `Converges`,
`TornDown`, `Drains`, `Unblocks`): liveness under fairness is outside what TLAPS can
do, as is ENABLED. `HonestVerdict` of `LeafWork` is false, and its run shows the
counterexample. Every invariant, action property and refinement of the passing runs
has a theorem above.

## 8. Not modelled

`PROJECT.json` gives the reason for each part. In groups:

* Parts with interacting actors that a further module could cover: batch roll-up
  (`batch_rollup.py`), blob deduplication against garbage collection, retention
  against restore pins, dispatch policy, the spool and catalogue of chat capture,
  replication, key rotation. Nothing stands in the way but size; none of the
  modules above depends on them.
* Provider admission (`provider_admission.py`): its state lives in Lua scripts
  inside Redis and follows that server's clock. `LeafWork` takes an admission as
  granted or refused.
* Coordinators of partitioned snapshots and provider work of unpartitioned ones:
  they would join `LeafWork` and `SnapshotRollup` into one state space, which is
  out of TLC's reach at two leaves and two slots.
* Storage routing: each process polls the active backend; whether a write slips
  past the fence depends on polling intervals.
* Content: the drains of the workloads, restore engines, Azure operations,
  discovery, exports, archive capture, Graph clients, the PST writer. Long
  sequential conversions against external services. They are most of the lines of
  the repository, and the models keep of them that they return or raise.
* CRUD and query services, schema, configuration, metrics: input and output around
  the rows modelled here.

The mapped lines are therefore a small share of the repository's: the models cover
the control of the rows several actors move, not the volume of the code.
