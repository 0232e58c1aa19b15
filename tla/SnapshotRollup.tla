--------------------------- MODULE SnapshotRollup ---------------------------
(***************************************************************************)
(* How the outcome of a partitioned backup is rolled up: from the shards    *)
(* to their snapshot, from the snapshots to the bulk parent job, and from a *)
(* complete snapshot to the resource's delta cursor.  The same rows are     *)
(* written by the finalizer of every shard handler (four transactions, any  *)
(* two of them interleaved), by the OneDrive rescue, by three sweeps of the *)
(* scheduler (reconciler STEPs B, C and D, the stale-snapshot reaper, the   *)
(* bulk-parent backstop), by cancel_job, by the clean-up a cancel starts and *)
(* by the teardown of cancelled snapshots.                                  *)
(*                                                                         *)
(* How a shard reaches its terminal status is module PartitionLease; here   *)
(* it takes one step.  One step is one database transaction.  Item counts   *)
(* and bytes are left out.  Every snapshot is a partitioned one, or ends    *)
(* before it fans out; the guards on durable copy and provider work are     *)
(* TRUE.                                                                    *)
(***************************************************************************)
EXTENDS Naturals, FiniteSets

CONSTANTS
    Job,         \* bulk parent jobs
    Snap,        \* snapshots: one per job and resource of its batch
    Shard,       \* rows of snapshot_partitions
    Resource,    \* backed up resources
    Finalizer,   \* shard handlers that may be in their finalizer at once
    JobOf,       \* Snap -> Job
    ResOf,       \* Snap -> Resource
    SnapOf,      \* Shard -> Snap
    Drives,      \* which sets of resources may be the OneDrives
    Cancellable, \* jobs somebody may cancel
    NoSnap       \* no snapshot

ASSUME RollupAssumption ==
    /\ JobOf \in [Snap -> Job]
    /\ ResOf \in [Snap -> Resource]
    /\ SnapOf \in [Shard -> Snap]
    /\ Drives \subseteq SUBSET Resource
    /\ Cancellable \subseteq Job
    /\ NoSnap \notin Snap
    /\ IsFiniteSet(Snap)

VARIABLES
    job,       \* jobs.status
    snap,      \* the snapshots rows
    shard,     \* snapshot_partitions.status, with failure_state folded in
    coord,     \* where the coordinator of each snapshot is
    retry,     \* onedrive_file_retries of each snapshot
    cursor,    \* of each resource: is it a OneDrive, its pending and active delta cursor
    fin,       \* the shard handlers' finalizers
    doomed,    \* how far the teardown sweep is with each snapshot
    purge      \* the clean-ups of each cancelled job that are under way

vars == <<job, snap, shard, coord, retry, cursor, fin, doomed, purge>>

-----------------------------------------------------------------------------
(***************************************************************************)
(* The data.                                                               *)
(***************************************************************************)

\* Terminal statuses of a snapshot that hold a verdict on its backup.
Settled == {"COMPLETED", "PARTIAL", "FAILED"}

\* Those the job's roll-up counts.
Counted == Settled \cup {"SKIPPED"}

\* A snapshot's row exists.
HasRow(r) == r.status \notin {"ABSENT", "DELETED"}

\* CLEAN and LOSSY are status COMPLETED without and with files_failed > 0;
\* LOST is FAILED for file content alone, which a rescue can make good.
DoneShard == {"CLEAN", "LOSSY"}
FailedShard == {"LOST", "FAILED"}

ShardsOf(s) == {p \in Shard : SnapOf[p] = s}
Children(j) == {s \in Snap : JobOf[s] = j}

\* Snapshots of a OneDrive: with a delta cursor and a rescue.
OneDrive == {s \in Snap : cursor[ResOf[s]].drive}

\* Is some shard, are all shards of s in one of the statuses S?
Some(d, s, S) == \E p \in ShardsOf(s) : d[p] \in S
All(d, s, S) == \A p \in ShardsOf(s) : d[p] \in S

Partitioned(d, s) == Some(d, s, {"PENDING"} \cup DoneShard \cup FailedShard)
Pending(d, s) == Some(d, s, {"PENDING"})
Drained(d, s) == Partitioned(d, s) /\ ~Pending(d, s)

NewRow == [status |-> "IN_PROGRESS", lease |-> "live",
           degraded |-> FALSE, cancelled |-> FALSE, reconciled |-> FALSE,
           rescued |-> FALSE, reaped |-> FALSE]

Idle == [pc |-> "idle", snap |-> NoSnap, status |-> "IN_PROGRESS",
         preempted |-> FALSE]

Init ==
    /\ job = [j \in Job |-> "RUNNING"]
    /\ snap = [s \in Snap |-> [NewRow EXCEPT !.status = "ABSENT", !.lease = "null"]]
    /\ shard = [p \in Shard |-> "ABSENT"]
    /\ coord = [s \in Snap |-> "waiting"]
    /\ retry = [s \in Snap |-> "none"]
    /\ \E D \in Drives :
          cursor = [r \in Resource |-> [drive |-> r \in D, pending |-> NoSnap, active |-> NoSnap]]
    /\ fin = [h \in Finalizer |-> Idle]
    /\ doomed = [s \in Snap |-> "no"]
    /\ purge = [j \in Job |-> [due |-> 0, ids |-> {}]]

-----------------------------------------------------------------------------
(***************************************************************************)
(* Statuses derived from the shards and from the children.                  *)
(***************************************************************************)

\* The finalizer's first write, the CTE over the shard counts.
FlippedStatus(d, s) ==
    IF ~Some(d, s, DoneShard) THEN "FAILED"
    ELSE IF Some(d, s, FailedShard \cup {"LOSSY"}) THEN "PARTIAL" ELSE "COMPLETED"

\* Mutant: the second look asks for lossy shards but not for failed ones.
MutFailedForgotten(d, s) == IF Some(d, s, {"LOSSY"}) THEN "PARTIAL" ELSE "COMPLETED"

\* The finalizer's second look at the shards, in its reconcile transaction.
DerivedStatus(d, s) ==
    IF All(d, s, FailedShard) THEN "FAILED"
    ELSE IF Some(d, s, FailedShard \cup {"LOSSY"}) THEN "PARTIAL" ELSE "COMPLETED"

\* Reconciler STEP B on a drained snapshot.
StepBStatus(d, s, r) ==
    IF Some(d, s, {"LOSSY"}) \/ r.degraded THEN "PARTIAL"
    ELSE IF All(d, s, DoneShard) THEN "COMPLETED"
    ELSE IF All(d, s, FailedShard) THEN "FAILED" ELSE "PARTIAL"

\* Mutant: STEP D without its lossy term.
MutLossForgotten(d, s, r) ==
    IF All(d, s, FailedShard) THEN "FAILED"
    ELSE IF Some(d, s, FailedShard) \/ r.degraded THEN "PARTIAL" ELSE "COMPLETED"

\* Reconciler STEP D on a drained snapshot that is terminal already.
StepDStatus(d, s, r) ==
    IF All(d, s, FailedShard) THEN "FAILED"
    ELSE IF Some(d, s, FailedShard \cup {"LOSSY"}) \/ r.degraded THEN "PARTIAL" ELSE "COMPLETED"

\* The verdict of the worker's and the backstop's roll-up on counted children.
BatchVerdict(sn, j) ==
    LET statuses == {sn[s].status : s \in Children(j)}
    IN  IF statuses \cap {"COMPLETED", "SKIPPED", "PARTIAL"} = {} THEN "FAILED"
        ELSE IF statuses \cap {"PARTIAL", "FAILED"} # {} THEN "PARTIAL" ELSE "COMPLETED"

AllCounted(sn, j) == \A s \in Children(j) : sn[s].status \in Counted

\* Mutant: the roll-up forgets that CANCELLED is terminal too.
MutCancelForgotten(j, sn, d) ==
    IF job[j] \in Settled \/ ~AllCounted(sn, j) \/ \E s \in Children(j) : Pending(d, s)
    THEN job[j]
    ELSE BatchVerdict(sn, j)

\* _finalize_bulk_parent_if_complete: the parent's status after the call.
BulkStatus(j, sn, d) ==
    IF \/ job[j] \in Settled \cup {"CANCELLED"}
       \/ ~AllCounted(sn, j)
       \/ \E s \in Children(j) : Pending(d, s)
    THEN job[j]
    ELSE BatchVerdict(sn, j)

\* Reconciler STEP C: the children that have a row decide, the others do not.
StepCStatus(j, sn) ==
    LET rows == {s \in Children(j) : HasRow(sn[s])}
        statuses == {sn[s].status : s \in rows}
    IN  IF job[j] # "RUNNING" \/ rows = {} \/ "IN_PROGRESS" \in statuses THEN job[j]
        ELSE IF statuses \cap {"COMPLETED", "PARTIAL", "SKIPPED"} = {} THEN "FAILED"
        ELSE IF statuses \cap {"PARTIAL", "FAILED"} # {} THEN "PARTIAL" ELSE "COMPLETED"

-----------------------------------------------------------------------------
(***************************************************************************)
(* The coordinator: the handler of the snapshot's own backup message.       *)
(***************************************************************************)

\* Another job is walking this resource under a live lease.
OtherActive(s) ==
    \E t \in Snap : /\ ResOf[t] = ResOf[s] /\ JobOf[t] # JobOf[s]
                     /\ snap[t].status = "IN_PROGRESS" /\ snap[t].lease = "live"

\* Intake: a cancelled job's message is dropped and starts a clean-up of the
\* job; a resource another job is walking only gets a placeholder row.
Intake(s) ==
    LET j == JobOf[s]
    IN  /\ coord[s] = "waiting"
        /\ \/ /\ job[j] = "CANCELLED"
              /\ coord' = [coord EXCEPT ![s] = "done"]
              /\ purge' = [purge EXCEPT ![j].due = @ + 1]
           \/ /\ job[j] # "CANCELLED"
              /\ coord' = [coord EXCEPT ![s] = IF OtherActive(s) THEN "skipping" ELSE "accepted"]
              /\ UNCHANGED purge
        /\ UNCHANGED <<job, snap, shard, retry, cursor, fin, doomed>>

\* create_snapshot.  The job is not looked at again.
CreateSnapshot(s) ==
    /\ coord[s] \in {"accepted", "skipping"}
    /\ snap' = [snap EXCEPT ![s] = NewRow]
    /\ coord' = [coord EXCEPT ![s] = IF @ = "skipping" THEN "placeholder" ELSE "walking"]
    /\ UNCHANGED <<job, shard, retry, cursor, fin, doomed, purge>>

\* The placeholder becomes SKIPPED unless somebody settled it first.
MarkSkipped(s) ==
    /\ coord[s] = "placeholder"
    /\ snap' = [snap EXCEPT ![s].status = IF @ = "IN_PROGRESS" THEN "SKIPPED" ELSE @]
    /\ coord' = [coord EXCEPT ![s] = "done"]
    /\ UNCHANGED <<job, shard, retry, cursor, fin, doomed, purge>>

\* The enumeration ended: its delta link becomes the resource's pending
\* cursor, whosever cursor was pending.  The stash may fail; only a OneDrive
\* has one.
Stash(s) ==
    /\ coord[s] = "walking"
    /\ coord' = [coord EXCEPT ![s] = "enumerated"]
    /\ \/ s \in OneDrive /\ cursor' = [cursor EXCEPT ![ResOf[s]].pending = s]
       \/ UNCHANGED cursor
    /\ UNCHANGED <<job, snap, shard, retry, fin, doomed, purge>>

\* The shards are inserted, whatever the snapshot's status is by now; a row
\* that is gone fails the foreign key.  A fan-out has at least one shard.
FanOut(s) ==
    /\ coord[s] = "enumerated" /\ HasRow(snap[s]) /\ ShardsOf(s) # {}
    /\ shard' = [p \in Shard |-> IF SnapOf[p] = s THEN "PENDING" ELSE shard[p]]
    /\ coord' = [coord EXCEPT ![s] = "done"]
    /\ UNCHANGED <<job, snap, retry, cursor, fin, doomed, purge>>

\* _write_snapshot_terminal with fail_snapshot's values: only an IN_PROGRESS or
\* FAILED row is written; a handler stopped by the cancel leaves its marker.
FailedRow(r, byCancel) ==
    IF r.status \in {"IN_PROGRESS", "FAILED"}
    THEN [r EXCEPT !.status = "FAILED", !.cancelled = @ \/ byCancel]
    ELSE r

\* The handler raised before it fanned out; the parent's roll-up follows.
WalkFails(s) ==
    /\ coord[s] \in {"walking", "enumerated"}
    /\ \E byCancel \in {FALSE, job[JobOf[s]] = "CANCELLED"} :
          snap' = [snap EXCEPT ![s] = FailedRow(@, byCancel)]
    /\ coord' = [coord EXCEPT ![s] = "failed"]
    /\ UNCHANGED <<job, shard, retry, cursor, fin, doomed, purge>>

RollFailed(s) ==
    /\ coord[s] = "failed"
    /\ job' = [job EXCEPT ![JobOf[s]] = BulkStatus(JobOf[s], snap, shard)]
    /\ coord' = [coord EXCEPT ![s] = "done"]
    /\ UNCHANGED <<snap, shard, retry, cursor, fin, doomed, purge>>

\* The process dies under the handler, and nothing of it runs again.
CoordinatorDies(s) ==
    /\ coord[s] \in {"placeholder", "walking", "enumerated", "failed"}
    /\ coord' = [coord EXCEPT ![s] = "done"]
    /\ UNCHANGED <<job, snap, shard, retry, cursor, fin, doomed, purge>>

\* The snapshot's lease runs out, or the coordinator's process renews it: only
\* while the row is IN_PROGRESS, and for a fanned out one until it is settled.
Lapse(s) ==
    /\ snap[s].lease = "live"
    /\ snap' = [snap EXCEPT ![s].lease = "lapsed"]
    /\ UNCHANGED <<job, shard, coord, retry, cursor, fin, doomed, purge>>

Renew(s) ==
    /\ snap[s].lease = "lapsed" /\ snap[s].status = "IN_PROGRESS"
    /\ coord[s] # "done" \/ Partitioned(shard, s)
    /\ snap' = [snap EXCEPT ![s].lease = "live"]
    /\ UNCHANGED <<job, shard, coord, retry, cursor, fin, doomed, purge>>

-----------------------------------------------------------------------------
(***************************************************************************)
(* Shard handlers and _finalize_partitioned_snapshot.                       *)
(***************************************************************************)

\* What a drained shard can leave: a OneDrive shard that lost files is FAILED
\* and queues them for rescue, another shard is COMPLETED with a loss count.
Outcomes(s) == {"CLEAN", "FAILED"} \cup IF s \in OneDrive THEN {"LOST"} ELSE {"LOSSY"}

\* A handler drains shard p, writes it terminal and enters the finalizer.
\* Items land in the snapshot; other types may declare it degraded.
Drain(h, p) ==
    LET s == SnapOf[p]
    IN  /\ fin[h].pc = "idle" /\ shard[p] = "PENDING"
        /\ \E o \in Outcomes(s), g \in {FALSE, s \notin OneDrive} :
              /\ shard' = [shard EXCEPT ![p] = o]
              /\ snap' = [snap EXCEPT ![s].degraded = @ \/ g]
              /\ retry' = [retry EXCEPT ![s] = IF o = "LOST" THEN "open" ELSE @]
        /\ fin' = [fin EXCEPT ![h] = [Idle EXCEPT !.pc = "flip", !.snap = s]]
        /\ UNCHANGED <<job, coord, cursor, doomed, purge>>

\* A sweep gives up on the shard (retries or requeues exhausted); no finalizer
\* runs.  Under a cancelled job the stale-sweep's guard fails a shard it has
\* reset earlier in the tick whatever became of the shard since.
GiveUp(p) ==
    /\ \/ shard[p] = "PENDING"
       \/ shard[p] \in DoneShard \cup {"LOST"} /\ job[JobOf[SnapOf[p]]] = "CANCELLED"
    /\ shard' = [shard EXCEPT ![p] = "FAILED"]
    /\ UNCHANGED <<job, snap, coord, retry, cursor, fin, doomed, purge>>

\* A finalizer's process dies between two of its transactions.
FinalizerDies(h) ==
    /\ fin[h].pc # "idle"
    /\ fin' = [fin EXCEPT ![h] = Idle]
    /\ UNCHANGED <<job, snap, shard, coord, retry, cursor, doomed, purge>>

\* Transaction 1: the flip.  It stands down while a shard is pending or when
\* the row is gone, and finds itself preempted if the row is not IN_PROGRESS.
Flip(h) ==
    LET s == fin[h].snap
        to == FlippedStatus(shard, s)
    IN  /\ fin[h].pc = "flip"
        /\ \/ /\ ~HasRow(snap[s]) \/ (snap[s].status = "IN_PROGRESS" /\ ~Drained(shard, s))
              /\ fin' = [fin EXCEPT ![h] = Idle]
              /\ UNCHANGED snap
           \/ /\ snap[s].status = "IN_PROGRESS" /\ Drained(shard, s)
              /\ snap' = [snap EXCEPT ![s].status = to]
              /\ fin' = [fin EXCEPT ![h].pc = "reconcile", ![h].status = to]
           \/ /\ HasRow(snap[s]) /\ snap[s].status # "IN_PROGRESS"
              /\ fin' = [fin EXCEPT ![h].pc = "preempted", ![h].preempted = TRUE]
              /\ UNCHANGED snap
        /\ UNCHANGED <<job, shard, coord, retry, cursor, doomed, purge>>

\* Mutant: the preempted finalizer does not ask for a verdict.
MutAnyStatus(r, s) == ~r.reconciled /\ ~Pending(shard, s)

\* A preempted finalizer goes on only over a verdict nobody has reconciled.
MayReconcile(r, s) == r.status \in Settled /\ ~r.reconciled /\ ~Pending(shard, s)

\* The read behind a lost flip: a PARTIAL that every shard contradicts is taken
\* for COMPLETED.
Preempted(h) ==
    LET s == fin[h].snap
        r == snap[s]
    IN  /\ fin[h].pc = "preempted"
        /\ fin' = [fin EXCEPT ![h] =
                      IF ~HasRow(r) \/ ~MayReconcile(r, s) THEN Idle
                      ELSE [@ EXCEPT !.pc = "reconcile",
                                     !.status = IF r.status = "PARTIAL" /\ All(shard, s, DoneShard)
                                                THEN "COMPLETED" ELSE r.status]]
        /\ UNCHANGED <<job, snap, shard, coord, retry, cursor, doomed, purge>>

\* Mutant: the reconcile transaction does not look for a teardown claim.
MutClaimUnseen(r) == FALSE

\* A sweep has claimed the row for teardown: nothing may be written over it.
ClaimedForTeardown(r) == r.status = "PENDING_DELETION"

\* Transaction 2, under the job's KEY SHARE and the snapshot's row lock: the
\* verdict is derived again from the shards as they are now, a degraded
\* snapshot is never COMPLETED, and a cancelled job has the last say.  The last
\* step changes the row and not the finalizer's own copy of the status.
ReconciledRow(r, s, f) ==
    LET drained == Drained(shard, s)
        derived == DerivedStatus(shard, s)
        upgraded == IF f.preempted /\ f.status = "COMPLETED" /\ r.status = "PARTIAL"
                    THEN "COMPLETED" ELSE r.status
        checked == IF drained THEN derived ELSE upgraded
        degraded == r.degraded \/ (drained /\ derived # "COMPLETED")
        honest == IF degraded /\ checked = "COMPLETED" THEN "PARTIAL" ELSE checked
        coerce == honest \in {"COMPLETED", "PARTIAL"} /\ job[JobOf[s]] = "CANCELLED"
    IN  [row |-> [r EXCEPT !.status = IF coerce THEN "FAILED" ELSE honest,
                           !.degraded = degraded, !.reconciled = TRUE],
         status |-> IF honest # checked \/ checked # upgraded THEN honest ELSE f.status]

Reconcile(h) ==
    LET s == fin[h].snap
        r == snap[s]
        rec == ReconciledRow(r, s, fin[h])
    IN  /\ fin[h].pc = "reconcile"
        /\ \/ ~HasRow(r) /\ fin' = [fin EXCEPT ![h] = Idle] /\ UNCHANGED snap
           \/ /\ ClaimedForTeardown(r)
              /\ fin' = [fin EXCEPT ![h].pc = "roll", ![h].preempted = FALSE]
              /\ UNCHANGED snap
           \/ /\ HasRow(r) /\ ~ClaimedForTeardown(r)
              /\ snap' = [snap EXCEPT ![s] = rec.row]
              /\ fin' = [fin EXCEPT ![h] = [@ EXCEPT !.pc = "roll", !.status = rec.status,
                                                     !.preempted = FALSE]]
        /\ UNCHANGED <<job, shard, coord, retry, cursor, doomed, purge>>

\* Transaction 3: the parent.  Then a COMPLETED run promotes its cursor and any
\* other looks for a finished rescue; both concern OneDrives alone.
Roll(h) ==
    LET s == fin[h].snap
    IN  /\ fin[h].pc = "roll"
        /\ job' = [job EXCEPT ![JobOf[s]] = BulkStatus(JobOf[s], snap, shard)]
        /\ fin' = [fin EXCEPT ![h] =
                      IF s \notin OneDrive THEN Idle
                      ELSE [Idle EXCEPT !.pc = IF fin[h].status = "COMPLETED" THEN "promote" ELSE "rescue",
                                        !.snap = s]]
        /\ UNCHANGED <<snap, shard, coord, retry, cursor, doomed, purge>>

\* Mutant: any run takes whatever cursor is pending.
MutOwnerIgnored(c, s) == c.pending # NoSnap

\* _claim_pending_cursor: only the snapshot that stashed a cursor may take it.
Entitled(c, s) == c.pending = s

Promoted(c, s) == IF Entitled(c, s) THEN [c EXCEPT !.pending = NoSnap, !.active = c.pending] ELSE c

\* Transaction 4 of a COMPLETED run.  No status is read again.
Promote(h) ==
    LET s == fin[h].snap
    IN  /\ fin[h].pc = "promote"
        /\ cursor' = [cursor EXCEPT ![ResOf[s]] = Promoted(@, s)]
        /\ fin' = [fin EXCEPT ![h] = Idle]
        /\ UNCHANGED <<job, snap, shard, coord, retry, doomed, purge>>

-----------------------------------------------------------------------------
(***************************************************************************)
(* The OneDrive rescue: the lost files' bytes land in the settled snapshot, *)
(* and the snapshot is settled again.                                       *)
(***************************************************************************)

\* The last open file of s is rescued by worker h, which then tries to settle.
RescueFiles(h, s) ==
    /\ fin[h].pc = "idle" /\ retry[s] = "open"
    /\ snap[s].status \in Settled /\ ~snap[s].cancelled /\ ~Pending(shard, s)
    /\ job[JobOf[s]] # "CANCELLED"
    /\ retry' = [retry EXCEPT ![s] = "rescued"]
    /\ fin' = [fin EXCEPT ![h] = [Idle EXCEPT !.pc = "rescue", !.snap = s]]
    /\ UNCHANGED <<job, snap, shard, coord, cursor, doomed, purge>>

\* Every shard is clean or failed for the rescued files alone.
Rescuable(s) ==
    /\ job[JobOf[s]] # "CANCELLED"
    /\ snap[s].status \in {"FAILED", "PARTIAL"} /\ ~snap[s].cancelled
    /\ retry[s] = "rescued"
    /\ Partitioned(shard, s) /\ All(shard, s, {"CLEAN", "LOST"})

\* Mutant: the rescue leaves its shards FAILED.
MutShardsKept(s) == shard

\* _SHARDS: the failed shards of a rescued snapshot count as completed.
RescuedShards(s) == [p \in Shard |-> IF SnapOf[p] = s THEN "CLEAN" ELSE shard[p]]

\* _JOB: a job that ended PARTIAL or FAILED is rolled up once more, over the
\* rows it has; a resource of the batch without any row keeps it PARTIAL.
RescuedJob(j, sn, d) ==
    LET rows == {s \in Children(j) : HasRow(sn[s])}
        missing == {s \in Children(j) :
                      \A t \in Snap : ResOf[t] = ResOf[s] => ~HasRow(sn[t])}
    IN  IF \/ job[j] \notin {"PARTIAL", "FAILED"}
           \/ \E s \in rows : sn[s].status \notin Counted \/ Pending(d, s)
        THEN job[j]
        ELSE IF missing = {} /\ \A s \in rows : sn[s].status \in {"COMPLETED", "SKIPPED"}
             THEN "COMPLETED" ELSE "PARTIAL"

SettleRescued(h) ==
    LET s == fin[h].snap
        sn == [snap EXCEPT ![s].status = "COMPLETED", ![s].degraded = FALSE,
                           ![s].rescued = TRUE]
        d == RescuedShards(s)
    IN  /\ fin[h].pc = "rescue"
        /\ fin' = [fin EXCEPT ![h] = Idle]
        /\ IF Rescuable(s)
           THEN /\ snap' = sn /\ shard' = d
                /\ cursor' = [cursor EXCEPT ![ResOf[s]] = Promoted(@, s)]
                /\ job' = [job EXCEPT ![JobOf[s]] = RescuedJob(JobOf[s], sn, d)]
           ELSE UNCHANGED <<snap, shard, cursor, job>>
        /\ UNCHANGED <<coord, retry, doomed, purge>>

-----------------------------------------------------------------------------
(***************************************************************************)
(* The sweeps of the scheduler and the cancellation.                        *)
(***************************************************************************)

\* Mutant: STEP B waits for a dead lease whether the snapshot fanned out or not.
MutLeaseFirst(r, s) ==
    IF r.status # "IN_PROGRESS" \/ Pending(shard, s) \/ r.lease # "lapsed" THEN r
    ELSE [r EXCEPT !.status = IF Partitioned(shard, s) THEN StepBStatus(shard, s, r) ELSE "FAILED",
                   !.lease = "null"]

\* STEP B settles a drained snapshot at once, and one that never fanned out
\* when its lease is dead.
StepB(r, s) ==
    IF \/ r.status # "IN_PROGRESS" \/ Pending(shard, s)
       \/ ~Partitioned(shard, s) /\ r.lease # "lapsed"
    THEN r
    ELSE [r EXCEPT !.status = IF Partitioned(shard, s) THEN StepBStatus(shard, s, r) ELSE "FAILED",
                   !.lease = "null"]

\* STEP D corrects a settled snapshot its shards contradict.
StepD(r, s) ==
    IF r.status \in Settled /\ Drained(shard, s) /\ r.status # StepDStatus(shard, s, r)
    THEN [r EXCEPT !.status = StepDStatus(shard, s, r), !.lease = "null"]
    ELSE r

\* STEPs B, C and D of sweep_orphans, one transaction.  STEP A is GiveUp.
Sweep ==
    LET afterB == [s \in Snap |-> StepB(snap[s], s)]
    IN  /\ job' = [j \in Job |-> StepCStatus(j, afterB)]
        /\ snap' = [s \in Snap |-> StepD(afterB[s], s)]
        /\ UNCHANGED <<shard, coord, retry, cursor, fin, doomed, purge>>

\* The stale-snapshot reaper judges by the items, not by the shards' statuses:
\* a shard may have stored some before it failed, or completed without any.
ReapStatus(s, hasItems) ==
    IF ~hasItems THEN "FAILED"
    ELSE IF Some(shard, s, {"LOSSY"}) THEN "PARTIAL" ELSE "COMPLETED"

Reap(s) ==
    /\ snap[s].status = "IN_PROGRESS" /\ snap[s].lease # "live"
    /\ ~Pending(shard, s)
    /\ \E hasItems \in BOOLEAN :
          snap' = [snap EXCEPT ![s].status = ReapStatus(s, hasItems), ![s].reaped = TRUE]
    /\ UNCHANGED <<job, shard, coord, retry, cursor, fin, doomed, purge>>

\* The bulk-parent backstop: the worker's roll-up without its look at shards.
Backstop(j) ==
    /\ job[j] = "RUNNING" /\ AllCounted(snap, j)
    /\ job' = [job EXCEPT ![j] = BatchVerdict(snap, j)]
    /\ UNCHANGED <<snap, shard, coord, retry, cursor, fin, doomed, purge>>

\* cancel_job: running snapshots fail, finished ones are only marked.
CancelledRow(r) ==
    CASE r.status = "IN_PROGRESS" -> [r EXCEPT !.status = "FAILED", !.cancelled = TRUE]
      [] r.status \in {"COMPLETED", "PARTIAL"} -> [r EXCEPT !.cancelled = TRUE]
      [] OTHER -> r

\* The clean-up is started with the cancel and runs after it.
CancelJob(j) ==
    /\ j \in Cancellable /\ job[j] = "RUNNING"
    /\ job' = [job EXCEPT ![j] = "CANCELLED"]
    /\ snap' = [s \in Snap |-> IF JobOf[s] = j THEN CancelledRow(snap[s]) ELSE snap[s]]
    /\ purge' = [purge EXCEPT ![j].due = @ + 1]
    /\ UNCHANGED <<shard, coord, retry, cursor, fin, doomed>>

\* cleanup_cancelled_snapshots: the job's running and completed snapshots are
\* listed, their bytes deleted, and at last the listed rows are set FAILED,
\* whatever they have become.  Clean-ups of a job that overlap write together.
CleanupReads(j) ==
    LET found == {s \in Children(j) : snap[s].status \in {"IN_PROGRESS", "COMPLETED"}}
    IN  /\ purge[j].due > 0
        /\ purge' = [purge EXCEPT ![j] = [due |-> @.due - 1, ids |-> @.ids \cup found]]
        /\ UNCHANGED <<job, snap, shard, coord, retry, cursor, fin, doomed>>

CleanupWrites(j) ==
    /\ purge[j].ids # {}
    /\ snap' = [s \in Snap |-> IF s \in purge[j].ids /\ HasRow(snap[s])
                               THEN [snap[s] EXCEPT !.status = "FAILED"] ELSE snap[s]]
    /\ purge' = [purge EXCEPT ![j].ids = {}]
    /\ UNCHANGED <<job, shard, coord, retry, cursor, fin, doomed>>

\* Mutant: only FAILED snapshots are torn down, as in population A.
MutFailedOnly(r, s) ==
    \/ r.cancelled /\ r.status = "FAILED"
    \/ r.status = "IN_PROGRESS" /\ job[JobOf[s]] \in {"CANCELLED", "FAILED"}
    \/ r.status = "PENDING_DELETION"

\* The populations of the teardown sweep: marked by a cancel, created behind its
\* back, or claimed by a sweep that died.
Doomed(r, s) ==
    \/ r.cancelled
    \/ r.status = "IN_PROGRESS" /\ job[JobOf[s]] \in {"CANCELLED", "FAILED"}
    \/ r.status = "PENDING_DELETION"

\* The teardown of cancelled snapshots: candidates are read, then claimed one by
\* one under a second look at the row (not at its shards), then deleted.
SelectDoomed(s) ==
    /\ doomed[s] = "no" /\ HasRow(snap[s])
    /\ snap[s].lease # "live" /\ ~Pending(shard, s)
    /\ Doomed(snap[s], s)
    /\ doomed' = [doomed EXCEPT ![s] = "selected"]
    /\ UNCHANGED <<job, snap, shard, coord, retry, cursor, fin, purge>>

Claimable(r, j) ==
    /\ HasRow(r) /\ r.lease # "live"
    /\ \/ r.cancelled
       \/ r.status \in {"IN_PROGRESS", "FAILED"} /\ job[j] \in {"CANCELLED", "FAILED"}
       \/ r.status = "PENDING_DELETION"

ClaimDoomed(s) ==
    /\ doomed[s] = "selected"
    /\ IF Claimable(snap[s], JobOf[s])
       THEN /\ snap' = [snap EXCEPT ![s].status = "PENDING_DELETION", ![s].lease = "null"]
            /\ doomed' = [doomed EXCEPT ![s] = "claimed"]
       ELSE doomed' = [doomed EXCEPT ![s] = "no"] /\ UNCHANGED snap
    /\ UNCHANGED <<job, shard, coord, retry, cursor, fin, purge>>

\* A row that is still claimed goes, and its shards and retries with it (reaped
\* stays, as history).
DeleteDoomed(s) ==
    /\ doomed[s] = "claimed"
    /\ IF snap[s].status = "PENDING_DELETION" /\ snap[s].lease # "live"
       THEN /\ snap' = [snap EXCEPT ![s] = [NewRow EXCEPT !.status = "DELETED", !.lease = "null",
                                                          !.reaped = snap[s].reaped]]
            /\ shard' = [p \in Shard |-> IF SnapOf[p] = s THEN "ABSENT" ELSE shard[p]]
            /\ retry' = [retry EXCEPT ![s] = "none"]
       ELSE UNCHANGED <<snap, shard, retry>>
    /\ doomed' = [doomed EXCEPT ![s] = "no"]
    /\ UNCHANGED <<job, coord, cursor, fin, purge>>

\* The scheduler restarts in the middle of a teardown.
SchedulerDies ==
    /\ \E s \in Snap : doomed[s] # "no"
    /\ doomed' = [s \in Snap |-> "no"]
    /\ UNCHANGED <<job, snap, shard, coord, retry, cursor, fin, purge>>

-----------------------------------------------------------------------------
Coordinate(s) ==
    \/ Intake(s) \/ CreateSnapshot(s) \/ MarkSkipped(s) \/ Stash(s)
    \/ FanOut(s) \/ WalkFails(s) \/ RollFailed(s)

Finalize(h) ==
    \/ Flip(h) \/ Preempted(h) \/ Reconcile(h) \/ Roll(h) \/ Promote(h)
    \/ SettleRescued(h)

Teardown(s) == SelectDoomed(s) \/ ClaimDoomed(s) \/ DeleteDoomed(s)

Next ==
    \/ \E s \in Snap : \/ Coordinate(s) \/ CoordinatorDies(s) \/ Lapse(s) \/ Renew(s)
                       \/ Reap(s) \/ Teardown(s)
    \/ \E h \in Finalizer : \/ Finalize(h) \/ FinalizerDies(h)
                            \/ \E p \in Shard : Drain(h, p)
                            \/ \E s \in Snap : RescueFiles(h, s)
    \/ \E p \in Shard : GiveUp(p)
    \/ \E j \in Job : \/ Backstop(j) \/ CancelJob(j)
                      \/ CleanupReads(j) \/ CleanupWrites(j)
    \/ Sweep
    \/ SchedulerDies

Spec == Init /\ [][Next]_vars

\* Workers and the scheduler keep running: a message is handled, a shard is
\* drained or given up, a finalizer that is not killed takes its next step, a
\* dead coordinator's lease runs out, and the sweeps come round.  The sweeps are
\* interval jobs that survive a restart, hence strong fairness for a teardown.
\* Nothing is assumed of cancels, rescues, the reaper and the backstop.
Fairness ==
    /\ \A s \in Snap : /\ WF_vars(Coordinate(s))
                       /\ WF_vars(coord[s] = "done" /\ Lapse(s))
                       /\ SF_vars(SelectDoomed(s))
                       /\ SF_vars(ClaimDoomed(s))
                       /\ SF_vars(DeleteDoomed(s))
    /\ \A p \in Shard :
          WF_vars(shard[p] = "PENDING" /\ (GiveUp(p) \/ \E h \in Finalizer : Drain(h, p)))
    /\ \A h \in Finalizer : WF_vars(Finalize(h))
    /\ WF_vars(Sweep)

FairSpec == Spec /\ Fairness

-----------------------------------------------------------------------------
(***************************************************************************)
(* Properties.                                                             *)
(***************************************************************************)

\* The rows keep their types, and a finalizer that goes on to reconcile and roll
\* up carries the verdict of a settled snapshot.
TypeOK ==
    /\ job \in [Job -> {"RUNNING", "CANCELLED"} \cup Settled]
    /\ snap \in [Snap -> [status : {"ABSENT", "IN_PROGRESS", "PENDING_DELETION", "DELETED"}
                                     \cup Counted,
                          lease : {"null", "live", "lapsed"},
                          degraded : BOOLEAN, cancelled : BOOLEAN, reconciled : BOOLEAN,
                          rescued : BOOLEAN, reaped : BOOLEAN]]
    /\ shard \in [Shard -> {"ABSENT", "PENDING"} \cup DoneShard \cup FailedShard]
    /\ coord \in [Snap -> {"waiting", "accepted", "skipping", "placeholder", "walking",
                           "enumerated", "failed", "done"}]
    /\ retry \in [Snap -> {"none", "open", "rescued"}]
    /\ cursor \in [Resource -> [drive : BOOLEAN, pending : Snap \cup {NoSnap}, active : Snap \cup {NoSnap}]]
    /\ \A h \in Finalizer :
          \/ fin[h] = Idle
          \/ fin[h] \in [pc : {"flip", "preempted", "promote", "rescue"}, snap : Snap,
                         status : {"IN_PROGRESS"}, preempted : BOOLEAN]
          \/ fin[h] \in [pc : {"reconcile", "roll"}, snap : Snap, status : Settled,
                         preempted : BOOLEAN]
    /\ doomed \in [Snap -> {"no", "selected", "claimed"}]
    /\ purge \in [Job -> [due : Nat, ids : SUBSET Snap]]

\* Everything the enumeration behind the snapshot's cursor saw is stored.
Captured(s) == ~snap[s].degraded /\ All(shard, s, {"CLEAN"})

\* The delta cursor moves past changes only when they are stored: whichever of
\* the finalizers and rescues promotes it, every shard of the snapshot that
\* enumerated the new cursor is then complete and nothing is degraded.  (Under
\* a cancelled job, and behind the reaper, the code does promote the cursor of a
\* snapshot with failed shards: the finalizer tests the status it read earlier.)
CursorHonest ==
    [][\A r \in Resource, s \in Snap :
          cursor'[r].active = s /\ cursor[r].active # s =>
             job[JobOf[s]] = "CANCELLED" \/ snap[s].reaped \/ Captured(s)']_vars

\* A teardown claim is never written over with the status of a backup: no
\* finalizer, sweep or handler that was already on its way revives a
\* PENDING_DELETION row, or a deleted one.  (The clean-up of the cancelled job
\* does write over it, with FAILED.)
TeardownFinal ==
    [][\A s \in Snap :
          /\ snap[s].status = "PENDING_DELETION" =>
                \/ snap'[s].status \in {"PENDING_DELETION", "DELETED"}
                \/ snap'[s].status = "FAILED" /\ s \in purge[JobOf[s]].ids
          /\ snap[s].status = "DELETED" => snap'[s].status = "DELETED"]_vars

\* A job's verdict is given once: only a rescue that completes one of its
\* snapshots changes it, and never that of a CANCELLED or COMPLETED job.
JobFinal ==
    [][\A j \in Job :
          job[j] # "RUNNING" /\ job'[j] # job[j] =>
             /\ job[j] \in {"PARTIAL", "FAILED"}
             /\ \E s \in Children(j) : snap'[s].rescued /\ ~snap[s].rescued]_vars

\* A rescued snapshot stays COMPLETED: neither a finalizer still in flight nor
\* the integrity sweep puts it back to FAILED or PARTIAL.
RescueHolds ==
    \A s \in Snap : snap[s].rescued /\ job[JobOf[s]] # "CANCELLED" =>
                       snap[s].status = "COMPLETED"

\* Every job ends, whatever dies: no bulk parent stays RUNNING for ever.
JobSettles == \A j \in Job : <>(job[j] # "RUNNING")

\* What the shards say of a snapshot.
Verdict(s) ==
    IF Captured(s) THEN "COMPLETED"
    ELSE IF All(shard, s, FailedShard) THEN "FAILED" ELSE "PARTIAL"

\* However the finalizers, the reaper and the sweeps interleave, the status of
\* a fanned out snapshot ends up, and stays, what its shards say.
Converges ==
    <>[](\A s \in Snap : Partitioned(shard, s) =>
            snap[s].status \in {Verdict(s), "PENDING_DELETION"})

\* A snapshot that carries the cancel marker is torn down in the end.
TornDown == \A s \in Snap : snap[s].cancelled ~> (snap[s].status = "DELETED")
=============================================================================
