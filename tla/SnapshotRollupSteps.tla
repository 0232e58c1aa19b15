------------------------- MODULE SnapshotRollupSteps -------------------------
(***************************************************************************)
(* What one step may do to the rows of SnapshotRollup: the inductive        *)
(* invariant of its proofs, and the lemmas on jobs, shards, rows and        *)
(* coordinators.  Module SnapshotRollupProofs adds the finalizers and       *)
(* proves the theorems.                                                    *)
(***************************************************************************)
EXTENDS SnapshotRollup, TLAPS

\* The types of the rows and of the finalizers' locals.
JobStates == {"RUNNING", "CANCELLED"} \cup Settled
SnapStates == {"ABSENT", "IN_PROGRESS", "PENDING_DELETION", "DELETED"} \cup Counted
Rows == [status : SnapStates, lease : {"null", "live", "lapsed"},
         degraded : BOOLEAN, cancelled : BOOLEAN, reconciled : BOOLEAN,
         rescued : BOOLEAN, reaped : BOOLEAN]
ShardStates == {"ABSENT", "PENDING"} \cup DoneShard \cup FailedShard
CoordStates == {"waiting", "accepted", "skipping", "placeholder", "walking", "enumerated",
                "failed", "done"}
Cursors == [drive : BOOLEAN, pending : Snap \cup {NoSnap}, active : Snap \cup {NoSnap}]
Parked == [pc : {"flip", "preempted", "promote", "rescue"}, snap : Snap,
           status : {"IN_PROGRESS"}, preempted : BOOLEAN]
Running == [pc : {"reconcile", "roll"}, snap : Snap, status : Settled, preempted : BOOLEAN]
Locals == {Idle} \cup Parked \cup Running
Purges == [due : Nat, ids : SUBSET Snap]

Typed ==
    /\ job \in [Job -> JobStates] /\ snap \in [Snap -> Rows] /\ shard \in [Shard -> ShardStates]
    /\ coord \in [Snap -> CoordStates] /\ retry \in [Snap -> {"none", "open", "rescued"}]
    /\ cursor \in [Resource -> Cursors] /\ fin \in [Finalizer -> Locals]
    /\ doomed \in [Snap -> {"no", "selected", "claimed"}] /\ purge \in [Job -> Purges]

Stopped(s) == job[JobOf[s]] = "CANCELLED"

\* Before create_snapshot there is no row.
Unborn ==
    \A s \in Snap : coord[s] \in {"waiting", "accepted", "skipping"} =>
        snap[s].status = "ABSENT" /\ ~snap[s].reaped /\ ~snap[s].rescued

\* A fan-out and a deletion concern all shards of a snapshot, and the fan-out
\* is the coordinator's last act.
Whole(s) == All(shard, s, {"ABSENT"}) \/ All(shard, s, ShardStates \ {"ABSENT"})
FannedLast ==
    \A s \in Snap : Whole(s) /\ (coord[s] # "done" => All(shard, s, {"ABSENT"}))

\* Cancel markers and clean-ups are those of a cancelled job.
CancelTraces ==
    /\ \A s \in Snap : snap[s].cancelled => Stopped(s)
    /\ \A j \in Job : /\ purge[j].ids \subseteq Children(j)
                      /\ purge[j].due > 0 \/ purge[j].ids # {} => job[j] = "CANCELLED"

\* A OneDrive shard has no loss count, and only failed shards degrade its
\* snapshot.
DriveLosses ==
    \A s \in OneDrive : /\ ~Some(shard, s, {"LOSSY"})
                        /\ snap[s].degraded => Some(shard, s, FailedShard)

\* Fanned out, and everything stored.
Solid(s) == ShardsOf(s) # {} /\ Captured(s)

\* A rescue is good for ever.
RescueSolid ==
    \A s \in Snap : snap[s].rescued /\ ~Stopped(s) => snap[s].status = "COMPLETED" /\ Solid(s)

\* The snapshot may have its cursor promoted.
Sure(s) ==
    \/ Stopped(s) \/ snap[s].reaped
    \/ Solid(s) /\ snap[s].status \in {"COMPLETED", "PARTIAL"}

\* A finalizer that carries the verdict COMPLETED.
Promises(f) == f.pc = "promote" \/ (f.pc \in {"reconcile", "roll"} /\ f.status = "COMPLETED")

\* Neither the row nor a finalizer of a OneDrive says COMPLETED without cause.
CompletedSure ==
    /\ \A s \in OneDrive : snap[s].status = "COMPLETED" => Sure(s)
    /\ \A h \in Finalizer : Promises(fin[h]) /\ fin[h].snap \in OneDrive => Sure(fin[h].snap)

\* A finalizer on its way to a verdict works on a snapshot that has shards, and
\* only those of OneDrives promote.
Judging == {"flip", "preempted", "reconcile", "roll"}
FinPlaces ==
    \A h \in Finalizer : /\ fin[h].pc \in Judging => ShardsOf(fin[h].snap) # {}
                         /\ fin[h].pc = "promote" => fin[h].snap \in OneDrive

IInv ==
    /\ Typed /\ Unborn /\ FannedLast /\ CancelTraces /\ DriveLosses /\ RescueSolid
    /\ CompletedSure /\ FinPlaces
-----------------------------------------------------------------------------
(***************************************************************************)
(* Types.                                                                  *)
(***************************************************************************)
\* A row with new fields is a row.
LEMMA RowFields ==
    ASSUME NEW r \in Rows
    PROVE  /\ \A x \in SnapStates : [r EXCEPT !.status = x] \in Rows
           /\ \A x \in {"null", "live", "lapsed"} : [r EXCEPT !.lease = x] \in Rows
           /\ \A x \in BOOLEAN : [r EXCEPT !.degraded = x] \in Rows
           /\ \A x \in BOOLEAN : [r EXCEPT !.cancelled = x] \in Rows
           /\ \A x \in BOOLEAN : [r EXCEPT !.reconciled = x] \in Rows
           /\ \A x \in BOOLEAN : [r EXCEPT !.rescued = x] \in Rows
           /\ \A x \in BOOLEAN : [r EXCEPT !.reaped = x] \in Rows
BY ZenonT(40) DEF Rows

\* So is a new one, and the one a teardown leaves.
LEMMA NewRows ==
    /\ NewRow \in Rows
    /\ [NewRow EXCEPT !.status = "ABSENT", !.lease = "null"] \in Rows
    /\ \A b \in BOOLEAN : [NewRow EXCEPT !.status = "DELETED", !.lease = "null", !.reaped = b] \in Rows
BY ZenonT(40) DEF NewRow, Rows, SnapStates, Counted, Settled

\* What the derivations return.
LEMMA DerivedStates ==
    ASSUME NEW d, NEW s, NEW r, NEW b
    PROVE  /\ FlippedStatus(d, s) \in Settled /\ DerivedStatus(d, s) \in Settled
           /\ StepBStatus(d, s, r) \in Settled /\ StepDStatus(d, s, r) \in Settled
           /\ ReapStatus(s, b) \in Settled
BY DEF FlippedStatus, DerivedStatus, StepBStatus, StepDStatus, ReapStatus, Settled

\* What the roll-ups return.
LEMMA RolledStates ==
    ASSUME NEW j \in Job, NEW sn, NEW d, job[j] \in JobStates
    PROVE  /\ BatchVerdict(sn, j) \in Settled /\ BulkStatus(j, sn, d) \in JobStates
           /\ StepCStatus(j, sn) \in JobStates /\ RescuedJob(j, sn, d) \in JobStates
<1>1. BatchVerdict(sn, j) \in Settled
  BY DEF BatchVerdict, Settled
<1>2. BulkStatus(j, sn, d) \in JobStates
  BY <1>1 DEF BulkStatus, JobStates
<1>3. StepCStatus(j, sn) \in JobStates
  BY DEF StepCStatus, JobStates, Settled
<1>4. RescuedJob(j, sn, d) \in JobStates
  BY DEF RescuedJob, JobStates, Settled
<1> QED
  BY <1>1, <1>2, <1>3, <1>4

\* The reconcile transaction writes a row and returns a verdict.
LEMMA ReconciledTyped ==
    ASSUME NEW r \in Rows, NEW s \in Snap, NEW f \in Locals, f.status \in Settled
    PROVE  /\ ReconciledRow(r, s, f).row \in Rows
           /\ ReconciledRow(r, s, f).status \in Settled
<1> DEFINE drained == Drained(shard, s)
           derived == DerivedStatus(shard, s)
           upgraded == IF f.preempted /\ f.status = "COMPLETED" /\ r.status = "PARTIAL"
                       THEN "COMPLETED" ELSE r.status
           checked == IF drained THEN derived ELSE upgraded
           degraded == r.degraded \/ (drained /\ derived # "COMPLETED")
           honest == IF degraded /\ checked = "COMPLETED" THEN "PARTIAL" ELSE checked
           coerce == honest \in {"COMPLETED", "PARTIAL"} /\ job[JobOf[s]] = "CANCELLED"
           final == IF coerce THEN "FAILED" ELSE honest
<1>1. /\ ReconciledRow(r, s, f).row =
             [r EXCEPT !.status = final, !.degraded = degraded, !.reconciled = TRUE]
      /\ ReconciledRow(r, s, f).status =
             IF honest # checked \/ checked # upgraded THEN honest ELSE f.status
  BY ZenonT(40) DEF ReconciledRow
<1>2. derived \in Settled
  BY DerivedStates
<1>3. Settled \subseteq SnapStates /\ r.status \in SnapStates
  BY DEF Rows, Settled, SnapStates, Counted
<1>4. upgraded \in SnapStates /\ (drained => checked \in Settled)
      /\ (~drained => checked = upgraded)
  BY <1>2, <1>3 DEF Settled
<1> HIDE DEF derived, upgraded, drained
<1>5. /\ checked \in SnapStates /\ honest \in SnapStates /\ final \in SnapStates
      /\ honest # checked => honest = "PARTIAL"
      /\ checked # upgraded => checked \in Settled
  BY <1>2, <1>3, <1>4 DEF Settled
<1> HIDE DEF checked
<1>6. honest # checked \/ checked # upgraded => honest \in Settled
  BY <1>5 DEF Settled
<1>7. degraded \in BOOLEAN
  OBVIOUS
<1> HIDE DEF honest, final, degraded
<1>8. [r EXCEPT !.status = final, !.degraded = degraded, !.reconciled = TRUE] \in Rows
  BY <1>5, <1>7, ZenonT(40) DEF Rows
<1> QED
  BY <1>1, <1>6, <1>8
-----------------------------------------------------------------------------
(***************************************************************************)
(* Jobs.                                                                   *)
(***************************************************************************)
\* Worker h completes a rescue of snapshot s.
Rescues(h, s) == SettleRescued(h) /\ fin[h].snap = s /\ Rescuable(s)

\* What a step may do to a job: a verdict that stands is changed by a rescue
\* alone.
JobOK(j) ==
    /\ job'[j] \in JobStates
    /\ job[j] # "RUNNING" /\ job'[j] # job[j] =>
          /\ job[j] \in {"PARTIAL", "FAILED"}
          /\ \E h \in Finalizer, s \in Children(j) : Rescues(h, s)

\* A finalizer that runs has a snapshot.
LEMMA FinSnap ==
    ASSUME Typed, NEW h \in Finalizer
    PROVE  /\ fin[h] \in Locals
           /\ fin[h].pc # "idle" => fin[h].snap \in Snap
           /\ fin[h].pc \in {"reconcile", "roll"} => fin[h].status \in Settled
           /\ fin[h].pc \notin {"reconcile", "roll"} => fin[h].status = "IN_PROGRESS"
<1>1. fin[h] \in Locals
  BY DEF Typed
<1>2. CASE fin[h] = Idle
  BY <1>1, <1>2 DEF Idle
<1>3. CASE fin[h] \in Parked
  BY <1>1, <1>3 DEF Parked
<1>4. CASE fin[h] \in Running
  BY <1>1, <1>4 DEF Running
<1> QED
  BY <1>1, <1>2, <1>3, <1>4 DEF Locals

\* Nobody rolled up.
LEMMA JobSame ==
    ASSUME Typed, job' = job
    PROVE  job' \in [Job -> JobStates] /\ \A j \in Job : JobOK(j)
BY ZenonT(40) DEF JobOK, Typed

\* One job was rolled up.
LEMMA JobOne ==
    ASSUME Typed, NEW k \in Job, NEW x, job' = [job EXCEPT ![k] = x], x \in JobStates,
           \/ job[k] = "RUNNING" \/ x = job[k]
           \/ /\ job[k] \in {"PARTIAL", "FAILED"}
              /\ \E h \in Finalizer, s \in Children(k) : Rescues(h, s)
    PROVE  job' \in [Job -> JobStates] /\ \A j \in Job : JobOK(j)
<1>1. job' \in [Job -> JobStates]
  BY DEF Typed
<1>2. ASSUME NEW j \in Job, j # k PROVE job'[j] = job[j] /\ job[j] \in JobStates
  BY <1>2 DEF Typed
<1>3. job'[k] = x
  BY DEF Typed
<1> QED
  BY <1>1, <1>2, <1>3 DEF JobOK

\* The roll-ups of the workers and the sweeps leave a verdict alone.
LEMMA RollUps ==
    ASSUME Typed, NEW j \in Job, NEW sn, NEW d
    PROVE  /\ BulkStatus(j, sn, d) \in JobStates /\ StepCStatus(j, sn) \in JobStates
           /\ RescuedJob(j, sn, d) \in JobStates /\ BatchVerdict(sn, j) \in JobStates
           /\ job[j] # "RUNNING" => BulkStatus(j, sn, d) = job[j] /\ StepCStatus(j, sn) = job[j]
           /\ job[j] \notin {"PARTIAL", "FAILED"} => RescuedJob(j, sn, d) = job[j]
<1>1. job[j] \in JobStates
  BY DEF Typed
<1>2. /\ BulkStatus(j, sn, d) \in JobStates /\ StepCStatus(j, sn) \in JobStates
      /\ RescuedJob(j, sn, d) \in JobStates /\ BatchVerdict(sn, j) \in JobStates
  BY <1>1, RolledStates DEF JobStates
<1>3. job[j] # "RUNNING" => job[j] \in Settled \cup {"CANCELLED"}
  BY <1>1 DEF JobStates
<1>4. job[j] # "RUNNING" => BulkStatus(j, sn, d) = job[j]
  BY <1>3 DEF BulkStatus
<1>5. job[j] # "RUNNING" => StepCStatus(j, sn) = job[j]
  BY DEF StepCStatus
<1>6. job[j] \notin {"PARTIAL", "FAILED"} => RescuedJob(j, sn, d) = job[j]
  BY DEF RescuedJob
<1> QED
  BY <1>2, <1>4, <1>5, <1>6

\* _finalize_bulk_parent_if_complete
LEMMA JobBulk ==
    ASSUME Typed, NEW k \in Job, job' = [job EXCEPT ![k] = BulkStatus(k, snap, shard)]
    PROVE  job' \in [Job -> JobStates] /\ \A j \in Job : JobOK(j)
<1> DEFINE x == BulkStatus(k, snap, shard)
<1>1. x \in JobStates /\ (job[k] # "RUNNING" => x = job[k])
  BY RollUps
<1>2. job' = [job EXCEPT ![k] = x]
  OBVIOUS
<1> HIDE DEF x
<1> QED
  BY <1>1, <1>2, JobOne, ZenonT(40)

\* Each step of the system, action by action.
LEMMA JobNext ==
    ASSUME Typed, [Next]_vars
    PROVE  job' \in [Job -> JobStates] /\ \A j \in Job : JobOK(j)
<1> DEFINE Goal == job' \in [Job -> JobStates] /\ \A j \in Job : JobOK(j)
<1>0. JobOf \in [Snap -> Job]
  BY RollupAssumption
<1>1. CASE job' = job
  BY <1>1, JobSame
<1> HIDE DEF Goal
<1>2. ASSUME NEW s \in Snap,
             \/ Coordinate(s) \/ CoordinatorDies(s) \/ Lapse(s) \/ Renew(s) \/ Reap(s) \/ Teardown(s)
      PROVE  Goal
  <2>1. CASE RollFailed(s)
    <3>1. JobOf[s] \in Job
      BY <1>0
    <3>2. job' = [job EXCEPT ![JobOf[s]] = BulkStatus(JobOf[s], snap, shard)]
      BY <2>1 DEF RollFailed
    <3> QED
      BY <3>1, <3>2, JobBulk, ZenonT(40) DEF Goal
  <2>2. CASE ~RollFailed(s)
    <3>1. job' = job
      BY <1>2, <2>2, ZenonT(40) DEF Coordinate, CoordinatorDies, Lapse, Renew, Reap, Teardown, Intake, CreateSnapshot,
                               MarkSkipped, Stash, FanOut, WalkFails, SelectDoomed, ClaimDoomed, DeleteDoomed
    <3> QED
      BY <3>1, <1>1 DEF Goal
  <2> QED
    BY <2>1, <2>2
<1>3. ASSUME NEW h \in Finalizer, Finalize(h) PROVE Goal
  <2>1. CASE Roll(h)
    <3>1. fin[h].snap \in Snap
      BY <2>1, FinSnap DEF Roll
    <3>2. JobOf[fin[h].snap] \in Job
      BY <1>0, <3>1
    <3>3. job' = [job EXCEPT ![JobOf[fin[h].snap]] = BulkStatus(JobOf[fin[h].snap], snap, shard)]
      BY <2>1, ZenonT(40) DEF Roll
    <3> QED
      BY <3>2, <3>3, JobBulk, ZenonT(40) DEF Goal
  <2>2. CASE SettleRescued(h) /\ Rescuable(fin[h].snap)
    <3> DEFINE s == fin[h].snap
               j == JobOf[s]
               sn == [snap EXCEPT ![s].status = "COMPLETED", ![s].degraded = FALSE, ![s].rescued = TRUE]
    <3>1. s \in Snap
      BY <2>2, FinSnap, ZenonT(40) DEF SettleRescued
    <3>2. j \in Job /\ s \in Children(j)
      BY <1>0, <3>1 DEF Children
    <3>3. job' = [job EXCEPT ![j] = RescuedJob(j, sn, RescuedShards(s))]
      BY <2>2, ZenonT(40) DEF SettleRescued
    <3>4. Rescues(h, s)
      BY <2>2 DEF Rescues
    <3> HIDE DEF sn, j, s
    <3>5. RescuedJob(j, sn, RescuedShards(s)) \in JobStates
      BY <3>2, RollUps
    <3>6. job[j] \notin {"PARTIAL", "FAILED"} => RescuedJob(j, sn, RescuedShards(s)) = job[j]
      BY <3>2, RollUps
    <3> QED
      BY <3>2, <3>3, <3>4, <3>5, <3>6, JobOne, ZenonT(40) DEF Goal
  <2>3. CASE ~Roll(h) /\ ~(SettleRescued(h) /\ Rescuable(fin[h].snap))
    <3>1. job' = job
      BY <1>3, <2>3, ZenonT(40) DEF Finalize, Flip, Preempted, Reconcile, Promote, SettleRescued
    <3> QED
      BY <3>1, <1>1 DEF Goal
  <2> QED
    BY <2>1, <2>2, <2>3
<1>4. ASSUME NEW h \in Finalizer,
             FinalizerDies(h) \/ (\E p \in Shard : Drain(h, p)) \/ (\E s \in Snap : RescueFiles(h, s))
      PROVE  Goal
  <2>1. job' = job
    BY <1>4, ZenonT(40) DEF FinalizerDies, Drain, RescueFiles
  <2> QED
    BY <2>1, <1>1 DEF Goal
<1>5. ASSUME NEW p \in Shard, GiveUp(p) PROVE Goal
  BY <1>1, <1>5 DEF GiveUp, Goal
<1>6. ASSUME NEW j \in Job, Backstop(j) \/ CancelJob(j) \/ CleanupReads(j) \/ CleanupWrites(j) PROVE Goal
  <2>1. CASE Backstop(j)
    BY <2>1, RollUps, JobOne, ZenonT(40) DEF Backstop, Goal
  <2>2. CASE CancelJob(j)
    <3>1. "CANCELLED" \in JobStates
      BY DEF JobStates
    <3> QED
      BY <2>2, <3>1, JobOne, ZenonT(40) DEF CancelJob, Goal
  <2>3. CASE CleanupReads(j) \/ CleanupWrites(j)
    BY <1>1, <2>3, ZenonT(40) DEF CleanupReads, CleanupWrites, Goal
  <2> QED
    BY <1>6, <2>1, <2>2, <2>3
<1>7. CASE Sweep
  <2>1. PICK sn : job' = [j \in Job |-> StepCStatus(j, sn)]
    BY <1>7, ZenonT(40) DEF Sweep
  <2>2. \A j \in Job : job'[j] \in JobStates /\ (job[j] # "RUNNING" => job'[j] = job[j])
    BY <2>1, RollUps
  <2> QED
    BY <2>1, <2>2 DEF JobOK, Goal
<1>8. CASE SchedulerDies \/ UNCHANGED vars
  BY <1>1, <1>8, ZenonT(40) DEF SchedulerDies, vars, Goal
<1> QED
  BY <1>2, <1>3, <1>4, <1>5, <1>6, <1>7, <1>8, ZenonT(40) DEF Next, Goal

\* A cancelled job stays cancelled.
LEMMA CancelStays ==
    ASSUME Typed, [Next]_vars, NEW s \in Snap, Stopped(s)
    PROVE  Stopped(s)'
<1>1. JobOf[s] \in Job
  BY RollupAssumption
<1> QED
  BY <1>1, JobNext DEF JobOK, Stopped
-----------------------------------------------------------------------------
(***************************************************************************)
(* Shards.                                                                 *)
(***************************************************************************)
\* The shards of s are as they were.
SameShards(s) == \A p \in ShardsOf(s) : shard'[p] = shard[p]

\* Then everything asked of them has the same answer.
LEMMA SameAnswers ==
    ASSUME NEW s \in Snap, SameShards(s)
    PROVE  /\ \A S : Some(shard', s, S) <=> Some(shard, s, S)
           /\ \A S : All(shard', s, S) <=> All(shard, s, S)
           /\ Solid(s)' <=> ~snap'[s].degraded /\ ShardsOf(s) # {} /\ All(shard, s, {"CLEAN"})
<1>1. /\ \A S : Some(shard', s, S) <=> Some(shard, s, S)
      /\ \A S : All(shard', s, S) <=> All(shard, s, S)
  BY DEF Some, All, SameShards
<1> QED
  BY <1>1 DEF Solid, Captured

\* What a solid snapshot's shards say.
LEMMA SolidShards ==
    ASSUME NEW s \in Snap, ShardsOf(s) # {}, All(shard, s, {"CLEAN"})
    PROVE  /\ Drained(shard, s) /\ ~Pending(shard, s) /\ Partitioned(shard, s)
           /\ ~All(shard, s, {"ABSENT"}) /\ ~Some(shard, s, FailedShard)
           /\ ~Some(shard, s, {"LOSSY"}) /\ ~Some(shard, s, {"PENDING"})
           /\ DerivedStatus(shard, s) = "COMPLETED"
           /\ \A r : ~r.degraded => StepDStatus(shard, s, r) = "COMPLETED"
<1>1. PICK p \in ShardsOf(s) : shard[p] = "CLEAN"
  BY DEF All
<1>2. Partitioned(shard, s) /\ ~Pending(shard, s)
  BY <1>1 DEF Partitioned, Pending, Some, All, DoneShard
<1>3. /\ ~All(shard, s, {"ABSENT"}) /\ ~Some(shard, s, FailedShard) /\ ~Some(shard, s, {"LOSSY"})
      /\ ~Some(shard, s, {"PENDING"})
      /\ ~All(shard, s, FailedShard) /\ ~Some(shard, s, FailedShard \cup {"LOSSY"})
  BY <1>1 DEF Some, All, FailedShard
<1> QED
  BY <1>2, <1>3 DEF Drained, DerivedStatus, StepDStatus

\* A drained snapshot without failures and losses is solid.
LEMMA CleanShards ==
    ASSUME Typed, NEW s \in Snap, Whole(s), Drained(shard, s),
           ~Some(shard, s, FailedShard), ~Some(shard, s, {"LOSSY"})
    PROVE  ShardsOf(s) # {} /\ All(shard, s, {"CLEAN"})
<1>1. PICK q \in ShardsOf(s) : shard[q] # "ABSENT"
  BY DEF Drained, Partitioned, Some, DoneShard, FailedShard
<1>2. All(shard, s, ShardStates \ {"ABSENT"})
  BY <1>1 DEF Whole, All
<1>3. ASSUME NEW p \in ShardsOf(s) PROVE shard[p] = "CLEAN"
  BY <1>2 DEF All, Some, Drained, Pending, ShardStates, DoneShard, FailedShard
<1> QED
  BY <1>1, <1>3 DEF All

\* Each derivation says COMPLETED of such a snapshot only.
LEMMA CompletedMeans ==
    ASSUME Typed, NEW s \in Snap, Whole(s), Drained(shard, s), NEW r,
           \/ FlippedStatus(shard, s) = "COMPLETED" \/ DerivedStatus(shard, s) = "COMPLETED"
           \/ StepDStatus(shard, s, r) = "COMPLETED"
    PROVE  ShardsOf(s) # {} /\ All(shard, s, {"CLEAN"})
<1>1. ~Some(shard, s, FailedShard \cup {"LOSSY"})
  BY DEF FlippedStatus, DerivedStatus, StepDStatus
<1>2. ~Some(shard, s, FailedShard) /\ ~Some(shard, s, {"LOSSY"})
  BY <1>1 DEF Some
<1> QED
  BY <1>2, CleanShards

\* STEP B and STEP D besides ask whether the snapshot is degraded.
LEMMA SweptMeans ==
    ASSUME Typed, NEW s \in Snap, Whole(s), Drained(shard, s), NEW r
    PROVE  /\ StepBStatus(shard, s, r) = "COMPLETED" =>
                 ~r.degraded /\ ShardsOf(s) # {} /\ All(shard, s, {"CLEAN"})
           /\ StepDStatus(shard, s, r) = "COMPLETED" =>
                 ~r.degraded /\ ShardsOf(s) # {} /\ All(shard, s, {"CLEAN"})
<1>1. ASSUME StepBStatus(shard, s, r) = "COMPLETED"
      PROVE  ~r.degraded /\ ~Some(shard, s, {"LOSSY"}) /\ All(shard, s, DoneShard)
  BY <1>1 DEF StepBStatus
<1>2. All(shard, s, DoneShard) => ~Some(shard, s, FailedShard)
  BY DEF All, Some, DoneShard, FailedShard
<1>3. StepDStatus(shard, s, r) = "COMPLETED" => ~r.degraded
  BY DEF StepDStatus
<1> QED
  BY <1>1, <1>2, <1>3, CleanShards, CompletedMeans

\* A drained OneDrive whose derived status is not COMPLETED has a failed shard.
LEMMA DriveDegrades ==
    ASSUME NEW s \in Snap, Drained(shard, s), ~Some(shard, s, {"LOSSY"}),
           DerivedStatus(shard, s) # "COMPLETED"
    PROVE  Some(shard, s, FailedShard)
<1>1. All(shard, s, FailedShard) \/ Some(shard, s, FailedShard \cup {"LOSSY"})
  BY DEF DerivedStatus
<1>2. PICK p \in ShardsOf(s) : TRUE
  BY DEF Drained, Partitioned, Some
<1> QED
  BY <1>1, <1>2 DEF All, Some

\* A shard written is one of its snapshot.
LEMMA ShardPlace == \A p \in Shard : SnapOf[p] \in Snap /\ p \in ShardsOf(SnapOf[p])
BY RollupAssumption DEF ShardsOf
-----------------------------------------------------------------------------
(***************************************************************************)
(* Snapshots: how one step may change a row and its shards.                *)
(***************************************************************************)
\* A claimed row is left to the teardown, up to the clean-up of its job.
TeardownKept(s) ==
    /\ snap[s].status = "PENDING_DELETION" =>
          \/ snap'[s].status \in {"PENDING_DELETION", "DELETED"}
          \/ snap'[s].status = "FAILED" /\ s \in purge[JobOf[s]].ids
    /\ snap[s].status = "DELETED" => snap'[s].status = "DELETED"

\* The cancel marker comes with the cancel, and history is not forgotten.
MarksKept(s) ==
    /\ snap'[s].cancelled => snap[s].cancelled \/ Stopped(s)'
    /\ snap[s].reaped => snap'[s].reaped
    /\ snap'[s].rescued => snap[s].rescued \/ (snap'[s].status = "COMPLETED" /\ Solid(s)')

\* A solid snapshot stays so, and neither verdict on it that keeps the teardown
\* away is taken back.
SolidKept(s) ==
    ~Stopped(s)' /\ Solid(s) =>
        /\ snap[s].status = "COMPLETED" => Solid(s)' /\ snap'[s].status = "COMPLETED"
        /\ snap[s].status \in {"COMPLETED", "PARTIAL"} =>
              Solid(s)' /\ snap'[s].status \in {"COMPLETED", "PARTIAL"}

\* COMPLETED is written with cause.
CompletedFor(s) ==
    s \in OneDrive /\ snap'[s].status = "COMPLETED" => snap[s].status = "COMPLETED" \/ Sure(s)'

\* The losses of a OneDrive.
DriveKept(s) ==
    s \in OneDrive => /\ ~Some(shard', s, {"LOSSY"})
                      /\ snap'[s].degraded => Some(shard', s, FailedShard)

Later(s) == TeardownKept(s) /\ MarksKept(s) /\ SolidKept(s) /\ CompletedFor(s) /\ DriveKept(s)
AllLater == snap' \in [Snap -> Rows] /\ \A s \in Snap : Later(s)

\* Row x was written.
Wrote(s, x) == x \in Rows /\ snap' = [snap EXCEPT ![s] = x]

\* Then the other rows are as they were.
LEMMA WroteRow ==
    ASSUME Typed, NEW s \in Snap, NEW x, Wrote(s, x)
    PROVE  snap' \in [Snap -> Rows] /\ snap'[s] = x /\ \A t \in Snap \ {s} : snap'[t] = snap[t]
BY DEF Wrote, Typed

\* The verdict, the loss and the marks of a row are as they were.
LEMMA LaterMild ==
    ASSUME IInv, NEW s \in Snap, SameShards(s), snap'[s].status = snap[s].status,
           snap'[s].degraded = snap[s].degraded, snap'[s].rescued = snap[s].rescued,
           snap[s].reaped => snap'[s].reaped,
           snap'[s].cancelled => snap[s].cancelled \/ Stopped(s)'
    PROVE  Later(s)
<1>1. (Solid(s)' <=> Solid(s)) /\ DriveKept(s)
  BY SameAnswers DEF Solid, Captured, DriveKept, IInv, DriveLosses
<1> QED
  BY <1>1 DEF Later, TeardownKept, MarksKept, SolidKept, CompletedFor

\* A row that no statement matches.
LEMMA LaterSame ==
    ASSUME IInv, NEW s \in Snap, SameShards(s), snap'[s] = snap[s]
    PROVE  Later(s)
BY LaterMild

\* A verdict was given to a running row, or to a failed one: COMPLETED only
\* with cause.
LEMMA LaterVerdict ==
    ASSUME IInv, NEW s \in Snap, SameShards(s), snap[s].status \in {"IN_PROGRESS", "FAILED"},
           snap'[s].degraded = snap[s].degraded, snap'[s].rescued = snap[s].rescued,
           snap[s].reaped => snap'[s].reaped,
           snap'[s].cancelled => snap[s].cancelled \/ Stopped(s)',
           s \in OneDrive /\ snap'[s].status = "COMPLETED" => Sure(s)'
    PROVE  Later(s)
<1>1. DriveKept(s)
  BY SameAnswers DEF DriveKept, IInv, DriveLosses
<1> QED
  BY <1>1 DEF Later, TeardownKept, MarksKept, SolidKept, CompletedFor

\* A row of a stopped job lost its verdict.
LEMMA LaterStopped ==
    ASSUME IInv, NEW s \in Snap, SameShards(s), Stopped(s)', TeardownKept(s),
           snap'[s].degraded = snap[s].degraded, snap'[s].rescued = snap[s].rescued,
           snap[s].reaped => snap'[s].reaped
    PROVE  Later(s)
<1>1. DriveKept(s)
  BY SameAnswers DEF DriveKept, IInv, DriveLosses
<1>2. Sure(s)'
  BY DEF Sure
<1>3. snap'[s].rescued => snap[s].rescued
  OBVIOUS
<1> QED
  BY <1>1, <1>2, <1>3 DEF Later, MarksKept, SolidKept, CompletedFor

\* One row was written and no shard.
LEMMA LaterOne ==
    ASSUME IInv, NEW s \in Snap, NEW x, Wrote(s, x), shard' = shard, Later(s)
    PROVE  AllLater
<1>1. /\ snap' \in [Snap -> Rows]
      /\ \A t \in Snap \ {s} : snap'[t] = snap[t]
  BY WroteRow DEF IInv
<1>2. ASSUME NEW t \in Snap, t # s PROVE Later(t)
  BY <1>1, <1>2, LaterSame DEF SameShards
<1> QED
  BY <1>1, <1>2 DEF AllLater

\* No row was written and no shard.
LEMMA LaterNone ==
    ASSUME IInv, snap' = snap, shard' = shard
    PROVE  AllLater
<1>1. \A s \in Snap : Later(s)
  BY LaterSame DEF SameShards
<1> QED
  BY <1>1 DEF AllLater, IInv, Typed
-----------------------------------------------------------------------------
(***************************************************************************)
(* The coordinator's steps, and the clock's.                               *)
(***************************************************************************)
\* create_snapshot
LEMMA LaterCreate ==
    ASSUME IInv, NEW s \in Snap, CreateSnapshot(s)
    PROVE  AllLater
<1>1. Wrote(s, NewRow) /\ shard' = shard
  BY NewRows, ZenonT(40) DEF CreateSnapshot, Wrote
<1>2. snap'[s] = NewRow
  BY <1>1, WroteRow DEF IInv
<1>3. snap[s].status = "ABSENT" /\ ~snap[s].reaped
  BY DEF IInv, Unborn, CreateSnapshot
<1>4. /\ NewRow.status = "IN_PROGRESS" /\ ~NewRow.degraded /\ ~NewRow.cancelled /\ ~NewRow.rescued
  BY DEF NewRow
<1>5. DriveKept(s)
  BY <1>1, <1>2, <1>4 DEF DriveKept, IInv, DriveLosses
<1>6. Later(s)
  BY <1>2, <1>3, <1>4, <1>5 DEF Later, TeardownKept, MarksKept, SolidKept, CompletedFor
<1> QED
  BY <1>1, <1>6, LaterOne, SMTT(30)

\* The placeholder is skipped.
LEMMA LaterSkipped ==
    ASSUME IInv, NEW s \in Snap, MarkSkipped(s)
    PROVE  AllLater
<1> DEFINE x == [snap[s] EXCEPT !.status = IF @ = "IN_PROGRESS" THEN "SKIPPED" ELSE @]
<1>1. snap[s] \in Rows
  BY DEF IInv, Typed
<1>2. Wrote(s, x) /\ shard' = shard
  <2>1. x \in Rows
    BY <1>1 DEF Rows, SnapStates, Counted
  <2> QED
    BY <2>1 DEF MarkSkipped, Wrote
<1>3. snap'[s] = x
  BY <1>2, WroteRow DEF IInv
<1>4. /\ snap'[s].status = IF snap[s].status = "IN_PROGRESS" THEN "SKIPPED" ELSE snap[s].status
      /\ snap'[s].degraded = snap[s].degraded /\ snap'[s].rescued = snap[s].rescued
      /\ snap'[s].reaped = snap[s].reaped /\ snap'[s].cancelled = snap[s].cancelled
  BY <1>1, <1>3 DEF Rows
<1>5. SameShards(s)
  BY <1>2 DEF SameShards
<1>6. CASE snap[s].status = "IN_PROGRESS"
  BY <1>2, <1>4, <1>5, <1>6, LaterVerdict, LaterOne
<1>7. CASE snap[s].status # "IN_PROGRESS"
  BY <1>2, <1>4, <1>5, <1>7, LaterMild, LaterOne
<1> QED
  BY <1>6, <1>7

\* fail_snapshot
LEMMA LaterFailed ==
    ASSUME IInv, NEW s \in Snap, WalkFails(s)
    PROVE  AllLater
<1>1. PICK b \in {FALSE, Stopped(s)} : snap' = [snap EXCEPT ![s] = FailedRow(snap[s], b)]
  BY ZenonT(40) DEF WalkFails, Stopped
<1>2. snap[s] \in Rows /\ shard' = shard /\ job' = job
  BY DEF IInv, Typed, WalkFails
<1>3. CASE snap[s].status \in {"IN_PROGRESS", "FAILED"}
  <2> DEFINE x == [snap[s] EXCEPT !.status = "FAILED", !.cancelled = @ \/ b]
  <2>1. x \in Rows
    <3>1. (snap[s].cancelled \/ b) \in BOOLEAN
      BY <1>2 DEF Rows, Stopped
    <3> QED
      BY <1>2, <3>1, ZenonT(40) DEF Rows, SnapStates, Counted, Settled
  <2>2. Wrote(s, x)
    BY <1>1, <1>3, <2>1 DEF Wrote, FailedRow
  <2>3. snap'[s] = x
    BY <2>2, WroteRow DEF IInv
  <2>4. /\ snap'[s].status = "FAILED" /\ snap'[s].cancelled = (snap[s].cancelled \/ b)
        /\ snap'[s].degraded = snap[s].degraded /\ snap'[s].rescued = snap[s].rescued
        /\ snap'[s].reaped = snap[s].reaped
    BY <1>2, <2>3 DEF Rows
  <2>5. snap'[s].cancelled => snap[s].cancelled \/ Stopped(s)'
    BY <1>1, <1>2, <2>4, ZenonT(40) DEF Stopped
  <2>6. SameShards(s)
    BY <1>2 DEF SameShards
  <2> QED
    BY <1>2, <1>3, <2>2, <2>4, <2>5, <2>6, LaterVerdict, LaterOne
<1>4. CASE snap[s].status \notin {"IN_PROGRESS", "FAILED"}
  <2>1. snap' = snap
    BY <1>1, <1>4 DEF FailedRow, IInv, Typed
  <2> QED
    BY <1>2, <2>1, LaterNone
<1> QED
  BY <1>3, <1>4

\* The lease of a snapshot ends or is renewed.
LEMMA LaterLease ==
    ASSUME IInv, NEW s \in Snap, Lapse(s) \/ Renew(s)
    PROVE  AllLater
<1>1. PICK l \in {"null", "live", "lapsed"} : snap' = [snap EXCEPT ![s] = [snap[s] EXCEPT !.lease = l]]
  BY DEF Lapse, Renew
<1>2. snap[s] \in Rows /\ shard' = shard
  BY DEF IInv, Typed, Lapse, Renew
<1>3. Wrote(s, [snap[s] EXCEPT !.lease = l])
  BY <1>1, <1>2, RowFields, ZenonT(40) DEF Wrote
<1>4. snap'[s] = [snap[s] EXCEPT !.lease = l]
  BY <1>3, WroteRow DEF IInv
<1>5. /\ snap'[s].status = snap[s].status /\ snap'[s].cancelled = snap[s].cancelled
      /\ snap'[s].degraded = snap[s].degraded /\ snap'[s].rescued = snap[s].rescued
      /\ snap'[s].reaped = snap[s].reaped
  BY <1>2, <1>4 DEF Rows
<1>6. SameShards(s)
  BY <1>2 DEF SameShards
<1> QED
  BY <1>2, <1>3, <1>5, <1>6, LaterMild, LaterOne

\* The stale-snapshot reaper.
LEMMA LaterReaped ==
    ASSUME IInv, NEW s \in Snap, Reap(s)
    PROVE  AllLater
<1>1. PICK b \in BOOLEAN :
         snap' = [snap EXCEPT ![s] = [snap[s] EXCEPT !.status = ReapStatus(s, b), !.reaped = TRUE]]
  BY ZenonT(40) DEF Reap
<1>2. snap[s] \in Rows /\ shard' = shard /\ snap[s].status = "IN_PROGRESS"
  BY DEF IInv, Typed, Reap
<1> DEFINE x == [snap[s] EXCEPT !.status = ReapStatus(s, b), !.reaped = TRUE]
<1>3. x \in Rows
  <2>1. ReapStatus(s, b) \in SnapStates
    BY DerivedStates DEF SnapStates, Counted
  <2> QED
    BY <1>2, <2>1, ZenonT(40) DEF Rows
<1>4. Wrote(s, x)
  BY <1>1, <1>3 DEF Wrote
<1>5. snap'[s] = x
  BY <1>4, WroteRow DEF IInv
<1>6. /\ snap'[s].reaped /\ snap'[s].cancelled = snap[s].cancelled
      /\ snap'[s].degraded = snap[s].degraded /\ snap'[s].rescued = snap[s].rescued
  BY <1>2, <1>5 DEF Rows
<1>7. Sure(s)' /\ SameShards(s)
  BY <1>2, <1>6 DEF Sure, SameShards
<1> QED
  BY <1>2, <1>4, <1>6, <1>7, LaterVerdict, LaterOne, SMTT(30)

\* The fan-out: an unfanned snapshot is not solid, and only failed shards would
\* have degraded it.
LEMMA LaterFanOut ==
    ASSUME IInv, NEW s \in Snap, FanOut(s)
    PROVE  AllLater
<1>1. /\ snap' = snap /\ snap \in [Snap -> Rows] /\ ShardsOf(s) # {}
      /\ All(shard, s, {"ABSENT"})
  BY DEF FanOut, IInv, Typed, FannedLast
<1>2. \A p \in ShardsOf(s) : shard'[p] = "PENDING"
  BY DEF FanOut, ShardsOf
<1>3. ASSUME NEW t \in Snap, t # s PROVE Later(t)
  <2>1. SameShards(t)
    BY <1>3 DEF FanOut, SameShards, ShardsOf
  <2> QED
    BY <1>1, <2>1, LaterSame
<1>4. ~Solid(s) /\ ~Some(shard, s, FailedShard)
  BY <1>1 DEF Solid, Captured, All, Some, FailedShard
<1>5. DriveKept(s)
  <2>1. ~Some(shard', s, {"LOSSY"})
    BY <1>2 DEF Some
  <2> QED
    BY <1>1, <1>4, <2>1 DEF DriveKept, IInv, DriveLosses
<1>6. Later(s)
  BY <1>1, <1>4, <1>5 DEF Later, TeardownKept, MarksKept, SolidKept, CompletedFor
<1> QED
  BY <1>1, <1>3, <1>6 DEF AllLater
-----------------------------------------------------------------------------
(***************************************************************************)
(* The sweeps and the cancellation.                                        *)
(***************************************************************************)
\* STEP B on one row.
LEMMA SteppedB ==
    ASSUME Typed, NEW s \in Snap, Whole(s), NEW r \in Rows, NEW b, b = StepB(r, s)
    PROVE  /\ b \in Rows
           /\ b.degraded = r.degraded /\ b.cancelled = r.cancelled /\ b.rescued = r.rescued
           /\ b.reaped = r.reaped
           /\ b.status = r.status \/ (r.status = "IN_PROGRESS" /\ b.status \in Settled)
           /\ b.status = "COMPLETED" =>
                 r.status = "COMPLETED" \/ (~r.degraded /\ ShardsOf(s) # {} /\ All(shard, s, {"CLEAN"}))
<1> DEFINE to == IF Partitioned(shard, s) THEN StepBStatus(shard, s, r) ELSE "FAILED"
<1>1. CASE b = r
  BY <1>1
<1>2. CASE b # r
  <2>1. r.status = "IN_PROGRESS" /\ ~Pending(shard, s) /\ b = [r EXCEPT !.status = to, !.lease = "null"]
    BY <1>2 DEF StepB
  <2>2. to \in Settled
    BY DerivedStates DEF Settled
  <2>3. to = "COMPLETED" => ~r.degraded /\ ShardsOf(s) # {} /\ All(shard, s, {"CLEAN"})
    BY <2>1, SweptMeans DEF Drained
  <2> HIDE DEF to
  <2>4. b \in Rows /\ b.status = to
    BY <2>1, <2>2, ZenonT(40) DEF Rows, SnapStates, Counted
  <2>5. b.degraded = r.degraded /\ b.cancelled = r.cancelled /\ b.rescued = r.rescued /\ b.reaped = r.reaped
    BY <2>1 DEF Rows
  <2> QED
    BY <2>1, <2>2, <2>3, <2>4, <2>5
<1> QED
  BY <1>1, <1>2

\* STEP D on one row.
LEMMA SteppedD ==
    ASSUME Typed, NEW s \in Snap, Whole(s), NEW r \in Rows, NEW x, x = StepD(r, s)
    PROVE  /\ x \in Rows
           /\ x.degraded = r.degraded /\ x.cancelled = r.cancelled /\ x.rescued = r.rescued
           /\ x.reaped = r.reaped
           /\ x.status = r.status \/ (r.status \in Settled /\ x.status \in Settled)
           /\ x.status = "COMPLETED" =>
                 r.status = "COMPLETED" \/ (~r.degraded /\ ShardsOf(s) # {} /\ All(shard, s, {"CLEAN"}))
           /\ r.status \in Settled /\ ~r.degraded /\ ShardsOf(s) # {} /\ All(shard, s, {"CLEAN"}) =>
                 x.status = "COMPLETED"
<1> DEFINE to == StepDStatus(shard, s, r)
<1>1. ~r.degraded /\ ShardsOf(s) # {} /\ All(shard, s, {"CLEAN"}) => Drained(shard, s) /\ to = "COMPLETED"
  BY SolidShards
<1>2. CASE x = r
  <2>1. r.status \in Settled /\ Drained(shard, s) => r.status = to
    <3>1. to \in Settled /\ [r EXCEPT !.status = to, !.lease = "null"].status = to
      BY DerivedStates DEF Rows
    <3> HIDE DEF to
    <3> QED
      BY <1>2, <3>1, ZenonT(40) DEF StepD, to
  <2> QED
    BY <1>1, <1>2, <2>1
<1>3. CASE x # r
  <2>1. r.status \in Settled /\ Drained(shard, s) /\ x = [r EXCEPT !.status = to, !.lease = "null"]
    BY <1>3 DEF StepD
  <2>2. to \in Settled
    BY DerivedStates
  <2>3. to = "COMPLETED" => ~r.degraded /\ ShardsOf(s) # {} /\ All(shard, s, {"CLEAN"})
    BY <2>1, SweptMeans
  <2> HIDE DEF to
  <2>4. x \in Rows /\ x.status = to
    BY <2>1, <2>2, ZenonT(40) DEF Rows, SnapStates, Counted
  <2>5. x.degraded = r.degraded /\ x.cancelled = r.cancelled /\ x.rescued = r.rescued /\ x.reaped = r.reaped
    BY <2>1 DEF Rows
  <2> QED
    BY <1>1, <2>1, <2>2, <2>3, <2>4, <2>5
<1> QED
  BY <1>2, <1>3

\* The sweep: a solid snapshot is COMPLETED after it.
LEMMA LaterSweep ==
    ASSUME IInv, Sweep
    PROVE  AllLater
<1>0. PICK m : m = [s \in Snap |-> StepB(snap[s], s)]
  BY ZenonT(40)
<1>1. m = [s \in Snap |-> StepB(snap[s], s)] /\ snap' = [s \in Snap |-> StepD(m[s], s)]
  BY <1>0 DEF Sweep
<1>2. shard' = shard
  BY ZenonT(40) DEF Sweep
<1>3. ASSUME NEW s \in Snap PROVE snap'[s] \in Rows /\ Later(s)
  <2>1. snap[s] \in Rows /\ Whole(s) /\ Typed
    BY DEF IInv, Typed, FannedLast
  <2>2. m[s] = StepB(snap[s], s) /\ snap'[s] = StepD(m[s], s)
    BY <1>1
  <2>3. /\ m[s] \in Rows
        /\ m[s].degraded = snap[s].degraded /\ m[s].cancelled = snap[s].cancelled
        /\ m[s].rescued = snap[s].rescued /\ m[s].reaped = snap[s].reaped
        /\ m[s].status = snap[s].status \/ (snap[s].status = "IN_PROGRESS" /\ m[s].status \in Settled)
        /\ m[s].status = "COMPLETED" =>
              \/ snap[s].status = "COMPLETED"
              \/ ~snap[s].degraded /\ ShardsOf(s) # {} /\ All(shard, s, {"CLEAN"})
    BY <2>1, <2>2, SteppedB
  <2>4. /\ snap'[s] \in Rows
        /\ snap'[s].degraded = m[s].degraded /\ snap'[s].cancelled = m[s].cancelled
        /\ snap'[s].rescued = m[s].rescued /\ snap'[s].reaped = m[s].reaped
        /\ snap'[s].status = m[s].status \/ (m[s].status \in Settled /\ snap'[s].status \in Settled)
        /\ snap'[s].status = "COMPLETED" =>
              \/ m[s].status = "COMPLETED"
              \/ ~m[s].degraded /\ ShardsOf(s) # {} /\ All(shard, s, {"CLEAN"})
        /\ m[s].status \in Settled /\ ~m[s].degraded /\ ShardsOf(s) # {} /\ All(shard, s, {"CLEAN"}) =>
              snap'[s].status = "COMPLETED"
    BY <2>1, <2>2, <2>3, SteppedD
  <2>5. SameShards(s)
    BY <1>2 DEF SameShards
  <2>6. Solid(s)' <=> Solid(s)
    BY <2>3, <2>4, <2>5, SameAnswers, ZenonT(40) DEF Solid, Captured
  <2>7. TeardownKept(s)
    BY <2>3, <2>4 DEF TeardownKept, Settled
  <2>8. MarksKept(s)
    BY <2>3, <2>4 DEF MarksKept
  <2>9. SolidKept(s)
    <3>1. Solid(s) /\ snap[s].status \in {"COMPLETED", "PARTIAL"} => snap'[s].status = "COMPLETED"
      BY <2>3, <2>4 DEF Solid, Captured, Settled
    <3> QED
      BY <2>6, <3>1 DEF SolidKept
  <2>10. CompletedFor(s)
    <3>1. snap'[s].status = "COMPLETED" => snap[s].status = "COMPLETED" \/ Solid(s)
      BY <2>3, <2>4 DEF Solid, Captured
    <3> QED
      BY <2>6, <3>1 DEF CompletedFor, Sure
  <2>11. DriveKept(s)
    BY <2>3, <2>4, <2>5, SameAnswers DEF DriveKept, IInv, DriveLosses
  <2> QED
    BY <2>4, <2>7, <2>8, <2>9, <2>10, <2>11 DEF Later
<1> QED
  BY <1>1, <1>3 DEF AllLater

\* cancel_job
LEMMA LaterCancel ==
    ASSUME IInv, NEW j \in Job, CancelJob(j)
    PROVE  AllLater
<1>1. /\ snap' = [s \in Snap |-> IF JobOf[s] = j THEN CancelledRow(snap[s]) ELSE snap[s]]
      /\ shard' = shard /\ job'[j] = "CANCELLED"
  BY DEF CancelJob, IInv, Typed
<1>2. ASSUME NEW s \in Snap PROVE snap'[s] \in Rows /\ Later(s)
  <2>1. snap[s] \in Rows /\ SameShards(s)
    BY <1>1 DEF IInv, Typed, SameShards
  <2>2. CASE JobOf[s] = j
    <3>1. PICK x : x = CancelledRow(snap[s])
      OBVIOUS
    <3>2. \/ x = snap[s]
          \/ snap[s].status = "IN_PROGRESS" /\ x = [snap[s] EXCEPT !.status = "FAILED", !.cancelled = TRUE]
          \/ snap[s].status \in {"COMPLETED", "PARTIAL"} /\ x = [snap[s] EXCEPT !.cancelled = TRUE]
      BY <3>1 DEF CancelledRow
    <3>3. /\ x \in Rows /\ x.degraded = snap[s].degraded /\ x.rescued = snap[s].rescued
          /\ x.reaped = snap[s].reaped
          /\ x.status = snap[s].status \/ snap[s].status = "IN_PROGRESS"
      BY <2>1, <3>2, ZenonT(40) DEF Rows, SnapStates, Counted, Settled
    <3>4. snap'[s] = x /\ Stopped(s)'
      BY <1>1, <2>2, <3>1 DEF Stopped
    <3>5. TeardownKept(s)
      BY <3>3, <3>4 DEF TeardownKept
    <3> QED
      BY <2>1, <3>3, <3>4, <3>5, LaterStopped
  <2>3. CASE JobOf[s] # j
    BY <1>1, <2>1, <2>3, LaterSame
  <2> QED
    BY <2>2, <2>3
<1> QED
  BY <1>1, <1>2 DEF AllLater

\* cleanup_cancelled_snapshots
LEMMA LaterCleanup ==
    ASSUME IInv, NEW j \in Job, CleanupWrites(j)
    PROVE  AllLater
<1>1. /\ snap' = [s \in Snap |-> IF s \in purge[j].ids /\ HasRow(snap[s])
                                 THEN [snap[s] EXCEPT !.status = "FAILED"] ELSE snap[s]]
      /\ shard' = shard /\ job' = job /\ job[j] = "CANCELLED" /\ purge[j].ids \subseteq Children(j)
  BY DEF CleanupWrites, IInv, CancelTraces
<1>2. ASSUME NEW s \in Snap PROVE snap'[s] \in Rows /\ Later(s)
  <2>1. snap[s] \in Rows /\ SameShards(s)
    BY <1>1 DEF IInv, Typed, SameShards
  <2>2. CASE s \in purge[j].ids /\ HasRow(snap[s])
    <3>1. Stopped(s)' /\ s \in purge[JobOf[s]].ids
      BY <1>1, <2>2 DEF Stopped, Children
    <3>2. snap'[s] = [snap[s] EXCEPT !.status = "FAILED"]
      BY <1>1, <2>2
    <3>3. /\ snap'[s] \in Rows /\ snap'[s].degraded = snap[s].degraded
          /\ snap'[s].rescued = snap[s].rescued /\ snap'[s].reaped = snap[s].reaped
          /\ snap'[s].status = "FAILED"
      BY <2>1, <3>2 DEF Rows, SnapStates, Counted, Settled
    <3>4. TeardownKept(s)
      BY <2>2, <3>1, <3>3 DEF TeardownKept, HasRow
    <3> QED
      BY <2>1, <3>1, <3>3, <3>4, LaterStopped
  <2>3. CASE ~(s \in purge[j].ids /\ HasRow(snap[s]))
    <3>1. snap'[s] = snap[s]
      BY <1>1, <2>3, ZenonT(40)
    <3> QED
      BY <2>1, <3>1, LaterSame
  <2> QED
    BY <2>2, <2>3
<1> QED
  BY <1>1, <1>2, ZenonT(40) DEF AllLater

\* The teardown claims a row: one of a cancelled job, or one without a verdict
\* worth keeping.
LEMMA LaterClaim ==
    ASSUME IInv, NEW s \in Snap, ClaimDoomed(s)
    PROVE  AllLater
<1>1. CASE ~Claimable(snap[s], JobOf[s])
  <2>1. snap' = snap /\ shard' = shard
    BY <1>1 DEF ClaimDoomed
  <2> QED
    BY <2>1, LaterNone
<1>2. CASE Claimable(snap[s], JobOf[s])
  <2> DEFINE x == [snap[s] EXCEPT !.status = "PENDING_DELETION", !.lease = "null"]
  <2>1. snap[s] \in Rows /\ shard' = shard /\ job' = job
    BY DEF IInv, Typed, ClaimDoomed
  <2>2. Wrote(s, x)
    <3>1. x \in Rows
      BY <2>1, ZenonT(40) DEF Rows, SnapStates
    <3>2. snap' = [snap EXCEPT ![s] = x]
      BY <1>2, ZenonT(40) DEF ClaimDoomed, IInv, Typed
    <3> QED
      BY <3>1, <3>2 DEF Wrote
  <2>3. snap'[s] = x
    BY <2>2, WroteRow DEF IInv
  <2>4. /\ snap'[s].status = "PENDING_DELETION" /\ snap'[s].cancelled = snap[s].cancelled
        /\ snap'[s].degraded = snap[s].degraded /\ snap'[s].rescued = snap[s].rescued
        /\ snap'[s].reaped = snap[s].reaped
    BY <2>1, <2>3 DEF Rows
  <2>5. SameShards(s)
    BY <2>1 DEF SameShards
  <2>6. CASE snap[s].cancelled
    <3>1. Stopped(s)'
      BY <2>1, <2>6 DEF IInv, CancelTraces, Stopped
    <3>2. TeardownKept(s)
      BY <1>2, <2>4 DEF TeardownKept, Claimable, HasRow
    <3> QED
      BY <2>1, <2>2, <2>4, <2>5, <3>1, <3>2, LaterStopped, LaterOne
  <2>7. CASE snap[s].status \in {"IN_PROGRESS", "FAILED"}
    BY <2>1, <2>2, <2>4, <2>5, <2>7, LaterVerdict, LaterOne
  <2>8. CASE snap[s].status = "PENDING_DELETION"
    BY <2>1, <2>2, <2>4, <2>5, <2>8, LaterMild, LaterOne
  <2> QED
    BY <1>2, <2>6, <2>7, <2>8 DEF Claimable
<1> QED
  BY <1>1, <1>2

\* The teardown deletes a claimed row, its shards and its retries.
LEMMA LaterDelete ==
    ASSUME IInv, NEW s \in Snap, DeleteDoomed(s)
    PROVE  AllLater
<1>1. CASE ~(snap[s].status = "PENDING_DELETION" /\ snap[s].lease # "live")
  <2>1. snap' = snap /\ shard' = shard
    BY <1>1 DEF DeleteDoomed
  <2> QED
    BY <2>1, LaterNone
<1>2. CASE snap[s].status = "PENDING_DELETION" /\ snap[s].lease # "live"
  <2> DEFINE x == [NewRow EXCEPT !.status = "DELETED", !.lease = "null", !.reaped = snap[s].reaped]
  <2>1. /\ snap[s] \in Rows /\ snap' = [snap EXCEPT ![s] = x]
        /\ shard' = [p \in Shard |-> IF SnapOf[p] = s THEN "ABSENT" ELSE shard[p]]
    BY <1>2, SMTT(30) DEF IInv, Typed, DeleteDoomed
  <2>2. Wrote(s, x)
    <3>1. snap[s].reaped \in BOOLEAN
      BY <2>1 DEF Rows
    <3> QED
      BY <2>1, <3>1, NewRows, ZenonT(40) DEF Wrote
  <2>3. snap'[s] = x /\ snap' \in [Snap -> Rows] /\ \A t \in Snap \ {s} : snap'[t] = snap[t]
    BY <2>2, WroteRow DEF IInv
  <2>4. /\ snap'[s].status = "DELETED" /\ ~snap'[s].cancelled /\ ~snap'[s].degraded
        /\ ~snap'[s].rescued /\ snap'[s].reaped = snap[s].reaped
    BY <2>3 DEF NewRow
  <2>5. ~Some(shard', s, {"LOSSY"})
    BY <2>1 DEF Some, ShardsOf
  <2>6. Later(s)
    BY <1>2, <2>4, <2>5 DEF Later, TeardownKept, MarksKept, SolidKept, CompletedFor, DriveKept
  <2>7. ASSUME NEW t \in Snap, t # s PROVE Later(t)
    <3>1. SameShards(t)
      BY <2>1, <2>7 DEF SameShards, ShardsOf
    <3> QED
      BY <2>3, <2>7, <3>1, LaterSame
  <2> QED
    BY <2>3, <2>6, <2>7 DEF AllLater
<1> QED
  BY <1>1, <1>2
-----------------------------------------------------------------------------
(***************************************************************************)
(* The shards and the coordinators.                                        *)
(***************************************************************************)
\* A coordinator never leaves its end, and its message is handled once.
NotYet == {"waiting", "accepted", "skipping"}
CoordOK(s) ==
    /\ coord'[s] \in CoordStates
    /\ coord[s] = "done" => coord'[s] = "done"
    /\ coord'[s] \in NotYet => coord[s] \in NotYet

\* One coordinator took a step.
LEMMA CoordOne ==
    ASSUME Typed, NEW s \in Snap, NEW c \in CoordStates, coord' = [coord EXCEPT ![s] = c],
           coord[s] # "done", c \in NotYet => coord[s] \in NotYet
    PROVE  coord' \in [Snap -> CoordStates] /\ \A t \in Snap : CoordOK(t)
<1>1. coord' \in [Snap -> CoordStates] /\ coord'[s] = c
  BY DEF Typed
<1>2. ASSUME NEW t \in Snap, t # s PROVE coord'[t] = coord[t] /\ coord[t] \in CoordStates
  BY <1>2 DEF Typed
<1> QED
  BY <1>1, <1>2 DEF CoordOK

LEMMA CoordNext ==
    ASSUME Typed, [Next]_vars
    PROVE  coord' \in [Snap -> CoordStates] /\ \A s \in Snap : CoordOK(s)
<1> DEFINE Goal == coord' \in [Snap -> CoordStates] /\ \A s \in Snap : CoordOK(s)
<1>1. CASE coord' = coord
  BY <1>1 DEF CoordOK, Typed
<1> HIDE DEF Goal
<1>2. ASSUME NEW s \in Snap,
             \/ Coordinate(s) \/ CoordinatorDies(s) \/ Lapse(s) \/ Renew(s) \/ Reap(s) \/ Teardown(s)
      PROVE  Goal
  <2>1. CASE Coordinate(s) \/ CoordinatorDies(s)
    <3>1. PICK c \in CoordStates :
             /\ coord' = [coord EXCEPT ![s] = c] /\ coord[s] # "done"
             /\ c \in NotYet => coord[s] \in NotYet
      <4>1. CASE Intake(s)
        BY <4>1 DEF Intake, CoordStates, NotYet
      <4>2. CASE CreateSnapshot(s)
        BY <4>2, ZenonT(40) DEF CreateSnapshot, CoordStates, NotYet
      <4>3. CASE MarkSkipped(s) \/ FanOut(s) \/ RollFailed(s) \/ CoordinatorDies(s)
        BY <4>3 DEF MarkSkipped, FanOut, RollFailed, CoordinatorDies, CoordStates, NotYet
      <4>4. CASE Stash(s) \/ WalkFails(s)
        BY <4>4, ZenonT(40) DEF Stash, WalkFails, CoordStates, NotYet
      <4> QED
        BY <2>1, <4>1, <4>2, <4>3, <4>4, ZenonT(40) DEF Coordinate
    <3> QED
      BY <3>1, CoordOne, ZenonT(40) DEF Goal
  <2>2. CASE Lapse(s) \/ Renew(s) \/ Reap(s) \/ Teardown(s)
    <3>1. coord' = coord
      BY <2>2, ZenonT(40) DEF Lapse, Renew, Reap, Teardown, SelectDoomed, ClaimDoomed, DeleteDoomed
    <3> QED
      BY <1>1, <3>1 DEF Goal
  <2> QED
    BY <1>2, <2>1, <2>2
<1>3. ASSUME NEW h \in Finalizer,
             \/ Finalize(h) \/ FinalizerDies(h)
             \/ (\E p \in Shard : Drain(h, p)) \/ (\E s \in Snap : RescueFiles(h, s))
      PROVE  Goal
  <2>1. coord' = coord
    BY <1>3, ZenonT(40) DEF Finalize, Flip, Preempted, Reconcile, Roll, Promote, SettleRescued,
                       FinalizerDies, Drain, RescueFiles
  <2> QED
    BY <1>1, <2>1 DEF Goal
<1>4. CASE \/ \E p \in Shard : GiveUp(p)
           \/ \E j \in Job : Backstop(j) \/ CancelJob(j) \/ CleanupReads(j) \/ CleanupWrites(j)
           \/ Sweep \/ SchedulerDies \/ UNCHANGED vars
  <2>1. coord' = coord
    BY <1>4, ZenonT(40) DEF GiveUp, Backstop, CancelJob, CleanupReads, CleanupWrites, Sweep,
                       SchedulerDies, vars
  <2> QED
    BY <1>1, <2>1 DEF Goal
<1> QED
  BY <1>2, <1>3, <1>4, ZenonT(40) DEF Next, Goal

\* Shards come and go together, and come with the coordinator's last act.
ShardOK(s) ==
    /\ \A p \in ShardsOf(s) : shard'[p] \in ShardStates
    /\ Whole(s)'
    /\ All(shard, s, {"ABSENT"}) => All(shard', s, {"ABSENT"}) \/ coord'[s] = "done"

\* The shards of other snapshots.
LEMMA ShardSame ==
    ASSUME IInv, NEW s \in Snap, SameShards(s)
    PROVE  ShardOK(s)
<1>1. \A p \in ShardsOf(s) : shard[p] \in ShardStates
  BY DEF IInv, Typed, ShardsOf
<1>2. Whole(s)' /\ (All(shard, s, {"ABSENT"}) => All(shard', s, {"ABSENT"}))
  BY SameAnswers DEF Whole, IInv, FannedLast
<1> QED
  BY <1>1, <1>2 DEF ShardOK, SameShards

\* All shards of one snapshot were set to the same status.
LEMMA ShardAll ==
    ASSUME IInv, NEW s \in Snap, NEW c \in ShardStates,
           shard' = [p \in Shard |-> IF SnapOf[p] = s THEN c ELSE shard[p]],
           c = "ABSENT" \/ coord'[s] = "done" \/ ~All(shard, s, {"ABSENT"})
    PROVE  shard' \in [Shard -> ShardStates] /\ \A t \in Snap : ShardOK(t)
<1>1. shard' \in [Shard -> ShardStates]
  BY DEF IInv, Typed
<1>2. \A p \in ShardsOf(s) : shard'[p] = c
  BY DEF ShardsOf
<1>3. ShardOK(s)
  <2>1. Whole(s)'
    BY <1>2 DEF Whole, All
  <2>2. c = "ABSENT" => All(shard', s, {"ABSENT"})
    BY <1>2 DEF All
  <2> QED
    BY <1>2, <2>1, <2>2 DEF ShardOK
<1>4. ASSUME NEW t \in Snap, t # s PROVE ShardOK(t)
  <2>1. SameShards(t)
    BY <1>4 DEF SameShards, ShardsOf
  <2> QED
    BY <2>1, ShardSame
<1> QED
  BY <1>1, <1>3, <1>4

\* One shard that was there ended.
LEMMA ShardOne ==
    ASSUME IInv, NEW p \in Shard, NEW c \in ShardStates \ {"ABSENT"}, shard[p] # "ABSENT",
           shard' = [shard EXCEPT ![p] = c]
    PROVE  shard' \in [Shard -> ShardStates] /\ \A t \in Snap : ShardOK(t)
<1>1. PICK s \in Snap : s = SnapOf[p] /\ p \in ShardsOf(s)
  BY ShardPlace
<1>2. shard' \in [Shard -> ShardStates] /\ shard'[p] = c
  BY DEF IInv, Typed
<1>3. All(shard, s, ShardStates \ {"ABSENT"}) /\ ~All(shard, s, {"ABSENT"})
  BY <1>1 DEF IInv, FannedLast, Whole, All
<1>4. ShardOK(s)
  <2>1. \A q \in ShardsOf(s) \ {p} : shard'[q] = shard[q]
    BY DEF IInv, Typed, ShardsOf
  <2>2. All(shard', s, ShardStates \ {"ABSENT"})
    BY <1>2, <1>3, <2>1 DEF All
  <2> QED
    BY <1>3, <2>2 DEF ShardOK, Whole, All
<1>5. ASSUME NEW t \in Snap, t # s PROVE ShardOK(t)
  <2>1. SameShards(t)
    BY <1>1, <1>5 DEF SameShards, ShardsOf, IInv, Typed
  <2> QED
    BY <2>1, ShardSame
<1> QED
  BY <1>2, <1>4, <1>5

LEMMA ShardNext ==
    ASSUME IInv, [Next]_vars
    PROVE  shard' \in [Shard -> ShardStates] /\ \A s \in Snap : ShardOK(s)
<1> DEFINE Goal == shard' \in [Shard -> ShardStates] /\ \A s \in Snap : ShardOK(s)
<1>1. CASE shard' = shard
  <2>1. \A s \in Snap : ShardOK(s)
    BY <1>1, ShardSame DEF SameShards
  <2> QED
    BY <1>1, <2>1 DEF IInv, Typed
<1> HIDE DEF Goal
<1>2. ASSUME NEW s \in Snap,
             \/ Coordinate(s) \/ CoordinatorDies(s) \/ Lapse(s) \/ Renew(s) \/ Reap(s) \/ Teardown(s)
      PROVE  Goal
  <2>1. CASE FanOut(s)
    <3>1. /\ shard' = [p \in Shard |-> IF SnapOf[p] = s THEN "PENDING" ELSE shard[p]]
          /\ coord'[s] = "done" /\ "PENDING" \in ShardStates
      BY <2>1 DEF FanOut, IInv, Typed, ShardStates
    <3> QED
      BY <3>1, ShardAll DEF Goal
  <2>2. CASE DeleteDoomed(s) /\ shard' # shard
    <3>1. /\ shard' = [p \in Shard |-> IF SnapOf[p] = s THEN "ABSENT" ELSE shard[p]]
          /\ "ABSENT" \in ShardStates
      BY <2>2 DEF DeleteDoomed, ShardStates
    <3> QED
      BY <3>1, ShardAll DEF Goal
  <2>3. CASE ~FanOut(s) /\ ~(DeleteDoomed(s) /\ shard' # shard)
    <3>1. shard' = shard
      BY <1>2, <2>3, ZenonT(40) DEF Coordinate, CoordinatorDies, Lapse, Renew, Reap, Teardown, Intake,
                               CreateSnapshot, MarkSkipped, Stash, WalkFails, RollFailed,
                               SelectDoomed, ClaimDoomed
    <3> QED
      BY <1>1, <3>1 DEF Goal
  <2> QED
    BY <2>1, <2>2, <2>3
<1>3. ASSUME NEW h \in Finalizer, Finalize(h) \/ FinalizerDies(h) PROVE Goal
  <2>1. CASE SettleRescued(h) /\ shard' # shard
    <3>1. PICK s \in Snap : s = fin[h].snap
      BY <2>1, FinSnap, ZenonT(40) DEF SettleRescued, IInv
    <3>2. shard' = RescuedShards(s) /\ Partitioned(shard, s)
      BY <2>1, <3>1, ZenonT(40) DEF SettleRescued, Rescuable
    <3>3. /\ shard' = [p \in Shard |-> IF SnapOf[p] = s THEN "CLEAN" ELSE shard[p]]
          /\ "CLEAN" \in ShardStates
      BY <3>2 DEF RescuedShards, ShardStates, DoneShard
    <3>4. ~All(shard, s, {"ABSENT"})
      BY <3>2 DEF Partitioned, Some, All, DoneShard, FailedShard
    <3> QED
      BY <3>3, <3>4, ShardAll, SMTT(30) DEF Goal
  <2>2. CASE ~(SettleRescued(h) /\ shard' # shard)
    <3>1. shard' = shard
      BY <1>3, <2>2, ZenonT(40) DEF Finalize, Flip, Preempted, Reconcile, Roll, Promote, FinalizerDies
    <3> QED
      BY <1>1, <3>1 DEF Goal
  <2> QED
    BY <2>1, <2>2
<1>4. ASSUME NEW h \in Finalizer, NEW p \in Shard, Drain(h, p) PROVE Goal
  <2>1. PICK c \in Outcomes(SnapOf[p]) : shard' = [shard EXCEPT ![p] = c]
    BY <1>4, ZenonT(40) DEF Drain
  <2>2. c \in ShardStates \ {"ABSENT"}
    BY DEF Outcomes, ShardStates, DoneShard, FailedShard
  <2>3. shard[p] # "ABSENT"
    BY <1>4 DEF Drain
  <2> QED
    BY <2>1, <2>2, <2>3, ShardOne, ZenonT(40) DEF Goal
<1>5. ASSUME NEW p \in Shard, GiveUp(p) PROVE Goal
  <2>1. /\ shard' = [shard EXCEPT ![p] = "FAILED"] /\ shard[p] # "ABSENT"
        /\ "FAILED" \in ShardStates \ {"ABSENT"}
    BY <1>5 DEF GiveUp, ShardStates, DoneShard, FailedShard
  <2> QED
    BY <2>1, ShardOne, ZenonT(40) DEF Goal
<1>6. CASE \/ \E h \in Finalizer, s \in Snap : RescueFiles(h, s)
           \/ \E j \in Job : Backstop(j) \/ CancelJob(j) \/ CleanupReads(j) \/ CleanupWrites(j)
           \/ Sweep \/ SchedulerDies \/ UNCHANGED vars
  <2>1. shard' = shard
    BY <1>6, ZenonT(40) DEF RescueFiles, Backstop, CancelJob, CleanupReads, CleanupWrites, Sweep,
                       SchedulerDies, vars
  <2> QED
    BY <1>1, <2>1 DEF Goal
<1> QED
  BY <1>2, <1>3, <1>4, <1>5, <1>6, ZenonT(40) DEF Next, Goal
=============================================================================
