------------------------- MODULE SnapshotRollupProofs ------------------------
(***************************************************************************)
(* Proofs about SnapshotRollup.  Every action is shown to change a row only *)
(* the way Later (module SnapshotRollupSteps) allows, and the other         *)
(* variables the way their own lemmas say; the invariant IInv follows, and  *)
(* the theorems from it.                                                    *)
(***************************************************************************)
EXTENDS SnapshotRollupSteps
-----------------------------------------------------------------------------
(***************************************************************************)
(* The finalizers' steps.                                                  *)
(***************************************************************************)
\* A shard is drained: it was pending, so its snapshot was not solid, and a
\* OneDrive is not degraded by it.
LEMMA LaterDrain ==
    ASSUME IInv, NEW h \in Finalizer, NEW p \in Shard, Drain(h, p)
    PROVE  AllLater
<1> DEFINE s == SnapOf[p]
<1>1. s \in Snap /\ p \in ShardsOf(s) /\ shard[p] = "PENDING"
  BY ShardPlace DEF Drain
<1>2. PICK o \in Outcomes(s), g \in {FALSE, s \notin OneDrive} :
         /\ shard' = [shard EXCEPT ![p] = o]
         /\ snap' = [snap EXCEPT ![s] = [snap[s] EXCEPT !.degraded = @ \/ g]]
  BY ZenonT(40) DEF Drain
<1>3. snap[s] \in Rows /\ shard \in [Shard -> ShardStates]
  BY <1>1 DEF IInv, Typed
<1> DEFINE x == [snap[s] EXCEPT !.degraded = @ \/ g]
<1> HIDE DEF s
<1>4. x \in Rows
  <2>1. (snap[s].degraded \/ g) \in BOOLEAN
    OBVIOUS
  <2> QED
    BY <1>3, <2>1, ZenonT(40) DEF Rows
<1>5. Wrote(s, x)
  BY <1>2, <1>4 DEF Wrote
<1>6. snap'[s] = x /\ snap' \in [Snap -> Rows] /\ \A t \in Snap \ {s} : snap'[t] = snap[t]
  BY <1>1, <1>5, WroteRow DEF IInv
<1>7. /\ snap'[s].status = snap[s].status /\ snap'[s].cancelled = snap[s].cancelled
      /\ snap'[s].degraded = (snap[s].degraded \/ g) /\ snap'[s].rescued = snap[s].rescued
      /\ snap'[s].reaped = snap[s].reaped
  BY <1>3, <1>6 DEF Rows
<1>8. ~Solid(s)
  BY <1>1, SolidShards DEF Solid, Captured, Some
<1>9. DriveKept(s)
  <2>1. SUFFICES ASSUME s \in OneDrive
                 PROVE  /\ ~Some(shard', s, {"LOSSY"})
                        /\ snap'[s].degraded => Some(shard', s, FailedShard)
    BY DEF DriveKept
  <2>2. o # "LOSSY" /\ g = FALSE
    BY <2>1, ZenonT(40) DEF Outcomes
  <2>3. ~Some(shard, s, {"LOSSY"}) /\ (snap[s].degraded => Some(shard, s, FailedShard))
    BY <2>1 DEF IInv, DriveLosses
  <2>4. shard'[p] = o /\ \A q \in ShardsOf(s) \ {p} : shard'[q] = shard[q]
    BY <1>2, <1>3 DEF ShardsOf
  <2>5. ~Some(shard', s, {"LOSSY"})
    BY <2>2, <2>3, <2>4 DEF Some
  <2>6. Some(shard, s, FailedShard) => Some(shard', s, FailedShard)
    BY <1>1, <2>4 DEF Some, FailedShard
  <2> QED
    BY <1>7, <2>2, <2>3, <2>5, <2>6, ZenonT(40)
<1>10. Later(s)
  BY <1>7, <1>8, <1>9 DEF Later, TeardownKept, MarksKept, SolidKept, CompletedFor
<1>11. ASSUME NEW t \in Snap, t # s PROVE Later(t)
  <2>1. SameShards(t)
    BY <1>2, <1>3, <1>11 DEF SameShards, ShardsOf, s
  <2> QED
    BY <1>6, <1>11, <2>1, LaterSame
<1> QED
  BY <1>6, <1>10, <1>11 DEF AllLater

\* A sweep gives up on a shard: it was pending, or its job was cancelled.
LEMMA LaterGiveUp ==
    ASSUME IInv, NEW p \in Shard, GiveUp(p)
    PROVE  AllLater
<1> DEFINE s == SnapOf[p]
<1>1. /\ s \in Snap /\ p \in ShardsOf(s) /\ snap' = snap /\ job' = job
      /\ shard' = [shard EXCEPT ![p] = "FAILED"] /\ shard \in [Shard -> ShardStates]
  BY ShardPlace DEF GiveUp, IInv, Typed
<1>2. Solid(s) => Stopped(s)
  <2>1. shard[p] = "PENDING" \/ Stopped(s)
    BY DEF GiveUp, Stopped
  <2> QED
    BY <1>1, <2>1, SolidShards DEF Solid, Captured, Some
<1>3. DriveKept(s)
  <2>1. s \in OneDrive => ~Some(shard, s, {"LOSSY"})
    BY DEF IInv, DriveLosses
  <2>2. shard'[p] = "FAILED" /\ \A q \in ShardsOf(s) \ {p} : shard'[q] = shard[q]
    BY <1>1 DEF ShardsOf
  <2> HIDE DEF s
  <2>3. Some(shard', s, FailedShard) /\ (~Some(shard, s, {"LOSSY"}) => ~Some(shard', s, {"LOSSY"}))
    BY <1>1, <2>2 DEF Some, FailedShard
  <2> QED
    BY <2>1, <2>3 DEF DriveKept
<1>4. Later(s)
  BY <1>1, <1>2, <1>3 DEF Later, TeardownKept, MarksKept, SolidKept, CompletedFor, Stopped
<1>5. ASSUME NEW t \in Snap, t # s PROVE Later(t)
  <2>1. SameShards(t)
    BY <1>1, <1>5 DEF SameShards, ShardsOf
  <2> QED
    BY <1>1, <1>5, <2>1, LaterSame
<1> QED
  BY <1>1, <1>4, <1>5 DEF AllLater, IInv, Typed

\* Transaction 1: the flip of a running row.
LEMMA FlipWrites ==
    ASSUME IInv, NEW h \in Finalizer, Flip(h), NEW s \in Snap, s = fin[h].snap,
           snap[s].status = "IN_PROGRESS", Drained(shard, s)
    PROVE  /\ AllLater
           /\ s \in OneDrive /\ FlippedStatus(shard, s) = "COMPLETED" => Sure(s)'
<1> DEFINE to == FlippedStatus(shard, s)
           x == [snap[s] EXCEPT !.status = to]
<1>1. snap[s] \in Rows /\ Whole(s) /\ shard' = shard
  BY DEF IInv, Typed, FannedLast, Flip
<1>2. snap' = [snap EXCEPT ![s] = x]
  BY ZenonT(40) DEF Flip, HasRow
<1>3. Wrote(s, x)
  <2>1. to \in SnapStates
    BY DerivedStates DEF SnapStates, Counted
  <2> QED
    BY <1>1, <1>2, <2>1, RowFields, ZenonT(40) DEF Wrote
<1>4. snap'[s] = x
  BY <1>3, WroteRow DEF IInv
<1> HIDE DEF to
<1>5. /\ snap'[s].status = to /\ snap'[s].cancelled = snap[s].cancelled
      /\ snap'[s].degraded = snap[s].degraded /\ snap'[s].rescued = snap[s].rescued
      /\ snap'[s].reaped = snap[s].reaped
  BY <1>1, <1>4 DEF Rows
<1>6. SameShards(s)
  BY <1>1 DEF SameShards
<1>7. ASSUME s \in OneDrive, to = "COMPLETED" PROVE Sure(s)'
  <2>1. ShardsOf(s) # {} /\ All(shard, s, {"CLEAN"})
    BY <1>1, <1>7, CompletedMeans DEF IInv, to
  <2>2. ~snap[s].degraded
    BY <1>7, <2>1, SolidShards DEF IInv, DriveLosses
  <2>3. Solid(s)'
    BY <1>5, <1>6, <2>1, <2>2, SameAnswers
  <2> QED
    BY <1>5, <1>7, <2>3 DEF Sure
<1>8. Later(s)
  BY <1>5, <1>6, <1>7, LaterVerdict
<1> QED
  BY <1>1, <1>3, <1>7, <1>8, LaterOne DEF to

\* A flip that stands down or is preempted writes nothing.
LEMMA LaterFlip ==
    ASSUME IInv, NEW h \in Finalizer, Flip(h)
    PROVE  AllLater
<1>1. PICK s \in Snap : s = fin[h].snap
  BY FinSnap DEF Flip, IInv
<1>2. CASE snap[s].status = "IN_PROGRESS" /\ Drained(shard, s)
  BY <1>1, <1>2, FlipWrites
<1>3. CASE ~(snap[s].status = "IN_PROGRESS" /\ Drained(shard, s))
  <2>1. snap' = snap /\ shard' = shard
    BY <1>1, <1>3, ZenonT(40) DEF Flip
  <2> QED
    BY <2>1, LaterNone
<1> QED
  BY <1>2, <1>3

\* What reconcile makes of row r of s on the word of finalizer f: the row and
\* the status that the finalizer goes on with.
Reconciles(r, s, f, rec) ==
    /\ rec.row.cancelled = r.cancelled /\ rec.row.rescued = r.rescued
    /\ rec.row.reaped = r.reaped
    /\ rec.row.degraded =
          (r.degraded \/ (Drained(shard, s) /\ DerivedStatus(shard, s) # "COMPLETED"))
    /\ rec.row.status = "COMPLETED" =>
          \/ Drained(shard, s) /\ DerivedStatus(shard, s) = "COMPLETED" /\ ~rec.row.degraded
          \/ ~Drained(shard, s) /\ r.status = "COMPLETED"
          \/ ~Drained(shard, s) /\ f.status = "COMPLETED"
    /\ Drained(shard, s) /\ DerivedStatus(shard, s) = "COMPLETED" /\ ~r.degraded /\ ~Stopped(s) =>
          rec.row.status = "COMPLETED"
    /\ rec.status = "COMPLETED" =>
          \/ Drained(shard, s) /\ DerivedStatus(shard, s) = "COMPLETED" /\ ~rec.row.degraded
          \/ f.status = "COMPLETED"

\* reconcile writes and returns just that.
LEMMA ReconciledMeans ==
    ASSUME NEW r \in Rows, NEW s \in Snap, NEW f, NEW rec, rec = ReconciledRow(r, s, f)
    PROVE  Reconciles(r, s, f, rec)
<1> DEFINE drained == Drained(shard, s)
           derived == DerivedStatus(shard, s)
           upgraded == IF f.preempted /\ f.status = "COMPLETED" /\ r.status = "PARTIAL"
                       THEN "COMPLETED" ELSE r.status
           checked == IF drained THEN derived ELSE upgraded
           degraded == r.degraded \/ (drained /\ derived # "COMPLETED")
           honest == IF degraded /\ checked = "COMPLETED" THEN "PARTIAL" ELSE checked
           coerce == honest \in {"COMPLETED", "PARTIAL"} /\ job[JobOf[s]] = "CANCELLED"
           final == IF coerce THEN "FAILED" ELSE honest
           x == rec.row
           back == rec.status
<1>1. /\ x = [r EXCEPT !.status = final, !.degraded = degraded, !.reconciled = TRUE]
      /\ back = IF honest # checked \/ checked # upgraded THEN honest ELSE f.status
  BY ZenonT(40) DEF ReconciledRow
<1>2. /\ upgraded = "COMPLETED" => r.status = "COMPLETED" \/ f.status = "COMPLETED"
      /\ drained => checked = derived
      /\ ~drained => checked = upgraded
      /\ honest = "COMPLETED" => checked = "COMPLETED" /\ ~degraded
      /\ checked = "COMPLETED" /\ ~degraded => honest = "COMPLETED"
      /\ honest # checked => honest = "PARTIAL"
      /\ final = "COMPLETED" => honest = "COMPLETED"
      /\ honest = "COMPLETED" /\ ~Stopped(s) => final = "COMPLETED"
  BY DEF Stopped
<1> HIDE DEF x, back
<1>4. /\ x.status = final /\ x.degraded = degraded /\ x.cancelled = r.cancelled
      /\ x.rescued = r.rescued /\ x.reaped = r.reaped
  <2> HIDE DEF final, degraded
  <2> QED
    BY <1>1 DEF Rows
<1> DEFINE clean == drained /\ derived = "COMPLETED"
<1>5. x.status = "COMPLETED" => \/ clean /\ ~x.degraded
                                \/ ~drained /\ r.status = "COMPLETED"
                                \/ ~drained /\ f.status = "COMPLETED"
  <2> HIDE DEF drained, derived, upgraded, checked, degraded, honest, final
  <2> QED
    BY <1>2, <1>4
<1>6. clean /\ ~r.degraded /\ ~Stopped(s) => x.status = "COMPLETED"
  <2>1. clean /\ ~r.degraded => ~degraded
    OBVIOUS
  <2> HIDE DEF drained, derived, upgraded, checked, degraded, honest, final
  <2> QED
    BY <1>2, <1>4, <2>1
<1>7. back = "COMPLETED" => (clean /\ ~x.degraded) \/ f.status = "COMPLETED"
  <2> HIDE DEF drained, derived, upgraded, checked, degraded, honest, final
  <2> QED
    BY <1>1, <1>2, <1>4
<1>8. x.degraded = (r.degraded \/ (drained /\ derived # "COMPLETED"))
  BY <1>4
<1> HIDE DEF drained, derived
<1> QED
  BY <1>4, <1>5, <1>6, <1>7, <1>8, ZenonT(40) DEF Reconciles, drained, derived, x, back

\* Transaction 2.  What was not COMPLETED becomes so over clean shards, or on the
\* word of a finalizer that had cause.
LEMMA ReconcileWrites ==
    ASSUME IInv, NEW h \in Finalizer, Reconcile(h), NEW s \in Snap, s = fin[h].snap,
           HasRow(snap[s]), ~ClaimedForTeardown(snap[s])
    PROVE  /\ AllLater
           /\ s \in OneDrive /\ ReconciledRow(snap[s], s, fin[h]).status = "COMPLETED" => Sure(s)'
<1>0. PICK rec : rec = ReconciledRow(snap[s], s, fin[h])
  OBVIOUS
<1> DEFINE r == snap[s]
           x == rec.row
           back == rec.status
           clean == Drained(shard, s) /\ DerivedStatus(shard, s) = "COMPLETED"
<1>1. /\ r \in Rows /\ Whole(s) /\ shard' = shard /\ job' = job /\ fin[h] \in Locals
      /\ fin[h].pc = "reconcile" /\ fin[h].status \in Settled
  BY FinSnap DEF IInv, Typed, FannedLast, Reconcile
<1>2. snap' = [snap EXCEPT ![s] = x]
  BY <1>0, ZenonT(40) DEF Reconcile
<1>3. Wrote(s, x)
  BY <1>0, <1>1, <1>2, ReconciledTyped DEF Wrote
<1>4. snap'[s] = x
  BY <1>3, WroteRow, SMTT(30) DEF IInv
<1>5. /\ x.cancelled = r.cancelled /\ x.rescued = r.rescued /\ x.reaped = r.reaped
      /\ x.degraded = (r.degraded \/ (Drained(shard, s) /\ DerivedStatus(shard, s) # "COMPLETED"))
      /\ x.status = "COMPLETED" => \/ clean /\ ~x.degraded
                                   \/ ~Drained(shard, s) /\ r.status = "COMPLETED"
                                   \/ ~Drained(shard, s) /\ fin[h].status = "COMPLETED"
      /\ clean /\ ~r.degraded /\ ~Stopped(s) => x.status = "COMPLETED"
      /\ back = "COMPLETED" => (clean /\ ~x.degraded) \/ fin[h].status = "COMPLETED"
  <2>1. Reconciles(r, s, fin[h], rec)
    BY <1>0, <1>1, ReconciledMeans, ZenonT(40)
  <2> QED
    BY <2>1, ZenonT(40) DEF Reconciles
<1>6. SameShards(s) /\ (Stopped(s)' <=> Stopped(s))
  BY <1>1 DEF SameShards, Stopped
<1> HIDE DEF x, back, r
<1>7. clean => ShardsOf(s) # {} /\ All(shard, s, {"CLEAN"})
  BY <1>1, CompletedMeans DEF IInv
<1>8. clean /\ ~x.degraded => Solid(s)'
  BY <1>4, <1>6, <1>7, SameAnswers
<1>9. Solid(s) => clean /\ ~r.degraded /\ ~x.degraded
  BY <1>5, SolidShards, ZenonT(40) DEF Solid, Captured, r
<1>10. s \in OneDrive /\ fin[h].status = "COMPLETED" => Sure(s)
  BY <1>1 DEF IInv, CompletedSure, Promises
<1>11. Solid(s) /\ ~Stopped(s) => Solid(s)' /\ snap'[s].status = "COMPLETED"
  BY <1>4, <1>5, <1>8, <1>9, SMTT(30)
<1>12. Sure(s) => Sure(s)'
  BY <1>4, <1>5, <1>6, <1>11 DEF Sure, r
<1>13. clean /\ ~x.degraded => Sure(s)'
  BY <1>4, <1>5, <1>6, <1>8, ZenonT(40) DEF Sure
<1>14. DriveKept(s)
  <2>1. s \in OneDrive => ~Some(shard, s, {"LOSSY"}) /\ (r.degraded => Some(shard, s, FailedShard))
    BY DEF IInv, DriveLosses, r
  <2>2. s \in OneDrive /\ x.degraded => Some(shard, s, FailedShard)
    BY <1>5, <2>1, DriveDegrades, ZenonT(40)
  <2> QED
    BY <1>1, <1>4, <2>1, <2>2 DEF DriveKept
<1>15. TeardownKept(s)
  BY DEF TeardownKept, HasRow, ClaimedForTeardown
<1>16. MarksKept(s)
  BY <1>4, <1>5 DEF MarksKept, r
<1>17. SolidKept(s)
  BY <1>6, <1>11, SMTT(30) DEF SolidKept
<1>18. CompletedFor(s)
  BY <1>4, <1>5, <1>10, <1>12, <1>13 DEF CompletedFor, r
<1>19. Later(s)
  BY <1>14, <1>15, <1>16, <1>17, <1>18 DEF Later
<1>20. AllLater
  BY <1>1, <1>3, <1>19, LaterOne
<1>21. s \in OneDrive /\ back = "COMPLETED" => Sure(s)'
  BY <1>5, <1>10, <1>12, <1>13
<1> QED
  BY <1>0, <1>20, <1>21 DEF back, r

\* It leaves a claimed row and a deleted one alone.
LEMMA LaterReconcile ==
    ASSUME IInv, NEW h \in Finalizer, Reconcile(h)
    PROVE  AllLater
<1>1. PICK s \in Snap : s = fin[h].snap
  BY FinSnap DEF Reconcile, IInv
<1>2. CASE HasRow(snap[s]) /\ ~ClaimedForTeardown(snap[s])
  BY <1>1, <1>2, ReconcileWrites
<1>3. CASE ~(HasRow(snap[s]) /\ ~ClaimedForTeardown(snap[s]))
  <2>1. snap' = snap /\ shard' = shard
    BY <1>1, <1>3, ZenonT(40) DEF Reconcile
  <2> QED
    BY <2>1, LaterNone
<1> QED
  BY <1>2, <1>3

\* A rescue completes its snapshot and its shards.
LEMMA RescueSettles ==
    ASSUME IInv, NEW h \in Finalizer, SettleRescued(h), NEW s \in Snap, s = fin[h].snap, Rescuable(s)
    PROVE  /\ AllLater
           /\ Captured(s)' /\ snap'[s].rescued /\ ~snap[s].rescued
<1> DEFINE x == [snap[s] EXCEPT !.status = "COMPLETED", !.degraded = FALSE, !.rescued = TRUE]
<1>1. /\ snap[s] \in Rows /\ shard' = RescuedShards(s) /\ ~snap[s].cancelled
      /\ snap[s].status \in {"FAILED", "PARTIAL"} /\ ~Stopped(s) /\ Partitioned(shard, s)
  BY ZenonT(40) DEF SettleRescued, Rescuable, IInv, Typed, Stopped
<1>2. Wrote(s, x)
  <2>1. x \in Rows
    BY <1>1, ZenonT(40) DEF Rows, SnapStates, Counted, Settled
  <2>2. snap' = [snap EXCEPT ![s].status = "COMPLETED", ![s].degraded = FALSE, ![s].rescued = TRUE]
    BY ZenonT(40) DEF SettleRescued
  <2>3. snap' = [snap EXCEPT ![s] = x]
    BY <2>2, ZenonT(40) DEF IInv, Typed
  <2> QED
    BY <2>1, <2>3 DEF Wrote
<1>3. snap'[s] = x /\ snap' \in [Snap -> Rows] /\ \A t \in Snap \ {s} : snap'[t] = snap[t]
  BY <1>2, WroteRow DEF IInv
<1>4. /\ snap'[s].status = "COMPLETED" /\ ~snap'[s].degraded /\ snap'[s].rescued
      /\ snap'[s].cancelled = snap[s].cancelled /\ snap'[s].reaped = snap[s].reaped
  BY <1>1, <1>3 DEF Rows
<1>5. /\ \A p \in ShardsOf(s) : shard'[p] = "CLEAN"
      /\ ShardsOf(s) # {}
  BY <1>1 DEF RescuedShards, ShardsOf, Partitioned, Some
<1>6. Solid(s)' /\ ~Some(shard', s, {"LOSSY"})
  BY <1>4, <1>5, SMTT(30) DEF Solid, Captured, All, Some
<1>7. Later(s)
  BY <1>1, <1>4, <1>6 DEF Later, TeardownKept, MarksKept, SolidKept, CompletedFor, DriveKept, Sure
<1>8. ASSUME NEW t \in Snap, t # s PROVE Later(t)
  <2>1. SameShards(t)
    BY <1>1, <1>8 DEF SameShards, ShardsOf, RescuedShards
  <2> QED
    BY <1>3, <1>8, <2>1, LaterSame
<1>9. ~snap[s].rescued
  BY <1>1 DEF IInv, RescueSolid
<1> QED
  BY <1>3, <1>4, <1>6, <1>7, <1>8, <1>9 DEF AllLater, Solid

LEMMA LaterRescue ==
    ASSUME IInv, NEW h \in Finalizer, SettleRescued(h)
    PROVE  AllLater
<1>1. PICK s \in Snap : s = fin[h].snap
  BY FinSnap DEF SettleRescued, IInv
<1>2. CASE Rescuable(s)
  BY <1>1, <1>2, RescueSettles
<1>3. CASE ~Rescuable(s)
  <2>1. snap' = snap /\ shard' = shard
    BY <1>1, <1>3, ZenonT(40) DEF SettleRescued
  <2> QED
    BY <2>1, LaterNone
<1> QED
  BY <1>2, <1>3, SMTT(30)

\* Each step of the system, action by action.
LEMMA LaterNext ==
    ASSUME IInv, [Next]_vars
    PROVE  AllLater
<1>1. CASE snap' = snap /\ shard' = shard
  BY <1>1, LaterNone
<1>2. ASSUME NEW s \in Snap,
             \/ Coordinate(s) \/ CoordinatorDies(s) \/ Lapse(s) \/ Renew(s) \/ Reap(s) \/ Teardown(s)
      PROVE  AllLater
  <2>1. CASE CreateSnapshot(s) \/ MarkSkipped(s) \/ WalkFails(s) \/ FanOut(s)
    BY <2>1, LaterCreate, LaterSkipped, LaterFailed, LaterFanOut
  <2>2. CASE Lapse(s) \/ Renew(s) \/ Reap(s) \/ ClaimDoomed(s) \/ DeleteDoomed(s)
    BY <2>2, LaterLease, LaterReaped, LaterClaim, LaterDelete
  <2>3. CASE Intake(s) \/ Stash(s) \/ RollFailed(s) \/ CoordinatorDies(s) \/ SelectDoomed(s)
    BY <1>1, <2>3, ZenonT(40) DEF Intake, Stash, RollFailed, CoordinatorDies, SelectDoomed
  <2> QED
    BY <1>2, <2>1, <2>2, <2>3, ZenonT(40) DEF Coordinate, Teardown
<1>3. ASSUME NEW h \in Finalizer, Finalize(h) \/ FinalizerDies(h) PROVE AllLater
  <2>1. CASE Flip(h) \/ Reconcile(h) \/ SettleRescued(h)
    BY <2>1, LaterFlip, LaterReconcile, LaterRescue
  <2>2. CASE Preempted(h) \/ Roll(h) \/ Promote(h) \/ FinalizerDies(h)
    BY <1>1, <2>2, ZenonT(40) DEF Preempted, Roll, Promote, FinalizerDies
  <2> QED
    BY <1>3, <2>1, <2>2, ZenonT(40) DEF Finalize
<1>4. ASSUME NEW h \in Finalizer, NEW p \in Shard, Drain(h, p) PROVE AllLater
  BY <1>4, LaterDrain
<1>5. ASSUME NEW h \in Finalizer, NEW s \in Snap, RescueFiles(h, s) PROVE AllLater
  BY <1>1, <1>5, ZenonT(40) DEF RescueFiles
<1>6. ASSUME NEW p \in Shard, GiveUp(p) PROVE AllLater
  BY <1>6, LaterGiveUp
<1>7. ASSUME NEW j \in Job, Backstop(j) \/ CancelJob(j) \/ CleanupReads(j) \/ CleanupWrites(j)
      PROVE  AllLater
  <2>1. CASE Backstop(j) \/ CleanupReads(j)
    BY <1>1, <2>1, ZenonT(40) DEF Backstop, CleanupReads
  <2> QED
    BY <1>7, <2>1, LaterCancel, LaterCleanup
<1>8. CASE Sweep
  BY <1>8, LaterSweep
<1>9. CASE SchedulerDies \/ UNCHANGED vars
  BY <1>1, <1>9, ZenonT(40) DEF SchedulerDies, vars
<1> QED
  BY <1>2, <1>3, <1>4, <1>5, <1>6, <1>7, <1>8, <1>9, ZenonT(40) DEF Next
-----------------------------------------------------------------------------
(***************************************************************************)
(* The cursors, the retries, the teardown's and the clean-ups' notes.      *)
(***************************************************************************)
\* A resource keeps its kind, and only the holder of a pending cursor promotes it.
CursorOK(r) ==
    /\ cursor'[r] \in Cursors
    /\ cursor'[r].drive = cursor[r].drive
    /\ \A s \in Snap : cursor'[r].active = s /\ cursor[r].active # s =>
          \E h \in Finalizer : fin[h].snap = s /\ (Promote(h) \/ Rescues(h, s))

\* A cursor was written.
LEMMA CursorOne ==
    ASSUME Typed, NEW q \in Resource, NEW c \in Cursors, cursor' = [cursor EXCEPT ![q] = c],
           c.drive = cursor[q].drive,
           \/ c.active = cursor[q].active
           \/ \E h \in Finalizer : fin[h].snap = c.active /\ (Promote(h) \/ Rescues(h, fin[h].snap))
    PROVE  cursor' \in [Resource -> Cursors] /\ \A r \in Resource : CursorOK(r)
<1>1. cursor' \in [Resource -> Cursors] /\ cursor'[q] = c
  BY DEF Typed
<1>2. ASSUME NEW r \in Resource, r # q PROVE cursor'[r] = cursor[r] /\ cursor[r] \in Cursors
  BY <1>2 DEF Typed
<1>3. CursorOK(q)
  BY <1>1, ZenonT(40) DEF CursorOK
<1> QED
  BY <1>1, <1>2, <1>3 DEF CursorOK

\* _claim_pending_cursor
LEMMA PromotedMeans ==
    ASSUME NEW c \in Cursors, NEW s \in Snap
    PROVE  /\ Promoted(c, s) \in Cursors /\ Promoted(c, s).drive = c.drive
           /\ Promoted(c, s).active \in {c.active, s}
BY ZenonT(40) DEF Promoted, Entitled, Cursors

LEMMA CursorNext ==
    ASSUME Typed, [Next]_vars
    PROVE  cursor' \in [Resource -> Cursors] /\ \A r \in Resource : CursorOK(r)
<1> DEFINE Goal == cursor' \in [Resource -> Cursors] /\ \A r \in Resource : CursorOK(r)
<1>1. CASE cursor' = cursor
  <2>1. ASSUME NEW r \in Resource PROVE cursor'[r] = cursor[r] /\ cursor[r] \in Cursors
    BY <1>1 DEF Typed
  <2> QED
    BY <1>1, <2>1 DEF CursorOK, Typed
<1> HIDE DEF Goal
<1>2. ASSUME NEW s \in Snap,
             \/ Coordinate(s) \/ CoordinatorDies(s) \/ Lapse(s) \/ Renew(s) \/ Reap(s) \/ Teardown(s)
      PROVE  Goal
  <2>1. CASE Stash(s) /\ cursor' # cursor
    <3>1. PICK q \in Resource : q = ResOf[s]
      BY RollupAssumption
    <3>2. cursor[q] \in Cursors
      BY DEF Typed
    <3> DEFINE c == [cursor[q] EXCEPT !.pending = s]
    <3>3. cursor' = [cursor EXCEPT ![q] = c]
      BY <2>1, <3>1 DEF Stash
    <3>4. c \in Cursors /\ c.drive = cursor[q].drive /\ c.active = cursor[q].active
      BY <3>2 DEF Cursors
    <3> QED
      BY <3>3, <3>4, CursorOne, ZenonT(40) DEF Goal
  <2>2. CASE ~(Stash(s) /\ cursor' # cursor)
    <3>1. cursor' = cursor
      BY <1>2, <2>2, ZenonT(40) DEF Coordinate, CoordinatorDies, Lapse, Renew, Reap, Teardown, Intake,
                               CreateSnapshot, MarkSkipped, FanOut, WalkFails, RollFailed,
                               SelectDoomed, ClaimDoomed, DeleteDoomed
    <3> QED
      BY <1>1, <3>1 DEF Goal
  <2> QED
    BY <2>1, <2>2
<1>3. ASSUME NEW h \in Finalizer, Finalize(h) \/ FinalizerDies(h) PROVE Goal
  <2>1. CASE (Promote(h) \/ SettleRescued(h)) /\ cursor' # cursor
    <3>1. PICK s \in Snap : s = fin[h].snap
      BY <2>1, FinSnap, ZenonT(40) DEF Promote, SettleRescued
    <3>2. PICK q \in Resource : q = ResOf[s]
      BY RollupAssumption
    <3>3. cursor' = [cursor EXCEPT ![q] = Promoted(cursor[q], s)] /\ (Promote(h) \/ Rescues(h, s))
      BY <2>1, <3>1, <3>2, ZenonT(40) DEF Promote, SettleRescued, Rescues
    <3>4. cursor[q] \in Cursors
      BY DEF Typed
    <3>5. /\ Promoted(cursor[q], s) \in Cursors /\ Promoted(cursor[q], s).drive = cursor[q].drive
          /\ Promoted(cursor[q], s).active \in {cursor[q].active, s}
      BY <3>4, PromotedMeans
    <3> QED
      BY <3>1, <3>3, <3>5, CursorOne, ZenonT(40) DEF Goal
  <2>2. CASE ~((Promote(h) \/ SettleRescued(h)) /\ cursor' # cursor)
    <3>1. cursor' = cursor
      BY <1>3, <2>2, ZenonT(40) DEF Finalize, Flip, Preempted, Reconcile, Roll, FinalizerDies
    <3> QED
      BY <1>1, <3>1 DEF Goal
  <2> QED
    BY <2>1, <2>2
<1>4. CASE \/ \E h \in Finalizer : (\E p \in Shard : Drain(h, p)) \/ (\E s \in Snap : RescueFiles(h, s))
           \/ \E p \in Shard : GiveUp(p)
           \/ \E j \in Job : Backstop(j) \/ CancelJob(j) \/ CleanupReads(j) \/ CleanupWrites(j)
           \/ Sweep \/ SchedulerDies \/ UNCHANGED vars
  <2>1. cursor' = cursor
    BY <1>4, ZenonT(40) DEF Drain, RescueFiles, GiveUp, Backstop, CancelJob, CleanupReads, CleanupWrites,
                       Sweep, SchedulerDies, vars
  <2> QED
    BY <1>1, <2>1 DEF Goal
<1> QED
  BY <1>2, <1>3, <1>4, ZenonT(40) DEF Next, Goal

\* A OneDrive stays one.
LEMMA DrivesStay ==
    ASSUME Typed, [Next]_vars
    PROVE  OneDrive' = OneDrive
<1>1. \A s \in Snap : cursor'[ResOf[s]].drive = cursor[ResOf[s]].drive
  BY CursorNext, RollupAssumption DEF CursorOK
<1> QED
  BY <1>1 DEF OneDrive

LEMMA NotesTyped ==
    ASSUME Typed, [Next]_vars
    PROVE  /\ retry' \in [Snap -> {"none", "open", "rescued"}]
           /\ doomed' \in [Snap -> {"no", "selected", "claimed"}]
<1> DEFINE Goal == /\ retry' \in [Snap -> {"none", "open", "rescued"}]
                   /\ doomed' \in [Snap -> {"no", "selected", "claimed"}]
<1>0. /\ retry \in [Snap -> {"none", "open", "rescued"}]
      /\ doomed \in [Snap -> {"no", "selected", "claimed"}]
  BY DEF Typed
<1>1. CASE retry' = retry /\ doomed' = doomed
  BY <1>0, <1>1
<1>2. ASSUME NEW s \in Snap,
             \/ Coordinate(s) \/ CoordinatorDies(s) \/ Lapse(s) \/ Renew(s) \/ Reap(s) \/ Teardown(s)
      PROVE  Goal
  <2>1. CASE SelectDoomed(s) \/ ClaimDoomed(s)
    <3>1. retry' = retry
      BY <2>1, ZenonT(40) DEF SelectDoomed, ClaimDoomed
    <3>2. \E x \in {"no", "selected", "claimed"} : doomed' = [doomed EXCEPT ![s] = x]
      BY <2>1 DEF SelectDoomed, ClaimDoomed
    <3> QED
      BY <1>0, <3>1, <3>2
  <2>2. CASE DeleteDoomed(s)
    <3>1. doomed' = [doomed EXCEPT ![s] = "no"] /\ (retry' = retry \/ retry' = [retry EXCEPT ![s] = "none"])
      BY <2>2, ZenonT(40) DEF DeleteDoomed
    <3> QED
      BY <1>0, <3>1
  <2>3. CASE ~Teardown(s)
    <3>1. retry' = retry /\ doomed' = doomed
      BY <1>2, <2>3, ZenonT(40) DEF Coordinate, CoordinatorDies, Lapse, Renew, Reap, Intake, Stash,
                               CreateSnapshot, MarkSkipped, FanOut, WalkFails, RollFailed
    <3> QED
      BY <1>1, <3>1
  <2> QED
    BY <2>1, <2>2, <2>3 DEF Teardown
<1>3. ASSUME NEW h \in Finalizer, NEW p \in Shard, Drain(h, p) PROVE Goal
  <2>1. PICK s \in Snap : s = SnapOf[p]
    BY ShardPlace
  <2>2. doomed' = doomed /\ (retry' = [retry EXCEPT ![s] = "open"] \/ retry' = [retry EXCEPT ![s] = @])
    BY <1>3, <2>1, ZenonT(40) DEF Drain
  <2> QED
    BY <1>0, <2>1, <2>2
<1>4. ASSUME NEW h \in Finalizer, NEW s \in Snap, RescueFiles(h, s) PROVE Goal
  BY <1>0, <1>4 DEF RescueFiles
<1>5. CASE SchedulerDies
  BY <1>0, <1>5 DEF SchedulerDies
<1>6. CASE \/ \E h \in Finalizer : Finalize(h) \/ FinalizerDies(h)
           \/ \E p \in Shard : GiveUp(p)
           \/ \E j \in Job : Backstop(j) \/ CancelJob(j) \/ CleanupReads(j) \/ CleanupWrites(j)
           \/ Sweep \/ UNCHANGED vars
  <2>1. retry' = retry /\ doomed' = doomed
    BY <1>6, ZenonT(40) DEF Finalize, Flip, Preempted, Reconcile, Roll, Promote, SettleRescued,
                       FinalizerDies, GiveUp, Backstop, CancelJob, CleanupReads, CleanupWrites, Sweep, vars
  <2> QED
    BY <1>1, <2>1
<1> QED
  BY <1>2, <1>3, <1>4, <1>5, <1>6, ZenonT(40) DEF Next

\* A clean-up is one of a cancelled job, and lists the job's own snapshots.
PurgeOK(j) ==
    /\ purge'[j] \in Purges
    /\ purge'[j].ids \subseteq Children(j)
    /\ purge'[j].due > 0 \/ purge'[j].ids # {} => job'[j] = "CANCELLED"

LEMMA PurgeSame ==
    ASSUME IInv, [Next]_vars, NEW j \in Job, purge'[j] = purge[j]
    PROVE  PurgeOK(j)
<1>1. job[j] = "CANCELLED" => job'[j] = "CANCELLED"
  BY JobNext DEF IInv, JobOK
<1>2. /\ purge[j] \in Purges /\ purge[j].ids \subseteq Children(j)
      /\ purge[j].due > 0 \/ purge[j].ids # {} => job[j] = "CANCELLED"
  BY DEF IInv, Typed, CancelTraces
<1> QED
  BY <1>1, <1>2 DEF PurgeOK

LEMMA PurgeOne ==
    ASSUME IInv, [Next]_vars, NEW j \in Job, NEW x \in Purges, x.ids \subseteq Children(j),
           purge' = [purge EXCEPT ![j] = x], job'[j] = "CANCELLED"
    PROVE  purge' \in [Job -> Purges] /\ \A k \in Job : PurgeOK(k)
<1>1. purge' \in [Job -> Purges] /\ purge'[j] = x /\ \A k \in Job \ {j} : purge'[k] = purge[k]
  BY DEF IInv, Typed
<1>2. PurgeOK(j)
  BY <1>1 DEF PurgeOK
<1>3. ASSUME NEW k \in Job, k # j PROVE PurgeOK(k)
  BY <1>1, <1>3, PurgeSame
<1> QED
  BY <1>1, <1>2, <1>3

LEMMA PurgeNext ==
    ASSUME IInv, [Next]_vars
    PROVE  purge' \in [Job -> Purges] /\ \A k \in Job : PurgeOK(k)
<1> DEFINE Goal == purge' \in [Job -> Purges] /\ \A k \in Job : PurgeOK(k)
<1>0. \A j \in Job : /\ purge[j] \in Purges /\ purge[j].ids \subseteq Children(j)
                     /\ purge[j].due > 0 \/ purge[j].ids # {} => job[j] = "CANCELLED"
  BY DEF IInv, Typed, CancelTraces
<1>1. CASE purge' = purge
  <2>1. \A k \in Job : PurgeOK(k)
    BY <1>1, PurgeSame
  <2> QED
    BY <1>1, <2>1 DEF IInv, Typed
<1> HIDE DEF Goal
\* One more clean-up is due.
<1>2. ASSUME NEW j \in Job, purge' = [purge EXCEPT ![j].due = @ + 1], job'[j] = "CANCELLED" PROVE Goal
  <2> DEFINE x == [purge[j] EXCEPT !.due = purge[j].due + 1]
  <2>1. purge' = [purge EXCEPT ![j] = x]
    BY <1>2
  <2>2. x \in Purges /\ x.ids = purge[j].ids
    BY <1>0 DEF Purges
  <2> HIDE DEF x
  <2> QED
    BY <1>0, <1>2, <2>1, <2>2, PurgeOne, ZenonT(40) DEF Goal
<1>3. ASSUME NEW s \in Snap,
             \/ Coordinate(s) \/ CoordinatorDies(s) \/ Lapse(s) \/ Renew(s) \/ Reap(s) \/ Teardown(s)
      PROVE  Goal
  <2>1. CASE Intake(s) /\ purge' # purge
    <3>1. PICK j \in Job : j = JobOf[s]
      BY RollupAssumption
    <3>2. purge' = [purge EXCEPT ![j].due = @ + 1] /\ job'[j] = "CANCELLED"
      BY <2>1, <3>1, ZenonT(40) DEF Intake
    <3> QED
      BY <1>2, <3>2, ZenonT(40)
  <2>2. CASE ~(Intake(s) /\ purge' # purge)
    <3>1. purge' = purge
      BY <1>3, <2>2, ZenonT(40) DEF Coordinate, CoordinatorDies, Lapse, Renew, Reap, Teardown, Stash,
                               CreateSnapshot, MarkSkipped, FanOut, WalkFails, RollFailed,
                               SelectDoomed, ClaimDoomed, DeleteDoomed
    <3> QED
      BY <1>1, <3>1 DEF Goal
  <2> QED
    BY <2>1, <2>2
<1>4. ASSUME NEW j \in Job, CancelJob(j) PROVE Goal
  <2>1. purge' = [purge EXCEPT ![j].due = @ + 1] /\ job'[j] = "CANCELLED"
    BY <1>4 DEF CancelJob, IInv, Typed
  <2> QED
    BY <1>2, <2>1, ZenonT(40)
<1>5. ASSUME NEW j \in Job, CleanupReads(j) PROVE Goal
  <2>1. PICK F \in SUBSET Children(j) :
           purge' = [purge EXCEPT ![j] = [due |-> purge[j].due - 1, ids |-> purge[j].ids \cup F]]
    BY <1>5, ZenonT(40) DEF CleanupReads
  <2> DEFINE x == [due |-> purge[j].due - 1, ids |-> purge[j].ids \cup F]
  <2>2. job'[j] = "CANCELLED" /\ purge[j].due > 0
    BY <1>0, <1>5 DEF CleanupReads
  <2>3. x \in Purges /\ x.ids \subseteq Children(j)
    BY <1>0, <2>2 DEF Purges, Children
  <2> QED
    BY <2>1, <2>2, <2>3, PurgeOne, ZenonT(40) DEF Goal
<1>6. ASSUME NEW j \in Job, CleanupWrites(j) PROVE Goal
  <2> DEFINE x == [purge[j] EXCEPT !.ids = {}]
  <2>1. purge' = [purge EXCEPT ![j] = x] /\ job'[j] = "CANCELLED"
    BY <1>0, <1>6 DEF CleanupWrites
  <2>2. x \in Purges /\ x.ids = {}
    BY <1>0 DEF Purges
  <2> HIDE DEF x
  <2> QED
    BY <2>1, <2>2, PurgeOne, ZenonT(40) DEF Goal
<1>7. CASE \/ \E h \in Finalizer : \/ Finalize(h) \/ FinalizerDies(h)
                                   \/ \E p \in Shard : Drain(h, p)
                                   \/ \E s \in Snap : RescueFiles(h, s)
           \/ \E p \in Shard : GiveUp(p)
           \/ \E j \in Job : Backstop(j)
           \/ Sweep \/ SchedulerDies \/ UNCHANGED vars
  <2>1. purge' = purge
    BY <1>7, ZenonT(40) DEF Finalize, Flip, Preempted, Reconcile, Roll, Promote, SettleRescued,
                       FinalizerDies, Drain, RescueFiles, GiveUp, Backstop, Sweep, SchedulerDies, vars
  <2> QED
    BY <1>1, <2>1 DEF Goal
<1> QED
  BY <1>3, <1>4, <1>5, <1>6, <1>7, ZenonT(40) DEF Next, Goal
-----------------------------------------------------------------------------
(***************************************************************************)
(* The finalizers.                                                         *)
(***************************************************************************)
\* What is sure stays sure.
LEMMA SureKept ==
    ASSUME IInv, [Next]_vars, NEW s \in Snap, Sure(s)
    PROVE  Sure(s)'
<1>1. Later(s)
  BY LaterNext DEF AllLater
<1>2. Stopped(s) => Stopped(s)'
  BY CancelStays DEF IInv
<1> QED
  BY <1>1, <1>2 DEF Later, MarksKept, SolidKept, Sure

\* What a finalizer may hold after a step.
FinOK(v) ==
    /\ v \in Locals
    /\ v.pc \in Judging => ShardsOf(v.snap) # {}
    /\ v.pc = "promote" => v.snap \in OneDrive
    /\ \A s \in OneDrive : Promises(v) /\ v.snap = s => Sure(s)'

LEMMA FinSame ==
    ASSUME IInv, [Next]_vars, NEW h \in Finalizer
    PROVE  FinOK(fin[h])
<1>1. /\ fin[h] \in Locals
      /\ fin[h].pc \in Judging => ShardsOf(fin[h].snap) # {}
      /\ fin[h].pc = "promote" => fin[h].snap \in OneDrive
  BY DEF IInv, Typed, FinPlaces
<1>2. ASSUME NEW s \in OneDrive, Promises(fin[h]), fin[h].snap = s PROVE Sure(s)'
  <2>1. s \in Snap
    BY DEF OneDrive
  <2>2. Sure(s)
    BY <1>2 DEF IInv, CompletedSure
  <2> QED
    BY <2>1, <2>2, SureKept
<1> QED
  BY <1>1, <1>2 DEF FinOK

\* The local states a finalizer can be left in.
LEMMA FinIdle == FinOK(Idle)
BY DEF FinOK, Idle, Locals, Judging, Promises

LEMMA FinFresh ==
    ASSUME NEW s \in Snap
    PROVE  /\ ShardsOf(s) # {} => FinOK([Idle EXCEPT !.pc = "flip", !.snap = s])
           /\ FinOK([Idle EXCEPT !.pc = "rescue", !.snap = s])
           /\ s \in OneDrive /\ Sure(s)' => FinOK([Idle EXCEPT !.pc = "promote", !.snap = s])
<1>1. ASSUME NEW c \in {"flip", "rescue", "promote"}
      PROVE  /\ [Idle EXCEPT !.pc = c, !.snap = s] \in Locals
             /\ [Idle EXCEPT !.pc = c, !.snap = s].pc = c
             /\ [Idle EXCEPT !.pc = c, !.snap = s].snap = s
  <2>1. [Idle EXCEPT !.pc = c, !.snap = s] \in Parked
    BY <1>1, ZenonT(40) DEF Idle, Parked
  <2>2. [Idle EXCEPT !.pc = c, !.snap = s].pc = c /\ [Idle EXCEPT !.pc = c, !.snap = s].snap = s
    BY <1>1 DEF Idle
  <2> QED
    BY <2>1, <2>2, ZenonT(40) DEF Locals
<1>2. ~Promises([Idle EXCEPT !.pc = "flip", !.snap = s]) /\ ~Promises([Idle EXCEPT !.pc = "rescue", !.snap = s])
  BY <1>1 DEF Promises
<1>3. ShardsOf(s) # {} => FinOK([Idle EXCEPT !.pc = "flip", !.snap = s])
  BY <1>1, <1>2 DEF FinOK, Judging
<1>4. FinOK([Idle EXCEPT !.pc = "rescue", !.snap = s])
  BY <1>1, <1>2 DEF FinOK, Judging
<1>5. s \in OneDrive /\ Sure(s)' => FinOK([Idle EXCEPT !.pc = "promote", !.snap = s])
  BY <1>1 DEF FinOK, Judging
<1> QED
  BY <1>3, <1>4, <1>5

\* A finalizer on the way from one transaction to the next.
LEMMA FinGoesOn ==
    ASSUME NEW f \in Locals, NEW s \in Snap, f.snap = s, f.pc \in Judging, ShardsOf(s) # {},
           NEW c \in {"reconcile", "roll"}, NEW x \in Settled, NEW b \in BOOLEAN,
           s \in OneDrive /\ x = "COMPLETED" => Sure(s)'
    PROVE  FinOK([f EXCEPT !.pc = c, !.status = x, !.preempted = b])
<1> DEFINE v == [f EXCEPT !.pc = c, !.status = x, !.preempted = b]
<1>1. f \in Parked \/ f \in Running
  BY DEF Judging, Idle, Locals
<1>2. v \in Running
  BY <1>1, ZenonT(40) DEF Parked, Running
<1>3. v.pc = c /\ v.snap = s /\ v.status = x
  BY <1>1 DEF Parked, Running
<1> HIDE DEF v
<1>4. FinOK(v)
  BY <1>2, <1>3 DEF FinOK, Promises, Locals
<1> QED
  BY <1>4 DEF v

LEMMA FinOne ==
    ASSUME IInv, [Next]_vars, NEW h \in Finalizer, NEW v, FinOK(v), fin' = [fin EXCEPT ![h] = v]
    PROVE  fin' \in [Finalizer -> Locals] /\ \A g \in Finalizer : FinOK(fin'[g])
<1>1. /\ fin' \in [Finalizer -> Locals] /\ fin'[h] = v
      /\ \A g \in Finalizer \ {h} : fin'[g] = fin[g]
  BY DEF IInv, Typed, FinOK
<1>2. ASSUME NEW g \in Finalizer, g # h PROVE FinOK(fin'[g])
  <2>1. fin'[g] = fin[g] /\ FinOK(fin[g])
    BY <1>1, <1>2, FinSame
  <2> QED
    BY <2>1, ZenonT(40)
<1>3. FinOK(fin'[h])
  BY <1>1, ZenonT(40)
<1> QED
  BY <1>1, <1>2, <1>3

\* Transaction 1.
LEMMA FinFlip ==
    ASSUME IInv, [Next]_vars, NEW h \in Finalizer, Flip(h)
    PROVE  \E v : FinOK(v) /\ fin' = [fin EXCEPT ![h] = v]
<1>1. PICK s \in Snap : s = fin[h].snap
  BY FinSnap DEF Flip, IInv
<1>2. /\ fin[h] \in Locals /\ fin[h].pc = "flip" /\ fin[h].pc \in Judging /\ ShardsOf(s) # {}
      /\ fin[h].status = "IN_PROGRESS" /\ fin[h].preempted \in BOOLEAN
  BY <1>1, FinSnap DEF Flip, IInv, FinPlaces, Judging, Locals, Parked, Running, Idle
<1>3. CASE fin' = [fin EXCEPT ![h] = Idle]
  BY <1>3, FinIdle, ZenonT(40)
<1>4. CASE fin' = [fin EXCEPT ![h].pc = "preempted", ![h].preempted = TRUE]
  <2> DEFINE v == [fin[h] EXCEPT !.pc = "preempted", !.preempted = TRUE]
  <2>1. fin' = [fin EXCEPT ![h] = v]
    BY <1>4, ZenonT(40) DEF IInv, Typed
  <2>2. fin[h] \in Parked
    BY <1>2 DEF Locals, Running, Idle
  <2>3. v \in Parked /\ v.pc = "preempted" /\ v.snap = s
    BY <1>1, <2>2, ZenonT(40) DEF Parked
  <2> HIDE DEF v
  <2>4. FinOK(v)
    BY <1>2, <2>3 DEF FinOK, Promises, Locals
  <2> QED
    BY <2>1, <2>4, ZenonT(40)
<1>5. CASE /\ snap[s].status = "IN_PROGRESS" /\ Drained(shard, s)
           /\ fin' = [fin EXCEPT ![h].pc = "reconcile", ![h].status = FlippedStatus(shard, s)]
  <2>1. PICK x : x = FlippedStatus(shard, s)
    OBVIOUS
  <2>2. x \in Settled /\ (s \in OneDrive /\ x = "COMPLETED" => Sure(s)')
    BY <1>1, <1>5, <2>1, FlipWrites, DerivedStates
  <2> DEFINE v == [fin[h] EXCEPT !.pc = "reconcile", !.status = x, !.preempted = fin[h].preempted]
  <2>3. fin' = [fin EXCEPT ![h] = v]
    BY <1>2, <1>5, <2>1, ZenonT(40) DEF IInv, Typed, Locals, Parked, Running, Idle
  <2>4. FinOK(v)
    BY <1>1, <1>2, <2>2, FinGoesOn, ZenonT(40)
  <2> QED
    BY <2>3, <2>4, ZenonT(40)
<1> QED
  BY <1>1, <1>3, <1>4, <1>5, ZenonT(40) DEF Flip

\* A preempted finalizer takes over a verdict.
LEMMA FinPreempted ==
    ASSUME IInv, [Next]_vars, NEW h \in Finalizer, Preempted(h)
    PROVE  \E v : FinOK(v) /\ fin' = [fin EXCEPT ![h] = v]
<1>1. PICK s \in Snap : s = fin[h].snap
  BY FinSnap DEF Preempted, IInv
<1>2. /\ fin[h] \in Locals /\ fin[h].pc \in Judging /\ ShardsOf(s) # {}
      /\ fin[h].preempted \in BOOLEAN
  BY <1>1, FinSnap DEF Preempted, IInv, FinPlaces, Judging, Locals, Parked, Running, Idle
<1>3. PICK x : x = IF snap[s].status = "PARTIAL" /\ All(shard, s, DoneShard)
                   THEN "COMPLETED" ELSE snap[s].status
  OBVIOUS
<1>4. fin' = [fin EXCEPT ![h] = IF ~HasRow(snap[s]) \/ ~MayReconcile(snap[s], s) THEN Idle
                                ELSE [fin[h] EXCEPT !.pc = "reconcile", !.status = x]]
  BY <1>1, <1>3, ZenonT(40) DEF Preempted
<1>5. CASE ~HasRow(snap[s]) \/ ~MayReconcile(snap[s], s)
  BY <1>4, <1>5, FinIdle, ZenonT(40)
<1>6. CASE HasRow(snap[s]) /\ MayReconcile(snap[s], s)
  <2>1. x \in Settled
    BY <1>3, <1>6 DEF MayReconcile, Settled
  <2>2. ASSUME s \in OneDrive, x = "COMPLETED" PROVE Sure(s)
    <3>1. CASE snap[s].status = "COMPLETED"
      BY <2>2, <3>1 DEF IInv, CompletedSure
    <3>2. CASE snap[s].status = "PARTIAL" /\ All(shard, s, DoneShard)
      <4>1. ~Some(shard, s, {"LOSSY"})
        BY <2>2 DEF IInv, DriveLosses
      <4>2. All(shard, s, {"CLEAN"}) /\ ~Some(shard, s, FailedShard)
        BY <3>2, <4>1 DEF All, Some, DoneShard, FailedShard
      <4>3. ~snap[s].degraded
        BY <2>2, <4>2 DEF IInv, DriveLosses
      <4> QED
        BY <1>2, <3>2, <4>2, <4>3 DEF Sure, Solid, Captured
    <3> QED
      BY <1>3, <2>2, <3>1, <3>2
  <2> DEFINE v == [fin[h] EXCEPT !.pc = "reconcile", !.status = x, !.preempted = fin[h].preempted]
  <2>3. fin' = [fin EXCEPT ![h] = v]
    <3>1. v = [fin[h] EXCEPT !.pc = "reconcile", !.status = x]
      BY <1>2, ZenonT(40) DEF Locals, Parked, Running, Idle
    <3> QED
      BY <1>4, <1>6, <3>1, ZenonT(40)
  <2>4. s \in OneDrive /\ x = "COMPLETED" => Sure(s)'
    BY <2>2, SureKept
  <2>5. FinOK(v)
    BY <1>1, <1>2, <2>1, <2>4, FinGoesOn, ZenonT(40)
  <2> QED
    BY <2>3, <2>5, ZenonT(40)
<1> QED
  BY <1>5, <1>6

\* Transaction 2.
LEMMA FinReconcile ==
    ASSUME IInv, [Next]_vars, NEW h \in Finalizer, Reconcile(h)
    PROVE  \E v : FinOK(v) /\ fin' = [fin EXCEPT ![h] = v]
<1>1. PICK s \in Snap : s = fin[h].snap
  BY FinSnap DEF Reconcile, IInv
<1>2. /\ fin[h] \in Locals /\ fin[h].pc = "reconcile" /\ fin[h].pc \in Judging /\ ShardsOf(s) # {}
      /\ fin[h].status \in Settled /\ snap[s] \in Rows
  BY <1>1, FinSnap, ZenonT(40) DEF Reconcile, IInv, Typed, FinPlaces, Judging
<1>3. CASE fin' = [fin EXCEPT ![h] = Idle]
  BY <1>3, FinIdle, ZenonT(40)
<1>4. CASE fin' = [fin EXCEPT ![h].pc = "roll", ![h].preempted = FALSE]
  <2>1. PICK x : x = fin[h].status
    OBVIOUS
  <2> DEFINE v == [fin[h] EXCEPT !.pc = "roll", !.status = x, !.preempted = FALSE]
  <2>2. fin' = [fin EXCEPT ![h] = v]
    BY <1>2, <1>4, <2>1, ZenonT(40) DEF IInv, Typed, Locals, Parked, Running, Idle
  <2>3. s \in OneDrive /\ x = "COMPLETED" => Sure(s)
    BY <1>1, <1>2, <2>1, ZenonT(40) DEF IInv, CompletedSure, Promises
  <2>4. s \in OneDrive /\ x = "COMPLETED" => Sure(s)'
    BY <2>3, SureKept, SMTT(30)
  <2>5. FinOK(v)
    BY <1>1, <1>2, <2>1, <2>4, FinGoesOn, ZenonT(40)
  <2> QED
    BY <2>2, <2>5, ZenonT(40)
<1>5. CASE HasRow(snap[s]) /\ ~ClaimedForTeardown(snap[s])
  <2>1. PICK x : x = ReconciledRow(snap[s], s, fin[h]).status
    OBVIOUS
  <2>2. x \in Settled /\ (s \in OneDrive /\ x = "COMPLETED" => Sure(s)')
    BY <1>1, <1>2, <1>5, <2>1, ReconcileWrites, ReconciledTyped
  <2> DEFINE v == [fin[h] EXCEPT !.pc = "roll", !.status = x, !.preempted = FALSE]
  <2>3. fin' = [fin EXCEPT ![h] = v]
    BY <1>1, <1>5, <2>1, ZenonT(40) DEF Reconcile
  <2>4. FinOK(v)
    BY <1>1, <1>2, <2>2, FinGoesOn, ZenonT(40)
  <2> QED
    BY <2>3, <2>4, ZenonT(40)
<1> QED
  BY <1>1, <1>3, <1>4, <1>5, ZenonT(40) DEF Reconcile

\* Transaction 3.
LEMMA FinRoll ==
    ASSUME IInv, [Next]_vars, NEW h \in Finalizer, Roll(h)
    PROVE  \E v : FinOK(v) /\ fin' = [fin EXCEPT ![h] = v]
<1>1. PICK s \in Snap : s = fin[h].snap
  BY FinSnap DEF Roll, IInv
<1>2. \/ fin' = [fin EXCEPT ![h] = Idle]
      \/ fin' = [fin EXCEPT ![h] = [Idle EXCEPT !.pc = "rescue", !.snap = s]]
      \/ /\ fin' = [fin EXCEPT ![h] = [Idle EXCEPT !.pc = "promote", !.snap = s]]
         /\ s \in OneDrive /\ fin[h].status = "COMPLETED" /\ fin[h].pc = "roll"
  BY <1>1, ZenonT(40) DEF Roll
<1>3. s \in OneDrive /\ fin[h].status = "COMPLETED" /\ fin[h].pc = "roll" => Sure(s)
  BY <1>1 DEF IInv, CompletedSure, Promises
<1>4. s \in OneDrive /\ fin[h].status = "COMPLETED" /\ fin[h].pc = "roll" => Sure(s)'
  BY <1>3, SureKept
<1> QED
  BY <1>2, <1>4, FinIdle, FinFresh, ZenonT(40)

LEMMA FinNext ==
    ASSUME IInv, [Next]_vars
    PROVE  fin' \in [Finalizer -> Locals] /\ \A h \in Finalizer : FinOK(fin'[h])
<1> DEFINE Goal == fin' \in [Finalizer -> Locals] /\ \A h \in Finalizer : FinOK(fin'[h])
<1>1. CASE fin' = fin
  <2>1. \A h \in Finalizer : FinOK(fin[h])
    BY FinSame
  <2> QED
    BY <1>1, <2>1, ZenonT(40) DEF IInv, Typed
<1> HIDE DEF Goal
<1>2. ASSUME NEW h \in Finalizer, \E v : FinOK(v) /\ fin' = [fin EXCEPT ![h] = v] PROVE Goal
  BY <1>2, FinOne, ZenonT(40) DEF Goal
<1>3. ASSUME NEW h \in Finalizer, Finalize(h) \/ FinalizerDies(h) PROVE Goal
  <2>1. CASE Flip(h) \/ Preempted(h) \/ Reconcile(h) \/ Roll(h)
    BY <1>2, <2>1, FinFlip, FinPreempted, FinReconcile, FinRoll
  <2>2. CASE Promote(h) \/ SettleRescued(h) \/ FinalizerDies(h)
    <3>1. fin' = [fin EXCEPT ![h] = Idle]
      BY <2>2, ZenonT(40) DEF Promote, SettleRescued, FinalizerDies
    <3> QED
      BY <1>2, <3>1, FinIdle, ZenonT(40)
  <2> QED
    BY <1>3, <2>1, <2>2, ZenonT(40) DEF Finalize
<1>4. ASSUME NEW h \in Finalizer, NEW p \in Shard, Drain(h, p) PROVE Goal
  <2>1. PICK s \in Snap : s = SnapOf[p] /\ p \in ShardsOf(s)
    BY ShardPlace
  <2>2. fin' = [fin EXCEPT ![h] = [Idle EXCEPT !.pc = "flip", !.snap = s]]
    BY <1>4, <2>1, ZenonT(40) DEF Drain
  <2>3. FinOK([Idle EXCEPT !.pc = "flip", !.snap = s])
    BY <2>1, FinFresh, ZenonT(40)
  <2> QED
    BY <1>2, <2>2, <2>3, ZenonT(40)
<1>5. ASSUME NEW h \in Finalizer, NEW s \in Snap, RescueFiles(h, s) PROVE Goal
  <2>1. fin' = [fin EXCEPT ![h] = [Idle EXCEPT !.pc = "rescue", !.snap = s]]
    BY <1>5, ZenonT(40) DEF RescueFiles
  <2> QED
    BY <1>2, <2>1, FinFresh, ZenonT(40)
<1>6. CASE \/ \E s \in Snap : \/ Coordinate(s) \/ CoordinatorDies(s) \/ Lapse(s) \/ Renew(s)
                              \/ Reap(s) \/ Teardown(s)
           \/ \E p \in Shard : GiveUp(p)
           \/ \E j \in Job : Backstop(j) \/ CancelJob(j) \/ CleanupReads(j) \/ CleanupWrites(j)
           \/ Sweep \/ SchedulerDies \/ UNCHANGED vars
  <2>1. fin' = fin
    BY <1>6, ZenonT(40) DEF Coordinate, CoordinatorDies, Lapse, Renew, Reap, Teardown, Intake, Stash,
                       CreateSnapshot, MarkSkipped, FanOut, WalkFails, RollFailed, SelectDoomed,
                       ClaimDoomed, DeleteDoomed, GiveUp, Backstop, CancelJob, CleanupReads,
                       CleanupWrites, Sweep, SchedulerDies, vars
  <2> QED
    BY <1>1, <2>1 DEF Goal
<1> QED
  BY <1>3, <1>4, <1>5, <1>6, ZenonT(40) DEF Next, Goal
-----------------------------------------------------------------------------
(***************************************************************************)
(* The invariant.                                                          *)
(***************************************************************************)
\* Nobody but its coordinator touches a snapshot that has no row.
LEMMA UnbornRow ==
    ASSUME Typed, [Next]_vars, NEW s \in Snap, snap[s].status = "ABSENT", coord'[s] \in NotYet,
           coord[s] \in NotYet
    PROVE  /\ snap'[s].status = "ABSENT" /\ snap'[s].reaped = snap[s].reaped
           /\ snap'[s].rescued = snap[s].rescued
<1> DEFINE Goal == /\ snap'[s].status = "ABSENT" /\ snap'[s].reaped = snap[s].reaped
                   /\ snap'[s].rescued = snap[s].rescued
<1>0. snap \in [Snap -> Rows] /\ snap[s] \in Rows
  BY DEF Typed
<1>1. CASE snap'[s] = snap[s]
  BY <1>1
<1>2. ASSUME NEW t \in Snap, NEW x, snap' = [snap EXCEPT ![t] = x], t # s PROVE Goal
  BY <1>0, <1>2
<1>3. ASSUME NEW t \in Snap,
             \/ Coordinate(t) \/ CoordinatorDies(t) \/ Lapse(t) \/ Renew(t) \/ Reap(t) \/ Teardown(t)
      PROVE  Goal
  <2>1. CASE t # s
    <3>1. snap' = snap \/ \E x : snap' = [snap EXCEPT ![t] = x]
      <4>1. CASE CreateSnapshot(t) \/ MarkSkipped(t) \/ WalkFails(t)
        BY <4>1, ZenonT(40) DEF CreateSnapshot, MarkSkipped, WalkFails
      <4>2. CASE Lapse(t) \/ Renew(t) \/ Reap(t)
        BY <4>2, ZenonT(40) DEF Lapse, Renew, Reap
      <4>3. CASE ClaimDoomed(t) \/ DeleteDoomed(t)
        BY <1>0, <4>3 DEF ClaimDoomed, DeleteDoomed
      <4>4. CASE Intake(t) \/ Stash(t) \/ FanOut(t) \/ RollFailed(t) \/ CoordinatorDies(t) \/ SelectDoomed(t)
        BY <4>4, ZenonT(40) DEF Intake, Stash, FanOut, RollFailed, CoordinatorDies, SelectDoomed
      <4> QED
        BY <1>3, <4>1, <4>2, <4>3, <4>4, ZenonT(40) DEF Coordinate, Teardown
    <3> QED
      BY <1>1, <1>2, <2>1, <3>1
  <2>2. CASE t = s
    <3>1. CASE CreateSnapshot(s)
      <4>1. coord'[s] \notin NotYet
        BY <3>1 DEF CreateSnapshot, Typed, NotYet
      <4> QED
        BY <4>1
    <3>2. CASE MarkSkipped(s) \/ WalkFails(s)
      BY <3>2, ZenonT(40) DEF MarkSkipped, WalkFails, NotYet
    <3>3. CASE Lapse(s)
      BY <1>0, <3>3 DEF Lapse, Rows
    <3>4. CASE Renew(s) \/ Reap(s)
      BY <3>4 DEF Renew, Reap
    <3>5. CASE ClaimDoomed(s) \/ DeleteDoomed(s)
      <4>1. snap' = snap
        BY <3>5 DEF ClaimDoomed, DeleteDoomed, Claimable, HasRow
      <4> QED
        BY <1>1, <4>1
    <3>6. CASE Intake(s) \/ Stash(s) \/ FanOut(s) \/ RollFailed(s) \/ CoordinatorDies(s) \/ SelectDoomed(s)
      BY <1>1, <3>6, ZenonT(40) DEF Intake, Stash, FanOut, RollFailed, CoordinatorDies, SelectDoomed
    <3> QED
      BY <1>3, <2>2, <3>1, <3>2, <3>3, <3>4, <3>5, <3>6, ZenonT(40) DEF Coordinate, Teardown
  <2> QED
    BY <2>1, <2>2
<1>4. ASSUME NEW h \in Finalizer, Finalize(h) \/ FinalizerDies(h) PROVE Goal
  <2>1. CASE Preempted(h) \/ Roll(h) \/ Promote(h) \/ FinalizerDies(h) \/ snap' = snap
    BY <1>1, <2>1, ZenonT(40) DEF Preempted, Roll, Promote, FinalizerDies
  <2>2. CASE (Flip(h) \/ Reconcile(h) \/ SettleRescued(h)) /\ snap' # snap
    <3>1. PICK t \in Snap : t = fin[h].snap
      BY <2>2, FinSnap, ZenonT(40) DEF Flip, Reconcile, SettleRescued
    <3>2. snap[t].status # "ABSENT"
      BY <2>2, <3>1, ZenonT(40) DEF Flip, Reconcile, SettleRescued, Rescuable, HasRow
    <3>3. \E x : snap' = [snap EXCEPT ![t] = x]
      <4>1. CASE Flip(h)
        BY <2>2, <3>1, <4>1 DEF Flip
      <4>2. CASE Reconcile(h)
        BY <2>2, <3>1, <4>2, ZenonT(40) DEF Reconcile
      <4>3. CASE SettleRescued(h)
        <5>1. snap' = [snap EXCEPT ![t].status = "COMPLETED", ![t].degraded = FALSE, ![t].rescued = TRUE]
          BY <2>2, <3>1, <4>3, ZenonT(40) DEF SettleRescued
        <5>2. snap' = [snap EXCEPT ![t] = [snap[t] EXCEPT !.status = "COMPLETED", !.degraded = FALSE,
                                                          !.rescued = TRUE]]
          BY <1>0, <5>1, ZenonT(40)
        <5> QED
          BY <5>2, ZenonT(40)
      <4> QED
        BY <2>2, <4>1, <4>2, <4>3
    <3> QED
      BY <1>2, <3>2, <3>3
  <2> QED
    BY <1>4, <2>1, <2>2 DEF Finalize
<1>5. ASSUME NEW h \in Finalizer, NEW p \in Shard, Drain(h, p) PROVE Goal
  <2>1. PICK t \in Snap, g \in BOOLEAN : snap' = [snap EXCEPT ![t] = [snap[t] EXCEPT !.degraded = @ \/ g]]
    BY <1>5, ShardPlace, ZenonT(40) DEF Drain
  <2>2. CASE t # s
    BY <1>2, <2>1, <2>2
  <2>3. CASE t = s
    BY <1>0, <2>1, <2>3 DEF Rows
  <2> QED
    BY <2>2, <2>3
<1>6. ASSUME NEW j \in Job, CancelJob(j) PROVE Goal
  <2>1. CancelledRow(snap[s]) = snap[s]
    BY DEF CancelledRow
  <2> QED
    BY <1>1, <1>6, <2>1 DEF CancelJob
<1>7. ASSUME NEW j \in Job, CleanupWrites(j) PROVE Goal
  BY <1>1, <1>7 DEF CleanupWrites, HasRow
<1>8. CASE Sweep
  <2>1. StepB(snap[s], s) = snap[s] /\ StepD(snap[s], s) = snap[s]
    BY DEF StepB, StepD, Settled
  <2>2. snap'[s] = StepD(StepB(snap[s], s), s)
    BY <1>8 DEF Sweep
  <2> QED
    BY <1>1, <2>1, <2>2
<1>9. CASE \/ \E h \in Finalizer, t \in Snap : RescueFiles(h, t)
           \/ \E p \in Shard : GiveUp(p)
           \/ \E j \in Job : Backstop(j) \/ CleanupReads(j)
           \/ SchedulerDies \/ UNCHANGED vars
  BY <1>1, <1>9, ZenonT(40) DEF RescueFiles, GiveUp, Backstop, CleanupReads, SchedulerDies, vars
<1> QED
  BY <1>3, <1>4, <1>5, <1>6, <1>7, <1>8, <1>9, ZenonT(40) DEF Next

\* The initial states.
LEMMA InitInv == Init => IInv
<1> SUFFICES ASSUME Init PROVE IInv
  OBVIOUS
<1> DEFINE row == [NewRow EXCEPT !.status = "ABSENT", !.lease = "null"]
<1>1. row \in Rows /\ row.status = "ABSENT" /\ ~row.reaped /\ ~row.rescued /\ ~row.cancelled /\ ~row.degraded
  BY NewRows, ZenonT(40) DEF NewRow
<1> HIDE DEF row
<1>2. /\ \A s \in Snap : snap[s] = row /\ coord[s] = "waiting"
      /\ \A p \in Shard : shard[p] = "ABSENT"
      /\ \A h \in Finalizer : fin[h] = Idle
      /\ \A j \in Job : purge[j] = [due |-> 0, ids |-> {}]
  BY DEF Init, row
<1>3. Typed
  <2>1. job \in [Job -> JobStates] /\ shard \in [Shard -> ShardStates] /\ coord \in [Snap -> CoordStates]
    BY DEF Init, JobStates, ShardStates, CoordStates
  <2>2. snap \in [Snap -> Rows]
    BY <1>1 DEF Init, row
  <2>3. /\ retry \in [Snap -> {"none", "open", "rescued"}]
        /\ doomed \in [Snap -> {"no", "selected", "claimed"}]
    BY DEF Init
  <2>4. cursor \in [Resource -> Cursors]
    BY DEF Init, Cursors
  <2>5. fin \in [Finalizer -> Locals]
    BY DEF Init, Locals
  <2>6. purge \in [Job -> Purges]
    BY DEF Init, Purges
  <2> QED
    BY <2>1, <2>2, <2>3, <2>4, <2>5, <2>6 DEF Typed
<1>4. Unborn
  BY <1>1, <1>2 DEF Unborn
<1>5. FannedLast
  BY <1>2 DEF FannedLast, Whole, All, ShardsOf
<1>6. CancelTraces
  BY <1>1, <1>2 DEF CancelTraces
<1>7. DriveLosses
  BY <1>1, <1>2 DEF DriveLosses, OneDrive, Some, ShardsOf
<1>8. RescueSolid
  BY <1>1, <1>2 DEF RescueSolid
<1>9. CompletedSure
  <2>1. \A h \in Finalizer : ~Promises(fin[h])
    BY <1>2 DEF Promises, Idle
  <2> QED
    BY <1>1, <1>2, <2>1 DEF CompletedSure, OneDrive
<1>10. FinPlaces
  BY <1>2 DEF FinPlaces, Judging, Idle
<1> QED
  BY <1>3, <1>4, <1>5, <1>6, <1>7, <1>8, <1>9, <1>10 DEF IInv

\* The steps.
LEMMA StepInv == IInv /\ [Next]_vars => IInv'
<1> SUFFICES ASSUME IInv, [Next]_vars PROVE IInv'
  OBVIOUS
<1>0. Typed
  BY DEF IInv
<1>1. snap' \in [Snap -> Rows] /\ \A s \in Snap : Later(s)
  BY LaterNext DEF AllLater
<1>2. \A s \in Snap : Stopped(s) => Stopped(s)'
  BY <1>0, CancelStays
<1>3. OneDrive' = OneDrive /\ OneDrive \subseteq Snap
  BY <1>0, DrivesStay DEF OneDrive
<1>4. Typed'
  BY <1>0, <1>1, JobNext, ShardNext, CoordNext, CursorNext, NotesTyped, PurgeNext, FinNext, ZenonT(40) DEF Typed
<1>5. Unborn'
  <2>1. ASSUME NEW s \in Snap, coord'[s] \in NotYet
        PROVE  snap'[s].status = "ABSENT" /\ ~snap'[s].reaped /\ ~snap'[s].rescued
    <3>1. coord[s] \in NotYet
      BY <1>0, <2>1, CoordNext DEF CoordOK
    <3>2. snap[s].status = "ABSENT" /\ ~snap[s].reaped /\ ~snap[s].rescued
      BY <3>1 DEF IInv, Unborn, NotYet
    <3> QED
      BY <1>0, <2>1, <3>1, <3>2, UnbornRow
  <2> QED
    BY <2>1 DEF Unborn, NotYet
<1>6. FannedLast'
  <2>1. ASSUME NEW s \in Snap PROVE Whole(s)' /\ (coord'[s] # "done" => All(shard', s, {"ABSENT"}))
    <3>1. ShardOK(s) /\ CoordOK(s)
      BY <1>0, ShardNext, CoordNext
    <3>2. coord[s] # "done" => All(shard, s, {"ABSENT"})
      BY DEF IInv, FannedLast
    <3> QED
      BY <3>1, <3>2 DEF ShardOK, CoordOK
  <2> QED
    BY <2>1 DEF FannedLast
<1>7. CancelTraces'
  <2>1. \A s \in Snap : snap'[s].cancelled => Stopped(s)'
    BY <1>1, <1>2 DEF Later, MarksKept, IInv, CancelTraces
  <2> QED
    BY <2>1, PurgeNext DEF CancelTraces, PurgeOK
<1>8. DriveLosses'
  BY <1>1, <1>3 DEF DriveLosses, Later, DriveKept
<1>9. RescueSolid'
  <2>1. ASSUME NEW s \in Snap, snap'[s].rescued, ~Stopped(s)'
        PROVE  snap'[s].status = "COMPLETED" /\ Solid(s)'
    <3>1. ~Stopped(s) /\ MarksKept(s) /\ SolidKept(s)
      BY <1>1, <1>2, <2>1 DEF Later
    <3>2. snap[s].rescued => snap[s].status = "COMPLETED" /\ Solid(s)
      BY <3>1 DEF IInv, RescueSolid
    <3> QED
      BY <2>1, <3>1, <3>2 DEF MarksKept, SolidKept
  <2> QED
    BY <2>1, SMTT(30) DEF RescueSolid
<1>10. CompletedSure'
  <2>1. ASSUME NEW s \in OneDrive, snap'[s].status = "COMPLETED" PROVE Sure(s)'
    <3>1. CompletedFor(s) /\ s \in Snap
      BY <1>1, <1>3 DEF Later
    <3>2. snap[s].status = "COMPLETED" => Sure(s)
      BY DEF IInv, CompletedSure
    <3> QED
      BY <2>1, <3>1, <3>2, SureKept DEF CompletedFor
  <2>2. ASSUME NEW h \in Finalizer, NEW s \in OneDrive, Promises(fin'[h]), fin'[h].snap = s PROVE Sure(s)'
    BY <2>2, FinNext DEF FinOK
  <2>3. \A h \in Finalizer : Promises(fin'[h]) /\ fin'[h].snap \in OneDrive => Sure(fin[h].snap)'
    BY <2>2 DEF Sure, Stopped, Solid, Captured
  <2> QED
    BY <1>3, <2>1, <2>3 DEF CompletedSure, Promises
<1>11. FinPlaces'
  BY <1>3, FinNext DEF FinPlaces, FinOK
<1> QED
  BY <1>4, <1>5, <1>6, <1>7, <1>8, <1>9, <1>10, <1>11 DEF IInv
-----------------------------------------------------------------------------
(***************************************************************************)
(* The theorems.                                                           *)
(***************************************************************************)
\* The inductive invariant holds in every reachable state: shards come and go
\* together, cancel marks are those of a cancelled job, a rescue is good for
\* ever, and nothing says COMPLETED of a OneDrive without cause.
THEOREM RollupInvariance == Spec => []IInv
BY InitInv, StepInv, PTL DEF Spec

\* The rows, the finalizers' locals and the sweeps' notes keep their types, and a
\* finalizer that goes on to reconcile and roll up carries a settled verdict.
THEOREM RollupTypes == Spec => []TypeOK
<1>1. IInv => TypeOK
  <2> SUFFICES ASSUME IInv PROVE TypeOK
    OBVIOUS
  <2>1. Typed
    BY DEF IInv
  <2>2. \A h \in Finalizer :
          \/ fin[h] = Idle
          \/ fin[h] \in [pc : {"flip", "preempted", "promote", "rescue"}, snap : Snap,
                         status : {"IN_PROGRESS"}, preempted : BOOLEAN]
          \/ fin[h] \in [pc : {"reconcile", "roll"}, snap : Snap, status : Settled,
                         preempted : BOOLEAN]
    BY <2>1, ZenonT(40) DEF Typed, Locals, Parked, Running
  <2> QED
    BY <2>1, <2>2, ZenonT(40) DEF TypeOK, Typed, JobStates, Rows, SnapStates, ShardStates, CoordStates, Cursors, Purges
<1> QED
  BY <1>1, RollupInvariance, PTL

\* Unless the job is cancelled, a snapshot the rescue completed stays COMPLETED:
\* no finalizer still in flight, no sweep and no teardown takes it back.
THEOREM RescueStands == Spec => []RescueHolds
<1>1. IInv => RescueHolds
  BY DEF IInv, RescueSolid, RescueHolds, Stopped
<1> QED
  BY <1>1, RollupInvariance, PTL

\* A claimed row goes to the teardown, or to the clean-up of its cancelled job;
\* a deleted one never comes back.
THEOREM ClaimStands == Spec => TeardownFinal
<1> DEFINE Step == \A s \in Snap :
          /\ snap[s].status = "PENDING_DELETION" =>
                \/ snap'[s].status \in {"PENDING_DELETION", "DELETED"}
                \/ snap'[s].status = "FAILED" /\ s \in purge[JobOf[s]].ids
          /\ snap[s].status = "DELETED" => snap'[s].status = "DELETED"
<1>1. IInv /\ [Next]_vars => [Step]_vars
  BY LaterNext DEF AllLater, Later, TeardownKept
<1> QED
  BY <1>1, RollupInvariance, PTL DEF Spec, TeardownFinal

\* A job's verdict is given once: only a rescue that completes one of its
\* snapshots changes it, never that of a CANCELLED or COMPLETED job.
THEOREM VerdictStands == Spec => JobFinal
<1> DEFINE Step == \A j \in Job :
          job[j] # "RUNNING" /\ job'[j] # job[j] =>
             /\ job[j] \in {"PARTIAL", "FAILED"}
             /\ \E s \in Children(j) : snap'[s].rescued /\ ~snap[s].rescued
<1>1. ASSUME IInv, [Next]_vars PROVE Step
  <2>1. SUFFICES ASSUME NEW j \in Job, job[j] # "RUNNING", job'[j] # job[j]
                 PROVE  /\ job[j] \in {"PARTIAL", "FAILED"}
                        /\ \E s \in Children(j) : snap'[s].rescued /\ ~snap[s].rescued
    OBVIOUS
  <2>2. /\ job[j] \in {"PARTIAL", "FAILED"}
        /\ \E h \in Finalizer, s \in Children(j) : Rescues(h, s)
    BY <1>1, <2>1, JobNext DEF IInv, JobOK
  <2>3. PICK h \in Finalizer, s \in Children(j) : Rescues(h, s)
    BY <2>2
  <2>4. s \in Snap
    BY DEF Children
  <2>5. snap'[s].rescued /\ ~snap[s].rescued
    BY <1>1, <2>3, <2>4, RescueSettles DEF Rescues
  <2> QED
    BY <2>2, <2>5
<1>2. IInv /\ [Next]_vars => [Step]_vars
  BY <1>1
<1> QED
  BY <1>2, RollupInvariance, PTL DEF Spec, JobFinal

\* The delta cursor of a OneDrive moves only past changes that are stored, but
\* for a cancelled job and behind the reaper.
THEOREM CursorFollows == Spec => CursorHonest
<1> DEFINE Step == \A r \in Resource, s \in Snap :
          cursor'[r].active = s /\ cursor[r].active # s =>
             job[JobOf[s]] = "CANCELLED" \/ snap[s].reaped \/ Captured(s)'
<1>1. ASSUME IInv, [Next]_vars PROVE Step
  <2>1. SUFFICES ASSUME NEW r \in Resource, NEW s \in Snap,
                        cursor'[r].active = s, cursor[r].active # s
                 PROVE  Stopped(s) \/ snap[s].reaped \/ Captured(s)'
    BY DEF Stopped
  <2>2. PICK h \in Finalizer : fin[h].snap = s /\ (Promote(h) \/ Rescues(h, s))
    BY <1>1, <2>1, CursorNext DEF IInv, CursorOK
  <2>3. CASE Rescues(h, s)
    BY <1>1, <2>2, <2>3, RescueSettles DEF Rescues
  <2>4. CASE Promote(h)
    <3>1. Sure(s)
      <4>1. CompletedSure /\ FinPlaces
        BY <1>1, ZenonT(40) DEF IInv
      <4>2. fin[h].pc = "promote"
        BY <2>4 DEF Promote
      <4> QED
        BY <2>2, <4>1, <4>2 DEF FinPlaces, CompletedSure, Promises
    <3>2. Captured(s) => Captured(s)'
      BY <2>4 DEF Promote, Captured, All
    <3> QED
      BY <3>1, <3>2, SMTT(30) DEF Sure, Solid
  <2> QED
    BY <2>2, <2>3, <2>4
<1>2. IInv /\ [Next]_vars => [Step]_vars
  BY <1>1
<1> QED
  BY <1>2, RollupInvariance, PTL DEF Spec, CursorHonest
=============================================================================
