--------------------------- MODULE LeafWorkProofs ---------------------------
(***************************************************************************)
(* A leaf has one owner, is never left without one, keeps its verdict, and *)
(* its parents wait for it, for any number of leaves, slots and faults;    *)
(* and the runners implement LeafCustody.                                  *)
(***************************************************************************)
EXTENDS LeafWorkSteps
-----------------------------------------------------------------------------
(***************************************************************************)
(* Who owns a leaf: one lemma for each conjunct of the invariant.          *)
(***************************************************************************)
\* A leaf whose copies are sealed is not provider work any more.
LEMMA HandedOverKept == IInv /\ [Next]_vars => HandedOver'
<1> SUFFICES ASSUME IInv, [Next]_vars PROVE HandedOver'
  OBVIOUS
<1> Shape /\ Rows /\ HandedOver
  BY SMTT(30) DEF IInv, Owned
<1>0. ASSUME NEW l \in Leaf, OnlyLeaf(l), wf'[l].state \in {"WAITING", "RESUMING"} => pw'[l].state \notin Active
      PROVE  HandedOver'
  BY <1>0 DEF HandedOver, OnlyLeaf, PwActive
<1>1. ASSUME NEW s \in Slot, NEW l \in Leaf, slot[s].leaf = l, AdmitReserved(s) PROVE HandedOver'
  BY <1>1, AdmitEffect, ZenonT(40) DEF Rows, HandedOver, Holds, PwActive, WfActive, Active, OnlyLeaf, SameLeaf, SameWork, Closes
<1>2. ASSUME NEW s \in Slot, NEW l \in Leaf, slot[s].leaf = l, DeferCurrentCopy(s) PROVE HandedOver'
  BY <1>2, DeferEffect DEF Rows, HandedOver, Holds, PwActive, WfActive, Active, OnlyLeaf, SameLeaf, SameWork, Closes
<1>3. ASSUME NEW s \in Slot, NEW l \in Leaf, slot[s].leaf = l, SealCurrentCopy(s) PROVE HandedOver'
  BY <1>3, SealEffect DEF Rows, HandedOver, Holds, PwActive, WfActive, Active, OnlyLeaf, SameLeaf, SameWork, Closes
<1>4. ASSUME NEW s \in Slot, NEW l \in Leaf, slot[s].leaf = l, MarkPartitionTerminal(s) PROVE HandedOver'
  <2>1. OnlyLeaf(l) /\ pw' = pw /\ wf' = wf
    BY <1>4, MarkEffect, ZenonT(40) DEF OnlyLeaf
  <2> QED
    BY <1>0, <2>1 DEF HandedOver, PwActive
<1>5. ASSUME NEW s \in Slot, NEW l \in Leaf, slot[s].leaf = l, FinishWork(s) PROVE HandedOver'
  <2>1. OnlyLeaf(l) /\ wf'[l] = wf[l] /\ (pw'[l] = pw[l] \/ pw'[l].state = "DONE")
    BY <1>5, FinishEffect, ZenonT(40) DEF SameLeaf, Closes
  <2> QED
    BY <1>0, <2>1 DEF HandedOver, PwActive, Active
<1>6. ASSUME NEW s \in Slot, NEW l \in Leaf, slot[s].leaf = l, FailExhaustedWork(s) PROVE HandedOver'
  <2>1. OnlyLeaf(l) /\ (SameWork(l) \/ pw'[l].state = "DONE")
    BY <1>6, ExhaustEffect, ZenonT(40) DEF Closes
  <2>2. CASE SameWork(l)
    BY <1>0, <2>1, <2>2 DEF HandedOver, PwActive, SameWork, SameLeaf
  <2>3. CASE pw'[l].state = "DONE"
    BY <1>0, <2>1, <2>3 DEF Active
  <2> QED
    BY <2>1, <2>2, <2>3
<1>7. ASSUME NEW s \in Slot, NEW l \in Leaf, slot[s].leaf = l, RequeuePartitionForRetry(s) PROVE HandedOver'
  BY <1>7, RequeueEffect DEF Rows, HandedOver, Holds, PwActive, WfActive, Active, OnlyLeaf, SameLeaf, SameWork, Closes
<1>8. ASSUME NEW s \in Slot, NEW l \in Leaf, slot[s].leaf = l, SuspendCurrentWork(s) PROVE HandedOver'
  BY <1>8, SuspendEffect DEF Rows, HandedOver, Holds, PwActive, WfActive, Active, OnlyLeaf, SameLeaf, SameWork, Closes
<1>9. ASSUME NEW s \in Slot, NEW l \in Leaf, slot[s].leaf = l, TurnFails(s) \/ TurnFinalizes(s) \/ Crash(s) PROVE HandedOver'
  BY <1>9, SlotEffect DEF Rows, HandedOver, Holds, PwActive, WfActive, Active, OnlyLeaf, SameLeaf, SameWork, Closes
<1>10. ASSUME NEW s \in Slot, NEW l \in Leaf, slot[s].leaf = l, ReadCopyOutcome(s) \/ FinishResume(s) PROVE HandedOver'
  BY <1>10, ResumeEffect DEF Rows, HandedOver, Holds, PwActive, WfActive, Active, OnlyLeaf, SameLeaf, SameWork, Closes
<1>11. ASSUME NEW s \in Slot, NEW l \in Leaf, slot[s].leaf = l, ResumeMarksPartition(s) PROVE HandedOver'
  BY <1>11, ResumeMarkEffect DEF Rows, HandedOver, Holds, PwActive, WfActive, Active, OnlyLeaf, SameLeaf, SameWork, Closes
<1>12. ASSUME NEW s \in Slot, NEW l \in Leaf, ReserveDueWork(s, l) PROVE HandedOver'
  BY <1>12, ReserveEffect DEF Rows, HandedOver, Holds, PwActive, WfActive, Active, OnlyLeaf, SameLeaf, SameWork, Closes
<1>13. ASSUME NEW s \in Slot, NEW l \in Leaf, BeginResume(s, l) PROVE HandedOver'
  BY <1>13, BeginEffect DEF Rows, HandedOver, Holds, PwActive, WfActive, Active, OnlyLeaf, SameLeaf, SameWork, Closes
<1>14. ASSUME NEW l \in Leaf, EnsureWork(l) PROVE HandedOver'
  BY <1>14, EnsureEffect DEF Rows, HandedOver, Holds, PwActive, WfActive, Active, OnlyLeaf, SameLeaf, SameWork, Closes
<1>15. ASSUME NEW l \in Leaf, Abandon(l) PROVE HandedOver'
  BY <1>15, AbandonEffect DEF Rows, HandedOver, Holds, PwActive, WfActive, Active, OnlyLeaf, SameLeaf, SameWork, Closes
<1>16. ASSUME NEW l \in Leaf, LeaseLapses(l) \/ FinishParentSettlement(l) PROVE HandedOver'
  BY <1>16, LapseEffect DEF Rows, HandedOver, Holds, PwActive, WfActive, Active, OnlyLeaf, SameLeaf, SameWork, Closes
<1>17. ASSUME NEW l \in Leaf, DeadLetter(l) PROVE HandedOver'
  BY <1>17, DeadLetterEffect DEF Rows, HandedOver, Holds, PwActive, WfActive, Active, OnlyLeaf, SameLeaf, SameWork, Closes
<1>18. ASSUME FinalizePartitionedSnapshot \/ UpdateJobStatus PROVE HandedOver'
  BY <1>18, SettleEffect DEF Rows, HandedOver, Holds, PwActive, WfActive, Active, OnlyLeaf, SameLeaf, SameWork, Closes
<1>19. ASSUME CancelJob PROVE HandedOver'
  BY <1>19, CancelEffect DEF Rows, HandedOver, Holds, PwActive, WfActive, Active, OnlyLeaf, SameLeaf, SameWork, Closes
<1>20. ASSUME UNCHANGED <<job, snap, leaf, fence, pw, wf, slot>> PROVE HandedOver'
  BY <1>20 DEF Rows, HandedOver, Holds, PwActive, WfActive, Active, OnlyLeaf, SameLeaf, SameWork, Closes
<1> QED
  BY <1>1, <1>2, <1>3, <1>4, <1>5, <1>6, <1>7, <1>8, <1>9, <1>10, <1>11, <1>12, <1>13, <1>14, <1>15, <1>16, <1>17, <1>18, <1>19, <1>20, StepCases, SMTT(30)

\* No step leaves a running leaf without a carrier.
LEMMA CarriedKept == IInv /\ [Next]_vars => LeafCarried'
<1> SUFFICES ASSUME IInv, [Next]_vars PROVE LeafCarried'
  OBVIOUS
<1> Shape /\ HandedOver /\ LeafCarried /\ BarrierHolds /\ MarkedFirst
  BY DEF IInv, Owned
<1>0. ASSUME NEW l \in Leaf, OnlyLeaf(l), job' = job,
             job = "RUNNING" /\ leaf'[l].status = "IN_PROGRESS"
                => \/ pw'[l].state \in Active /\ "pw" \in fence'[l]
                   \/ wf'[l].state \in {"WAITING", "RESUMING"} /\ "wf" \in fence'[l]
      PROVE  LeafCarried'
  BY <1>0 DEF LeafCarried, OnlyLeaf, PwActive
<1>a. ASSUME NEW l \in Leaf, OnlyLeaf(l), job' = job, SameWork(l) PROVE LeafCarried'
  BY <1>0, <1>a DEF LeafCarried, PwActive, SameWork, SameLeaf
<1>1. ASSUME NEW s \in Slot, NEW l \in Leaf, slot[s].leaf = l, AdmitReserved(s) PROVE LeafCarried'
  <2>1. OnlyLeaf(l) /\ job' = job
    BY <1>1, AdmitEffect, ZenonT(40)
  <2>2. CASE SameWork(l)
    BY <1>a, <2>1, <2>2
  <2>3. CASE SameLeaf(l) /\ pw[l].state = "RESUMING" /\ pw'[l].state \in {"WAITING", "RESUMING"}
    BY <1>0, <2>1, <2>3 DEF SameLeaf, LeafCarried, HandedOver, PwActive, Active
  <2>4. CASE SameLeaf(l) /\ ~LeafActive(l)
    BY <1>0, <2>1, <2>4 DEF SameLeaf, LeafActive, Terminal, BarrierHolds
  <2>5. CASE SameLeaf(l) /\ "pw" \notin fence[l]
    BY <1>0, <2>1, <2>5 DEF SameLeaf, LeafCarried
  <2>6. CASE pw'[l] = pw[l] /\ pw[l].state = "RESUMING" /\ "pw" \in fence'[l]
    BY <1>0, <2>1, <2>6 DEF Active
  <2> QED
    BY <1>1, <2>2, <2>3, <2>4, <2>5, <2>6, AdmitEffect, ZenonT(40)
<1>2. ASSUME NEW s \in Slot, NEW l \in Leaf, slot[s].leaf = l, DeferCurrentCopy(s) PROVE LeafCarried'
  <2>1. /\ OnlyLeaf(l) /\ UNCHANGED <<job, leaf, pw>> /\ fence'[l] = fence[l] \cup {"wf"}
        /\ wf[l].state \in {"NONE", "ABORTED"}
    BY <1>2, DeferEffect, ZenonT(40)
  <2> QED
    BY <1>0, <2>1 DEF LeafCarried, PwActive
<1>3. ASSUME NEW s \in Slot, NEW l \in Leaf, slot[s].leaf = l, SealCurrentCopy(s) PROVE LeafCarried'
  <2>1. /\ OnlyLeaf(l) /\ UNCHANGED <<job, leaf>>
        /\ SameWork(l) \/ (wf'[l].state = "WAITING" /\ "wf" \in fence'[l])
    BY <1>3, SealEffect
  <2> QED
    BY <1>0, <1>a, <2>1
<1>4. ASSUME NEW s \in Slot, NEW l \in Leaf, slot[s].leaf = l, MarkPartitionTerminal(s) PROVE LeafCarried'
  <2>1. /\ OnlyLeaf(l) /\ UNCHANGED <<job, fence, pw, wf>>
        /\ leaf'[l] = leaf[l] \/ leaf'[l].status \in {"COMPLETED", "FAILED"}
    BY <1>4, MarkEffect, ZenonT(40)
  <2> QED
    BY <1>0, <2>1 DEF LeafCarried, PwActive
<1>5. ASSUME NEW s \in Slot, NEW l \in Leaf, slot[s].leaf = l, FinishWork(s) PROVE LeafCarried'
  <2>1. slot[s].pc = "finish" /\ OnlyLeaf(l) /\ job' = job /\ SameLeaf(l) /\ (pw'[l] = pw[l] \/ Holds(s, l))
    BY <1>5, FinishEffect, ZenonT(40)
  <2>2. CASE pw'[l] = pw[l]
    BY <1>a, <2>1, <2>2 DEF SameWork
  <2>3. CASE Holds(s, l)
    <3>1. Terminal(l)
      BY <1>5, <2>1, <2>3 DEF MarkedFirst, Claims, Ending, Holds
    <3> QED
      BY <1>0, <2>1, <3>1 DEF Terminal, SameLeaf
  <2> QED
    BY <2>1, <2>2, <2>3
<1>6. ASSUME NEW s \in Slot, NEW l \in Leaf, slot[s].leaf = l, FailExhaustedWork(s) PROVE LeafCarried'
  <2>1. OnlyLeaf(l) /\ job' = job /\ (SameWork(l) \/ leaf'[l].status = "FAILED")
    BY <1>6, ExhaustEffect, ZenonT(40)
  <2> QED
    BY <1>0, <1>a, <2>1
<1>7. ASSUME NEW s \in Slot, NEW l \in Leaf, slot[s].leaf = l, RequeuePartitionForRetry(s) PROVE LeafCarried'
  <2>1. OnlyLeaf(l) /\ job' = job /\ (SameWork(l) \/ leaf'[l].status = "QUEUED")
    BY <1>7, RequeueEffect, ZenonT(40)
  <2> QED
    BY <1>0, <1>a, <2>1
<1>8. ASSUME NEW s \in Slot, NEW l \in Leaf, slot[s].leaf = l, SuspendCurrentWork(s) PROVE LeafCarried'
  <2>1. /\ OnlyLeaf(l) /\ UNCHANGED <<job, leaf>>
        /\ SameWork(l) \/ (pw'[l].state = "WAITING" /\ "pw" \in fence'[l])
    BY <1>8, SuspendEffect
  <2> QED
    BY <1>0, <1>a, <2>1 DEF Active
<1>9. ASSUME NEW s \in Slot, NEW l \in Leaf, slot[s].leaf = l, TurnFails(s) \/ TurnFinalizes(s) \/ Crash(s) PROVE LeafCarried'
  BY <1>9, SlotEffect DEF HandedOver, LeafCarried, BarrierHolds, MarkedFirst, Claims, Ending, Holds, LeafActive, Terminal, PwActive, WfActive, Active, OnlyLeaf, SameLeaf, SameWork, Closes
<1>10. ASSUME NEW s \in Slot, NEW l \in Leaf, slot[s].leaf = l, ReadCopyOutcome(s) \/ FinishResume(s) PROVE LeafCarried'
  BY <1>10, ResumeEffect DEF HandedOver, LeafCarried, BarrierHolds, MarkedFirst, Claims, Ending, Holds, LeafActive, Terminal, PwActive, WfActive, Active, OnlyLeaf, SameLeaf, SameWork, Closes
<1>11. ASSUME NEW s \in Slot, NEW l \in Leaf, slot[s].leaf = l, ResumeMarksPartition(s) PROVE LeafCarried'
  BY <1>11, ResumeMarkEffect DEF HandedOver, LeafCarried, BarrierHolds, MarkedFirst, Claims, Ending, Holds, LeafActive, Terminal, PwActive, WfActive, Active, OnlyLeaf, SameLeaf, SameWork, Closes
<1>12. ASSUME NEW s \in Slot, NEW l \in Leaf, ReserveDueWork(s, l) PROVE LeafCarried'
  <2>1. /\ OnlyLeaf(l) /\ SameLeaf(l) /\ job' = job
        /\ pw[l].state \in {"WAITING", "RESUMING"} /\ pw'[l].state = "RESUMING"
    BY <1>12, ReserveEffect, ZenonT(40)
  <2> QED
    BY <1>0, <2>1 DEF SameLeaf, LeafCarried, HandedOver, PwActive, Active
<1>13. ASSUME NEW s \in Slot, NEW l \in Leaf, BeginResume(s, l) PROVE LeafCarried'
  BY <1>13, BeginEffect DEF HandedOver, LeafCarried, BarrierHolds, MarkedFirst, Claims, Ending, Holds, LeafActive, Terminal, PwActive, WfActive, Active, OnlyLeaf, SameLeaf, SameWork, Closes
<1>14. ASSUME NEW l \in Leaf, EnsureWork(l) PROVE LeafCarried'
  BY <1>14, EnsureEffect DEF HandedOver, LeafCarried, BarrierHolds, MarkedFirst, Claims, Ending, Holds, LeafActive, Terminal, PwActive, WfActive, Active, OnlyLeaf, SameLeaf, SameWork, Closes
<1>15. ASSUME NEW l \in Leaf, Abandon(l) PROVE LeafCarried'
  BY <1>15, AbandonEffect DEF HandedOver, LeafCarried, BarrierHolds, MarkedFirst, Claims, Ending, Holds, LeafActive, Terminal, PwActive, WfActive, Active, OnlyLeaf, SameLeaf, SameWork, Closes
<1>16. ASSUME NEW l \in Leaf, LeaseLapses(l) \/ FinishParentSettlement(l) PROVE LeafCarried'
  BY <1>16, LapseEffect DEF HandedOver, LeafCarried, BarrierHolds, MarkedFirst, Claims, Ending, Holds, LeafActive, Terminal, PwActive, WfActive, Active, OnlyLeaf, SameLeaf, SameWork, Closes
<1>17. ASSUME NEW l \in Leaf, DeadLetter(l) PROVE LeafCarried'
  BY <1>17, DeadLetterEffect DEF HandedOver, LeafCarried, BarrierHolds, MarkedFirst, Claims, Ending, Holds, LeafActive, Terminal, PwActive, WfActive, Active, OnlyLeaf, SameLeaf, SameWork, Closes
<1>18. ASSUME FinalizePartitionedSnapshot \/ UpdateJobStatus PROVE LeafCarried'
  <2>1. CASE FinalizePartitionedSnapshot
    BY <2>1, SettleEffect, SnapEffect DEF LeafCarried, PwActive
  <2>2. CASE UpdateJobStatus
    BY <2>2, JobEffect DEF LeafCarried
  <2> QED
    BY <1>18, <2>1, <2>2
<1>19. ASSUME CancelJob PROVE LeafCarried'
  BY <1>19, CancelEffect DEF HandedOver, LeafCarried, BarrierHolds, MarkedFirst, Claims, Ending, Holds, LeafActive, Terminal, PwActive, WfActive, Active, OnlyLeaf, SameLeaf, SameWork, Closes
<1>20. ASSUME UNCHANGED <<job, snap, leaf, fence, pw, wf, slot>> PROVE LeafCarried'
  BY <1>20 DEF HandedOver, LeafCarried, BarrierHolds, MarkedFirst, Claims, Ending, Holds, LeafActive, Terminal, PwActive, WfActive, Active, OnlyLeaf, SameLeaf, SameWork, Closes
<1> QED
  BY <1>1, <1>2, <1>3, <1>4, <1>5, <1>6, <1>7, <1>8, <1>9, <1>10, <1>11, <1>12, <1>13, <1>14, <1>15, <1>16, <1>17, <1>18, <1>19, <1>20, StepCases

\* The parents wait for leaves and copies.
LEMMA BarrierKept == IInv /\ [Next]_vars => BarrierHolds'
<1> SUFFICES ASSUME IInv, [Next]_vars PROVE BarrierHolds'
  OBVIOUS
<1> Shape /\ BarrierHolds
  BY DEF IInv, Owned
<1>0. VerdictKept
  BY VerdictStep, SMTT(30)
<1>1. ASSUME NEW s \in Slot, NEW l \in Leaf, slot[s].leaf = l, AdmitReserved(s) PROVE BarrierHolds'
  BY <1>1, AdmitEffect, <1>0 DEF BarrierHolds, VerdictKept, LeafActive, Terminal, PwActive, WfActive, Active, Holds, OnlyLeaf, SameLeaf, SameWork, Closes
<1>2. ASSUME NEW s \in Slot, NEW l \in Leaf, slot[s].leaf = l, DeferCurrentCopy(s) PROVE BarrierHolds'
  BY <1>2, DeferEffect, <1>0 DEF BarrierHolds, VerdictKept, LeafActive, Terminal, PwActive, WfActive, Active, Holds, OnlyLeaf, SameLeaf, SameWork, Closes
<1>3. ASSUME NEW s \in Slot, NEW l \in Leaf, slot[s].leaf = l, SealCurrentCopy(s) PROVE BarrierHolds'
  BY <1>3, SealEffect, <1>0 DEF BarrierHolds, VerdictKept, LeafActive, Terminal, PwActive, WfActive, Active, Holds, OnlyLeaf, SameLeaf, SameWork, Closes
<1>4. ASSUME NEW s \in Slot, NEW l \in Leaf, slot[s].leaf = l, MarkPartitionTerminal(s) PROVE BarrierHolds'
  <2>1. UNCHANGED <<job, snap, pw, wf>>
    BY <1>4, MarkEffect, ZenonT(40)
  <2> QED
    BY <1>0, <2>1 DEF BarrierHolds, VerdictKept, Terminal, PwActive, WfActive
<1>5. ASSUME NEW s \in Slot, NEW l \in Leaf, slot[s].leaf = l, FinishWork(s) PROVE BarrierHolds'
  <2>1. /\ OnlyLeaf(l) /\ SameLeaf(l) /\ UNCHANGED <<job, snap>>
        /\ pw'[l] = pw[l] \/ pw'[l].state = "DONE"
    BY <1>5, FinishEffect, ZenonT(40) DEF Stops, Closes, SameLeaf, SameWork
  <2> QED
    BY <1>5, <2>1, LeafAssumption DEF BarrierHolds, VerdictKept, LeafActive, Terminal, PwActive, WfActive, Active, Holds, OnlyLeaf, SameLeaf, SameWork, Closes
<1>6. ASSUME NEW s \in Slot, NEW l \in Leaf, slot[s].leaf = l, FailExhaustedWork(s) PROVE BarrierHolds'
  BY <1>6, ExhaustEffect, <1>0, SMTT(30) DEF BarrierHolds, VerdictKept, LeafActive, Terminal, PwActive, WfActive, Active, Holds, OnlyLeaf, SameLeaf, SameWork, Closes
<1>7. ASSUME NEW s \in Slot, NEW l \in Leaf, slot[s].leaf = l, RequeuePartitionForRetry(s) PROVE BarrierHolds'
  BY <1>7, RequeueEffect, <1>0 DEF BarrierHolds, VerdictKept, LeafActive, Terminal, PwActive, WfActive, Active, Holds, OnlyLeaf, SameLeaf, SameWork, Closes
<1>8. ASSUME NEW s \in Slot, NEW l \in Leaf, slot[s].leaf = l, SuspendCurrentWork(s) PROVE BarrierHolds'
  BY <1>8, SuspendEffect, <1>0, SMTT(30) DEF BarrierHolds, VerdictKept, LeafActive, Terminal, PwActive, WfActive, Active, Holds, OnlyLeaf, SameLeaf, SameWork, Closes
<1>9. ASSUME NEW s \in Slot, NEW l \in Leaf, slot[s].leaf = l, TurnFails(s) \/ TurnFinalizes(s) \/ Crash(s) PROVE BarrierHolds'
  <2>1. UNCHANGED <<job, leaf, pw, wf>>
    BY <1>9, SlotEffect, ZenonT(40)
  <2>2. snap' # snap => snap = "IN_PROGRESS" /\ \A k \in Leaf : Terminal(k) /\ ~WfActive(k)
    BY <1>9, SnapEffect, ZenonT(40)
  <2> QED
    BY <2>1, <2>2 DEF BarrierHolds, PwActive, WfActive, Terminal
<1>10. ASSUME NEW s \in Slot, NEW l \in Leaf, slot[s].leaf = l, ReadCopyOutcome(s) \/ FinishResume(s) PROVE BarrierHolds'
  BY <1>10, ResumeEffect, <1>0 DEF BarrierHolds, VerdictKept, LeafActive, Terminal, PwActive, WfActive, Active, Holds, OnlyLeaf, SameLeaf, SameWork, Closes
<1>11. ASSUME NEW s \in Slot, NEW l \in Leaf, slot[s].leaf = l, ResumeMarksPartition(s) PROVE BarrierHolds'
  BY <1>11, ResumeMarkEffect, <1>0, SMTT(30) DEF BarrierHolds, VerdictKept, LeafActive, Terminal, PwActive, WfActive, Active, Holds, OnlyLeaf, SameLeaf, SameWork, Closes
<1>12. ASSUME NEW s \in Slot, NEW l \in Leaf, ReserveDueWork(s, l) PROVE BarrierHolds'
  <2>1. /\ OnlyLeaf(l) /\ SameLeaf(l) /\ UNCHANGED <<job, snap>>
        /\ pw[l].state \in {"WAITING", "RESUMING"}
    BY <1>12, ReserveEffect, ZenonT(40)
  <2>2. \A k \in Leaf : leaf'[k] = leaf[k] /\ wf'[k] = wf[k] /\ (pw'[k] = pw[k] \/ PwActive(k))
    BY <2>1 DEF OnlyLeaf, SameLeaf, PwActive, Active
  <2> QED
    BY <2>1, <2>2 DEF BarrierHolds, PwActive, WfActive, Terminal
<1>13. ASSUME NEW s \in Slot, NEW l \in Leaf, BeginResume(s, l) PROVE BarrierHolds'
  BY <1>13, BeginEffect, <1>0, SMTT(30) DEF BarrierHolds, VerdictKept, LeafActive, Terminal, PwActive, WfActive, Active, Holds, OnlyLeaf, SameLeaf, SameWork, Closes
<1>14. ASSUME NEW l \in Leaf, EnsureWork(l) PROVE BarrierHolds'
  BY <1>14, EnsureEffect, <1>0 DEF BarrierHolds, VerdictKept, LeafActive, Terminal, PwActive, WfActive, Active, Holds, OnlyLeaf, SameLeaf, SameWork, Closes
<1>15. ASSUME NEW l \in Leaf, Abandon(l) PROVE BarrierHolds'
  BY <1>15, AbandonEffect, <1>0 DEF BarrierHolds, VerdictKept, LeafActive, Terminal, PwActive, WfActive, Active, Holds, OnlyLeaf, SameLeaf, SameWork, Closes
<1>16. ASSUME NEW l \in Leaf, LeaseLapses(l) \/ FinishParentSettlement(l) PROVE BarrierHolds'
  BY <1>16, LapseEffect, <1>0 DEF BarrierHolds, VerdictKept, LeafActive, Terminal, PwActive, WfActive, Active, Holds, OnlyLeaf, SameLeaf, SameWork, Closes
<1>17. ASSUME NEW l \in Leaf, DeadLetter(l) PROVE BarrierHolds'
  BY <1>17, DeadLetterEffect, <1>0 DEF BarrierHolds, VerdictKept, LeafActive, Terminal, PwActive, WfActive, Active, Holds, OnlyLeaf, SameLeaf, SameWork, Closes
<1>18. ASSUME FinalizePartitionedSnapshot \/ UpdateJobStatus PROVE BarrierHolds'
  <2>1. CASE FinalizePartitionedSnapshot
    BY <2>1, SettleEffect, SnapEffect DEF BarrierHolds, PwActive, WfActive, Terminal
  <2>2. CASE UpdateJobStatus
    BY <2>2, SettleEffect, JobEffect DEF BarrierHolds, PwActive, WfActive, Terminal
  <2> QED
    BY <1>18, <2>1, <2>2
<1>19. ASSUME CancelJob PROVE BarrierHolds'
  BY <1>19, CancelEffect, <1>0 DEF BarrierHolds, VerdictKept, LeafActive, Terminal, PwActive, WfActive, Active, Holds, OnlyLeaf, SameLeaf, SameWork, Closes
<1>20. ASSUME UNCHANGED <<job, snap, leaf, fence, pw, wf, slot>> PROVE BarrierHolds'
  BY <1>20 DEF BarrierHolds, VerdictKept, LeafActive, Terminal, PwActive, WfActive, Active, Holds, OnlyLeaf, SameLeaf, SameWork, Closes
<1> QED
  BY <1>1, <1>2, <1>3, <1>4, <1>5, <1>6, <1>7, <1>8, <1>9, <1>10, <1>11, <1>12, <1>13, <1>14, <1>15, <1>16, <1>17, <1>18, <1>19, <1>20, StepCases, SMTT(30)

\* Copies and turns come after their work row.
LEMMA RowsKept == IInv /\ [Next]_vars => Rows'
<1> SUFFICES ASSUME IInv, [Next]_vars PROVE Rows'
  OBVIOUS
<1>1. RowStays /\ SlotFrom /\ CopyFrom
  BY RowStaysStep, SlotFromStep, CopyFromStep
<1>2. \A s \in Slot : slot'[s].pc \in Providing => pw'[slot'[s].leaf].state # "NONE"
  BY <1>1 DEF IInv, Owned, Rows, RowStays, SlotFrom
<1>3. \A l \in Leaf : wf'[l].state # "NONE" => pw'[l].state # "NONE"
  BY <1>1 DEF IInv, Owned, Rows, RowStays, CopyFrom
<1> QED
  BY <1>2, <1>3 DEF Rows

\* A turn that has claimed its row is the only one to end its leaf.
LEMMA FailsOnceKept == IInv /\ [Next]_vars => FailsOnce'
<1> SUFFICES ASSUME IInv, [Next]_vars, NEW t \in Slot, NEW k, k = slot'[t].leaf,
                    slot'[t].pc \in Capturing, pw'[k].state = "RESUMING", pw'[k].claim = t, Terminal(k)'
             PROVE  leaf'[k].status = "FAILED"
  BY DEF FailsOnce, Claims
<1>1. VerdictKept /\ SlotFrom /\ TurnFrom /\ ClaimFrom /\ EndFrom
  BY VerdictStep, SlotFromStep, TurnFromStep, ClaimStep, EndStep, SMTT(30) DEF IInv
<1>2. /\ k \in Leaf /\ slot[t].leaf = k /\ pw[k].state = "RESUMING" /\ pw[k].claim = t
      /\ slot[t].pc \in Capturing \/ leaf'[k].status = "IN_PROGRESS"
  BY <1>1 DEF SlotFrom, TurnFrom, ClaimFrom, Providing, Capturing
<1>3. slot[t].pc \in Capturing
  BY <1>2, SMTT(30) DEF Terminal
<1>4. CASE Terminal(k)
  BY <1>1, <1>2, <1>3, <1>4 DEF VerdictKept, IInv, Owned, FailsOnce, Claims
<1>5. CASE ~Terminal(k)
  BY <1>1, <1>2, <1>5 DEF EndFrom, Capturing
<1> QED
  BY <1>4, <1>5

\* Past the mark, an owner's leaf stays terminal.
LEMMA MarkedFirstKept == IInv /\ [Next]_vars => MarkedFirst'
<1> SUFFICES ASSUME IInv, [Next]_vars, NEW t \in Slot, NEW k, k = slot'[t].leaf, slot'[t].pc \in Ending,
                    pw'[k].state = "RESUMING", pw'[k].claim = t, pw'[k].live, t \in fence'[k]
             PROVE  Terminal(k)'
  BY DEF MarkedFirst, Claims
<1>1. VerdictKept /\ SlotFrom /\ TurnFrom /\ ClaimFrom /\ TokenFrom
  BY VerdictStep, SlotFromStep, TurnFromStep, ClaimStep, TokenStep DEF IInv
<1>2. k \in Leaf /\ slot[t].leaf = k /\ (slot[t].pc \in Ending \/ MarkPartitionTerminal(t))
  BY <1>1 DEF SlotFrom, TurnFrom, Providing
<1>3. pw[k].state = "RESUMING" /\ pw[k].claim = t /\ pw[k].live /\ t \in fence[k]
  BY <1>1, <1>2 DEF ClaimFrom, TokenFrom, Ending
<1>4. CASE slot[t].pc \in Ending
  <2>1. MarkedFirst
    BY ZenonT(40) DEF IInv, Owned
  <2>2. Terminal(k)
    BY <1>2, <1>3, <1>4, <2>1 DEF MarkedFirst, Claims
  <2> QED
    BY <1>1, <1>2, <2>2 DEF VerdictKept, Terminal
<1>5. CASE MarkPartitionTerminal(t)
  BY <1>2, <1>3, <1>5, MarkEffect DEF IInv, Ending, Holds, Terminal
<1> QED
  BY <1>2, <1>4, <1>5
-----------------------------------------------------------------------------
(***************************************************************************)
(* The results.                                                            *)
(***************************************************************************)
\* A new snapshot satisfies the invariant.
LEMMA InitInv == Init => IInv
<1> SUFFICES ASSUME Init PROVE IInv
  OBVIOUS
<1>1. Shape
  <2>1. ParentTyped /\ LeafTyped
    <3>1. ParentTyped
      <4>1. 0 \in 0..MaxFault
        BY LeafAssumption
      <4> QED
        BY <4>1, ZenonT(40) DEF Init, ParentTyped
    <3>2. LeafTyped
      BY DEF Init, LeafTyped
    <3> QED
      BY <3>1, <3>2
  <2>2. PwTyped /\ WfTyped
    <3>1. Work("NONE") \in WorkRows(PwStates) /\ Work("NONE") \in WorkRows(WfStates) /\ ~Work("NONE").pend
      BY DEF Work, WorkRows, PwStates, WfStates
    <3> QED
      BY <3>1 DEF Init, PwTyped, WfTyped
  <2>3. SlotTyped
    <3>1. Idle \in SlotRows /\ Idle.pc = "idle"
      BY DEF Idle, SlotRows, Pcs, PwStates
    <3> QED
      BY <3>1 DEF Init, SlotTyped
  <2> QED
    BY <2>1, <2>2, <2>3 DEF Shape
<1>2. Owned
  BY DEF Init, Work, Idle, Owned, Rows, HandedOver, LeafCarried, BarrierHolds, FailsOnce, MarkedFirst, Terminal,
         Providing, Capturing, Ending
<1> QED
  BY <1>1, <1>2 DEF IInv

\* Every step of a turn, of a resumption, of a sweep and of the environment
\* keeps it.
LEMMA StepInv == IInv /\ [Next]_vars => IInv'
BY ShapeKept, RowsKept, HandedOverKept, CarriedKept, BarrierKept, FailsOnceKept, MarkedFirstKept DEF IInv, Owned

\* The inductive invariant holds of every state that provider work, copy
\* workflows, sweeps, crashes and a cancellation can produce.
THEOREM LeafInvariance == Spec => []IInv
<1>1. Init => IInv
  BY InitInv
<1>2. IInv /\ [Next]_vars => IInv'
  BY StepInv
<1> QED
  BY <1>1, <1>2, PTL DEF Spec

\* Rows, tokens and claims keep their types, and only a finished row has a
\* receipt (parent_settlement).
THEOREM LeafTypes == Spec => []TypeOK
<1>1. IInv => TypeOK
  BY DEF IInv, Shape, ParentTyped, LeafTyped, PwTyped, WfTyped, SlotTyped, SlotRows, WorkRows, PwStates, WfStates,
         Pcs, Providing, Capturing, Ending, TypeOK
<1> QED
  BY <1>1, LeafInvariance, PTL

\* From seal_current_copy on, no provider turn is reserved or trusted for the
\* leaf, however many workers, crashes and lapsed leases there are.
THEOREM OneOwner == Spec => []HandedOver
<1>1. IInv => HandedOver
  BY DEF IInv, Owned
<1> QED
  BY <1>1, LeafInvariance, PTL

\* A shard in progress is always carried by a work row with its lease_token:
\* neither admit_reserved nor begin_resume can refuse the row that carries it.
THEOREM NeverStranded == Spec => []LeafCarried
<1>1. IInv => LeafCarried
  BY DEF IInv, Owned
<1> QED
  BY <1>1, LeafInvariance, PTL

\* The finalizers settle a snapshot only over terminal leaves and finished
\* copies, and the job closes after both.
THEOREM Barrier == Spec => []BarrierHolds
<1>1. IInv => BarrierHolds
  BY DEF IInv, Owned
<1> QED
  BY <1>1, LeafInvariance, PTL

\* _mark_partition_terminal, fail_exhausted_work, the resumption callback and
\* the sweeps write a verdict once.
THEOREM VerdictOnce == Spec => LeafFinal
<1>1. IInv /\ [Next]_vars => [\A l \in Leaf : Terminal(l) => leaf'[l] = leaf[l]]_vars
  BY VerdictStep DEF VerdictKept
<1> QED
  BY <1>1, LeafInvariance, PTL DEF Spec, LeafFinal
-----------------------------------------------------------------------------
(***************************************************************************)
(* LeafCustody: every action is a step of it, or a stutter.                *)
(***************************************************************************)
\* A cancelled job has no active provider work.
Cleared == job = "CANCELLED" => \A l \in Leaf : ~PwActive(l)

\* Sealed copies keep their leaf, and no provider work does.
LEMMA CopiesKeep ==
    ASSUME Rows, HandedOver, NEW l \in Leaf, wf[l].state \in {"WAITING", "RESUMING"}
    PROVE  Keeper(l) = "copies" /\ pw[l].state # "NONE" /\ ~PwActive(l)
<1>1. pw[l].state # "NONE" /\ ~PwActive(l)
  BY DEF Rows, HandedOver
<1> QED
  BY <1>1, KeeperIs

\* Provider work is active only while the job runs, and its leaf is active
\* until it ends.
LEMMA ProviderActive ==
    ASSUME BarrierHolds, Cleared, Shape, NEW l \in Leaf, PwActive(l)
    PROVE  job = "RUNNING" /\ (LeafActive(l) \/ Terminal(l))
<1>1. job \in {"RUNNING", "ENDED", "CANCELLED"}
  BY ZenonT(40) DEF Shape, ParentTyped
<1> QED
  BY <1>1 DEF BarrierHolds, Cleared, LeafActive

\* Provider work that is closed leaves its leaf to nobody, unless it was sealed.
LEMMA ClosedLeaves ==
    ASSUME HandedOver, NEW l \in Leaf, PwActive(l), Closes(l), wf'[l].state \in {wf[l].state, "ABORTED"}
    PROVE  Keeper(l) = "provider" /\ Keeper(l)' = "gone"
<1>1. wf[l].state \notin {"WAITING", "RESUMING"}
  BY DEF HandedOver
<1>2. wf'[l].state \notin {"WAITING", "RESUMING"}
  BY <1>1
<1>3. pw'[l].state # "NONE" /\ ~PwActive(l)'
  BY DEF Closes, PwActive, Active
<1> QED
  BY <1>2, <1>3, KeeperIs, KeeperBecomes

\* Admission keeps, starts or closes.
LEMMA AdmitMoves ==
    ASSUME IInv, Cleared, NEW s \in Slot, NEW l \in Leaf, slot[s].leaf = l, AdmitReserved(s)
    PROVE  Moves(l)
<1>1. Shape /\ HandedOver /\ LeafCarried /\ BarrierHolds
  BY ZenonT(40) DEF IInv, Owned
<1>2. CASE SameWork(l)
  BY <1>2, KeeperBecomes, ZenonT(40) DEF SameWork, SameLeaf, Moves, Steady
<1>3. CASE SameLeaf(l) /\ pw[l].state = "RESUMING" /\ pw'[l].state \in {"WAITING", "RESUMING"}
  <2>1. PwActive(l) /\ PwActive(l)'
    BY <1>3 DEF PwActive, Active
  <2> QED
    BY <1>3, <2>1, KeeperIs, KeeperBecomes, ZenonT(40) DEF SameLeaf, Moves, Steady
<1>4. CASE /\ SameLeaf(l) /\ pw[l].state = "RESUMING" /\ Closes(l)
           /\ ~LeafActive(l) \/ "pw" \notin fence[l]
  <2>1. PwActive(l)
    BY <1>4 DEF PwActive, Active
  <2>2. Keeper(l) = "provider" /\ Keeper(l)' = "gone"
    BY <1>1, <1>4, <2>1, ClosedLeaves DEF SameLeaf
  <2>3. LeafActive(l) \/ Terminal(l)
    BY <1>1, <2>1, ProviderActive
  <2>4. "pw" \notin fence[l] /\ job = "RUNNING" => leaf[l].status # "IN_PROGRESS"
    BY <1>1, <2>1 DEF LeafCarried, HandedOver
  <2>5. leaf[l].status \in {"QUEUED", "IN_PROGRESS"} \/ Terminal(l)
    BY <1>1 DEF Shape, LeafTyped, Terminal
  <2> QED
    BY <1>4, <2>2, <2>3, <2>4, <2>5, ZenonT(40) DEF SameLeaf, Moves, Left
<1>5. CASE /\ pw'[l] = pw[l] /\ wf'[l] = wf[l] /\ pw[l].state = "RESUMING" /\ LeafActive(l)
           /\ leaf'[l].status = "IN_PROGRESS"
  <2>1. PwActive(l)
    BY <1>5 DEF PwActive, Active
  <2> QED
    BY <1>5, <2>1, KeeperIs, KeeperBecomes, ZenonT(40) DEF Moves, Started
<1>6. wf' = wf
  BY <1>1, AdmitEffect, ZenonT(40)
<1> QED
  BY <1>1, <1>2, <1>3, <1>4, <1>5, <1>6, AdmitEffect

\* Sealing hands a running leaf over.
LEMMA SealMoves ==
    ASSUME IInv, NEW s \in Slot, NEW l \in Leaf, slot[s].leaf = l, SealCurrentCopy(s)
    PROVE  Moves(l)
<1>1. Shape
  BY DEF IInv
<1>2. CASE SameWork(l)
  BY <1>2, KeeperBecomes, ZenonT(40) DEF SameWork, SameLeaf, Moves, Steady
<1>3. CASE Holds(s, l) /\ wf[l].state = "DRAINING" /\ Closes(l) /\ wf'[l].state = "WAITING"
  <2>1. PwActive(l) /\ pw'[l].state # "NONE" /\ ~PwActive(l)' /\ wf'[l] # wf[l]
    BY <1>3 DEF Holds, Closes, PwActive, Active
  <2>2. LeafActive(l) /\ leaf[l].status = "IN_PROGRESS"
    BY <2>1, SealGuard
  <2>3. Keeper(l) = "provider" /\ Keeper(l)' = "copies"
    BY <1>3, <2>1, KeeperIs, KeeperBecomes
  <2>4. leaf' = leaf
    BY <1>1, SealEffect
  <2> QED
    BY <2>2, <2>3, <2>4 DEF Moves, Handed
<1> QED
  BY <1>1, <1>2, <1>3, SealEffect, ZenonT(40)

\* A turn ends its leaf, and is over once it has.
LEMMA MarkMoves ==
    ASSUME IInv, Cleared, NEW s \in Slot, NEW l \in Leaf, slot[s].leaf = l, MarkPartitionTerminal(s)
    PROVE  Moves(l)
<1>1. Shape /\ BarrierHolds
  BY ZenonT(40) DEF IInv, Owned
<1>2. pw' = pw /\ wf' = wf
  BY <1>1, MarkEffect, ZenonT(40)
<1>3. Keeper(l)' = Keeper(l)
  BY <1>2, KeeperBecomes
<1>4. CASE leaf'[l] = leaf[l]
  BY <1>3, <1>4 DEF Moves, Steady
<1>5. CASE Holds(s, l) /\ ~Terminal(l) /\ leaf'[l].status \in {"COMPLETED", "FAILED"}
  <2>1. PwActive(l)
    BY <1>5 DEF Holds, PwActive, Active
  <2>2. Keeper(l) = "provider" /\ LeafActive(l)
    BY <1>1, <1>5, <2>1, KeeperIs, ProviderActive
  <2> QED
    BY <1>3, <1>5, <2>2 DEF Moves, Decided
<1> QED
  BY <1>1, <1>4, <1>5, MarkEffect, ZenonT(40)

LEMMA ExhaustMoves ==
    ASSUME IInv, Cleared, NEW s \in Slot, NEW l \in Leaf, slot[s].leaf = l, FailExhaustedWork(s)
    PROVE  Moves(l)
<1>1. Shape /\ BarrierHolds /\ HandedOver /\ FailsOnce
  BY ZenonT(40) DEF IInv, Owned
<1>2. CASE SameWork(l)
  BY <1>2, KeeperBecomes DEF SameWork, SameLeaf, Moves, Steady
<1>3. CASE /\ Holds(s, l) /\ Closes(l) /\ leaf'[l].status = "FAILED" /\ slot[s].pc = "exhausted"
           /\ wf'[l] = wf[l] \/ wf'[l].state = "ABORTED"
  <2>1. PwActive(l) /\ Claims(s)
    BY <1>3 DEF Holds, PwActive, Active, Claims
  <2>2. Keeper(l) = "provider" /\ Keeper(l)' = "gone"
    BY <1>1, <1>3, <2>1, ClosedLeaves
  <2>3. CASE Terminal(l)
    <3>1. leaf[l].status = "FAILED"
      BY <1>1, <1>3, <2>1, <2>3 DEF FailsOnce, Capturing
    <3> QED
      BY <1>3, <2>2, <2>3, <3>1, ZenonT(40) DEF Moves, Left
  <2>4. CASE ~Terminal(l)
    <3>1. LeafActive(l)
      BY <1>1, <2>1, <2>4, ProviderActive
    <3> QED
      BY <1>3, <2>2, <3>1 DEF Moves, Decided
  <2> QED
    BY <2>3, <2>4
<1> QED
  BY <1>1, <1>2, <1>3, ExhaustEffect, ZenonT(40)

LEMMA FinishMoves ==
    ASSUME IInv, NEW s \in Slot, NEW l \in Leaf, slot[s].leaf = l, FinishWork(s)
    PROVE  Moves(l)
<1>1. Shape /\ HandedOver /\ MarkedFirst
  BY ZenonT(40) DEF IInv, Owned
<1>2. slot[s].pc = "finish" /\ SameLeaf(l)
  BY <1>1, FinishEffect
<1>3. CASE pw'[l] = pw[l]
  BY <1>2, <1>3, KeeperBecomes DEF SameLeaf, Moves, Steady
<1>4. CASE Holds(s, l) /\ Closes(l)
  <2>1. PwActive(l)
    BY <1>4 DEF Holds, PwActive, Active
  <2>2. Keeper(l) = "provider" /\ Keeper(l)' = "gone"
    BY <1>1, <1>2, <1>4, <2>1, ClosedLeaves DEF SameLeaf
  <2>3. Terminal(l)
    BY <1>1, <1>2, <1>4 DEF MarkedFirst, Ending, Claims, Holds
  <2> QED
    BY <1>2, <2>2, <2>3, ZenonT(40) DEF SameLeaf, Moves, Left
<1> QED
  BY <1>1, <1>3, <1>4, FinishEffect

\* Intake takes a leaf; reservations, suspensions and deferred copies leave it
\* with the provider work, and a requeue in the queue.
LEMMA ProviderMoves ==
    ASSUME IInv, NEW s, NEW l \in Leaf,
           \/ EnsureWork(l)
           \/ s \in Slot /\ ReserveDueWork(s, l)
           \/ /\ s \in Slot /\ slot[s].leaf = l
              /\ SuspendCurrentWork(s) \/ DeferCurrentCopy(s) \/ RequeuePartitionForRetry(s)
    PROVE  Moves(l)
<1>1. Shape
  BY DEF IInv
<1>2. CASE EnsureWork(l)
  <2>1. PwActive(l)'
    BY <1>1, <1>2, EnsureEffect, ZenonT(40) DEF PwActive, Active
  <2> QED
    BY <1>1, <1>2, <2>1, EnsureEffect, KeeperIs, KeeperBecomes, ZenonT(40) DEF Moves, Taken
<1>3. CASE s \in Slot /\ ReserveDueWork(s, l)
  <2>1. PwActive(l) /\ PwActive(l)'
    BY <1>1, <1>3, ReserveEffect DEF PwActive, Active
  <2>2. Keeper(l)' = Keeper(l)
    BY <2>1, KeeperIs, KeeperBecomes
  <2>3. leaf'[l] = leaf[l]
    BY <1>1, <1>3, ReserveEffect, ZenonT(40) DEF SameLeaf
  <2> QED
    BY <2>2, <2>3, ZenonT(40) DEF Moves, Steady
<1>4. CASE s \in Slot /\ slot[s].leaf = l /\ SuspendCurrentWork(s)
  <2>1. leaf' = leaf /\ wf' = wf
    BY <1>1, <1>4, SuspendEffect, ZenonT(40)
  <2>2. pw'[l] = pw[l] \/ (PwActive(l) /\ PwActive(l)')
    BY <1>1, <1>4, SuspendEffect, ZenonT(40) DEF SameWork, Holds, PwActive, Active
  <2>3. Keeper(l)' = Keeper(l)
    <3>1. CASE pw'[l] = pw[l]
      BY <2>1, <3>1, KeeperBecomes
    <3>2. CASE PwActive(l) /\ PwActive(l)'
      BY <3>2, KeeperIs, KeeperBecomes
    <3> QED
      BY <2>2, <3>1, <3>2
  <2> QED
    BY <2>1, <2>3, ZenonT(40) DEF Moves, Steady
<1>5. CASE s \in Slot /\ slot[s].leaf = l /\ DeferCurrentCopy(s)
  <2>1. /\ leaf' = leaf /\ pw' = pw
        /\ wf[l].state \notin {"WAITING", "RESUMING"} /\ wf'[l].state \notin {"WAITING", "RESUMING"}
    BY <1>1, <1>5, DeferEffect, ZenonT(40)
  <2>2. Keeper(l)' = Keeper(l)
    BY <2>1, ZenonT(40) DEF Keeper, PwActive
  <2> QED
    BY <2>1, <2>2, ZenonT(40) DEF Moves, Steady
<1>6. CASE s \in Slot /\ slot[s].leaf = l /\ RequeuePartitionForRetry(s)
  <2>1. pw' = pw /\ wf' = wf
    BY <1>1, <1>6, RequeueEffect, ZenonT(40)
  <2>2. Keeper(l)' = Keeper(l)
    BY <2>1, KeeperBecomes, ZenonT(40)
  <2>3. leaf'[l] = leaf[l] \/ (~Terminal(l) /\ leaf'[l].status = "QUEUED")
    BY <1>1, <1>6, RequeueEffect, ZenonT(40) DEF SameWork, SameLeaf, Terminal
  <2> QED
    BY <2>2, <2>3, ZenonT(40) DEF Moves, Steady, Requeued
<1> QED
  BY <1>2, <1>3, <1>4, <1>5, <1>6

\* A resumption that is begun or finished, or a workflow that is abandoned,
\* leaves an ended leaf or an ended job.
LEMMA CopiesMove ==
    ASSUME IInv, NEW s, NEW l \in Leaf,
           \/ Abandon(l)
           \/ s \in Slot /\ BeginResume(s, l)
           \/ s \in Slot /\ slot[s].leaf = l /\ (ReadCopyOutcome(s) \/ FinishResume(s))
    PROVE  Moves(l)
<1>1. Shape /\ Rows /\ HandedOver /\ BarrierHolds
  BY ZenonT(40) DEF IInv, Owned
<1>2. leaf' = leaf /\ pw' = pw
  BY <1>1, BeginEffect, AbandonEffect, ResumeEffect, ZenonT(40)
<1>3. CASE wf'[l].state = wf[l].state
  BY <1>2, <1>3, KeeperBecomes, ZenonT(40) DEF Moves, Steady
<1>4. CASE wf[l].state \in {"WAITING", "RESUMING"} /\ wf'[l].state = "RESUMING"
  <2>1. Keeper(l)' = Keeper(l)
    BY <1>2, <1>4, ZenonT(40) DEF Keeper, PwActive
  <2> QED
    BY <1>2, <2>1, ZenonT(40) DEF Moves, Steady
<1>5. CASE /\ wf[l].state \in {"WAITING", "RESUMING"} /\ wf'[l].state \in {"DONE", "ABORTED"}
           /\ Terminal(l) \/ job # "RUNNING"
  <2>1. Keeper(l) = "copies" /\ pw[l].state # "NONE" /\ ~PwActive(l)
    BY <1>1, <1>5, CopiesKeep, ZenonT(40)
  <2>2. pw'[l].state # "NONE" /\ ~PwActive(l)'
    BY <1>2, <2>1, ZenonT(40) DEF PwActive
  <2>3. Keeper(l)' = "gone"
    BY <1>5, <2>2, KeeperBecomes
  <2> QED
    BY <1>2, <1>5, <2>1, <2>3, ZenonT(40) DEF Moves, Left
<1>6. CASE wf[l].state = "DRAINING" /\ wf'[l].state = "ABORTED"
  <2>1. Keeper(l)' = Keeper(l)
    BY <1>2, <1>6, ZenonT(40) DEF Keeper, PwActive
  <2> QED
    BY <1>2, <2>1 DEF Moves, Steady
<1>7. CASE s \in Slot /\ BeginResume(s, l)
  BY <1>1, <1>4, <1>5, <1>7, BeginEffect, ZenonT(40)
<1>8. CASE Abandon(l)
  <2>1. /\ WfActive(l) /\ wf'[l].state = "ABORTED"
        /\ job # "RUNNING" \/ snap # "IN_PROGRESS" \/ Terminal(l) \/ wf[l].state = "DRAINING"
    BY <1>1, <1>8, AbandonEffect
  <2>2. snap = "IN_PROGRESS"
    BY <1>1, <2>1 DEF BarrierHolds
  <2> QED
    BY <1>5, <1>6, <2>1, <2>2 DEF WfActive, Active
<1>9. CASE s \in Slot /\ slot[s].leaf = l /\ (ReadCopyOutcome(s) \/ FinishResume(s))
  BY <1>1, <1>3, <1>5, <1>9, ResumeEffect, ZenonT(40)
<1> QED
  BY <1>7, <1>8, <1>9

\* The callback ends a leaf that the copies keep.
LEMMA ResumeMarkMoves ==
    ASSUME IInv, NEW s \in Slot, NEW l \in Leaf, slot[s].leaf = l, ResumeMarksPartition(s)
    PROVE  Moves(l)
<1>1. Shape /\ Rows /\ HandedOver /\ BarrierHolds
  BY ZenonT(40) DEF IInv, Owned
<1>2. pw' = pw /\ wf'[l].state = wf[l].state
  BY <1>1, ResumeMarkEffect
<1>3. Keeper(l)' = Keeper(l)
  BY <1>2, KeeperBecomes
<1>4. CASE leaf'[l] = leaf[l]
  BY <1>3, <1>4 DEF Moves, Steady
<1>5. CASE ~Terminal(l) /\ leaf'[l].status = "QUEUED"
  BY <1>3, <1>5 DEF Moves, Requeued
<1>6. CASE ~Terminal(l) /\ leaf'[l].status \in {"COMPLETED", "FAILED"}
  <2>1. leaf \in [Leaf -> [status : {"QUEUED", "IN_PROGRESS", "COMPLETED", "FAILED"}, lossy : BOOLEAN]]
    BY <1>1 DEF Shape, LeafTyped
  <2>2. [leaf EXCEPT ![l].status = "QUEUED"][l].status = "QUEUED"
    BY <2>1
  <2>3. wf[l].state = "RESUMING" /\ job # "CANCELLED"
    BY <1>6, <2>2, ResumeMarkGuard, ZenonT(40) DEF Terminal
  <2>4. Keeper(l) = "copies"
    BY <1>1, <2>3, CopiesKeep
  <2>5. job \in {"RUNNING", "ENDED", "CANCELLED"}
    BY <1>1 DEF Shape, ParentTyped
  <2>6. LeafActive(l)
    BY <1>1, <1>6, <2>3, <2>5 DEF BarrierHolds, LeafActive
  <2> QED
    BY <1>3, <1>6, <2>4, <2>6 DEF Moves, Decided
<1> QED
  BY <1>1, <1>4, <1>5, <1>6, ResumeMarkEffect, ZenonT(40)

\* The reconciler fails a leaf in the queue that nobody keeps.
LEMMA DeadLetterMoves ==
    ASSUME IInv, NEW l \in Leaf, DeadLetter(l)
    PROVE  Moves(l)
<1>1. Shape /\ LeafCarried
  BY ZenonT(40) DEF IInv, Owned
<1>2. job = "RUNNING" /\ ~WfActive(l)
  BY ZenonT(40) DEF DeadLetter
<1>3. pw' = pw /\ wf' = wf /\ pw[l].state = "DONE" /\ ~Terminal(l) /\ leaf'[l].status = "FAILED"
  BY <1>1, DeadLetterEffect
<1>4. ~PwActive(l) /\ wf[l].state \notin {"WAITING", "RESUMING"}
  BY <1>2, <1>3 DEF PwActive, WfActive, Active
<1>5. Keeper(l) = "gone" /\ Keeper(l)' = Keeper(l)
  BY <1>3, <1>4, KeeperIs, KeeperBecomes
<1>6. leaf[l].status \in {"QUEUED", "IN_PROGRESS", "COMPLETED", "FAILED"}
  BY <1>1 DEF Shape, LeafTyped
<1>7. leaf[l].status = "QUEUED"
  BY <1>1, <1>2, <1>3, <1>4, <1>6 DEF LeafCarried, Terminal
<1> QED
  BY <1>2, <1>3, <1>5, <1>7 DEF Moves, Lettered

\* The finalizers settle the snapshot.
LEMMA FinalizeSteps ==
    ASSUME IInv, NEW s, TurnFinalizes(s) \/ FinalizePartitionedSnapshot
    PROVE  CustodySteps
<1>1. UNCHANGED <<job, leaf, pw, wf>>
  BY ZenonT(40) DEF TurnFinalizes, FinalizePartitionedSnapshot
<1>2. Statuses' = Statuses /\ Keepers' = Keepers
  BY <1>1 DEF Statuses, Keepers, Keeper, PwActive
<1>3. CASE snap' = snap
  BY <1>1, <1>2, <1>3 DEF CustodySteps
<1>4. CASE snap' # snap
  <2>1. snap = "IN_PROGRESS" /\ \A l \in Leaf : Terminal(l) /\ ~WfActive(l)
    BY <1>4, SnapEffect
  <2>2. \A l \in Leaf : Keeper(l) # "copies" /\ (Keeper(l) = "provider" => PwActive(l))
    BY <2>1 DEF Keeper, WfActive, Active
  <2>3. \A l \in Leaf : Statuses[l] = leaf[l].status /\ Keepers[l] = Keeper(l)
    BY DEF Statuses, Keepers
  <2>4. \A l \in Leaf : Custody!Ended(l) /\ Keepers[l] # "copies"
    BY <2>1, <2>2, <2>3 DEF Custody!Ended, Terminal
  <2>5. \A l \in Leaf : Custody!Kept(l) => PwActive(l)
    BY <2>2, <2>3 DEF Custody!Kept
  <2>6. \A k, l \in Leaf : Custody!Kept(k) /\ Custody!Kept(l) => k = l
    BY <1>4, <2>5, FinalizeGuard, ZenonT(40)
  <2>7. snap' \in {"COMPLETED", "PARTIAL"} /\ (snap' = "COMPLETED" => \A l \in Leaf : Statuses[l] = "COMPLETED")
    BY <1>4, <2>3, FinalizeGuard
  <2>8. Custody!Finalize(snap')
    BY <1>1, <1>2, <2>1, <2>4, <2>6, <2>7, ZenonT(40) DEF Custody!Finalize
  <2> QED
    BY <2>7, <2>8, ZenonT(40) DEF CustodySteps, Custody!Next
<1> QED
  BY <1>3, <1>4

\* The job ends when nobody keeps a leaf.
LEMMA EndJobSteps ==
    ASSUME IInv, UpdateJobStatus
    PROVE  CustodySteps
<1>1. UNCHANGED <<snap, leaf, pw, wf>> /\ job = "RUNNING" /\ job' = "ENDED" /\ snap # "IN_PROGRESS"
  BY JobEffect, SettleEffect
<1>2. Statuses' = Statuses /\ Keepers' = Keepers
  BY <1>1 DEF Statuses, Keepers, Keeper, PwActive
<1>3. \A l \in Leaf : ~PwActive(l) /\ ~WfActive(l)
  BY <1>1, JobEffect DEF IInv, Owned, BarrierHolds
<1>4. \A l \in Leaf : Keeper(l) \notin {"provider", "copies"}
  BY <1>3 DEF Keeper, WfActive, Active
<1>5. \A l \in Leaf : ~Custody!Kept(l)
  BY <1>4 DEF Custody!Kept, Keepers
<1>6. Custody!EndJob
  BY <1>1, <1>2, <1>5, ZenonT(40) DEF Custody!EndJob
<1> QED
  BY <1>6, ZenonT(40) DEF CustodySteps, Custody!Next

\* A cancellation takes every leaf from its keeper.
LEMMA CancelSteps ==
    ASSUME IInv, CancelJob
    PROVE  CustodySteps
<1>1. UNCHANGED <<snap, leaf>> /\ job = "RUNNING" /\ job' = "CANCELLED"
  BY ZenonT(40) DEF CancelJob
<1>2. ASSUME NEW l \in Leaf
      PROVE  /\ pw'[l].state = IF PwActive(l) THEN "DONE" ELSE pw[l].state
             /\ wf'[l].state \in {"WAITING", "RESUMING"} => FALSE
             /\ wf'[l].state = wf[l].state \/ WfActive(l) \/ wf[l].pend
  <2>1. /\ pw'[l] = IF PwActive(l) \/ pw[l].pend THEN Work("DONE") ELSE pw[l]
        /\ wf'[l] = IF WfActive(l) \/ wf[l].pend THEN Work("ABORTED") ELSE wf[l]
    BY DEF CancelJob, PwActive, WfActive
  <2>2. Work("DONE").state = "DONE" /\ Work("ABORTED").state = "ABORTED"
    BY DEF Work
  <2>3. pw[l].pend => pw[l].state = "DONE"
    BY DEF IInv, Shape, PwTyped
  <2> QED
    BY <2>1, <2>2, <2>3 DEF WfActive, Active
<1>3. ASSUME NEW l \in Leaf
      PROVE  Keeper(l)' = IF Keeper(l) \in {"provider", "copies"} THEN "gone" ELSE Keeper(l)
  <2>1. CASE PwActive(l)
    <3>1. pw'[l].state # "NONE" /\ ~PwActive(l)'
      BY <1>2, <2>1 DEF PwActive, Active
    <3> QED
      BY <1>2, <2>1, <3>1, KeeperIs, KeeperBecomes, ZenonT(40)
  <2>2. CASE ~PwActive(l) /\ pw[l].state # "NONE"
    <3>1. pw'[l].state # "NONE" /\ ~PwActive(l)'
      BY <1>2, <2>2 DEF PwActive
    <3> QED
      BY <1>2, <2>2, <3>1, KeeperIs, KeeperBecomes
  <2>3. CASE pw[l].state = "NONE"
    BY <1>2, <2>3 DEF Keeper, PwActive, Active
  <2> QED
    BY <2>1, <2>2, <2>3
<1>4. Keepers' = [l \in Leaf |-> IF Custody!Kept(l) THEN "gone" ELSE Keepers[l]]
  BY <1>3 DEF Keepers, Custody!Kept
<1>5. Statuses' = Statuses
  BY <1>1 DEF Statuses
<1>6. Custody!Cancel
  BY <1>1, <1>4, <1>5, ZenonT(40) DEF Custody!Cancel
<1> QED
  BY <1>6, ZenonT(40) DEF CustodySteps, Custody!Next

\* A cancelled job stays without provider work: only intake makes a row active,
\* and only for an active leaf.
LEMMA ClearedKept == IInv /\ Cleared /\ [Next]_vars => Cleared'
<1> SUFFICES ASSUME IInv, Cleared, [Next]_vars PROVE Cleared'
  OBVIOUS
<1>0. Shape
  BY DEF IInv
<1> DEFINE Quiet == job' = job /\ \A l \in Leaf : PwActive(l)' => PwActive(l)
<1>q. ASSUME Quiet PROVE Cleared'
  BY <1>q DEF Cleared
<1>1. ASSUME NEW s \in Slot, NEW l \in Leaf, slot[s].leaf = l,
             \/ DeferCurrentCopy(s) \/ MarkPartitionTerminal(s) \/ RequeuePartitionForRetry(s) \/ ReadCopyOutcome(s)
             \/ FinishResume(s) \/ ResumeMarksPartition(s) \/ TurnFails(s) \/ TurnFinalizes(s) \/ Crash(s)
      PROVE  Cleared'
  <2>1. job' = job /\ pw' = pw
    BY <1>1, ZenonT(40) DEF DeferCurrentCopy, MarkPartitionTerminal, RequeuePartitionForRetry, ReadCopyOutcome, FinishResume,
          ResumeMarksPartition, TurnFails, TurnFinalizes, Crash
  <2> QED
    BY <2>1 DEF Cleared, PwActive
<1>2. ASSUME NEW s \in Slot, NEW l \in Leaf, slot[s].leaf = l,
             AdmitReserved(s) \/ SealCurrentCopy(s) \/ FinishWork(s) \/ FailExhaustedWork(s) \/ SuspendCurrentWork(s)
      PROVE  Cleared'
  <2>1. /\ OnlyLeaf(l) /\ job' = job
        /\ pw'[l] = pw[l] \/ pw[l].state = "RESUMING" \/ Closes(l)
    <3>1. CASE AdmitReserved(s)
      BY <1>0, <1>2, <3>1, AdmitEffect, ZenonT(40) DEF SameWork
    <3>2. CASE SealCurrentCopy(s)
      BY <1>0, <1>2, <3>2, SealEffect, ZenonT(40) DEF SameWork
    <3>3. CASE FinishWork(s)
      BY <1>0, <1>2, <3>3, FinishEffect, ZenonT(40)
    <3>4. CASE FailExhaustedWork(s)
      BY <1>0, <1>2, <3>4, ExhaustEffect, ZenonT(40) DEF SameWork
    <3>5. CASE SuspendCurrentWork(s)
      BY <1>0, <1>2, <3>5, SuspendEffect, ZenonT(40) DEF SameWork, Holds
    <3> QED
      BY <1>2, <3>1, <3>2, <3>3, <3>4, <3>5, ZenonT(40)
  <2> QED
    BY <1>q, <2>1 DEF OnlyLeaf, PwActive, Active, Closes
<1>3. ASSUME NEW s \in Slot, NEW l \in Leaf, ReserveDueWork(s, l) \/ BeginResume(s, l) PROVE Cleared'
  <2>1. OnlyLeaf(l) /\ job' = job /\ (pw'[l] = pw[l] \/ PwActive(l))
    BY <1>0, <1>3, ReserveEffect, BeginEffect, ZenonT(40) DEF PwActive, Active
  <2> QED
    BY <1>q, <2>1, ZenonT(40) DEF OnlyLeaf, PwActive
<1>4. ASSUME NEW l \in Leaf, EnsureWork(l) PROVE Cleared'
  BY <1>0, <1>4, EnsureEffect, ZenonT(40) DEF Cleared, LeafActive
<1>5. ASSUME NEW l \in Leaf, Abandon(l) \/ DeadLetter(l) PROVE Cleared'
  <2>1. job' = job /\ pw' = pw
    BY <1>0, <1>5, AbandonEffect, DeadLetterEffect, ZenonT(40)
  <2> QED
    BY <2>1 DEF Cleared, PwActive
<1>6. ASSUME NEW l \in Leaf, LeaseLapses(l) \/ FinishParentSettlement(l) PROVE Cleared'
  BY <1>0, <1>6, <1>q, LapseEffect, ZenonT(40) DEF PwActive
<1>7. ASSUME FinalizePartitionedSnapshot \/ UpdateJobStatus PROVE Cleared'
  <2>1. pw' = pw /\ (job' = job \/ job' = "ENDED")
    BY <1>7, ZenonT(40) DEF FinalizePartitionedSnapshot, UpdateJobStatus
  <2> QED
    BY <2>1 DEF Cleared, PwActive
<1>8. ASSUME CancelJob PROVE Cleared'
  <2>1. \A l \in Leaf : pw'[l] = IF PwActive(l) \/ pw[l].pend THEN Work("DONE") ELSE pw[l]
    BY <1>8 DEF CancelJob, PwActive
  <2>2. Work("DONE").state = "DONE"
    BY DEF Work
  <2> QED
    BY <2>1, <2>2 DEF Cleared, PwActive, Active
<1>9. ASSUME UNCHANGED <<job, snap, leaf, fence, pw, wf, slot>> PROVE Cleared'
  BY <1>9 DEF Cleared, PwActive
<1> HIDE DEF Quiet
<1> QED
  BY <1>0, <1>1, <1>2, <1>3, <1>4, <1>5, <1>6, <1>7, <1>8, <1>9, StepCases, ZenonT(40)

\* Every step is a step of LeafCustody, or leaves all it sees alone.
LEMMA CustodyStep == IInv /\ Cleared /\ [Next]_vars => CustodySteps
<1> SUFFICES ASSUME IInv, Cleared, [Next]_vars PROVE CustodySteps
  OBVIOUS
<1>0. Shape
  BY DEF IInv
<1>1. ASSUME NEW s \in Slot, NEW l \in Leaf, slot[s].leaf = l,
             AdmitReserved(s) \/ SealCurrentCopy(s) \/ MarkPartitionTerminal(s) \/ FailExhaustedWork(s) \/ FinishWork(s)
      PROVE  CustodySteps
  <2>1. OnlyLeaf(l) /\ UNCHANGED <<job, snap>>
    <3>1. CASE AdmitReserved(s) \/ SealCurrentCopy(s)
      BY <1>0, <1>1, <3>1, AdmitEffect, SealEffect, ZenonT(40)
    <3>2. CASE MarkPartitionTerminal(s)
      BY <1>0, <1>1, <3>2, MarkEffect, ZenonT(40)
    <3>3. CASE FailExhaustedWork(s) \/ FinishWork(s)
      BY <1>0, <1>1, <3>3, ExhaustEffect, FinishEffect, ZenonT(40)
    <3> QED
      BY <1>1, <3>1, <3>2, <3>3, ZenonT(40)
  <2>2. Moves(l)
    BY <1>1, AdmitMoves, SealMoves, MarkMoves, ExhaustMoves, FinishMoves, ZenonT(40)
  <2> QED
    BY <2>1, <2>2, MovesSteps
<1>2. ASSUME NEW s \in Slot, NEW l \in Leaf, slot[s].leaf = l,
             SuspendCurrentWork(s) \/ DeferCurrentCopy(s) \/ RequeuePartitionForRetry(s)
      PROVE  CustodySteps
  <2>1. OnlyLeaf(l) /\ UNCHANGED <<job, snap>>
    BY <1>0, <1>2, SuspendEffect, DeferEffect, RequeueEffect, ZenonT(40)
  <2>2. Moves(l)
    BY <1>2, ProviderMoves, ZenonT(40)
  <2> QED
    BY <2>1, <2>2, MovesSteps
<1>3. ASSUME NEW s \in Slot, NEW l \in Leaf, slot[s].leaf = l,
             ReadCopyOutcome(s) \/ FinishResume(s) \/ ResumeMarksPartition(s)
      PROVE  CustodySteps
  <2>1. OnlyLeaf(l) /\ UNCHANGED <<job, snap>>
    BY <1>0, <1>3, ResumeEffect, ResumeMarkEffect, ZenonT(40)
  <2>2. Moves(l)
    BY <1>3, CopiesMove, ResumeMarkMoves, ZenonT(40)
  <2> QED
    BY <2>1, <2>2, MovesSteps
<1>4. ASSUME NEW s \in Slot, NEW l \in Leaf, ReserveDueWork(s, l) \/ BeginResume(s, l) PROVE CustodySteps
  <2>1. OnlyLeaf(l) /\ UNCHANGED <<job, snap>>
    BY <1>0, <1>4, ReserveEffect, BeginEffect
  <2>2. Moves(l)
    BY <1>4, ProviderMoves, CopiesMove, ZenonT(40)
  <2> QED
    BY <2>1, <2>2, MovesSteps
<1>5. ASSUME NEW l \in Leaf, EnsureWork(l) \/ Abandon(l) \/ DeadLetter(l) PROVE CustodySteps
  <2>1. OnlyLeaf(l) /\ UNCHANGED <<job, snap>>
    BY <1>0, <1>5, EnsureEffect, AbandonEffect, DeadLetterEffect, ZenonT(40)
  <2>2. Moves(l)
    BY <1>5, ProviderMoves, CopiesMove, DeadLetterMoves, ZenonT(40)
  <2> QED
    BY <2>1, <2>2, MovesSteps
<1>6. ASSUME NEW l \in Leaf, LeaseLapses(l) \/ FinishParentSettlement(l) PROVE CustodySteps
  BY <1>0, <1>6, LapseEffect, SteadySteps, ZenonT(40)
<1>7. ASSUME NEW s \in Slot, TurnFails(s) \/ Crash(s) PROVE CustodySteps
  <2>1. UNCHANGED <<job, snap, leaf, pw, wf>>
    BY <1>7, ZenonT(40) DEF TurnFails, Crash
  <2> QED
    BY <2>1, SteadySteps
<1>8. ASSUME NEW s \in Slot, TurnFinalizes(s) PROVE CustodySteps
  BY <1>8, FinalizeSteps
<1>9. ASSUME FinalizePartitionedSnapshot PROVE CustodySteps
  BY <1>9, FinalizeSteps
<1>10. ASSUME UNCHANGED <<job, snap, leaf, fence, pw, wf, slot>> PROVE CustodySteps
  BY <1>10, SteadySteps, ZenonT(40)
<1> QED
  BY <1>0, <1>1, <1>2, <1>3, <1>4, <1>5, <1>6, <1>7, <1>8, <1>9, <1>10, EndJobSteps, CancelSteps, StepCases, ZenonT(40)

\* The work rows, claims and lease tokens of the durable runners keep what
\* LeafCustody promises of the leaves: one keeper at a time that alone ends its
\* leaf, a hand-over forwards only, no running leaf left behind, nothing ended
\* after a cancellation, and parents settled from ended leaves.
THEOREM ImplementsCustody == Spec => KeepsCustody
<1>1. Init => IInv /\ Cleared
  BY InitInv DEF Init, Cleared
<1>2. IInv /\ Cleared /\ [Next]_vars => (IInv /\ Cleared)'
  BY StepInv, ClearedKept
<1>3. Init => Custody!Init
  <2> SUFFICES ASSUME Init PROVE Custody!Init
    OBVIOUS
  <2>1. \A l \in Leaf : leaf[l].status = "QUEUED" /\ pw[l].state = "NONE"
    BY DEF Init, Work
  <2>2. \A l \in Leaf : Keeper(l) = "new"
    BY <2>1, KeeperIs
  <2>3. Statuses = [l \in Leaf |-> "QUEUED"] /\ Keepers = [l \in Leaf |-> "new"]
    BY <2>1, <2>2 DEF Statuses, Keepers
  <2> QED
    BY <2>3, ZenonT(40) DEF Init, Custody!Init
<1>4. IInv /\ Cleared /\ [Next]_vars => [Custody!Next]_<<Statuses, Keepers, snap, job>>
  BY CustodyStep DEF CustodySteps
<1> QED
  BY <1>1, <1>2, <1>3, <1>4, PTL DEF Spec, KeepsCustody, Custody!Spec
=============================================================================
