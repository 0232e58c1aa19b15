--------------------------- MODULE LeafWorkSteps ----------------------------
(***************************************************************************)
(* What every step of LeafWork preserves of the types, what it does to the *)
(* fields that decide who owns a leaf, and how LeafCustody sees it.        *)
(***************************************************************************)
EXTENDS LeafWork, TLAPS

Capturing == {"turn", "failing", "raised", "exhausted"}
Ending == {"marked", "finish"}
Providing == Capturing \cup Ending \cup {"reserved"}
Pcs == Providing \cup {"idle", "resume", "read", "settled"}
PwStates == {"NONE", "WAITING", "RESUMING", "DONE"}
WfStates == {"NONE", "DRAINING", "WAITING", "RESUMING", "DONE", "ABORTED"}
WorkRows(states) == [state : states, claim : Slot \cup {None}, live : BOOLEAN, pend : BOOLEAN]

SlotRows == [pc : Pcs, leaf : Leaf \cup {None}, prior : PwStates, failed : BOOLEAN, spent : BOOLEAN]

\* The full types of the rows and of the slots' locals.  Only a finished row has
\* a receipt, a busy slot works on a leaf, and a reservation was made of a row
\* that was due.
ParentTyped ==
    /\ job \in {"RUNNING", "ENDED", "CANCELLED"} /\ snap \in {"IN_PROGRESS", "PARTIAL", "COMPLETED"}
    /\ flag \in BOOLEAN /\ faults \in 0..MaxFault
LeafTyped ==
    /\ leaf \in [Leaf -> [status : {"QUEUED", "IN_PROGRESS", "COMPLETED", "FAILED"}, lossy : BOOLEAN]]
    /\ fence \in [Leaf -> SUBSET (Slot \cup {"pw", "wf"})]
    /\ verdict \in [Leaf -> {"OPEN", "OK", "BAD"}]
PwTyped ==
    /\ pw \in [Leaf -> WorkRows(PwStates)]
    /\ \A l \in Leaf : pw[l].pend => pw[l].state = "DONE"
WfTyped ==
    /\ wf \in [Leaf -> WorkRows(WfStates)]
    /\ \A l \in Leaf : wf[l].pend => wf[l].state = "DONE"
SlotTyped ==
    /\ slot \in [Slot -> SlotRows]
    /\ \A s \in Slot : /\ slot[s].pc # "idle" => slot[s].leaf \in Leaf
                       /\ slot[s].pc = "reserved" => slot[s].prior \in {"WAITING", "RESUMING"}

Shape == ParentTyped /\ LeafTyped /\ PwTyped /\ WfTyped /\ SlotTyped
-----------------------------------------------------------------------------
(***************************************************************************)
(* Types.                                                                  *)
(***************************************************************************)
\* A work row written whole, or with new fields, is a work row.
LEMMA WorkRow ==
    ASSUME NEW S, NEW w \in WorkRows(S)
    PROVE  /\ \A st \in S : Work(st) \in WorkRows(S)
           /\ \A st \in S, c \in Slot \cup {None}, b \in BOOLEAN :
                [w EXCEPT !.state = st, !.claim = c, !.live = b] \in WorkRows(S)
           /\ \A st \in S : [w EXCEPT !.state = st] \in WorkRows(S)
           /\ \A b \in BOOLEAN : [w EXCEPT !.live = b] \in WorkRows(S) /\ [w EXCEPT !.pend = b] \in WorkRows(S)
           /\ \A b \in BOOLEAN : [w EXCEPT !.live = b].state = w.state /\ [w EXCEPT !.live = b].pend = w.pend
BY ZenonT(40) DEF Work, WorkRows

\* So is the receipt of a finished one.
LEMMA Receipt ==
    ASSUME NEW S, "DONE" \in S, NEW b \in BOOLEAN
    PROVE  /\ [Work("DONE") EXCEPT !.pend = b] \in WorkRows(S)
           /\ [Work("DONE") EXCEPT !.pend = b].state = "DONE"
BY ZenonT(40) DEF Work, WorkRows

\* One provider work row is written.
LEMMA PwWrite ==
    ASSUME PwTyped, NEW k \in Leaf, NEW w \in WorkRows(PwStates), w.pend => w.state = "DONE",
           pw' = [pw EXCEPT ![k] = w]
    PROVE  PwTyped'
BY DEF PwTyped

\* One workflow row is written.
LEMMA WfWrite ==
    ASSUME WfTyped, NEW k \in Leaf, NEW w \in WorkRows(WfStates), w.pend => w.state = "DONE",
           wf' = [wf EXCEPT ![k] = w]
    PROVE  WfTyped'
BY DEF WfTyped

\* One slot moves on.
LEMMA SlotWrite ==
    ASSUME SlotTyped, NEW s \in Slot, NEW r \in SlotRows, r.pc # "idle" => r.leaf \in Leaf,
           r.pc = "reserved" => r.prior \in {"WAITING", "RESUMING"}, slot' = [slot EXCEPT ![s] = r]
    PROVE  SlotTyped'
BY DEF SlotTyped

\* A busy slot's leaf, and what its rows are.
LEMMA BusyLeaf ==
    ASSUME Shape, NEW s \in Slot, slot[s].pc # "idle"
    PROVE  /\ slot[s].leaf \in Leaf
           /\ pw[slot[s].leaf] \in WorkRows(PwStates) /\ wf[slot[s].leaf] \in WorkRows(WfStates)
BY SMTT(30) DEF Shape, PwTyped, WfTyped, SlotTyped

\* The parents and the bound on faults.
LEMMA ParentTypedKept == Shape /\ [Next]_vars => ParentTyped'
<1> SUFFICES ASSUME Shape, [Next]_vars PROVE ParentTyped'
  OBVIOUS
<1> USE LeafAssumption DEF Shape, ParentTyped
<1>1. CASE UNCHANGED <<job, snap, flag, faults>>
  BY <1>1
<1>2. ASSUME NEW s \in Slot, AdmitReserved(s) PROVE ParentTyped'
  <2>1. UNCHANGED <<job, snap, flag>> /\ (faults' = faults \/ Fault)
    BY <1>2, ZenonT(40) DEF AdmitReserved
  <2> QED
    BY <2>1 DEF Fault
<1>3. ASSUME NEW s \in Slot, TurnFinalizes(s) PROVE ParentTyped'
  BY <1>3 DEF TurnFinalizes, Finalized, Idle
<1>4. ASSUME NEW s \in Slot, FailExhaustedWork(s) PROVE ParentTyped'
  BY <1>4, ZenonT(40) DEF FailExhaustedWork, EndSlot, Idle, Work, CopyAborted, CopyFailed
<1>5. ASSUME NEW s \in Slot, TurnFails(s) PROVE ParentTyped'
  BY <1>5 DEF TurnFails, Fault
<1>6. ASSUME NEW s \in Slot, RequeuePartitionForRetry(s) PROVE ParentTyped'
  BY <1>6 DEF RequeuePartitionForRetry, Fault, Restamped
<1>7. ASSUME NEW s \in Slot, SuspendCurrentWork(s) PROVE ParentTyped'
  BY <1>7 DEF SuspendCurrentWork, Fault, EndSlot, Idle, Work, Restamped
<1>8. ASSUME NEW s \in Slot, Crash(s) PROVE ParentTyped'
  BY <1>8 DEF Crash, Fault, EndSlot, Idle
<1>9. ASSUME NEW s \in Slot, NEW l \in Leaf, BeginResume(s, l) PROVE ParentTyped'
  BY <1>9, ZenonT(40) DEF BeginResume, Restamped, Work, Idle
<1>10. ASSUME NEW l \in Leaf, Abandon(l) PROVE ParentTyped'
  BY <1>10, ZenonT(40) DEF Abandon, CopyAborted, CopyFailed, Work
<1>11. ASSUME NEW l \in Leaf, LeaseLapses(l) PROVE ParentTyped'
  BY <1>11 DEF LeaseLapses, Fault
<1>12. ASSUME FinalizePartitionedSnapshot PROVE ParentTyped'
  BY <1>12 DEF FinalizePartitionedSnapshot, Finalized
<1>13. ASSUME UpdateJobStatus PROVE ParentTyped'
  BY <1>13 DEF UpdateJobStatus
<1>14. ASSUME CancelJob PROVE ParentTyped'
  BY <1>14 DEF CancelJob, Work
<1> QED
  BY ZenonT(40), <1>1, <1>2, <1>3, <1>4, <1>5, <1>6, <1>7, <1>8, <1>9, <1>10, <1>11, <1>12, <1>13, <1>14
  DEF Next, Turn, Resume, Settle, vars, DeferCurrentCopy, SealCurrentCopy, MarkPartitionTerminal, FinishWork, ReadCopyOutcome, ResumeMarksPartition, FinishResume, ReserveDueWork, EnsureWork, CopyVerdict, DeadLetter, FinishParentSettlement

\* The leaves.
LEMMA LeafTypedKept == Shape /\ [Next]_vars => LeafTyped'
<1> SUFFICES ASSUME Shape, [Next]_vars PROVE LeafTyped'
  OBVIOUS
<1>1. CASE UNCHANGED <<leaf, fence, verdict>>
  BY <1>1 DEF Shape, LeafTyped
<1>2. ASSUME NEW s \in Slot, AdmitReserved(s) PROVE LeafTyped'
  <2>1. slot[s].leaf \in Leaf
    BY <1>2, BusyLeaf, ZenonT(40) DEF AdmitReserved
  <2>2. \/ UNCHANGED leaf
           \/ leaf' = [leaf EXCEPT ![slot[s].leaf].status = "IN_PROGRESS"]
    BY <1>2 DEF AdmitReserved
  <2>3. \/ UNCHANGED fence
           \/ \E S \in {{"pw", s}, {"pw", s, "wf"}} : fence' = Restamped(slot[s].leaf, S)
    BY <1>2, ZenonT(40) DEF AdmitReserved
  <2>4. UNCHANGED verdict
    BY <1>2, ZenonT(40) DEF AdmitReserved
  <2>5. leaf' \in [Leaf -> [status : {"QUEUED", "IN_PROGRESS", "COMPLETED", "FAILED"}, lossy : BOOLEAN]]
    BY <2>1, <2>2 DEF Shape, LeafTyped, Marked, Restamped, SlotTyped, SlotRows
  <2>6. fence' \in [Leaf -> SUBSET (Slot \cup {"pw", "wf"})]
    BY <2>1, <2>3 DEF Shape, LeafTyped, Marked, Restamped, SlotTyped, SlotRows
  <2>7. verdict' \in [Leaf -> {"OPEN", "OK", "BAD"}]
    BY <2>1, <2>4 DEF Shape, LeafTyped, Marked, Restamped, SlotTyped, SlotRows
  <2> QED
    BY <2>5, <2>6, <2>7 DEF LeafTyped
<1>3. ASSUME NEW s \in Slot, DeferCurrentCopy(s) PROVE LeafTyped'
  BY <1>3 DEF DeferCurrentCopy, Restamped, Work, Shape, LeafTyped, SlotTyped
<1>4. ASSUME NEW s \in Slot, SealCurrentCopy(s) PROVE LeafTyped'
  <2>1. slot[s].leaf \in Leaf
    BY <1>4, BusyLeaf DEF SealCurrentCopy
  <2>2. UNCHANGED leaf
    BY <1>4 DEF SealCurrentCopy
  <2>3. \/ UNCHANGED fence
           \/ fence' = Restamped(slot[s].leaf, {"wf"})
    BY <1>4, ZenonT(40) DEF SealCurrentCopy
  <2>4. UNCHANGED verdict
    BY <1>4 DEF SealCurrentCopy
  <2>5. leaf' \in [Leaf -> [status : {"QUEUED", "IN_PROGRESS", "COMPLETED", "FAILED"}, lossy : BOOLEAN]]
    BY <2>1, <2>2 DEF Shape, LeafTyped, Marked, Restamped, SlotTyped, SlotRows
  <2>6. fence' \in [Leaf -> SUBSET (Slot \cup {"pw", "wf"})]
    BY <2>1, <2>3 DEF Shape, LeafTyped, Marked, Restamped, SlotTyped, SlotRows
  <2>7. verdict' \in [Leaf -> {"OPEN", "OK", "BAD"}]
    BY <2>1, <2>4 DEF Shape, LeafTyped, Marked, Restamped, SlotTyped, SlotRows
  <2> QED
    BY <2>5, <2>6, <2>7 DEF LeafTyped
<1>5. ASSUME NEW s \in Slot, MarkPartitionTerminal(s) PROVE LeafTyped'
  BY <1>5 DEF MarkPartitionTerminal, Marked, Shape, LeafTyped, SlotTyped
<1>6. ASSUME NEW s \in Slot, FailExhaustedWork(s) PROVE LeafTyped'
  <2>1. slot[s].leaf \in Leaf
    BY <1>6, BusyLeaf DEF FailExhaustedWork
  <2>2. \/ UNCHANGED leaf
           \/ leaf' = [leaf EXCEPT ![slot[s].leaf].status = "FAILED"]
    BY <1>6, ZenonT(40) DEF FailExhaustedWork, CopyAborted
  <2>3. UNCHANGED fence
    BY <1>6 DEF FailExhaustedWork, CopyAborted
  <2>4. \/ UNCHANGED verdict
           \/ \E v \in {"BAD", verdict[slot[s].leaf]} : verdict' = [verdict EXCEPT ![slot[s].leaf] = v]
    BY <1>6, ZenonT(40) DEF FailExhaustedWork, CopyAborted
  <2>5. leaf' \in [Leaf -> [status : {"QUEUED", "IN_PROGRESS", "COMPLETED", "FAILED"}, lossy : BOOLEAN]]
    BY <2>1, <2>2 DEF Shape, LeafTyped, Marked, Restamped, SlotTyped, SlotRows
  <2>6. fence' \in [Leaf -> SUBSET (Slot \cup {"pw", "wf"})]
    BY <2>1, <2>3 DEF Shape, LeafTyped, Marked, Restamped, SlotTyped, SlotRows
  <2>7. verdict' \in [Leaf -> {"OPEN", "OK", "BAD"}]
    BY <2>1, <2>4 DEF Shape, LeafTyped, Marked, Restamped, SlotTyped, SlotRows
  <2> QED
    BY <2>5, <2>6, <2>7 DEF LeafTyped
<1>7. ASSUME NEW s \in Slot, RequeuePartitionForRetry(s) PROVE LeafTyped'
  <2>1. slot[s].leaf \in Leaf
    BY <1>7, BusyLeaf DEF RequeuePartitionForRetry
  <2>2. \/ UNCHANGED leaf
           \/ leaf' = [leaf EXCEPT ![slot[s].leaf].status = "QUEUED"]
    BY <1>7 DEF RequeuePartitionForRetry
  <2>3. \/ UNCHANGED fence
           \/ fence' = Restamped(slot[s].leaf, {})
    BY <1>7 DEF RequeuePartitionForRetry
  <2>4. UNCHANGED verdict
    BY <1>7, ZenonT(40) DEF RequeuePartitionForRetry
  <2>5. leaf' \in [Leaf -> [status : {"QUEUED", "IN_PROGRESS", "COMPLETED", "FAILED"}, lossy : BOOLEAN]]
    BY <2>1, <2>2 DEF Shape, LeafTyped, Marked, Restamped, SlotTyped, SlotRows
  <2>6. fence' \in [Leaf -> SUBSET (Slot \cup {"pw", "wf"})]
    BY <2>1, <2>3 DEF Shape, LeafTyped, Marked, Restamped, SlotTyped, SlotRows
  <2>7. verdict' \in [Leaf -> {"OPEN", "OK", "BAD"}]
    BY <2>1, <2>4 DEF Shape, LeafTyped, Marked, Restamped, SlotTyped, SlotRows
  <2> QED
    BY <2>5, <2>6, <2>7 DEF LeafTyped
<1>8. ASSUME NEW s \in Slot, SuspendCurrentWork(s) PROVE LeafTyped'
  <2>1. slot[s].leaf \in Leaf
    BY <1>8, BusyLeaf DEF SuspendCurrentWork
  <2>2. UNCHANGED leaf
    BY <1>8 DEF SuspendCurrentWork
  <2>3. \/ UNCHANGED fence
           \/ fence' = Restamped(slot[s].leaf, {"pw"})
    BY <1>8, ZenonT(40) DEF SuspendCurrentWork
  <2>4. UNCHANGED verdict
    BY <1>8 DEF SuspendCurrentWork
  <2>5. leaf' \in [Leaf -> [status : {"QUEUED", "IN_PROGRESS", "COMPLETED", "FAILED"}, lossy : BOOLEAN]]
    BY <2>1, <2>2 DEF Shape, LeafTyped, Marked, Restamped, SlotTyped, SlotRows
  <2>6. fence' \in [Leaf -> SUBSET (Slot \cup {"pw", "wf"})]
    BY <2>1, <2>3 DEF Shape, LeafTyped, Marked, Restamped, SlotTyped, SlotRows
  <2>7. verdict' \in [Leaf -> {"OPEN", "OK", "BAD"}]
    BY <2>1, <2>4 DEF Shape, LeafTyped, Marked, Restamped, SlotTyped, SlotRows
  <2> QED
    BY <2>5, <2>6, <2>7 DEF LeafTyped
<1>9. ASSUME NEW s \in Slot, ResumeMarksPartition(s) PROVE LeafTyped'
  <2>1. slot[s].leaf \in Leaf /\ slot[s].failed \in BOOLEAN
    BY <1>9, BusyLeaf DEF ResumeMarksPartition, Shape, SlotTyped, SlotRows
  <2>2. UNCHANGED <<fence, verdict>>
    BY <1>9 DEF ResumeMarksPartition
  <2>3. CASE UNCHANGED leaf
    BY <2>2, <2>3 DEF Shape, LeafTyped
  <2>4. ASSUME NEW st \in {"COMPLETED", "FAILED"}, leaf' = Marked(slot[s].leaf, st, slot[s].failed)
        PROVE  LeafTyped'
    BY <2>1, <2>2, <2>4 DEF Shape, LeafTyped, Marked
  <2>5. CASE leaf' = [leaf EXCEPT ![slot[s].leaf].status = "QUEUED"]
    BY <2>1, <2>2, <2>5 DEF Shape, LeafTyped
  <2> QED
    BY <1>9, <2>3, <2>4, <2>5 DEF ResumeMarksPartition
<1>10. ASSUME NEW s \in Slot, NEW l \in Leaf, BeginResume(s, l) PROVE LeafTyped'
  BY <1>10 DEF BeginResume, Restamped, Work, Idle, Shape, LeafTyped, SlotTyped
<1>11. ASSUME NEW l \in Leaf, EnsureWork(l) PROVE LeafTyped'
  BY <1>11 DEF EnsureWork, Restamped, Work, Shape, LeafTyped, SlotTyped
<1>12. ASSUME NEW l \in Leaf, CopyVerdict(l) PROVE LeafTyped'
  BY <1>12 DEF CopyVerdict, Shape, LeafTyped, SlotTyped
<1>13. ASSUME NEW l \in Leaf, Abandon(l) PROVE LeafTyped'
  BY <1>13 DEF Abandon, CopyAborted, CopyFailed, Work, Shape, LeafTyped, SlotTyped
<1>14. ASSUME NEW l \in Leaf, DeadLetter(l) PROVE LeafTyped'
  BY <1>14 DEF DeadLetter, Restamped, Shape, LeafTyped, SlotTyped
<1>15. ASSUME CancelJob PROVE LeafTyped'
  BY <1>15, SMTT(30) DEF CancelJob, Work, Shape, LeafTyped, SlotTyped
<1> QED
  BY <1>1, <1>2, <1>3, <1>4, <1>5, <1>6, <1>7, <1>8, <1>9, <1>10, <1>11, <1>12, <1>13, <1>14, <1>15, ZenonT(40)
  DEF Next, Turn, Resume, Settle, vars, TurnFinalizes, FinishWork, TurnFails, ReadCopyOutcome, FinishResume, Crash, ReserveDueWork, LeaseLapses, FinishParentSettlement, FinalizePartitionedSnapshot, UpdateJobStatus

\* The provider work.
LEMMA PwTypedKept == Shape /\ [Next]_vars => PwTyped'
<1> SUFFICES ASSUME Shape, [Next]_vars PROVE PwTyped'
  OBVIOUS
<1>1. CASE UNCHANGED pw
  BY <1>1 DEF Shape, PwTyped
<1>2. ASSUME NEW s \in Slot, AdmitReserved(s) PROVE PwTyped'
  <2>1. slot[s].leaf \in Leaf /\ pw[slot[s].leaf] \in WorkRows(PwStates)
    BY <1>2, BusyLeaf, ZenonT(40) DEF AdmitReserved
  <2>2. slot[s].prior \in {"WAITING", "RESUMING"}
    BY <1>2 DEF AdmitReserved, Shape, SlotTyped
  <2>3. CASE UNCHANGED pw
    BY <2>3 DEF Shape, PwTyped
  <2>4. CASE /\ pw' = [pw EXCEPT ![slot[s].leaf] = Unreserved(slot[s].leaf, slot[s].prior)]
             /\ pw[slot[s].leaf].state = "RESUMING"
    <3>1. ~pw[slot[s].leaf].pend
      BY <2>1, <2>4 DEF Shape, PwTyped
    <3>2. /\ Unreserved(slot[s].leaf, slot[s].prior) \in WorkRows(PwStates)
          /\ ~Unreserved(slot[s].leaf, slot[s].prior).pend
      BY <2>1, <2>2, <3>1, WorkRow, ZenonT(40) DEF Unreserved, PwStates, WorkRows
    <3> QED
      BY <2>1, <2>4, <3>2, PwWrite, ZenonT(40) DEF Shape
  <2>5. ASSUME NEW b \in BOOLEAN, pw' = [pw EXCEPT ![slot[s].leaf] = [Work("DONE") EXCEPT !.pend = b]]
        PROVE  PwTyped'
    BY <2>1, <2>5, Receipt, PwWrite, ZenonT(40) DEF Shape, PwStates
  <2> QED
    BY <1>2, <2>3, <2>4, <2>5, ZenonT(40) DEF AdmitReserved
<1>3. ASSUME NEW s \in Slot, SealCurrentCopy(s) PROVE PwTyped'
  <2>1. slot[s].leaf \in Leaf /\ pw[slot[s].leaf] \in WorkRows(PwStates)
    BY <1>3, BusyLeaf DEF SealCurrentCopy
  <2>2. \/ UNCHANGED pw
           \/ pw' = [pw EXCEPT ![slot[s].leaf] = Work("DONE")]
    BY <1>3, ZenonT(40) DEF SealCurrentCopy
  <2>3. Work("DONE") \in WorkRows(PwStates) /\ (Work("DONE").pend => Work("DONE").state = "DONE")
    BY WorkRow, <2>1, ZenonT(40) DEF Work, PwStates
  <2> QED
    BY <2>1, <2>2, <2>3, PwWrite, ZenonT(40) DEF Shape, PwTyped
<1>4. ASSUME NEW s \in Slot, FinishWork(s) PROVE PwTyped'
  <2>1. slot[s].leaf \in Leaf /\ pw[slot[s].leaf] \in WorkRows(PwStates)
    BY <1>4, BusyLeaf DEF FinishWork
  <2>2. \/ UNCHANGED pw
           \/ pw' = [pw EXCEPT ![slot[s].leaf] = [Work("DONE") EXCEPT !.pend = TRUE]]
    BY <1>4 DEF FinishWork
  <2>3. [Work("DONE") EXCEPT !.pend = TRUE] \in WorkRows(PwStates) /\ ([Work("DONE") EXCEPT !.pend = TRUE].pend => [Work("DONE") EXCEPT !.pend = TRUE].state = "DONE")
    BY Receipt, ZenonT(40) DEF PwStates
  <2> QED
    BY <2>1, <2>2, <2>3, PwWrite, ZenonT(40) DEF Shape, PwTyped
<1>5. ASSUME NEW s \in Slot, FailExhaustedWork(s) PROVE PwTyped'
  <2>1. slot[s].leaf \in Leaf /\ pw[slot[s].leaf] \in WorkRows(PwStates)
    BY <1>5, BusyLeaf DEF FailExhaustedWork
  <2>2. \/ UNCHANGED pw
           \/ pw' = [pw EXCEPT ![slot[s].leaf] = [Work("DONE") EXCEPT !.pend = TRUE]]
    BY <1>5, ZenonT(40) DEF FailExhaustedWork
  <2>3. [Work("DONE") EXCEPT !.pend = TRUE] \in WorkRows(PwStates) /\ ([Work("DONE") EXCEPT !.pend = TRUE].pend => [Work("DONE") EXCEPT !.pend = TRUE].state = "DONE")
    BY Receipt, ZenonT(40) DEF PwStates
  <2> QED
    BY <2>1, <2>2, <2>3, PwWrite, ZenonT(40) DEF Shape, PwTyped
<1>6. ASSUME NEW s \in Slot, SuspendCurrentWork(s) PROVE PwTyped'
  <2>1. slot[s].leaf \in Leaf /\ pw[slot[s].leaf] \in WorkRows(PwStates)
    BY <1>6, BusyLeaf DEF SuspendCurrentWork
  <2>2. \/ UNCHANGED pw
           \/ pw' = [pw EXCEPT ![slot[s].leaf] = Work("WAITING")]
    BY <1>6, ZenonT(40) DEF SuspendCurrentWork
  <2>3. Work("WAITING") \in WorkRows(PwStates) /\ (Work("WAITING").pend => Work("WAITING").state = "DONE")
    BY WorkRow, <2>1, ZenonT(40) DEF Work, PwStates
  <2> QED
    BY <2>1, <2>2, <2>3, PwWrite, ZenonT(40) DEF Shape, PwTyped
<1>7. ASSUME NEW s \in Slot, NEW l \in Leaf, ReserveDueWork(s, l) PROVE PwTyped'
  <2>1. l \in Leaf /\ pw[l] \in WorkRows(PwStates)
    BY <1>7 DEF Shape, PwTyped
  <2>2. \/ UNCHANGED pw
           \/ pw' = [pw EXCEPT ![l] = [pw[l] EXCEPT !.state = "RESUMING", !.claim = s, !.live = TRUE]]
    BY <1>7, ZenonT(40) DEF ReserveDueWork
  <2>3. [pw[l] EXCEPT !.state = "RESUMING", !.claim = s, !.live = TRUE] \in WorkRows(PwStates) /\ ([pw[l] EXCEPT !.state = "RESUMING", !.claim = s, !.live = TRUE].pend => [pw[l] EXCEPT !.state = "RESUMING", !.claim = s, !.live = TRUE].state = "DONE")
    BY WorkRow, <2>1, <1>7, ZenonT(40) DEF Shape, PwTyped, PwStates, WorkRows, ReserveDueWork
  <2> QED
    BY <2>1, <2>2, <2>3, PwWrite, ZenonT(40) DEF Shape, PwTyped
<1>8. ASSUME NEW l \in Leaf, EnsureWork(l) PROVE PwTyped'
  BY <1>8 DEF EnsureWork, Restamped, Work, Shape, PwTyped, WorkRows, PwStates
<1>9. ASSUME NEW l \in Leaf, LeaseLapses(l) PROVE PwTyped'
  <2>1. l \in Leaf /\ pw[l] \in WorkRows(PwStates)
    BY <1>9 DEF Shape, PwTyped
  <2>2. \/ UNCHANGED pw
           \/ pw' = [pw EXCEPT ![l] = [pw[l] EXCEPT !.live = FALSE]]
    BY <1>9 DEF LeaseLapses
  <2>3. [pw[l] EXCEPT !.live = FALSE] \in WorkRows(PwStates) /\ ([pw[l] EXCEPT !.live = FALSE].pend => [pw[l] EXCEPT !.live = FALSE].state = "DONE")
    BY WorkRow, <2>1, ZenonT(40) DEF Shape, PwTyped
  <2> QED
    BY <2>1, <2>2, <2>3, PwWrite, ZenonT(40) DEF Shape, PwTyped
<1>10. ASSUME NEW l \in Leaf, FinishParentSettlement(l) PROVE PwTyped'
  <2>1. l \in Leaf /\ pw[l] \in WorkRows(PwStates)
    BY <1>10 DEF Shape, PwTyped
  <2>2. \/ UNCHANGED pw
           \/ pw' = [pw EXCEPT ![l] = [pw[l] EXCEPT !.pend = FALSE]]
    BY <1>10 DEF FinishParentSettlement
  <2>3. [pw[l] EXCEPT !.pend = FALSE] \in WorkRows(PwStates) /\ ([pw[l] EXCEPT !.pend = FALSE].pend => [pw[l] EXCEPT !.pend = FALSE].state = "DONE")
    BY ZenonT(40), WorkRow, <2>1, <1>10 DEF Shape, PwTyped, PwStates, WorkRows, FinishParentSettlement
  <2> QED
    BY <2>1, <2>2, <2>3, PwWrite, ZenonT(40) DEF Shape, PwTyped
<1>11. ASSUME CancelJob PROVE PwTyped'
  BY <1>11 DEF CancelJob, Work, Shape, PwTyped, WorkRows, PwStates
<1> QED
  BY ZenonT(40), <1>1, <1>2, <1>3, <1>4, <1>5, <1>6, <1>7, <1>8, <1>9, <1>10, <1>11
  DEF Next, Turn, Resume, Settle, vars, DeferCurrentCopy, MarkPartitionTerminal, TurnFinalizes, TurnFails, RequeuePartitionForRetry, ReadCopyOutcome, ResumeMarksPartition, FinishResume, Crash, BeginResume, CopyVerdict, Abandon, DeadLetter, FinalizePartitionedSnapshot, UpdateJobStatus

\* The copy workflows.
LEMMA WfTypedKept == Shape /\ [Next]_vars => WfTyped'
<1> SUFFICES ASSUME Shape, [Next]_vars PROVE WfTyped'
  OBVIOUS
<1>1. CASE UNCHANGED wf
  BY <1>1 DEF Shape, WfTyped
<1>2. ASSUME NEW s \in Slot, DeferCurrentCopy(s) PROVE WfTyped'
  BY <1>2 DEF DeferCurrentCopy, Restamped, Work, Shape, WfTyped, SlotTyped, WorkRows, WfStates
<1>3. ASSUME NEW s \in Slot, SealCurrentCopy(s) PROVE WfTyped'
  <2>1. slot[s].leaf \in Leaf /\ wf[slot[s].leaf] \in WorkRows(WfStates)
    BY <1>3, BusyLeaf DEF SealCurrentCopy
  <2>2. CASE UNCHANGED wf
    BY <2>2 DEF Shape, WfTyped
  <2>3. CASE /\ wf' = [wf EXCEPT ![slot[s].leaf] = [wf[slot[s].leaf] EXCEPT !.state = "WAITING"]]
             /\ wf[slot[s].leaf].state = "DRAINING"
    <3>1. ~wf[slot[s].leaf].pend
      BY <2>1, <2>3 DEF Shape, WfTyped
    <3>2. /\ [wf[slot[s].leaf] EXCEPT !.state = "WAITING"] \in WorkRows(WfStates)
          /\ ~[wf[slot[s].leaf] EXCEPT !.state = "WAITING"].pend
      BY <2>1, <3>1, WorkRow, ZenonT(40) DEF WfStates, WorkRows
    <3> QED
      BY <2>1, <2>3, <3>2, WfWrite, ZenonT(40) DEF Shape
  <2> QED
    BY <1>3, <2>2, <2>3, ZenonT(40) DEF SealCurrentCopy
<1>4. ASSUME NEW s \in Slot, FailExhaustedWork(s) PROVE WfTyped'
  <2>1. slot[s].leaf \in Leaf /\ wf[slot[s].leaf] \in WorkRows(WfStates)
    BY <1>4, BusyLeaf DEF FailExhaustedWork
  <2>2. \/ UNCHANGED wf
           \/ wf' = [wf EXCEPT ![slot[s].leaf] = Work("ABORTED")]
    BY <1>4, ZenonT(40) DEF FailExhaustedWork, CopyAborted
  <2>3. Work("ABORTED") \in WorkRows(WfStates) /\ (Work("ABORTED").pend => Work("ABORTED").state = "DONE")
    BY WorkRow, <2>1, ZenonT(40) DEF Work, WfStates
  <2> QED
    BY <2>1, <2>2, <2>3, WfWrite, ZenonT(40) DEF Shape, WfTyped
<1>5. ASSUME NEW s \in Slot, ReadCopyOutcome(s) PROVE WfTyped'
  <2>1. slot[s].leaf \in Leaf /\ wf[slot[s].leaf] \in WorkRows(WfStates)
    BY <1>5, BusyLeaf DEF ReadCopyOutcome
  <2>2. \/ UNCHANGED wf
           \/ wf' = [wf EXCEPT ![slot[s].leaf] = [wf[slot[s].leaf] EXCEPT !.live = TRUE]]
    BY <1>5 DEF ReadCopyOutcome
  <2>3. [wf[slot[s].leaf] EXCEPT !.live = TRUE] \in WorkRows(WfStates) /\ ([wf[slot[s].leaf] EXCEPT !.live = TRUE].pend => [wf[slot[s].leaf] EXCEPT !.live = TRUE].state = "DONE")
    BY WorkRow, <2>1, ZenonT(40) DEF Shape, WfTyped
  <2> QED
    BY <2>1, <2>2, <2>3, WfWrite, ZenonT(40) DEF Shape, WfTyped
<1>6. ASSUME NEW s \in Slot, ResumeMarksPartition(s) PROVE WfTyped'
  <2>1. slot[s].leaf \in Leaf /\ wf[slot[s].leaf] \in WorkRows(WfStates)
    BY <1>6, BusyLeaf DEF ResumeMarksPartition
  <2>2. \/ UNCHANGED wf
           \/ wf' = [wf EXCEPT ![slot[s].leaf] = [wf[slot[s].leaf] EXCEPT !.live = TRUE]]
    BY <1>6 DEF ResumeMarksPartition
  <2>3. [wf[slot[s].leaf] EXCEPT !.live = TRUE] \in WorkRows(WfStates) /\ ([wf[slot[s].leaf] EXCEPT !.live = TRUE].pend => [wf[slot[s].leaf] EXCEPT !.live = TRUE].state = "DONE")
    BY WorkRow, <2>1, ZenonT(40) DEF Shape, WfTyped
  <2> QED
    BY <2>1, <2>2, <2>3, WfWrite, ZenonT(40) DEF Shape, WfTyped
<1>7. ASSUME NEW s \in Slot, FinishResume(s) PROVE WfTyped'
  BY <1>7, ZenonT(40) DEF FinishResume, EndSlot, Idle, Work, Shape, WfTyped, SlotTyped, WorkRows, WfStates
<1>8. ASSUME NEW s \in Slot, NEW l \in Leaf, BeginResume(s, l) PROVE WfTyped'
  <2>1. l \in Leaf /\ wf[l] \in WorkRows(WfStates)
    BY <1>8 DEF Shape, WfTyped
  <2>2. \/ UNCHANGED wf
           \/ wf' = [wf EXCEPT ![l] = [Work("DONE") EXCEPT !.pend = TRUE]]
           \/ wf' = [wf EXCEPT ![l] = Work("ABORTED")]
           \/ wf' = [wf EXCEPT ![l] = [wf[l] EXCEPT !.state = "RESUMING", !.claim = s, !.live = TRUE]]
    BY <1>8 DEF BeginResume
  <2>3. [Work("DONE") EXCEPT !.pend = TRUE] \in WorkRows(WfStates) /\ ([Work("DONE") EXCEPT !.pend = TRUE].pend => [Work("DONE") EXCEPT !.pend = TRUE].state = "DONE")
    BY Receipt, ZenonT(40) DEF WfStates
  <2>4. Work("ABORTED") \in WorkRows(WfStates) /\ (Work("ABORTED").pend => Work("ABORTED").state = "DONE")
    BY WorkRow, <2>1, ZenonT(40) DEF Work, WfStates
  <2>5. [wf[l] EXCEPT !.state = "RESUMING", !.claim = s, !.live = TRUE] \in WorkRows(WfStates) /\ ([wf[l] EXCEPT !.state = "RESUMING", !.claim = s, !.live = TRUE].pend => [wf[l] EXCEPT !.state = "RESUMING", !.claim = s, !.live = TRUE].state = "DONE")
    BY WorkRow, <2>1, <1>8, ZenonT(40) DEF Shape, WfTyped, WfStates, WorkRows, BeginResume
  <2> QED
    BY <2>1, <2>2, <2>3, <2>4, <2>5, WfWrite, ZenonT(40) DEF Shape, WfTyped
<1>9. ASSUME NEW l \in Leaf, Abandon(l) PROVE WfTyped'
  BY <1>9 DEF Abandon, CopyAborted, CopyFailed, Work, Shape, WfTyped, SlotTyped, WorkRows, WfStates
<1>10. ASSUME NEW l \in Leaf, LeaseLapses(l) PROVE WfTyped'
  <2>1. l \in Leaf /\ wf[l] \in WorkRows(WfStates)
    BY <1>10 DEF Shape, WfTyped
  <2>2. \/ UNCHANGED wf
           \/ wf' = [wf EXCEPT ![l] = [wf[l] EXCEPT !.live = FALSE]]
    BY <1>10 DEF LeaseLapses
  <2>3. [wf[l] EXCEPT !.live = FALSE] \in WorkRows(WfStates) /\ ([wf[l] EXCEPT !.live = FALSE].pend => [wf[l] EXCEPT !.live = FALSE].state = "DONE")
    BY WorkRow, <2>1, ZenonT(40) DEF Shape, WfTyped
  <2> QED
    BY <2>1, <2>2, <2>3, WfWrite, ZenonT(40) DEF Shape, WfTyped
<1>11. ASSUME NEW l \in Leaf, FinishParentSettlement(l) PROVE WfTyped'
  <2>1. l \in Leaf /\ wf[l] \in WorkRows(WfStates)
    BY <1>11 DEF Shape, WfTyped
  <2>2. \/ UNCHANGED wf
           \/ wf' = [wf EXCEPT ![l] = [wf[l] EXCEPT !.pend = FALSE]]
    BY <1>11 DEF FinishParentSettlement
  <2>3. [wf[l] EXCEPT !.pend = FALSE] \in WorkRows(WfStates) /\ ([wf[l] EXCEPT !.pend = FALSE].pend => [wf[l] EXCEPT !.pend = FALSE].state = "DONE")
    BY WorkRow, <2>1, <1>11, ZenonT(40) DEF Shape, WfTyped, WfStates, WorkRows, FinishParentSettlement
  <2> QED
    BY <2>1, <2>2, <2>3, WfWrite, ZenonT(40) DEF Shape, WfTyped
<1>12. ASSUME CancelJob PROVE WfTyped'
  BY <1>12 DEF CancelJob, Work, Shape, WfTyped, SlotTyped, WorkRows, WfStates
<1> QED
  BY ZenonT(40), <1>1, <1>2, <1>3, <1>4, <1>5, <1>6, <1>7, <1>8, <1>9, <1>10, <1>11, <1>12
  DEF Next, Turn, Resume, Settle, vars, AdmitReserved, MarkPartitionTerminal, TurnFinalizes, FinishWork, TurnFails, RequeuePartitionForRetry, SuspendCurrentWork, Crash, ReserveDueWork, EnsureWork, CopyVerdict, DeadLetter, FinalizePartitionedSnapshot, UpdateJobStatus

\* The slots.
LEMMA SlotTypedKept == Shape /\ [Next]_vars => SlotTyped'
<1> SUFFICES ASSUME Shape, [Next]_vars PROVE SlotTyped'
  OBVIOUS
<1>1. CASE UNCHANGED slot
  BY <1>1 DEF Shape, SlotTyped
<1>2. ASSUME NEW s \in Slot, AdmitReserved(s) PROVE SlotTyped'
  <2>1. slot[s] \in SlotRows /\ slot[s].pc # "idle" /\ slot[s].leaf \in Leaf
    BY <1>2, BusyLeaf, ZenonT(40) DEF AdmitReserved, Shape, SlotTyped
  <2>2. CASE slot' = [slot EXCEPT ![s] = Idle]
    BY <2>2, SlotWrite, ZenonT(40) DEF Shape, SlotRows, Pcs, Providing, Capturing, Ending, PwStates, Idle
  <2>3. CASE slot' = [slot EXCEPT ![s] = [slot[s] EXCEPT !.pc = "turn"]]
    <3>1. [slot[s] EXCEPT !.pc = "turn"] \in SlotRows /\ [slot[s] EXCEPT !.pc = "turn"].leaf \in Leaf /\ [slot[s] EXCEPT !.pc = "turn"].pc # "reserved"
      BY <2>1 DEF SlotRows, Pcs, Providing, Capturing, Ending, PwStates, Idle
    <3> QED
      BY <2>3, <3>1, SlotWrite, ZenonT(40) DEF Shape
  <2> QED
    BY <1>2, <2>2, <2>3, ZenonT(40) DEF AdmitReserved, EndSlot
<1>3. ASSUME NEW s \in Slot, DeferCurrentCopy(s) PROVE SlotTyped'
  BY <1>3 DEF DeferCurrentCopy, Restamped, Work, Shape, SlotTyped, SlotRows, Pcs, Providing, Capturing, Ending, PwStates
<1>4. ASSUME NEW s \in Slot, SealCurrentCopy(s) PROVE SlotTyped'
  <2>1. slot[s] \in SlotRows /\ slot[s].pc # "idle" /\ slot[s].leaf \in Leaf
    BY <1>4, BusyLeaf DEF SealCurrentCopy, Shape, SlotTyped
  <2>2. CASE slot' = [slot EXCEPT ![s] = Idle]
    BY <2>2, SlotWrite, ZenonT(40) DEF Shape, SlotRows, Pcs, Providing, Capturing, Ending, PwStates, Idle
  <2>3. CASE slot' = [slot EXCEPT ![s] = [slot[s] EXCEPT !.pc = "failing"]]
    <3>1. [slot[s] EXCEPT !.pc = "failing"] \in SlotRows /\ [slot[s] EXCEPT !.pc = "failing"].leaf \in Leaf /\ [slot[s] EXCEPT !.pc = "failing"].pc # "reserved"
      BY <2>1 DEF SlotRows, Pcs, Providing, Capturing, Ending, PwStates, Idle
    <3> QED
      BY <2>3, <3>1, SlotWrite, ZenonT(40) DEF Shape
  <2> QED
    BY <1>4, <2>2, <2>3, ZenonT(40) DEF SealCurrentCopy, EndSlot
<1>5. ASSUME NEW s \in Slot, MarkPartitionTerminal(s) PROVE SlotTyped'
  BY <1>5 DEF MarkPartitionTerminal, Marked, Shape, SlotTyped, SlotRows, Pcs, Providing, Capturing, Ending, PwStates
<1>6. ASSUME NEW s \in Slot, TurnFinalizes(s) PROVE SlotTyped'
  BY <1>6 DEF TurnFinalizes, Finalized, Idle, Shape, SlotTyped, SlotRows, Pcs, Providing, Capturing, Ending, PwStates
<1>7. ASSUME NEW s \in Slot, FinishWork(s) PROVE SlotTyped'
  BY <1>7 DEF FinishWork, EndSlot, Idle, Work, Shape, SlotTyped, SlotRows, Pcs, Providing, Capturing, Ending, PwStates
<1>8. ASSUME NEW s \in Slot, FailExhaustedWork(s) PROVE SlotTyped'
  BY <1>8 DEF FailExhaustedWork, EndSlot, Idle, Work, CopyAborted, CopyFailed, Shape, SlotTyped, SlotRows, Pcs, Providing, Capturing, Ending, PwStates
<1>9. ASSUME NEW s \in Slot, TurnFails(s) PROVE SlotTyped'
  BY <1>9 DEF TurnFails, Fault, Shape, SlotTyped, SlotRows, Pcs, Providing, Capturing, Ending, PwStates
<1>10. ASSUME NEW s \in Slot, RequeuePartitionForRetry(s) PROVE SlotTyped'
  BY <1>10 DEF RequeuePartitionForRetry, Fault, Restamped, Shape, SlotTyped, SlotRows, Pcs, Providing, Capturing, Ending, PwStates
<1>11. ASSUME NEW s \in Slot, SuspendCurrentWork(s) PROVE SlotTyped'
  BY <1>11 DEF SuspendCurrentWork, Fault, EndSlot, Idle, Work, Restamped, Shape, SlotTyped, SlotRows, Pcs, Providing, Capturing, Ending, PwStates
<1>12. ASSUME NEW s \in Slot, ReadCopyOutcome(s) PROVE SlotTyped'
  <2>1. slot[s] \in SlotRows /\ slot[s].leaf \in Leaf /\ flag \in BOOLEAN
    BY <1>12, BusyLeaf DEF ReadCopyOutcome, Shape, SlotTyped, ParentTyped
  <2>2. CASE slot' = [slot EXCEPT ![s] = Idle]
    BY <2>2, SlotWrite, ZenonT(40) DEF Shape, SlotRows, Pcs, Providing, Capturing, Ending, PwStates, Idle
  <2>3. CASE slot' = [slot EXCEPT ![s] = [slot[s] EXCEPT !.pc = "read", !.failed = flag]]
    <3>1. [slot[s] EXCEPT !.pc = "read", !.failed = flag] \in SlotRows /\ [slot[s] EXCEPT !.pc = "read", !.failed = flag].leaf \in Leaf /\ [slot[s] EXCEPT !.pc = "read", !.failed = flag].pc # "reserved"
      BY <2>1, ZenonT(40) DEF SlotRows, Pcs, Providing, Capturing, Ending, PwStates, Idle
    <3> QED
      BY <2>3, <3>1, SlotWrite, ZenonT(40) DEF Shape
  <2> QED
    BY <1>12, <2>2, <2>3, ZenonT(40) DEF ReadCopyOutcome, EndSlot
<1>13. ASSUME NEW s \in Slot, ResumeMarksPartition(s) PROVE SlotTyped'
  <2>1. slot[s] \in SlotRows /\ slot[s].pc # "idle" /\ slot[s].leaf \in Leaf
    BY <1>13, BusyLeaf DEF ResumeMarksPartition, Shape, SlotTyped
  <2>2. CASE slot' = [slot EXCEPT ![s] = Idle]
    BY <2>2, SlotWrite, ZenonT(40) DEF Shape, SlotRows, Pcs, Providing, Capturing, Ending, PwStates, Idle
  <2>3. CASE slot' = [slot EXCEPT ![s] = [slot[s] EXCEPT !.pc = "settled"]]
    <3>1. [slot[s] EXCEPT !.pc = "settled"] \in SlotRows /\ [slot[s] EXCEPT !.pc = "settled"].leaf \in Leaf /\ [slot[s] EXCEPT !.pc = "settled"].pc # "reserved"
      BY <2>1 DEF SlotRows, Pcs, Providing, Capturing, Ending, PwStates, Idle
    <3> QED
      BY <2>3, <3>1, SlotWrite, ZenonT(40) DEF Shape
  <2> QED
    BY <1>13, <2>2, <2>3 DEF ResumeMarksPartition, EndSlot
<1>14. ASSUME NEW s \in Slot, FinishResume(s) PROVE SlotTyped'
  BY <1>14 DEF FinishResume, EndSlot, Idle, Work, Shape, SlotTyped, SlotRows, Pcs, Providing, Capturing, Ending, PwStates
<1>15. ASSUME NEW s \in Slot, Crash(s) PROVE SlotTyped'
  BY <1>15 DEF Crash, Fault, EndSlot, Idle, Shape, SlotTyped, SlotRows, Pcs, Providing, Capturing, Ending, PwStates
<1>16. ASSUME NEW s \in Slot, NEW l \in Leaf, ReserveDueWork(s, l) PROVE SlotTyped'
  BY <1>16, ZenonT(40) DEF ReserveDueWork, Idle, Shape, SlotTyped, SlotRows, Pcs, Providing, Capturing, Ending, PwStates
<1>17. ASSUME NEW s \in Slot, NEW l \in Leaf, BeginResume(s, l) PROVE SlotTyped'
  <2>1. CASE UNCHANGED slot
    BY <2>1 DEF Shape, SlotTyped
  <2>2. CASE slot' = [slot EXCEPT ![s] = [Idle EXCEPT !.pc = "resume", !.leaf = l]]
    <3>1. [Idle EXCEPT !.pc = "resume", !.leaf = l] \in SlotRows /\ [Idle EXCEPT !.pc = "resume", !.leaf = l].leaf \in Leaf /\ [Idle EXCEPT !.pc = "resume", !.leaf = l].pc # "reserved"
      BY ZenonT(40) DEF SlotRows, Pcs, Providing, Capturing, Ending, PwStates, Idle
    <3> QED
      BY <2>2, <3>1, SlotWrite, ZenonT(40) DEF Shape
  <2> QED
    BY <1>17, <2>1, <2>2 DEF BeginResume, EndSlot
<1> QED
  BY <1>1, <1>2, <1>3, <1>4, <1>5, <1>6, <1>7, <1>8, <1>9, <1>10, <1>11, <1>12, <1>13, <1>14, <1>15, <1>16, <1>17, ZenonT(40)
  DEF Next, Turn, Resume, Settle, vars, EnsureWork, CopyVerdict, Abandon, LeaseLapses, DeadLetter, FinishParentSettlement, FinalizePartitionedSnapshot, UpdateJobStatus, CancelJob

\* Every step leaves rows and slots well formed.
LEMMA ShapeKept == Shape /\ [Next]_vars => Shape'
BY ParentTypedKept, LeafTypedKept, PwTypedKept, WfTypedKept, SlotTypedKept DEF Shape

-----------------------------------------------------------------------------
(***************************************************************************)
(* What the longer actions do, branch by branch, to the fields that matter *)
(* for ownership.                                                          *)
(***************************************************************************)
\* Only the rows of leaf l, only slot s.
OnlyLeaf(l) == \A k \in Leaf \ {l} :
    pw'[k] = pw[k] /\ wf'[k] = wf[k] /\ fence'[k] = fence[k] /\ leaf'[k] = leaf[k]
OnlySlot(s) == \A t \in Slot \ {s} : slot'[t] = slot[t]
\* The rows of the leaf are as they were, the claim apart.
SameLeaf(l) == leaf'[l] = leaf[l] /\ fence'[l] = fence[l] /\ wf'[l] = wf[l]
SameWork(l) == SameLeaf(l) /\ pw'[l] = pw[l]
\* Slot s holds the current claim under a running lease, and the leaf's token.
Holds(s, l) == pw[l].state = "RESUMING" /\ pw[l].claim = s /\ pw[l].live /\ s \in fence[l]
Stops(s) == slot'[s].pc = "idle"
Closes(l) == pw'[l].state = "DONE"

\* ReserveDueWork claims the row of a due leaf.
LEMMA ReserveEffect ==
    ASSUME Shape, NEW s \in Slot, NEW l \in Leaf, ReserveDueWork(s, l)
    PROVE  /\ OnlyLeaf(l) /\ OnlySlot(s) /\ SameLeaf(l) /\ UNCHANGED <<job, snap>>
           /\ pw[l].state \in {"WAITING", "RESUMING"}
           /\ pw'[l].state = "RESUMING" /\ pw'[l].claim = s
           /\ slot'[s].pc = "reserved" /\ slot'[s].leaf = l
<1>1. pw[l] \in WorkRows(PwStates)
  BY DEF Shape, PwTyped
<1>2. /\ OnlyLeaf(l) /\ SameLeaf(l) /\ UNCHANGED <<job, snap>>
      /\ pw'[l] = [pw[l] EXCEPT !.state = "RESUMING", !.claim = s, !.live = TRUE]
      /\ pw[l].state \in {"WAITING", "RESUMING"}
  BY DEF ReserveDueWork, OnlyLeaf, SameLeaf, Shape, PwTyped
<1>3. OnlySlot(s) /\ slot'[s].pc = "reserved" /\ slot'[s].leaf = l
  BY DEF ReserveDueWork, OnlySlot, Shape, SlotTyped, Idle
<1> QED
  BY <1>1, <1>2, <1>3 DEF WorkRows

\* AdmitReserved gives the reservation back, closes the row, or starts the turn.
LEMMA AdmitEffect ==
    ASSUME Shape, NEW s \in Slot, NEW l \in Leaf, slot[s].leaf = l, AdmitReserved(s)
    PROVE  /\ slot[s].pc = "reserved" /\ OnlyLeaf(l) /\ OnlySlot(s) /\ UNCHANGED <<job, snap, wf>>
           /\ \/ Stops(s) /\ SameWork(l)
              \/ /\ Stops(s) /\ SameLeaf(l) /\ pw[l].state = "RESUMING"
                 /\ pw'[l].state \in {"WAITING", "RESUMING"} /\ pw'[l].claim = None
              \/ Stops(s) /\ SameLeaf(l) /\ pw[l].state = "RESUMING" /\ Closes(l) /\ ~LeafActive(l)
              \/ Stops(s) /\ SameLeaf(l) /\ pw[l].state = "RESUMING" /\ Closes(l) /\ "pw" \notin fence[l]
              \/ /\ slot'[s].pc = "turn" /\ slot'[s].leaf = l /\ pw'[l] = pw[l] /\ pw[l].state = "RESUMING"
                 /\ LeafActive(l) /\ leaf'[l].status = "IN_PROGRESS"
                 /\ "pw" \in fence'[l] /\ fence'[l] \subseteq {"pw", "wf", s}
<1>1. pw[l] \in WorkRows(PwStates) /\ slot[s].pc = "reserved" /\ slot[s].prior \in {"WAITING", "RESUMING"}
  BY DEF AdmitReserved, Shape, PwTyped, SlotTyped
<1>2. UNCHANGED <<job, snap, wf>>
  BY DEF AdmitReserved
<1>3. CASE UNCHANGED <<leaf, fence, pw>> /\ EndSlot(s)
  BY <1>1, <1>2, <1>3 DEF EndSlot, Idle, OnlyLeaf, OnlySlot, SameLeaf, SameWork, Stops, Shape, SlotTyped
<1>4. CASE /\ UNCHANGED <<leaf, fence>> /\ EndSlot(s) /\ pw[l].state = "RESUMING"
           /\ pw' = [pw EXCEPT ![l] = Unreserved(l, slot[s].prior)]
  <2>1. OnlyLeaf(l) /\ OnlySlot(s) /\ SameLeaf(l) /\ Stops(s) /\ pw'[l] = Unreserved(l, slot[s].prior)
    BY <1>2, <1>4 DEF EndSlot, Idle, OnlyLeaf, OnlySlot, SameLeaf, Stops, Shape, SlotTyped, PwTyped
  <2>2. pw'[l].state \in {"WAITING", "RESUMING"} /\ pw'[l].claim = None
    BY <1>1, <2>1 DEF Unreserved, WorkRows
  <2> QED
    BY <1>1, <1>2, <1>4, <2>1, <2>2
<1>5. ASSUME NEW b \in BOOLEAN, UNCHANGED <<leaf, fence>>, EndSlot(s),
             pw' = [pw EXCEPT ![l] = [Work("DONE") EXCEPT !.pend = b]]
      PROVE  OnlyLeaf(l) /\ OnlySlot(s) /\ SameLeaf(l) /\ Stops(s) /\ Closes(l)
  BY <1>2, <1>5 DEF EndSlot, Idle, OnlyLeaf, OnlySlot, SameLeaf, Stops, Closes, Work, Shape, SlotTyped, PwTyped
<1>6. CASE /\ UNCHANGED pw /\ LeafActive(l) /\ "pw" \in fence[l] /\ pw[l].state = "RESUMING"
           /\ leaf' = [leaf EXCEPT ![l].status = "IN_PROGRESS"]
           /\ fence' = Restamped(l, {"pw", s} \cup IF WfActive(l) THEN {"wf"} ELSE {})
           /\ slot' = [slot EXCEPT ![s].pc = "turn"]
  <2>1. slot[s] \in SlotRows /\ leaf[l] \in [status : {"QUEUED", "IN_PROGRESS", "COMPLETED", "FAILED"}, lossy : BOOLEAN]
    BY DEF Shape, SlotTyped, LeafTyped
  <2>2. OnlySlot(s) /\ slot'[s].pc = "turn" /\ slot'[s].leaf = l
    BY <1>6, <2>1 DEF OnlySlot, Shape, SlotTyped, SlotRows
  <2>3. OnlyLeaf(l) /\ leaf'[l].status = "IN_PROGRESS" /\ "pw" \in fence'[l] /\ fence'[l] \subseteq {"pw", "wf", s}
    BY <1>2, <1>6, <2>1 DEF OnlyLeaf, Restamped, Shape, LeafTyped
  <2> QED
    BY <1>1, <1>2, <1>6, <2>2, <2>3, SMTT(30)
<1>7. (Terminal(l) /\ job # "CANCELLED") \in BOOLEAN
  OBVIOUS
<1> QED
  BY <1>1, <1>2, <1>3, <1>4, <1>5, <1>6, <1>7, ZenonT(40) DEF AdmitReserved

\* SealCurrentCopy hands the leaf from the turn to the workflow.
LEMMA SealEffect ==
    ASSUME Shape, NEW s \in Slot, NEW l \in Leaf, slot[s].leaf = l, SealCurrentCopy(s)
    PROVE  /\ slot[s].pc = "turn" /\ wf[l].state # "NONE" /\ OnlyLeaf(l) /\ OnlySlot(s) /\ UNCHANGED <<job, snap, leaf>>
           /\ \/ SameWork(l) /\ slot'[s].pc = "failing" /\ slot'[s].leaf = l
              \/ /\ Holds(s, l) /\ wf[l].state = "DRAINING" /\ Stops(s)
                 /\ Closes(l) /\ wf'[l].state = "WAITING" /\ fence'[l] = {"wf"}
<1>1. slot[s] \in SlotRows /\ wf[l] \in WorkRows(WfStates)
  BY DEF Shape, SlotTyped, WfTyped
<1>2. slot[s].pc = "turn" /\ wf[l].state # "NONE" /\ UNCHANGED <<job, snap, leaf>>
  BY DEF SealCurrentCopy
<1>3. CASE UNCHANGED <<pw, wf, fence>> /\ slot' = [slot EXCEPT ![s].pc = "failing"]
  BY <1>1, <1>2, <1>3 DEF OnlyLeaf, OnlySlot, SameLeaf, SameWork, Shape, SlotTyped, SlotRows
<1>4. CASE /\ Holds(s, l) /\ wf[l].state = "DRAINING" /\ EndSlot(s)
           /\ pw' = [pw EXCEPT ![l] = Work("DONE")]
           /\ wf' = [wf EXCEPT ![l].state = "WAITING"]
           /\ fence' = Restamped(l, {"wf"})
  <2>1. OnlySlot(s) /\ Stops(s)
    BY <1>4 DEF OnlySlot, Stops, EndSlot, Idle, Shape, SlotTyped
  <2>2. OnlyLeaf(l) /\ Closes(l) /\ wf'[l].state = "WAITING" /\ fence'[l] = {"wf"}
    BY <1>1, <1>2, <1>4 DEF OnlyLeaf, Closes, Work, WorkRows, Restamped, Shape, LeafTyped, PwTyped, WfTyped
  <2> QED
    BY <1>2, <1>4, <2>1, <2>2
<1> QED
  BY <1>2, <1>3, <1>4 DEF SealCurrentCopy, OwnsWork, Holds

\* SuspendCurrentWork: the row of a turn that owns it waits, with the leaf's token.
LEMMA SuspendEffect ==
    ASSUME Shape, NEW s \in Slot, NEW l \in Leaf, slot[s].leaf = l, SuspendCurrentWork(s)
    PROVE  /\ slot[s].pc = "turn" /\ OnlyLeaf(l) /\ OnlySlot(s) /\ Stops(s) /\ UNCHANGED <<job, snap, leaf, wf>>
           /\ \/ SameWork(l)
              \/ Holds(s, l) /\ pw'[l].state = "WAITING" /\ pw'[l].claim = None /\ fence'[l] = {"pw"}
<1>1. slot[s].pc = "turn" /\ OnlySlot(s) /\ Stops(s) /\ UNCHANGED <<job, snap, leaf, wf>>
  BY DEF SuspendCurrentWork, OnlySlot, Stops, EndSlot, Idle, Shape, SlotTyped
<1>2. CASE UNCHANGED <<pw, fence>>
  BY <1>1, <1>2 DEF OnlyLeaf, SameWork, SameLeaf
<1>3. CASE Holds(s, l) /\ pw' = [pw EXCEPT ![l] = Work("WAITING")] /\ fence' = Restamped(l, {"pw"})
  BY <1>1, <1>3 DEF OnlyLeaf, Work, Restamped, Shape, LeafTyped, PwTyped
<1> QED
  BY <1>1, <1>2, <1>3 DEF SuspendCurrentWork, OwnsWork, Holds

\* FailExhaustedWork fails a leaf the turn owns, and the copies with it.
LEMMA ExhaustEffect ==
    ASSUME Shape, NEW s \in Slot, NEW l \in Leaf, slot[s].leaf = l, FailExhaustedWork(s)
    PROVE  /\ slot[s].pc = "exhausted" /\ OnlyLeaf(l) /\ OnlySlot(s) /\ Stops(s) /\ UNCHANGED <<job, snap, fence>>
           /\ \/ SameWork(l)
              \/ /\ Holds(s, l) /\ Closes(l)
                 /\ leaf'[l].status = "FAILED" /\ (leaf[l].status = "FAILED" => leaf'[l] = leaf[l])
                 /\ wf'[l] = wf[l] \/ (WfActive(l) /\ wf'[l].state = "ABORTED")
<1>1. slot[s].pc = "exhausted" /\ OnlySlot(s) /\ Stops(s) /\ UNCHANGED <<job, snap, fence>>
  BY DEF FailExhaustedWork, OnlySlot, Stops, EndSlot, Idle, Shape, SlotTyped
<1>2. CASE UNCHANGED <<pw, wf, leaf>>
  BY <1>1, <1>2 DEF OnlyLeaf, SameWork, SameLeaf
<1>3. CASE /\ Holds(s, l) /\ leaf' = [leaf EXCEPT ![l].status = "FAILED"]
           /\ pw' = [pw EXCEPT ![l] = [Work("DONE") EXCEPT !.pend = TRUE]]
           /\ UNCHANGED wf \/ (WfActive(l) /\ wf' = [wf EXCEPT ![l] = Work("ABORTED")])
  <2>1. Closes(l) /\ leaf'[l] = [leaf[l] EXCEPT !.status = "FAILED"]
    BY <1>3 DEF Closes, Work, Shape, PwTyped, LeafTyped
  <2>4. leaf'[l].status = "FAILED" /\ (leaf[l].status = "FAILED" => leaf'[l] = leaf[l])
    BY <2>1 DEF Shape, LeafTyped
  <2>2. wf'[l] = wf[l] \/ (WfActive(l) /\ wf'[l].state = "ABORTED")
    BY <1>3 DEF Work, Shape, WfTyped
  <2>3. OnlyLeaf(l)
    BY <1>1, <1>3 DEF OnlyLeaf, Shape, PwTyped, WfTyped, LeafTyped
  <2> QED
    BY <1>1, <1>3, <2>1, <2>2, <2>3, <2>4
<1> QED
  BY <1>1, <1>2, <1>3 DEF FailExhaustedWork, CopyAborted, OwnsWork, Holds

\* FinishWork closes a row the turn owns.
LEMMA FinishEffect ==
    ASSUME Shape, NEW s \in Slot, NEW l \in Leaf, slot[s].leaf = l, FinishWork(s)
    PROVE  /\ slot[s].pc = "finish" /\ OnlyLeaf(l) /\ OnlySlot(s) /\ Stops(s) /\ SameLeaf(l) /\ UNCHANGED <<job, snap>>
           /\ pw'[l] = pw[l] \/ (Holds(s, l) /\ Closes(l))
<1>1. slot[s].pc = "finish" /\ OnlySlot(s) /\ Stops(s) /\ UNCHANGED <<job, snap, leaf, fence, wf>>
  BY DEF FinishWork, OnlySlot, Stops, EndSlot, Idle, Shape, SlotTyped
<1>2. CASE UNCHANGED pw
  BY <1>1, <1>2 DEF OnlyLeaf, SameLeaf
<1>3. CASE Holds(s, l) /\ pw' = [pw EXCEPT ![l] = [Work("DONE") EXCEPT !.pend = TRUE]]
  BY <1>1, <1>3 DEF OnlyLeaf, SameLeaf, Closes, Work, Shape, PwTyped
<1> QED
  BY <1>1, <1>2, <1>3 DEF FinishWork, OwnsWork, Holds

\* BeginResume ends the workflow of an ended parent, or claims it and the leaf.
LEMMA BeginEffect ==
    ASSUME Shape, NEW s \in Slot, NEW l \in Leaf, BeginResume(s, l)
    PROVE  /\ slot[s].pc = "idle" /\ OnlyLeaf(l) /\ OnlySlot(s) /\ UNCHANGED <<job, snap, leaf, pw>>
           /\ wf[l].state \in {"WAITING", "RESUMING"}
           /\ \/ fence'[l] = fence[l] /\ slot' = slot /\ Terminal(l) /\ wf'[l].state = "DONE"
              \/ fence'[l] = fence[l] /\ slot' = slot /\ job # "RUNNING" /\ wf'[l].state = "ABORTED"
              \/ fence'[l] = {"wf", s} /\ slot'[s].pc = "resume" /\ wf'[l].state = "RESUMING"
<1>1. wf[l] \in WorkRows(WfStates)
  BY DEF Shape, WfTyped
<1>2. slot[s].pc = "idle" /\ wf[l].state \in {"WAITING", "RESUMING"} /\ UNCHANGED <<job, snap, leaf, pw>>
  BY DEF BeginResume
<1>3. CASE Terminal(l) /\ wf' = [wf EXCEPT ![l] = [Work("DONE") EXCEPT !.pend = TRUE]] /\ UNCHANGED <<fence, slot>>
  BY <1>2, <1>3 DEF OnlyLeaf, OnlySlot, Work, Shape, WfTyped
<1>4. CASE job # "RUNNING" /\ wf' = [wf EXCEPT ![l] = Work("ABORTED")] /\ UNCHANGED <<fence, slot>>
  BY <1>2, <1>4 DEF OnlyLeaf, OnlySlot, Work, Shape, WfTyped
<1>5. CASE /\ wf' = [wf EXCEPT ![l] = [wf[l] EXCEPT !.state = "RESUMING", !.claim = s, !.live = TRUE]]
           /\ fence' = Restamped(l, {"wf", s})
           /\ slot' = [slot EXCEPT ![s] = [Idle EXCEPT !.pc = "resume", !.leaf = l]]
  <2>1. OnlySlot(s) /\ slot'[s].pc = "resume"
    BY <1>5 DEF OnlySlot, Idle, Shape, SlotTyped
  <2>2. OnlyLeaf(l) /\ fence'[l] = {"wf", s} /\ wf'[l].state = "RESUMING"
    BY <1>1, <1>2, <1>5 DEF OnlyLeaf, WorkRows, Restamped, Shape, LeafTyped, WfTyped
  <2> QED
    BY <1>2, <2>1, <2>2
<1> QED
  BY <1>2, <1>3, <1>4, <1>5 DEF BeginResume

\* ResumeMarksPartition marks a leaf that is free, or releases it.
LEMMA ResumeMarkEffect ==
    ASSUME Shape, NEW s \in Slot, NEW l \in Leaf, slot[s].leaf = l, ResumeMarksPartition(s)
    PROVE  /\ slot[s].pc = "read" /\ OnlyLeaf(l) /\ OnlySlot(s) /\ UNCHANGED <<job, snap, pw, fence>>
           /\ wf'[l].state = wf[l].state /\ slot'[s].pc \in {"idle", "settled"}
           /\ \/ leaf'[l] = leaf[l]
              \/ ~Terminal(l) /\ ~PwActive(l) /\ leaf'[l].status \in {"COMPLETED", "FAILED"}
              \/ ~Terminal(l) /\ leaf'[l].status = "QUEUED"
<1>1. slot[s] \in SlotRows /\ wf[l] \in WorkRows(WfStates) /\ slot[s].pc = "read" /\ UNCHANGED <<job, snap, pw, fence>>
  BY DEF Shape, SlotTyped, WfTyped, ResumeMarksPartition
<1>2. OnlySlot(s) /\ slot'[s].pc \in {"idle", "settled"}
  BY <1>1 DEF ResumeMarksPartition, EndSlot, Idle, OnlySlot, Shape, SlotTyped, SlotRows
<1>3. (\A k \in Leaf \ {l} : wf'[k] = wf[k]) /\ wf'[l].state = wf[l].state
  <2>1. UNCHANGED wf \/ wf' = [wf EXCEPT ![l] = [wf[l] EXCEPT !.live = TRUE]]
    BY DEF ResumeMarksPartition
  <2> QED
    BY <1>1, <2>1, WorkRow, ZenonT(40) DEF Shape, WfTyped
<1>4. /\ \A k \in Leaf \ {l} : leaf'[k] = leaf[k]
      /\ \/ leaf'[l] = leaf[l]
         \/ ~Terminal(l) /\ ~PwActive(l) /\ leaf'[l].status \in {"COMPLETED", "FAILED"}
         \/ ~Terminal(l) /\ leaf'[l].status = "QUEUED"
  <2>1. CASE UNCHANGED leaf
    BY <2>1
  <2>2. ASSUME NEW st \in {"COMPLETED", "FAILED"}, ~Terminal(l), ~PwActive(l), leaf' = Marked(l, st, slot[s].failed)
        PROVE  (\A k \in Leaf \ {l} : leaf'[k] = leaf[k]) /\ leaf'[l].status \in {"COMPLETED", "FAILED"}
    BY <2>2 DEF Marked, Shape, LeafTyped
  <2>3. CASE ~Terminal(l) /\ leaf' = [leaf EXCEPT ![l].status = "QUEUED"]
    BY <2>3 DEF Shape, LeafTyped
  <2> QED
    BY <2>1, <2>2, <2>3 DEF ResumeMarksPartition
<1> QED
  BY <1>1, <1>2, <1>3, <1>4 DEF OnlyLeaf

\* A lapse and a settlement leave every state, and give no lease back.
LEMMA LapseEffect ==
    ASSUME Shape, NEW l \in Leaf, LeaseLapses(l) \/ FinishParentSettlement(l)
    PROVE  /\ UNCHANGED <<job, snap, leaf, fence, slot>>
           /\ \A k \in Leaf : /\ pw'[k].state = pw[k].state /\ pw'[k].claim = pw[k].claim
                              /\ wf'[k].state = wf[k].state /\ (pw'[k].live => pw[k].live)
<1>1. pw[l] \in WorkRows(PwStates) /\ wf[l] \in WorkRows(WfStates) /\ UNCHANGED <<job, snap, leaf, fence, slot>>
  BY DEF LeaseLapses, FinishParentSettlement, Shape, PwTyped, WfTyped
<1>2. \/ UNCHANGED pw
      \/ pw' = [pw EXCEPT ![l] = [pw[l] EXCEPT !.live = FALSE]]
      \/ pw' = [pw EXCEPT ![l] = [pw[l] EXCEPT !.pend = FALSE]]
  BY DEF LeaseLapses, FinishParentSettlement
<1>3. \/ UNCHANGED wf
      \/ wf' = [wf EXCEPT ![l] = [wf[l] EXCEPT !.live = FALSE]]
      \/ wf' = [wf EXCEPT ![l] = [wf[l] EXCEPT !.pend = FALSE]]
  BY DEF LeaseLapses, FinishParentSettlement
<1>4. \A k \in Leaf : pw'[k].state = pw[k].state /\ pw'[k].claim = pw[k].claim /\ (pw'[k].live => pw[k].live)
  BY <1>1, <1>2 DEF WorkRows, Shape, PwTyped
<1>5. \A k \in Leaf : wf'[k].state = wf[k].state
  BY <1>1, <1>3 DEF WorkRows, Shape, WfTyped
<1> QED
  BY <1>1, <1>4, <1>5

\* The other steps of a turn: they write at most the leaf, and no work row.
LEMMA MarkEffect ==
    ASSUME Shape, NEW s \in Slot, NEW l \in Leaf, slot[s].leaf = l, MarkPartitionTerminal(s)
    PROVE  /\ OnlyLeaf(l) /\ OnlySlot(s) /\ UNCHANGED <<job, snap, fence, pw, wf>> /\ slot'[s].leaf = l
           /\ \/ slot[s].pc = "turn" /\ wf[l].state = "NONE" /\ slot'[s].pc = "marked"
              \/ slot[s].pc = "failing" /\ slot'[s].pc = "raised"
           /\ \/ leaf'[l] = leaf[l] /\ (slot[s].pc = "turn" => ~Holds(s, l) \/ Terminal(l))
              \/ Holds(s, l) /\ ~Terminal(l) /\ slot[s].pc = "turn" /\ leaf'[l].status = "COMPLETED"
              \/ Holds(s, l) /\ ~Terminal(l) /\ slot[s].pc = "failing" /\ leaf'[l].status = "FAILED"
<1>1. slot[s] \in SlotRows /\ UNCHANGED <<job, snap, fence, pw, wf>>
  BY DEF Shape, SlotTyped, MarkPartitionTerminal
<1>2. /\ OnlySlot(s) /\ slot'[s].leaf = l
      /\ \/ slot[s].pc = "turn" /\ wf[l].state = "NONE" /\ slot'[s].pc = "marked"
         \/ slot[s].pc = "failing" /\ slot'[s].pc = "raised"
  BY <1>1 DEF MarkPartitionTerminal, OnlySlot, Shape, SlotTyped, SlotRows
<1>3. CASE ~MayMark(s)
  <2>1. slot[s].pc = "turn" => ~Holds(s, l) \/ Terminal(l)
    BY <1>2, <1>3 DEF MayMark, Holds, WfActive, Active, Shape, WfTyped
  <2>2. OnlyLeaf(l) /\ leaf'[l] = leaf[l]
    BY <1>1, <1>3 DEF MarkPartitionTerminal, OnlyLeaf
  <2> QED
    BY <1>1, <1>2, <2>1, <2>2, ZenonT(40)
<1>4. CASE MayMark(s)
  <2>1. leaf' = [leaf EXCEPT ![l] = [status |-> IF slot[s].pc = "turn" THEN "COMPLETED" ELSE "FAILED", lossy |-> FALSE]]
    BY <1>4 DEF MarkPartitionTerminal, Marked
  <2>2. OnlyLeaf(l) /\ leaf'[l].status = IF slot[s].pc = "turn" THEN "COMPLETED" ELSE "FAILED"
    BY <1>1, <2>1 DEF OnlyLeaf, Shape, LeafTyped
  <2>3. Holds(s, l) /\ ~Terminal(l)
    BY <1>4 DEF MayMark, Holds
  <2> QED
    BY <1>1, <1>2, <2>2, <2>3, ZenonT(40)
<1> QED
  BY <1>3, <1>4

LEMMA RequeueEffect ==
    ASSUME Shape, NEW s \in Slot, NEW l \in Leaf, slot[s].leaf = l, RequeuePartitionForRetry(s)
    PROVE  /\ slot[s].pc = "turn" /\ OnlyLeaf(l) /\ OnlySlot(s) /\ UNCHANGED <<job, snap, pw, wf>>
           /\ slot'[s].pc \in {"raised", "failing"} /\ slot'[s].leaf = l
           /\ \/ SameWork(l)
              \/ leaf[l].status = "IN_PROGRESS" /\ leaf'[l].status = "QUEUED" /\ fence'[l] = {}
<1>1. slot[s] \in SlotRows /\ slot[s].pc = "turn" /\ UNCHANGED <<job, snap, pw, wf>>
  BY DEF Shape, SlotTyped, RequeuePartitionForRetry
<1>2. OnlySlot(s) /\ slot'[s].pc \in {"raised", "failing"} /\ slot'[s].leaf = l
  BY <1>1 DEF RequeuePartitionForRetry, OnlySlot, Shape, SlotTyped, SlotRows
<1>3. CASE UNCHANGED <<leaf, fence>>
  BY <1>1, <1>2, <1>3 DEF OnlyLeaf, SameWork, SameLeaf
<1>4. CASE /\ leaf[l].status = "IN_PROGRESS" /\ leaf' = [leaf EXCEPT ![l].status = "QUEUED"]
           /\ fence' = Restamped(l, {})
  BY <1>1, <1>2, <1>4 DEF OnlyLeaf, Restamped, Shape, LeafTyped
<1> QED
  BY <1>3, <1>4 DEF RequeuePartitionForRetry

LEMMA DeferEffect ==
    ASSUME Shape, NEW s \in Slot, NEW l \in Leaf, slot[s].leaf = l, DeferCurrentCopy(s)
    PROVE  /\ slot[s].pc = "turn" /\ OnlyLeaf(l) /\ LeafActive(l) /\ UNCHANGED <<job, snap, leaf, pw, slot>>
           /\ wf[l].state \in {"NONE", "ABORTED"} /\ wf'[l].state = "DRAINING"
           /\ fence'[l] = fence[l] \cup {"wf"}
BY DEF DeferCurrentCopy, OnlyLeaf, Work, Restamped, Shape, LeafTyped, WfTyped

\* Slots that end, fail or go on, and the finalizer of a turn.
LEMMA SlotEffect ==
    ASSUME Shape, NEW s \in Slot, NEW l \in Leaf, slot[s].leaf = l, TurnFails(s) \/ TurnFinalizes(s) \/ Crash(s)
    PROVE  /\ OnlySlot(s) /\ UNCHANGED <<job, leaf, fence, pw, wf>>
           /\ \/ slot'[s].pc = "idle"
              \/ slot[s].pc \in Capturing /\ slot'[s].pc \in Capturing /\ slot'[s].leaf = l
              \/ slot[s].pc = "marked" /\ slot'[s].pc = "finish" /\ slot'[s].leaf = l
<1>1. slot[s] \in SlotRows
  BY DEF Shape, SlotTyped
<1>2. CASE TurnFails(s)
  BY <1>1, <1>2 DEF TurnFails, OnlySlot, Capturing, Shape, SlotTyped, SlotRows
<1>3. CASE TurnFinalizes(s)
  BY <1>1, <1>3 DEF TurnFinalizes, Idle, OnlySlot, Capturing, Shape, SlotTyped, SlotRows
<1>4. CASE Crash(s)
  BY <1>4 DEF Crash, EndSlot, Idle, OnlySlot, Shape, SlotTyped
<1> QED
  BY <1>2, <1>3, <1>4

\* The other steps of a resumption leave the leaf alone.
LEMMA ResumeEffect ==
    ASSUME Shape, NEW s \in Slot, NEW l \in Leaf, slot[s].leaf = l, ReadCopyOutcome(s) \/ FinishResume(s)
    PROVE  /\ OnlyLeaf(l) /\ OnlySlot(s) /\ UNCHANGED <<job, snap, leaf, fence, pw>>
           /\ slot'[s].pc \in {"idle", "read"}
           /\ wf'[l].state = wf[l].state \/ (wf[l].state = "RESUMING" /\ Terminal(l) /\ wf'[l].state = "DONE")
<1>1. slot[s] \in SlotRows /\ wf[l] \in WorkRows(WfStates) /\ UNCHANGED <<job, snap, leaf, fence, pw>>
  BY DEF Shape, SlotTyped, WfTyped, ReadCopyOutcome, FinishResume
<1>2. OnlySlot(s) /\ slot'[s].pc \in {"idle", "read"}
  BY <1>1 DEF ReadCopyOutcome, FinishResume, EndSlot, Idle, OnlySlot, Shape, SlotTyped, SlotRows
<1>3. CASE UNCHANGED wf
  BY <1>1, <1>2, <1>3 DEF OnlyLeaf
<1>4. CASE wf' = [wf EXCEPT ![l] = [wf[l] EXCEPT !.live = TRUE]]
  BY <1>1, <1>2, <1>4, WorkRow, ZenonT(40) DEF OnlyLeaf, Shape, WfTyped
<1>5. CASE /\ wf[l].state = "RESUMING" /\ Terminal(l)
           /\ wf' = [wf EXCEPT ![l] = [Work("DONE") EXCEPT !.pend = TRUE]]
  BY <1>1, <1>2, <1>5 DEF OnlyLeaf, Work, Shape, WfTyped
<1> QED
  BY <1>3, <1>4, <1>5 DEF ReadCopyOutcome, FinishResume

\* The steps that belong to no slot.
LEMMA EnsureEffect ==
    ASSUME Shape, NEW l \in Leaf, EnsureWork(l)
    PROVE  /\ OnlyLeaf(l) /\ LeafActive(l) /\ pw[l].state = "NONE" /\ UNCHANGED <<job, snap, leaf, wf, slot>>
           /\ pw'[l].state = "WAITING" /\ pw'[l].claim = None /\ fence'[l] = fence[l] \cup {"pw"}
BY DEF EnsureWork, OnlyLeaf, Work, Restamped, Shape, LeafTyped, PwTyped

LEMMA AbandonEffect ==
    ASSUME Shape, NEW l \in Leaf, Abandon(l)
    PROVE  /\ OnlyLeaf(l) /\ UNCHANGED <<job, snap, leaf, fence, pw, slot>> /\ wf'[l].state = "ABORTED"
           /\ WfActive(l) /\ ~PwActive(l)
           /\ job # "RUNNING" \/ snap # "IN_PROGRESS" \/ Terminal(l) \/ wf[l].state = "DRAINING"
<1>1. UNCHANGED <<job, snap, leaf, fence, pw, slot>> /\ wf' = [wf EXCEPT ![l] = Work("ABORTED")]
  BY DEF Abandon, CopyAborted
<1>2. /\ WfActive(l) /\ ~PwActive(l)
      /\ job # "RUNNING" \/ snap # "IN_PROGRESS" \/ Terminal(l) \/ wf[l].state = "DRAINING"
  BY DEF Abandon
<1> QED
  BY <1>1, <1>2 DEF OnlyLeaf, Work, Shape, WfTyped

LEMMA DeadLetterEffect ==
    ASSUME Shape, NEW l \in Leaf, DeadLetter(l)
    PROVE  /\ OnlyLeaf(l) /\ UNCHANGED <<job, snap, pw, wf, slot>> /\ ~Terminal(l)
           /\ pw[l].state = "DONE" /\ leaf'[l].status = "FAILED" /\ fence'[l] = {}
BY DEF DeadLetter, OnlyLeaf, Restamped, Shape, LeafTyped

LEMMA CancelEffect ==
    ASSUME Shape, CancelJob
    PROVE  /\ UNCHANGED <<snap, leaf, slot>> /\ job' = "CANCELLED"
           /\ \A l \in Leaf : /\ pw'[l] = pw[l] \/ (pw[l].state # "NONE" /\ pw'[l].state = "DONE")
                              /\ wf'[l] = wf[l] \/ (wf[l].state # "NONE" /\ wf'[l].state = "ABORTED")
                              /\ fence'[l] \subseteq fence[l]
BY ZenonT(40) DEF CancelJob, Work, Active, Shape, PwTyped, WfTyped

\* The parents' writers change nothing else, and write over no running copy.
LEMMA SettleEffect ==
    ASSUME FinalizePartitionedSnapshot \/ UpdateJobStatus
    PROVE  UNCHANGED <<leaf, fence, pw, wf, slot>>
BY DEF FinalizePartitionedSnapshot, UpdateJobStatus

LEMMA SnapEffect ==
    ASSUME NEW s, TurnFails(s) \/ TurnFinalizes(s) \/ Crash(s) \/ FinalizePartitionedSnapshot
    PROVE  /\ UNCHANGED job
           /\ snap' # snap => /\ snap = "IN_PROGRESS"
                              /\ \A l \in Leaf : Terminal(l) /\ ~WfActive(l)
<1>1. SettlerMay => NoCopy(FALSE)
  BY ZenonT(40) DEF SettlerMay, SweepMay, ProviderSettlerMay, CopySettlerMay, NoCopy
<1>2. CASE TurnFinalizes(s)
  BY <1>2, ZenonT(40) DEF TurnFinalizes, TurnMay, NoCopy, Finalized
<1>3. CASE FinalizePartitionedSnapshot
  BY <1>1, <1>3, ZenonT(40) DEF FinalizePartitionedSnapshot, NoCopy, Finalized
<1> QED
  BY <1>2, <1>3 DEF TurnFails, Crash

LEMMA JobEffect ==
    ASSUME UpdateJobStatus
    PROVE  /\ UNCHANGED snap /\ job = "RUNNING" /\ job' = "ENDED" /\ snap # "IN_PROGRESS"
           /\ \A l \in Leaf : ~PwActive(l)
BY ZenonT(40) DEF UpdateJobStatus, SettlerMay, SweepMay, ProviderSettlerMay, CopySettlerMay, NoProvider

\* A slot that takes a step of a turn or of a resumption has a leaf.
Acts(s) == Turn(s) \/ TurnFails(s) \/ RequeuePartitionForRetry(s) \/ SuspendCurrentWork(s) \/ Resume(s) \/ Crash(s)
LEMMA ActingLeaf ==
    ASSUME Shape, NEW s \in Slot, Acts(s)
    PROVE  slot[s].leaf \in Leaf
<1>1. slot[s].pc # "idle"
  BY ZenonT(40) DEF Acts, Turn, Resume, AdmitReserved, DeferCurrentCopy, SealCurrentCopy, MarkPartitionTerminal, TurnFinalizes,
         FinishWork, FailExhaustedWork, TurnFails, RequeuePartitionForRetry, SuspendCurrentWork, ReadCopyOutcome,
         ResumeMarksPartition, FinishResume, Crash
<1> QED
  BY <1>1, BusyLeaf

\* The steps, by what is known of them.
LEMMA StepCases ==
    ASSUME Shape, [Next]_vars
    PROVE  \/ \E s \in Slot, l \in Leaf : slot[s].leaf = l /\
                 (\/ AdmitReserved(s) \/ DeferCurrentCopy(s) \/ SealCurrentCopy(s) \/ MarkPartitionTerminal(s)
                  \/ FinishWork(s) \/ FailExhaustedWork(s) \/ RequeuePartitionForRetry(s) \/ SuspendCurrentWork(s)
                  \/ TurnFails(s) \/ TurnFinalizes(s) \/ Crash(s)
                  \/ ReadCopyOutcome(s) \/ FinishResume(s) \/ ResumeMarksPartition(s))
           \/ \E s \in Slot, l \in Leaf : ReserveDueWork(s, l) \/ BeginResume(s, l)
           \/ \E l \in Leaf : \/ EnsureWork(l) \/ Abandon(l) \/ LeaseLapses(l) \/ FinishParentSettlement(l) \/ DeadLetter(l)
           \/ FinalizePartitionedSnapshot \/ UpdateJobStatus
           \/ CancelJob
           \/ UNCHANGED <<job, snap, leaf, fence, pw, wf, slot>>
<1>1. ASSUME NEW l \in Leaf, CopyVerdict(l) PROVE UNCHANGED <<job, snap, leaf, fence, pw, wf, slot>>
  BY <1>1 DEF CopyVerdict
<1>2. ASSUME NEW s \in Slot, Acts(s)
      PROVE  \E k \in Leaf : slot[s].leaf = k
  BY <1>2, ActingLeaf
<1>3. CASE Next
  BY <1>1, <1>2, <1>3 DEF Next, Acts, Turn, Resume, Settle
<1> QED
  BY <1>3 DEF vars
-----------------------------------------------------------------------------
(***************************************************************************)
(* LeafCustody: who keeps a leaf, and what its keeper may do.              *)
(***************************************************************************)
\* What one step may do to the leaf l that it works on, as LeafCustody has it.
Steady(l) == leaf'[l].status = leaf[l].status /\ Keeper(l)' = Keeper(l)
Taken(l) == Keeper(l) = "new" /\ LeafActive(l) /\ Keeper(l)' = "provider" /\ leaf'[l].status = leaf[l].status
Started(l) == Keeper(l) = "provider" /\ LeafActive(l) /\ leaf'[l].status = "IN_PROGRESS" /\ Keeper(l)' = Keeper(l)
Requeued(l) == ~Terminal(l) /\ leaf'[l].status = "QUEUED" /\ Keeper(l)' = Keeper(l)
Handed(l) == /\ Keeper(l) = "provider" /\ LeafActive(l) /\ leaf[l].status = "IN_PROGRESS"
             /\ Keeper(l)' = "copies" /\ leaf'[l].status = leaf[l].status
Decided(l) == /\ Keeper(l) \in {"provider", "copies"} /\ LeafActive(l) /\ leaf'[l].status \in {"COMPLETED", "FAILED"}
              /\ Keeper(l)' = Keeper(l) \/ (leaf'[l].status = "FAILED" /\ Keeper(l)' = "gone")
Lettered(l) == /\ Keeper(l) = "gone" /\ job = "RUNNING" /\ leaf[l].status = "QUEUED"
               /\ leaf'[l].status = "FAILED" /\ Keeper(l)' = Keeper(l)
Left(l) == /\ Keeper(l) \in {"provider", "copies"}
           /\ job = "RUNNING" => Terminal(l) \/ (Keeper(l) = "provider" /\ leaf[l].status = "QUEUED")
           /\ Keeper(l)' = "gone" /\ leaf'[l].status = leaf[l].status
Moves(l) == \/ Steady(l) \/ Taken(l) \/ Started(l) \/ Requeued(l) \/ Handed(l) \/ Decided(l) \/ Lettered(l) \/ Left(l)
CustodySteps == Custody!Next \/ UNCHANGED <<Statuses, Keepers, snap, job>>

\* A step on one leaf is a step of LeafCustody on that leaf.
LEMMA MovesSteps ==
    ASSUME NEW l \in Leaf, OnlyLeaf(l), UNCHANGED <<job, snap>>, Moves(l)
    PROVE  CustodySteps
<1>1. Statuses' = [Statuses EXCEPT ![l] = leaf'[l].status]
  BY ZenonT(40) DEF Statuses, OnlyLeaf
<1>2. Keepers' = [Keepers EXCEPT ![l] = Keeper(l)']
  <2>1. \A k \in Leaf \ {l} : Keeper(k)' = Keeper(k)
    BY ZenonT(40) DEF OnlyLeaf, Keeper, PwActive
  <2> QED
    BY <2>1, ZenonT(40) DEF Keepers
<1>3. Statuses[l] = leaf[l].status /\ Keepers[l] = Keeper(l)
  BY DEF Statuses, Keepers
<1>4. leaf'[l].status = leaf[l].status => Statuses' = Statuses
  BY <1>1, ZenonT(40) DEF Statuses
<1>5. Keeper(l)' = Keeper(l) => Keepers' = Keepers
  BY <1>2, ZenonT(40) DEF Keepers
<1>6. Custody!Ended(l) <=> Terminal(l)
  BY <1>3 DEF Custody!Ended, Terminal
<1>7. Custody!Open(l) <=> LeafActive(l)
  BY <1>6, ZenonT(40) DEF Custody!Open, LeafActive
<1>8. Custody!Kept(l) <=> Keeper(l) \in {"provider", "copies"}
  BY <1>3 DEF Custody!Kept
<1>11. CASE Steady(l)
  BY <1>4, <1>5, <1>11, ZenonT(40) DEF Steady, CustodySteps
<1>12. CASE Taken(l)
  <2>1. Custody!Take(l)
    BY <1>2, <1>3, <1>4, <1>7, <1>12, ZenonT(40) DEF Taken, Custody!Take, Custody!Keeper
  <2> QED
    BY <2>1, ZenonT(40) DEF CustodySteps, Custody!Next
<1>13. CASE Started(l)
  <2>1. Custody!Start(l)
    BY <1>1, <1>3, <1>5, <1>7, <1>13, ZenonT(40) DEF Started, Custody!Start, Custody!Status
  <2> QED
    BY <2>1, ZenonT(40) DEF CustodySteps, Custody!Next
<1>14. CASE Requeued(l)
  <2>1. Custody!Requeue(l)
    BY <1>1, <1>5, <1>6, <1>14, ZenonT(40) DEF Requeued, Custody!Requeue, Custody!Status
  <2> QED
    BY <2>1, ZenonT(40) DEF CustodySteps, Custody!Next
<1>15. CASE Handed(l)
  <2>1. Custody!HandOver(l)
    BY <1>2, <1>3, <1>4, <1>7, <1>15, ZenonT(40) DEF Handed, Custody!HandOver, Custody!Keeper
  <2> QED
    BY <2>1, ZenonT(40) DEF CustodySteps, Custody!Next
<1>16. CASE Decided(l)
  <2>1. Custody!End(l, leaf'[l].status)
    BY <1>1, <1>2, <1>5, <1>7, <1>8, <1>16, ZenonT(40) DEF Decided, Custody!End, Custody!Status, Custody!Keeper
  <2> QED
    BY <1>16, <2>1, ZenonT(40) DEF Decided, CustodySteps, Custody!Next
<1>17. CASE Lettered(l)
  <2>1. Custody!DeadLetter(l)
    BY <1>1, <1>3, <1>5, <1>17, ZenonT(40) DEF Lettered, Custody!DeadLetter, Custody!Status
  <2> QED
    BY <2>1, ZenonT(40) DEF CustodySteps, Custody!Next
<1>18. CASE Left(l)
  <2>1. Custody!Leave(l)
    BY <1>2, <1>3, <1>4, <1>6, <1>8, <1>18, ZenonT(40) DEF Left, Custody!Leave, Custody!Keeper
  <2> QED
    BY <2>1, ZenonT(40) DEF CustodySteps, Custody!Next
<1> QED
  BY <1>11, <1>12, <1>13, <1>14, <1>15, <1>16, <1>17, <1>18, ZenonT(40) DEF Moves

\* A step that leaves every status and every state of work stutters.
LEMMA SteadySteps ==
    ASSUME UNCHANGED <<job, snap>>,
           \A l \in Leaf : /\ leaf'[l].status = leaf[l].status
                           /\ pw'[l].state = pw[l].state /\ wf'[l].state = wf[l].state
    PROVE  CustodySteps
<1>1. \A l \in Leaf : Keeper(l)' = Keeper(l)
  BY ZenonT(40) DEF Keeper, PwActive
<1>2. Keepers' = Keepers
  BY <1>1 DEF Keepers
<1>3. Statuses' = Statuses
  BY DEF Statuses
<1> QED
  BY <1>2, <1>3 DEF CustodySteps

\* Who the keeper is, before and after a step.
LEMMA KeeperIs ==
    ASSUME NEW l \in Leaf
    PROVE  /\ pw[l].state = "NONE" => Keeper(l) = "new"
           /\ PwActive(l) => Keeper(l) = "provider"
           /\ pw[l].state # "NONE" /\ ~PwActive(l) =>
                IF wf[l].state \in {"WAITING", "RESUMING"} THEN Keeper(l) = "copies" ELSE Keeper(l) = "gone"
BY DEF Keeper, PwActive, Active

LEMMA KeeperBecomes ==
    ASSUME NEW l \in Leaf
    PROVE  /\ PwActive(l)' => Keeper(l)' = "provider"
           /\ pw'[l].state # "NONE" /\ ~PwActive(l)' =>
                IF wf'[l].state \in {"WAITING", "RESUMING"} THEN Keeper(l)' = "copies" ELSE Keeper(l)' = "gone"
           /\ pw'[l].state = pw[l].state /\ wf'[l].state = wf[l].state => Keeper(l)' = Keeper(l)
BY DEF Keeper, PwActive, Active

\* A seal that goes through finds its leaf running.
LEMMA SealGuard ==
    ASSUME NEW s \in Slot, NEW l \in Leaf, slot[s].leaf = l, SealCurrentCopy(s), wf'[l] # wf[l]
    PROVE  LeafActive(l) /\ leaf[l].status = "IN_PROGRESS"
<1>1. (LeafActive(l) /\ leaf[l].status = "IN_PROGRESS") \/ wf' = wf
  BY ZenonT(40) DEF SealCurrentCopy, OwnsWork
<1> QED
  BY <1>1

\* The callback ends a leaf only under its own claim on the copies.
LEMMA ResumeMarkGuard ==
    ASSUME NEW s \in Slot, NEW l \in Leaf, slot[s].leaf = l, ResumeMarksPartition(s)
    PROVE  \/ wf[l].state = "RESUMING" /\ job # "CANCELLED"
           \/ leaf' = leaf
           \/ ~Terminal(l) /\ leaf' = [leaf EXCEPT ![l].status = "QUEUED"]
BY ZenonT(40) DEF ResumeMarksPartition, OwnsResume

\* What the two finalizers read before they settle the snapshot.
LEMMA FinalizeGuard ==
    ASSUME NEW s, TurnFinalizes(s) \/ FinalizePartitionedSnapshot, snap' # snap
    PROVE  /\ snap' \in {"COMPLETED", "PARTIAL"}
           /\ snap' = "COMPLETED" => \A l \in Leaf : leaf[l].status = "COMPLETED"
           /\ \A k, l \in Leaf : PwActive(k) /\ PwActive(l) => k = l
<1>1. snap' = Finalized
  BY ZenonT(40) DEF TurnFinalizes, FinalizePartitionedSnapshot
<1>2. /\ snap' \in {"COMPLETED", "PARTIAL"}
      /\ snap' = "COMPLETED" => \A l \in Leaf : Terminal(l) /\ leaf[l].status # "FAILED"
  BY <1>1 DEF Finalized
<1>3. TurnMay(s) \/ SettlerMay
  BY ZenonT(40) DEF TurnFinalizes, FinalizePartitionedSnapshot
<1>4. \E m : \A l \in Leaf \ {m} : ~PwActive(l)
  BY <1>3, ZenonT(40) DEF TurnMay, SettlerMay, SweepMay, ProviderSettlerMay, CopySettlerMay, NoProvider
<1> QED
  BY <1>2, <1>4 DEF Terminal
-----------------------------------------------------------------------------
(***************************************************************************)
(* The invariant, and which steps write a row, take a claim or move a      *)
(* token.                                                                  *)
(***************************************************************************)
\* Copies and turns come after the provider work row, which is never deleted.
Rows ==
    /\ \A l \in Leaf : wf[l].state # "NONE" => pw[l].state # "NONE"
    /\ \A s \in Slot : slot[s].pc \in Providing => pw[slot[s].leaf].state # "NONE"

\* Slot s holds the current claim on the work row of its leaf.
Claims(s) == pw[slot[s].leaf].state = "RESUMING" /\ pw[slot[s].leaf].claim = s

\* A turn that claims its row and is not past a successful mark finds the leaf
\* terminal only if it failed it: fail_exhausted_work rewrites no other verdict.
FailsOnce ==
    \A s \in Slot : slot[s].pc \in Capturing /\ Claims(s) /\ Terminal(slot[s].leaf)
                       => leaf[slot[s].leaf].status = "FAILED"

\* Past the mark, a turn that still owns row and leaf has made it terminal.
MarkedFirst ==
    \A s \in Slot : slot[s].pc \in Ending /\ Claims(s) /\ pw[slot[s].leaf].live /\ s \in fence[slot[s].leaf]
                       => Terminal(slot[s].leaf)

Owned == Rows /\ HandedOver /\ LeafCarried /\ BarrierHolds /\ FailsOnce /\ MarkedFirst
IInv == Shape /\ Owned
\* Of a step: a work row is never deleted, and a terminal leaf is not written.
RowStays == \A l \in Leaf : pw[l].state # "NONE" => pw'[l].state # "NONE"
VerdictKept == \A l \in Leaf : Terminal(l) => leaf'[l] = leaf[l]

\* Where the slots, the copies, the claims and the leaf's token come from.
SlotFrom == \A t \in Slot : slot'[t].pc \in Providing =>
    /\ slot'[t].leaf \in Leaf
    /\ \/ slot'[t].pc = "reserved" /\ pw[slot'[t].leaf].state # "NONE"
       \/ slot[t].pc \in Providing /\ slot'[t].leaf = slot[t].leaf
CopyFrom == \A l \in Leaf : wf'[l].state # "NONE" => wf[l].state # "NONE" \/ pw[l].state # "NONE"
TurnFrom == \A t \in Slot :
    /\ slot'[t].pc \in Capturing => /\ slot'[t].leaf = slot[t].leaf
                                    /\ slot[t].pc \in Capturing \/ leaf'[slot[t].leaf].status = "IN_PROGRESS"
    /\ slot'[t].pc \in Ending => /\ slot'[t].leaf = slot[t].leaf
                                 /\ slot[t].pc \in Ending \/ MarkPartitionTerminal(t)
ClaimFrom == \A l \in Leaf, t \in Slot : pw'[l].state = "RESUMING" /\ pw'[l].claim = t /\ slot'[t].pc # "reserved" =>
    pw[l].state = "RESUMING" /\ pw[l].claim = t /\ (pw'[l].live => pw[l].live)
TokenFrom == \A l \in Leaf, t \in Slot : t \in fence'[l] /\ slot'[t].pc \in Ending => t \in fence[l]
EndFrom == \A l \in Leaf : ~Terminal(l) /\ Terminal(l)' =>
    \/ leaf'[l].status = "FAILED"
    \/ pw[l].state # "RESUMING"
    \/ \E s \in Slot : pw[l].claim = s /\ slot'[s].pc = "marked"

\* A provider work row stays: only intake makes one, and only of none.
LEMMA RowStaysStep == IInv /\ [Next]_vars => RowStays
<1> SUFFICES ASSUME IInv, [Next]_vars PROVE RowStays
  OBVIOUS
<1> Shape
  BY DEF IInv
<1>1. ASSUME NEW s \in Slot, NEW l \in Leaf, slot[s].leaf = l, AdmitReserved(s) PROVE RowStays
  BY <1>1, AdmitEffect DEF RowStays, OnlyLeaf, SameWork, Closes
<1>2. ASSUME NEW s \in Slot, NEW l \in Leaf, slot[s].leaf = l, DeferCurrentCopy(s) PROVE RowStays
  BY <1>2, DeferEffect DEF RowStays
<1>3. ASSUME NEW s \in Slot, NEW l \in Leaf, slot[s].leaf = l, SealCurrentCopy(s) PROVE RowStays
  <2>1. OnlyLeaf(l) /\ (pw'[l] = pw[l] \/ Closes(l))
    BY <1>3, SealEffect, ZenonT(40) DEF SameWork
  <2> QED
    BY <2>1 DEF RowStays, OnlyLeaf, Closes
<1>4. ASSUME NEW s \in Slot, NEW l \in Leaf, slot[s].leaf = l, MarkPartitionTerminal(s) PROVE RowStays
  BY <1>4, MarkEffect DEF RowStays
<1>5. ASSUME NEW s \in Slot, NEW l \in Leaf, slot[s].leaf = l, FinishWork(s) PROVE RowStays
  BY <1>5, FinishEffect DEF RowStays, OnlyLeaf, Closes
<1>6. ASSUME NEW s \in Slot, NEW l \in Leaf, slot[s].leaf = l, FailExhaustedWork(s) PROVE RowStays
  BY <1>6, ExhaustEffect, ZenonT(40) DEF RowStays, OnlyLeaf, SameWork, Closes
<1>7. ASSUME NEW s \in Slot, NEW l \in Leaf, slot[s].leaf = l, RequeuePartitionForRetry(s) PROVE RowStays
  BY <1>7, RequeueEffect DEF RowStays
<1>8. ASSUME NEW s \in Slot, NEW l \in Leaf, slot[s].leaf = l, SuspendCurrentWork(s) PROVE RowStays
  BY <1>8, SuspendEffect DEF RowStays, OnlyLeaf, SameWork
<1>9. ASSUME NEW s \in Slot, NEW l \in Leaf, slot[s].leaf = l, TurnFails(s) \/ TurnFinalizes(s) \/ Crash(s) PROVE RowStays
  BY <1>9, SlotEffect DEF RowStays
<1>10. ASSUME NEW s \in Slot, NEW l \in Leaf, slot[s].leaf = l, ReadCopyOutcome(s) \/ FinishResume(s) PROVE RowStays
  BY <1>10, ResumeEffect DEF RowStays
<1>11. ASSUME NEW s \in Slot, NEW l \in Leaf, slot[s].leaf = l, ResumeMarksPartition(s) PROVE RowStays
  BY <1>11, ResumeMarkEffect DEF RowStays
<1>12. ASSUME NEW s \in Slot, NEW l \in Leaf, ReserveDueWork(s, l) PROVE RowStays
  BY <1>12, ReserveEffect DEF RowStays, OnlyLeaf
<1>13. ASSUME NEW s \in Slot, NEW l \in Leaf, BeginResume(s, l) PROVE RowStays
  BY <1>13, BeginEffect DEF RowStays
<1>14. ASSUME NEW l \in Leaf, EnsureWork(l) PROVE RowStays
  BY <1>14, EnsureEffect DEF RowStays, OnlyLeaf
<1>15. ASSUME NEW l \in Leaf, Abandon(l) PROVE RowStays
  BY <1>15, AbandonEffect DEF RowStays
<1>16. ASSUME NEW l \in Leaf, LeaseLapses(l) \/ FinishParentSettlement(l) PROVE RowStays
  BY <1>16, LapseEffect DEF RowStays
<1>17. ASSUME NEW l \in Leaf, DeadLetter(l) PROVE RowStays
  BY <1>17, DeadLetterEffect DEF RowStays
<1>18. ASSUME FinalizePartitionedSnapshot \/ UpdateJobStatus PROVE RowStays
  BY <1>18, SettleEffect DEF RowStays
<1>19. ASSUME CancelJob PROVE RowStays
  BY <1>19, CancelEffect DEF RowStays
<1>20. ASSUME UNCHANGED <<job, snap, leaf, fence, pw, wf, slot>> PROVE RowStays
  BY <1>20 DEF RowStays
<1> QED
  BY ZenonT(40), <1>1, <1>2, <1>3, <1>4, <1>5, <1>6, <1>7, <1>8, <1>9, <1>10, <1>11, <1>12, <1>13, <1>14, <1>15, <1>16, <1>17, <1>18, <1>19, <1>20, StepCases

\* A terminal leaf keeps its verdict.
LEMMA VerdictStep == IInv /\ [Next]_vars => VerdictKept
<1> SUFFICES ASSUME IInv, [Next]_vars PROVE VerdictKept
  OBVIOUS
<1> Shape /\ FailsOnce
  BY DEF IInv, Owned
<1>1. ASSUME NEW s \in Slot, NEW l \in Leaf, slot[s].leaf = l, AdmitReserved(s) PROVE VerdictKept
  BY <1>1, AdmitEffect, ZenonT(40) DEF VerdictKept, LeafActive, OnlyLeaf, SameLeaf, SameWork
<1>2. ASSUME NEW s \in Slot, NEW l \in Leaf, slot[s].leaf = l, DeferCurrentCopy(s) PROVE VerdictKept
  BY <1>2, DeferEffect DEF VerdictKept
<1>3. ASSUME NEW s \in Slot, NEW l \in Leaf, slot[s].leaf = l, SealCurrentCopy(s) PROVE VerdictKept
  BY <1>3, SealEffect DEF VerdictKept
<1>4. ASSUME NEW s \in Slot, NEW l \in Leaf, slot[s].leaf = l, MarkPartitionTerminal(s) PROVE VerdictKept
  BY <1>4, MarkEffect, ZenonT(40) DEF VerdictKept, OnlyLeaf
<1>5. ASSUME NEW s \in Slot, NEW l \in Leaf, slot[s].leaf = l, FinishWork(s) PROVE VerdictKept
  BY <1>5, FinishEffect, ZenonT(40) DEF VerdictKept, OnlyLeaf, SameLeaf
<1>6. ASSUME NEW s \in Slot, NEW l \in Leaf, slot[s].leaf = l, FailExhaustedWork(s) PROVE VerdictKept
  <2>1. /\ OnlyLeaf(l) /\ slot[s].pc = "exhausted"
        /\ leaf'[l] = leaf[l] \/ (Holds(s, l) /\ (leaf[l].status = "FAILED" => leaf'[l] = leaf[l]))
    BY <1>6, ExhaustEffect, ZenonT(40) DEF SameWork, SameLeaf
  <2>2. Terminal(l) => leaf'[l] = leaf[l]
    BY <1>6, <2>1 DEF FailsOnce, Capturing, Claims, Holds
  <2> QED
    BY <2>1, <2>2 DEF VerdictKept, OnlyLeaf
<1>7. ASSUME NEW s \in Slot, NEW l \in Leaf, slot[s].leaf = l, RequeuePartitionForRetry(s) PROVE VerdictKept
  BY <1>7, RequeueEffect DEF VerdictKept, OnlyLeaf, SameLeaf, SameWork, Terminal
<1>8. ASSUME NEW s \in Slot, NEW l \in Leaf, slot[s].leaf = l, SuspendCurrentWork(s) PROVE VerdictKept
  BY <1>8, SuspendEffect, ZenonT(40) DEF VerdictKept
<1>9. ASSUME NEW s \in Slot, NEW l \in Leaf, slot[s].leaf = l, TurnFails(s) \/ TurnFinalizes(s) \/ Crash(s) PROVE VerdictKept
  BY <1>9, SlotEffect DEF VerdictKept
<1>10. ASSUME NEW s \in Slot, NEW l \in Leaf, slot[s].leaf = l, ReadCopyOutcome(s) \/ FinishResume(s) PROVE VerdictKept
  BY <1>10, ResumeEffect DEF VerdictKept
<1>11. ASSUME NEW s \in Slot, NEW l \in Leaf, slot[s].leaf = l, ResumeMarksPartition(s) PROVE VerdictKept
  BY <1>11, ResumeMarkEffect DEF VerdictKept, OnlyLeaf
<1>12. ASSUME NEW s \in Slot, NEW l \in Leaf, ReserveDueWork(s, l) PROVE VerdictKept
  <2>1. OnlyLeaf(l) /\ leaf'[l] = leaf[l]
    BY <1>12, ReserveEffect, ZenonT(40) DEF SameLeaf
  <2> QED
    BY <2>1 DEF VerdictKept, OnlyLeaf
<1>13. ASSUME NEW s \in Slot, NEW l \in Leaf, BeginResume(s, l) PROVE VerdictKept
  BY <1>13, BeginEffect DEF VerdictKept
<1>14. ASSUME NEW l \in Leaf, EnsureWork(l) PROVE VerdictKept
  BY <1>14, EnsureEffect DEF VerdictKept
<1>15. ASSUME NEW l \in Leaf, Abandon(l) PROVE VerdictKept
  BY <1>15, AbandonEffect DEF VerdictKept
<1>16. ASSUME NEW l \in Leaf, LeaseLapses(l) \/ FinishParentSettlement(l) PROVE VerdictKept
  BY <1>16, LapseEffect DEF VerdictKept
<1>17. ASSUME NEW l \in Leaf, DeadLetter(l) PROVE VerdictKept
  BY <1>17, DeadLetterEffect DEF VerdictKept, OnlyLeaf
<1>18. ASSUME FinalizePartitionedSnapshot \/ UpdateJobStatus PROVE VerdictKept
  BY <1>18, SettleEffect DEF VerdictKept
<1>19. ASSUME CancelJob PROVE VerdictKept
  BY <1>19, CancelEffect DEF VerdictKept
<1>20. ASSUME UNCHANGED <<job, snap, leaf, fence, pw, wf, slot>> PROVE VerdictKept
  BY <1>20 DEF VerdictKept
<1> QED
  BY ZenonT(40), <1>1, <1>2, <1>3, <1>4, <1>5, <1>6, <1>7, <1>8, <1>9, <1>10, <1>11, <1>12, <1>13, <1>14, <1>15, <1>16, <1>17, <1>18, <1>19, <1>20, StepCases

\* A turn starts with a reservation.
LEMMA SlotFromStep == IInv /\ [Next]_vars => SlotFrom
<1> SUFFICES ASSUME IInv, [Next]_vars PROVE SlotFrom
  OBVIOUS
<1> Shape /\ Rows
  BY DEF IInv, Owned
<1> \A t \in Slot : slot[t].pc # "idle" => slot[t].leaf \in Leaf
  BY DEF Shape, SlotTyped
<1>1. ASSUME NEW s \in Slot, NEW l \in Leaf, slot[s].leaf = l, AdmitReserved(s) PROVE SlotFrom
  <2>1. slot[s].pc = "reserved" /\ OnlySlot(s) /\ (slot'[s].pc = "idle" \/ slot'[s].leaf = slot[s].leaf)
    BY <1>1, AdmitEffect, ZenonT(40) DEF Stops
  <2> QED
    BY <1>1, <2>1 DEF SlotFrom, Providing, Capturing, Ending, OnlySlot
<1>2. ASSUME NEW s \in Slot, NEW l \in Leaf, slot[s].leaf = l, DeferCurrentCopy(s) PROVE SlotFrom
  BY <1>2, DeferEffect DEF SlotFrom, Providing, Capturing, Ending
<1>3. ASSUME NEW s \in Slot, NEW l \in Leaf, slot[s].leaf = l, SealCurrentCopy(s) PROVE SlotFrom
  <2>1. slot[s].pc = "turn" /\ OnlySlot(s) /\ (slot'[s].pc = "idle" \/ slot'[s].leaf = l)
    BY <1>3, SealEffect, ZenonT(40) DEF Stops
  <2> QED
    BY <1>3, <2>1 DEF SlotFrom, Providing, Capturing, Ending, OnlySlot
<1>4. ASSUME NEW s \in Slot, NEW l \in Leaf, slot[s].leaf = l, MarkPartitionTerminal(s) PROVE SlotFrom
  <2>1. slot[s].pc \in {"turn", "failing"} /\ OnlySlot(s) /\ slot'[s].leaf = l
    BY <1>4, MarkEffect, ZenonT(40)
  <2> QED
    BY <1>4, <2>1 DEF SlotFrom, Providing, Capturing, Ending, OnlySlot
<1>5. ASSUME NEW s \in Slot, NEW l \in Leaf, slot[s].leaf = l, FinishWork(s) PROVE SlotFrom
  BY <1>5, FinishEffect DEF SlotFrom, Providing, Capturing, Ending, Stops, OnlySlot
<1>6. ASSUME NEW s \in Slot, NEW l \in Leaf, slot[s].leaf = l, FailExhaustedWork(s) PROVE SlotFrom
  <2>1. OnlySlot(s) /\ slot'[s].pc = "idle"
    BY <1>6, ExhaustEffect, ZenonT(40) DEF Stops
  <2> QED
    BY <1>6, <2>1 DEF SlotFrom, Providing, Capturing, Ending, OnlySlot
<1>7. ASSUME NEW s \in Slot, NEW l \in Leaf, slot[s].leaf = l, RequeuePartitionForRetry(s) PROVE SlotFrom
  BY <1>7, RequeueEffect DEF SlotFrom, Providing, Capturing, Ending, OnlySlot
<1>8. ASSUME NEW s \in Slot, NEW l \in Leaf, slot[s].leaf = l, SuspendCurrentWork(s) PROVE SlotFrom
  BY <1>8, SuspendEffect DEF SlotFrom, Providing, Capturing, Ending, Stops, OnlySlot
<1>9. ASSUME NEW s \in Slot, NEW l \in Leaf, slot[s].leaf = l, TurnFails(s) \/ TurnFinalizes(s) \/ Crash(s) PROVE SlotFrom
  <2>1. /\ OnlySlot(s)
        /\ slot'[s].pc = "idle" \/ ((slot[s].pc \in Capturing \/ slot[s].pc = "marked") /\ slot'[s].leaf = l)
    BY <1>9, SlotEffect, ZenonT(40)
  <2> QED
    BY <1>9, <2>1 DEF SlotFrom, Providing, Capturing, Ending, OnlySlot
<1>10. ASSUME NEW s \in Slot, NEW l \in Leaf, slot[s].leaf = l, ReadCopyOutcome(s) \/ FinishResume(s) PROVE SlotFrom
  BY <1>10, ResumeEffect DEF SlotFrom, Providing, Capturing, Ending, OnlySlot
<1>11. ASSUME NEW s \in Slot, NEW l \in Leaf, slot[s].leaf = l, ResumeMarksPartition(s) PROVE SlotFrom
  BY <1>11, ResumeMarkEffect DEF SlotFrom, Providing, Capturing, Ending, OnlySlot
<1>12. ASSUME NEW s \in Slot, NEW l \in Leaf, ReserveDueWork(s, l) PROVE SlotFrom
  <2>1. OnlySlot(s) /\ slot'[s].pc = "reserved" /\ slot'[s].leaf = l /\ pw[l].state # "NONE"
    BY <1>12, ReserveEffect, ZenonT(40)
  <2> QED
    BY <1>12, <2>1 DEF SlotFrom, Providing, Capturing, Ending, OnlySlot
<1>13. ASSUME NEW s \in Slot, NEW l \in Leaf, BeginResume(s, l) PROVE SlotFrom
  BY <1>13, BeginEffect, ZenonT(40) DEF SlotFrom, Providing, Capturing, Ending, OnlySlot
<1>14. ASSUME NEW l \in Leaf, EnsureWork(l) PROVE SlotFrom
  BY <1>14, EnsureEffect DEF SlotFrom, Providing, Capturing, Ending
<1>15. ASSUME NEW l \in Leaf, Abandon(l) PROVE SlotFrom
  BY <1>15, AbandonEffect DEF SlotFrom, Providing, Capturing, Ending
<1>16. ASSUME NEW l \in Leaf, LeaseLapses(l) \/ FinishParentSettlement(l) PROVE SlotFrom
  BY <1>16, LapseEffect DEF SlotFrom, Providing, Capturing, Ending
<1>17. ASSUME NEW l \in Leaf, DeadLetter(l) PROVE SlotFrom
  BY <1>17, DeadLetterEffect DEF SlotFrom, Providing, Capturing, Ending
<1>18. ASSUME FinalizePartitionedSnapshot \/ UpdateJobStatus PROVE SlotFrom
  BY <1>18, SettleEffect DEF SlotFrom, Providing, Capturing, Ending
<1>19. ASSUME CancelJob PROVE SlotFrom
  BY <1>19, CancelEffect DEF SlotFrom, Providing, Capturing, Ending
<1>20. ASSUME UNCHANGED <<job, snap, leaf, fence, pw, wf, slot>> PROVE SlotFrom
  BY <1>20 DEF SlotFrom, Providing, Capturing, Ending
<1> QED
  BY ZenonT(40), <1>1, <1>2, <1>3, <1>4, <1>5, <1>6, <1>7, <1>8, <1>9, <1>10, <1>11, <1>12, <1>13, <1>14, <1>15, <1>16, <1>17, <1>18, <1>19, <1>20, StepCases

\* A copy is registered by a turn.
LEMMA CopyFromStep == IInv /\ [Next]_vars => CopyFrom
<1> SUFFICES ASSUME IInv, [Next]_vars PROVE CopyFrom
  OBVIOUS
<1> Shape /\ Rows
  BY DEF IInv, Owned
<1>1. ASSUME NEW s \in Slot, NEW l \in Leaf, slot[s].leaf = l, AdmitReserved(s) PROVE CopyFrom
  BY <1>1, AdmitEffect, ZenonT(40) DEF CopyFrom
<1>2. ASSUME NEW s \in Slot, NEW l \in Leaf, slot[s].leaf = l, DeferCurrentCopy(s) PROVE CopyFrom
  <2>1. OnlyLeaf(l) /\ slot[s].pc = "turn"
    BY <1>2, DeferEffect, ZenonT(40)
  <2>2. pw[l].state # "NONE"
    BY <1>2, <2>1 DEF Rows, Providing, Capturing
  <2> QED
    BY <2>1, <2>2 DEF CopyFrom, OnlyLeaf
<1>3. ASSUME NEW s \in Slot, NEW l \in Leaf, slot[s].leaf = l, SealCurrentCopy(s) PROVE CopyFrom
  BY <1>3, SealEffect, ZenonT(40) DEF CopyFrom, OnlyLeaf
<1>4. ASSUME NEW s \in Slot, NEW l \in Leaf, slot[s].leaf = l, MarkPartitionTerminal(s) PROVE CopyFrom
  BY <1>4, MarkEffect, ZenonT(40) DEF CopyFrom
<1>5. ASSUME NEW s \in Slot, NEW l \in Leaf, slot[s].leaf = l, FinishWork(s) PROVE CopyFrom
  BY <1>5, FinishEffect, ZenonT(40) DEF CopyFrom, OnlyLeaf, SameLeaf
<1>6. ASSUME NEW s \in Slot, NEW l \in Leaf, slot[s].leaf = l, FailExhaustedWork(s) PROVE CopyFrom
  BY <1>6, ExhaustEffect DEF Rows, CopyFrom, Providing, Capturing, OnlyLeaf
<1>7. ASSUME NEW s \in Slot, NEW l \in Leaf, slot[s].leaf = l, RequeuePartitionForRetry(s) PROVE CopyFrom
  BY <1>7, RequeueEffect DEF CopyFrom
<1>8. ASSUME NEW s \in Slot, NEW l \in Leaf, slot[s].leaf = l, SuspendCurrentWork(s) PROVE CopyFrom
  BY <1>8, SuspendEffect DEF CopyFrom
<1>9. ASSUME NEW s \in Slot, NEW l \in Leaf, slot[s].leaf = l, TurnFails(s) \/ TurnFinalizes(s) \/ Crash(s) PROVE CopyFrom
  BY <1>9, SlotEffect DEF CopyFrom
<1>10. ASSUME NEW s \in Slot, NEW l \in Leaf, slot[s].leaf = l, ReadCopyOutcome(s) \/ FinishResume(s) PROVE CopyFrom
  BY <1>10, ResumeEffect DEF CopyFrom, OnlyLeaf
<1>11. ASSUME NEW s \in Slot, NEW l \in Leaf, slot[s].leaf = l, ResumeMarksPartition(s) PROVE CopyFrom
  BY <1>11, ResumeMarkEffect DEF CopyFrom, OnlyLeaf
<1>12. ASSUME NEW s \in Slot, NEW l \in Leaf, ReserveDueWork(s, l) PROVE CopyFrom
  BY <1>12, ReserveEffect, ZenonT(40) DEF CopyFrom, OnlyLeaf
<1>13. ASSUME NEW s \in Slot, NEW l \in Leaf, BeginResume(s, l) PROVE CopyFrom
  BY <1>13, BeginEffect, ZenonT(40) DEF CopyFrom, OnlyLeaf
<1>14. ASSUME NEW l \in Leaf, EnsureWork(l) PROVE CopyFrom
  BY <1>14, EnsureEffect DEF CopyFrom
<1>15. ASSUME NEW l \in Leaf, Abandon(l) PROVE CopyFrom
  BY <1>15, AbandonEffect, ZenonT(40) DEF CopyFrom, WfActive, Active, OnlyLeaf
<1>16. ASSUME NEW l \in Leaf, LeaseLapses(l) \/ FinishParentSettlement(l) PROVE CopyFrom
  BY <1>16, LapseEffect DEF CopyFrom
<1>17. ASSUME NEW l \in Leaf, DeadLetter(l) PROVE CopyFrom
  BY <1>17, DeadLetterEffect DEF CopyFrom
<1>18. ASSUME FinalizePartitionedSnapshot \/ UpdateJobStatus PROVE CopyFrom
  BY <1>18, SettleEffect DEF CopyFrom
<1>19. ASSUME CancelJob PROVE CopyFrom
  BY <1>19, CancelEffect DEF CopyFrom
<1>20. ASSUME UNCHANGED <<job, snap, leaf, fence, pw, wf, slot>> PROVE CopyFrom
  BY <1>20 DEF CopyFrom
<1> QED
  BY ZenonT(40), <1>1, <1>2, <1>3, <1>4, <1>5, <1>6, <1>7, <1>8, <1>9, <1>10, <1>11, <1>12, <1>13, <1>14, <1>15, <1>16, <1>17, <1>18, <1>19, <1>20, StepCases

\* A turn is admitted before it captures, and captures before it ends.
LEMMA TurnFromStep == IInv /\ [Next]_vars => TurnFrom
<1> SUFFICES ASSUME IInv, [Next]_vars PROVE TurnFrom
  OBVIOUS
<1> Shape
  BY DEF IInv
<1>1. ASSUME NEW s \in Slot, NEW l \in Leaf, slot[s].leaf = l, AdmitReserved(s) PROVE TurnFrom
  <2>1. /\ OnlySlot(s)
        /\ \/ slot'[s].pc = "idle"
           \/ slot'[s].pc = "turn" /\ slot'[s].leaf = slot[s].leaf /\ leaf'[slot[s].leaf].status = "IN_PROGRESS"
    BY <1>1, AdmitEffect, ZenonT(40) DEF Stops
  <2> QED
    BY <1>1, <2>1 DEF TurnFrom, Capturing, Ending, OnlySlot
<1>2. ASSUME NEW s \in Slot, NEW l \in Leaf, slot[s].leaf = l, DeferCurrentCopy(s) PROVE TurnFrom
  BY <1>2, DeferEffect, ZenonT(40) DEF TurnFrom
<1>3. ASSUME NEW s \in Slot, NEW l \in Leaf, slot[s].leaf = l, SealCurrentCopy(s) PROVE TurnFrom
  BY <1>3, SealEffect, ZenonT(40) DEF TurnFrom, Capturing, Ending, Stops, OnlySlot
<1>4. ASSUME NEW s \in Slot, NEW l \in Leaf, slot[s].leaf = l, MarkPartitionTerminal(s) PROVE TurnFrom
  <2>1. /\ OnlySlot(s) /\ slot'[s].leaf = l
        /\ slot'[s].pc = "marked" \/ (slot[s].pc = "failing" /\ slot'[s].pc = "raised")
    BY <1>4, MarkEffect, ZenonT(40)
  <2> QED
    BY <1>4, <2>1 DEF TurnFrom, Capturing, OnlySlot
<1>5. ASSUME NEW s \in Slot, NEW l \in Leaf, slot[s].leaf = l, FinishWork(s) PROVE TurnFrom
  BY <1>5, FinishEffect DEF TurnFrom, Capturing, Ending, Stops, OnlySlot
<1>6. ASSUME NEW s \in Slot, NEW l \in Leaf, slot[s].leaf = l, FailExhaustedWork(s) PROVE TurnFrom
  BY <1>6, ExhaustEffect, ZenonT(40) DEF TurnFrom, Capturing, Ending, Stops, OnlySlot
<1>7. ASSUME NEW s \in Slot, NEW l \in Leaf, slot[s].leaf = l, RequeuePartitionForRetry(s) PROVE TurnFrom
  <2>1. slot[s].pc = "turn" /\ OnlySlot(s) /\ slot'[s].pc \in {"raised", "failing"} /\ slot'[s].leaf = l
    BY <1>7, RequeueEffect, ZenonT(40)
  <2> QED
    BY <1>7, <2>1 DEF TurnFrom, Capturing, Ending, OnlySlot
<1>8. ASSUME NEW s \in Slot, NEW l \in Leaf, slot[s].leaf = l, SuspendCurrentWork(s) PROVE TurnFrom
  BY <1>8, SuspendEffect, ZenonT(40) DEF TurnFrom, Capturing, Ending, Stops, OnlySlot
<1>9. ASSUME NEW s \in Slot, NEW l \in Leaf, slot[s].leaf = l, TurnFails(s) \/ TurnFinalizes(s) \/ Crash(s) PROVE TurnFrom
  BY <1>9, SlotEffect DEF TurnFrom, Capturing, Ending, OnlySlot
<1>10. ASSUME NEW s \in Slot, NEW l \in Leaf, slot[s].leaf = l, ReadCopyOutcome(s) \/ FinishResume(s) PROVE TurnFrom
  BY <1>10, ResumeEffect, ZenonT(40) DEF TurnFrom, Capturing, Ending, OnlySlot
<1>11. ASSUME NEW s \in Slot, NEW l \in Leaf, slot[s].leaf = l, ResumeMarksPartition(s) PROVE TurnFrom
  BY <1>11, ResumeMarkEffect, ZenonT(40) DEF TurnFrom, Capturing, Ending, OnlySlot
<1>12. ASSUME NEW s \in Slot, NEW l \in Leaf, ReserveDueWork(s, l) PROVE TurnFrom
  BY <1>12, ReserveEffect, ZenonT(40) DEF TurnFrom, Capturing, Ending, OnlySlot
<1>13. ASSUME NEW s \in Slot, NEW l \in Leaf, BeginResume(s, l) PROVE TurnFrom
  BY <1>13, BeginEffect, ZenonT(40) DEF TurnFrom, Capturing, Ending, OnlySlot
<1>14. ASSUME NEW l \in Leaf, EnsureWork(l) PROVE TurnFrom
  BY <1>14, EnsureEffect, ZenonT(40) DEF TurnFrom
<1>15. ASSUME NEW l \in Leaf, Abandon(l) PROVE TurnFrom
  BY <1>15, AbandonEffect DEF TurnFrom
<1>16. ASSUME NEW l \in Leaf, LeaseLapses(l) \/ FinishParentSettlement(l) PROVE TurnFrom
  BY <1>16, LapseEffect DEF TurnFrom
<1>17. ASSUME NEW l \in Leaf, DeadLetter(l) PROVE TurnFrom
  BY <1>17, DeadLetterEffect DEF TurnFrom
<1>18. ASSUME FinalizePartitionedSnapshot \/ UpdateJobStatus PROVE TurnFrom
  BY <1>18, SettleEffect DEF TurnFrom
<1>19. ASSUME CancelJob PROVE TurnFrom
  BY <1>19, CancelEffect DEF TurnFrom
<1>20. ASSUME UNCHANGED <<job, snap, leaf, fence, pw, wf, slot>> PROVE TurnFrom
  BY <1>20 DEF TurnFrom
<1> QED
  BY ZenonT(40), <1>1, <1>2, <1>3, <1>4, <1>5, <1>6, <1>7, <1>8, <1>9, <1>10, <1>11, <1>12, <1>13, <1>14, <1>15, <1>16, <1>17, <1>18, <1>19, <1>20, StepCases

\* A claim is got by reserving.
LEMMA ClaimStep == IInv /\ [Next]_vars => ClaimFrom
<1> SUFFICES ASSUME IInv, [Next]_vars PROVE ClaimFrom
  OBVIOUS
<1> Shape
  BY DEF IInv
<1>1. ASSUME NEW s \in Slot, NEW l \in Leaf, slot[s].leaf = l, AdmitReserved(s) PROVE ClaimFrom
  <2>1. OnlyLeaf(l) /\ (pw'[l] = pw[l] \/ pw'[l].claim = None \/ pw'[l].state = "DONE")
    BY <1>1, AdmitEffect DEF Closes, SameWork
  <2> QED
    BY <1>1, <2>1, LeafAssumption DEF ClaimFrom, OnlyLeaf
<1>2. ASSUME NEW s \in Slot, NEW l \in Leaf, slot[s].leaf = l, DeferCurrentCopy(s) PROVE ClaimFrom
  BY <1>2, DeferEffect DEF ClaimFrom
<1>3. ASSUME NEW s \in Slot, NEW l \in Leaf, slot[s].leaf = l, SealCurrentCopy(s) PROVE ClaimFrom
  <2>1. OnlyLeaf(l) /\ (pw'[l] = pw[l] \/ pw'[l].state = "DONE")
    BY <1>3, SealEffect, ZenonT(40) DEF SameWork, Closes
  <2> QED
    BY <2>1 DEF ClaimFrom, OnlyLeaf
<1>4. ASSUME NEW s \in Slot, NEW l \in Leaf, slot[s].leaf = l, MarkPartitionTerminal(s) PROVE ClaimFrom
  BY <1>4, MarkEffect DEF ClaimFrom
<1>5. ASSUME NEW s \in Slot, NEW l \in Leaf, slot[s].leaf = l, FinishWork(s) PROVE ClaimFrom
  <2>1. OnlyLeaf(l) /\ (pw'[l] = pw[l] \/ Closes(l))
    BY <1>5, FinishEffect, ZenonT(40)
  <2> QED
    BY <2>1 DEF ClaimFrom, OnlyLeaf, Closes
<1>6. ASSUME NEW s \in Slot, NEW l \in Leaf, slot[s].leaf = l, FailExhaustedWork(s) PROVE ClaimFrom
  <2>1. OnlyLeaf(l) /\ (pw'[l] = pw[l] \/ pw'[l].state = "DONE")
    BY <1>6, ExhaustEffect, ZenonT(40) DEF SameWork, Closes
  <2> QED
    BY <2>1 DEF ClaimFrom, OnlyLeaf
<1>7. ASSUME NEW s \in Slot, NEW l \in Leaf, slot[s].leaf = l, RequeuePartitionForRetry(s) PROVE ClaimFrom
  BY <1>7, RequeueEffect DEF ClaimFrom
<1>8. ASSUME NEW s \in Slot, NEW l \in Leaf, slot[s].leaf = l, SuspendCurrentWork(s) PROVE ClaimFrom
  BY <1>8, SuspendEffect DEF ClaimFrom, OnlyLeaf, SameWork
<1>9. ASSUME NEW s \in Slot, NEW l \in Leaf, slot[s].leaf = l, TurnFails(s) \/ TurnFinalizes(s) \/ Crash(s) PROVE ClaimFrom
  BY <1>9, SlotEffect, ZenonT(40) DEF ClaimFrom
<1>10. ASSUME NEW s \in Slot, NEW l \in Leaf, slot[s].leaf = l, ReadCopyOutcome(s) \/ FinishResume(s) PROVE ClaimFrom
  BY <1>10, ResumeEffect DEF ClaimFrom
<1>11. ASSUME NEW s \in Slot, NEW l \in Leaf, slot[s].leaf = l, ResumeMarksPartition(s) PROVE ClaimFrom
  BY <1>11, ResumeMarkEffect DEF ClaimFrom
<1>12. ASSUME NEW s \in Slot, NEW l \in Leaf, ReserveDueWork(s, l) PROVE ClaimFrom
  <2>1. OnlyLeaf(l) /\ pw'[l].claim = s /\ slot'[s].pc = "reserved"
    BY <1>12, ReserveEffect, ZenonT(40)
  <2> QED
    BY <2>1 DEF ClaimFrom, OnlyLeaf
<1>13. ASSUME NEW s \in Slot, NEW l \in Leaf, BeginResume(s, l) PROVE ClaimFrom
  BY <1>13, BeginEffect DEF ClaimFrom
<1>14. ASSUME NEW l \in Leaf, EnsureWork(l) PROVE ClaimFrom
  BY <1>14, EnsureEffect DEF ClaimFrom, OnlyLeaf
<1>15. ASSUME NEW l \in Leaf, Abandon(l) PROVE ClaimFrom
  BY <1>15, AbandonEffect DEF ClaimFrom
<1>16. ASSUME NEW l \in Leaf, LeaseLapses(l) \/ FinishParentSettlement(l) PROVE ClaimFrom
  BY <1>16, LapseEffect DEF ClaimFrom
<1>17. ASSUME NEW l \in Leaf, DeadLetter(l) PROVE ClaimFrom
  BY <1>17, DeadLetterEffect DEF ClaimFrom
<1>18. ASSUME FinalizePartitionedSnapshot \/ UpdateJobStatus PROVE ClaimFrom
  BY <1>18, SettleEffect DEF ClaimFrom
<1>19. ASSUME CancelJob PROVE ClaimFrom
  BY <1>19, CancelEffect DEF ClaimFrom
<1>20. ASSUME UNCHANGED <<job, snap, leaf, fence, pw, wf, slot>> PROVE ClaimFrom
  BY <1>20 DEF ClaimFrom
<1> QED
  BY ZenonT(40), <1>1, <1>2, <1>3, <1>4, <1>5, <1>6, <1>7, <1>8, <1>9, <1>10, <1>11, <1>12, <1>13, <1>14, <1>15, <1>16, <1>17, <1>18, <1>19, <1>20, StepCases

\* The leaf's token is got by admission or resumption.
LEMMA TokenStep == IInv /\ [Next]_vars => TokenFrom
<1> SUFFICES ASSUME IInv, [Next]_vars PROVE TokenFrom
  OBVIOUS
<1> Shape
  BY DEF IInv
<1>1. ASSUME NEW s \in Slot, NEW l \in Leaf, slot[s].leaf = l, AdmitReserved(s) PROVE TokenFrom
  <2>1. /\ OnlyLeaf(l) /\ OnlySlot(s)
        /\ fence'[l] = fence[l] \/ (slot'[s].pc = "turn" /\ fence'[l] \subseteq {"pw", "wf", s})
    BY <1>1, AdmitEffect, ZenonT(40) DEF SameLeaf, SameWork
  <2> QED
    BY <1>1, <2>1, LeafAssumption DEF TokenFrom, Ending, OnlyLeaf
<1>2. ASSUME NEW s \in Slot, NEW l \in Leaf, slot[s].leaf = l, DeferCurrentCopy(s) PROVE TokenFrom
  <2>1. OnlyLeaf(l) /\ fence'[l] = fence[l] \cup {"wf"}
    BY <1>2, DeferEffect
  <2> QED
    BY <1>2, <2>1, LeafAssumption DEF TokenFrom, OnlyLeaf
<1>3. ASSUME NEW s \in Slot, NEW l \in Leaf, slot[s].leaf = l, SealCurrentCopy(s) PROVE TokenFrom
  <2>1. OnlyLeaf(l) /\ (fence'[l] = fence[l] \/ fence'[l] = {"wf"})
    BY <1>3, SealEffect DEF SameLeaf, SameWork
  <2> QED
    BY <1>3, <2>1, LeafAssumption DEF TokenFrom, OnlyLeaf
<1>4. ASSUME NEW s \in Slot, NEW l \in Leaf, slot[s].leaf = l, MarkPartitionTerminal(s) PROVE TokenFrom
  BY <1>4, MarkEffect DEF TokenFrom
<1>5. ASSUME NEW s \in Slot, NEW l \in Leaf, slot[s].leaf = l, FinishWork(s) PROVE TokenFrom
  BY <1>5, FinishEffect DEF TokenFrom, OnlyLeaf, SameLeaf
<1>6. ASSUME NEW s \in Slot, NEW l \in Leaf, slot[s].leaf = l, FailExhaustedWork(s) PROVE TokenFrom
  BY <1>6, ExhaustEffect, ZenonT(40) DEF TokenFrom
<1>7. ASSUME NEW s \in Slot, NEW l \in Leaf, slot[s].leaf = l, RequeuePartitionForRetry(s) PROVE TokenFrom
  BY <1>7, RequeueEffect, ZenonT(40) DEF TokenFrom, OnlyLeaf, SameLeaf, SameWork
<1>8. ASSUME NEW s \in Slot, NEW l \in Leaf, slot[s].leaf = l, SuspendCurrentWork(s) PROVE TokenFrom
  <2>1. OnlyLeaf(l) /\ (fence'[l] = fence[l] \/ fence'[l] = {"pw"})
    BY <1>8, SuspendEffect, ZenonT(40) DEF SameLeaf, SameWork
  <2> QED
    BY <2>1, LeafAssumption DEF TokenFrom, OnlyLeaf
<1>9. ASSUME NEW s \in Slot, NEW l \in Leaf, slot[s].leaf = l, TurnFails(s) \/ TurnFinalizes(s) \/ Crash(s) PROVE TokenFrom
  BY <1>9, SlotEffect, ZenonT(40) DEF TokenFrom
<1>10. ASSUME NEW s \in Slot, NEW l \in Leaf, slot[s].leaf = l, ReadCopyOutcome(s) \/ FinishResume(s) PROVE TokenFrom
  BY <1>10, ResumeEffect DEF TokenFrom
<1>11. ASSUME NEW s \in Slot, NEW l \in Leaf, slot[s].leaf = l, ResumeMarksPartition(s) PROVE TokenFrom
  BY <1>11, ResumeMarkEffect DEF TokenFrom
<1>12. ASSUME NEW s \in Slot, NEW l \in Leaf, ReserveDueWork(s, l) PROVE TokenFrom
  BY <1>12, ReserveEffect DEF TokenFrom, OnlyLeaf, SameLeaf
<1>13. ASSUME NEW s \in Slot, NEW l \in Leaf, BeginResume(s, l) PROVE TokenFrom
  BY <1>13, BeginEffect, LeafAssumption DEF TokenFrom, Ending, OnlyLeaf
<1>14. ASSUME NEW l \in Leaf, EnsureWork(l) PROVE TokenFrom
  BY <1>14, EnsureEffect, LeafAssumption DEF TokenFrom, OnlyLeaf
<1>15. ASSUME NEW l \in Leaf, Abandon(l) PROVE TokenFrom
  BY <1>15, AbandonEffect, ZenonT(40) DEF TokenFrom
<1>16. ASSUME NEW l \in Leaf, LeaseLapses(l) \/ FinishParentSettlement(l) PROVE TokenFrom
  BY <1>16, LapseEffect DEF TokenFrom
<1>17. ASSUME NEW l \in Leaf, DeadLetter(l) PROVE TokenFrom
  BY <1>17, DeadLetterEffect DEF TokenFrom, OnlyLeaf
<1>18. ASSUME FinalizePartitionedSnapshot \/ UpdateJobStatus PROVE TokenFrom
  BY <1>18, SettleEffect DEF TokenFrom
<1>19. ASSUME CancelJob PROVE TokenFrom
  BY <1>19, CancelEffect DEF TokenFrom
<1>20. ASSUME UNCHANGED <<job, snap, leaf, fence, pw, wf, slot>> PROVE TokenFrom
  BY <1>20 DEF TokenFrom
<1> QED
  BY ZenonT(40), <1>1, <1>2, <1>3, <1>4, <1>5, <1>6, <1>7, <1>8, <1>9, <1>10, <1>11, <1>12, <1>13, <1>14, <1>15, <1>16, <1>17, <1>18, <1>19, <1>20, StepCases

\* Whoever ends the leaf of a claimed row holds the claim.
LEMMA EndStep == IInv /\ [Next]_vars => EndFrom
<1> SUFFICES ASSUME IInv, [Next]_vars PROVE EndFrom
  OBVIOUS
<1> Shape
  BY DEF IInv
<1>1. ASSUME NEW s \in Slot, NEW l \in Leaf, slot[s].leaf = l, AdmitReserved(s) PROVE EndFrom
  <2>1. OnlyLeaf(l) /\ (leaf'[l] = leaf[l] \/ leaf'[l].status = "IN_PROGRESS")
    BY <1>1, AdmitEffect, ZenonT(40) DEF SameLeaf, SameWork
  <2> QED
    BY <1>1, <2>1 DEF EndFrom, Terminal, OnlyLeaf
<1>2. ASSUME NEW s \in Slot, NEW l \in Leaf, slot[s].leaf = l, DeferCurrentCopy(s) PROVE EndFrom
  BY <1>2, DeferEffect, ZenonT(40) DEF EndFrom, Terminal
<1>3. ASSUME NEW s \in Slot, NEW l \in Leaf, slot[s].leaf = l, SealCurrentCopy(s) PROVE EndFrom
  BY <1>3, SealEffect DEF EndFrom, Terminal
<1>4. ASSUME NEW s \in Slot, NEW l \in Leaf, slot[s].leaf = l, MarkPartitionTerminal(s) PROVE EndFrom
  <2>1. /\ OnlyLeaf(l)
        /\ leaf'[l] = leaf[l] \/ leaf'[l].status = "FAILED" \/ (Holds(s, l) /\ slot'[s].pc = "marked")
    BY <1>4, MarkEffect, ZenonT(40)
  <2> QED
    BY <1>4, <2>1, ZenonT(40) DEF EndFrom, Holds, Terminal, OnlyLeaf
<1>5. ASSUME NEW s \in Slot, NEW l \in Leaf, slot[s].leaf = l, FinishWork(s) PROVE EndFrom
  <2>1. OnlyLeaf(l) /\ leaf'[l] = leaf[l]
    BY <1>5, FinishEffect, ZenonT(40) DEF SameLeaf
  <2> QED
    BY <2>1 DEF EndFrom, Terminal, OnlyLeaf
<1>6. ASSUME NEW s \in Slot, NEW l \in Leaf, slot[s].leaf = l, FailExhaustedWork(s) PROVE EndFrom
  <2>1. OnlyLeaf(l) /\ (leaf'[l] = leaf[l] \/ leaf'[l].status = "FAILED")
    BY <1>6, ExhaustEffect, ZenonT(40) DEF SameLeaf, SameWork
  <2> QED
    BY <1>6, <2>1 DEF EndFrom, Terminal, OnlyLeaf
<1>7. ASSUME NEW s \in Slot, NEW l \in Leaf, slot[s].leaf = l, RequeuePartitionForRetry(s) PROVE EndFrom
  BY <1>7, RequeueEffect, ZenonT(40) DEF EndFrom, Terminal, OnlyLeaf, SameLeaf, SameWork
<1>8. ASSUME NEW s \in Slot, NEW l \in Leaf, slot[s].leaf = l, SuspendCurrentWork(s) PROVE EndFrom
  BY <1>8, SuspendEffect, ZenonT(40) DEF EndFrom, Terminal
<1>9. ASSUME NEW s \in Slot, NEW l \in Leaf, slot[s].leaf = l, TurnFails(s) \/ TurnFinalizes(s) \/ Crash(s) PROVE EndFrom
  BY <1>9, SlotEffect, ZenonT(40) DEF EndFrom, Terminal
<1>10. ASSUME NEW s \in Slot, NEW l \in Leaf, slot[s].leaf = l, ReadCopyOutcome(s) \/ FinishResume(s) PROVE EndFrom
  BY <1>10, ResumeEffect DEF EndFrom, Terminal
<1>11. ASSUME NEW s \in Slot, NEW l \in Leaf, slot[s].leaf = l, ResumeMarksPartition(s) PROVE EndFrom
  <2>1. OnlyLeaf(l) /\ (leaf'[l] = leaf[l] \/ leaf'[l].status = "QUEUED" \/ ~PwActive(l))
    BY <1>11, ResumeMarkEffect, ZenonT(40)
  <2> QED
    BY <2>1 DEF EndFrom, Terminal, OnlyLeaf, PwActive, Active
<1>12. ASSUME NEW s \in Slot, NEW l \in Leaf, ReserveDueWork(s, l) PROVE EndFrom
  BY <1>12, ReserveEffect DEF EndFrom, Terminal, OnlyLeaf, SameLeaf
<1>13. ASSUME NEW s \in Slot, NEW l \in Leaf, BeginResume(s, l) PROVE EndFrom
  BY <1>13, BeginEffect, ZenonT(40) DEF EndFrom, Terminal
<1>14. ASSUME NEW l \in Leaf, EnsureWork(l) PROVE EndFrom
  BY <1>14, EnsureEffect DEF EndFrom, Terminal
<1>15. ASSUME NEW l \in Leaf, Abandon(l) PROVE EndFrom
  BY <1>15, AbandonEffect, ZenonT(40) DEF EndFrom, Terminal
<1>16. ASSUME NEW l \in Leaf, LeaseLapses(l) \/ FinishParentSettlement(l) PROVE EndFrom
  BY <1>16, LapseEffect, ZenonT(40) DEF EndFrom, Terminal
<1>17. ASSUME NEW l \in Leaf, DeadLetter(l) PROVE EndFrom
  BY <1>17, DeadLetterEffect DEF EndFrom, Terminal, OnlyLeaf
<1>18. ASSUME FinalizePartitionedSnapshot \/ UpdateJobStatus PROVE EndFrom
  BY <1>18, SettleEffect DEF EndFrom, Terminal
<1>19. ASSUME CancelJob PROVE EndFrom
  BY <1>19, CancelEffect, ZenonT(40) DEF EndFrom, Terminal
<1>20. ASSUME UNCHANGED <<job, snap, leaf, fence, pw, wf, slot>> PROVE EndFrom
  BY <1>20 DEF EndFrom, Terminal
<1> QED
  BY ZenonT(40), <1>1, <1>2, <1>3, <1>4, <1>5, <1>6, <1>7, <1>8, <1>9, <1>10, <1>11, <1>12, <1>13, <1>14, <1>15, <1>16, <1>17, <1>18, <1>19, <1>20, StepCases
=============================================================================
