------------------------------ MODULE LeafWork ------------------------------
(***************************************************************************)
(* The life of the leaves (shards) of one partitioned snapshot when        *)
(* captures run as durable provider work and hand their database copies to *)
(* copy workflows: shared/provider_work.py and its runner, the parent side *)
(* of shared/copy_workflow.py, and the callbacks of the backup worker that *)
(* write the leaf, the snapshot and the job.                               *)
(*                                                                         *)
(* Each action is one database transaction, or a step of a callback up to  *)
(* its next transaction.  Lease tokens and generations are only ever       *)
(* compared for equality with the row's current value, so the model keeps, *)
(* for each leaf, the set of records and slots that carry its current      *)
(* lease_token (fence), and for each work row the slot whose claim has its *)
(* current generation (claim).  How the tasks of a workflow reach their    *)
(* verdicts is the subject of CopyTasks.                                   *)
(***************************************************************************)
EXTENDS Naturals, FiniteSets

CONSTANTS
    Leaf,       \* SnapshotPartition rows of the snapshot
    Slot,       \* concurrent turns and resumptions of the worker processes
    MaxFault,   \* bound on adverse events
    CanCancel,  \* whether the job may be cancelled
    CanRequeue  \* whether a turn may meet a transient database error

None == "none"

ASSUME LeafAssumption ==
    /\ Slot \cap {None, "pw", "wf"} = {}
    /\ MaxFault \in Nat

VARIABLES
    job,        \* "RUNNING", "ENDED" or "CANCELLED"
    snap,       \* snapshot.status
    flag,       \* snapshot.extra_data['copy_required_failed']
    leaf,       \* partition.status and whether its failure_state counts losses
    fence,      \* who carries the leaf's current lease_token
    pw,         \* ProviderWork rows
    wf,         \* CopyWorkflow rows
    verdict,    \* how the copy tasks of the workflow ended
    slot,       \* what each slot is doing
    faults

vars == <<job, snap, flag, leaf, fence, pw, wf, verdict, slot, faults>>

\* DONE is COMPLETED, PARTIAL or FAILED for provider work and COMPLETED or
\* PARTIAL for copies; ABORTED is FAILED or CANCELLED.  A snapshot's PARTIAL
\* stands for FAILED too, which the finalizer writes when every leaf failed.
Work(state) == [state |-> state, claim |-> None, live |-> FALSE, pend |-> FALSE]
Idle == [pc |-> "idle", leaf |-> None, prior |-> "NONE", failed |-> FALSE, spent |-> FALSE]

Init ==
    /\ job = "RUNNING" /\ snap = "IN_PROGRESS" /\ flag = FALSE
    /\ leaf = [l \in Leaf |-> [status |-> "QUEUED", lossy |-> FALSE]]
    /\ fence = [l \in Leaf |-> {}]
    /\ pw = [l \in Leaf |-> Work("NONE")]
    /\ wf = [l \in Leaf |-> Work("NONE")]
    /\ verdict = [l \in Leaf |-> "OPEN"]
    /\ slot = [s \in Slot |-> Idle]
    /\ faults = 0

Active == {"DRAINING", "WAITING", "RESUMING"}
Terminal(l) == leaf[l].status \in {"COMPLETED", "FAILED"}
LeafActive(l) == job = "RUNNING" /\ snap = "IN_PROGRESS" /\ ~Terminal(l)
PwActive(l) == pw[l].state \in Active
WfActive(l) == wf[l].state \in Active
Fault == faults < MaxFault /\ faults' = faults + 1
Restamped(l, S) == [fence EXCEPT ![l] = S]
EndSlot(s) == slot' = [slot EXCEPT ![s] = Idle]
-----------------------------------------------------------------------------
(***************************************************************************)
(* Provider work: intake, the committed reservation, admission.            *)
(***************************************************************************)
\* A shard message becomes a row; later deliveries find it and are dropped.
EnsureWork(l) ==
    /\ pw[l].state = "NONE" /\ LeafActive(l)
    /\ pw' = [pw EXCEPT ![l] = Work("WAITING")]
    /\ fence' = Restamped(l, fence[l] \cup {"pw"})
    /\ UNCHANGED <<job, snap, flag, leaf, wf, verdict, slot, faults>>

ReserveDueWork(s, l) ==
    /\ slot[s].pc = "idle"
    /\ pw[l].state = "WAITING" \/ (pw[l].state = "RESUMING" /\ ~pw[l].live)
    /\ pw' = [pw EXCEPT ![l].state = "RESUMING", ![l].claim = s, ![l].live = TRUE]
    /\ slot' = [slot EXCEPT ![s] = [Idle EXCEPT !.pc = "reserved", !.leaf = l, !.prior = pw[l].state]]
    /\ UNCHANGED <<job, snap, flag, leaf, fence, wf, verdict, faults>>

\* A reservation that is not used goes back to what it was.
Unreserved(l, prior) == [pw[l] EXCEPT !.state = prior, !.claim = None, !.live = FALSE]

\* Mutant: a reservation whose leaf has ended meanwhile is admitted.
MutAdmitsEnded(s) ==
    LET l == slot[s].leaf
        mine == pw[l].state = "RESUMING" /\ pw[l].claim = s
    IN  /\ slot[s].pc = "reserved" /\ mine /\ "pw" \in fence[l]
        /\ wf[l].state \notin {"WAITING", "RESUMING"}
        /\ leaf' = [leaf EXCEPT ![l].status = "IN_PROGRESS"]
        /\ fence' = Restamped(l, {"pw", s} \cup IF WfActive(l) THEN {"wf"} ELSE {})
        /\ slot' = [slot EXCEPT ![s].pc = "turn"]
        /\ UNCHANGED <<job, snap, flag, pw, wf, verdict, faults>>

AdmitReserved(s) ==
    LET l == slot[s].leaf
        mine == pw[l].state = "RESUMING" /\ pw[l].claim = s
        closed(pend) == [pw EXCEPT ![l] = [Work("DONE") EXCEPT !.pend = pend]]
    IN  /\ slot[s].pc = "reserved"
        /\ \/ /\ ~mine
              /\ EndSlot(s) /\ UNCHANGED <<leaf, fence, pw, faults>>
           \/ /\ mine /\ Fault                                  \* a parent row is locked
              /\ pw' = [pw EXCEPT ![l] = Unreserved(l, slot[s].prior)]
              /\ EndSlot(s) /\ UNCHANGED <<leaf, fence>>
           \/ /\ mine /\ ~LeafActive(l)
              /\ pw' = closed(Terminal(l) /\ job # "CANCELLED")
              /\ EndSlot(s) /\ UNCHANGED <<leaf, fence, faults>>
           \/ /\ mine /\ LeafActive(l) /\ "pw" \notin fence[l]  \* parent_generation_changed
              /\ pw' = closed(FALSE)
              /\ EndSlot(s) /\ UNCHANGED <<leaf, fence, faults>>
           \/ /\ mine /\ LeafActive(l) /\ "pw" \in fence[l]
              /\ wf[l].state \in {"WAITING", "RESUMING"}
              /\ pw' = [pw EXCEPT ![l] = Unreserved(l, slot[s].prior)]
              /\ EndSlot(s) /\ UNCHANGED <<leaf, fence, faults>>
           \/ /\ mine /\ LeafActive(l) /\ "pw" \in fence[l]
              /\ wf[l].state \notin {"WAITING", "RESUMING"}
              /\ leaf' = [leaf EXCEPT ![l].status = "IN_PROGRESS"]
              /\ fence' = Restamped(l, {"pw", s} \cup IF WfActive(l) THEN {"wf"} ELSE {})
              /\ slot' = [slot EXCEPT ![s].pc = "turn"]
              /\ UNCHANGED <<pw, faults>>
        /\ UNCHANGED <<job, snap, flag, wf, verdict>>

\* _owned: the claim is current, its lease runs, and the leaf is still its own.
OwnsWork(s, allowTerminal) ==
    LET l == slot[s].leaf
    IN  /\ pw[l].state = "RESUMING" /\ pw[l].claim = s /\ pw[l].live
        /\ LeafActive(l) \/ (allowTerminal /\ job # "CANCELLED" /\ Terminal(l))
        /\ s \in fence[l]
-----------------------------------------------------------------------------
(***************************************************************************)
(* A provider turn.                                                        *)
(***************************************************************************)
\* The capture defers a database copy.  Only lease tokens are compared, so a
\* turn whose reservation was already taken over can still register.
DeferCurrentCopy(s) ==
    LET l == slot[s].leaf
    IN  /\ slot[s].pc = "turn"
        /\ LeafActive(l) /\ leaf[l].status = "IN_PROGRESS" /\ s \in fence[l]
        /\ wf[l].state = "NONE" \/ (wf[l].state = "ABORTED" /\ "wf" \notin fence[l])
        /\ wf' = [wf EXCEPT ![l] = Work("DRAINING")]
        /\ verdict' = [verdict EXCEPT ![l] = "OPEN"]
        /\ fence' = Restamped(l, fence[l] \cup {"wf"})
        /\ UNCHANGED <<job, snap, flag, leaf, pw, slot, faults>>

\* Mutant: sealing leaves the provider work open.
MutSealsOnly(s) ==
    LET l == slot[s].leaf
    IN  /\ slot[s].pc = "turn" /\ wf[l].state = "DRAINING" /\ leaf[l].status = "IN_PROGRESS"
        /\ {"wf", s} \subseteq fence[l] /\ OwnsWork(s, FALSE)
        /\ wf' = [wf EXCEPT ![l].state = "WAITING"]
        /\ fence' = Restamped(l, {"wf"})
        /\ EndSlot(s)
        /\ UNCHANGED <<job, snap, flag, leaf, pw, verdict, faults>>

\* Sealing gives the leaf to the workflow and ends the provider work, or
\* fails the turn.
SealCurrentCopy(s) ==
    LET l == slot[s].leaf
    IN  /\ slot[s].pc = "turn" /\ wf[l].state # "NONE"
        /\ IF wf[l].state = "DRAINING" /\ leaf[l].status = "IN_PROGRESS" /\ {"wf", s} \subseteq fence[l]
              /\ OwnsWork(s, FALSE)
           THEN /\ pw' = [pw EXCEPT ![l] = Work("DONE")]
                /\ wf' = [wf EXCEPT ![l].state = "WAITING"]
                /\ fence' = Restamped(l, {"wf"})
                /\ EndSlot(s)
           ELSE /\ slot' = [slot EXCEPT ![s].pc = "failing"]
                /\ UNCHANGED <<pw, wf, fence>>
        /\ UNCHANGED <<job, snap, flag, leaf, verdict, faults>>

\* The guards of the terminal write: the lease fence, no copy that is active or
\* unsettled, and the turn's own work row still claimed by it.
MayMark(s) ==
    LET l == slot[s].leaf
    IN  /\ s \in fence[l] /\ ~Terminal(l)
        /\ ~WfActive(l) /\ ~wf[l].pend
        /\ pw[l].state = "RESUMING" /\ pw[l].claim = s /\ pw[l].live

Marked(l, status, lossy) == [leaf EXCEPT ![l] = [status |-> status, lossy |-> lossy]]

\* _mark_partition_terminal at the end of a capture, or of a failing one.  A
\* refused write changes nothing and the handler goes on.
MarkPartitionTerminal(s) ==
    LET l == slot[s].leaf
    IN  /\ \/ slot[s].pc = "turn" /\ wf[l].state = "NONE"
           \/ slot[s].pc = "failing"
        /\ leaf' = IF ~MayMark(s) THEN leaf
                   ELSE Marked(l, IF slot[s].pc = "turn" THEN "COMPLETED" ELSE "FAILED", FALSE)
        /\ slot' = [slot EXCEPT ![s].pc = IF @ = "turn" THEN "marked" ELSE "raised"]
        /\ UNCHANGED <<job, snap, flag, fence, pw, wf, verdict, faults>>

\* An exception that is not a transient database error fails the shard.  When
\* it is a spent retry budget, some handlers leave that to the runner.
TurnFails(s) ==
    /\ slot[s].pc = "turn" /\ Fault
    /\ \/ \E spent \in BOOLEAN : slot' = [slot EXCEPT ![s].pc = "failing", ![s].spent = spent]
       \/ slot' = [slot EXCEPT ![s].pc = "exhausted"]
    /\ UNCHANGED <<job, snap, flag, leaf, fence, pw, wf, verdict>>

\* A transient one hands the shard back, and its lease token moves.
RequeuePartitionForRetry(s) ==
    LET l == slot[s].leaf
    IN  /\ CanRequeue /\ slot[s].pc = "turn" /\ Fault
        /\ IF s \in fence[l] /\ leaf[l].status = "IN_PROGRESS"
           THEN /\ leaf' = [leaf EXCEPT ![l].status = "QUEUED"]
                /\ fence' = Restamped(l, {})
                /\ slot' = [slot EXCEPT ![s].pc = "raised"]
           ELSE slot' = [slot EXCEPT ![s].pc = "failing"] /\ UNCHANGED <<leaf, fence>>
        /\ UNCHANGED <<job, snap, flag, pw, wf, verdict>>

\* Mutant: a suspended row keeps the token of the turn it ends.
MutSuspendsUnstamped(s) ==
    LET l == slot[s].leaf
    IN  /\ slot[s].pc = "turn" /\ Fault
        /\ EndSlot(s)
        /\ IF OwnsWork(s, FALSE)
           THEN /\ pw' = [pw EXCEPT ![l] = Work("WAITING")]
                /\ fence' = Restamped(l, {})
           ELSE UNCHANGED <<pw, fence>>
        /\ UNCHANGED <<job, snap, flag, leaf, wf, verdict>>

\* The turn waits for the provider, or is interrupted by a shutdown.
SuspendCurrentWork(s) ==
    LET l == slot[s].leaf
    IN  /\ slot[s].pc = "turn" /\ Fault
        /\ EndSlot(s)
        /\ IF OwnsWork(s, FALSE)
           THEN /\ pw' = [pw EXCEPT ![l] = Work("WAITING")]
                /\ fence' = Restamped(l, {"pw"})
           ELSE UNCHANGED <<pw, fence>>
        /\ UNCHANGED <<job, snap, flag, leaf, wf, verdict>>

\* cancel_copy_work: the open tasks are cancelled; a failed one that still owns
\* its leaf leaves its mark on the snapshot.
CopyAborted(l) ==
    /\ wf' = [wf EXCEPT ![l] = Work("ABORTED")]
    /\ verdict' = [verdict EXCEPT ![l] = IF @ = "OPEN" THEN "BAD" ELSE @]
CopyFailed(l) == flag' = (flag \/ ("wf" \in fence[l] /\ snap = "IN_PROGRESS"))

\* The retry budget of a unit is spent.
FailExhaustedWork(s) ==
    LET l == slot[s].leaf
    IN  /\ slot[s].pc = "exhausted"
        /\ EndSlot(s)
        /\ IF OwnsWork(s, TRUE)
           THEN /\ IF WfActive(l) THEN CopyAborted(l) /\ CopyFailed(l)
                   ELSE UNCHANGED <<wf, verdict, flag>>
                /\ leaf' = [leaf EXCEPT ![l].status = "FAILED"]
                /\ pw' = [pw EXCEPT ![l] = [Work("DONE") EXCEPT !.pend = TRUE]]
           ELSE UNCHANGED <<wf, verdict, flag, leaf, pw>>
        /\ UNCHANGED <<job, snap, fence, faults>>

FinishWork(s) ==
    LET l == slot[s].leaf
    IN  /\ slot[s].pc = "finish"
        /\ EndSlot(s)
        /\ pw' = IF OwnsWork(s, TRUE) THEN [pw EXCEPT ![l] = [Work("DONE") EXCEPT !.pend = TRUE]] ELSE pw
        /\ UNCHANGED <<job, snap, flag, leaf, fence, wf, verdict, faults>>
-----------------------------------------------------------------------------
(***************************************************************************)
(* Copy workflows: verdicts, the resumption callback, abandonment.         *)
(***************************************************************************)
\* The tasks of a sealed workflow all reach a verdict (CopyTasks).
CopyVerdict(l) ==
    /\ wf[l].state = "WAITING" /\ verdict[l] = "OPEN"
    /\ \E v \in {"OK", "BAD"} : verdict' = [verdict EXCEPT ![l] = v]
    /\ UNCHANGED <<job, snap, flag, leaf, fence, pw, wf, slot, faults>>

BeginResume(s, l) ==
    /\ slot[s].pc = "idle" /\ verdict[l] # "OPEN"
    /\ wf[l].state = "WAITING" \/ (wf[l].state = "RESUMING" /\ ~wf[l].live)
    /\ \/ /\ Terminal(l)
          /\ wf' = [wf EXCEPT ![l] = [Work("DONE") EXCEPT !.pend = TRUE]]
          /\ UNCHANGED <<flag, fence, slot>>
       \/ /\ ~Terminal(l) /\ job # "RUNNING"
          /\ wf' = [wf EXCEPT ![l] = Work("ABORTED")]
          /\ UNCHANGED <<flag, fence, slot>>
       \/ /\ ~Terminal(l) /\ job = "RUNNING" /\ "wf" \in fence[l]
          /\ wf' = [wf EXCEPT ![l] = [@ EXCEPT !.state = "RESUMING", !.claim = s, !.live = TRUE]]
          /\ fence' = Restamped(l, {"wf", s})
          /\ flag' = (verdict[l] = "BAD")
          /\ slot' = [slot EXCEPT ![s] = [Idle EXCEPT !.pc = "resume", !.leaf = l]]
    /\ UNCHANGED <<job, snap, leaf, pw, verdict, faults>>

\* verify_copy_resume, which renews the lease of a claim that still stands.
OwnsResume(s) ==
    LET l == slot[s].leaf
    IN  /\ wf[l].state = "RESUMING" /\ wf[l].claim = s
        /\ {"wf", s} \subseteq fence[l]
        /\ job # "CANCELLED"

\* The callback reads how the copies ended from the snapshot.
ReadCopyOutcome(s) ==
    LET l == slot[s].leaf
    IN  /\ slot[s].pc = "resume"
        /\ IF OwnsResume(s)
           THEN /\ slot' = [slot EXCEPT ![s].pc = "read", ![s].failed = flag]
                /\ wf' = [wf EXCEPT ![l].live = TRUE]
           ELSE EndSlot(s) /\ UNCHANGED wf
        /\ UNCHANGED <<job, snap, flag, leaf, fence, pw, verdict, faults>>

\* _mark_partition_terminal of the callback.  A claim that has moved raises,
\* and the row is released if the lease fence still matches.
ResumeMarksPartition(s) ==
    LET l == slot[s].leaf
        free == ~Terminal(l) /\ s \in fence[l]
    IN  /\ slot[s].pc = "read"
        /\ IF OwnsResume(s)
           THEN /\ \E status \in {"COMPLETED"} \cup IF slot[s].failed THEN {"FAILED"} ELSE {} :
                      leaf' = IF free /\ ~PwActive(l) /\ ~pw[l].pend
                              THEN Marked(l, status, slot[s].failed) ELSE leaf
                /\ slot' = [slot EXCEPT ![s].pc = "settled"]
                /\ wf' = [wf EXCEPT ![l].live = TRUE]
           ELSE /\ leaf' = IF free THEN [leaf EXCEPT ![l].status = "QUEUED"] ELSE leaf
                /\ EndSlot(s) /\ UNCHANGED wf
        /\ UNCHANGED <<job, snap, flag, fence, pw, verdict, faults>>

\* The owner is compared, the generation is not: slots of one process finish
\* each other's resumption.
FinishResume(s) ==
    LET l == slot[s].leaf
    IN  /\ slot[s].pc = "settled"
        /\ EndSlot(s)
        /\ wf' = IF wf[l].state = "RESUMING" /\ Terminal(l)
                 THEN [wf EXCEPT ![l] = [Work("DONE") EXCEPT !.pend = TRUE]] ELSE wf
        /\ UNCHANGED <<job, snap, flag, leaf, fence, pw, verdict, faults>>

\* Recovery abandons a copy whose parent has ended or whose unsealed capture
\* lost the leaf, once no provider work of the snapshot is active.
Abandon(l) ==
    LET ended == job # "RUNNING" \/ snap # "IN_PROGRESS" \/ Terminal(l)
        finishing == wf[l].state = "RESUMING" /\ job # "CANCELLED" /\ Terminal(l)
    IN  /\ WfActive(l) /\ \A k \in Leaf : ~PwActive(k)
        /\ ~finishing
        /\ ended \/ (wf[l].state = "DRAINING" /\ ("wf" \notin fence[l] \/ fence[l] \cap Slot = {}))
        /\ CopyAborted(l)
        /\ IF job = "CANCELLED" THEN UNCHANGED flag ELSE CopyFailed(l)
        /\ UNCHANGED <<job, snap, leaf, fence, pw, slot, faults>>
-----------------------------------------------------------------------------
(***************************************************************************)
(* The parents: last-finisher writes and the receipts that retry them.     *)
(***************************************************************************)
\* What blocks a parent write, by writer: active work always does; receipts
\* block everyone but their own settlement; a turn excludes its own row.
NoProvider(except, receipts) ==
    \A l \in Leaf \ except : ~PwActive(l) /\ (receipts => ~pw[l].pend)
\* Mutant: only unsettled copies hold the parents back, not running ones.
MutReceiptsOnly(receipts) == \A l \in Leaf : receipts => ~wf[l].pend

NoCopy(receipts) == \A l \in Leaf : ~WfActive(l) /\ (receipts => ~wf[l].pend)

SweepMay == NoProvider({}, TRUE) /\ NoCopy(TRUE)
ProviderSettlerMay == (\E l \in Leaf : pw[l].pend) /\ NoProvider({}, FALSE) /\ NoCopy(TRUE)
\* Mutant: settling copies waits for the receipts of provider work as well.
MutReceiptCircle == (\E l \in Leaf : wf[l].pend) /\ NoProvider({}, TRUE) /\ NoCopy(FALSE)

CopySettlerMay == (\E l \in Leaf : wf[l].pend) /\ NoProvider({}, FALSE) /\ NoCopy(FALSE)
SettlerMay == SweepMay \/ ProviderSettlerMay \/ CopySettlerMay
TurnMay(s) ==
    LET l == slot[s].leaf
    IN  /\ pw[l].state = "RESUMING" /\ pw[l].claim = s /\ pw[l].live
        /\ NoProvider({l}, TRUE) /\ NoCopy(TRUE)

\* Mutant: only lost items make a snapshot partial, not failed leaves.
MutCountsLosses ==
    IF snap # "IN_PROGRESS" \/ \E l \in Leaf : ~Terminal(l) THEN snap
    ELSE IF flag \/ \E l \in Leaf : leaf[l].lossy THEN "PARTIAL"
    ELSE "COMPLETED"

Finalized ==
    IF snap # "IN_PROGRESS" \/ \E l \in Leaf : ~Terminal(l) THEN snap
    ELSE IF flag \/ \E l \in Leaf : leaf[l].status = "FAILED" \/ leaf[l].lossy THEN "PARTIAL"
    ELSE "COMPLETED"

\* The handler of a turn tries to finalize on its way out, whatever happened.
TurnFinalizes(s) ==
    /\ slot[s].pc \in {"marked", "raised"}
    /\ snap' = IF TurnMay(s) THEN Finalized ELSE snap
    /\ slot' = [slot EXCEPT ![s] = IF @.pc = "marked" THEN [@ EXCEPT !.pc = "finish"]
                                   ELSE IF @.spent THEN [@ EXCEPT !.pc = "exhausted"] ELSE Idle]
    /\ UNCHANGED <<job, flag, leaf, fence, pw, wf, verdict, faults>>

FinalizePartitionedSnapshot ==
    /\ SettlerMay /\ Finalized # snap
    /\ snap' = Finalized
    /\ UNCHANGED <<job, flag, leaf, fence, pw, wf, verdict, slot, faults>>

UpdateJobStatus ==
    /\ snap # "IN_PROGRESS" /\ job = "RUNNING" /\ SettlerMay
    /\ job' = "ENDED"
    /\ UNCHANGED <<snap, flag, leaf, fence, pw, wf, verdict, slot, faults>>

\* finish_parent_settlement of either kind.
FinishParentSettlement(l) ==
    /\ snap # "IN_PROGRESS" /\ job # "RUNNING"
    /\ \/ pw[l].pend /\ pw' = [pw EXCEPT ![l].pend = FALSE] /\ UNCHANGED wf
       \/ wf[l].pend /\ wf' = [wf EXCEPT ![l].pend = FALSE] /\ UNCHANGED pw
    /\ UNCHANGED <<job, snap, flag, leaf, fence, verdict, slot, faults>>
-----------------------------------------------------------------------------
(***************************************************************************)
(* The environment.                                                        *)
(***************************************************************************)
\* Mutant: cancelled copies keep their receipt.
MutCancelKeepsReceipt ==
    /\ CanCancel /\ job = "RUNNING"
    /\ job' = "CANCELLED"
    /\ wf' = [l \in Leaf |-> IF wf[l].state \in Active \/ wf[l].pend
                             THEN [wf[l] EXCEPT !.state = "ABORTED"] ELSE wf[l]]
    /\ UNCHANGED <<snap, flag, leaf, fence, pw, verdict, slot, faults>>

\* Cancellation takes the provider work first, then the copies.
CancelJob ==
    LET cancelled(w) == w.state \in Active \/ w.pend
    IN  /\ CanCancel /\ job = "RUNNING"
        /\ job' = "CANCELLED"
        /\ fence' = [l \in Leaf |-> IF cancelled(pw[l]) /\ "pw" \in fence[l] THEN {} ELSE fence[l]]
        /\ pw' = [l \in Leaf |-> IF cancelled(pw[l]) THEN Work("DONE") ELSE pw[l]]
        /\ wf' = [l \in Leaf |-> IF cancelled(wf[l]) THEN Work("ABORTED") ELSE wf[l]]
        /\ verdict' = [l \in Leaf |-> IF WfActive(l) /\ verdict[l] = "OPEN" THEN "BAD" ELSE verdict[l]]
        /\ UNCHANGED <<snap, flag, leaf, slot, faults>>

Crash(s) ==
    /\ slot[s].pc # "idle" /\ Fault
    /\ EndSlot(s)
    /\ UNCHANGED <<job, snap, flag, leaf, fence, pw, wf, verdict>>

Held(l, s) == s \in Slot /\ slot[s].pc # "idle" /\ slot[s].leaf = l

\* A lease runs out: by itself when its slot is gone, as a fault under one that
\* should have renewed it.
LeaseLapses(l) ==
    \/ /\ pw[l].live
       /\ IF Held(l, pw[l].claim) THEN Fault ELSE UNCHANGED faults
       /\ pw' = [pw EXCEPT ![l].live = FALSE]
       /\ UNCHANGED <<job, snap, flag, leaf, fence, wf, verdict, slot>>
    \/ /\ wf[l].live
       /\ IF Held(l, wf[l].claim) THEN Fault ELSE UNCHANGED faults
       /\ wf' = [wf EXCEPT ![l].live = FALSE]
       /\ UNCHANGED <<job, snap, flag, leaf, fence, pw, verdict, slot>>

\* The reconciler spends the requeues of a shard that no work row stands for
\* (each one is dropped at intake) and fails it.
DeadLetter(l) ==
    /\ job = "RUNNING" /\ ~Terminal(l) /\ pw[l].state = "DONE"
    /\ ~pw[l].pend /\ ~WfActive(l) /\ ~wf[l].pend
    /\ leaf' = [leaf EXCEPT ![l].status = "FAILED"]
    /\ fence' = Restamped(l, {})
    /\ UNCHANGED <<job, snap, flag, pw, wf, verdict, slot, faults>>
-----------------------------------------------------------------------------
Turn(s) == AdmitReserved(s) \/ DeferCurrentCopy(s) \/ SealCurrentCopy(s) \/ MarkPartitionTerminal(s)
           \/ TurnFinalizes(s) \/ FinishWork(s) \/ FailExhaustedWork(s)
Resume(s) == ReadCopyOutcome(s) \/ ResumeMarksPartition(s) \/ FinishResume(s)
Settle == FinalizePartitionedSnapshot \/ UpdateJobStatus \/ \E l \in Leaf : FinishParentSettlement(l)

Next ==
    \/ \E s \in Slot : \/ Turn(s) \/ TurnFails(s) \/ RequeuePartitionForRetry(s) \/ SuspendCurrentWork(s)
                       \/ Resume(s) \/ Crash(s)
                       \/ \E l \in Leaf : ReserveDueWork(s, l) \/ BeginResume(s, l)
    \/ \E l \in Leaf : EnsureWork(l) \/ CopyVerdict(l) \/ Abandon(l) \/ LeaseLapses(l) \/ DeadLetter(l)
    \/ Settle \/ CancelJob

Spec == Init /\ [][Next]_vars

\* Transactions end, the loops of the runner, of the copy runtime and of the
\* settlers go round, sweeps run and leases nobody renews run out.
FairSpec ==
    /\ Spec
    /\ \A s \in Slot : WF_vars(Turn(s)) /\ WF_vars(Resume(s))
    /\ \A l \in Leaf : /\ WF_vars(EnsureWork(l)) /\ WF_vars(CopyVerdict(l)) /\ WF_vars(Abandon(l))
                       /\ WF_vars(LeaseLapses(l) /\ faults' = faults) /\ WF_vars(DeadLetter(l))
                       /\ WF_vars(\E s \in Slot : ReserveDueWork(s, l))
                       /\ WF_vars(\E s \in Slot : BeginResume(s, l))
    /\ WF_vars(Settle)
-----------------------------------------------------------------------------
TypeOK ==
    /\ job \in {"RUNNING", "ENDED", "CANCELLED"} /\ snap \in {"IN_PROGRESS", "PARTIAL", "COMPLETED"}
    /\ flag \in BOOLEAN /\ faults \in 0..MaxFault
    /\ leaf \in [Leaf -> [status : {"QUEUED", "IN_PROGRESS", "COMPLETED", "FAILED"}, lossy : BOOLEAN]]
    /\ fence \in [Leaf -> SUBSET (Slot \cup {"pw", "wf"})]
    /\ \A l \in Leaf : /\ pw[l].state \in {"NONE", "WAITING", "RESUMING", "DONE"}
                       /\ wf[l].state \in {"NONE", "DRAINING", "WAITING", "RESUMING", "DONE", "ABORTED"}
                       /\ pw[l].claim \in Slot \cup {None} /\ wf[l].claim \in Slot \cup {None}
                       /\ (pw[l].pend => pw[l].state = "DONE") /\ (wf[l].pend => wf[l].state = "DONE")
    /\ \A s \in Slot : slot[s].pc \in {"idle", "reserved", "turn", "failing", "marked", "raised", "finish", "exhausted",
                                        "resume", "read", "settled"}

\* A leaf has one owner: once its copies are sealed, no provider turn is
\* reserved, admitted or still trusted for it.
HandedOver == \A l \in Leaf : wf[l].state \in {"WAITING", "RESUMING"} => ~PwActive(l)

\* Whatever crashed, lapsed or was suspended, a shard in progress under a
\* running job is carried by a work row that still has its lease token: the
\* next reservation or resumption is not refused.
LeafCarried ==
    \A l \in Leaf : job = "RUNNING" /\ leaf[l].status = "IN_PROGRESS"
        => \/ PwActive(l) /\ "pw" \in fence[l]
           \/ wf[l].state \in {"WAITING", "RESUMING"} /\ "wf" \in fence[l]

\* The snapshot is not settled over work in flight: every leaf is terminal, no
\* copy can still change its items, and the job closes only after both.
BarrierHolds ==
    /\ snap # "IN_PROGRESS" => \A l \in Leaf : Terminal(l) /\ ~WfActive(l)
    /\ job = "ENDED" => snap # "IN_PROGRESS" /\ \A l \in Leaf : ~PwActive(l)

\* A terminal shard keeps its verdict: no late turn, resumption, admission or
\* sweep writes status or failure_state again.
LeafFinal == [][\A l \in Leaf : Terminal(l) => leaf'[l] = leaf[l]]_vars

\* A snapshot is COMPLETED only if the copies of every leaf were: settled
\* failures retain their evidence until the finalizer has read it.
HonestVerdict == snap = "COMPLETED" => \A l \in Leaf : verdict[l] # "BAD"

\* Who keeps a leaf: its provider work, its sealed copies, or no row any more.
Keeper(l) ==
    CASE pw[l].state = "NONE" -> "new"
      [] PwActive(l) -> "provider"
      [] OTHER -> IF wf[l].state \in {"WAITING", "RESUMING"} THEN "copies" ELSE "gone"

Statuses == [l \in Leaf |-> leaf[l].status]
Keepers == [l \in Leaf |-> Keeper(l)]

Custody == INSTANCE LeafCustody WITH status <- Statuses, keeper <- Keepers

\* Work rows, lease tokens and claims implement LeafCustody: only the keeper of
\* a leaf completes it, a leaf changes hands forwards and only while it runs,
\* no keeper leaves a running leaf behind, nothing ends after a cancellation,
\* and the parents settle from ended leaves that nobody else still keeps.
KeepsCustody == Custody!Spec

\* The job closes and every parent_settlement receipt is released: the turns,
\* the two settlers and the sweep never wait for each other in a circle.
Settles == <>[](job # "RUNNING" /\ \A l \in Leaf : ~PwActive(l) /\ ~WfActive(l)
                /\ (job = "ENDED" => ~pw[l].pend /\ ~wf[l].pend))
=============================================================================
