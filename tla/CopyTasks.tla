----------------------------- MODULE CopyTasks -----------------------------
(***************************************************************************)
(* The execution of durable database copies: shared/copy_work.py (sealing  *)
(* into the fair queues, claims), shared/copy_admission.py (one bounded    *)
(* transaction per batch, its fences and its settlement) and the executor  *)
(* loop and shutdown of shared/copy_runtime.py.                            *)
(*                                                                         *)
(* A slot is one concurrent run_once of a process.  The steps of a slot    *)
(* are its database transactions: claim, batch (begin and end apart,       *)
(* because its locks are held in between), settlement.  A generation is    *)
(* represented by the slot whose claim created it: task.holder = s stands  *)
(* for task.generation = the generation of the claim in slot s.            *)
(***************************************************************************)
EXTENDS Naturals, FiniteSets

CONSTANTS
    Task, Wf, WfOf, Last, Batches,  \* as in CopyPromise; tasks are numbered in created_at order
    Slot, Proc, ProcOf,             \* executor slots, and the process (owner_id) of each
    SnapOf,                         \* target snapshot of a workflow, with its job and resource
    Queue, QueueOf, Up,             \* CopyWorkQueue keys, a task's resource queue, parent_key
    Quantum,                        \* 1 / queue.weight, in a common unit
    LaneOf, LaneCapacity,           \* micro or giant, and the permits of each lane
    TenantOf, TenantCapacity,       \* a task's tenant, control.tenant_capacity
    TotalCapacity,                  \* control.total_capacity
    WaitMax,                        \* task.wait_max_s in deferrals; 0 is no ceiling
    Cancellable, Endable,           \* snapshots whose job is cancelled, or ends by other means
    MaxFault, MaxLapse, MaxLead     \* bounds: adverse events; leases that run out under a live
                                    \* slot; how far ahead of a sibling a queue is told apart

None == 0

ASSUME QueueTree ==
    /\ Queue \subseteq Nat \ {None} /\ Task \subseteq Nat \ {None}
    /\ \A t \in Task : QueueOf[t] \in Queue /\ Up[QueueOf[t]] \in Queue
                       /\ Up[Up[QueueOf[t]]] \in Queue /\ Up[Up[Up[QueueOf[t]]]] = None
    /\ \A t, u \in Task : Up[Up[QueueOf[t]]] = Up[Up[QueueOf[u]]]   \* keys name tenant and lane
                          <=> TenantOf[t] = TenantOf[u] /\ LaneOf[t] = LaneOf[u]

ASSUME Placement ==
    /\ WfOf \in [Task -> Wf] /\ Batches \in [Task -> Nat \ {0}]
    /\ ProcOf \in [Slot -> Proc] /\ None \notin Slot /\ WaitMax \in Nat

ASSUME Turns == MaxLead \in Nat /\ \A q \in Queue : Quantum[q] \in Nat

VARIABLES
    wf,       \* workflow.state
    parent,   \* job and snapshot of a workflow: "ACTIVE", "CANCELLED" or "ENDED"
    task,     \* CopyWorkTask rows
    slot,     \* what each executor slot is doing
    vf,       \* queue.virtual_finish, above the least of the backlogged siblings
    faults, lapses,
    book      \* history, per task: claims that executed since the last checkpoint (ran),
              \* and how many of those were released as if they had not (back)

vars == <<wf, parent, task, slot, vf, faults, lapses, book>>

Terminal == {"COMPLETED", "FAILED", "CANCELLED"}
Idle == [pc |-> "idle", task |-> None, iter |-> 1, plan |-> "none", ran |-> FALSE]
FreshTask == [state |-> "READY", holder |-> None, owner |-> None, live |-> FALSE,
              attempts |-> 0, failures |-> 0, cp |-> 0, waited |-> 0, due |-> TRUE]

Init ==
    /\ wf = [w \in Wf |-> "DRAINING"]
    /\ parent = [w \in Wf |-> "ACTIVE"]
    /\ task = [t \in Task |-> FreshTask]
    /\ slot = [s \in Slot |-> Idle]
    /\ vf = [q \in Queue |-> 0]
    /\ faults = 0 /\ lapses = 0
    /\ book = [t \in Task |-> [ran |-> 0, back |-> 0]]
-----------------------------------------------------------------------------
(***************************************************************************)
(* Locks.  A batch transaction holds its task row, its workflow row and    *)
(* its permits until it commits or rolls back; for a worker that died the  *)
(* server keeps them ("orphan") until it notices.                          *)
(***************************************************************************)
Holding == {s \in Slot : slot[s].pc \in {"executing", "orphan"}}
\* Mutant: claim without SKIP LOCKED sees no row as locked.
MutRowUnlocked(t) == FALSE
RowLocked(t) == \E s \in Holding : slot[s].task = t
WorkflowLocked(w) == \E s \in Holding : WfOf[slot[s].task] = w

\* The resource and target locks, then a tenant, a lane and an aggregate permit.
PhysicalGuards(t) ==
    /\ \A s \in Holding : SnapOf[WfOf[slot[s].task]] # SnapOf[WfOf[t]]
    /\ Cardinality({s \in Holding : TenantOf[slot[s].task] = TenantOf[t]}) < TenantCapacity
    /\ Cardinality({s \in Holding : LaneOf[slot[s].task] = LaneOf[t]}) < LaneCapacity[LaneOf[t]]
    /\ Cardinality(Holding) < TotalCapacity
-----------------------------------------------------------------------------
(***************************************************************************)
(* The fair queues.  Only differences of virtual_finish between siblings   *)
(* are ever compared, so it is kept relative to the least backlogged one.  *)
(***************************************************************************)
Policy(t) == Up[QueueOf[t]]
Tenant(t) == Up[Policy(t)]
Levels == [t \in Task |-> {QueueOf[t], Policy(t), Tenant(t)}]
Backlog(stages, tasks) ==
    UNION {Levels[t] : t \in {u \in Task : stages[WfOf[u]] = "WAITING"
                                           /\ tasks[u].state \in {"READY", "RUNNING"}}}
LeastOf(S) == CHOOSE n \in S : \A m \in S : n <= m
Monus(a, b) == IF a > b THEN a - b ELSE 0

Siblings == [q \in Queue |-> {r \in Queue : Up[r] = Up[q]}]
Lane == [q \in Queue |-> {LaneOf[t] : t \in {u \in Task : q \in Levels[u]}}]

Relative(v, busy) ==
    [q \in Queue |->
        LET peers == {v[r] : r \in busy \cap Siblings[q]}
        IN  LeastOf({MaxLead, IF peers = {} THEN v[q] ELSE Monus(v[q], LeastOf(peers))})]

\* An inactive queue enters behind the backlogged siblings' next fair turn.
AlignReadyWorkflow(w) ==
    LET busy == Backlog(wf, task)
        mine == UNION {Levels[t] : t \in {u \in Task : WfOf[u] = w /\ task[u].state \notin Terminal}}
        ahead(q) == {vf[r] : r \in {p \in (busy \cap Siblings[q]) \ {q} : Lane[p] = Lane[q]}}
    IN  [q \in Queue |->
            IF q \in mine \ busy /\ ahead(q) # {} /\ vf[q] < LeastOf(ahead(q)) + Quantum[q]
            THEN LeastOf(ahead(q)) + Quantum[q] ELSE vf[q]]

Seal(w) ==
    /\ wf[w] = "DRAINING" /\ parent[w] = "ACTIVE"
    /\ wf' = [wf EXCEPT ![w] = "WAITING"]
    /\ vf' = Relative(AlignReadyWorkflow(w), Backlog(wf', task))
    /\ UNCHANGED <<parent, task, slot, faults, lapses, book>>

\* Mutant: publications do not wait for their siblings.
MutBarrierless ==
    {t \in Task : /\ wf[WfOf[t]] = "WAITING"
                  /\ \/ task[t].state = "READY" /\ task[t].due
                     \/ task[t].state = "RUNNING" /\ ~task[t].live}

Candidates ==
    {t \in Task :
        /\ wf[WfOf[t]] = "WAITING"
        /\ \/ task[t].state = "READY" /\ task[t].due
           \/ task[t].state = "RUNNING" /\ ~task[t].live
        /\ t \in Last => \A u \in Task \ Last : WfOf[u] = WfOf[t] => task[u].state \in Terminal}

Foremost(S) == CHOOSE q \in S : \A r \in S : vf[q] < vf[r] \/ (vf[q] = vf[r] /\ q <= r)

\* The tenant, policy and resource queue whose turn it is.
Chosen(C) ==
    LET tq == Foremost({Tenant(t) : t \in C})
        pq == Foremost({Policy(t) : t \in {u \in C : Tenant(u) = tq}})
        rq == Foremost({QueueOf[t] : t \in {u \in C : Policy(u) = pq}})
    IN  <<tq, pq, rq>>

\* The time a task queued counts; a claim past the ceiling fails it instead.
Claimed(row, s, queued) ==
    LET waited == IF row.state = "READY" THEN LeastOf({row.waited + queued, WaitMax}) ELSE row.waited
    IN  IF WaitMax > 0 /\ waited >= WaitMax
        THEN [row EXCEPT !.state = "FAILED", !.waited = waited]
        ELSE [row EXCEPT !.state = "RUNNING", !.holder = s, !.owner = ProcOf[s], !.live = TRUE,
                         !.attempts = @ + 1, !.waited = waited]

\* The turn advances even when every row of the queue is locked; it does not
\* when the parent has ended, because the conflict rolls the claim back.
Claim(s) ==
    /\ slot[s].pc = "idle"
    /\ Candidates # {}
    /\ \E chosen \in {Chosen(Candidates)} :
       \E free \in {{t \in Candidates : QueueOf[t] = chosen[3] /\ ~RowLocked(t)}} :
          /\ IF free = {} THEN UNCHANGED <<task, slot>>
             ELSE \E t \in {LeastOf(free)}, queued \in 0..LeastOf({1, WaitMax}) :
                    /\ parent[WfOf[t]] = "ACTIVE"
                    /\ task' = [task EXCEPT ![t] = Claimed(@, s, queued)]
                    /\ slot' = IF task'[t].state = "RUNNING"
                               THEN [slot EXCEPT ![s] = [Idle EXCEPT !.pc = "claimed", !.task = t]]
                               ELSE slot
          /\ vf' = Relative([q \in Queue |-> IF q \in {chosen[i] : i \in 1..3} THEN vf[q] + Quantum[q] ELSE vf[q]],
                            Backlog(wf, task'))
    /\ UNCHANGED <<wf, parent, faults, lapses, book>>
-----------------------------------------------------------------------------
(***************************************************************************)
(* One batch.  Begin is the transaction up to the first statement of the   *)
(* copy; how it ends decides the settlement the slot goes on to make.      *)
(***************************************************************************)
\* Mutant: the owner is compared, the generation is not.
MutOwnerOnly(s) ==
    LET t == slot[s].task
    IN  wf[WfOf[t]] = "WAITING" /\ task[t].state = "RUNNING" /\ task[t].owner = ProcOf[s]

Owned(s) ==
    LET t == slot[s].task
    IN  /\ wf[WfOf[t]] = "WAITING"
        /\ task[t].state = "RUNNING" /\ task[t].holder = s /\ task[t].owner = ProcOf[s]

Settling(s, plan) == slot' = [slot EXCEPT ![s].pc = "settle", ![s].plan = plan]
Fault == faults < MaxFault /\ faults' = faults + 1

\* A row lock that is not free at once defers and spends nothing, and so do
\* the transient errors before execution; any other error fails the task.
BeginBlocked(s) ==
    /\ slot[s].pc = "claimed"
    /\ \/ WorkflowLocked(WfOf[slot[s].task]) /\ UNCHANGED faults /\ Settling(s, "release")
       \/ Fault /\ \E plan \in {"release", "fail"} : Settling(s, plan)
    /\ UNCHANGED <<wf, parent, task, vf, lapses, book>>

BeginFenced(s) ==
    /\ slot[s].pc = "claimed" /\ ~WorkflowLocked(WfOf[slot[s].task])
    /\ IF ~Owned(s) THEN slot' = [slot EXCEPT ![s] = Idle]
       ELSE /\ parent[WfOf[slot[s].task]] # "ACTIVE"
            /\ Settling(s, "fail")
    /\ UNCHANGED <<wf, parent, task, vf, faults, lapses, book>>

\* A missed permit or wait ceiling is released; a spent budget is failed
\* before a fourth execution.
BeginRefused(s) ==
    LET t == slot[s].task
        late == WaitMax > 0 /\ task[t].waited >= WaitMax
    IN  /\ slot[s].pc = "claimed" /\ ~WorkflowLocked(WfOf[t])
        /\ Owned(s) /\ parent[WfOf[t]] = "ACTIVE"
        /\ \/ (late \/ ~PhysicalGuards(t)) /\ Settling(s, "release")
           \/ ~late /\ PhysicalGuards(t) /\ task[t].attempts > 3 /\ Settling(s, "fail")
        /\ UNCHANGED <<wf, parent, task, vf, faults, lapses, book>>

BeginExecution(s) ==
    LET t == slot[s].task
    IN  /\ slot[s].pc = "claimed" /\ ~WorkflowLocked(WfOf[t])
        /\ Owned(s) /\ parent[WfOf[t]] = "ACTIVE"
        /\ ~(WaitMax > 0 /\ task[t].waited >= WaitMax)
        /\ PhysicalGuards(t)
        /\ task[t].attempts <= 3
        /\ slot' = [slot EXCEPT ![s].pc = "executing", ![s].ran = TRUE]
        /\ book' = IF slot[s].ran THEN book ELSE [book EXCEPT ![t].ran = @ + 1]
        /\ UNCHANGED <<wf, parent, task, vf, faults, lapses>>

\* Mutant: the last batch leaves its task READY.
MutLeftOpen(row, done, keep) ==
    [row EXCEPT !.cp = @ + 1, !.failures = 0, !.attempts = 0, !.holder = None, !.owner = None,
                !.live = FALSE, !.due = TRUE, !.state = "READY"]

\* The copy, its checkpoint and the task row commit together.  A claim with
\* enough lease left is kept for the next batch, with a new reservation.
Committed(row, done, keep) ==
    LET moved == [row EXCEPT !.cp = @ + 1, !.failures = 0, !.attempts = 0]
        freed == [moved EXCEPT !.holder = None, !.owner = None, !.live = FALSE, !.due = TRUE]
    IN  IF done THEN [freed EXCEPT !.state = "COMPLETED"]
        ELSE IF keep THEN [moved EXCEPT !.attempts = 1]
        ELSE [freed EXCEPT !.state = "READY"]

Commit(s) ==
    LET t == slot[s].task
        done == task[t].cp + 1 = Batches[t]
    IN  /\ slot[s].pc = "executing"
        /\ \E keep \in {FALSE, task[t].live} :
              /\ task' = [task EXCEPT ![t] = Committed(@, done, keep)]
              /\ \/ /\ slot' = [slot EXCEPT ![s] = IF keep /\ ~done THEN [Idle EXCEPT !.pc = "claimed", !.task = t]
                                                   ELSE Idle]
                    /\ UNCHANGED faults
                 \/ Fault /\ Settling(s, "fail")     \* the acknowledgement is lost
        /\ vf' = Relative(vf, Backlog(wf, task'))
        /\ book' = [book EXCEPT ![t] = [ran |-> 0, back |-> 0]]
        /\ UNCHANGED <<wf, parent, lapses>>

\* A statement timeout is tried again twice under the same claim.
StatementTimeout(s) ==
    /\ slot[s].pc = "executing" /\ Fault
    /\ IF slot[s].iter < 3 THEN slot' = [slot EXCEPT ![s].pc = "claimed", ![s].iter = @ + 1]
       ELSE Settling(s, "fail")
    /\ UNCHANGED <<wf, parent, task, vf, lapses, book>>

\* A deadlock, serialization failure or lock timeout spends the claim; any
\* other error fails the task.
ExecutionError(s) ==
    /\ slot[s].pc = "executing" /\ Fault
    /\ \E plan \in {"spend", "fail"} : Settling(s, plan)
    /\ UNCHANGED <<wf, parent, task, vf, lapses, book>>
-----------------------------------------------------------------------------
(***************************************************************************)
(* Settlement: a fresh transaction after the rollback.                     *)
(***************************************************************************)
Larger(a, b) == IF a > b THEN a ELSE b

Settled(row, plan, p, queued) ==
    LET failures == IF plan = "spend" THEN Larger(row.failures, row.attempts - 1) + 1 ELSE row.failures
        waited == LeastOf({row.waited + queued, WaitMax})
        freed == [row EXCEPT !.holder = None, !.owner = None, !.live = FALSE]
    IN  CASE p = "CANCELLED" -> [freed EXCEPT !.state = "CANCELLED"]
          [] p = "ENDED" \/ (p # "CANCELLED" /\ plan = "fail") -> [freed EXCEPT !.state = "FAILED"]
          [] OTHER -> [freed EXCEPT
                !.state = IF failures >= 3 \/ (WaitMax > 0 /\ waited >= WaitMax) THEN "FAILED" ELSE "READY",
                !.failures = failures,
                !.attempts = IF plan = "release" THEN Monus(@, 1) ELSE @,
                !.waited = waited,
                !.due = FALSE]

SettleOnce(s) ==
    LET t == slot[s].task
        plan == slot[s].plan
    IN  /\ slot[s].pc = "settle" /\ ~WorkflowLocked(WfOf[t])
        /\ slot' = [slot EXCEPT ![s] = Idle]
        /\ IF ~Owned(s) THEN UNCHANGED <<task, vf, book>>
           ELSE /\ \E queued \in IF WaitMax > 0 /\ plan = "release" THEN 0..1 ELSE {0} :
                      task' = [task EXCEPT ![t] = Settled(@, plan, parent[WfOf[t]], queued)]
                /\ vf' = Relative(vf, Backlog(wf, task'))
                /\ book' = IF plan = "release" /\ slot[s].ran
                           THEN [book EXCEPT ![t].back = @ + 1] ELSE book
        /\ UNCHANGED <<wf, parent, faults, lapses>>

\* Settlement tries three times; then the claim is left to its lease.
SettleGivesUp(s) ==
    /\ slot[s].pc = "settle"
    /\ \/ WorkflowLocked(WfOf[slot[s].task]) /\ UNCHANGED faults
       \/ Fault
    /\ slot' = [slot EXCEPT ![s] = Idle]
    /\ UNCHANGED <<wf, parent, task, vf, lapses, book>>

\* Mutant: shutdown gives the reservation back.
MutRefund(s) ==
    LET t == slot[s].task
    IN  /\ slot[s].pc \in {"claimed", "executing", "settle"} /\ Fault
        /\ slot' = [slot EXCEPT ![s] = Idle]
        /\ task' = IF task[t].state = "RUNNING" /\ task[t].holder = s
                   THEN [task EXCEPT ![t].state = "READY", ![t].holder = None, ![t].owner = None,
                                     ![t].live = FALSE, ![t].due = TRUE, ![t].attempts = Monus(@, 1)]
                   ELSE task
        /\ UNCHANGED <<wf, parent, vf, lapses, book>>

\* Shutdown: the transaction is rolled back, then the claim is released with
\* its reservation, because it may have executed.
ReleaseCancelledClaim(s) ==
    LET t == slot[s].task
        mine == task[t].state = "RUNNING" /\ task[t].holder = s /\ task[t].owner = ProcOf[s]
    IN  /\ slot[s].pc \in {"claimed", "executing", "settle"} /\ Fault
        /\ slot' = [slot EXCEPT ![s] = Idle]
        /\ task' = IF mine
                   THEN [task EXCEPT ![t].state = "READY", ![t].holder = None, ![t].owner = None,
                                     ![t].live = FALSE, ![t].due = TRUE]
                   ELSE task
        /\ UNCHANGED <<wf, parent, vf, lapses, book>>
-----------------------------------------------------------------------------
(***************************************************************************)
(* The environment: processes die, time passes, parents end.               *)
(***************************************************************************)
Crash(p) ==
    /\ Fault
    /\ \E s \in Slot : ProcOf[s] = p /\ slot[s].pc \in {"claimed", "executing", "settle"}
    /\ slot' = [s \in Slot |->
                  IF ProcOf[s] # p \/ slot[s].pc = "orphan" THEN slot[s]
                  ELSE IF slot[s].pc = "executing" THEN [slot[s] EXCEPT !.pc = "orphan"]
                  ELSE Idle]
    /\ UNCHANGED <<wf, parent, task, vf, lapses, book>>

\* The server notices the lost connection and rolls the batch back.
OrphanRollback(s) ==
    /\ slot[s].pc = "orphan"
    /\ slot' = [slot EXCEPT ![s] = Idle]
    /\ UNCHANGED <<wf, parent, task, vf, faults, lapses, book>>

Held(t) == \E s \in Slot : slot[s].task = t /\ task[t].holder = s /\ slot[s].pc # "orphan"

LeaseLapses(t) ==
    /\ task[t].state = "RUNNING" /\ task[t].live
    /\ IF Held(t) THEN lapses < MaxLapse /\ lapses' = lapses + 1 ELSE UNCHANGED lapses
    /\ task' = [task EXCEPT ![t].live = FALSE]
    /\ UNCHANGED <<wf, parent, slot, vf, faults, book>>

\* ready_at passes.
BecomesDue(t) ==
    /\ task[t].state = "READY" /\ ~task[t].due
    /\ task' = [task EXCEPT ![t].due = TRUE]
    /\ UNCHANGED <<wf, parent, slot, vf, faults, lapses, book>>

Cancelled(ws) ==
    [t \in Task |->
        IF WfOf[t] \in ws /\ task[t].state \notin Terminal
        THEN [task[t] EXCEPT !.state = "CANCELLED", !.holder = None, !.owner = None, !.live = FALSE]
        ELSE task[t]]

\* Cancellation locks the job, which waits for every batch under it, and
\* cancels its workflows with it.
CancelCopyWork(j) ==
    LET mine == {w \in Wf : SnapOf[w] = j}
    IN  /\ j \in Cancellable
        /\ \A w \in mine : ~WorkflowLocked(w) /\ parent[w] = "ACTIVE"
        /\ parent' = [w \in Wf |-> IF w \in mine THEN "CANCELLED" ELSE parent[w]]
        /\ wf' = [w \in Wf |-> IF w \in mine THEN "CANCELLED" ELSE wf[w]]
        /\ task' = Cancelled(mine)
        /\ vf' = Relative(vf, Backlog(wf', task'))
        /\ UNCHANGED <<slot, faults, lapses, book>>

\* The snapshot is ended by a writer that leaves the copies as they are
\* (the coordinator's provider budget runs out, or a process without the
\* copy guards cancels).
EndParent(j) ==
    LET mine == {w \in Wf : SnapOf[w] = j}
    IN  /\ j \in Endable
        /\ \A w \in mine : parent[w] = "ACTIVE"
        /\ \E p \in {"ENDED", "CANCELLED"} :
              parent' = [w \in Wf |-> IF w \in mine THEN p ELSE parent[w]]
        /\ UNCHANGED <<wf, task, slot, vf, faults, lapses, book>>

\* Mutant: recovery looks at unsealed copies only.
MutDrainingOnly(w) ==
    /\ wf[w] = "DRAINING" /\ parent[w] # "ACTIVE"
    /\ wf' = [wf EXCEPT ![w] = "FAILED"]
    /\ task' = Cancelled({w})
    /\ UNCHANGED <<parent, slot, vf, faults, lapses, book>>

\* Recovery: a copy whose parent has ended is abandoned with its open tasks.
Abandon(w) ==
    /\ wf[w] \in {"DRAINING", "WAITING"} /\ parent[w] # "ACTIVE"
    /\ ~WorkflowLocked(w)
    /\ wf' = [wf EXCEPT ![w] = IF parent[w] = "CANCELLED" THEN "CANCELLED" ELSE "FAILED"]
    /\ task' = Cancelled({w})
    /\ vf' = Relative(vf, Backlog(wf', task'))
    /\ UNCHANGED <<parent, slot, faults, lapses, book>>

Step(s) == Claim(s) \/ BeginBlocked(s) \/ BeginFenced(s) \/ BeginRefused(s) \/ BeginExecution(s)
           \/ Commit(s) \/ SettleOnce(s) \/ OrphanRollback(s)

Next ==
    \/ \E w \in Wf : Seal(w) \/ Abandon(w)
    \/ \E s \in Slot : \/ Step(s) \/ StatementTimeout(s) \/ ExecutionError(s)
                       \/ SettleGivesUp(s) \/ ReleaseCancelledClaim(s)
    \/ \E p \in Proc : Crash(p)
    \/ \E t \in Task : LeaseLapses(t) \/ BecomesDue(t)
    \/ \E j \in {SnapOf[w] : w \in Wf} : CancelCopyWork(j) \/ EndParent(j)

Spec == Init /\ [][Next]_vars

\* A live process polls again, a transaction ends, the server notices a lost
\* connection, time passes; nothing makes a fault or a parent's end happen.
FairSpec ==
    /\ Spec
    /\ \A w \in Wf : WF_vars(Seal(w)) /\ WF_vars(Abandon(w))
    /\ \A s \in Slot : WF_vars(Step(s))
    /\ \A t \in Task : WF_vars(BecomesDue(t)) /\ WF_vars(LeaseLapses(t) /\ ~Held(t))
-----------------------------------------------------------------------------
TypeOK ==
    /\ wf \in [Wf -> {"DRAINING", "WAITING", "CANCELLED", "FAILED"}]
    /\ parent \in [Wf -> {"ACTIVE", "CANCELLED", "ENDED"}]
    /\ task \in [Task -> [state : Terminal \cup {"READY", "RUNNING"}, holder : Slot \cup {None},
                         owner : Proc \cup {None}, live : BOOLEAN, attempts : Nat, failures : 0..3,
                         cp : Nat, waited : 0..WaitMax, due : BOOLEAN]]
    /\ slot \in [Slot -> [pc : {"idle", "claimed", "executing", "settle", "orphan"},
                         task : Task \cup {None}, iter : 1..3,
                         plan : {"none", "release", "spend", "fail"}, ran : BOOLEAN]]
    /\ vf \in [Queue -> 0..MaxLead]
    /\ \A t \in Task : task[t].cp <= Batches[t] /\ (task[t].cp = Batches[t] <=> task[t].state = "COMPLETED")

\* A batch in flight still owns its task: its lease may run out, a sibling
\* may poll for expired claims and a cancellation may arrive, but until it
\* ends nobody claims, settles or cancels the row it is copying for (_owned's
\* row locks, claim's SKIP LOCKED, the cancel endpoint's job lock).
ExecutorOwns == \A s \in Slot : slot[s].pc = "executing" => Owned(s)

\* A claim whose lease is live is given up only by its own slot, or with its
\* whole workflow.
Kept(s) ==
    LET t == slot[s].task
    IN  (slot[s].pc \in {"claimed", "settle"} /\ task[t].holder = s /\ task[t].live)
           => slot'[s] # slot[s] \/ wf'[WfOf[t]] # "WAITING" \/ task'[t].holder = s

\* No late settlement, shutdown release or expired-claim poll of another slot,
\* of the same process or not, takes a live claim away (the generation that
\* _owned and _release_cancelled_claim compare, and claim's lease test).
ClaimKept == [][\A s \in Slot : Kept(s)]_vars

\* No copy executes under a fourth claim between two checkpoints, unless an
\* earlier one was released as not executed: reservations survive crashes,
\* lost settlements and shutdowns (_copy_execution_budget_v1).
BudgetHolds == \A t \in Task : book[t].ran <= 3 + book[t].back

\* The rows implement what CopyPromise promises: batches land once, only in a
\* sealed and uncancelled workflow, publications last, verdicts are final.
Promise == INSTANCE CopyPromise WITH
    stage <- wf,
    copied <- [t \in Task |-> task[t].cp],
    verdict <- [t \in Task |-> IF task[t].state \in Terminal THEN task[t].state ELSE "OPEN"]
KeepsPromise == Promise!Spec

\* Every task of a sealed workflow reaches a verdict, even when the parent of
\* its own or of another workflow ends under the copies, so that the claim on
\* the head of the fair queue fails and rolls its turn back each time (the
\* executor loop, the claim leases, the execution budget and the recovery of
\* abandoned workflows together).
Drains == \A t \in Task : wf[WfOf[t]] = "WAITING" ~> task[t].state \in Terminal
=============================================================================
