-------------------------- MODULE CopyTasksProofs --------------------------
(***************************************************************************)
(* Proofs about CopyTasks, for any number of workflows, tasks, batches,    *)
(* slots and processes and any capacities: a batch in flight owns its      *)
(* task, a live claim is not taken away, the execution budget holds, every *)
(* counter keeps its range, and the rows implement CopyPromise.            *)
(***************************************************************************)
EXTENDS CopyTasksSteps

\* The inductive invariant.
THEOREM Invariance == Spec => []IInv
  BY InitInv, NextInv, PTL DEF Spec

\* While a batch of run_batch is in flight its claim is current: whatever else
\* polls, settles, shuts down or cancels, the row it copies for stays its own.
THEOREM OwnershipSafe == Spec => []ExecutorOwns
  <1>1. IInv => ExecutorOwns
    BY DEF IInv
  <1> QED
    BY <1>1, Invariance, PTL

\* Between two checkpoints no copy executes under more than three claims beyond
\* those that were given back as not executed.
THEOREM BudgetSafe == Spec => []BudgetHolds
  <1>1. IInv => BudgetHolds
    BY DEF IInv, RowInv, GoodRow, BudgetHolds
  <1> QED
    BY <1>1, Invariance, PTL
-----------------------------------------------------------------------------
(* The counters of the rows, of the slots and of the fair queues. *)

\* A row that may still be claimed has failed at most twice, and nothing counts
\* more waiting than the ceiling.
GoodCounts(r) ==
    /\ r.failures <= 3 /\ (r.failures = 3 => r.state \in Terminal)
    /\ r.waited <= WaitMax

\* A claim that executes, or that settles an execution, began it in budget.
Hot(c) == c.pc = "executing" \/ (c.pc = "settle" /\ c.plan = "spend")
InBudget(s, c, r) == Hot(c) /\ r.state = "RUNNING" /\ r.holder = s => r.attempts <= 3

Ranges ==
    /\ \A t \in Task : GoodCounts(task[t])
    /\ \A s \in Slot : slot[s].iter \in 1..3 /\ InBudget(s, slot[s], task[slot[s].task])
    /\ vf \in [Queue -> 0..MaxLead]

\* claim adds the time in the queue up to the ceiling and leaves failures alone.
LEMMA ClaimedCounts ==
    ASSUME NEW r \in Row, NEW s \in Slot, NEW n \in Nat, GoodCounts(r), r.state \notin Terminal
    PROVE  GoodCounts(Claimed(r, s, n))
  <1> DEFINE w == IF r.state = "READY" THEN LeastOf({r.waited + n, WaitMax}) ELSE r.waited
  <1>1. w \in Nat /\ w <= WaitMax
    <2>1. r.waited \in Nat /\ r.waited <= WaitMax /\ r.waited + n \in Nat /\ WaitMax \in Nat
      BY Placement DEF Row, GoodCounts
    <2>2. LeastOf({r.waited + n, WaitMax}) \in Nat /\ LeastOf({r.waited + n, WaitMax}) <= WaitMax
      BY <2>1, LeastLow
    <2> QED
      BY <2>1, <2>2
  <1>2. Claimed(r, s, n) =
            IF WaitMax > 0 /\ w >= WaitMax
            THEN [r EXCEPT !.state = "FAILED", !.waited = w]
            ELSE [r EXCEPT !.state = "RUNNING", !.holder = s, !.owner = ProcOf[s], !.live = TRUE,
                           !.attempts = @ + 1, !.waited = w]
    BY DEF Claimed
  <1> HIDE DEF w
  <1>3. Claimed(r, s, n).failures = r.failures /\ Claimed(r, s, n).waited = w
    BY <1>2 DEF Row
  <1>4. r.failures \in Nat /\ r.failures <= 3 /\ r.failures # 3
    BY DEF GoodCounts, Row
  <1> QED
    BY <1>1, <1>3, <1>4 DEF GoodCounts

\* A checkpoint clears the failures.
LEMMA CommittedCounts ==
    ASSUME NEW r \in Row, NEW done \in BOOLEAN, NEW keep \in BOOLEAN, GoodCounts(r)
    PROVE  GoodCounts(Committed(r, done, keep))
  <1> DEFINE c == Committed(r, done, keep)
  <1>1. c.failures = 0 /\ c.waited = r.waited
    BY DEF Committed, Row
  <1> QED
    BY <1>1 DEF GoodCounts

\* A spent execution counts at most up to the budget, and at the budget the task
\* has failed.
LEMMA SettledCounts ==
    ASSUME NEW r \in Row, NEW plan, NEW p, NEW n \in Nat, GoodCounts(r), r.state = "RUNNING",
           plan = "spend" => r.attempts <= 3
    PROVE  GoodCounts(Settled(r, plan, p, n))
  <1> DEFINE f == IF plan = "spend" THEN Larger(r.failures, r.attempts - 1) + 1 ELSE r.failures
             w == LeastOf({r.waited + n, WaitMax})
             a == IF plan = "release" THEN Monus(r.attempts, 1) ELSE r.attempts
             st == IF f >= 3 \/ (WaitMax > 0 /\ w >= WaitMax) THEN "FAILED" ELSE "READY"
             freed == [r EXCEPT !.holder = None, !.owner = None, !.live = FALSE]
             c == Settled(r, plan, p, n)
  <1>1. w \in Nat /\ w <= WaitMax
    <2>1. r.waited + n \in Nat /\ WaitMax \in Nat
      BY Placement DEF Row
    <2> QED
      BY <2>1, LeastLow
  <1>2. r.failures \in Nat /\ r.failures <= 2 /\ r.attempts \in Nat /\ r.waited <= WaitMax
    BY DEF Row, GoodCounts, Terminal
  <1>3. f \in Nat /\ f <= 3 /\ (f = 3 => st = "FAILED")
    BY <1>2 DEF Larger
  <1>4. freed \in Row /\ freed.failures = r.failures /\ freed.waited = r.waited /\ freed.attempts = r.attempts
    BY ZenonT(40) DEF Row
  <1>5. c = CASE p = "CANCELLED" -> [freed EXCEPT !.state = "CANCELLED"]
              [] p = "ENDED" \/ (p # "CANCELLED" /\ plan = "fail") -> [freed EXCEPT !.state = "FAILED"]
              [] OTHER -> [freed EXCEPT !.state = st, !.failures = f, !.attempts = a,
                                        !.waited = w, !.due = FALSE]
    BY <1>4 DEF Settled
  <1> HIDE DEF w, f, a, st, freed, c
  <1>6. \/ c.failures = r.failures /\ c.waited = r.waited
        \/ c.failures = f /\ c.waited = w /\ c.state = st
    <2>1. CASE p = "CANCELLED"
      BY <1>4, <1>5, <2>1 DEF Row
    <2>2. CASE p # "CANCELLED" /\ (p = "ENDED" \/ plan = "fail")
      BY <1>4, <1>5, <2>2 DEF Row
    <2>3. CASE p # "CANCELLED" /\ ~(p = "ENDED" \/ plan = "fail")
      BY <1>4, <1>5, <2>3 DEF Row
    <2> QED
      BY <2>1, <2>2, <2>3
  <1>7. GoodCounts(c)
    BY <1>1, <1>2, <1>3, <1>6 DEF GoodCounts, Terminal
  <1> QED
    BY <1>7 DEF c

\* Turns of the queues are told apart up to the bound.
LEMMA RelativeLeads ==
    ASSUME NEW v, \A q \in Queue : v[q] \in Nat, NEW busy
    PROVE  Relative(v, busy) \in [Queue -> 0..MaxLead]
  <1> SUFFICES ASSUME NEW q \in Queue
               PROVE  Relative(v, busy)[q] \in 0..MaxLead
    BY ZenonT(40) DEF Relative
  <1> DEFINE peers == {v[r] : r \in busy \cap Siblings[q]}
             d == IF peers = {} THEN v[q] ELSE Monus(v[q], LeastOf(peers))
  <1>1. Relative(v, busy)[q] = LeastOf({MaxLead, d})
    BY ZenonT(40) DEF Relative
  <1>2. peers \in SUBSET Nat
    BY DEF Siblings
  <1>3. d \in Nat
    <2>1. peers # {} => LeastOf(peers) \in Nat
      BY <1>2, LeastIn
    <2> HIDE DEF peers
    <2> QED
      BY <2>1 DEF Monus
  <1>4. LeastOf({MaxLead, d}) \in Nat /\ LeastOf({MaxLead, d}) <= MaxLead
    <2> HIDE DEF d
    <2> QED
      BY <1>3, Turns, LeastLow
  <1> QED
    BY <1>1, <1>4, Turns

\* A queue that joins is put behind its siblings, at a natural number.
LEMMA AlignedTurns ==
    ASSUME vf \in [Queue -> Nat], NEW w
    PROVE  \A q \in Queue : AlignReadyWorkflow(w)[q] \in Nat
  <1> TAKE q \in Queue
  <1> DEFINE busy == Backlog(wf, task)
             ahead == {vf[r] : r \in {p \in (busy \cap Siblings[q]) \ {q} : Lane[p] = Lane[q]}}
  <1>1. ahead \in SUBSET Nat
    BY DEF Siblings
  <1>2. ahead # {} => LeastOf(ahead) \in Nat
    <2> HIDE DEF ahead
    <2> QED
      BY <1>1, LeastIn, ZenonT(40)
  <1>3. vf[q] \in Nat /\ Quantum[q] \in Nat
    BY Turns
  <1>4. \/ AlignReadyWorkflow(w)[q] = vf[q]
        \/ ahead # {} /\ AlignReadyWorkflow(w)[q] = LeastOf(ahead) + Quantum[q]
    BY ZenonT(40) DEF AlignReadyWorkflow
  <1> QED
    BY <1>2, <1>3, <1>4
-----------------------------------------------------------------------------
(* One step of a slot, of a row and of the queues. *)

TurnStep(s) ==
    /\ slot'[s].iter \in 1..3
    /\ Hot(slot'[s]) => /\ slot[s].task \in Task /\ slot'[s].task = slot[s].task
                        /\ Hot(slot[s]) \/ (task[slot[s].task].attempts <= 3 /\ UNCHANGED task)
RowStep(t) ==
    /\ GoodCounts(task'[t])
    /\ task'[t].state = "RUNNING" =>
          \/ /\ task[t].state = "RUNNING" /\ task'[t].holder = task[t].holder
             /\ task'[t].attempts = task[t].attempts
          \/ task'[t].attempts <= 3
          \/ ~Hot(slot'[task'[t].holder])
QueueStep == vf' = vf \/ \E v, busy : vf' = Relative(v, busy) /\ \A q \in Queue : v[q] \in Nat

LEMMA RangesKept ==
    ASSUME Ranges, \A s \in Slot : TurnStep(s), \A t \in Task : RowStep(t), QueueStep
    PROVE  Ranges'
  <1>1. \A t \in Task : GoodCounts(task'[t])
    BY DEF RowStep
  <1>2. ASSUME NEW s \in Slot
        PROVE  slot'[s].iter \in 1..3 /\ InBudget(s, slot'[s], task'[slot'[s].task])
    <2>1. TurnStep(s) /\ slot'[s].iter \in 1..3
      BY DEF TurnStep
    <2> SUFFICES ASSUME Hot(slot'[s]), task'[slot'[s].task].state = "RUNNING",
                        task'[slot'[s].task].holder = s
                 PROVE  task'[slot'[s].task].attempts <= 3
      BY <2>1 DEF InBudget
    <2>2. /\ slot[s].task \in Task /\ slot'[s].task = slot[s].task
          /\ Hot(slot[s]) \/ (task[slot[s].task].attempts <= 3 /\ UNCHANGED task)
      BY <2>1 DEF TurnStep
    <2>3. RowStep(slot[s].task) /\ InBudget(s, slot[s], task[slot[s].task])
      BY <2>2 DEF Ranges
    <2> QED
      BY <2>2, <2>3 DEF RowStep, InBudget
  <1>3. vf' \in [Queue -> 0..MaxLead]
    BY RelativeLeads DEF QueueStep, Ranges
  <1> QED
    BY <1>1, <1>2, <1>3, ZenonT(40) DEF Ranges, GoodCounts, InBudget, Hot

\* Nothing moves.
LEMMA StillTurn ==
    ASSUME IInv, Ranges, NEW s \in Slot, slot'[s] = slot[s] \/ slot'[s] = Idle
    PROVE  TurnStep(s)
  <1>1. CASE slot'[s] = slot[s]
    BY <1>1 DEF TurnStep, Ranges, IInv, Typed, Hot
  <1>2. CASE slot'[s] = Idle
    BY <1>2 DEF TurnStep, Hot, Idle
  <1> QED
    BY <1>1, <1>2

LEMMA StillRow ==
    ASSUME Ranges, NEW t \in Task, task'[t] = task[t]
    PROVE  RowStep(t)
  BY DEF Ranges, RowStep

\* The turns after a change of the backlog.
LEMMA StillQueue ==
    ASSUME Ranges, NEW busy, vf' = Relative(vf, busy)
    PROVE  QueueStep
  <1>1. \A q \in Queue : vf[q] \in Nat
    BY Turns DEF Ranges
  <1> QED
    BY <1>1, ZenonT(40) DEF QueueStep

\* A slot goes on to settle: with a spent execution only out of a batch.
LEMMA SettlingTurn ==
    ASSUME IInv, Ranges, NEW s \in Slot, NEW plan \in {"release", "spend", "fail"},
           slot[s].pc # "idle", Settling(s, plan), plan = "spend" => slot[s].pc = "executing",
           NEW z \in Slot
    PROVE  TurnStep(z)
  <1>1. slot[s] \in Turn /\ slot[s].task \in Task /\ slot \in [Slot -> Turn]
    BY DEF IInv, Typed
  <1>2. CASE z # s
    <2>1. slot'[z] = slot[z]
      BY <1>1, <1>2 DEF Settling
    <2> QED
      BY <2>1, StillTurn
  <1>3. CASE z = s
    <2>1. /\ slot'[s].pc = "settle" /\ slot'[s].plan = plan
          /\ slot'[s].iter = slot[s].iter /\ slot'[s].task = slot[s].task
      BY <1>1 DEF Settling, Turn
    <2>2. slot[s].iter \in 1..3
      BY DEF Ranges
    <2> QED
      BY <1>1, <1>3, <2>1, <2>2 DEF TurnStep, Hot
  <1> QED
    BY <1>2, <1>3

LEMMA SlotStepRanges ==
    ASSUME IInv, Ranges, NEW s \in Slot, SlotStep(s)
    PROVE  Ranges'
  <1>1. UNCHANGED <<task, vf>> /\ slot[s].pc # "idle" /\ slot \in [Slot -> Turn]
    BY DEF SlotStep, BeginBlocked, BeginFenced, BeginRefused, StatementTimeout, ExecutionError,
           SettleGivesUp, OrphanRollback, IInv, Typed
  <1>2. \/ \E plan \in {"release", "spend", "fail"} :
              Settling(s, plan) /\ (plan = "spend" => slot[s].pc = "executing")
        \/ slot' = [slot EXCEPT ![s] = Idle]
        \/ slot[s].iter < 3 /\ slot' = [slot EXCEPT ![s].pc = "claimed", ![s].iter = @ + 1]
    BY DEF SlotStep, BeginBlocked, BeginFenced, BeginRefused, StatementTimeout, ExecutionError,
           SettleGivesUp, OrphanRollback
  <1>3. ASSUME NEW z \in Slot
        PROVE  TurnStep(z)
    <2>1. CASE \E plan \in {"release", "spend", "fail"} :
                  Settling(s, plan) /\ (plan = "spend" => slot[s].pc = "executing")
      BY <1>1, <2>1, SettlingTurn
    <2>2. CASE slot' = [slot EXCEPT ![s] = Idle]
      <3>1. slot'[z] = slot[z] \/ slot'[z] = Idle
        BY <1>1, <2>2
      <3> QED
        BY <3>1, StillTurn
    <2>3. CASE slot[s].iter < 3 /\ slot' = [slot EXCEPT ![s].pc = "claimed", ![s].iter = @ + 1]
      <3>1. CASE z = s
        <4>1. slot'[s].pc = "claimed" /\ slot'[s].iter = slot[s].iter + 1
          BY <1>1, <2>3 DEF Turn
        <4>2. slot[s].iter \in 1..3
          BY DEF Ranges
        <4> QED
          BY <2>3, <3>1, <4>1, <4>2 DEF TurnStep, Hot
      <3>2. CASE z # s
        <4>1. slot'[z] = slot[z]
          BY <1>1, <2>3, <3>2
        <4> QED
          BY <4>1, StillTurn
      <3> QED
        BY <3>1, <3>2
    <2> QED
      BY <1>2, <2>1, <2>2, <2>3
  <1>4. \A t \in Task : RowStep(t)
    BY <1>1, StillRow
  <1> QED
    BY <1>1, <1>3, <1>4, RangesKept DEF QueueStep

\* A batch begins only within the execution budget.
LEMMA BeginRanges ==
    ASSUME IInv, Ranges, NEW s \in Slot, BeginExecution(s)
    PROVE  Ranges'
  <1>1. /\ slot[s].pc = "claimed" /\ task[slot[s].task].attempts <= 3 /\ UNCHANGED <<task, vf>>
        /\ slot' = [slot EXCEPT ![s].pc = "executing", ![s].ran = TRUE]
        /\ slot \in [Slot -> Turn] /\ slot[s].iter \in 1..3
    BY DEF BeginExecution, IInv, Typed, Ranges
  <1>2. slot[s].task \in Task
    BY <1>1 DEF IInv, Typed
  <1>3. ASSUME NEW z \in Slot
        PROVE  TurnStep(z)
    <2>1. CASE z = s
      <3>1. slot'[s].task = slot[s].task /\ slot'[s].iter = slot[s].iter
        BY <1>1 DEF Turn
      <3> QED
        BY <1>1, <1>2, <2>1, <3>1 DEF TurnStep
    <2>2. CASE z # s
      <3>1. slot'[z] = slot[z]
        BY <1>1, <2>2
      <3> QED
        BY <3>1, StillTurn
    <2> QED
      BY <2>1, <2>2
  <1>4. \A t \in Task : RowStep(t)
    BY <1>1, StillRow
  <1> QED
    BY <1>1, <1>3, <1>4, RangesKept DEF QueueStep

LEMMA CrashRanges ==
    ASSUME IInv, Ranges, NEW p, Crash(p)
    PROVE  Ranges'
  <1>1. UNCHANGED <<task, vf>>
    BY DEF Crash
  <1>2. ASSUME NEW z \in Slot
        PROVE  TurnStep(z)
    <2>1. slot[z] \in Turn /\ slot[z].iter \in 1..3
      BY DEF IInv, Typed, Ranges
    <2>2. slot'[z] \in {slot[z], Idle} \/ slot'[z] = [slot[z] EXCEPT !.pc = "orphan"]
      BY DEF Crash
    <2>3. CASE slot'[z] = [slot[z] EXCEPT !.pc = "orphan"]
      BY <2>1, <2>3 DEF TurnStep, Hot, Turn
    <2> QED
      BY <2>2, <2>3, StillTurn
  <1>3. \A t \in Task : RowStep(t)
    BY <1>1, StillRow
  <1> QED
    BY <1>1, <1>2, <1>3, RangesKept DEF QueueStep

LEMMA ClaimRanges ==
    ASSUME IInv, Ranges, NEW s \in Slot, Claim(s)
    PROVE  Ranges'
  <1>1. QueueStep
    <2>1. \E c \in {Chosen(Candidates)} :
          \E f \in {{t \in Candidates : QueueOf[t] = c[3] /\ ~RowLocked(t)}} :
             vf' = Relative([q \in Queue |-> IF q \in {c[i] : i \in 1..3} THEN vf[q] + Quantum[q] ELSE vf[q]],
                            Backlog(wf, task'))
      BY ZenonT(40) DEF Claim
    <2>2. PICK c \in {Chosen(Candidates)} :
                vf' = Relative([q \in Queue |-> IF q \in {c[i] : i \in 1..3} THEN vf[q] + Quantum[q] ELSE vf[q]],
                               Backlog(wf, task'))
      BY <2>1, ZenonT(40)
    <2> DEFINE v == [q \in Queue |-> IF q \in {c[i] : i \in 1..3} THEN vf[q] + Quantum[q] ELSE vf[q]]
    <2>3. \A q \in Queue : v[q] \in Nat
      <3> TAKE q \in Queue
      <3>1. vf[q] \in Nat /\ Quantum[q] \in Nat
        BY Turns DEF Ranges
      <3>2. v[q] = vf[q] \/ v[q] = vf[q] + Quantum[q]
        OBVIOUS
      <3> QED
        BY <3>1, <3>2
    <2>4. vf' = Relative(v, Backlog(wf, task'))
      BY <2>2
    <2> HIDE DEF v
    <2> QED
      BY <2>3, <2>4 DEF QueueStep
  <1>2. CASE UNCHANGED <<task, slot>>
    BY <1>1, <1>2, StillTurn, StillRow, RangesKept
  <1>3. ASSUME NEW t \in Task, NEW n \in Nat, ClaimTakes(s, t, n)
        PROVE  Ranges'
    <2>1. /\ task[t] \in Row /\ GoodCounts(task[t]) /\ slot \in [Slot -> Turn] /\ task \in [Task -> Row]
          /\ task[t].state \notin Terminal
      BY <1>3 DEF IInv, Typed, Ranges, ClaimTakes, Candidates, Terminal
    <2>2. /\ task'[t] = Claimed(task[t], s, n) /\ \A u \in Task \ {t} : task'[u] = task[u]
          /\ slot' = IF task'[t].state = "RUNNING"
                     THEN [slot EXCEPT ![s] = [Idle EXCEPT !.pc = "claimed", !.task = t]] ELSE slot
      BY <1>3, <2>1 DEF ClaimTakes
    <2>3. GoodCounts(task'[t])
      BY <2>1, <2>2, ClaimedCounts
    <2>4. task'[t].state = "FAILED" \/ (task'[t].state = "RUNNING" /\ task'[t].holder = s)
      BY <2>1, <2>2, ClaimedRow
    <2>5. task'[t].state = "RUNNING" => slot'[s].pc = "claimed" /\ slot'[s].iter = 1
      BY <2>1, <2>2 DEF Idle
    <2>6. ASSUME NEW u \in Task
          PROVE  RowStep(u)
      <3>1. CASE u = t
        BY <2>3, <2>4, <2>5, <3>1 DEF RowStep, Hot
      <3>2. CASE u # t
        BY <2>2, <3>2, StillRow
      <3> QED
        BY <3>1, <3>2
    <2>7. ASSUME NEW z \in Slot
          PROVE  TurnStep(z)
      <3>1. CASE z = s /\ task'[t].state = "RUNNING"
        BY <2>5, <3>1 DEF TurnStep, Hot
      <3>2. CASE ~(z = s /\ task'[t].state = "RUNNING")
        <4>1. slot'[z] = slot[z]
          BY <2>1, <2>2, <3>2, ZenonT(40)
        <4> QED
          BY <4>1, StillTurn
      <3> QED
        BY <3>1, <3>2
    <2> QED
      BY <1>1, <2>6, <2>7, RangesKept
  <1> QED
    BY <1>2, <1>3, ClaimEffect

LEMMA CommitRanges ==
    ASSUME IInv, Ranges, NEW s \in Slot, Commit(s)
    PROVE  Ranges'
  <1> DEFINE t == slot[s].task
             done == task[t].cp + 1 = Batches[t]
             next == [Idle EXCEPT !.pc = "claimed", !.task = t]
  <1>1. slot[s].pc = "executing" /\ slot \in [Slot -> Turn] /\ task \in [Task -> Row]
    BY DEF Commit, IInv, Typed
  <1>2. t \in Task /\ task[t] \in Row /\ GoodCounts(task[t])
    BY <1>1, Executing DEF Ranges
  <1>3. PICK keep \in {FALSE, task[t].live} :
            /\ task' = [task EXCEPT ![t] = Committed(@, done, keep)]
            /\ \/ slot' = [slot EXCEPT ![s] = IF keep /\ ~done THEN next ELSE Idle]
               \/ Settling(s, "fail")
    BY ZenonT(40) DEF Commit
  <1>4. keep \in BOOLEAN /\ done \in BOOLEAN
    BY <1>2, ZenonT(40) DEF Row
  <1>5. task'[t] = Committed(task[t], done, keep) /\ \A u \in Task \ {t} : task'[u] = task[u]
    BY <1>1, <1>2, <1>3
  <1>6. QueueStep
    <2>1. vf' = Relative(vf, Backlog(wf, task'))
      BY DEF Commit
    <2> QED
      BY <2>1, StillQueue
  <1>7. next.pc = "claimed" /\ next.iter = 1
    BY DEF Idle
  <1>12. t = slot[s].task
    OBVIOUS
  <1> HIDE DEF done, next, t
  <1>8. RowStep(t)
    <2>1. GoodCounts(task'[t])
      BY <1>2, <1>4, <1>5, CommittedCounts, ZenonT(40)
    <2>2. CommitsTo(task[t], done, keep, task'[t])
      BY <1>2, <1>4, <1>5, CommittedRow, ZenonT(40)
    <2>3. task'[t].state = "RUNNING" => task'[t].attempts = 1
      BY <2>2 DEF CommitsTo
    <2> QED
      BY <2>1, <2>3 DEF RowStep
  <1>9. \A u \in Task : RowStep(u)
    BY <1>5, <1>8, StillRow
  <1>10. ASSUME NEW z \in Slot
         PROVE  TurnStep(z)
    <2>1. CASE Settling(s, "fail")
      BY <1>1, <2>1, SettlingTurn
    <2>2. CASE slot' = [slot EXCEPT ![s] = IF keep /\ ~done THEN next ELSE Idle]
      <3>1. slot'[z] = next \/ slot'[z] = slot[z] \/ slot'[z] = Idle
        BY <1>1, <2>2
      <3>2. CASE slot'[z] = next
        BY <1>7, <3>2 DEF TurnStep, Hot
      <3> QED
        BY <3>1, <3>2, StillTurn
    <2> QED
      BY <1>3, <2>1, <2>2
  <1> QED
    BY <1>6, <1>9, <1>10, RangesKept

LEMMA SettleRanges ==
    ASSUME IInv, Ranges, NEW s \in Slot, SettleOnce(s)
    PROVE  Ranges'
  <1> DEFINE t == slot[s].task
             plan == slot[s].plan
  <1>1. /\ slot[s].pc = "settle" /\ slot' = [slot EXCEPT ![s] = Idle]
        /\ slot \in [Slot -> Turn] /\ task \in [Task -> Row]
    BY DEF SettleOnce, IInv, Typed
  <1>2. t \in Task /\ task[t] \in Row /\ GoodCounts(task[t]) /\ InBudget(s, slot[s], task[t])
    BY <1>1 DEF IInv, Typed, Ranges
  <1>3. \A z \in Slot : TurnStep(z)
    <2> TAKE z \in Slot
    <2>1. slot'[z] = slot[z] \/ slot'[z] = Idle
      BY <1>1
    <2> QED
      BY <2>1, StillTurn
  <1>4. CASE ~Owned(s)
    <2>1. UNCHANGED <<task, vf>>
      BY <1>4 DEF SettleOnce
    <2> QED
      BY <1>3, <2>1, StillRow, RangesKept DEF QueueStep
  <1>5. CASE Owned(s)
    <2>1. QueueStep
      <3>1. vf' = Relative(vf, Backlog(wf, task'))
        BY <1>5 DEF SettleOnce
      <3> QED
        BY <3>1, StillQueue
    <2>2. PICK n \in 0..1 : task' = [task EXCEPT ![t] = Settled(@, plan, parent[WfOf[t]], n)]
      BY <1>5 DEF SettleOnce
    <2>3. n \in Nat /\ task'[t] = Settled(task[t], plan, parent[WfOf[t]], n)
          /\ \A u \in Task \ {t} : task'[u] = task[u]
      BY <1>1, <1>2, <2>2
    <2>4. task[t].state = "RUNNING" /\ (plan = "spend" => task[t].attempts <= 3)
      BY <1>1, <1>2, <1>5 DEF Owned, InBudget, Hot
    <2> HIDE DEF t, plan
    <2>5. GoodCounts(task'[t])
      BY <1>2, <2>3, <2>4, SettledCounts
    <2>6. SettlesTo(task[t], plan, task'[t])
      BY <1>2, <2>3, SettledRow
    <2>7. RowStep(t)
      BY <2>5, <2>6 DEF SettlesTo, RowStep
    <2>8. \A u \in Task : RowStep(u)
      BY <2>3, <2>7, StillRow
    <2> QED
      BY <1>3, <2>1, <2>8, RangesKept
  <1> QED
    BY <1>4, <1>5

\* Rows that change no counter and take no claim.
LEMMA SameCounts ==
    ASSUME Ranges, NEW t \in Task,
           task'[t].failures = task[t].failures /\ task'[t].waited = task[t].waited,
           task[t].state \in Terminal => task'[t].state \in Terminal,
           task'[t].state = "RUNNING" => /\ task[t].state = "RUNNING" /\ task'[t].holder = task[t].holder
                                         /\ task'[t].attempts = task[t].attempts
    PROVE  RowStep(t)
  BY DEF Ranges, RowStep, GoodCounts

LEMMA ReleaseRanges ==
    ASSUME IInv, Ranges, NEW s \in Slot, ReleaseCancelledClaim(s)
    PROVE  Ranges'
  <1> DEFINE t == slot[s].task
             mine == task[t].state = "RUNNING" /\ task[t].holder = s /\ task[t].owner = ProcOf[s]
  <1>1. /\ slot[s].pc # "idle" /\ slot' = [slot EXCEPT ![s] = Idle] /\ UNCHANGED vf
        /\ slot \in [Slot -> Turn] /\ task \in [Task -> Row]
    BY DEF ReleaseCancelledClaim, IInv, Typed
  <1>2. t \in Task /\ task[t] \in Row
    BY <1>1 DEF IInv, Typed
  <1>3. ASSUME NEW z \in Slot
        PROVE  TurnStep(z)
    <2>1. slot'[z] = slot[z] \/ slot'[z] = Idle
      BY <1>1
    <2> QED
      BY <2>1, StillTurn
  <1>4. CASE ~mine
    <2>1. UNCHANGED task
      BY <1>4, ZenonT(40) DEF ReleaseCancelledClaim
    <2> QED
      BY <1>1, <1>3, <2>1, StillRow, RangesKept DEF QueueStep
  <1>5. CASE mine
    <2>1. task' = [task EXCEPT ![t].state = "READY", ![t].holder = None, ![t].owner = None,
                               ![t].live = FALSE, ![t].due = TRUE]
      BY <1>5, ZenonT(40) DEF ReleaseCancelledClaim
    <2>2. /\ task'[t].state = "READY" /\ task'[t].failures = task[t].failures
          /\ task'[t].waited = task[t].waited /\ \A u \in Task \ {t} : task'[u] = task[u]
      BY <1>1, <1>2, <2>1, ZenonT(40) DEF Row
    <2>3. RowStep(t)
      BY <1>2, <1>5, <2>2, SameCounts DEF Terminal
    <2>4. \A u \in Task : RowStep(u)
      BY <2>2, <2>3, StillRow
    <2> QED
      BY <1>1, <1>3, <2>4, RangesKept DEF QueueStep
  <1> QED
    BY <1>4, <1>5

LEMMA TimeRanges ==
    ASSUME IInv, Ranges, NEW t \in Task, LeaseLapses(t) \/ BecomesDue(t)
    PROVE  Ranges'
  <1>1. UNCHANGED <<slot, vf>> /\ task \in [Task -> Row] /\ task[t] \in Row
    BY DEF LeaseLapses, BecomesDue, IInv, Typed
  <1>2. task' = [task EXCEPT ![t].live = FALSE] \/ task' = [task EXCEPT ![t].due = TRUE]
    BY DEF LeaseLapses, BecomesDue
  <1>3. /\ task'[t].state = task[t].state /\ task'[t].failures = task[t].failures
        /\ task'[t].waited = task[t].waited /\ task'[t].holder = task[t].holder
        /\ task'[t].attempts = task[t].attempts /\ \A u \in Task \ {t} : task'[u] = task[u]
    BY <1>1, <1>2 DEF Row
  <1>4. RowStep(t)
    BY <1>3, SameCounts
  <1>5. \A u \in Task : RowStep(u)
    BY <1>3, <1>4, StillRow
  <1> QED
    BY <1>1, <1>5, StillTurn, RangesKept DEF QueueStep

\* Cancelled rows keep their counters.
LEMMA CancelledCounts ==
    ASSUME IInv, Ranges, NEW ws, task' = Cancelled(ws), NEW t \in Task
    PROVE  RowStep(t)
  <1>1. task[t] \in Row
    BY DEF IInv, Typed
  <1>2. CASE WfOf[t] \in ws /\ task[t].state \notin Terminal
    <2>1. task'[t] = [task[t] EXCEPT !.state = "CANCELLED", !.holder = None, !.owner = None, !.live = FALSE]
      BY <1>2, ZenonT(40) DEF Cancelled
    <2>2. task'[t].state = "CANCELLED" /\ task'[t].failures = task[t].failures /\ task'[t].waited = task[t].waited
      BY <1>1, <2>1 DEF Row
    <2> QED
      BY <2>2, SameCounts DEF Terminal
  <1>3. CASE ~(WfOf[t] \in ws /\ task[t].state \notin Terminal)
    <2>1. task'[t] = task[t]
      BY <1>3, ZenonT(40) DEF Cancelled
    <2> QED
      BY <2>1, StillRow
  <1> QED
    BY <1>2, <1>3

LEMMA ParentRanges ==
    ASSUME IInv, Ranges,
           \/ \E w \in Wf : Seal(w) \/ Abandon(w)
           \/ \E j : CancelCopyWork(j) \/ EndParent(j)
    PROVE  Ranges'
  <1>1. UNCHANGED slot
    BY ZenonT(40) DEF Seal, Abandon, CancelCopyWork, EndParent
  <1>2. \A s \in Slot : TurnStep(s)
    BY <1>1, StillTurn
  <1>3. UNCHANGED task \/ \E ws : task' = Cancelled(ws)
    BY ZenonT(40) DEF Seal, Abandon, CancelCopyWork, EndParent
  <1>4. \A t \in Task : RowStep(t)
    BY <1>3, StillRow, CancelledCounts
  <1>5. QueueStep
    <2>1. ASSUME NEW w \in Wf, Seal(w)
          PROVE  QueueStep
      <3>1. vf' = Relative(AlignReadyWorkflow(w), Backlog(wf', task))
        BY <2>1, ZenonT(40) DEF Seal
      <3>2. \A q \in Queue : AlignReadyWorkflow(w)[q] \in Nat
        <4>1. vf \in [Queue -> Nat]
          BY Turns DEF Ranges
        <4> QED
          BY <4>1, AlignedTurns
      <3> QED
        BY <3>1, <3>2, ZenonT(40) DEF QueueStep
    <2>2. ASSUME NEW w \in Wf, Abandon(w)
          PROVE  QueueStep
      <3>1. vf' = Relative(vf, Backlog(wf', task'))
        BY <2>2, ZenonT(40) DEF Abandon
      <3> QED
        BY <3>1, StillQueue
    <2>3. ASSUME NEW j, CancelCopyWork(j)
          PROVE  QueueStep
      <3>1. vf' = Relative(vf, Backlog(wf', task'))
        BY <2>3, ZenonT(40) DEF CancelCopyWork
      <3> QED
        BY <3>1, StillQueue
    <2>4. ASSUME NEW j, EndParent(j)
          PROVE  QueueStep
      BY <2>4 DEF EndParent, QueueStep
    <2> QED
      BY <2>1, <2>2, <2>3, <2>4
  <1> QED
    BY <1>2, <1>4, <1>5, RangesKept

LEMMA InitRanges ==
    ASSUME Init
    PROVE  Ranges
  <1>1. \A t \in Task : GoodCounts(task[t])
    BY Placement DEF Init, FreshTask, GoodCounts
  <1>2. \A s \in Slot : slot[s].iter \in 1..3 /\ InBudget(s, slot[s], task[slot[s].task])
    BY DEF Init, Idle, InBudget, Hot
  <1>3. vf \in [Queue -> 0..MaxLead]
    BY Turns DEF Init
  <1> QED
    BY <1>1, <1>2, <1>3 DEF Ranges

LEMMA NextRanges ==
    ASSUME IInv, Ranges, [Next]_vars
    PROVE  Ranges'
  <1>1. CASE UNCHANGED vars
    BY <1>1, StillTurn, StillRow, RangesKept DEF vars, QueueStep
  <1>2. ASSUME NEW s \in Slot, Step(s) \/ StatementTimeout(s) \/ ExecutionError(s)
                               \/ SettleGivesUp(s) \/ ReleaseCancelledClaim(s)
        PROVE  Ranges'
    BY <1>2, ClaimRanges, SlotStepRanges, BeginRanges, CommitRanges, SettleRanges, ReleaseRanges
       DEF Step, SlotStep
  <1> QED
    BY <1>1, <1>2, ParentRanges, CrashRanges, TimeRanges DEF Next

\* Every row, slot and queue stays in its range: a task that has failed three
\* times is closed, so no claim, lost settlement or shutdown takes the failure
\* count or the waiting time past its ceiling, a batch is tried three times at
\* most under one claim, and a task is COMPLETED exactly at its last batch.
THEOREM CopyTypes == Spec => []TypeOK
  <1>1. IInv /\ Ranges => TypeOK
    <2> SUFFICES ASSUME IInv, Ranges
                 PROVE  TypeOK
      OBVIOUS
    <2>1. ASSUME NEW t \in Task
          PROVE  task[t] \in [state : Terminal \cup {"READY", "RUNNING"}, holder : Slot \cup {None},
                              owner : Proc \cup {None}, live : BOOLEAN, attempts : Nat, failures : 0..3,
                              cp : Nat, waited : 0..WaitMax, due : BOOLEAN]
      <3>1. task[t] \in Row /\ GoodCounts(task[t])
        BY DEF IInv, Typed, Ranges
      <3>2. task[t].failures \in 0..3 /\ task[t].waited \in 0..WaitMax
        BY <3>1, Placement DEF Row, GoodCounts
      <3> QED
        BY <3>1, <3>2 DEF Row
    <2>2. ASSUME NEW s \in Slot
          PROVE  slot[s] \in [pc : {"idle", "claimed", "executing", "settle", "orphan"},
                              task : Task \cup {None}, iter : 1..3,
                              plan : {"none", "release", "spend", "fail"}, ran : BOOLEAN]
      <3>1. slot[s] \in Turn /\ slot[s].iter \in 1..3
        BY DEF IInv, Typed, Ranges
      <3> QED
        BY <3>1 DEF Turn
    <2>3. \A t \in Task : task[t].cp <= Batches[t] /\ (task[t].cp = Batches[t] <=> task[t].state = "COMPLETED")
      BY DEF IInv, RowInv, GoodRow
    <2> QED
      BY <2>1, <2>2, <2>3 DEF TypeOK, IInv, Typed, Ranges
  <1>2. Init => IInv /\ Ranges
    BY InitInv, InitRanges
  <1>3. IInv /\ Ranges /\ [Next]_vars => IInv' /\ Ranges'
    BY NextInv, NextRanges
  <1> QED
    BY <1>1, <1>2, <1>3, PTL DEF Spec
-----------------------------------------------------------------------------
(* Live claims. *)

LEMMA KeptStep ==
    ASSUME IInv, [Next]_vars, NEW s \in Slot
    PROVE  Kept(s)
  <1> DEFINE t == slot[s].task
  <1> SUFFICES ASSUME slot[s].pc \in {"claimed", "settle"}, task[t].holder = s, task[t].live,
                      task'[t].holder # s
               PROVE  slot'[s] # slot[s] \/ wf'[WfOf[t]] # "WAITING"
    BY DEF Kept
  <1>1. t \in Task /\ task[t] \in Row /\ task[t].state = "RUNNING" /\ task'[t] # task[t]
    BY DEF IInv, Typed, RowInv, GoodRow
  <1> HIDE DEF t
  <1>2. ASSUME NEW z \in Slot, Claim(z)
        PROVE  FALSE
    <2>1. PICK u \in Task, n \in Nat : ClaimTakes(z, u, n)
      BY <1>1, <1>2, ClaimEffect
    <2>2. u # t
      BY <1>1, <2>1 DEF ClaimTakes, Candidates
    <2> QED
      BY <1>1, <2>1, <2>2 DEF ClaimTakes, IInv, Typed
  <1>3. ASSUME NEW z \in Slot, Commit(z)
        PROVE  FALSE
    <2>1. slot[z].pc = "executing" /\ task[slot[z].task].holder = z /\ z # s /\ slot[z].task \in Task
      BY <1>3, Executing, ZenonT(40) DEF Commit
    <2>2. \A u \in Task \ {slot[z].task} : task'[u] = task[u]
      BY <1>3 DEF Commit, IInv, Typed
    <2> QED
      BY <1>1, <2>1, <2>2
  <1>4. ASSUME NEW z \in Slot, SettleOnce(z) \/ ReleaseCancelledClaim(z)
        PROVE  slot'[s] # slot[s]
    <2>1. CASE z = s
      <3>1. slot' = [slot EXCEPT ![s] = Idle] /\ slot[s].pc # "idle"
        BY <1>4, <2>1, ZenonT(40) DEF SettleOnce, ReleaseCancelledClaim
      <3>2. slot \in [Slot -> Turn] /\ Idle.pc = "idle"
        BY DEF IInv, Typed, Idle
      <3> QED
        BY <3>1, <3>2
    <2>2. CASE z # s
      <3>1. task[slot[z].task].holder # z => UNCHANGED task
        BY <1>4, ZenonT(40) DEF SettleOnce, ReleaseCancelledClaim, Owned
      <3>2. \A u \in Task \ {slot[z].task} : task'[u] = task[u]
        BY <1>4, ZenonT(40) DEF SettleOnce, ReleaseCancelledClaim, IInv, Typed
      <3> QED
        BY <1>1, <2>2, <3>1, <3>2
    <2> QED
      BY <2>1, <2>2
  <1>5. ASSUME NEW u \in Task, LeaseLapses(u) \/ BecomesDue(u)
        PROVE  FALSE
    <2>1. \A v \in Task \ {u} : task'[v] = task[v]
      BY <1>5 DEF LeaseLapses, BecomesDue, IInv, Typed
    <2>2. task[u] \in Row /\ (task'[u] = [task[u] EXCEPT !.live = FALSE] \/ task'[u] = [task[u] EXCEPT !.due = TRUE])
      BY <1>5, ZenonT(40) DEF LeaseLapses, BecomesDue, IInv, Typed
    <2>3. task'[u].holder = task[u].holder
      BY <2>2 DEF Row
    <2> QED
      BY <1>1, <2>1, <2>3
  <1>6. ASSUME NEW w \in Wf, Abandon(w)
        PROVE  wf'[WfOf[t]] # "WAITING"
    <2>1. WfOf[t] = w
      BY <1>1, <1>6, ZenonT(40) DEF Abandon, Cancelled
    <2> QED
      BY <1>6, <2>1 DEF Abandon, IInv, Typed
  <1>7. ASSUME NEW j, CancelCopyWork(j)
        PROVE  wf'[WfOf[t]] # "WAITING"
    <2> DEFINE mine == {w \in Wf : SnapOf[w] = j}
    <2>1. task' = Cancelled(mine) /\ wf' = [w \in Wf |-> IF w \in mine THEN "CANCELLED" ELSE wf[w]]
      BY <1>7, ZenonT(40) DEF CancelCopyWork
    <2>2. WfOf[t] \in mine
      BY <1>1, <2>1, ZenonT(40) DEF Cancelled
    <2> QED
      BY <2>1, <2>2
  <1>8. ~(UNCHANGED task)
    BY <1>1
  <1>9. ASSUME NEW z \in Slot, SlotStep(z) \/ BeginExecution(z)
        PROVE  UNCHANGED task
    BY <1>9 DEF SlotStep, BeginBlocked, BeginFenced, BeginRefused, StatementTimeout, ExecutionError,
               SettleGivesUp, OrphanRollback, BeginExecution
  <1>10. /\ ~(UNCHANGED vars)
         /\ \A p \in Proc : ~Crash(p)
         /\ \A w \in Wf : ~Seal(w)
         /\ \A j : ~EndParent(j)
    BY <1>8 DEF vars, Crash, Seal, EndParent
  <1> DEFINE Goal == slot'[s] # slot[s] \/ wf'[WfOf[t]] # "WAITING"
  <1>11. ASSUME NEW z \in Slot, Step(z) \/ StatementTimeout(z) \/ ExecutionError(z)
                                \/ SettleGivesUp(z) \/ ReleaseCancelledClaim(z)
         PROVE  Goal
    BY <1>2, <1>3, <1>4, <1>8, <1>9, <1>11, ZenonT(40) DEF Step, SlotStep
  <1> QED
    BY <1>5, <1>6, <1>7, <1>10, <1>11, ZenonT(40) DEF Next

\* No late settlement, shutdown or expired-claim poll of another slot takes a
\* live claim away.
THEOREM LiveClaimKept == Spec => ClaimKept
  <1>1. IInv /\ [Next]_vars => [\A s \in Slot : Kept(s)]_vars
    BY KeptStep
  <1> QED
    BY <1>1, Invariance, PTL DEF Spec, ClaimKept
-----------------------------------------------------------------------------
(* Refinement. *)

\* What the promise sees of the rows.
Cp == [t \in Task |-> task[t].cp]
Verdict(r) == IF r.state \in Terminal THEN r.state ELSE "OPEN"
Vd == [t \in Task |-> Verdict(task[t])]

\* Steps the promise does not see.
Hidden == UNCHANGED <<wf, Cp, Vd>>

LEMMA RowsHidden ==
    ASSUME UNCHANGED wf,
           \A t \in Task : task'[t].cp = task[t].cp /\ Verdict(task'[t]) = Verdict(task[t])
    PROVE  Hidden
  BY DEF Hidden, Cp, Vd

\* A row that ends without its last batch is a task that gives up.
LEMMA GivesUp ==
    ASSUME Typed, NEW t \in Task, NEW r \in Row, task' = [task EXCEPT ![t] = r], UNCHANGED wf,
           wf[WfOf[t]] = "WAITING", task[t].state \in {"READY", "RUNNING"},
           r.cp = task[t].cp, r.state \in {"READY", "RUNNING", "FAILED", "CANCELLED"}
    PROVE  Hidden \/ Promise!Next
  <1>1. task'[t] = r /\ \A u \in Task \ {t} : task'[u] = task[u]
    BY DEF Typed
  <1>2. CASE r.state \in {"READY", "RUNNING"}
    BY <1>1, <1>2, RowsHidden DEF Verdict, Terminal
  <1>3. CASE r.state \in {"FAILED", "CANCELLED"}
    <2>1. Cp' = Cp
      BY <1>1 DEF Cp
    <2>2. Vd[t] = "OPEN" /\ Vd' = [Vd EXCEPT ![t] = r.state]
      BY <1>1, <1>3, ZenonT(40) DEF Vd, Verdict, Terminal
    <2>3. Promise!GiveUp(t)
      BY <1>3, <2>1, <2>2, ZenonT(40) DEF Promise!GiveUp, Cp, Vd, Verdict
    <2> QED
      BY <2>3 DEF Promise!Next
  <1> QED
    BY <1>2, <1>3

\* A commit is one batch of its task.
LEMMA CommitCopies ==
    ASSUME IInv, NEW s \in Slot, Commit(s)
    PROVE  Promise!Next
  <1>13. PICK t \in Task : t = slot[s].task
    BY DEF Commit, IInv, Typed
  <1> DEFINE done == task[t].cp + 1 = Batches[t]
  <1>1. slot[s].pc = "executing" /\ UNCHANGED wf
    BY DEF Commit
  <1>2. /\ t \in Task /\ task[t] \in Row /\ wf[WfOf[t]] = "WAITING" /\ task[t].state = "RUNNING"
        /\ t \in Last => Behind(t, task)
    BY <1>1, <1>13, Executing
  <1>3. PICK keep \in {FALSE, task[t].live} : task' = [task EXCEPT ![t] = Committed(@, done, keep)]
    BY <1>13, ZenonT(40) DEF Commit
  <1>4. keep \in BOOLEAN /\ done \in BOOLEAN
    BY <1>2, ZenonT(40) DEF Row
  <1> DEFINE r == Committed(task[t], done, keep)
  <1>5. r.cp = task[t].cp + 1 /\ Verdict(r) = IF done THEN "COMPLETED" ELSE "OPEN"
    <2>1. /\ r.cp = task[t].cp + 1
          /\ \/ done /\ r.state = "COMPLETED"
             \/ ~done /\ r.state = "RUNNING"
             \/ ~done /\ r.state = "READY"
      <3> HIDE DEF done
      <3>1. CommitsTo(task[t], done, keep, r)
        BY <1>2, <1>4, CommittedRow, ZenonT(40)
      <3> HIDE DEF r
      <3> QED
        BY <1>2, <3>1 DEF CommitsTo
    <2> QED
      BY <2>1 DEF Verdict, Terminal
  <1>6. task'[t] = r /\ \A u \in Task \ {t} : task'[u] = task[u]
    BY <1>2, <1>3 DEF IInv, Typed
  <1>7. Cp[t] = task[t].cp /\ Cp' = [Cp EXCEPT ![t] = Cp[t] + 1]
    BY <1>2, <1>5, <1>6, ZenonT(40) DEF Cp
  <1>8. Vd[t] = "OPEN"
    BY <1>2 DEF Vd, Verdict, Terminal
  <1>9. Vd' = [Vd EXCEPT ![t] = IF done THEN "COMPLETED" ELSE Vd[t]]
    <2>1. \A u \in Task : Verdict(task'[u]) = IF u # t THEN Verdict(task[u])
                                              ELSE IF done THEN "COMPLETED" ELSE "OPEN"
      BY <1>5, <1>6
    <2> HIDE DEF done
    <2> QED
      BY <1>8, <2>1, ZenonT(40) DEF Vd
  <1>10. t \in Last => \A u \in Task \ Last : WfOf[u] = WfOf[t] => Vd[u] # "OPEN"
    BY <1>2 DEF Behind, Vd, Verdict, Terminal
  <1>11. Promise!Copy(t)
    BY <1>1, <1>2, <1>7, <1>8, <1>9, <1>10, ZenonT(40) DEF Promise!Copy, Cp, Vd, Verdict
  <1> QED
    BY <1>11, ZenonT(40) DEF Promise!Next

\* Giving up workflows is one step of the promise.
LEMMA CancelCancels ==
    ASSUME IInv, NEW ws \in SUBSET Wf, NEW e \in {"CANCELLED", "FAILED"},
           \A w \in ws : wf[w] \in {"DRAINING", "WAITING"},
           wf' = [w \in Wf |-> IF w \in ws THEN e ELSE wf[w]],
           task' = Cancelled(ws)
    PROVE  Promise!Cancel(ws)
  <1>1. ASSUME NEW u \in Task
        PROVE  /\ task'[u].cp = task[u].cp
               /\ Verdict(task'[u]) = IF WfOf[u] \in ws /\ Verdict(task[u]) = "OPEN"
                                      THEN "CANCELLED" ELSE Verdict(task[u])
    <2>1. task[u] \in Row
      BY DEF IInv, Typed
    <2>2. CASE WfOf[u] \in ws /\ task[u].state \notin Terminal
      <3>1. task'[u] = [task[u] EXCEPT !.state = "CANCELLED", !.holder = None, !.owner = None, !.live = FALSE]
        BY <2>2, ZenonT(40) DEF Cancelled
      <3>2. task'[u].cp = task[u].cp /\ task'[u].state = "CANCELLED"
        BY <2>1, <3>1 DEF Row
      <3> QED
        BY <2>2, <3>2 DEF Verdict, Terminal
    <2>3. CASE ~(WfOf[u] \in ws /\ task[u].state \notin Terminal)
      <3>1. task'[u] = task[u]
        BY <2>3, ZenonT(40) DEF Cancelled
      <3> QED
        BY <2>3, <3>1 DEF Verdict, Terminal
    <2> QED
      BY <2>2, <2>3
  <1>2. Cp' = Cp
    BY <1>1 DEF Cp
  <1>3. Vd' = [u \in Task |-> IF WfOf[u] \in ws /\ Vd[u] = "OPEN" THEN "CANCELLED" ELSE Vd[u]]
    BY <1>1 DEF Vd
  <1> QED
    BY <1>2, <1>3 DEF Promise!Cancel, Cp, Vd, Verdict

LEMMA PromiseStep ==
    ASSUME IInv, [Next]_vars
    PROVE  Hidden \/ Promise!Next
  <1> USE DEF IInv
  <1>1. ASSUME NEW s \in Slot, Claim(s)
        PROVE  Hidden \/ Promise!Next
    <2>1. UNCHANGED wf
      BY <1>1, ClaimEffect
    <2>2. CASE UNCHANGED <<task, slot>>
      BY <2>1, <2>2, RowsHidden
    <2>3. ASSUME NEW t \in Task, NEW n \in Nat, ClaimTakes(s, t, n)
          PROVE  Hidden \/ Promise!Next
      <3> DEFINE r == Claimed(task[t], s, n)
      <3>1. task[t] \in Row /\ task' = [task EXCEPT ![t] = r]
        BY <2>3 DEF Typed, ClaimTakes
      <3>2. r \in Row /\ r.cp = task[t].cp /\ r.state \in {"RUNNING", "FAILED"}
        BY <3>1, ClaimedRow
      <3>3. wf[WfOf[t]] = "WAITING" /\ task[t].state \in {"READY", "RUNNING"}
        BY <2>3 DEF ClaimTakes, Candidates
      <3> HIDE DEF r
      <3> QED
        BY <2>1, <3>1, <3>2, <3>3, GivesUp, ZenonT(40)
    <2> QED
      BY <1>1, <2>2, <2>3, ClaimEffect
  <1>2. ASSUME NEW s \in Slot, Commit(s)
        PROVE  Promise!Next
    BY <1>2, CommitCopies
  <1>3. ASSUME NEW s \in Slot, SettleOnce(s)
        PROVE  Hidden \/ Promise!Next
    <2> DEFINE t == slot[s].task
    <2>1. UNCHANGED wf /\ t \in Task /\ task[t] \in Row
      BY <1>3 DEF SettleOnce, Typed
    <2>2. CASE ~Owned(s)
      <3>1. UNCHANGED task
        BY <1>3, <2>2 DEF SettleOnce
      <3> QED
        BY <2>1, <3>1, RowsHidden
    <2>3. CASE Owned(s)
      <3>1. PICK n \in 0..1 : task' = [task EXCEPT ![t] = Settled(@, slot[s].plan, parent[WfOf[t]], n)]
        BY <1>3, <2>3 DEF SettleOnce
      <3> DEFINE r == Settled(task[t], slot[s].plan, parent[WfOf[t]], n)
      <3>2. task' = [task EXCEPT ![t] = r]
        BY <2>1, <3>1
      <3>3. r \in Row /\ r.cp = task[t].cp /\ r.state \in {"READY", "FAILED", "CANCELLED"}
        <4>1. n \in Nat
          BY <3>1
        <4>2. SettlesTo(task[t], slot[s].plan, r)
          BY <2>1, <4>1, SettledRow, ZenonT(40)
        <4> HIDE DEF r, t
        <4> QED
          BY <4>2 DEF SettlesTo
      <3>4. wf[WfOf[t]] = "WAITING" /\ task[t].state = "RUNNING"
        BY <2>3 DEF Owned
      <3> HIDE DEF r, t
      <3> QED
        BY <2>1, <3>2, <3>3, <3>4, GivesUp, ZenonT(40)
    <2> QED
      BY <2>2, <2>3
  <1>4. ASSUME NEW s \in Slot, ReleaseCancelledClaim(s)
        PROVE  Hidden
    <2> DEFINE t == slot[s].task
               r == [task[t] EXCEPT !.state = "READY", !.holder = None, !.owner = None,
                                    !.live = FALSE, !.due = TRUE]
    <2>1. t \in Task /\ task[t] \in Row /\ UNCHANGED wf
      BY <1>4 DEF ReleaseCancelledClaim, Typed
    <2>2. UNCHANGED task \/ (task[t].state = "RUNNING" /\ task' = [task EXCEPT ![t] = r])
      BY <1>4, <2>1, ZenonT(40) DEF ReleaseCancelledClaim, Typed, Row
    <2>3. r.cp = task[t].cp /\ Verdict(r) = "OPEN"
      BY <2>1 DEF Row, Verdict, Terminal
    <2> HIDE DEF r
    <2>4. \A u \in Task : task'[u].cp = task[u].cp /\ Verdict(task'[u]) = Verdict(task[u])
      BY <2>1, <2>2, <2>3 DEF Typed, Verdict, Terminal
    <2> QED
      BY <2>1, <2>4, RowsHidden
  <1>5. ASSUME NEW t \in Task, LeaseLapses(t) \/ BecomesDue(t)
        PROVE  Hidden
    <2>1. /\ UNCHANGED wf /\ task[t] \in Row /\ (\A v \in Task \ {t} : task'[v] = task[v])
          /\ (task'[t] = [task[t] EXCEPT !.live = FALSE] \/ task'[t] = [task[t] EXCEPT !.due = TRUE])
      BY <1>5, ZenonT(40) DEF LeaseLapses, BecomesDue, Typed
    <2>2. task'[t].cp = task[t].cp /\ task'[t].state = task[t].state
      BY <2>1 DEF Row
    <2> QED
      BY <2>1, <2>2, RowsHidden DEF Verdict
  <1>6. ASSUME NEW w \in Wf, Abandon(w)
        PROVE  Promise!Next
    <2> DEFINE e == IF parent[w] = "CANCELLED" THEN "CANCELLED" ELSE "FAILED"
    <2>1. /\ wf[w] \in {"DRAINING", "WAITING"} /\ task' = Cancelled({w})
          /\ wf' = [v \in Wf |-> IF v \in {w} THEN e ELSE wf[v]]
      BY <1>6, ZenonT(40) DEF Abandon, Typed
    <2>2. e \in {"CANCELLED", "FAILED"} /\ {w} \in SUBSET Wf /\ \A v \in {w} : wf[v] \in {"DRAINING", "WAITING"}
      BY <2>1
    <2> HIDE DEF e
    <2>3. Promise!Cancel({w})
      BY <2>1, <2>2, CancelCancels
    <2> QED
      BY <2>2, <2>3 DEF Promise!Next
  <1>7. ASSUME NEW j, CancelCopyWork(j)
        PROVE  Promise!Next
    <2> DEFINE mine == {w \in Wf : SnapOf[w] = j}
    <2>1. /\ \A w \in mine : parent[w] = "ACTIVE"
          /\ task' = Cancelled(mine) /\ wf' = [w \in Wf |-> IF w \in mine THEN "CANCELLED" ELSE wf[w]]
      BY <1>7, ZenonT(40) DEF CancelCopyWork
    <2>2. mine \in SUBSET Wf /\ \A w \in mine : wf[w] \in {"DRAINING", "WAITING"}
      BY <2>1 DEF OpenInv
    <2> HIDE DEF mine
    <2>3. Promise!Cancel(mine)
      BY <2>1, <2>2, CancelCancels
    <2> QED
      BY <2>2, <2>3 DEF Promise!Next
  <1>8. ASSUME NEW w \in Wf, Seal(w)
        PROVE  Promise!Next
    <2>1. wf[w] = "DRAINING" /\ wf' = [wf EXCEPT ![w] = "WAITING"] /\ Cp' = Cp /\ Vd' = Vd
      BY <1>8 DEF Seal, Cp, Vd
    <2>2. Promise!Seal(w)
      BY <2>1 DEF Promise!Seal, Cp, Vd, Verdict
    <2> QED
      BY <2>2 DEF Promise!Next
  <1>9. ASSUME UNCHANGED <<wf, task>>
        PROVE  Hidden
    BY <1>9, RowsHidden
  <1>10. ASSUME NEW s \in Slot, SlotStep(s) \/ BeginExecution(s)
         PROVE  UNCHANGED <<wf, task>>
    BY <1>10 DEF SlotStep, BeginBlocked, BeginFenced, BeginRefused, StatementTimeout, ExecutionError,
                SettleGivesUp, OrphanRollback, BeginExecution
  <1>11. /\ UNCHANGED vars => UNCHANGED <<wf, task>>
         /\ \A p \in Proc : Crash(p) => UNCHANGED <<wf, task>>
         /\ \A j : EndParent(j) => UNCHANGED <<wf, task>>
    BY DEF vars, Crash, EndParent
  <1>12. ASSUME NEW s \in Slot, Step(s) \/ StatementTimeout(s) \/ ExecutionError(s)
                                \/ SettleGivesUp(s) \/ ReleaseCancelledClaim(s)
         PROVE  Hidden \/ Promise!Next
    BY <1>1, <1>2, <1>3, <1>4, <1>9, <1>10, <1>12 DEF Step, SlotStep
  <1> QED
    BY <1>5, <1>6, <1>7, <1>8, <1>9, <1>11, <1>12, ZenonT(40) DEF Next

\* The claims, batches, settlements and recovery of the copy runtime implement
\* the promise to the parents.
THEOREM ImplementsPromise == Spec => KeepsPromise
  <1>1. Init => Promise!Init
    BY DEF Init, Promise!Init, FreshTask, Terminal
  <1>2. IInv /\ [Next]_vars => [Promise!Next]_(Promise!vars)
    BY PromiseStep DEF Hidden, Promise!vars, Cp, Vd, Verdict
  <1> QED
    BY <1>1, <1>2, Invariance, PTL DEF Spec, KeepsPromise, Promise!Spec
=============================================================================
