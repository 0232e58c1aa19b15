------------------------ MODULE PartitionLeaseProofs ------------------------
(***************************************************************************)
(* Proofs about PartitionLease, for any number of partitions, processes     *)
(* and handlers and any budgets.  Every UPDATE of a row moves it Later:      *)
(* its token never falls, a new owner comes with a new token, the evidence   *)
(* of a claim and a terminal status are not lost.  The rest follows from     *)
(* that and from how a task binds the token it claimed with, up to the       *)
(* refinement of LeasePromise.                                               *)
(***************************************************************************)
EXTENDS PartitionLease, FiniteSetTheorems, TLAPS

\* What survives every reset of a row that was claimed once.
Evid(r) == r.started # "null" \/ r.retry > 0

\* A row no worker ever claimed.
Fresh(r) ==
    /\ r.status \in {"QUEUED", "FAILED"} /\ r.started = "null"
    /\ r.owner = NoOwner /\ r.retry = 0

\* How one step may change a row; c: the cancel-guard may fail it.
Later(r, s, c) ==
    /\ s \in Row
    /\ s.token >= r.token
    /\ s.token = r.token => s.owner \in {r.owner, NoOwner}
    /\ Evid(r) => Evid(s)
    /\ Terminal(r) => s.status = r.status \/ (c /\ s.status = "FAILED")

\* A task is on a partition while it holds a delivery or runs.
TaskInv ==
    \A h \in Handlers :
        task[h].pc # "idle" \/ task[h].held => task[h].part \in Partitions

\* The tokens bound to the tasks at work on a partition are distinct and not
\* ahead of the row's.
TokenInv ==
    /\ \A h \in Handlers :
          Working(h) => /\ task[h].tok <= row[task[h].part].token
                        /\ task[h].part \in claimed
    /\ \A g, h \in Handlers :
          g # h /\ Working(g) /\ Working(h) /\ task[g].part = task[h].part
          => task[g].tok # task[h].tok

ClaimInv ==
    \A p \in Partitions :
        /\ p \in claimed => Evid(row[p])
        /\ p \notin claimed => Fresh(row[p]) /\ p \notin stale

Inv == TypeOK /\ TaskInv /\ TokenInv /\ ClaimInv /\ DeadLetterVerdict

\* One step's effect on the rows: each moves Later, an unclaimed one stays
\* Fresh, and a row is not claimed for the first time once it has FAILED.
RowsOK ==
    /\ row' \in [Partitions -> Row]
    /\ claimed \subseteq claimed' /\ claimed' \subseteq Partitions
    /\ \A p \in Partitions :
          /\ Later(row[p], row'[p], cancelled /\ p \in stale)
          /\ p \in claimed' \ claimed =>
                Evid(row'[p]) /\ row[p].status # "FAILED"
          /\ p \notin claimed' => Fresh(row'[p])

-----------------------------------------------------------------------------
(* The row updates *)

\* One column at a time.
LEMMA SetStatus ==
    ASSUME NEW r \in Row, NEW x \in Status
    PROVE  [r EXCEPT !.status = x] \in Row
  BY DEF Row
\* lease_owner_id
LEMMA SetOwner ==
    ASSUME NEW r \in Row, NEW x \in Procs \cup {NoOwner}
    PROVE  [r EXCEPT !.owner = x] \in Row
  BY DEF Row
\* lease_expires_at
LEMMA SetLease ==
    ASSUME NEW r \in Row, NEW x \in {"null", "live", "expired"}
    PROVE  [r EXCEPT !.lease = x] \in Row
  BY DEF Row
\* lease_token
LEMMA SetToken ==
    ASSUME NEW r \in Row, NEW x \in Nat
    PROVE  [r EXCEPT !.token = x] \in Row
  BY DEF Row
\* started_at
LEMMA SetStarted ==
    ASSUME NEW r \in Row, NEW x \in {"null", "recent", "old"}
    PROVE  [r EXCEPT !.started = x] \in Row
  BY DEF Row
\* enqueued_at
LEMMA SetEnq ==
    ASSUME NEW r \in Row, NEW x \in {"recent", "old"}
    PROVE  [r EXCEPT !.enq = x] \in Row
  BY DEF Row
\* retry_count
LEMMA SetRetry ==
    ASSUME NEW r \in Row, NEW x \in Nat
    PROVE  [r EXCEPT !.retry = x] \in Row
  BY DEF Row
\* requeue_count
LEMMA SetRequeue ==
    ASSUME NEW r \in Row, NEW x \in Nat
    PROVE  [r EXCEPT !.requeue = x] \in Row
  BY DEF Row
\* failure_state.dlq_replay_count
LEMMA SetReplays ==
    ASSUME NEW r \in Row, NEW x \in Nat
    PROVE  [r EXCEPT !.replays = x] \in Row
  BY DEF Row
\* failure_state.unclaimed_republish_count
LEMMA SetUnclaimed ==
    ASSUME NEW r \in Row, NEW x \in Nat
    PROVE  [r EXCEPT !.unclaimed = x] \in Row
  BY DEF Row

\* Sums of the counters.
LEMMA Counters ==
    ASSUME NEW r \in Row
    PROVE  /\ r.token + 1 \in Nat /\ r.retry + 1 \in Nat
           /\ r.requeue + 1 \in Nat /\ r.replays + 1 \in Nat
           /\ r.unclaimed + 1 \in Nat
  BY DEF Row

\* A row that no statement matches.
LEMMA LaterSame ==
    ASSUME NEW r \in Row, NEW c
    PROVE  Later(r, r, c)
  BY DEF Later, Row

\* _claim_partition
LEMMA LaterClaimed ==
    ASSUME NEW r \in Row, NEW q \in Procs, NEW c, Claimable(r)
    PROVE  /\ Later(r, ClaimedBy(r, q), c)
           /\ Evid(ClaimedBy(r, q))
           /\ ClaimedBy(r, q).token = r.token + 1
           /\ ClaimedBy(r, q).owner \in Procs \cup {NoOwner}
  <1> DEFINE o == IF proc[q].beats THEN q ELSE r.owner
             l == IF proc[q].beats THEN "live" ELSE r.lease
             a == [r EXCEPT !.status = "IN_PROGRESS", !.started = "recent"]
             b == [a EXCEPT !.owner = o, !.lease = l]
  <1>1. o \in Procs \cup {NoOwner} /\ l \in {"null", "live", "expired"}
    BY DEF Row
  <1>2. ClaimedBy(r, q) = [b EXCEPT !.token = r.token + 1]
    BY DEF ClaimedBy
  <1>. HIDE DEF o, l
  <1>3. a \in Row
    BY SetStatus, SetStarted, ZenonT(40) DEF Status
  <1>4. b \in Row
    <2>. HIDE DEF a
    <2>. QED  BY <1>1, <1>3, SetOwner, SetLease, ZenonT(40)
  <1>5. ClaimedBy(r, q) \in Row
    <2>. HIDE DEF b
    <2>. QED  BY <1>2, <1>4, Counters, SetToken, ZenonT(40)
  <1>. QED  BY <1>1, <1>2, <1>5
            DEF Later, Claimable, Terminal, Done, Evid, Row

\* _mark_partition_terminal
LEMMA LaterSettled ==
    ASSUME NEW r \in Row, NEW h \in Handlers, NEW c, task \in [Handlers -> Task]
    PROVE  Later(r, Settled(r, h), c)
  <1>1. task[h].goal \in Done
    BY DEF Task
  <1>. QED  BY <1>1 DEF Later, Settled, Terminal, Done, Evid, Row, Status

\* What both _release statements do to a row, column by column.
LEMMA ReleasedRow ==
    ASSUME NEW r \in Row
    PROVE  /\ Released(r) \in Row
           /\ Released(r).token = r.token /\ Released(r).owner = NoOwner
           /\ Released(r).started = r.started /\ Released(r).retry = r.retry
           /\ Released(r).requeue = r.requeue
           /\ Released(r).replays = r.replays /\ Released(r).lease = "null"
           /\ Released(r).status = "QUEUED"
  <1>1. Released(r) \in Row
    BY SetStatus, SetOwner, SetLease, SetEnq, ZenonT(40) DEF Released, Status
  <1>. QED  BY <1>1 DEF Released, Row

\* The release of _mark_partition_terminal.
LEMMA LaterReleased ==
    ASSUME NEW r \in Row, NEW c, ~Terminal(r)
    PROVE  Later(r, Released(r), c)
  BY ReleasedRow DEF Later, Evid, Row

\* The release of _requeue_partition_for_retry.
LEMMA LaterReleasedRetry ==
    ASSUME NEW r \in Row, NEW c, ~Terminal(r)
    PROVE  Later(r, ReleasedRetry(r), c)
  <1>1. ReleasedRetry(r) \in Row
    BY Counters, ReleasedRow, SetRetry, ZenonT(40) DEF ReleasedRetry
  <1>. QED  BY <1>1, ReleasedRow DEF ReleasedRetry, Later, Evid, Row

\* What the three requeue statements have in common, column by column.
LEMMA RequeuedRow ==
    ASSUME NEW r \in Row
    PROVE  /\ Requeued(r) \in Row
           /\ Requeued(r).token = r.token + 1 /\ Requeued(r).owner = NoOwner
           /\ Requeued(r).started = r.started /\ Requeued(r).retry = r.retry
           /\ Requeued(r).requeue = r.requeue
           /\ Requeued(r).replays = r.replays /\ Requeued(r).lease = "null"
           /\ Requeued(r).status = "QUEUED"
  <1>1. Requeued(r) \in Row
    BY ReleasedRow, SetToken, Counters, ZenonT(40) DEF Requeued
  <1>. QED  BY <1>1, ReleasedRow DEF Requeued, Row

\* _requeue_partition_for_retry
LEMMA LaterRetried ==
    ASSUME NEW r \in Row, NEW c, ~Terminal(r)
    PROVE  Later(r, Retried(r), c)
  <1>1. Retried(r) \in Row
    BY RequeuedRow, Counters, SetRetry, ZenonT(40) DEF Retried
  <1>. QED  BY <1>1, RequeuedRow DEF Retried, Later, Evid, Row

\* reclaim_for_replica
LEMMA LaterReclaimed ==
    ASSUME NEW r \in Row, NEW c
    PROVE  Later(r, Reclaimed(r), c)
  <1>1. Reclaimed(r) \in Row
    BY SetOwner, SetLease, SetToken, Counters, ZenonT(40) DEF Reclaimed
  <1>. QED  BY <1>1 DEF Reclaimed, Later, Evid, Terminal, Done, Row

\* Two statements in a row.
LEMMA LaterTrans ==
    ASSUME NEW r \in Row, NEW s \in Row, NEW t, NEW c,
           Later(r, s, c), Later(s, t, c)
    PROVE  Later(r, t, c)
  BY DEF Later, Row, Terminal, Done

-----------------------------------------------------------------------------
(* One tick of the reconciler's STEP A *)

\* The UPDATE that fails a poisoned or expired row.
LEMMA LaterGivenUp ==
    ASSUME NEW r \in Row, NEW c, ~Terminal(r)
    PROVE  Later(r, GivenUp(r), c) /\ GivenUp(r).status = "FAILED"
  <1>1. GivenUp(r) \in Row
    BY SetStatus, SetOwner, SetLease, SetToken, Counters, ZenonT(40)
       DEF GivenUp, Status
  <1>. QED  BY <1>1 DEF GivenUp, Later, Evid, Row

\* STEP A, first statement: requeue the orphans.
LEMMA LaterRequeueStep ==
    ASSUME NEW r \in Row, NEW c
    PROVE  Later(r, RequeueStep(r), c)
  <1>1. CASE Orphaned(r)
    <2>1. RequeueStep(r) \in Row
      BY <1>1, RequeuedRow, SetRequeue, Counters, ZenonT(40) DEF RequeueStep
    <2>. QED  BY <1>1, <2>1, RequeuedRow
              DEF RequeueStep, Orphaned, Later, Evid, Row
  <1>2. CASE ~Orphaned(r)
    BY <1>2, LaterSame DEF RequeueStep
  <1>. QED  BY <1>1, <1>2

\* STEP A, second statement: republish what nobody claimed.
LEMMA LaterRepublishStep ==
    ASSUME NEW r \in Row, NEW c
    PROVE  Later(r, RepublishStep(r), c)
  <1> DEFINE s == [r EXCEPT !.token = r.token + 1, !.enq = "recent",
                            !.unclaimed = r.unclaimed + 1]
  <1>1. s \in Row
    BY SetToken, SetEnq, SetUnclaimed, Counters, ZenonT(40)
  <1>2. Later(r, s, c)
    BY <1>1 DEF Later, Evid, Terminal, Done, Row
  <1>. QED  BY <1>2, LaterSame DEF RepublishStep

\* STEP A, third statement: replay a poisoned row.
LEMMA LaterReplayStep ==
    ASSUME NEW r \in Row, NEW c
    PROVE  Later(r, ReplayStep(r), c)
  <1> DEFINE s == [Requeued(r) EXCEPT !.requeue = 0,
                                      !.replays = r.replays + 1]
  <1>1. s \in Row
    BY RequeuedRow, SetRequeue, SetReplays, Counters, ZenonT(40)
  <1>2. ASSUME ~Terminal(r) PROVE Later(r, s, c)
    BY <1>1, <1>2, RequeuedRow DEF Later, Evid, Row
  <1>. QED  BY <1>2, LaterSame DEF ReplayStep, Poisonous

\* STEP A, fourth statement: fail a poisoned row.
LEMMA LaterPoisonStep ==
    ASSUME NEW r \in Row, NEW c
    PROVE  Later(r, PoisonStep(r), c)
  BY LaterSame, LaterGivenUp DEF PoisonStep, Poisoned, Poisonous

\* STEP A, fifth statement: fail a row nobody ever claimed.
LEMMA LaterExpireStep ==
    ASSUME NEW r \in Row, NEW c
    PROVE  Later(r, ExpireStep(r), c)
  BY LaterSame, LaterGivenUp
     DEF ExpireStep, Expired, Unclaimed, NeverClaimed, Terminal, Done

\* The five statements in a row, on one row.
LEMMA LaterSwept ==
    ASSUME TypeOK, NEW p \in Partitions, NEW S, NEW c
    PROVE  /\ Later(row[p], Swept(p, S), c)
           /\ Later(row[p], ExpireStep(PoisonStep(Swept(p, S))), c)
  <1>1. row[p] \in Row
    BY DEF TypeOK
  <1> DEFINE r1 == IF p \in S THEN RepublishStep(RequeueStep(row[p]))
                  ELSE row[p]
  <1>2. Later(row[p], r1, c)
    <2>1. Later(row[p], RequeueStep(row[p]), c)
      BY <1>1, LaterRequeueStep
    <2>2. RequeueStep(row[p]) \in Row
      BY <2>1 DEF Later
    <2>3. Later(RequeueStep(row[p]), RepublishStep(RequeueStep(row[p])), c)
      BY <2>2, LaterRepublishStep
    <2>. QED  BY <1>1, <2>1, <2>2, <2>3, LaterTrans, LaterSame
  <1>3. r1 \in Row
    BY <1>2 DEF Later
  <1>4. Later(r1, ReplayStep(r1), c)
    BY <1>3, LaterReplayStep
  <1>5. ReplayStep(r1) = Swept(p, S)
    BY DEF Swept
  <1>6. Later(row[p], Swept(p, S), c)
    BY <1>1, <1>2, <1>3, <1>4, <1>5, LaterTrans
  <1>7. Swept(p, S) \in Row
    BY <1>6 DEF Later
  <1> DEFINE r2 == PoisonStep(Swept(p, S))
  <1>8. Later(Swept(p, S), r2, c)
    BY <1>7, LaterPoisonStep
  <1>9. r2 \in Row
    BY <1>8 DEF Later
  <1>10. Later(r2, ExpireStep(r2), c)
    BY <1>9, LaterExpireStep
  <1>11. Later(row[p], r2, c)
    BY <1>1, <1>6, <1>7, <1>8, LaterTrans
  <1>. QED  BY <1>1, <1>6, <1>9, <1>10, <1>11, LaterTrans

\* STEP A leaves an unclaimed row unclaimed, and never calls it poisoned.
LEMMA FreshSwept ==
    ASSUME TypeOK, NEW p \in Partitions, NEW S, Fresh(row[p])
    PROVE  /\ Fresh(Swept(p, S)) /\ ~Poisoned(Swept(p, S))
           /\ Fresh(ExpireStep(PoisonStep(Swept(p, S))))
  <1> DEFINE r == row[p]
             s == [r EXCEPT !.token = r.token + 1, !.enq = "recent",
                            !.unclaimed = r.unclaimed + 1]
             g == GivenUp(Swept(p, S))
  <1>1. r \in Row /\ Swept(p, S) \in Row
    BY LaterSwept DEF TypeOK, Later
  <1>2. RequeueStep(r) = r
    BY DEF Fresh, RequeueStep, Orphaned, ClaimEvidence
  <1>3. Fresh(s)
    BY <1>1 DEF Fresh, Row
  <1>4. Fresh(RepublishStep(r))
    BY <1>3 DEF RepublishStep
  <1>5. ASSUME NEW x, Fresh(x) PROVE ReplayStep(x) = x /\ ~Poisoned(x)
    BY <1>5 DEF Fresh, ReplayStep, Poisoned, Poisonous, ClaimEvidence
  <1>6. Fresh(Swept(p, S)) /\ ~Poisoned(Swept(p, S))
    BY <1>2, <1>4, <1>5 DEF Swept
  <1>7. Fresh(g)
    BY <1>1, <1>6 DEF Fresh, GivenUp, Row
  <1>. QED  BY <1>6, <1>7 DEF PoisonStep, ExpireStep

-----------------------------------------------------------------------------
(* Every step moves every row Later *)

\* A step that writes no row.
LEMMA RowsSame ==
    ASSUME Inv, row' = row, claimed' = claimed
    PROVE  RowsOK
  BY LaterSame DEF RowsOK, Inv, TypeOK, ClaimInv

\* A step that writes one row, which was claimed before.
LEMMA RowsOne ==
    ASSUME Inv, NEW p \in claimed, NEW x, Later(row[p], x, cancelled /\ p \in stale),
           row' = [row EXCEPT ![p] = x], claimed' = claimed
    PROVE  RowsOK
  <1>1. row \in [Partitions -> Row] /\ p \in Partitions /\ x \in Row
    BY DEF Inv, TypeOK, Later
  <1>2. row' \in [Partitions -> Row]
    BY <1>1
  <1>3. ASSUME NEW o \in Partitions
        PROVE  /\ Later(row[o], row'[o], cancelled /\ o \in stale)
               /\ o \notin claimed => Fresh(row'[o])
    <2>1. CASE o = p
      BY <1>1, <2>1
    <2>2. CASE o # p
      BY <1>1, <2>2, LaterSame DEF Inv, ClaimInv
    <2>. QED  BY <2>1, <2>2
  <1>. QED  BY <1>2, <1>3 DEF RowsOK, Inv, TypeOK

\* Task h's partition, while it works.
LEMMA WorkingRow ==
    ASSUME Inv, NEW h \in Handlers, Working(h)
    PROVE  /\ task[h].part \in claimed /\ task[h].part \in Partitions
           /\ row[task[h].part] \in Row /\ task \in [Handlers -> Task]
  BY DEF Inv, TypeOK, TokenInv

\* _claim_partition, answered or not.
LEMMA RowsClaim ==
    ASSUME Inv, NEW h \in Handlers, Claim(h) \/ ClaimLost(h)
    PROVE  RowsOK
  <1> DEFINE p == task[h].part
             q == ProcOf[h]
  <1>1. /\ p \in Partitions /\ q \in Procs /\ row \in [Partitions -> Row]
        /\ claimed \subseteq Partitions
    BY ConstantsAssumption DEF Inv, TaskInv, TypeOK, Claim, ClaimLost
  <1>2. ASSUME Claimable(row[p]), row' = [row EXCEPT ![p] = ClaimedBy(@, q)],
               claimed' = claimed \cup {p}
        PROVE  RowsOK
    <2> DEFINE x == ClaimedBy(row[p], q)
               c == cancelled /\ p \in stale
    <2>1. Later(row[p], x, c) /\ Evid(x)
      BY <1>1, <1>2, LaterClaimed
    <2>2. x \in Row
      BY <2>1 DEF Later
    <2>3. row' = [row EXCEPT ![p] = x] /\ row[p].status # "FAILED"
      BY <1>2 DEF Claimable
    <2>. HIDE DEF x
    <2>4. row' \in [Partitions -> Row]
      BY <1>1, <2>2, <2>3
    <2>5. ASSUME NEW o \in Partitions
          PROVE  /\ Later(row[o], row'[o], cancelled /\ o \in stale)
                 /\ o \in claimed' \ claimed =>
                      Evid(row'[o]) /\ row[o].status # "FAILED"
                 /\ o \notin claimed' => Fresh(row'[o])
      <3>1. CASE o = p
        BY <1>1, <1>2, <2>1, <2>3, <3>1
      <3>2. CASE o # p
        BY <1>1, <1>2, <2>3, <3>2, LaterSame DEF Inv, ClaimInv
      <3>. QED  BY <3>1, <3>2
    <2>. QED  BY <1>1, <1>2, <2>4, <2>5 DEF RowsOK
  <1>3. CASE Claim(h)
    BY <1>2, <1>3, RowsSame DEF Claim
  <1>4. CASE ClaimLost(h)
    BY <1>2, <1>4, RowsSame DEF ClaimLost
  <1>. QED  BY <1>3, <1>4

\* The settlement writes of a handler that works on its row.
LEMMA RowsSettle ==
    ASSUME Inv, NEW h \in Handlers,
           \/ MarkTerminal(h) \/ MarkTerminalLost(h) \/ ReleaseAfterTerminal(h)
           \/ RequeueForRetry(h) \/ RequeueLost(h) \/ ReleaseAfterRequeue(h)
    PROVE  RowsOK
  <1> DEFINE p == task[h].part
             c == cancelled /\ p \in stale
  <1>1. Working(h) /\ claimed' = claimed
    BY ZenonT(40) DEF Working, MarkTerminal, MarkTerminalLost, ReleaseAfterTerminal,
           RequeueForRetry, RequeueLost, ReleaseAfterRequeue
  <1>2. /\ p \in claimed /\ p \in Partitions /\ row[p] \in Row
        /\ task \in [Handlers -> Task]
    BY <1>1, WorkingRow
  <1>3. \E x : Later(row[p], x, c) /\ row' = [row EXCEPT ![p] = x]
    <2>1. row = [row EXCEPT ![p] = row[p]]
      BY <1>2 DEF Inv, TypeOK
    <2>2. Later(row[p], row[p], c)
      BY <1>2, LaterSame
    <2>3. CASE MarkTerminal(h) \/ MarkTerminalLost(h)
      <3>1. Later(row[p], Settled(row[p], h), c)
        BY <1>2, LaterSettled
      <3>2. \/ row' = [row EXCEPT ![p] = Settled(row[p], h)]
            \/ row' = row
        BY <2>3 DEF MarkTerminal, MarkTerminalLost
      <3>. QED  BY <2>1, <2>2, <3>1, <3>2
    <2>4. CASE ReleaseAfterTerminal(h)
      <3> DEFINE x == IF ~Terminal(row[p]) /\ Fence(h) THEN Released(row[p])
                      ELSE row[p]
      <3>1. Later(row[p], x, c)
        BY <1>2, <2>2, LaterReleased
      <3>2. row' = [row EXCEPT ![p] = x] \/ row' = row
        BY <2>4, ZenonT(40) DEF ReleaseAfterTerminal
      <3>. QED  BY <2>1, <2>2, <3>1, <3>2
    <2>5. CASE RequeueForRetry(h) \/ RequeueLost(h)
      <3> DEFINE x == IF MayRetry(h) THEN Retried(row[p]) ELSE row[p]
      <3>1. Later(row[p], x, c)
        BY <1>2, <2>2, LaterRetried DEF MayRetry, Terminal, Done
      <3>2. row' = [row EXCEPT ![p] = x] \/ row' = row
        BY <2>5 DEF RequeueForRetry, RequeueLost
      <3>. QED  BY <2>1, <2>2, <3>1, <3>2
    <2>6. CASE ReleaseAfterRequeue(h)
      <3> DEFINE ours == /\ ~Terminal(row[p]) /\ row[p].retry < MaxRetries
                         /\ Fence(h)
                 x == IF ours THEN ReleasedRetry(row[p]) ELSE row[p]
      <3>1. Later(row[p], x, c)
        BY <1>2, <2>2, LaterReleasedRetry
      <3>2. row' = [row EXCEPT ![p] = x] \/ row' = row
        BY <2>6 DEF ReleaseAfterRequeue
      <3>. QED  BY <2>1, <2>2, <3>1, <3>2
    <2>. QED  BY <2>3, <2>4, <2>5, <2>6
  <1>. QED  BY <1>1, <1>2, <1>3, RowsOne, ZenonT(40)

\* A worker starts and reclaims what its container held.
LEMMA RowsStart ==
    ASSUME Inv, NEW q \in Procs, Start(q)
    PROVE  RowsOK
  <1>1. PICK reclaims \in BOOLEAN, old \in SUBSET Procs :
           row' = [p \in Partitions |->
                     IF reclaims /\ row[p].owner \in old
                                 /\ row[p].status = "IN_PROGRESS"
                     THEN Reclaimed(row[p]) ELSE row[p]]
    <2> DEFINE old == {o \in Procs \ {q} : ReplicaOf[o] = ReplicaOf[q]}
    <2>1. old \in SUBSET Procs
      OBVIOUS
    <2>2. \E reclaims \in BOOLEAN :
             row' = [p \in Partitions |->
                       IF reclaims /\ row[p].owner \in old
                                   /\ row[p].status = "IN_PROGRESS"
                       THEN Reclaimed(row[p]) ELSE row[p]]
      BY DEF Start
    <2>. HIDE DEF old
    <2>. QED  BY <2>1, <2>2
  <1>2. claimed' = claimed /\ claimed \subseteq Partitions
    BY DEF Start, Inv, TypeOK
  <1>3. ASSUME NEW p \in Partitions
        PROVE  /\ row'[p] \in Row
               /\ Later(row[p], row'[p], cancelled /\ p \in stale)
               /\ p \notin claimed => Fresh(row'[p])
    <2>1. row[p] \in Row
      BY DEF Inv, TypeOK
    <2>2. row'[p] = Reclaimed(row[p]) \/ row'[p] = row[p]
      BY <1>1
    <2>3. Later(row[p], row'[p], cancelled /\ p \in stale)
      BY <2>1, <2>2, LaterReclaimed, LaterSame
    <2>4. p \notin claimed => row'[p] = row[p]
      BY <1>1 DEF Inv, ClaimInv, Fresh
    <2>. QED  BY <2>3, <2>4 DEF Later, Inv, ClaimInv
  <1>. QED  BY <1>1, <1>2, <1>3 DEF RowsOK

\* LeaseExtender renews.
LEMMA RowsBump ==
    ASSUME Inv, NEW q \in Procs, Bump(q)
    PROVE  RowsOK
  <1>1. PICK kept \in SUBSET {p \in Partitions : row[p].owner = q} :
           row' = [p \in Partitions |->
                     IF p \in kept THEN [row[p] EXCEPT !.lease = "live"]
                     ELSE row[p]]
    <2> DEFINE mine == {p \in Partitions : row[p].owner = q
                                           /\ row[p].status = "IN_PROGRESS"}
               kept == IF proc[q].used THEN mine \cap proc[q].reg ELSE mine
    <2>1. kept \in SUBSET {p \in Partitions : row[p].owner = q}
      OBVIOUS
    <2>2. row' = [p \in Partitions |->
                    IF p \in kept THEN [row[p] EXCEPT !.lease = "live"]
                    ELSE row[p]]
      BY DEF Bump
    <2>. HIDE DEF kept
    <2>. QED  BY <2>1, <2>2
  <1>2. claimed' = claimed /\ claimed \subseteq Partitions
    BY DEF Bump, Inv, TypeOK
  <1>3. ASSUME NEW p \in Partitions
        PROVE  /\ row'[p] \in Row
               /\ Later(row[p], row'[p], cancelled /\ p \in stale)
               /\ p \notin claimed => Fresh(row'[p])
    <2>1. row[p] \in Row
      BY DEF Inv, TypeOK
    <2>2. Later(row[p], [row[p] EXCEPT !.lease = "live"],
                cancelled /\ p \in stale)
      BY <2>1, SetLease DEF Later, Evid, Terminal, Row
    <2>3. Later(row[p], row'[p], cancelled /\ p \in stale)
      BY <1>1, <2>1, <2>2, LaterSame
    <2>4. p \notin claimed => row'[p] = row[p]
      BY <1>1, ConstantsAssumption DEF Inv, ClaimInv, Fresh
    <2>. QED  BY <2>3, <2>4 DEF Later, Inv, ClaimInv
  <1>. QED  BY <1>1, <1>2, <1>3 DEF RowsOK

\* STEP A on all rows.
LEMMA RowsSweep ==
    ASSUME Inv, NEW S \in SUBSET Partitions, Sweep(S)
    PROVE  RowsOK
  <1>1. /\ row' = [p \in Partitions |-> ExpireStep(PoisonStep(Swept(p, S)))]
        /\ claimed' = claimed /\ claimed \subseteq Partitions
    BY DEF Sweep, Inv, TypeOK
  <1>2. ASSUME NEW p \in Partitions
        PROVE  /\ row'[p] \in Row
               /\ Later(row[p], row'[p], cancelled /\ p \in stale)
               /\ p \notin claimed => Fresh(row'[p])
    BY <1>1, LaterSwept, FreshSwept DEF Inv, ClaimInv, Later
  <1>. QED  BY <1>1, <1>2 DEF RowsOK

\* The stale-sweep touches rows in progress, or rows it has reset before.
LEMMA RowsStale ==
    ASSUME Inv, StaleFail \/ StaleReset \/ StaleCancelGuard
    PROVE  RowsOK
  <1>1. /\ claimed' = claimed /\ claimed \subseteq Partitions
        /\ row \in [Partitions -> Row]
    BY DEF StaleFail, StaleReset, StaleCancelGuard, Inv, TypeOK
  <1>2. CASE row' = row
    BY <1>1, <1>2, RowsSame
  <1>3. ASSUME row' # row, NEW p \in Partitions
        PROVE  /\ row'[p] \in Row
               /\ Later(row[p], row'[p], cancelled /\ p \in stale)
               /\ p \notin claimed => Fresh(row'[p])
    <2> DEFINE c == cancelled /\ p \in stale
               f == [row[p] EXCEPT !.status = "FAILED"]
    <2>1. row[p] \in Row
      BY <1>1
    <2>2. f \in Row /\ (~Terminal(row[p]) \/ c => Later(row[p], f, c))
      BY <2>1, SetStatus DEF Later, Evid, Terminal, Done, Row, Status
    <2>3. StaleResetRow(row[p]) \in Row
      BY <2>1, SetStatus, SetStarted, SetRetry, Counters, ZenonT(40)
         DEF StaleResetRow, Status
    <2>4. row[p].status = "IN_PROGRESS" => Later(row[p], StaleResetRow(row[p]), c)
      BY <2>1, <2>3 DEF Later, StaleResetRow, Evid, Terminal, Done, Row
    <2>5. Later(row[p], row[p], c)
      BY <2>1, LaterSame
    <2>6. CASE StaleFail
      <3>1. row'[p] = row[p] \/ (row'[p] = f /\ row[p].status = "IN_PROGRESS")
        BY <2>6 DEF StaleFail, Stuck
      <3>. QED  BY <2>2, <2>5, <3>1, <2>1
                DEF Inv, ClaimInv, Fresh, Terminal, Done
    <2>7. CASE StaleReset
      <3>1. \/ row'[p] = row[p]
            \/ row'[p] = StaleResetRow(row[p]) /\ row[p].status = "IN_PROGRESS"
        BY <2>7 DEF StaleReset, Stuck
      <3>. QED  BY <2>3, <2>4, <2>5, <3>1, <2>1 DEF Inv, ClaimInv, Fresh
    <2>8. CASE StaleCancelGuard
      <3>1. \/ row'[p] = row[p]
            \/ row'[p] = f /\ c
        BY <1>3, <2>8 DEF StaleCancelGuard
      <3>. QED  BY <2>2, <2>5, <3>1, <2>1 DEF Inv, ClaimInv
    <2>. QED  BY <2>6, <2>7, <2>8
  <1>4. row' # row => row' \in [Partitions -> Row]
    <2>1. CASE StaleFail
      BY <1>3, <2>1 DEF StaleFail
    <2>2. CASE StaleReset
      BY <1>3, <2>2 DEF StaleReset
    <2>3. CASE StaleCancelGuard
      BY <1>3, <2>3 DEF StaleCancelGuard
    <2>. QED  BY <2>1, <2>2, <2>3
  <1>. QED  BY <1>1, <1>2, <1>3, <1>4 DEF RowsOK

\* The clock passes a horizon of one row.
LEMMA RowsClock ==
    ASSUME Inv, NEW p \in Partitions, Lapse(p) \/ AgeStarted(p) \/ AgeEnqueued(p)
    PROVE  RowsOK
  <1> DEFINE c == cancelled /\ p \in stale
  <1>1. /\ row \in [Partitions -> Row] /\ row[p] \in Row
        /\ claimed' = claimed /\ claimed \subseteq Partitions
    BY DEF Inv, TypeOK, Lapse, AgeStarted, AgeEnqueued
  <1>2. PICK x : /\ row' = [row EXCEPT ![p] = x] /\ Later(row[p], x, c)
                 /\ Fresh(row[p]) => Fresh(x)
    <2> DEFINE a == [row[p] EXCEPT !.lease = "expired"]
               b == [row[p] EXCEPT !.started = "old"]
               e == [row[p] EXCEPT !.enq = "old"]
    <2>0. a \in Row /\ b \in Row /\ e \in Row
      BY <1>1, SetLease, SetStarted, SetEnq, ZenonT(40)
    <2>1. Later(row[p], a, c) /\ (Fresh(row[p]) => Fresh(a))
      BY <1>1, <2>0 DEF Later, Evid, Terminal, Done, Fresh, Row
    <2>2. Later(row[p], b, c) /\ (row[p].started = "recent" => ~Fresh(row[p]))
      BY <1>1, <2>0 DEF Later, Evid, Terminal, Done, Fresh, Row
    <2>3. Later(row[p], e, c) /\ (Fresh(row[p]) => Fresh(e))
      BY <1>1, <2>0 DEF Later, Evid, Terminal, Done, Fresh, Row
    <2>4. CASE Lapse(p)
      BY <2>1, <2>4, ZenonT(40) DEF Lapse
    <2>5. CASE AgeStarted(p)
      BY <2>2, <2>5, ZenonT(40) DEF AgeStarted
    <2>6. CASE AgeEnqueued(p)
      BY <2>3, <2>6, ZenonT(40) DEF AgeEnqueued
    <2>. QED  BY <2>4, <2>5, <2>6
  <1>3. x \in Row
    BY <1>2 DEF Later
  <1>4. ASSUME NEW o \in Partitions
        PROVE  /\ Later(row[o], row'[o], cancelled /\ o \in stale)
               /\ o \notin claimed => Fresh(row'[o])
    <2>1. CASE o = p
      BY <1>1, <1>2, <2>1 DEF Inv, ClaimInv
    <2>2. CASE o # p
      BY <1>1, <1>2, <2>2, LaterSame DEF Inv, ClaimInv
    <2>. QED  BY <2>1, <2>2
  <1>. QED  BY <1>1, <1>2, <1>3, <1>4 DEF RowsOK

\* Each step of the system, action by action.
LEMMA RowsNext ==
    ASSUME Inv, Next
    PROVE  RowsOK
  <1>1. ASSUME NEW q \in Procs, ProcStep(q) PROVE RowsOK
    <2>1. CASE Start(q)
      BY <2>1, RowsStart
    <2>2. CASE Bump(q)
      BY <2>2, RowsBump
    <2>3. CASE Beat(q) \/ BeatMissed(q) \/ BumpForget(q) \/ Exit(q)
      BY <2>3, RowsSame DEF Beat, BeatMissed, BumpForget, Exit
    <2>. QED  BY <1>1, <2>1, <2>2, <2>3 DEF ProcStep
  <1>2. ASSUME NEW h \in Handlers, HandlerStep(h) \/ ConnectionLost(h)
        PROVE  RowsOK
    <2>1. CASE Ack(h) \/ Reject(h) \/ DrainReturns(h) \/ DrainRaises(h)
               \/ ConnectionLost(h)
      BY <2>1, RowsSame, ZenonT(40)
         DEF Ack, Reject, DrainReturns, DrainRaises, ConnectionLost
    <2>. QED  BY <1>2, <2>1, RowsClaim, RowsSettle DEF HandlerStep
  <1>3. ASSUME NEW h \in Handlers, NEW p \in Partitions, NEW b \in BOOLEAN,
               Deliver(h, p, b)
        PROVE  RowsOK
    BY <1>3, RowsSame DEF Deliver
  <1>4. ASSUME NEW p \in Partitions, RowStep(p) PROVE RowsOK
    <2>1. CASE Republish(p) \/ StaleRepublish(p)
      BY <2>1, RowsSame, ZenonT(40) DEF Republish, StaleRepublish
    <2>. QED  BY <1>4, <2>1, RowsClock DEF RowStep
  <1>5. CASE CancelJob
    BY <1>5, RowsSame DEF CancelJob
  <1>. QED  BY <1>1, <1>2, <1>3, <1>4, <1>5, RowsSweep, RowsStale DEF Next

-----------------------------------------------------------------------------
(* Every step keeps the tasks' bindings *)

\* Task h goes on with the claim it has.
SameBinding(h) ==
    /\ Working(h) /\ task'[h].part = task[h].part
    /\ task'[h].tok = task[h].tok /\ task'[h].own = task[h].own

\* Task h has just claimed its partition, under a token no task has.
NewBinding(h) ==
    LET p == task'[h].part
    IN  /\ p \in claimed' /\ task'[h].tok = row'[p].token
        /\ row'[p].token > row[p].token
        /\ ~Working(h) /\ \A g \in Handlers \ {h} : task'[g] = task[g]

TasksOK ==
    /\ task' \in [Handlers -> Task]
    /\ TaskInv'
    /\ \A h \in Handlers : Working(h)' => SameBinding(h) \/ NewBinding(h)

\* One field of a task at a time.
LEMMA SetPc ==
    ASSUME NEW t \in Task,
           NEW x \in {"idle", "claim", "drain", "settle", "release", "requeue",
                      "rqrelease", "ack", "reject"}
    PROVE  [t EXCEPT !.pc = x] \in Task
  BY DEF Task
\* Its partition.
LEMMA SetPart ==
    ASSUME NEW t \in Task, NEW x \in Partitions
    PROVE  [t EXCEPT !.part = x] \in Task
  BY DEF Task
\* Its redelivered flag.
LEMMA SetRedel ==
    ASSUME NEW t \in Task, NEW x \in BOOLEAN
    PROVE  [t EXCEPT !.redel = x] \in Task
  BY DEF Task
\* Its claim on the delivery.
LEMMA SetHeld ==
    ASSUME NEW t \in Task, NEW x \in BOOLEAN
    PROVE  [t EXCEPT !.held = x] \in Task
  BY DEF Task
\* Its bound owner.
LEMMA SetOwn ==
    ASSUME NEW t \in Task, NEW x \in Procs \cup {NoOwner}
    PROVE  [t EXCEPT !.own = x] \in Task
  BY DEF Task
\* Its bound token.
LEMMA SetTok ==
    ASSUME NEW t \in Task, NEW x \in Nat
    PROVE  [t EXCEPT !.tok = x] \in Task
  BY DEF Task
\* The status it will write.
LEMMA SetGoal ==
    ASSUME NEW t \in Task, NEW x \in Done
    PROVE  [t EXCEPT !.goal = x] \in Task
  BY DEF Task
\* Its exception flag.
LEMMA SetExc ==
    ASSUME NEW t \in Task, NEW x \in BOOLEAN
    PROVE  [t EXCEPT !.exc = x] \in Task
  BY DEF Task

\* A step that leaves the tasks alone.
LEMMA TasksSame ==
    ASSUME Inv, task' = task
    PROVE  TasksOK
  BY DEF TasksOK, Inv, TypeOK, TaskInv, Working, SameBinding

\* A step of task h that changes no binding.
LEMMA TasksOne ==
    ASSUME Inv, NEW h \in Handlers, NEW t \in Task,
           task' = [task EXCEPT ![h] = t],
           t.pc # "idle" \/ t.held => t.part \in Partitions,
           t.pc \in {"drain", "settle", "release", "requeue", "rqrelease"} =>
              /\ Working(h) /\ t.part = task[h].part
              /\ t.tok = task[h].tok /\ t.own = task[h].own
    PROVE  TasksOK
  <1>1. task \in [Handlers -> Task]
    BY DEF Inv, TypeOK
  <1>2. /\ task' \in [Handlers -> Task] /\ task'[h] = t
        /\ \A g \in Handlers \ {h} : task'[g] = task[g]
    BY <1>1
  <1>3. TaskInv'
    BY <1>2 DEF Inv, TaskInv
  <1>4. ASSUME NEW g \in Handlers, Working(g)' PROVE SameBinding(g)
    <2>1. CASE g = h
      BY <1>2, <1>4, <2>1 DEF Working, SameBinding
    <2>2. CASE g # h
      BY <1>2, <1>4, <2>2 DEF Working, SameBinding
    <2>. QED  BY <2>1, <2>2
  <1>. QED  BY <1>2, <1>3, <1>4, ZenonT(40) DEF TasksOK

\* Deliver, ConnectionLost, Ack, Reject: no claim is involved.
LEMMA TasksDelivery ==
    ASSUME Inv, NEW h \in Handlers,
           \/ \E p \in Partitions, b \in BOOLEAN : Deliver(h, p, b)
           \/ ConnectionLost(h) \/ Ack(h) \/ Reject(h)
    PROVE  TasksOK
  <1>1. Idle \in Task /\ task[h] \in Task
    BY ConstantsAssumption DEF Idle, Task, Done, Inv, TypeOK
  <1>2. CASE \E p \in Partitions, b \in BOOLEAN : Deliver(h, p, b)
    <2>1. PICK p \in Partitions, b \in BOOLEAN : Deliver(h, p, b)
      BY <1>2
    <2> DEFINE t == [Idle EXCEPT !.pc = "claim", !.part = p, !.redel = b,
                                 !.held = TRUE]
    <2>2. t \in Task
      BY <1>1, SetPc, SetPart, SetRedel, SetHeld, ZenonT(40)
    <2>3. t.pc = "claim" /\ t.part = p
      BY DEF Idle
    <2>4. task' = [task EXCEPT ![h] = t]
      BY <2>1, ZenonT(40) DEF Deliver, Goto
    <2>. HIDE DEF t
    <2>. QED  BY <2>2, <2>3, <2>4, TasksOne, ZenonT(40)
  <1>3. CASE ConnectionLost(h)
    <2> DEFINE t == [task[h] EXCEPT !.held = FALSE]
    <2>1. t \in Task
      BY <1>1, SetHeld, ZenonT(40)
    <2>2. /\ t.pc = task[h].pc /\ t.part = task[h].part /\ t.tok = task[h].tok
          /\ t.own = task[h].own
      BY <1>1 DEF Task
    <2>3. task' = [task EXCEPT ![h] = t] /\ task[h].part \in Partitions
      BY <1>3 DEF ConnectionLost, Goto, Inv, TaskInv
    <2>. HIDE DEF t
    <2>. QED  BY <2>1, <2>2, <2>3, TasksOne, ZenonT(40) DEF Working
  <1>4. CASE Ack(h) \/ Reject(h)
    <2>1. task' = [task EXCEPT ![h] = Idle] /\ Idle.pc = "idle" /\ ~Idle.held
      BY <1>4, ZenonT(40) DEF Ack, Reject, Goto, Idle
    <2>. QED  BY <1>1, <2>1, TasksOne, ZenonT(40)
  <1>. QED  BY <1>2, <1>3, <1>4

\* A process exits: its tasks are gone.
LEMMA TasksExit ==
    ASSUME Inv, NEW q \in Procs, Exit(q)
    PROVE  TasksOK
  <1>1. task \in [Handlers -> Task] /\ Idle \in Task
    BY ConstantsAssumption DEF Idle, Task, Done, Inv, TypeOK
  <1>2. task' = [h \in Handlers |-> IF ProcOf[h] = q THEN Idle ELSE task[h]]
    BY DEF Exit
  <1>3. Idle.pc = "idle" /\ ~Idle.held
    BY DEF Idle
  <1>4. TaskInv'
    BY <1>2, <1>3 DEF Inv, TaskInv
  <1>. QED  BY <1>1, <1>2, <1>3, <1>4 DEF TasksOK, Working, SameBinding

\* Claim binds a new token; ClaimLost binds nothing.
LEMMA TasksClaim ==
    ASSUME Inv, NEW h \in Handlers, Claim(h) \/ ClaimLost(h)
    PROVE  TasksOK
  <1> DEFINE p == task[h].part
             q == ProcOf[h]
             new == ClaimedBy(row[p], q)
  <1>1. /\ task \in [Handlers -> Task] /\ task[h] \in Task
        /\ p \in Partitions /\ q \in Procs /\ row \in [Partitions -> Row]
        /\ task[h].pc = "claim"
    BY ConstantsAssumption DEF Inv, TypeOK, TaskInv, Claim, ClaimLost
  <1>2. ASSUME NEW x \in {"ack", "reject"},
               task' = [task EXCEPT ![h] = [task[h] EXCEPT !.pc = x]]
        PROVE  TasksOK
    <2> DEFINE t == [task[h] EXCEPT !.pc = x]
    <2>1. t \in Task
      BY <1>1, SetPc, ZenonT(40)
    <2>2. t.pc = x /\ t.part = p
      BY <1>1 DEF Task
    <2>3. task' = [task EXCEPT ![h] = t]
      BY <1>2
    <2>. HIDE DEF t
    <2>. QED  BY <1>1, <2>1, <2>2, <2>3, TasksOne, ZenonT(40)
  <1>3. CASE Claim(h) /\ Claimable(row[p])
    <2> DEFINE t == [task[h] EXCEPT !.pc = "drain", !.own = new.owner,
                                    !.tok = new.token]
    <2>1. /\ new.owner \in Procs \cup {NoOwner}
          /\ new.token = row[p].token + 1
      BY <1>1, <1>3, LaterClaimed
    <2>2. row[p].token \in Nat /\ new.token \in Nat
      BY <1>1, <2>1 DEF Row
    <2>3. /\ task' = [task EXCEPT ![h] = t]
          /\ row' = [row EXCEPT ![p] = new]
          /\ claimed' = claimed \cup {p}
      BY <1>3 DEF Claim, Goto
    <2>. HIDE DEF new
    <2>4. t \in Task
      BY <1>1, <2>1, <2>2, SetPc, SetOwn, SetTok, ZenonT(40)
    <2>5. t.part = p /\ t.tok = new.token /\ t.pc = "drain"
      BY <1>1 DEF Task
    <2>. HIDE DEF t
    <2>6. /\ task' \in [Handlers -> Task] /\ task'[h] = t
          /\ \A g \in Handlers \ {h} : task'[g] = task[g]
      BY <1>1, <2>3, <2>4
    <2>7. NewBinding(h)
      BY <1>1, <2>1, <2>2, <2>3, <2>5, <2>6 DEF NewBinding, Working
    <2>8. TaskInv'
      BY <1>1, <2>5, <2>6 DEF Inv, TaskInv
    <2>9. ASSUME NEW g \in Handlers, g # h, Working(g)' PROVE SameBinding(g)
      BY <2>6, <2>9 DEF Working, SameBinding
    <2>. QED  BY <2>6, <2>7, <2>8, <2>9 DEF TasksOK
  <1>4. CASE Claim(h) /\ ~Claimable(row[p])
    BY <1>2, <1>4 DEF Claim, Goto
  <1>5. CASE ClaimLost(h)
    BY <1>2, <1>5 DEF ClaimLost, Goto
  <1>. QED  BY <1>3, <1>4, <1>5

\* Draining and settling: the task goes on with its binding, or is done.
LEMMA TasksSettle ==
    ASSUME Inv, NEW h \in Handlers,
           \/ DrainReturns(h) \/ DrainRaises(h)
           \/ MarkTerminal(h) \/ MarkTerminalLost(h) \/ ReleaseAfterTerminal(h)
           \/ RequeueForRetry(h) \/ RequeueLost(h) \/ ReleaseAfterRequeue(h)
    PROVE  TasksOK
  <1>1. Working(h)
    BY ZenonT(40) DEF Working, DrainReturns, DrainRaises, MarkTerminal, MarkTerminalLost,
           ReleaseAfterTerminal, RequeueForRetry, RequeueLost,
           ReleaseAfterRequeue
  <1>2. task[h] \in Task /\ task[h].part \in Partitions
    BY <1>1, WorkingRow
  <1> DEFINE Pcs == {"settle", "release", "requeue", "rqrelease", "ack",
                     "reject"}
  <1>3. \E pc \in Pcs, goal \in Done, exc \in BOOLEAN :
           task' = [task EXCEPT ![h] = [task[h] EXCEPT !.pc = pc, !.goal = goal,
                                                       !.exc = exc]]
    <2>1. /\ task[h].goal \in Done /\ task[h].exc \in BOOLEAN
          /\ \A pc \in Pcs, goal \in Done :
                /\ [task[h] EXCEPT !.pc = pc] =
                   [task[h] EXCEPT !.pc = pc, !.goal = task[h].goal,
                                   !.exc = task[h].exc]
                /\ [task[h] EXCEPT !.pc = pc, !.goal = goal] =
                   [task[h] EXCEPT !.pc = pc, !.goal = goal,
                                   !.exc = task[h].exc]
      BY <1>2, ZenonT(40) DEF Task
    <2>2. ASSUME NEW pc \in Pcs,
                 task' = [task EXCEPT ![h] = [task[h] EXCEPT !.pc = pc]]
          PROVE  \E goal \in Done, exc \in BOOLEAN : task' = [task EXCEPT ![h] =
                    [task[h] EXCEPT !.pc = pc, !.goal = goal, !.exc = exc]]
      BY <2>1, <2>2, ZenonT(40)
    <2>3. CASE DrainReturns(h)
      <3>1. PICK goal \in Done :
               Goto(h, [task[h] EXCEPT !.pc = "settle", !.goal = goal])
        BY <2>3, ZenonT(40) DEF DrainReturns
      <3>2. Goto(h, [task[h] EXCEPT !.pc = "settle", !.goal = goal,
                                    !.exc = task[h].exc])
        BY <2>1, <3>1, ZenonT(40)
      <3>. QED  BY <2>1, <3>2, ZenonT(40) DEF Goto
    <2>4. CASE DrainRaises(h)
      BY <2>4, ZenonT(40) DEF DrainRaises, Goto, Done
    <2>5. CASE MarkTerminal(h)
      BY <2>2, <2>5, ZenonT(40) DEF MarkTerminal, Goto
    <2>6. CASE MarkTerminalLost(h)
      BY <2>2, <2>6, ZenonT(40) DEF MarkTerminalLost, Goto
    <2>7. CASE ReleaseAfterTerminal(h)
      <3>1. \E pc \in Pcs :
               Goto(h, [task[h] EXCEPT !.pc = pc, !.goal = "FAILED",
                                       !.exc = TRUE])
        BY <2>7, ZenonT(40) DEF ReleaseAfterTerminal
      <3>. QED  BY <3>1, ZenonT(40) DEF Goto, Done
    <2>8. CASE RequeueForRetry(h)
      BY <2>2, <2>8, ZenonT(40) DEF RequeueForRetry, Goto
    <2>9. CASE RequeueLost(h)
      BY <2>2, <2>9, ZenonT(40) DEF RequeueLost, Goto
    <2>10. CASE ReleaseAfterRequeue(h)
      BY <2>2, <2>10, ZenonT(40) DEF ReleaseAfterRequeue, Goto
    <2>. QED  BY <2>3, <2>4, <2>5, <2>6, <2>7, <2>8, <2>9, <2>10, ZenonT(40)
  <1>4. PICK pc \in Pcs, goal \in Done, exc \in BOOLEAN :
           task' = [task EXCEPT ![h] = [task[h] EXCEPT !.pc = pc, !.goal = goal,
                                                       !.exc = exc]]
    BY <1>3, ZenonT(40)
  <1> DEFINE t == [task[h] EXCEPT !.pc = pc, !.goal = goal, !.exc = exc]
  <1>5. t \in Task
    BY <1>2, SetPc, SetGoal, SetExc, ZenonT(40)
  <1>6. t.part = task[h].part /\ t.tok = task[h].tok /\ t.own = task[h].own
    BY <1>2 DEF Task
  <1>. HIDE DEF t
  <1>. QED  BY <1>1, <1>2, <1>4, <1>5, <1>6, TasksOne, ZenonT(40) DEF t

\* Each step of the system, action by action.
LEMMA TasksNext ==
    ASSUME Inv, Next
    PROVE  TasksOK
  <1>1. ASSUME NEW q \in Procs, ProcStep(q) PROVE TasksOK
    <2>1. CASE Start(q) \/ Beat(q) \/ BeatMissed(q) \/ Bump(q) \/ BumpForget(q)
      BY <2>1, TasksSame, ZenonT(40) DEF Start, Beat, BeatMissed, Bump, BumpForget
    <2>. QED  BY <1>1, <2>1, TasksExit DEF ProcStep
  <1>2. ASSUME NEW h \in Handlers, HandlerStep(h) \/ ConnectionLost(h)
        PROVE  TasksOK
    BY <1>2, TasksDelivery, TasksClaim, TasksSettle DEF HandlerStep
  <1>3. ASSUME NEW p \in Partitions, RowStep(p) PROVE TasksOK
    BY <1>3, TasksSame, ZenonT(40)
       DEF RowStep, Republish, StaleRepublish, Lapse, AgeStarted, AgeEnqueued
  <1>4. ASSUME NEW S \in SUBSET Partitions, Sweep(S) PROVE TasksOK
    BY <1>4, TasksSame DEF Sweep
  <1>5. CASE StaleFail \/ StaleReset \/ StaleCancelGuard \/ CancelJob
    BY <1>5, TasksSame DEF StaleFail, StaleReset, StaleCancelGuard, CancelJob
  <1>. QED  BY <1>1, <1>2, <1>3, <1>4, <1>5, TasksDelivery DEF Next

-----------------------------------------------------------------------------
(* The types of the other variables *)

\* Messages are only ever counted up, or down from a positive count.
LEMMA MsgsNext ==
    ASSUME Inv, Next
    PROVE  msgs' \in [Partitions \X BOOLEAN -> Nat]
  <1>1. /\ msgs \in [Partitions \X BOOLEAN -> Nat]
        /\ \A h \in Handlers : task[h].held => task[h].part \in Partitions
    BY DEF Inv, TypeOK, TaskInv
  <1>2. ASSUME NEW p \in Partitions, NEW b \in BOOLEAN,
               msgs' = [msgs EXCEPT ![<<p, b>>] = @ + 1]
        PROVE  msgs' \in [Partitions \X BOOLEAN -> Nat]
    BY <1>1, <1>2
  <1>3. ASSUME NEW q \in Procs, ProcStep(q)
        PROVE  msgs' \in [Partitions \X BOOLEAN -> Nat]
    <2>1. CASE Exit(q)
      <3> DEFINE Mine(m) == {h \in Handlers : ProcOf[h] = q /\ task[h].held
                                             /\ task[h].part = m[1]}
      <3>1. \A m \in Partitions \X BOOLEAN : Cardinality(Mine(m)) \in Nat
        <4>. TAKE m \in Partitions \X BOOLEAN
        <4>1. Mine(m) \subseteq Handlers /\ IsFiniteSet(Handlers)
          BY ConstantsAssumption
        <4>. HIDE DEF Mine
        <4>. QED  BY <4>1, FS_Subset, FS_CardinalityType
      <3>2. msgs' = [m \in DOMAIN msgs |->
                       IF m[2] THEN msgs[m] + Cardinality(Mine(m))
                       ELSE msgs[m]]
        BY <2>1 DEF Exit
      <3>. HIDE DEF Mine
      <3>. QED  BY <1>1, <3>1, <3>2
    <2>2. CASE Start(q) \/ Beat(q) \/ BeatMissed(q) \/ Bump(q) \/ BumpForget(q)
      BY <1>1, <2>2, ZenonT(40) DEF Start, Beat, BeatMissed, Bump, BumpForget
    <2>. QED  BY <1>3, <2>1, <2>2 DEF ProcStep
  <1>4. ASSUME NEW h \in Handlers, HandlerStep(h) \/ ConnectionLost(h)
        PROVE  msgs' \in [Partitions \X BOOLEAN -> Nat]
    <2>1. CASE ConnectionLost(h)
      BY <1>1, <1>2, <2>1, ZenonT(40) DEF ConnectionLost
    <2>2. CASE Reject(h)
      BY <1>1, <1>2, <2>2, ZenonT(40) DEF Reject
    <2>3. CASE \/ Ack(h) \/ Claim(h) \/ ClaimLost(h)
               \/ DrainReturns(h) \/ DrainRaises(h) \/ MarkTerminal(h)
               \/ MarkTerminalLost(h) \/ ReleaseAfterTerminal(h)
               \/ RequeueForRetry(h) \/ RequeueLost(h) \/ ReleaseAfterRequeue(h)
      <3>1. msgs' = msgs
        BY <2>3, ZenonT(40) DEF Ack, Claim, ClaimLost, DrainReturns, DrainRaises,
                    MarkTerminal, MarkTerminalLost, ReleaseAfterTerminal,
                    RequeueForRetry, RequeueLost, ReleaseAfterRequeue
      <3>. QED  BY <1>1, <3>1
    <2>. QED  BY <1>4, <2>1, <2>2, <2>3 DEF HandlerStep
  <1>5. ASSUME NEW h \in Handlers, NEW p \in Partitions, NEW b \in BOOLEAN,
               Deliver(h, p, b)
        PROVE  msgs' \in [Partitions \X BOOLEAN -> Nat]
    BY <1>1, <1>5 DEF Deliver
  <1>6. ASSUME NEW p \in Partitions, RowStep(p)
        PROVE  msgs' \in [Partitions \X BOOLEAN -> Nat]
    BY <1>1, <1>2, <1>6, ZenonT(40)
       DEF RowStep, Republish, StaleRepublish, Lapse, AgeStarted, AgeEnqueued
  <1>7. ASSUME NEW S \in SUBSET Partitions, Sweep(S)
        PROVE  msgs' \in [Partitions \X BOOLEAN -> Nat]
    BY <1>1, <1>7 DEF Sweep
  <1>8. CASE StaleFail \/ StaleReset \/ StaleCancelGuard \/ CancelJob
    BY <1>1, <1>8 DEF StaleFail, StaleReset, StaleCancelGuard, CancelJob
  <1>. QED  BY <1>3, <1>4, <1>5, <1>6, <1>7, <1>8, SMTT(30) DEF Next

\* The processes: liveness, heartbeat and registry.
LEMMA ProcNext ==
    ASSUME Inv, Next
    PROVE  proc' \in [Procs -> Proc]
  <1>1. proc \in [Procs -> Proc] /\ NewProc \in Proc
    BY DEF Inv, TypeOK, NewProc, Proc
  <1>2. ASSUME NEW q \in Procs, NEW x \in Proc, proc' = [proc EXCEPT ![q] = x]
        PROVE  proc' \in [Procs -> Proc]
    BY <1>1, <1>2
  <1>3. ASSUME NEW q \in Procs, ProcStep(q) PROVE proc' \in [Procs -> Proc]
    <2>1. CASE Start(q)
      <3>1. \A o \in Procs : /\ proc[o] \in Proc
                             /\ [proc[o] EXCEPT !.seen = FALSE] \in Proc
        BY <1>1, ZenonT(40) DEF Proc
      <3>2. \A b \in BOOLEAN :
               [proc[q] EXCEPT !.st = "up", !.beats = b] \in Proc
        BY <1>1, ZenonT(40) DEF Proc
      <3>. QED  BY <2>1, <3>1, <3>2, ZenonT(40) DEF Start
    <2>2. CASE Beat(q)
      BY <1>1, <2>2, ZenonT(40) DEF Beat, Proc
    <2>3. CASE BeatMissed(q)
      BY <1>1, <2>3, ZenonT(40) DEF BeatMissed, Proc
    <2>4. CASE Bump(q)
      <3>1. PICK kept : proc' = [proc EXCEPT ![q].forget = proc[q].reg \ kept]
        BY <2>4, ZenonT(40) DEF Bump
      <3>. QED  BY <1>1, <3>1 DEF Proc
    <2>5. CASE BumpForget(q)
      <3> DEFINE x == [proc[q] EXCEPT !.reg = @ \ proc[q].forget, !.forget = {}]
      <3>1. x \in Proc
        BY <1>1, ZenonT(40) DEF Proc
      <3>2. proc' = [proc EXCEPT ![q] = x]
        BY <1>1, <2>5, ZenonT(40) DEF BumpForget
      <3>. QED  BY <1>2, <3>1, <3>2, ZenonT(40)
    <2>6. CASE Exit(q)
      <3>1. \A b \in BOOLEAN : [NewProc EXCEPT !.st = "dead", !.seen = b] \in Proc
        BY ZenonT(40) DEF NewProc, Proc
      <3>2. proc[q].seen \in BOOLEAN
        BY <1>1 DEF Proc
      <3>. QED  BY <1>1, <2>6, <3>1, <3>2, ZenonT(40) DEF Exit
    <2>. QED  BY <1>3, <2>1, <2>2, <2>3, <2>4, <2>5, <2>6 DEF ProcStep
  <1>4. ASSUME NEW h \in Handlers, HandlerStep(h) \/ ConnectionLost(h)
        PROVE  proc' \in [Procs -> Proc]
    <2>1. ProcOf[h] \in Procs
      BY ConstantsAssumption
    <2>2. ASSUME Unregister(h) PROVE proc' \in [Procs -> Proc]
      BY <1>1, <2>1, <2>2 DEF Unregister, Proc
    <2>3. CASE Claim(h)
      <3> DEFINE q == ProcOf[h]
                 p == task[h].part
                 x == [proc[q] EXCEPT !.reg = @ \cup {p}, !.used = TRUE]
      <3>1. p \in Partitions
        BY <2>3 DEF Claim, Inv, TaskInv
      <3>2. x \in Proc
        BY <1>1, <2>1, <3>1, ZenonT(40) DEF Proc
      <3>3. proc' = proc \/ proc' = [proc EXCEPT ![q] = x]
        BY <1>1, <2>1, <2>3, ZenonT(40) DEF Claim
      <3>. QED  BY <1>1, <1>2, <2>1, <3>2, <3>3
    <2>4. CASE \/ MarkTerminal(h) \/ ReleaseAfterTerminal(h)
               \/ RequeueForRetry(h) \/ ReleaseAfterRequeue(h)
      BY <2>2, <2>4, ZenonT(40) DEF MarkTerminal, ReleaseAfterTerminal, RequeueForRetry,
                        ReleaseAfterRequeue
    <2>5. CASE \/ Ack(h) \/ Reject(h) \/ ClaimLost(h) \/ DrainReturns(h)
               \/ DrainRaises(h) \/ MarkTerminalLost(h) \/ RequeueLost(h)
               \/ ConnectionLost(h)
      BY <1>1, <2>5, ZenonT(40) DEF Ack, Reject, ClaimLost, DrainReturns, DrainRaises,
                        MarkTerminalLost, RequeueLost, ConnectionLost
    <2>. QED  BY <1>4, <2>3, <2>4, <2>5 DEF HandlerStep
  <1>5. ASSUME NEW h \in Handlers, NEW p \in Partitions, NEW b \in BOOLEAN,
               Deliver(h, p, b)
        PROVE  proc' \in [Procs -> Proc]
    BY <1>1, <1>5 DEF Deliver
  <1>6. ASSUME NEW p \in Partitions, RowStep(p) PROVE proc' \in [Procs -> Proc]
    BY <1>1, <1>6, ZenonT(40)
       DEF RowStep, Republish, StaleRepublish, Lapse, AgeStarted, AgeEnqueued
  <1>7. ASSUME NEW S \in SUBSET Partitions, Sweep(S)
        PROVE  proc' \in [Procs -> Proc]
    BY <1>1, <1>7 DEF Sweep
  <1>8. CASE StaleFail \/ StaleReset \/ StaleCancelGuard \/ CancelJob
    BY <1>1, <1>8 DEF StaleFail, StaleReset, StaleCancelGuard, CancelJob
  <1>. QED  BY <1>3, <1>4, <1>5, <1>6, <1>7, <1>8 DEF Next

\* What the sweepers hold between two steps, and the bounds.
LEMMA SweepVarsNext ==
    ASSUME Inv, Next
    PROVE  /\ payloads' \subseteq Partitions /\ resend' \subseteq Partitions
           /\ stale' \subseteq claimed'
           /\ cancelled' \in BOOLEAN
           /\ lost' \in [conn : Nat, claim : Nat, write : Nat]
  <1> DEFINE Goal == /\ payloads' \subseteq Partitions
                     /\ resend' \subseteq Partitions
                     /\ stale' \subseteq claimed'
                     /\ cancelled' \in BOOLEAN
                     /\ lost' \in [conn : Nat, claim : Nat, write : Nat]
  <1>1. /\ payloads \subseteq Partitions /\ resend \subseteq Partitions
        /\ stale \subseteq Partitions /\ stale \subseteq claimed
        /\ cancelled \in BOOLEAN
        /\ lost \in [conn : Nat, claim : Nat, write : Nat]
    BY DEF Inv, TypeOK, ClaimInv
  <1>2. claimed \subseteq claimed'
    BY RowsNext DEF RowsOK
  <1>3. /\ [lost EXCEPT !.conn = @ + 1] \in [conn : Nat, claim : Nat, write : Nat]
        /\ [lost EXCEPT !.claim = @ + 1] \in [conn : Nat, claim : Nat, write : Nat]
        /\ [lost EXCEPT !.write = @ + 1] \in [conn : Nat, claim : Nat, write : Nat]
    BY <1>1
  <1>4. ASSUME UNCHANGED sweepVars,
               \/ UNCHANGED lost \/ lost' = [lost EXCEPT !.conn = @ + 1]
               \/ lost' = [lost EXCEPT !.claim = @ + 1]
               \/ lost' = [lost EXCEPT !.write = @ + 1]
        PROVE  Goal
    BY <1>1, <1>2, <1>3, <1>4 DEF sweepVars
  <1>5. ASSUME NEW q \in Procs, ProcStep(q) PROVE Goal
    BY <1>4, <1>5, ZenonT(40)
       DEF ProcStep, Start, Beat, BeatMissed, Bump, BumpForget, Exit
  <1>6. ASSUME NEW h \in Handlers, HandlerStep(h) \/ ConnectionLost(h) PROVE Goal
    <2>1. CASE \/ Ack(h) \/ Reject(h) \/ Claim(h) \/ DrainReturns(h)
               \/ DrainRaises(h) \/ MarkTerminal(h) \/ RequeueForRetry(h)
      BY <1>4, <2>1, ZenonT(40) DEF Ack, Reject, Claim, DrainReturns, DrainRaises,
                               MarkTerminal, RequeueForRetry
    <2>2. CASE ConnectionLost(h) \/ ClaimLost(h)
      BY <1>4, <2>2, ZenonT(40) DEF ConnectionLost, ClaimLost
    <2>3. CASE MarkTerminalLost(h) \/ RequeueLost(h)
      BY <1>4, <2>3, ZenonT(40) DEF MarkTerminalLost, RequeueLost
    <2>4. CASE ReleaseAfterTerminal(h) \/ ReleaseAfterRequeue(h)
      BY <1>4, <2>4, ZenonT(40) DEF ReleaseAfterTerminal, ReleaseAfterRequeue
    <2>. QED  BY <1>6, <2>1, <2>2, <2>3, <2>4, ZenonT(40) DEF HandlerStep
  <1>7. ASSUME NEW h \in Handlers, NEW p \in Partitions, NEW b \in BOOLEAN,
               Deliver(h, p, b)
        PROVE  Goal
    BY <1>4, <1>7, ZenonT(40) DEF Deliver
  <1>8. ASSUME NEW p \in Partitions, RowStep(p) PROVE Goal
    <2>1. CASE Republish(p)
      BY <1>1, <1>2, <2>1 DEF Republish
    <2>2. CASE StaleRepublish(p)
      BY <1>1, <1>2, <2>2 DEF StaleRepublish
    <2>3. CASE Lapse(p) \/ AgeStarted(p) \/ AgeEnqueued(p)
      BY <1>4, <2>3, ZenonT(40) DEF Lapse, AgeStarted, AgeEnqueued
    <2>. QED  BY <1>8, <2>1, <2>2, <2>3 DEF RowStep
  <1>9. ASSUME NEW S \in SUBSET Partitions, Sweep(S) PROVE Goal
    BY <1>1, <1>2, <1>9 DEF Sweep
  <1>10. CASE StaleReset
    <2>1. \A p \in stale' : p \in Partitions /\ row[p].status = "IN_PROGRESS"
      BY <1>10 DEF StaleReset, Stuck
    <2>2. stale' \subseteq claimed
      BY <2>1 DEF Inv, ClaimInv, Fresh
    <2>. QED  BY <1>1, <1>2, <1>10, <2>2 DEF StaleReset
  <1>11. CASE StaleCancelGuard
    BY <1>1, <1>2, <1>11 DEF StaleCancelGuard
  <1>12. CASE StaleFail
    BY <1>4, <1>12, ZenonT(40) DEF StaleFail
  <1>13. CASE CancelJob
    BY <1>1, <1>2, <1>13 DEF CancelJob
  <1>. QED  BY <1>5, <1>6, <1>7, <1>8, <1>9, <1>10, <1>11, <1>12, <1>13 DEF Next

\* Dead letters are written by the sweep alone: for a poisoned row, which some
\* worker has claimed, and for an expired one, which none has.
LEMMA DeadNext ==
    ASSUME Inv, Next
    PROVE  /\ dead' \subseteq Partitions \X {"poison_pill", "unclaimed_expired"}
           /\ \A d \in dead' \ dead :
                 /\ row'[d[1]].status = "FAILED"
                 /\ (d[2] = "poison_pill") <=> d[1] \in claimed'
  <1>1. dead \subseteq Partitions \X {"poison_pill", "unclaimed_expired"}
    BY DEF Inv, TypeOK
  <1>2. CASE dead' = dead
    BY <1>1, <1>2
  <1>3. ASSUME NEW S \in SUBSET Partitions, Sweep(S)
        PROVE  /\ dead' \subseteq Partitions \X {"poison_pill",
                                                 "unclaimed_expired"}
               /\ \A d \in dead' \ dead :
                     /\ row'[d[1]].status = "FAILED"
                     /\ (d[2] = "poison_pill") <=> d[1] \in claimed'
    <2>1. ASSUME NEW p \in Partitions, Poisoned(Swept(p, S))
          PROVE  row'[p].status = "FAILED" /\ p \in claimed'
      <3> DEFINE s == Swept(p, S)
      <3>1. s \in Row
        BY LaterSwept DEF Inv, Later
      <3>2. GivenUp(s).status = "FAILED"
        BY <2>1, <3>1, LaterGivenUp DEF Poisoned, Poisonous
      <3>3. row'[p] = ExpireStep(PoisonStep(s)) /\ claimed' = claimed
        BY <1>3 DEF Sweep
      <3>4. row'[p] = GivenUp(s)
        BY <2>1, <3>2, <3>3
           DEF PoisonStep, ExpireStep, Expired, Unclaimed, NeverClaimed
      <3>5. p \in claimed
        BY <2>1, FreshSwept DEF Inv, ClaimInv
      <3>. QED  BY <3>2, <3>3, <3>4, <3>5
    <2>2. ASSUME NEW p \in Partitions, Expired(Swept(p, S))
          PROVE  row'[p].status = "FAILED" /\ p \notin claimed'
      <3> DEFINE s == Swept(p, S)
      <3>1. s \in Row /\ (Evid(row[p]) => Evid(s))
        <4>1. TypeOK
          BY DEF Inv
        <4>2. Later(row[p], s, FALSE)
          BY <4>1, LaterSwept, ZenonT(40)
        <4>. QED  BY <4>2, ZenonT(40) DEF Later
      <3>2. GivenUp(s).status = "FAILED"
        BY <2>2, <3>1, LaterGivenUp
           DEF Expired, Unclaimed, NeverClaimed, Terminal, Done
      <3>3. row'[p] = ExpireStep(PoisonStep(s)) /\ claimed' = claimed
        BY <1>3 DEF Sweep
      <3>4. ~Poisoned(s)
        BY <2>2 DEF Expired, Unclaimed, NeverClaimed, Poisoned, Poisonous,
                    ClaimEvidence
      <3>5. row'[p] = GivenUp(s)
        BY <2>2, <3>3, <3>4 DEF PoisonStep, ExpireStep
      <3>6. ~Evid(s)
        BY <2>2 DEF Expired, Unclaimed, NeverClaimed, Evid
      <3>. QED  BY <3>1, <3>2, <3>3, <3>5, <3>6, SMTT(30) DEF Inv, ClaimInv
    <2>3. \A d \in dead' : \/ d \in dead
                           \/ \E p \in Partitions :
                                 d = <<p, "poison_pill">> /\ Poisoned(Swept(p, S))
                           \/ \E p \in Partitions :
                                 d = <<p, "unclaimed_expired">>
                                 /\ Expired(Swept(p, S))
      BY <1>3 DEF Sweep
    <2>. QED  BY <1>1, <2>1, <2>2, <2>3
  <1>4. ASSUME NEW q \in Procs, ProcStep(q) PROVE dead' = dead
    BY <1>4, ZenonT(40) DEF ProcStep, Start, Beat, BeatMissed, Bump, BumpForget, Exit,
                sweepVars
  <1>5. ASSUME NEW h \in Handlers, HandlerStep(h) \/ ConnectionLost(h)
        PROVE  dead' = dead
    BY <1>5, ZenonT(40) DEF HandlerStep, ConnectionLost, Ack, Reject, Claim, ClaimLost,
                DrainReturns, DrainRaises, MarkTerminal, MarkTerminalLost,
                ReleaseAfterTerminal, RequeueForRetry, RequeueLost,
                ReleaseAfterRequeue, sweepVars
  <1>6. ASSUME NEW h \in Handlers, NEW p \in Partitions, NEW b \in BOOLEAN,
               Deliver(h, p, b)
        PROVE  dead' = dead
    BY <1>6 DEF Deliver, sweepVars
  <1>7. ASSUME NEW p \in Partitions, RowStep(p) PROVE dead' = dead
    BY <1>7, ZenonT(40) DEF RowStep, Republish, StaleRepublish, Lapse, AgeStarted,
                AgeEnqueued, sweepVars
  <1>8. CASE StaleFail \/ StaleReset \/ StaleCancelGuard \/ CancelJob
    BY <1>1, <1>8, <1>2
       DEF StaleFail, StaleReset, StaleCancelGuard, CancelJob, sweepVars
  <1>. QED  BY <1>2, <1>3, <1>4, <1>5, <1>6, <1>7, <1>8 DEF Next

-----------------------------------------------------------------------------
(* The inductive invariant *)

\* Init: the rows are new and nobody works.
LEMMA InvInit ==
    ASSUME Init
    PROVE  Inv
  <1>1. NewRow \in Row /\ NewProc \in Proc /\ Idle \in Task
    BY ConstantsAssumption, ZenonT(40)
       DEF NewRow, Row, Status, NewProc, Proc, Idle, Task, Done
  <1>2. TypeOK
    <2>1. msgs \in [Partitions \X BOOLEAN -> Nat]
      BY DEF Init
    <2>2. lost \in [conn : Nat, claim : Nat, write : Nat]
      BY DEF Init
    <2>3. /\ row \in [Partitions -> Row] /\ proc \in [Procs -> Proc]
          /\ task \in [Handlers -> Task]
      BY <1>1, ZenonT(40) DEF Init
    <2>. QED  BY <2>1, <2>2, <2>3, ZenonT(40) DEF Init, TypeOK
  <1>3. TaskInv /\ TokenInv
    BY DEF Init, Idle, TaskInv, TokenInv, Working
  <1>4. ClaimInv /\ DeadLetterVerdict
    BY DEF Init, NewRow, ClaimInv, Fresh, DeadLetterVerdict
  <1>. QED  BY <1>2, <1>3, <1>4 DEF Inv

\* Tokens stay behind the row's and distinct: a task keeps its binding, or it
\* has just claimed under a token above every bound one.
LEMMA TokenNext ==
    ASSUME Inv, RowsOK, TasksOK
    PROVE  TokenInv'
  <1>1. ASSUME NEW h \in Handlers, Working(h)'
        PROVE  /\ task'[h].tok <= row'[task'[h].part].token
               /\ task'[h].part \in claimed'
    <2>1. CASE SameBinding(h)
      <3> DEFINE p == task[h].part
      <3>1. p \in claimed /\ p \in Partitions /\ task[h].tok <= row[p].token
        BY <2>1, WorkingRow, ZenonT(40) DEF SameBinding, Inv, TokenInv
      <3>2. row'[p].token >= row[p].token /\ p \in claimed'
        <4>1. Later(row[p], row'[p], cancelled /\ p \in stale) /\ claimed \subseteq claimed'
          BY <3>1, ZenonT(40) DEF RowsOK
        <4>. QED  BY <3>1, <4>1, ZenonT(40) DEF Later
      <3>3. task[h].tok \in Nat /\ row[p].token \in Nat /\ row'[p].token \in Nat
        BY <3>1, ZenonT(40) DEF Inv, TypeOK, RowsOK, Row, Task
      <3>. QED  BY <2>1, <3>1, <3>2, <3>3, SMTT(30) DEF SameBinding
    <2>2. CASE NewBinding(h)
      <3>1. row'[task'[h].part].token \in Nat
        BY <2>2 DEF NewBinding, RowsOK, Row
      <3>. QED  BY <2>2, <3>1, SMTT(30) DEF NewBinding
    <2>. QED  BY <1>1, <2>1, <2>2 DEF TasksOK
  <1>2. ASSUME NEW g \in Handlers, NEW h \in Handlers, g # h, Working(g)',
               Working(h)', task'[g].part = task'[h].part, NewBinding(h)
        PROVE  task'[g].tok # task'[h].tok
    <2> DEFINE p == task'[h].part
    <2>1. task'[g] = task[g] /\ Working(g)
      BY <1>2 DEF NewBinding, Working
    <2>2. task[g].tok <= row[p].token
      BY <1>2, <2>1 DEF Inv, TokenInv
    <2>3. p \in Partitions
      <3>1. p \in claimed'
        BY <1>2, ZenonT(40) DEF NewBinding
      <3>. QED  BY <3>1, ZenonT(40) DEF RowsOK
    <2>4. task[g].tok \in Nat /\ row[p].token \in Nat /\ row'[p].token \in Nat
      BY <2>3, ZenonT(40) DEF Inv, TypeOK, RowsOK, Row, Task
    <2>. QED  BY <1>2, <2>1, <2>2, <2>4 DEF NewBinding
  <1>3. ASSUME NEW g \in Handlers, NEW h \in Handlers, g # h, Working(g)',
               Working(h)', task'[g].part = task'[h].part
        PROVE  task'[g].tok # task'[h].tok
    <2>1. CASE SameBinding(g) /\ SameBinding(h)
      BY <1>3, <2>1, ZenonT(40) DEF SameBinding, Inv, TokenInv
    <2>. QED  BY <1>2, <1>3, <2>1 DEF TasksOK
  <1>. QED  BY <1>1, <1>3 DEF TokenInv

\* Every step preserves the invariant.
LEMMA InvNext ==
    ASSUME Inv, [Next]_vars
    PROVE  Inv'
  <1>1. CASE Next
    <2>1. RowsOK /\ TasksOK
      BY <1>1, RowsNext, TasksNext
    <2>2. TypeOK'
      <3>1. stale' \subseteq Partitions
        BY <1>1, <2>1, SweepVarsNext DEF RowsOK
      <3>. QED  BY <1>1, <2>1, <3>1, MsgsNext, ProcNext, SweepVarsNext, DeadNext
                DEF TypeOK, RowsOK, TasksOK
    <2>3. TaskInv' /\ TokenInv'
      BY <2>1, TokenNext DEF TasksOK
    <2>4. ClaimInv'
      <3>1. ASSUME NEW p \in Partitions, p \in claimed' PROVE Evid(row'[p])
        <4>1. p \notin claimed => Evid(row'[p])
          BY <2>1, <3>1, ZenonT(40) DEF RowsOK
        <4>2. Evid(row[p]) => Evid(row'[p])
          BY <2>1, ZenonT(40) DEF RowsOK, Later
        <4>3. p \in claimed => Evid(row[p])
          BY ZenonT(40) DEF Inv, ClaimInv
        <4>. QED  BY <4>1, <4>2, <4>3
      <3>2. ASSUME NEW p \in Partitions, p \notin claimed'
            PROVE  Fresh(row'[p]) /\ p \notin stale'
        BY <1>1, <2>1, <3>2, SweepVarsNext DEF RowsOK
      <3>. QED  BY <3>1, <3>2 DEF ClaimInv, Evid, Fresh
    <2>5. DeadLetterVerdict'
      <3>1. ASSUME NEW d \in dead
            PROVE  /\ row'[d[1]].status = "FAILED"
                   /\ (d[2] = "poison_pill") <=> d[1] \in claimed'
        <4> DEFINE p == d[1]
        <4>1. p \in Partitions
          BY DEF Inv, TypeOK
        <4>2. row[p].status = "FAILED" /\ ((d[2] = "poison_pill") <=> p \in claimed)
          BY DEF Inv, DeadLetterVerdict
        <4>3. row'[p].status = "FAILED" /\ (p \in claimed' => p \in claimed)
          BY <2>1, <4>1, <4>2, SMTT(30) DEF RowsOK, Later, Terminal, Done
        <4>. QED  BY <2>1, <4>2, <4>3 DEF RowsOK
      <3>. QED  BY <1>1, <3>1, DeadNext DEF DeadLetterVerdict
    <2>. QED  BY <2>2, <2>3, <2>4, <2>5 DEF Inv
  <1>2. CASE UNCHANGED vars
    BY <1>2, ZenonT(40) DEF vars, sweepVars, Inv, TypeOK, TaskInv, TokenInv, ClaimInv,
                DeadLetterVerdict, Working, Fresh, Evid
  <1>. QED  BY <1>1, <1>2

-----------------------------------------------------------------------------
(* The theorems *)

\* Inv holds in every reachable state.
THEOREM Invariance == Spec => []Inv
  BY InvInit, InvNext, PTL DEF Spec

\* The variables keep their types, for every number of partitions, processes
\* and handlers and every budget.
THEOREM TypeCorrect == Spec => []TypeOK
  <1>1. Inv => TypeOK
    BY DEF Inv
  <1>. QED  BY <1>1, Invariance, PTL

\* The fence of _partition_lease_fence lets at most one of the running tasks
\* that claimed a partition write to it: their tokens differ.
THEOREM FenceExclusion == Spec => []FenceExclusive
  <1>1. Inv => FenceExclusive
    <2>. SUFFICES ASSUME Inv, NEW g \in Handlers, NEW h \in Handlers, g # h, Working(g), Working(h),
                         task[g].part = task[h].part, Fence(g), Fence(h)
                  PROVE  FALSE
      BY DEF FenceExclusive
    <2>1. task[g].tok = task[h].tok
      BY DEF Fence
    <2>. QED  BY <2>1, ZenonT(40) DEF Inv, TokenInv
  <1>. QED  BY <1>1, Invariance, PTL

\* A row some worker claimed is never taken for a never-claimed one by the
\* reconciler: started_at or retry_count keeps the evidence.
THEOREM EvidenceKept == Spec => []EvidenceSurvives
  <1>1. Inv => EvidenceSurvives
    BY DEF Inv, TypeOK, ClaimInv, EvidenceSurvives, ClaimEvidence, Evid
  <1>. QED  BY <1>1, Invariance, PTL

\* Dead letters name FAILED rows and give the true reason.
THEOREM DeadLetters == Spec => []DeadLetterVerdict
  <1>1. Inv => DeadLetterVerdict
    BY DEF Inv
  <1>. QED  BY <1>1, Invariance, PTL

\* A terminal status is final, up to the cancel-guard of the stale-sweep.
THEOREM Finality == Spec => TerminalFinal
  <1> DEFINE Kept == \A p \in Partitions :
          Terminal(row[p]) =>
             \/ row'[p].status = row[p].status
             \/ cancelled /\ p \in stale /\ row'[p].status = "FAILED"
  <1>1. Inv /\ [Next]_vars => [Kept]_vars
    BY RowsNext DEF RowsOK, Later
  <1>. QED  BY <1>1, Invariance, PTL DEF Spec, TerminalFinal

\* A task at work that the fence lets through was let through before, by the
\* same binding: the row's token never falls back to the task's, and its owner
\* changes only together with the token.
LEMMA FenceBack ==
    ASSUME Inv, RowsOK, TasksOK, NEW h \in Handlers, Working(h), Working(h)',
           Fence(h)'
    PROVE  SameBinding(h) /\ Fence(h)
  <1> DEFINE p == task[h].part
  <1>1. SameBinding(h)
    BY ZenonT(40) DEF TasksOK, NewBinding
  <1>2. /\ p \in Partitions /\ task[h].tok <= row[p].token
        /\ Later(row[p], row'[p], cancelled /\ p \in stale)
    BY WorkingRow, ZenonT(40) DEF Inv, TokenInv, RowsOK
  <1>3. task[h].tok \in Nat /\ row[p].token \in Nat /\ row'[p].token \in Nat
    BY <1>2, ZenonT(40) DEF Inv, TypeOK, RowsOK, Row, Task
  <1>4. row'[p].token = task[h].tok
    BY <1>1, ZenonT(40) DEF Fence, SameBinding
  <1>5. row[p].token = task[h].tok /\ row'[p].token = row[p].token
    <2>1. row'[p].token >= row[p].token
      BY <1>2, ZenonT(40) DEF Later
    <2>2. \A a, b, c \in Nat : a <= b /\ c >= b /\ c = a => b = a /\ c = b
      OBVIOUS
    <2>. QED  BY <1>2, <1>3, <1>4, <2>1, <2>2, ZenonT(40)
  <1>6. task[h].own = NoOwner \/ row'[p].owner = task[h].own
    BY <1>1 DEF Fence, SameBinding
  <1>7. row'[p].owner \in {row[p].owner, NoOwner}
    BY <1>2, <1>5, ZenonT(40) DEF Later
  <1>. QED  BY <1>1, <1>5, <1>6, <1>7 DEF Fence

\* A task the fence has shut out stays shut out: the row's token never falls
\* back to the task's, and its owner changes only together with the token.
THEOREM StolenForGood == Spec => StolenStaysStolen
  <1> DEFINE Shut == \A h \in Handlers :
          Working(h) /\ Working(h)' /\ ~Fence(h) => ~Fence(h)'
  <1>1. ASSUME Inv, Next PROVE Shut
    <2>1. RowsOK /\ TasksOK
      BY <1>1, RowsNext, TasksNext
    <2>. QED  BY <1>1, <2>1, FenceBack
  <1>2. Inv /\ [Next]_vars => [Shut]_vars
    BY <1>1
  <1>. QED  BY <1>2, Invariance, PTL DEF Spec, StolenStaysStolen

-----------------------------------------------------------------------------
(* The registry of LeaseExtender *)

\* A registered row has a handler at work on it, whoever owns the row by now.
RegInv ==
    \A q \in Procs : \A p \in proc[q].reg :
        \E h \in Handlers : ProcOf[h] = q /\ task[h].part = p /\ Working(h)

\* A step that registers nothing and ends no handler's work.
LEMMA RegSame ==
    ASSUME RegInv,
           \A q \in Procs : proc'[q].reg \subseteq proc[q].reg,
           \A h \in Handlers : Working(h) => /\ Working(h)'
                                             /\ task'[h].part = task[h].part
    PROVE  RegInv'
  BY DEF RegInv

\* A handler that unregisters its row may leave it: what stays registered is
\* another row, or a row of another process.
LEMMA RegLeave ==
    ASSUME Inv, RegInv, NEW h \in Handlers, Unregister(h),
           \A g \in Handlers \ {h} : task'[g] = task[g]
    PROVE  RegInv'
  <1>1. ASSUME NEW q \in Procs, NEW p \in proc'[q].reg
        PROVE  p \in proc[q].reg /\ (q = ProcOf[h] => p # task[h].part)
    <2>1. ProcOf[h] \in Procs /\ proc \in [Procs -> Proc]
      BY ConstantsAssumption DEF Inv, TypeOK
    <2>2. /\ proc'[ProcOf[h]].reg = proc[ProcOf[h]].reg \ {task[h].part}
          /\ q # ProcOf[h] => proc'[q] = proc[q]
      BY <2>1 DEF Unregister, Proc
    <2>. QED  BY <1>1, <2>2
  <1>2. ASSUME NEW q \in Procs, NEW p \in proc'[q].reg
        PROVE  \E g \in Handlers : /\ ProcOf[g] = q /\ task'[g].part = p
                                   /\ Working(g)'
    <2>1. PICK g \in Handlers : ProcOf[g] = q /\ task[g].part = p /\ Working(g)
      BY <1>1, <1>2 DEF RegInv
    <2>2. task'[g] = task[g]
      BY <1>1, <1>2, <2>1
    <2>. QED  BY <2>1, <2>2 DEF Working
  <1>. QED  BY <1>2 DEF RegInv

\* A successful claim registers the row of a handler that now works.
LEMMA RegClaim ==
    ASSUME Inv, RegInv, NEW h \in Handlers, Claim(h)
    PROVE  RegInv'
  <1> DEFINE p == task[h].part
             q == ProcOf[h]
  <1>1. q \in Procs /\ proc \in [Procs -> Proc] /\ task \in [Handlers -> Task]
    BY ConstantsAssumption DEF Inv, TypeOK
  <1>2. ~Working(h) /\ \A g \in Handlers \ {h} : task'[g] = task[g]
    BY <1>1 DEF Claim, Goto, Working
  <1>3. CASE proc' = proc
    BY <1>2, <1>3, RegSame DEF Working
  <1>4. CASE proc' # proc
    <2>1. /\ proc' = [proc EXCEPT ![q].reg = @ \cup {p}, ![q].used = TRUE]
          /\ \E o, t : task' = [task EXCEPT ![h] = [task[h] EXCEPT
                                    !.pc = "drain", !.own = o, !.tok = t]]
      BY <1>4, ZenonT(40) DEF Claim, Goto
    <2>2. task'[h].pc = "drain" /\ task'[h].part = p
      BY <1>1, <2>1 DEF Task
    <2>3. /\ proc'[q].reg = proc[q].reg \cup {p}
          /\ \A o \in Procs \ {q} : proc'[o] = proc[o]
      BY <1>1, <2>1 DEF Proc
    <2>4. Working(h)'
      BY <2>2 DEF Working
    <2>5. ASSUME NEW g \in Handlers, Working(g)
          PROVE  Working(g)' /\ task'[g].part = task[g].part
      BY <1>2, <2>5 DEF Working
    <2>. QED  BY <2>2, <2>3, <2>4, <2>5 DEF RegInv
  <1>. QED  BY <1>3, <1>4

\* A process that ends leaves no registry behind.
LEMMA RegExit ==
    ASSUME Inv, RegInv, NEW q \in Procs, Exit(q)
    PROVE  RegInv'
  <1>1. proc \in [Procs -> Proc] /\ task \in [Handlers -> Task]
    BY DEF Inv, TypeOK
  <1>2. proc'[q].reg = {} /\ \A o \in Procs \ {q} : proc'[o] = proc[o]
    BY <1>1 DEF Exit, NewProc
  <1>3. \A h \in Handlers : ProcOf[h] # q => task'[h] = task[h]
    BY DEF Exit
  <1>. QED  BY <1>2, <1>3 DEF RegInv, Working

\* The other steps of a process start it, beat or renew.
LEMMA RegProc ==
    ASSUME Inv, RegInv, NEW q \in Procs,
           Start(q) \/ Beat(q) \/ BeatMissed(q) \/ Bump(q) \/ BumpForget(q)
    PROVE  RegInv'
  <1>1. proc \in [Procs -> Proc]
    BY DEF Inv, TypeOK
  <1>2. task' = task
    BY ZenonT(40) DEF Start, Beat, BeatMissed, Bump, BumpForget
  <1>3. ASSUME NEW o \in Procs PROVE proc'[o].reg \subseteq proc[o].reg
    <2>1. CASE Start(q)
      <3>1. \/ proc'[o] = proc[o]
            \/ proc'[o] = [proc[o] EXCEPT !.seen = FALSE]
            \/ \E b \in BOOLEAN : proc'[o] = [proc[o] EXCEPT !.st = "up", !.beats = b]
        BY <2>1, ZenonT(40) DEF Start
      <3>. QED  BY <1>1, <3>1, ZenonT(40) DEF Proc
    <2>2. CASE Beat(q) \/ BeatMissed(q) \/ Bump(q)
      BY <1>1, <2>2 DEF Beat, BeatMissed, Bump, Proc
    <2>3. CASE BumpForget(q)
      BY <1>1, <2>3 DEF BumpForget, Proc
    <2>. QED  BY <2>1, <2>2, <2>3
  <1>. QED  BY <1>2, <1>3, RegSame, SMTT(30) DEF Working

\* The steps of a handler other than its claim.
LEMMA RegHandler ==
    ASSUME Inv, RegInv, NEW h \in Handlers,
           HandlerStep(h) \/ ConnectionLost(h), ~Claim(h)
    PROVE  RegInv'
  <1>1. task \in [Handlers -> Task]
    BY DEF Inv, TypeOK
  <1>2. \A g \in Handlers \ {h} : task'[g] = task[g]
    <2>1. \E t : task' = [task EXCEPT ![h] = t]
      BY ZenonT(40) DEF HandlerStep, ConnectionLost, Ack, Reject, ClaimLost,
            DrainReturns, DrainRaises, MarkTerminal, MarkTerminalLost,
            ReleaseAfterTerminal, RequeueForRetry, RequeueLost,
            ReleaseAfterRequeue, Goto
    <2>. QED  BY <1>1, <2>1
  <1>3. CASE MarkTerminal(h) \/ ReleaseAfterTerminal(h) \/ RequeueForRetry(h)
             \/ ReleaseAfterRequeue(h)
    <2>1. Unregister(h)
      BY <1>3, ZenonT(40) DEF MarkTerminal, ReleaseAfterTerminal, RequeueForRetry,
                         ReleaseAfterRequeue
    <2>. QED  BY <1>2, <2>1, RegLeave
  <1>4. CASE Ack(h) \/ Reject(h) \/ ClaimLost(h)
    <2>1. ~Working(h) /\ proc' = proc
      BY <1>4, ZenonT(40) DEF Ack, Reject, ClaimLost, Working
    <2>. QED  BY <1>2, <2>1, RegSame DEF Working
  <1>5. CASE DrainReturns(h) \/ DrainRaises(h) \/ MarkTerminalLost(h)
             \/ RequeueLost(h) \/ ConnectionLost(h)
    <2>1. proc' = proc
      BY <1>5, ZenonT(40) DEF DrainReturns, DrainRaises, MarkTerminalLost,
                         RequeueLost, ConnectionLost
    <2>2. Working(h) => Working(h)' /\ task'[h].part = task[h].part
      <3>1. CASE DrainReturns(h) \/ DrainRaises(h)
        BY <1>1, <3>1, ZenonT(30) DEF DrainReturns, DrainRaises, Goto, Working, Task
      <3>2. CASE MarkTerminalLost(h) \/ RequeueLost(h)
        BY <1>1, <3>2 DEF MarkTerminalLost, RequeueLost, Goto, Working, Task
      <3>3. CASE ConnectionLost(h)
        BY <1>1, <3>3 DEF ConnectionLost, Goto, Working, Task
      <3>. QED  BY <1>5, <3>1, <3>2, <3>3, ZenonT(40)
    <2>. QED  BY <1>2, <2>1, <2>2, RegSame DEF Working
  <1>. QED  BY <1>3, <1>4, <1>5, ZenonT(40) DEF HandlerStep

\* Every step keeps the registry tight.
LEMMA RegNext ==
    ASSUME Inv, RegInv, [Next]_vars
    PROVE  RegInv'
  <1>1. ASSUME task' = task, proc' = proc PROVE RegInv'
    BY <1>1, RegSame DEF Working
  <1>2. ASSUME NEW q \in Procs, ProcStep(q) PROVE RegInv'
    BY <1>2, RegProc, RegExit, ZenonT(40) DEF ProcStep
  <1>3. ASSUME NEW h \in Handlers, HandlerStep(h) \/ ConnectionLost(h)
        PROVE  RegInv'
    BY <1>3, RegClaim, RegHandler
  <1>4. ASSUME NEW h \in Handlers, NEW p \in Partitions, NEW b \in BOOLEAN,
               Deliver(h, p, b)
        PROVE  RegInv'
    <2>1. task \in [Handlers -> Task]
      BY DEF Inv, TypeOK
    <2>2. ~Working(h) /\ proc' = proc /\ \A g \in Handlers \ {h} : task'[g] = task[g]
      BY <1>4, <2>1 DEF Deliver, Goto, Working
    <2>. QED  BY <2>2, RegSame DEF Working
  <1>5. ASSUME NEW p \in Partitions, RowStep(p) PROVE RegInv'
    BY <1>1, <1>5, ZenonT(40) DEF RowStep, Republish, StaleRepublish, Lapse,
                             AgeStarted, AgeEnqueued
  <1>6. CASE \/ \E S \in SUBSET Partitions : Sweep(S)
             \/ StaleFail \/ StaleReset \/ StaleCancelGuard \/ CancelJob
    BY <1>1, <1>6, ZenonT(40) DEF Sweep, StaleFail, StaleReset, StaleCancelGuard,
                             CancelJob
  <1>7. CASE UNCHANGED vars
    BY <1>1, <1>7 DEF vars
  <1>. QED  BY <1>2, <1>3, <1>4, <1>5, <1>6, <1>7 DEF Next

-----------------------------------------------------------------------------
(* The live lease *)

\* Row p is at work under a live lease, and this step changes its status or
\* its token.
Taken(p) ==
    /\ row[p].status = "IN_PROGRESS" /\ row[p].lease = "live"
    /\ row'[p].token # row[p].token \/ row'[p].status # row[p].status

\* Those who may.
Entitled(p) ==
    \/ \E h \in Handlers : /\ Working(h) /\ task[h].part = p
                           /\ Fence(h) /\ task'[h] # task[h]
    \/ ~Up(row[p].owner)
    \/ cancelled /\ p \in stale

\* The reconciler leaves a row under a live lease alone: none of the five
\* statements of STEP A matches it.
LEMMA LiveSwept ==
    ASSUME NEW p \in Partitions, NEW S, row[p].status = "IN_PROGRESS",
           row[p].lease = "live"
    PROVE  ExpireStep(PoisonStep(Swept(p, S))) = row[p]
  <1>1. ~Orphaned(row[p]) /\ ~Unclaimed(row[p]) /\ ~Poisonous(row[p])
    BY DEF Orphaned, Unclaimed, NeverClaimed, Poisonous, Lapsed
  <1>2. /\ RequeueStep(row[p]) = row[p] /\ RepublishStep(row[p]) = row[p]
        /\ ReplayStep(row[p]) = row[p] /\ PoisonStep(row[p]) = row[p]
        /\ ExpireStep(row[p]) = row[p]
    BY <1>1 DEF RequeueStep, RepublishStep, ReplayStep, PoisonStep, Poisoned,
                ExpireStep, Expired
  <1>. QED  BY <1>2, ZenonT(40) DEF Swept

\* A settlement write that changes the row passed the fence.
LEMMA LiveSettle ==
    ASSUME Inv, NEW h \in Handlers, NEW p \in Partitions, Taken(p),
           \/ MarkTerminal(h) \/ MarkTerminalLost(h) \/ ReleaseAfterTerminal(h)
           \/ RequeueForRetry(h) \/ RequeueLost(h) \/ ReleaseAfterRequeue(h)
    PROVE  Entitled(p)
  <1>1. /\ task \in [Handlers -> Task] /\ row \in [Partitions -> Row]
        /\ task[h].part \in Partitions /\ Working(h)
    <2>1. Working(h)
      BY ZenonT(40) DEF Working, MarkTerminal, MarkTerminalLost,
             ReleaseAfterTerminal, RequeueForRetry, RequeueLost,
             ReleaseAfterRequeue
    <2>. QED  BY <2>1, WorkingRow, ZenonT(40) DEF Inv, TypeOK
  <1>2. task'[h] # task[h]
    <2>1. CASE MarkTerminal(h) \/ MarkTerminalLost(h)
      BY <1>1, <2>1 DEF MarkTerminal, MarkTerminalLost, Goto, Task
    <2>3. CASE ReleaseAfterTerminal(h)
      <3>1. PICK pc \in {"requeue", "settle", "reject"} :
               task' = [task EXCEPT ![h] = [task[h] EXCEPT
                          !.pc = pc, !.goal = "FAILED", !.exc = TRUE]]
        BY <2>3, ZenonT(40) DEF ReleaseAfterTerminal, Goto
      <3>2. task[h].pc = "release" /\ task[h] \in Task
        BY <1>1, <2>3, ZenonT(40) DEF ReleaseAfterTerminal
      <3>3. task'[h].pc = pc
        BY <1>1, <3>1, <3>2 DEF Task
      <3>. QED  BY <3>2, <3>3
    <2>2. CASE RequeueForRetry(h) \/ RequeueLost(h) \/ ReleaseAfterRequeue(h)
      <3>1. PICK pc \in {"reject", "settle", "rqrelease"} :
               /\ task' = [task EXCEPT ![h] = [task[h] EXCEPT !.pc = pc]]
               /\ task[h].pc \in {"requeue", "rqrelease"} /\ task[h].pc # pc
        BY <2>2, ZenonT(40) DEF RequeueForRetry, RequeueLost, ReleaseAfterRequeue, Goto
      <3>2. task'[h].pc = pc
        BY <1>1, <3>1 DEF Task
      <3>. QED  BY <3>1, <3>2, ZenonT(40)
    <2>. QED  BY <2>1, <2>2, <2>3, ZenonT(40)
  <1>3. task[h].part = p /\ Fence(h)
    <2>1. CASE MarkTerminal(h) \/ MarkTerminalLost(h)
      BY <1>1, <2>1 DEF MarkTerminal, MarkTerminalLost, Settled, Taken
    <2>2. CASE ReleaseAfterTerminal(h)
      BY <1>1, <2>2, ZenonT(40) DEF ReleaseAfterTerminal, Taken
    <2>3. CASE RequeueForRetry(h) \/ RequeueLost(h)
      BY <1>1, <2>3 DEF RequeueForRetry, RequeueLost, MayRetry, Taken
    <2>4. CASE ReleaseAfterRequeue(h)
      BY <1>1, <2>4 DEF ReleaseAfterRequeue, Taken
    <2>. QED  BY <2>1, <2>2, <2>3, <2>4
  <1>. QED  BY <1>1, <1>2, <1>3, SMTT(30) DEF Entitled

\* A row in progress under a live lease is not claimable.
LEMMA LiveClaim ==
    ASSUME Inv, NEW h \in Handlers, NEW p \in Partitions, Taken(p),
           Claim(h) \/ ClaimLost(h)
    PROVE  FALSE
  <1>1. row \in [Partitions -> Row] /\ task[h].part \in Partitions
    BY DEF Inv, TypeOK, TaskInv, Claim, ClaimLost
  <1>2. task[h].part = p /\ Claimable(row[p])
    BY <1>1 DEF Claim, ClaimLost, Taken
  <1>. QED  BY <1>2 DEF Taken, Claimable, Lapsed

\* Who changes a row under a live lease, action by action.
LEMMA LiveNext ==
    ASSUME Inv, Next, NEW p \in Partitions, Taken(p)
    PROVE  Entitled(p)
  <1>0. row \in [Partitions -> Row] /\ row[p] \in Row /\ row' # row
    BY DEF Inv, TypeOK, Taken
  <1>1. ASSUME NEW q \in Procs, ProcStep(q) PROVE Entitled(p)
    <2>1. CASE Start(q)
      <3>1. row[p].owner \in Procs /\ ReplicaOf[row[p].owner] = ReplicaOf[q]
        BY <1>0, <2>1 DEF Start, Taken
      <3>. QED  BY <2>1, <3>1 DEF Start, Entitled
    <2>2. CASE Bump(q)
      BY <1>0, <2>2 DEF Bump, Taken, Row
    <2>3. CASE Beat(q) \/ BeatMissed(q) \/ BumpForget(q) \/ Exit(q)
      BY <1>0, <2>3, ZenonT(40) DEF Beat, BeatMissed, BumpForget, Exit
    <2>. QED  BY <1>1, <2>1, <2>2, <2>3 DEF ProcStep
  <1>2. ASSUME NEW h \in Handlers, HandlerStep(h) \/ ConnectionLost(h)
        PROVE  Entitled(p)
    <2>1. CASE Ack(h) \/ Reject(h) \/ DrainReturns(h) \/ DrainRaises(h)
               \/ ConnectionLost(h)
      BY <1>0, <2>1, ZenonT(40)
         DEF Ack, Reject, DrainReturns, DrainRaises, ConnectionLost
    <2>. QED  BY <1>2, <2>1, LiveSettle, LiveClaim, ZenonT(40) DEF HandlerStep
  <1>3. ASSUME NEW h \in Handlers, NEW o \in Partitions, NEW b \in BOOLEAN,
               Deliver(h, o, b)
        PROVE  FALSE
    BY <1>0, <1>3 DEF Deliver
  <1>4. ASSUME NEW o \in Partitions, RowStep(o) PROVE FALSE
    <2>1. CASE Republish(o) \/ StaleRepublish(o)
      BY <1>0, <2>1, ZenonT(40) DEF Republish, StaleRepublish
    <2>2. CASE Lapse(o) \/ AgeStarted(o) \/ AgeEnqueued(o)
      BY <1>0, <2>2, SMTT(30) DEF Lapse, AgeStarted, AgeEnqueued, Taken, Row
    <2>. QED  BY <1>4, <2>1, <2>2 DEF RowStep
  <1>5. ASSUME NEW S \in SUBSET Partitions, Sweep(S) PROVE FALSE
    BY <1>5, LiveSwept, ZenonT(40) DEF Sweep, Taken
  <1>6. CASE StaleFail \/ StaleReset
    BY <1>6 DEF StaleFail, StaleReset, Stuck, Lapsed, Taken
  <1>7. CASE StaleCancelGuard
    BY <1>0, <1>7 DEF StaleCancelGuard, Taken, Entitled
  <1>8. CASE CancelJob
    BY <1>0, <1>8 DEF CancelJob
  <1>. QED  BY <1>1, <1>2, <1>3, <1>4, <1>5, <1>6, <1>7, <1>8, SMTT(30) DEF Next

\* Nothing is kept leased behind a dead handler's back: every registered row
\* of a live process has a handler of that process at work on it.
THEOREM RegistryKept == Spec => []RegistryTight
  <1>1. Init => RegInv
    BY DEF Init, NewProc, RegInv
  <1>2. Inv /\ RegInv /\ [Next]_vars => RegInv'
    BY RegNext, SMTT(30)
  <1>3. RegInv => RegistryTight
    BY ZenonT(40) DEF RegInv, RegistryTight
  <1>. QED  BY <1>1, <1>2, <1>3, Invariance, PTL DEF Spec

\* Neither sweeper, no other worker and no late writer takes a row away from a
\* live lease.
THEOREM LeaseRespected == Spec => LiveLeaseKept
  <1> DEFINE Kept == \A p \in Partitions :
          /\ row[p].status = "IN_PROGRESS" /\ row[p].lease = "live"
          /\ \/ row'[p].token # row[p].token
             \/ row'[p].status # row[p].status
          => \/ \E h \in Handlers : /\ Working(h) /\ task[h].part = p
                                    /\ Fence(h) /\ task'[h] # task[h]
             \/ ~Up(row[p].owner)
             \/ cancelled /\ p \in stale
  <1>1. Inv /\ [Next]_vars => [Kept]_vars
    BY LiveNext DEF Taken, Entitled
  <1>. QED  BY <1>1, Invariance, PTL DEF Spec, LiveLeaseKept

-----------------------------------------------------------------------------
(* LeasePromise: what a step does to the grants *)

\* Grants are taken away and none is given.
GrantsDrop == \A h \in Handlers : Granted(h)' \in {Granted(h), NoPartition}

\* A step after which every task at work was at work before.
LEMMA GrantsOnlyDrop ==
    ASSUME Inv, RowsOK, TasksOK, \A h \in Handlers : Working(h)' => Working(h)
    PROVE  GrantsDrop
  <1>1. ASSUME NEW h \in Handlers, Working(h)', Fence(h)'
        PROVE  Granted(h)' = Granted(h)
    <2>1. Working(h) /\ SameBinding(h) /\ Fence(h)
      BY <1>1, FenceBack
    <2>. QED  BY <1>1, <2>1 DEF Granted, SameBinding
  <1>. QED  BY <1>1, ZenonT(40) DEF GrantsDrop, Granted

\* The tasks that lose their grants.
LEMMA Dropped ==
    ASSUME GrantsDrop
    PROVE  \E H \in SUBSET Handlers : Promise!Drop(H)
  <1> DEFINE H == {h \in Handlers : Granted(h)' = NoPartition}
  <1>1. \A h \in Handlers :
           Grants'[h] = IF h \in H THEN NoPartition ELSE Grants[h]
    BY DEF GrantsDrop, Grants
  <1>2. Grants' = [h \in Handlers |-> IF h \in H THEN NoPartition ELSE Grants[h]]
    BY <1>1 DEF Grants
  <1>3. PICK K \in SUBSET Handlers : K = H
    BY ZenonT(40)
  <1>. QED  BY <1>2, <1>3 DEF Promise!Drop

\* A task keeps its grant when neither it nor the token or the owner of its row
\* changes.
LEMMA GrantKept ==
    ASSUME NEW h \in Handlers, task'[h] = task[h],
           Working(h) => /\ row'[task[h].part].token = row[task[h].part].token
                         /\ row'[task[h].part].owner = row[task[h].part].owner
    PROVE  Granted(h)' = Granted(h)
  BY DEF Granted, Working, Fence

\* Only a claim that is answered puts a task to work.
LEMMA StartsWork ==
    ASSUME Inv, Next, NEW h \in Handlers, Working(h)', ~Working(h)
    PROVE  Claim(h) /\ Claimable(row[task[h].part])
  <1>1. task \in [Handlers -> Task] /\ task' # task
    BY DEF Inv, TypeOK, Working
  <1>2. ASSUME NEW q \in Procs, ProcStep(q) PROVE FALSE
    <2>1. CASE Exit(q)
      BY <2>1 DEF Exit, Idle, Working
    <2>. QED  BY <1>1, <1>2, <2>1, ZenonT(40)
              DEF ProcStep, Start, Beat, BeatMissed, Bump, BumpForget
  <1>3. ASSUME NEW g \in Handlers, HandlerStep(g) \/ ConnectionLost(g)
        PROVE  Claim(h) /\ Claimable(row[task[h].part])
    <2>1. CASE Ack(g) \/ Reject(g)
      <3>1. task' = [task EXCEPT ![g] = Idle] /\ Idle.pc = "idle"
        BY <2>1, ZenonT(40) DEF Ack, Reject, Goto, Idle
      <3>. QED  BY <1>1, <3>1 DEF Working
    <2>2. CASE ConnectionLost(g)
      BY <1>1, <2>2 DEF ConnectionLost, Goto, Task, Working
    <2>3. CASE ClaimLost(g)
      BY <1>1, <2>3 DEF ClaimLost, Goto, Task, Working
    <2>4. CASE Claim(g)
      <3>1. CASE Claimable(row[task[g].part])
        BY <1>1, <2>4, <3>1, ZenonT(40) DEF Claim, Goto, Working
      <3>2. CASE ~Claimable(row[task[g].part])
        BY <1>1, <2>4, <3>2 DEF Claim, Goto, Task, Working
      <3>. QED  BY <3>1, <3>2
    <2>5. ASSUME Working(g), \A f \in Handlers \ {g} : task'[f] = task[f]
          PROVE  FALSE
      BY <2>5 DEF Working
    <2>6. CASE \/ DrainReturns(g) \/ DrainRaises(g) \/ MarkTerminal(g)
               \/ MarkTerminalLost(g) \/ ReleaseAfterTerminal(g)
               \/ RequeueForRetry(g) \/ RequeueLost(g) \/ ReleaseAfterRequeue(g)
      <3>1. Working(g)
        BY <2>6, ZenonT(40) DEF Working, DrainReturns, DrainRaises, MarkTerminal,
           MarkTerminalLost, ReleaseAfterTerminal, RequeueForRetry,
           RequeueLost, ReleaseAfterRequeue
      <3>2. \E t : task' = [task EXCEPT ![g] = t]
        BY <2>6, ZenonT(40) DEF Goto, DrainReturns, DrainRaises, MarkTerminal,
           MarkTerminalLost, ReleaseAfterTerminal, RequeueForRetry,
           RequeueLost, ReleaseAfterRequeue
      <3>. QED  BY <1>1, <2>5, <3>1, <3>2
    <2>. QED  BY <1>3, <2>1, <2>2, <2>3, <2>4, <2>6, ZenonT(40) DEF HandlerStep
  <1>4. ASSUME NEW g \in Handlers, NEW p \in Partitions, NEW b \in BOOLEAN,
               Deliver(g, p, b)
        PROVE  FALSE
    BY <1>1, <1>4 DEF Deliver, Goto, Idle, Working
  <1>5. ASSUME NEW p \in Partitions, RowStep(p) PROVE FALSE
    BY <1>1, <1>5, ZenonT(40)
       DEF RowStep, Republish, StaleRepublish, Lapse, AgeStarted, AgeEnqueued
  <1>6. ASSUME NEW S \in SUBSET Partitions, Sweep(S) PROVE FALSE
    BY <1>1, <1>6, ZenonT(40) DEF Sweep
  <1>7. CASE StaleFail \/ StaleReset \/ StaleCancelGuard \/ CancelJob
    BY <1>1, <1>7 DEF StaleFail, StaleReset, StaleCancelGuard, CancelJob
  <1>. QED  BY <1>2, <1>3, <1>4, <1>5, <1>6, <1>7, ZenonT(40) DEF Next

\* The answered claim, in the terms of the promise.
LEMMA ClaimClaims ==
    ASSUME Inv, NEW h \in Handlers, Claim(h), Claimable(row[task[h].part])
    PROVE  Promise!Next
  <1> DEFINE p == task[h].part
             new == ClaimedBy(row[p], ProcOf[h])
  <1>1. /\ task \in [Handlers -> Task] /\ row \in [Partitions -> Row]
        /\ p \in Partitions /\ ProcOf[h] \in Procs /\ task[h].pc = "claim"
    BY ConstantsAssumption DEF Inv, TypeOK, TaskInv, Claim
  <1>2. /\ row' = [row EXCEPT ![p] = new] /\ cancelled' = cancelled
        /\ task' = [task EXCEPT ![h] = [task[h] EXCEPT
                      !.pc = "drain", !.own = new.owner, !.tok = new.token]]
    BY ZenonT(40) DEF Claim, Goto, sweepVars
  <1>3. new.token = row[p].token + 1 /\ new.status = "IN_PROGRESS"
    <2>1. new.token = row[p].token + 1
      BY <1>1, LaterClaimed, ZenonT(40)
    <2>2. new.status = "IN_PROGRESS"
      BY <1>1 DEF ClaimedBy, Row
    <2>. QED  BY <2>1, <2>2
  <1>4. /\ row'[p] = new /\ task'[h].pc = "drain" /\ task'[h].part = p
        /\ task'[h].own = new.owner /\ task'[h].tok = new.token
        /\ \A o \in Partitions \ {p} : row'[o] = row[o]
        /\ \A g \in Handlers \ {h} : task'[g] = task[g]
    <2>. HIDE DEF new
    <2>. QED  BY <1>1, <1>2 DEF Task
  <1>. HIDE DEF new
  <1>5. Fates' = Fates /\ Fates[p] = "OPEN" /\ p \notin Leased
    BY <1>1, <1>3, <1>4, ZenonT(40) DEF Fates, Fate, Terminal, Done, Claimable, Leased, Lapsed
  <1>6. Grants[h] = NoPartition /\ Grants'[h] = p
    BY <1>1, <1>4, ZenonT(40) DEF Grants, Granted, Working, Fence
  <1>7. ASSUME NEW g \in Handlers \ {h}
        PROVE  Grants'[g] = IF Grants[g] = p THEN NoPartition ELSE Grants[g]
    <2>1. CASE ~Working(g)
      BY <1>4, <2>1, ZenonT(40) DEF Grants, Granted, Working
    <2>2. CASE Working(g) /\ task[g].part # p
      <3>1. Granted(g)' = Granted(g)
        BY <1>1, <1>4, <2>2, GrantKept, WorkingRow, ZenonT(40)
      <3>. QED  BY <2>2, <3>1, ConstantsAssumption, <1>1, ZenonT(40) DEF Grants, Granted
    <2>3. CASE Working(g) /\ task[g].part = p
      <3>1. task[g].tok <= row[p].token
        BY <2>3, ZenonT(40) DEF Inv, TokenInv
      <3>2. task[g].tok \in Nat /\ row[p].token \in Nat
        BY <1>1 DEF Task, Row
      <3>3. ~Fence(g)'
        <4>1. task'[g] = task[g] /\ row'[p].token = row[p].token + 1
          BY <1>3, <1>4, ZenonT(40)
        <4>2. row'[p].token # task[g].tok
          BY <3>1, <3>2, <4>1
        <4>. QED  BY <2>3, <4>1, <4>2, ZenonT(40) DEF Fence
      <3>. QED  BY <2>3, <3>3, ConstantsAssumption, <1>1, ZenonT(40) DEF Grants, Granted
    <2>. QED  BY <2>1, <2>2, <2>3
  <1>8. Grants' = [g \in Handlers |-> IF g = h THEN p
                     ELSE IF Grants[g] = p THEN NoPartition ELSE Grants[g]]
    BY <1>6, <1>7 DEF Grants
  <1>9. Leased' \in SUBSET Partitions
    BY DEF Leased
  <1>10. Promise!Claim(h, p)
    BY <1>2, <1>5, <1>6, <1>8, <1>9 DEF Promise!Claim, Promise!LeasesMove
  <1>. QED  BY <1>1, <1>10 DEF Promise!Next

-----------------------------------------------------------------------------
(* LeasePromise: what a step does to the verdicts *)

\* A row whose status stays, or stays open, keeps its fate.
LEMMA SameFates ==
    ASSUME \A p \in Partitions : \/ row'[p].status = row[p].status
                                 \/ ~Terminal(row[p]) /\ ~Terminal(row'[p])
    PROVE  Fates' = Fates
  BY DEF Fates, Fate, Terminal

\* A settlement that is not the verdict leaves every fate as it is.
LEMMA HandBackFates ==
    ASSUME Inv, NEW h \in Handlers,
           \/ ReleaseAfterTerminal(h) \/ RequeueForRetry(h) \/ RequeueLost(h)
           \/ ReleaseAfterRequeue(h)
    PROVE  Fates' = Fates
  <1> DEFINE p == task[h].part
  <1>1. Working(h)
    BY ZenonT(40) DEF Working, ReleaseAfterTerminal, RequeueForRetry, RequeueLost,
           ReleaseAfterRequeue
  <1>2. row \in [Partitions -> Row] /\ p \in Partitions
    BY <1>1, WorkingRow, ZenonT(40) DEF Inv, TypeOK
  <1>3. \E x : /\ x.status = row[p].status \/ (~Terminal(row[p]) /\ x.status = "QUEUED")
               /\ row' = [row EXCEPT ![p] = x] \/ row' = row
    <2>1. CASE ReleaseAfterTerminal(h)
      <3> DEFINE x == IF ~Terminal(row[p]) /\ Fence(h) THEN Released(row[p]) ELSE row[p]
      <3>1. x.status = row[p].status \/ (~Terminal(row[p]) /\ x.status = "QUEUED")
        BY <1>2 DEF Released, Row
      <3>2. row' = [row EXCEPT ![p] = x] \/ row' = row
        BY <2>1, ZenonT(40) DEF ReleaseAfterTerminal
      <3>. QED  BY <3>1, <3>2, ZenonT(40)
    <2>2. CASE RequeueForRetry(h) \/ RequeueLost(h)
      <3> DEFINE x == IF MayRetry(h) THEN Retried(row[p]) ELSE row[p]
      <3>1. x.status = row[p].status \/ (~Terminal(row[p]) /\ x.status = "QUEUED")
        BY <1>2 DEF MayRetry, Retried, Requeued, Released, Row, Terminal, Done
      <3>2. row' = [row EXCEPT ![p] = x] \/ row' = row
        BY <2>2 DEF RequeueForRetry, RequeueLost
      <3>. QED  BY <3>1, <3>2, ZenonT(40)
    <2>3. CASE ReleaseAfterRequeue(h)
      <3> DEFINE ours == /\ ~Terminal(row[p]) /\ row[p].retry < MaxRetries
                         /\ Fence(h)
                 x == IF ours THEN ReleasedRetry(row[p]) ELSE row[p]
      <3>1. x.status = row[p].status \/ (~Terminal(row[p]) /\ x.status = "QUEUED")
        BY <1>2 DEF ReleasedRetry, Released, Row
      <3>2. row' = [row EXCEPT ![p] = x] \/ row' = row
        BY <2>3 DEF ReleaseAfterRequeue
      <3>. QED  BY <3>1, <3>2, ZenonT(40)
    <2>. QED  BY <2>1, <2>2, <2>3
  <1>. QED  BY <1>2, <1>3, SameFates DEF Terminal, Done

\* The verdict of a handler: written by the holder of the grant on an open
\* shard, or not at all; either way no other task loses its grant.
LEMMA VerdictFinishes ==
    ASSUME Inv, NEW h \in Handlers, MarkTerminal(h) \/ MarkTerminalLost(h)
    PROVE  Fates' = Fates \/ Promise!Next
  <1> DEFINE p == task[h].part
             v == task[h].goal
  <1>1. /\ task \in [Handlers -> Task] /\ row \in [Partitions -> Row]
        /\ p \in Partitions /\ Working(h)
    <2>1. Working(h)
      BY DEF Working, MarkTerminal, MarkTerminalLost
    <2>. QED  BY <2>1, WorkingRow DEF Inv, TypeOK
  <1>2. cancelled' = cancelled
    BY DEF MarkTerminal, MarkTerminalLost, sweepVars
  <1>3. row' = row \/ row' = [row EXCEPT ![p] = Settled(row[p], h)]
    BY DEF MarkTerminal, MarkTerminalLost
  <1>4. CASE row' = row \/ Settled(row[p], h) = row[p]
    BY <1>1, <1>3, <1>4, SameFates
  <1>5. CASE row' # row /\ Settled(row[p], h) # row[p]
    <2>1. ~Terminal(row[p]) /\ Fence(h) /\ row'[p] = [row[p] EXCEPT !.status = v]
      BY <1>1, <1>3, <1>5 DEF Settled
    <2>2. /\ v \in Done /\ row'[p].status = v
          /\ row'[p].token = row[p].token /\ row'[p].owner = row[p].owner
          /\ \A o \in Partitions \ {p} : row'[o] = row[o]
      BY <1>1, <1>3, <1>5, <2>1 DEF Row, Task
    <2>3. Grants[h] = p /\ Fates[p] = "OPEN"
      BY <1>1, <2>1 DEF Grants, Granted, Fates, Fate
    <2>4. Fates' = [Fates EXCEPT ![p] = v]
      <3>1. \A o \in Partitions : Fate(o)' = IF o = p THEN v ELSE Fate(o)
        BY <2>2 DEF Fate, Terminal
      <3>. QED  BY <3>1, ZenonT(40) DEF Fates
    <2>5. \E t : task' = [task EXCEPT ![h] = t]
      BY ZenonT(40) DEF MarkTerminal, MarkTerminalLost, Goto
    <2>6. ASSUME NEW g \in Handlers \ {h} PROVE Granted(g)' = Granted(g)
      <3>1. task'[g] = task[g]
        BY <1>1, <2>5
      <3>. QED  BY <2>2, <3>1, GrantKept, WorkingRow, ZenonT(40)
    <2>7. Granted(h)' \in {Granted(h), NoPartition}
      <3>1. RowsOK /\ TasksOK
        BY RowsSettle, TasksSettle
      <3>. QED  BY <1>1, <3>1, FenceBack, ZenonT(40) DEF Granted, SameBinding
    <2>8. Grants' = Grants \/ Promise!Drop({h})
      BY <2>6, <2>7 DEF Grants, Promise!Drop
    <2>9. Leased' \in SUBSET Partitions
      BY DEF Leased
    <2>10. Promise!Finish(h, v)
      BY <1>1, <1>2, <2>3, <2>4, <2>8, <2>9, ZenonT(40)
         DEF Promise!Finish, Promise!LeasesMove
    <2>. QED  BY <2>2, <2>10, ZenonT(40) DEF Promise!Next, Done
  <1>. QED  BY <1>4, <1>5

\* What one tick of STEP A makes of a row: its status, QUEUED or FAILED.
LEMMA SweptStatus ==
    ASSUME TypeOK, NEW p \in Partitions, NEW S
    PROVE  LET x == ExpireStep(PoisonStep(Swept(p, S)))
           IN  /\ Terminal(row[p]) => x.status = row[p].status
               /\ ~Terminal(row[p]) => x.status # "COMPLETED"
  <1> DEFINE open == {"QUEUED", "IN_PROGRESS"}
  <1>1. row[p] \in Row /\ Later(row[p], ExpireStep(PoisonStep(Swept(p, S))), FALSE)
    BY LaterSwept, ZenonT(40) DEF TypeOK
  <1>2. ASSUME NEW r \in Row
        PROVE  /\ RequeueStep(r).status \in {r.status, "QUEUED"}
               /\ RepublishStep(r).status = r.status
               /\ ReplayStep(r).status \in {r.status, "QUEUED"}
               /\ PoisonStep(r).status \in {r.status, "FAILED"}
               /\ ExpireStep(r).status \in {r.status, "FAILED"}
    BY DEF RequeueStep, RepublishStep, ReplayStep, PoisonStep, ExpireStep,
           Requeued, Released, GivenUp, Row
  <1> DEFINE r1 == RequeueStep(row[p])
             r2 == IF p \in S THEN RepublishStep(r1) ELSE row[p]
             r3 == Swept(p, S)
             r4 == PoisonStep(r3)
  <1>3. r1 \in Row /\ r2 \in Row /\ r3 \in Row /\ r4 \in Row
    BY <1>1, LaterRequeueStep, LaterRepublishStep, LaterPoisonStep, LaterSwept, ZenonT(40)
       DEF Later
  <1>4. r3 = ReplayStep(r2)
    BY DEF Swept
  <1>5. ExpireStep(r4).status \in {row[p].status, "QUEUED", "FAILED"}
    <2>1. r1.status \in {row[p].status, "QUEUED"} /\ r2.status \in {row[p].status, "QUEUED"}
      BY <1>1, <1>2, <1>3, ZenonT(40)
    <2>2. r3.status \in {row[p].status, "QUEUED"}
      <3>1. ReplayStep(r2).status \in {r2.status, "QUEUED"}
        BY <1>2, <1>3, ZenonT(40)
      <3>. QED  BY <1>4, <2>1, <3>1, ZenonT(40)
    <2>3. r4.status \in {row[p].status, "QUEUED", "FAILED"}
      BY <1>2, <1>3, <2>2
    <2>. QED  BY <1>2, <1>3, <2>3
  <1>. QED  BY <1>1, <1>5, ZenonT(40) DEF Later, Terminal, Done

\* The sweeps give up open shards that are not leased.
LEMMA SweepGivesUp ==
    ASSUME Inv, GrantsDrop, StaleFail \/ \E S \in SUBSET Partitions : Sweep(S)
    PROVE  Promise!Next
  <1>1. row \in [Partitions -> Row] /\ TypeOK
    BY DEF Inv, TypeOK
  <1>2. cancelled' = cancelled
    BY DEF StaleFail, Sweep, sweepVars
  <1>3. ASSUME NEW p \in Partitions
        PROVE  /\ Terminal(row[p]) => row'[p].status = row[p].status
               /\ ~Terminal(row[p]) => row'[p].status # "COMPLETED"
               /\ p \in Leased => row'[p].status = row[p].status
    <2>1. CASE StaleFail
      BY <1>1, <2>1 DEF StaleFail, Stuck, Lapsed, Leased, Terminal, Done, Row
    <2>2. CASE \E S \in SUBSET Partitions : Sweep(S)
      <3>1. PICK S \in SUBSET Partitions : Sweep(S)
        BY <2>2
      <3>2. row'[p] = ExpireStep(PoisonStep(Swept(p, S)))
        BY <3>1, ZenonT(40) DEF Sweep
      <3>. QED  BY <1>1, <3>2, SweptStatus, LiveSwept DEF Leased
    <2>. QED  BY <2>1, <2>2
  <1>4. PICK S \in SUBSET Partitions :
           S = {p \in Partitions : ~Terminal(row[p]) /\ row'[p].status = "FAILED"}
    BY ZenonT(40)
  <1>5. \A p \in S : Fates[p] = "OPEN" /\ p \notin Leased
    BY <1>3, <1>4, ZenonT(40) DEF Fates, Fate, Terminal, Done, Leased
  <1>6. Promise!Fail(S)
    <2>1. \A p \in Partitions : Fate(p)' = IF p \in S THEN "FAILED" ELSE Fate(p)
      BY <1>3, <1>4 DEF Fate, Terminal, Done
    <2>. QED  BY <2>1 DEF Fates, Promise!Fail
  <1>7. Leased' \in SUBSET Partitions
    BY DEF Leased
  <1>8. Promise!GiveUp(S)
    BY <1>2, <1>5, <1>6, <1>7, Dropped DEF Promise!GiveUp, Promise!LeasesMove
  <1>. QED  BY <1>4, <1>8, ZenonT(40) DEF Promise!Next

\* The cancel-guard overrules the verdicts of the rows the sweep had reset.
LEMMA GuardOverrules ==
    ASSUME Inv, StaleCancelGuard
    PROVE  Fates' = Fates \/ Promise!Next
  <1>1. row \in [Partitions -> Row] /\ cancelled' = cancelled /\ task' = task
        /\ stale \in SUBSET Partitions
    BY DEF Inv, TypeOK, StaleCancelGuard
  <1>2. CASE row' = row
    BY <1>2, SameFates
  <1>3. CASE row' # row
    <2>1. cancelled /\ \A p \in Partitions :
             row'[p] = IF p \in stale THEN [row[p] EXCEPT !.status = "FAILED"]
                       ELSE row[p]
      BY <1>3 DEF StaleCancelGuard
    <2>2. \A p \in Partitions :
             /\ row'[p].token = row[p].token /\ row'[p].owner = row[p].owner
             /\ row'[p].status = IF p \in stale THEN "FAILED" ELSE row[p].status
      BY <1>1, <2>1, ZenonT(40) DEF Row
    <2>3. Grants' = Grants
      <3>1. \A h \in Handlers : Granted(h)' = Granted(h)
        BY <1>1, <2>2, GrantKept, WorkingRow
      <3>. QED  BY <3>1 DEF Grants
    <2>4. Promise!Fail(stale)
      <3>1. \A p \in Partitions : Fate(p)' = IF p \in stale THEN "FAILED" ELSE Fate(p)
        BY <2>2 DEF Fate, Terminal, Done
      <3>. QED  BY <3>1 DEF Fates, Promise!Fail
    <2>5. Leased' \in SUBSET Partitions
      BY DEF Leased
    <2>6. Promise!Overrule(stale)
      BY <1>1, <2>1, <2>3, <2>4, <2>5 DEF Promise!Overrule, Promise!LeasesMove
    <2>. QED  BY <1>1, <2>6 DEF Promise!Next
  <1>. QED  BY <1>2, <1>3

\* The other steps leave every fate as it is.
LEMMA QuietFates ==
    ASSUME Inv,
           \/ \E q \in Procs : ProcStep(q)
           \/ \E h \in Handlers :
                 \/ Ack(h) \/ Reject(h) \/ ConnectionLost(h) \/ Claim(h)
                 \/ ClaimLost(h) \/ DrainReturns(h) \/ DrainRaises(h)
                 \/ \E p \in Partitions, b \in BOOLEAN : Deliver(h, p, b)
           \/ \E p \in Partitions : RowStep(p)
           \/ StaleReset \/ CancelJob
    PROVE  Fates' = Fates
  <1>1. row \in [Partitions -> Row]
    BY DEF Inv, TypeOK
  <1>2. ASSUME row' = row PROVE Fates' = Fates
    BY <1>2, SameFates
  <1>3. ASSUME NEW q \in Procs, ProcStep(q) PROVE Fates' = Fates
    <2>1. CASE Start(q)
      <3>1. \A p \in Partitions : row'[p] = row[p] \/ row'[p] = Reclaimed(row[p])
        BY <2>1, ZenonT(40) DEF Start
      <3>2. \A r \in Row : Reclaimed(r).status = r.status
        BY DEF Reclaimed, Row
      <3>3. \A p \in Partitions : row'[p].status = row[p].status
        BY <1>1, <3>1, <3>2
      <3>. QED  BY <3>3, SameFates, ZenonT(40)
    <2>2. CASE Bump(q)
      <3>1. \A p \in Partitions : row'[p] \in {row[p], [row[p] EXCEPT !.lease = "live"]}
        BY <2>2, ZenonT(40) DEF Bump
      <3>. QED  BY <1>1, <3>1, SameFates DEF Row
    <2>3. CASE Beat(q) \/ BeatMissed(q) \/ BumpForget(q) \/ Exit(q)
      BY <1>2, <2>3, ZenonT(40) DEF Beat, BeatMissed, BumpForget, Exit
    <2>. QED  BY <1>3, <2>1, <2>2, <2>3, ZenonT(40) DEF ProcStep
  <1>4. ASSUME NEW h \in Handlers, Claim(h) \/ ClaimLost(h) PROVE Fates' = Fates
    <2> DEFINE p == task[h].part
               new == ClaimedBy(row[p], ProcOf[h])
    <2>1. p \in Partitions
      BY <1>4, ZenonT(40) DEF Inv, TaskInv, Claim, ClaimLost
    <2>2. \/ row' = row
          \/ Claimable(row[p]) /\ row' = [row EXCEPT ![p] = new]
      BY <1>4, ZenonT(40) DEF Claim, ClaimLost
    <2>3. new.status = "IN_PROGRESS"
      BY <1>1, <2>1 DEF ClaimedBy, Row
    <2>. HIDE DEF new
    <2>. QED  BY <1>1, <2>1, <2>2, <2>3, SameFates DEF Claimable, Terminal, Done
  <1>5. ASSUME NEW h \in Handlers,
               \/ Ack(h) \/ Reject(h) \/ ConnectionLost(h) \/ DrainReturns(h)
               \/ DrainRaises(h) \/ \E p \in Partitions, b \in BOOLEAN : Deliver(h, p, b)
        PROVE  Fates' = Fates
    BY <1>2, <1>5, ZenonT(40) DEF Ack, Reject, ConnectionLost, DrainReturns, DrainRaises,
                          Deliver
  <1>6. ASSUME NEW p \in Partitions, RowStep(p) PROVE Fates' = Fates
    <2>1. CASE Republish(p) \/ StaleRepublish(p)
      BY <1>2, <2>1, ZenonT(40) DEF Republish, StaleRepublish
    <2>2. CASE Lapse(p) \/ AgeStarted(p) \/ AgeEnqueued(p)
      <3>1. \A o \in Partitions : row'[o].status = row[o].status
        BY <1>1, <2>2, SMTT(30) DEF Lapse, AgeStarted, AgeEnqueued, Row
      <3>. QED  BY <3>1, SameFates, ZenonT(40)
    <2>. QED  BY <1>6, <2>1, <2>2 DEF RowStep
  <1>7. CASE StaleReset
    <2>1. ASSUME NEW p \in Partitions
          PROVE  \/ row'[p].status = row[p].status
                 \/ ~Terminal(row[p]) /\ ~Terminal(row'[p])
      <3>1. CASE row'[p] = row[p]
        BY <3>1, ZenonT(40)
      <3>2. CASE row'[p] # row[p]
        <4>1. Stuck(row[p]) /\ row'[p] = StaleResetRow(row[p])
          BY <1>7, <3>2, ZenonT(40) DEF StaleReset
        <4>. QED  BY <1>1, <4>1 DEF Stuck, StaleResetRow, Terminal, Done, Row
      <3>. QED  BY <3>1, <3>2, ZenonT(40)
    <2>. QED  BY <2>1, SameFates, ZenonT(40)
  <1>8. CASE CancelJob
    BY <1>2, <1>8 DEF CancelJob
  <1>. QED  BY <1>3, <1>4, <1>5, <1>6, <1>7, <1>8

-----------------------------------------------------------------------------
(* LeasePromise: every step *)

\* cancelled changes only when the job is cancelled.
LEMMA SameCancelled ==
    ASSUME Next, ~CancelJob
    PROVE  cancelled' = cancelled
  <1>1. ASSUME NEW q \in Procs, ProcStep(q) PROVE cancelled' = cancelled
    BY <1>1, ZenonT(40) DEF ProcStep, Start, Beat, BeatMissed, Bump, BumpForget, Exit, sweepVars
  <1>2. ASSUME NEW h \in Handlers, HandlerStep(h) \/ ConnectionLost(h)
        PROVE  cancelled' = cancelled
    BY <1>2, ZenonT(40) DEF HandlerStep, ConnectionLost, Ack, Reject, Claim, ClaimLost,
       DrainReturns, DrainRaises, MarkTerminal, MarkTerminalLost,
       ReleaseAfterTerminal, RequeueForRetry, RequeueLost, ReleaseAfterRequeue,
       sweepVars
  <1>3. ASSUME NEW p \in Partitions, RowStep(p) PROVE cancelled' = cancelled
    BY <1>3, ZenonT(40) DEF RowStep, Republish, StaleRepublish, Lapse, AgeStarted,
                       AgeEnqueued, sweepVars
  <1>4. ASSUME NEW h \in Handlers, NEW p \in Partitions, NEW b \in BOOLEAN,
               Deliver(h, p, b)
        PROVE  cancelled' = cancelled
    BY <1>4 DEF Deliver, sweepVars
  <1>5. ASSUME NEW S \in SUBSET Partitions, Sweep(S) PROVE cancelled' = cancelled
    BY <1>5, ZenonT(40) DEF Sweep
  <1>6. CASE StaleFail \/ StaleReset \/ StaleCancelGuard
    BY <1>6 DEF StaleFail, StaleReset, StaleCancelGuard, sweepVars
  <1>. QED  BY <1>1, <1>2, <1>3, <1>4, <1>5, <1>6 DEF Next

\* Each step writes no verdict or is a step of the promise.
LEMMA FatesNext ==
    ASSUME Inv, Next, GrantsDrop
    PROVE  Fates' = Fates \/ Promise!Next
  <1>1. ASSUME NEW h \in Handlers, HandlerStep(h) \/ ConnectionLost(h)
        PROVE  Fates' = Fates \/ Promise!Next
    BY <1>1, VerdictFinishes, HandBackFates, QuietFates, ZenonT(40) DEF HandlerStep
  <1>2. CASE \/ \E q \in Procs : ProcStep(q)
             \/ \E h \in Handlers, p \in Partitions, b \in BOOLEAN : Deliver(h, p, b)
             \/ \E p \in Partitions : RowStep(p)
             \/ StaleReset \/ CancelJob
    BY <1>2, QuietFates, ZenonT(40)
  <1>. QED  BY <1>1, <1>2, SweepGivesUp, GuardOverrules, ZenonT(40) DEF Next

\* Every step of the system is a step of the promise, or none of its business.
LEMMA PromiseStep ==
    ASSUME Inv, Next
    PROVE  Promise!Next \/ UNCHANGED Promise!vars
  <1>1. CASE \E h \in Handlers : Claim(h) /\ Claimable(row[task[h].part])
    BY <1>1, ClaimClaims
  <1>2. CASE ~\E h \in Handlers : Claim(h) /\ Claimable(row[task[h].part])
    <2>1. GrantsDrop
      BY <1>2, StartsWork, GrantsOnlyDrop, RowsNext, TasksNext, ZenonT(40)
    <2>2. Leased' \in SUBSET Partitions
      BY DEF Leased
    <2>3. CASE Fates' = Fates /\ ~CancelJob
      <3>1. PICK H \in SUBSET Handlers : Promise!Drop(H)
        BY <2>1, Dropped
      <3>2. Promise!Revoke(H)
        BY <2>2, <2>3, <3>1, SameCancelled DEF Promise!Revoke, Promise!LeasesMove
      <3>. QED  BY <3>2 DEF Promise!Next
    <2>4. CASE CancelJob
      <3>1. row' = row /\ task' = task /\ ~cancelled /\ cancelled' = TRUE
        BY <2>4 DEF CancelJob
      <3>2. Fates' = Fates /\ Grants' = Grants /\ Leased' = Leased
        BY <3>1, ZenonT(40) DEF Fates, Fate, Grants, Granted, Leased, Working, Fence
      <3>3. Promise!Cancel
        BY <3>1, <3>2 DEF Promise!Cancel
      <3>. QED  BY <3>3 DEF Promise!Next
    <2>. QED  BY <2>1, <2>3, <2>4, FatesNext
  <1>. QED  BY <1>1, <1>2

\* The tokens, owners, heartbeats and sweeps implement the promise of the
\* leases: a verdict COMPLETED comes from the task that holds the shard, a lost
\* grant returns only by a new claim, and no leased shard is claimed or given up.
THEOREM ImplementsPromise == Spec => KeepsPromise
  <1>1. Init => Promise!Init
    <2>. SUFFICES ASSUME Init PROVE Promise!Init
      OBVIOUS
    <2>1. Fates = [p \in Partitions |-> "OPEN"]
      BY ZenonT(40) DEF Init, NewRow, Fates, Fate, Terminal, Done
    <2>2. Grants = [h \in Handlers |-> NoPartition]
      BY DEF Init, Idle, Grants, Granted, Working
    <2>3. Leased = {} /\ cancelled = FALSE
      BY ZenonT(40) DEF Init, NewRow, Leased
    <2>. QED  BY <2>1, <2>2, <2>3 DEF Promise!Init
  <1>2. Inv /\ [Next]_vars => [Promise!Next]_(Promise!vars)
    <2>1. ASSUME UNCHANGED vars PROVE UNCHANGED Promise!vars
      BY <2>1, ZenonT(40) DEF vars, sweepVars, Promise!vars, Fates, Fate, Grants, Granted, Leased,
                         Working, Fence
    <2>. QED  BY <2>1, PromiseStep
  <1>. QED  BY <1>1, <1>2, Invariance, PTL DEF Spec, KeepsPromise, Promise!Spec
=============================================================================
