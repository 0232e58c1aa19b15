--------------------------- MODULE PartitionLease ---------------------------
(***************************************************************************)
(* The life of the rows of snapshot_partitions (the shards of a            *)
(* partitioned snapshot): how a backup-worker handler claims a row, writes  *)
(* it terminal, hands it back, keeps its lease alive or loses it, and how   *)
(* the two sweepers of the backup-scheduler (the reconciler's STEP A and    *)
(* the partition stale-sweep) recover rows whose worker died.               *)
(*                                                                         *)
(* Time is abstracted to the comparisons the code makes: a lease is null,   *)
(* live or expired; started_at and enqueued_at are null, recent or old      *)
(* (older than the horizon that applies to the row).  They age at any       *)
(* moment.  One step is one database transaction, or one synchronous        *)
(* stretch of a handler between two awaits.                                 *)
(*                                                                         *)
(* The guards on durable copy and provider work (pending_copy_sql) are     *)
(* TRUE here: these rows carry no such work.                               *)
(***************************************************************************)
EXTENDS Integers, FiniteSets

CONSTANTS
    Partitions,      \* rows of snapshot_partitions
    Routable,        \* those whose type the stale-sweep can republish
    Procs,           \* worker processes: one heartbeat worker_uuid each
    ReplicaOf,       \* Procs -> replica_id of the container it runs in
    Handlers,        \* delivery tasks (asyncio.create_task(_handle_one))
    ProcOf,          \* Handlers -> the process the task runs in
    NoOwner,         \* SQL NULL in lease_owner_id
    NoPartition,     \* an idle task's partition
    MaxRequeue,      \* RECONCILER_MAX_REQUEUE
    MaxReplay,       \* RECONCILER_DLQ_REPLAY_MAX
    MaxUnclaimed,    \* RECONCILER_PART_UNCLAIMED_MAX_REPUBLISH
    MaxRetries,      \* PARTITION_MAX_RETRIES
    NoHeartbeat,     \* may a worker run without a heartbeat?
    SweeperFails,    \* may a sweeper fail after its commit, or a publish of it?
    MaxConnLoss,     \* bound: broker connections lost under a running task
    MaxClaimLoss,    \* bound: claims lost to a database outage
    MaxOutage        \* bound: settlement writes lost to a database outage

ASSUME ConstantsAssumption ==
    /\ Routable \subseteq Partitions
    /\ ProcOf \in [Handlers -> Procs] /\ IsFiniteSet(Handlers)
    /\ NoOwner \notin Procs
    /\ NoPartition \notin Partitions
    /\ MaxRequeue \in Nat \ {0} /\ MaxReplay \in Nat
    /\ MaxUnclaimed \in Nat /\ MaxRetries \in Nat
    /\ NoHeartbeat \in BOOLEAN /\ SweeperFails \in BOOLEAN
    /\ MaxConnLoss \in Nat /\ MaxClaimLoss \in Nat /\ MaxOutage \in Nat

VARIABLES
    row,         \* the snapshot_partitions rows
    msgs,        \* queued messages per <<partition, redelivered flag>>
    proc,        \* worker processes: liveness, heartbeat row, lease registry
    task,        \* handler tasks
    payloads,    \* the reconciler's requeue_payloads still to be published
    stale,       \* rows the stale-sweep reset, cancel-guard still to come
    resend,      \* rows the stale-sweep has still to republish
    cancelled,   \* the parent job is CANCELLING or CANCELLED
    dead,        \* work_dead_letter: <<partition, reason>>
    claimed,     \* history: partitions some worker has claimed
    lost         \* bounds: connections, claims and writes lost so far

sweepVars == <<payloads, stale, resend, cancelled, dead>>
vars == <<row, msgs, proc, task, sweepVars, claimed, lost>>

-----------------------------------------------------------------------------
(* Types *)

Status == {"QUEUED", "IN_PROGRESS", "COMPLETED", "FAILED"}
Done   == {"COMPLETED", "FAILED"}

Row == [status  : Status,
        owner   : Procs \cup {NoOwner},          \* lease_owner_id
        lease   : {"null", "live", "expired"},   \* lease_expires_at
        token   : Nat,                           \* lease_token
        started : {"null", "recent", "old"},     \* started_at and worker_id
        enq     : {"recent", "old"},             \* enqueued_at
        retry   : Nat,                           \* retry_count
        requeue : Nat,                           \* requeue_count
        replays : Nat,            \* failure_state.dlq_replay_count
        unclaimed : Nat]          \* failure_state.unclaimed_republish_count

Proc == [st     : {"off", "up", "dead"},
         beats  : BOOLEAN,              \* heartbeat initialised
         seen   : BOOLEAN,              \* worker_heartbeats row is fresh
         used   : BOOLEAN,              \* _registry_used
         reg    : SUBSET Partitions,    \* _registry["snapshot_partitions"]
         forget : SUBSET Partitions]    \* ids a running bump will unregister

Task == [pc    : {"idle", "claim", "drain", "settle", "release", "requeue",
                  "rqrelease", "ack", "reject"},
         part  : Partitions \cup {NoPartition},
         redel : BOOLEAN,               \* message.redelivered
         held  : BOOLEAN,               \* the broker still waits for our ack
         own   : Procs \cup {NoOwner},  \* the bound lease: owner
         tok   : Nat,                   \* the bound lease: token
         goal  : Done,                  \* status the terminal write carries
         exc   : BOOLEAN]               \* an exception is being handled

\* The types of the variables.
TypeOK ==
    /\ row \in [Partitions -> Row]
    /\ msgs \in [Partitions \X BOOLEAN -> Nat]
    /\ proc \in [Procs -> Proc]
    /\ task \in [Handlers -> Task]
    /\ payloads \subseteq Partitions
    /\ stale \subseteq Partitions /\ resend \subseteq Partitions
    /\ cancelled \in BOOLEAN
    /\ dead \subseteq Partitions \X {"poison_pill", "unclaimed_expired"}
    /\ claimed \subseteq Partitions
    /\ lost \in [conn : Nat, claim : Nat, write : Nat]

-----------------------------------------------------------------------------
(* Predicates on rows *)

Terminal(r) == r.status \in Done

\* Mutant: a lease is over only when it was cleared.
MutLapsedNull(r) == r.lease = "null"

\* lease_expires_at is NULL or in the past.
Lapsed(r) == r.lease # "live"

\* A worker really took this shard: the predicate of the requeue and of the
\* poison-pill statements.
ClaimEvidence(r) ==
    \/ r.status = "IN_PROGRESS"
    \/ r.started # "null"
    \/ r.owner # NoOwner
    \/ r.retry > 0

\* Mutant: no lease owner is taken for never claimed.
MutUnownedIsUnclaimed(r) == r.status = "QUEUED" /\ r.owner = NoOwner

\* _NEVER_CLAIMED
NeverClaimed(r) ==
    /\ r.status = "QUEUED" /\ r.started = "null"
    /\ r.owner = NoOwner /\ r.retry = 0

\* The lease owner's heartbeat row is fresh (the LEFT JOIN found it).
OwnerSeen(r) == r.owner # NoOwner /\ proc[r.owner].seen

Up(q) == proc[q].st = "up"

\* Mutant: the re-claim window without the lease guard.
MutClaimIgnoresLease(r) ==
    \/ r.status = "QUEUED"
    \/ r.status = "IN_PROGRESS" /\ r.started = "old"

\* The condition _claim_partition's UPDATE puts on the row.
Claimable(r) ==
    \/ r.status = "QUEUED"
    \/ r.status = "IN_PROGRESS" /\ r.started = "old" /\ Lapsed(r)

\* _partition_lease_fence: what every settlement write of task h adds to its
\* WHERE clause.  A claim made without a heartbeat rests on the token alone.
Fence(h) ==
    LET t == task[h] r == row[t.part]
    IN  r.token = t.tok /\ (t.own = NoOwner \/ r.owner = t.own)

-----------------------------------------------------------------------------
(* Initial state: a fan-out has inserted the rows QUEUED and published one  *)
(* message for each; a publish that failed is only logged.                  *)

NewRow == [status |-> "QUEUED", owner |-> NoOwner, lease |-> "null",
           token |-> 0, started |-> "null", enq |-> "recent", retry |-> 0,
           requeue |-> 0, replays |-> 0, unclaimed |-> 0]

NewProc == [st |-> "off", beats |-> FALSE, seen |-> FALSE, used |-> FALSE,
            reg |-> {}, forget |-> {}]

Idle == [pc |-> "idle", part |-> NoPartition, redel |-> FALSE, held |-> FALSE,
         own |-> NoOwner, tok |-> 0, goal |-> "COMPLETED", exc |-> FALSE]

Init ==
    /\ row = [p \in Partitions |-> NewRow]
    /\ \E sent \in SUBSET Partitions :
          msgs = [m \in Partitions \X BOOLEAN |->
                    IF m[1] \in sent /\ ~m[2] THEN 1 ELSE 0]
    /\ proc = [q \in Procs |-> NewProc]
    /\ task = [h \in Handlers |-> Idle]
    /\ payloads = {} /\ stale = {} /\ resend = {} /\ dead = {} /\ claimed = {}
    /\ cancelled = FALSE
    /\ lost = [conn |-> 0, claim |-> 0, write |-> 0]

-----------------------------------------------------------------------------
(* What the UPDATE statements do to a row they match *)

\* Mutant: the claim does not bump the fence token.
MutClaimKeepsToken(r, q) ==
    [r EXCEPT !.status = "IN_PROGRESS", !.started = "recent",
              !.owner = IF proc[q].beats THEN q ELSE r.owner,
              !.lease = IF proc[q].beats THEN "live" ELSE r.lease]

\* _claim_partition: COALESCE keeps the prior owner, and its expiry, when the
\* claiming process has no heartbeat.
ClaimedBy(r, q) ==
    [r EXCEPT !.status = "IN_PROGRESS", !.started = "recent",
              !.owner = IF proc[q].beats THEN q ELSE r.owner,
              !.lease = IF proc[q].beats THEN "live" ELSE r.lease,
              !.token = r.token + 1]

\* Mutant: the terminal write without its status guard.
MutSettleTerminal(r, h) ==
    IF Fence(h) THEN [r EXCEPT !.status = task[h].goal] ELSE r

\* Mutant: the terminal write without the lease fence.
MutSettleUnfenced(r, h) ==
    IF ~Terminal(r) THEN [r EXCEPT !.status = task[h].goal] ELSE r

\* _mark_partition_terminal: owner, expiry and token are left alone.
Settled(r, h) ==
    IF ~Terminal(r) /\ Fence(h) THEN [r EXCEPT !.status = task[h].goal] ELSE r

\* The _release statements leave the token alone; the one of the requeue
\* spends a retry.
Released(r) ==
    [r EXCEPT !.status = "QUEUED", !.owner = NoOwner, !.lease = "null",
              !.enq = "recent"]

ReleasedRetry(r) == [Released(r) EXCEPT !.retry = r.retry + 1]

\* Mutant: the requeue starts the tokens over.
MutRequeueResetsToken(r) == [Released(r) EXCEPT !.token = 0]

\* Back to the queue under a new token: the statement the worker's requeue,
\* the reconciler's requeue and its replay have in common.
Requeued(r) == [Released(r) EXCEPT !.token = r.token + 1]

Retried(r) == [Requeued(r) EXCEPT !.retry = r.retry + 1]

\* reclaim_for_replica
Reclaimed(r) ==
    [r EXCEPT !.owner = NoOwner, !.lease = "expired", !.token = r.token + 1]

-----------------------------------------------------------------------------
(* Worker processes *)

\* initialize(): the heartbeat may fail to start (the worker continues without
\* one); startup reclaim releases what an earlier process of this container
\* held, and a failed reclaim is only logged.  A container runs one process at
\* a time.
Start(q) ==
    /\ proc[q].st = "off"
    /\ \A o \in Procs : ReplicaOf[o] = ReplicaOf[q] => ~Up(o)
    /\ \E beats, reclaims \in BOOLEAN :
          LET old == {o \in Procs \ {q} : ReplicaOf[o] = ReplicaOf[q]}
          IN  /\ reclaims => beats
              /\ beats \/ NoHeartbeat
              /\ proc' = [o \in Procs |->
                    IF o = q THEN [proc[q] EXCEPT !.st = "up", !.beats = beats]
                    ELSE IF reclaims /\ o \in old
                         THEN [proc[o] EXCEPT !.seen = FALSE]
                         ELSE proc[o]]
              /\ row' = [p \in Partitions |->
                    IF reclaims /\ row[p].owner \in old
                                /\ row[p].status = "IN_PROGRESS"
                    THEN Reclaimed(row[p]) ELSE row[p]]
    /\ UNCHANGED <<msgs, task, sweepVars, claimed, lost>>

\* _beat_once reaches the database.
Beat(q) ==
    /\ Up(q) /\ proc[q].beats /\ ~proc[q].seen
    /\ proc' = [proc EXCEPT ![q].seen = TRUE]
    /\ UNCHANGED <<row, msgs, task, sweepVars, claimed, lost>>

\* last_seen_at falls behind HEARTBEAT_STALE_S: the process died, or its beats
\* fail to reach the database while its handlers go on.
BeatMissed(q) ==
    /\ proc[q].seen
    /\ proc' = [proc EXCEPT ![q].seen = FALSE]
    /\ UNCHANGED <<row, msgs, task, sweepVars, claimed, lost>>

\* LeaseExtender._bump_once: the UPDATE renews the registered rows (every
\* owned row while nothing was ever registered) ...
Bump(q) ==
    LET mine == {p \in Partitions : row[p].owner = q
                                    /\ row[p].status = "IN_PROGRESS"}
        kept == IF proc[q].used THEN mine \cap proc[q].reg ELSE mine
    IN  /\ Up(q) /\ proc[q].beats /\ proc[q].forget = {}
        /\ row' = [p \in Partitions |->
                     IF p \in kept THEN [row[p] EXCEPT !.lease = "live"]
                     ELSE row[p]]
        /\ proc' = [proc EXCEPT ![q].forget = proc[q].reg \ kept]
        /\ UNCHANGED <<msgs, task, sweepVars, claimed, lost>>

\* ... and when its result arrives, the ids it did not renew are unregistered.
BumpForget(q) ==
    /\ Up(q) /\ proc[q].forget # {}
    /\ proc' = [proc EXCEPT ![q].reg = @ \ proc[q].forget, ![q].forget = {}]
    /\ UNCHANGED <<row, msgs, task, sweepVars, claimed, lost>>

\* The process ends: the broker puts its unacked deliveries back, flagged
\* redelivered.  A stopped process (SIGTERM) tombstones its heartbeat row, a
\* killed one, or one whose heartbeat gave up (_check_fatal), leaves it.
Exit(q) ==
    /\ Up(q)
    /\ \E o \in Procs \ {q} : proc[o].st # "dead"   \* bound: one survives
    /\ \E seen \in {proc[q].seen, FALSE} :
          proc' = [proc EXCEPT ![q] = [NewProc EXCEPT !.st = "dead",
                                                      !.seen = seen]]
    /\ msgs' = [m \in DOMAIN msgs |->
                  IF m[2] THEN msgs[m] + Cardinality({h \in Handlers :
                                    ProcOf[h] = q /\ task[h].held
                                    /\ task[h].part = m[1]})
                  ELSE msgs[m]]
    /\ task' = [h \in Handlers |-> IF ProcOf[h] = q THEN Idle ELSE task[h]]
    /\ UNCHANGED <<row, sweepVars, claimed, lost>>

-----------------------------------------------------------------------------
(* Deliveries *)

Goto(h, t) == task' = [task EXCEPT ![h] = t]

\* Mutant: one message is delivered to several consumers.
MutDeliverTwice(h, p, redelivered) ==
    /\ Up(ProcOf[h]) /\ task[h].pc = "idle"
    /\ msgs' = [msgs EXCEPT ![<<p, redelivered>>] = @ - 1]
    /\ Goto(h, [Idle EXCEPT !.pc = "claim", !.part = p, !.redel = redelivered,
                            !.held = TRUE])
    /\ UNCHANGED <<row, proc, sweepVars, claimed, lost>>

\* The consumer takes a message and starts a task for it.
Deliver(h, p, redelivered) ==
    /\ Up(ProcOf[h]) /\ task[h].pc = "idle"
    /\ msgs[<<p, redelivered>>] > 0
    /\ msgs' = [msgs EXCEPT ![<<p, redelivered>>] = @ - 1]
    /\ Goto(h, [Idle EXCEPT !.pc = "claim", !.part = p, !.redel = redelivered,
                            !.held = TRUE])
    /\ UNCHANGED <<row, proc, sweepVars, claimed, lost>>

\* The channel drops under a running task: the broker requeues the delivery,
\* the task goes on and its own ack or reject will go nowhere.
ConnectionLost(h) ==
    /\ task[h].held
    /\ lost.conn < MaxConnLoss
    /\ lost' = [lost EXCEPT !.conn = @ + 1]
    /\ msgs' = [msgs EXCEPT ![<<task[h].part, TRUE>>] = @ + 1]
    /\ Goto(h, [task[h] EXCEPT !.held = FALSE])
    /\ UNCHANGED <<row, proc, sweepVars, claimed>>

\* _handle_one: the handler returned.
Ack(h) ==
    /\ task[h].pc = "ack"
    /\ Goto(h, Idle)
    /\ UNCHANGED <<row, msgs, proc, sweepVars, claimed, lost>>

\* _handle_one: the handler raised.  Every queue is classic, so
\* should_requeue_failed_delivery requeues a first failure and routes a
\* redelivered one to the broker's dead-letter queue.
Reject(h) ==
    /\ task[h].pc = "reject"
    /\ msgs' = IF task[h].held /\ ~task[h].redel
               THEN [msgs EXCEPT ![<<task[h].part, TRUE>>] = @ + 1]
               ELSE msgs
    /\ Goto(h, Idle)
    /\ UNCHANGED <<row, proc, sweepVars, claimed, lost>>

-----------------------------------------------------------------------------
(* A partition handler: claim, drain, settle *)

\* Mutant: a finished handler leaves its row registered.
MutForgotUnregister(h) == UNCHANGED proc

\* lease_unregister("snapshot_partitions", partition_id)
Unregister(h) ==
    proc' = [proc EXCEPT ![ProcOf[h]].reg = @ \ {task[h].part}]

\* _claim_partition: one conditional UPDATE; on success the row is registered
\* for renewal and owner and token are bound to the task.  A refused claim is
\* acked and dropped.
Claim(h) ==
    LET q == ProcOf[h] p == task[h].part r == row[p]
        new == ClaimedBy(r, q)
    IN  /\ task[h].pc = "claim"
        /\ IF Claimable(r)
           THEN /\ row' = [row EXCEPT ![p] = new]
                /\ proc' = IF proc[q].beats
                           THEN [proc EXCEPT ![q].reg = @ \cup {p},
                                             ![q].used = TRUE]
                           ELSE proc
                /\ claimed' = claimed \cup {p}
                /\ Goto(h, [task[h] EXCEPT !.pc = "drain", !.own = new.owner,
                                           !.tok = new.token])
           ELSE /\ Goto(h, [task[h] EXCEPT !.pc = "ack"])
                /\ UNCHANGED <<row, proc, claimed>>
        /\ UNCHANGED <<msgs, sweepVars, lost>>

\* The claim raises, before its commit or after it: nothing is registered or
\* bound, and the message is rejected.
ClaimLost(h) ==
    LET p == task[h].part
    IN  /\ task[h].pc = "claim"
        /\ lost.claim < MaxClaimLoss
        /\ lost' = [lost EXCEPT !.claim = @ + 1]
        /\ \/ /\ Claimable(row[p])
              /\ row' = [row EXCEPT ![p] = ClaimedBy(@, ProcOf[h])]
              /\ claimed' = claimed \cup {p}
           \/ UNCHANGED <<row, claimed>>
        /\ Goto(h, [task[h] EXCEPT !.pc = "reject"])
        /\ UNCHANGED <<msgs, proc, sweepVars>>

\* The drain returns: _settle_partition_outcome writes COMPLETED, or FAILED
\* when the failure ledger holds an entry or the job was cancelled.
DrainReturns(h) ==
    /\ task[h].pc = "drain"
    /\ \E goal \in Done :
          Goto(h, [task[h] EXCEPT !.pc = "settle", !.goal = goal])
    /\ UNCHANGED <<row, msgs, proc, sweepVars, claimed, lost>>

\* The drain raises: _partition_retry_or_fail asks for another attempt after a
\* transient database error and writes FAILED after any other.
DrainRaises(h) ==
    /\ task[h].pc = "drain"
    /\ \E pc \in {"requeue", "settle"} :
          Goto(h, [task[h] EXCEPT !.pc = pc, !.goal = "FAILED", !.exc = TRUE])
    /\ UNCHANGED <<row, msgs, proc, sweepVars, claimed, lost>>

\* _mark_partition_terminal, the write that lands: a row already terminal
\* stays put, a row whose lease moved on is left to its new owner.
MarkTerminal(h) ==
    LET t == task[h]
    IN  /\ t.pc = "settle"
        /\ row' = [row EXCEPT ![t.part] = Settled(@, h)]
        /\ Unregister(h)
        /\ Goto(h, [t EXCEPT !.pc = IF t.exc THEN "reject" ELSE "ack"])
        /\ UNCHANGED <<msgs, sweepVars, claimed, lost>>

\* Its retries are exhausted; the last attempt may have committed and only its
\* acknowledgement been lost.
MarkTerminalLost(h) ==
    LET t == task[h]
    IN  /\ t.pc = "settle"
        /\ lost.write < MaxOutage
        /\ lost' = [lost EXCEPT !.write = @ + 1]
        /\ row' \in {row, [row EXCEPT ![t.part] = Settled(@, h)]}
        /\ Goto(h, [t EXCEPT !.pc = "release"])
        /\ UNCHANGED <<msgs, proc, sweepVars, claimed>>

\* _release of _mark_partition_terminal, in a session of its own, which may
\* fail as well; then the error is raised again.  Raised in the drain's
\* try-block it reaches _partition_retry_or_fail, which requeues or fails the
\* row; raised before the try-block, or while an exception is already being
\* handled, it reaches the consumer.
ReleaseAfterTerminal(h) ==
    LET t == task[h]
    IN  /\ t.pc = "release"
        /\ \/ row' = [row EXCEPT ![t.part] =
                        IF ~Terminal(@) /\ Fence(h) THEN Released(@) ELSE @]
              /\ UNCHANGED lost
           \/ lost.write < MaxOutage
              /\ lost' = [lost EXCEPT !.write = @ + 1]
              /\ UNCHANGED row
        /\ Unregister(h)
        /\ \E pc \in IF t.exc THEN {"reject"}
                     ELSE {"requeue", "settle", "reject"} :
              Goto(h, [t EXCEPT !.pc = pc, !.goal = "FAILED", !.exc = TRUE])
        /\ UNCHANGED <<msgs, sweepVars, claimed>>

\* The condition of the requeue statement.
MayRetry(h) ==
    LET r == row[task[h].part]
    IN  r.status = "IN_PROGRESS" /\ r.retry < MaxRetries /\ Fence(h)

\* _requeue_partition_for_retry, the write that lands: QUEUED again with a new
\* token, or, when it matches no row, on to the terminal FAILED.
RequeueForRetry(h) ==
    LET t == task[h] ours == MayRetry(h)
    IN  /\ t.pc = "requeue"
        /\ row' = [row EXCEPT ![t.part] = IF ours THEN Retried(@) ELSE @]
        /\ Unregister(h)
        /\ Goto(h, [t EXCEPT !.pc = IF ours THEN "reject" ELSE "settle"])
        /\ UNCHANGED <<msgs, sweepVars, claimed, lost>>

\* Its retries are exhausted, with or without a commit.
RequeueLost(h) ==
    LET t == task[h] ours == MayRetry(h)
    IN  /\ t.pc = "requeue"
        /\ lost.write < MaxOutage
        /\ lost' = [lost EXCEPT !.write = @ + 1]
        /\ row' \in {row, [row EXCEPT ![t.part] =
                              IF ours THEN Retried(@) ELSE @]}
        /\ Goto(h, [t EXCEPT !.pc = "rqrelease"])
        /\ UNCHANGED <<msgs, proc, sweepVars, claimed>>

\* _release of _requeue_partition_for_retry: it spends a retry; when it
\* matches no row the caller writes FAILED, when it fails too the error is
\* raised and the row strands until its lease lapses.
ReleaseAfterRequeue(h) ==
    LET t == task[h]
        ours == ~Terminal(row[t.part]) /\ row[t.part].retry < MaxRetries
                /\ Fence(h)
    IN  /\ t.pc = "rqrelease"
        /\ \/ /\ row' = [row EXCEPT ![t.part] =
                           IF ours THEN ReleasedRetry(@) ELSE @]
              /\ Goto(h, [t EXCEPT !.pc = IF ours THEN "reject" ELSE "settle"])
              /\ UNCHANGED lost
           \/ /\ lost.write < MaxOutage
              /\ lost' = [lost EXCEPT !.write = @ + 1]
              /\ Goto(h, [t EXCEPT !.pc = "reject"])
              /\ UNCHANGED row
        /\ Unregister(h)
        /\ UNCHANGED <<msgs, sweepVars, claimed>>

-----------------------------------------------------------------------------
(* The reconciler: STEP A of sweep_orphans, every 60 s, one transaction *)

\* Claimed then abandoned: dead owner, lapsed lease, past the requeue horizon.
Orphaned(r) ==
    /\ ~Terminal(r) /\ ~OwnerSeen(r) /\ Lapsed(r) /\ ClaimEvidence(r)
    /\ r.enq = "old" /\ r.requeue < MaxRequeue

\* Never claimed and past its own, longer horizon.
Unclaimed(r) ==
    NeverClaimed(r) /\ ~OwnerSeen(r) /\ r.lease = "null" /\ r.enq = "old"

\* _poison_sql
Poisonous(r) ==
    ~Terminal(r) /\ r.requeue >= MaxRequeue /\ Lapsed(r) /\ ClaimEvidence(r)

GivenUp(r) ==
    [r EXCEPT !.status = "FAILED", !.owner = NoOwner, !.lease = "null",
              !.token = r.token + 1]

RequeueStep(r) ==
    IF Orphaned(r) THEN [Requeued(r) EXCEPT !.requeue = r.requeue + 1] ELSE r

RepublishStep(r) ==
    IF Unclaimed(r) /\ r.unclaimed < MaxUnclaimed
    THEN [r EXCEPT !.token = r.token + 1, !.enq = "recent",
                   !.unclaimed = r.unclaimed + 1]
    ELSE r

ReplayStep(r) ==
    IF Poisonous(r) /\ r.replays < MaxReplay
    THEN [Requeued(r) EXCEPT !.requeue = 0, !.replays = r.replays + 1]
    ELSE r

Poisoned(r) == Poisonous(r) /\ r.replays >= MaxReplay
PoisonStep(r) == IF Poisoned(r) THEN GivenUp(r) ELSE r

Expired(r) == Unclaimed(r) /\ r.unclaimed >= MaxUnclaimed
ExpireStep(r) == IF Expired(r) THEN GivenUp(r) ELSE r

\* The rows as the statements of one tick leave them.  The first two skip
\* locked rows and stop at RECONCILER_BATCH: they see the rows in S only.
Swept(p, S) ==
    LET r1 == IF p \in S THEN RepublishStep(RequeueStep(row[p])) ELSE row[p]
    IN  ReplayStep(r1)

Sweep(S) ==
    /\ payloads = {}
    /\ row' = [p \in Partitions |-> ExpireStep(PoisonStep(Swept(p, S)))]
    /\ payloads' = {p \in S : \/ Orphaned(row[p])
                              \/ Unclaimed(row[p]) /\ ~Expired(row[p])}
    /\ dead' = dead \cup {<<p, "poison_pill">> :
                            p \in {x \in Partitions : Poisoned(Swept(x, S))}}
                    \cup {<<p, "unclaimed_expired">> :
                            p \in {x \in Partitions : Expired(Swept(x, S))}}
    /\ UNCHANGED <<msgs, proc, task, stale, resend, cancelled, claimed, lost>>

\* republish_partition_messages, after the commit; a publish that fails is
\* logged and the payload dropped.
Republish(p) ==
    /\ p \in payloads
    /\ payloads' = payloads \ {p}
    /\ \/ msgs' = [msgs EXCEPT ![<<p, FALSE>>] = @ + 1]
       \/ SweeperFails /\ UNCHANGED msgs
    /\ UNCHANGED <<row, proc, task, stale, resend, cancelled, dead, claimed,
                   lost>>

-----------------------------------------------------------------------------
(* The scheduler's partition stale-sweep, every 5 min *)

\* Mutant: a slow shard counts as a stuck one whatever its lease says.
MutSlowIsStuck(r) == r.status = "IN_PROGRESS" /\ r.started = "old"

\* IN_PROGRESS for longer than the stuck horizon under a lapsed lease.
Stuck(r) == r.status = "IN_PROGRESS" /\ r.started = "old" /\ Lapsed(r)

\* Step 1: fail the rows past the retry budget.
StaleFail ==
    /\ row' = [p \in Partitions |->
                 IF Stuck(row[p]) /\ row[p].retry >= MaxRetries
                 THEN [row[p] EXCEPT !.status = "FAILED"] ELSE row[p]]
    /\ UNCHANGED <<msgs, proc, task, sweepVars, claimed, lost>>

\* Mutant: the reset spends no retry.
MutResetFree(r) == [r EXCEPT !.status = "QUEUED", !.started = "null"]

StaleResetRow(r) ==
    [r EXCEPT !.status = "QUEUED", !.started = "null", !.retry = @ + 1]

\* Step 2: reset the others.  Owner, expiry and token are left alone, and the
\* owner's heartbeat is not asked.
StaleReset ==
    LET reset == {p \in Partitions :
                    Stuck(row[p]) /\ row[p].retry < MaxRetries}
    IN  /\ stale = {} /\ resend = {}
        /\ row' = [p \in Partitions |->
                     IF p \in reset THEN StaleResetRow(row[p]) ELSE row[p]]
        /\ stale' = reset
        /\ UNCHANGED <<msgs, proc, task, payloads, resend, cancelled, dead,
                       claimed, lost>>

\* Step 3, the cancel-guard: when the job was cancelled the rows just reset
\* become FAILED, whatever they are by now; otherwise they are republished.
StaleCancelGuard ==
    /\ stale # {}
    /\ stale' = {}
    /\ \/ /\ cancelled
          /\ row' = [p \in Partitions |->
                       IF p \in stale THEN [row[p] EXCEPT !.status = "FAILED"]
                       ELSE row[p]]
          /\ UNCHANGED resend
       \/ ~cancelled /\ resend' = stale /\ UNCHANGED row
       \/ SweeperFails /\ UNCHANGED <<row, resend>>
    /\ UNCHANGED <<msgs, proc, task, payloads, cancelled, dead, claimed,
                   lost>>

\* Only four of the six partition types have a republish branch; the others
\* are left QUEUED.
StaleRepublish(p) ==
    /\ p \in resend
    /\ resend' = resend \ {p}
    /\ \/ p \in Routable /\ msgs' = [msgs EXCEPT ![<<p, FALSE>>] = @ + 1]
       \/ (p \notin Routable \/ SweeperFails) /\ UNCHANGED msgs
    /\ UNCHANGED <<row, proc, task, payloads, stale, cancelled, dead,
                   claimed, lost>>

-----------------------------------------------------------------------------
(* Environment *)

\* The user cancels the job.
CancelJob ==
    /\ ~cancelled
    /\ cancelled' = TRUE
    /\ UNCHANGED <<row, msgs, proc, task, payloads, stale, resend, dead,
                   claimed, lost>>

\* lease_expires_at passes: the owner died, stopped renewing, or its renewals
\* do not reach the database.
Lapse(p) ==
    /\ row[p].lease = "live"
    /\ row' = [row EXCEPT ![p].lease = "expired"]
    /\ UNCHANGED <<msgs, proc, task, sweepVars, claimed, lost>>

AgeStarted(p) ==
    /\ row[p].started = "recent" /\ ~Terminal(row[p])
    /\ row' = [row EXCEPT ![p].started = "old"]
    /\ UNCHANGED <<msgs, proc, task, sweepVars, claimed, lost>>

AgeEnqueued(p) ==
    /\ row[p].enq = "recent" /\ ~Terminal(row[p])
    /\ row' = [row EXCEPT ![p].enq = "old"]
    /\ UNCHANGED <<msgs, proc, task, sweepVars, claimed, lost>>

-----------------------------------------------------------------------------
ProcStep(q) ==
    \/ Start(q) \/ Beat(q) \/ BeatMissed(q) \/ Bump(q) \/ BumpForget(q)
    \/ Exit(q)

HandlerStep(h) ==
    \/ Ack(h) \/ Reject(h) \/ Claim(h) \/ ClaimLost(h)
    \/ DrainReturns(h) \/ DrainRaises(h)
    \/ MarkTerminal(h) \/ MarkTerminalLost(h) \/ ReleaseAfterTerminal(h)
    \/ RequeueForRetry(h) \/ RequeueLost(h) \/ ReleaseAfterRequeue(h)

RowStep(p) ==
    \/ Republish(p) \/ StaleRepublish(p) \/ Lapse(p) \/ AgeStarted(p)
    \/ AgeEnqueued(p)

Next ==
    \/ \E q \in Procs : ProcStep(q)
    \/ \E h \in Handlers : HandlerStep(h) \/ ConnectionLost(h)
    \/ \E h \in Handlers, p \in Partitions, b \in BOOLEAN : Deliver(h, p, b)
    \/ \E p \in Partitions : RowStep(p)
    \/ \E S \in SUBSET Partitions : Sweep(S)
    \/ StaleFail \/ StaleReset \/ StaleCancelGuard \/ CancelJob

Spec == Init /\ [][Next]_vars

-----------------------------------------------------------------------------
(* Fairness: a live process takes deliveries and runs its handlers to the    *)
(* end (every drain ends, with a result or an exception), containers are     *)
(* restarted, clocks advance, both sweepers keep ticking and do not find a   *)
(* row locked at every tick.  A lease must lapse only when no live process   *)
(* renews it, and a heartbeat must go stale only when its process is dead.   *)

Renewed(p) ==
    LET q == row[p].owner
    IN  /\ q # NoOwner /\ Up(q) /\ proc[q].beats
        /\ row[p].status = "IN_PROGRESS"
        /\ proc[q].used => p \in proc[q].reg

Fairness ==
    /\ \A q \in Procs : /\ WF_vars(Start(q)) /\ WF_vars(Bump(q))
                        /\ WF_vars(BumpForget(q))
                        /\ WF_vars(proc[q].st = "dead" /\ BeatMissed(q))
    /\ \A h \in Handlers :
          /\ WF_vars(HandlerStep(h))
          /\ WF_vars(\E p \in Partitions, b \in BOOLEAN : Deliver(h, p, b))
    /\ \A p \in Partitions :
          /\ WF_vars(~Renewed(p) /\ Lapse(p))
          /\ WF_vars(AgeStarted(p)) /\ WF_vars(AgeEnqueued(p))
          /\ WF_vars(Republish(p)) /\ WF_vars(StaleRepublish(p))
    /\ WF_vars(Sweep(Partitions))
    /\ WF_vars(StaleFail) /\ WF_vars(StaleReset) /\ WF_vars(StaleCancelGuard)

FairSpec == Spec /\ Fairness

-----------------------------------------------------------------------------
(* Properties *)

\* Task h has claimed its partition and not yet finished with it.
Working(h) ==
    task[h].pc \in {"drain", "settle", "release", "requeue", "rqrelease"}

\* _partition_lease_fence: of all the tasks that ever claimed a partition and
\* still run, in whatever process, at most one can write to the row.
FenceExclusive ==
    \A g, h \in Handlers :
        /\ g # h /\ Working(g) /\ Working(h)
        /\ task[g].part = task[h].part
        => ~(Fence(g) /\ Fence(h))

\* A task that has lost its row ("stolen") never passes the fence again, not
\* even when the row comes back to the same process.
StolenStaysStolen ==
    [][\A h \in Handlers :
          Working(h) /\ Working(h)' /\ ~Fence(h) => ~Fence(h)']_vars

\* While a lease is live nobody takes the row away: its status and token are
\* changed by the task that holds it, by the restart of its owner's container,
\* or by the cancel-guard of a stale-sweep that reset the row before.
LiveLeaseKept ==
    [][\A p \in Partitions :
          /\ row[p].status = "IN_PROGRESS" /\ row[p].lease = "live"
          /\ \/ row'[p].token # row[p].token
             \/ row'[p].status # row[p].status
          => \/ \E h \in Handlers : /\ Working(h) /\ task[h].part = p
                                    /\ Fence(h) /\ task'[h] # task[h]
             \/ ~Up(row[p].owner)
             \/ cancelled /\ p \in stale]_vars

\* A terminal row keeps its status, except that the cancel-guard fails rows
\* that finished after the stale-sweep reset them.
TerminalFinal ==
    [][\A p \in Partitions :
          Terminal(row[p]) =>
             \/ row'[p].status = row[p].status
             \/ cancelled /\ p \in stale /\ row'[p].status = "FAILED"]_vars

\* "Evidence survives a requeue": a row some worker has claimed is recognised
\* as claimed by both sweeps for as long as it is not terminal.
EvidenceSurvives ==
    \A p \in claimed : ~Terminal(row[p]) => ClaimEvidence(row[p])

\* A dead-lettered row stays FAILED, and the dead letter gives the true reason:
\* poison_pill iff some worker claimed the shard, unclaimed_expired iff none.
DeadLetterVerdict ==
    \A d \in dead : /\ row[d[1]].status = "FAILED"
                    /\ (d[2] = "poison_pill") <=> d[1] \in claimed

\* The registry of LeaseExtender: a row is kept leased only while a handler of
\* the process works on it, so that a dead handler's row lapses.
RegistryTight ==
    \A q \in Procs, p \in Partitions :
        /\ Up(q) /\ p \in proc[q].reg
        /\ row[p].owner = q /\ row[p].status = "IN_PROGRESS"
        => \E h \in Handlers :
              ProcOf[h] = q /\ task[h].part = p /\ Working(h)

\* What a row and a task come to: the shard's verdict, the shard the task's
\* settlement writes would still reach, and the shards under a live lease.
Fate(p) == IF Terminal(row[p]) THEN row[p].status ELSE "OPEN"

Granted(h) == IF Working(h) /\ Fence(h) THEN task[h].part ELSE NoPartition

Leased == {p \in Partitions : row[p].status = "IN_PROGRESS"
                              /\ row[p].lease = "live"}

Fates == [p \in Partitions |-> Fate(p)]

Grants == [h \in Handlers |-> Granted(h)]

Promise == INSTANCE LeasePromise WITH
    Shard <- Partitions, Task <- Handlers, None <- NoPartition,
    fate <- Fates, grant <- Grants, leased <- Leased

\* The rows, tokens and sweeps implement LeasePromise: COMPLETED is written
\* only by the task that holds the shard, a lost grant returns only by a new
\* claim, a shard with a verdict is never claimed again, and nobody claims or
\* gives up a shard under a live lease.
KeepsPromise == Promise!Spec

\* Owner-wide renewal, the fallback of a process in which nothing was ever
\* registered, keeps p leased.
OwnerWide(p) == Renewed(p) /\ ~proc[row[p].owner].used

\* Every shard is eventually settled, whatever dies or is lost on the way,
\* unless owner-wide renewal keeps it leased for ever.
Settles == \A p \in Partitions : <>[](Terminal(row[p]) \/ OwnerWide(p))

=============================================================================
