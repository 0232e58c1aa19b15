---------------------------- MODULE LeasePromise ----------------------------
(***************************************************************************)
(* What the leases of snapshot_partitions promise, without tokens, owners, *)
(* heartbeats, messages or sweeps.  A task writes a shard's verdict only   *)
(* while it holds the grant on it; a grant that is lost comes back only by *)
(* a new claim; nobody claims or gives up a shard under a live lease; a    *)
(* verdict is final unless the job was cancelled.  PartitionLease          *)
(* implements this specification.                                          *)
(***************************************************************************)
EXTENDS Naturals

CONSTANTS
    Shard,     \* rows of snapshot_partitions
    Task,      \* handler tasks
    None       \* what a task holds that holds no shard

VARIABLES
    fate,      \* "OPEN", or the shard's terminal status
    grant,     \* the shard each task may write to, or None
    leased,    \* shards at work under a live lease
    cancelled  \* the parent job is CANCELLING or CANCELLED

vars == <<fate, grant, leased, cancelled>>

Init ==
    /\ fate = [p \in Shard |-> "OPEN"]
    /\ grant = [h \in Task |-> None]
    /\ leased = {}
    /\ cancelled = FALSE

\* The tasks in H lose what they hold.
Drop(H) == grant' = [h \in Task |-> IF h \in H THEN None ELSE grant[h]]

Fail(S) == fate' = [p \in Shard |-> IF p \in S THEN "FAILED" ELSE fate[p]]

\* Leases lapse and are renewed at any moment.
LeasesMove == leased' \in SUBSET Shard

\* A task claims an open shard and shuts out whoever held it, but never under
\* a live lease.
Claim(h, p) ==
    /\ grant[h] = None
    /\ fate[p] = "OPEN" /\ p \notin leased
    /\ grant' = [g \in Task |-> IF g = h THEN p
                                 ELSE IF grant[g] = p THEN None ELSE grant[g]]
    /\ LeasesMove
    /\ UNCHANGED <<fate, cancelled>>

\* Tasks end or let go, processes die, rows are handed back or taken away.
Revoke(H) ==
    /\ UNCHANGED <<fate, cancelled>>
    /\ Drop(H)
    /\ LeasesMove

\* The holder writes the verdict, and only its own grant is affected.
Finish(h, v) ==
    /\ grant[h] \in Shard /\ fate[grant[h]] = "OPEN"
    /\ fate' = [fate EXCEPT ![grant[h]] = v]
    /\ UNCHANGED grant \/ Drop({h})
    /\ LeasesMove
    /\ UNCHANGED cancelled

\* A sweeper fails open shards that are not leased.
GiveUp(S) ==
    /\ \A p \in S : fate[p] = "OPEN" /\ p \notin leased
    /\ Fail(S)
    /\ \E H \in SUBSET Task : Drop(H)
    /\ LeasesMove
    /\ UNCHANGED cancelled

Cancel ==
    /\ ~cancelled
    /\ cancelled' = TRUE
    /\ UNCHANGED <<fate, grant, leased>>

\* Shards of a cancelled job are failed, whatever they are; no task loses its
\* grant by it.
Overrule(S) ==
    /\ cancelled
    /\ Fail(S)
    /\ LeasesMove
    /\ UNCHANGED <<grant, cancelled>>

Next ==
    \/ \E H \in SUBSET Task : Revoke(H)
    \/ \E h \in Task, p \in Shard : Claim(h, p)
    \/ \E h \in Task, v \in {"COMPLETED", "FAILED"} : Finish(h, v)
    \/ \E S \in SUBSET Shard : GiveUp(S) \/ Overrule(S)
    \/ Cancel

Spec == Init /\ [][Next]_vars
=============================================================================
