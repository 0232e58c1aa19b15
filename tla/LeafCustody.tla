---------------------------- MODULE LeafCustody -----------------------------
(***************************************************************************)
(* What the durable runners promise about the leaves of a snapshot, without *)
(* rows, leases, tokens or slots.  Every leaf has a keeper: the provider    *)
(* work that captures it, then the copy workflow it is handed to.  The      *)
(* keeper alone may complete it, keepers never come back, and the snapshot  *)
(* and the job are settled from leaves that have ended.                     *)
(***************************************************************************)
CONSTANT Leaf
VARIABLES
    status,     \* QUEUED, IN_PROGRESS, COMPLETED or FAILED, for each leaf
    keeper,     \* "new", "provider", "copies" or "gone", for each leaf
    snap,       \* IN_PROGRESS, PARTIAL or COMPLETED
    job         \* RUNNING, ENDED or CANCELLED

Init ==
    /\ status = [l \in Leaf |-> "QUEUED"] /\ keeper = [l \in Leaf |-> "new"]
    /\ snap = "IN_PROGRESS" /\ job = "RUNNING"

Ended(l) == status[l] \in {"COMPLETED", "FAILED"}
Kept(l) == keeper[l] \in {"provider", "copies"}
Open(l) == job = "RUNNING" /\ snap = "IN_PROGRESS" /\ ~Ended(l)
Keeper(l, k) == keeper' = [keeper EXCEPT ![l] = k]
Status(l, st) == status' = [status EXCEPT ![l] = st]

\* A leaf is taken into capture once.
Take(l) ==
    /\ keeper[l] = "new" /\ Open(l)
    /\ Keeper(l, "provider") /\ UNCHANGED <<status, snap, job>>

\* A turn of the capture begins; a turn or a resumption gives the leaf back to
\* the queue.
Start(l) ==
    /\ keeper[l] = "provider" /\ Open(l)
    /\ Status(l, "IN_PROGRESS") /\ UNCHANGED <<keeper, snap, job>>
Requeue(l) == ~Ended(l) /\ Status(l, "QUEUED") /\ UNCHANGED <<keeper, snap, job>>

\* The capture is over and the sealed copies keep the leaf, which is running.
HandOver(l) ==
    /\ keeper[l] = "provider" /\ Open(l) /\ status[l] = "IN_PROGRESS"
    /\ Keeper(l, "copies") /\ UNCHANGED <<status, snap, job>>

\* The keeper ends the leaf, and may be gone with that.
End(l, st) ==
    /\ Kept(l) /\ Open(l)
    /\ Status(l, st) /\ UNCHANGED <<snap, job>>
    /\ keeper' = keeper \/ (st = "FAILED" /\ Keeper(l, "gone"))

\* A leaf in the queue that lost its keeper is failed.
DeadLetter(l) ==
    /\ keeper[l] = "gone" /\ job = "RUNNING" /\ status[l] = "QUEUED"
    /\ Status(l, "FAILED") /\ UNCHANGED <<keeper, snap, job>>

\* A keeper leaves: copies that still have to end their leaf do not, and a
\* capture leaves none behind that runs.
Leave(l) ==
    /\ Kept(l)
    /\ job = "RUNNING" => Ended(l) \/ (keeper[l] = "provider" /\ status[l] = "QUEUED")
    /\ Keeper(l, "gone") /\ UNCHANGED <<status, snap, job>>

\* The last keeper on its way out, or a settler after it, settles the snapshot.
Finalize(v) ==
    /\ snap = "IN_PROGRESS" /\ snap' = v
    /\ \A l \in Leaf : Ended(l) /\ keeper[l] # "copies"
    /\ \A k, l \in Leaf : Kept(k) /\ Kept(l) => k = l
    /\ v = "COMPLETED" => \A l \in Leaf : status[l] = "COMPLETED"
    /\ UNCHANGED <<status, keeper, job>>

EndJob ==
    /\ job = "RUNNING" /\ snap # "IN_PROGRESS" /\ \A l \in Leaf : ~Kept(l)
    /\ job' = "ENDED" /\ UNCHANGED <<status, keeper, snap>>

Cancel ==
    /\ job = "RUNNING" /\ job' = "CANCELLED"
    /\ keeper' = [l \in Leaf |-> IF Kept(l) THEN "gone" ELSE keeper[l]]
    /\ UNCHANGED <<status, snap>>

\* Most steps of the rows beneath leave all of this as it is.
Next ==
    \/ UNCHANGED <<status, keeper, snap, job>>
    \/ \E l \in Leaf : \/ Take(l) \/ Start(l) \/ Requeue(l) \/ HandOver(l) \/ DeadLetter(l) \/ Leave(l)
                       \/ \E st \in {"COMPLETED", "FAILED"} : End(l, st)
    \/ \E v \in {"COMPLETED", "PARTIAL"} : Finalize(v)
    \/ EndJob \/ Cancel

Spec == Init /\ [][Next]_<<status, keeper, snap, job>>
=============================================================================
