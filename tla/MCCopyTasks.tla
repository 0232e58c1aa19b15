---------------------------- MODULE MCCopyTasks ----------------------------
(* Small instances of CopyTasks. *)
EXTENDS CopyTasks, TLC

\* Two workflows of one tenant, in two lanes: a chat snapshot with a carry and the
\* publication that waits for it, and another resource's carry.
PairWfOf == (1 :> "w1") @@ (2 :> "w1") @@ (3 :> "w2")
PairSnap == ("w1" :> "j1") @@ ("w2" :> "j2")
PairBatches == (1 :> 2) @@ (2 :> 1) @@ (3 :> 1)
PairQueue == (1 :> 13) @@ (2 :> 13) @@ (3 :> 23)
PairUp == (11 :> 0) @@ (12 :> 11) @@ (13 :> 12) @@ (21 :> 0) @@ (22 :> 21) @@ (23 :> 22)
PairLane == (1 :> "giant") @@ (2 :> "giant") @@ (3 :> "micro")
PairTenant == [t \in 1..3 |-> "tenant"]
Lanes == ("giant" :> 1) @@ ("micro" :> 1)
Unit == [q \in 11..23 |-> 1]

\* One process with two slots, so that they share an owner_id.
OneProc == (1 :> 1) @@ (2 :> 1)

\* Two workflows of one task each, in sibling resource queues.
TwinWfOf == (1 :> "w1") @@ (2 :> "w2")
TwinBatches == (1 :> 1) @@ (2 :> 1)
TwinQueue == (1 :> 13) @@ (2 :> 14)
TwinUp == (11 :> 0) @@ (12 :> 11) @@ (13 :> 12) @@ (14 :> 12)
TwinTenant == [t \in 1..2 |-> "tenant"]
TwinLane == (1 :> "micro") @@ (2 :> "micro")

\* A single slot.
SoloProc == 1 :> 1
=============================================================================
