-------------------------- MODULE MCPartitionLease --------------------------
(* PartitionLease on small instances.                                        *)
EXTENDS PartitionLease, TLC

CONSTANTS p1, p2, q1, q2, h1, h2

\* Two worker containers, one handler each.
TwoPods  == (q1 :> "A") @@ (q2 :> "B")
OneEach  == (h1 :> q1) @@ (h2 :> q2)
\* The same container before and after a restart.
Restart  == (q1 :> "A") @@ (q2 :> "A")
\* One process with two handlers.
Siblings == (h1 :> q1) @@ (h2 :> q1)
\* One process with one handler.
Alone    == (h1 :> q1)
=============================================================================
