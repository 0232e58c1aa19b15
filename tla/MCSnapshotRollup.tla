-------------------------- MODULE MCSnapshotRollup --------------------------
(***************************************************************************)
(* Instances of SnapshotRollup for TLC.                                     *)
(***************************************************************************)
EXTENDS SnapshotRollup, TLC

CONSTANTS j1, j2, s1, s2, p1, p2, r1, r2, h1, h2

\* One job, one snapshot with two shards.
SoloJobOf == s1 :> j1
SoloResOf == s1 :> r1
SoloSnapOf == p1 :> s1 @@ p2 :> s1

\* One job over two resources, one shard each.
BulkJobOf == s1 :> j1 @@ s2 :> j1
BulkResOf == s1 :> r1 @@ s2 :> r2
PairSnapOf == p1 :> s1 @@ p2 :> s2

\* The same, but the second resource never gets as far as its fan-out.
HeadSnapOf == p1 :> s1

\* Two jobs over the same resource, one shard each.
RerunJobOf == s1 :> j1 @@ s2 :> j2
RerunResOf == s1 :> r1 @@ s2 :> r1

\* The finalizers of a snapshot run the same code.
FinalizerSym == Permutations({h1, h2})
=============================================================================
