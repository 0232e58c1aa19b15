---------------------------- MODULE MCLeafWork ----------------------------
(* Instances of LeafWork: two shards of one snapshot, two slots. *)
EXTENDS LeafWork
=============================================================================
