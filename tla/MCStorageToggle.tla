-------------------------- MODULE MCStorageToggle --------------------------
(* Two toggles between two backends, and a job. *)
EXTENDS StorageToggle
=============================================================================
