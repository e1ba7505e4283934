----------------------------- MODULE MCOfflineSync -----------------------------
(* Instances of OfflineSync for TLC. *)
EXTENDS OfflineSync
=============================================================================
