---------------------------- MODULE MCOnlyUpdate ----------------------------
(* Instances of OnlyUpdate for TLC: the versions and geometry of MCBackupOta. *)
EXTENDS OnlyUpdate, TLC

CONSTANTS v1, v2

MCSizeOf == v1 :> 4 @@ v2 :> 8
=============================================================================
