---------------------------- MODULE MCBackupOta -----------------------------
(* Instances of BackupOta for TLC: two firmware versions, an image of two     *)
(* blocks of two pages of three units.  The old image ends inside the first   *)
(* block, the new one in the middle of a page of the second, and a command    *)
(* carries one or two units, so that it may or may not cross a page boundary. *)
EXTENDS BackupOta, TLC

CONSTANTS v1, v2

MCSizeOf == v1 :> 4 @@ v2 :> 8
=============================================================================
