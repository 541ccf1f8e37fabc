----------------------------- MODULE MCCdcDown ------------------------------
(* Instances of CdcDown for TLC: a short and a full packet, two byte values. *)
EXTENDS CdcDown

CONSTANTS b1, b2

MCPackets == {<<b1>>, <<b2, b1>>}
MCPacketsZero == {<<>>, <<b2>>}
=============================================================================
