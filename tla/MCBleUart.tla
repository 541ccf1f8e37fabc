----------------------------- MODULE MCBleUart ------------------------------
(* Instances of BleUart for TLC: a FIFO of three bytes whose indices wrap at   *)
(* six, packets of two bytes, and one more try before a packet that is not     *)
(* full is sent.                                                              *)
EXTENDS BleUart

CONSTANTS b1, b2

MCWrites == {<<b1>>, <<b2, b1>>}
=============================================================================
