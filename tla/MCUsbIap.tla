------------------------------ MODULE MCUsbIap ------------------------------
(* Instances of UsbIap for TLC: three pages of three units before the page of *)
(* CalAddr; one version ends inside the second page, one fills all three, and *)
(* a command carries one or two units.                                        *)
EXTENDS UsbIap, TLC

CONSTANTS v1, v2

MCSizeOf == v1 :> 4 @@ v2 :> 9
=============================================================================
