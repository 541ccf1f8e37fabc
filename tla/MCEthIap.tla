------------------------------ MODULE MCEthIap ------------------------------
(* Instances of EthIap for TLC: areas of two blocks of two pages of two      *)
(* units; one version ends in the middle of a page, one at the end of one,   *)
(* and one would reach into the page of the update flag.                     *)
EXTENDS EthIap, TLC

CONSTANTS v1, v2, v3

MCSizeOf == v1 :> 3 @@ v2 :> 6 @@ v3 :> 7
=============================================================================
