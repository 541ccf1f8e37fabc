------------------------------ MODULE MCCdcUp -------------------------------
(* Instances of CdcUp for TLC: packets of two bytes, a ring that is not a    *)
(* multiple of them, two byte values.                                        *)
EXTENDS CdcUp

CONSTANTS b1, b2
=============================================================================
