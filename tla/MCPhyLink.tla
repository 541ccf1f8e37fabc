----------------------------- MODULE MCPhyLink ------------------------------
(* Instances of PhyLink for TLC: a peer that is heard with one setting only,  *)
(* the last the search comes to, and one that is heard with both polarities   *)
(* of the first crossing and understood with the second.                      *)
EXTENDS PhyLink

MCPeers == {[x |-> 2, hears |-> {"N"}, good |-> "N"],
            [x |-> 1, hears |-> {"P", "N"}, good |-> "N"]}
=============================================================================
