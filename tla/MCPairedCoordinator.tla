------------------------ MODULE MCPairedCoordinator ------------------------
(* Small instances of the paired coordinator for TLC.                      *)
EXTENDS PairedCoordinator, TLC

(* Requests and outputs are interchangeable: only equality is ever tested. *)
Symmetry == Permutations(Req) \cup Permutations(Outputs)
=============================================================================
