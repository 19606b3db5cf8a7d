--------------------------- MODULE MCRemoveFanout ---------------------------
(* Instances of RemoveFanout for TLC. *)
EXTENDS RemoveFanout

OtherNodes == [n \in Node |-> Node \ {n}]
=============================================================================
