---------------------------- MODULE MCAutoRepair ----------------------------
(* Instances of AutoRepair for TLC. *)
EXTENDS AutoRepair

CONSTANTS n1, n2, a, b

OneUpload  == {<<n1, a>>}
TwoUploads == {<<n1, a>>, <<n2, a>>}
OtherNodes == [n \in Node |-> Node \ {n}]
=============================================================================
