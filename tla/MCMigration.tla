---------------------------- MODULE MCMigration ----------------------------
(* Instances of Migration for TLC. *)
EXTENDS Migration, TLC

CONSTANTS n1, n2, n3, d1, d2

OtherNodes == [n \in Node |-> Node \ {n}]

(* n1's version is the newest.                                              *)
NewestHere == [n \in Node |-> IF n = n1 THEN 2 ELSE 1]

Symmetry == Permutations({d1, d2})
=============================================================================
