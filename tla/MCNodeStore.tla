---------------------------- MODULE MCNodeStore ----------------------------
(* Instances of NodeStore for TLC. *)
EXTENDS NodeStore

CONSTANTS a, b, ka, kb

SumOf == [f \in File |-> IF f = a THEN ka ELSE kb]
=============================================================================
