---------------------------- MODULE MCSmallFile ----------------------------
(* Instances of SmallFile for TLC. *)
EXTENDS SmallFile, TLC

CONSTANTS n1, n2, big, a, b

(* One haystack, of n1, and contents of one byte and of two. *)
OneOwner   == [x \in Hay |-> n1]
TwoLengths == a :> 1 @@ b :> 2

Symmetry == Permutations(Uploader)
=============================================================================
