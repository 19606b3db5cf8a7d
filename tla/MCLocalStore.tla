---------------------------- MODULE MCLocalStore ----------------------------
(* Instances of DayLog, and with it of LocalStore, for TLC. *)
EXTENDS DayLog, TLC

Symmetry == Permutations(Uploader) \cup Permutations(Deleter) \cup Permutations(File)
=============================================================================
