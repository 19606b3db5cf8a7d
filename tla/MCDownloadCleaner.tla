------------------------- MODULE MCDownloadCleaner -------------------------
(* Instances of DownloadCleaner for TLC. *)
EXTENDS DownloadCleaner

CONSTANTS n1, n2, a

OneUpload  == {<<n1, a>>}
OtherNodes == [n \in Node |-> Node \ {n}]
=============================================================================
