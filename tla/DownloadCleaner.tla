-------------------------- MODULE DownloadCleaner --------------------------
(***************************************************************************)
(* removeDownloading beside the replication it is part of.  downloadFrom-  *)
(* Peer puts a key downloading_<time>_<path> into ldb before a transfer    *)
(* and deletes it behind it; every three minutes removeDownloading removes *)
(* the file of every key that is older than ten minutes, but not the key.  *)
(*                                                                         *)
(* The model is that of a node without GO_FASTDFS_DIR, whose paths have no *)
(* "_" (other keys are passed over).  Bound: a transfer ends or its process*)
(* dies within ten minutes.                                                *)
(***************************************************************************)
EXTENDS Replication

VARIABLES
    left,        \* left[n]: contents whose key outlived its goroutine
    scan         \* scan[n]: old keys the iterator has still to come to

cleaner == <<left, scan>>

CleanerInit == /\ Init
               /\ left = [n \in Node |-> {}]
               /\ scan = [n \in Node |-> {}]

(* The contents in transfer at n, whose keys are in ldb as well.            *)
Running(n) == {get[n][d].file : d \in {e \in Getter : get[n][e].pc = "get"}}

(* A step of replication.  The deferred Delete of a key does not run when   *)
(* the process dies.                                                        *)
ReplicationStep ==
    /\ Next
    /\ left' = [n \in Node |->
          IF alive[n] /\ ~ alive'[n] THEN left[n] \cup Running(n) ELSE left[n]]
    /\ scan' = [n \in Node |-> IF alive'[n] THEN scan[n] ELSE {}]

(* The iterator takes its snapshot of the keys, of which some are old.      *)
Scan(n) ==
    /\ alive[n] /\ scan[n] = {}
    /\ \E old \in SUBSET left[n] \ {{}} : scan' = [scan EXCEPT ![n] = old]
    /\ UNCHANGED <<vars, left>>

(* os.Remove of the path in an old key: the file's own, not its tmp_ name.  *)
RemoveDownloading(n, f) ==
    /\ alive[n] /\ f \in scan[n]
    /\ scan' = [scan EXCEPT ![n] = @ \ {f}]
    /\ disk' = [disk EXCEPT ![n] = @ \ {f}]
    /\ UNCHANGED <<alive, index, byPath, queueMd5, errorsMd5, chans, toLoad, post, get,
                   env, left>>

CleanerNext == \/ ReplicationStep
               \/ \E n \in Node : \/ Scan(n)
                                  \/ \E f \in File : RemoveDownloading(n, f)

CleanerSpec == CleanerInit /\ [][CleanerNext]_<<vars, cleaner>>

(* removeDownloading "clears expired downloads" (server.go, component 08):  *)
(* a file that was completely fetched and indexed is none, and stays.       *)
FetchedStays == IndexedIsStored
=============================================================================
