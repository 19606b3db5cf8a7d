----------------------------- MODULE NodeStore -----------------------------
(***************************************************************************)
(* One node's store with both ways into it: the pool of upload workers and *)
(* the goroutine of resumable uploads share the disk, ldb, the log queue   *)
(* and its consumer.                                                       *)
(***************************************************************************)
EXTENDS TusUpload, UploadPool

NodeInit == TusInit /\ PoolInit

NodeNext == \/ PoolNext /\ UNCHANGED tus
            \/ TusStep /\ UNCHANGED pool

(* Handlers, workers, the log consumer and the goroutine of resumable       *)
(* uploads are never stopped.                                               *)
NodeFairness ==
    /\ \A r \in Request : WF_<<vars, pool>>(HandlerStep(r))
    /\ \A u \in Uploader : WF_<<vars, pool>>(WorkerStep(u))
    /\ WF_vars(CountLog \/ SaveLog)
    /\ WF_<<vars, tus>>(NotifyStep)

NodeSpec == NodeInit /\ [][NodeNext]_<<vars, tus, pool>> /\ NodeFairness

-----------------------------------------------------------------------------
NodeTypeOK == TypeOK /\ TusTypeOK /\ PoolTypeOK
=============================================================================
