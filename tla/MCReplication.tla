--------------------------- MODULE MCReplication ---------------------------
(* Instances of Replication for TLC. *)
EXTENDS Replication, FiniteSetsExt, Functions, TLC

CONSTANTS n1, n2, n3, a, b

(* Clients upload one content at one node, or the same at two nodes. *)
OneUpload  == {<<n1, a>>}
TwoUploads == {<<n1, a>>, <<n2, a>>}
TwoFiles   == {<<n1, a>>, <<n2, b>>}

OtherNodes == [n \in Node |-> Node \ {n}]
AllNodes   == [n \in Node |-> Node]

PeerSymmetry == Permutations(Node \ {n1})

-----------------------------------------------------------------------------
(* An upper bound of the activations of postFileToPeer that a FileInfo with *)
(* this counter can still cause, itself included: every failing peer adds   *)
(* one to the counter and queues a copy.                                    *)
Weight(info) == 2 ^ (RetryCount + 1 - info.retry)

Load(n) ==
    LET active == {t \in Poster : post[n][t].pc # "off"} IN
    FoldSet(LAMBDA t, sum : sum + Weight(post[n][t].info), 0, active)
      + FoldFunction(LAMBDA job, sum : sum + Weight(job.info), 0, toPeers[n])

(* Retrying never multiplies: whatever fails and however often, the work    *)
(* the retries of a node can still cause grows only when a client uploads   *)
(* or the refresh loop sends a failed file again.                           *)
RetriesDwindle ==
    [][\A n \in Node : Load(n)' > Load(n) =>
          \E f \in File : Upload(n, f) \/ ResendError(n, f)]_vars
=============================================================================
